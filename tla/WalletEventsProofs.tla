------------------------- MODULE WalletEventsProofs -------------------------
(***************************************************************************)
(* The event stream of walletGRPC implements EventStream, for every        *)
(* capacity of the events channel and any number of events.                *)
(***************************************************************************)
EXTENDS WalletEvents, SequenceTheorems, TLAPS

Active == g \in {"opening", "recv", "put"}

\* Events taken from the stream's buffer: in the caller's, the channel's or the
\* goroutine's hands.
Taken == Len(got) + Len(events) + Len(held)

\* What the caller has, and what waits for it in the channel, is 1, 2, 3, ...
DeliveredInv ==
    /\ \A i \in 1..Len(got) : got[i] = i
    /\ \A i \in 1..Len(events) : events[i] = Len(got) + i
    /\ Len(got) + Len(events) <= emitted

\* As long as the goroutine receives, what it holds and what is in flight
\* carries on from there, up to the last event unless the connection broke.
ReceivingInv ==
    /\ IF g = "put" THEN Len(held) = 1 /\ held[1] = Len(got) + Len(events) + 1 ELSE held = <<>>
    /\ Active =>
          /\ \A i \in 1..Len(flight) : flight[i] = Taken + i
          /\ Taken + Len(flight) <= emitted
          /\ end # "error" => Taken + Len(flight) = emitted

\* An error that waits for the caller, or reached it, has its cause; and when
\* the goroutine is over and there is none, the stream was delivered whole or
\* the caller cancelled.
EndInv ==
    /\ Active => errs = <<>>
    /\ g = "opening" => end = "open"
    /\ Len(errs) <= 1
    /\ errs # <<>> => (errs[1] = "canceled" /\ ctxDone) \/ (errs[1] = "error" /\ end = "error")
    /\ (~Active /\ errs = <<>> /\ gotErr = "none" /\ ~ctxDone) =>
          end = "eof" /\ Len(got) + Len(events) = emitted
    /\ caller = "errs" => g = "done" /\ events = <<>>
    /\ caller \in {"range", "errs"} => gotErr = "none"

EventsInv == EventsTypeOK /\ DeliveredInv /\ ReceivingInv /\ EndInv

-----------------------------------------------------------------------------
LEMMA AppendFacts ==
    ASSUME NEW s \in Seq(Nat), NEW n \in Nat
    PROVE  /\ Append(s, n) \in Seq(Nat) /\ Len(Append(s, n)) = Len(s) + 1
           /\ \A i \in 1..Len(s) : Append(s, n)[i] = s[i]
           /\ Append(s, n)[Len(s) + 1] = n
OBVIOUS

LEMMA ConcatFacts ==
    ASSUME NEW s \in Seq(Nat), NEW t \in Seq(Nat), Len(t) = 1
    PROVE  /\ s \o t \in Seq(Nat) /\ Len(s \o t) = Len(s) + 1
           /\ \A i \in 1..Len(s) : (s \o t)[i] = s[i]
           /\ (s \o t)[Len(s) + 1] = t[1]
<1> Len(s) \in Nat
  OBVIOUS
<1>1. s \o t \in Seq(Nat) /\ Len(s \o t) = Len(s) + Len(t)
  BY ConcatProperties
<1>2. \A i \in 1..Len(s) + Len(t) :
         (s \o t)[i] = IF i <= Len(s) THEN s[i] ELSE t[i - Len(s)]
  BY ConcatProperties
<1>3. (s \o t)[Len(s) + 1] = t[1]
  BY <1>1, <1>2
<1> QED BY <1>1, <1>2, <1>3

LEMMA TailFacts ==
    ASSUME NEW s \in Seq(Nat), s # <<>>
    PROVE  /\ Head(s) \in Nat /\ Head(s) = s[1]
           /\ Tail(s) \in Seq(Nat) /\ Len(s) \in Nat \ {0} /\ Len(Tail(s)) = Len(s) - 1
           /\ \A i \in 1..Len(Tail(s)) : Tail(s)[i] = s[i + 1]
OBVIOUS

LEMMA ErrorChannel ==
    /\ <<"error">> \in Seq({"error", "canceled"}) /\ <<"error">> # <<>>
    /\ Len(<<"error">>) = 1 /\ <<"error">>[1] = "error"
    /\ <<"canceled">> \in Seq({"error", "canceled"}) /\ <<"canceled">> # <<>>
    /\ Len(<<"canceled">>) = 1 /\ <<"canceled">>[1] = "canceled"
    /\ <<>> \in Seq({"error", "canceled"}) /\ Len(<<>>) = 0 /\ <<>> \in Seq(Nat)
OBVIOUS

LEMMA EventsStart == EventsInit => EventsInv
<1> SUFFICES ASSUME EventsInit PROVE EventsInv
  OBVIOUS
<1>1. EventsTypeOK
  <2>1. Len(events) <= EventCap /\ emitted \in 0..MaxEvents
    BY EventsAssumption, ErrorChannel DEF EventsInit
  <2> QED BY <2>1, ErrorChannel DEF EventsInit, EventsTypeOK
<1>2. DeliveredInv /\ ReceivingInv
  BY ErrorChannel DEF EventsInit, DeliveredInv, ReceivingInv, Active, Taken
<1>3. EndInv
  BY ErrorChannel DEF EventsInit, EndInv, Active
<1> QED BY <1>1, <1>2, <1>3 DEF EventsInv

LEMMA EmitKeeps == ASSUME EventsInv, Emit PROVE EventsInv'
<1> USE DEF EventsInv
<1>1. /\ flight' \in Seq(Nat) /\ Len(flight') = Len(flight) + 1
      /\ \A i \in 1..Len(flight) : flight'[i] = flight[i]
      /\ flight'[Len(flight) + 1] = emitted + 1
  BY AppendFacts DEF Emit, EventsTypeOK
<1>2. /\ end = "open" /\ g # "opening" /\ emitted < MaxEvents /\ emitted' = emitted + 1
      /\ UNCHANGED <<end, ctxDone, g, held, events, errs, caller, got, gotErr>>
  BY DEF Emit
<1>3. EventsTypeOK'
  BY <1>1, <1>2, EventsAssumption DEF EventsTypeOK
<1>4. DeliveredInv'
  BY <1>2 DEF DeliveredInv, EventsTypeOK
<1>5. Taken \in Nat /\ Taken' = Taken
  BY <1>2 DEF Taken, EventsTypeOK
<1>6. ASSUME Active
      PROVE  /\ Taken + Len(flight') = emitted'
             /\ \A i \in 1..Len(flight') : flight'[i] = Taken + i
  <2>1. Len(flight) \in Nat /\ Taken + Len(flight) = emitted
    BY <1>2, <1>6 DEF ReceivingInv, EventsTypeOK
  <2>2. \A i \in 1..Len(flight) : flight[i] = Taken + i
    BY <1>6 DEF ReceivingInv
  <2>3. flight'[Len(flight) + 1] = Taken + Len(flight) + 1
    BY <1>1, <2>1
  <2>4. \A i \in 1..Len(flight') : flight'[i] = Taken + i
    <3> SUFFICES ASSUME NEW i \in 1..Len(flight') PROVE flight'[i] = Taken + i
      OBVIOUS
    <3>1. CASE i \in 1..Len(flight)
      BY <1>1, <2>2, <3>1
    <3>2. CASE i = Len(flight) + 1
      BY <1>5, <2>1, <2>3, <3>2
    <3> QED BY <1>1, <2>1, <3>1, <3>2
  <2> QED BY <1>1, <1>2, <1>5, <2>1, <2>4
<1>7. ReceivingInv'
  BY <1>2, <1>3, <1>5, <1>6 DEF ReceivingInv, Active, EventsTypeOK
<1>8. EndInv'
  BY <1>2 DEF EndInv, Active, EventsTypeOK
<1> QED BY <1>3, <1>4, <1>7, <1>8

LEMMA EndsKeep == ASSUME EventsInv, WalletEnds \/ ConnectionEnds PROVE EventsInv'
<1> USE DEF EventsInv
<1>1. /\ end = "open" /\ g # "opening" /\ end' \in {"eof", "error"}
      /\ UNCHANGED <<emitted, ctxDone, g, held, events, errs, caller, got, gotErr>>
  BY DEF WalletEnds, ConnectionEnds
<1>2. PICK n \in 0..Len(flight) :
         /\ flight' \in Seq(Nat) /\ Len(flight') = n
         /\ \A i \in 1..n : flight'[i] = flight[i]
         /\ end' = "eof" => n = Len(flight)
  <2>1. CASE WalletEnds
    BY <2>1 DEF WalletEnds, EventsTypeOK
  <2>2. CASE ConnectionEnds
    <3>1. PICK n \in 0..Len(flight) : flight' = SubSeq(flight, 1, n)
      BY <2>2 DEF ConnectionEnds
    <3>2. /\ flight' \in Seq(Nat) /\ Len(flight') = n
          /\ \A i \in 1..n : flight'[i] = flight[i]
      BY <3>1, SMTT(60) DEF EventsTypeOK
    <3> QED BY <2>2, <3>2 DEF ConnectionEnds
  <2> QED BY <2>1, <2>2
<1>4. EventsTypeOK'
  BY <1>1, <1>2 DEF EventsTypeOK
<1>5. DeliveredInv'
  BY <1>1 DEF DeliveredInv, EventsTypeOK
<1>6. Taken \in Nat /\ Taken' = Taken
  BY <1>1 DEF Taken, EventsTypeOK
<1>7. ReceivingInv'
  <2>1. Len(flight) \in Nat /\ emitted \in Nat
    BY DEF EventsTypeOK
  <2>2. ASSUME Active
        PROVE  /\ \A i \in 1..Len(flight') : flight'[i] = Taken + i
               /\ Taken + Len(flight') <= emitted
               /\ end' # "error" => Taken + Len(flight') = emitted
    <3>1. /\ \A i \in 1..Len(flight) : flight[i] = Taken + i
          /\ Taken + Len(flight) = emitted
      BY <1>1, <2>2 DEF ReceivingInv
    <3>2. \A i \in 1..n : flight'[i] = flight[i] /\ i \in 1..Len(flight)
      BY <1>2, <2>1
    <3>3. Len(flight') = n /\ n \in 0..Len(flight)
      BY <1>2
    <3>4. \A i \in 1..Len(flight') : flight'[i] = Taken + i
      BY <3>1, <3>2, <3>3
    <3>5. Taken + Len(flight') <= emitted
      BY <1>6, <2>1, <3>1, <3>3
    <3>6. end' # "error" => Taken + Len(flight') = emitted
      BY <1>1, <1>2, <3>1, <3>3
    <3> QED BY <3>4, <3>5, <3>6
  <2> QED BY <1>1, <1>6, <2>2 DEF ReceivingInv, Active
<1>8. EndInv'
  BY <1>1 DEF EndInv, Active, EventsTypeOK
<1> QED BY <1>4, <1>5, <1>7, <1>8

LEMMA CancelKeeps == ASSUME EventsInv, Cancel \/ WalkAway PROVE EventsInv'
<1> USE DEF EventsInv, EventsTypeOK, DeliveredInv, ReceivingInv, EndInv, Active, Taken
<1>1. CASE Cancel
  BY <1>1 DEF Cancel
<1>2. CASE WalkAway
  BY <1>2 DEF WalkAway
<1> QED BY <1>1, <1>2

LEMMA OpenKeeps == ASSUME EventsInv, Open(TRUE) PROVE EventsInv'
<1> USE DEF EventsInv
<1>1. /\ g = "opening" /\ end = "open" /\ errs = <<>> /\ held = <<>>
      /\ UNCHANGED <<emitted, flight, ctxDone, held, events, caller, got, gotErr>>
  BY DEF Open, ReceivingInv, EndInv, Active
<1>2. \/ g' = "recv" /\ UNCHANGED <<end, errs>>
      \/ g' = "done" /\ end' = "error" /\ errs' = <<"error">>
  BY DEF Open
<1>3. EventsTypeOK'
  BY <1>1, <1>2, ErrorChannel DEF EventsTypeOK
<1>4. DeliveredInv'
  BY <1>1 DEF DeliveredInv
<1>5. ReceivingInv'
  BY <1>1, <1>2 DEF ReceivingInv, Active, Taken
<1>6. EndInv'
  <2>1. CASE g' = "recv" /\ UNCHANGED <<end, errs>>
    BY <1>1, <2>1 DEF EndInv, Active
  <2>2. CASE g' = "done" /\ end' = "error" /\ errs' = <<"error">>
    BY <1>1, <2>2, ErrorChannel DEF EndInv, Active
  <2> QED BY <1>2, <2>1, <2>2
<1> QED BY <1>3, <1>4, <1>5, <1>6

LEMMA RecvEventKeeps == ASSUME EventsInv, RecvEvent PROVE EventsInv'
<1> USE DEF EventsInv
<1>1. /\ g = "recv" /\ g' = "put" /\ held = <<>> /\ flight # <<>>
      /\ held' = <<Head(flight)>> /\ flight' = Tail(flight)
      /\ UNCHANGED <<emitted, end, ctxDone, events, errs, caller, got, gotErr>>
  BY DEF RecvEvent, ReceivingInv
<1>2. /\ Len(flight) \in Nat \ {0} /\ flight' \in Seq(Nat) /\ Len(flight') = Len(flight) - 1
      /\ Head(flight) = flight[1] /\ Head(flight) \in Nat
      /\ \A i \in 1..Len(flight') : flight'[i] = flight[i + 1]
  BY <1>1, TailFacts DEF EventsTypeOK
<1>3. held' \in Seq(Nat) /\ Len(held') = 1 /\ held'[1] = flight[1]
  BY <1>1, <1>2
<1>4. EventsTypeOK'
  BY <1>1, <1>2, <1>3 DEF EventsTypeOK
<1>5. Taken = Len(got) + Len(events) /\ Taken \in Nat /\ Taken' = Taken + 1
  BY <1>1, <1>3, ErrorChannel DEF Taken, EventsTypeOK
<1>6. DeliveredInv'
  BY <1>1 DEF DeliveredInv
<1>7. ReceivingInv'
  <2>1. /\ \A i \in 1..Len(flight) : flight[i] = Taken + i
        /\ Taken + Len(flight) <= emitted
        /\ end # "error" => Taken + Len(flight) = emitted
    BY <1>1 DEF ReceivingInv, Active
  <2>2. held'[1] = Len(got) + Len(events) + 1
    BY <1>2, <1>3, <1>5, <2>1
  <2>3. \A i \in 1..Len(flight') : flight'[i] = Taken' + i
    BY <1>2, <1>5, <2>1
  <2>4. Taken' + Len(flight') = Taken + Len(flight)
    BY <1>2, <1>5
  <2> QED BY <1>1, <1>3, <2>1, <2>2, <2>3, <2>4 DEF ReceivingInv
<1>8. EndInv'
  BY <1>1 DEF EndInv, Active
<1> QED BY <1>4, <1>6, <1>7, <1>8

\* Recv's error has its cause, and a clean end finds the buffer empty.
LEMMA RecvErrorKeeps == ASSUME EventsInv, RecvError PROVE EventsInv'
<1> USE DEF EventsInv
<1>1. /\ g = "recv" /\ g' = "exit" /\ errs = <<>> /\ held = <<>>
      /\ UNCHANGED <<emitted, flight, end, ctxDone, held, events, caller, got, gotErr>>
  BY DEF RecvError, ReceivingInv, EndInv, Active
<1>2. PICK err \in RecvErrors : errs' = errs \o Reported(err)
  BY DEF RecvError
<1>3. \/ err = "eof" /\ flight = <<>> /\ end = "eof"
      \/ err = "error" /\ end = "error"
      \/ err = "canceled" /\ ctxDone
  BY DEF RecvErrors, EventsTypeOK
<1>4. errs' = Reported(err)
  BY <1>1, <1>2 DEF Reported
<1>5. \/ errs' = <<>> /\ flight = <<>> /\ end = "eof"
      \/ errs' = <<"error">> /\ end = "error"
      \/ errs' = <<"canceled">> /\ ctxDone
  BY <1>3, <1>4 DEF Reported
<1>6. EventsTypeOK'
  BY <1>1, <1>5, ErrorChannel DEF EventsTypeOK
<1>7. DeliveredInv' /\ ReceivingInv'
  BY <1>1 DEF DeliveredInv, ReceivingInv, Active
<1>8. EndInv'
  <2>1. CASE errs' = <<>> /\ flight = <<>> /\ end = "eof"
    <3>1. Len(got) + Len(events) = emitted
      BY <1>1, <2>1, ErrorChannel DEF ReceivingInv, Active, Taken, EventsTypeOK
    <3> QED BY <1>1, <2>1, <3>1, ErrorChannel DEF EndInv, Active
  <2>2. CASE errs' = <<"error">> /\ end = "error"
    BY <1>1, <2>2, ErrorChannel DEF EndInv, Active
  <2>3. CASE errs' = <<"canceled">> /\ ctxDone
    BY <1>1, <2>3, ErrorChannel DEF EndInv, Active
  <2> QED BY <1>5, <2>1, <2>2, <2>3
<1> QED BY <1>6, <1>7, <1>8

LEMMA PutKeeps == ASSUME EventsInv, Put PROVE EventsInv'
<1> USE DEF EventsInv
<1>1. /\ g = "put" /\ g' = "recv" /\ held' = <<>> /\ events' = events \o held
      /\ Len(events) < EventCap
      /\ UNCHANGED <<emitted, flight, end, ctxDone, errs, caller, got, gotErr>>
  BY DEF Put
<1>2. Len(held) = 1 /\ held[1] = Len(got) + Len(events) + 1
  BY <1>1 DEF ReceivingInv
<1>3. /\ events' \in Seq(Nat) /\ Len(events') = Len(events) + 1
      /\ \A i \in 1..Len(events) : events'[i] = events[i]
      /\ events'[Len(events) + 1] = held[1]
  BY <1>1, <1>2, ConcatFacts, SMTT(60) DEF EventsTypeOK
<1>4. EventsTypeOK'
  BY <1>1, <1>3, ErrorChannel, EventsAssumption DEF EventsTypeOK
<1>5. Taken \in Nat /\ Taken' = Taken
  BY <1>1, <1>2, <1>3, ErrorChannel DEF Taken, EventsTypeOK
<1>6. DeliveredInv'
  <2>1. Len(got) \in Nat /\ Len(events) \in Nat /\ Len(flight) \in Nat /\ emitted \in Nat
    BY DEF EventsTypeOK
  <2>2. Len(got) + Len(events) + 1 <= emitted
    BY <1>1, <1>2, <2>1 DEF ReceivingInv, Active, Taken
  <2>3. \A i \in 1..Len(events') : events'[i] = Len(got) + i
    <3>1. \A i \in 1..Len(events) : events[i] = Len(got) + i
      BY DEF DeliveredInv
    <3> SUFFICES ASSUME NEW i \in 1..Len(events') PROVE events'[i] = Len(got) + i
      OBVIOUS
    <3>2. CASE i \in 1..Len(events)
      BY <1>3, <3>1, <3>2
    <3>3. CASE i = Len(events) + 1
      BY <1>2, <1>3, <2>1, <3>3
    <3> QED BY <1>3, <2>1, <3>2, <3>3
  <2> QED BY <1>1, <1>3, <2>1, <2>2, <2>3 DEF DeliveredInv
<1>7. ReceivingInv'
  BY <1>1, <1>5 DEF ReceivingInv, Active
<1>8. EndInv'
  BY <1>1, <1>3 DEF EndInv, Active, EventsTypeOK
<1> QED BY <1>4, <1>6, <1>7, <1>8

LEMMA ExitKeeps == ASSUME EventsInv, PutCancelled \/ CloseErrs \/ CloseEvents PROVE EventsInv'
<1> USE DEF EventsInv, EventsTypeOK, DeliveredInv, ReceivingInv, EndInv, Active, Taken
<1>1. CASE PutCancelled
  BY <1>1 DEF PutCancelled
<1>2. CASE CloseErrs
  BY <1>2 DEF CloseErrs
<1>3. CASE CloseEvents
  BY <1>3 DEF CloseEvents
<1> QED BY <1>1, <1>2, <1>3

LEMMA TakeKeeps == ASSUME EventsInv, TakeEvent PROVE EventsInv'
<1> USE DEF EventsInv
<1>1. /\ caller = "range" /\ events # <<>>
      /\ got' = Append(got, Head(events)) /\ events' = Tail(events)
      /\ UNCHANGED <<emitted, flight, end, ctxDone, g, held, errs, caller, gotErr>>
  BY DEF TakeEvent
<1>2. /\ Len(events) \in Nat \ {0} /\ events' \in Seq(Nat) /\ Len(events') = Len(events) - 1
      /\ Head(events) = events[1] /\ Head(events) \in Nat
      /\ \A i \in 1..Len(events') : events'[i] = events[i + 1]
  BY <1>1, TailFacts DEF EventsTypeOK
<1>3. Head(events) = Len(got) + 1
  BY <1>2 DEF DeliveredInv
<1>4. /\ got' \in Seq(Nat) /\ Len(got') = Len(got) + 1
      /\ \A i \in 1..Len(got) : got'[i] = got[i]
      /\ got'[Len(got) + 1] = Len(got) + 1
  BY <1>1, <1>2, <1>3, AppendFacts DEF EventsTypeOK
<1>5. EventsTypeOK'
  BY <1>1, <1>2, <1>4, EventsAssumption DEF EventsTypeOK
<1>6. Len(got) \in Nat /\ Len(got') + Len(events') = Len(got) + Len(events)
  BY <1>2, <1>4 DEF EventsTypeOK
<1>7. DeliveredInv'
  BY <1>1, <1>2, <1>4, <1>6, SMTT(60) DEF DeliveredInv, EventsTypeOK
<1>8. ReceivingInv'
  BY <1>1, <1>6 DEF ReceivingInv, Active, Taken
<1>9. EndInv'
  BY <1>1, <1>6 DEF EndInv, Active
<1> QED BY <1>5, <1>7, <1>8, <1>9

LEMMA ReadKeeps == ASSUME EventsInv, RangeEnds \/ ReadErr PROVE EventsInv'
<1> USE DEF EventsInv, EventsTypeOK, DeliveredInv, ReceivingInv, EndInv, Active, Taken
<1>1. CASE RangeEnds
  BY <1>1 DEF RangeEnds
<1>2. CASE ReadErr
  BY <1>2 DEF ReadErr
<1> QED BY <1>1, <1>2

LEMMA EventsStep == ASSUME EventsInv, [EventsNext]_eventVars PROVE EventsInv'
<1>1. CASE UNCHANGED eventVars
  BY <1>1 DEF eventVars, EventsInv, EventsTypeOK, DeliveredInv, ReceivingInv, EndInv, Active, Taken
<1>2. CASE EventsNext
  BY <1>2, EmitKeeps, EndsKeep, CancelKeeps, OpenKeeps, RecvEventKeeps, RecvErrorKeeps,
     PutKeeps, ExitKeeps, TakeKeeps, ReadKeeps
     DEF EventsNext, Goroutine, Caller
<1> QED BY <1>1, <1>2

LEMMA EventsInvariant == EventsSpec => []EventsInv
BY EventsStart, EventsStep, PTL DEF EventsSpec

\* Every variable keeps its type, the events channel its capacity and the error
\* channel its one place, so that the goroutine's send on it never blocks.
THEOREM EventsTypeCorrect == EventsSpec => [](EventsTypeOK /\ Len(errs) <= 1)
<1>1. EventsInv => EventsTypeOK /\ Len(errs) <= 1
  BY DEF EventsInv, EndInv
<1> QED BY <1>1, EventsInvariant, PTL

-----------------------------------------------------------------------------
(* Refinement.                                                             *)

USE DEF Stream!vars

LEMMA StreamStarts == EventsInit => Stream!Init
BY DEF EventsInit, Stream!Init

\* What the caller takes from the channel is the next event.
LEMMA TakeDelivers == ASSUME EventsInv, TakeEvent PROVE Stream!Deliver
<1>1. Head(events) = events[1] /\ Len(events) \in Nat \ {0} /\ Len(got) \in Nat
  BY TailFacts DEF TakeEvent, EventsInv, EventsTypeOK
<1>2. events[1] = Len(got) + 1 /\ Len(got) < emitted
  BY <1>1 DEF EventsInv, DeliveredInv, EventsTypeOK
<1>3. gotErr = "none"
  BY DEF TakeEvent, EventsInv, EndInv
<1> QED BY <1>1, <1>2, <1>3 DEF TakeEvent, Stream!Deliver

\* What it reads from the error channel is true of the stream.
LEMMA ReadTells == ASSUME EventsInv, ReadErr PROVE Stream!Tell
<1>1. /\ gotErr = "none" /\ g = "done" /\ events = <<>> /\ Len(events) = 0
      /\ UNCHANGED <<emitted, end, ctxDone, got>>
  BY DEF ReadErr, EventsInv, EndInv
<1>2. CASE errs = <<>>
  <2>1. gotErr' = "nil"
    BY <1>2 DEF ReadErr
  <2>2. ctxDone \/ (end = "eof" /\ Len(got) = emitted)
    BY <1>1, <1>2 DEF EventsInv, EndInv, Active, EventsTypeOK
  <2> QED BY <1>1, <2>1, <2>2 DEF Stream!Tell, Stream!MayTell
<1>3. CASE errs # <<>>
  <2>1. gotErr' = errs[1]
    BY <1>3 DEF ReadErr, EventsInv, EventsTypeOK
  <2>2. (errs[1] = "canceled" /\ ctxDone) \/ (errs[1] = "error" /\ end = "error")
    BY <1>3 DEF EventsInv, EndInv
  <2> QED BY <1>1, <2>1, <2>2 DEF Stream!Tell, Stream!MayTell
<1> QED BY <1>2, <1>3

LEMMA StreamStep == ASSUME EventsInv, [EventsNext]_eventVars PROVE [Stream!Next]_(Stream!vars)
<1>1. CASE UNCHANGED eventVars
  BY <1>1 DEF eventVars
<1>2. CASE Emit
  BY <1>2 DEF Emit, Stream!Send, Stream!Next
<1>3. CASE WalletEnds \/ ConnectionEnds
  BY <1>3 DEF WalletEnds, ConnectionEnds, Stream!End, Stream!Next
<1>4. CASE Open(TRUE)
  <2>1. end = "open"
    BY <1>4 DEF Open, EventsInv, EndInv
  <2> QED BY <1>4, <2>1 DEF Open, Stream!End, Stream!Next
<1>5. CASE Goroutine
  BY <1>5 DEF Goroutine, RecvEvent, RecvError, Put, PutCancelled, CloseErrs, CloseEvents
<1>6. CASE TakeEvent
  BY <1>6, TakeDelivers DEF Stream!Next
<1>7. CASE ReadErr
  BY <1>7, ReadTells DEF Stream!Next
<1>8. CASE RangeEnds \/ WalkAway
  BY <1>8 DEF RangeEnds, WalkAway
<1>9. CASE Cancel
  BY <1>9 DEF Cancel, Stream!Cancel, Stream!Next
<1> QED BY <1>1, <1>2, <1>3, <1>4, <1>5, <1>6, <1>7, <1>8, <1>9 DEF EventsNext, Caller

\* StreamTransactionEvents implements EventStream: goroutine, channels and
\* select lose, double or overtake no event, and nil stands for a stream that
\* was delivered whole unless the caller cancelled.
THEOREM StreamRefined == EventsSpec => ImplementsEventStream
<1>1. EventsInit => Stream!Init
  BY StreamStarts
<1>2. ASSUME EventsInv, [EventsNext]_eventVars PROVE [Stream!Next]_(Stream!vars)
  BY <1>2, StreamStep
<1> QED BY <1>1, <1>2, EventsInvariant, PTL DEF EventsSpec, ImplementsEventStream, Stream!Spec
=============================================================================
