---------------------------- MODULE WalletEvents ----------------------------
(***************************************************************************)
(* walletGRPC StreamTransactionEvents: a goroutine moves events from a     *)
(* gRPC server stream to a buffered channel until the stream ends or the   *)
(* context is done, reports a terminal error on a second channel, and      *)
(* closes both.  (The deprecated package-level function in wallet.go is    *)
(* the same code on a shared connection.)                                  *)
(*                                                                         *)
(* The wallet and the caller are the environment.  The caller ranges over  *)
(* the events and then reads the error channel once; it may also stop      *)
(* reading at any point.                                                   *)
(***************************************************************************)
EXTENDS Integers, Sequences

CONSTANTS
    EventCap,    \* capacity of the events channel (16)
    MaxEvents    \* bound: events the wallet emits

ASSUME EventsAssumption == EventCap \in Nat \ {0} /\ MaxEvents \in Nat

VARIABLES
    emitted,   \* events the wallet has emitted: 1 .. emitted
    flight,    \* emitted and not yet received: the stream's own buffer
    end,       \* how the wallet ended the stream: "open", "eof", "error"
    ctxDone,   \* the caller cancelled
    g,         \* the goroutine: "opening", "recv", "put" (in the select), "exit", "errsClosed", "done"
    held,      \* the event it is about to put
    events,    \* the events channel, closed when g = "done"
    errs,      \* the error channel, closed from g = "errsClosed" on
    caller,    \* "range", "errs" (reads the error channel), "done", "gone"
    got,       \* events the caller has received
    gotErr     \* what it read from errs: "none", "nil" (closed), or an error

eventVars == <<emitted, flight, end, ctxDone, g, held, events, errs, caller, got, gotErr>>

-----------------------------------------------------------------------------
(* The wallet, and the connection to it. *)

Emit ==
    /\ g # "opening" /\ end = "open" /\ emitted < MaxEvents
    /\ emitted' = emitted + 1
    /\ flight' = Append(flight, emitted + 1)
    /\ UNCHANGED <<end, ctxDone, g, held, events, errs, caller, got, gotErr>>

\* The wallet ends the stream; what it has sent before arrives.
WalletEnds ==
    /\ g # "opening" /\ end = "open"
    /\ end' \in {"eof", "error"}
    /\ UNCHANGED <<emitted, flight, ctxDone, g, held, events, errs, caller, got, gotErr>>

\* The connection ends: the last events in flight may be lost with it.
ConnectionEnds ==
    /\ g # "opening" /\ end = "open"
    /\ end' = "error"
    /\ \E n \in 0..Len(flight) : flight' = SubSeq(flight, 1, n)
    /\ UNCHANGED <<emitted, ctxDone, g, held, events, errs, caller, got, gotErr>>

-----------------------------------------------------------------------------
(* StreamTransactionEvents. *)

\* The call itself: it spawns the goroutine, if the client is up, or fails with
\* an error, and nothing is started.
Open(up) ==
    /\ g = "opening"
    /\ \/ /\ up
          /\ g' = "recv" /\ UNCHANGED <<end, errs>>
       \/ /\ end' = "error"
          /\ errs' = <<"error">> /\ g' = "done"
    /\ UNCHANGED <<emitted, flight, ctxDone, held, events, caller, got, gotErr>>

\* stream.Recv returns an event.
RecvEvent ==
    /\ g = "recv" /\ flight # <<>>
    /\ held' = <<Head(flight)>>
    /\ flight' = Tail(flight)
    /\ g' = "put"
    /\ UNCHANGED <<emitted, end, ctxDone, events, errs, caller, got, gotErr>>

\* What Recv fails with: the stream's end once it is drained, or the context.
RecvErrors ==
    (IF flight = <<>> /\ end # "open" THEN {end} ELSE {})
        \cup (IF ctxDone THEN {"canceled"} ELSE {})

\* Everything but io.EOF goes to the error channel.
Reported(err) == IF err = "eof" THEN <<>> ELSE <<err>>

\* Mutant: only a clean end leaves the loop; any other error is retried.
RecvErrorRetried ==
    /\ g = "recv"
    /\ \E err \in RecvErrors : /\ errs' = errs
                              /\ g' = IF err = "eof" THEN "exit" ELSE "recv"
    /\ UNCHANGED <<emitted, flight, end, ctxDone, held, events, caller, got, gotErr>>

RecvError ==
    /\ g = "recv"
    /\ \E err \in RecvErrors : errs' = errs \o Reported(err)
    /\ g' = "exit"
    /\ UNCHANGED <<emitted, flight, end, ctxDone, held, events, caller, got, gotErr>>

\* Mutant: when the channel is full the event is dropped.
PutLossy ==
    /\ g = "put"
    /\ events' = IF Len(events) < EventCap THEN events \o held ELSE events
    /\ held' = <<>> /\ g' = "recv"
    /\ UNCHANGED <<emitted, flight, end, ctxDone, errs, caller, got, gotErr>>

\* select: the event fits the channel ...
Put ==
    /\ g = "put" /\ Len(events) < EventCap
    /\ events' = events \o held
    /\ held' = <<>> /\ g' = "recv"
    /\ UNCHANGED <<emitted, flight, end, ctxDone, errs, caller, got, gotErr>>

\* Mutant: a plain send, without the ctx.Done() case.
PutCancelledNever == FALSE /\ UNCHANGED eventVars

\* ... or the context is done: the goroutine leaves without a word.
PutCancelled ==
    /\ g = "put" /\ ctxDone
    /\ held' = <<>> /\ g' = "exit"
    /\ UNCHANGED <<emitted, flight, end, ctxDone, events, errs, caller, got, gotErr>>

\* The deferred closes, last registered first: errs, then events.
CloseErrs ==
    /\ g = "exit" /\ g' = "errsClosed"
    /\ UNCHANGED <<emitted, flight, end, ctxDone, held, events, errs, caller, got, gotErr>>

CloseEvents ==
    /\ g = "errsClosed" /\ g' = "done"
    /\ UNCHANGED <<emitted, flight, end, ctxDone, held, events, errs, caller, got, gotErr>>

-----------------------------------------------------------------------------
(* The caller. *)

TakeEvent ==
    /\ g # "opening" /\ caller = "range" /\ events # <<>>
    /\ got' = Append(got, Head(events)) /\ events' = Tail(events)
    /\ UNCHANGED <<emitted, flight, end, ctxDone, g, held, errs, caller, gotErr>>

RangeEnds ==
    /\ caller = "range" /\ events = <<>> /\ g = "done"
    /\ caller' = "errs"
    /\ UNCHANGED <<emitted, flight, end, ctxDone, g, held, events, errs, got, gotErr>>

ReadErr ==
    /\ caller = "errs" /\ (errs # <<>> \/ g \in {"errsClosed", "done"})
    /\ gotErr' = IF errs = <<>> THEN "nil" ELSE Head(errs)
    /\ errs' = IF errs = <<>> THEN errs ELSE Tail(errs)
    /\ caller' = "done"
    /\ UNCHANGED <<emitted, flight, end, ctxDone, g, held, events, got>>

Cancel ==
    /\ ~ctxDone
    /\ ctxDone' = TRUE
    /\ UNCHANGED <<emitted, flight, end, g, held, events, errs, caller, got, gotErr>>

\* The caller stops reading the events.
WalkAway ==
    /\ g # "opening" /\ caller = "range"
    /\ caller' = "gone"
    /\ UNCHANGED <<emitted, flight, end, ctxDone, g, held, events, errs, got, gotErr>>

-----------------------------------------------------------------------------
EventsInit ==
    /\ emitted = 0 /\ flight = <<>> /\ end = "open" /\ ctxDone = FALSE
    /\ g = "opening" /\ held = <<>> /\ events = <<>> /\ errs = <<>>
    /\ caller = "range" /\ got = <<>> /\ gotErr = "none"

Goroutine == RecvEvent \/ RecvError \/ Put \/ PutCancelled \/ CloseErrs \/ CloseEvents
Caller == TakeEvent \/ RangeEnds \/ ReadErr
EventsNext ==
    \/ Open(TRUE) \/ Goroutine
    \/ Caller \/ Cancel \/ WalkAway
    \/ Emit \/ WalletEnds \/ ConnectionEnds

EventsSpec == EventsInit /\ [][EventsNext]_eventVars

-----------------------------------------------------------------------------
\* Every variable has its type, and the events channel respects its capacity.
EventsTypeOK ==
    /\ emitted \in 0..MaxEvents /\ end \in {"open", "eof", "error"} /\ ctxDone \in BOOLEAN
    /\ g \in {"opening", "recv", "put", "exit", "errsClosed", "done"}
    /\ caller \in {"range", "errs", "done", "gone"}
    /\ gotErr \in {"none", "nil", "error", "canceled"}
    /\ flight \in Seq(Nat) /\ held \in Seq(Nat) /\ events \in Seq(Nat) /\ got \in Seq(Nat)
    /\ errs \in Seq({"error", "canceled"})
    /\ Len(events) <= EventCap

Stream == INSTANCE EventStream WITH
    sent <- emitted, cancelled <- ctxDone, delivered <- got, told <- gotErr

\* Goroutine, channels and select give the caller what EventStream promises:
\* no event is lost, doubled or overtaken on the way, and nil stands for a
\* stream that ended and was delivered whole, never for one that broke, unless
\* the caller itself cancelled.
ImplementsEventStream == Stream!Spec

\* A caller that keeps reading learns of every end of the stream, by EOF, by an
\* error or by its own cancellation: its range over the events ends and the
\* error channel answers.
EndReachesCaller == (ctxDone \/ end # "open") ~> caller \in {"done", "gone"}

\* A cancelled stream leaves no goroutine behind, also when its channel is full
\* and nobody reads it any more.
CancelEndsGoroutine == ctxDone ~> g = "done"

\* "forwards any terminal error (other than a clean io.EOF)": a stream that
\* the goroutine leaves without an EOF has an error on its way to the caller.
TerminalErrorForwarded ==
    (g = "done" /\ ~(end = "eof" /\ flight = <<>>)) => errs # <<>> \/ gotErr \notin {"none", "nil"}
=============================================================================
