-------------------------- MODULE P2PSessionProofs --------------------------
(***************************************************************************)
(* Proofs about P2PSession for every transport capacity, every number of   *)
(* Yamux frames and every set of faults: type correctness, exclusive use   *)
(* of each direction of the connection, the wire protocol, that neither end*)
(* meets garbage, that both hold matching keys when they use them, and that*)
(* the deadline ends before Yamux.                                         *)
(***************************************************************************)
EXTENDS P2PSession, TLAPS

\* Units an end has written before it enters the k-th step of its script.
HsBefore(e, k) ==
    IF e = "I" THEN (IF k = 1 THEN 0 ELSE IF k = 2 THEN 1 ELSE 3)
    ELSE IF k = 4 THEN 2 ELSE 0

KeyOf(e) == IF e = "I" THEN "cs1" ELSE "cs2"

\* 1 while the current unit of goroutine t is on the wire and its Write pends.
Put(e, t) == IF t \in inWrite[e] THEN 1 ELSE 0

OthersOff(e) == \A t \in Threads \ {"main"} : th[e][t] = "off"

\* Before the handshake nothing runs and nothing is written.
StartInv(e) ==
    pc[e] = "start" =>
        /\ \A t \in Threads : th[e][t] = "off"
        /\ inWrite[e] = {} /\ Len(wire[e]) = 0
        /\ step[e] = 1 /\ txn[e] = 0 /\ ~sendDone[e] /\ ~recvDone[e]

\* During the handshake only main runs, and the script position fixes what is
\* on the wire.
HandshakeInv(e) ==
    pc[e] = "hs" =>
        /\ OthersOff(e) /\ txn[e] = 0 /\ ~sendDone[e] /\ ~recvDone[e]
        /\ th[e]["main"] \in IOStates
        /\ th[e]["main"] = "raw" <=> step[e] = 1
        /\ inWrite[e] \subseteq {"main"}
        /\ Role(e, "main") = "r" => inWrite[e] = {}
        /\ Len(wire[e]) = HsBefore(e, step[e]) + Put(e, "main")
             + (IF Role(e, "main") = "w" /\ th[e]["main"] = "body" THEN 1 ELSE 0)

\* During the exchange only the send half writes, and it writes frame 0.
ExchangeInv(e) ==
    pc[e] = "ident" =>
        /\ th[e]["main"] = "off" /\ th[e]["ysend"] = "off" /\ th[e]["yrecv"] = "off"
        /\ tx[e] = KeyOf(e) /\ inWrite[e] \subseteq {"send"}

        /\ sendDone[e] => th[e]["send"] = "ok"
        /\ recvDone[e] => th[e]["recv"] = "ok"
        /\ th[e]["send"] = "ready" => txn[e] = 0 /\ Len(wire[e]) = HsLen(e)
        /\ th[e]["send"] = "len" =>
             txn[e] = 1 /\ num[e]["send"] = 0 /\ Len(wire[e]) = HsLen(e) + Put(e, "send")
        /\ th[e]["send"] = "body" =>
             txn[e] = 1 /\ num[e]["send"] = 0 /\ Len(wire[e]) = HsLen(e) + 1 + Put(e, "send")
        /\ th[e]["send"] = "ok" => txn[e] = 1 /\ Len(wire[e]) = HsLen(e) + 2
        /\ th[e]["send"] \notin {"off", "raw"}

\* In the Yamux phase only the Yamux send loop writes, one frame per nonce.
YamuxInv(e) ==
    pc[e] = "yamux" =>
        /\ th[e]["main"] = "off" /\ tx[e] = KeyOf(e) /\ inWrite[e] \subseteq {"ysend"}
        /\ txn[e] >= 1 /\ th[e]["ysend"] \in {"ready", "len", "body"}
        /\ th[e]["ysend"] = "ready" => Len(wire[e]) = HsLen(e) + 2 * txn[e]
        /\ th[e]["ysend"] = "len" =>
             /\ num[e]["ysend"] = txn[e] - 1 /\ num[e]["ysend"] >= 1
             /\ Len(wire[e]) = HsLen(e) + 2 * num[e]["ysend"] + Put(e, "ysend")
        /\ th[e]["ysend"] = "body" =>
             /\ num[e]["ysend"] = txn[e] - 1 /\ num[e]["ysend"] >= 1
             /\ Len(wire[e]) = HsLen(e) + 2 * num[e]["ysend"] + 1 + Put(e, "ysend")

\* Which goroutines can be alive together, in any phase.
ThreadInv(e) ==
    /\ InIO(e, "main") => pc[e] = "hs"
    /\ pc[e] = "closed" => th[e]["main"] = "off"
    /\ \A t \in inWrite[e] : InIO(e, t)
    /\ (th[e]["ysend"] # "off" \/ th[e]["yrecv"] # "off" \/ pc[e] = "yamux")
         => th[e]["send"] = "ok" /\ th[e]["recv"] = "ok"

\* What e has put on the wire follows the protocol.
WireInv(e) ==
    /\ \A i \in 1..HsLen(e) : i <= Len(wire[e]) => wire[e][i] = HandshakeUnits(e)[i]
    /\ \A n \in Nat :
        /\ HsLen(e) + 2*n + 1 <= Len(wire[e]) =>
             wire[e][HsLen(e) + 2*n + 1] = FrameUnit(e, n, "len")
        /\ HsLen(e) + 2*n + 2 <= Len(wire[e]) =>
             wire[e][HsLen(e) + 2*n + 2] = FrameUnit(e, n, "body")

EndInv(e) ==
    /\ StartInv(e) /\ HandshakeInv(e) /\ ExchangeInv(e) /\ YamuxInv(e) /\ ThreadInv(e)

\* The inductive invariant without the wire's contents.
IInv == TypeOK /\ \A e \in Ends : EndInv(e)

-----------------------------------------------------------------------------
\* The two handshake scripts, entry by entry.
LEMMA ScriptFacts ==
    ASSUME NEW e \in Ends
    PROVE  /\ Len(Script(e)) = 4
           /\ \A k \in 1..4 : /\ Script(e)[k].m \in Messages
                              /\ Script(e)[k].op \in {"w", "r"}
                              /\ FirstPart(Script(e)[k].m) = IF k = 1 THEN "raw" ELSE "len"
           /\ e = "I" => /\ Script(e)[1] = W("net") /\ Script(e)[2] = W("e")
                         /\ Script(e)[3] = R("ees") /\ Script(e)[4] = W("sse")
           /\ e = "R" => /\ Script(e)[1] = R("net") /\ Script(e)[2] = R("e")
                         /\ Script(e)[3] = W("ees") /\ Script(e)[4] = R("sse")
  <1>1. CASE e = "I"
    BY <1>1 DEF Script, InitiatorHandshake, W, R, Messages, FirstPart
  <1>2. CASE e = "R"
    BY <1>2 DEF Script, ResponderHandshake, W, R, Messages, FirstPart
  <1> QED  BY <1>1, <1>2 DEF Ends

\* Moving one goroutine of one end keeps th well typed.
LEMMA ThreadMove ==
    ASSUME NEW f \in [Ends -> [Threads -> ThreadStates]], NEW e \in Ends,
           NEW t \in Threads, NEW s \in ThreadStates
    PROVE  [f EXCEPT ![e][t] = s] \in [Ends -> [Threads -> ThreadStates]]
  OBVIOUS

\* The sets of state names that the proofs tell apart.
LEMMA StateNames ==
    /\ {"off", "ready", "raw", "len", "body", "ok"} \subseteq ThreadStates
    /\ ErrorReasons \subseteq ThreadStates /\ ErrorReasons \subseteq Reasons
    /\ Results \subseteq ThreadStates /\ "finished" \in Reasons
    /\ {"ctx", "io", "timeout", "identity"} \subseteq ErrorReasons
    /\ {"main", "send", "recv", "ysend", "yrecv"} = Threads
    /\ {"hs", "ident", "yamux", "closed"} \subseteq Phases
  BY DEF ThreadStates, IOStates, Results, Reasons, ErrorReasons, Threads, Writers, Readers,
     Phases

\* Type correctness is inductive by itself.
LEMMA TypeInit == Init => TypeOK
  BY SessionAssumption DEF Init, TypeOK, Ends, Phases, Threads, ThreadStates, Writers,
     Readers, Keys, Reasons, Units

\* An error return of the main goroutine keeps the types.
LEMMA FailMainType ==
    ASSUME TypeOK, NEW e \in Ends, NEW why \in ErrorReasons, FailMain(e, why)
    PROVE  /\ pc' \in [Ends -> Phases] /\ fail' \in [Ends -> Reasons]
           /\ th' \in [Ends -> [Threads -> ThreadStates]]
  BY DEF FailMain, TypeOK, Fail, Phases, Reasons, ThreadStates, Threads, Writers

\* The end of a handshake message keeps the types.
LEMMA HandshakeAdvanceType ==
    ASSUME TypeOK, NEW e \in Ends, HandshakeAdvance(e)
    PROVE  /\ step' \in [Ends -> 1..4]
           /\ pc' \in [Ends -> Phases] /\ fail' \in [Ends -> Reasons]
           /\ th' \in [Ends -> [Threads -> ThreadStates]]
           /\ tx' \in [Ends -> Keys] /\ rx' \in [Ends -> Keys]
  <1>1. step[e] \in 1..4 /\ Len(Script(e)) = 4
    BY ScriptFacts DEF TypeOK
  <1>2. step[e] < 4 => FirstPart(Script(e)[step[e] + 1].m) \in ThreadStates
    BY <1>1, ScriptFacts DEF FirstPart, ThreadStates, IOStates
  <1>3. SessionKeys(e)[1] \in Keys /\ SessionKeys(e)[2] \in Keys
    BY DEF SessionKeys, Keys
  <1>4. "main" \in Threads /\ "send" \in Threads /\ "recv" \in Threads
    BY DEF Threads, Writers, Readers
  <1>5. CASE step[e] < 4
    <2>1. th' = [th EXCEPT ![e]["main"] = FirstPart(Script(e)[step[e] + 1].m)]
          /\ step' = [step EXCEPT ![e] = @ + 1] /\ UNCHANGED <<tx, rx, pc, fail>>
      BY <1>1, <1>5 DEF HandshakeAdvance
    <2>2. step' \in [Ends -> 1..4]
      BY <2>1, <1>1, <1>5 DEF TypeOK
    <2> QED  BY <2>1, <2>2, <1>2, <1>4, <1>5, ThreadMove DEF TypeOK
  <1>6. CASE ~(step[e] < 4)
    <2>1. /\ UNCHANGED step
          /\ tx' = [tx EXCEPT ![e] = SessionKeys(e)[1]]
          /\ rx' = [rx EXCEPT ![e] = SessionKeys(e)[2]]
          /\ IF idKind[e] = "oversize"
            THEN FailMain(e, "identity")
            ELSE /\ pc' = [pc EXCEPT ![e] = "ident"]
                 /\ th' = [th EXCEPT ![e]["main"] = "off",
                                     ![e]["send"] = "ready",
                                     ![e]["recv"] = "ready"]
                 /\ UNCHANGED fail
      BY <1>1, <1>6 DEF HandshakeAdvance
    <2>2. CASE idKind[e] = "oversize"
      <3>1. FailMain(e, "identity")
        BY <2>1, <2>2
      <3> QED  BY <2>1, <3>1, <1>3, FailMainType, StateNames DEF TypeOK
    <2>3. CASE idKind[e] # "oversize"
      <3>1. /\ pc' = [pc EXCEPT ![e] = "ident"]
            /\ th' = [[[th EXCEPT ![e]["main"] = "off"]
                          EXCEPT ![e]["send"] = "ready"]
                          EXCEPT ![e]["recv"] = "ready"]
            /\ UNCHANGED fail
        BY <2>1, <2>3
      <3>2. th' \in [Ends -> [Threads -> ThreadStates]]
        BY <3>1, <1>4, StateNames, ThreadMove, ZenonT(60) DEF TypeOK
      <3> QED  BY <2>1, <3>1, <3>2, <1>3, StateNames DEF TypeOK
    <2> QED  BY <2>2, <2>3
  <1> QED  BY <1>5, <1>6

\* An error of another goroutine keeps the types.
LEMMA AbortType ==
    ASSUME TypeOK, NEW e \in Ends, NEW t \in Threads, NEW why \in ErrorReasons,
           Abort(e, t, why)
    PROVE  /\ pc' \in [Ends -> Phases] /\ fail' \in [Ends -> Reasons]
           /\ th' \in [Ends -> [Threads -> ThreadStates]]
  BY ZenonT(60) DEF Abort, TypeOK, Fail, Stay, Phases, Reasons, ThreadStates, Results

\* Steps of the main goroutine outside I/O keep the types.
LEMMA MainStepType == ASSUME TypeOK, NEW e \in Ends, MainStep(e) PROVE TypeOK'
  <1> USE DEF TypeOK
  <1>1. CASE Start(e)
    <2>1. FirstPart(Script(e)[1].m) \in ThreadStates
      BY DEF FirstPart, ThreadStates, IOStates
    <2>2. /\ th' \in [Ends -> [Threads -> ThreadStates]]
          /\ pc' \in [Ends -> Phases] /\ fail' \in [Ends -> Reasons]
      <3>1. \/ Fail(e, "ctx") /\ UNCHANGED th
            \/ /\ pc' = [pc EXCEPT ![e] = "hs"]
               /\ th' = [th EXCEPT ![e]["main"] = FirstPart(Script(e)[1].m)]
               /\ UNCHANGED fail
        BY <1>1, Zenon DEF Start
      <3>2. CASE Fail(e, "ctx") /\ UNCHANGED th
        BY <3>2, StateNames DEF Fail
      <3>3. CASE /\ pc' = [pc EXCEPT ![e] = "hs"]
                 /\ th' = [th EXCEPT ![e]["main"] = FirstPart(Script(e)[1].m)]
                 /\ UNCHANGED fail
        BY <3>3, <2>1, StateNames
      <3> QED  BY <3>1, <3>2, <3>3
    <2>4. dl' \in [Ends -> {"none", "armed", "expired"}]
      BY <1>1 DEF Start, ConnDeadline
    <2> QED  BY <1>1, <2>2, <2>4 DEF Start
  <1>2. CASE SelectCtx(e)
    BY <1>2 DEF SelectCtx, Fail, Phases, Reasons, ErrorReasons, selectUnchanged
  <1>3. CASE SelectSend(e)
    BY <1>3 DEF SelectSend, Fail, Stay, Phases, Reasons, Results, selectUnchanged
  <1>4. CASE SelectRecv(e)
    BY <1>4 DEF SelectRecv, Fail, Stay, Phases, Reasons, Results, selectUnchanged
  <1>5. CASE StartYamux(e)
    BY <1>5 DEF StartYamux, DeadlineAfterExchange, Phases, ThreadStates, Threads, Writers, Readers
  <1> QED  BY <1>1, <1>2, <1>3, <1>4, <1>5 DEF MainStep

\* Steps of a goroutine in its I/O keep the types.
LEMMA ThreadStepType ==
    ASSUME TypeOK, NEW e \in Ends, NEW t \in Threads, ThreadStep(e, t) PROVE TypeOK'
  <1>1. CASE t \in Writers /\ WritePut(e, t)
    <2>1. CurrentUnit(e, t) \in Units
      <3>1. CASE t = "main"
        BY <3>1, <1>1, ScriptFacts, ZenonT(60) DEF TypeOK, CurrentUnit, Unit, Units, WritePut, InIO, Keys
      <3>2. CASE t # "main"
        BY <3>2, <1>1 DEF TypeOK, CurrentUnit, Unit, Units, WritePut, InIO, Messages
      <3> QED  BY <3>1, <3>2
    <2>2. wire' \in [Ends -> Seq(Units)]
      BY <1>1, <2>1 DEF WritePut, TypeOK
    <2>3. inWrite' \in [Ends -> SUBSET Writers]
      BY <1>1 DEF WritePut, TypeOK
    <2> QED  BY <1>1, <2>2, <2>3 DEF WritePut, TypeOK
  <1>2. CASE t \in Writers /\ WriteReturn(e, t)
    <2>1. /\ step' \in [Ends -> 1..4]
          /\ pc' \in [Ends -> Phases] /\ fail' \in [Ends -> Reasons]
          /\ th' \in [Ends -> [Threads -> ThreadStates]]
          /\ tx' \in [Ends -> Keys] /\ rx' \in [Ends -> Keys]
      <3>1. CASE th[e][t] # "len" /\ t = "main"
        <4>1. HandshakeAdvance(e)
          BY <3>1, <1>2 DEF WriteReturn
        <4> QED  BY <4>1, HandshakeAdvanceType
      <3>2. CASE th[e][t] = "len" \/ t # "main"
        <4>1. \E s \in {"body", "ok", "ready"} : th' = [th EXCEPT ![e][t] = s]
          BY <3>2, <1>2 DEF WriteReturn
        <4>2. UNCHANGED <<step, tx, rx, pc, fail>>
          BY <3>2, <1>2 DEF WriteReturn, Stay
        <4> QED  BY <4>1, <4>2, StateNames, ThreadMove DEF TypeOK
      <3> QED  BY <3>1, <3>2
    <2>2. inWrite' \in [Ends -> SUBSET Writers]
      BY <1>2 DEF WriteReturn, TypeOK
    <2> QED  BY <1>2, <2>1, <2>2 DEF WriteReturn, TypeOK
  <1>3. CASE t \in Readers /\ Read(e, t)
    <2> DEFINE u == wire[Peer(e)][rpos[Peer(e)] + 1]
    <2>1. /\ step' \in [Ends -> 1..4]
          /\ pc' \in [Ends -> Phases] /\ fail' \in [Ends -> Reasons]
          /\ th' \in [Ends -> [Threads -> ThreadStates]]
          /\ tx' \in [Ends -> Keys] /\ rx' \in [Ends -> Keys]
          /\ rxn' \in [Ends -> Nat]
      <3> "framing" \in ErrorReasons /\ "decrypt" \in ErrorReasons /\ "identity" \in ErrorReasons
          /\ "noise" \in ErrorReasons /\ "wiremode" \in ErrorReasons
        BY DEF ErrorReasons
      <3>1. CASE u.part # th[e][t]
        <4>1. FailMain(e, "framing") \/ Abort(e, t, "framing")
          BY <3>1, <1>3 DEF Read
        <4>2. UNCHANGED <<step, tx, rx, rxn>>
          BY <3>1, <1>3 DEF Read
        <4>3. /\ pc' \in [Ends -> Phases] /\ fail' \in [Ends -> Reasons]
              /\ th' \in [Ends -> [Threads -> ThreadStates]]
          <5>1. CASE FailMain(e, "framing")
            BY <5>1, FailMainType
          <5>2. CASE Abort(e, t, "framing")
            BY <5>2, AbortType
          <5> QED  BY <4>1, <5>1, <5>2
        <4> QED  BY <4>2, <4>3 DEF TypeOK
      <3>2. CASE u.part = th[e][t] /\ u.part = "len"
        <4>1. th' = [th EXCEPT ![e][t] = "body"] /\ UNCHANGED <<step, tx, rx, rxn, pc, fail>>
          BY <3>2, <1>3 DEF Read, Stay
        <4> QED  BY <4>1, StateNames DEF TypeOK
      <3>3. CASE u.part = th[e][t] /\ u.part # "len" /\ t = "main"
        <4>1. HandshakeRead(e, u) /\ UNCHANGED rxn
          BY <3>3, <1>3 DEF Read
        <4>2. \/ (FailMain(e, "noise") \/ FailMain(e, "wiremode")) /\ UNCHANGED <<step, tx, rx>>
              \/ HandshakeAdvance(e)
          BY <4>1 DEF HandshakeRead
        <4>3. CASE FailMain(e, "noise") /\ UNCHANGED <<step, tx, rx>>
          BY <4>1, <4>3, FailMainType DEF TypeOK
        <4>4. CASE FailMain(e, "wiremode") /\ UNCHANGED <<step, tx, rx>>
          BY <4>1, <4>4, FailMainType DEF TypeOK
        <4>5. CASE HandshakeAdvance(e)
          BY <4>1, <4>5, HandshakeAdvanceType DEF TypeOK
        <4> QED  BY <4>2, <4>3, <4>4, <4>5
      <3>4. CASE u.part = th[e][t] /\ u.part # "len" /\ t # "main"
        <4>1. FrameRead(e, t, u)
          BY <3>4, <1>3 DEF Read
        <4>2. UNCHANGED <<step, tx, rx>> /\ rxn' \in [Ends -> Nat]
          <5>1. rxn' = [rxn EXCEPT ![e] = @ + 1] \/ UNCHANGED rxn
            BY <4>1 DEF FrameRead
          <5>2. UNCHANGED <<step, tx, rx>>
            BY <4>1 DEF FrameRead
          <5>3. rxn \in [Ends -> Nat]
            BY DEF TypeOK
          <5>4. CASE rxn' = [rxn EXCEPT ![e] = @ + 1]
            BY <5>2, <5>3, <5>4
          <5>5. CASE UNCHANGED rxn
            BY <5>2, <5>3, <5>5
          <5> QED  BY <5>1, <5>4, <5>5
        <4>3. \/ Abort(e, t, "decrypt") \/ Abort(e, t, "identity")
              \/ /\ th' = [th EXCEPT ![e][t] = IF t = "recv" THEN "ok" ELSE "ready"]
                 /\ Stay
          BY <4>1 DEF FrameRead
        <4>4. CASE /\ th' = [th EXCEPT ![e][t] = IF t = "recv" THEN "ok" ELSE "ready"]
                   /\ Stay
          BY <4>2, <4>4, StateNames DEF TypeOK, Stay
        <4>5. CASE Abort(e, t, "decrypt")
          BY <4>2, <4>5, AbortType DEF TypeOK
        <4>6. CASE Abort(e, t, "identity")
          BY <4>2, <4>6, AbortType DEF TypeOK
        <4> QED  BY <4>3, <4>4, <4>5, <4>6
      <3> QED  BY <3>1, <3>2, <3>3, <3>4
    <2>2. rpos' \in [Ends -> Nat]
      BY <1>3, Peer(e) \in Ends DEF Read, TypeOK, Peer, Ends
    <2> QED  BY <1>3, <2>1, <2>2 DEF Read, TypeOK
  <1>4. CASE SendFrame(e, t)
    BY <1>4, SMTT(60) DEF SendFrame, TypeOK, ThreadStates, IOStates, Writers
  <1>5. CASE ReceiveFrame(e, t)
    BY <1>5 DEF ReceiveFrame, TypeOK, ThreadStates, IOStates
  <1>6. CASE IOError(e, t)
    <2>1. \E why \in ErrorReasons : FailMain(e, why) \/ Abort(e, t, why)
      BY <1>6 DEF IOError, ErrorReasons
    <2>2. inWrite' \in [Ends -> SUBSET Writers]
      BY <1>6 DEF IOError, TypeOK
    <2>3. /\ pc' \in [Ends -> Phases] /\ fail' \in [Ends -> Reasons]
          /\ th' \in [Ends -> [Threads -> ThreadStates]]
      <3>1. PICK why \in ErrorReasons : FailMain(e, why) \/ Abort(e, t, why)
        BY <2>1
      <3>2. CASE FailMain(e, why)
        BY <3>2, FailMainType
      <3>3. CASE Abort(e, t, why)
        BY <3>3, AbortType
      <3> QED  BY <3>1, <3>2, <3>3
    <2> QED  BY <1>6, <2>2, <2>3 DEF IOError, TypeOK
  <1> QED  BY <1>1, <1>2, <1>3, <1>4, <1>5, <1>6 DEF ThreadStep

\* Deadlines, cancellations and stalls keep the types.
LEMMA EnvStepType ==
    TypeOK /\ (ProbeReturns \/ \E e \in Ends : EnvStep(e)) => TypeOK'
  <1> SUFFICES ASSUME TypeOK, ProbeReturns \/ \E e \in Ends : EnvStep(e) PROVE TypeOK'
    OBVIOUS
  <1>1. CASE ProbeReturns
    BY <1>1, StateNames DEF TypeOK, ProbeReturns, Fail, selectUnchanged
  <1>2. ASSUME NEW e \in Ends, EnvStep(e) PROVE TypeOK'
    BY <1>2, ZenonT(60) DEF TypeOK, EnvStep, DeadlineFires, CtxCancel, Stall, envUnchanged
  <1> QED  BY <1>1, <1>2

\* Every variable of the connection keeps its type: in particular a handshake
\* never runs past its script and an end never fails for an unlisted reason.
THEOREM TypeCorrect == Spec => []TypeOK
  <1>1. TypeOK /\ UNCHANGED vars => TypeOK'
    BY DEF TypeOK, vars
  <1>2. TypeOK /\ [Next]_vars => TypeOK'
    BY <1>1, MainStepType, ThreadStepType, EnvStepType DEF Next
  <1> QED  BY TypeInit, <1>2, PTL DEF Spec

-----------------------------------------------------------------------------
\* Everything EndInv(e) speaks of is as before.
Same(e) ==
    /\ pc'[e] = pc[e] /\ step'[e] = step[e] /\ th'[e] = th[e] /\ num'[e] = num[e]
    /\ inWrite'[e] = inWrite[e] /\ wire'[e] = wire[e] /\ tx'[e] = tx[e] /\ txn'[e] = txn[e]
    /\ sendDone'[e] = sendDone[e] /\ recvDone'[e] = recvDone[e]

\* EndInv only looks at variables of one end.
LEMMA SameEndInv == ASSUME NEW e \in Ends, EndInv(e), Same(e) PROVE EndInv(e)'
  BY DEF Same, EndInv, StartInv, HandshakeInv, ExchangeInv, YamuxInv, ThreadInv, OthersOff,
     Put, Role, InIO

\* Every end starts in EndInv.
LEMMA EndInvInit == Init => \A e \in Ends : EndInv(e)
  <1> SUFFICES ASSUME Init, NEW e \in Ends PROVE EndInv(e)
    OBVIOUS
  <1> QED
    BY DEF Init, EndInv, StartInv, HandshakeInv, ExchangeInv, YamuxInv, ThreadInv, InIO,
       Threads, Writers, Readers, IOStates

\* A step of one end leaves the other end alone.
LEMMA OtherEndSame ==
    ASSUME TypeOK, NEW e \in Ends, NEW d \in Ends \ {e}, NEW t \in Threads,
           MainStep(e) \/ ThreadStep(e, t)
    PROVE  Same(d)
  <1>1. CASE Start(e)
    BY <1>1 DEF Start, Fail, Same, TypeOK
  <1>2. CASE SelectCtx(e) \/ SelectSend(e) \/ SelectRecv(e)
    BY <1>2 DEF SelectCtx, SelectSend, SelectRecv, selectUnchanged, Fail, Stay, Same, TypeOK
  <1>3. CASE StartYamux(e)
    BY <1>3 DEF StartYamux, Same, TypeOK
  <1>4. CASE WritePut(e, t)
    BY <1>4 DEF WritePut, Same, TypeOK
  <1>5. CASE WriteReturn(e, t)
    BY <1>5 DEF WriteReturn, HandshakeAdvance, Fail, FailMain, Stay, Same, TypeOK
  <1>6. CASE Read(e, t)
    BY <1>6, SMTT(60) DEF Read, HandshakeRead, FrameRead, Abort, HandshakeAdvance, Fail, FailMain, Stay,
       Same, TypeOK
  <1>7. CASE SendFrame(e, t) \/ ReceiveFrame(e, t)
    BY <1>7 DEF SendFrame, ReceiveFrame, Same, TypeOK
  <1>8. CASE IOError(e, t)
    BY <1>8 DEF IOError, Abort, Fail, FailMain, Stay, Same, TypeOK
  <1> QED
    BY <1>1, <1>2, <1>3, <1>4, <1>5, <1>6, <1>7, <1>8 DEF MainStep, ThreadStep

\* The types of one end's components, for the lemmas below.
LEMMA EndTypes ==
    ASSUME TypeOK, NEW e \in Ends
    PROVE  /\ th[e] \in [Threads -> ThreadStates] /\ inWrite[e] \subseteq Threads
           /\ num[e] \in [Writers -> Nat] /\ txn[e] \in Nat /\ HsLen(e) \in Nat
           /\ wire[e] \in Seq(Units) /\ Len(wire[e]) \in Nat /\ step[e] \in 1..4
  <1>1. inWrite[e] \subseteq Threads
    BY DEF TypeOK, Threads
  <1>2. wire[e] \in Seq(Units)
    BY DEF TypeOK
  <1>3. HsLen(e) \in Nat
    BY DEF HsLen
  <1> QED  BY <1>1, <1>2, <1>3 DEF TypeOK

\* Start enters the handshake with only the main goroutine in I/O.
LEMMA StartEndInv == ASSUME IInv, NEW e \in Ends, Start(e) PROVE EndInv(e)'
  <1>1. EndInv(e) /\ TypeOK
    BY DEF IInv
  <1>2. /\ pc[e] = "start" /\ step'[e] = step[e] /\ inWrite'[e] = inWrite[e]
        /\ wire'[e] = wire[e] /\ tx'[e] = tx[e] /\ txn'[e] = txn[e]
        /\ sendDone'[e] = sendDone[e] /\ recvDone'[e] = recvDone[e] /\ num'[e] = num[e]
    BY DEF Start
  <1>3. \/ pc'[e] = "closed" /\ th'[e] = th[e]
        \/ /\ pc'[e] = "hs"
           /\ th'[e] = [th[e] EXCEPT !["main"] = FirstPart(Script(e)[1].m)]
    BY <1>1 DEF Start, Fail, TypeOK
  <1>4. FirstPart(Script(e)[1].m) = "raw"
    BY ScriptFacts
  <1> QED
    BY <1>1, <1>2, <1>3, <1>4, StateNames DEF EndInv, StartInv, HandshakeInv, ExchangeInv,
       YamuxInv, ThreadInv, OthersOff, Put, Role, InIO, HsBefore, TypeOK, IOStates

\* The select loop of the identity exchange keeps EndInv.
LEMMA SelectEndInv ==
    ASSUME IInv, NEW e \in Ends, SelectCtx(e) \/ SelectSend(e) \/ SelectRecv(e)
    PROVE  EndInv(e)'
  <1>1. EndInv(e) /\ TypeOK
    BY DEF IInv
  <1>2. /\ pc[e] = "ident" /\ step'[e] = step[e] /\ inWrite'[e] = inWrite[e]
        /\ wire'[e] = wire[e] /\ tx'[e] = tx[e] /\ txn'[e] = txn[e]
        /\ th'[e] = th[e] /\ num'[e] = num[e]
    BY DEF SelectCtx, SelectSend, SelectRecv, selectUnchanged
  <1>3. \/ pc'[e] = "closed"
        \/ /\ pc'[e] = "ident" /\ th[e]["send"] = "ok"
           /\ sendDone'[e] /\ recvDone'[e] = recvDone[e]
        \/ /\ pc'[e] = "ident" /\ th[e]["recv"] = "ok"
           /\ recvDone'[e] /\ sendDone'[e] = sendDone[e]
    BY <1>1 DEF SelectCtx, SelectSend, SelectRecv, Fail, Stay, TypeOK
  <1> QED
    BY <1>1, <1>2, <1>3 DEF EndInv, StartInv, HandshakeInv, ExchangeInv,
       YamuxInv, ThreadInv, Put, Role, InIO, IOStates

\* Yamux starts only after both identity goroutines have posted a result.
LEMMA StartYamuxEndInv == ASSUME IInv, NEW e \in Ends, StartYamux(e) PROVE EndInv(e)'
  <1>1. EndInv(e) /\ TypeOK
    BY DEF IInv
  <1>2. /\ pc[e] = "ident" /\ pc'[e] = "yamux" /\ step'[e] = step[e]
        /\ inWrite'[e] = inWrite[e]
        /\ wire'[e] = wire[e] /\ tx'[e] = tx[e] /\ txn'[e] = txn[e] /\ num'[e] = num[e]
        /\ sendDone[e] /\ recvDone[e]
        /\ th'[e] = [th[e] EXCEPT !["ysend"] = "ready", !["yrecv"] = "ready"]
    BY <1>1 DEF StartYamux, ExchangePending, TypeOK
  <1>3. th[e]["send"] = "ok" /\ th[e]["recv"] = "ok" /\ th[e]["main"] = "off" /\ inWrite[e] = {}
        /\ txn[e] = 1 /\ Len(wire[e]) = HsLen(e) + 2 /\ tx[e] = KeyOf(e)
    BY <1>1, <1>2 DEF EndInv, ExchangeInv, ThreadInv, InIO, IOStates
  <1> QED
    BY <1>1, <1>2, <1>3, StateNames DEF EndInv, StartInv, HandshakeInv, ExchangeInv,
       YamuxInv, ThreadInv, Put, Role, InIO, IOStates, TypeOK, HsLen

\* Starting a frame takes the next nonce for the only writer.
LEMMA SendFrameEndInv ==
    ASSUME IInv, NEW e \in Ends, NEW t \in Threads, SendFrame(e, t) PROVE EndInv(e)'
  <1>1. EndInv(e) /\ TypeOK
    BY DEF IInv
  <1>2. /\ pc'[e] = pc[e] /\ step'[e] = step[e] /\ inWrite'[e] = inWrite[e]
        /\ wire'[e] = wire[e] /\ tx'[e] = tx[e]
        /\ sendDone'[e] = sendDone[e] /\ recvDone'[e] = recvDone[e]
        /\ th'[e] = [th[e] EXCEPT ![t] = "len"] /\ txn'[e] = txn[e] + 1
        /\ num'[e] = [num[e] EXCEPT ![t] = txn[e]] /\ th[e][t] = "ready"
        /\ t \in {"send", "ysend"} /\ (t = "ysend" => pc[e] = "yamux")
    BY <1>1 DEF SendFrame, TypeOK, Writers
  <1>3. /\ \A s \in Threads : th'[e][s] = IF s = t THEN "len" ELSE th[e][s]
        /\ num'[e][t] = txn[e]
    BY <1>1, <1>2, EndTypes DEF Writers
  <1>4. t \notin inWrite[e]
    BY <1>1, <1>2 DEF EndInv, ThreadInv, InIO, IOStates
  <1> QED
    BY <1>1, <1>2, <1>3, <1>4, StateNames, EndTypes, SMTT(60) DEF EndInv, StartInv, HandshakeInv, ExchangeInv,
       YamuxInv, ThreadInv, OthersOff, Put, Role, InIO, IOStates

\* Starting a read keeps EndInv.
LEMMA ReceiveFrameEndInv ==
    ASSUME IInv, NEW e \in Ends, NEW t \in Threads, ReceiveFrame(e, t) PROVE EndInv(e)'
  <1>1. EndInv(e) /\ TypeOK
    BY DEF IInv
  <1>2. /\ pc'[e] = pc[e] /\ step'[e] = step[e] /\ inWrite'[e] = inWrite[e]
        /\ wire'[e] = wire[e] /\ tx'[e] = tx[e] /\ txn'[e] = txn[e] /\ num'[e] = num[e]
        /\ sendDone'[e] = sendDone[e] /\ recvDone'[e] = recvDone[e]
        /\ \A s \in Threads : th'[e][s] = IF s = t THEN "len" ELSE th[e][s]
        /\ t \in {"recv", "yrecv"} /\ th[e][t] = "ready"
    BY <1>1 DEF ReceiveFrame, TypeOK
  <1> QED
    BY <1>1, <1>2, StateNames, EndTypes, SMTT(60) DEF EndInv, StartInv, HandshakeInv, ExchangeInv,
       YamuxInv, ThreadInv, OthersOff, Put, Role, InIO, IOStates

\* Putting bytes on the wire keeps EndInv.
LEMMA WritePutEndInv ==
    ASSUME IInv, NEW e \in Ends, NEW t \in Writers, WritePut(e, t) PROVE EndInv(e)'
  <1>1. EndInv(e) /\ TypeOK
    BY DEF IInv
  <1>2. /\ pc'[e] = pc[e] /\ step'[e] = step[e] /\ inWrite'[e] = inWrite[e] \cup {t}
        /\ tx'[e] = tx[e] /\ txn'[e] = txn[e] /\ num'[e] = num[e] /\ th'[e] = th[e]
        /\ sendDone'[e] = sendDone[e] /\ recvDone'[e] = recvDone[e]
        /\ wire'[e] = Append(wire[e], CurrentUnit(e, t))
        /\ InIO(e, t) /\ Role(e, t) = "w" /\ t \notin inWrite[e] /\ pc[e] # "closed"
    BY <1>1 DEF WritePut, TypeOK, IOFails, Closed
  <1>3. Len(wire'[e]) = Len(wire[e]) + 1
    BY <1>1, <1>2, EndTypes
  <1>4. /\ pc[e] # "start"
        /\ pc[e] = "hs" => t = "main"
        /\ pc[e] = "ident" => t = "send"
        /\ pc[e] = "yamux" => t = "ysend"
    BY <1>1, <1>2, StateNames DEF EndInv, StartInv, HandshakeInv, ExchangeInv, YamuxInv,
       ThreadInv, OthersOff, InIO, IOStates, Writers
  <1>5. StartInv(e)' /\ ThreadInv(e)'
    BY <1>1, <1>2, <1>4 DEF EndInv, StartInv, ThreadInv, InIO
  <1>6. HandshakeInv(e)'
    BY <1>1, <1>2, <1>3, <1>4, EndTypes, SMTT(60) DEF EndInv, HandshakeInv, OthersOff, Put, Role,
       HsBefore
  <1>7. ExchangeInv(e)'
    BY <1>1, <1>2, <1>3, <1>4, EndTypes DEF EndInv, ExchangeInv, Put, InIO, IOStates
  <1>8. YamuxInv(e)'
    <2> SUFFICES ASSUME pc[e] = "yamux" PROVE YamuxInv(e)'
      BY <1>2 DEF YamuxInv
    <2>1. t = "ysend" /\ Put(e, "ysend") = 0 /\ Put(e, "ysend")' = 1
      BY <1>2, <1>4 DEF Put
    <2>2. num[e]["ysend"] \in Nat
      BY <1>1, EndTypes DEF Writers
    <2>3. th[e]["ysend"] \in {"len", "body"}
      BY <1>1, <1>2, <2>1 DEF EndInv, YamuxInv, InIO, IOStates
    <2> HIDE DEF Put
    <2> QED
      BY <1>1, <1>2, <1>3, <2>1, <2>2, <2>3, EndTypes, SMTT(60) DEF EndInv, YamuxInv
  <1> QED  BY <1>5, <1>6, <1>7, <1>8 DEF EndInv

\* The send half of an end of its handshake: its last message is written.
LEMMA AdvanceEndInv ==
    ASSUME IInv, NEW e \in Ends, pc[e] = "hs", HandshakeAdvance(e),
           inWrite'[e] = {}, wire'[e] = wire[e], txn'[e] = txn[e], num'[e] = num[e],
           sendDone'[e] = sendDone[e], recvDone'[e] = recvDone[e],
           Len(wire[e]) = HsBefore(e, step[e]) +
             (IF Role(e, "main") = "r" THEN 0 ELSE IF step[e] = 1 THEN 1 ELSE 2)
    PROVE  EndInv(e)'
  <1>1. EndInv(e) /\ TypeOK
    BY DEF IInv
  <1>2. step[e] \in 1..4 /\ Len(Script(e)) = 4
    BY <1>1, EndTypes, ScriptFacts
  <1>3. CASE step[e] < 4
    <2>1. /\ pc'[e] = "hs" /\ step'[e] = step[e] + 1
          /\ \A s \in Threads : th'[e][s] = IF s = "main" THEN "len" ELSE th[e][s]
      <3>1. FirstPart(Script(e)[step[e] + 1].m) = "len"
        BY <1>2, <1>3, ScriptFacts
      <3> QED  BY <1>1, <1>2, <1>3, <3>1, StateNames DEF HandshakeAdvance, TypeOK
    <2>2. HsBefore(e, step[e] + 1) = Len(wire[e])
      <3>1. CASE e = "I"
        BY <3>1, <1>2, <1>3, ScriptFacts DEF HsBefore, Role, W, R
      <3>2. CASE e = "R"
        BY <3>2, <1>2, <1>3, ScriptFacts DEF HsBefore, Role, W, R
      <3> QED  BY <3>1, <3>2 DEF Ends
    <2>3. HandshakeInv(e)'
      <3>1. OthersOff(e)'
        BY <1>1, <2>1 DEF EndInv, HandshakeInv, OthersOff
      <3>2. th'[e]["main"] = "len" /\ Put(e, "main")' = 0
        BY <2>1, StateNames DEF Put
      <3>3. Len(wire'[e]) = HsBefore(e, step'[e])
        BY <2>1, <2>2
      <3>4. HsBefore(e, step'[e]) \in Nat
        BY DEF HsBefore
      <3> QED
        BY <1>1, <1>2, <1>3, <2>1, <3>1, <3>2, <3>3, <3>4 DEF EndInv, HandshakeInv, IOStates
    <2>4. StartInv(e)' /\ ExchangeInv(e)' /\ YamuxInv(e)'
      BY <2>1 DEF StartInv, ExchangeInv, YamuxInv
    <2>5. ThreadInv(e)'
      BY <1>1, <2>1, StateNames DEF EndInv, HandshakeInv, ThreadInv, OthersOff, InIO
    <2> QED  BY <2>3, <2>4, <2>5 DEF EndInv
  <1>4. CASE step[e] = 4
    <2>1. /\ tx'[e] = KeyOf(e)
          /\ \/ pc'[e] = "closed" /\ th'[e] = [th[e] EXCEPT !["main"] = "off"]
             \/ /\ pc'[e] = "ident"
                /\ th'[e] = [th[e] EXCEPT !["main"] = "off", !["send"] = "ready",
                                          !["recv"] = "ready"]
      <3>1. ~(step[e] < Len(Script(e)))
        BY <1>2, <1>4
      <3>2. tx'[e] = SessionKeys(e)[1]
        BY <1>1, <3>1 DEF HandshakeAdvance, TypeOK
      <3>3. \/ FailMain(e, "identity")
            \/ /\ pc' = [pc EXCEPT ![e] = "ident"]
               /\ th' = [th EXCEPT ![e]["main"] = "off", ![e]["send"] = "ready",
                                   ![e]["recv"] = "ready"]
        BY <3>1 DEF HandshakeAdvance
      <3>4. SessionKeys(e)[1] = KeyOf(e)
        BY DEF SessionKeys, KeyOf
      <3> QED  BY <1>1, <3>2, <3>3, <3>4 DEF TypeOK, FailMain, Fail
    <2>2. Len(wire[e]) = HsLen(e)
      <3>1. CASE e = "I"
        BY <3>1, <1>4, ScriptFacts DEF HsBefore, HsLen, Role, W, R
      <3>2. CASE e = "R"
        BY <3>2, <1>4, ScriptFacts DEF HsBefore, HsLen, Role, W, R
      <3> QED  BY <3>1, <3>2 DEF Ends
    <2> QED
      BY <1>1, <1>2, <2>1, <2>2, EndTypes, StateNames DEF EndInv, StartInv, HandshakeInv,
         ExchangeInv, YamuxInv, ThreadInv, OthersOff, Put, Role, InIO, IOStates, Results,
         ErrorReasons
  <1> QED  BY <1>2, <1>3, <1>4

\* The return of a Write keeps EndInv.
LEMMA WriteReturnEndInv ==
    ASSUME IInv, NEW e \in Ends, NEW t \in Writers, WriteReturn(e, t) PROVE EndInv(e)'
  <1>1. EndInv(e) /\ TypeOK
    BY DEF IInv
  <1>2. /\ txn'[e] = txn[e] /\ num'[e] = num[e] /\ wire'[e] = wire[e]
        /\ sendDone'[e] = sendDone[e] /\ recvDone'[e] = recvDone[e]
        /\ inWrite'[e] = inWrite[e] \ {t} /\ t \in inWrite[e] /\ InIO(e, t)
    BY <1>1 DEF WriteReturn, TypeOK, EndInv, ThreadInv
  <1>3. CASE t = "main" /\ th[e][t] # "len"
    <2>1. HandshakeAdvance(e)
      BY <1>3 DEF WriteReturn
    <2>2. pc[e] = "hs" /\ inWrite[e] = {"main"} /\ Role(e, "main") = "w"
      <3>1. pc[e] = "hs"
        BY <1>1, <1>2, <1>3 DEF EndInv, ThreadInv
      <3> QED
        BY <1>1, <1>2, <1>3, <3>1, EndTypes, ScriptFacts DEF EndInv, HandshakeInv, Role
    <2>3. Len(wire[e]) = HsBefore(e, step[e]) + (IF step[e] = 1 THEN 1 ELSE 2)
      <3>1. HsBefore(e, step[e]) \in Nat /\ Put(e, "main") = 1
        BY <2>2 DEF HsBefore, Put
      <3>2. th[e]["main"] \in {"raw", "body"} /\ (th[e]["main"] = "raw" <=> step[e] = 1)
        BY <1>1, <1>2, <1>3, <2>2 DEF EndInv, HandshakeInv, InIO, IOStates
      <3> QED  BY <1>1, <2>2, <3>1, <3>2 DEF EndInv, HandshakeInv
    <2> QED  BY <1>2, <1>3, <2>1, <2>2, <2>3, AdvanceEndInv
  <1>4. CASE t # "main" \/ th[e][t] = "len"
    <2>1. /\ pc'[e] = pc[e] /\ step'[e] = step[e] /\ tx'[e] = tx[e]
          /\ \E s \in {"body", "ok", "ready"} : th'[e] = [th[e] EXCEPT ![t] = s]
          /\ th[e][t] = "len" => th'[e][t] = "body"
          /\ th[e][t] # "len" => th'[e][t] = IF t = "send" THEN "ok" ELSE "ready"
      <3>1. /\ UNCHANGED <<pc, step, tx>>
            /\ \/ th[e][t] = "len" /\ th' = [th EXCEPT ![e][t] = "body"]
               \/ /\ th[e][t] # "len"
                  /\ th' = [th EXCEPT ![e][t] = IF t = "send" THEN "ok" ELSE "ready"]
        BY <1>4 DEF WriteReturn, Stay
      <3>2. t \in Threads
        BY DEF Threads
      <3>3. CASE th[e][t] = "len" /\ th' = [th EXCEPT ![e][t] = "body"]
        BY <1>1, <3>1, <3>2, <3>3 DEF TypeOK
      <3>4. CASE /\ th[e][t] # "len"
                 /\ th' = [th EXCEPT ![e][t] = IF t = "send" THEN "ok" ELSE "ready"]
        BY <1>1, <3>1, <3>2, <3>4 DEF TypeOK
      <3> QED  BY <3>1, <3>3, <3>4
    <2>2. \A s \in Threads \ {t} : th'[e][s] = th[e][s]
      BY <1>1, <2>1, EndTypes
    <2>3. Put(e, t) = 1 /\ Put(e, t)' = 0
      BY <1>2 DEF Put
    <2>4. StartInv(e)'
      BY <1>1, <1>2, <2>1 DEF EndInv, StartInv
    <2>5. ThreadInv(e)'
      BY <1>1, <1>2, <1>4, <2>1, <2>2, EndTypes, StateNames DEF EndInv, ThreadInv, InIO,
         IOStates, Writers
    <2>6. HandshakeInv(e)'
      <3> SUFFICES ASSUME pc[e] = "hs" PROVE HandshakeInv(e)'
        BY <2>1 DEF HandshakeInv
      <3>1. t = "main" /\ th[e]["main"] = "len" /\ th'[e]["main"] = "body"
        BY <1>1, <1>2, <1>4, <2>1 DEF EndInv, HandshakeInv
      <3>2. Role(e, "main") = "w" /\ Role(e, "main")' = "w"
        BY <1>1, <1>2, <2>1, EndTypes, ScriptFacts DEF EndInv, HandshakeInv, Role
      <3>3. HsBefore(e, step[e]) \in Nat
        BY DEF HsBefore
      <3>4. OthersOff(e)'
        BY <1>1, <2>2, <3>1 DEF EndInv, HandshakeInv, OthersOff
      <3> QED
        BY <1>1, <1>2, <2>1, <2>3, <3>1, <3>2, <3>3, <3>4 DEF EndInv, HandshakeInv, IOStates
    <2>7. ExchangeInv(e)'
      <3> SUFFICES ASSUME pc[e] = "ident" PROVE ExchangeInv(e)'
        BY <2>1 DEF ExchangeInv
      <3>1. t = "send" /\ th[e]["send"] \in {"len", "body"}
        BY <1>1, <1>2 DEF EndInv, ExchangeInv, InIO, IOStates
      <3> QED
        BY <1>1, <1>2, <2>1, <2>2, <2>3, <3>1, EndTypes, StateNames DEF EndInv, ExchangeInv,
           Results
    <2>8. YamuxInv(e)'
      <3> SUFFICES ASSUME pc[e] = "yamux" PROVE YamuxInv(e)'
        BY <2>1 DEF YamuxInv
      <3>1. t = "ysend" /\ th[e]["ysend"] \in {"len", "body"}
        BY <1>1, <1>2 DEF EndInv, YamuxInv, InIO, IOStates
      <3>2. num[e]["ysend"] \in Nat
        BY <1>1, EndTypes DEF Writers
      <3> QED
        BY <1>1, <1>2, <2>1, <2>2, <2>3, <3>1, <3>2, EndTypes, StateNames, SMTT(60)
           DEF EndInv, YamuxInv
    <2> QED  BY <2>4, <2>5, <2>6, <2>7, <2>8 DEF EndInv
  <1> QED  BY <1>3, <1>4

\* A failing goroutine ends; main's failure and Yamux's close the end.
LEMMA AbortEndInv ==
    ASSUME IInv, NEW e \in Ends, NEW t \in Threads \ {"main"}, NEW why \in ErrorReasons,
           Abort(e, t, why), InIO(e, t), inWrite'[e] = inWrite[e] \ {t},
           wire'[e] = wire[e], txn'[e] = txn[e], num'[e] = num[e], step'[e] = step[e],
           tx'[e] = tx[e], sendDone'[e] = sendDone[e], recvDone'[e] = recvDone[e]
    PROVE  EndInv(e)'
  <1>1. EndInv(e) /\ TypeOK
    BY DEF IInv
  <1>2. /\ \A s \in Threads : th'[e][s] = IF s = t THEN why ELSE th[e][s]
        /\ pc'[e] = IF t \in {"ysend", "yrecv"} /\ pc[e] = "yamux" THEN "closed" ELSE pc[e]
    BY <1>1 DEF Abort, Fail, Stay, TypeOK
  <1>3. why \notin {"off", "ready", "raw", "len", "body", "ok"}
    BY DEF ErrorReasons
  <1>4. pc[e] \notin {"start", "hs"}
    BY <1>1 DEF EndInv, StartInv, HandshakeInv, OthersOff, InIO, IOStates
  <1>5. ThreadInv(e)'
    BY <1>1, <1>2, <1>3, <1>4, EndTypes, StateNames DEF EndInv, ThreadInv, YamuxInv, ExchangeInv,
       InIO, IOStates
  <1>6. ExchangeInv(e)'
    BY <1>1, <1>2, <1>3, <1>4, EndTypes, StateNames DEF EndInv, ExchangeInv, Put, InIO, IOStates
  <1>7. YamuxInv(e)'
    BY <1>1, <1>2, <1>3, <1>4, EndTypes, StateNames DEF EndInv, ThreadInv, YamuxInv, Put, InIO,
       IOStates
  <1> QED  BY <1>2, <1>4, <1>5, <1>6, <1>7 DEF EndInv, StartInv, HandshakeInv

\* An error return of the main goroutine keeps EndInv.
LEMMA FailMainEndInv ==
    ASSUME IInv, NEW e \in Ends, NEW why, FailMain(e, why), InIO(e, "main"),
           inWrite'[e] = inWrite[e] \ {"main"}
    PROVE  EndInv(e)'
  <1>1. EndInv(e) /\ TypeOK
    BY DEF IInv
  <1>2. /\ \A s \in Threads : th'[e][s] = IF s = "main" THEN "off" ELSE th[e][s]
        /\ pc'[e] = "closed"
    BY <1>1, StateNames DEF FailMain, Fail, TypeOK
  <1>3. pc[e] = "hs"
    BY <1>1 DEF EndInv, ThreadInv
  <1> QED
    BY <1>1, <1>2, <1>3, EndTypes, StateNames DEF EndInv, StartInv, HandshakeInv, ExchangeInv,
       YamuxInv, ThreadInv, OthersOff, InIO, IOStates

\* A failing Write or ReadFull keeps EndInv.
LEMMA IOErrorEndInv ==
    ASSUME IInv, NEW e \in Ends, NEW t \in Threads, IOError(e, t) PROVE EndInv(e)'
  <1>1. /\ InIO(e, t) /\ inWrite'[e] = inWrite[e] \ {t}
        /\ wire'[e] = wire[e] /\ txn'[e] = txn[e] /\ num'[e] = num[e] /\ step'[e] = step[e]
        /\ tx'[e] = tx[e] /\ sendDone'[e] = sendDone[e] /\ recvDone'[e] = recvDone[e]
    BY DEF IOError, IInv, TypeOK
  <1>2. PICK why \in ErrorReasons : IF t = "main" THEN FailMain(e, why) ELSE Abort(e, t, why)
    BY DEF IOError, ErrorReasons
  <1> QED  BY <1>1, <1>2, AbortEndInv, FailMainEndInv

\* A ReadFull keeps EndInv.
LEMMA ReadEndInv ==
    ASSUME IInv, NEW e \in Ends, NEW t \in Readers, Read(e, t) PROVE EndInv(e)'
  <1> DEFINE u == wire[Peer(e)][rpos[Peer(e)] + 1]
  <1>1. EndInv(e) /\ TypeOK /\ t \in Threads
    BY DEF IInv, Threads
  <1>2. /\ InIO(e, t) /\ inWrite'[e] = inWrite[e] /\ Role(e, t) = "r"
        /\ wire'[e] = wire[e] /\ txn'[e] = txn[e] /\ num'[e] = num[e]
        /\ sendDone'[e] = sendDone[e] /\ recvDone'[e] = recvDone[e]
    BY DEF Read
  <1>3. t \notin inWrite[e]
    <2>1. CASE t = "main"
      <3>1. pc[e] = "hs"
        BY <1>1, <1>2, <2>1 DEF EndInv, ThreadInv
      <3> QED  BY <1>1, <1>2, <2>1, <3>1 DEF EndInv, HandshakeInv
    <2>2. CASE t # "main"
      BY <1>1, <2>2 DEF TypeOK, Readers, Writers
    <2> QED  BY <2>1, <2>2
  <1>4. inWrite'[e] = inWrite[e] \ {t}
    BY <1>2, <1>3
  <1>5. CASE t = "main"
    <2>1. /\ pc[e] = "hs" /\ inWrite[e] = {} /\ Role(e, "main") = "r"
      <3>1. pc[e] = "hs"
        BY <1>1, <1>2, <1>5 DEF EndInv, ThreadInv
      <3> QED  BY <1>1, <1>2, <1>5, <3>1 DEF EndInv, HandshakeInv
    <2>2. Len(wire[e]) = HsBefore(e, step[e])
      <3>1. HsBefore(e, step[e]) \in Nat /\ Put(e, "main") = 0
        BY <2>1 DEF HsBefore, Put
      <3> QED  BY <1>1, <2>1, <3>1 DEF EndInv, HandshakeInv
    <2>3. \/ \E why : FailMain(e, why)
          \/ HandshakeAdvance(e)
          \/ /\ th' = [th EXCEPT ![e]["main"] = "body"] /\ th[e]["main"] = "len"
             /\ UNCHANGED <<pc, step, tx>>
      BY <1>5 DEF Read, HandshakeRead, Stay
    <2>4. CASE \E why : FailMain(e, why)
      BY <1>2, <1>4, <1>5, <2>4, FailMainEndInv
    <2>5. CASE HandshakeAdvance(e)
      <3>1. HsBefore(e, step[e]) \in Nat
        BY DEF HsBefore
      <3> QED  BY <1>2, <2>1, <2>2, <2>5, <3>1, AdvanceEndInv
    <2>6. CASE /\ th' = [th EXCEPT ![e]["main"] = "body"] /\ th[e]["main"] = "len"
               /\ UNCHANGED <<pc, step, tx>>
      <3>1. /\ \A s \in Threads : th'[e][s] = IF s = "main" THEN "body" ELSE th[e][s]
            /\ pc'[e] = "hs" /\ step'[e] = step[e] /\ tx'[e] = tx[e]
        BY <1>1, <2>1, <2>6, StateNames DEF TypeOK
      <3>2. HandshakeInv(e)'
        BY <1>1, <1>2, <2>1, <2>6, <3>1, StateNames, EndTypes DEF EndInv, HandshakeInv,
           OthersOff, Put, Role, IOStates, HsBefore
      <3> QED
        BY <1>1, <1>2, <2>1, <3>1, <3>2, StateNames DEF EndInv, StartInv, ExchangeInv, YamuxInv,
           ThreadInv, HandshakeInv, OthersOff
    <2> QED  BY <2>3, <2>4, <2>5, <2>6
  <1>6. CASE t # "main"
    <2>1. UNCHANGED <<step, tx>>
      BY <1>6 DEF Read, FrameRead
    <2>2. \/ \E why \in ErrorReasons : Abort(e, t, why)
          \/ /\ th' = [th EXCEPT ![e][t] = "body"] /\ UNCHANGED <<pc, fail>>
          \/ /\ th' = [th EXCEPT ![e][t] = IF t = "recv" THEN "ok" ELSE "ready"]
             /\ UNCHANGED <<pc, fail>>
      BY <1>6 DEF Read, FrameRead, Stay, ErrorReasons
    <2>3. CASE \E why \in ErrorReasons : Abort(e, t, why)
      BY <1>1, <1>2, <1>4, <1>6, <2>1, <2>3, AbortEndInv
    <2>4. CASE \E s \in {"body", "ok", "ready"} :
                  /\ th' = [th EXCEPT ![e][t] = s]
                  /\ UNCHANGED <<pc, fail>>
      <3>1. PICK s \in {"body", "ok", "ready"} : th' = [th EXCEPT ![e][t] = s] /\ UNCHANGED pc
        BY <2>4
      <3>2. /\ \A r \in Threads : th'[e][r] = IF r = t THEN s ELSE th[e][r]
            /\ pc'[e] = pc[e] /\ step'[e] = step[e] /\ tx'[e] = tx[e]
            /\ t \in {"recv", "yrecv"}
        BY <1>1, <1>6, <2>1, <3>1 DEF TypeOK, Readers
      <3>3. pc[e] \notin {"start", "hs"}
        BY <1>1, <1>2, <1>6 DEF EndInv, StartInv, HandshakeInv, OthersOff, InIO, IOStates
      <3>4. t = "recv" => th[e]["ysend"] = "off" /\ th[e]["yrecv"] = "off" /\ pc[e] # "yamux"
                          /\ (pc[e] = "ident" => ~recvDone[e])
        BY <1>1, <1>2 DEF EndInv, ThreadInv, ExchangeInv, InIO, IOStates
      <3>5. t = "yrecv" => pc[e] # "ident"
        BY <1>1, <1>2 DEF EndInv, ExchangeInv, InIO, IOStates
      <3>6. StartInv(e)' /\ HandshakeInv(e)'
        BY <3>2, <3>3 DEF StartInv, HandshakeInv
      <3>7. ThreadInv(e)'
        BY <1>1, <1>2, <1>3, <3>2, <3>3, <3>4, EndTypes, StateNames DEF EndInv, ThreadInv,
           InIO, IOStates
      <3>8. ExchangeInv(e)'
        BY <1>1, <1>2, <1>3, <3>2, <3>4, <3>5, StateNames DEF EndInv, ExchangeInv, Put
      <3>9. YamuxInv(e)'
        BY <1>1, <1>2, <1>3, <3>2, <3>4, StateNames DEF EndInv, YamuxInv, Put
      <3> QED  BY <3>6, <3>7, <3>8, <3>9 DEF EndInv
    <2> QED  BY <2>2, <2>3, <2>4
  <1> QED  BY <1>5, <1>6

\* A probe that returns keeps EndInv.
LEMMA ProbeReturnsEndInv == ASSUME IInv, ProbeReturns, NEW e \in Ends PROVE EndInv(e)'
  <1>1. EndInv(e) /\ TypeOK
    BY DEF IInv
  <1>2. /\ step' = step /\ th' = th /\ num' = num /\ inWrite' = inWrite /\ wire' = wire
        /\ tx' = tx /\ txn' = txn /\ sendDone' = sendDone /\ recvDone' = recvDone
    BY DEF ProbeReturns, selectUnchanged
  <1>3. CASE e = "R"
    <2>1. pc'[e] = pc[e]
      BY <1>1, <1>3 DEF ProbeReturns, Fail, TypeOK
    <2> QED  BY <1>1, <1>2, <2>1, SameEndInv DEF Same
  <1>4. CASE e = "I"
    <2>1. pc'[e] = "closed" /\ pc[e] \in {"yamux", "ident"}
      BY <1>1, <1>4 DEF ProbeReturns, Fail, TypeOK
    <2> QED
      BY <1>1, <1>2, <2>1 DEF EndInv, StartInv, HandshakeInv, ExchangeInv, YamuxInv, ThreadInv,
         InIO, IOStates
  <1> QED  BY <1>3, <1>4 DEF Ends

\* Every step keeps EndInv.
LEMMA NextEndInv == ASSUME IInv, [Next]_vars, NEW e \in Ends PROVE EndInv(e)'
  <1>1. EndInv(e) /\ TypeOK
    BY DEF IInv
  <1>2. ASSUME NEW d \in Ends, MainStep(d) PROVE EndInv(e)'
    <2>1. CASE d # e
      <3>1. "main" \in Threads
        BY StateNames
      <3> QED  BY <1>1, <1>2, <2>1, <3>1, OtherEndSame, SameEndInv
    <2>2. CASE d = e
      BY <1>2, <2>2, StartEndInv, SelectEndInv, StartYamuxEndInv DEF MainStep
    <2> QED  BY <2>1, <2>2
  <1>3. ASSUME NEW d \in Ends, NEW t \in Threads, ThreadStep(d, t) PROVE EndInv(e)'
    <2>1. CASE d # e
      BY <1>1, <1>3, <2>1, OtherEndSame, SameEndInv
    <2>2. CASE d = e
      BY <1>3, <2>2, WritePutEndInv, WriteReturnEndInv, ReadEndInv, SendFrameEndInv,
         ReceiveFrameEndInv, IOErrorEndInv DEF ThreadStep
    <2> QED  BY <2>1, <2>2
  <1>4. ASSUME NEW d \in Ends, EnvStep(d) PROVE EndInv(e)'
    <2>1. Same(e)
      BY <1>4 DEF EnvStep, DeadlineFires, CtxCancel, Stall, envUnchanged, Same
    <2> QED  BY <1>1, <2>1, SameEndInv
  <1>5. CASE UNCHANGED vars
    <2>1. Same(e)
      BY <1>5 DEF vars, Same
    <2> QED  BY <1>1, <2>1, SameEndInv
  <1> QED
    BY <1>2, <1>3, <1>4, <1>5, ProbeReturnsEndInv DEF Next

\* IInv is an invariant of the session.
LEMMA InductiveInvariant == Spec => []IInv
  <1>1. Init => IInv
    BY TypeInit, EndInvInit DEF IInv
  <1>2. TypeOK' /\ IInv /\ [Next]_vars => IInv'
    BY NextEndInv DEF IInv
  <1> QED  BY <1>1, <1>2, TypeCorrect, PTL DEF Spec

\* The goroutines of one end never use the same direction of the connection
\* (Session.SendFrame and writeFrame, or readFrame and Session.ReceiveFrame) at
\* the same time, for any transport, any faults and any number of frames.
THEOREM ExclusiveUse == Spec => []OneUserPerDirection
  <1>1. IInv => OneUserPerDirection
    <2> SUFFICES ASSUME IInv, NEW e \in Ends, NEW t \in Threads, NEW s \in Threads,
                        InIO(e, t), InIO(e, s), Role(e, t) = Role(e, s)
                 PROVE  t = s
      BY DEF OneUserPerDirection
    <2>1. EndInv(e)
      BY DEF IInv
    <2>2. CASE t = "main" \/ s = "main"
      BY <2>1, <2>2 DEF EndInv, ThreadInv, HandshakeInv, OthersOff, InIO, IOStates
    <2>3. CASE t # "main" /\ s # "main"
      <3>1. (t \in {"send", "ysend"} /\ s \in {"send", "ysend"})
            \/ (t \in {"recv", "yrecv"} /\ s \in {"recv", "yrecv"})
        BY <2>3, StateNames DEF Role, Writers
      <3> QED  BY <2>1, <3>1 DEF EndInv, ThreadInv, InIO, IOStates
    <2> QED  BY <2>2, <2>3
  <1> QED  BY <1>1, InductiveInvariant, PTL

-----------------------------------------------------------------------------
\* What goroutine t is about to write is what the protocol has at this place.
LEMMA NextUnit ==
    ASSUME IInv, NEW e \in Ends, NEW t \in Writers, WritePut(e, t)
    PROVE  LET L == Len(wire[e])
               c == CurrentUnit(e, t)
           IN  /\ L + 1 \in 1..HsLen(e) => c = HandshakeUnits(e)[L + 1]
               /\ \A n \in Nat :
                    /\ L + 1 = HsLen(e) + 2*n + 1 => c = FrameUnit(e, n, "len")
                    /\ L + 1 = HsLen(e) + 2*n + 2 => c = FrameUnit(e, n, "body")
  <1> DEFINE L == Len(wire[e])
             c == CurrentUnit(e, t)
  <1>1. EndInv(e) /\ TypeOK /\ L \in Nat /\ step[e] \in 1..4
    BY EndTypes DEF IInv
  <1>2. InIO(e, t) /\ Role(e, t) = "w" /\ t \notin inWrite[e] /\ pc[e] \in Phases \ {"closed"}
    BY <1>1 DEF WritePut, IOFails, Closed, TypeOK
  <1>3. CASE pc[e] = "hs"
    <2>1. /\ t = "main" /\ Put(e, "main") = 0 /\ Role(e, "main") = "w"
          /\ c = Unit(Script(e)[step[e]].m, th[e]["main"], 0, "none")
      BY <1>1, <1>2, <1>3 DEF EndInv, HandshakeInv, OthersOff, InIO, IOStates, Put, Writers,
         Threads, CurrentUnit
    <2>2. /\ L = HsBefore(e, step[e]) + (IF th[e]["main"] = "body" THEN 1 ELSE 0)
          /\ th[e]["main"] = "raw" <=> step[e] = 1
          /\ th[e]["main"] \in IOStates
      <3>1. HsBefore(e, step[e]) \in Nat
        BY DEF HsBefore
      <3> QED  BY <1>1, <1>3, <2>1, <3>1 DEF EndInv, HandshakeInv
    <2>3. CASE e = "I"
      <3>1. step[e] \in {1, 2, 4}
        BY <1>1, <2>1, <2>3, ScriptFacts DEF Role, R
      <3>2. /\ HsLen(e) = 5 /\ L + 1 \in 1..5
            /\ c = HandshakeUnits(e)[L + 1]
        <4>1. CASE step[e] = 1
          BY <2>1, <2>2, <2>3, <4>1, ScriptFacts DEF HsBefore, HsLen, HandshakeUnits, W, Unit
        <4>2. CASE step[e] = 2
          BY <2>1, <2>2, <2>3, <4>2, ScriptFacts DEF HsBefore, HsLen, HandshakeUnits, W, Unit,
             IOStates
        <4>3. CASE step[e] = 4
          BY <2>1, <2>2, <2>3, <4>3, ScriptFacts DEF HsBefore, HsLen, HandshakeUnits, W, Unit,
             IOStates
        <4> QED  BY <3>1, <4>1, <4>2, <4>3
      <3> QED  BY <1>1, <3>2
    <2>4. CASE e = "R"
      <3>1. step[e] = 3
        BY <1>1, <2>1, <2>4, ScriptFacts DEF Role, R
      <3>2. /\ HsLen(e) = 2 /\ L + 1 \in 1..2
            /\ c = HandshakeUnits(e)[L + 1]
        BY <2>1, <2>2, <2>4, <3>1, ScriptFacts DEF HsBefore, HsLen, HandshakeUnits, W, Unit,
           IOStates
      <3> QED  BY <1>1, <3>2
    <2> QED  BY <2>3, <2>4 DEF Ends
  <1>4. CASE pc[e] = "ident"
    <2>1. t = "send" /\ Put(e, "send") = 0 /\ th[e]["send"] \in {"len", "body"}
      BY <1>1, <1>2, <1>4 DEF EndInv, ExchangeInv, InIO, IOStates, Put, Writers
    <2>2. /\ c = FrameUnit(e, 0, th[e]["send"])
          /\ L = IF th[e]["send"] = "len" THEN HsLen(e) ELSE HsLen(e) + 1
      BY <1>1, <1>4, <2>1, EndTypes DEF EndInv, ExchangeInv, CurrentUnit, FrameUnit, KeyOf
    <2> QED  BY <1>1, <2>1, <2>2, EndTypes
  <1>5. CASE pc[e] = "yamux"
    <2> DEFINE k == num[e]["ysend"]
    <2>1. t = "ysend" /\ Put(e, "ysend") = 0 /\ th[e]["ysend"] \in {"len", "body"} /\ k \in Nat
      BY <1>1, <1>2, <1>5, EndTypes DEF EndInv, YamuxInv, ThreadInv, InIO, IOStates, Put, Writers
    <2>2. /\ c = FrameUnit(e, k, th[e]["ysend"]) /\ k >= 1
          /\ L = IF th[e]["ysend"] = "len" THEN HsLen(e) + 2*k ELSE HsLen(e) + 2*k + 1
      <3>1. /\ tx[e] = KeyOf(e) /\ k >= 1
            /\ L = IF th[e]["ysend"] = "len" THEN HsLen(e) + 2*k ELSE HsLen(e) + 2*k + 1
        BY <1>1, <1>5, <2>1, EndTypes DEF EndInv, YamuxInv
      <3>2. c = Unit("yx", th[e]["ysend"], k, KeyOf(e))
        BY <2>1, <3>1 DEF CurrentUnit
      <3>3. k # 0
        BY <2>1, <3>1
      <3>4. c = FrameUnit(e, k, th[e]["ysend"])
        BY <3>2, <3>3, Zenon DEF FrameUnit, KeyOf
      <3> QED  BY <3>1, <3>4
    <2> HIDE DEF k
    <2> QED  BY <1>1, <2>1, <2>2, EndTypes, SMTT(60)
  <1>6. pc[e] # "start"
    BY <1>1, <1>2 DEF EndInv, StartInv, InIO, IOStates, Writers, Threads
  <1> QED  BY <1>2, <1>3, <1>4, <1>5, <1>6 DEF Phases

\* Only an end's own Write calls change what it has put on the wire.
LEMMA WireStep ==
    ASSUME TypeOK, NEW e \in Ends, [Next]_vars
    PROVE  wire'[e] = wire[e] \/ \E t \in Writers : WritePut(e, t)
  <1>1. ASSUME NEW d \in Ends, MainStep(d) PROVE wire' = wire
    BY <1>1 DEF MainStep, Start, SelectCtx, SelectSend, SelectRecv, StartYamux,
       selectUnchanged
  <1>2. ASSUME NEW d \in Ends, NEW t \in Threads, ThreadStep(d, t), ~(t \in Writers /\ WritePut(d, t))
        PROVE  wire' = wire
    BY <1>2 DEF ThreadStep, WriteReturn, Read, SendFrame, ReceiveFrame, IOError
  <1>3. ASSUME NEW d \in Ends, NEW t \in Writers, WritePut(d, t), d # e
        PROVE  wire'[e] = wire[e]
    BY <1>3 DEF WritePut, TypeOK
  <1>4. ASSUME ProbeReturns \/ \E d \in Ends : EnvStep(d) PROVE wire' = wire
    BY <1>4 DEF ProbeReturns, selectUnchanged, EnvStep, DeadlineFires, CtxCancel, Stall,
       envUnchanged
  <1> QED  BY <1>1, <1>2, <1>3, <1>4 DEF Next, vars

\* Every step extends the wire by what the protocol has next, or not at all.
LEMMA NextWireInv ==
    ASSUME IInv, NEW e \in Ends, WireInv(e), [Next]_vars PROVE WireInv(e)'
  <1>1. wire'[e] = wire[e] \/ \E t \in Writers : WritePut(e, t)
    BY WireStep DEF IInv
  <1>2. CASE wire'[e] = wire[e]
    BY <1>2 DEF WireInv
  <1>3. ASSUME NEW t \in Writers, WritePut(e, t) PROVE WireInv(e)'
    <2> DEFINE L == Len(wire[e])
               c == CurrentUnit(e, t)
    <2>1. wire'[e] = Append(wire[e], c) /\ wire[e] \in Seq(Units) /\ L \in Nat
      BY <1>3, EndTypes DEF WritePut, IInv, TypeOK
    <2>2. /\ Len(wire'[e]) = L + 1 /\ wire'[e][L + 1] = c
          /\ \A i \in 1..L : wire'[e][i] = wire[e][i]
      BY <2>1
    <2>3. /\ L + 1 \in 1..HsLen(e) => c = HandshakeUnits(e)[L + 1]
          /\ \A n \in Nat :
               /\ L + 1 = HsLen(e) + 2*n + 1 => c = FrameUnit(e, n, "len")
               /\ L + 1 = HsLen(e) + 2*n + 2 => c = FrameUnit(e, n, "body")
      BY <1>3, NextUnit
    <2>4. HsLen(e) \in Nat
      BY DEF HsLen
    <2> HIDE DEF L, c
    <2>5. ASSUME NEW i \in 1..HsLen(e), i <= Len(wire'[e])
          PROVE  wire'[e][i] = HandshakeUnits(e)[i]
      BY <2>1, <2>2, <2>3, <2>4, <2>5 DEF WireInv, L
    <2>6. ASSUME NEW n \in Nat, HsLen(e) + 2*n + 1 <= Len(wire'[e])
          PROVE  wire'[e][HsLen(e) + 2*n + 1] = FrameUnit(e, n, "len")
      <3>1. CASE HsLen(e) + 2*n + 1 = L + 1
        BY <3>1, <2>2, <2>3
      <3>2. CASE HsLen(e) + 2*n + 1 \in 1..L
        <4>1. wire[e][HsLen(e) + 2*n + 1] = FrameUnit(e, n, "len")
          BY <3>2, <2>1, <2>4 DEF WireInv, L
        <4> QED  BY <3>2, <4>1, <2>2
      <3> QED  BY <2>1, <2>2, <2>4, <2>6, <3>1, <3>2, SMTT(60)
    <2>7. ASSUME NEW n \in Nat, HsLen(e) + 2*n + 2 <= Len(wire'[e])
          PROVE  wire'[e][HsLen(e) + 2*n + 2] = FrameUnit(e, n, "body")
      <3>1. CASE HsLen(e) + 2*n + 2 = L + 1
        BY <3>1, <2>2, <2>3
      <3>2. CASE HsLen(e) + 2*n + 2 \in 1..L
        <4>1. wire[e][HsLen(e) + 2*n + 2] = FrameUnit(e, n, "body")
          BY <3>2, <2>1, <2>4 DEF WireInv, L
        <4> QED  BY <3>2, <4>1, <2>2
      <3> QED  BY <2>1, <2>2, <2>4, <2>7, <3>1, <3>2, SMTT(60)
    <2> QED  BY <2>5, <2>6, <2>7 DEF WireInv
  <1> QED  BY <1>1, <1>2, <1>3

\* Each end's bytes are a prefix of the protocol's one conversation: handshake
\* messages, the identity frame, then Yamux frames in nonce order with every
\* length prefix directly before its own payload.
THEOREM WireProtocol == Spec => []WireIsProtocol
  <1> DEFINE WInv == \A e \in Ends : WireInv(e)
  <1>1. Init => WInv
    BY DEF Init, WireInv, HsLen
  <1>2. IInv /\ WInv /\ [Next]_vars => WInv'
    BY NextWireInv
  <1>3. WInv => WireIsProtocol
    BY SessionAssumption DEF WireInv, WireIsProtocol
  <1> QED  BY <1>1, <1>2, <1>3, InductiveInvariant, PTL DEF Spec
-----------------------------------------------------------------------------
(* Reading: what an end expects next is what its peer has written next *)

\* Units an end has read before it enters the k-th step of its script.
HsRead(e, k) ==
    IF e = "I" THEN (IF k = 4 THEN 2 ELSE 0)
    ELSE IF k = 1 THEN 0 ELSE IF k = 2 THEN 1 ELSE 3

\* During the handshake the script position fixes how much e has read.
ReadHandshake(e) ==
    /\ pc[e] = "start" => rpos[Peer(e)] = 0 /\ rxn[e] = 0
    /\ pc[e] = "hs" =>
        /\ rxn[e] = 0
        /\ rpos[Peer(e)] = HsRead(e, step[e])
             + (IF Role(e, "main") = "r" /\ th[e]["main"] = "body" THEN 1 ELSE 0)

\* During the exchange the receive half has read nothing, half or all of the
\* peer's frame 0.
ReadExchange(e) ==
    pc[e] = "ident" =>
        /\ rx[e] = KeyOf(Peer(e)) /\ th[e]["recv"] \notin {"off", "raw"}
        /\ th[e]["recv"] \in {"ready", "len"} => rpos[Peer(e)] = HsLen(Peer(e)) /\ rxn[e] = 0
        /\ th[e]["recv"] = "body" => rpos[Peer(e)] = HsLen(Peer(e)) + 1 /\ rxn[e] = 0
        /\ th[e]["recv"] = "ok" => rpos[Peer(e)] = HsLen(Peer(e)) + 2 /\ rxn[e] = 1

\* In the Yamux phase the receive loop has read one frame per nonce.
ReadYamux(e) ==
    pc[e] = "yamux" =>
        /\ rx[e] = KeyOf(Peer(e)) /\ rxn[e] >= 1 /\ th[e]["yrecv"] \in {"ready", "len", "body"}
        /\ rpos[Peer(e)] = HsLen(Peer(e)) + 2 * rxn[e]
             + (IF th[e]["yrecv"] = "body" THEN 1 ELSE 0)

\* An end has both CipherStates or none; it has them only after it has read its
\* peer's whole handshake, and without them it has sent nothing but its own.
KeysInv(e) ==
    /\ pc[e] \in {"start", "hs"} => tx[e] = "none"
    /\ tx[e] = "none" => rx[e] = "none" /\ Len(wire[e]) <= HsLen(e)
    /\ tx[e] # "none" =>
         tx[e] = KeyOf(e) /\ rx[e] = KeyOf(Peer(e)) /\ rpos[Peer(e)] >= HsLen(Peer(e))

ProtocolErrors == {"noise", "framing", "decrypt"}

\* No goroutine of e has met traffic it could not use.
CleanInv(e) ==
    fail[e] \notin ProtocolErrors /\ \A t \in Threads : th[e][t] \notin ProtocolErrors

ReadInv(e) ==
    /\ rpos[Peer(e)] <= Len(wire[Peer(e)])
    /\ ReadHandshake(e) /\ ReadExchange(e) /\ ReadYamux(e) /\ KeysInv(e) /\ CleanInv(e)
LEMMA PeerFacts ==
    ASSUME NEW e \in Ends
    PROVE  /\ Peer(e) \in Ends /\ Peer(e) # e /\ Peer(Peer(e)) = e
           /\ \A d \in Ends : d = e \/ d = Peer(e)
           /\ HsLen(e) \in Nat /\ HsLen(Peer(e)) \in Nat
           /\ KeyOf(e) # "none" /\ KeyOf(Peer(e)) # "none" /\ KeyOf(e) # KeyOf(Peer(e))
  BY DEF Ends, Peer, HsLen, KeyOf

\* The types of what one end reads.
LEMMA ReadTypes ==
    ASSUME TypeOK, NEW e \in Ends
    PROVE  /\ rpos[Peer(e)] \in Nat /\ rxn[e] \in Nat /\ step[e] \in 1..4
           /\ wire[Peer(e)] \in Seq(Units) /\ Len(wire[Peer(e)]) \in Nat
           /\ Len(wire[e]) \in Nat /\ HsRead(e, step[e]) \in Nat
           /\ th[e] \in [Threads -> ThreadStates]
  <1>1. Peer(e) \in Ends
    BY PeerFacts
  <1>2. wire[Peer(e)] \in Seq(Units) /\ wire[e] \in Seq(Units)
    BY <1>1 DEF TypeOK
  <1>3. HsRead(e, step[e]) \in Nat
    BY DEF HsRead
  <1> QED  BY <1>1, <1>2, <1>3 DEF TypeOK

\* What a step that does not read for e leaves alone on e's receiving side.
NoRead(e) ==
    /\ rxn'[e] = rxn[e] /\ rpos'[Peer(e)] = rpos[Peer(e)]
    /\ Len(wire'[Peer(e)]) >= Len(wire[Peer(e)])

\* Everything ReadInv(e) speaks of is as before, or the peer has written more.
ReadSame(e) == Same(e) /\ NoRead(e) /\ rx'[e] = rx[e] /\ fail'[e] = fail[e]

LEMMA SameReadInv ==
    ASSUME TypeOK, NEW e \in Ends, ReadInv(e), ReadSame(e), Len(wire'[Peer(e)]) \in Nat
    PROVE  ReadInv(e)'
  <1>1. rpos'[Peer(e)] <= Len(wire'[Peer(e)])
    BY ReadTypes DEF ReadInv, ReadSame, NoRead
  <1>2. (ReadHandshake(e) /\ ReadExchange(e) /\ ReadYamux(e))'
    BY DEF ReadInv, ReadSame, NoRead, Same, ReadHandshake, ReadExchange, ReadYamux, Role
  <1>3. (KeysInv(e) /\ CleanInv(e))'
    BY DEF ReadInv, ReadSame, NoRead, Same, KeysInv, CleanInv
  <1> QED  BY <1>1, <1>2, <1>3 DEF ReadInv

\* A step of the other end leaves e's reader alone.
LEMMA OtherEndReadSame ==
    ASSUME TypeOK, NEW e \in Ends, NEW t \in Threads,
           MainStep(Peer(e)) \/ ThreadStep(Peer(e), t)
    PROVE  ReadSame(e)
  <1> DEFINE p == Peer(e)
  <1>1. p \in Ends /\ p # e /\ Peer(p) = e /\ e \in Ends \ {p}
    BY PeerFacts
  <1>2. Same(e)
    BY <1>1, OtherEndSame
  <1>3. wire[p] \in Seq(Units) /\ Len(wire[p]) \in Nat
    BY ReadTypes
  <1>4. Len(wire'[p]) >= Len(wire[p])
    <2>1. CASE wire'[p] = wire[p]
      BY <1>3, <2>1
    <2>2. ASSUME NEW s \in Writers, WritePut(p, s) PROVE Len(wire'[p]) >= Len(wire[p])
      BY <1>1, <1>3, <2>2 DEF WritePut, TypeOK
    <2>3. Next
      BY <1>1 DEF Next
    <2> QED  BY <1>1, <2>1, <2>2, <2>3, WireStep
  <1>5. rx'[e] = rx[e] /\ rxn'[e] = rxn[e] /\ fail'[e] = fail[e] /\ rpos'[p] = rpos[p]
    <2> HIDE DEF p
    <2>1. CASE MainStep(p)
      BY <1>1, <2>1 DEF MainStep, Start, SelectCtx, SelectSend, SelectRecv, StartYamux,
         selectUnchanged, Fail, Stay, TypeOK
    <2>2. CASE WritePut(p, t) \/ SendFrame(p, t) \/ ReceiveFrame(p, t)
      BY <1>1, <2>2 DEF WritePut, SendFrame, ReceiveFrame, TypeOK
    <2>3. CASE WriteReturn(p, t)
      BY <1>1, <2>3 DEF WriteReturn, HandshakeAdvance, Fail, FailMain, Stay, TypeOK
    <2>4. CASE Read(p, t)
      BY <1>1, <2>4, SMTT(60) DEF Read, HandshakeRead, FrameRead, Abort, HandshakeAdvance, Fail,
         FailMain, Stay, TypeOK
    <2>5. CASE IOError(p, t)
      BY <1>1, <2>5 DEF IOError, Abort, Fail, FailMain, Stay, TypeOK
    <2> QED  BY <2>1, <2>2, <2>3, <2>4, <2>5 DEF ThreadStep, p
  <1> QED  BY <1>2, <1>4, <1>5 DEF ReadSame, NoRead

\* An end that closes for a reason of its own keeps ReadInv.
LEMMA StopReadInv ==
    ASSUME TypeOK, NEW e \in Ends, ReadInv(e), pc'[e] = "closed",
           fail'[e] \notin ProtocolErrors, \A t \in Threads : th'[e][t] \notin ProtocolErrors,
           tx'[e] = tx[e], rx'[e] = rx[e], wire'[e] = wire[e],
           rpos'[Peer(e)] \in Nat, rpos'[Peer(e)] >= rpos[Peer(e)],
           rpos'[Peer(e)] <= Len(wire'[Peer(e)])
    PROVE  ReadInv(e)'
  <1>1. (ReadHandshake(e) /\ ReadExchange(e) /\ ReadYamux(e) /\ CleanInv(e))'
    BY DEF ReadHandshake, ReadExchange, ReadYamux, CleanInv
  <1>2. KeysInv(e)'
    <2>1. tx[e] # "none" => rpos'[Peer(e)] >= HsLen(Peer(e))
      BY ReadTypes, PeerFacts DEF ReadInv, KeysInv
    <2> QED  BY <2>1 DEF ReadInv, KeysInv
  <1> QED  BY <1>1, <1>2 DEF ReadInv
\* A goroutine of e other than main fails with an error that is not one of the
\* protocol; only the receive half of the exchange may have read before it.
LEMMA AbortReadInv ==
    ASSUME IInv, NEW e \in Ends, ReadInv(e), NEW t \in Threads \ {"main"},
           NEW why \in ErrorReasons \ ProtocolErrors, Abort(e, t, why), InIO(e, t),
           tx'[e] = tx[e], rx'[e] = rx[e], wire'[e] = wire[e],
           rpos'[Peer(e)] \in Nat, rpos'[Peer(e)] >= rpos[Peer(e)],
           rpos'[Peer(e)] <= Len(wire'[Peer(e)]),
           t = "recv" \/ (rpos'[Peer(e)] = rpos[Peer(e)] /\ rxn'[e] = rxn[e])
    PROVE  ReadInv(e)'
  <1>1. EndInv(e) /\ TypeOK
    BY DEF IInv
  <1>2. \A s \in Threads : th'[e][s] = IF s = t THEN why ELSE th[e][s]
    BY <1>1 DEF Abort, TypeOK
  <1>3. \A s \in Threads : th'[e][s] \notin ProtocolErrors
    BY <1>2 DEF ReadInv, CleanInv
  <1>4. CASE t \in {"ysend", "yrecv"} /\ pc[e] = "yamux"
    <2>1. pc'[e] = "closed" /\ fail'[e] = why
      BY <1>1, <1>4 DEF Abort, Fail, TypeOK
    <2> QED  BY <1>1, <1>3, <2>1, StopReadInv
  <1>5. CASE ~(t \in {"ysend", "yrecv"} /\ pc[e] = "yamux")
    <2>1. pc'[e] = pc[e] /\ fail'[e] = fail[e]
      BY <1>5 DEF Abort, Stay
    <2>2. pc[e] \notin {"start", "hs", "yamux"}
      BY <1>1, <1>5, StateNames DEF EndInv, StartInv, HandshakeInv, YamuxInv, ThreadInv, OthersOff,
         InIO, IOStates
    <2>3. why \notin {"off", "ready", "raw", "len", "body", "ok"}
      BY DEF ErrorReasons
    <2>4. ReadExchange(e)'
      BY <1>2, <2>1, <2>3, StateNames DEF ReadInv, ReadExchange
    <2>5. ReadHandshake(e)' /\ ReadYamux(e)' /\ CleanInv(e)'
      BY <1>3, <2>1, <2>2 DEF ReadInv, ReadHandshake, ReadYamux, CleanInv
    <2>6. KeysInv(e)'
      <3>1. tx[e] # "none" => rpos'[Peer(e)] >= HsLen(Peer(e))
        BY <1>1, ReadTypes, PeerFacts DEF ReadInv, KeysInv
      <3> QED  BY <2>1, <3>1 DEF ReadInv, KeysInv
    <2> QED  BY <2>4, <2>5, <2>6 DEF ReadInv
  <1> QED  BY <1>4, <1>5

\* Main fails in the handshake with an error that is not one of the protocol.
LEMMA FailMainReadInv ==
    ASSUME TypeOK, NEW e \in Ends, ReadInv(e),
           NEW why \in ErrorReasons \ ProtocolErrors, FailMain(e, why),
           tx'[e] = tx[e], rx'[e] = rx[e], wire'[e] = wire[e],
           rpos'[Peer(e)] \in Nat, rpos'[Peer(e)] >= rpos[Peer(e)],
           rpos'[Peer(e)] <= Len(wire'[Peer(e)])
    PROVE  ReadInv(e)'
  <1>1. /\ pc'[e] = "closed" /\ fail'[e] = why
        /\ \A s \in Threads : th'[e][s] = IF s = "main" THEN "off" ELSE th[e][s]
    BY StateNames DEF FailMain, Fail, TypeOK
  <1>2. \A s \in Threads : th'[e][s] \notin ProtocolErrors
    BY <1>1 DEF ReadInv, CleanInv, ProtocolErrors
  <1> QED  BY <1>1, <1>2, StopReadInv

\* The end of a handshake message: the next step of the script, or the keys.
LEMMA AdvanceReadInv ==
    ASSUME IInv, NEW e \in Ends, ReadInv(e), pc[e] = "hs", HandshakeAdvance(e),
           rxn'[e] = rxn[e], wire'[e] = wire[e], Len(wire[e]) <= HsLen(e),
           rpos'[Peer(e)] = HsRead(e, step[e]) +
             (IF Role(e, "main") = "w" THEN 0 ELSE IF step[e] = 1 THEN 1 ELSE 2),
           rpos'[Peer(e)] <= Len(wire'[Peer(e)])
    PROVE  ReadInv(e)'
  <1>1. EndInv(e) /\ TypeOK
    BY DEF IInv
  <1>2. step[e] \in 1..4 /\ Len(Script(e)) = 4
    BY <1>1, EndTypes, ScriptFacts
  <1>3. rxn[e] = 0 /\ tx[e] = "none" /\ rx[e] = "none" /\ OthersOff(e)
    BY <1>1 DEF ReadInv, ReadHandshake, KeysInv, EndInv, HandshakeInv
  <1>4. CASE step[e] < 4
    <2>1. /\ pc'[e] = "hs" /\ step'[e] = step[e] + 1 /\ fail'[e] = fail[e]
          /\ tx'[e] = tx[e] /\ rx'[e] = rx[e]
          /\ \A s \in Threads : th'[e][s] = IF s = "main" THEN "len" ELSE th[e][s]
      <3>1. FirstPart(Script(e)[step[e] + 1].m) = "len"
        BY <1>2, <1>4, ScriptFacts
      <3> QED  BY <1>1, <1>2, <1>4, <3>1, StateNames DEF HandshakeAdvance, TypeOK
    <2>2. HsRead(e, step[e] + 1) = rpos'[Peer(e)]
      <3>1. CASE e = "I"
        BY <3>1, <1>2, <1>4, ScriptFacts DEF HsRead, Role, W, R
      <3>2. CASE e = "R"
        BY <3>2, <1>2, <1>4, ScriptFacts DEF HsRead, Role, W, R
      <3> QED  BY <3>1, <3>2 DEF Ends
    <2>3. ReadHandshake(e)'
      <3>1. th'[e]["main"] = "len" /\ HsRead(e, step'[e]) \in Nat
        BY <2>1, StateNames DEF HsRead
      <3> QED  BY <1>3, <2>1, <2>2, <3>1 DEF ReadHandshake
    <2>4. ReadExchange(e)' /\ ReadYamux(e)' /\ KeysInv(e)'
      BY <1>3, <2>1 DEF ReadExchange, ReadYamux, KeysInv
    <2>5. CleanInv(e)'
      BY <2>1 DEF ReadInv, CleanInv, ProtocolErrors
    <2> QED  BY <2>3, <2>4, <2>5 DEF ReadInv
  <1>5. CASE step[e] = 4
    <2>1. ~(step[e] < Len(Script(e)))
      BY <1>2, <1>5
    <2>2. tx'[e] = KeyOf(e) /\ rx'[e] = KeyOf(Peer(e))
      <3>1. tx'[e] = SessionKeys(e)[1] /\ rx'[e] = SessionKeys(e)[2]
        BY <1>1, <2>1 DEF HandshakeAdvance, TypeOK
      <3> QED  BY <3>1 DEF SessionKeys, KeyOf, Peer, Ends
    <2>3. rpos'[Peer(e)] = HsLen(Peer(e))
      <3>1. CASE e = "I"
        BY <3>1, <1>5, ScriptFacts DEF HsRead, HsLen, Peer, Role, W, R
      <3>2. CASE e = "R"
        BY <3>2, <1>5, ScriptFacts DEF HsRead, HsLen, Peer, Role, W, R
      <3> QED  BY <3>1, <3>2 DEF Ends
    <2>4. \/ /\ pc'[e] = "closed" /\ fail'[e] = "identity"
             /\ th'[e] = [th[e] EXCEPT !["main"] = "off"]
          \/ /\ pc'[e] = "ident" /\ fail'[e] = fail[e]
             /\ th'[e] = [th[e] EXCEPT !["main"] = "off", !["send"] = "ready",
                                       !["recv"] = "ready"]
      <3>1. \/ FailMain(e, "identity")
            \/ /\ pc' = [pc EXCEPT ![e] = "ident"] /\ UNCHANGED fail
               /\ th' = [th EXCEPT ![e]["main"] = "off", ![e]["send"] = "ready",
                                   ![e]["recv"] = "ready"]
        BY <2>1 DEF HandshakeAdvance
      <3> QED  BY <1>1, <3>1 DEF TypeOK, FailMain, Fail
    <2>5. \A s \in Threads : th'[e][s] \in {th[e][s], "off", "ready"}
      BY <1>1, <2>4, EndTypes
    <2>6. CleanInv(e)'
      BY <2>4, <2>5 DEF ReadInv, CleanInv, ProtocolErrors
    <2>7. KeysInv(e)'
      BY <2>2, <2>3, <2>4, PeerFacts DEF KeysInv
    <2>8. ReadExchange(e)'
      <3>1. pc'[e] = "ident" => th'[e]["recv"] = "ready"
        BY <1>1, <2>4, EndTypes, StateNames
      <3> QED  BY <1>3, <2>2, <2>3, <3>1 DEF ReadExchange
    <2>9. ReadHandshake(e)' /\ ReadYamux(e)'
      BY <2>4 DEF ReadHandshake, ReadYamux
    <2> QED  BY <2>6, <2>7, <2>8, <2>9 DEF ReadInv
  <1> QED  BY <1>2, <1>4, <1>5

\* During the handshake an end writes no more than its handshake.
LEMMA HandshakeLen ==
    ASSUME IInv, NEW e \in Ends, pc[e] = "hs"
    PROVE  /\ Len(wire[e]) <= HsLen(e)
           /\ Role(e, "main") = "w" /\ "main" \notin inWrite[e] => Len(wire[e]) < HsLen(e)
  <1>1. EndInv(e) /\ TypeOK /\ step[e] \in 1..4
    BY EndTypes DEF IInv
  <1> DEFINE x == IF Role(e, "main") = "w" /\ th[e]["main"] = "body" THEN 1 ELSE 0
  <1>2. /\ Len(wire[e]) = HsBefore(e, step[e]) + Put(e, "main") + x
        /\ Role(e, "main") = "r" => Put(e, "main") = 0
        /\ th[e]["main"] = "raw" <=> step[e] = 1
    BY <1>1 DEF EndInv, HandshakeInv, Put
  <1>3. Put(e, "main") \in {0, 1} /\ ("main" \notin inWrite[e] => Put(e, "main") = 0)
    BY DEF Put
  <1>4. /\ x \in {0, 1} /\ (Role(e, "main") = "r" => x = 0)
        /\ step[e] = 1 => x = 0
    BY <1>2
  <1>5. CASE e = "I"
    <2>1. HsBefore(e, step[e]) \in 0..3 /\ HsLen(e) = 5
      BY <1>5 DEF HsBefore, HsLen
    <2> HIDE DEF x
    <2> QED  BY <1>2, <1>3, <1>4, <2>1
  <1>6. CASE e = "R"
    <2>1. Role(e, "main") = IF step[e] = 3 THEN "w" ELSE "r"
      BY <1>1, <1>6, ScriptFacts DEF Role, W, R
    <2> HIDE DEF x
    <2> QED  BY <1>1, <1>2, <1>3, <1>4, <1>6, <2>1 DEF HsBefore, HsLen
  <1> QED  BY <1>5, <1>6 DEF Ends
\* Steps of the main goroutine outside I/O keep ReadInv.
LEMMA MainStepReadInv == ASSUME IInv, NEW e \in Ends, ReadInv(e), MainStep(e) PROVE ReadInv(e)'
  <1>1. EndInv(e) /\ TypeOK
    BY DEF IInv
  <1>2. /\ step'[e] = step[e] /\ tx'[e] = tx[e] /\ rx'[e] = rx[e] /\ rxn'[e] = rxn[e]
        /\ rpos' = rpos /\ wire' = wire
    BY DEF MainStep, Start, SelectCtx, SelectSend, SelectRecv, StartYamux, selectUnchanged
  <1>3. CASE Start(e)
    <2>1. FirstPart(Script(e)[1].m) = "raw"
      BY ScriptFacts
    <2>2. \/ pc'[e] = "closed" /\ fail'[e] = "ctx" /\ th'[e] = th[e]
          \/ /\ pc'[e] = "hs" /\ fail'[e] = fail[e]
             /\ \A s \in Threads : th'[e][s] = IF s = "main" THEN "raw" ELSE th[e][s]
      BY <1>1, <1>3, <2>1, StateNames DEF Start, Fail, TypeOK
    <2>3. CASE pc'[e] = "closed" /\ fail'[e] = "ctx" /\ th'[e] = th[e]
      BY <1>1, <1>2, <2>3, ReadTypes, PeerFacts, StopReadInv DEF ReadInv, CleanInv, ProtocolErrors
    <2>4. CASE /\ pc'[e] = "hs" /\ fail'[e] = fail[e]
               /\ \A s \in Threads : th'[e][s] = IF s = "main" THEN "raw" ELSE th[e][s]
      <3>1. pc[e] = "start" /\ step[e] = 1
        BY <1>1, <1>3 DEF Start, EndInv, StartInv
      <3>2. HsRead(e, step'[e]) = 0 /\ th'[e]["main"] = "raw"
        BY <1>2, <2>4, <3>1, StateNames DEF HsRead
      <3>3. ReadHandshake(e)'
        BY <1>2, <2>4, <3>1, <3>2 DEF ReadInv, ReadHandshake
      <3>4. (ReadExchange(e) /\ ReadYamux(e) /\ KeysInv(e) /\ CleanInv(e))'
        BY <1>2, <2>4, <3>1 DEF ReadInv, ReadExchange, ReadYamux, KeysInv, CleanInv,
           ProtocolErrors
      <3> QED  BY <1>2, <3>3, <3>4 DEF ReadInv
    <2> QED  BY <2>2, <2>3, <2>4
  <1>4. CASE SelectCtx(e) \/ SelectSend(e) \/ SelectRecv(e)
    <2>1. th' = th /\ pc[e] = "ident"
      BY <1>4 DEF SelectCtx, SelectSend, SelectRecv, selectUnchanged
    <2>2. \/ pc'[e] = pc[e] /\ fail'[e] = fail[e]
          \/ /\ pc'[e] = "closed"
             /\ fail'[e] \in {"ctx", th[e]["send"], th[e]["recv"]}
      BY <1>1, <1>4 DEF SelectCtx, SelectSend, SelectRecv, Fail, Stay, TypeOK
    <2>3. CASE pc'[e] = pc[e] /\ fail'[e] = fail[e]
      BY <1>2, <2>1, <2>3 DEF ReadInv, ReadHandshake, ReadExchange, ReadYamux, KeysInv,
         CleanInv, Role
    <2>4. CASE pc'[e] = "closed" /\ fail'[e] \in {"ctx", th[e]["send"], th[e]["recv"]}
      <3>1. fail'[e] \notin ProtocolErrors
        BY <2>4, StateNames DEF ReadInv, CleanInv, ProtocolErrors
      <3> QED
        BY <1>1, <1>2, <2>1, <2>4, <3>1, ReadTypes, PeerFacts, StopReadInv DEF ReadInv, CleanInv
    <2> QED  BY <2>2, <2>3, <2>4
  <1>5. CASE StartYamux(e)
    <2>1. /\ pc[e] = "ident" /\ pc'[e] = "yamux" /\ fail'[e] = fail[e] /\ recvDone[e]
          /\ \A s \in Threads :
               th'[e][s] = IF s \in {"ysend", "yrecv"} THEN "ready" ELSE th[e][s]
      BY <1>1, <1>5, StateNames DEF StartYamux, ExchangePending, TypeOK
    <2>2. th[e]["recv"] = "ok"
      BY <1>1, <2>1 DEF EndInv, ExchangeInv
    <2>3. rxn[e] = 1 /\ rpos[Peer(e)] = HsLen(Peer(e)) + 2 /\ rx[e] = KeyOf(Peer(e))
      BY <2>1, <2>2 DEF ReadInv, ReadExchange
    <2>4. ReadYamux(e)'
      <3>1. th'[e]["yrecv"] = "ready"
        BY <2>1, StateNames
      <3> QED  BY <1>2, <2>1, <2>3, <3>1, PeerFacts DEF ReadYamux
    <2>5. (ReadHandshake(e) /\ ReadExchange(e) /\ KeysInv(e) /\ CleanInv(e))'
      BY <1>2, <2>1 DEF ReadInv, ReadHandshake, ReadExchange, KeysInv, CleanInv, ProtocolErrors
    <2> QED  BY <1>2, <2>4, <2>5 DEF ReadInv
  <1> QED  BY <1>3, <1>4, <1>5 DEF MainStep

\* The steps of a frame that neither read nor fail keep ReadInv.
LEMMA MoveReadInv ==
    ASSUME IInv, NEW e \in Ends, ReadInv(e), NEW t \in Threads,
           NEW s \in {"ready", "len", "body", "ok"},
           t = "main" => Role(e, "main") = "w",
           t \in {"recv", "yrecv"} => th[e][t] = "ready" /\ s = "len",
           \A r \in Threads : th'[e][r] = IF r = t THEN s ELSE th[e][r],
           pc'[e] = pc[e], fail'[e] = fail[e], step'[e] = step[e],
           tx'[e] = tx[e], rx'[e] = rx[e], rxn'[e] = rxn[e], rpos' = rpos, wire' = wire
    PROVE  ReadInv(e)'
  <1>1. ReadHandshake(e)'
    <2>1. pc[e] = "hs" => Role(e, "main")' = Role(e, "main")
      BY DEF Role
    <2>2. Role(e, "main") = "r" => th'[e]["main"] = th[e]["main"]
      BY StateNames
    <2> QED  BY <2>1, <2>2 DEF ReadInv, ReadHandshake
  <1>2. ReadExchange(e)'
    BY StateNames DEF ReadInv, ReadExchange
  <1>3. ReadYamux(e)'
    BY StateNames DEF ReadInv, ReadYamux
  <1>4. KeysInv(e)' /\ CleanInv(e)'
    BY DEF ReadInv, KeysInv, CleanInv, ProtocolErrors
  <1> QED  BY <1>1, <1>2, <1>3, <1>4 DEF ReadInv

\* Putting bytes on the wire keeps ReadInv: without keys they are handshake bytes.
LEMMA WritePutReadInv ==
    ASSUME IInv, NEW e \in Ends, ReadInv(e), NEW t \in Writers, WritePut(e, t)
    PROVE  ReadInv(e)'
  <1>1. EndInv(e) /\ TypeOK
    BY DEF IInv
  <1>2. /\ pc' = pc /\ step' = step /\ th' = th /\ rpos' = rpos /\ tx' = tx /\ rx' = rx
        /\ rxn' = rxn /\ fail' = fail /\ wire'[Peer(e)] = wire[Peer(e)]
        /\ wire'[e] = Append(wire[e], CurrentUnit(e, t))
    BY <1>1, PeerFacts DEF WritePut, TypeOK
  <1>3. Len(wire'[e]) = Len(wire[e]) + 1
    BY <1>1, <1>2, EndTypes
  <1>4. tx[e] = "none" => Len(wire[e]) + 1 <= HsLen(e)
    <2> SUFFICES ASSUME tx[e] = "none" PROVE Len(wire[e]) + 1 <= HsLen(e)
      OBVIOUS
    <2>1. pc[e] = "hs"
      <3>1. pc[e] \in Phases \ {"closed"}
        BY <1>1 DEF WritePut, IOFails, Closed, TypeOK
      <3>2. pc[e] \notin {"ident", "yamux"}
        BY <1>1, PeerFacts DEF EndInv, ExchangeInv, YamuxInv
      <3>3. pc[e] # "start"
        BY <1>1 DEF EndInv, StartInv, WritePut, InIO, IOStates, Threads
      <3> QED  BY <3>1, <3>2, <3>3 DEF Phases
    <2>2. t = "main" /\ "main" \notin inWrite[e] /\ Role(e, "main") = "w"
      BY <1>1, <2>1, StateNames DEF EndInv, HandshakeInv, OthersOff, WritePut, InIO, IOStates,
         Writers
    <2> QED  BY <1>1, <2>1, <2>2, HandshakeLen, EndTypes
  <1>5. KeysInv(e)'
    BY <1>2, <1>3, <1>4 DEF ReadInv, KeysInv
  <1>6. (ReadHandshake(e) /\ ReadExchange(e) /\ ReadYamux(e) /\ CleanInv(e))'
    BY <1>2 DEF ReadInv, ReadHandshake, ReadExchange, ReadYamux, CleanInv, Role
  <1> QED  BY <1>2, <1>5, <1>6 DEF ReadInv

\* The return of a Write keeps ReadInv.
LEMMA WriteReturnReadInv ==
    ASSUME IInv, NEW e \in Ends, ReadInv(e), NEW t \in Writers, WriteReturn(e, t)
    PROVE  ReadInv(e)'
  <1>1. EndInv(e) /\ TypeOK /\ t \in Threads
    BY DEF IInv, Threads
  <1>2. wire' = wire /\ rpos' = rpos /\ rxn' = rxn /\ t \in inWrite[e] /\ InIO(e, t)
    BY <1>1 DEF WriteReturn, EndInv, ThreadInv
  <1>3. t = "main" => pc[e] = "hs" /\ Role(e, "main") = "w"
    <2>1. t = "main" => pc[e] = "hs"
      BY <1>1, <1>2 DEF EndInv, ThreadInv
    <2> QED  BY <1>1, <1>2, <2>1, EndTypes, ScriptFacts DEF EndInv, HandshakeInv, Role
  <1>4. CASE t = "main" /\ th[e][t] # "len"
    <2>1. HandshakeAdvance(e)
      BY <1>4 DEF WriteReturn
    <2>2. rpos[Peer(e)] = HsRead(e, step[e]) /\ rpos[Peer(e)] <= Len(wire[Peer(e)])
      BY <1>1, <1>3, <1>4, ReadTypes DEF ReadInv, ReadHandshake
    <2>3. rpos[Peer(e)] = HsRead(e, step[e]) + 0
      BY <1>1, <2>2, ReadTypes
    <2> QED  BY <1>2, <1>3, <1>4, <2>1, <2>2, <2>3, HandshakeLen, AdvanceReadInv
  <1>5. CASE t # "main" \/ th[e][t] = "len"
    <2>1. /\ UNCHANGED <<pc, step, tx, rx, fail>>
          /\ \E s \in {"ready", "body", "ok"} : th' = [th EXCEPT ![e][t] = s]
      BY <1>5 DEF WriteReturn, Stay
    <2>2. PICK s \in {"ready", "body", "ok"} : th' = [th EXCEPT ![e][t] = s]
      BY <2>1
    <2>3. \A r \in Threads : th'[e][r] = IF r = t THEN s ELSE th[e][r]
      BY <1>1, <2>2 DEF TypeOK
    <2>4. t \notin {"recv", "yrecv"}
      BY DEF Writers
    <2> QED  BY <1>1, <1>2, <1>3, <2>1, <2>3, <2>4, MoveReadInv
  <1> QED  BY <1>4, <1>5

\* Starting a frame, in either direction, keeps ReadInv.
LEMMA FrameStartReadInv ==
    ASSUME IInv, NEW e \in Ends, ReadInv(e), NEW t \in Threads,
           SendFrame(e, t) \/ ReceiveFrame(e, t)
    PROVE  ReadInv(e)'
  <1>1. /\ t \in Threads /\ t # "main" /\ th[e][t] = "ready"
        /\ th' = [th EXCEPT ![e][t] = "len"]
        /\ UNCHANGED <<pc, fail, step, tx, rx, rxn, rpos, wire>>
    BY DEF SendFrame, ReceiveFrame
  <1>2. \A r \in Threads : th'[e][r] = IF r = t THEN "len" ELSE th[e][r]
    BY <1>1 DEF IInv, TypeOK
  <1> QED  BY <1>1, <1>2, MoveReadInv

\* A failing Write or ReadFull keeps ReadInv.
LEMMA IOErrorReadInv ==
    ASSUME IInv, NEW e \in Ends, ReadInv(e), NEW t \in Threads, IOError(e, t)
    PROVE  ReadInv(e)'
  <1>1. /\ InIO(e, t) /\ wire' = wire /\ rpos' = rpos /\ tx' = tx /\ rx' = rx /\ rxn' = rxn
    BY DEF IOError
  <1>2. PICK why \in {"timeout", "io"} :
          IF t = "main" THEN FailMain(e, why) ELSE Abort(e, t, why)
    BY DEF IOError
  <1>3. why \in ErrorReasons \ ProtocolErrors
    BY DEF ErrorReasons, ProtocolErrors
  <1>4. /\ rpos'[Peer(e)] \in Nat /\ rpos'[Peer(e)] >= rpos[Peer(e)]
        /\ rpos'[Peer(e)] <= Len(wire'[Peer(e)])
    BY <1>1, ReadTypes DEF IInv, ReadInv
  <1> QED  BY <1>1, <1>2, <1>3, <1>4, AbortReadInv, FailMainReadInv DEF IInv
\* What a ReadFull finds is what its goroutine waits for: the right part of
\* the right message, and for a frame the peer's key and the next nonce.
LEMMA ReadUnit ==
    ASSUME IInv, NEW e \in Ends, ReadInv(e), WireInv(Peer(e)), NEW t \in Readers, Read(e, t)
    PROVE  LET u == wire[Peer(e)][rpos[Peer(e)] + 1]
           IN  /\ u.part = th[e][t]
               /\ t = "main" => pc[e] = "hs" /\ u.m = Script(e)[step[e]].m
               /\ t # "main" => u.key = rx[e] /\ u.n = rxn[e]
               /\ t = "recv" => pc[e] = "ident"
               /\ t = "yrecv" => pc[e] = "yamux"
  <1> DEFINE p == Peer(e)
             k == rpos[p]
             u == wire[p][k + 1]
  <1>1. EndInv(e) /\ TypeOK /\ t \in Threads /\ step[e] \in 1..4
    BY EndTypes DEF IInv, Threads
  <1>2. InIO(e, t) /\ Role(e, t) = "r" /\ pc[e] \in Phases \ {"closed"}
    BY <1>1 DEF Read, IOFails, Closed, TypeOK
  <1>3. k \in Nat /\ Len(wire[p]) \in Nat /\ k + 1 <= Len(wire[p]) /\ HsLen(p) \in Nat
    BY <1>1, ReadTypes, PeerFacts DEF Read, InFlight
  <1>4. CASE t = "main"
    <2>1. pc[e] = "hs"
      BY <1>1, <1>2, <1>4 DEF EndInv, ThreadInv
    <2>2. /\ k = HsRead(e, step[e]) + (IF th[e]["main"] = "body" THEN 1 ELSE 0)
          /\ th[e]["main"] = "raw" <=> step[e] = 1
          /\ th[e]["main"] \in IOStates
      BY <1>1, <1>2, <1>4, <2>1 DEF ReadInv, ReadHandshake, EndInv, HandshakeInv
    <2>3. k + 1 \in 1..HsLen(p) => u = HandshakeUnits(p)[k + 1]
      BY <1>3 DEF WireInv
    <2> HIDE DEF u, k, p
    <2>4. u.part = th[e]["main"] /\ u.m = Script(e)[step[e]].m
      <3>1. CASE e = "I"
        <4>1. step[e] = 3 /\ p = "R" /\ Script(e)[3] = R("ees")
          BY <1>1, <1>2, <1>4, <3>1, ScriptFacts DEF Role, W, p, Peer
        <4>2. k = (IF th[e]["main"] = "body" THEN 1 ELSE 0) /\ th[e]["main"] \in {"len", "body"}
          BY <2>2, <3>1, <4>1 DEF HsRead, IOStates
        <4> QED  BY <2>3, <4>1, <4>2 DEF HsLen, HandshakeUnits, R, Unit
      <3>2. CASE e = "R"
        <4>1. step[e] \in {1, 2, 4} /\ p = "I"
          BY <1>1, <1>2, <1>4, <3>2, ScriptFacts DEF Role, W, p, Peer
        <4>2. CASE step[e] = 1
          <5>1. k = 0 /\ th[e]["main"] = "raw" /\ Script(e)[1] = R("net")
            BY <2>2, <3>2, <4>2, ScriptFacts DEF HsRead
          <5> QED  BY <2>3, <4>1, <4>2, <5>1 DEF HsLen, HandshakeUnits, R, Unit
        <4>3. CASE step[e] = 2
          <5>1. /\ k = (IF th[e]["main"] = "body" THEN 2 ELSE 1)
                /\ th[e]["main"] \in {"len", "body"} /\ Script(e)[2] = R("e")
            BY <2>2, <3>2, <4>3, ScriptFacts DEF HsRead, IOStates
          <5> QED  BY <2>3, <4>1, <4>3, <5>1 DEF HsLen, HandshakeUnits, R, Unit
        <4>4. CASE step[e] = 4
          <5>1. /\ k = (IF th[e]["main"] = "body" THEN 4 ELSE 3)
                /\ th[e]["main"] \in {"len", "body"} /\ Script(e)[4] = R("sse")
            BY <2>2, <3>2, <4>4, ScriptFacts DEF HsRead, IOStates
          <5> QED  BY <2>3, <4>1, <4>4, <5>1 DEF HsLen, HandshakeUnits, R, Unit
        <4> QED  BY <4>1, <4>2, <4>3, <4>4
      <3> QED  BY <3>1, <3>2 DEF Ends
    <2> QED  BY <1>4, <2>1, <2>4 DEF u, k, p
  <1>5. CASE t # "main"
    <2>1. t \in {"recv", "yrecv"} /\ pc[e] \in {"ident", "yamux"}
      <3>1. pc[e] \notin {"start", "hs"}
        BY <1>1, <1>2, <1>5 DEF EndInv, StartInv, HandshakeInv, OthersOff, InIO, IOStates
      <3> QED  BY <1>2, <1>5, <3>1 DEF Readers, Phases
    <2>2. (t = "recv" => pc[e] = "ident") /\ (t = "yrecv" => pc[e] = "yamux")
      BY <1>1, <1>2, <2>1 DEF EndInv, ExchangeInv, ThreadInv, InIO, IOStates
    <2>3. th[e][t] \in {"len", "body"} /\ rx[e] = KeyOf(p) /\ rxn[e] \in Nat
      <3>1. rxn[e] \in Nat
        BY <1>1, ReadTypes
      <3>2. CASE t = "recv"
        BY <1>2, <2>2, <3>1, <3>2 DEF ReadInv, ReadExchange, InIO, IOStates
      <3>3. CASE t = "yrecv"
        BY <1>2, <2>2, <3>1, <3>3 DEF ReadInv, ReadYamux, InIO, IOStates
      <3> QED  BY <2>1, <3>2, <3>3
    <2>4. k = HsLen(p) + 2 * rxn[e] + (IF th[e][t] = "body" THEN 1 ELSE 0)
      <3>1. CASE t = "recv"
        <4>1. rxn[e] = 0 /\ k = HsLen(p) + (IF th[e][t] = "body" THEN 1 ELSE 0)
          BY <1>3, <2>2, <2>3, <3>1 DEF ReadInv, ReadExchange
        <4> QED  BY <1>3, <4>1
      <3>2. CASE t = "yrecv"
        BY <2>2, <3>2 DEF ReadInv, ReadYamux
      <3> QED  BY <2>1, <3>1, <3>2
    <2>5. u = FrameUnit(p, rxn[e], th[e][t])
      <3>1. CASE th[e][t] = "len"
        <4>1. k + 1 = HsLen(p) + 2 * rxn[e] + 1
          BY <1>3, <2>3, <2>4, <3>1
        <4> QED  BY <1>3, <2>3, <3>1, <4>1 DEF WireInv
      <3>2. CASE th[e][t] = "body"
        <4>1. k + 1 = HsLen(p) + 2 * rxn[e] + 2
          BY <1>3, <2>3, <2>4, <3>2
        <4> QED  BY <1>3, <2>3, <3>2, <4>1 DEF WireInv
      <3> QED  BY <2>3, <3>1, <3>2
    <2>6. u.part = th[e][t] /\ u.n = rxn[e] /\ u.key = KeyOf(p)
      BY <2>5 DEF FrameUnit, Unit, KeyOf
    <2> QED  BY <1>5, <2>2, <2>3, <2>6
  <1> QED  BY <1>4, <1>5

\* A ReadFull keeps ReadInv.
LEMMA ReadReadInv ==
    ASSUME IInv, NEW e \in Ends, ReadInv(e), WireInv(Peer(e)), NEW t \in Readers, Read(e, t)
    PROVE  ReadInv(e)'
  <1> DEFINE p == Peer(e)
             u == wire[p][rpos[p] + 1]
  <1>1. EndInv(e) /\ TypeOK /\ t \in Threads /\ step[e] \in 1..4
    BY EndTypes DEF IInv, Threads
  <1>2. /\ u.part = th[e][t]
        /\ t = "main" => pc[e] = "hs" /\ u.m = Script(e)[step[e]].m
        /\ t # "main" => u.key = rx[e] /\ u.n = rxn[e]
        /\ t = "recv" => pc[e] = "ident"
        /\ t = "yrecv" => pc[e] = "yamux"
    BY ReadUnit
  <1>3. /\ rpos[p] \in Nat /\ Len(wire[p]) \in Nat /\ wire' = wire
        /\ rpos'[p] = rpos[p] + 1 /\ rpos'[p] <= Len(wire'[p])
        /\ InIO(e, t) /\ Role(e, t) = "r" /\ rxn[e] \in Nat /\ HsLen(p) \in Nat
    <2>1. rpos[p] \in Nat /\ Len(wire[p]) \in Nat /\ rxn[e] \in Nat /\ HsLen(p) \in Nat
      BY <1>1, ReadTypes, PeerFacts
    <2>2. wire' = wire /\ rpos'[p] = rpos[p] + 1 /\ InFlight(p) > 0
      BY <1>1, PeerFacts DEF Read, TypeOK
    <2> QED  BY <2>1, <2>2 DEF Read, InFlight
  <1>4. /\ rpos'[p] \in Nat /\ rpos'[p] >= rpos[p]
        /\ tx[e] # "none" => rpos'[p] >= HsLen(p)
    BY <1>3 DEF ReadInv, KeysInv
  <1>5. CASE u.part = "len"
    <2>1. /\ th' = [th EXCEPT ![e][t] = "body"] /\ UNCHANGED <<step, tx, rx, rxn, pc, fail>>
      BY <1>2, <1>5 DEF Read, Stay
    <2>2. /\ \A r \in Threads : th'[e][r] = IF r = t THEN "body" ELSE th[e][r]
          /\ th[e][t] = "len"
      BY <1>1, <1>2, <1>5, <2>1 DEF TypeOK
    <2>3. ReadHandshake(e)'
      <3>1. CASE t = "main"
        <4>1. pc[e] = "hs" /\ Role(e, "main") = "r" /\ Role(e, "main")' = "r"
          BY <1>2, <1>3, <2>1, <3>1 DEF Role
        <4>2. rpos[p] = HsRead(e, step[e]) /\ rxn[e] = 0 /\ HsRead(e, step[e]) \in Nat
          BY <1>1, <2>2, <3>1, <4>1, ReadTypes DEF ReadInv, ReadHandshake
        <4> QED  BY <1>3, <2>1, <2>2, <3>1, <4>1, <4>2, StateNames DEF ReadHandshake
      <3>2. CASE t # "main"
        BY <1>2, <2>1, <3>2 DEF ReadHandshake, Readers
      <3> QED  BY <3>1, <3>2
    <2>4. ReadExchange(e)'
      BY <1>2, <1>3, <2>1, <2>2, StateNames DEF ReadInv, ReadExchange, Readers
    <2>5. ReadYamux(e)'
      <3> SUFFICES ASSUME pc[e] = "yamux" PROVE ReadYamux(e)'
        BY <2>1 DEF ReadYamux
      <3>1. t = "yrecv"
        BY <1>2 DEF Readers
      <3>2. rpos[p] = HsLen(p) + 2 * rxn[e] /\ th'[e]["yrecv"] = "body"
        BY <1>3, <2>2, <3>1, StateNames DEF ReadInv, ReadYamux
      <3>3. rpos'[p] = HsLen(p) + 2 * rxn[e] + 1
        BY <1>3, <3>2
      <3> QED  BY <2>1, <3>2, <3>3 DEF ReadInv, ReadYamux
    <2>6. KeysInv(e)' /\ CleanInv(e)'
      BY <1>3, <1>4, <2>1, <2>2 DEF ReadInv, KeysInv, CleanInv, ProtocolErrors
    <2> QED  BY <1>3, <2>3, <2>4, <2>5, <2>6 DEF ReadInv
  <1>6. CASE u.part # "len" /\ t = "main"
    <2>1. HandshakeRead(e, u) /\ UNCHANGED rxn
      BY <1>2, <1>6 DEF Read
    <2>2. \/ FailMain(e, "wiremode") /\ UNCHANGED <<tx, rx>>
          \/ HandshakeAdvance(e)
      BY <1>2, <1>6, <2>1 DEF HandshakeRead
    <2>3. CASE FailMain(e, "wiremode") /\ UNCHANGED <<tx, rx>>
      <3>1. "wiremode" \in ErrorReasons \ ProtocolErrors
        BY DEF ErrorReasons, ProtocolErrors
      <3> QED  BY <1>1, <1>3, <1>4, <2>3, <3>1, FailMainReadInv
    <2>4. CASE HandshakeAdvance(e)
      <3>1. rpos'[p] = HsRead(e, step[e]) + (IF step[e] = 1 THEN 1 ELSE 2)
        <4>1. th[e]["main"] \in {"raw", "body"} /\ (th[e]["main"] = "raw" <=> step[e] = 1)
          BY <1>1, <1>2, <1>3, <1>6 DEF EndInv, HandshakeInv, InIO, IOStates
        <4>2. HsRead(e, step[e]) \in Nat
          BY <1>1, ReadTypes
        <4> QED  BY <1>2, <1>3, <1>6, <4>1, <4>2 DEF ReadInv, ReadHandshake
      <3>2. Role(e, "main") # "w"
        BY <1>3, <1>6
      <3> QED  BY <1>2, <1>3, <1>6, <2>1, <2>4, <3>1, <3>2, HandshakeLen, AdvanceReadInv
    <2> QED  BY <2>2, <2>3, <2>4
  <1>7. CASE u.part # "len" /\ t # "main"
    <2>1. FrameRead(e, t, u)
      BY <1>2, <1>7 DEF Read
    <2>2. /\ UNCHANGED <<step, tx, rx>> /\ rxn' = [rxn EXCEPT ![e] = @ + 1]
          /\ \/ t = "recv" /\ Abort(e, t, "identity")
             \/ /\ th' = [th EXCEPT ![e][t] = IF t = "recv" THEN "ok" ELSE "ready"]
                /\ UNCHANGED <<pc, fail>>
      BY <1>2, <1>7, <2>1 DEF FrameRead, Stay
    <2>3. CASE t = "recv" /\ Abort(e, t, "identity")
      <3>1. "identity" \in ErrorReasons \ ProtocolErrors
        BY DEF ErrorReasons, ProtocolErrors
      <3> QED  BY <1>1, <1>3, <1>4, <1>7, <2>2, <2>3, <3>1, AbortReadInv
    <2>4. CASE /\ th' = [th EXCEPT ![e][t] = IF t = "recv" THEN "ok" ELSE "ready"]
               /\ UNCHANGED <<pc, fail>>
      <3>1. /\ \A r \in Threads \ {t} : th'[e][r] = th[e][r]
            /\ th'[e][t] = IF t = "recv" THEN "ok" ELSE "ready"
        BY <1>1, <2>4 DEF TypeOK
      <3>2. rxn'[e] = rxn[e] + 1
        BY <1>1, <2>2 DEF TypeOK
      <3>3. th[e][t] = "body"
        <4>1. CASE t = "recv"
          BY <1>2, <1>3, <1>7, <4>1 DEF ReadInv, ReadExchange, InIO, IOStates
        <4>2. CASE t = "yrecv"
          BY <1>2, <1>3, <1>7, <4>2 DEF ReadInv, ReadYamux, InIO, IOStates
        <4> QED  BY <1>7, <4>1, <4>2 DEF Readers
      <3>4. ReadHandshake(e)' /\ KeysInv(e)'
        BY <1>2, <1>3, <1>4, <1>7, <2>2, <2>4 DEF ReadInv, ReadHandshake, KeysInv, Readers
      <3>5. ReadExchange(e)'
        <4> SUFFICES ASSUME pc[e] = "ident" PROVE ReadExchange(e)'
          BY <2>4 DEF ReadExchange
        <4>1. t = "recv"
          BY <1>2, <1>7 DEF Readers
        <4>2. rpos[p] = HsLen(p) + 1 /\ rxn[e] = 0 /\ th'[e]["recv"] = "ok"
          BY <3>1, <3>3, <4>1 DEF ReadInv, ReadExchange
        <4>3. rpos'[p] = HsLen(p) + 2 /\ rxn'[e] = 1
          BY <1>3, <3>2, <4>2
        <4> QED  BY <2>2, <4>2, <4>3 DEF ReadInv, ReadExchange
      <3>6. ReadYamux(e)'
        <4> SUFFICES ASSUME pc[e] = "yamux" PROVE ReadYamux(e)'
          BY <2>4 DEF ReadYamux
        <4>1. t = "yrecv"
          BY <1>2, <1>7 DEF Readers
        <4>2. /\ rpos[p] = HsLen(p) + 2 * rxn[e] + 1 /\ rxn[e] >= 1
              /\ th'[e]["yrecv"] = "ready" /\ rx[e] = KeyOf(p)
          BY <3>1, <3>3, <4>1 DEF ReadInv, ReadYamux
        <4>3. rxn'[e] >= 1
          BY <1>3, <3>2
        <4>4. rpos'[p] = HsLen(p) + 2 * rxn[e] + 2
          BY <1>3, <4>2
        <4>5. rpos'[p] = HsLen(p) + 2 * rxn'[e] + 0
          <5> DEFINE h == HsLen(p)
                     m == rxn[e]
                     n == rxn'[e]
          <5>1. h \in Nat /\ m \in Nat /\ n = m + 1 /\ rpos'[p] = h + 2 * m + 2
            BY <1>3, <3>2, <4>4
          <5> HIDE DEF h, m, n
          <5>2. rpos'[p] = h + 2 * n + 0
            BY <5>1
          <5> QED  BY <5>2 DEF h, n
        <4> QED  BY <2>2, <4>2, <4>3, <4>5 DEF ReadYamux
      <3>7. CleanInv(e)'
        BY <2>4, <3>1 DEF ReadInv, CleanInv, ProtocolErrors
      <3> QED  BY <1>3, <3>4, <3>5, <3>6, <3>7 DEF ReadInv
    <2> QED  BY <2>2, <2>3, <2>4
  <1> QED  BY <1>5, <1>6, <1>7
\* The inductive invariant of both directions.
SessionInv == IInv /\ \A e \in Ends : WireInv(e) /\ ReadInv(e)

\* Every step keeps ReadInv.
LEMMA NextReadInv == ASSUME SessionInv, [Next]_vars, NEW e \in Ends PROVE ReadInv(e)'
  <1>1. TypeOK /\ IInv /\ ReadInv(e) /\ WireInv(Peer(e)) /\ Peer(e) \in Ends
    BY PeerFacts DEF SessionInv, IInv
  <1>2. ASSUME ReadSame(e) PROVE ReadInv(e)'
    <2>1. Len(wire'[Peer(e)]) \in Nat
      <3>1. wire[Peer(e)] \in Seq(Units)
        BY <1>1 DEF TypeOK
      <3>2. CASE wire'[Peer(e)] = wire[Peer(e)]
        BY <3>1, <3>2
      <3>3. ASSUME NEW t \in Writers, WritePut(Peer(e), t) PROVE Len(wire'[Peer(e)]) \in Nat
        BY <1>1, <3>1, <3>3 DEF WritePut, TypeOK
      <3> QED  BY <1>1, <3>2, <3>3, WireStep
    <2> QED  BY <1>1, <1>2, <2>1, SameReadInv
  <1>3. ASSUME NEW d \in Ends, MainStep(d) PROVE ReadInv(e)'
    <2>1. CASE d = e
      BY <1>1, <1>3, <2>1, MainStepReadInv
    <2>2. CASE d = Peer(e)
      <3>1. "main" \in Threads
        BY StateNames
      <3> QED  BY <1>1, <1>2, <1>3, <2>2, <3>1, OtherEndReadSame
    <2> QED  BY <2>1, <2>2, PeerFacts
  <1>4. ASSUME NEW d \in Ends, NEW t \in Threads, ThreadStep(d, t) PROVE ReadInv(e)'
    <2>1. CASE d = e
      BY <1>1, <1>4, <2>1, WritePutReadInv, WriteReturnReadInv, ReadReadInv, FrameStartReadInv,
         IOErrorReadInv DEF ThreadStep
    <2>2. CASE d = Peer(e)
      BY <1>1, <1>2, <1>4, <2>2, OtherEndReadSame
    <2> QED  BY <2>1, <2>2, PeerFacts
  <1>5. ASSUME NEW d \in Ends, EnvStep(d) PROVE ReadInv(e)'
    <2>1. ReadSame(e)
      BY <1>1, <1>5, ReadTypes DEF EnvStep, DeadlineFires, CtxCancel, Stall, envUnchanged, ReadSame,
         NoRead, Same
    <2> QED  BY <1>2, <2>1
  <1>6. CASE ProbeReturns
    <2>1. /\ th' = th /\ rpos' = rpos /\ tx' = tx /\ rx' = rx /\ wire' = wire /\ rxn' = rxn
          /\ step' = step /\ num' = num /\ inWrite' = inWrite /\ txn' = txn
          /\ sendDone' = sendDone /\ recvDone' = recvDone
      BY <1>6 DEF ProbeReturns, selectUnchanged
    <2>2. CASE e = "I"
      <3>1. pc'[e] = "closed" /\ fail'[e] = "finished"
        BY <1>1, <1>6, <2>2 DEF ProbeReturns, Fail, TypeOK
      <3> QED
        BY <1>1, <2>1, <3>1, ReadTypes, StopReadInv DEF ReadInv, CleanInv, ProtocolErrors
    <2>3. CASE e = "R"
      <3>1. pc'[e] = pc[e] /\ fail'[e] = fail[e]
        BY <1>1, <1>6, <2>3 DEF ProbeReturns, Fail, TypeOK
      <3>2. ReadSame(e)
        BY <1>1, <2>1, <3>1, ReadTypes DEF ReadSame, NoRead, Same
      <3> QED  BY <1>2, <3>2
    <2> QED  BY <2>2, <2>3 DEF Ends
  <1>7. CASE UNCHANGED vars
    <2>1. ReadSame(e)
      BY <1>1, <1>7, ReadTypes DEF vars, ReadSame, NoRead, Same
    <2> QED  BY <1>2, <2>1
  <1> QED  BY <1>3, <1>4, <1>5, <1>6, <1>7 DEF Next

\* SessionInv is an invariant of the session.
LEMMA SessionInvariant == Spec => []SessionInv
  <1>1. Init => \A e \in Ends : WireInv(e)
    BY DEF Init, WireInv, HsLen
  <1>2. ASSUME Init, NEW e \in Ends PROVE ReadInv(e)
    <2>1. Peer(e) \in Ends /\ HsLen(e) \in Nat
      BY PeerFacts
    <2>2. /\ pc[e] = "start" /\ rpos[Peer(e)] = 0 /\ rxn[e] = 0 /\ tx[e] = "none"
          /\ rx[e] = "none" /\ Len(wire[e]) = 0 /\ Len(wire[Peer(e)]) = 0 /\ fail[e] = "none"
          /\ \A t \in Threads : th[e][t] = "off"
      BY <1>2, <2>1 DEF Init
    <2> QED
      BY <2>1, <2>2 DEF ReadInv, ReadHandshake, ReadExchange, ReadYamux, KeysInv, CleanInv,
         ProtocolErrors
  <1>3. IInv' /\ SessionInv /\ [Next]_vars => SessionInv'
    BY NextWireInv, NextReadInv DEF SessionInv
  <1>4. Init /\ IInv => SessionInv
    BY <1>1, <1>2 DEF SessionInv
  <1> QED  BY <1>3, <1>4, InductiveInvariant, PTL DEF Spec

\* Two conforming ends never take each other's bytes for garbage: readFrame,
\* the Noise messages and Session.ReceiveFrame find exactly the unit they wait
\* for, so no goroutine fails with a Noise, framing or decryption error, for
\* any transport, any faults and any number of frames.
THEOREM NoGarbage == Spec => []NoProtocolError
  <1>1. SessionInv => NoProtocolError
    BY DEF SessionInv, ReadInv, CleanInv, ProtocolErrors, NoProtocolError
  <1> QED  BY <1>1, SessionInvariant, PTL

\* An end reaches its Yamux phase only with a peer that holds the matching
\* CipherStates and has sent its whole identity, also when that peer has
\* closed in the meantime; the responder has a Session only after the whole
\* handshake of the probe.
THEOREM KeysMatch == Spec => []SessionsAgree
  <1>1. SessionInv => SessionsAgree
    <2> SUFFICES ASSUME SessionInv PROVE SessionsAgree
      OBVIOUS
    <2>1. ASSUME NEW e \in Ends PROVE ReadInv(e) /\ ReadInv(Peer(e)) /\ EndInv(e) /\ TypeOK
      BY PeerFacts DEF SessionInv, IInv
    <2>2. tx["R"] # "none" => Len(wire["I"]) >= HsLen("I")
      <3>1. "R" \in Ends /\ Peer("R") = "I"
        BY DEF Ends, Peer
      <3> QED  BY <2>1, <3>1, ReadTypes, PeerFacts DEF ReadInv, KeysInv
    <2>3. ASSUME NEW e \in Ends, pc[e] = "yamux"
          PROVE  /\ tx[Peer(e)] = rx[e] /\ rx[Peer(e)] = tx[e] /\ tx[e] # rx[e]
                 /\ Len(wire[Peer(e)]) >= HsLen(Peer(e)) + 2
      <3>1. tx[e] = KeyOf(e) /\ rx[e] = KeyOf(Peer(e))
        BY <2>1, <2>3 DEF EndInv, YamuxInv, ReadInv, ReadYamux
      <3>2. /\ rpos[Peer(e)] \in Nat /\ Len(wire[Peer(e)]) \in Nat /\ HsLen(Peer(e)) \in Nat
            /\ rxn[e] \in Nat /\ rpos[Peer(e)] <= Len(wire[Peer(e)])
        BY <2>1, ReadTypes, PeerFacts DEF ReadInv
      <3>3. rxn[e] >= 1 /\ rpos[Peer(e)] >= HsLen(Peer(e)) + 2 * rxn[e]
        <4>1. /\ rxn[e] >= 1
              /\ \/ rpos[Peer(e)] = HsLen(Peer(e)) + 2 * rxn[e] + 0
                 \/ rpos[Peer(e)] = HsLen(Peer(e)) + 2 * rxn[e] + 1
          BY <2>1, <2>3 DEF ReadInv, ReadYamux
        <4> QED  BY <3>2, <4>1
      <3>4. Len(wire[Peer(e)]) >= HsLen(Peer(e)) + 2
        BY <3>2, <3>3
      <3>5. tx[Peer(e)] # "none"
        BY <2>1, <3>2, <3>4 DEF ReadInv, KeysInv
      <3>6. tx[Peer(e)] = KeyOf(Peer(e)) /\ rx[Peer(e)] = KeyOf(e)
        BY <2>1, <3>5, PeerFacts DEF ReadInv, KeysInv
      <3> QED  BY <3>1, <3>4, <3>6, PeerFacts
    <2> QED  BY <2>2, <2>3 DEF SessionsAgree
  <1> QED  BY <1>1, SessionInvariant, PTL
-----------------------------------------------------------------------------
\* The responder has cleared its deadline before the Yamux phase, and no
\* deadline is set again.
ClearedInv == pc["R"] = "yamux" => dl["R"] = "none"

LEMMA NextClearedInv == ASSUME TypeOK, ClearedInv, [Next]_vars PROVE ClearedInv'
  <1>1. "R" \in Ends /\ pc \in [Ends -> Phases] /\ dl \in [Ends -> {"none", "armed", "expired"}]
    BY DEF TypeOK, Ends
  <1>2. ASSUME NEW e \in Ends, MainStep(e) PROVE ClearedInv'
    <2>1. CASE Start(e)
      BY <1>1, <2>1 DEF Start, Fail, ClearedInv
    <2>2. CASE SelectCtx(e) \/ SelectSend(e) \/ SelectRecv(e)
      BY <1>1, <2>2 DEF SelectCtx, SelectSend, SelectRecv, selectUnchanged, Fail, Stay, ClearedInv
    <2>3. CASE StartYamux(e)
      BY <1>1, <2>3 DEF StartYamux, DeadlineAfterExchange, ClearedInv
    <2> QED  BY <1>2, <2>1, <2>2, <2>3 DEF MainStep
  <1>3. ASSUME NEW e \in Ends, NEW t \in Threads, ThreadStep(e, t) PROVE ClearedInv'
    <2>1. dl' = dl
      BY <1>3 DEF ThreadStep, WritePut, WriteReturn, Read, SendFrame, ReceiveFrame, IOError
    <2>2. pc'["R"] \in {pc["R"], "closed", "ident"}
      <3>1. CASE WritePut(e, t) \/ SendFrame(e, t) \/ ReceiveFrame(e, t)
        BY <3>1 DEF WritePut, SendFrame, ReceiveFrame
      <3>2. CASE WriteReturn(e, t)
        BY <1>1, <3>2 DEF WriteReturn, HandshakeAdvance, Fail, FailMain, Stay
      <3>3. CASE Read(e, t)
        BY <1>1, <3>3 DEF Read, HandshakeRead, FrameRead, Abort, HandshakeAdvance, Fail,
           FailMain, Stay
      <3>4. CASE IOError(e, t)
        BY <1>1, <3>4 DEF IOError, Abort, Fail, FailMain, Stay
      <3> QED  BY <1>3, <3>1, <3>2, <3>3, <3>4 DEF ThreadStep
    <2> QED  BY <2>1, <2>2 DEF ClearedInv
  <1>4. ASSUME NEW e \in Ends, EnvStep(e) PROVE ClearedInv'
    BY <1>1, <1>4 DEF EnvStep, DeadlineFires, CtxCancel, Stall, envUnchanged, ClearedInv
  <1>5. CASE ProbeReturns
    BY <1>1, <1>5 DEF ProbeReturns, Fail, selectUnchanged, ClearedInv
  <1>6. CASE UNCHANGED vars
    BY <1>6 DEF vars, ClearedInv
  <1> QED  BY <1>2, <1>3, <1>4, <1>5, <1>6 DEF Next

\* A step that ends the responder in its Yamux phase never does so with a
\* timeout: the deadline of the handshake is gone by then.
LEMMA NoYamuxTimeout ==
    ASSUME IInv, ClearedInv, [Next]_vars, fail["R"] = "none", fail'["R"] = "timeout"
    PROVE  pc["R"] # "yamux"
  <1> SUFFICES ASSUME pc["R"] = "yamux" PROVE FALSE
    OBVIOUS
  <1>1. /\ "R" \in Ends /\ TypeOK /\ fail \in [Ends -> Reasons] /\ dl["R"] = "none"
    BY DEF IInv, TypeOK, Ends, ClearedInv
  <1>2. ASSUME NEW e \in Ends, MainStep(e) PROVE FALSE
    BY <1>1, <1>2 DEF MainStep, Start, SelectCtx, SelectSend, SelectRecv, StartYamux, Fail, Stay
  <1>3. ASSUME NEW e \in Ends, NEW t \in Threads, ThreadStep(e, t) PROVE FALSE
    <2>1. CASE WritePut(e, t) \/ SendFrame(e, t) \/ ReceiveFrame(e, t)
      BY <2>1 DEF WritePut, SendFrame, ReceiveFrame
    <2>2. CASE WriteReturn(e, t)
      BY <1>1, <2>2 DEF WriteReturn, HandshakeAdvance, Fail, FailMain, Stay
    <2>3. CASE Read(e, t)
      BY <1>1, <2>3 DEF Read, HandshakeRead, FrameRead, Abort, HandshakeAdvance, Fail,
         FailMain, Stay
    <2>4. CASE IOError(e, t)
      BY <1>1, <2>4 DEF IOError, Abort, Fail, FailMain, Stay
    <2> QED  BY <1>3, <2>1, <2>2, <2>3, <2>4 DEF ThreadStep
  <1>4. ASSUME NEW e \in Ends, EnvStep(e) PROVE FALSE
    BY <1>4 DEF EnvStep, DeadlineFires, CtxCancel, Stall, envUnchanged
  <1>5. CASE ProbeReturns
    BY <1>1, <1>5 DEF ProbeReturns, Fail
  <1>6. CASE UNCHANGED vars
    BY <1>6 DEF vars
  <1> QED  BY <1>2, <1>3, <1>4, <1>5, <1>6 DEF Next

\* The ConnectionTimeout that handleResponderConn arms for handshake and
\* identity exchange never ends the Yamux phase, which it clears it for.
THEOREM TimeoutEndsBeforeYamux == Spec => DeadlineSparesYamux
  <1>1. Init => ClearedInv
    BY DEF Init, ClearedInv, Ends
  <1>2. TypeOK /\ ClearedInv /\ [Next]_vars => ClearedInv'
    BY NextClearedInv
  <1>3. IInv /\ ClearedInv /\ [Next]_vars
          => [fail["R"] = "none" /\ fail'["R"] = "timeout" => pc["R"] # "yamux"]_vars
    BY NoYamuxTimeout
  <1> QED
    BY <1>1, <1>2, <1>3, InductiveInvariant, TypeCorrect, PTL DEF Spec, DeadlineSparesYamux
=============================================================================
