----------------------------- MODULE P2PSession -----------------------------
(***************************************************************************)
(* One connection of package p2p, from the first byte to the Yamux phase.  *)
(* End "I" is the probe (InitiatorHandshake, ExchangeIdentity, the Yamux   *)
(* client of ProbeGetPeersWithOptions); end "R" is the responder           *)
(* (handleResponderConn: SetDeadline, ResponderHandshake,                  *)
(* ExchangeIdentityWithOptions, OnPeerIdentity, the Yamux server).         *)
(*                                                                         *)
(* Each end runs up to five goroutines over one net.Conn: its own ("main"),*)
(* the send and receive halves of the identity exchange ("send", "recv"),  *)
(* and the send and receive loops of Yamux ("ysend", "yrecv").  The        *)
(* grain is one Write or ReadFull call: writeFrame is two Writes (length   *)
(* prefix, payload) and other goroutines run between them.                 *)
(***************************************************************************)
EXTENDS Integers, Sequences

CONSTANTS
    Cap,             \* writes the transport buffers: 0 is net.Pipe, > 0 a TCP socket
    MaxYamuxFrames,  \* bound: Noise frames each Yamux send loop writes
    IHasDeadline,    \* whether the ctx given to the probe carries a deadline
    Faults,          \* which of AllFaults the environment may produce
    IdentityKinds    \* which of AllIdentityKinds an end may send

AllFaults == {"stall", "ctx", "deadline", "live"}

\* What encode/decodeIdentityProtocolFrame tells apart in an identity message:
\* a good one, one over 1024 bytes (never sent), one the peer cannot decode.
AllIdentityKinds == {"good", "oversize", "undecodable"}

ASSUME SessionAssumption ==
    /\ Cap \in Nat
    /\ MaxYamuxFrames \in Nat
    /\ IHasDeadline \in BOOLEAN
    /\ Faults \subseteq AllFaults
    /\ IdentityKinds \subseteq AllIdentityKinds

Ends == {"I", "R"}
Peer(e) == IF e = "I" THEN "R" ELSE "I"

Writers == {"main", "send", "ysend"}
Readers == {"main", "recv", "yrecv"}
Threads == Writers \cup Readers

\* off: not started; ready: between two frames; raw, len, body: inside the
\* Write or ReadFull of that part; a result: posted, and the goroutine is over.
IOStates == {"raw", "len", "body"}
ErrorReasons == {"ctx", "io", "timeout", "wiremode", "noise", "framing",
                 "decrypt", "identity"}
Results == {"ok"} \cup ErrorReasons
ThreadStates == IOStates \cup {"off", "ready"} \cup Results

VARIABLES
    pc,        \* end -> phase of its main goroutine
    step,      \* end -> index into its handshake script
    th,        \* end -> goroutine -> ThreadStates
    num,       \* end -> writer goroutine -> nonce of the frame it is writing
    inWrite,   \* end -> writer goroutines whose Write has not returned
    wire,      \* end -> everything it has put on the wire, in order
    rpos,      \* end -> how much of wire[end] its peer has read
    tx, rx,    \* end -> CipherState for sending, for receiving
    txn, rxn,  \* end -> nonce of those CipherStates
    sendDone,  \* end -> ExchangeIdentityWithOptions' local flag
    recvDone,  \* end -> idem
    dl,        \* end -> conn deadline: none, armed, expired
    ctxDone,   \* end -> its context is done
    up,        \* end -> FALSE once its host has silently stalled
    fail,      \* end -> why the end closed
    wireByte,  \* the network byte the probe was configured with
    idKind     \* end -> kind of identity message it sends

vars == <<pc, step, th, num, inWrite, wire, rpos, tx, rx, txn, rxn,
          sendDone, recvDone, dl, ctxDone, up, fail, wireByte, idKind>>

Phases == {"start", "hs", "ident", "yamux", "closed"}
Reasons == {"none", "finished"} \cup ErrorReasons

-----------------------------------------------------------------------------
(* The wire *)

W(m) == [op |-> "w", m |-> m]
R(m) == [op |-> "r", m |-> m]

\* The straight-line I/O of InitiatorHandshake.
InitiatorHandshake == <<W("net"), W("e"), R("ees"), W("sse")>>

\* The straight-line I/O of ResponderHandshake.
ResponderHandshake == <<R("net"), R("e"), W("ees"), R("sse")>>

Script(e) == IF e = "I" THEN InitiatorHandshake ELSE ResponderHandshake

\* The wire byte is one raw Write; every other message is a frame.
FirstPart(m) == IF m = "net" THEN "raw" ELSE "len"

Unit(m, part, n, key) == [m |-> m, part |-> part, n |-> n, key |-> key]
Messages == {"net", "e", "ees", "sse", "id", "yx"}
Keys == {"none", "cs1", "cs2"}
Units == [m : Messages, part : IOStates, n : Nat, key : Keys]

\* Units written by e that its peer has not read yet.
InFlight(e) == Len(wire[e]) - rpos[e]

Closed(e) == pc[e] = "closed"

\* Mutant: an error return leaves the connection open.
IOFailsNoClose(e) == dl[e] = "expired"

\* conn.Close and an expired deadline fail every pending and later call.
IOFails(e) == Closed(e) \/ dl[e] = "expired"

Role(e, t) == IF t = "main" THEN Script(e)[step[e]].op
              ELSE IF t \in Writers THEN "w" ELSE "r"

InIO(e, t) == th[e][t] \in IOStates

\* The unit goroutine t of e is about to Write.
CurrentUnit(e, t) ==
    IF t = "main" THEN Unit(Script(e)[step[e]].m, th[e][t], 0, "none")
    ELSE Unit(IF t = "send" THEN "id" ELSE "yx", th[e][t], num[e][t], tx[e])

-----------------------------------------------------------------------------
(* Control of the main goroutine *)

\* Every error return runs the deferred conn.Close.
Fail(e, why) ==
    /\ pc' = [pc EXCEPT ![e] = "closed"]
    /\ fail' = [fail EXCEPT ![e] = why]

Stay == UNCHANGED <<pc, fail>>

FailMain(e, why) == Fail(e, why) /\ th' = [th EXCEPT ![e]["main"] = "off"]

\* Mutant: the responder takes (cs1, cs2) as the initiator does.
SessionKeysUnswapped(e) == <<"cs1", "cs2">>

\* The (tx, rx) of an end's Session: cs1 is the initiator's sending cipher.
SessionKeys(e) == IF e = "I" THEN <<"cs1", "cs2">> ELSE <<"cs2", "cs1">>

\* End of a handshake message: the next script entry, or the Session; with it
\* ExchangeIdentityWithOptions encodes the identity (an oversize one fails
\* there) and starts the two goroutines.
HandshakeAdvance(e) ==
    IF step[e] < Len(Script(e))
    THEN /\ step' = [step EXCEPT ![e] = @ + 1]
         /\ th' = [th EXCEPT ![e]["main"] = FirstPart(Script(e)[step[e] + 1].m)]
         /\ UNCHANGED <<tx, rx, pc, fail>>
    ELSE /\ UNCHANGED step
         /\ tx' = [tx EXCEPT ![e] = SessionKeys(e)[1]]
         /\ rx' = [rx EXCEPT ![e] = SessionKeys(e)[2]]
         /\ IF idKind[e] = "oversize"
            THEN FailMain(e, "identity")
            ELSE /\ pc' = [pc EXCEPT ![e] = "ident"]
                 /\ th' = [th EXCEPT ![e]["main"] = "off",
                                     ![e]["send"] = "ready",
                                     ![e]["recv"] = "ready"]
                 /\ UNCHANGED fail

\* Mutant: the responder relies on ctx and sets no deadline.
ConnDeadlineByCtx(e) == IF e = "I" /\ IHasDeadline THEN "armed" ELSE "none"

\* The probe sets the ctx's deadline on the conn, the responder its
\* ConnectionTimeout.
ConnDeadline(e) == IF e = "R" \/ IHasDeadline THEN "armed" ELSE "none"

\* SetDeadline, checkContext, the first I/O.
Start(e) ==
    /\ up[e] /\ pc[e] = "start"
    /\ dl' = [dl EXCEPT ![e] = ConnDeadline(e)]
    /\ IF ctxDone[e] THEN Fail(e, "ctx") /\ UNCHANGED th
       ELSE /\ pc' = [pc EXCEPT ![e] = "hs"]
            /\ th' = [th EXCEPT ![e]["main"] = FirstPart(Script(e)[1].m)]
            /\ UNCHANGED fail
    /\ UNCHANGED <<step, num, inWrite, wire, rpos, tx, rx, txn, rxn, sendDone,
                   recvDone, ctxDone, up, wireByte, idKind>>

-----------------------------------------------------------------------------
(* Write and ReadFull on the connection *)

\* conn.Write hands its bytes to the transport.
WritePut(e, t) ==
    /\ up[e] /\ InIO(e, t) /\ Role(e, t) = "w" /\ t \notin inWrite[e]
    /\ ~IOFails(e)
    /\ InFlight(e) <= Cap
    /\ wire' = [wire EXCEPT ![e] = Append(@, CurrentUnit(e, t))]
    /\ inWrite' = [inWrite EXCEPT ![e] = @ \cup {t}]
    /\ UNCHANGED <<pc, step, th, num, rpos, tx, rx, txn, rxn, sendDone, recvDone,
                   dl, ctxDone, up, fail, wireByte, idKind>>

\* conn.Write returns: over net.Pipe once the peer has read the bytes, over
\* TCP once they fit the socket buffer.
WriteReturn(e, t) ==
    /\ up[e] /\ t \in inWrite[e]
    /\ InFlight(e) <= Cap
    /\ inWrite' = [inWrite EXCEPT ![e] = @ \ {t}]
    /\ IF th[e][t] = "len"
       THEN th' = [th EXCEPT ![e][t] = "body"] /\ UNCHANGED <<step, tx, rx>> /\ Stay
       ELSE IF t = "main" THEN HandshakeAdvance(e)
       ELSE /\ th' = [th EXCEPT ![e][t] = IF t = "send" THEN "ok" ELSE "ready"]
            /\ UNCHANGED <<step, tx, rx>> /\ Stay
    /\ UNCHANGED <<num, wire, rpos, txn, rxn, sendDone, recvDone, dl, ctxDone, up,
                   wireByte, idKind>>

\* Session.SendFrame: Encrypt takes the next nonce, then writeFrame starts.
SendFrame(e, t) ==
    /\ up[e] /\ t \in {"send", "ysend"} /\ th[e][t] = "ready"
    /\ t = "ysend" => pc[e] = "yamux" /\ txn[e] <= MaxYamuxFrames
    /\ num' = [num EXCEPT ![e][t] = txn[e]]
    /\ txn' = [txn EXCEPT ![e] = @ + 1]
    /\ th' = [th EXCEPT ![e][t] = "len"]
    /\ UNCHANGED <<pc, step, inWrite, wire, rpos, tx, rx, rxn, sendDone, recvDone, dl,
                   ctxDone, up, fail, wireByte, idKind>>

\* Mutant: the identity exchange writes first and reads after it.
ReceiveFrameAfterSend(e, t) ==
    /\ up[e] /\ t \in {"recv", "yrecv"} /\ th[e][t] = "ready"
    /\ t = "recv" => th[e]["send"] = "ok"
    /\ t = "yrecv" => pc[e] = "yamux"
    /\ th' = [th EXCEPT ![e][t] = "len"]
    /\ UNCHANGED <<pc, step, num, inWrite, wire, rpos, tx, rx, txn, rxn, sendDone,
                   recvDone, dl, ctxDone, up, fail, wireByte, idKind>>

\* Session.ReceiveFrame starts readFrame.
ReceiveFrame(e, t) ==
    /\ up[e] /\ t \in {"recv", "yrecv"} /\ th[e][t] = "ready"
    /\ t = "yrecv" => pc[e] = "yamux"
    /\ th' = [th EXCEPT ![e][t] = "len"]
    /\ UNCHANGED <<pc, step, num, inWrite, wire, rpos, tx, rx, txn, rxn, sendDone,
                   recvDone, dl, ctxDone, up, fail, wireByte, idKind>>

\* A goroutine other than main ends with an error; Yamux closes the conn.
Abort(e, t, why) ==
    /\ th' = [th EXCEPT ![e][t] = why]
    /\ IF t \in {"ysend", "yrecv"} /\ pc[e] = "yamux" THEN Fail(e, why) ELSE Stay

\* The whole handshake message u has arrived: process it.
HandshakeRead(e, u) ==
    IF u.m # Script(e)[step[e]].m
    THEN FailMain(e, "noise") /\ UNCHANGED <<step, tx, rx>>
    ELSE IF u.m = "net" /\ wireByte = "live"
    THEN FailMain(e, "wiremode") /\ UNCHANGED <<step, tx, rx>>
    ELSE HandshakeAdvance(e)

\* A whole transport frame u has arrived: Decrypt it, then, in the identity
\* exchange, decodeIdentityProtocolFrame.
FrameRead(e, t, u) ==
    /\ UNCHANGED <<step, tx, rx>>
    /\ IF u.key # rx[e] \/ u.n # rxn[e] THEN Abort(e, t, "decrypt") /\ UNCHANGED rxn
       ELSE /\ rxn' = [rxn EXCEPT ![e] = @ + 1]
            /\ IF t = "recv" /\ (u.m # "id" \/ idKind[Peer(e)] = "undecodable")
               THEN Abort(e, t, "identity")
               ELSE /\ th' = [th EXCEPT ![e][t] = IF t = "recv" THEN "ok" ELSE "ready"]
                    /\ Stay

\* io.ReadFull of the next part of a message.
Read(e, t) ==
    LET p == Peer(e)
        u == wire[p][rpos[p] + 1]
    IN  /\ up[e] /\ InIO(e, t) /\ Role(e, t) = "r"
        /\ ~IOFails(e)
        /\ InFlight(p) > 0
        /\ rpos' = [rpos EXCEPT ![p] = @ + 1]
        /\ IF u.part # th[e][t]
           THEN /\ IF t = "main" THEN FailMain(e, "framing")
                   ELSE Abort(e, t, "framing")
                /\ UNCHANGED <<step, tx, rx, rxn>>
           ELSE IF u.part = "len"
           THEN th' = [th EXCEPT ![e][t] = "body"] /\ UNCHANGED <<step, tx, rx, rxn>> /\ Stay
           ELSE IF t = "main" THEN HandshakeRead(e, u) /\ UNCHANGED rxn
           ELSE FrameRead(e, t, u)
        /\ UNCHANGED <<num, inWrite, wire, txn, sendDone, recvDone, dl, ctxDone, up,
                       wireByte, idKind>>

\* The peer's Close reaches a reader of e: EOF once all is read, or a reset
\* when the peer closed with unread data or inside a Write.
ReadCut(e) ==
    /\ Closed(Peer(e))
    /\ InFlight(Peer(e)) = 0 \/ InFlight(e) > 0 \/ inWrite[Peer(e)] # {}

\* A Write or ReadFull returns an error: own Close, expired deadline, or the
\* peer's Close.  A Write whose bytes the transport has taken succeeds.
IOError(e, t) ==
    /\ up[e] /\ InIO(e, t)
    /\ \/ IOFails(e)
       \/ Role(e, t) = "r" /\ ReadCut(e)
       \/ Role(e, t) = "w" /\ Closed(Peer(e))
    /\ t \in inWrite[e] => InFlight(e) > Cap
    /\ inWrite' = [inWrite EXCEPT ![e] = @ \ {t}]
    /\ LET why == IF dl[e] = "expired" THEN "timeout" ELSE "io"
       IN  IF t = "main"
           THEN FailMain(e, why)
           ELSE Abort(e, t, why)
    /\ UNCHANGED <<step, num, wire, rpos, tx, rx, txn, rxn, sendDone, recvDone, dl,
                   ctxDone, up, wireByte, idKind>>

-----------------------------------------------------------------------------
(* ExchangeIdentityWithOptions: the select loop *)

\* Mutant: the loop ends when either half is done.
ExchangePendingBoth(e) == ~recvDone[e] /\ ~sendDone[e]

\* The loop condition, !recvDone || !sendDone.
ExchangePending(e) == ~recvDone[e] \/ ~sendDone[e]

selectUnchanged == <<step, th, num, inWrite, wire, rpos, tx, rx, txn, rxn, dl,
                     ctxDone, up, wireByte, idKind>>

\* Mutant: ctx is looked at only once the peer's identity is there.
SelectCtxAfterRecv(e) ==
    /\ up[e] /\ pc[e] = "ident" /\ recvDone[e] /\ ~sendDone[e] /\ ctxDone[e]
    /\ Fail(e, "ctx")
    /\ UNCHANGED <<sendDone, recvDone>> /\ UNCHANGED selectUnchanged

SelectCtx(e) ==
    /\ up[e] /\ pc[e] = "ident" /\ ExchangePending(e) /\ ctxDone[e]
    /\ Fail(e, "ctx")
    /\ UNCHANGED <<sendDone, recvDone>> /\ UNCHANGED selectUnchanged

SelectSend(e) ==
    /\ up[e] /\ pc[e] = "ident" /\ ExchangePending(e)
    /\ th[e]["send"] \in Results /\ ~sendDone[e]
    /\ sendDone' = [sendDone EXCEPT ![e] = TRUE]
    /\ IF th[e]["send"] = "ok" THEN Stay ELSE Fail(e, th[e]["send"])
    /\ UNCHANGED recvDone /\ UNCHANGED selectUnchanged

SelectRecv(e) ==
    /\ up[e] /\ pc[e] = "ident" /\ ExchangePending(e)
    /\ th[e]["recv"] \in Results /\ ~recvDone[e]
    /\ recvDone' = [recvDone EXCEPT ![e] = TRUE]
    /\ IF th[e]["recv"] = "ok" THEN Stay ELSE Fail(e, th[e]["recv"])
    /\ UNCHANGED sendDone /\ UNCHANGED selectUnchanged

\* Mutant: the responder keeps the handshake deadline.
DeadlineAfterExchangeKept(e) == dl[e]

\* The responder clears its deadline, the probe keeps the ctx's.
DeadlineAfterExchange(e) == IF e = "R" THEN "none" ELSE dl[e]

\* The exchange succeeded.  The responder reports the identity and clears the
\* deadline; both ends hand the Session to Yamux.
StartYamux(e) ==
    /\ up[e] /\ pc[e] = "ident" /\ ~ExchangePending(e)
    /\ pc' = [pc EXCEPT ![e] = "yamux"]
    /\ th' = [th EXCEPT ![e]["ysend"] = "ready", ![e]["yrecv"] = "ready"]
    /\ dl' = [dl EXCEPT ![e] = DeadlineAfterExchange(e)]
    /\ UNCHANGED <<step, num, inWrite, wire, rpos, tx, rx, txn, rxn, sendDone, recvDone,
                   ctxDone, up, fail, wireByte, idKind>>

\* The probe has what it wants: a plain Probe right after the exchange, the
\* RPC probes at any point of the Yamux phase.  Deferred Closes run.
ProbeReturns ==
    /\ up["I"]
    /\ pc["I"] = "yamux" \/ (pc["I"] = "ident" /\ ~ExchangePending("I"))
    /\ Fail("I", "finished")
    /\ UNCHANGED <<sendDone, recvDone>> /\ UNCHANGED selectUnchanged

-----------------------------------------------------------------------------
(* The environment *)

envUnchanged == <<pc, step, th, num, inWrite, wire, rpos, tx, rx, txn, rxn, sendDone,
                  recvDone, fail, wireByte, idKind>>

\* An armed conn deadline passes.
DeadlineFires(e) ==
    /\ "deadline" \in Faults /\ dl[e] = "armed" /\ up[e] /\ ~Closed(e)
    /\ dl' = [dl EXCEPT ![e] = "expired"]
    /\ UNCHANGED <<ctxDone, up>> /\ UNCHANGED envUnchanged

\* The caller cancels the context, or its deadline passes.  Only checkContext
\* and the select loop look at it, so it happens in their phases.
CtxCancel(e) ==
    /\ "ctx" \in Faults /\ ~ctxDone[e] /\ up[e] /\ pc[e] \in {"start", "ident"}
    /\ ctxDone' = [ctxDone EXCEPT ![e] = TRUE]
    /\ UNCHANGED <<dl, up>> /\ UNCHANGED envUnchanged

\* The timeout every identity exchange runs under: the ctx's own deadline, or
\* the 10 s that ExchangeIdentityWithOptions adds.
ExchangeTimeout(e) ==
    /\ pc[e] = "ident" /\ ExchangePending(e) /\ CtxCancel(e)

\* The host of e stops without a FIN: its goroutines take no further step.
Stall(e) ==
    /\ "stall" \in Faults /\ up[e] /\ ~Closed(e)
    /\ up' = [up EXCEPT ![e] = FALSE]
    /\ UNCHANGED <<dl, ctxDone>> /\ UNCHANGED envUnchanged

-----------------------------------------------------------------------------
Init ==
    /\ pc = [e \in Ends |-> "start"]
    /\ step = [e \in Ends |-> 1]
    /\ th = [e \in Ends |-> [t \in Threads |-> "off"]]
    /\ num = [e \in Ends |-> [t \in Writers |-> 0]]
    /\ inWrite = [e \in Ends |-> {}]
    /\ wire = [e \in Ends |-> <<>>]
    /\ rpos = [e \in Ends |-> 0]
    /\ tx = [e \in Ends |-> "none"] /\ rx = [e \in Ends |-> "none"]
    /\ txn = [e \in Ends |-> 0] /\ rxn = [e \in Ends |-> 0]
    /\ sendDone = [e \in Ends |-> FALSE] /\ recvDone = [e \in Ends |-> FALSE]
    /\ dl = [e \in Ends |-> "none"]
    /\ ctxDone = [e \in Ends |-> FALSE]
    /\ up = [e \in Ends |-> TRUE]
    /\ fail = [e \in Ends |-> "none"]
    /\ wireByte \in IF "live" \in Faults THEN {"network", "live"} ELSE {"network"}
    /\ idKind \in [Ends -> IdentityKinds]

\* A step of goroutine t of e.
ThreadStep(e, t) ==
    \/ t \in Writers /\ (WritePut(e, t) \/ WriteReturn(e, t))
    \/ t \in Readers /\ Read(e, t)
    \/ SendFrame(e, t)
    \/ ReceiveFrame(e, t)
    \/ IOError(e, t)

\* A step of the main goroutine of e outside its own I/O.
MainStep(e) ==
    \/ Start(e)
    \/ SelectCtx(e) \/ SelectSend(e) \/ SelectRecv(e)
    \/ StartYamux(e)

\* Steps that only the environment decides on.
EnvStep(e) == DeadlineFires(e) \/ CtxCancel(e) \/ Stall(e)

\* Both programs have ended, or wait for each other's Yamux traffic.
Settled(e) == pc[e] \in {"yamux", "closed"}

Next ==
    \/ \E e \in Ends : MainStep(e) \/ EnvStep(e)
    \/ \E e \in Ends, t \in Threads : ThreadStep(e, t)
    \/ ProbeReturns

Spec == Init /\ [][Next]_vars

\* The Go scheduler runs every runnable goroutine; armed deadlines and the
\* exchange timeout pass.  Cancelling, stalling and returning from a probe are
\* nobody's duty.
Fairness ==
    \A e \in Ends :
        /\ WF_vars(MainStep(e))
        /\ \A t \in Threads : WF_vars(ThreadStep(e, t))
        /\ WF_vars(DeadlineFires(e))
        /\ WF_vars(ExchangeTimeout(e))

FairSpec == Spec /\ Fairness

-----------------------------------------------------------------------------
(* Properties *)

\* Every variable has its type: no handshake runs past its script, and a
\* Session has two CipherStates or none.
TypeOK ==
    /\ pc \in [Ends -> Phases]
    /\ step \in [Ends -> 1..4]
    /\ th \in [Ends -> [Threads -> ThreadStates]]
    /\ num \in [Ends -> [Writers -> Nat]]
    /\ inWrite \in [Ends -> SUBSET Writers]
    /\ wire \in [Ends -> Seq(Units)]
    /\ rpos \in [Ends -> Nat]
    /\ tx \in [Ends -> Keys] /\ rx \in [Ends -> Keys]
    /\ txn \in [Ends -> Nat] /\ rxn \in [Ends -> Nat]
    /\ sendDone \in [Ends -> BOOLEAN] /\ recvDone \in [Ends -> BOOLEAN]
    /\ dl \in [Ends -> {"none", "armed", "expired"}]
    /\ ctxDone \in [Ends -> BOOLEAN] /\ up \in [Ends -> BOOLEAN]
    /\ fail \in [Ends -> Reasons]
    /\ wireByte \in {"network", "live"}
    /\ idKind \in [Ends -> AllIdentityKinds]

\* No two goroutines of an end are inside conn.Write (or between the Encrypt
\* and the last Write of a frame) at once, and no two inside ReadFull: neither
\* Session.tx, Session.rx nor writeFrame is safe for concurrent use.  The
\* identity goroutines outlive an exchange that failed, never one that
\* succeeded.
OneUserPerDirection ==
    \A e \in Ends : \A t, s \in Threads :
        (InIO(e, t) /\ InIO(e, s) /\ Role(e, t) = Role(e, s)) => t = s

\* The handshake units each end writes, in order.
HandshakeUnits(e) ==
    IF e = "I"
    THEN << Unit("net", "raw", 0, "none"),
            Unit("e", "len", 0, "none"), Unit("e", "body", 0, "none"),
            Unit("sse", "len", 0, "none"), Unit("sse", "body", 0, "none") >>
    ELSE << Unit("ees", "len", 0, "none"), Unit("ees", "body", 0, "none") >>

\* The n-th transport frame of an end: its identity first, Yamux after it.
FrameUnit(e, n, part) ==
    Unit(IF n = 0 THEN "id" ELSE "yx", part, n, IF e = "I" THEN "cs1" ELSE "cs2")

HsLen(e) == IF e = "I" THEN 5 ELSE 2

\* What each end has put on the wire is a prefix of the one conversation the
\* protocol allows: its handshake messages, then whole frames, the identity
\* first, in the order of their nonces, each length directly before its own
\* payload -- whatever the timing of deadlines, errors and closes.
WireIsProtocol ==
    \A e \in Ends :
        /\ \A i \in 1..HsLen(e) : i <= Len(wire[e]) => wire[e][i] = HandshakeUnits(e)[i]
        /\ \A n \in 0..MaxYamuxFrames :
            /\ HsLen(e) + 2*n + 1 <= Len(wire[e]) =>
                 wire[e][HsLen(e) + 2*n + 1] = FrameUnit(e, n, "len")
            /\ HsLen(e) + 2*n + 2 <= Len(wire[e]) =>
                 wire[e][HsLen(e) + 2*n + 2] = FrameUnit(e, n, "body")

\* Two conforming ends never see each other's traffic as garbage: no Noise,
\* framing or decryption error, however goroutines, timeouts and closes
\* interleave.
NoProtocolError ==
    \A e \in Ends : \A t \in Threads :
        {fail[e], th[e][t]} \cap {"noise", "framing", "decrypt"} = {}

\* The responder has a Session only after the probe's last handshake message,
\* and an end is in its Yamux phase only with a peer that holds the matching
\* keys and has sent its whole identity.
SessionsAgree ==
    /\ tx["R"] # "none" => Len(wire["I"]) >= HsLen("I")
    /\ \A e \in Ends : pc[e] = "yamux" =>
          /\ tx[Peer(e)] = rx[e] /\ rx[Peer(e)] = tx[e] /\ tx[e] # rx[e]
          /\ Len(wire[Peer(e)]) >= HsLen(Peer(e)) + 2

\* The handshake deadline the responder arms does not reach into the Yamux
\* phase, which has no bound of its own.
DeadlineSparesYamux ==
    [][fail["R"] = "none" /\ fail'["R"] = "timeout" => pc["R"] # "yamux"]_vars

\* Every program that keeps running and has a deadline on its connection (the
\* responder always, the probe when its ctx has one) leaves the bounded phase:
\* it reaches Yamux or closes, even when its peer stalls in mid-message.
ExchangeSettles ==
    \A e \in Ends :
        (e = "R" \/ IHasDeadline) => (~Settled(e) ~> (Settled(e) \/ ~up[e]))

\* A send or receive half started by ExchangeIdentityWithOptions ends, also
\* when the exchange returned early and left it behind.
GoroutinesEnd ==
    \A e \in Ends : \A t \in {"send", "recv"} :
        (th[e][t] \in IOStates \cup {"ready"}) ~> (th[e][t] \in Results \/ ~up[e])

\* The identity exchange itself is bounded without any conn deadline: with a
\* stalled peer and a ctx that has none, the added timeout ends it.
IdentitySettles ==
    \A e \in Ends : pc[e] = "ident" ~> (Settled(e) \/ ~up[e])

\* Two live ends never wait on each other: until a deadline, a timeout or a
\* Close intervenes, some goroutine of the two can move as long as handshake or
\* identity exchange is unfinished, on the unbuffered net.Pipe too.
NeverStuck ==
    ( /\ \A e \in Ends : up[e] /\ ~ctxDone[e] /\ ~IOFails(e)
      /\ \E e \in Ends : ~Settled(e) ) =>
        ENABLED (\E e \in Ends : MainStep(e) \/ \E t \in Threads : ThreadStep(e, t))
=============================================================================
