------------------------------ MODULE Responder ------------------------------
(***************************************************************************)
(* p2p.Serve and the p2p-responder-spike process around it: the accept     *)
(* loop, one goroutine per connection, one per Yamux substream, the        *)
(* WaitGroup Serve waits on, and the signal goroutine that cancels the     *)
(* context and closes the listener.  Substreams call List and connections  *)
(* call Record of the shared peer store (PeerStore, extended here with     *)
(* Callers = the substreams).                                              *)
(*                                                                         *)
(* What happens on a connection before Yamux is P2PSession's subject; here *)
(* handshake and identity exchange succeed or fail, and end because of the *)
(* connection's deadline.  Peers are the environment: they may go quiet,   *)
(* leave, or open substreams at any time.                                  *)
(***************************************************************************)
EXTENDS PeerStore

CONSTANTS
    Conns,          \* inbound connections, each used once
    RequestSizes,   \* values of GetPeersRequest.N that peers send (0: no bound)
    AcceptErrors    \* errors of Accept while the listener is open

NoConn == "none"

ASSUME ResponderAssumption ==
    /\ IsFiniteSet(Conns)
    /\ IsFiniteSet(Callers)
    /\ RequestSizes \subseteq Nat
    /\ AcceptErrors \subseteq {"error"}
    /\ NoConn \notin Conns

Streams == Callers

VARIABLES
    ctxDone,   \* cancel() was called
    lnOpen,    \* the listener is open
    sig,       \* signal goroutine: "wait", "cancelled", "closed"
    serve,     \* Serve: "accept", "waiting" (deferred wg.Wait), "returned"
    ret,       \* the error Serve returns: "none" until it does
    wg,        \* counter of the WaitGroup
    conn,      \* connection -> where its handler is
    sub,       \* substream -> where its handler is
    owner,     \* substream -> its connection, NoConn before it is opened
    served     \* substream -> the peers sent in its get_peers response

respVars == <<ctxDone, lnOpen, sig, serve, ret, wg, conn, sub, owner, served>>
vars == <<respVars, storeVars>>

HandlerStates == {"spawned", "handshake", "identity", "yamux"}
ConnLive(c) == conn[c] \in HandlerStates
SubLive(s) == sub[s] \in {"spawned", "serving"}

-----------------------------------------------------------------------------
(* The accept loop.                                                        *)

\* A peer's connection completes in the kernel's backlog.
Dial(c) ==
    /\ conn[c] = "none" /\ lnOpen
    /\ conn' = [conn EXCEPT ![c] = "backlog"]
    /\ UNCHANGED <<ctxDone, lnOpen, sig, serve, ret, wg, sub, owner, served, storeVars>>

\* Mutant: the handler is spawned without wg.Add(1) / wg.Done().
ConnWgNone == 0

\* What a connection goroutine holds of the WaitGroup while it lives.
ConnWg == 1

\* Mutant: substream goroutines are not registered on the WaitGroup.
SubstreamWgNone == 0

\* What a substream goroutine holds of the WaitGroup while it lives.
SubstreamWg == 1

\* Accept returns a connection; wg.Add(1), then its goroutine is spawned.
Accept(c) ==
    /\ serve = "accept" /\ lnOpen /\ conn[c] = "backlog"
    /\ wg' = wg + ConnWg
    /\ conn' = [conn EXCEPT ![c] = "spawned"]
    /\ UNCHANGED <<ctxDone, lnOpen, sig, serve, ret, sub, owner, served, storeVars>>

\* Accept returns an error: the listener was closed, or failed by itself.
\* Serve picks its result and runs the deferred wg.Wait().
AcceptError(err) ==
    /\ serve = "accept" /\ (err = "closed" <=> ~lnOpen)
    /\ ret' = IF ctxDone THEN "nil" ELSE err
    /\ serve' = "waiting"
    /\ UNCHANGED <<ctxDone, lnOpen, sig, wg, conn, sub, owner, served, storeVars>>

\* wg.Wait() returns.
ServeReturn ==
    /\ serve = "waiting" /\ wg = 0
    /\ serve' = "returned"
    /\ UNCHANGED <<ctxDone, lnOpen, sig, ret, wg, conn, sub, owner, served, storeVars>>

\* Mutant: listener.Close() first, cancel() second.
SignalStepCloseFirst ==
    /\ serve # "returned"
    /\ \/ /\ sig = "wait" /\ sig' = "cancelled" /\ lnOpen' = FALSE
          /\ UNCHANGED ctxDone
       \/ /\ sig = "cancelled" /\ sig' = "closed" /\ ctxDone' = TRUE
          /\ UNCHANGED lnOpen
    /\ UNCHANGED <<serve, ret, wg, conn, sub, owner, served, storeVars>>

\* The signal goroutine of run: cancel(), then listener.Close().
SignalStep ==
    /\ serve # "returned"
    /\ \/ /\ sig = "wait" /\ sig' = "cancelled" /\ ctxDone' = TRUE
          /\ UNCHANGED lnOpen
       \/ /\ sig = "cancelled" /\ sig' = "closed" /\ lnOpen' = FALSE
          /\ UNCHANGED ctxDone
    /\ UNCHANGED <<serve, ret, wg, conn, sub, owner, served, storeVars>>

-----------------------------------------------------------------------------
(* handleResponderConn.                                                    *)

\* The handler of c moves to st; when that is "done" its deferred calls close
\* the connection (and the Yamux session) and it leaves the WaitGroup.
HandlerMoves(c, st) ==
    /\ conn' = [conn EXCEPT ![c] = st]
    /\ wg' = IF st = "done" THEN wg - ConnWg ELSE wg

\* SetDeadline, then the first checkContext of ResponderHandshake.
HandlerStart(c) ==
    /\ conn[c] = "spawned"
    /\ HandlerMoves(c, IF ctxDone THEN "done" ELSE "handshake")
    /\ UNCHANGED <<ctxDone, lnOpen, sig, serve, ret, sub, owner, served, storeVars>>

\* Mutant: a failed handshake makes Serve return its error.
HandshakeEndsServe(c) ==
    /\ conn[c] = "handshake"
    /\ \E st \in {"identity", "done"} :
          /\ HandlerMoves(c, st)
          /\ IF st = "done" /\ serve = "accept"
             THEN serve' = "waiting" /\ ret' = "handshake"
             ELSE UNCHANGED <<serve, ret>>
    /\ UNCHANGED <<ctxDone, lnOpen, sig, sub, owner, served, storeVars>>

\* ResponderHandshake returns a session, or an error.
HandshakeEnds(c) ==
    /\ conn[c] = "handshake"
    /\ \E st \in {"identity", "done"} : HandlerMoves(c, st)
    /\ UNCHANGED <<ctxDone, lnOpen, sig, serve, ret, sub, owner, served, storeVars>>

\* ExchangeIdentityWithOptions returns an error ...
IdentityFails(c) ==
    /\ conn[c] = "identity"
    /\ HandlerMoves(c, "done")
    /\ UNCHANGED <<ctxDone, lnOpen, sig, serve, ret, sub, owner, served, storeVars>>

\* ... or the peer's identity: OnPeerIdentity records its key, the deadline is
\* cleared (which may fail) and the Yamux server starts.
IdentitySucceeds(c, k) ==
    /\ conn[c] = "identity"
    /\ Record(k)
    /\ \E st \in {"yamux", "done"} : HandlerMoves(c, st)
    /\ UNCHANGED <<ctxDone, lnOpen, sig, serve, ret, sub, owner, served, clock, call>>

\* yamuxSession.Accept returns a substream; wg.Add(1), then its goroutine.
YamuxAccept(c, s) ==
    /\ conn[c] = "yamux" /\ sub[s] = "none"
    /\ wg' = wg + SubstreamWg
    /\ sub' = [sub EXCEPT ![s] = "spawned"]
    /\ owner' = [owner EXCEPT ![s] = c]
    /\ UNCHANGED <<ctxDone, lnOpen, sig, serve, ret, conn, served, storeVars>>

\* yamuxSession.Accept fails: the peer closed the connection or is gone.
YamuxEnds(c) ==
    /\ conn[c] = "yamux"
    /\ HandlerMoves(c, "done")
    /\ UNCHANGED <<ctxDone, lnOpen, sig, serve, ret, sub, owner, served, storeVars>>

-----------------------------------------------------------------------------
(* handleResponderSubstream.                                               *)

\* peers := cfg.knownPeers(): List reads the clock ...
SubstreamListNow(s) ==
    /\ sub[s] = "spawned" /\ ListNow(s)
    /\ UNCHANGED respVars

\* ... and takes the lock.  Only then does ServeGetPeers begin to read.
SubstreamListLocked(s) ==
    /\ sub[s] = "spawned" /\ ListLocked(s)
    /\ sub' = [sub EXCEPT ![s] = "serving"]
    /\ UNCHANGED <<ctxDone, lnOpen, sig, serve, ret, wg, conn, owner, served>>

\* Mutant: the goroutine ends without wg.Done().
SubstreamExitNoDone(s) ==
    /\ ListDone(s)
    /\ sub' = [sub EXCEPT ![s] = "done"]
    /\ UNCHANGED <<ctxDone, lnOpen, sig, serve, ret, wg, conn, owner>>

\* The goroutine ends: stream.Close(), wg.Done(), and the slice is dropped.
SubstreamExit(s) ==
    /\ ListDone(s)
    /\ sub' = [sub EXCEPT ![s] = "done"]
    /\ wg' = wg - SubstreamWg
    /\ UNCHANGED <<ctxDone, lnOpen, sig, serve, ret, conn, owner>>

\* The peer negotiates t/dht/1 and asks for n peers, and gets them.
SubstreamServes(s, n) ==
    LET out == call[s].out
        size == IF n = 0 \/ Cardinality(out) < n THEN Cardinality(out) ELSE n
    IN  /\ sub[s] = "serving" /\ conn[owner[s]] = "yamux"
        /\ \E p \in SUBSET out : Cardinality(p) = size /\ served' = [served EXCEPT ![s] = p]
        /\ SubstreamExit(s)

\* ServeGetPeers fails: another protocol, a bad request, or the stream died.
SubstreamFails(s) ==
    /\ sub[s] = "serving"
    /\ SubstreamExit(s)
    /\ UNCHANGED served

-----------------------------------------------------------------------------
Init ==
    /\ StoreInit
    /\ ctxDone = FALSE /\ lnOpen = TRUE /\ sig = "wait"
    /\ serve = "accept" /\ ret = "none" /\ wg = 0
    /\ conn = [c \in Conns |-> "none"]
    /\ sub = [s \in Streams |-> "none"]
    /\ owner = [s \in Streams |-> NoConn]
    /\ served = [s \in Streams |-> {}]

ConnStep(c) == HandlerStart(c) \/ HandshakeEnds(c) \/ IdentityFails(c)
                  \/ \E k \in PeerKeys : IdentitySucceeds(c, k)
SubStep(s) == SubstreamListNow(s) \/ SubstreamListLocked(s)

Next ==
    \/ Tick /\ UNCHANGED respVars
    \/ \E c \in Conns : Dial(c) \/ Accept(c) \/ ConnStep(c) \/ YamuxEnds(c)
    \/ \E c \in Conns, s \in Streams : YamuxAccept(c, s)
    \/ \E s \in Streams : SubStep(s) \/ SubstreamFails(s)
    \/ \E s \in Streams, n \in RequestSizes : SubstreamServes(s, n)
    \/ \E err \in {"closed"} \cup AcceptErrors : AcceptError(err)
    \/ ServeReturn
    \/ SignalStep

Spec == Init /\ [][Next]_vars

\* The server's own goroutines run: the accept loop, the handlers up to Yamux
\* (the connection's deadline ends them), List, and the exit of a substream
\* whose connection is gone.  Nothing is assumed of peers, which may keep an
\* idle connection for ever, nor of signals.
Fairness ==
    /\ \A c \in Conns : WF_vars(Accept(c)) /\ WF_vars(ConnStep(c))
    /\ \A s \in Streams :
          /\ WF_vars(SubStep(s))
          /\ WF_vars(SubstreamFails(s) /\ conn[owner[s]] = "done")
    /\ WF_vars(AcceptError("closed"))
    /\ WF_vars(ServeReturn)
    /\ WF_vars(sig = "cancelled" /\ SignalStep)

FairSpec == Spec /\ Fairness

-----------------------------------------------------------------------------
(* Properties.                                                             *)

\* Every variable has its type; the WaitGroup's counter is never negative (it
\* would panic).
TypeOK ==
    /\ StoreTypeOK
    /\ ctxDone \in BOOLEAN /\ lnOpen \in BOOLEAN
    /\ sig \in {"wait", "cancelled", "closed"}
    /\ serve \in {"accept", "waiting", "returned"}
    /\ ret \in {"none", "nil", "closed", "error"}
    /\ wg \in Nat
    /\ conn \in [Conns -> {"none", "backlog", "done"} \cup HandlerStates]
    /\ sub \in [Streams -> {"none", "spawned", "serving", "done"}]
    /\ owner \in [Streams -> Conns \cup {NoConn}]
    /\ served \in [Streams -> SUBSET PeerKeys]

\* Once Serve has returned no connection or substream goroutine runs, so no
\* callback and no log line follows: substreams outlive their connection's
\* handler and only the shared WaitGroup keeps Serve from leaving them behind.
NoWorkAfterReturn ==
    serve = "returned" =>
        (\A c \in Conns : ~ConnLive(c)) /\ (\A s \in Streams : ~SubLive(s))

\* The WaitGroup is never raised from zero while Wait may be running, the
\* misuse sync.WaitGroup forbids: the connection that adds a substream is
\* itself still counted, also when Accept failed long before.
NoAddFromZeroDuringWait ==
    [][serve # "accept" /\ wg' > wg => wg > 0]_vars

\* A shutdown by signal makes Serve return nil, never the "use of closed
\* network connection" error of the Accept it interrupts, and nil is returned
\* for nothing but a cancelled context.
GracefulStop ==
    ret # "closed" /\ (ret = "nil" => ctxDone)

\* However long a peer waits with its request, and whatever is recorded and
\* pruned meanwhile, its answer has at most maxServedPeers peers, each of them
\* in the window when the substream's list was taken, and it lacks nobody who
\* was recorded before that and is in the window still, unless it is as long
\* as the cap or the request allows.
AnswerFitsWindow ==
    [][\A s \in Streams, n \in RequestSizes : SubstreamServes(s, n) =>
          LET size == Cardinality(served'[s])
          IN  /\ size <= MaxServed
              /\ \A k \in served'[s] : seen[k] # Never /\ seen[k] >= call[s].now - Window
              /\ \A k \in PeerKeys \ served'[s] :
                    Recent(k) /\ seen[k] < call[s].now => size > 0 /\ size \in {MaxServed, n}]_vars

\* A connection waiting in the backlog is accepted, whatever becomes of the
\* handshakes of the others, until a shutdown begins or the listener itself
\* fails.
AcceptsNext ==
    \A c \in Conns : conn[c] = "backlog" ~> (conn[c] # "backlog" \/ ctxDone \/ ret = "error")

\* After the listener is closed Serve returns, provided that every peer which
\* reached Yamux eventually leaves; no substream left behind can hold it up.
StopsWhenPeersLeave ==
    <>[](\A c \in Conns : conn[c] # "yamux") => (~lnOpen ~> serve = "returned")

\* "runs ... until ctx is cancelled": a shutdown signal ends Serve.
ShutdownReturns == sig = "closed" ~> serve = "returned"

\* The peers a get_peers request is answered with were seen within the window
\* when the answer is given.
ServedRecently ==
    [][\A s \in Streams : \A k \in served'[s] \ served[s] : Recent(k)]_vars
=============================================================================
