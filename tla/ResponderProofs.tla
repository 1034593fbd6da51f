--------------------------- MODULE ResponderProofs ---------------------------
(***************************************************************************)
(* Proofs about PeerStore and Responder, for any finite sets of            *)
(* connections and substreams.  The heart is WgCounts: the WaitGroup's     *)
(* counter is the number of live connection and substream goroutines.      *)
(***************************************************************************)
EXTENDS Responder, FiniteSetTheorems, TLAPS

(* The peer store, for any set of peers, callers, window and cap.          *)

\* Every timestamp lies in the past, also the "now" of a List call that waits
\* for the lock.
PastTimes ==
    /\ \A k \in PeerKeys : seen[k] <= clock
    /\ \A c \in Callers : call[c].now <= clock

\* The map holds the time of the last Record of each key it holds.
MapIsCurrent ==
    \A k \in DOMAIN peers : seen[k] # Never /\ peers[k] = seen[k]

StoreInv == StoreTypeOK /\ PastTimes /\ MapIsCurrent /\ NeverForgetsRecent /\ ListedWereFresh

\* Init establishes the invariant: nothing is recorded, nobody lists.
LEMMA StoreInitInv == StoreInit => StoreInv
<1> SUFFICES ASSUME StoreInit PROVE StoreInv
  OBVIOUS
<1> USE DEF StoreInit, Never, NoCall
<1>1. StoreTypeOK
  BY DEF StoreTypeOK, Calls
<1>2. PastTimes /\ MapIsCurrent
  BY DEF PastTimes, MapIsCurrent
<1>3. NeverForgetsRecent /\ ListedWereFresh
  BY DEF NeverForgetsRecent, Recent, ListedWereFresh
<1> QED  BY <1>1, <1>2, <1>3 DEF StoreInv

\* The clock's step only shrinks the set of recent peers.
LEMMA TickInv == StoreInv /\ Tick => StoreInv'
<1> SUFFICES ASSUME StoreInv, Tick PROVE StoreInv'
  OBVIOUS
<1> USE PeerStoreAssumption DEF StoreInv, Tick, Never
<1>1. StoreTypeOK'
  BY DEF StoreTypeOK
<1>2. PastTimes'
  <2>1. \A c \in Callers : call[c].now \in Nat
    BY DEF StoreTypeOK, Calls
  <2> QED  BY <2>1 DEF StoreTypeOK, PastTimes
<1>3. MapIsCurrent'
  BY DEF MapIsCurrent
<1>4. NeverForgetsRecent'
  BY DEF NeverForgetsRecent, Recent, StoreTypeOK
<1>5. ListedWereFresh'
  BY DEF ListedWereFresh
<1> QED  BY <1>1, <1>2, <1>3, <1>4, <1>5

\* Record gives the key the current time in the map and in the history.
LEMMA RecordInv ==
  ASSUME NEW k \in PeerKeys, StoreInv, Record(k), UNCHANGED <<clock, call>>
  PROVE  StoreInv'
<1> USE PeerStoreAssumption DEF StoreInv, Never
<1>0. /\ DOMAIN peers' = DOMAIN peers \cup {k}
      /\ \A j \in DOMAIN peers' : peers'[j] = IF j = k THEN clock ELSE peers[j]
      /\ \A j \in PeerKeys : seen'[j] = IF j = k THEN clock ELSE seen[j]
  BY DEF Record, StoreTypeOK
<1>1. StoreTypeOK'
  BY DEF StoreTypeOK, Record
<1>2. PastTimes'
  BY <1>0 DEF PastTimes, StoreTypeOK
<1>3. MapIsCurrent'
  BY <1>0 DEF MapIsCurrent, StoreTypeOK
<1>4. NeverForgetsRecent'
  BY <1>0 DEF NeverForgetsRecent, Recent, StoreTypeOK
<1>5. ListedWereFresh'
  <2> SUFFICES ASSUME NEW c \in Callers, call'[c].st = "listed", NEW j \in call'[c].out
               PROVE  seen'[j] # Never /\ seen'[j] >= call'[c].now - Window
    BY DEF ListedWereFresh
  <2>1. j \in PeerKeys /\ call[c].now \in Nat /\ clock \in Nat /\ call[c].now <= clock
    BY DEF StoreTypeOK, Calls, PastTimes
  <2>2. CASE j = k
    BY <1>0, <2>1, <2>2
  <2>3. CASE j # k
    BY <1>0, <2>1, <2>3 DEF ListedWereFresh
  <2> QED  BY <2>2, <2>3
<1> QED  BY <1>1, <1>2, <1>3, <1>4, <1>5

\* A List call that begins takes the current time.
LEMMA ListNowInv ==
  ASSUME NEW c \in Callers, StoreInv, ListNow(c)
  PROVE  StoreInv'
<1> USE PeerStoreAssumption DEF StoreInv, Never
<1>0. \A d \in Callers : call'[d] = IF d = c THEN [st |-> "now", now |-> clock, out |-> {}] ELSE call[d]
  BY DEF ListNow, StoreTypeOK
<1>1. StoreTypeOK'
  BY DEF StoreTypeOK, ListNow, Calls
<1>2. PastTimes'
  BY <1>0 DEF PastTimes, StoreTypeOK, ListNow
<1>3. MapIsCurrent' /\ NeverForgetsRecent'
  BY DEF MapIsCurrent, NeverForgetsRecent, Recent, ListNow
<1>4. ListedWereFresh'
  BY <1>0 DEF ListedWereFresh, ListNow
<1> QED  BY <1>1, <1>2, <1>3, <1>4

\* Pruning with a "now" that is not later than the clock keeps recent peers.
LEMMA ListLockedInv ==
  ASSUME NEW c \in Callers, StoreInv, ListLocked(c)
  PROVE  StoreInv'
<1> USE PeerStoreAssumption DEF StoreInv, Never
<1> DEFINE kept == {k \in DOMAIN peers : ~Expired(call[c].now, peers[k])}
<1>1. PICK out \in Served(kept) : call' = [call EXCEPT ![c].st = "listed", ![c].out = out]
  BY DEF ListLocked
<1>2. /\ peers' = [k \in kept |-> peers[k]] /\ clock' = clock /\ seen' = seen
      /\ out \subseteq kept /\ kept \subseteq PeerKeys /\ kept \subseteq DOMAIN peers
  BY <1>1 DEF ListLocked, Served, StoreTypeOK
<1>3. call[c] \in Calls /\ call[c].now \in Nat /\ call[c].now <= clock /\ clock \in Nat
  BY DEF StoreTypeOK, Calls, PastTimes
<1>4. \A k \in kept : k \in PeerKeys /\ peers[k] \in Nat /\ call[c].now - peers[k] <= Window
  BY <1>2, <1>3 DEF Expired, StoreTypeOK
<1>5. \A k \in DOMAIN peers : call[c].now - peers[k] <= Window => k \in kept
  <2> SUFFICES ASSUME NEW k \in DOMAIN peers, call[c].now - peers[k] <= Window
               PROVE  ~Expired(call[c].now, peers[k])
    OBVIOUS
  <2>1. peers[k] \in Nat
    BY DEF StoreTypeOK
  <2> QED  BY <2>1, <1>3 DEF Expired
<1>6. \A d \in Callers : /\ call'[d].st = (IF d = c THEN "listed" ELSE call[d].st)
                         /\ call'[d].now = call[d].now
                         /\ call'[d].out = (IF d = c THEN out ELSE call[d].out)
  BY <1>1 DEF StoreTypeOK, Calls
<1> HIDE DEF kept
<1>7. StoreTypeOK'
  <2>1. call' \in [Callers -> Calls]
    BY <1>1, <1>2, <1>3 DEF StoreTypeOK, Calls
  <2> QED  BY <1>2, <1>4, <2>1 DEF StoreTypeOK
<1>8. PastTimes'
  BY <1>2, <1>6 DEF PastTimes
<1>9. MapIsCurrent'
  BY <1>2 DEF MapIsCurrent
<1>10. NeverForgetsRecent'
  <2> SUFFICES ASSUME NEW k \in PeerKeys, Recent(k)
               PROVE  k \in DOMAIN peers' /\ peers'[k] = seen[k]
    BY <1>2 DEF NeverForgetsRecent, Recent
  <2>1. k \in DOMAIN peers /\ peers[k] = seen[k] /\ seen[k] \in Nat
    BY DEF NeverForgetsRecent, Recent, StoreTypeOK
  <2>2. call[c].now - peers[k] <= Window
    BY <2>1, <1>3 DEF Recent
  <2> QED  BY <1>2, <1>5, <2>1, <2>2
<1>11. ListedWereFresh'
  <2> SUFFICES ASSUME NEW d \in Callers, call'[d].st = "listed", NEW k \in call'[d].out
               PROVE  seen[k] # Never /\ seen[k] >= call[d].now - Window
    BY <1>2, <1>6 DEF ListedWereFresh
  <2>1. CASE d = c
    <3>1. k \in kept
      BY <1>2, <1>6, <2>1
    <3>2. seen[k] # Never /\ peers[k] = seen[k]
      BY <1>2, <3>1 DEF MapIsCurrent
    <3> QED  BY <1>3, <1>4, <2>1, <3>1, <3>2
  <2>2. CASE d # c
    BY <1>6, <2>2 DEF ListedWereFresh
  <2> QED  BY <2>1, <2>2
<1> QED  BY <1>7, <1>8, <1>9, <1>10, <1>11

\* A caller that drops its slice leaves the map alone.
LEMMA ListDoneInv ==
  ASSUME NEW c \in Callers, StoreInv, ListDone(c)
  PROVE  StoreInv'
<1> USE PeerStoreAssumption DEF StoreInv, Never
<1>0. \A d \in Callers : call'[d] = IF d = c THEN NoCall ELSE call[d]
  BY DEF ListDone, StoreTypeOK
<1>1. StoreTypeOK'
  BY DEF StoreTypeOK, ListDone, Calls, NoCall
<1>2. PastTimes'
  BY <1>0 DEF PastTimes, StoreTypeOK, ListDone, NoCall
<1>3. MapIsCurrent' /\ NeverForgetsRecent'
  BY DEF MapIsCurrent, NeverForgetsRecent, Recent, ListDone
<1>4. ListedWereFresh'
  BY <1>0 DEF ListedWereFresh, ListDone, NoCall
<1> QED  BY <1>1, <1>2, <1>3, <1>4

\* StoreInv is an invariant of the store.
THEOREM StoreInvariant == StoreSpec => []StoreInv
<1>1. StoreInv /\ [StoreNext]_storeVars => StoreInv'
  <2> SUFFICES ASSUME StoreInv, [StoreNext]_storeVars PROVE StoreInv'
    OBVIOUS
  <2>1. CASE Tick
    BY <2>1, TickInv
  <2>2. ASSUME NEW k \in PeerKeys, Record(k), UNCHANGED <<clock, call>> PROVE StoreInv'
    BY <2>2, RecordInv
  <2>3. ASSUME NEW c \in Callers, ListNow(c) \/ ListLocked(c) \/ ListDone(c) PROVE StoreInv'
    BY <2>3, ListNowInv, ListLockedInv, ListDoneInv
  <2>4. CASE UNCHANGED storeVars
    BY <2>4 DEF storeVars, StoreInv, StoreTypeOK, PastTimes, MapIsCurrent,
                NeverForgetsRecent, Recent, ListedWereFresh
  <2> QED  BY <2>1, <2>2, <2>3, <2>4 DEF StoreNext
<1> QED  BY <1>1, StoreInitInv, PTL DEF StoreSpec

\* The store's type invariant, for any number of peers and callers.
THEOREM StoreTypeCorrect == StoreSpec => []StoreTypeOK
<1>1. StoreInv => StoreTypeOK
  BY DEF StoreInv
<1> QED  BY <1>1, StoreInvariant, PTL

\* No interleaving of Record, List and the clock makes the store forget a peer
\* that was recorded within the window.
THEOREM RemembersRecent == StoreSpec => []NeverForgetsRecent
<1>1. StoreInv => NeverForgetsRecent
  BY DEF StoreInv
<1> QED  BY <1>1, StoreInvariant, PTL

\* What List returns was seen no longer than a window before the call.
THEOREM ListedFresh == StoreSpec => []ListedWereFresh
<1>1. StoreInv => ListedWereFresh
  BY DEF StoreInv
<1> QED  BY <1>1, StoreInvariant, PTL

\* The locked part of List returns every recent peer or a full list.
LEMMA ListLockedComplete ==
  ASSUME NEW c \in Callers, StoreInv, ListLocked(c)
  PROVE  \/ \A k \in PeerKeys : Recent(k) => k \in call'[c].out
         \/ Cardinality(call'[c].out) = MaxServed
<1> DEFINE kept == {k \in DOMAIN peers : ~Expired(call[c].now, peers[k])}
<1>1. PICK out \in Served(kept) : call' = [call EXCEPT ![c].st = "listed", ![c].out = out]
  BY DEF ListLocked
<1>2. call'[c].out = out /\ call[c].now \in Nat /\ call[c].now <= clock /\ clock \in Nat
  BY <1>1 DEF StoreInv, StoreTypeOK, Calls, PastTimes
<1>3. ASSUME NEW k \in PeerKeys, Recent(k) PROVE k \in kept
  <2>1. k \in DOMAIN peers /\ peers[k] = seen[k] /\ seen[k] \in Nat
    BY <1>3 DEF StoreInv, NeverForgetsRecent, Recent, StoreTypeOK
  <2> QED  BY <1>2, <1>3, <2>1, PeerStoreAssumption DEF Recent, Expired
<1>4. out \subseteq kept /\ IsFiniteSet(kept)
  <2>1. kept \subseteq PeerKeys
    BY DEF StoreInv, StoreTypeOK
  <2>2. IsFiniteSet(kept)
    BY <2>1, PeerStoreAssumption, FS_Subset
  <2> QED  BY <1>1, <2>2 DEF Served
<1> HIDE DEF kept
<1>5. \/ Cardinality(out) = MaxServed
      \/ Cardinality(out) = Cardinality(kept)
  BY <1>1 DEF Served
<1>6. CASE Cardinality(out) = Cardinality(kept)
  <2>1. out = kept
    BY <1>4, <1>6, FS_Subset
  <2> QED  BY <1>2, <1>3, <2>1
<1> QED  BY <1>2, <1>5, <1>6

\* A List call answers with every peer recorded within the window, however
\* long it waited for the lock, unless its answer has maxServedPeers entries.
THEOREM ListsAll == StoreSpec => ListComplete
<1>1. StoreInv /\ [StoreNext]_storeVars
        => [\A c \in Callers : (call[c].st = "now" /\ call'[c].st = "listed") =>
              \/ \A k \in PeerKeys : Recent(k) => k \in call'[c].out
              \/ Cardinality(call'[c].out) = MaxServed]_storeVars
  <2> SUFFICES ASSUME StoreInv, StoreNext, NEW c \in Callers,
                      call[c].st = "now", call'[c].st = "listed"
               PROVE  \/ \A k \in PeerKeys : Recent(k) => k \in call'[c].out
                      \/ Cardinality(call'[c].out) = MaxServed
    OBVIOUS
  <2>1. call' # call
    OBVIOUS
  <2>2. PICK d \in Callers : ListNow(d) \/ ListLocked(d) \/ ListDone(d)
    BY <2>1 DEF StoreNext, Tick
  <2>3. call \in [Callers -> Calls]
    BY DEF StoreInv, StoreTypeOK
  <2>4. d = c
    BY <2>2, <2>3 DEF ListNow, ListLocked, ListDone
  <2>5. ListLocked(c)
    BY <2>2, <2>3, <2>4 DEF ListNow, ListDone, NoCall
  <2> QED  BY <2>5, ListLockedComplete
<1> QED  BY <1>1, StoreInvariant, PTL DEF StoreSpec, ListComplete

\* What a List call has returned stays within the cap while its caller keeps
\* it, and lacks nobody who was recorded before the call and is recent still,
\* unless it is full.
ListHolds ==
    \A c \in Callers : call[c].st = "listed" =>
        /\ IsFiniteSet(call[c].out) /\ Cardinality(call[c].out) <= MaxServed
        /\ \A k \in PeerKeys \ call[c].out :
              Recent(k) /\ seen[k] < call[c].now => Cardinality(call[c].out) = MaxServed

LEMMA ListLockedCapped ==
  ASSUME NEW c \in Callers, StoreInv, ListLocked(c)
  PROVE  IsFiniteSet(call'[c].out) /\ Cardinality(call'[c].out) <= MaxServed
<1> DEFINE kept == {k \in DOMAIN peers : ~Expired(call[c].now, peers[k])}
<1>1. PICK out \in Served(kept) : call' = [call EXCEPT ![c].st = "listed", ![c].out = out]
  BY DEF ListLocked
<1>2. call'[c].out = out
  BY <1>1 DEF StoreInv, StoreTypeOK, Calls
<1>3. out \subseteq kept /\ kept \subseteq PeerKeys
  BY <1>1 DEF Served, StoreInv, StoreTypeOK
<1>4. IsFiniteSet(out) /\ IsFiniteSet(kept) /\ Cardinality(kept) \in Nat
  BY <1>3, PeerStoreAssumption, FS_Subset, FS_CardinalityType
<1> HIDE DEF kept
<1>5. Cardinality(out) <= MaxServed
  BY <1>1, <1>4, PeerStoreAssumption DEF Served
<1> QED  BY <1>2, <1>4, <1>5

LEMMA ListHoldsStep == StoreInv /\ ListHolds /\ [StoreNext]_storeVars => ListHolds'
<1> SUFFICES ASSUME StoreInv, ListHolds, [StoreNext]_storeVars PROVE ListHolds'
  OBVIOUS
<1>0. /\ call \in [Callers -> Calls] /\ clock \in Nat
      /\ seen \in [PeerKeys -> Nat \cup {Never}]
  BY DEF StoreInv, StoreTypeOK
<1>1. CASE Tick
  <2>1. \A k \in PeerKeys : Recent(k)' => Recent(k)
    BY <1>0, <1>1, PeerStoreAssumption DEF Tick, Recent, Never
  <2> QED  BY <1>1, <2>1 DEF Tick, ListHolds
<1>2. ASSUME NEW k \in PeerKeys, Record(k), UNCHANGED <<clock, call>> PROVE ListHolds'
  <2>1. \A j \in PeerKeys : j # k => seen'[j] = seen[j] /\ (Recent(j)' <=> Recent(j))
    BY <1>0, <1>2 DEF Record, Recent
  <2>2. seen'[k] = clock
    BY <1>0, <1>2 DEF Record
  <2>3. \A c \in Callers : call[c].now \in Nat /\ call[c].now <= clock
    BY <1>0 DEF StoreInv, PastTimes, Calls
  <2>4. \A c \in Callers : ~(seen'[k] < call'[c].now)
    BY <1>0, <1>2, <2>2, <2>3
  <2> QED  BY <1>2, <2>1, <2>4 DEF ListHolds
<1>3. ASSUME NEW d \in Callers, ListNow(d) \/ ListDone(d) PROVE ListHolds'
  <2>1. \A c \in Callers : call'[c].st = "listed" => call'[c] = call[c] /\ call[c].st = "listed"
    BY <1>0, <1>3 DEF ListNow, ListDone, NoCall
  <2>2. UNCHANGED <<clock, seen>>
    BY <1>3 DEF ListNow, ListDone
  <2> QED  BY <2>1, <2>2 DEF ListHolds, Recent
<1>4. ASSUME NEW d \in Callers, ListLocked(d) PROVE ListHolds'
  <2>1. UNCHANGED <<clock, seen>>
    BY <1>4 DEF ListLocked
  <2>2. \A c \in Callers : c # d => call'[c] = call[c]
    BY <1>0, <1>4 DEF ListLocked
  <2>3. \A k \in PeerKeys : Recent(k)' <=> Recent(k)
    BY <2>1 DEF Recent
  <2>4. /\ IsFiniteSet(call'[d].out) /\ Cardinality(call'[d].out) <= MaxServed
        /\ \A k \in PeerKeys \ call'[d].out : Recent(k) => Cardinality(call'[d].out) = MaxServed
    BY <1>4, ListLockedCapped, ListLockedComplete
  <2> QED  BY <2>1, <2>2, <2>3, <2>4 DEF ListHolds
<1>5. CASE UNCHANGED storeVars
  BY <1>5 DEF storeVars, ListHolds, Recent
<1> QED  BY <1>1, <1>2, <1>3, <1>4, <1>5 DEF StoreNext

LEMMA ListKeepsHolding == StoreSpec => []ListHolds
<1>1. StoreInit => ListHolds
  BY DEF StoreInit, ListHolds, NoCall
<1> QED  BY <1>1, StoreInvariant, ListHoldsStep, PTL DEF StoreSpec

-----------------------------------------------------------------------------
(* The responder.                                                          *)

ConnStates == {"none", "backlog", "done"} \cup HandlerStates
SubStates == {"none", "spawned", "serving", "done"}
LiveConns == {c \in Conns : ConnLive(c)}
LiveSubs == {s \in Streams : SubLive(s)}

\* The WaitGroup counts the live goroutines, no more and no fewer.
WgCounts == wg = Cardinality(LiveConns) + Cardinality(LiveSubs)

\* The signal goroutine closes the listener after it has cancelled.
CancelFirst == (~lnOpen => ctxDone) /\ (sig = "cancelled" => ctxDone)

RespInv == TypeOK /\ WgCounts /\ CancelFirst /\ NoWorkAfterReturn /\ GracefulStop

-----------------------------------------------------------------------------
\* Every step of the responder is a step of the store or leaves it alone.
LEMMA StepUsesStore == [Next]_vars => [StoreNext]_storeVars
<1> SUFFICES ASSUME [Next]_vars PROVE [StoreNext]_storeVars
  OBVIOUS
<1>1. CASE Tick /\ UNCHANGED respVars
  BY <1>1 DEF StoreNext
<1>2. ASSUME NEW c \in Conns, Dial(c) \/ Accept(c) \/ ConnStep(c) \/ YamuxEnds(c)
      PROVE  [StoreNext]_storeVars
  <2>1. CASE Dial(c) \/ Accept(c) \/ YamuxEnds(c)
    BY <2>1 DEF Dial, Accept, YamuxEnds
  <2>2. CASE HandlerStart(c) \/ HandshakeEnds(c) \/ IdentityFails(c)
    BY <2>2 DEF HandlerStart, HandshakeEnds, IdentityFails
  <2>3. ASSUME NEW k \in PeerKeys, IdentitySucceeds(c, k) PROVE StoreNext
    BY <2>3 DEF IdentitySucceeds, StoreNext
  <2> QED  BY <1>2, <2>1, <2>2, <2>3 DEF ConnStep
<1>3. ASSUME NEW c \in Conns, NEW s \in Streams, YamuxAccept(c, s) PROVE [StoreNext]_storeVars
  BY <1>3 DEF YamuxAccept
<1>4. ASSUME NEW s \in Streams, SubStep(s) \/ SubstreamFails(s) PROVE StoreNext
  BY <1>4 DEF SubStep, SubstreamListNow, SubstreamListLocked, SubstreamFails, SubstreamExit,
              StoreNext, Streams
<1>5. ASSUME NEW s \in Streams, NEW n \in RequestSizes, SubstreamServes(s, n) PROVE StoreNext
  BY <1>5 DEF SubstreamServes, SubstreamExit, StoreNext, Streams
<1>6. ASSUME NEW err \in {"closed"} \cup AcceptErrors, AcceptError(err) PROVE [StoreNext]_storeVars
  BY <1>6 DEF AcceptError
<1>7. CASE ServeReturn \/ SignalStep
  BY <1>7 DEF ServeReturn, SignalStep
<1>8. CASE UNCHANGED vars
  BY <1>8 DEF vars
<1> QED  BY <1>1, <1>2, <1>3, <1>4, <1>5, <1>6, <1>7, <1>8 DEF Next

\* The store's part of the responder, to which the theorems on the store apply.
LEMMA StorePart == Spec => StoreSpec
<1>1. Init => StoreInit
  BY DEF Init
<1> QED  BY <1>1, StepUsesStore, PTL DEF Spec, StoreSpec

\* So whatever connections and substreams do, no recent peer is forgotten, what
\* a substream is given to serve was fresh, and it is all there is to serve or a
\* full answer.
THEOREM ResponderKeepsStore ==
  Spec => []NeverForgetsRecent /\ []ListedWereFresh /\ ListComplete
<1> QED  BY StorePart, RemembersRecent, ListedFresh, ListsAll

-----------------------------------------------------------------------------
\* What moving one connection does to the number of live handlers.
LEMMA ConnMoves ==
  ASSUME NEW c \in Conns, NEW st \in ConnStates, conn \in [Conns -> ConnStates],
         conn' = [conn EXCEPT ![c] = st]
  PROVE  /\ Cardinality(LiveConns) \in Nat
         /\ ConnLive(c) => Cardinality(LiveConns) > 0
         /\ Cardinality(LiveConns)' = Cardinality(LiveConns)
              + (IF st \in HandlerStates THEN 1 ELSE 0) - (IF ConnLive(c) THEN 1 ELSE 0)
<1>1. IsFiniteSet(LiveConns) /\ Cardinality(LiveConns) \in Nat
  BY ResponderAssumption, FS_Subset, FS_CardinalityType DEF LiveConns
<1>2. \A d \in Conns : conn'[d] = IF d = c THEN st ELSE conn[d]
  OBVIOUS
<1>3. CASE ConnLive(c) /\ st \in HandlerStates
  <2>1. LiveConns' = LiveConns
    BY <1>2, <1>3 DEF LiveConns, ConnLive
  <2>2. c \in LiveConns
    BY <1>3 DEF LiveConns
  <2>3. Cardinality(LiveConns \ {c}) = Cardinality(LiveConns) - 1 /\ Cardinality(LiveConns \ {c}) \in Nat
    BY <1>1, <2>2, FS_RemoveElement, FS_CardinalityType
  <2> QED  BY <1>1, <1>3, <2>1, <2>3
<1>4. CASE ConnLive(c) /\ st \notin HandlerStates
  <2>1. LiveConns' = LiveConns \ {c} /\ c \in LiveConns
    BY <1>2, <1>4 DEF LiveConns, ConnLive
  <2>3. Cardinality(LiveConns \ {c}) = Cardinality(LiveConns) - 1 /\ Cardinality(LiveConns \ {c}) \in Nat
    BY <1>1, <2>1, FS_RemoveElement, FS_CardinalityType
  <2> QED  BY <1>1, <1>4, <2>1, <2>3
<1>5. CASE ~ConnLive(c) /\ st \in HandlerStates
  <2>1. LiveConns' = LiveConns \cup {c} /\ c \notin LiveConns
    BY <1>2, <1>5 DEF LiveConns, ConnLive
  <2>2. Cardinality(LiveConns \cup {c}) = Cardinality(LiveConns) + 1
    BY <1>1, <2>1, FS_AddElement
  <2> QED  BY <1>1, <1>5, <2>1, <2>2
<1>6. CASE ~ConnLive(c) /\ st \notin HandlerStates
  <2>1. LiveConns' = LiveConns
    BY <1>2, <1>6 DEF LiveConns, ConnLive
  <2> QED  BY <1>1, <1>6, <2>1
<1> QED  BY <1>3, <1>4, <1>5, <1>6

\* The same for substreams.
LEMMA SubMoves ==
  ASSUME NEW s \in Streams, NEW st \in SubStates, sub \in [Streams -> SubStates],
         sub' = [sub EXCEPT ![s] = st]
  PROVE  /\ Cardinality(LiveSubs) \in Nat
         /\ SubLive(s) => Cardinality(LiveSubs) > 0
         /\ Cardinality(LiveSubs)' = Cardinality(LiveSubs)
              + (IF st \in {"spawned", "serving"} THEN 1 ELSE 0) - (IF SubLive(s) THEN 1 ELSE 0)
<1>1. IsFiniteSet(LiveSubs) /\ Cardinality(LiveSubs) \in Nat
  BY ResponderAssumption, FS_Subset, FS_CardinalityType DEF LiveSubs, Streams
<1>2. \A d \in Streams : sub'[d] = IF d = s THEN st ELSE sub[d]
  OBVIOUS
<1>3. CASE SubLive(s) /\ st \in {"spawned", "serving"}
  <2>1. LiveSubs' = LiveSubs
    BY <1>2, <1>3 DEF LiveSubs, SubLive
  <2>2. s \in LiveSubs
    BY <1>3 DEF LiveSubs
  <2>3. Cardinality(LiveSubs \ {s}) = Cardinality(LiveSubs) - 1 /\ Cardinality(LiveSubs \ {s}) \in Nat
    BY <1>1, <2>2, FS_RemoveElement, FS_CardinalityType
  <2> QED  BY <1>1, <1>3, <2>1, <2>3
<1>4. CASE SubLive(s) /\ st \notin {"spawned", "serving"}
  <2>1. LiveSubs' = LiveSubs \ {s} /\ s \in LiveSubs
    BY <1>2, <1>4 DEF LiveSubs, SubLive
  <2>3. Cardinality(LiveSubs \ {s}) = Cardinality(LiveSubs) - 1 /\ Cardinality(LiveSubs \ {s}) \in Nat
    BY <1>1, <2>1, FS_RemoveElement, FS_CardinalityType
  <2> QED  BY <1>1, <1>4, <2>1, <2>3
<1>5. CASE ~SubLive(s) /\ st \in {"spawned", "serving"}
  <2>1. LiveSubs' = LiveSubs \cup {s} /\ s \notin LiveSubs
    BY <1>2, <1>5 DEF LiveSubs, SubLive
  <2>2. Cardinality(LiveSubs \cup {s}) = Cardinality(LiveSubs) + 1
    BY <1>1, <2>1, FS_AddElement
  <2> QED  BY <1>1, <1>5, <2>1, <2>2
<1>6. CASE ~SubLive(s) /\ st \notin {"spawned", "serving"}
  <2>1. LiveSubs' = LiveSubs
    BY <1>2, <1>6 DEF LiveSubs, SubLive
  <2> QED  BY <1>1, <1>6, <2>1
<1> QED  BY <1>3, <1>4, <1>5, <1>6
\* Counting only looks at conn and sub.
LEMMA LiveUnchanged ==
  /\ conn' = conn => LiveConns' = LiveConns
  /\ sub' = sub => LiveSubs' = LiveSubs
BY DEF LiveConns, LiveSubs, ConnLive, SubLive

control == <<ctxDone, lnOpen, sig, serve, ret>>

\* The part of a step of a connection handler: it moves from one live state to
\* another or ends, and the WaitGroup follows.
LEMMA HandlerInv ==
  ASSUME NEW c \in Conns, NEW st \in HandlerStates \cup {"done"}, RespInv, StoreTypeOK',
         ConnLive(c), HandlerMoves(c, st), UNCHANGED <<control, sub, owner, served>>
  PROVE  RespInv'
<1> USE DEF RespInv
<1>1. conn \in [Conns -> ConnStates] /\ st \in ConnStates /\ wg \in Nat
  BY DEF TypeOK, ConnStates
<1>2. conn' = [conn EXCEPT ![c] = st] /\ wg' = IF st = "done" THEN wg - 1 ELSE wg
  BY DEF HandlerMoves, ConnWg
<1>3. st \in HandlerStates <=> st # "done"
  BY DEF HandlerStates
<1>4. /\ Cardinality(LiveConns) \in Nat /\ Cardinality(LiveConns) > 0
      /\ Cardinality(LiveConns)' = Cardinality(LiveConns) + (IF st = "done" THEN 0 ELSE 1) - 1
  BY <1>1, <1>2, <1>3, ConnMoves
<1>5. Cardinality(LiveSubs) \in Nat /\ LiveSubs' = LiveSubs
  BY LiveUnchanged, ResponderAssumption, FS_Subset, FS_CardinalityType DEF LiveSubs, Streams
<1>6. WgCounts' /\ wg' \in Nat
  BY <1>1, <1>2, <1>4, <1>5 DEF WgCounts
<1>7. TypeOK'
  <2>1. conn' \in [Conns -> ConnStates]
    BY <1>1, <1>2
  <2> QED  BY <1>6, <2>1 DEF TypeOK, ConnStates, control
<1>8. NoWorkAfterReturn'
  BY DEF NoWorkAfterReturn, control
<1>9. CancelFirst' /\ GracefulStop'
  BY DEF CancelFirst, GracefulStop, control
<1> QED  BY <1>6, <1>7, <1>8, <1>9

\* A connection enters the backlog: no goroutine yet.
LEMMA DialInv ==
  ASSUME NEW c \in Conns, RespInv, StoreTypeOK', Dial(c)
  PROVE  RespInv'
<1> USE DEF RespInv
<1>1. conn \in [Conns -> ConnStates] /\ "backlog" \in ConnStates /\ conn[c] = "none"
  BY DEF TypeOK, ConnStates, Dial
<1>2. \A d \in Conns : conn'[d] = IF d = c THEN "backlog" ELSE conn[d]
  BY <1>1 DEF Dial
<1>3. LiveConns' = LiveConns /\ LiveSubs' = LiveSubs
  BY <1>1, <1>2, LiveUnchanged DEF Dial, LiveConns, ConnLive, HandlerStates
<1>4. WgCounts'
  BY <1>3 DEF WgCounts, Dial
<1>5. TypeOK'
  BY DEF TypeOK, Dial
<1>6. NoWorkAfterReturn'
  BY <1>2 DEF NoWorkAfterReturn, Dial, ConnLive, SubLive, HandlerStates
<1>7. CancelFirst' /\ GracefulStop'
  BY DEF CancelFirst, GracefulStop, Dial
<1> QED  BY <1>4, <1>5, <1>6, <1>7

\* Serve spawns a handler: one more goroutine, one more in the WaitGroup.
LEMMA AcceptInv ==
  ASSUME NEW c \in Conns, RespInv, StoreTypeOK', Accept(c)
  PROVE  RespInv'
<1> USE DEF RespInv
<1>1. conn \in [Conns -> ConnStates] /\ "spawned" \in ConnStates /\ wg \in Nat /\ ~ConnLive(c)
  BY DEF TypeOK, ConnStates, HandlerStates, Accept, ConnLive
<1>2. conn' = [conn EXCEPT ![c] = "spawned"] /\ wg' = wg + 1
  BY DEF Accept, ConnWg
<1>3. Cardinality(LiveConns) \in Nat /\ Cardinality(LiveConns)' = Cardinality(LiveConns) + 1
  <2>1. "spawned" \in HandlerStates
    BY DEF HandlerStates
  <2>2. /\ Cardinality(LiveConns) \in Nat
        /\ Cardinality(LiveConns)' = Cardinality(LiveConns)
              + (IF "spawned" \in HandlerStates THEN 1 ELSE 0) - (IF ConnLive(c) THEN 1 ELSE 0)
    BY <1>1, <1>2, ConnMoves, Zenon
  <2> QED  BY <1>1, <2>1, <2>2
<1>4. Cardinality(LiveSubs) \in Nat /\ LiveSubs' = LiveSubs
  BY LiveUnchanged, ResponderAssumption, FS_Subset, FS_CardinalityType DEF LiveSubs, Streams, Accept
<1>5. WgCounts' /\ wg' \in Nat
  BY <1>1, <1>2, <1>3, <1>4 DEF WgCounts
<1>6. TypeOK'
  <2>1. conn' \in [Conns -> ConnStates]
    BY <1>1, <1>2
  <2> QED  BY <1>5, <2>1 DEF TypeOK, ConnStates, Accept
<1>7. NoWorkAfterReturn' /\ CancelFirst' /\ GracefulStop'
  BY DEF NoWorkAfterReturn, CancelFirst, GracefulStop, Accept
<1> QED  BY <1>5, <1>6, <1>7

\* A handler in Yamux spawns a substream; it is itself still counted.
LEMMA YamuxAcceptInv ==
  ASSUME NEW c \in Conns, NEW s \in Streams, RespInv, StoreTypeOK', YamuxAccept(c, s)
  PROVE  RespInv'
<1> USE DEF RespInv
<1>1. sub \in [Streams -> SubStates] /\ "spawned" \in SubStates /\ wg \in Nat /\ ~SubLive(s)
  BY DEF TypeOK, SubStates, YamuxAccept, SubLive
<1>2. sub' = [sub EXCEPT ![s] = "spawned"] /\ wg' = wg + 1
  BY DEF YamuxAccept, SubstreamWg
<1>3. Cardinality(LiveSubs) \in Nat /\ Cardinality(LiveSubs)' = Cardinality(LiveSubs) + 1
  <2>1. /\ Cardinality(LiveSubs) \in Nat
        /\ Cardinality(LiveSubs)' = Cardinality(LiveSubs)
              + (IF "spawned" \in {"spawned", "serving"} THEN 1 ELSE 0) - (IF SubLive(s) THEN 1 ELSE 0)
    BY <1>1, <1>2, SubMoves, Zenon
  <2> QED  BY <1>1, <2>1
<1>4. Cardinality(LiveConns) \in Nat /\ LiveConns' = LiveConns
  BY LiveUnchanged, ResponderAssumption, FS_Subset, FS_CardinalityType DEF LiveConns, YamuxAccept
<1>5. WgCounts' /\ wg' \in Nat
  BY <1>1, <1>2, <1>3, <1>4 DEF WgCounts
<1>6. TypeOK'
  <2>1. sub' \in [Streams -> SubStates]
    BY <1>1, <1>2
  <2>2. owner' \in [Streams -> Conns \cup {NoConn}]
    BY DEF TypeOK, YamuxAccept
  <2> QED  BY <1>5, <2>1, <2>2 DEF TypeOK, SubStates, YamuxAccept
<1>7. NoWorkAfterReturn'
  BY DEF NoWorkAfterReturn, YamuxAccept, ConnLive, HandlerStates
<1>8. CancelFirst' /\ GracefulStop'
  BY DEF CancelFirst, GracefulStop, YamuxAccept
<1> QED  BY <1>5, <1>6, <1>7, <1>8

\* A substream goes from List to serving: still one goroutine.
LEMMA SubListInv ==
  ASSUME NEW s \in Streams, RespInv, StoreTypeOK', SubStep(s)
  PROVE  RespInv'
<1> USE DEF RespInv
<1>1. CASE SubstreamListNow(s)
  <2>1. UNCHANGED respVars
    BY <1>1 DEF SubstreamListNow
  <2> QED  BY <2>1, LiveUnchanged DEF respVars, TypeOK, WgCounts, CancelFirst,
              NoWorkAfterReturn, GracefulStop, ConnLive, SubLive
<1>2. CASE SubstreamListLocked(s)
  <2>1. sub \in [Streams -> SubStates] /\ "serving" \in SubStates /\ SubLive(s)
    BY <1>2 DEF TypeOK, SubStates, SubstreamListLocked, SubLive
  <2>2. \A d \in Streams : sub'[d] = IF d = s THEN "serving" ELSE sub[d]
    BY <1>2, <2>1 DEF SubstreamListLocked
  <2>3. LiveSubs' = LiveSubs /\ LiveConns' = LiveConns
    BY <1>2, <2>1, <2>2, LiveUnchanged DEF SubstreamListLocked, LiveSubs, SubLive
  <2>4. WgCounts'
    BY <1>2, <2>3 DEF WgCounts, SubstreamListLocked
  <2>5. TypeOK'
    BY <1>2 DEF TypeOK, SubstreamListLocked
  <2>6. NoWorkAfterReturn'
    BY <1>2, <2>1 DEF NoWorkAfterReturn, SubstreamListLocked
  <2>7. CancelFirst' /\ GracefulStop'
    BY <1>2 DEF CancelFirst, GracefulStop, SubstreamListLocked
  <2> QED  BY <2>4, <2>5, <2>6, <2>7
<1> QED  BY <1>1, <1>2 DEF SubStep

\* A substream goroutine ends, with an answer or without: the WaitGroup follows.
LEMMA SubExitInv ==
  ASSUME NEW s \in Streams, RespInv, StoreTypeOK', sub[s] = "serving", SubstreamExit(s),
         served' \in [Streams -> SUBSET PeerKeys]
  PROVE  RespInv'
<1> USE DEF RespInv
<1>1. sub \in [Streams -> SubStates] /\ "done" \in SubStates /\ wg \in Nat /\ SubLive(s)
  BY DEF TypeOK, SubStates, SubLive
<1>2. sub' = [sub EXCEPT ![s] = "done"] /\ wg' = wg - 1
  BY DEF SubstreamExit, SubstreamWg
<1>3. /\ Cardinality(LiveSubs) \in Nat /\ Cardinality(LiveSubs) > 0
      /\ Cardinality(LiveSubs)' = Cardinality(LiveSubs) - 1
  <2>1. /\ Cardinality(LiveSubs) \in Nat
        /\ SubLive(s) => Cardinality(LiveSubs) > 0
        /\ Cardinality(LiveSubs)' = Cardinality(LiveSubs)
              + (IF "done" \in {"spawned", "serving"} THEN 1 ELSE 0) - (IF SubLive(s) THEN 1 ELSE 0)
    BY <1>1, <1>2, SubMoves, Zenon
  <2> QED  BY <1>1, <2>1
<1>4. Cardinality(LiveConns) \in Nat /\ LiveConns' = LiveConns
  BY LiveUnchanged, ResponderAssumption, FS_Subset, FS_CardinalityType DEF LiveConns, SubstreamExit
<1>5. WgCounts' /\ wg' \in Nat
  BY <1>1, <1>2, <1>3, <1>4 DEF WgCounts
<1>6. TypeOK'
  <2>1. sub' \in [Streams -> SubStates]
    BY <1>1, <1>2
  <2> QED  BY <1>5, <2>1 DEF TypeOK, SubStates, SubstreamExit
<1>7. NoWorkAfterReturn'
  BY <1>1 DEF NoWorkAfterReturn, SubstreamExit
<1>8. CancelFirst' /\ GracefulStop'
  BY DEF CancelFirst, GracefulStop, SubstreamExit
<1> QED  BY <1>5, <1>6, <1>7, <1>8

\* The accept loop ends, Wait returns, or the signal goroutine moves.
LEMMA ControlInv ==
  ASSUME RespInv, StoreTypeOK', UNCHANGED <<wg, conn, sub, owner, served>>,
         \/ \E err \in {"closed"} \cup AcceptErrors : AcceptError(err)
         \/ ServeReturn
         \/ SignalStep
  PROVE  RespInv'
<1> USE DEF RespInv
<1>1. WgCounts'
  BY LiveUnchanged DEF WgCounts
<1>2. ASSUME NEW err \in {"closed"} \cup AcceptErrors, AcceptError(err) PROVE RespInv'
  <2>1. err \in {"closed", "error"} /\ (err = "closed" => ctxDone)
    BY <1>2, ResponderAssumption DEF AcceptError, CancelFirst
  <2>2. TypeOK'
    BY <1>2, <2>1 DEF TypeOK, AcceptError
  <2>3. NoWorkAfterReturn' /\ CancelFirst' /\ GracefulStop'
    BY <1>2, <2>1 DEF AcceptError, NoWorkAfterReturn, CancelFirst, GracefulStop
  <2> QED  BY <1>1, <2>2, <2>3
<1>3. CASE ServeReturn
  <2>1. TypeOK' /\ CancelFirst' /\ GracefulStop'
    BY <1>3 DEF ServeReturn, TypeOK, CancelFirst, GracefulStop
  <2>2. /\ IsFiniteSet(LiveConns) /\ Cardinality(LiveConns) \in Nat
        /\ IsFiniteSet(LiveSubs) /\ Cardinality(LiveSubs) \in Nat
    BY ResponderAssumption, FS_Subset, FS_CardinalityType DEF LiveConns, LiveSubs, Streams
  <2>3. Cardinality(LiveConns) = 0 /\ Cardinality(LiveSubs) = 0
    BY <1>3, <2>2 DEF ServeReturn, WgCounts
  <2>4. LiveConns = {} /\ LiveSubs = {}
    BY <2>2, <2>3, FS_EmptySet
  <2>5. NoWorkAfterReturn'
    BY <2>4 DEF NoWorkAfterReturn, LiveConns, LiveSubs, ConnLive, SubLive
  <2> QED  BY <1>1, <2>1, <2>5
<1>4. CASE SignalStep
  <2>0. \/ sig' = "cancelled" /\ ctxDone' = TRUE /\ UNCHANGED <<lnOpen, serve, ret>>
        \/ sig' = "closed" /\ lnOpen' = FALSE /\ sig = "cancelled" /\ UNCHANGED <<ctxDone, serve, ret>>
    BY <1>4 DEF SignalStep
  <2>a. TypeOK'
    BY <2>0 DEF TypeOK
  <2>b. CancelFirst'
    BY <2>0 DEF CancelFirst
  <2>c. GracefulStop'
    BY <2>0 DEF GracefulStop
  <2>1. TypeOK' /\ CancelFirst' /\ GracefulStop'
    BY <2>a, <2>b, <2>c
  <2>2. NoWorkAfterReturn'
    BY <1>4 DEF SignalStep, NoWorkAfterReturn, ConnLive, SubLive
  <2> QED  BY <1>1, <2>1, <2>2
<1> QED  BY <1>2, <1>3, <1>4

\* One step of the responder keeps RespInv.
LEMMA RespStep == RespInv /\ StoreTypeOK' /\ [Next]_vars => RespInv'
<1> SUFFICES ASSUME RespInv, StoreTypeOK', [Next]_vars PROVE RespInv'
  OBVIOUS
<1>0. ASSUME UNCHANGED respVars PROVE RespInv'
  BY <1>0, LiveUnchanged DEF RespInv, respVars, TypeOK, WgCounts, CancelFirst,
              NoWorkAfterReturn, GracefulStop, ConnLive, SubLive
<1>1. CASE Tick /\ UNCHANGED respVars
  BY <1>0, <1>1
<1>2. ASSUME NEW c \in Conns, ConnStep(c) \/ YamuxEnds(c) PROVE RespInv'
  <2>1. conn[c] \in HandlerStates /\ UNCHANGED <<control, sub, owner, served>>
    BY <1>2 DEF ConnStep, YamuxEnds, HandlerStart, HandshakeEnds, IdentityFails,
                IdentitySucceeds, HandlerStates, control
  <2>2. \E st \in HandlerStates \cup {"done"} : HandlerMoves(c, st)
    <3>1. CASE HandlerStart(c)
      BY <3>1 DEF HandlerStart, HandlerStates
    <3>2. CASE HandshakeEnds(c)
      BY <3>2 DEF HandshakeEnds, HandlerStates
    <3>3. CASE IdentityFails(c) \/ YamuxEnds(c)
      BY <3>3 DEF IdentityFails, YamuxEnds
    <3>4. CASE \E k \in PeerKeys : IdentitySucceeds(c, k)
      BY <3>4 DEF IdentitySucceeds, HandlerStates
    <3> QED  BY <1>2, <3>1, <3>2, <3>3, <3>4 DEF ConnStep
  <2> QED  BY <2>1, <2>2, HandlerInv DEF ConnLive
<1>3. ASSUME NEW c \in Conns, Dial(c) \/ Accept(c) PROVE RespInv'
  BY <1>3, DialInv, AcceptInv
<1>4. ASSUME NEW c \in Conns, NEW s \in Streams, YamuxAccept(c, s) PROVE RespInv'
  BY <1>4, YamuxAcceptInv
<1>5. ASSUME NEW s \in Streams, SubStep(s) PROVE RespInv'
  BY <1>5, SubListInv
<1>6. ASSUME NEW s \in Streams, SubstreamFails(s) PROVE RespInv'
  BY <1>6, SubExitInv DEF SubstreamFails, RespInv, TypeOK
<1>7. ASSUME NEW s \in Streams, NEW n \in RequestSizes, SubstreamServes(s, n) PROVE RespInv'
  <2>1. PICK p \in SUBSET call[s].out : served' = [served EXCEPT ![s] = p]
    BY <1>7 DEF SubstreamServes
  <2>2. p \subseteq PeerKeys
    BY <2>1 DEF RespInv, TypeOK, StoreTypeOK, Calls, Streams
  <2>3. served' \in [Streams -> SUBSET PeerKeys]
    BY <2>1, <2>2 DEF RespInv, TypeOK
  <2> QED  BY <1>7, <2>3, SubExitInv DEF SubstreamServes
<1>8. CASE (\E err \in {"closed"} \cup AcceptErrors : AcceptError(err)) \/ ServeReturn \/ SignalStep
  <2>1. UNCHANGED <<wg, conn, sub, owner, served>>
    BY <1>8 DEF AcceptError, ServeReturn, SignalStep
  <2> QED  BY <1>8, <2>1, ControlInv
<1>9. CASE UNCHANGED vars
  BY <1>0, <1>9 DEF vars
<1> QED  BY <1>1, <1>2, <1>3, <1>4, <1>5, <1>6, <1>7, <1>8, <1>9 DEF Next

\* RespInv is an invariant of the responder.
THEOREM ResponderInvariant == Spec => []RespInv
<1>1. Init /\ StoreTypeOK => RespInv
  <2> SUFFICES ASSUME Init, StoreTypeOK PROVE RespInv
    OBVIOUS
  <2>1. TypeOK
    BY DEF Init, TypeOK
  <2>2. LiveConns = {} /\ LiveSubs = {}
    BY DEF Init, LiveConns, LiveSubs, ConnLive, SubLive, HandlerStates
  <2>3. WgCounts
    BY <2>2, FS_EmptySet DEF WgCounts, Init
  <2>4. CancelFirst /\ NoWorkAfterReturn /\ GracefulStop
    BY DEF Init, CancelFirst, NoWorkAfterReturn, GracefulStop
  <2> QED  BY <2>1, <2>3, <2>4 DEF RespInv
<1>2. Spec => []StoreTypeOK
  BY StorePart, StoreTypeCorrect
<1> QED  BY <1>1, <1>2, RespStep, PTL DEF Spec

\* The responder's type invariant; in particular the WaitGroup's counter is
\* never negative, which would panic.
THEOREM ResponderTypeCorrect == Spec => []TypeOK
<1>1. RespInv => TypeOK
  BY DEF RespInv
<1> QED  BY <1>1, ResponderInvariant, PTL

\* Serve never returns before every goroutine it spawned is over.
THEOREM ServeWaitsForAll == Spec => []NoWorkAfterReturn
<1>1. RespInv => NoWorkAfterReturn
  BY DEF RespInv
<1> QED  BY <1>1, ResponderInvariant, PTL

\* A shutdown by signal is never reported as an error of Accept.
THEOREM StopsGracefully == Spec => []GracefulStop
<1>1. RespInv => GracefulStop
  BY DEF RespInv
<1> QED  BY <1>1, ResponderInvariant, PTL

\* The WaitGroup is never raised from zero while Wait runs: whoever adds after
\* the accept loop has ended is a live connection handler, which is counted.
THEOREM WaitGroupUsedWell == Spec => NoAddFromZeroDuringWait
<1>1. RespInv /\ [Next]_vars => [serve # "accept" /\ wg' > wg => wg > 0]_vars
  <2> SUFFICES ASSUME RespInv, Next, serve # "accept", wg' > wg PROVE wg > 0
    BY DEF vars
  <2>0. wg \in Nat
    BY DEF RespInv, TypeOK
  <2>1. ASSUME NEW c \in Conns, NEW s \in Streams, YamuxAccept(c, s) PROVE wg > 0
    <3>1. c \in LiveConns
      BY <2>1 DEF YamuxAccept, LiveConns, ConnLive, HandlerStates
    <3>2. /\ IsFiniteSet(LiveConns) /\ Cardinality(LiveConns) \in Nat /\ Cardinality(LiveSubs) \in Nat
      BY ResponderAssumption, FS_Subset, FS_CardinalityType DEF LiveConns, LiveSubs, Streams
    <3>3. Cardinality(LiveConns) # 0
      BY <3>1, <3>2, FS_EmptySet
    <3> QED  BY <3>2, <3>3 DEF RespInv, WgCounts
  <2>2. ASSUME NEW c \in Conns, Dial(c) \/ Accept(c) PROVE wg > 0
    BY <2>0, <2>2 DEF Dial, Accept
  <2>3. ASSUME NEW c \in Conns, NEW st, HandlerMoves(c, st) PROVE wg > 0
    BY <2>0, <2>3 DEF HandlerMoves, ConnWg
  <2>4. ASSUME NEW c \in Conns, ConnStep(c) \/ YamuxEnds(c) PROVE wg > 0
    BY <2>3, <2>4 DEF ConnStep, YamuxEnds, HandlerStart, HandshakeEnds, IdentityFails, IdentitySucceeds
  <2>5. ASSUME NEW s \in Streams, SubStep(s) \/ SubstreamExit(s) PROVE wg > 0
    BY <2>0, <2>5 DEF SubStep, SubstreamListNow, SubstreamListLocked, SubstreamExit, SubstreamWg, respVars
  <2>6. CASE \/ Tick /\ UNCHANGED respVars
             \/ \E err \in {"closed"} \cup AcceptErrors : AcceptError(err)
             \/ ServeReturn \/ SignalStep
    BY <2>0, <2>6 DEF AcceptError, ServeReturn, SignalStep, respVars
  <2> QED  BY <2>1, <2>2, <2>4, <2>5, <2>6 DEF Next, SubstreamFails, SubstreamServes
<1> QED  BY <1>1, ResponderInvariant, PTL DEF Spec, NoAddFromZeroDuringWait

-----------------------------------------------------------------------------
\* An answer has at most maxServedPeers peers, all of them in the window when
\* the substream's list was taken, and lacks nobody recorded before that and
\* still recent but for the cap's or the request's sake, for any peers,
\* substreams, window, cap and request sizes.
THEOREM AnswersFitWindow == Spec => AnswerFitsWindow
<1> DEFINE Answer(s, n) ==
      /\ Cardinality(served'[s]) <= MaxServed
      /\ \A k \in served'[s] : seen[k] # Never /\ seen[k] >= call[s].now - Window
      /\ \A k \in PeerKeys \ served'[s] :
            Recent(k) /\ seen[k] < call[s].now =>
               Cardinality(served'[s]) > 0 /\ Cardinality(served'[s]) \in {MaxServed, n}
<1>1. ASSUME ListedWereFresh, ListHolds, served \in [Streams -> SUBSET PeerKeys],
             NEW s \in Streams, NEW n \in RequestSizes, SubstreamServes(s, n)
      PROVE  Answer(s, n)
  <2> DEFINE out == call[s].out
             size == IF n = 0 \/ Cardinality(out) < n THEN Cardinality(out) ELSE n
  <2>1. PICK p \in SUBSET out : Cardinality(p) = size /\ served' = [served EXCEPT ![s] = p]
    BY <1>1 DEF SubstreamServes
  <2>2. served'[s] = p
    BY <1>1, <2>1
  <2>3. s \in Callers /\ call[s].st = "listed"
    BY <1>1 DEF SubstreamServes, SubstreamExit, ListDone, Streams
  <2>4. /\ IsFiniteSet(out) /\ Cardinality(out) <= MaxServed
        /\ \A k \in PeerKeys \ out : Recent(k) /\ seen[k] < call[s].now => Cardinality(out) = MaxServed
        /\ \A k \in out : seen[k] # Never /\ seen[k] >= call[s].now - Window
    BY <1>1, <2>3 DEF ListHolds, ListedWereFresh
  <2>5. /\ Cardinality(out) \in Nat /\ n \in Nat /\ MaxServed \in Nat \ {0}
        /\ p \subseteq out
    BY <2>4, FS_CardinalityType, PeerStoreAssumption, ResponderAssumption
  <2>6. IsFiniteSet(p) /\ Cardinality(p) \in Nat /\ (Cardinality(p) = Cardinality(out) => p = out)
    BY <2>4, <2>5, FS_Subset, FS_CardinalityType
  <2> HIDE DEF out
  <2>7. Cardinality(p) <= MaxServed
    BY <2>1, <2>4, <2>5
  <2>8. ASSUME NEW k \in PeerKeys \ p, Recent(k), seen[k] < call[s].now
        PROVE  Cardinality(p) > 0 /\ Cardinality(p) \in {MaxServed, n}
    <3>1. CASE k \in out
      BY <2>1, <2>5, <2>6, <2>8, <3>1
    <3>2. CASE k \notin out
      <4>1. Cardinality(out) = MaxServed
        BY <2>4, <2>8, <3>2
      <4> QED  BY <2>1, <2>5, <2>6, <4>1
    <3> QED  BY <3>1, <3>2
  <2> QED  BY <2>2, <2>4, <2>5, <2>7, <2>8
<1> HIDE DEF Answer
<1>2. /\ ListedWereFresh /\ ListHolds /\ served \in [Streams -> SUBSET PeerKeys]
      => [\A s \in Streams, n \in RequestSizes : SubstreamServes(s, n) => Answer(s, n)]_vars
  BY <1>1
<1>3. Spec => [](served \in [Streams -> SUBSET PeerKeys])
  <2>1. TypeOK => served \in [Streams -> SUBSET PeerKeys]
    BY DEF TypeOK
  <2> QED  BY <2>1, ResponderTypeCorrect, PTL
<1>4. Spec => []ListedWereFresh /\ []ListHolds
  BY StorePart, ListedFresh, ListKeepsHolding
<1>5. Spec => [][\A s \in Streams, n \in RequestSizes : SubstreamServes(s, n) => Answer(s, n)]_vars
  BY <1>2, <1>3, <1>4, PTL
<1> QED  BY <1>5 DEF AnswerFitsWindow, Answer
=============================================================================
