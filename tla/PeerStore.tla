------------------------------ MODULE PeerStore ------------------------------
(***************************************************************************)
(* peerStore of cmd/p2p-responder-spike: the mutex-protected map of peers  *)
(* seen in the last hour.  Record runs in connection goroutines, List in   *)
(* substream goroutines.  Record reads the clock under the lock; List      *)
(* reads it before it takes the lock, so its notion of "now" may be older  *)
(* than entries it finds and than prunings that overtook it.               *)
(***************************************************************************)
EXTENDS Integers, FiniteSets

CONSTANTS
    PeerKeys,       \* static public keys of peers
    Callers,        \* goroutines that call List
    Window,         \* seenPeerWindow
    MaxServed,      \* maxServedPeers
    MaxTime         \* bound: the clock stops here

ASSUME PeerStoreAssumption ==
    /\ Window \in Nat
    /\ MaxServed \in Nat \ {0}
    /\ MaxTime \in Nat
    /\ IsFiniteSet(PeerKeys)

VARIABLES
    clock,   \* time.Now
    peers,   \* s.peers: key -> seenAt, for the keys in the map
    seen,    \* history: key -> time of its last Record, Never before it
    call     \* caller -> its List call

storeVars == <<clock, peers, seen, call>>

Never == -1
NoCall == [st |-> "idle", now |-> 0, out |-> {}]

Tick ==
    /\ clock < MaxTime
    /\ clock' = clock + 1
    /\ UNCHANGED <<peers, seen, call>>

\* Record adds the peer or refreshes its timestamp.
Record(k) ==
    /\ peers' = [j \in DOMAIN peers \cup {k} |-> IF j = k THEN clock ELSE peers[j]]
    /\ seen' = [seen EXCEPT ![k] = clock]

\* now := time.Now(), before the lock.
ListNow(c) ==
    /\ call[c].st = "idle"
    /\ call' = [call EXCEPT ![c] = [st |-> "now", now |-> clock, out |-> {}]]
    /\ UNCHANGED <<clock, peers, seen>>

\* Mutant: an entry exactly one window old is dropped.
ExpiredAtEdge(now, at) == now - at >= Window

\* Mutant: nothing expires.
ExpiredNever(now, at) == FALSE

Expired(now, at) == now - at > Window

\* Mutant: the cap is tested before the append, and one peer is lost.
ServedOneShort(kept) == {s \in SUBSET kept : Cardinality(s) = IF Cardinality(kept) < MaxServed
                                                       THEN Cardinality(kept) ELSE MaxServed - 1}

\* Mutant: the loop does not stop at the cap.
ServedUncapped(kept) == {kept}

\* Map iteration order decides which peers make it under the cap.
Served(kept) == {s \in SUBSET kept : Cardinality(s) = IF Cardinality(kept) < MaxServed
                                                     THEN Cardinality(kept) ELSE MaxServed}

\* The locked part of List: prune, then collect up to maxServedPeers.
ListLocked(c) ==
    LET kept == {k \in DOMAIN peers : ~Expired(call[c].now, peers[k])}
    IN  /\ call[c].st = "now"
        /\ peers' = [k \in kept |-> peers[k]]
        /\ \E out \in Served(kept) :
              call' = [call EXCEPT ![c].st = "listed", ![c].out = out]
        /\ UNCHANGED <<clock, seen>>

\* The caller is done with the slice.
ListDone(c) ==
    /\ call[c].st = "listed"
    /\ call' = [call EXCEPT ![c] = NoCall]
    /\ UNCHANGED <<clock, peers, seen>>

StoreInit ==
    /\ clock = 0
    /\ peers = [k \in {} |-> 0]
    /\ seen = [k \in PeerKeys |-> Never]
    /\ call = [c \in Callers |-> NoCall]

StoreNext ==
    \/ Tick
    \/ \E k \in PeerKeys : Record(k) /\ UNCHANGED <<clock, call>>
    \/ \E c \in Callers : ListNow(c) \/ ListLocked(c) \/ ListDone(c)

StoreSpec == StoreInit /\ [][StoreNext]_storeVars

-----------------------------------------------------------------------------
Calls == [st : {"idle", "now", "listed"}, now : Nat, out : SUBSET PeerKeys]

\* Every variable has its type; every entry of the map has a real timestamp.
StoreTypeOK ==
    /\ clock \in Nat
    /\ DOMAIN peers \subseteq PeerKeys /\ peers \in [DOMAIN peers -> Nat]
    /\ seen \in [PeerKeys -> Nat \cup {Never}]
    /\ call \in [Callers -> Calls]

Recent(k) == seen[k] # Never /\ clock - seen[k] <= Window

\* A peer recorded within the window is in the map with its last timestamp:
\* no List, however late it gets the lock and whatever older "now" it prunes
\* with, forgets it, and no Record is overtaken.
NeverForgetsRecent ==
    \A k \in PeerKeys : Recent(k) => k \in DOMAIN peers /\ peers[k] = seen[k]

\* What a List call returned had been seen at most one window before the call
\* began (or after it): a peer pruned or aged out before is never served.
ListedWereFresh ==
    \A c \in Callers : call[c].st = "listed" =>
        \A k \in call[c].out : seen[k] # Never /\ seen[k] >= call[c].now - Window

\* A List call that ends now returns every recent peer, unless it is full.
ListComplete ==
    [][\A c \in Callers : (call[c].st = "now" /\ call'[c].st = "listed") =>
          \/ \A k \in PeerKeys : Recent(k) => k \in call'[c].out
          \/ Cardinality(call'[c].out) = MaxServed]_storeVars
=============================================================================
