---------------------------- MODULE WalletClient ----------------------------
(***************************************************************************)
(* A program that pays recipients (Payout) and follows the transaction     *)
(* events (WalletEvents) through one walletGRPC Client, which it may Close *)
(* at any time, also in the middle of a payout, and replace by a New one.  *)
(* The two uses share nothing but the Client's connection: Close ends the  *)
(* event stream with an error and the running call with codes.Canceled,    *)
(* and a call on a closed Client fails with that code before anything is   *)
(* sent.                                                                   *)
(***************************************************************************)
EXTENDS WalletEvents, Payout

CONSTANTS
    MaxClients,       \* bound: Clients made one after the other
    MaxCallsBeside    \* bound: SendTransactions calls of a program that also follows events

ASSUME WalletClientAssumption == MaxClients \in Nat \ {0} /\ MaxCallsBeside \in Nat

VARIABLES
    clients,   \* Clients made so far
    up         \* the last one has not been closed

vars == <<clients, up, eventVars, payVars>>

\* The bound on calls beside an event stream: a program that has made more
\* opens none, and one that has opened one makes no more.
MaySend == (g = "opening" /\ ~ctxDone) \/ calls < MaxCallsBeside
MayStream == calls <= MaxCallsBeside

\* New wraps a connection of its own.
New ==
    /\ ~up /\ clients < MaxClients
    /\ clients' = clients + 1 /\ up' = TRUE
    /\ UNCHANGED <<eventVars, payVars>>

\* Close closes the connection under everything that uses it.
Close ==
    /\ up /\ up' = FALSE
    /\ IF g # "opening" /\ end = "open" THEN ConnectionEnds ELSE UNCHANGED eventVars
    /\ IF call # NoCall THEN TransferFails("Canceled") ELSE UNCHANGED payVars
    /\ UNCHANGED clients

\* SendTransactions on a closed Client: no request leaves, and the caller
\* treats the error as its classification says.
SendOnClosed ==
    /\ ~up /\ call = NoCall /\ todo # {} /\ calls < MaxCalls /\ MaySend
    /\ calls' = calls + 1
    /\ IF classifyTransferErr("Canceled")
       THEN unsure' = unsure \cup todo /\ todo' = {}
       ELSE UNCHANGED <<unsure, todo>>
    /\ UNCHANGED <<clients, up, eventVars, singleTx, paid, call, net, reply, broadcast,
                   mishaps>>

-----------------------------------------------------------------------------
Init ==
    /\ EventsInit /\ PayoutInit
    /\ clients = 1 /\ up = TRUE

Events == Open(up) \/ Goroutine \/ Caller \/ Cancel \/ WalkAway \/ Emit \/ WalletEnds \/ ConnectionEnds

Payments ==
    \/ up /\ MaySend /\ SendTransactions
    \/ TransferStep
    \/ up /\ \E p \in Recipients : Reconcile(p)

Next ==
    \/ MayStream /\ Events /\ UNCHANGED <<clients, up, payVars>>
    \/ Payments /\ UNCHANGED <<clients, up, eventVars>>
    \/ SendOnClosed
    \/ New \/ Close

\* The goroutine runs, and a caller that asked for events reads them until it
\* walks away.  Nobody has to cancel, to close, to end the stream or to emit.
Fairness ==
    /\ WF_vars(MayStream /\ (Open(up) \/ Goroutine) /\ UNCHANGED <<clients, up, payVars>>)
    /\ WF_vars(Caller /\ UNCHANGED <<clients, up, payVars>>)

Spec == Init /\ [][Next]_vars /\ Fairness
=============================================================================
