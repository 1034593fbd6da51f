------------------------------- MODULE Payout -------------------------------
(***************************************************************************)
(* SendTransactions of a walletGRPC Client and a caller that follows its   *)
(* documentation: failed recipients of an answered call, and all of a call *)
(* whose error does not wrap ErrAmbiguousBroadcast, are sent again; the    *)
(* recipients of an ambiguous call are first looked up with                *)
(* GetCompletedTransactionsByPaymentID (one payment id per recipient).     *)
(*                                                                         *)
(* The wallet and the gRPC transport are the environment: a request may be *)
(* lost, or executed after the client has given up on it, also after the   *)
(* caller's lookup, and the client may lose the answer of a transfer that  *)
(* was broadcast.                                                          *)
(***************************************************************************)
EXTENDS Integers, Sequences

CONSTANTS
    Recipients,    \* whom to pay
    MaxCalls       \* bound: calls of SendTransactions

ASSUME PayoutAssumption == MaxCalls \in Nat

\* The errors the client's own gRPC stack may give a call.  NonStatus is any
\* error without a gRPC status.  ResourceExhausted is what grpc-go reports for
\* an answer above its receive limit (4 MB by default).
ClientErrors ==
    {"DeadlineExceeded", "Unavailable", "Canceled", "NonStatus", "ResourceExhausted"}

VARIABLES
    singleTx,    \* the caller's choice: one transaction for all, or one each
    todo,        \* recipients the caller will send to
    unsure,      \* recipients of calls with an ambiguous error
    paid,        \* recipients the caller takes for paid
    call,        \* the running SendTransactions: id (0: none), its recipients
    calls,       \* SendTransactions calls so far
    net,         \* requests on their way to the wallet
    reply,       \* the wallet's answer to the running call, <<>> before it
    broadcast,   \* recipient -> how often the wallet has paid it
    \* History: what no caller of the library can see.
    early,       \* recipient -> lookups that found nothing, with a request still under way
    oversize     \* recipient -> payments whose answer was above the receive limit

mishaps == <<early, oversize>>

payVars == <<singleTx, todo, unsure, paid, call, calls, net, reply, broadcast, mishaps>>

NoCall == [id |-> 0, who |-> {}]

-----------------------------------------------------------------------------
(* The wallet and the network. *)

\* What the wallet may do with a request: pay some recipients (all or none of
\* them in a single transaction), or reject it.
Outcomes(who) ==
    [code : {"OK"}, ok : IF singleTx THEN {who, {}} ELSE SUBSET who]
        \cup {[code |-> "InvalidArgument", ok |-> {}]}

WalletExecutes(r) ==
    /\ \E out \in Outcomes(r.who) :
          /\ broadcast' = [p \in Recipients |-> IF p \in out.ok THEN broadcast[p] + 1
                                                                 ELSE broadcast[p]]
          /\ reply' = IF call.id = r.id THEN <<out>> ELSE reply
    /\ net' = net \ {r}
    /\ UNCHANGED <<singleTx, todo, unsure, paid, call, calls, mishaps>>

RequestLost(r) ==
    /\ net' = net \ {r}
    /\ UNCHANGED <<singleTx, todo, unsure, paid, call, calls, reply, broadcast, mishaps>>

\* The errors the transport may give the running call.  Only an answer that
\* is there can be too large.
TransportErrors ==
    {e \in ClientErrors : e = "ResourceExhausted" => reply # <<>> /\ reply[1].code = "OK"}

-----------------------------------------------------------------------------
(* walletGRPC. *)

\* Mutant: a call that the client cancelled is taken for one never sent.
classifyTransferErrCanceled(code) ==
    code \in {"DeadlineExceeded", "Unavailable", "NonStatus"}

\* Whether classifyTransferErr wraps the error with ErrAmbiguousBroadcast.
classifyTransferErr(code) ==
    code \in {"DeadlineExceeded", "Unavailable", "Canceled", "NonStatus"}

SendTransactions ==
    /\ call = NoCall /\ todo # {} /\ calls < MaxCalls
    /\ calls' = calls + 1
    /\ call' = [id |-> calls + 1, who |-> todo]
    /\ net' = net \cup {[id |-> calls + 1, who |-> todo]}
    /\ todo' = {}
    /\ UNCHANGED <<singleTx, unsure, paid, reply, broadcast, mishaps>>

\* Transfer fails: the caller sends again, unless the error is ambiguous.
TransferFails(code) ==
    /\ call # NoCall
    /\ IF classifyTransferErr(code)
       THEN unsure' = unsure \cup call.who /\ UNCHANGED todo
       ELSE todo' = todo \cup call.who /\ UNCHANGED unsure
    /\ call' = NoCall /\ reply' = <<>>
    /\ oversize' = [p \in Recipients |->
                      IF code = "ResourceExhausted" /\ p \in reply[1].ok
                      THEN oversize[p] + 1 ELSE oversize[p]]
    /\ UNCHANGED <<singleTx, paid, calls, net, broadcast, early>>

\* Mutant: a nil error means that every recipient was paid.
SplitTransferResultsAll(who, ok) == <<who, {}>>

\* The recipients whose result has IsSuccess, and the others.
SplitTransferResults(who, ok) == <<who \cap ok, who \ ok>>

\* Transfer returns a response.
TransferReturns ==
    /\ call # NoCall /\ reply # <<>> /\ reply[1].code = "OK"
    /\ LET split == SplitTransferResults(call.who, reply[1].ok)
       IN  paid' = paid \cup split[1] /\ todo' = todo \cup split[2]
    /\ call' = NoCall /\ reply' = <<>>
    /\ UNCHANGED <<singleTx, unsure, calls, net, broadcast, mishaps>>

\* The receive loop: everything up to io.EOF, or an error and nothing.
Drain(got, end) ==
    IF end = "eof" THEN [err |-> "nil", txns |-> got] ELSE [err |-> end, txns |-> <<>>]

\* GetCompletedTransactionsByPaymentID for recipient p: its transactions come
\* as a stream, which may break anywhere.
GetCompletedTransactionsByPaymentID(p) ==
    LET history == [i \in 1..broadcast[p] |-> p]
    IN  {Drain(history, "eof")}
          \cup {Drain(SubSeq(history, 1, n), "error") : n \in 0..Len(history)}

\* A request that names p may still reach the wallet.
UnderWay(p) == \E r \in net : p \in r.who

\* The caller looks p up, as soon as it likes: it cannot know whether a request
\* is still under way.
Reconcile(p) ==
    /\ p \in unsure
    /\ \E res \in GetCompletedTransactionsByPaymentID(p) :
          /\ res.err = "nil"
          /\ IF res.txns # <<>>
             THEN paid' = paid \cup {p} /\ UNCHANGED <<todo, early>>
             ELSE /\ todo' = todo \cup {p} /\ UNCHANGED paid
                  /\ early' = IF UnderWay(p) THEN [early EXCEPT ![p] = @ + 1] ELSE early
    /\ unsure' = unsure \ {p}
    /\ UNCHANGED <<singleTx, call, calls, net, reply, broadcast, oversize>>

-----------------------------------------------------------------------------
PayoutInit ==
    /\ singleTx \in BOOLEAN
    /\ todo = Recipients /\ unsure = {} /\ paid = {}
    /\ call = NoCall /\ calls = 0 /\ net = {} /\ reply = <<>>
    /\ broadcast = [p \in Recipients |-> 0]
    /\ early = [p \in Recipients |-> 0] /\ oversize = [p \in Recipients |-> 0]

\* A request is executed or lost, and the running call returns.
TransferStep ==
    \/ \E r \in net : WalletExecutes(r) \/ RequestLost(r)
    \/ \E code \in TransportErrors : TransferFails(code)
    \/ reply # <<>> /\ reply[1].code # "OK" /\ TransferFails(reply[1].code)
    \/ TransferReturns

PayoutNext ==
    \/ SendTransactions
    \/ TransferStep
    \/ \E p \in Recipients : Reconcile(p)

PayoutSpec == PayoutInit /\ [][PayoutNext]_payVars

-----------------------------------------------------------------------------
Requests == [id : Nat, who : SUBSET Recipients]

\* Every variable has its type, and no recipient is lost or in two places: each
\* one is to be sent, being sent, unsure or paid.
PayoutTypeOK ==
    /\ singleTx \in BOOLEAN /\ call \in Requests /\ net \subseteq Requests
    /\ broadcast \in [Recipients -> Nat]
    /\ early \in [Recipients -> Nat] /\ oversize \in [Recipients -> Nat]
    /\ todo \subseteq Recipients /\ unsure \subseteq Recipients /\ paid \subseteq Recipients
    /\ \A p \in Recipients :
          \/ p \in todo     /\ p \notin unsure /\ p \notin paid   /\ p \notin call.who
          \/ p \in unsure   /\ p \notin todo   /\ p \notin paid   /\ p \notin call.who
          \/ p \in paid     /\ p \notin todo   /\ p \notin unsure /\ p \notin call.who
          \/ p \in call.who /\ p \notin todo   /\ p \notin unsure /\ p \notin paid

\* A caller that sends again exactly when the documentation allows it pays
\* nobody twice, whatever requests and answers are lost or late, but for two
\* things it cannot see: a lookup that comes before a late request, and an
\* answer above the receive limit, whose error classifyTransferErr does not
\* take for ambiguous.  Each of them costs at most one payment more.
PaymentsAccounted ==
    \A p \in Recipients : broadcast[p] <= 1 + early[p] + oversize[p]

\* Whom the caller takes for paid has been paid.
PaidIsPaid == \A p \in paid : broadcast[p] > 0

\* "Any other error ... safe to retry ..., since the wallet either rejected the
\* request outright or never received it": whom the caller is free to send to
\* again has not been paid.  (A lookup before a late request is no such error.)
RetryIsSafe == \A p \in todo : early[p] = 0 => broadcast[p] = 0
=============================================================================
