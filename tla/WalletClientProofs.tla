------------------------- MODULE WalletClientProofs -------------------------
(***************************************************************************)
(* For any recipients, any number of calls and every error the client's    *)
(* gRPC stack may give, a caller that follows the documentation of         *)
(* SendTransactions pays a recipient once, and once more for each lookup   *)
(* that came before a late request and each answer above the receive       *)
(* limit.  A walletGRPC Client that is closed and replaced at any time,    *)
(* also in the middle of a payout or of a stream, keeps what Payout and    *)
(* WalletEvents promise.                                                   *)
(***************************************************************************)
EXTENDS WalletClient, WalletEventsProofs, FiniteSetTheorems

-----------------------------------------------------------------------------
(* Payouts.                                                                *)

\* Requests under way have numbers of their own.
NetInv ==
    /\ IsFiniteSet(net)
    /\ \A r \in net : /\ r.id \in 1..calls
                      /\ r.id = call.id => r.who = call.who
                      /\ \A s \in net : r # s => r.id # s.id

\* An answer names only recipients of the running call who have been paid, and
\* the call's request is no longer under way.
ReplyInv ==
    reply # <<>> =>
       /\ call # NoCall
       /\ reply[1].code \in {"OK", "InvalidArgument"}
       /\ reply[1].code = "InvalidArgument" => reply[1].ok = {}
       /\ reply[1].ok \subseteq call.who
       /\ \A p \in reply[1].ok : broadcast[p] > 0
       /\ \A r \in net : r.id # call.id

CallInv ==
    /\ calls \in Nat /\ call.id \in 0..calls
    /\ call.id = 0 => call = NoCall

\* The requests under way that name p.
Naming(p) == {r \in net : p \in r.who}

\* p may be sent to again: the caller will, or the running call's answer says
\* that p was not paid.
Free(p) == p \in todo \/ (p \in call.who /\ reply # <<>> /\ p \notin reply[1].ok)

Spare(p) == IF Free(p) THEN 1 ELSE 0

\* Payments made, payments under way and the one the caller is free to make
\* are together one, and one more for each mishap.
OwedInv ==
    \A p \in Recipients :
       broadcast[p] + Cardinality(Naming(p)) + Spare(p) <= 1 + early[p] + oversize[p]

PayoutInv == PayoutTypeOK /\ CallInv /\ NetInv /\ ReplyInv /\ OwedInv /\ PaidIsPaid

-----------------------------------------------------------------------------
LEMMA NamingCounts ==
    ASSUME IsFiniteSet(net), NEW p
    PROVE  IsFiniteSet(Naming(p)) /\ Cardinality(Naming(p)) \in Nat
  <1>1. Naming(p) \subseteq net
    BY DEF Naming
  <1>2. IsFiniteSet(Naming(p))
    BY <1>1, FS_Subset
  <1> QED  BY <1>2, FS_CardinalityType

LEMMA SpareIsOne == \A p : Spare(p) \in {0, 1} /\ (Spare(p) = 1 <=> Free(p))
  BY DEF Spare

\* The numbers that OwedInv adds up are natural numbers.
LEMMA OwedTypes ==
    ASSUME PayoutInv, NEW p \in Recipients
    PROVE  /\ broadcast[p] \in Nat /\ early[p] \in Nat /\ oversize[p] \in Nat
           /\ Cardinality(Naming(p)) \in Nat /\ Spare(p) \in {0, 1}
           /\ broadcast[p] + Cardinality(Naming(p)) + Spare(p) <= 1 + early[p] + oversize[p]
  <1>1. broadcast[p] \in Nat /\ early[p] \in Nat /\ oversize[p] \in Nat
    BY DEF PayoutInv, PayoutTypeOK
  <1>2. Cardinality(Naming(p)) \in Nat
    BY NamingCounts DEF PayoutInv, NetInv
  <1> QED  BY <1>1, <1>2, SpareIsOne DEF PayoutInv, OwedInv

\* A request that is no longer under way is one payment less to expect of
\* those it names.
LEMMA NamingRemoved ==
    ASSUME IsFiniteSet(net), NEW r \in net, net' = net \ {r}, NEW p
    PROVE  /\ Cardinality(Naming(p)) \in Nat
           /\ Cardinality(Naming(p))' = IF p \in r.who THEN Cardinality(Naming(p)) - 1
                                                       ELSE Cardinality(Naming(p))
  <1>1. IsFiniteSet(Naming(p)) /\ Cardinality(Naming(p)) \in Nat
    BY NamingCounts
  <1>2. CASE p \in r.who
    <2>1. Naming(p)' = Naming(p) \ {r} /\ r \in Naming(p)
      BY <1>2 DEF Naming
    <2>2. Cardinality(Naming(p) \ {r}) = Cardinality(Naming(p)) - 1
      BY <1>1, <2>1, FS_RemoveElement
    <2> QED  BY <1>1, <1>2, <2>1, <2>2
  <1>3. CASE p \notin r.who
    <2>1. Naming(p)' = Naming(p)
      BY <1>3 DEF Naming
    <2> QED  BY <1>1, <1>3, <2>1
  <1> QED  BY <1>2, <1>3

-----------------------------------------------------------------------------
LEMMA PayoutStarts == PayoutInit => PayoutInv
  <1> SUFFICES ASSUME PayoutInit PROVE PayoutInv
    OBVIOUS
  <1>1. PayoutTypeOK
    BY DEF PayoutInit, PayoutTypeOK, Requests, NoCall
  <1>2. IsFiniteSet({}) /\ Cardinality({}) = 0
    BY FS_EmptySet
  <1>3. CallInv /\ NetInv /\ ReplyInv /\ PaidIsPaid
    BY <1>2 DEF PayoutInit, CallInv, NetInv, ReplyInv, NoCall, PaidIsPaid
  <1>4. ASSUME NEW p \in Recipients
        PROVE  broadcast[p] + Cardinality(Naming(p)) + Spare(p) <= 1 + early[p] + oversize[p]
    <2>1. Naming(p) = {}
      BY DEF PayoutInit, Naming
    <2>2. broadcast[p] = 0 /\ early[p] = 0 /\ oversize[p] = 0
      BY DEF PayoutInit
    <2> QED  BY <1>2, <2>1, <2>2, SpareIsOne
  <1> QED  BY <1>1, <1>3, <1>4 DEF PayoutInv, OwedInv

\* A new request uses up the payment the caller was free to make.
LEMMA SendKeepsInv == PayoutInv /\ SendTransactions => PayoutInv'
  <1> SUFFICES ASSUME PayoutInv, SendTransactions PROVE PayoutInv'
    OBVIOUS
  <1> DEFINE new == [id |-> calls + 1, who |-> todo]
  <1>1. /\ call = NoCall /\ calls' = calls + 1 /\ call' = new /\ net' = net \cup {new}
        /\ todo' = {} /\ UNCHANGED <<singleTx, unsure, paid, reply, broadcast, early, oversize>>
    BY DEF SendTransactions, mishaps
  <1>2. new \in Requests /\ new.id = calls + 1 /\ new.who = todo
    BY DEF PayoutInv, PayoutTypeOK, CallInv, Requests
  <1> HIDE DEF new
  <1>3. PayoutTypeOK'
    BY <1>1, <1>2 DEF PayoutInv, PayoutTypeOK, NoCall
  <1>4. reply = <<>> /\ IsFiniteSet(net)
    BY <1>1 DEF PayoutInv, ReplyInv, NetInv
  <1>5. CallInv'
    BY <1>1, <1>2 DEF PayoutInv, CallInv
  <1>6. \A r \in net : r.id \in 1..calls /\ r.id # new.id
    BY <1>2 DEF PayoutInv, NetInv, CallInv
  <1>7. NetInv'
    <2>1. IsFiniteSet(net')
      BY <1>1, <1>4, FS_AddElement
    <2>2. ASSUME NEW r \in net'
          PROVE  /\ r.id \in 1..calls'
                 /\ r.id = call'.id => r.who = call'.who
                 /\ \A s \in net' : r # s => r.id # s.id
      <3>1. CASE r = new
        BY <1>1, <1>2, <1>6, <3>1 DEF PayoutInv, CallInv
      <3>2. CASE r \in net
        BY <1>1, <1>2, <1>6, <3>2 DEF PayoutInv, NetInv, CallInv
      <3> QED  BY <1>1, <2>2, <3>1, <3>2
    <2> QED  BY <2>1, <2>2 DEF NetInv
  <1>8. ReplyInv' /\ PaidIsPaid'
    BY <1>1, <1>4 DEF PayoutInv, ReplyInv, PaidIsPaid
  <1>9. ASSUME NEW p \in Recipients
        PROVE  (broadcast[p] + Cardinality(Naming(p)) + Spare(p) <= 1 + early[p] + oversize[p])'
    <2>1. /\ IsFiniteSet(Naming(p)) /\ Cardinality(Naming(p)) \in Nat /\ new \notin Naming(p)
      BY <1>4, <1>6, NamingCounts DEF Naming
    <2>2. ~Free(p)'
      BY <1>1, <1>4 DEF Free
    <2>3. Spare(p)' = 0
      BY <2>2 DEF Spare
    <2>4. CASE p \in todo
      <3>1. Naming(p)' = Naming(p) \cup {new}
        BY <1>1, <1>2, <2>4 DEF Naming
      <3>2. Cardinality(Naming(p) \cup {new}) = Cardinality(Naming(p)) + 1
        BY <2>1, FS_AddElement
      <3>3. Spare(p) = 1
        BY <2>4 DEF Spare, Free
      <3> QED  BY <1>1, <2>3, <3>1, <3>2, <3>3, OwedTypes
    <2>5. CASE p \notin todo
      <3>1. Naming(p)' = Naming(p)
        BY <1>1, <1>2, <2>5 DEF Naming
      <3> QED  BY <1>1, <2>3, <3>1, OwedTypes
    <2> QED  BY <2>4, <2>5
  <1> QED  BY <1>3, <1>5, <1>7, <1>8, <1>9 DEF PayoutInv, OwedInv

\* The wallet turns a payment under way into one made, or into one that the
\* caller will find it is free to make.
LEMMA WalletKeepsInv ==
    ASSUME PayoutInv, NEW r \in net, WalletExecutes(r) PROVE PayoutInv'
  <1>1. PICK out \in Outcomes(r.who) :
          /\ broadcast' = [p \in Recipients |-> IF p \in out.ok THEN broadcast[p] + 1
                                                                 ELSE broadcast[p]]
          /\ reply' = IF call.id = r.id THEN <<out>> ELSE reply
    BY DEF WalletExecutes
  <1>2. /\ net' = net \ {r}
        /\ UNCHANGED <<singleTx, todo, unsure, paid, call, calls, early, oversize>>
    BY DEF WalletExecutes, mishaps
  <1>3. /\ out.ok \subseteq r.who /\ out.code \in {"OK", "InvalidArgument"}
        /\ out.code = "InvalidArgument" => out.ok = {}
    BY DEF Outcomes
  <1>4. r.who \subseteq Recipients /\ broadcast \in [Recipients -> Nat] /\ IsFiniteSet(net)
    BY DEF PayoutInv, PayoutTypeOK, Requests, NetInv
  <1>5. /\ broadcast' \in [Recipients -> Nat]
        /\ \A p \in Recipients : /\ broadcast'[p] = broadcast[p] + (IF p \in out.ok THEN 1 ELSE 0)
                                 /\ broadcast'[p] >= broadcast[p]
    BY <1>1, <1>4
  <1>6. PayoutTypeOK' /\ CallInv'
    BY <1>2, <1>5 DEF PayoutInv, PayoutTypeOK, CallInv
  <1>7. PaidIsPaid'
    BY <1>2, <1>4, <1>5 DEF PayoutInv, PayoutTypeOK, PaidIsPaid
  <1>8. NetInv'
    <2>1. IsFiniteSet(net \ {r})
      BY <1>4, FS_RemoveElement
    <2> QED  BY <1>2, <2>1 DEF PayoutInv, NetInv
  <1>9. CASE call.id = r.id
    <2>1. reply' = <<out>> /\ reply'[1] = out /\ reply' # <<>> /\ call.who = r.who
      BY <1>1, <1>9 DEF PayoutInv, NetInv
    <2>2. reply = <<>>
      BY <1>9 DEF PayoutInv, ReplyInv
    <2>3. call # NoCall
      BY <1>9 DEF PayoutInv, NetInv, CallInv, NoCall
    <2>4. \A q \in net' : q.id # call.id
      BY <1>2, <1>9 DEF PayoutInv, NetInv
    <2>5. \A p \in out.ok : broadcast'[p] > 0
      BY <1>3, <1>4, <1>5
    <2>6. ReplyInv'
      BY <1>2, <1>3, <2>1, <2>3, <2>4, <2>5 DEF ReplyInv
    <2>7. ASSUME NEW p \in Recipients
          PROVE  (broadcast[p] + Cardinality(Naming(p)) + Spare(p) <= 1 + early[p] + oversize[p])'
      <3>1. CASE p \in r.who
        <4>1. p \notin todo /\ ~Free(p)
          BY <2>1, <2>2, <3>1 DEF PayoutInv, PayoutTypeOK, Free
        <4>2. Free(p)' <=> p \notin out.ok
          BY <1>2, <2>1, <3>1, <4>1 DEF Free
        <4>3. Spare(p) = 0 /\ Spare(p)' = (IF p \in out.ok THEN 0 ELSE 1)
          BY <4>1, <4>2 DEF Spare
        <4> QED  BY <1>2, <1>4, <1>5, <3>1, <4>3, OwedTypes, NamingRemoved
      <3>2. CASE p \notin r.who
        <4>1. (Free(p)' <=> Free(p)) /\ p \notin out.ok
          BY <1>2, <1>3, <2>1, <2>2, <3>2 DEF Free
        <4>2. Spare(p)' = Spare(p)
          BY <4>1 DEF Spare
        <4> QED  BY <1>2, <1>4, <1>5, <3>2, <4>1, <4>2, OwedTypes, NamingRemoved
      <3> QED  BY <3>1, <3>2
    <2> QED  BY <1>6, <1>7, <1>8, <2>6, <2>7 DEF PayoutInv, OwedInv
  <1>10. CASE call.id # r.id
    <2>1. reply' = reply
      BY <1>1, <1>10
    <2>2. ReplyInv'
      BY <1>2, <1>4, <1>5, <2>1 DEF PayoutInv, PayoutTypeOK, Requests, ReplyInv
    <2>3. ASSUME NEW p \in Recipients
          PROVE  (broadcast[p] + Cardinality(Naming(p)) + Spare(p) <= 1 + early[p] + oversize[p])'
      <3>1. Spare(p)' = Spare(p)
        BY <1>2, <2>1 DEF Spare, Free
      <3> QED  BY <1>2, <1>3, <1>4, <1>5, <3>1, OwedTypes, NamingRemoved
    <2> QED  BY <1>6, <1>7, <1>8, <2>2, <2>3 DEF PayoutInv, OwedInv
  <1> QED  BY <1>9, <1>10

LEMMA LossKeepsInv ==
    ASSUME PayoutInv, NEW r \in net, RequestLost(r) PROVE PayoutInv'
  <1>1. /\ net' = net \ {r}
        /\ UNCHANGED <<singleTx, todo, unsure, paid, call, calls, reply, broadcast, early, oversize>>
    BY DEF RequestLost, mishaps
  <1>2. IsFiniteSet(net) /\ IsFiniteSet(net \ {r})
    BY FS_RemoveElement DEF PayoutInv, NetInv
  <1>3. (PayoutTypeOK /\ CallInv /\ NetInv /\ ReplyInv /\ PaidIsPaid)'
    BY <1>1, <1>2 DEF PayoutInv, PayoutTypeOK, CallInv, NetInv, ReplyInv, PaidIsPaid
  <1>4. ASSUME NEW p \in Recipients
        PROVE  (broadcast[p] + Cardinality(Naming(p)) + Spare(p) <= 1 + early[p] + oversize[p])'
    <2>1. Spare(p)' = Spare(p)
      BY <1>1 DEF Spare, Free
    <2> QED  BY <1>1, <1>2, <2>1, OwedTypes, NamingRemoved
  <1> QED  BY <1>3, <1>4 DEF PayoutInv, OwedInv

\* A call that fails: its recipients become unsure; or nobody of them was paid;
\* or its answer was too large, which is counted for each whom it names.
LEMMA FailureKeepsInv ==
    ASSUME PayoutInv, NEW code, TransferFails(code),
           ~classifyTransferErr(code) =>
              /\ reply # <<>>
              /\ code = "ResourceExhausted" \/ reply[1].code = "InvalidArgument"
    PROVE  PayoutInv'
  <1>1. /\ call # NoCall /\ call' = NoCall /\ reply' = <<>>
        /\ oversize' = [p \in Recipients |->
                          IF code = "ResourceExhausted" /\ p \in reply[1].ok
                          THEN oversize[p] + 1 ELSE oversize[p]]
        /\ UNCHANGED <<singleTx, paid, calls, net, broadcast, early>>
    BY DEF TransferFails
  <1>2. call'.id = 0 /\ call'.who = {} /\ call' \in Requests
    BY <1>1 DEF NoCall, Requests
  <1>3. CallInv' /\ ReplyInv' /\ PaidIsPaid'
    BY <1>1, <1>2 DEF PayoutInv, CallInv, ReplyInv, PaidIsPaid
  <1>4. NetInv'
    BY <1>1, <1>2 DEF PayoutInv, NetInv
  <1>5. /\ oversize' \in [Recipients -> Nat]
        /\ \A p \in Recipients : oversize'[p] >= oversize[p]
    BY <1>1 DEF PayoutInv, PayoutTypeOK
  <1>6. \A p : Naming(p)' = Naming(p)
    BY <1>1 DEF Naming
  <1>7. \/ classifyTransferErr(code) /\ unsure' = unsure \cup call.who /\ UNCHANGED todo
        \/ ~classifyTransferErr(code) /\ todo' = todo \cup call.who /\ UNCHANGED unsure
    BY DEF TransferFails
  <1>8. PayoutTypeOK'
    BY <1>1, <1>2, <1>5, <1>7 DEF PayoutInv, PayoutTypeOK, Requests
  <1>9. ASSUME NEW p \in Recipients
        PROVE  (broadcast[p] + Cardinality(Naming(p)) + Spare(p) <= 1 + early[p] + oversize[p])'
    <2>1. Free(p)' <=> p \in todo'
      BY <1>1, <1>2 DEF Free
    <2>2. oversize'[p] \in Nat /\ oversize'[p] >= oversize[p]
      BY <1>5
    <2>3. CASE ~Free(p)' \/ Free(p)
      <3>1. Spare(p)' <= Spare(p) /\ Spare(p)' \in {0, 1}
        BY <2>3 DEF Spare
      <3>2. broadcast'[p] = broadcast[p] /\ early'[p] = early[p]
        BY <1>1
      <3>3. Cardinality(Naming(p))' = Cardinality(Naming(p))
        BY <1>6
      <3> QED  BY <2>2, <3>1, <3>2, <3>3, OwedTypes
    <2>4. CASE Free(p)' /\ ~Free(p)
      <3>1. ~classifyTransferErr(code) /\ p \in call.who /\ p \notin todo
        BY <1>7, <2>1, <2>4 DEF Free
      <3>2. reply # <<>> /\ p \in reply[1].ok
        BY <2>4, <3>1 DEF Free
      <3>3. code = "ResourceExhausted"
        BY <3>1, <3>2 DEF PayoutInv, ReplyInv
      <3>4. oversize'[p] = oversize[p] + 1
        BY <1>1, <3>2, <3>3
      <3>5. Spare(p)' = 1 /\ Spare(p) = 0
        BY <2>4 DEF Spare
      <3> QED  BY <1>1, <1>6, <3>4, <3>5, OwedTypes
    <2> QED  BY <2>3, <2>4
  <1> QED  BY <1>3, <1>4, <1>8, <1>9 DEF PayoutInv, OwedInv

\* A call that is answered: its recipients are split by what the wallet did.
LEMMA ReturnKeepsInv == PayoutInv /\ TransferReturns => PayoutInv'
  <1> SUFFICES ASSUME PayoutInv, TransferReturns PROVE PayoutInv'
    OBVIOUS
  <1>1. /\ call' = NoCall /\ reply' = <<>> /\ reply # <<>>
        /\ paid' = paid \cup (call.who \cap reply[1].ok)
        /\ todo' = todo \cup (call.who \ reply[1].ok)
        /\ UNCHANGED <<singleTx, unsure, calls, net, broadcast, early, oversize>>
    BY DEF TransferReturns, SplitTransferResults, mishaps
  <1>2. call'.id = 0 /\ call'.who = {} /\ call' \in Requests
    BY <1>1 DEF NoCall, Requests
  <1>3. PayoutTypeOK'
    BY <1>1, <1>2 DEF PayoutInv, PayoutTypeOK, Requests
  <1>4. CallInv' /\ ReplyInv'
    BY <1>1, <1>2 DEF PayoutInv, CallInv, ReplyInv
  <1>5. NetInv'
    BY <1>1, <1>2 DEF PayoutInv, NetInv
  <1>6. PaidIsPaid'
    BY <1>1 DEF PayoutInv, ReplyInv, PaidIsPaid
  <1>7. ASSUME NEW p \in Recipients
        PROVE  (broadcast[p] + Cardinality(Naming(p)) + Spare(p) <= 1 + early[p] + oversize[p])'
    <2>1. Free(p)' <=> Free(p)
      BY <1>1, <1>2 DEF Free
    <2>2. Spare(p)' = Spare(p) /\ Naming(p)' = Naming(p)
      BY <1>1, <2>1 DEF Spare, Naming
    <2> QED  BY <1>1, <2>2, OwedTypes
  <1> QED  BY <1>3, <1>4, <1>5, <1>6, <1>7 DEF PayoutInv, OwedInv

\* A lookup that succeeds is the recipient's whole history.
LEMMA LookupIsWhole ==
    ASSUME NEW p, broadcast[p] \in Nat,
           NEW res \in GetCompletedTransactionsByPaymentID(p), res.err = "nil"
    PROVE  res.txns = <<>> <=> broadcast[p] = 0
  <1> DEFINE history == [i \in 1..broadcast[p] |-> p]
  <1>1. res = [err |-> "nil", txns |-> history] \/ res = [err |-> "error", txns |-> <<>>]
    BY DEF GetCompletedTransactionsByPaymentID, Drain
  <1>2. res.txns = history
    BY <1>1
  <1>3. history \in Seq({p}) /\ Len(history) = broadcast[p]
    OBVIOUS
  <1> HIDE DEF history
  <1>4. history = <<>> <=> Len(history) = 0
    BY <1>3
  <1> QED  BY <1>2, <1>3, <1>4

\* A lookup that finds nothing frees a payment: none has been made, and none is
\* under way, or the lookup is counted as early.
LEMMA ReconcileKeepsInv ==
    ASSUME PayoutInv, NEW p \in Recipients, Reconcile(p) PROVE PayoutInv'
  <1>1. /\ p \in unsure /\ unsure' = unsure \ {p}
        /\ UNCHANGED <<singleTx, call, calls, net, reply, broadcast, oversize>>
    BY DEF Reconcile
  <1>2. broadcast[p] \in Nat
    BY DEF PayoutInv, PayoutTypeOK
  <1>3. \/ broadcast[p] # 0 /\ paid' = paid \cup {p} /\ UNCHANGED <<todo, early>>
        \/ /\ broadcast[p] = 0 /\ todo' = todo \cup {p} /\ UNCHANGED paid
           /\ early' = IF UnderWay(p) THEN [early EXCEPT ![p] = @ + 1] ELSE early
    BY <1>2, LookupIsWhole DEF Reconcile
  <1>4. /\ early' \in [Recipients -> Nat]
        /\ \A q \in Recipients : q # p => early'[q] = early[q]
        /\ todo' # todo /\ UnderWay(p) => early'[p] = early[p] + 1
        /\ early'[p] >= early[p]
    BY <1>3 DEF PayoutInv, PayoutTypeOK
  <1>5. PayoutTypeOK'
    BY <1>1, <1>3, <1>4 DEF PayoutInv, PayoutTypeOK
  <1>6. CallInv' /\ ReplyInv' /\ NetInv'
    BY <1>1 DEF PayoutInv, CallInv, ReplyInv, NetInv
  <1>7. PaidIsPaid'
    BY <1>1, <1>2, <1>3 DEF PayoutInv, PaidIsPaid
  <1>8. ASSUME NEW q \in Recipients
        PROVE  (broadcast[q] + Cardinality(Naming(q)) + Spare(q) <= 1 + early[q] + oversize[q])'
    <2>1. Naming(q)' = Naming(q)
      BY <1>1 DEF Naming
    <2>2. early'[q] \in Nat /\ early'[q] >= early[q]
      BY <1>4 DEF PayoutInv, PayoutTypeOK
    <2>3. CASE ~Free(q)' \/ Free(q)
      <3>1. Spare(q)' <= Spare(q) /\ Spare(q)' \in {0, 1}
        BY <2>3 DEF Spare
      <3> QED  BY <1>1, <2>1, <2>2, <3>1, OwedTypes
    <2>4. CASE Free(q)' /\ ~Free(q)
      <3>1. /\ q = p /\ todo' # todo /\ broadcast[p] = 0
            /\ early'[p] = IF UnderWay(p) THEN early[p] + 1 ELSE early[p]
        BY <1>1, <1>3, <1>4, <2>4 DEF Free
      <3>2. Spare(q)' = 1 /\ Spare(q) = 0
        BY <2>4 DEF Spare
      <3>3. CASE UnderWay(p)
        BY <1>1, <2>1, <3>1, <3>2, <3>3, OwedTypes
      <3>4. CASE ~UnderWay(p)
        <4>1. Naming(p) = {}
          BY <3>4 DEF UnderWay, Naming
        <4>2. Cardinality(Naming(p)) = 0
          BY <4>1, FS_EmptySet
        <4> QED  BY <1>1, <2>1, <3>1, <3>2, <4>2, <2>2, OwedTypes
      <3> QED  BY <3>3, <3>4
    <2> QED  BY <2>3, <2>4
  <1> QED  BY <1>5, <1>6, <1>7, <1>8 DEF PayoutInv, OwedInv

-----------------------------------------------------------------------------
\* PayoutInv is inductive.
LEMMA PayoutStep == ASSUME PayoutInv, [PayoutNext]_payVars PROVE PayoutInv'
  <1>1. CASE SendTransactions
    BY <1>1, SendKeepsInv
  <1>2. ASSUME NEW r \in net, WalletExecutes(r) \/ RequestLost(r) PROVE PayoutInv'
    BY <1>2, WalletKeepsInv, LossKeepsInv
  <1>3. ASSUME NEW code \in TransportErrors, TransferFails(code) PROVE PayoutInv'
    <2>1. ~classifyTransferErr(code) => reply # <<>> /\ code = "ResourceExhausted"
      BY DEF TransportErrors, ClientErrors, classifyTransferErr
    <2> QED  BY <1>3, <2>1, FailureKeepsInv
  <1>4. CASE reply # <<>> /\ reply[1].code # "OK" /\ TransferFails(reply[1].code)
    <2>1. reply[1].code = "InvalidArgument"
      BY <1>4 DEF PayoutInv, ReplyInv
    <2> QED  BY <1>4, <2>1, FailureKeepsInv
  <1>5. CASE TransferReturns
    BY <1>5, ReturnKeepsInv
  <1>6. ASSUME NEW p \in Recipients, Reconcile(p) PROVE PayoutInv'
    BY <1>6, ReconcileKeepsInv
  <1>7. CASE UNCHANGED payVars
    BY <1>7 DEF payVars, mishaps, PayoutInv, PayoutTypeOK, CallInv, NetInv, ReplyInv,
                OwedInv, Naming, Spare, Free, PaidIsPaid
  <1> QED  BY <1>1, <1>2, <1>3, <1>4, <1>5, <1>6, <1>7 DEF PayoutNext, TransferStep

LEMMA PayoutInvariant == PayoutSpec => []PayoutInv
  <1>1. ASSUME PayoutInv, [PayoutNext]_payVars PROVE PayoutInv'
    BY <1>1, PayoutStep
  <1> QED  BY <1>1, PayoutStarts, PTL DEF PayoutSpec

LEMMA InvAccounts == PayoutInv => PaymentsAccounted
  <1> SUFFICES ASSUME PayoutInv, NEW p \in Recipients
               PROVE  broadcast[p] <= 1 + early[p] + oversize[p]
    BY DEF PaymentsAccounted
  <1> QED  BY OwedTypes

\* No recipient is lost or in two places, whatever happens to the calls.
THEOREM PayoutTypeCorrect == PayoutSpec => []PayoutTypeOK
  <1>1. PayoutInv => PayoutTypeOK
    BY DEF PayoutInv
  <1> QED  BY <1>1, PayoutInvariant, PTL

\* Whatever requests and answers are lost, late or refused, and however soon
\* the caller looks, a recipient is paid once, and once more at most for each
\* lookup before a late request and each answer above the receive limit.
THEOREM PaidOnceButForMishaps == PayoutSpec => []PaymentsAccounted
  BY InvAccounts, PayoutInvariant, PTL

\* Whom the caller takes for paid, from an answer or from a lookup, was paid.
THEOREM PaidWasPaid == PayoutSpec => []PaidIsPaid
  <1>1. PayoutInv => PaidIsPaid
    BY DEF PayoutInv
  <1> QED  BY <1>1, PayoutInvariant, PTL

-----------------------------------------------------------------------------
(* To the event stream a Client is nothing but a connection that may end.  *)

LEMMA ClientStreams == ASSUME [Next]_vars PROVE [EventsNext]_eventVars
<1>1. CASE UNCHANGED vars
  BY <1>1 DEF vars
<1>2. CASE MayStream /\ Events /\ UNCHANGED <<clients, up, payVars>>
  <2>1. Open(up) => Open(TRUE)
    BY DEF Open
  <2> QED BY <1>2, <2>1 DEF Events, EventsNext
<1>3. CASE Payments /\ UNCHANGED <<clients, up, eventVars>>
  BY <1>3
<1>4. CASE SendOnClosed
  BY <1>4 DEF SendOnClosed
<1>5. CASE New
  BY <1>5 DEF New
<1>6. CASE Close
  BY <1>6 DEF Close, EventsNext
<1> QED BY <1>1, <1>2, <1>3, <1>4, <1>5, <1>6 DEF Next

\* The event stream of a Client that may be closed under it implements
\* EventStream.
THEOREM ClientStreamRefined == Spec => ImplementsEventStream
<1>1. Init => EventsInit
  BY DEF Init
<1>2. ASSUME [Next]_vars PROVE [EventsNext]_eventVars
  BY <1>2, ClientStreams
<1>3. Spec => EventsSpec
  BY <1>1, <1>2, PTL DEF Spec, EventsSpec
<1> QED BY <1>3, StreamRefined

-----------------------------------------------------------------------------
(* Payments through Clients that come and go.                              *)

\* A call on a closed Client leaves its recipients unsure, with no request
\* under way.
LEMMA ClosedKeepsInv == ASSUME PayoutInv, SendOnClosed PROVE PayoutInv'
<1>1. /\ call = NoCall /\ calls' = calls + 1
      /\ unsure' = unsure \cup todo /\ todo' = {}
      /\ UNCHANGED <<singleTx, paid, call, net, reply, broadcast, early, oversize>>
  BY DEF SendOnClosed, classifyTransferErr, mishaps
<1>2. PayoutTypeOK'
  BY <1>1 DEF PayoutInv, PayoutTypeOK
<1>3. CallInv'
  BY <1>1 DEF PayoutInv, CallInv
<1>4. NetInv'
  BY <1>1 DEF PayoutInv, NetInv, CallInv
<1>5. ReplyInv' /\ PaidIsPaid'
  BY <1>1 DEF PayoutInv, ReplyInv, PaidIsPaid
<1>6. ASSUME NEW p \in Recipients
      PROVE  (broadcast[p] + Cardinality(Naming(p)) + Spare(p) <= 1 + early[p] + oversize[p])'
  <2>1. Naming(p)' = Naming(p) /\ (Free(p)' => Free(p))
    BY <1>1 DEF Naming, Free
  <2>2. Spare(p)' <= Spare(p) /\ Spare(p)' \in {0, 1}
    BY <2>1 DEF Spare
  <2> QED BY <1>1, <2>1, <2>2, OwedTypes
<1> QED BY <1>2, <1>3, <1>4, <1>5, <1>6 DEF PayoutInv, OwedInv

LEMMA ClientKeepsInv == ASSUME PayoutInv, [Next]_vars PROVE PayoutInv'
<1>1. CASE UNCHANGED payVars
  BY <1>1, PayoutStep
<1>2. CASE Payments
  <2>1. PayoutNext
    BY <1>2 DEF Payments, PayoutNext
  <2> QED BY <2>1, PayoutStep
<1>3. CASE SendOnClosed
  BY <1>3, ClosedKeepsInv
<1>4. CASE Close
  <2>1. CASE TransferFails("Canceled")
    <3>1. classifyTransferErr("Canceled")
      BY DEF classifyTransferErr
    <3> QED BY <2>1, <3>1, FailureKeepsInv
  <2> QED BY <1>1, <1>4, <2>1 DEF Close
<1>5. CASE New
  BY <1>1, <1>5 DEF New
<1> QED BY <1>1, <1>2, <1>3, <1>4, <1>5 DEF Next, vars

LEMMA ClientInvariant == Spec => []PayoutInv
<1>1. Init => PayoutInv
  BY PayoutStarts DEF Init
<1>2. ASSUME PayoutInv, [Next]_vars PROVE PayoutInv'
  BY <1>2, ClientKeepsInv
<1> QED BY <1>1, <1>2, PTL DEF Spec

\* Closing a Client in the middle of SendTransactions, or sending through a
\* closed one, costs no payment of its own.
THEOREM ClientPaysOnce == Spec => []PaymentsAccounted
  BY InvAccounts, ClientInvariant, PTL

\* Nor does it make the caller take anybody for paid who was not.
THEOREM ClientPaidIsPaid == Spec => []PaidIsPaid
<1>1. PayoutInv => PaidIsPaid
  BY DEF PayoutInv
<1> QED BY <1>1, ClientInvariant, PTL
=============================================================================
