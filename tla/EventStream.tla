----------------------------- MODULE EventStream -----------------------------
(***************************************************************************)
(* What StreamTransactionEvents promises its caller, without channels and  *)
(* goroutine: the events of the stream one by one and in order, then       *)
(* either nil, for a stream that ended and was delivered whole, or an      *)
(* error; and once the caller has cancelled, possibly nil for a stream     *)
(* that was cut short.                                                     *)
(***************************************************************************)
EXTENDS Integers, Sequences

VARIABLES
    sent,        \* events the wallet has sent: 1 .. sent
    end,         \* "open", "eof", "error"
    cancelled,   \* the caller cancelled
    delivered,   \* what the caller has received
    told         \* what it was told in the end: "none", "nil", "error", "canceled"

vars == <<sent, end, cancelled, delivered, told>>

Init ==
    /\ sent = 0 /\ end = "open" /\ cancelled = FALSE
    /\ delivered = <<>> /\ told = "none"

Send ==
    /\ end = "open"
    /\ sent' = sent + 1
    /\ UNCHANGED <<end, cancelled, delivered, told>>

End ==
    /\ end = "open"
    /\ end' \in {"eof", "error"}
    /\ UNCHANGED <<sent, cancelled, delivered, told>>

Cancel ==
    /\ cancelled' = TRUE
    /\ UNCHANGED <<sent, end, delivered, told>>

\* Always the next event: none is skipped, repeated or overtaken.
Deliver ==
    /\ told = "none" /\ Len(delivered) < sent
    /\ delivered' = Append(delivered, Len(delivered) + 1)
    /\ UNCHANGED <<sent, end, cancelled, told>>

MayTell ==
    (IF cancelled THEN {"nil", "canceled"} ELSE {})
      \cup (IF end = "error" THEN {"error"} ELSE {})
      \cup (IF end = "eof" /\ Len(delivered) = sent THEN {"nil"} ELSE {})

Tell ==
    /\ told = "none"
    /\ told' \in MayTell
    /\ UNCHANGED <<sent, end, cancelled, delivered>>

Next == Send \/ End \/ Cancel \/ Deliver \/ Tell

Spec == Init /\ [][Next]_vars
=============================================================================
