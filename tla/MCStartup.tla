----------------------------- MODULE MCStartup -----------------------------
(***************************************************************************)
(* An instance of Startup: the flags unset, good, at the edges of the      *)
(* port's range and beyond them, and of a form the encoder refuses.        *)
(***************************************************************************)
EXTENDS Startup

IP4(port) == [form |-> "ip4", host |-> <<203, 0, 113, 7>>, port |-> port]
Onion3(port) == [form |-> "onion3", host |-> [i \in 1..onion3HashLen |-> 7 * i], port |-> port]

MCTCPFlags ==
    {<<>>, <<IP4(18189)>>, <<IP4(0)>>, <<IP4(65536)>>, <<[IP4(1) EXCEPT !.host = <<1, 2, 3>>]>>,
     <<[IP4(1) EXCEPT !.form = "dns4"]>>}
MCOnionFlags == {<<>>, <<Onion3(65535)>>, <<Onion3(256)>>, <<Onion3(0)>>}
=============================================================================
