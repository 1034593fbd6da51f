---------------------------- MODULE MCGetPeersRpc ----------------------------
(***************************************************************************)
(* Instances of GetPeersRpc: the requests and the peer lists.              *)
(***************************************************************************)
EXTENDS GetPeersRpc

\* Claims with 0 to 2 addresses, peers with 0 to 2 claims.
Claims == {<<>>, <<"a1">>, <<"a1", "a2">>}
ClaimLists == {<<>>} \cup {<<c>> : c \in Claims} \cup {<<c, d>> : c, d \in Claims}
Peer(k, cs) == [key |-> k, claims |-> cs]

\* Lists of up to two peers of every shape, and one of three.
AllShapes ==
    {<<>>} \cup {<<Peer("p1", cs)>> : cs \in ClaimLists}
      \cup {<<Peer("p1", <<<<"a1", "a2">>>>), Peer("p2", cs)>> : cs \in ClaimLists}
      \cup {<<Peer("p1", <<>>), Peer("p2", <<<<"a1">>>>), Peer("p3", <<>>)>>}

AllRequests == [N : {0, 1, 3}, MaxClaims : 0..2, MaxAddressesPerClaim : 0..2]

=============================================================================
