----------------------------- MODULE GetPeersRpc -----------------------------
(***************************************************************************)
(* One RPC call on one Yamux substream (package p2p/rpc): the client runs  *)
(* GetPeers or GetChainMetadata, the server ServeGetPeers or some other    *)
(* implementation of the protocol ("foreign").  Both first exchange one    *)
(* negotiation frame each, then switch their transport to canonical        *)
(* framing with BeginCanonicalFraming; the two framings share one byte     *)
(* stream and cannot be told apart by their bytes, so a frame read in the  *)
(* wrong mode is lost ("misframed").                                       *)
(*                                                                         *)
(* A frame is a record tagged with the framing its sender used; protobuf   *)
(* encodings are abstracted to the decoded message.  A peer of the list is *)
(* [key, claims], claims a sequence of sequences of addresses.             *)
(***************************************************************************)
EXTENDS Integers, Sequences

CONSTANTS
    Keys, Addresses,
    Ops,           \* calls the client makes: "get_peers", "get_chain_metadata"
    ServerKinds,   \* "ours", "foreign"
    Requests,      \* [N, MaxClaims, MaxAddressesPerClaim]: GetPeersRequest
    KnownLists,    \* peer lists the server may hold
    MaxIterations, \* maxGetPeersStreamIterations
    StreamCap,     \* frames the substream's window takes before Write blocks
    MayCut         \* TRUE: the substream may die at any time

ASSUME RpcAssumption ==
    /\ Ops \subseteq {"get_peers", "get_chain_metadata"}
    /\ ServerKinds \subseteq {"ours", "foreign"}
    /\ Requests \subseteq [N : Nat, MaxClaims : Nat, MaxAddressesPerClaim : Nat]
    /\ KnownLists \subseteq Seq([key : Keys, claims : Seq(Seq(Addresses))])
    /\ MaxIterations \in Nat \ {0} /\ StreamCap \in Nat \ {0}
    /\ MayCut \in BOOLEAN

VARIABLES
    op, req,     \* the call and its request
    kind, known, \* the server and the list it was handed
    cl,          \* client: pc, canonical, i (responses read), peers, err
    sv,          \* server: pc, canonical, todo (responses left to send), err
    toS, toC,    \* the two directions of the substream
    sent,        \* history: peers the server has sent
    cut          \* the substream died

inputs == <<op, req, kind, known>>
vars == <<op, req, kind, known, cl, sv, toS, toC, sent, cut>>

DhtProtocolID == "t/dht/1"
BlockSyncProtocolID == "t/blksync/1"
Protocol == IF op = "get_peers" THEN DhtProtocolID ELSE BlockSyncProtocolID

None == "none"
Nego(flag, proto) == [framing |-> "negotiation", flag |-> flag, proto |-> proto]
Canonical(msg) == [framing |-> "canonical", msg |-> msg]
\* payload: a sequence of at most one peer, empty when the bytes are.
Response(status, fin, payload) ==
    Canonical([type |-> "RpcResponse", status |-> status, fin |-> fin, payload |-> payload])

ClientDone == cl.pc = "done"
ServerDone == sv.pc = "done"

-----------------------------------------------------------------------------
(* Bounding the list against the request.                                  *)

\* Mutant: the exemption of 0 is missing.
BoundedLenZero(len, max) == IF len > max THEN max ELSE len

\* Truncation length: max = 0 means no bound.
BoundedLen(len, max) == IF max > 0 /\ len > max THEN max ELSE len

boundClaimAddresses(claim, maxAddr) == SubSeq(claim, 1, BoundedLen(Len(claim), maxAddr))

boundPeerClaims(peer, maxClaims, maxAddr) ==
    [key    |-> peer.key,
     claims |-> [j \in 1..BoundedLen(Len(peer.claims), maxClaims) |->
                    boundClaimAddresses(peer.claims[j], maxAddr)]]

boundPeersForRequest(peers, r) ==
    [i \in 1..BoundedLen(Len(peers), r.N) |->
        boundPeerClaims(peers[i], r.MaxClaims, r.MaxAddressesPerClaim)]

\* Mutant: FIN is set when i = len(bounded), which never happens.
LastResponseOffByOne(bounded, i) == i = Len(bounded) + 1

\* The response that carries FIN.
LastResponse(bounded, i) == i = Len(bounded)

\* The responses ServeGetPeers streams: one per peer, or one empty one.
Responses(bounded) ==
    IF bounded = <<>> THEN <<Response(0, TRUE, <<>>)>>
    ELSE [i \in 1..Len(bounded) |-> Response(0, LastResponse(bounded, i), <<bounded[i]>>)]

-----------------------------------------------------------------------------
(* The substream.  After one end has closed, the other still reads what is *)
(* buffered and then EOF; writes to a closed or dead substream fail.       *)

CanSend(ch) == ~cut /\ Len(ch) < StreamCap

ClientFails(err) ==
    /\ cl' = [cl EXCEPT !.pc = "done", !.err = err]
    /\ UNCHANGED <<inputs, sv, sent, cut>>

ServerFails(err) ==
    /\ sv' = [sv EXCEPT !.pc = "done", !.err = err]
    /\ UNCHANGED <<inputs, cl, sent, cut>>

\* SendFrame, then the caller goes on at pc.
ClientSends(frame, pc) ==
    /\ CanSend(toS) /\ ~ServerDone
    /\ toS' = Append(toS, frame)
    /\ cl' = [cl EXCEPT !.pc = pc]
    /\ UNCHANGED <<inputs, sv, toC, sent, cut>>

\* The mode in which ReceiveFrame parses.
Mode(e) == IF e.canonical THEN "canonical" ELSE "negotiation"

ClientPending == cl.pc \in {"sendNego", "recvNego", "sendSession", "recvReply", "sendRequest", "recvResponse"}
ServerPending == sv.pc \in {"recvNego", "sendNego", "recvSession", "sendReply", "recvRequest", "sendResponses"}

\* A call on the substream fails: it died, or the other end closed it and (for
\* a read) nothing is left to read.
ClientIOError ==
    /\ \/ cut /\ ClientPending
       \/ ServerDone /\ cl.pc \in {"sendNego", "sendSession", "sendRequest"}
       \/ ServerDone /\ toC = <<>> /\ cl.pc \in {"recvNego", "recvReply", "recvResponse"}
    /\ ClientFails("io")
    /\ UNCHANGED <<toS, toC>>

ServerIOError ==
    /\ \/ cut /\ ServerPending
       \/ ClientDone /\ sv.pc \in {"sendNego", "sendReply", "sendResponses"}
       \/ ClientDone /\ toS = <<>> /\ sv.pc \in {"recvNego", "recvSession", "recvRequest"}
    /\ ServerFails("io")
    /\ UNCHANGED <<toS, toC>>

Cut ==
    /\ MayCut /\ ~cut
    /\ cut' = TRUE
    /\ UNCHANGED <<inputs, cl, sv, toS, toC, sent>>

-----------------------------------------------------------------------------
(* The client.                                                             *)

\* ctx.Done() is looked at once, before anything is sent.
ClientStart ==
    /\ cl.pc = "start"
    /\ UNCHANGED <<toS, toC>>
    /\ \/ ClientFails("ctx")
       \/ cl' = [cl EXCEPT !.pc = "sendNego"] /\ UNCHANGED <<inputs, sv, sent, cut>>

ClientNegotiates ==
    /\ cl.pc = "sendNego"
    /\ ClientSends(Nego("none", Protocol), "recvNego")

\* Mutant: NegotiateProtocol does not look at the flags and the echo.
NegotiationVerdictAny(frame) == "ok"

\* NegotiateProtocol's reading of the reply.
NegotiationVerdict(frame) ==
    CASE frame.flag = "terminate" -> "terminated"
      [] frame.flag = "not_supported" -> "notSupported"
      [] frame.flag = "none" /\ frame.proto # Protocol -> "notSupported"
      [] OTHER -> "ok"

\* The reply; on success BeginCanonicalFraming.
ClientReadsNego ==
    /\ cl.pc = "recvNego" /\ toC # <<>>
    /\ toC' = Tail(toC) /\ UNCHANGED toS
    /\ IF Head(toC).framing # Mode(cl) THEN ClientFails("misframed")
       ELSE IF NegotiationVerdict(Head(toC)) # "ok" THEN ClientFails(NegotiationVerdict(Head(toC)))
       ELSE /\ cl' = [cl EXCEPT !.pc = "sendSession", !.canonical = TRUE]
            /\ UNCHANGED <<inputs, sv, sent, cut>>

ClientOpensSession ==
    /\ cl.pc = "sendSession"
    /\ ClientSends(Canonical([type |-> "RpcSession"]), "recvReply")

\* The RpcSessionReply: accepted, rejected or neither.
ClientReadsReply ==
    /\ cl.pc = "recvReply" /\ toC # <<>>
    /\ toC' = Tail(toC) /\ UNCHANGED toS
    /\ IF Head(toC).framing # Mode(cl) THEN ClientFails("misframed")
       ELSE IF Head(toC).msg.type # "RpcSessionReply" THEN ClientFails("decode")
       ELSE IF Head(toC).msg.result # "accepted" THEN ClientFails("rejected")
       ELSE cl' = [cl EXCEPT !.pc = "sendRequest"] /\ UNCHANGED <<inputs, sv, sent, cut>>

ClientRequests ==
    /\ cl.pc = "sendRequest"
    /\ ClientSends(Canonical([type |-> "RpcRequest", op |-> op, req |-> req]), "recvResponse")

\* Mutant: the loop has no cap.
GivesUpNever == FALSE

\* The cap on responses read without FIN (get_peers only).
GivesUp == op = "get_peers" /\ cl.i >= MaxIterations

ClientGivesUp ==
    /\ cl.pc = "recvResponse" /\ GivesUp
    /\ ClientFails("maxIterations")
    /\ UNCHANGED <<toS, toC>>

\* Mutant: FIN is tested before the payload is looked at.
CollectFinFirst(m) == IF m.fin THEN cl.peers ELSE cl.peers \o m.payload

\* A non-empty payload counts on every response, with or without FIN.
Collect(m) == cl.peers \o m.payload

\* One round of the loop.  GetChainMetadata reads one response and no flags.
\* (cl.i stops at MaxIterations, where the code has given up.)
ClientReadsResponse ==
    /\ cl.pc = "recvResponse" /\ toC # <<>> /\ ~GivesUp
    /\ toC' = Tail(toC) /\ UNCHANGED toS
    /\ IF Head(toC).framing # Mode(cl) THEN ClientFails("misframed")
       ELSE IF Head(toC).msg.type # "RpcResponse" THEN ClientFails("decode")
       ELSE IF Head(toC).msg.status # 0 THEN ClientFails("status")
       ELSE LET m == Head(toC).msg
                last == op = "get_chain_metadata" \/ m.fin
            IN  /\ cl' = [cl EXCEPT
                            !.peers = Collect(m),
                            !.i = IF @ < MaxIterations THEN @ + 1 ELSE @,
                            !.pc = IF last THEN "done" ELSE @,
                            !.err = IF last THEN "ok" ELSE @]
                /\ UNCHANGED <<inputs, sv, sent, cut>>

-----------------------------------------------------------------------------
(* ServeGetPeers.                                                          *)

\* NegotiateProtocolInbound reads the offer; only t/dht/1 is supported.
ServerReadsNego ==
    /\ kind = "ours" /\ sv.pc = "recvNego" /\ toS # <<>>
    /\ toS' = Tail(toS) /\ UNCHANGED toC
    /\ IF Head(toS).framing # Mode(sv) THEN ServerFails("misframed")
       ELSE /\ sv' = [sv EXCEPT !.pc = "sendNego", !.proto = Head(toS).proto]
            /\ UNCHANGED <<inputs, cl, sent, cut>>

\* Mutant: BeginCanonicalFraming is not called.
ServerFramingKept == FALSE

\* The server's mode after a successful negotiation.
ServerFraming == TRUE

\* Its reply: the echo, then BeginCanonicalFraming; or NOT_SUPPORTED and out.
ServerAnswersNego ==
    /\ kind = "ours" /\ sv.pc = "sendNego" /\ CanSend(toC) /\ ~ClientDone
    /\ IF sv.proto = DhtProtocolID
       THEN /\ toC' = Append(toC, Nego("none", sv.proto))
            /\ sv' = [sv EXCEPT !.pc = "recvSession", !.canonical = ServerFraming]
       ELSE /\ toC' = Append(toC, Nego("not_supported", None))
            /\ sv' = [sv EXCEPT !.pc = "done", !.err = "notSupported"]
    /\ UNCHANGED <<inputs, cl, toS, sent, cut>>

\* PerformSessionHandshakeResponder reads any RpcSession ...
ServerReadsSession ==
    /\ kind = "ours" /\ sv.pc = "recvSession" /\ toS # <<>>
    /\ toS' = Tail(toS) /\ UNCHANGED toC
    /\ IF Head(toS).framing # Mode(sv) THEN ServerFails("misframed")
       ELSE sv' = [sv EXCEPT !.pc = "sendReply"] /\ UNCHANGED <<inputs, cl, sent, cut>>

\* ... and accepts.
ServerReplies ==
    /\ kind = "ours" /\ sv.pc = "sendReply" /\ CanSend(toC) /\ ~ClientDone
    /\ toC' = Append(toC, Canonical([type |-> "RpcSessionReply", result |-> "accepted"]))
    /\ sv' = [sv EXCEPT !.pc = "recvRequest"]
    /\ UNCHANGED <<inputs, cl, toS, sent, cut>>

\* The request; the list is bounded against it.
ServerReadsRequest ==
    /\ kind = "ours" /\ sv.pc = "recvRequest" /\ toS # <<>>
    /\ toS' = Tail(toS) /\ UNCHANGED toC
    /\ IF Head(toS).framing # Mode(sv) THEN ServerFails("misframed")
       ELSE /\ sv' = [sv EXCEPT !.pc = "sendResponses",
                         !.todo = Responses(boundPeersForRequest(known, Head(toS).msg.req))]
            /\ UNCHANGED <<inputs, cl, sent, cut>>

\* One RpcResponse; after the last the handler returns and closes.
ServerResponds ==
    /\ kind = "ours" /\ sv.pc = "sendResponses" /\ CanSend(toC) /\ ~ClientDone
    /\ LET r == Head(sv.todo)
           last == Len(sv.todo) = 1
       IN  /\ toC' = Append(toC, r)
           /\ sent' = sent \o r.msg.payload
           /\ sv' = [sv EXCEPT !.todo = Tail(@),
                               !.pc = IF last THEN "done" ELSE @,
                               !.err = IF last THEN "ok" ELSE @]
    /\ UNCHANGED <<inputs, cl, toS, cut>>

-----------------------------------------------------------------------------
(* Another implementation of the server: it keeps to the protocol's frames *)
(* but may refuse at each stage, send errors, put FIN on an empty last     *)
(* response, or never send it.  (External: how GetPeers may be answered.)  *)

ForeignReads ==
    /\ kind = "foreign" /\ toS # <<>>
    /\ sv.pc \in {"recvNego", "recvSession", "recvRequest"}
    /\ toS' = Tail(toS)
    /\ sv' = [sv EXCEPT !.pc = CASE @ = "recvNego" -> "sendNego"
                                 [] @ = "recvSession" -> "sendReply"
                                 [] @ = "recvRequest" -> "sendResponses",
                        !.todo = IF sv.pc = "recvRequest" THEN known ELSE @]
    /\ UNCHANGED <<inputs, cl, toC, sent, cut>>

ForeignSends(frame, pc) ==
    /\ kind = "foreign" /\ CanSend(toC) /\ ~ClientDone
    /\ toC' = Append(toC, frame)
    /\ sv' = [sv EXCEPT !.pc = pc]

ForeignAnswersNego ==
    /\ sv.pc = "sendNego"
    /\ \/ ForeignSends(Nego("none", Protocol), "recvSession")
       \/ \E f \in {"terminate", "not_supported"} : ForeignSends(Nego(f, None), "done")
       \/ ForeignSends(Nego("none", "t/other/1"), "done")
    /\ UNCHANGED <<inputs, cl, toS, sent, cut>>

ForeignReplies ==
    /\ sv.pc = "sendReply"
    /\ \E a \in {<<"accepted", "recvRequest">>, <<"rejected", "done">>} :
          ForeignSends(Canonical([type |-> "RpcSessionReply", result |-> a[1]]), a[2])
    /\ UNCHANGED <<inputs, cl, toS, sent, cut>>

\* A response with the next peer of the list (if any is left) or without one.
ForeignResponds ==
    /\ kind = "foreign" /\ sv.pc = "sendResponses" /\ CanSend(toC) /\ ~ClientDone
    /\ \E status \in {0, 1}, fin \in BOOLEAN, withPeer \in BOOLEAN :
          LET payload == IF withPeer THEN <<Head(sv.todo)>> ELSE <<>>
          IN  /\ withPeer => sv.todo # <<>> /\ status = 0
              /\ toC' = Append(toC, Response(status, fin, payload))
              /\ sent' = sent \o payload
              /\ sv' = [sv EXCEPT !.todo = IF withPeer THEN Tail(@) ELSE @,
                                  !.pc = IF fin THEN "done" ELSE @]
    /\ UNCHANGED <<inputs, cl, toS, cut>>

-----------------------------------------------------------------------------
Init ==
    /\ op \in Ops /\ req \in Requests
    /\ kind \in ServerKinds /\ known \in KnownLists
    /\ cl = [pc |-> "start", canonical |-> FALSE, i |-> 0, peers |-> <<>>, err |-> None]
    /\ sv = [pc |-> "recvNego", canonical |-> FALSE, proto |-> None, todo |-> <<>>, err |-> None]
    /\ toS = <<>> /\ toC = <<>> /\ sent = <<>> /\ cut = FALSE

ClientStep ==
    \/ ClientStart \/ ClientNegotiates \/ ClientReadsNego \/ ClientOpensSession
    \/ ClientReadsReply \/ ClientRequests \/ ClientGivesUp \/ ClientReadsResponse
    \/ ClientIOError

ServerStep ==
    \/ ServerReadsNego \/ ServerAnswersNego \/ ServerReadsSession \/ ServerReplies
    \/ ServerReadsRequest \/ ServerResponds \/ ServerIOError

ForeignStep == ForeignReads \/ ForeignAnswersNego \/ ForeignReplies \/ ForeignResponds

Next == ClientStep \/ ServerStep \/ ForeignStep \/ Cut

Spec == Init /\ [][Next]_vars

\* Both goroutines of this package run.  Nothing is assumed of a foreign server,
\* which may fall silent or never send FIN, and a cut may or may not happen.
FairSpec == Spec /\ WF_vars(ClientStep) /\ WF_vars(ServerStep)

-----------------------------------------------------------------------------
(* Properties.                                                             *)

ClientErrs == {None, "ok", "ctx", "io", "misframed", "decode", "terminated",
               "notSupported", "rejected", "status", "maxIterations"}

\* Every variable has its type; each outcome is one the code can return.
TypeOK ==
    /\ ClientDone \/ ClientPending \/ cl.pc = "start"
    /\ ServerDone \/ ServerPending
    /\ cl.canonical \in BOOLEAN /\ sv.canonical \in BOOLEAN
    /\ cl.i \in 0..MaxIterations
    /\ cl.err \in ClientErrs /\ (ClientDone <=> cl.err # None)
    /\ sv.err \in {None, "ok", "io", "misframed", "notSupported"}
    /\ Len(toS) <= StreamCap /\ Len(toC) <= StreamCap
    /\ Len(cl.peers) <= Len(sent)

\* No frame is ever read in the other framing, by either side, and nothing
\* fails to decode: every frame in flight was sent in the mode its reader will
\* be in when it gets there, although each side switches on its own.
NoMisframing ==
    /\ cl.err \notin {"misframed", "decode"} /\ sv.err # "misframed"

\* A call that succeeds returns every peer the server sent and nothing else, in
\* order, wherever the server puts FIN; a stream that dies, errors or never
\* ends gives an error, not a partial list.
NoPeerLost ==
    cl.err = "ok" /\ op = "get_peers" => cl.peers = sent

Fits(len, got, max) == got <= len /\ (max > 0 => got <= max) /\ (got = len \/ (max > 0 /\ got = max))

\* What a caller of GetPeers gets from ServeGetPeers: a prefix of the list, of
\* each peer's claims and of each claim's addresses, no longer than asked for
\* (0: no bound) and no shorter than it has to be.
AnswerIsBounded ==
    (cl.err = "ok" /\ kind = "ours") =>
        /\ Fits(Len(known), Len(cl.peers), req.N)
        /\ \A i \in 1..Len(cl.peers) :
              LET p == cl.peers[i]
                  k == known[i]
              IN  /\ p.key = k.key
                  /\ Fits(Len(k.claims), Len(p.claims), req.MaxClaims)
                  /\ \A j \in 1..Len(p.claims) :
                        /\ Fits(Len(k.claims[j]), Len(p.claims[j]), req.MaxAddressesPerClaim)
                        /\ \A a \in 1..Len(p.claims[j]) : p.claims[j][a] = k.claims[j][a]

\* A client goes past negotiation only with a server that agreed to the same
\* protocol; with ServeGetPeers that is get_peers, never get_chain_metadata.
NegotiationAgrees ==
    (cl.canonical /\ kind = "ours") => op = "get_peers" /\ sv.proto = DhtProtocolID

\* A foreign server that keeps the substream open and has sent nothing more.
SilentServer == kind = "foreign" /\ ~cut /\ ~ServerDone /\ toC = <<>>

\* Every call ends, also when the server streams for ever without FIN, unless a
\* foreign server falls silent for good: neither GetPeers nor GetChainMetadata
\* bounds a read in time.
CallEnds == <>ClientDone \/ <>[]SilentServer

\* On a substream that stays up a get_peers call against ServeGetPeers succeeds
\* on both sides, however small its window, unless ctx was done already.
CallSucceeds ==
    (op = "get_peers" /\ kind = "ours") =>
        <>(cut \/ cl.err = "ctx" \/ (cl.err = "ok" /\ sv.err = "ok"))
=============================================================================
