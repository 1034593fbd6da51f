-------------------------- MODULE GetPeersRpcProofs --------------------------
(***************************************************************************)
(* The RPC call for every request, every list of peers, every window and   *)
(* every cap on the responses: the two framings never mix, a call gets     *)
(* past negotiation only with a server of its protocol, a call that        *)
(* succeeds has every peer the server sent, and what ServeGetPeers sends   *)
(* is the list cut to what was asked for.                                  *)
(***************************************************************************)
EXTENDS GetPeersRpc, SequenceTheorems, TLAPS

PeerInfo == [key : Keys, claims : Seq(Seq(Addresses))]
Payloads == {s \in Seq(PeerInfo) : Len(s) <= 1}
ResponseFrames ==
    [framing : {"canonical"},
     msg : [type : {"RpcResponse"}, status : {0, 1}, fin : BOOLEAN, payload : Payloads]]

ClientPcs == {"start", "sendNego", "recvNego", "sendSession", "recvReply", "sendRequest",
              "recvResponse", "done"}
ServerPcs == {"recvNego", "sendNego", "recvSession", "sendReply", "recvRequest",
              "sendResponses", "done"}
ProtoNames == {None, DhtProtocolID, BlockSyncProtocolID, "t/other/1"}

RpcTypeOK ==
    /\ op \in {"get_peers", "get_chain_metadata"} /\ kind \in {"ours", "foreign"}
    /\ req \in Requests /\ known \in Seq(PeerInfo) /\ sent \in Seq(PeerInfo)
    /\ cl \in [pc : ClientPcs, canonical : BOOLEAN, i : 0..MaxIterations,
               peers : Seq(PeerInfo), err : ClientErrs]
    /\ sv \in [pc : ServerPcs, canonical : BOOLEAN, proto : ProtoNames,
               todo : Seq(PeerInfo) \cup Seq(ResponseFrames),
               err : {None, "ok", "io", "misframed", "notSupported"}]
    /\ ClientDone <=> cl.err # None
    /\ kind = "foreign" => sv.todo \in Seq(PeerInfo)
    /\ kind = "ours" => sv.todo \in Seq(ResponseFrames)
    /\ Len(toS) <= StreamCap /\ Len(toC) <= StreamCap

-----------------------------------------------------------------------------
(* Framing and order.                                                      *)

Offer == Nego("none", Protocol)
Session == Canonical([type |-> "RpcSession"])
Reply(result) == Canonical([type |-> "RpcSessionReply", result |-> result])
Request == Canonical([type |-> "RpcRequest", op |-> op, req |-> req])

\* What lies in front of the client, by what it is about to do.
ClientSees ==
    /\ cl.pc \in {"start", "sendNego", "sendSession", "sendRequest"} => toC = <<>>
    /\ cl.pc = "recvNego" =>
          \/ toC = <<>>
          \/ \E f \in {"none", "terminate", "not_supported"}, p \in ProtoNames : toC = <<Nego(f, p)>>
    /\ cl.pc = "recvReply" =>
          toC = <<>> \/ \E result \in {"accepted", "rejected"} : toC = <<Reply(result)>>
    /\ cl.pc = "recvResponse" => toC \in Seq(ResponseFrames)

\* What lies in front of the server.
ServerSees ==
    /\ sv.pc = "recvNego" => toS \in {<<>>, <<Offer>>}
    /\ sv.pc = "recvSession" => toS \in {<<>>, <<Session>>}
    /\ sv.pc = "recvRequest" => toS \in {<<>>, <<Request>>}
    /\ sv.pc \in {"sendNego", "sendReply", "sendResponses"} => toS = <<>>

\* While both run they are in step: one of them has the word.
InStep ==
    ~ClientDone /\ ~ServerDone =>
        \/ cl.pc \in {"start", "sendNego"} /\ sv.pc = "recvNego" /\ toS = <<>>
        \/ cl.pc = "recvNego" /\ sv.pc \in {"recvNego", "sendNego"} /\ toC = <<>>
        \/ cl.pc = "recvNego" /\ sv.pc = "recvSession" /\ toS = <<>> /\ toC = <<Offer>>
        \/ cl.pc = "sendSession" /\ sv.pc = "recvSession" /\ toS = <<>>
        \/ cl.pc = "recvReply" /\ sv.pc \in {"recvSession", "sendReply"} /\ toC = <<>>
        \/ cl.pc = "recvReply" /\ sv.pc = "recvRequest" /\ toS = <<>> /\ toC = <<Reply("accepted")>>
        \/ cl.pc = "sendRequest" /\ sv.pc = "recvRequest" /\ toS = <<>>
        \/ cl.pc = "recvResponse" /\ sv.pc = "recvRequest" /\ toC = <<>>
        \/ cl.pc = "recvResponse" /\ sv.pc = "sendResponses"

\* Each side's mode is that of the frame it waits for.
Modes ==
    /\ ~ClientDone =>
          (cl.canonical <=> cl.pc \in {"sendSession", "recvReply", "sendRequest", "recvResponse"})
    /\ kind = "ours" /\ ~ServerDone =>
          (sv.canonical <=> sv.pc \in {"recvSession", "sendReply", "recvRequest", "sendResponses"})

\* The client's protocol is the one the server has agreed to.
Agreed ==
    kind = "ours" =>
        /\ sv.pc = "sendNego" => sv.proto = Protocol
        /\ cl.pc = "recvNego" =>
              \A p \in ProtoNames : toC = <<Nego("none", p)>> => p = DhtProtocolID /\ sv.proto = p
        /\ cl.canonical => op = "get_peers" /\ sv.proto = DhtProtocolID
        /\ sv.pc \in {"recvNego", "sendNego"} => ~cl.canonical

-----------------------------------------------------------------------------
(* What has been sent.                                                     *)

\* The list that ServeGetPeers owes.
Bounded == boundPeersForRequest(known, req)

\* The peers that went out are those the client has, followed by those in the
\* frames in front of it: f says how many went out up to each frame.
InFlight(f, peers, frames, out) ==
    /\ f[0] = Len(peers) /\ f[Len(frames)] = Len(out)
    /\ \A n \in 1..Len(frames) :
          \/ frames[n].msg.payload = <<>> /\ f[n] = f[n - 1]
          \/ f[n] = f[n - 1] + 1 /\ frames[n].msg.payload = <<out[f[n]]>>
    /\ \A n \in 1..Len(peers) : peers[n] = out[n]

SentInv ==
    /\ cl.pc \notin {"recvResponse", "done"} => sent = <<>> /\ cl.peers = <<>>
    /\ cl.pc = "recvResponse" =>
          /\ \E f \in [0..Len(toC) -> 0..Len(sent)] : InFlight(f, cl.peers, toC, sent)
          /\ \A n \in 1..Len(toC) : toC[n].msg.fin => n = Len(toC) /\ ServerDone
    /\ Len(cl.peers) <= Len(sent)
    /\ cl.err = "ok" => cl.canonical
    /\ cl.err = "ok" /\ op = "get_peers" => cl.peers = sent

\* ServeGetPeers works through the bounded list, and FIN goes with its end.
OwedInv ==
    kind = "ours" =>
        /\ sv.pc \notin {"sendResponses", "done"} => sent = <<>>
        /\ sv.pc = "sendResponses" =>
              \/ Bounded = <<>> /\ sent = <<>> /\ sv.todo = <<Response(0, TRUE, <<>>)>>
              \/ /\ Len(sent) < Len(Bounded) /\ Len(sv.todo) = Len(Bounded) - Len(sent)
                 /\ \A n \in 1..Len(sent) : sent[n] = Bounded[n]
                 /\ \A n \in 1..Len(sv.todo) :
                       sv.todo[n] = Response(0, Len(sent) + n = Len(Bounded), <<Bounded[Len(sent) + n]>>)
        /\ (cl.pc = "recvResponse" /\ \E n \in 1..Len(toC) : toC[n].msg.fin) => sent = Bounded
        /\ cl.err = "ok" => sent = Bounded

\* The parts about control, and all of it.
CallInv ==
    RpcTypeOK /\ ClientSees /\ ServerSees /\ InStep /\ Modes /\ Agreed /\ NoMisframing

RpcInv == CallInv /\ SentInv /\ OwedInv

-----------------------------------------------------------------------------
(* Sequences.                                                              *)

LEMMA OneFrame ==
    ASSUME NEW x
    PROVE  /\ Head(<<x>>) = x /\ Tail(<<x>>) = <<>> /\ Len(<<x>>) = 1 /\ <<x>> # <<>>
           /\ Append(<<>>, x) = <<x>>
OBVIOUS

LEMMA OneOf ==
    ASSUME NEW S, NEW x \in S
    PROVE  <<x>> \in Seq(S)
OBVIOUS

LEMMA TailFacts ==
    ASSUME NEW S, NEW s \in Seq(S), s # <<>>
    PROVE  /\ Head(s) \in S /\ Head(s) = s[1] /\ Tail(s) \in Seq(S)
           /\ Len(s) \in Nat /\ Len(s) >= 1 /\ Len(Tail(s)) = Len(s) - 1
           /\ \A n \in 1..(Len(s) - 1) : Tail(s)[n] = s[n + 1]
BY HeadTailProperties, EmptySeq, LenProperties

LEMMA AppendFacts ==
    ASSUME NEW S, NEW s \in Seq(S), NEW x \in S
    PROVE  /\ Append(s, x) \in Seq(S) /\ Len(Append(s, x)) = Len(s) + 1 /\ Len(s) \in Nat
           /\ \A n \in 1..Len(s) : Append(s, x)[n] = s[n]
           /\ Append(s, x)[Len(s) + 1] = x
BY AppendProperties, LenProperties

-----------------------------------------------------------------------------
(* The start.                                                              *)

LEMMA InitCall == Init => CallInv
<1> SUFFICES ASSUME Init PROVE CallInv
    OBVIOUS
<1> USE RpcAssumption DEF Init, ClientDone, ServerDone
<1>1. RpcTypeOK
  <2>1. <<>> \in Seq(PeerInfo) /\ <<>> \in Seq(ResponseFrames)
      BY EmptySeq
  <2>2. known \in Seq(PeerInfo)
      BY DEF PeerInfo
  <2>3. Len(<<>>) = 0 /\ 0 \in 0..MaxIterations /\ 0 <= StreamCap
      BY EmptySeq
  <2> QED
      BY <2>1, <2>2, <2>3 DEF RpcTypeOK, ClientPcs, ServerPcs, ProtoNames, ClientErrs, None
<1>2. ClientSees /\ ServerSees /\ InStep /\ Modes
    BY DEF ClientSees, ServerSees, InStep, Modes
<1>3. Agreed /\ NoMisframing
    BY <1>1 DEF Agreed, NoMisframing, None, RpcTypeOK
<1> QED
    BY <1>1, <1>2, <1>3 DEF CallInv
-----------------------------------------------------------------------------
(* Control: the client.                                                    *)

LEMMA ClientFailsCall ==
    ASSUME CallInv, NEW e \in ClientErrs \ {None, "misframed", "decode"}, ClientFails(e),
           toS' = toS, Len(toC') <= StreamCap
    PROVE  CallInv'
<1> USE DEF CallInv, ClientFails, inputs
<1>1. /\ cl' = [cl EXCEPT !.pc = "done", !.err = e] /\ cl'.pc = "done" /\ cl'.err = e
      /\ cl'.canonical = cl.canonical
      /\ cl' \in [pc : ClientPcs, canonical : BOOLEAN, i : 0..MaxIterations,
                  peers : Seq(PeerInfo), err : ClientErrs]
    BY DEF RpcTypeOK, ClientPcs
<1>2. RpcTypeOK'
    BY <1>1 DEF RpcTypeOK, ClientDone
<1>3. ClientSees' /\ InStep' /\ Modes'
    BY <1>1 DEF ClientSees, InStep, Modes, ClientDone, ServerDone
<1>4. ServerSees'
    BY DEF ServerSees, Offer, Session, Request, Protocol
<1>5. Agreed'
    BY <1>1 DEF Agreed, Protocol
<1>6. NoMisframing'
    BY <1>1 DEF NoMisframing
<1> QED
    BY <1>2, <1>3, <1>4, <1>5, <1>6

LEMMA ClientStartCall == CallInv /\ ClientStart => CallInv'
<1> SUFFICES ASSUME CallInv, ClientStart PROVE CallInv'
    OBVIOUS
<1>1. CASE ClientFails("ctx")
  <2>1. "ctx" \in ClientErrs \ {None, "misframed", "decode"}
      BY DEF ClientErrs, None
  <2> QED
      BY <1>1, <2>1, ClientFailsCall DEF ClientStart, CallInv, RpcTypeOK
<1>2. CASE cl' = [cl EXCEPT !.pc = "sendNego"] /\ UNCHANGED <<inputs, sv, sent, cut>>
  <2> USE <1>2 DEF CallInv, inputs
  <2>1. /\ cl.pc = "start" /\ UNCHANGED <<toS, toC>>
        /\ cl'.pc = "sendNego" /\ cl'.err = cl.err /\ cl'.canonical = cl.canonical
        /\ cl' \in [pc : ClientPcs, canonical : BOOLEAN, i : 0..MaxIterations,
                    peers : Seq(PeerInfo), err : ClientErrs]
      BY DEF ClientStart, RpcTypeOK, ClientPcs
  <2>2. RpcTypeOK'
      BY <2>1 DEF RpcTypeOK, ClientDone
  <2>3. ClientSees' /\ InStep' /\ Modes'
      BY <2>1 DEF ClientSees, InStep, Modes, ClientDone, ServerDone
  <2>4. ServerSees'
      BY <2>1 DEF ServerSees, Offer, Session, Request, Protocol
  <2>5. Agreed'
      BY <2>1 DEF Agreed, Protocol
  <2>6. NoMisframing'
      BY <2>1 DEF NoMisframing
  <2> QED
      BY <2>2, <2>3, <2>4, <2>5, <2>6
<1> QED
    BY <1>1, <1>2 DEF ClientStart

\* SendFrame at one of the client's three places: the server waits for just this
\* frame, and nothing else is on the substream.
LEMMA ClientSendsCall ==
    ASSUME CallInv, NEW frame, NEW pc,
           \/ cl.pc = "sendNego" /\ frame = Offer /\ pc = "recvNego"
           \/ cl.pc = "sendSession" /\ frame = Session /\ pc = "recvReply"
           \/ cl.pc = "sendRequest" /\ frame = Request /\ pc = "recvResponse",
           ClientSends(frame, pc)
    PROVE  CallInv' /\ toC' = <<>>
<1> USE DEF CallInv, ClientSends, inputs
<1>1. /\ cl'.pc = pc /\ cl'.err = cl.err /\ cl'.canonical = cl.canonical
      /\ cl' \in [pc : ClientPcs, canonical : BOOLEAN, i : 0..MaxIterations,
                  peers : Seq(PeerInfo), err : ClientErrs]
      /\ pc \in {"recvNego", "recvReply", "recvResponse"}
    BY DEF RpcTypeOK, ClientPcs
<1>2. ~ServerDone /\ ~ClientDone /\ toS = <<>> /\ toC = <<>>
      /\ \/ cl.pc = "sendNego" /\ sv.pc = "recvNego"
         \/ cl.pc = "sendSession" /\ sv.pc = "recvSession"
         \/ cl.pc = "sendRequest" /\ sv.pc = "recvRequest"
    BY DEF InStep, ClientSees, ClientDone, ServerDone
<1>3. toS' = <<frame>> /\ Len(toS') = 1 /\ toC' = <<>>
    BY <1>2, OneFrame
<1>4. RpcTypeOK'
    BY <1>1, <1>2, <1>3, RpcAssumption DEF RpcTypeOK, ClientDone
<1>5. ClientSees'
  <2>1. <<>> \in Seq(ResponseFrames)
      BY EmptySeq
  <2> QED
      BY <2>1, <1>1, <1>3 DEF ClientSees
<1>6. InStep'
    BY <1>1, <1>2, <1>3 DEF InStep, ClientDone, ServerDone
<1>7. Modes'
    BY <1>1, <1>2 DEF Modes, ClientDone, ServerDone
<1>8. ServerSees'
    BY <1>2, <1>3 DEF ServerSees, Offer, Session, Request, Protocol
<1>9. Agreed'
  <2>1. \A p : <<Nego("none", p)>> # <<>>
      BY OneFrame
  <2> QED
      BY <1>1, <1>2, <1>3, <2>1 DEF Agreed, Protocol
<1>10. NoMisframing'
    BY <1>1 DEF NoMisframing
<1> QED
    BY <1>3, <1>4, <1>5, <1>6, <1>7, <1>8, <1>9, <1>10

LEMMA ClientNegotiatesCall == CallInv /\ ClientNegotiates => CallInv'
BY ClientSendsCall DEF ClientNegotiates, Offer

LEMMA ClientOpensSessionCall == CallInv /\ ClientOpensSession => CallInv'
BY ClientSendsCall DEF ClientOpensSession, Session

LEMMA ClientRequestsCall == CallInv /\ ClientRequests => CallInv' /\ toC' = <<>>
BY ClientSendsCall DEF ClientRequests, Request
LEMMA ClientIOErrorCall == CallInv /\ ClientIOError => CallInv'
<1>1. "io" \in ClientErrs \ {None, "misframed", "decode"}
    BY DEF ClientErrs, None
<1> QED
    BY <1>1, ClientFailsCall DEF ClientIOError, CallInv, RpcTypeOK

LEMMA ClientGivesUpCall == CallInv /\ ClientGivesUp => CallInv'
<1>1. "maxIterations" \in ClientErrs \ {None, "misframed", "decode"}
    BY DEF ClientErrs, None
<1> QED
    BY <1>1, ClientFailsCall DEF ClientGivesUp, CallInv, RpcTypeOK

\* The reply to the offer is a negotiation frame; the client goes on only with
\* the echo of its own protocol.
LEMMA ClientReadsNegoCall == CallInv /\ ClientReadsNego => CallInv'
<1> SUFFICES ASSUME CallInv, ClientReadsNego PROVE CallInv'
    OBVIOUS
<1> USE DEF CallInv
<1>1. PICK f \in {"none", "terminate", "not_supported"}, p \in ProtoNames : toC = <<Nego(f, p)>>
    BY DEF ClientReadsNego, ClientSees
<1>2. Head(toC) = Nego(f, p) /\ toC' = <<>> /\ toS' = toS /\ cl.pc = "recvNego" /\ Len(toC') <= StreamCap
  <2>1. Len(<<>>) = 0
      BY EmptySeq
  <2> QED
      BY <1>1, <2>1, OneFrame, RpcAssumption DEF ClientReadsNego
<1>3. Head(toC).framing = "negotiation" /\ Head(toC).flag = f /\ Head(toC).proto = p
    BY <1>2 DEF Nego
<1>4. ~cl.canonical /\ ~ClientDone /\ Mode(cl) = "negotiation"
    BY <1>2 DEF Modes, ClientDone, Mode
<1>5. CASE NegotiationVerdict(Head(toC)) # "ok"
  <2>1. NegotiationVerdict(Head(toC)) \in ClientErrs \ {None, "misframed", "decode"}
      BY <1>5 DEF NegotiationVerdict, ClientErrs, None
  <2>2. ClientFails(NegotiationVerdict(Head(toC)))
      BY <1>3, <1>4, <1>5 DEF ClientReadsNego
  <2> QED
      BY <2>1, <2>2, <1>2, ClientFailsCall
<1>6. CASE NegotiationVerdict(Head(toC)) = "ok"
  <2>1. f = "none" /\ p = Protocol
      BY <1>3, <1>6 DEF NegotiationVerdict
  <2>2. /\ cl' = [cl EXCEPT !.pc = "sendSession", !.canonical = TRUE]
        /\ UNCHANGED <<inputs, sv, sent, cut>>
      BY <1>3, <1>4, <1>6 DEF ClientReadsNego
  <2>3. /\ cl'.pc = "sendSession" /\ cl'.err = cl.err /\ cl'.canonical = TRUE
        /\ cl' \in [pc : ClientPcs, canonical : BOOLEAN, i : 0..MaxIterations,
                    peers : Seq(PeerInfo), err : ClientErrs]
      BY <2>2 DEF RpcTypeOK, ClientPcs
  <2>4. toC # <<>>
      BY DEF ClientReadsNego
  <2>5. ServerDone \/ (sv.pc = "recvSession" /\ toS = <<>>)
      BY <1>2, <1>4, <2>4 DEF InStep, ClientDone, ServerDone
  <2>6. RpcTypeOK'
      BY <1>2, <1>4, <2>2, <2>3 DEF RpcTypeOK, ClientDone, inputs
  <2>7. ClientSees' /\ InStep' /\ Modes'
      BY <1>2, <2>2, <2>3, <2>5 DEF ClientSees, InStep, Modes, ClientDone, ServerDone, inputs
  <2>8. ServerSees'
      BY <1>2, <2>2 DEF ServerSees, Offer, Session, Request, Protocol, inputs
  <2>9. Agreed'
    <3>1. kind = "ours" => p = DhtProtocolID /\ sv.proto = p
        BY <1>1, <1>2, <2>1 DEF Agreed
    <3>2. kind = "ours" => op = "get_peers"
        BY <3>1, <2>1 DEF Protocol, DhtProtocolID, BlockSyncProtocolID
    <3> QED
        BY <3>1, <3>2, <2>2, <2>3, <2>5 DEF Agreed, Protocol, inputs, ServerDone
  <2>10. NoMisframing'
      BY <2>2, <2>3 DEF NoMisframing
  <2> QED
      BY <2>6, <2>7, <2>8, <2>9, <2>10
<1> QED
    BY <1>5, <1>6

LEMMA ClientReadsReplyCall == CallInv /\ ClientReadsReply => CallInv'
<1> SUFFICES ASSUME CallInv, ClientReadsReply PROVE CallInv'
    OBVIOUS
<1> USE DEF CallInv
<1>1. PICK result \in {"accepted", "rejected"} : toC = <<Reply(result)>>
    BY DEF ClientReadsReply, ClientSees
<1>2. Head(toC) = Reply(result) /\ toC' = <<>> /\ toS' = toS /\ cl.pc = "recvReply" /\ Len(toC') <= StreamCap
  <2>1. Len(<<>>) = 0
      BY EmptySeq
  <2> QED
      BY <1>1, <2>1, OneFrame, RpcAssumption DEF ClientReadsReply
<1>3. /\ Head(toC).framing = "canonical" /\ Head(toC).msg.type = "RpcSessionReply"
      /\ Head(toC).msg.result = result
    BY <1>2 DEF Reply, Canonical
<1>4. cl.canonical /\ ~ClientDone /\ Mode(cl) = "canonical"
    BY <1>2 DEF Modes, ClientDone, Mode
<1>5. CASE result # "accepted"
  <2>1. "rejected" \in ClientErrs \ {None, "misframed", "decode"}
      BY DEF ClientErrs, None
  <2>2. ClientFails("rejected")
      BY <1>3, <1>4, <1>5 DEF ClientReadsReply
  <2> QED
      BY <2>1, <2>2, <1>2, ClientFailsCall
<1>6. CASE result = "accepted"
  <2>2. cl' = [cl EXCEPT !.pc = "sendRequest"] /\ UNCHANGED <<inputs, sv, sent, cut>>
      BY <1>3, <1>4, <1>6 DEF ClientReadsReply
  <2>3. /\ cl'.pc = "sendRequest" /\ cl'.err = cl.err /\ cl'.canonical = cl.canonical
        /\ cl' \in [pc : ClientPcs, canonical : BOOLEAN, i : 0..MaxIterations,
                    peers : Seq(PeerInfo), err : ClientErrs]
      BY <2>2 DEF RpcTypeOK, ClientPcs
  <2>4. toC # <<>>
      BY DEF ClientReadsReply
  <2>5. ServerDone \/ (sv.pc = "recvRequest" /\ toS = <<>>)
      BY <1>2, <1>4, <2>4 DEF InStep, ClientDone, ServerDone
  <2>6. RpcTypeOK'
      BY <1>2, <1>4, <2>2, <2>3 DEF RpcTypeOK, ClientDone, inputs
  <2>7. ClientSees' /\ InStep' /\ Modes'
      BY <1>2, <1>4, <2>2, <2>3, <2>5 DEF ClientSees, InStep, Modes, ClientDone, ServerDone, inputs
  <2>8. ServerSees'
      BY <1>2, <2>2 DEF ServerSees, Offer, Session, Request, Protocol, inputs
  <2>9. Agreed'
      BY <2>2, <2>3, <2>5 DEF Agreed, Protocol, inputs, ServerDone
  <2>10. NoMisframing'
      BY <2>2, <2>3 DEF NoMisframing
  <2> QED
      BY <2>6, <2>7, <2>8, <2>9, <2>10
<1> QED
    BY <1>5, <1>6

\* What a read of a response does: the frame is one, its status is an error or
\* the client takes its payload and stops at the last one.
TakesResponse ==
    LET m == Head(toC).msg
        last == op = "get_chain_metadata" \/ m.fin
    IN  /\ cl'.peers = Collect(m) /\ cl'.canonical = cl.canonical
        /\ cl'.i \in 0..MaxIterations
        /\ cl'.pc = (IF last THEN "done" ELSE "recvResponse")
        /\ cl'.err = (IF last THEN "ok" ELSE None)
        /\ cl' = [pc |-> cl'.pc, canonical |-> cl'.canonical, i |-> cl'.i,
                  peers |-> cl'.peers, err |-> cl'.err]
        /\ UNCHANGED <<inputs, sv, sent, cut>>

LEMMA ReadsResponseCases ==
    ASSUME CallInv, ClientReadsResponse
    PROVE  /\ cl.pc = "recvResponse" /\ cl.err = None /\ cl.canonical
           /\ toC \in Seq(ResponseFrames) /\ toC # <<>> /\ toC' = Tail(toC) /\ toS' = toS
           /\ Head(toC) \in ResponseFrames /\ Head(toC) = toC[1]
           /\ ClientFails("status") \/ TakesResponse
<1> USE DEF CallInv
<1>1. /\ cl.pc = "recvResponse" /\ cl.err = None /\ cl.canonical
      /\ toC \in Seq(ResponseFrames) /\ toC # <<>> /\ toC' = Tail(toC) /\ toS' = toS
    BY DEF ClientReadsResponse, Modes, ClientDone, RpcTypeOK, ClientSees
<1>2. Head(toC) \in ResponseFrames /\ Head(toC) = toC[1]
    BY <1>1, TailFacts
<1>3. Head(toC).framing = Mode(cl) /\ Head(toC).msg.type = "RpcResponse"
    BY <1>1, <1>2 DEF ResponseFrames, Mode
<1>4. CASE Head(toC).msg.status # 0
    BY <1>1, <1>2, <1>3, <1>4 DEF ClientReadsResponse
<1>5. CASE Head(toC).msg.status = 0
  <2> DEFINE m == Head(toC).msg
             last == op = "get_chain_metadata" \/ m.fin
  <2>1. /\ cl' = [cl EXCEPT !.peers = Collect(m),
                            !.i = IF @ < MaxIterations THEN @ + 1 ELSE @,
                            !.pc = IF last THEN "done" ELSE @,
                            !.err = IF last THEN "ok" ELSE @]
        /\ UNCHANGED <<inputs, sv, sent, cut>>
      BY <1>3, <1>5 DEF ClientReadsResponse
  <2>2. cl \in [pc : ClientPcs, canonical : BOOLEAN, i : 0..MaxIterations,
                peers : Seq(PeerInfo), err : ClientErrs]
      BY DEF RpcTypeOK
  <2>3. (IF cl.i < MaxIterations THEN cl.i + 1 ELSE cl.i) \in 0..MaxIterations
      BY <2>2, RpcAssumption
  <2> HIDE DEF m, last
  <2>4. /\ cl'.peers = Collect(m) /\ cl'.canonical = cl.canonical
        /\ cl'.i \in 0..MaxIterations
        /\ cl'.pc = (IF last THEN "done" ELSE "recvResponse")
        /\ cl'.err = (IF last THEN "ok" ELSE None)
        /\ cl' = [pc |-> cl'.pc, canonical |-> cl'.canonical, i |-> cl'.i,
                  peers |-> cl'.peers, err |-> cl'.err]
      BY <1>1, <2>1, <2>2, <2>3
  <2>5. TakesResponse
      BY <2>1, <2>4 DEF TakesResponse, m, last
  <2> QED
      BY <1>1, <1>2, <2>5
<1> QED
    BY <1>4, <1>5

LEMMA ClientReadsResponseCall == CallInv /\ ClientReadsResponse => CallInv'
<1> SUFFICES ASSUME CallInv, ClientReadsResponse PROVE CallInv'
    OBVIOUS
<1> USE DEF CallInv
<1>1. /\ cl.pc = "recvResponse" /\ cl.err = None /\ cl.canonical
      /\ toC \in Seq(ResponseFrames) /\ toC # <<>> /\ toC' = Tail(toC) /\ toS' = toS
      /\ Head(toC) \in ResponseFrames
    BY ReadsResponseCases
<1>2. toC' \in Seq(ResponseFrames) /\ Len(toC') <= StreamCap
  <2>1. Len(toC) \in Nat /\ Len(toC') = Len(toC) - 1 /\ toC' \in Seq(ResponseFrames)
      BY <1>1, TailFacts
  <2> QED
      BY <2>1, RpcAssumption DEF RpcTypeOK
<1>3. CASE ClientFails("status")
  <2>1. "status" \in ClientErrs \ {None, "misframed", "decode"}
      BY DEF ClientErrs, None
  <2> QED
      BY <1>1, <1>2, <1>3, <2>1, ClientFailsCall
<1>4. CASE TakesResponse
  <2>1. cl'.peers \in Seq(PeerInfo)
    <3>1. Head(toC).msg.payload \in Seq(PeerInfo)
        BY <1>1 DEF ResponseFrames, Payloads
    <3>2. cl.peers \in Seq(PeerInfo)
        BY DEF RpcTypeOK
    <3>3. cl.peers \o Head(toC).msg.payload \in Seq(PeerInfo)
        BY <3>1, <3>2, ConcatProperties, Zenon
    <3> QED
        BY <3>3, <1>4 DEF TakesResponse, Collect
  <2>2. /\ cl'.pc \in {"done", "recvResponse"} /\ cl'.err \in {"ok", None}
        /\ cl'.pc = "done" <=> cl'.err # None
        /\ cl'.canonical /\ UNCHANGED <<inputs, sv, sent, cut>> /\ cl'.i \in 0..MaxIterations
        /\ cl' = [pc |-> cl'.pc, canonical |-> cl'.canonical, i |-> cl'.i,
                  peers |-> cl'.peers, err |-> cl'.err]
      BY <1>1, <1>4 DEF TakesResponse, None
  <2>3. cl' \in [pc : ClientPcs, canonical : BOOLEAN, i : 0..MaxIterations,
                 peers : Seq(PeerInfo), err : ClientErrs]
    <3>1. cl'.pc \in ClientPcs /\ cl'.err \in ClientErrs /\ cl'.canonical \in BOOLEAN
        BY <1>1, <1>4, <2>2 DEF ClientPcs, ClientErrs, TakesResponse, RpcTypeOK
    <3> QED
        BY <2>1, <2>2, <3>1
  <2>4. RpcTypeOK'
      BY <1>1, <1>2, <2>2, <2>3 DEF RpcTypeOK, ClientDone, inputs
  <2>5. ClientSees'
      BY <1>2, <2>2 DEF ClientSees
  <2>6. InStep'
    <3>1. ~ServerDone => sv.pc = "sendResponses"
        BY <1>1 DEF InStep, ClientDone
    <3> QED
        BY <2>2, <3>1 DEF InStep, ClientDone, ServerDone
  <2>7. Modes'
      BY <2>2 DEF Modes, ClientDone, ServerDone, inputs
  <2>8. ServerSees'
      BY <1>1, <2>2 DEF ServerSees, Offer, Session, Request, Protocol, inputs
  <2>9. Agreed'
      BY <1>1, <2>2 DEF Agreed, Protocol, inputs
  <2>10. NoMisframing'
      BY <2>2 DEF NoMisframing, None
  <2> QED
      BY <2>4, <2>5, <2>6, <2>7, <2>8, <2>9, <2>10
<1> QED
    BY <1>3, <1>4, ReadsResponseCases
-----------------------------------------------------------------------------
(* Control: the server.                                                    *)

\* A step of a server, here or elsewhere, that only reads: it goes on from pc to
\* the next place, and has taken the one frame it waited for.
LEMMA ServerReadsCall ==
    ASSUME CallInv, toS # <<>>, toS' = Tail(toS), UNCHANGED <<inputs, cl, toC, sent, cut>>,
           \/ sv.pc = "recvNego" /\ sv'.pc = "sendNego"
           \/ sv.pc = "recvSession" /\ sv'.pc = "sendReply"
           \/ sv.pc = "recvRequest" /\ sv'.pc = "sendResponses",
           sv' \in [pc : ServerPcs, canonical : BOOLEAN, proto : ProtoNames,
                    todo : Seq(PeerInfo) \cup Seq(ResponseFrames),
                    err : {None, "ok", "io", "misframed", "notSupported"}],
           sv'.canonical = sv.canonical, sv'.err = sv.err,
           kind = "ours" =>
              /\ sv'.proto = (IF sv.pc = "recvNego" THEN Protocol ELSE sv.proto)
              /\ sv'.todo \in Seq(ResponseFrames),
           kind = "foreign" => sv'.todo \in Seq(PeerInfo)
    PROVE  CallInv'
<1> USE DEF CallInv
<1>1. toS' = <<>> /\ Len(toS') <= StreamCap
  <2>1. toS \in {<<Offer>>, <<Session>>, <<Request>>} /\ Len(<<>>) = 0
      BY EmptySeq DEF ServerSees
  <2> QED
      BY <2>1, OneFrame, RpcAssumption
<1>2. RpcTypeOK'
    BY <1>1 DEF RpcTypeOK, ClientDone, inputs
<1>3. ClientSees'
    BY DEF ClientSees
<1>4. ServerSees'
    BY <1>1 DEF ServerSees
<1>5. InStep'
  <2>1. ClientDone \/ /\ toC = <<>>
                      /\ \/ cl.pc = "recvNego" /\ sv'.pc = "sendNego"
                         \/ cl.pc = "recvReply" /\ sv'.pc = "sendReply"
                         \/ cl.pc = "recvResponse" /\ sv'.pc = "sendResponses"
      BY DEF InStep, ServerDone, ClientDone
  <2> QED
      BY <2>1 DEF InStep, ServerDone, ClientDone
<1>6. Modes'
    BY DEF Modes, ServerDone, ClientDone, inputs
<1>7. Agreed'
  <2>1. ASSUME kind = "ours"
        PROVE  /\ sv'.pc = "sendNego" => sv'.proto = Protocol
               /\ sv'.pc \in {"recvNego", "sendNego"} => ~cl.canonical
               /\ cl.canonical => op = "get_peers" /\ sv'.proto = DhtProtocolID
      BY <2>1 DEF Agreed
  <2>2. ASSUME kind = "ours", cl.pc = "recvNego", NEW p \in ProtoNames, toC = <<Nego("none", p)>>
        PROVE  p = DhtProtocolID /\ sv'.proto = p
    <3>1. toC # <<>>
        BY <2>2, OneFrame
    <3>2. sv.pc # "recvNego"
        BY <2>2, <3>1 DEF InStep, ClientDone, ServerDone
    <3> QED
        BY <2>2, <3>2 DEF Agreed
  <2> QED
      BY <2>1, <2>2 DEF Agreed, Protocol, inputs
<1>8. NoMisframing'
    BY DEF NoMisframing
<1> QED
    BY <1>2, <1>3, <1>4, <1>5, <1>6, <1>7, <1>8

LEMMA ServerReadsNegoCall == CallInv /\ ServerReadsNego => CallInv'
<1> SUFFICES ASSUME CallInv, ServerReadsNego PROVE CallInv'
    OBVIOUS
<1> USE DEF CallInv
<1>1. kind = "ours" /\ sv.pc = "recvNego" /\ toS # <<>> /\ toS' = Tail(toS) /\ toC' = toC
    BY DEF ServerReadsNego
<1>2. Head(toS) = Offer
    BY <1>1, OneFrame DEF ServerSees
<1>3. Head(toS).framing = "negotiation" /\ Head(toS).proto = Protocol
    BY <1>2 DEF Offer, Nego
<1>4. Mode(sv) = "negotiation"
    BY <1>1 DEF Modes, Mode, ServerDone
<1>5. /\ sv' = [sv EXCEPT !.pc = "sendNego", !.proto = Protocol]
      /\ UNCHANGED <<inputs, cl, sent, cut>>
    BY <1>3, <1>4 DEF ServerReadsNego
<1>6. Protocol \in ProtoNames
    BY DEF Protocol, ProtoNames
<1>7. /\ sv'.pc = "sendNego" /\ sv'.canonical = sv.canonical /\ sv'.err = sv.err
      /\ sv'.proto = Protocol /\ sv'.todo = sv.todo
      /\ sv' \in [pc : ServerPcs, canonical : BOOLEAN, proto : ProtoNames,
                  todo : Seq(PeerInfo) \cup Seq(ResponseFrames),
                  err : {None, "ok", "io", "misframed", "notSupported"}]
    BY <1>5, <1>6 DEF RpcTypeOK, ServerPcs
<1>8. sv'.todo \in Seq(ResponseFrames) /\ kind # "foreign"
    BY <1>1, <1>7 DEF RpcTypeOK
<1> QED
    BY <1>1, <1>5, <1>7, <1>8, ServerReadsCall

LEMMA ServerReadsSessionCall == CallInv /\ ServerReadsSession => CallInv'
<1> SUFFICES ASSUME CallInv, ServerReadsSession PROVE CallInv'
    OBVIOUS
<1> USE DEF CallInv
<1>1. kind = "ours" /\ sv.pc = "recvSession" /\ toS # <<>> /\ toS' = Tail(toS) /\ toC' = toC
    BY DEF ServerReadsSession
<1>2. Head(toS) = Session
    BY <1>1, OneFrame DEF ServerSees
<1>3. Head(toS).framing = "canonical"
    BY <1>2 DEF Session, Canonical
<1>4. Mode(sv) = "canonical"
    BY <1>1 DEF Modes, Mode, ServerDone
<1>5. sv' = [sv EXCEPT !.pc = "sendReply"] /\ UNCHANGED <<inputs, cl, sent, cut>>
    BY <1>3, <1>4 DEF ServerReadsSession
<1>7. /\ sv'.pc = "sendReply" /\ sv'.canonical = sv.canonical /\ sv'.err = sv.err
      /\ sv'.proto = sv.proto /\ sv'.todo = sv.todo
      /\ sv' \in [pc : ServerPcs, canonical : BOOLEAN, proto : ProtoNames,
                  todo : Seq(PeerInfo) \cup Seq(ResponseFrames),
                  err : {None, "ok", "io", "misframed", "notSupported"}]
    BY <1>5 DEF RpcTypeOK, ServerPcs
<1>8. sv'.todo \in Seq(ResponseFrames) /\ kind # "foreign"
    BY <1>1, <1>7 DEF RpcTypeOK
<1> QED
    BY <1>1, <1>5, <1>7, <1>8, ServerReadsCall

LEMMA ServerFailsCall ==
    ASSUME CallInv, ServerFails("io"), UNCHANGED <<toS, toC>>
    PROVE  CallInv'
<1> USE DEF CallInv, ServerFails, inputs
<1>1. /\ sv'.pc = "done" /\ sv'.err = "io" /\ sv'.canonical = sv.canonical
      /\ sv'.proto = sv.proto /\ sv'.todo = sv.todo
      /\ sv' \in [pc : ServerPcs, canonical : BOOLEAN, proto : ProtoNames,
                  todo : Seq(PeerInfo) \cup Seq(ResponseFrames),
                  err : {None, "ok", "io", "misframed", "notSupported"}]
    BY DEF RpcTypeOK, ServerPcs
<1>2. RpcTypeOK'
    BY <1>1 DEF RpcTypeOK, ClientDone
<1>3. ClientSees' /\ ServerSees' /\ InStep' /\ Modes'
    BY <1>1 DEF ClientSees, ServerSees, InStep, Modes, ClientDone, ServerDone
<1>4. Agreed'
    BY <1>1 DEF Agreed, Protocol
<1>5. NoMisframing'
    BY <1>1 DEF NoMisframing
<1> QED
    BY <1>2, <1>3, <1>4, <1>5

LEMMA ServerIOErrorCall == CallInv /\ ServerIOError => CallInv'
BY ServerFailsCall DEF ServerIOError
-----------------------------------------------------------------------------
(* What boundPeersForRequest returns.                                      *)

LEMMA BoundedLenFits ==
    ASSUME NEW len \in Nat, NEW max \in Nat
    PROVE  BoundedLen(len, max) \in 0..len /\ Fits(len, BoundedLen(len, max), max)
BY DEF BoundedLen, Fits

LEMMA BoundClaim ==
    ASSUME NEW claim \in Seq(Addresses), NEW max \in Nat
    PROVE  LET cut1 == boundClaimAddresses(claim, max)
           IN  /\ cut1 \in Seq(Addresses) /\ Fits(Len(claim), Len(cut1), max)
               /\ \A a \in 1..Len(cut1) : cut1[a] = claim[a]
<1> DEFINE n == BoundedLen(Len(claim), max)
<1>1. Len(claim) \in Nat
    BY LenProperties
<1>2. n \in 0..Len(claim) /\ Fits(Len(claim), n, max)
    BY <1>1, BoundedLenFits
<1> HIDE DEF n
<1>3. SubSeq(claim, 1, n) \in Seq(Addresses) /\ Len(SubSeq(claim, 1, n)) = n
      /\ \A a \in 1..n : SubSeq(claim, 1, n)[a] = claim[a]
    BY <1>1, <1>2
<1> QED
    BY <1>2, <1>3 DEF boundClaimAddresses, n

\* p is peer k with its claims, and the addresses of each, cut to what r asks.
PeerBounded(p, k, r) ==
    /\ p.key = k.key
    /\ Fits(Len(k.claims), Len(p.claims), r.MaxClaims)
    /\ \A j \in 1..Len(p.claims) :
          /\ Fits(Len(k.claims[j]), Len(p.claims[j]), r.MaxAddressesPerClaim)
          /\ \A a \in 1..Len(p.claims[j]) : p.claims[j][a] = k.claims[j][a]

LEMMA BoundPeer ==
    ASSUME NEW k \in PeerInfo, NEW r \in Requests
    PROVE  LET p == boundPeerClaims(k, r.MaxClaims, r.MaxAddressesPerClaim)
           IN  p \in PeerInfo /\ PeerBounded(p, k, r)
<1> DEFINE n == BoundedLen(Len(k.claims), r.MaxClaims)
           c == [j \in 1..n |-> boundClaimAddresses(k.claims[j], r.MaxAddressesPerClaim)]
<1>1. /\ k.key \in Keys /\ k.claims \in Seq(Seq(Addresses)) /\ Len(k.claims) \in Nat
      /\ r.MaxClaims \in Nat /\ r.MaxAddressesPerClaim \in Nat
    BY RpcAssumption, LenProperties DEF PeerInfo
<1>2. n \in 0..Len(k.claims) /\ Fits(Len(k.claims), n, r.MaxClaims)
    BY <1>1, BoundedLenFits
<1> HIDE DEF n
<1>3. ASSUME NEW j \in 1..n
      PROVE  LET cut1 == boundClaimAddresses(k.claims[j], r.MaxAddressesPerClaim)
             IN  /\ k.claims[j] \in Seq(Addresses) /\ cut1 \in Seq(Addresses)
                 /\ Fits(Len(k.claims[j]), Len(cut1), r.MaxAddressesPerClaim)
                 /\ \A a \in 1..Len(cut1) : cut1[a] = k.claims[j][a]
  <2>1. j \in 1..Len(k.claims)
      BY <1>1, <1>2
  <2>2. k.claims[j] \in Seq(Addresses)
      BY <1>1, <2>1, ElementOfSeq
  <2> QED
      BY <1>1, <2>2, BoundClaim
<1>4. c \in [1..n -> Seq(Addresses)] /\ n \in Nat
    BY <1>1, <1>2, <1>3
<1>5. c \in Seq(Seq(Addresses)) /\ Len(c) = n
    BY <1>4, SeqDef, LenProperties
<1>6. \A j \in 1..n : c[j] = boundClaimAddresses(k.claims[j], r.MaxAddressesPerClaim)
    OBVIOUS
<1>7. boundPeerClaims(k, r.MaxClaims, r.MaxAddressesPerClaim) = [key |-> k.key, claims |-> c]
    BY DEF boundPeerClaims, n
<1> HIDE DEF c
<1>8. [key |-> k.key, claims |-> c] \in PeerInfo
    BY <1>1, <1>5 DEF PeerInfo
<1>9. PeerBounded([key |-> k.key, claims |-> c], k, r)
    BY <1>2, <1>3, <1>5, <1>6 DEF PeerBounded
<1> QED
    BY <1>7, <1>8, <1>9

LEMMA BoundPeers ==
    ASSUME NEW peers \in Seq(PeerInfo), NEW r \in Requests
    PROVE  LET b == boundPeersForRequest(peers, r)
           IN  /\ b \in Seq(PeerInfo) /\ Fits(Len(peers), Len(b), r.N)
               /\ \A i \in 1..Len(b) : PeerBounded(b[i], peers[i], r)
<1> DEFINE n == BoundedLen(Len(peers), r.N)
           b == [i \in 1..n |-> boundPeerClaims(peers[i], r.MaxClaims, r.MaxAddressesPerClaim)]
<1>1. Len(peers) \in Nat /\ r.N \in Nat
    BY RpcAssumption, LenProperties
<1>2. n \in 0..Len(peers) /\ Fits(Len(peers), n, r.N)
    BY <1>1, BoundedLenFits
<1> HIDE DEF n
<1>3. ASSUME NEW i \in 1..n
      PROVE  LET p == boundPeerClaims(peers[i], r.MaxClaims, r.MaxAddressesPerClaim)
             IN  p \in PeerInfo /\ PeerBounded(p, peers[i], r)
  <2>1. i \in 1..Len(peers)
      BY <1>1, <1>2
  <2>2. peers[i] \in PeerInfo
      BY <2>1, ElementOfSeq
  <2> QED
      BY <2>2, BoundPeer
<1>4. b \in [1..n -> PeerInfo] /\ n \in Nat
    BY <1>1, <1>2, <1>3
<1>5. b \in Seq(PeerInfo) /\ Len(b) = n
    BY <1>4, SeqDef, LenProperties
<1>6. \A i \in 1..n : b[i] = boundPeerClaims(peers[i], r.MaxClaims, r.MaxAddressesPerClaim)
    OBVIOUS
<1>7. boundPeersForRequest(peers, r) = b
    BY DEF boundPeersForRequest, n
<1> HIDE DEF b
<1> QED
    BY <1>2, <1>3, <1>5, <1>6, <1>7

\* The responses that go with a list: one for each peer, FIN on the last; or a
\* single empty one.
LEMMA ResponsesOf ==
    ASSUME NEW b \in Seq(PeerInfo)
    PROVE  /\ Responses(b) \in Seq(ResponseFrames)
           /\ b = <<>> => Responses(b) = <<Response(0, TRUE, <<>>)>>
           /\ b # <<>> =>
                 /\ Len(b) \in Nat \ {0} /\ Len(Responses(b)) = Len(b)
                 /\ \A n \in 1..Len(b) : Responses(b)[n] = Response(0, n = Len(b), <<b[n]>>)
<1>1. ASSUME NEW fin \in BOOLEAN, NEW s \in Payloads
      PROVE  Response(0, fin, s) \in ResponseFrames
    BY DEF Response, Canonical, ResponseFrames
<1>2. <<>> \in Payloads
    BY EmptySeq DEF Payloads
<1>3. CASE b = <<>>
  <2>1. Responses(b) = <<Response(0, TRUE, <<>>)>>
      BY <1>3 DEF Responses
  <2>2. Response(0, TRUE, <<>>) \in ResponseFrames
      BY <1>1, <1>2
  <2>3. Responses(b) \in Seq(ResponseFrames)
      BY <2>1, <2>2, OneOf, ZenonT(60)
  <2> QED
      BY <1>3, <2>1, <2>3
<1>4. CASE b # <<>>
  <2> DEFINE s == [n \in 1..Len(b) |-> Response(0, n = Len(b), <<b[n]>>)]
  <2>1. Len(b) \in Nat \ {0}
      BY <1>4, EmptySeq, LenProperties
  <2>2. Responses(b) = s
      BY <1>4 DEF Responses, LastResponse
  <2>3. ASSUME NEW n \in 1..Len(b)
        PROVE  Response(0, n = Len(b), <<b[n]>>) \in ResponseFrames
    <3>1. b[n] \in PeerInfo
        BY ElementOfSeq
    <3>2. <<b[n]>> \in Payloads
        BY <3>1 DEF Payloads
    <3> QED
        BY <1>1, <3>2
  <2>4. s \in [1..Len(b) -> ResponseFrames]
      BY <2>3
  <2>5. s \in Seq(ResponseFrames) /\ Len(s) = Len(b)
      BY <2>1, <2>4, SeqDef, LenProperties
  <2> QED
      BY <1>4, <2>1, <2>2, <2>5, ZenonT(60)
<1> QED
    BY <1>3, <1>4

LEMMA BoundedIsList == CallInv => Bounded \in Seq(PeerInfo)
BY BoundPeers DEF CallInv, RpcTypeOK, Bounded
-----------------------------------------------------------------------------
(* Control: what a server sends.                                           *)

\* A step of a server that sends a frame: the client waits for one of its kind.
LEMMA ServerSendsCall ==
    ASSUME CallInv, NEW frame, CanSend(toC), ~ClientDone, toC' = Append(toC, frame),
           UNCHANGED <<inputs, cl, toS, cut>>, sent' \in Seq(PeerInfo),
           \/ sv.pc = "sendNego" /\ sv'.pc = "recvSession" /\ frame = Offer
           \/ /\ sv.pc = "sendNego" /\ sv'.pc = "done"
              /\ \E f \in {"none", "terminate", "not_supported"}, p \in ProtoNames : frame = Nego(f, p)
           \/ sv.pc = "sendReply" /\ sv'.pc = "recvRequest" /\ frame = Reply("accepted")
           \/ sv.pc = "sendReply" /\ sv'.pc = "done" /\ frame = Reply("rejected")
           \/ sv.pc = "sendResponses" /\ sv'.pc \in {"sendResponses", "done"} /\ frame \in ResponseFrames,
           sv' \in [pc : ServerPcs, canonical : BOOLEAN, proto : ProtoNames,
                    todo : Seq(PeerInfo) \cup Seq(ResponseFrames),
                    err : {None, "ok", "io", "misframed", "notSupported"}],
           sv'.proto = sv.proto, sv'.err # "misframed",
           kind = "ours" =>
              /\ sv'.todo \in Seq(ResponseFrames)
              /\ sv'.pc # "done" => sv'.canonical
              /\ sv.pc = "sendNego" /\ sv'.pc = "recvSession" => sv.proto = DhtProtocolID
              /\ sv.pc = "sendNego" /\ sv'.pc = "done" => frame = Nego("not_supported", None),
           kind = "foreign" => sv'.todo \in Seq(PeerInfo)
    PROVE  CallInv'
<1> USE DEF CallInv
<1>1. ~ServerDone /\ toS = <<>>
    BY DEF ServerDone, ServerSees
<1>2. /\ sv.pc = "sendNego" => cl.pc = "recvNego" /\ toC' = <<frame>>
      /\ sv.pc = "sendReply" => cl.pc = "recvReply" /\ toC' = <<frame>>
      /\ sv.pc = "sendResponses" => cl.pc = "recvResponse" /\ toC' \in Seq(ResponseFrames)
  <2>1. sv.pc = "sendNego" => cl.pc = "recvNego" /\ toC = <<>>
      BY <1>1 DEF InStep
  <2>2. sv.pc = "sendReply" => cl.pc = "recvReply" /\ toC = <<>>
      BY <1>1 DEF InStep
  <2>3. sv.pc = "sendResponses" => cl.pc = "recvResponse" /\ toC \in Seq(ResponseFrames)
      BY <1>1 DEF InStep, ClientSees
  <2> QED
      BY <2>1, <2>2, <2>3, OneFrame, AppendFacts
<1>3. Len(toC') <= StreamCap
  <2>1. Len(<<frame>>) = 1
      BY OneFrame
  <2>2. sv.pc = "sendResponses" => Len(toC) \in Nat /\ Len(toC') = Len(toC) + 1
      BY <1>1, AppendFacts DEF InStep, ClientSees
  <2> QED
      BY <1>2, <2>1, <2>2, RpcAssumption DEF CanSend
<1>4. RpcTypeOK'
    BY <1>3 DEF RpcTypeOK, ClientDone, inputs
<1>5. ClientSees'
  <2>1. sv.pc = "sendNego" => \E f \in {"none", "terminate", "not_supported"}, p \in ProtoNames : frame = Nego(f, p)
    <3>1. Protocol \in ProtoNames
        BY DEF Protocol, ProtoNames
    <3> QED
        BY <3>1 DEF Offer
  <2> QED
      BY <1>2, <2>1 DEF ClientSees
<1>6. ServerSees'
    BY <1>1 DEF ServerSees, Offer, Session, Request, Protocol, inputs
<1>7. InStep'
  <2>1. sv.pc = "sendNego" => sv'.pc = "done" \/ (sv'.pc = "recvSession" /\ toC' = <<Offer>>)
      BY <1>2
  <2>2. sv.pc = "sendReply" => sv'.pc = "done" \/ (sv'.pc = "recvRequest" /\ toC' = <<Reply("accepted")>>)
      BY <1>2
  <2>3. toS' = <<>> /\ Offer' = Offer
      BY <1>1 DEF Offer, Protocol, inputs
  <2> QED
      BY <1>2, <2>1, <2>2, <2>3 DEF InStep, ServerDone, ClientDone, Reply
<1>8. Modes'
    BY DEF Modes, ServerDone, ClientDone, inputs
<1>9. Agreed'
  <2>1. ASSUME kind = "ours", cl.pc = "recvNego", NEW p \in ProtoNames, toC' = <<Nego("none", p)>>
        PROVE  p = DhtProtocolID /\ sv'.proto = p
    <3>1. sv.pc = "sendNego"
        BY <2>1, <1>2
    <3>2. frame = Nego("none", p)
        BY <3>1, <1>2, <2>1, OneFrame
    <3>3. frame # Nego("not_supported", None)
        BY <3>2 DEF Nego
    <3>4. sv.proto = DhtProtocolID /\ frame = Offer
        BY <2>1, <3>1, <3>3
    <3>5. p = Protocol
        BY <3>2, <3>4 DEF Offer, Nego
    <3>6. sv.proto = Protocol
        BY <2>1, <3>1 DEF Agreed
    <3> QED
        BY <3>4, <3>5, <3>6
  <2>2. sv'.pc \notin {"recvNego", "sendNego"}
      OBVIOUS
  <2> QED
      BY <2>1, <2>2 DEF Agreed, Protocol, inputs
<1>10. NoMisframing'
    BY DEF NoMisframing
<1> QED
    BY <1>4, <1>5, <1>6, <1>7, <1>8, <1>9, <1>10

LEMMA ServerAnswersNegoCall == CallInv /\ ServerAnswersNego => CallInv'
<1> SUFFICES ASSUME CallInv, ServerAnswersNego PROVE CallInv'
    OBVIOUS
<1> USE DEF CallInv
<1>1. /\ kind = "ours" /\ sv.pc = "sendNego" /\ CanSend(toC) /\ ~ClientDone
      /\ UNCHANGED <<inputs, cl, toS, sent, cut>>
    BY DEF ServerAnswersNego
<1>2. sv.todo \in Seq(ResponseFrames) /\ kind # "foreign" /\ sv.proto = Protocol /\ sent' \in Seq(PeerInfo)
    BY <1>1 DEF RpcTypeOK, Agreed
<1>3. CASE sv.proto = DhtProtocolID
  <2>1. /\ toC' = Append(toC, Offer)
        /\ sv' = [sv EXCEPT !.pc = "recvSession", !.canonical = TRUE]
      BY <1>2, <1>3 DEF ServerAnswersNego, ServerFraming, Offer
  <2>2. /\ sv'.pc = "recvSession" /\ sv'.canonical /\ sv'.err = sv.err
        /\ sv'.proto = sv.proto /\ sv'.todo = sv.todo
        /\ sv' \in [pc : ServerPcs, canonical : BOOLEAN, proto : ProtoNames,
                    todo : Seq(PeerInfo) \cup Seq(ResponseFrames),
                    err : {None, "ok", "io", "misframed", "notSupported"}]
      BY <2>1 DEF RpcTypeOK, ServerPcs
  <2>3. sv'.err # "misframed"
      BY <2>2 DEF NoMisframing
  <2> QED
      BY <1>1, <1>2, <1>3, <2>1, <2>2, <2>3, ServerSendsCall
<1>4. CASE sv.proto # DhtProtocolID
  <2>1. /\ toC' = Append(toC, Nego("not_supported", None))
        /\ sv' = [sv EXCEPT !.pc = "done", !.err = "notSupported"]
      BY <1>4 DEF ServerAnswersNego
  <2>2. /\ sv'.pc = "done" /\ sv'.err = "notSupported"
        /\ sv'.proto = sv.proto /\ sv'.todo = sv.todo
        /\ sv' \in [pc : ServerPcs, canonical : BOOLEAN, proto : ProtoNames,
                    todo : Seq(PeerInfo) \cup Seq(ResponseFrames),
                    err : {None, "ok", "io", "misframed", "notSupported"}]
      BY <2>1 DEF RpcTypeOK, ServerPcs
  <2>3. None \in ProtoNames
      BY DEF ProtoNames
  <2> QED
      BY <1>1, <1>2, <2>1, <2>2, <2>3, ServerSendsCall
<1> QED
    BY <1>3, <1>4

LEMMA ServerRepliesCall == CallInv /\ ServerReplies => CallInv'
<1> SUFFICES ASSUME CallInv, ServerReplies PROVE CallInv'
    OBVIOUS
<1> USE DEF CallInv
<1>1. /\ kind = "ours" /\ sv.pc = "sendReply" /\ CanSend(toC) /\ ~ClientDone
      /\ toC' = Append(toC, Reply("accepted"))
      /\ sv' = [sv EXCEPT !.pc = "recvRequest"]
      /\ UNCHANGED <<inputs, cl, toS, sent, cut>>
    BY DEF ServerReplies, Reply
<1>2. sv.todo \in Seq(ResponseFrames) /\ kind # "foreign" /\ sent' \in Seq(PeerInfo) /\ sv.canonical
    BY <1>1 DEF RpcTypeOK, Modes, ServerDone
<1>3. /\ sv'.pc = "recvRequest" /\ sv'.canonical = sv.canonical /\ sv'.err = sv.err
      /\ sv'.proto = sv.proto /\ sv'.todo = sv.todo
      /\ sv' \in [pc : ServerPcs, canonical : BOOLEAN, proto : ProtoNames,
                  todo : Seq(PeerInfo) \cup Seq(ResponseFrames),
                  err : {None, "ok", "io", "misframed", "notSupported"}]
    BY <1>1 DEF RpcTypeOK, ServerPcs
<1>4. sv'.err # "misframed"
    BY <1>3 DEF NoMisframing
<1> QED
    BY <1>1, <1>2, <1>3, <1>4, ServerSendsCall

\* What the server has to send once it has read the request.
LEMMA ReadsRequestEffect ==
    ASSUME CallInv, ServerReadsRequest
    PROVE  /\ kind = "ours" /\ sv.pc = "recvRequest" /\ toS # <<>> /\ toS' = Tail(toS)
           /\ UNCHANGED <<inputs, cl, toC, sent, cut>>
           /\ sv'.pc = "sendResponses" /\ sv'.todo = Responses(Bounded)
           /\ sv'.canonical = sv.canonical /\ sv'.err = sv.err /\ sv'.proto = sv.proto
           /\ sv' \in [pc : ServerPcs, canonical : BOOLEAN, proto : ProtoNames,
                       todo : Seq(PeerInfo) \cup Seq(ResponseFrames),
                       err : {None, "ok", "io", "misframed", "notSupported"}]
           /\ sv'.todo \in Seq(ResponseFrames)
<1> USE DEF CallInv
<1>1. kind = "ours" /\ sv.pc = "recvRequest" /\ toS # <<>> /\ toS' = Tail(toS) /\ toC' = toC
    BY DEF ServerReadsRequest
<1>2. Head(toS) = Request
    BY <1>1, OneFrame DEF ServerSees
<1>3. Head(toS).framing = "canonical" /\ Head(toS).msg.req = req
    BY <1>2 DEF Request, Canonical
<1>4. Mode(sv) = "canonical"
    BY <1>1 DEF Modes, Mode, ServerDone
<1>5. /\ sv' = [sv EXCEPT !.pc = "sendResponses", !.todo = Responses(Bounded)]
      /\ UNCHANGED <<inputs, cl, sent, cut>>
    BY <1>3, <1>4 DEF ServerReadsRequest, Bounded
<1>6. Responses(Bounded) \in Seq(ResponseFrames)
    BY BoundedIsList, ResponsesOf
<1>7. /\ sv'.pc = "sendResponses" /\ sv'.todo = Responses(Bounded)
      /\ sv'.canonical = sv.canonical /\ sv'.err = sv.err /\ sv'.proto = sv.proto
      /\ sv' \in [pc : ServerPcs, canonical : BOOLEAN, proto : ProtoNames,
                  todo : Seq(PeerInfo) \cup Seq(ResponseFrames),
                  err : {None, "ok", "io", "misframed", "notSupported"}]
    BY <1>5, <1>6 DEF RpcTypeOK, ServerPcs
<1> QED
    BY <1>1, <1>5, <1>6, <1>7

LEMMA ServerReadsRequestCall == CallInv /\ ServerReadsRequest => CallInv'
<1> SUFFICES ASSUME CallInv, ServerReadsRequest PROVE CallInv'
    OBVIOUS
<1>1. kind # "foreign"
    BY ReadsRequestEffect
<1> QED
    BY <1>1, ReadsRequestEffect, ServerReadsCall
LEMMA ResponseFields ==
    ASSUME NEW fin \in BOOLEAN, NEW p
    PROVE  /\ Response(0, fin, p).msg.fin = fin /\ Response(0, fin, p).msg.payload = p
           /\ Response(0, fin, p).msg.status = 0
BY DEF Response, Canonical

LEMMA ShortSeq ==
    ASSUME NEW S, NEW p \in Seq(S), Len(p) <= 1, p # <<>>
    PROVE  p[1] \in S /\ p = <<p[1]>>
<1> DEFINE n == Len(p)
<1>1. n \in Nat /\ n >= 1 /\ n <= 1
    BY TailFacts
<1>2. n = 1
  <2> HIDE DEF n
  <2> QED
      BY <1>1
<1>3. p[1] \in S
    BY <1>2, ElementOfSeq
<1> QED
    BY <1>2, <1>3

LEMMA PayloadCases ==
    ASSUME NEW s \in Seq(PeerInfo), NEW p \in Payloads
    PROVE  \/ p = <<>> /\ s \o p = s
           \/ \E x \in PeerInfo : p = <<x>> /\ s \o p = Append(s, x)
<1>1. p \in Seq(PeerInfo) /\ Len(p) <= 1
    BY DEF Payloads
<1>2. CASE p = <<>>
    BY <1>2, ConcatEmptySeq
<1>3. CASE p # <<>>
  <2>1. p[1] \in PeerInfo /\ p = <<p[1]>>
      BY <1>1, <1>3, ShortSeq
  <2>2. s \o <<p[1]>> = Append(s, p[1])
      BY <2>1
  <2> QED
      BY <2>1, <2>2
<1> QED
    BY <1>2, <1>3

\* One response of ServeGetPeers: the next peer of the bounded list, with FIN
\* exactly when it is the last; or the single empty response.
LEMMA RespondsEffect ==
    ASSUME RpcInv, ServerResponds
    PROVE  LET r == Head(sv.todo)
           IN  /\ kind = "ours" /\ sv.pc = "sendResponses" /\ CanSend(toC) /\ ~ClientDone
               /\ UNCHANGED <<inputs, cl, toS, cut>>
               /\ r \in ResponseFrames /\ toC' = Append(toC, r) /\ sent' = sent \o r.msg.payload
               /\ sv'.pc = (IF r.msg.fin THEN "done" ELSE "sendResponses")
               /\ sv'.proto = sv.proto /\ sv'.err # "misframed" /\ sv'.canonical = sv.canonical
               /\ sv'.todo = Tail(sv.todo) /\ sv'.todo \in Seq(ResponseFrames)
               /\ sv' \in [pc : ServerPcs, canonical : BOOLEAN, proto : ProtoNames,
                           todo : Seq(PeerInfo) \cup Seq(ResponseFrames),
                           err : {None, "ok", "io", "misframed", "notSupported"}]
               /\ \/ Bounded = <<>> /\ sent = <<>> /\ sent' = <<>> /\ r.msg.fin
                  \/ /\ Len(sent) < Len(Bounded) /\ sent' = Append(sent, Bounded[Len(sent) + 1])
                     /\ r.msg.fin <=> Len(sent) + 1 = Len(Bounded)
<1> USE DEF RpcInv, CallInv
<1> DEFINE r == Head(sv.todo)
           last == Len(sv.todo) = 1
<1>1. /\ kind = "ours" /\ sv.pc = "sendResponses" /\ CanSend(toC) /\ ~ClientDone
      /\ UNCHANGED <<inputs, cl, toS, cut>>
      /\ toC' = Append(toC, r) /\ sent' = sent \o r.msg.payload
      /\ sv' = [sv EXCEPT !.todo = Tail(@),
                          !.pc = IF last THEN "done" ELSE @,
                          !.err = IF last THEN "ok" ELSE @]
    BY DEF ServerResponds
<1>2. sv.todo \in Seq(ResponseFrames) /\ Bounded \in Seq(PeerInfo) /\ sent \in Seq(PeerInfo)
    BY <1>1, BoundedIsList DEF RpcTypeOK
<1>3. Len(sv.todo) \in Nat /\ Len(Bounded) \in Nat /\ Len(sent) \in Nat
    BY <1>2, LenProperties
<1>4. \/ Bounded = <<>> /\ sent = <<>> /\ sv.todo = <<Response(0, TRUE, <<>>)>>
      \/ /\ Len(sent) < Len(Bounded) /\ Len(sv.todo) = Len(Bounded) - Len(sent)
         /\ \A n \in 1..Len(sv.todo) :
               sv.todo[n] = Response(0, Len(sent) + n = Len(Bounded), <<Bounded[Len(sent) + n]>>)
    BY <1>1 DEF OwedInv
<1>5. sv.todo # <<>>
  <2>1. Len(<<>>) = 0 /\ Len(<<Response(0, TRUE, <<>>)>>) = 1
      OBVIOUS
  <2>2. Len(sv.todo) # 0
    <3>1. CASE sv.todo = <<Response(0, TRUE, <<>>)>>
        BY <2>1, <3>1
    <3>2. CASE Len(sent) < Len(Bounded) /\ Len(sv.todo) = Len(Bounded) - Len(sent)
        BY <1>3, <3>2
    <3> QED
        BY <1>4, <3>1, <3>2
  <2> QED
      BY <2>1, <2>2
<1>6. r \in ResponseFrames /\ r = sv.todo[1] /\ Tail(sv.todo) \in Seq(ResponseFrames)
    BY <1>2, <1>5, TailFacts
<1>7. /\ r.msg.fin <=> last
      /\ \/ Bounded = <<>> /\ sent = <<>> /\ sent' = <<>> /\ r.msg.fin
         \/ /\ Len(sent) < Len(Bounded) /\ sent' = Append(sent, Bounded[Len(sent) + 1])
            /\ r.msg.fin <=> Len(sent) + 1 = Len(Bounded)
  <2>1. CASE Bounded = <<>> /\ sent = <<>> /\ sv.todo = <<Response(0, TRUE, <<>>)>>
    <3>1. r = Response(0, TRUE, <<>>) /\ last
        BY <2>1, OneFrame
    <3>2. r.msg.fin /\ r.msg.payload = <<>>
        BY <3>1 DEF Response, Canonical
    <3>3. sent' = <<>>
        BY <1>1, <3>2, <2>1, ConcatEmptySeq, <1>2
    <3> QED
        BY <2>1, <3>1, <3>2, <3>3
  <2>2. CASE /\ Len(sent) < Len(Bounded) /\ Len(sv.todo) = Len(Bounded) - Len(sent)
             /\ \A n \in 1..Len(sv.todo) :
                   sv.todo[n] = Response(0, Len(sent) + n = Len(Bounded), <<Bounded[Len(sent) + n]>>)
    <3>1. 1 \in 1..Len(sv.todo)
        BY <2>2, <1>3
    <3>2. r = Response(0, Len(sent) + 1 = Len(Bounded), <<Bounded[Len(sent) + 1]>>)
        BY <2>2, <3>1, <1>6
    <3>3. (r.msg.fin <=> Len(sent) + 1 = Len(Bounded)) /\ r.msg.payload = <<Bounded[Len(sent) + 1]>>
        BY <3>2, ResponseFields, ZenonT(60)
    <3>4. last <=> Len(sent) + 1 = Len(Bounded)
        BY <2>2, <1>3
    <3>5. sent' = Append(sent, Bounded[Len(sent) + 1])
      <4>1. Bounded[Len(sent) + 1] \in PeerInfo
          BY <1>2, <1>3, <2>2, ElementOfSeq
      <4>2. sent \o <<Bounded[Len(sent) + 1]>> = Append(sent, Bounded[Len(sent) + 1])
          BY <4>1, <1>2
      <4> QED
          BY <4>2, <3>3, <1>1
    <3> QED
        BY <2>2, <3>3, <3>4, <3>5
  <2> QED
      BY <1>4, <2>1, <2>2
<1>8. /\ sv'.pc = (IF last THEN "done" ELSE "sendResponses")
      /\ sv'.proto = sv.proto /\ sv'.err \in {sv.err, "ok"} /\ sv'.canonical = sv.canonical
      /\ sv'.todo = Tail(sv.todo)
      /\ sv' \in [pc : ServerPcs, canonical : BOOLEAN, proto : ProtoNames,
                  todo : Seq(PeerInfo) \cup Seq(ResponseFrames),
                  err : {None, "ok", "io", "misframed", "notSupported"}]
  <2> HIDE DEF last
  <2> QED
      BY <1>1, <1>6 DEF RpcTypeOK, ServerPcs
<1>9. sv'.err # "misframed"
    BY <1>8 DEF NoMisframing
<1> QED
    BY <1>1, <1>6, <1>7, <1>8, <1>9

LEMMA ServerRespondsCall == RpcInv /\ ServerResponds => CallInv'
<1> SUFFICES ASSUME RpcInv, ServerResponds PROVE CallInv'
    OBVIOUS
<1> DEFINE r == Head(sv.todo)
<1>1. /\ kind = "ours" /\ sv.pc = "sendResponses" /\ CanSend(toC) /\ ~ClientDone
      /\ UNCHANGED <<inputs, cl, toS, cut>>
      /\ r \in ResponseFrames /\ toC' = Append(toC, r) /\ sent' = sent \o r.msg.payload
      /\ sv'.pc \in {"done", "sendResponses"}
      /\ sv'.proto = sv.proto /\ sv'.err # "misframed" /\ sv'.canonical = sv.canonical
      /\ sv'.todo \in Seq(ResponseFrames)
      /\ sv' \in [pc : ServerPcs, canonical : BOOLEAN, proto : ProtoNames,
                  todo : Seq(PeerInfo) \cup Seq(ResponseFrames),
                  err : {None, "ok", "io", "misframed", "notSupported"}]
    BY RespondsEffect
<1>2. sent' \in Seq(PeerInfo)
  <2>1. r.msg.payload \in Seq(PeerInfo) /\ sent \in Seq(PeerInfo)
      BY <1>1 DEF ResponseFrames, Payloads, RpcInv, CallInv, RpcTypeOK
  <2>2. sent \o r.msg.payload \in Seq(PeerInfo)
      BY <2>1, ConcatProperties, Zenon
  <2> QED
      BY <1>1, <2>2
<1>3. sv.canonical /\ kind # "foreign"
    BY <1>1 DEF RpcInv, CallInv, Modes, ServerDone
<1> HIDE DEF r
<1> QED
    BY <1>1, <1>2, <1>3, ServerSendsCall DEF RpcInv

-----------------------------------------------------------------------------
(* Control: another implementation of the server.                          *)

LEMMA ForeignReadsCall == CallInv /\ ForeignReads => CallInv'
<1> SUFFICES ASSUME CallInv, ForeignReads PROVE CallInv'
    OBVIOUS
<1> USE DEF CallInv
<1>1. /\ kind = "foreign" /\ toS # <<>> /\ toS' = Tail(toS)
      /\ sv.pc \in {"recvNego", "recvSession", "recvRequest"}
      /\ UNCHANGED <<inputs, cl, toC, sent, cut>>
    BY DEF ForeignReads
<1>2. sv.todo \in Seq(PeerInfo) /\ known \in Seq(PeerInfo) /\ kind # "ours"
    BY <1>1 DEF RpcTypeOK
<1>3. /\ \/ sv.pc = "recvNego" /\ sv'.pc = "sendNego"
         \/ sv.pc = "recvSession" /\ sv'.pc = "sendReply"
         \/ sv.pc = "recvRequest" /\ sv'.pc = "sendResponses"
      /\ sv'.todo \in {known, sv.todo}
      /\ sv'.canonical = sv.canonical /\ sv'.err = sv.err
      /\ sv' \in [pc : ServerPcs, canonical : BOOLEAN, proto : ProtoNames,
                  todo : Seq(PeerInfo) \cup Seq(ResponseFrames),
                  err : {None, "ok", "io", "misframed", "notSupported"}]
  <2>1. sv \in [pc : ServerPcs, canonical : BOOLEAN, proto : ProtoNames,
                todo : Seq(PeerInfo) \cup Seq(ResponseFrames),
                err : {None, "ok", "io", "misframed", "notSupported"}]
      BY DEF RpcTypeOK
  <2>2. CASE sv.pc = "recvNego"
    <3>1. sv' = [sv EXCEPT !.pc = "sendNego", !.todo = @]
        BY <2>2 DEF ForeignReads
    <3> QED
        BY <2>1, <2>2, <3>1, <1>2 DEF ServerPcs
  <2>3. CASE sv.pc = "recvSession"
    <3>1. sv' = [sv EXCEPT !.pc = "sendReply", !.todo = @]
        BY <2>3 DEF ForeignReads
    <3> QED
        BY <2>1, <2>3, <3>1, <1>2 DEF ServerPcs
  <2>4. CASE sv.pc = "recvRequest"
    <3>1. sv' = [sv EXCEPT !.pc = "sendResponses", !.todo = known]
        BY <2>4 DEF ForeignReads
    <3> QED
        BY <2>1, <2>4, <3>1, <1>2 DEF ServerPcs
  <2> QED
      BY <1>1, <2>2, <2>3, <2>4
<1>4. sv'.todo \in Seq(PeerInfo)
    BY <1>2, <1>3
<1> QED
    BY <1>1, <1>2, <1>3, <1>4, ServerReadsCall

LEMMA ForeignSendsCall ==
    ASSUME CallInv, NEW frame, NEW pc, ForeignSends(frame, pc),
           UNCHANGED <<inputs, cl, toS, sent, cut>>,
           \/ sv.pc = "sendNego" /\ pc = "recvSession" /\ frame = Offer
           \/ /\ sv.pc = "sendNego" /\ pc = "done"
              /\ \E f \in {"none", "terminate", "not_supported"}, p \in ProtoNames : frame = Nego(f, p)
           \/ sv.pc = "sendReply" /\ pc = "recvRequest" /\ frame = Reply("accepted")
           \/ sv.pc = "sendReply" /\ pc = "done" /\ frame = Reply("rejected")
    PROVE  CallInv'
<1> USE DEF CallInv
<1>1. /\ kind = "foreign" /\ CanSend(toC) /\ ~ClientDone
      /\ toC' = Append(toC, frame) /\ sv' = [sv EXCEPT !.pc = pc]
    BY DEF ForeignSends
<1>2. sv.todo \in Seq(PeerInfo) /\ sent' \in Seq(PeerInfo) /\ kind # "ours"
    BY <1>1 DEF RpcTypeOK
<1>3. /\ sv'.pc = pc /\ sv'.todo = sv.todo /\ sv'.proto = sv.proto /\ sv'.err = sv.err
      /\ sv' \in [pc : ServerPcs, canonical : BOOLEAN, proto : ProtoNames,
                  todo : Seq(PeerInfo) \cup Seq(ResponseFrames),
                  err : {None, "ok", "io", "misframed", "notSupported"}]
    BY <1>1 DEF RpcTypeOK, ServerPcs
<1>4. sv'.err # "misframed"
    BY <1>3 DEF NoMisframing
<1> QED
    BY <1>1, <1>2, <1>3, <1>4, ServerSendsCall

LEMMA ForeignAnswersNegoCall == CallInv /\ ForeignAnswersNego => CallInv'
<1> SUFFICES ASSUME CallInv, ForeignAnswersNego PROVE CallInv'
    OBVIOUS
<1>1. sv.pc = "sendNego" /\ UNCHANGED <<inputs, cl, toS, sent, cut>>
    BY DEF ForeignAnswersNego
<1>2. None \in ProtoNames /\ "t/other/1" \in ProtoNames
    BY DEF ProtoNames
<1>3. CASE ForeignSends(Nego("none", Protocol), "recvSession")
    BY <1>1, <1>3, ForeignSendsCall DEF Offer
<1>4. CASE \E f \in {"terminate", "not_supported"} : ForeignSends(Nego(f, None), "done")
    BY <1>1, <1>2, <1>4, ForeignSendsCall
<1>5. CASE ForeignSends(Nego("none", "t/other/1"), "done")
    BY <1>1, <1>2, <1>5, ForeignSendsCall
<1> QED
    BY <1>3, <1>4, <1>5 DEF ForeignAnswersNego

LEMMA ForeignRepliesCall == CallInv /\ ForeignReplies => CallInv'
<1> SUFFICES ASSUME CallInv, ForeignReplies PROVE CallInv'
    OBVIOUS
<1>1. sv.pc = "sendReply" /\ UNCHANGED <<inputs, cl, toS, sent, cut>>
    BY DEF ForeignReplies
<1>2. \/ ForeignSends(Reply("accepted"), "recvRequest")
      \/ ForeignSends(Reply("rejected"), "done")
    BY DEF ForeignReplies, Reply
<1> QED
    BY <1>1, <1>2, ForeignSendsCall
\* What a response of another server is: at most one peer, and FIN ends it.
LEMMA ForeignRespondsEffect ==
    ASSUME CallInv, ForeignResponds
    PROVE  /\ kind = "foreign" /\ sv.pc = "sendResponses" /\ CanSend(toC) /\ ~ClientDone
           /\ UNCHANGED <<inputs, cl, toS, cut>>
           /\ \E r \in ResponseFrames :
                 /\ toC' = Append(toC, r) /\ sent' = sent \o r.msg.payload
                 /\ sv'.pc = (IF r.msg.fin THEN "done" ELSE "sendResponses")
           /\ sv'.proto = sv.proto /\ sv'.err = sv.err
           /\ sv'.todo \in Seq(PeerInfo)
           /\ sv' \in [pc : ServerPcs, canonical : BOOLEAN, proto : ProtoNames,
                       todo : Seq(PeerInfo) \cup Seq(ResponseFrames),
                       err : {None, "ok", "io", "misframed", "notSupported"}]
<1> USE DEF CallInv
<1>1. /\ kind = "foreign" /\ sv.pc = "sendResponses" /\ CanSend(toC) /\ ~ClientDone
      /\ UNCHANGED <<inputs, cl, toS, cut>>
    BY DEF ForeignResponds
<1>2. sv.todo \in Seq(PeerInfo)
    BY <1>1 DEF RpcTypeOK
<1>3. PICK status \in {0, 1}, fin \in BOOLEAN, withPeer \in BOOLEAN :
          LET payload == IF withPeer THEN <<Head(sv.todo)>> ELSE <<>>
          IN  /\ withPeer => sv.todo # <<>> /\ status = 0
              /\ toC' = Append(toC, Response(status, fin, payload))
              /\ sent' = sent \o payload
              /\ sv' = [sv EXCEPT !.todo = IF withPeer THEN Tail(@) ELSE @,
                                  !.pc = IF fin THEN "done" ELSE @]
    BY DEF ForeignResponds
<1> DEFINE payload == IF withPeer THEN <<Head(sv.todo)>> ELSE <<>>
           r == Response(status, fin, payload)
           todo == IF withPeer THEN Tail(sv.todo) ELSE sv.todo
<1>4. payload \in Payloads /\ todo \in Seq(PeerInfo)
  <2>1. CASE withPeer
    <3>1. Head(sv.todo) \in PeerInfo /\ Tail(sv.todo) \in Seq(PeerInfo)
        BY <2>1, <1>2, <1>3, TailFacts
    <3>2. <<Head(sv.todo)>> \in Seq(PeerInfo) /\ Len(<<Head(sv.todo)>>) = 1
        BY <3>1, OneOf, OneFrame
    <3> QED
        BY <2>1, <3>1, <3>2 DEF Payloads
  <2>2. CASE ~withPeer
    <3>1. <<>> \in Seq(PeerInfo) /\ Len(<<>>) = 0
        BY EmptySeq
    <3> QED
        BY <2>2, <3>1, <1>2 DEF Payloads
  <2> QED
      BY <2>1, <2>2
<1>5. /\ toC' = Append(toC, r) /\ sent' = sent \o payload
      /\ sv' = [sv EXCEPT !.todo = todo, !.pc = IF fin THEN "done" ELSE @]
    BY <1>3
<1> HIDE DEF payload, todo
<1>6. r \in ResponseFrames /\ r.msg.payload = payload /\ r.msg.fin = fin
    BY <1>4 DEF Response, Canonical, ResponseFrames
<1>7. /\ sv'.pc = (IF fin THEN "done" ELSE "sendResponses")
      /\ sv'.proto = sv.proto /\ sv'.err = sv.err /\ sv'.todo = todo
      /\ sv' \in [pc : ServerPcs, canonical : BOOLEAN, proto : ProtoNames,
                  todo : Seq(PeerInfo) \cup Seq(ResponseFrames),
                  err : {None, "ok", "io", "misframed", "notSupported"}]
    BY <1>1, <1>4, <1>5 DEF RpcTypeOK, ServerPcs
<1> HIDE DEF r
<1>8. \E q \in ResponseFrames :
          /\ toC' = Append(toC, q) /\ sent' = sent \o q.msg.payload
          /\ sv'.pc = (IF q.msg.fin THEN "done" ELSE "sendResponses")
    BY <1>5, <1>6, <1>7
<1> QED
    BY <1>1, <1>4, <1>7, <1>8

LEMMA ForeignRespondsCall == CallInv /\ ForeignResponds => CallInv'
<1> SUFFICES ASSUME CallInv, ForeignResponds PROVE CallInv'
    OBVIOUS
<1>1. PICK r \in ResponseFrames :
          /\ toC' = Append(toC, r) /\ sent' = sent \o r.msg.payload
          /\ sv'.pc = (IF r.msg.fin THEN "done" ELSE "sendResponses")
    BY ForeignRespondsEffect
<1>2. /\ kind = "foreign" /\ sv.pc = "sendResponses" /\ CanSend(toC) /\ ~ClientDone
      /\ UNCHANGED <<inputs, cl, toS, cut>>
      /\ sv'.proto = sv.proto /\ sv'.err = sv.err
      /\ sv'.todo \in Seq(PeerInfo)
      /\ sv' \in [pc : ServerPcs, canonical : BOOLEAN, proto : ProtoNames,
                  todo : Seq(PeerInfo) \cup Seq(ResponseFrames),
                  err : {None, "ok", "io", "misframed", "notSupported"}]
    BY ForeignRespondsEffect
<1>3. sent' \in Seq(PeerInfo)
  <2>1. r.msg.payload \in Seq(PeerInfo) /\ sent \in Seq(PeerInfo)
      BY DEF ResponseFrames, Payloads, CallInv, RpcTypeOK
  <2>2. sent \o r.msg.payload \in Seq(PeerInfo)
      BY <2>1, ConcatProperties, Zenon
  <2> QED
      BY <1>1, <2>2
<1>4. kind # "ours" /\ sv'.err # "misframed" /\ sv'.pc \in {"sendResponses", "done"}
    BY <1>1, <1>2 DEF CallInv, NoMisframing
<1> QED
    BY <1>1, <1>2, <1>3, <1>4, ServerSendsCall

LEMMA IdleCall == CallInv /\ (Cut \/ UNCHANGED vars) => CallInv'
<1> SUFFICES ASSUME CallInv, UNCHANGED <<inputs, cl, sv, toS, toC, sent>> PROVE CallInv'
    BY DEF Cut, vars, inputs
<1> USE DEF CallInv, inputs
<1>1. RpcTypeOK'
    BY DEF RpcTypeOK, ClientDone
<1>2. ClientSees' /\ ServerSees'
    BY DEF ClientSees, ServerSees, Offer, Session, Request, Protocol
<1>3. InStep'
    BY DEF InStep, ClientDone, ServerDone, Offer, Protocol
<1>4. Modes' /\ Agreed' /\ NoMisframing'
    BY DEF Modes, Agreed, NoMisframing, ClientDone, ServerDone, Protocol
<1> QED
    BY <1>1, <1>2, <1>3, <1>4

LEMMA NextCall == RpcInv /\ [Next]_vars => CallInv'
<1> SUFFICES ASSUME RpcInv, [Next]_vars PROVE CallInv'
    OBVIOUS
<1>0. CallInv
    BY DEF RpcInv
<1>1. CASE ClientStep
    BY <1>0, <1>1, ClientStartCall, ClientNegotiatesCall, ClientReadsNegoCall,
       ClientOpensSessionCall, ClientReadsReplyCall, ClientRequestsCall, ClientGivesUpCall,
       ClientReadsResponseCall, ClientIOErrorCall DEF ClientStep
<1>2. CASE ServerStep
    BY <1>0, <1>2, ServerReadsNegoCall, ServerAnswersNegoCall, ServerReadsSessionCall,
       ServerRepliesCall, ServerReadsRequestCall, ServerRespondsCall, ServerIOErrorCall
       DEF ServerStep
<1>3. CASE ForeignStep
    BY <1>0, <1>3, ForeignReadsCall, ForeignAnswersNegoCall, ForeignRepliesCall,
       ForeignRespondsCall DEF ForeignStep
<1>4. CASE Cut \/ UNCHANGED vars
    BY <1>0, <1>4, IdleCall
<1> QED
    BY <1>1, <1>2, <1>3, <1>4 DEF Next
-----------------------------------------------------------------------------
(* The peers in flight.                                                    *)

LEMMA InFlightEmpty ==
    ASSUME NEW peers \in Seq(PeerInfo), NEW out \in Seq(PeerInfo), NEW f,
           InFlight(f, peers, <<>>, out)
    PROVE  peers = out
<1>1. Len(<<>>) = 0
    OBVIOUS
<1>2. Len(peers) = Len(out) /\ \A n \in 1..Len(peers) : peers[n] = out[n]
    BY <1>1 DEF InFlight
<1> QED
    BY <1>2, SeqEqual

LEMMA InFlightAppend ==
    ASSUME NEW peers \in Seq(PeerInfo), NEW out \in Seq(PeerInfo),
           NEW frames \in Seq(ResponseFrames), NEW r \in ResponseFrames,
           NEW f \in [0..Len(frames) -> 0..Len(out)], InFlight(f, peers, frames, out)
    PROVE  \E g \in [0..Len(Append(frames, r)) -> 0..Len(out \o r.msg.payload)] :
              InFlight(g, peers, Append(frames, r), out \o r.msg.payload)
<1> DEFINE fs == Append(frames, r)
           new == out \o r.msg.payload
           k == Len(frames)
           g == [i \in 0..(k + 1) |-> IF i <= k THEN f[i] ELSE Len(new)]
<1>1. /\ k \in Nat /\ Len(fs) = k + 1 /\ fs[k + 1] = r
      /\ \A n \in 1..k : fs[n] = frames[n]
    BY AppendFacts
<1>2. Len(out) \in Nat /\ Len(peers) \in Nat
    BY LenProperties
<1>3. /\ new \in Seq(PeerInfo) /\ \A n \in 1..Len(out) : new[n] = out[n]
      /\ \/ r.msg.payload = <<>> /\ Len(new) = Len(out)
         \/ Len(new) = Len(out) + 1 /\ r.msg.payload = <<new[Len(new)]>>
  <2>1. r.msg.payload \in Payloads
      BY DEF ResponseFrames
  <2>2. CASE r.msg.payload = <<>> /\ new = out
      BY <2>2
  <2>3. CASE \E x \in PeerInfo : r.msg.payload = <<x>> /\ new = Append(out, x)
    <3>1. PICK x \in PeerInfo : r.msg.payload = <<x>> /\ new = Append(out, x)
        BY <2>3
    <3>2. /\ Append(out, x) \in Seq(PeerInfo) /\ Len(Append(out, x)) = Len(out) + 1
          /\ Append(out, x)[Len(out) + 1] = x
          /\ \A n \in 1..Len(out) : Append(out, x)[n] = out[n]
        BY AppendFacts
    <3> QED
        BY <3>1, <3>2
  <2> QED
      BY <2>1, <2>2, <2>3, PayloadCases
<1> HIDE DEF new, fs, k
<1>4. f \in [0..k -> 0..Len(out)] /\ f[0] = Len(peers) /\ f[k] = Len(out)
    BY DEF InFlight, k
<1>5. Len(new) \in Nat /\ Len(out) <= Len(new)
    BY <1>2, <1>3
<1>6. g \in [0..(k + 1) -> 0..Len(new)]
  <2>1. ASSUME NEW i \in 0..(k + 1)
        PROVE  (IF i <= k THEN f[i] ELSE Len(new)) \in 0..Len(new)
    <3>1. CASE i <= k
      <4>1. i \in 0..k
          BY <1>1, <3>1
      <4>2. f[i] \in 0..Len(out)
          BY <4>1, <1>4
      <4> QED
          BY <3>1, <4>2, <1>2, <1>5
    <3>2. CASE ~(i <= k)
        BY <3>2, <1>5
    <3> QED
        BY <3>1, <3>2
  <2> QED
      BY <2>1
<1>7. g[0] = f[0] /\ g[k] = f[k] /\ g[k + 1] = Len(new) /\ \A i \in 0..k : g[i] = f[i]
    BY <1>1
<1> HIDE DEF g
<1>8. ASSUME NEW n \in 1..(k + 1)
      PROVE  \/ fs[n].msg.payload = <<>> /\ g[n] = g[n - 1]
             \/ g[n] = g[n - 1] + 1 /\ fs[n].msg.payload = <<new[g[n]]>>
  <2>1. CASE n = k + 1
    <3>1. n - 1 = k /\ fs[n] = r
        BY <2>1, <1>1
    <3> QED
        BY <2>1, <3>1, <1>3, <1>4, <1>7
  <2>2. CASE n # k + 1
    <3>1. n \in 1..k /\ n \in 0..k /\ n - 1 \in 0..k
        BY <2>2, <1>1
    <3>2. \/ frames[n].msg.payload = <<>> /\ f[n] = f[n - 1]
          \/ f[n] = f[n - 1] + 1 /\ frames[n].msg.payload = <<out[f[n]]>>
        BY <3>1 DEF InFlight, k
    <3>3. f[n] \in 0..Len(out) /\ f[n - 1] \in 0..Len(out)
        BY <3>1, <1>4
    <3>4. f[n] = f[n - 1] + 1 => new[f[n]] = out[f[n]]
      <4>1. f[n] = f[n - 1] + 1 => f[n] \in 1..Len(out)
          BY <3>3, <1>2
      <4> QED
          BY <4>1, <1>3
    <3>5. fs[n] = frames[n] /\ g[n] = f[n] /\ g[n - 1] = f[n - 1]
        BY <3>1, <1>1, <1>7
    <3> QED
        BY <3>2, <3>4, <3>5
  <2> QED
      BY <2>1, <2>2
<1>9. \A n \in 1..Len(peers) : peers[n] = new[n]
  <2>1. Len(peers) <= Len(out)
    <3>1. f[0] \in 0..Len(out)
        BY <1>1, <1>4
    <3> QED
        BY <3>1, <1>4, <1>2
  <2>2. \A n \in 1..Len(peers) : peers[n] = out[n] /\ n \in 1..Len(out)
      BY <2>1, <1>2 DEF InFlight
  <2> QED
      BY <2>2, <1>3
<1>10. InFlight(g, peers, fs, new)
    BY <1>1, <1>4, <1>7, <1>8, <1>9 DEF InFlight
<1> QED
    BY <1>1, <1>6, <1>10 DEF fs, new

LEMMA InFlightTake ==
    ASSUME NEW peers \in Seq(PeerInfo), NEW out \in Seq(PeerInfo),
           NEW frames \in Seq(ResponseFrames), frames # <<>>,
           NEW f \in [0..Len(frames) -> 0..Len(out)], InFlight(f, peers, frames, out)
    PROVE  \E g \in [0..Len(Tail(frames)) -> 0..Len(out)] :
              InFlight(g, peers \o Head(frames).msg.payload, Tail(frames), out)
<1> DEFINE k == Len(frames)
           p == Head(frames).msg.payload
           new == peers \o p
           rest == Tail(frames)
           g == [i \in 0..(k - 1) |-> f[i + 1]]
<1>1. /\ k \in Nat /\ k >= 1 /\ Len(rest) = k - 1 /\ Head(frames) = frames[1]
      /\ Head(frames) \in ResponseFrames
      /\ \A n \in 1..(k - 1) : rest[n] = frames[n + 1]
    BY TailFacts
<1>2. Len(out) \in Nat /\ Len(peers) \in Nat
    BY LenProperties
<1>3. /\ f[0] = Len(peers) /\ f[k] = Len(out)
      /\ \A n \in 1..k :
            \/ frames[n].msg.payload = <<>> /\ f[n] = f[n - 1]
            \/ f[n] = f[n - 1] + 1 /\ frames[n].msg.payload = <<out[f[n]]>>
      /\ \A n \in 1..Len(peers) : peers[n] = out[n]
    BY DEF InFlight
<1>4. \/ p = <<>> /\ f[1] = f[0]
      \/ f[1] = f[0] + 1 /\ p = <<out[f[1]]>>
  <2>1. 1 \in 1..k /\ 1 - 1 = 0
      BY <1>1
  <2>2. p = frames[1].msg.payload
      BY <1>1
  <2> HIDE DEF p, k
  <2> QED
      BY <1>3, <2>1, <2>2
<1>5. p \in Payloads /\ p \in Seq(PeerInfo)
    BY <1>1 DEF ResponseFrames, Payloads
<1> HIDE DEF p
<1>6. Len(new) = f[1] /\ \A n \in 1..Len(new) : new[n] = out[n]
  <2>1. CASE p = <<>> /\ new = peers
    <3>1. f[1] = f[0]
      <4>1. \A x : <<>> # <<x>>
          OBVIOUS
      <4> QED
          BY <1>4, <2>1, <4>1
    <3> QED
        BY <2>1, <3>1, <1>3
  <2>2. CASE \E x \in PeerInfo : p = <<x>> /\ new = Append(peers, x)
    <3>1. PICK x \in PeerInfo : p = <<x>> /\ new = Append(peers, x)
        BY <2>2
    <3>2. /\ Len(Append(peers, x)) = Len(peers) + 1
          /\ Append(peers, x)[Len(peers) + 1] = x
          /\ \A n \in 1..Len(peers) : Append(peers, x)[n] = peers[n]
        BY AppendFacts
    <3>3. f[1] = f[0] + 1 /\ x = out[f[1]]
      <4>1. <<>> # <<x>>
          OBVIOUS
      <4>2. f[1] = f[0] + 1 /\ <<x>> = <<out[f[1]]>>
          BY <1>4, <3>1, <4>1
      <4> QED
          BY <4>2
    <3>4. Len(new) = Len(peers) + 1 /\ f[1] = Len(peers) + 1
        BY <3>1, <3>2, <3>3, <1>3
    <3>5. ASSUME NEW n \in 1..Len(new) PROVE new[n] = out[n]
      <4>1. CASE n = Len(peers) + 1
          BY <4>1, <3>1, <3>2, <3>3, <3>4
      <4>2. CASE n # Len(peers) + 1
        <5>1. n \in 1..Len(peers)
            BY <4>2, <3>4, <1>2
        <5> QED
            BY <5>1, <3>1, <3>2, <1>3
      <4> QED
          BY <4>1, <4>2
    <3> QED
        BY <3>4, <3>5
  <2> QED
      BY <1>5, <2>1, <2>2, PayloadCases
<1>7. g \in [0..(k - 1) -> 0..Len(out)]
  <2>1. ASSUME NEW i \in 0..(k - 1) PROVE f[i + 1] \in 0..Len(out)
    <3>1. i + 1 \in 0..k
        BY <1>1
    <3> QED
        BY <3>1
  <2> QED
      BY <2>1
<1>8. g[0] = f[1] /\ g[k - 1] = f[k] /\ \A i \in 0..(k - 1) : g[i] = f[i + 1]
  <2>1. \A i \in 0..(k - 1) : g[i] = f[i + 1]
      OBVIOUS
  <2>2. 0 \in 0..(k - 1) /\ k - 1 \in 0..(k - 1) /\ 0 + 1 = 1 /\ (k - 1) + 1 = k
      BY <1>1
  <2> HIDE DEF g, k
  <2> QED
      BY <2>1, <2>2
<1> HIDE DEF g, new, rest
<1>9. ASSUME NEW n \in 1..(k - 1)
      PROVE  \/ rest[n].msg.payload = <<>> /\ g[n] = g[n - 1]
             \/ g[n] = g[n - 1] + 1 /\ rest[n].msg.payload = <<out[g[n]]>>
  <2>1. /\ n + 1 \in 1..k /\ (n + 1) - 1 = n /\ n \in 0..(k - 1)
        /\ n - 1 \in 0..(k - 1) /\ (n - 1) + 1 = n
      BY <1>1
  <2>2. rest[n] = frames[n + 1] /\ g[n] = f[n + 1] /\ g[n - 1] = f[n]
      BY <1>1, <1>8, <2>1
  <2>3. \/ frames[n + 1].msg.payload = <<>> /\ f[n + 1] = f[n]
        \/ f[n + 1] = f[n] + 1 /\ frames[n + 1].msg.payload = <<out[f[n + 1]]>>
      BY <1>3, <2>1
  <2> QED
      BY <2>2, <2>3
<1>10. InFlight(g, new, rest, out)
    BY <1>1, <1>3, <1>6, <1>8, <1>9 DEF InFlight
<1> QED
    BY <1>1, <1>7, <1>10 DEF new, rest, p
-----------------------------------------------------------------------------
(* What has been sent: the steps.                                          *)

\* Nothing the client can see changes; the server may stop.
LEMMA QuietSent ==
    ASSUME SentInv, cl' = cl, toC' = toC, sent' = sent, op' = op, ServerDone => ServerDone'
    PROVE  SentInv'
BY DEF SentInv

LEMMA ClientFailsSent ==
    ASSUME RpcInv, NEW e \in ClientErrs \ {"ok"}, ClientFails(e)
    PROVE  SentInv'
<1>1. cl'.pc = "done" /\ cl'.err = e /\ cl'.peers = cl.peers /\ sent' = sent
    BY DEF ClientFails, RpcInv, CallInv, RpcTypeOK
<1> QED
    BY <1>1 DEF SentInv, RpcInv

\* Before the responses nothing is sent and nothing collected.
LEMMA EarlySent ==
    ASSUME RpcInv, cl.pc \notin {"recvResponse", "done"}, cl'.pc \notin {"recvResponse", "done"},
           cl'.peers = cl.peers, cl'.err = cl.err, sent' = sent
    PROVE  SentInv'
<1>1. cl.err # "ok"
    BY DEF RpcInv, CallInv, RpcTypeOK, ClientDone, None
<1> QED
    BY <1>1 DEF SentInv, RpcInv

LEMMA RequestsSent ==
    ASSUME RpcInv, ClientRequests
    PROVE  SentInv'
<1>1. toC' = <<>>
    BY ClientRequestsCall DEF RpcInv
<1>2. /\ cl.pc = "sendRequest" /\ cl'.pc = "recvResponse" /\ cl'.err = cl.err
      /\ cl'.peers = cl.peers /\ sent' = sent
    BY DEF ClientRequests, ClientSends, RpcInv, CallInv, RpcTypeOK
<1>3. cl.err # "ok" /\ sent = <<>> /\ cl.peers = <<>>
    BY <1>2 DEF RpcInv, CallInv, RpcTypeOK, ClientDone, None, SentInv
<1>4. Len(<<>>) = 0
    OBVIOUS
<1>5. \E f \in [0..Len(toC') -> 0..Len(sent')] : InFlight(f, cl'.peers, toC', sent')
  <2> DEFINE f == [i \in 0..0 |-> 0]
  <2>1. f \in [0..Len(toC') -> 0..Len(sent')]
      BY <1>1, <1>2, <1>3, <1>4
  <2>2. InFlight(f, <<>>, <<>>, <<>>)
      BY <1>4 DEF InFlight
  <2> HIDE DEF f
  <2> QED
      BY <2>1, <2>2, <1>1, <1>2, <1>3
<1> QED
    BY <1>1, <1>2, <1>3, <1>4, <1>5 DEF SentInv

\* A response goes out, from either server.
LEMMA ResponseSent ==
    ASSUME RpcInv, NEW r \in ResponseFrames, ~ClientDone, sv.pc = "sendResponses", cl' = cl,
           op' = op, toC' = Append(toC, r), sent' = sent \o r.msg.payload,
           sv'.pc = (IF r.msg.fin THEN "done" ELSE "sendResponses")
    PROVE  SentInv'
<1> USE DEF RpcInv, CallInv
<1>1. cl.pc = "recvResponse" /\ cl.err = None /\ ~ServerDone
    BY DEF InStep, ServerDone, RpcTypeOK
<1>2. toC \in Seq(ResponseFrames) /\ cl.peers \in Seq(PeerInfo) /\ sent \in Seq(PeerInfo)
    BY <1>1 DEF ClientSees, RpcTypeOK
<1>3. PICK f \in [0..Len(toC) -> 0..Len(sent)] : InFlight(f, cl.peers, toC, sent)
    BY <1>1 DEF SentInv
<1>4. \E g \in [0..Len(toC') -> 0..Len(sent')] : InFlight(g, cl.peers, toC', sent')
    BY <1>2, <1>3, InFlightAppend
<1>5. /\ Len(toC) \in Nat /\ Len(toC') = Len(toC) + 1 /\ toC'[Len(toC) + 1] = r
      /\ \A n \in 1..Len(toC) : toC'[n] = toC[n]
    BY <1>2, AppendFacts
<1>6. ASSUME NEW n \in 1..Len(toC'), toC'[n].msg.fin
      PROVE  n = Len(toC') /\ ServerDone'
  <2>1. n = Len(toC) + 1
    <3>1. ASSUME n # Len(toC) + 1 PROVE FALSE
      <4>1. n \in 1..Len(toC)
          BY <3>1, <1>5
      <4>2. toC[n].msg.fin
          BY <4>1, <1>5, <1>6
      <4> QED
          BY <4>1, <4>2, <1>1 DEF SentInv
    <3> QED
        BY <3>1
  <2>2. r.msg.fin
      BY <2>1, <1>5, <1>6
  <2> QED
      BY <2>1, <2>2, <1>5 DEF ServerDone
<1>7. Len(cl'.peers) <= Len(sent')
  <2>1. PICK g \in [0..Len(toC') -> 0..Len(sent')] : InFlight(g, cl.peers, toC', sent')
      BY <1>4
  <2>2. g[0] = Len(cl.peers) /\ 0 \in 0..Len(toC')
      BY <2>1, <1>5 DEF InFlight
  <2>3. Len(cl.peers) \in 0..Len(sent')
      BY <2>1, <2>2
  <2> QED
      BY <2>3
<1> QED
    BY <1>1, <1>4, <1>6, <1>7 DEF SentInv, None

LEMMA ServerRespondsSent == RpcInv /\ ServerResponds => SentInv'
<1> SUFFICES ASSUME RpcInv, ServerResponds PROVE SentInv'
    OBVIOUS
<1> DEFINE r == Head(sv.todo)
<1>1. /\ r \in ResponseFrames /\ ~ClientDone /\ sv.pc = "sendResponses" /\ cl' = cl /\ op' = op
      /\ toC' = Append(toC, r) /\ sent' = sent \o r.msg.payload
      /\ sv'.pc = (IF r.msg.fin THEN "done" ELSE "sendResponses")
    BY RespondsEffect DEF inputs
<1> HIDE DEF r
<1> QED
    BY <1>1, ResponseSent

LEMMA ForeignRespondsSent == RpcInv /\ ForeignResponds => SentInv'
<1> SUFFICES ASSUME RpcInv, ForeignResponds PROVE SentInv'
    OBVIOUS
<1>1. PICK r \in ResponseFrames :
          /\ toC' = Append(toC, r) /\ sent' = sent \o r.msg.payload
          /\ sv'.pc = (IF r.msg.fin THEN "done" ELSE "sendResponses")
    BY ForeignRespondsEffect DEF RpcInv
<1>2. ~ClientDone /\ sv.pc = "sendResponses" /\ cl' = cl /\ op' = op
    BY ForeignRespondsEffect DEF RpcInv, inputs
<1> QED
    BY <1>1, <1>2, ResponseSent

\* A response is read: what was in flight moves into the client's list, and with
\* FIN nothing is left in flight.
LEMMA TakesResponseSent ==
    ASSUME RpcInv, ClientReadsResponse, TakesResponse
    PROVE  /\ SentInv'
           /\ cl'.err = "ok" => cl.canonical /\ (op = "get_peers" => Head(toC).msg.fin)
<1> USE DEF RpcInv
<1>1. /\ cl.pc = "recvResponse" /\ cl.err = None /\ cl.canonical
      /\ toC \in Seq(ResponseFrames) /\ toC # <<>> /\ toC' = Tail(toC)
      /\ Head(toC) = toC[1]
    BY ReadsResponseCases
<1>2. cl.peers \in Seq(PeerInfo) /\ sent \in Seq(PeerInfo)
    BY DEF CallInv, RpcTypeOK
<1>3. /\ cl'.peers = cl.peers \o Head(toC).msg.payload /\ cl'.canonical = cl.canonical
      /\ cl'.err = "ok" => op = "get_chain_metadata" \/ Head(toC).msg.fin
      /\ cl'.pc \in {"recvResponse", "done"}
      /\ sent' = sent /\ op' = op /\ sv' = sv
    BY DEF TakesResponse, Collect, inputs, None
<1>4. PICK f \in [0..Len(toC) -> 0..Len(sent)] : InFlight(f, cl.peers, toC, sent)
    BY <1>1 DEF SentInv
<1>5. PICK g \in [0..Len(toC') -> 0..Len(sent)] : InFlight(g, cl'.peers, toC', sent)
  <2>1. \E g \in [0..Len(Tail(toC)) -> 0..Len(sent)] :
            InFlight(g, cl.peers \o Head(toC).msg.payload, Tail(toC), sent)
      BY <1>1, <1>2, <1>4, InFlightTake
  <2> QED
      BY <2>1, <1>1, <1>3
<1>6. /\ Len(toC) \in Nat /\ Len(toC) >= 1 /\ Len(toC') = Len(toC) - 1
      /\ toC' \in Seq(ResponseFrames)
      /\ \A n \in 1..(Len(toC) - 1) : toC'[n] = toC[n + 1]
    BY <1>1, TailFacts
<1>7. ASSUME NEW n \in 1..Len(toC'), toC'[n].msg.fin
      PROVE  n = Len(toC') /\ ServerDone'
  <2>1. n + 1 \in 1..Len(toC) /\ toC'[n] = toC[n + 1]
      BY <1>6
  <2>2. n + 1 = Len(toC) /\ ServerDone
      BY <2>1, <1>1, <1>7 DEF SentInv
  <2> QED
      BY <2>2, <1>6, <1>3 DEF ServerDone
<1>8. Len(cl'.peers) <= Len(sent)
  <2>1. g[0] = Len(cl'.peers) /\ 0 \in 0..Len(toC')
      BY <1>5, <1>6 DEF InFlight
  <2>2. Len(cl'.peers) \in 0..Len(sent)
      BY <1>5, <2>1
  <2> QED
      BY <2>2
<1>9. cl'.err = "ok" /\ op = "get_peers" => cl'.peers = sent
  <2> SUFFICES ASSUME cl'.err = "ok", op = "get_peers" PROVE cl'.peers = sent
      OBVIOUS
  <2>1. toC[1].msg.fin /\ 1 \in 1..Len(toC)
      BY <1>1, <1>3, <1>6
  <2>2. Len(toC) = 1
      BY <2>1, <1>1 DEF SentInv
  <2>3. Len(toC') = 0
      BY <2>2, <1>6
  <2>4. toC' = <<>>
      BY <2>3, <1>6, EmptySeq
  <2>5. cl'.peers \in Seq(PeerInfo)
    <3>1. CallInv'
        BY ClientReadsResponseCall
    <3> QED
        BY <3>1 DEF CallInv, RpcTypeOK
  <2> QED
      BY <1>2, <1>5, <2>4, <2>5, InFlightEmpty
<1>10. SentInv'
    BY <1>1, <1>3, <1>5, <1>7, <1>8, <1>9 DEF SentInv
<1> QED
    BY <1>1, <1>3, <1>10
LEMMA ClientStepSent == RpcInv /\ ClientStep => SentInv'
<1> SUFFICES ASSUME RpcInv, ClientStep PROVE SentInv'
    OBVIOUS
<1>0. /\ {"ctx", "io", "status", "rejected", "misframed", "decode", "maxIterations"}
            \subseteq ClientErrs \ {"ok"}
      /\ \A frame : NegotiationVerdict(frame) # "ok" =>
                       NegotiationVerdict(frame) \in ClientErrs \ {"ok"}
    BY DEF ClientErrs, NegotiationVerdict
<1>1. CASE \E e \in ClientErrs \ {"ok"} : ClientFails(e)
    BY <1>1, ClientFailsSent
<1>2. CASE /\ cl.pc \notin {"recvResponse", "done"} /\ cl'.pc \notin {"recvResponse", "done"}
           /\ cl'.peers = cl.peers /\ cl'.err = cl.err /\ sent' = sent
    BY <1>2, EarlySent
<1>3. CASE ClientRequests
    BY <1>3, RequestsSent
<1>4. CASE ClientReadsResponse
  <2>1. ClientFails("status") \/ TakesResponse
      BY <1>4, ReadsResponseCases DEF RpcInv
  <2> QED
      BY <1>0, <1>1, <1>4, <2>1, TakesResponseSent
<1> USE DEF RpcInv, CallInv, RpcTypeOK
<1>5. CASE ClientStart
  <2>1. CASE ClientFails("ctx")
      BY <1>0, <1>1, <2>1
  <2>2. CASE cl' = [cl EXCEPT !.pc = "sendNego"] /\ UNCHANGED <<inputs, sv, sent, cut>>
      BY <1>2, <1>5, <2>2 DEF ClientStart
  <2> QED
      BY <1>5, <2>1, <2>2 DEF ClientStart
<1>6. CASE ClientNegotiates \/ ClientOpensSession
    BY <1>2, <1>6 DEF ClientNegotiates, ClientOpensSession, ClientSends
<1>7. CASE ClientReadsNego
  <2>1. \/ \E e \in ClientErrs \ {"ok"} : ClientFails(e)
        \/ cl' = [cl EXCEPT !.pc = "sendSession", !.canonical = TRUE] /\ UNCHANGED <<inputs, sv, sent, cut>>
      BY <1>0, <1>7 DEF ClientReadsNego
  <2> QED
      BY <1>1, <1>2, <1>7, <2>1 DEF ClientReadsNego
<1>8. CASE ClientReadsReply
  <2>1. \/ \E e \in ClientErrs \ {"ok"} : ClientFails(e)
        \/ cl' = [cl EXCEPT !.pc = "sendRequest"] /\ UNCHANGED <<inputs, sv, sent, cut>>
      BY <1>0, <1>8 DEF ClientReadsReply
  <2> QED
      BY <1>1, <1>2, <1>8, <2>1 DEF ClientReadsReply
<1>9. CASE ClientGivesUp \/ ClientIOError
    BY <1>0, <1>1, <1>9 DEF ClientGivesUp, ClientIOError
<1> QED
    BY <1>3, <1>4, <1>5, <1>6, <1>7, <1>8, <1>9 DEF ClientStep

\* A server's negotiation frame or session reply meets a client that has not yet
\* asked for anything.
LEMMA ServerSpeaksSent ==
    ASSUME RpcInv, sv.pc \in {"sendNego", "sendReply"}, ~ClientDone, cl' = cl, sent' = sent
    PROVE  SentInv'
<1>1. cl.pc \in {"recvNego", "recvReply"}
    BY DEF RpcInv, CallInv, InStep, ServerDone
<1> QED
    BY <1>1, EarlySent

LEMMA NextSent == RpcInv /\ [Next]_vars => SentInv'
<1> SUFFICES ASSUME RpcInv, [Next]_vars PROVE SentInv'
    OBVIOUS
<1>0. SentInv
    BY DEF RpcInv
<1>1. CASE ClientStep
    BY <1>1, ClientStepSent
<1>2. CASE ServerReadsNego \/ ServerReadsSession \/ ServerReadsRequest
  <2>1. cl' = cl /\ toC' = toC /\ sent' = sent /\ op' = op /\ ~ServerDone
      BY <1>2 DEF ServerReadsNego, ServerReadsSession, ServerReadsRequest, ServerFails, inputs, ServerDone
  <2> QED
      BY <1>0, <2>1, QuietSent
<1>3. CASE ServerIOError \/ ForeignReads \/ Cut \/ UNCHANGED vars
  <2>1. CASE ServerIOError
    <3>1. cl' = cl /\ toC' = toC /\ sent' = sent /\ op' = op /\ ServerDone'
        BY <2>1 DEF ServerIOError, ServerFails, inputs, ServerDone, RpcInv, CallInv, RpcTypeOK
    <3> QED
        BY <1>0, <3>1, QuietSent
  <2>2. CASE ForeignReads \/ Cut \/ UNCHANGED vars
    <3>1. cl' = cl /\ toC' = toC /\ sent' = sent /\ op' = op /\ (ServerDone => ServerDone')
        BY <2>2 DEF ForeignReads, Cut, vars, inputs, ServerDone
    <3> QED
        BY <1>0, <3>1, QuietSent
  <2> QED
      BY <1>3, <2>1, <2>2
<1>4. CASE ServerAnswersNego \/ ServerReplies
    BY <1>4, ServerSpeaksSent DEF ServerAnswersNego, ServerReplies
<1>5. CASE ForeignAnswersNego \/ ForeignReplies
    BY <1>5, ServerSpeaksSent DEF ForeignAnswersNego, ForeignReplies, ForeignSends
<1>6. CASE ServerResponds \/ ForeignResponds
    BY <1>6, ServerRespondsSent, ForeignRespondsSent
<1> QED
    BY <1>1, <1>2, <1>3, <1>4, <1>5, <1>6 DEF Next, ServerStep, ForeignStep

-----------------------------------------------------------------------------
(* What ServeGetPeers owes: the steps.                                     *)

FinInSight == cl.pc = "recvResponse" /\ \E n \in 1..Len(toC) : toC[n].msg.fin

\* Steps that send no peer and do not make the list to send.
LEMMA KeepsOwed ==
    ASSUME OwedInv, UNCHANGED <<inputs, sent>>,
           \/ sv' = sv
           \/ sv'.pc = "done"
           \/ sv.pc \notin {"sendResponses", "done"} /\ sv'.pc \notin {"sendResponses", "done"},
           FinInSight' => FinInSight,
           cl'.err = "ok" => cl.err = "ok" \/ FinInSight
    PROVE  OwedInv'
<1>1. Bounded' = Bounded /\ kind' = kind
    BY DEF Bounded, boundPeersForRequest, inputs
<1> QED
    BY <1>1, ZenonT(60) DEF OwedInv, FinInSight

LEMMA ReadsRequestOwed == RpcInv /\ ServerReadsRequest => OwedInv'
<1> SUFFICES ASSUME RpcInv, ServerReadsRequest PROVE OwedInv'
    OBVIOUS
<1>1. /\ kind = "ours" /\ sv.pc = "recvRequest" /\ UNCHANGED <<inputs, cl, toC, sent, cut>>
      /\ sv'.pc = "sendResponses" /\ sv'.todo = Responses(Bounded)
    BY ReadsRequestEffect DEF RpcInv
<1>2. Bounded' = Bounded
    BY <1>1 DEF Bounded, boundPeersForRequest, inputs
<1>3. sent = <<>> /\ Len(<<>>) = 0 /\ Bounded \in Seq(PeerInfo)
    BY <1>1, BoundedIsList DEF RpcInv, OwedInv
<1>4. \/ Bounded = <<>> /\ sent = <<>> /\ sv'.todo = <<Response(0, TRUE, <<>>)>>
      \/ /\ Len(sent) < Len(Bounded) /\ Len(sv'.todo) = Len(Bounded) - Len(sent)
         /\ \A n \in 1..Len(sent) : sent[n] = Bounded[n]
         /\ \A n \in 1..Len(sv'.todo) :
               sv'.todo[n] = Response(0, Len(sent) + n = Len(Bounded), <<Bounded[Len(sent) + n]>>)
  <2>1. CASE Bounded = <<>>
      BY <2>1, <1>1, <1>3, ResponsesOf
  <2>2. CASE Bounded # <<>>
    <3>1. /\ Len(Bounded) \in Nat \ {0} /\ Len(sv'.todo) = Len(Bounded)
          /\ \A n \in 1..Len(Bounded) : sv'.todo[n] = Response(0, n = Len(Bounded), <<Bounded[n]>>)
        BY <2>2, <1>1, <1>3, ResponsesOf
    <3>2. Len(sent) = 0 /\ Len(sent) < Len(Bounded) /\ Len(sv'.todo) = Len(Bounded) - Len(sent)
        BY <1>3, <3>1
    <3>3. ASSUME NEW n \in 1..Len(sv'.todo)
          PROVE  sv'.todo[n] = Response(0, Len(sent) + n = Len(Bounded), <<Bounded[Len(sent) + n]>>)
      <4>1. Len(sent) + n = n /\ n \in 1..Len(Bounded)
          BY <3>1, <3>2
      <4> QED
          BY <3>1, <4>1
    <3>4. \A n \in 1..Len(sent) : sent[n] = Bounded[n]
        BY <3>2
    <3> QED
        BY <3>2, <3>3, <3>4
  <2> QED
      BY <2>1, <2>2
<1>5. (cl.pc = "recvResponse" /\ \E n \in 1..Len(toC) : toC[n].msg.fin) => sent = Bounded
    BY <1>1 DEF RpcInv, OwedInv
<1>6. cl.err = "ok" => sent = Bounded
    BY <1>1 DEF RpcInv, OwedInv
<1> QED
    BY <1>1, <1>2, <1>4, <1>5, <1>6 DEF OwedInv

LEMMA RespondsOwed == RpcInv /\ ServerResponds => OwedInv'
<1> SUFFICES ASSUME RpcInv, ServerResponds PROVE OwedInv'
    OBVIOUS
<1> DEFINE r == Head(sv.todo)
<1>1. /\ kind = "ours" /\ sv.pc = "sendResponses" /\ ~ClientDone
      /\ UNCHANGED <<inputs, cl, toS, cut>>
      /\ r \in ResponseFrames /\ toC' = Append(toC, r)
      /\ sv'.pc = (IF r.msg.fin THEN "done" ELSE "sendResponses")
      /\ sv'.todo = Tail(sv.todo)
      /\ \/ Bounded = <<>> /\ sent = <<>> /\ sent' = <<>> /\ r.msg.fin
         \/ /\ Len(sent) < Len(Bounded) /\ sent' = Append(sent, Bounded[Len(sent) + 1])
            /\ r.msg.fin <=> Len(sent) + 1 = Len(Bounded)
    BY RespondsEffect
<1>2. Bounded' = Bounded
    BY <1>1 DEF Bounded, boundPeersForRequest, inputs
<1>3. /\ Bounded \in Seq(PeerInfo) /\ sent \in Seq(PeerInfo) /\ sv.todo \in Seq(ResponseFrames)
      /\ Len(Bounded) \in Nat /\ Len(sent) \in Nat /\ Len(sv.todo) \in Nat
    BY <1>1, BoundedIsList, LenProperties DEF RpcInv, CallInv, RpcTypeOK
<1>4. cl.pc = "recvResponse" /\ cl.err = None /\ toC \in Seq(ResponseFrames)
    BY <1>1 DEF RpcInv, CallInv, InStep, ServerDone, RpcTypeOK, ClientSees
<1>5. Len(sent) < Len(Bounded) =>
         /\ \A n \in 1..Len(sent) : sent[n] = Bounded[n]
         /\ Len(sv.todo) = Len(Bounded) - Len(sent)
         /\ \A n \in 1..Len(sv.todo) :
               sv.todo[n] = Response(0, Len(sent) + n = Len(Bounded), <<Bounded[Len(sent) + n]>>)
  <2>1. Len(sent) < Len(Bounded) => Bounded # <<>>
    <3>1. Len(<<>>) = 0
        OBVIOUS
    <3> QED
        BY <1>3, <3>1
  <2> QED
      BY <1>1, <2>1 DEF RpcInv, OwedInv
<1>6. Len(sent) < Len(Bounded) =>
         /\ Len(sent') = Len(sent) + 1 /\ sent' \in Seq(PeerInfo)
         /\ \A n \in 1..Len(sent') : sent'[n] = Bounded[n]
  <2> SUFFICES ASSUME Len(sent) < Len(Bounded)
               PROVE  /\ Len(sent') = Len(sent) + 1 /\ sent' \in Seq(PeerInfo)
                      /\ \A n \in 1..Len(sent') : sent'[n] = Bounded[n]
      OBVIOUS
  <2>1. Bounded # <<>>
    <3>1. Len(<<>>) = 0
        OBVIOUS
    <3> QED
        BY <1>3, <3>1
  <2>2. sent' = Append(sent, Bounded[Len(sent) + 1])
      BY <1>1, <2>1
  <2>3. Bounded[Len(sent) + 1] \in PeerInfo
      BY <1>3, ElementOfSeq
  <2>4. /\ sent' \in Seq(PeerInfo) /\ Len(sent') = Len(sent) + 1
        /\ sent'[Len(sent) + 1] = Bounded[Len(sent) + 1]
        /\ \A n \in 1..Len(sent) : sent'[n] = sent[n]
      BY <1>3, <2>2, <2>3, AppendFacts
  <2>5. ASSUME NEW n \in 1..Len(sent') PROVE sent'[n] = Bounded[n]
    <3>1. CASE n = Len(sent) + 1
        BY <3>1, <2>4
    <3>2. CASE n # Len(sent) + 1
      <4>1. n \in 1..Len(sent)
          BY <3>2, <2>4, <1>3
      <4> QED
          BY <4>1, <2>4, <1>5
    <3> QED
        BY <3>1, <3>2
  <2> QED
      BY <2>4, <2>5
<1>7. r.msg.fin => sent' = Bounded
  <2>1. CASE Bounded = <<>> /\ sent' = <<>>
      BY <2>1
  <2>2. CASE r.msg.fin /\ Len(sent) < Len(Bounded) /\ Len(sent) + 1 = Len(Bounded)
    <3>1. Len(sent') = Len(Bounded)
        BY <2>2, <1>6
    <3> QED
        BY <2>2, <3>1, <1>3, <1>6, SeqEqual
  <2> QED
      BY <1>1, <2>1, <2>2
<1>8. sv'.pc = "sendResponses" =>
         /\ Len(sent') < Len(Bounded) /\ Len(sv'.todo) = Len(Bounded) - Len(sent')
         /\ \A n \in 1..Len(sent') : sent'[n] = Bounded[n]
         /\ \A n \in 1..Len(sv'.todo) :
               sv'.todo[n] = Response(0, Len(sent') + n = Len(Bounded), <<Bounded[Len(sent') + n]>>)
  <2> SUFFICES ASSUME sv'.pc = "sendResponses"
               PROVE  /\ Len(sent') < Len(Bounded) /\ Len(sv'.todo) = Len(Bounded) - Len(sent')
                      /\ \A n \in 1..Len(sent') : sent'[n] = Bounded[n]
                      /\ \A n \in 1..Len(sv'.todo) :
                            sv'.todo[n] = Response(0, Len(sent') + n = Len(Bounded), <<Bounded[Len(sent') + n]>>)
      OBVIOUS
  <2>1. Len(sent) < Len(Bounded) /\ Len(sent) + 1 # Len(Bounded)
      BY <1>1
  <2>2. sv.todo # <<>>
    <3>1. Len(<<>>) = 0 /\ Len(sv.todo) > 0
        BY <1>3, <1>5, <2>1
    <3> QED
        BY <3>1
  <2>3. /\ Len(sv'.todo) = Len(sv.todo) - 1
        /\ \A n \in 1..(Len(sv.todo) - 1) : sv'.todo[n] = sv.todo[n + 1]
      BY <1>1, <1>3, <2>2, TailFacts
  <2>a. Len(sent') = Len(sent) + 1 /\ Len(sv.todo) = Len(Bounded) - Len(sent)
      BY <1>5, <1>6, <2>1
  <2>b. Len(sv'.todo) = Len(sv.todo) - 1
      BY <2>3, SMTT(60)
  <2>4. Len(sent') < Len(Bounded) /\ Len(sv'.todo) = Len(Bounded) - Len(sent')
    <3> DEFINE b == Len(Bounded)
               s == Len(sent)
               t == Len(sv.todo)
    <3>1. b \in Nat /\ s \in Nat /\ t = b - s /\ s < b /\ s + 1 # b
        BY <1>3, <2>1, <2>a
    <3> HIDE DEF b, s, t
    <3>2. s + 1 < b /\ t - 1 = b - (s + 1)
        BY <3>1
    <3> QED
        BY <3>2, <2>a, <2>b, ZenonT(60) DEF b, s, t
  <2>5. ASSUME NEW n \in 1..Len(sv'.todo)
        PROVE  sv'.todo[n] = Response(0, Len(sent') + n = Len(Bounded), <<Bounded[Len(sent') + n]>>)
    <3>1. /\ n + 1 \in 1..Len(sv.todo) /\ n \in 1..(Len(sv.todo) - 1)
          /\ Len(sent) + (n + 1) = Len(sent') + n
        BY <1>3, <2>a, <2>b
    <3>2. sv'.todo[n] = sv.todo[n + 1]
        BY <2>3, <3>1
    <3>3. sv.todo[n + 1] = Response(0, Len(sent) + (n + 1) = Len(Bounded), <<Bounded[Len(sent) + (n + 1)]>>)
        BY <1>5, <2>1, <3>1
    <3> QED
        BY <3>1, <3>2, <3>3
  <2> QED
      BY <1>6, <2>1, <2>4, <2>5
<1>9. (\E n \in 1..Len(toC') : toC'[n].msg.fin) => r.msg.fin
  <2>1. SentInv' /\ cl'.pc = "recvResponse"
      BY <1>1, <1>4, ServerRespondsSent
  <2>2. /\ Len(toC) \in Nat /\ Len(toC') = Len(toC) + 1 /\ toC'[Len(toC) + 1] = r
      BY <1>1, <1>4, AppendFacts
  <2>3. ASSUME NEW n \in 1..Len(toC'), toC'[n].msg.fin PROVE r.msg.fin
    <3>1. n = Len(toC')
        BY <2>1, <2>3 DEF SentInv
    <3> QED
        BY <2>2, <2>3, <3>1
  <2> QED
      BY <2>3
<1>10. cl'.err # "ok" /\ sv'.pc \in {"done", "sendResponses"}
    BY <1>1, <1>4 DEF None
<1> HIDE DEF r
<1> QED
    BY <1>1, <1>2, <1>7, <1>8, <1>9, <1>10 DEF OwedInv
\* The client: FIN comes into sight only by a send, and "ok" only by reading it.
LEMMA ClientStepOwed == RpcInv /\ ClientStep => OwedInv'
<1> SUFFICES ASSUME RpcInv, ClientStep PROVE OwedInv'
    OBVIOUS
<1> USE DEF RpcInv
<1>1. UNCHANGED <<inputs, sent>> /\ sv' = sv
    BY DEF ClientStep, ClientStart, ClientNegotiates, ClientReadsNego, ClientOpensSession,
           ClientReadsReply, ClientRequests, ClientGivesUp, ClientReadsResponse, ClientIOError,
           ClientFails, ClientSends
<1>2. CASE cl'.pc # "recvResponse" /\ cl'.err # "ok"
    BY <1>1, <1>2, KeepsOwed DEF FinInSight
<1>3. CASE ClientRequests
  <2>1. toC' = <<>> /\ cl'.err = cl.err
      BY <1>3, ClientRequestsCall DEF ClientRequests, ClientSends, CallInv, RpcTypeOK
  <2>2. ~FinInSight'
      BY <2>1 DEF FinInSight
  <2> QED
      BY <1>1, <2>1, <2>2, KeepsOwed
<1>4. CASE ClientReadsResponse
  <2>1. /\ cl.pc = "recvResponse" /\ toC \in Seq(ResponseFrames) /\ toC # <<>>
        /\ toC' = Tail(toC) /\ Head(toC) = toC[1]
        /\ ClientFails("status") \/ TakesResponse
      BY <1>4, ReadsResponseCases
  <2>2. /\ Len(toC) \in Nat /\ Len(toC) >= 1 /\ Len(toC') = Len(toC) - 1
        /\ \A n \in 1..(Len(toC) - 1) : toC'[n] = toC[n + 1]
      BY <2>1, TailFacts
  <2>3. FinInSight' => FinInSight
    <3> SUFFICES ASSUME NEW n \in 1..Len(toC'), toC'[n].msg.fin PROVE FinInSight
        BY DEF FinInSight
    <3>1. n + 1 \in 1..Len(toC) /\ toC'[n] = toC[n + 1]
        BY <2>2
    <3> QED
        BY <2>1, <3>1 DEF FinInSight
  <2>4. CASE ClientFails("status")
    <3>1. cl'.err # "ok"
        BY <2>4 DEF ClientFails, CallInv, RpcTypeOK
    <3> QED
        BY <1>1, <2>3, <3>1, KeepsOwed
  <2>5. CASE TakesResponse
    <3>1. cl'.err = "ok" => cl.canonical /\ (op = "get_peers" => Head(toC).msg.fin)
        BY <1>4, <2>5, TakesResponseSent
    <3>2. kind = "ours" /\ cl'.err = "ok" => FinInSight
      <4>1. kind = "ours" /\ cl'.err = "ok" => op = "get_peers"
          BY <3>1 DEF CallInv, Agreed
      <4>2. 1 \in 1..Len(toC)
          BY <2>2
      <4> QED
          BY <2>1, <3>1, <4>1, <4>2 DEF FinInSight
    <3>3. CASE kind = "ours"
        BY <1>1, <2>3, <3>2, <3>3, KeepsOwed
    <3>4. CASE kind # "ours"
        BY <1>1, <3>4 DEF OwedInv, inputs
    <3> QED
        BY <3>3, <3>4
  <2> QED
      BY <2>1, <2>4, <2>5
<1> USE DEF CallInv, RpcTypeOK
<1>5. CASE ClientStart \/ ClientNegotiates \/ ClientOpensSession
  <2>1. cl.err # "ok"
      BY <1>5 DEF ClientStart, ClientNegotiates, ClientOpensSession, ClientDone, None
  <2>2. cl'.pc # "recvResponse" /\ cl'.err # "ok"
      BY <1>5, <2>1 DEF ClientStart, ClientNegotiates, ClientOpensSession, ClientFails, ClientSends
  <2> QED
      BY <1>2, <2>2
<1>6. CASE ClientReadsNego
  <2>1. cl.err # "ok"
      BY <1>6 DEF ClientReadsNego, ClientDone, None
  <2>2. \/ \E e : e # "ok" /\ ClientFails(e)
        \/ cl' = [cl EXCEPT !.pc = "sendSession", !.canonical = TRUE]
      BY <1>6 DEF ClientReadsNego
  <2>3. cl'.pc # "recvResponse" /\ cl'.err # "ok"
      BY <2>1, <2>2 DEF ClientFails
  <2> QED
      BY <1>2, <2>3
<1>7. CASE ClientReadsReply
  <2>1. cl.err # "ok"
      BY <1>7 DEF ClientReadsReply, ClientDone, None
  <2>2. \/ \E e : e # "ok" /\ ClientFails(e)
        \/ cl' = [cl EXCEPT !.pc = "sendRequest"]
      BY <1>7 DEF ClientReadsReply
  <2>3. cl'.pc # "recvResponse" /\ cl'.err # "ok"
      BY <2>1, <2>2 DEF ClientFails
  <2> QED
      BY <1>2, <2>3
<1>8. CASE ClientGivesUp \/ ClientIOError
    BY <1>2, <1>8 DEF ClientGivesUp, ClientIOError, ClientFails
<1> QED
    BY <1>3, <1>4, <1>5, <1>6, <1>7, <1>8 DEF ClientStep

LEMMA NextOwed == RpcInv /\ [Next]_vars => OwedInv'
<1> SUFFICES ASSUME RpcInv, [Next]_vars PROVE OwedInv'
    OBVIOUS
<1>0. OwedInv
    BY DEF RpcInv
<1>1. CASE ClientStep
    BY <1>1, ClientStepOwed
<1>2. CASE ServerReadsNego \/ ServerReadsSession
  <2>1. /\ UNCHANGED <<inputs, sent>> /\ cl' = cl /\ toC' = toC
        /\ sv.pc \in {"recvNego", "recvSession"}
        /\ sv'.pc \in {"sendNego", "sendReply", "done"}
      BY <1>2 DEF ServerReadsNego, ServerReadsSession, ServerFails, RpcInv, CallInv, RpcTypeOK
  <2>2. FinInSight' => FinInSight
      BY <2>1 DEF FinInSight
  <2> QED
      BY <1>0, <2>1, <2>2, KeepsOwed
<1>3. CASE ServerReadsRequest \/ ServerResponds
    BY <1>3, ReadsRequestOwed, RespondsOwed
<1>4. CASE ServerIOError
  <2>1. UNCHANGED <<inputs, sent>> /\ cl' = cl /\ toC' = toC /\ sv'.pc = "done"
      BY <1>4 DEF ServerIOError, ServerFails, RpcInv, CallInv, RpcTypeOK
  <2>2. FinInSight' => FinInSight
      BY <2>1 DEF FinInSight
  <2> QED
      BY <1>0, <2>1, <2>2, KeepsOwed
<1>5. CASE ServerAnswersNego \/ ServerReplies
  <2>1. /\ UNCHANGED <<inputs, sent>> /\ cl' = cl /\ ~ClientDone
        /\ sv.pc \in {"sendNego", "sendReply"}
        /\ sv'.pc \in {"recvSession", "recvRequest", "done"}
      BY <1>5 DEF ServerAnswersNego, ServerReplies, RpcInv, CallInv, RpcTypeOK
  <2>2. cl'.pc # "recvResponse"
      BY <2>1 DEF RpcInv, CallInv, InStep, ServerDone
  <2> QED
      BY <1>0, <2>1, <2>2, KeepsOwed DEF FinInSight
<1>6. CASE ForeignStep
  <2>1. kind # "ours" /\ kind' = kind
      BY <1>6 DEF ForeignStep, ForeignReads, ForeignAnswersNego, ForeignReplies, ForeignResponds,
                  ForeignSends, inputs
  <2> QED
      BY <2>1 DEF OwedInv
<1>7. CASE Cut \/ UNCHANGED vars
  <2>1. UNCHANGED <<inputs, sent>> /\ cl' = cl /\ toC' = toC /\ sv' = sv
      BY <1>7 DEF Cut, vars, inputs
  <2>2. FinInSight' => FinInSight
      BY <2>1 DEF FinInSight
  <2> QED
      BY <1>0, <2>1, <2>2, KeepsOwed
<1> QED
    BY <1>1, <1>2, <1>3, <1>4, <1>5, <1>6, <1>7 DEF Next, ServerStep

-----------------------------------------------------------------------------
(* The theorems.                                                           *)

LEMMA RpcInvariant == Spec => []RpcInv
<1>1. Init => RpcInv
  <2> SUFFICES ASSUME Init PROVE RpcInv
      OBVIOUS
  <2>1. CallInv
      BY InitCall
  <2>2. SentInv /\ OwedInv
      BY DEF Init, SentInv, OwedInv, None
  <2> QED
      BY <2>1, <2>2 DEF RpcInv
<1>2. RpcInv /\ [Next]_vars => RpcInv'
    BY NextCall, NextSent, NextOwed DEF RpcInv
<1> QED
    BY <1>1, <1>2, PTL DEF Spec

\* Every call of GetPeers or GetChainMetadata: the variables keep their types, and
\* the client never has more peers than were sent.
THEOREM RpcTypeCorrect == Spec => []TypeOK
<1>1. RpcInv => TypeOK
  <2> SUFFICES ASSUME RpcInv PROVE TypeOK
      OBVIOUS
  <2> USE DEF RpcInv, CallInv, RpcTypeOK
  <2>1. (ClientDone \/ ClientPending \/ cl.pc = "start") /\ (ServerDone \/ ServerPending)
      BY DEF ClientDone, ClientPending, ServerDone, ServerPending, ClientPcs, ServerPcs
  <2>2. Len(cl.peers) <= Len(sent)
      BY DEF SentInv
  <2> QED
      BY <2>1, <2>2 DEF TypeOK
<1> QED
    BY <1>1, RpcInvariant, PTL

\* BeginCanonicalFraming is called on the two sides at different times, and yet no
\* frame is read in the mode it was not sent in and no message fails to decode:
\* for every request, list, window and cap, and wherever the substream dies.
THEOREM FramingsNeverMix == Spec => []NoMisframing
<1>1. RpcInv => NoMisframing
    BY DEF RpcInv, CallInv
<1> QED
    BY <1>1, RpcInvariant, PTL

\* NegotiateProtocol lets a client past only with the protocol that
\* NegotiateProtocolInbound has agreed to, which for ServeGetPeers is t/dht/1.
THEOREM NegotiationIsAgreed == Spec => []NegotiationAgrees
<1>1. RpcInv => NegotiationAgrees
    BY DEF RpcInv, CallInv, Agreed, NegotiationAgrees
<1> QED
    BY <1>1, RpcInvariant, PTL

\* GetPeers returns without an error only with all that the server sent, in order,
\* whether FIN came on the last peer's response or on an empty one.
THEOREM SuccessIsWhole == Spec => []NoPeerLost
<1>1. RpcInv => NoPeerLost
    BY DEF RpcInv, SentInv, NoPeerLost
<1> QED
    BY <1>1, RpcInvariant, PTL

\* What GetPeers returns from ServeGetPeers is the list cut to the request, for
\* every list and every request, 0 meaning no bound in each of its three fields.
THEOREM AnswerFitsRequest == Spec => []AnswerIsBounded
<1>1. RpcInv => AnswerIsBounded
  <2> SUFFICES ASSUME RpcInv, cl.err = "ok", kind = "ours"
               PROVE  /\ Fits(Len(known), Len(cl.peers), req.N)
                      /\ \A i \in 1..Len(cl.peers) : PeerBounded(cl.peers[i], known[i], req)
      BY DEF AnswerIsBounded, PeerBounded
  <2>1. cl.peers = Bounded
    <3>1. op = "get_peers"
        BY DEF RpcInv, CallInv, SentInv, Agreed
    <3> QED
        BY <3>1 DEF RpcInv, SentInv, OwedInv
  <2>2. known \in Seq(PeerInfo) /\ req \in Requests
      BY DEF RpcInv, CallInv, RpcTypeOK
  <2> QED
      BY <2>1, <2>2, BoundPeers DEF Bounded
<1> QED
    BY <1>1, RpcInvariant, PTL
=============================================================================
