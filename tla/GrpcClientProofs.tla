--------------------------- MODULE GrpcClientProofs ---------------------------
(***************************************************************************)
(* The gRPC wrappers for any Clients, addresses, goroutines and streams: a *)
(* call is cancelled by its own side only, the package-level functions     *)
(* follow an InitNodeGRPC that ran alone, and a stream read into a slice   *)
(* without an error was read whole.                                        *)
(***************************************************************************)
EXTENDS GrpcClient, TLAPS

Known == Servers \cup BadAddresses
Addresses == Known \cup ClientServers \cup {Garbled, Unclear}
SharedRecords == [to : Addresses, owner : {Shared}]
ConnRecords == [to : Addresses, owner : Clients \cup {Shared}]
ClientRecords == [conn : ConnRecords, closed : BOOLEAN]
InitRecords ==
    [st : {"idle", "addr", "dial", "done"}, to : Known \cup {Unclear}, conn : SharedRecords, alone : BOOLEAN]
CallRecords ==
    [st : {"idle", "running", "returned", "panic"}, via : Clients \cup {Shared}, conn : ConnRecords,
     kind : {"unary", "lookup", "drained", "first"}, expect : Known \cup {Unclear}, ctxDone : BOOLEAN,
     sent : Nat, end : {"open", "eof", "error"}, got : Nat, value : {"none", "answer", "nil"},
     err : {"none", "nil", "eof", "error", "canceled"}]

GrpcTypeOK ==
    /\ pkg \in {"node", "wallet"} /\ addr \in Known \cup {Unclear} /\ settled \in Known \cup {Unclear}
    /\ grpcConn \in SharedRecords /\ client \in [Clients -> ClientRecords]
    /\ init \in [Inits -> InitRecords] /\ call \in [Callers -> CallRecords]

\* A Client's connection is its own, and open until the Client is closed.
ClientsOwn ==
    \A k \in Clients : client[k].conn # Nil =>
        client[k].conn.owner = k /\ (k \in open \/ client[k].closed)

\* What grpc.NewClient makes of an address that nobody else is writing.
Dialled(a) == IF a \in BadAddresses THEN Nil ELSE Conn(a, Shared)

\* An Init that has run alone so far is the only one under way, and what it wrote
\* is still there when it reads it back.
AloneInv ==
    \A i \in Inits : InProgress(i) =>
        /\ init[i].to \in Known
        /\ init[i].st = "addr" => init[i].conn = Nil
        /\ init[i].alone =>
              /\ addr = init[i].to
              /\ init[i].st = "dial" => init[i].conn = Dialled(init[i].to)
              /\ \A j \in Inits : InProgress(j) => j = i

\* A settled Init is what the shared connection was made for, and no other is
\* under way.
SettledInv ==
    settled # Unclear => grpcConn = Dialled(settled) /\ \A i \in Inits : ~InProgress(i)

\* Each call: it goes through a connection of its own side, where a shared one
\* leads was right when it began, and a slice is returned whole.
CallOK(c) ==
    /\ c.st # "idle" => c.conn.owner = c.via
    /\ (c.st # "idle" /\ c.via = Shared /\ c.expect # Unclear) =>
          IF c.st = "panic" THEN c.expect \in BadAddresses ELSE c.conn.to = c.expect
    /\ (c.st = "returned" /\ c.kind = "drained" /\ c.err = "nil") =>
          c.end = "eof" /\ c.got = c.sent

CallsInv == \A g \in Callers : CallOK(call[g])

\* A call and its Client: there is a connection to be closed, and it is cancelled
\* only by its own side.
Owned(c) ==
    /\ (c.st # "idle" /\ c.via # Shared) => client[c.via].conn # Nil
    /\ c.err = "canceled" => c.ctxDone \/ (c.via # Shared /\ client[c.via].closed)

OwnedInv == \A g \in Callers : Owned(call[g])

GrpcInv == GrpcTypeOK /\ ClientsOwn /\ AloneInv /\ SettledInv /\ CallsInv /\ OwnedInv

-----------------------------------------------------------------------------
LEMMA NilIsConn == Nil \in SharedRecords /\ Nil \in ConnRecords
BY DEF Nil, Conn, SharedRecords, ConnRecords, Addresses

LEMMA SharedIsConn ==
    ASSUME NEW c \in SharedRecords PROVE c \in ConnRecords /\ c.owner = Shared
BY DEF SharedRecords, ConnRecords

LEMMA InitGrpc == Init => GrpcInv
<1> SUFFICES ASSUME Init PROVE GrpcInv
    OBVIOUS
<1> USE NilIsConn DEF Init
<1>1. NoCall \in CallRecords /\ NoInit \in InitRecords
    BY DEF NoCall, NoInit, CallRecords, InitRecords
<1>2. GrpcTypeOK
    BY <1>1 DEF GrpcTypeOK, ClientRecords
<1>3. ClientsOwn /\ SettledInv
    BY DEF ClientsOwn, SettledInv
<1>4. AloneInv
    BY DEF AloneInv, InProgress, NoInit
<1>5. CallsInv /\ OwnedInv
    BY DEF CallsInv, CallOK, OwnedInv, Owned, NoCall
<1> QED
    BY <1>2, <1>3, <1>4, <1>5 DEF GrpcInv

-----------------------------------------------------------------------------
(* The package-level connection.                                           *)

\* A new Init makes every other one that is under way, and itself, not alone.
LEMMA InitAddressGrpc ==
    ASSUME GrpcInv, NEW i \in Inits, NEW a \in Known, InitAddress(i, a)
    PROVE  GrpcInv'
<1> USE DEF GrpcInv, InitAddress
<1> DEFINE mine == [st |-> "addr", to |-> a, conn |-> Nil, alone |-> \A k \in Inits : ~InProgress(k)]
<1>1. mine \in InitRecords
    BY NilIsConn DEF InitRecords
<1>2. /\ init'[i] = mine
      /\ \A j \in Inits \ {i} : init'[j] = [init[j] EXCEPT !.alone = ~InProgress(j)]
    OBVIOUS
<1>3. /\ mine.st = "addr" /\ mine.to = a /\ mine.conn = Nil
      /\ mine.alone <=> \A k \in Inits : ~InProgress(k)
    OBVIOUS
<1> HIDE DEF mine
<1>4. ASSUME NEW j \in Inits \ {i}
      PROVE  /\ init'[j] \in InitRecords /\ init'[j].st = init[j].st /\ init'[j].to = init[j].to
             /\ init'[j].conn = init[j].conn
             /\ init'[j].alone <=> ~InProgress(j)
    BY <1>2, ZenonT(60) DEF GrpcTypeOK, InitRecords
<1>5. GrpcTypeOK'
  <2>1. init' = [j \in Inits |-> init'[j]]
      OBVIOUS
  <2>2. \A j \in Inits : init'[j] \in InitRecords
      BY <1>1, <1>2, <1>4
  <2>3. init' \in [Inits -> InitRecords]
      BY <2>1, <2>2
  <2> QED
      BY <2>3 DEF GrpcTypeOK
<1>6. ClientsOwn' /\ SettledInv' /\ CallsInv' /\ OwnedInv'
    BY DEF ClientsOwn, SettledInv, CallsInv, OwnedInv, Owned
<1>7. AloneInv'
  <2>1. ASSUME NEW j \in Inits \ {i}, InProgress(j)'
        PROVE  /\ init'[j].to \in Known /\ (init'[j].st = "addr" => init'[j].conn = Nil)
               /\ ~init'[j].alone
    <3>1. InProgress(j)
        BY <1>4, <2>1 DEF InProgress
    <3> QED
        BY <1>4, <3>1 DEF AloneInv
  <2>2. init'[i].alone => \A j \in Inits : InProgress(j)' => j = i
      BY <1>2, <1>3, <1>4 DEF InProgress
  <2> QED
      BY <1>2, <1>3, <2>1, <2>2 DEF AloneInv
<1> QED
    BY <1>5, <1>6, <1>7

LEMMA InitDialGrpc ==
    ASSUME GrpcInv, NEW i \in Inits, InitDial(i)
    PROVE  GrpcInv'
<1> USE DEF GrpcInv
<1>1. /\ init[i].st = "addr" /\ InProgress(i) /\ init[i].conn = Nil /\ init[i].to \in Known
      /\ UNCHANGED <<pkg, addr, grpcConn, client, open, settled, call>>
    BY DEF InitDial, InProgress, AloneInv
<1>2. PICK a \in AddressRead(i) :
          \/ /\ a \notin BadAddresses
             /\ init' = [init EXCEPT ![i].st = "dial", ![i].conn = Conn(a, Shared)]
          \/ /\ a \in BadAddresses \cup {Garbled}
             /\ init' = [init EXCEPT ![i].st = "dial"]
    BY DEF InitDial
<1>3. a \in Addresses
    BY <1>1 DEF AddressRead, GrpcTypeOK, Addresses
<1>4. PICK c \in SharedRecords :
          /\ init' = [init EXCEPT ![i] = [init[i] EXCEPT !.st = "dial", !.conn = c]]
          /\ \/ a \notin BadAddresses /\ c = Conn(a, Shared)
             \/ a \in BadAddresses \cup {Garbled} /\ c = Nil
  <2>1. CASE /\ a \notin BadAddresses
             /\ init' = [init EXCEPT ![i].st = "dial", ![i].conn = Conn(a, Shared)]
    <3>1. Conn(a, Shared) \in SharedRecords
        BY <1>3 DEF Conn, SharedRecords
    <3> QED
        BY <2>1, <3>1 DEF GrpcTypeOK
  <2>2. CASE /\ a \in BadAddresses \cup {Garbled}
             /\ init' = [init EXCEPT ![i].st = "dial"]
    <3>1. [init[i] EXCEPT !.st = "dial"] = [init[i] EXCEPT !.st = "dial", !.conn = Nil]
        BY <1>1 DEF GrpcTypeOK, InitRecords
    <3>2. init' = [init EXCEPT ![i] = [init[i] EXCEPT !.st = "dial"]]
        BY <2>2
    <3> QED
        BY <2>2, <3>1, <3>2, NilIsConn
  <2> QED
      BY <1>2, <2>1, <2>2
<1>5. /\ init'[i] \in InitRecords /\ init'[i].st = "dial" /\ init'[i].conn = c
      /\ init'[i].to = init[i].to /\ init'[i].alone = init[i].alone
      /\ \A j \in Inits \ {i} : init'[j] = init[j]
      /\ init' \in [Inits -> InitRecords]
    BY <1>4 DEF GrpcTypeOK, InitRecords
<1>6. GrpcTypeOK'
    BY <1>1, <1>5 DEF GrpcTypeOK
<1>7. \A j \in Inits : InProgress(j)' <=> InProgress(j)
    BY <1>1, <1>5 DEF InProgress
<1>8. ClientsOwn' /\ CallsInv' /\ OwnedInv'
    BY <1>1 DEF ClientsOwn, CallsInv, OwnedInv, Owned
<1>9. SettledInv'
    BY <1>1, <1>7 DEF SettledInv
<1>10. AloneInv'
  <2>1. init[i].alone => c = Dialled(init[i].to)
    <3> SUFFICES ASSUME init[i].alone PROVE c = Dialled(init[i].to)
        OBVIOUS
    <3>1. a = init[i].to
        BY <1>1 DEF AddressRead, AloneInv
    <3>2. a # Garbled
        BY <3>1, <1>1, GrpcAssumption DEF Known
    <3> QED
        BY <3>1, <3>2, <1>4 DEF Dialled
  <2>2. ASSUME NEW j \in Inits, InProgress(j)'
        PROVE  /\ init'[j].to \in Known
               /\ init'[j].st = "addr" => init'[j].conn = Nil
               /\ init'[j].alone =>
                     /\ addr' = init'[j].to
                     /\ init'[j].st = "dial" => init'[j].conn = Dialled(init'[j].to)
                     /\ \A m \in Inits : InProgress(m)' => m = j
    <3>1. CASE j = i
        BY <3>1, <1>1, <1>5, <1>7, <2>1 DEF AloneInv
    <3>2. CASE j # i
        BY <2>2, <3>2, <1>1, <1>5, <1>7 DEF AloneInv
    <3> QED
        BY <3>1, <3>2
  <2>3. \A x : Dialled(x)' = Dialled(x)
      BY DEF Dialled
  <2> QED
      BY <2>2, <2>3 DEF AloneInv
<1> QED
    BY <1>6, <1>8, <1>9, <1>10

LEMMA InitAssignGrpc ==
    ASSUME GrpcInv, NEW i \in Inits, InitAssign(i)
    PROVE  GrpcInv'
<1> USE DEF GrpcInv
<1>1. /\ init[i].st = "dial" /\ InProgress(i) /\ grpcConn' = init[i].conn
      /\ init' = [init EXCEPT ![i] = [NoInit EXCEPT !.st = "done"]]
      /\ settled' = (IF init[i].alone THEN init[i].to ELSE Unclear)
      /\ UNCHANGED <<pkg, addr, client, open, call>>
    BY DEF InitAssign, InProgress
<1>2. [NoInit EXCEPT !.st = "done"] \in InitRecords /\ [NoInit EXCEPT !.st = "done"].st = "done"
    BY NilIsConn DEF NoInit, InitRecords
<1>3. /\ init' \in [Inits -> InitRecords] /\ init'[i].st = "done"
      /\ \A j \in Inits \ {i} : init'[j] = init[j]
    BY <1>1, <1>2 DEF GrpcTypeOK
<1>4. GrpcTypeOK'
  <2>1. init[i].conn \in SharedRecords /\ init[i].to \in Known \cup {Unclear}
      BY DEF GrpcTypeOK, InitRecords
  <2> QED
      BY <1>1, <1>3, <2>1 DEF GrpcTypeOK
<1>5. ~InProgress(i)' /\ \A j \in Inits \ {i} : InProgress(j)' <=> InProgress(j)
    BY <1>3 DEF InProgress
<1>6. ClientsOwn' /\ CallsInv' /\ OwnedInv'
    BY <1>1 DEF ClientsOwn, CallsInv, OwnedInv, Owned
<1>7. SettledInv'
  <2> SUFFICES ASSUME settled' # Unclear
               PROVE  grpcConn' = Dialled(settled)' /\ \A j \in Inits : ~InProgress(j)'
      BY DEF SettledInv
  <2>1. init[i].alone /\ settled' = init[i].to
      BY <1>1
  <2>2. init[i].conn = Dialled(init[i].to) /\ \A j \in Inits : InProgress(j) => j = i
      BY <1>1, <2>1 DEF AloneInv
  <2>3. Dialled(settled)' = Dialled(init[i].to)
      BY <2>1 DEF Dialled
  <2> QED
      BY <1>1, <1>5, <2>2, <2>3
<1>8. AloneInv'
  <2>1. \A x : Dialled(x)' = Dialled(x)
      BY DEF Dialled
  <2> QED
      BY <1>1, <1>3, <1>5, <2>1 DEF AloneInv
<1> QED
    BY <1>4, <1>6, <1>7, <1>8

-----------------------------------------------------------------------------
(* Clients.                                                                *)

\* No connection is taken from a Client, and a closed one stays closed.
LEMMA ClientGrpc ==
    ASSUME GrpcInv, NEW k \in Clients,
           (\E a \in ClientServers : NewClient(k, a)) \/ Close(k)
    PROVE  GrpcInv'
<1> USE DEF GrpcInv
<1>1. UNCHANGED <<pkg, addr, grpcConn, init, settled, call>>
    BY DEF NewClient, Close
<1>2. /\ client' \in [Clients -> ClientRecords] /\ ClientsOwn'
      /\ \A j \in Clients : /\ client[j].conn # Nil => client'[j].conn # Nil
                            /\ client[j].closed => client'[j].closed
  <2>1. ASSUME NEW a \in ClientServers, NewClient(k, a)
        PROVE  /\ client' \in [Clients -> ClientRecords] /\ ClientsOwn'
               /\ \A j \in Clients : /\ client[j].conn # Nil => client'[j].conn # Nil
                                     /\ client[j].closed => client'[j].closed
    <3>1. Conn(a, k) \in ConnRecords /\ Conn(a, k).owner = k
        BY DEF Conn, ConnRecords, Addresses
    <3>2. /\ client' = [client EXCEPT ![k] = [client[k] EXCEPT !.conn = Conn(a, k)]]
          /\ client[k].conn = Nil /\ open' = open \cup {k}
        BY <2>1 DEF NewClient, GrpcTypeOK
    <3>3. /\ client' \in [Clients -> ClientRecords]
          /\ client'[k].conn = Conn(a, k) /\ client'[k].closed = client[k].closed
          /\ \A j \in Clients \ {k} : client'[j] = client[j]
        BY <3>1, <3>2 DEF GrpcTypeOK, ClientRecords
    <3> QED
        BY <3>1, <3>2, <3>3 DEF ClientsOwn
  <2>2. CASE Close(k)
    <3>1. /\ client' = [client EXCEPT ![k] = [client[k] EXCEPT !.closed = TRUE]] /\ open' = open \ {k}
        BY <2>2 DEF Close, GrpcTypeOK
    <3>2. /\ client' \in [Clients -> ClientRecords]
          /\ client'[k].conn = client[k].conn /\ client'[k].closed
          /\ \A j \in Clients \ {k} : client'[j] = client[j]
        BY <3>1 DEF GrpcTypeOK, ClientRecords
    <3> QED
        BY <3>1, <3>2 DEF ClientsOwn
  <2> QED
      BY <2>1, <2>2
<1>3. GrpcTypeOK'
    BY <1>1, <1>2 DEF GrpcTypeOK
<1>4. \A i \in Inits : InProgress(i)' <=> InProgress(i)
    BY <1>1 DEF InProgress
<1>5. AloneInv' /\ SettledInv' /\ CallsInv'
    BY <1>1, <1>4 DEF AloneInv, SettledInv, CallsInv, Dialled
<1>6. OwnedInv'
  <2> SUFFICES ASSUME NEW g \in Callers PROVE Owned(call[g])'
      BY DEF OwnedInv
  <2>1. Owned(call[g]) /\ call'[g] = call[g] /\ call[g].via \in Clients \cup {Shared}
      BY <1>1 DEF OwnedInv, GrpcTypeOK, CallRecords
  <2> QED
      BY <1>2, <2>1 DEF Owned
<1> QED
    BY <1>2, <1>3, <1>5, <1>6

-----------------------------------------------------------------------------
(* Calls.                                                                  *)

\* A step of one call leaves all but its record alone.
LEMMA OneCallGrpc ==
    ASSUME GrpcInv, NEW g \in Callers, NEW c \in CallRecords, CallOK(c), Owned(c),
           call' = [call EXCEPT ![g] = c],
           UNCHANGED <<pkg, addr, grpcConn, client, open, init, settled>>
    PROVE  GrpcInv'
<1> USE DEF GrpcInv
<1>1. GrpcTypeOK'
    BY DEF GrpcTypeOK
<1>2. ClientsOwn' /\ SettledInv'
    BY DEF ClientsOwn, SettledInv, InProgress, Dialled
<1>3. AloneInv'
    BY DEF AloneInv, InProgress, Dialled
<1>4. CallsInv' /\ OwnedInv'
  <2>1. call'[g] = c /\ \A h \in Callers \ {g} : call'[h] = call[h]
      BY DEF GrpcTypeOK
  <2>2. \A x : Owned(x)' <=> Owned(x)
      BY DEF Owned
  <2>3. \A h \in Callers : Owned(call'[h])
      BY <2>1 DEF OwnedInv
  <2> QED
      BY <2>1, <2>3 DEF CallsInv, OwnedInv, Owned
<1> QED
    BY <1>1, <1>2, <1>3, <1>4

\* A call begins on a connection of its own side.
LEMMA StartedGrpc ==
    ASSUME NEW via \in Clients \cup {Shared}, NEW conn \in ConnRecords, NEW kind \in Kinds,
           NEW expect \in Known \cup {Unclear}, conn.owner = via,
           via # Shared => client[via].conn # Nil,
           (via = Shared /\ expect # Unclear) =>
              IF conn = Nil THEN expect \in BadAddresses ELSE conn.to = expect
    PROVE  LET c == Started(via, conn, kind, expect)
           IN  c \in CallRecords /\ CallOK(c) /\ Owned(c)
<1> DEFINE st == IF conn = Nil THEN "panic" ELSE "running"
           c == Started(via, conn, kind, expect)
<1>1. st \in {"panic", "running"} /\ (st = "panic" <=> conn = Nil)
    OBVIOUS
<1>2. kind \in {"unary", "lookup", "drained", "first"}
    BY DEF Kinds
<1>3. c = [NoCall EXCEPT !.st = st, !.via = via, !.conn = conn, !.kind = kind, !.expect = expect]
    BY Zenon DEF Started
<1> HIDE DEF st, c
<1>4. /\ c.st = st /\ c.via = via /\ c.conn = conn /\ c.expect = expect /\ c.err = "none"
      /\ c \in CallRecords
    BY <1>1, <1>2, <1>3, NilIsConn DEF NoCall, CallRecords
<1>5. CallOK(c) /\ Owned(c)
    BY <1>1, <1>4 DEF CallOK, Owned
<1> QED
    BY <1>4, <1>5 DEF c

LEMMA BeginGrpc ==
    ASSUME GrpcInv, NEW g \in Callers, NEW kind \in Kinds,
           BeginShared(g, kind) \/ \E k \in Clients : BeginMethod(g, k, kind)
    PROVE  GrpcInv'
<1> USE DEF GrpcInv
<1>1. CASE BeginShared(g, kind)
  <2>1. grpcConn \in ConnRecords /\ grpcConn.owner = Shared
      BY SharedIsConn DEF GrpcTypeOK
  <2>2. settled # Unclear => IF grpcConn = Nil THEN settled \in BadAddresses ELSE grpcConn.to = settled
    <3> SUFFICES ASSUME settled # Unclear
                 PROVE  IF grpcConn = Nil THEN settled \in BadAddresses ELSE grpcConn.to = settled
        OBVIOUS
    <3>1. grpcConn = Dialled(settled)
        BY DEF SettledInv
    <3>2. settled \notin BadAddresses => Dialled(settled) # Nil /\ Dialled(settled).to = settled
        BY DEF Dialled, Nil, Conn
    <3>3. settled \in BadAddresses => Dialled(settled) = Nil
        BY DEF Dialled
    <3> QED
        BY <3>1, <3>2, <3>3
  <2> DEFINE c == Started(Shared, grpcConn, kind, settled)
  <2>3. c \in CallRecords /\ CallOK(c) /\ Owned(c)
      BY <2>1, <2>2, StartedGrpc DEF GrpcTypeOK
  <2>4. /\ call' = [call EXCEPT ![g] = c]
        /\ UNCHANGED <<pkg, addr, grpcConn, client, open, init, settled>>
      BY <1>1 DEF BeginShared
  <2> HIDE DEF c
  <2> QED
      BY <2>3, <2>4, OneCallGrpc
<1>2. ASSUME NEW k \in Clients, BeginMethod(g, k, kind) PROVE GrpcInv'
  <2>1. client[k].conn # Nil /\ client[k].conn \in ConnRecords /\ client[k].conn.owner = k
      BY <1>2 DEF BeginMethod, GrpcTypeOK, ClientRecords, ClientsOwn
  <2>2. k # Shared
      BY GrpcAssumption
  <2> DEFINE c == Started(k, client[k].conn, kind, Unclear)
  <2>3. c \in CallRecords /\ CallOK(c) /\ Owned(c)
      BY <2>1, <2>2, StartedGrpc
  <2>4. /\ call' = [call EXCEPT ![g] = c]
        /\ UNCHANGED <<pkg, addr, grpcConn, client, open, init, settled>>
      BY <1>2 DEF BeginMethod
  <2> HIDE DEF c
  <2> QED
      BY <2>3, <2>4, OneCallGrpc
<1> QED
    BY <1>1, <1>2

\* The other steps of a call keep where it goes; a slice is returned without an
\* error only at io.EOF.
LEMMA CallStepGrpc ==
    ASSUME GrpcInv, NEW g \in Callers,
           ServerSends(g) \/ ServerEnds(g) \/ CancelCall(g) \/ Recv(g)
    PROVE  GrpcInv'
<1> USE DEF GrpcInv
<1>1. /\ call[g].st = "running" /\ call[g] \in CallRecords /\ CallOK(call[g]) /\ Owned(call[g])
      /\ UNCHANGED <<pkg, addr, grpcConn, client, open, init, settled>>
    BY DEF ServerSends, ServerEnds, CancelCall, Recv, RecvAnswer, RecvItem, RecvEnd, RecvFails, Running,
           GrpcTypeOK, CallsInv, OwnedInv
<1>2. PICK c \in CallRecords :
         /\ call' = [call EXCEPT ![g] = c]
         /\ c.st \in {"running", "returned"} /\ c.via = call[g].via /\ c.conn = call[g].conn
         /\ c.expect = call[g].expect /\ c.kind = call[g].kind /\ (call[g].ctxDone => c.ctxDone)
         /\ c.err = "canceled" => \/ call[g].err = "canceled" \/ c.ctxDone
                                  \/ c.via # Shared /\ client[c.via].closed
         /\ (c.st = "returned" /\ c.kind = "drained" /\ c.err = "nil") => c.end = "eof" /\ c.got = c.sent
  <2>1. CASE ServerSends(g)
    <3> DEFINE c == [call[g] EXCEPT !.sent = @ + 1]
    <3>1. call' = [call EXCEPT ![g] = c]
        BY <2>1 DEF ServerSends, GrpcTypeOK
    <3>2. /\ c \in CallRecords /\ c.st = "running" /\ c.via = call[g].via /\ c.conn = call[g].conn
          /\ c.expect = call[g].expect /\ c.kind = call[g].kind
          /\ c.err = call[g].err /\ (call[g].ctxDone => c.ctxDone)
        BY <1>1 DEF CallRecords
    <3> QED
        BY <3>1, <3>2
  <2>2. CASE ServerEnds(g)
    <3>1. PICK how \in {"eof", "error"} : call' = [call EXCEPT ![g].end = how]
        BY <2>2 DEF ServerEnds
    <3> DEFINE c == [call[g] EXCEPT !.end = how]
    <3>2. call' = [call EXCEPT ![g] = c]
        BY <3>1 DEF GrpcTypeOK
    <3>3. /\ c \in CallRecords /\ c.st = "running" /\ c.via = call[g].via /\ c.conn = call[g].conn
          /\ c.expect = call[g].expect /\ c.kind = call[g].kind
          /\ c.err = call[g].err /\ c.ctxDone = call[g].ctxDone
        BY <1>1 DEF CallRecords
    <3> QED
        BY <3>2, <3>3
  <2>3. CASE CancelCall(g)
    <3> DEFINE c == [call[g] EXCEPT !.ctxDone = TRUE]
    <3>1. call' = [call EXCEPT ![g] = c]
        BY <2>3 DEF CancelCall, GrpcTypeOK
    <3>2. /\ c \in CallRecords /\ c.st = "running" /\ c.via = call[g].via /\ c.conn = call[g].conn
          /\ c.expect = call[g].expect /\ c.kind = call[g].kind
          /\ c.err = call[g].err /\ (call[g].ctxDone => c.ctxDone)
        BY <1>1 DEF CallRecords
    <3> QED
        BY <3>1, <3>2
  <2>4. CASE RecvAnswer(g)
    <3>1. PICK value \in {"answer", "nil"} :
             call' = [call EXCEPT ![g].got = @ + 1, ![g].st = "returned", ![g].value = value, ![g].err = "nil"]
        BY <2>4 DEF RecvAnswer
    <3> DEFINE got == call[g].got + 1
               c == [call[g] EXCEPT !.got = got, !.st = "returned", !.value = value, !.err = "nil"]
    <3>2. call' = [call EXCEPT ![g] = c]
        BY <3>1 DEF GrpcTypeOK
    <3>3. got \in Nat /\ call[g].kind # "drained"
        BY <1>1, <2>4 DEF CallRecords, RecvAnswer
    <3> HIDE DEF got
    <3>4. /\ c \in CallRecords /\ c.st = "returned" /\ c.via = call[g].via /\ c.conn = call[g].conn
          /\ c.expect = call[g].expect /\ c.kind = call[g].kind /\ c.err = "nil" /\ c.ctxDone = call[g].ctxDone
        BY <1>1, <3>3 DEF CallRecords
    <3> HIDE DEF c
    <3> QED
        BY <3>2, <3>3, <3>4
  <2>7. CASE RecvItem(g)
    <3> DEFINE c == [call[g] EXCEPT !.got = @ + 1]
    <3>1. call' = [call EXCEPT ![g] = c]
        BY <2>7 DEF RecvItem, GrpcTypeOK
    <3>2. /\ c \in CallRecords /\ c.st = "running" /\ c.via = call[g].via /\ c.conn = call[g].conn
          /\ c.expect = call[g].expect /\ c.kind = call[g].kind
          /\ c.err = call[g].err /\ (call[g].ctxDone => c.ctxDone)
        BY <1>1 DEF CallRecords
    <3> QED
        BY <3>1, <3>2
  <2>5. CASE RecvEnd(g)
    <3> DEFINE err == EndResult(call[g].kind, call[g].end)
               c == [call[g] EXCEPT !.st = "returned", !.err = err]
    <3>1. call' = [call EXCEPT ![g] = c] /\ call[g].got = call[g].sent /\ call[g].end # "open"
        BY <2>5 DEF RecvEnd, GrpcTypeOK
    <3>2. err \in {"nil", "eof", "error"} /\ (err = "nil" => call[g].end = "eof")
        BY <1>1, <3>1 DEF EndResult, CallRecords
    <3> HIDE DEF err
    <3>3. /\ c \in CallRecords /\ c.st = "returned" /\ c.via = call[g].via /\ c.conn = call[g].conn
          /\ c.expect = call[g].expect /\ c.kind = call[g].kind /\ c.err = err
          /\ c.end = call[g].end /\ c.got = call[g].got /\ c.sent = call[g].sent
          /\ c.ctxDone = call[g].ctxDone
        BY <1>1, <3>2 DEF CallRecords
    <3> HIDE DEF c
    <3> QED
        BY <3>1, <3>2, <3>3
  <2>6. CASE RecvFails(g)
    <3> DEFINE c == [call[g] EXCEPT !.st = "returned", !.err = "canceled"]
    <3>1. call' = [call EXCEPT ![g] = c]
        BY <2>6 DEF RecvFails, GrpcTypeOK
    <3>2. /\ c \in CallRecords /\ c.st = "returned" /\ c.via = call[g].via /\ c.conn = call[g].conn
          /\ c.expect = call[g].expect /\ c.kind = call[g].kind /\ c.err = "canceled"
          /\ c.ctxDone = call[g].ctxDone
        BY <1>1 DEF CallRecords
    <3>3. call[g].ctxDone \/ (call[g].via # Shared /\ client[call[g].via].closed)
      <4> SUFFICES ASSUME ~call[g].ctxDone PROVE call[g].via # Shared /\ client[call[g].via].closed
          OBVIOUS
      <4>1. call[g].conn.owner # Shared /\ call[g].conn.owner \notin open
          BY <2>6 DEF RecvFails, ConnOpen
      <4>2. call[g].conn.owner = call[g].via /\ call[g].via \in Clients \cup {Shared}
          BY <1>1 DEF CallOK, CallRecords
      <4>3. client[call[g].via].conn # Nil
          BY <1>1, <4>1, <4>2 DEF Owned
      <4> QED
          BY <4>1, <4>2, <4>3 DEF ClientsOwn
    <3> QED
        BY <3>1, <3>2, <3>3
  <2> QED
      BY <2>1, <2>2, <2>3, <2>4, <2>5, <2>6, <2>7 DEF Recv
<1>3. CallOK(c) /\ Owned(c)
    BY <1>1, <1>2 DEF CallOK, Owned
<1> QED
    BY <1>1, <1>2, <1>3, OneCallGrpc

-----------------------------------------------------------------------------
LEMMA NextGrpc == GrpcInv /\ [Next]_vars => GrpcInv'
<1> SUFFICES ASSUME GrpcInv, [Next]_vars PROVE GrpcInv'
    OBVIOUS
<1>1. ASSUME NEW i \in Inits, NEW a \in Servers \cup BadAddresses, InitAddress(i, a) PROVE GrpcInv'
    BY <1>1, InitAddressGrpc DEF Known
<1>2. ASSUME NEW i \in Inits, InitDial(i) \/ InitAssign(i) PROVE GrpcInv'
    BY <1>2, InitDialGrpc, InitAssignGrpc
<1>3. ASSUME NEW k \in Clients, (\E a \in ClientServers : NewClient(k, a)) \/ Close(k) PROVE GrpcInv'
    BY <1>3, ClientGrpc
<1>4. ASSUME NEW g \in Callers, NEW kind \in Kinds,
             BeginShared(g, kind) \/ \E k \in Clients : BeginMethod(g, k, kind)
      PROVE  GrpcInv'
    BY <1>4, BeginGrpc
<1>5. ASSUME NEW g \in Callers, ServerSends(g) \/ ServerEnds(g) \/ CancelCall(g) \/ Recv(g)
      PROVE  GrpcInv'
    BY <1>5, CallStepGrpc
<1>6. CASE UNCHANGED vars
    BY <1>6 DEF GrpcInv, vars, GrpcTypeOK, ClientsOwn, AloneInv, SettledInv, CallsInv, OwnedInv, Owned,
                 InProgress, Dialled
<1> QED
    BY <1>1, <1>2, <1>3, <1>4, <1>5, <1>6 DEF Next

LEMMA GrpcInvariant == Spec => []GrpcInv
BY InitGrpc, NextGrpc, PTL DEF Spec

\* A call is cancelled only by its own context or by the Close of the Client it goes
\* through, for any number of Clients, goroutines that call InitNodeGRPC and calls.
THEOREM CancelledByItsOwner == Spec => []OnlyOwnerCancels
<1>1. GrpcInv => OnlyOwnerCancels
    BY DEF GrpcInv, OwnedInv, Owned, OnlyOwnerCancels
<1> QED
    BY <1>1, GrpcInvariant, PTL

\* The package-level functions go to the address of an InitNodeGRPC that ran
\* alone, for any number of goroutines that call it before and after.
THEOREM SharedReachesInit == Spec => []SharedFollowsInit
<1>1. GrpcInv => SharedFollowsInit
    BY DEF GrpcInv, CallsInv, CallOK, SharedFollowsInit, Began
<1> QED
    BY <1>1, GrpcInvariant, PTL

\* GetBlockByHeight and the other calls that read a stream into a slice return
\* without an error only what they read to io.EOF, for streams of any length.
THEOREM SlicesAreWhole == Spec => []DrainedWhole
<1>1. GrpcInv => DrainedWhole
    BY DEF GrpcInv, CallsInv, CallOK, DrainedWhole
<1> QED
    BY <1>1, GrpcInvariant, PTL
=============================================================================
