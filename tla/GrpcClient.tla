----------------------------- MODULE GrpcClient -----------------------------
(***************************************************************************)
(* The gRPC wrappers nodeGRPC and walletGRPC as clients of a server:       *)
(* Clients, each with a connection of its own and a Close, and the         *)
(* deprecated package-level functions, which all go through one shared     *)
(* connection that InitNodeGRPC (InitWalletGRPC) replaces without any      *)
(* synchronisation and without closing the one before.                     *)
(*                                                                         *)
(* Calls differ in how they read their answer: one message (unary), one    *)
(* message with a list of which the first is wanted (lookup, for           *)
(* GetTransactionInfoByID), a stream read to its end (GetBlockByHeight,    *)
(* GetTransactionsInBlock, GetCompletedTransactionsByPaymentID), or the    *)
(* first message of a stream (GetNetworkDiff).  Only the methods of a      *)
(* wallet Client take a context.                                           *)
(* What messages say is left out; the servers are the environment, and may *)
(* fall silent.                                                            *)
(***************************************************************************)
EXTENDS Integers, Sequences

CONSTANTS
    Servers,        \* addresses of servers that InitNodeGRPC is called with
    ClientServers,  \* addresses of servers that Clients are made for
    BadAddresses,   \* addresses that grpc.NewClient refuses
    Clients,        \* Clients of the program
    Inits,          \* goroutines that call InitNodeGRPC, once each
    Callers,        \* goroutines that make a call, once each
    MaxMessages     \* bound: messages of one stream

Shared == "shared"     \* a call through the package-level connection
Garbled == "garbled"   \* a string read while it was being written
Unclear == "unclear"   \* no address, or one of several

\* A connection is the address it leads to and the Client that can close it;
\* nobody ever closes a shared one.
Conn(a, owner) == [to |-> a, owner |-> owner]
Nil == Conn(Unclear, Shared)

ASSUME GrpcAssumption ==
    /\ MaxMessages \in Nat \ {0}
    /\ Servers \cap BadAddresses = {}
    /\ {Garbled, Unclear} \cap (Servers \cup ClientServers \cup BadAddresses) = {}
    /\ Shared \notin Clients

VARIABLES
    pkg,       \* the package: "node" or "wallet"
    addr,      \* grpcNodeAddress
    grpcConn,  \* the shared connection, or Nil
    client,    \* Client -> its connection, whether Close was called
    open,      \* the Clients whose connection is open
    init,      \* goroutine -> its InitNodeGRPC: where it is, its address, alone so far
    settled,   \* history: address of the last Init, if it ran alone and has returned
    call       \* goroutine -> its call

vars == <<pkg, addr, grpcConn, client, open, init, settled, call>>

Kinds == IF pkg = "node" THEN {"unary", "drained", "first"} ELSE {"unary", "lookup", "drained"}

\* expect: the address that a call through the shared connection should go to, if
\* that is clear.
NoCall == [st |-> "idle", via |-> Shared, conn |-> Nil, kind |-> "unary", expect |-> Unclear,
           ctxDone |-> FALSE, sent |-> 0, end |-> "open", got |-> 0, value |-> "none", err |-> "none"]

NoInit == [st |-> "idle", to |-> Unclear, conn |-> Nil, alone |-> TRUE]

Crashed == \E g \in Callers : call[g].st = "panic"
Running(g) == ~Crashed /\ call[g].st = "running"

\* Mutant: InitNodeGRPC closes the connection that it replaces.
ConnOpenLatest(c) == IF c.owner = Shared THEN c = grpcConn ELSE c.owner \in open

ConnOpen(c) == c.owner # Shared => c.owner \in open

-----------------------------------------------------------------------------
(* The package-level connection.                                           *)

InProgress(i) == init[i].st \in {"addr", "dial"}

\* grpcNodeAddress = nodeAddress
InitAddress(i, a) ==
    /\ init[i].st = "idle"
    /\ addr' = a
    /\ init' = [j \in Inits |->
          IF j = i THEN [st |-> "addr", to |-> a, conn |-> Nil, alone |-> \A k \in Inits : ~InProgress(k)]
                   ELSE [init[j] EXCEPT !.alone = ~InProgress(j)]]
    /\ settled' = Unclear
    /\ UNCHANGED <<pkg, grpcConn, client, open, call>>

\* What reading grpcNodeAddress back may give: a string is two words, and
\* another goroutine may be writing it.
AddressRead(i) == {addr} \cup (IF init[i].alone THEN {} ELSE {init[i].to, Garbled})

\* grpc.NewClient(grpcNodeAddress): no I/O, but it may refuse the address.
InitDial(i) ==
    /\ init[i].st = "addr"
    /\ \E a \in AddressRead(i) :
          \/ /\ a \notin BadAddresses
             /\ init' = [init EXCEPT ![i].st = "dial", ![i].conn = Conn(a, Shared)]
          \/ /\ a \in BadAddresses \cup {Garbled}
             /\ init' = [init EXCEPT ![i].st = "dial"]
    /\ UNCHANGED <<pkg, addr, grpcConn, client, open, settled, call>>

\* Mutant: a connection that is there is kept.
InitAssignOnce(i) ==
    /\ init[i].st = "dial"
    /\ grpcConn' = IF grpcConn = Nil THEN init[i].conn ELSE grpcConn
    /\ init' = [init EXCEPT ![i] = [NoInit EXCEPT !.st = "done"]]
    /\ settled' = IF init[i].alone THEN init[i].to ELSE Unclear
    /\ UNCHANGED <<pkg, addr, client, open, call>>

\* grpcConn, _ = ...: nil when it was refused.
InitAssign(i) ==
    /\ init[i].st = "dial"
    /\ grpcConn' = init[i].conn
    /\ init' = [init EXCEPT ![i] = [NoInit EXCEPT !.st = "done"]]
    /\ settled' = IF init[i].alone THEN init[i].to ELSE Unclear
    /\ UNCHANGED <<pkg, addr, client, open, call>>

-----------------------------------------------------------------------------
(* Clients.                                                                *)

\* New and NewClient; an address that is refused makes no Client.
NewClient(k, a) ==
    /\ client[k].conn = Nil
    /\ client' = [client EXCEPT ![k].conn = Conn(a, k)]
    /\ open' = open \cup {k}
    /\ UNCHANGED <<pkg, addr, grpcConn, init, settled, call>>

\* Mutant: the Client forgets its connection instead of closing it.
CloseForgets(k) ==
    /\ client[k].conn # Nil /\ ~client[k].closed
    /\ client' = [client EXCEPT ![k].closed = TRUE]
    /\ UNCHANGED <<pkg, addr, grpcConn, open, init, settled, call>>

Close(k) ==
    /\ client[k].conn # Nil /\ ~client[k].closed
    /\ client' = [client EXCEPT ![k].closed = TRUE]
    /\ open' = open \ {k}
    /\ UNCHANGED <<pkg, addr, grpcConn, init, settled, call>>

-----------------------------------------------------------------------------
(* Calls.                                                                  *)

\* NewBaseNodeClient(conn) and a call on it, which panics, and takes the program
\* with it, when the connection is nil.
Started(via, conn, kind, expect) ==
    [NoCall EXCEPT !.st = IF conn = Nil THEN "panic" ELSE "running",
                   !.via = via, !.conn = conn, !.kind = kind, !.expect = expect]

\* A package-level function goes through the shared connection.
BeginShared(g, kind) ==
    /\ call[g].st = "idle"
    /\ call' = [call EXCEPT ![g] = Started(Shared, grpcConn, kind, settled)]
    /\ UNCHANGED <<pkg, addr, grpcConn, client, open, init, settled>>

\* A method goes through the connection of its Client.
BeginMethod(g, k, kind) ==
    /\ call[g].st = "idle" /\ client[k].conn # Nil
    /\ call' = [call EXCEPT ![g] = Started(k, client[k].conn, kind, Unclear)]
    /\ UNCHANGED <<pkg, addr, grpcConn, client, open, init, settled>>

ServerSends(g) ==
    /\ Running(g) /\ call[g].end = "open"
    /\ call[g].sent < IF call[g].kind \in {"unary", "lookup"} THEN 1 ELSE MaxMessages
    /\ call' = [call EXCEPT ![g].sent = @ + 1]
    /\ UNCHANGED <<pkg, addr, grpcConn, client, open, init, settled>>

ServerEnds(g) ==
    /\ Running(g) /\ call[g].end = "open"
    /\ \E how \in {"eof", "error"} : call' = [call EXCEPT ![g].end = how]
    /\ UNCHANGED <<pkg, addr, grpcConn, client, open, init, settled>>

\* The caller of a wallet method cancels its context.
CancelCall(g) ==
    /\ Running(g) /\ pkg = "wallet" /\ call[g].via # Shared /\ ~call[g].ctxDone
    /\ call' = [call EXCEPT ![g].ctxDone = TRUE]
    /\ UNCHANGED <<pkg, addr, grpcConn, client, open, init, settled>>

\* The answer of a call, or the first message of a stream, is what is returned;
\* a lookup whose list is empty returns nil without an error.
RecvAnswer(g) ==
    /\ Running(g) /\ call[g].kind # "drained" /\ call[g].got < call[g].sent
    /\ \E value \in {"answer", "nil"} :
          /\ value = "nil" => call[g].kind = "lookup"
          /\ call' = [call EXCEPT ![g].got = @ + 1, ![g].st = "returned",
                                  ![g].value = value, ![g].err = "nil"]
    /\ UNCHANGED <<pkg, addr, grpcConn, client, open, init, settled>>

\* One more message for the slice.
RecvItem(g) ==
    /\ Running(g) /\ call[g].kind = "drained" /\ call[g].got < call[g].sent
    /\ call' = [call EXCEPT ![g].got = @ + 1]
    /\ UNCHANGED <<pkg, addr, grpcConn, client, open, init, settled>>

\* Mutant: a stream that breaks gives what was read of it.
EndResultPartial(kind, end) == IF kind = "drained" THEN "nil" ELSE end

\* io.EOF ends a drained stream well; everything else is the call's error.
EndResult(kind, end) == IF kind = "drained" /\ end = "eof" THEN "nil" ELSE end

RecvEnd(g) ==
    /\ Running(g) /\ call[g].got = call[g].sent /\ call[g].end # "open"
    /\ call' = [call EXCEPT ![g].st = "returned", ![g].err = EndResult(call[g].kind, call[g].end)]
    /\ UNCHANGED <<pkg, addr, grpcConn, client, open, init, settled>>

\* The connection was closed, or the context is done.
RecvFails(g) ==
    /\ Running(g) /\ (~ConnOpen(call[g].conn) \/ call[g].ctxDone)
    /\ call' = [call EXCEPT ![g].st = "returned", ![g].err = "canceled"]
    /\ UNCHANGED <<pkg, addr, grpcConn, client, open, init, settled>>

-----------------------------------------------------------------------------
Init ==
    /\ pkg \in {"node", "wallet"}
    /\ addr = Unclear /\ grpcConn = Nil /\ open = {}
    /\ client = [k \in Clients |-> [conn |-> Nil, closed |-> FALSE]]
    /\ init = [i \in Inits |-> NoInit]
    /\ settled = Unclear
    /\ call = [g \in Callers |-> NoCall]

Recv(g) == RecvAnswer(g) \/ RecvItem(g) \/ RecvEnd(g) \/ RecvFails(g)

Next ==
    /\ ~Crashed
    /\ \/ \E i \in Inits, a \in Servers \cup BadAddresses : InitAddress(i, a)
       \/ \E i \in Inits : InitDial(i) \/ InitAssign(i)
       \/ \E k \in Clients, a \in ClientServers : NewClient(k, a)
       \/ \E k \in Clients : Close(k)
       \/ \E g \in Callers, kind \in Kinds :
             BeginShared(g, kind) \/ \E k \in Clients : BeginMethod(g, k, kind)
       \/ \E g \in Callers : ServerSends(g) \/ ServerEnds(g) \/ CancelCall(g) \/ Recv(g)

\* gRPC hands a call what has arrived for it.  Nothing is assumed of servers.
Spec == Init /\ [][Next]_vars /\ \A g \in Callers : WF_vars(Recv(g))

-----------------------------------------------------------------------------
Began(g) == call[g].st # "idle"

\* Nobody but the caller's own side ends a call before its answer: it is cancelled
\* only if its own context was, or if the Client it goes through was closed, never
\* by the Close of another Client, nor by an InitNodeGRPC that replaces the shared
\* connection while calls are under way on it.
OnlyOwnerCancels ==
    \A g \in Callers : call[g].err = "canceled" =>
        call[g].ctxDone \/ (call[g].via # Shared /\ client[call[g].via].closed)

\* The package-level functions follow InitNodeGRPC as long as its calls do not
\* overlap: a call begun after one has returned, and before the next, goes to
\* that one's address, and it panics only if that address was refused.
SharedFollowsInit ==
    \A g \in Callers : (Began(g) /\ call[g].via = Shared /\ call[g].expect # Unclear) =>
        IF call[g].st = "panic" THEN call[g].expect \in BadAddresses
                                ELSE call[g].conn.to = call[g].expect

\* A stream that was read into a slice without an error was read whole, to its
\* io.EOF, which is also what releases it.
DrainedWhole ==
    \A g \in Callers : (call[g].st = "returned" /\ call[g].kind = "drained" /\ call[g].err = "nil") =>
        call[g].end = "eof" /\ call[g].got = call[g].sent

\* Close ends every call of its Client, also one whose server has fallen silent
\* and which no deadline ends.
CloseEndsCalls ==
    \A k \in Clients, g \in Callers :
        (client[k].closed /\ call[g].via = k) ~> (call[g].st # "running" \/ Crashed)
=============================================================================
