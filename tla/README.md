# TLA+ verification of go-tari-lib

`go-tari-lib` talks to Tari programs from Go. It speaks Tari's peer-to-peer
protocol itself (package `p2p` and the program `cmd/p2p-responder-spike`), wraps
the gRPC interfaces of the wallet and the base node (`walletGRPC`, `nodeGRPC`),
and encodes and decodes addresses (`address`). This directory holds TLA+ models
of the parts that have control flow of their own, the TLC configurations that
check them on small instances, and TLAPS proofs of their most important
properties for every value of the constants. `PROJECT.json` maps every
definition to the lines it models.

Run `tlc -config X.cfg M` for a run and `tlapm M.tla` for the proofs of a
module; the tables below say which.

## 1. Inventory

| Part | State | Operations | Hard because |
|---|---|---|---|
| Noise session (`p2p/handshake.go`, `frame.go`, `session.go`, `identity.go`) | handshake position, two cipher states with nonces, the connection's deadline and its caller's context | initiator and responder handshake, `SendFrame`, `ReceiveFrame`, `ExchangeIdentityWithOptions` | two goroutines per end share one connection with what comes after them; a frame is two writes; the context is looked at in two places only |
| Probes (`probe.go`, `getpeers_probe.go`, `chainmetadata_probe.go`) | none besides the session | dial, handshake, identity, Yamux, one RPC, close | deferred closes free goroutines that an early return left behind |
| Responder (`p2p/responder.go`) | listener, `WaitGroup`, one goroutine per connection and per substream | `Serve`, `handleResponderConn`, `handleResponderSubstream` | shutdown against peers that stay, substreams that outlive their connection's handler |
| Responder process (`cmd/p2p-responder-spike`) | peer store (map under a mutex), context, key file | `Record`, `List`, signal goroutine, `loadOrGenerateKeypair` | clock read outside the lock; order of cancel and close; key file written in place |
| RPC over a substream (`p2p/rpc`) | framing mode per side, iteration counter | `NegotiateProtocol(Inbound)`, session handshakes, `GetPeers`, `GetChainMetadata`, `ServeGetPeers` | both sides change framing on one byte stream without a marker; streams without an end; truncated answers |
| Wallet client (`walletGRPC`) | a connection per `Client`, and one for the package; for events a goroutine and two channels | `New`, `Close`, `StreamTransactionEvents`, `SendTransactions`, `SplitTransferResults`, drained queries, wrappers, `InitWalletGRPC` | a transfer whose answer is lost; `Close` under a running call; a full channel nobody reads |
| Node client (`nodeGRPC`) | a connection per `Client`, and one for the package | `NewClient`, `Close`, wrappers, drain loops, `InitNodeGRPC` | the shared connection is replaced without synchronisation; calls have no deadline |
| Address codec (`address`) | none | constructors, payment ids, combination, checksum, bytes/emoji/base58/hex, `Parse` | leading zeros, a base58 form in three pieces, guessing the form |
| Identity message (`p2p/identity_signature.go`, `hashing.go`, `ristretto_dh.go`, `multiaddr.go`) | none | encode addresses, hash the claims, sign, verify | what a signature covers depends on how its input is framed; an encoding error is seen by peers only |
| Dialling (`p2p/socks.go`) | none | direct or SOCKS5 dial | I/O |

How they interact. A probe dials and runs the session as initiator; `Serve`
accepts and runs it as responder. The session hands its connection to Yamux
(through `yamuxadapter.go`), whose substreams carry one RPC each. The responder
records a peer in the store when its identity is known and lists the store when
a substream opens; the list is what the RPC server answers with. The signal
goroutine of the process reaches `Serve` through the context and the listener
only; the process reaches `Serve` with the keypair and the addresses it set up
before. On a wallet `Client` payments and the event stream share one connection.
The node and address packages stand alone.

What makes each part correct:

* session: one goroutine at a time in each direction of the connection; only
  protocol on the wire; agreeing keys; no mutual wait; every bounded phase ends;
* responder: `Serve` outlives its goroutines, a shutdown is not an error, one
  bad peer does not stop the others;
* peer store: nobody recent forgotten, nobody old listed, no answer above the cap;
* RPC: no frame read in the wrong framing, a successful call has everything, a
  server that goes on sending cannot keep a call for ever;
* process: one identity over restarts, addresses that peers can read, a signature
  that binds them;
* wallet events: everything once and in order, failures told apart from ends, no
  goroutine left behind;
* payouts: nobody lost or wrongly taken for paid, and nobody paid twice but for
  what the library cannot tell its caller;
* gRPC clients: a call ends early only through its own side, shared calls go where
  the last `Init` said, a slice read from a stream is whole, `Close` ends what hangs;
* addresses: every form reads back or is refused, never misread; damage is found.

The hazards behind these properties are listed in `PROJECT.json`, each at the
line where it bites.

## 2. Modules

| Module | Models | Composes |
|---|---|---|
| `P2PSession` | both ends of one connection up to Yamux | |
| `PeerStore` | the process's peer store | |
| `Responder` | `Serve`, handlers, substreams, signal goroutine | extends `PeerStore` |
| `GetPeersRpc`, `MCGetPeersRpc` | one RPC call on one substream, both sides | |
| `EventStream` | what the event stream promises its caller | |
| `WalletEvents` | the event stream's goroutine, channels and caller | implements `EventStream` |
| `Payout` | `SendTransactions` with a retrying caller, wallet and network | |
| `WalletClient` | both on one `Client` that may be closed and replaced | extends `WalletEvents`, `Payout` |
| `KeyFile` | the key file and the processes that use it | |
| `Identity` | multiaddrs, challenge, signature, identity message | |
| `Startup`, `MCStartup` | the process up to `Serve` | extends `KeyFile`, `Identity` |
| `GrpcClient` | `Client`s and package-level functions of both gRPC packages | |
| `Address`, `MCAddress` | the address codec | |
| `P2PSessionProofs`, `ResponderProofs`, `GetPeersRpcProofs`, `WalletEventsProofs`, `WalletClientProofs`, `StartupProofs`, `GrpcClientProofs`, `AddressProofs` | theorems; those about `PeerStore` are in `ResponderProofs`, those about `Payout` in `WalletClientProofs` | extend their modules |

Definitions marked "Mutant" are deliberate errors, each a change a plausible bug
would make (a dropped guard, an off-by-one, a swapped order). They are used by
nothing; `PROJECT.json` names, for every property, the mutant that violates it.

### P2PSession

Ends `I` (the probe) and `R` (the responder) each have a phase `pc` (start, hs,
ident, yamux, closed) and up to five goroutines `th[e][t]`: the caller's own
(`main`), the two halves of the identity exchange (`send`, `recv`) and the two
loops of Yamux (`ysend`, `yrecv`). The grain is one `Write` or `ReadFull`:
`writeFrame` is a length and a body with other goroutines in between. `wire[e]`
is everything `e` has written, `rpos` how far the other end has read. Cryptography
is a key name and a nonce on every unit: a frame decrypts if and only if both are
the expected ones. `Script` is the straight-line I/O of the two handshakes.
`Start` is `checkContext` with the deadline; `SendFrame`, `ReceiveFrame`,
`WritePut`, `WriteReturn`, `Read`, `ReadCut` and `IOError` are the calls on the
connection; `SelectCtx`, `SelectSend` and `SelectRecv` are the loop of
`ExchangeIdentityWithOptions`; `StartYamux` is what the responder does between
identity and Yamux, clearing its deadline included; `ProbeReturns` is the
deferred close. The environment fires deadlines, cancels contexts and silently
stalls a host. `Cap` is what the transport buffers; 0 is `net.Pipe`, where a
`Write` returns only when its bytes have been read.

### PeerStore and Responder

`Record` reads the clock inside the lock, so it is one step. `List` reads it
before it takes the lock, so it is two, `ListNow` and `ListLocked`, with anything
in between; `seen` is a history variable. `Responder` extends it: `Callers` are
the substreams. `conn[c]` and `sub[s]` say where each handler is, `wg` is the
counter of the `WaitGroup` as the code adds to it and takes from it. What happens
on a connection before Yamux is abstracted to success or failure, which
`P2PSession` shows to come in bounded time. `served[s]` is what the substream's
response holds; `AnswerFitsWindow` relates it, over whatever happened since the
list was taken, to the store's history and to the cap.

### GetPeersRpc

Client and server records hold a program counter, the framing mode and the
outcome. A frame carries the framing it was written in; one that is read in the
other mode is `misframed`. The server is `ServeGetPeers`, or any other
implementation (`foreign`), which may refuse, fail, stream for ever or fall silent. The
bounding operators (`boundPeersForRequest` and its helpers) work on lists of peers
with claims with addresses.

### EventStream, WalletEvents

`EventStream` is the promise without the machinery: the next event, in order,
until the caller is told how the stream ended, and nil only for a stream that was
delivered whole or that the caller cancelled. `WalletEvents` implements it under
the mapping at its end (`ImplementsEventStream`). It is the goroutine of `StreamTransactionEvents` (`g`), the two channels with their
capacities, the gRPC stream's own buffer (`flight`), and a caller that ranges over
the events, reads the error channel once, may cancel and may walk away. When a
stream has been cancelled, `Recv` may still return an event it has buffered, or
the error. The wallet ends a stream after what it has sent; a connection that
ends takes the last events with it.

### Payout

A caller pays `Recipients` by the rules in the comments of `client.go`: the
failed recipients of an answered call are sent again; so is a whole call whose
error does not wrap `ErrAmbiguousBroadcast`; the recipients of an ambiguous call are
looked up by payment id. A request may be lost, may be executed after the client
has given up, and its answer may be lost. `classifyTransferErr`,
`SplitTransferResults` and `Drain` are the library's. The caller may look a payment
up at once: nothing tells it whether the request can still arrive, and the
documentation asks only for "checking transaction history/state"
(`walletGRPC/client.go:22-24`).

So a caller that does all it is told to can still pay twice, in two ways, which two
history variables count for each recipient: `early`, a lookup that found nothing
while a request was still under way, and `oversize`, a payment whose answer was
above gRPC's receive limit and came back as an error that is not ambiguous.
`PaymentsAccounted` says that there is no third way, and that each costs one payment
at most.

### WalletClient

A program that pays and follows events on one `Client`. `Close` ends the event
stream and gives a running transfer `codes.Canceled`, while its request may still
be on its way or executed; a transfer on a closed `Client` fails with the same
code without a request. Both are ambiguous by `classifyTransferErr`, which is
what keeps the next `Client` from sending again without a lookup.

### KeyFile, Identity, Startup

`KeyFile` is `loadOrGenerateKeypair` and `net.Listen` with one step per system
call: read, open (which truncates), write, listen. Each can fail, a write after
half of the key, and a process can be killed between any two and started again.
Any number of processes share the file. The file is a sequence of halves, so
that a short, empty or overwritten one is told apart. An operator removes a file
that is not whole, which every start refuses. `raced` records that two processes
were between their start and the end of `loadOrGenerateKeypair` at once.

`Identity` computes, byte for byte, the binary multiaddrs and the input of the
signature's hash. A hash stands for its input (no collisions), and the group is
symbolic: `s = e*x + r` is the record of its parts, and `s*G = R + e*P` compares
them. `DecodeMultiaddr` is the peer's parser. `Startup` puts the two together:
addresses first, then key, then serving; its properties look at the messages a
serving process sends.

### GrpcClient

Callers make calls through a `Client` or through the package. `InitNodeGRPC` is
three steps (write the address, read it back into `grpc.NewClient`, write the
connection), since nothing keeps two of them, or a call, from running between.
The race on the address is a choice between what either wrote and a torn
string. A refused address leaves a nil connection, on which a call panics; a
connection that is replaced is not closed, so calls under way on it go on
(`ConnOpen`). Calls differ in how they read: one message (`RecvAnswer`), which for
`GetTransactionInfoByID` may be an empty list and gives nil without an error, a
stream to `io.EOF` (`RecvItem`, `RecvEnd`), or the first message of a stream.
`settled` is a history variable: the address of the last `Init` if it ran alone and
has returned.

### Address

A byte is the set of its bits, so XOR, shift and flags are set operations. Every
form is computed in full: base58 as the library does it, digit by digit with a
carry (`MulAdd`, `Rebase`), with its leading zeros and its three separately encoded
pieces. The general readers (`Parse`, `FromBase58`) and the ones of each kind
(`SingleAddressFromBase58` and so on) are both there, with the error that each kind
of bad text gives (`Unrecovered`); the hexadecimal readers take digits of either
case (`LowerCase`). A behaviour builds an address,
combines it or gives it a payment id, writes it, perhaps damages it, and reads it.
Which byte strings are canonical keys is a constant; the instance uses real
Ristretto encodings.

## 3. Runs

| Run | Module / cfg | Shows |
|---|---|---|
| `session_safety` | `P2PSession` / `P2PSession_safety.cfg` | exclusive use of each direction, protocol on the wire, no garbage between conforming ends, agreeing keys, deadline out of Yamux |
| `session_settles` | `P2PSession` / `P2PSession_settles.cfg` | no mutual wait on an unbuffered transport; bounded phases end although the peer stalls; left-behind goroutines end |
| `responder` | `Responder` / `Responder.cfg` | `Serve` waits for all, `WaitGroup` rules, clean stop, recent peers remembered and old ones not listed, answers within cap and window, the accept loop goes on, shutdown once peers leave |
| `responder_shutdown` | `Responder` / `Responder_shutdown.cfg` | **violated**: a signal ends `Serve` |
| `responder_stale` | `Responder` / `Responder_stale.cfg` | **violated**: served peers were seen within the window |
| `rpc` | `MCGetPeersRpc` / `GetPeersRpc.cfg` | framings never mix, complete and bounded answers, calls succeed, and end unless the server falls silent |
| `wallet_client` | `WalletClient` / `WalletClient.cfg` | nobody wrongly taken for paid, and every second payment accounted for, over a closed and replaced `Client`; the stream implements `EventStream`, every end is told, cancelling frees the goroutine |
| `wallet_terminal` | `WalletEvents` / `WalletEvents_terminal.cfg` | **violated**: every terminal error is forwarded |
| `payout_retry` | `Payout` / `Payout_retry.cfg` | **violated**: whom the caller may send to again has not been paid |
| `startup` | `MCStartup` / `Startup.cfg` | one identity over crashes and failures, addresses a peer reads, a signature that binds the claims |
| `grpc_client` | `GrpcClient` / `GrpcClient.cfg` | calls are cancelled by their own side only, shared calls follow `Init`, drained streams whole, `Close` ends a hanging call |
| `address` | `MCAddress` / `Address.cfg` | forms read back or are refused and never misread, damage found, combination symmetric |

### Bounds, and why they are enough

* `P2PSession`: two ends are all there are. One Yamux frame each way
  (`MaxYamuxFrames = 1`) lets the new goroutines meet what the identity exchange
  left behind; further frames repeat the same step with the next nonce, and the
  proofs cover any number. Safety uses a transport that buffers one write, so that
  a writer can be ahead of its reader; liveness the unbuffered one, where waiting
  is longest. The safety run has deadlines, contexts and the wrong network byte,
  and identities that are too large or do not decode; the liveness run has silent
  stalls, and a probe whose context has no deadline, so that of `ExchangeSettles` it
  exercises the responder's half, and of the probe what `IdentitySettles` says.
* `Responder`, with the peer store: two connections and two substreams allow a
  handler to end while its substream runs, one connection to fail while another
  waits, and one `List` to be overtaken by another and by a `Record`. Two peers
  and a cap of one cross the cap; a window of one in two ticks lets an entry be
  fresh, exactly at the edge, and old. The proofs cover every size.
* `GetPeersRpc`: lists of up to three peers, two claims and two addresses against
  every request with bounds 0 to 2 (0, 1 and 3 peers) put each length below, at
  and above its bound; three iterations put the cap below and at the length of
  the stream. A window of two frames lets a writer block.
* `WalletClient`: a channel of one and two events fill the channel and the
  goroutine's hand at once; two recipients give answers that are partly good and
  partly bad; three calls give a retry of a retry, also across two `Client`s. All
  three are made by programs that follow no events; beside an event stream there is
  one call (`MaxCallsBeside`), since the two uses meet only in `Close`. The proofs
  cover every size.
* `Startup`: two processes are what it takes for one to disturb another; four
  starts allow a crash, a failed write and a clean-up before the one that serves
  and one after; three keypairs allow each of those to have its own. The flags are
  unset, good, at the edges of the port's range and beyond, and of forms the
  encoder refuses; ports 256 and 65535 tell the byte orders apart.
* `GrpcClient`: two addresses, one more that is refused, two `Init`s that may race,
  and two `Clients`, so that one is closed beside a call of the other and of the
  package. One caller is enough, because calls have no variable in common but the
  connection they read when they begin; where a `Client`'s connection leads is in no
  property, so `ClientServers` has one address. Two messages allow a stream to break
  at its start, in the middle and at its end.
* `Address`: real sizes (keys of 32 bytes) except that a payment id has at most
  two bytes. One key has six leading zero bytes: with it the base58 forms have
  exactly the 45 and 89 characters the readers require. Two more have nine, and
  nothing but zeros (the group's identity, which the repository's test accepts):
  their base58 forms are too short and are refused. Damage puts five byte values,
  the checksum mask among them, at every position, and swaps every pair of
  neighbours.

No symmetry is used: the passing runs with liveness would make it unsound, and
the others do not need it. Deadlock checking is off where a behaviour really
ends (a closed connection, a finished call, a paid list); `NeverStuck` states
what must not wait.

### Fairness, and why the code justifies it

Weak fairness is given to the program's own goroutines only: the Go scheduler
runs a goroutine that can run. In `P2PSession` it is also given to a deadline
that is armed and to the exchange's own timeout, which are timers of the runtime;
a stalled host has none of its steps taken (they require `up`). In `Responder`
the phases before Yamux end because the connection's deadline ends them. Nothing
is assumed of peers, servers, wallets or callers: a peer may be idle for ever, and a
foreign RPC server need neither send FIN nor send anything. A silent one keeps the
call, because nothing in `GetPeers` or `GetChainMetadata` bounds a read in time (the
probes set a deadline if their context has one); `CallEnds` says that this is the
only way for a call not to end, and that the iteration cap ends the others. Also,
no one has to cancel or send a signal. In `WalletClient` a caller that has not
walked away reads. In `GrpcClient` a call is handed what has arrived for it, and
that its connection was closed; servers may be silent. `Startup` is safety only.

### Disagreements between comments and code

* `ShutdownReturns`: `Serve` is said to run "until ctx is cancelled or
  listener.Accept() returns an error (whichever happens first)"
  (`responder.go:93-94`). It then waits for every handler, and a handler in
  Yamux's `Accept` watches neither the context nor anything the shutdown
  closes; one idle peer keeps the process alive after a signal.
* `ServedRecently`: the provider "is called once per get_peers request"
  (`responder.go:45-46`). It is called once per substream, before the request is
  read; the answer can hold peers that have left the window since.
* `TerminalErrorForwarded`: `StreamTransactionEvents` "forwards any terminal error
  (other than a clean io.EOF)" (`walletGRPC/client.go:272-275`). When the context
  ends while the goroutine waits to put an event, both channels close without one.
* `RetryIsSafe`: every error that is not ambiguous is said to be "safe to retry or
  fail fast, since the wallet either rejected the request outright or never
  received it" (`walletGRPC/client.go:103-105`). gRPC's own client reports an
  answer above its receive limit as `ResourceExhausted`, after the transfer.
* Base58 forms that the package writes and does not read. A dual address whose view
  key begins with seven zero bytes has one of 88 characters, which
  `DualAddressFromBase58` refuses (`dual_address.go:180`), and a single address whose
  key begins with eight has one of 44, which `FromBase58` refuses too
  (`address.go:228`), although the comment at `single_address.go:15-18` says that
  leading zeros lead to "45, 46, 47 or 48 characters". The all-zero key, which
  `address_test.go:561-569` accepts, gives the shortest. `RoundTrip` says what holds:
  such a text is refused and never read as another address; the instance has keys
  of both kinds.
* A caller that looks at the history after an ambiguous error, as
  `walletGRPC/client.go:22-24` asks, and finds nothing may send again while the first
  request is still under way. The run has such behaviours, and counts them (`early`).
* Read beside the code, without a run of their own: `doc.go:30` speaks of "33-char
  single" emoji ids, and a single address has 35 bytes (`single_address.go:13`), hence
  35 emojis. `pubkey.go:17-19` says that the all-zero string "does not decode to a
  Ristretto255 group element"; it is the encoding of the identity, which
  `PublicKeyFromCanonicalBytes` accepts and `address_test.go:561-569` requires. The
  help of `-key` speaks of a
  file of "32 raw bytes" (`main.go:72`), and a file must have 64
  (`main.go:165-170`). Two processes that set up their keys at once can serve
  under different ones, and a kill between open and write leaves an empty file
  that every later start refuses. Package comments have each call close its own
  connection (`nodeGRPC/client.go:12-13`); the shared one is never closed, and
  `GetNetworkDiff` leaves its stream open. `VerifyIdentitySignature` hashes the
  32-bit version as one byte, so versions equal modulo 256 share a signature.

## 4. Proofs

All theorems hold for every value of the constants that satisfies the modules'
named assumptions. Most say only that bounds are natural numbers and sets finite
(`SessionAssumption`, `PeerStoreAssumption`, `ResponderAssumption`,
`PayoutAssumption`, `EventsAssumption`, `WalletClientAssumption`,
`KeyFileAssumption`); the others give the inputs their types. `RpcAssumption`:
requests have natural bounds, a peer list is a list of peers with lists of claims.
`GrpcAssumption`: good, refused and garbled addresses are different from each
other. `StartupAssumption`: a flag is a list of addresses that have been taken
apart, times are natural numbers and features fit `uint32`. `AddressAssumption`: a canonical key is a string of `PublicKeySize` bytes;
`InputsAssumption`: addresses come from the package's constructors. TLC evaluates
all of them in the runs.

**P2PSession.** `TypeCorrect` is inductive as it stands. `OneUserPerDirection`
is not: nothing in it says why an identity goroutine is over when Yamux starts.
`IInv` adds, for each end, one invariant per phase: before and in the handshake
only `main` runs, and its nonces are 0 (`StartInv`, `HandshakeInv`); in the exchange
only the two halves run, and `sendDone`, `recvDone` imply that they have posted
their result (`ExchangeInv`); Yamux starts with both flags set, hence with both
halves over (`YamuxInv`); a goroutine that is in its I/O is in a state of its own
role (`ThreadInv`). An end's invariant mentions only its own variables, so a step
of one end leaves the other's alone (`OtherEndSame`), and there is one lemma per
action. `ExclusiveUse` follows. `WireProtocol` rests on it: with one writer at a
time, the length of `wire[e]` is determined by the phase, the script's position
and the nonce (`WireInv`), and every `WritePut` adds the next unit of the one
allowed conversation (`NextUnit`). `NoGarbage` and `KeysMatch` add the reading
side: `ReadInv(e)` ties what `e` has read (`rpos`) to its script position, or to
its nonce, so that the unit in front of a reader is the one at that place of the
conversation which `WireInv` of the other end fixes, in the right key and with
the right nonce. `SessionInv` is `IInv` with both for each end; a step of one end
only lengthens the wire that the other reads. `TimeoutEndsBeforeYamux` follows
from `IInv`: the responder enters Yamux with its deadline cleared and nothing sets it again.

**PeerStore.** `StoreInv` is types, no time in the future (`PastTimes`), the map
agrees with the history (`MapIsCurrent`), and the two properties. The argument
for `RemembersRecent`: `List` prunes with a `now` that is not in the future, so
what it removes is older than the window at the true time too. `ListedFresh` is
about the time the call began, which is what the code can promise. `ListsAll`: a
peer that is recent at the true time is recent at any earlier `now` too, so `List` leaves one
out only when it has reached the cap.

**Responder.** Every step of the responder is a step of the store or leaves it alone
(`StorePart`), so the store's theorems hold of the running process
(`ResponderKeepsStore`). `RespInv` adds that the counter is the number of live
goroutines (`WgCounts`) and that the context is cancelled before the listener is
closed (`CancelFirst`). `ServeWaitsForAll`, `StopsGracefully` and
`WaitGroupUsedWell` follow: a substream is added by a live connection, so the
counter is above zero. `AnswersFitWindow` is about the moment a response is sent,
any time after its list was taken. It needs that a list, once taken, stays (`ListHolds`) within
the cap and the window of its own `now`, and lacks only peers that were recorded later,
have left the window, or did not fit, although the store changes meanwhile.

**GetPeersRpc.** Neither `NoMisframing` nor `NoPeerLost` is inductive. `CallInv`
says that the two sides are in step: which pairs of program counters can occur,
what lies in each direction then (`InStep`, `ClientSees`, `ServerSees`), that a
side's framing is that of the frame it waits for (`Modes`), and what has been
agreed (`Agreed`). `SentInv` says that the peers sent are those the client has
followed by those in the frames in front of it (`InFlight`), and that FIN is on
the last frame only, after which the server is done; `OwedInv` that what
`ServeGetPeers` has sent and still has to send is the bounded list. From these,
`FramingsNeverMix`, `NegotiationIsAgreed`, `SuccessIsWhole` (for foreign servers
too) and `AnswerFitsRequest`, the last with lemmas on the three bounding helpers.

**GrpcClient.** `CancelledByItsOwner`, `SharedReachesInit` and `SlicesAreWhole`.
`GrpcInv` says that a Client's connection is its own, and open until the Client is
closed (`ClientsOwn`); that an `Init` which has been alone so far is the only one
under way and still finds what it wrote (`AloneInv`); that a settled `Init` is what
the shared connection was made for (`SettledInv`); of each call, what it was when it
began (`CallsInv`), and that its Client has a connection and what cancelled it
(`OwnedInv`). The second is what makes the three steps of `Init` one.

**Payout.** `PaidOnceButForMishaps`, `PaidWasPaid` and `PayoutTypeCorrect`, with every
error the client's stack may make up. `PaymentsAccounted` is not inductive: it must
count what is still to come. `OwedInv` says, of each recipient, that the payments
made, the requests under way that name it and the one payment the caller is free to
make (`Spare`) are together at most one, and one more for each mishap counted. A new
request uses the spare payment up; the wallet turns a request into a payment or, by
refusing, into a spare one; an ambiguous error leaves none, and a lookup that finds
nothing gives one back: with no request under way for nothing, else for one `early`.
`NetInv` (requests have numbers of their own) and `ReplyInv` (an answer names only
recipients of the running call who were paid, and its request is no longer under way)
carry the count.

**WalletEvents.** `StreamRefined` is the refinement of `EventStream`.
`DeliveredInv` says where the events are: what the caller has, the channel, the
goroutine's hand and the stream's buffer, one after the other, count 1, 2, 3 ...
without a gap; they reach the last event sent unless the stream broke or was
cancelled. `ReceivingInv` says that while the goroutine receives nothing has been
reported, and `EndInv` what a report, or its absence, means once it has left.
From the first, `TakeEvent` is `Deliver`; from the others, `ReadErr` is `Tell`; every
other step is a step of the environment or a stutter. `EventsTypeCorrect` adds
that the error channel never holds more than one error, so the goroutine, which
sends it without a select, does not block there.

**WalletClient.** The invariants of the two halves carry over, since a step of
one leaves the other's variables alone, except for `Close`, which is a step of both
(`ConnectionEnds` and `TransferFails`). `ClientStreamRefined`, `ClientPaysOnce` and
`ClientPaidIsPaid` follow.

**Startup.** `IdentityIsStable` needs to know why a served keypair is the one the
next start finds. `StoredInv`: at most one process is setting up; it generates only
where there is no file, and fills only a file that it made itself and that nobody
has used; whoever listens, serves or ever served holds what the file holds. So
`RemoveBadFile` never removes a used key (it would be whole), and two served
keypairs have the same file, hence are the same (`RawInjective`).

`AddressesReadBack` is about bytes: the encoder's output is a concatenation of
fields of known length, so every `SubSeq` that the peer's parser takes is the field
that was put there (`Appended`, `Kept`); a port is its two bytes (`PortBack`), and
the list is the flags one by one (`ListBack`), because a start whose flags do not
encode never gets as far as serving (`ParsedInv`).

`SignatureBindsAll` says what `SignatureBindsClaims` is an instance of: a signature
holds for the features and addresses of its own message, and for no other `uint32`
and no other list of byte strings whatever (of lengths below 2^32), at any time and
with any nonce. Two things are needed. The hashed sequence determines the claims:
the eight bytes of length that `writeLengthPrefixedTo` puts in front of a chunk tell
where it ends (`ChainParses`, from `LittleEndianInjective`), so two lists that leave
the hasher in one state agree address by address, and the longer one would have left
more (`FedAgree`, `HashedInjective`). And the signer holds a pair: `PairInv` says
that a key in use, and a whole file, have halves that belong together unless two
processes set up their keys at once, since a write starts from an empty file and a
failed one leaves less than a whole file. `SignatureBinds` then is
`SignatureBindsClaims`, whose regrouped lists are lists of short addresses
(`RegroupedLists`).

**Address.** Induction over bytes is needed for the checksum, and the library's
induction theorems are out of reach (below); `LeastNat`, that a set of naturals
that is not empty has a least member, does the same work by the least
counterexample. `ChecksumFindsDamage`: one step of the checksum is
`Double(x XOR byte)`, and `Double` is linear for XOR, injective, and fixes no byte
but 0. Two byte strings that differ in one place therefore have different
intermediate results after it and, by induction, to the end; two swapped
neighbours `a`, `b` give the same only if `Double(a XOR b) = a XOR b`, that is
`a = b`.

`AddressReadsBack` is `RoundTrip` for all four forms. `AddressInv` says that the
address has the shape its kind requires (`Shaped`), that the text is what was
written, or that with one damage (`TextInv`), and what a reader has said of it
(`OutInv`); `AddressStaysOK` and `CombineIsSymmetric` need the first only. What is
left is about texts. For an emoji id, `Parse` removes just the separators and the
padding (`CleanedSeparated`). For base58, a loop with a carry keeps the number: the
carry of `MulAdd` stays below the base, so the new digits read as `s * b + x`
(`MulAddNumber`), `Rebase` gives the digits, without a zero in front, of the number
that its input stands for (`RebaseNumber`), and there is only one such string
(`PlainUnique`), so that going to base 58 and back ends where it began
(`RebaseBack`); the leading zeros, counted apart, come back in front (`Restored`,
`Base58Back`), and network and features take one letter each, because every network
and every set of features is a number below 58 (`OneLetter`, `NetworkValue`,
`FeatureValue`). `Parse` has to take no text for one of another form: no letter is an
emoji (`AsciiNotEmoji`), and the third digit of the hexadecimal text, the high half
of the features, is 0, which base58 does not have (`HexNotBase58`). The loops of the
checksum, of `MulAdd` and of `Rebase` are recursive functions; `TurnsExist`,
`RunExists` and `LoopEnds` say once for all of them that such a function exists and
ends in the last of the states that it goes through.

The readers of base58 do not allow every size that `Base58` writes (section 3). For
the texts of other sizes the proof has to exclude that `Parse`, which goes on to the
next form, takes them for something else: one below the minimum is too short for an
address in hexadecimal as well (`ShortNotHex`), and the kind's own reader refuses it
for its size (`ParseBase58`, `SizeRefused`). That upper-case digits are read too
changes nothing for what `Hex` writes (`HexLower`, `LowerSame`).

**Only model-checked:** the liveness properties and `NeverStuck`, since fairness and
`ENABLED` are out of the prover's reach. Which keys have base58 texts of an allowed
size is also left to the run: that compares powers of 58 and 256 of about fifty
digits. The library's induction theorems take an operator as
a parameter, which the provers cannot instantiate; where induction is used it goes
through `LeastNat`.

## 5. Not modelled

* Cryptography: Blake2b, Ristretto255, the Noise ciphers and their key derivation
  are arithmetic beyond a model checker. Keys are names, hashes are their inputs
  and group elements are symbolic.
* Protobuf encodings and generated code, logging, flag parsing, the splitting of
  multiaddr text and base32: layout without state. SOCKS5 dialling: I/O.
* The machine's own crash: a file that was written stays written. The code does
  not sync it.
* Yamux itself is a library. Its send and receive loops, its windows and the end
  of its sessions are modelled from how the code uses them.
* What the requests and answers of the gRPC wrappers say. A wrapper is a call of
  `GrpcClient`.
* `yamuxadapter.go` is modelled at the grain of frames (in `P2PSession`), not of
  bytes: its buffer of the rest of a frame, partial reads and empty frames are not.

## 6. Plan

Done: session, store, responder, RPC, wallet events, payouts and their
composition, process start with key file and identity message, gRPC clients,
addresses; proofs of every safety property of the passing runs except those
named above. Next: `yamuxadapter.go` at the grain of bytes (partial reads of a
frame, empty frames and writes above the frame size), as an implementation of a
byte stream.
