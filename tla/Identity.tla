------------------------------ MODULE Identity ------------------------------
(***************************************************************************)
(* What a node says of itself in the identity exchange: its addresses in   *)
(* the binary multiaddr encoding, its features, and a Schnorr signature    *)
(* over both made with the static key of its Noise handshake.              *)
(*                                                                         *)
(* Bytes are numbers, keys are single units (KeyFile).  Blake2b is         *)
(* collision-free: a digest stands for the sequence that was hashed.       *)
(* Ristretto255 is symbolic: a scalar e*x + r is the record of e, x and r, *)
(* and its multiple of the base point the record of e, x*G and r*G.        *)
(***************************************************************************)
EXTENDS Integers, Sequences

places == <<1, 256, 65536, 16777216>>
Uint32(n) == n \in Nat /\ n \div 16777216 < 256

\* n in little-endian order in size bytes, where only the first four can be used:
\* features are a uint32, and times and lengths stay below 2^32 here.
LittleEndian(n, size) ==
    [i \in 1..size |-> IF i <= 4 THEN (n \div places[i]) % 256 ELSE 0]

\* Mutant: the port's low byte first.
BigEndian16Swapped(n) == <<n % 256, n \div 256>>

BigEndian16(n) == <<n \div 256, n % 256>>

\* binary.AppendUvarint, for values below 2^14.
AppendUvarint(n) == IF n < 128 THEN <<n>> ELSE <<128 + (n % 128), n \div 128>>

-----------------------------------------------------------------------------
(* multiaddr.go.  An address is the text of a flag taken apart: its form,  *)
(* the bytes its host stands for and its port.                             *)

multiaddrProtoIP4 == 4
multiaddrProtoTCP == 6
multiaddrProtoOnion3 == 445
onion3HashLen == 35

ValidPort(port) == port \in 0..65535

encodeIP4TCPMultiaddr(ip4, port) ==
    AppendUvarint(multiaddrProtoIP4) \o ip4 \o AppendUvarint(multiaddrProtoTCP) \o BigEndian16(port)

encodeOnion3Multiaddr(hash, port) ==
    AppendUvarint(multiaddrProtoOnion3) \o hash \o BigEndian16(port)

\* Whether EncodeMultiaddrString accepts a, and the bytes it returns.
Encodable(a) ==
    \/ a.form = "ip4" /\ Len(a.host) = 4 /\ ValidPort(a.port)
    \/ a.form = "onion3" /\ Len(a.host) = onion3HashLen /\ ValidPort(a.port) /\ a.port # 0

EncodeMultiaddrString(a) ==
    IF a.form = "ip4" THEN encodeIP4TCPMultiaddr(a.host, a.port)
                      ELSE encodeOnion3Multiaddr(a.host, a.port)

\* The peer's parser: the address that the bytes b stand for.
DecodeMultiaddr(b) ==
    LET code == IF b[1] < 128 THEN b[1] ELSE (b[1] - 128) + 128 * b[2]
        port == 256 * b[Len(b) - 1] + b[Len(b)]
    IN  CASE code = multiaddrProtoIP4 /\ Len(b) = 8 /\ b[6] = multiaddrProtoTCP ->
               [form |-> "ip4", host |-> SubSeq(b, 2, 5), port |-> port]
          [] code = multiaddrProtoOnion3 /\ Len(b) = 4 + onion3HashLen ->
               [form |-> "onion3", host |-> SubSeq(b, 3, 2 + onion3HashLen), port |-> port]
          [] OTHER -> [form |-> "invalid", host |-> b, port |-> 0]

\* parseAdvertisedAddresses: -public-tcp-addr, then -onion3-addr, each a
\* sequence of one address or, when the flag is unset, none.
Flags(tcp, onion) == tcp \o onion
AddressesOK(tcp, onion) ==
    /\ Flags(tcp, onion) # <<>>
    /\ \A i \in DOMAIN Flags(tcp, onion) : Encodable(Flags(tcp, onion)[i])
parseAdvertisedAddresses(tcp, onion) ==
    [i \in DOMAIN Flags(tcp, onion) |-> EncodeMultiaddrString(Flags(tcp, onion)[i])]

-----------------------------------------------------------------------------
(* hashing.go: a hasher is the sequence it has been fed.                   *)

\* Mutant: chunks are written without their length.
writeLengthPrefixedToBare(digest, data) == digest \o data

writeLengthPrefixedTo(digest, data) == digest \o LittleEndian(Len(data), 8) \o data

\* The tag of domain, version and label is one unit.
NewDomainSeparatedHasher512(tag) == writeLengthPrefixedTo(<<>>, <<tag>>)

Chain(hasher, data) == writeLengthPrefixedTo(hasher, data)

-----------------------------------------------------------------------------
(* identity_signature.go and ourPeerIdentityMsgBytes.                      *)

FeaturesCommunicationNode == 3
identitySignatureVersion == 0

constructIdentitySignatureChallenge(staticPublicKey, publicNonce, version, updatedAt, features, addresses) ==
    LET keyed == Chain(Chain(NewDomainSeparatedHasher512("identity_signature"), staticPublicKey), publicNonce)
        dated == Chain(Chain(keyed, <<version>>), LittleEndian(updatedAt, 8))
        hasher[i \in 0..Len(addresses)] ==
            IF i = 0 THEN Chain(dated, LittleEndian(features, 4)) ELSE Chain(hasher[i - 1], addresses[i])
    IN  hasher[Len(addresses)]

\* x*G for a private key, and s*G for a scalar s = e*x + r.
BaseMult(private) == [i \in DOMAIN private |-> [half |-> "public", of |-> private[i].of]]
ScalarBaseMult(s) == [e |-> s.e, P |-> BaseMult(s.x), R |-> BaseMult(s.r)]

\* s = e*secretKey + secretNonce, for a fresh nonce.
buildOurIdentitySignature(keypair, nonce, now, features, addresses) ==
    LET e == constructIdentitySignatureChallenge(keypair.Public, nonce.Public,
                 identitySignatureVersion, now, features, addresses)
    IN  [Version |-> identitySignatureVersion, PublicNonce |-> nonce.Public, UpdatedAt |-> now,
         Signature |-> [e |-> e, x |-> keypair.Private, r |-> nonce.Private]]

ourPeerIdentityMsg(keypair, nonce, now, features, addresses) ==
    [Addresses |-> addresses, Features |-> features,
     IdentitySignature |-> buildOurIdentitySignature(keypair, nonce, now, features, addresses)]

\* s*G = R + e*P, with e recomputed from the claims (sig.Version is a uint32,
\* hashed as a byte).
VerifyIdentitySignature(staticPublicKey, features, addresses, sig) ==
    LET e == constructIdentitySignatureChallenge(staticPublicKey, sig.PublicNonce,
                 sig.Version % 256, sig.UpdatedAt, features, addresses)
    IN  ScalarBaseMult(sig.Signature) = [e |-> e, P |-> staticPublicKey, R |-> sig.PublicNonce]
=============================================================================
