------------------------------- MODULE Startup -------------------------------
(***************************************************************************)
(* run of p2p-responder-spike up to Serve: the advertised addresses are    *)
(* parsed before anything else, the keypair is set up (KeyFile), and every *)
(* connection of the serving process then gets an identity message made    *)
(* from both (Identity).  What Serve does with a connection is Responder's *)
(* and P2PSession's subject.                                               *)
(***************************************************************************)
EXTENDS KeyFile, Identity

CONSTANTS
    TCPFlags,     \* values of -public-tcp-addr
    OnionFlags,   \* values of -onion3-addr
    Times,        \* seconds at which an identity message may be signed
    FeatureSets   \* features that a message may be changed to claim

\* A flag's address taken apart: the host's bytes and the port's number.
AddressTexts == [form : STRING, host : Seq(Nat), port : Nat]

ASSUME StartupAssumption ==
    /\ TCPFlags \subseteq Seq(AddressTexts) /\ OnionFlags \subseteq Seq(AddressTexts)
    /\ Times \subseteq Nat /\ \A f \in FeatureSets : Uint32(f)

VARIABLES tcp, onion   \* the command line, the same for every start

vars == <<keyVars, tcp, onion>>

OurAddresses == parseAdvertisedAddresses(tcp, onion)

\* run returns at once when the addresses do not parse.
Run(p) == AddressesOK(tcp, onion) /\ Start(p)

Init ==
    /\ KeyInit
    /\ tcp \in TCPFlags /\ onion \in OnionFlags

Next ==
    /\ \/ \E p \in Procs : Run(p) \/ KeyStep(p)
       \/ RemoveBadFile
    /\ UNCHANGED <<tcp, onion>>

Spec == Init /\ [][Next]_vars

-----------------------------------------------------------------------------
Serving == {p \in Procs : pc[p] = "serving"}

\* A peer that parses the advertised bytes finds the addresses of the command
\* line, in order and at least one, with every port it may name.
PeerReadsAddresses ==
    Serving # {} =>
        /\ Len(OurAddresses) > 0
        /\ [i \in DOMAIN OurAddresses |-> DecodeMultiaddr(OurAddresses[i])] = tcp \o onion

\* The identity messages that the serving process p sends.
Messages(p) ==
    {ourPeerIdentityMsg(key[p], Keypair(0), t, FeaturesCommunicationNode, OurAddresses) : t \in Times}

\* Address lists that differ from the one sent but are made of the same bytes:
\* merged, cut anywhere, reordered, or with one left out.
Joined(as) == IF Len(as) = 1 THEN as[1] ELSE as[1] \o as[2]
Regrouped(as) ==
    {<<SubSeq(Joined(as), 1, n), SubSeq(Joined(as), n + 1, Len(Joined(as)))>> : n \in 0..Len(Joined(as))}
      \cup {as, <<Joined(as)>>, <<as[1]>>, <<>>}
      \cup (IF Len(as) = 2 THEN {<<as[2], as[1]>>, <<as[2]>>} ELSE {})

\* The signature of an identity message holds under the key of the Noise
\* handshake, whether that key was generated or loaded, for the features and
\* the addresses in the message and for no others: not for the same bytes
\* grouped or ordered otherwise.
SignatureBindsClaims ==
    ~raced => \A p \in Serving : \A m \in Messages(p) :
        \A f \in FeatureSets, as \in Regrouped(m.Addresses) :
            VerifyIdentitySignature(key[p].Public, f, as, m.IdentitySignature)
                <=> f = m.Features /\ as = m.Addresses
=============================================================================
