----------------------------- MODULE MCAddress -----------------------------
(***************************************************************************)
(* An instance of Address with the real sizes, apart from that of a        *)
(* payment id, and Ristretto encodings as keys: the group's generator and  *)
(* its double, one that begins with six zero bytes, whose base58 forms are *)
(* exactly as long as the readers ask for, and two whose base58 forms are  *)
(* shorter: one that begins with nine zero bytes, and the identity, which  *)
(* is all zeros.                                                           *)
(***************************************************************************)
EXTENDS Address

KeyOf(values) == [i \in 1..PublicKeySize |-> ByteOf(values[i])]

Generator == KeyOf(<<226, 242, 174, 10, 106, 188, 78, 113, 168, 132, 169, 97, 197, 0, 81, 95,
                     88, 227, 11, 106, 165, 130, 221, 141, 182, 166, 89, 69, 224, 141, 45, 118>>)
Doubled == KeyOf(<<106, 73, 50, 16, 247, 73, 156, 209, 127, 236, 181, 16, 174, 12, 234, 35,
                   161, 16, 232, 213, 185, 1, 248, 172, 173, 211, 9, 92, 115, 163, 185, 25>>)
ZerosKey == KeyOf(<<0, 0, 0, 0, 0, 0, 160, 251, 86, 177, 12, 103, 194, 29, 120, 211,
                    46, 137, 228, 63, 154, 245, 80, 171, 6, 97, 188, 23, 114, 205, 40, 3>>)
ShortKey == KeyOf(<<0, 0, 0, 0, 0, 0, 0, 0, 0, 107, 134, 178, 115, 255, 52, 252,
                    225, 157, 107, 128, 78, 255, 90, 63, 87, 71, 173, 164, 234, 162, 47, 29>>)
IdentityKey == [i \in 1..PublicKeySize |-> {}]
MCKeys == {Generator, Doubled, ZerosKey, ShortKey, IdentityKey}

MCMemos == {<<>>, <<{}, {0, 7}>>, <<{1}, {2}, {3}>>}

MCAddresses ==
    {NewSingle(k, n, f) : k \in MCKeys, n \in {ByteOf(0), ByteOf(38)},
                          f \in {DefaultFeatures, FeatureInteractive}}
      \cup {NewDual(v, k, n, DefaultFeatures, m) :
              v \in {Generator, ZerosKey}, k \in {ZerosKey, Doubled}, n \in {ByteOf(0), ByteOf(36)},
              m \in {<<>>, <<<<>>>>, <<<<{3}, {}>>>>}}
      \cup {NewDual(v, ZerosKey, ByteOf(0), DefaultFeatures, m) :
              v \in {ShortKey, IdentityKey}, m \in {<<>>, <<<<{3}, {}>>>>}}

MCBase58Sizes == [single |-> <<45, 48>>, dual |-> <<89, 443>>]

MCSubstitutes == {{}, {0}, {7}, {0, 1, 3, 4}, Bits}
=============================================================================
