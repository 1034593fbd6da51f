------------------------------ MODULE Address ------------------------------
(***************************************************************************)
(* Package address: construction, combination, encoding and decoding of    *)
(* Tari addresses.  A byte is the set of its bits, so that XOR, shift and  *)
(* the feature flags are set operations; a character is its code point.    *)
(*                                                                         *)
(* The behaviour is the life of an address: it is built, combined or given *)
(* a payment id, written in one of its forms, perhaps damaged on the way   *)
(* (one byte or emoji replaced, two neighbours swapped), and read again.   *)
(***************************************************************************)
EXTENDS Integers, Sequences, FiniteSetsExt

CONSTANTS
    PublicKeySize,         \* 32
    MaxEncryptedDataSize,  \* most bytes of a payment id (256)
    Base58Sizes,           \* kind -> <<shortest, longest>> base58 text
    CanonicalKeys,         \* byte strings that are canonical public keys
    NewAddresses,          \* what the constructors are called with
    Memos,                 \* payment ids given to WithMemoFieldPaymentID
    Substitutes,           \* bytes that damage puts in place of others
    MaxOps                 \* bound: operations before the address is written

Bits == 0..7
Byte == SUBSET Bits

ASSUME AddressAssumption ==
    /\ PublicKeySize \in Nat \ {0}
    /\ MaxEncryptedDataSize \in Nat
    /\ Base58Sizes \in [{"single", "dual"} -> Nat \X Nat]
    /\ Base58Sizes["single"][1] <= 2 * (PublicKeySize + 3)   \* hexadecimal is longer
    /\ CanonicalKeys \subseteq [1..PublicKeySize -> Byte]
    /\ Substitutes \subseteq Byte
    /\ MaxOps \in Nat

VARIABLES
    addr,    \* the address
    ops,     \* operations done on it
    form,    \* "none", or the form it was written in
    text,    \* what was written
    damage,  \* "none", "replaced" or "swapped"
    out      \* what it was read as: <<>> before that

vars == <<addr, ops, form, text, damage, out>>

-----------------------------------------------------------------------------
(* Bytes and flags. *)

Xor(a, b) == (a \ b) \cup (b \ a)

\* The value of a byte, and the byte of a value.
weights == <<1, 2, 4, 8, 16, 32, 64, 128>>
bit(b, i) == IF i \in b THEN weights[i + 1] ELSE 0
Value(b) == bit(b, 0) + bit(b, 1) + bit(b, 2) + bit(b, 3)
              + bit(b, 4) + bit(b, 5) + bit(b, 6) + bit(b, 7)
ByteOf(n) == {i \in Bits : (n \div weights[i + 1]) % 2 = 1}

FeatureOneSided == {0}
FeatureInteractive == {1}
FeaturePaymentID == {2}
DefaultFeatures == FeatureInteractive \cup FeatureOneSided
validFeatureBits == FeaturePaymentID \cup FeatureInteractive \cup FeatureOneSided

\* MainNet, StageNet, NextNet, LocalNet, Igor, Esmeralda.
Networks == {ByteOf(n) : n \in {0, 1, 2, 16, 36, 38}}

checksumMask == ByteOf(27)

\* Mutant: the reduction is forgotten.
DoubleUnreduced(b) == {i + 1 : i \in b \ {7}}

\* result <<= 1, reduced when the high bit falls out.
Double(b) ==
    LET shifted == {i + 1 : i \in b \ {7}}
    IN  IF 7 \in b THEN Xor(shifted, checksumMask) ELSE shifted

\* The loop over the bytes: what it returns from byte i on with the result so far.
ComputeChecksum(data) ==
    LET loop[i \in 1..(Len(data) + 1)] ==
            [result \in Byte |->
                IF i > Len(data) THEN result ELSE loop[i + 1][Double(Xor(result, data[i]))]]
    IN  loop[1][{}]

ValidateChecksum(data) == Len(data) >= 2 /\ ComputeChecksum(data) = {}

-----------------------------------------------------------------------------
(* Addresses. *)

SingleAddressInternalSize == PublicKeySize + 3
DualAddressInternalSize == 2 * PublicKeySize + 3

NewSingle(spend, network, features) ==
    [kind |-> "single", network |-> network, features |-> features,
     view |-> <<>>, spend |-> spend, memo |-> <<>>]

\* memo is <<>> for nil, <<m>> for the bytes m, at most MaxEncryptedDataSize.
NewDual(view, spend, network, features, memo) ==
    [kind |-> "dual", network |-> network,
     features |-> IF memo = <<>> THEN features ELSE features \cup FeaturePaymentID,
     view |-> view, spend |-> spend, memo |-> IF memo = <<>> THEN <<>> ELSE memo[1]]

Ok(a) == [err |-> "nil", addr |-> a]
Err(why) == [err |-> why, addr |-> NewSingle(<<>>, {}, {})]

\* Mutant: the feature flag is not set.
WithMemoFieldPaymentIDUnflagged(a, data) ==
    IF a.kind # "dual" THEN Err("PaymentIDNotSupported")
    ELSE IF Len(data) > MaxEncryptedDataSize THEN Err("PaymentIDTooLarge")
    ELSE Ok([a EXCEPT !.memo = data])

WithMemoFieldPaymentID(a, data) ==
    IF a.kind # "dual" THEN Err("PaymentIDNotSupported")
    ELSE IF Len(data) > MaxEncryptedDataSize THEN Err("PaymentIDTooLarge")
    ELSE Ok([a EXCEPT !.features = @ \cup FeaturePaymentID, !.memo = data])

\* Mutant: the features of the second address are lost.
CombinedFeaturesFirst(one, two) == one.features

\* Features.Combine.
CombinedFeatures(one, two) == one.features \cup two.features

CombineAddresses(one, two) ==
    LET features == CombinedFeatures(one, two)
        dual == IF one.kind = "dual" THEN one ELSE two
    IN  IF one.spend # two.spend \/ one.network # two.network THEN Err("Creation")
        ELSE IF one.kind = "dual" /\ two.kind = "dual" /\ one.view # two.view
        THEN Err("Creation")
        ELSE IF dual.kind = "dual"
        THEN Ok(NewDual(dual.view, one.spend, one.network, features, <<>>))
        ELSE Ok(NewSingle(one.spend, one.network, features))

Bytes(a) ==
    LET body == <<a.network, a.features>> \o a.view \o a.spend \o a.memo
    IN  Append(body, ComputeChecksum(body))

GetSize(a) ==
    IF a.kind = "single" THEN SingleAddressInternalSize
    ELSE IF FeaturePaymentID \subseteq a.features THEN Len(Bytes(a))
    ELSE DualAddressInternalSize

featuresFromBits(v) == v \subseteq validFeatureBits

PublicKeyFromCanonicalBytes(b) == b \in CanonicalKeys

\* The checks of SingleAddressFromBytes and DualAddressFromBytes after that of
\* the size, in their order: the address a, which b is made of, or the error.
Checked(b, a) ==
    IF ~ValidateChecksum(b) THEN Err("InvalidChecksum")
    ELSE IF a.network \notin Networks THEN Err("InvalidNetwork")
    ELSE IF ~featuresFromBits(a.features) THEN Err("InvalidFeatures")
    ELSE IF a.kind = "dual" /\ ~PublicKeyFromCanonicalBytes(a.view) THEN Err("CannotRecoverPublicKey")
    ELSE IF ~PublicKeyFromCanonicalBytes(a.spend) THEN Err("CannotRecoverPublicKey")
    ELSE Ok(a)

SingleSize(n) == n = SingleAddressInternalSize
DualSize(n) == n \in DualAddressInternalSize..(DualAddressInternalSize + MaxEncryptedDataSize)

SingleAddressFromBytes(b) ==
    IF ~SingleSize(Len(b)) THEN Err("InvalidSize")
    ELSE Checked(b, NewSingle(SubSeq(b, 3, PublicKeySize + 2), b[1], b[2]))

\* Every byte between the keys and the checksum is memo; the flag is as read.
DualAddressFromBytes(b) ==
    LET view == SubSeq(b, 3, PublicKeySize + 2)
        spend == SubSeq(b, PublicKeySize + 3, 2 * PublicKeySize + 2)
    IN  IF ~DualSize(Len(b)) THEN Err("InvalidSize")
        ELSE Checked(b, [NewDual(view, spend, b[1], b[2], <<>>) EXCEPT
                           !.memo = SubSeq(b, 2 * PublicKeySize + 3, Len(b) - 1)])

FromBytes(b) ==
    IF SingleSize(Len(b)) THEN SingleAddressFromBytes(b)
    ELSE IF DualSize(Len(b)) THEN DualAddressFromBytes(b)
    ELSE Err("InvalidSize")

-----------------------------------------------------------------------------
(* Text forms. *)

\* Code points of the base58 alphabet (1-9 A-H J-N P-Z a-k m-z) and of the
\* lower-case hexadecimal digits.
from(c, n) == [i \in 1..n |-> c + i - 1]
Base58Alphabet == from(49, 9) \o from(65, 8) \o from(74, 5) \o from(80, 11)
                    \o from(97, 11) \o from(109, 14)
HexAlphabet == from(48, 10) \o from(97, 6)

InAlphabet(s, alphabet) == \A i \in 1..Len(s) : \E d \in 1..Len(alphabet) : alphabet[d] = s[i]
Digit(c, alphabet) == (CHOOSE d \in 1..Len(alphabet) : alphabet[d] = c) - 1

\* The number of zeros a digit sequence begins with.
Zeros(v) == CHOOSE n \in 0..Len(v) :
    /\ \A i \in 1..n : v[i] = 0
    /\ n < Len(v) => v[n + 1] # 0

Stripped(v) == SubSeq(v, Zeros(v) + 1, Len(v))

\* s * b + x for the digits s in base d: from the last digit to the first with a
\* carry, which is less than b and so leaves at most two digits in front.
MulAdd(s, b, x, d) ==
    LET n == Len(s)
        loop[i \in 1..(n + 1)] ==
            [st \in Nat \X Seq(Nat) |->
                IF i > n THEN st
                ELSE LET t == s[n + 1 - i] * b + st[1]
                     IN  loop[i + 1][<<t \div d, <<t % d>> \o st[2]>>]]
        r == loop[1][<<x, <<>>>>]
    IN  Stripped(<<r[1] \div d, r[1] % d>> \o r[2])

\* The digits in base d of the number whose digits in base b are v, by Horner's
\* rule.
Rebase(v, b, d) ==
    LET n == Len(v)
        loop[i \in 1..(n + 1)] ==
            [s \in Seq(Nat) |-> IF i > n THEN s ELSE loop[i + 1][MulAdd(s, b, v[i], d)]]
    IN  loop[1][<<>>]

\* base58.Encode: a '1' for every leading zero byte, then the number.
base58Encode(bytes) ==
    LET v == [i \in 1..Len(bytes) |-> Value(bytes[i])]
        digits == [i \in 1..Zeros(v) |-> 0] \o Rebase(v, 256, 58)
    IN  [i \in 1..Len(digits) |-> Base58Alphabet[digits[i] + 1]]

\* base58.Decode, for a string InAlphabet.
base58Decode(s) ==
    LET digits == [i \in 1..Len(s) |-> Digit(s[i], Base58Alphabet)]
        v == [i \in 1..Zeros(digits) |-> 0] \o Rebase(digits, 58, 256)
    IN  [i \in 1..Len(v) |-> ByteOf(v[i])]

\* Network and features are each encoded on their own, then the rest.
Base58(a) ==
    LET b == Bytes(a)
    IN  base58Encode(<<b[1]>>) \o base58Encode(<<b[2]>>) \o base58Encode(SubSeq(b, 3, Len(b)))

\* Mutant: the string is decoded in one piece.
SplitDecodedWhole(s) == base58Decode(s)

\* splitNetworkFeaturesRest, and the three pieces decoded and joined.
SplitDecoded(s) ==
    base58Decode(<<s[1]>>) \o base58Decode(<<s[2]>>) \o base58Decode(SubSeq(s, 3, Len(s)))

\* The error of the first of the three pieces that has no base58 reading.
Unrecovered(s) ==
    IF ~InAlphabet(SubSeq(s, 1, 1), Base58Alphabet) THEN "CannotRecoverNetwork"
    ELSE IF ~InAlphabet(SubSeq(s, 2, 2), Base58Alphabet) THEN "CannotRecoverFeature"
    ELSE "CannotRecoverPublicKey"

\* The length is one of bytes; a text outside ASCII fails on the alphabet.
\* All three FromBase58 go on in this way, with FromBytes of their own.
FromBase58With(s, sizeOk, fromBytes(_)) ==
    IF ~sizeOk THEN Err("InvalidSize")
    ELSE IF ~InAlphabet(s, Base58Alphabet) THEN Err(Unrecovered(s))
    ELSE fromBytes(SplitDecoded(s))

\* Only the shortest text of a single address bounds the general reader.
FromBase58(s) == FromBase58With(s, Len(s) >= Base58Sizes["single"][1], FromBytes)

InSizes(s, kind) == Len(s) \in Base58Sizes[kind][1]..Base58Sizes[kind][2]

SingleAddressFromBase58(s) ==
    FromBase58With(s, InSizes(s, "single"), SingleAddressFromBytes)

DualAddressFromBase58(s) ==
    FromBase58With(s, InSizes(s, "dual"), DualAddressFromBytes)

Hex(a) ==
    LET b == Bytes(a)
        nibble(i) == IF i % 2 = 1 THEN Value(b[(i + 1) \div 2]) \div 16
                     ELSE Value(b[i \div 2]) % 16
    IN  [i \in 1..(2 * Len(b)) |-> HexAlphabet[nibble(i) + 1]]

\* Upper-case hexadecimal digits are read as the lower-case ones.
LowerCase(s) == [i \in 1..Len(s) |-> IF s[i] \in 65..70 THEN s[i] + 32 ELSE s[i]]

\* hex.DecodeString, and the reading of its bytes.
FromHexWith(s, fromBytes(_)) ==
    LET t == LowerCase(s)
    IN  IF Len(s) % 2 = 1 \/ ~InAlphabet(t, HexAlphabet) THEN Err("CannotRecoverPublicKey")
        ELSE fromBytes([i \in 1..(Len(s) \div 2) |->
                ByteOf(16 * Digit(t[2 * i - 1], HexAlphabet) + Digit(t[2 * i], HexAlphabet))])

FromHex(s) == FromHexWith(s, FromBytes)
SingleAddressFromHex(s) == FromHexWith(s, SingleAddressFromBytes)
DualAddressFromHex(s) == FromHexWith(s, DualAddressFromBytes)

\* The dictionary: 256 distinct code points outside ASCII.
Emoji(b) == 128000 + Value(b)
ReverseEmoji(c) == ByteOf(c - 128000)
IsEmoji(c) == c \in 128000..128255

EmojiString(a) == LET b == Bytes(a) IN [i \in 1..Len(b) |-> Emoji(b[i])]

\* emojiToBytes and the reading of its bytes.
FromEmojiWith(s, sizeOk, fromBytes(_)) ==
    IF ~sizeOk THEN Err("InvalidSize")
    ELSE IF \E i \in 1..Len(s) : ~IsEmoji(s[i]) THEN Err("InvalidEmoji")
    ELSE fromBytes([i \in 1..Len(s) |-> ReverseEmoji(s[i])])

FromEmojiString(s) ==
    FromEmojiWith(s, SingleSize(Len(s)) \/ DualSize(Len(s)), FromBytes)
SingleAddressFromEmojiString(s) ==
    FromEmojiWith(s, SingleSize(Len(s)), SingleAddressFromBytes)
DualAddressFromEmojiString(s) ==
    FromEmojiWith(s, DualSize(Len(s)), DualAddressFromBytes)

Space == 32
Bar == 124

Bars(s) == {i \in 1..Len(s) : s[i] = Bar}
Cut(s, i) == SubSeq(s, 1, i - 1) \o SubSeq(s, i + 1, Len(s))

\* ReplaceAll of the separators by nothing, one after the other.
WithoutBars(s) ==
    LET rest[n \in 0..Cardinality(Bars(s))] ==
            IF n = 0 THEN s ELSE Cut(rest[n - 1], Min(Bars(rest[n - 1])))
    IN  rest[Cardinality(Bars(s))]

\* TrimSpace, then ReplaceAll.
Cleaned(s) ==
    LET ink == {i \in 1..Len(s) : s[i] # Space}
    IN  WithoutBars(IF ink = {} THEN <<>> ELSE SubSeq(s, Min(ink), Max(ink)))

\* Emoji first, then base58, then hex; only the emoji reading is cleaned.
Parse(s) ==
    LET emoji == FromEmojiString(Cleaned(s))
        b58 == FromBase58(s)
        hex == FromHex(s)
    IN  IF emoji.err = "nil" THEN emoji
        ELSE IF b58.err = "nil" THEN b58
        ELSE IF hex.err = "nil" THEN hex
        ELSE Err("InvalidAddressString")

-----------------------------------------------------------------------------
\* What the constructors return when they are called with the package's own
\* networks, feature flags and keys: the payment id is not too long.
Constructed(a) ==
    \E n \in Networks, f \in SUBSET validFeatureBits, v, k \in CanonicalKeys :
        \/ a = NewSingle(k, n, f)
        \/ a = NewDual(v, k, n, f, <<>>)
        \/ /\ a = NewDual(v, k, n, f, <<a.memo>>)
           /\ a.memo \in Seq(Byte) /\ Len(a.memo) <= MaxEncryptedDataSize

ASSUME InputsAssumption == Memos \subseteq Seq(Byte) /\ \A a \in NewAddresses : Constructed(a)

Init ==
    /\ addr \in NewAddresses
    /\ ops = 0 /\ form = "none" /\ text = <<>> /\ damage = "none" /\ out = <<>>

\* An operation that succeeds yields a new address; one that fails, none.
Becomes(res) ==
    /\ form = "none" /\ ops < MaxOps
    /\ res.err = "nil"
    /\ addr' = res.addr /\ ops' = ops + 1
    /\ UNCHANGED <<form, text, damage, out>>

AddMemo(data) == Becomes(WithMemoFieldPaymentID(addr, data))
CombineWith(other) == Becomes(CombineAddresses(addr, other))

Write(f) ==
    /\ form = "none"
    /\ form' = f
    /\ text' = CASE f = "bytes" -> Bytes(addr) [] f = "emoji" -> EmojiString(addr)
                 [] f = "base58" -> Base58(addr) [] f = "hex" -> Hex(addr)
    /\ UNCHANGED <<addr, ops, damage, out>>

\* How a person writes an emoji id down: separated and padded.
Separate ==
    /\ form = "emoji" /\ damage = "none" /\ out = <<>> /\ text[1] # Space
    /\ text' = <<Space>> \o SubSeq(text, 1, 3) \o <<Bar>> \o SubSeq(text, 4, Len(text)) \o <<Space>>
    /\ UNCHANGED <<addr, ops, form, damage, out>>

CanDamage ==
    /\ form \in {"bytes", "emoji"} /\ damage = "none" /\ out = <<>> /\ ops = 0
    /\ Len(text) = Len(Bytes(addr))

Replace(i, b) ==
    /\ CanDamage /\ i \in 1..Len(text)
    /\ text' = [text EXCEPT ![i] = IF form = "bytes" THEN b ELSE Emoji(b)]
    /\ text' # text
    /\ damage' = "replaced"
    /\ UNCHANGED <<addr, ops, form, out>>

SwapNeighbours(i) ==
    /\ CanDamage /\ i \in 1..(Len(text) - 1)
    /\ text' = [text EXCEPT ![i] = text[i + 1], ![i + 1] = text[i]]
    /\ text' # text
    /\ damage' = "swapped"
    /\ UNCHANGED <<addr, ops, form, out>>

Read ==
    /\ form # "none" /\ out = <<>>
    /\ out' = <<IF form = "bytes" THEN FromBytes(text) ELSE Parse(text)>>
    /\ UNCHANGED <<addr, ops, form, text, damage>>

\* A reader that knows the kind of address it expects.
ReadTyped ==
    /\ form # "none" /\ out = <<>>
    /\ form = "emoji" => text[1] # Space
    /\ out' = <<IF addr.kind = "single"
                THEN CASE form = "bytes" -> SingleAddressFromBytes(text)
                       [] form = "emoji" -> SingleAddressFromEmojiString(text)
                       [] form = "base58" -> SingleAddressFromBase58(text)
                       [] form = "hex" -> SingleAddressFromHex(text)
                ELSE CASE form = "bytes" -> DualAddressFromBytes(text)
                       [] form = "emoji" -> DualAddressFromEmojiString(text)
                       [] form = "base58" -> DualAddressFromBase58(text)
                       [] form = "hex" -> DualAddressFromHex(text)>>
    /\ UNCHANGED <<addr, ops, form, text, damage>>

Next ==
    \/ \E data \in Memos : AddMemo(data)
    \/ \E other \in NewAddresses : CombineWith(other)
    \/ \E f \in {"bytes", "emoji", "base58", "hex"} : Write(f)
    \/ Separate
    \/ \E i \in 1..Len(text) : (\E b \in Substitutes : Replace(i, b)) \/ SwapNeighbours(i)
    \/ Read
    \/ ReadTyped

Spec == Init /\ [][Next]_vars

-----------------------------------------------------------------------------
(* Properties. *)

\* The address has the shape of its kind, and GetSize is the length it has on
\* the wire.
AddressOK ==
    /\ addr.kind \in {"single", "dual"} /\ addr.network \in Networks
    /\ addr.features \subseteq validFeatureBits /\ addr.spend \in CanonicalKeys
    /\ addr.kind = "dual" <=> addr.view \in CanonicalKeys
    /\ addr.memo # <<>> => FeaturePaymentID \subseteq addr.features
    /\ Len(addr.memo) <= MaxEncryptedDataSize
    /\ GetSize(addr) = Len(Bytes(addr))

\* Every reader of base58 takes a text of this size.
TextFits(s, kind) == Len(s) >= Base58Sizes["single"][1] /\ InSizes(s, kind)

\* What is written of an address reads back as that address, from each of its
\* forms, by the reader of its kind and by the general one: base58 with its
\* separately encoded first two bytes, and Parse, which has to guess the form,
\* included.  The one exception is base58 texts that are not as long as the
\* readers ask for, which Base58 writes of keys that begin with many zero bytes:
\* they are refused with an error, and never taken for another address, not even
\* by Parse, which goes on to read them as hexadecimal.
RoundTrip ==
    (out # <<>> /\ damage = "none") =>
        \/ out[1] = Ok(addr)
        \/ /\ form = "base58" /\ ~TextFits(text, addr.kind)
           /\ out[1].err \in {"InvalidSize", "InvalidAddressString"}

\* A byte or emoji that is replaced, or two neighbours that are swapped,
\* anywhere in the address, never give another address; and it is the checksum
\* that finds the damage, wherever it is, before any field is looked at (Parse,
\* which tries all forms, does not say so).
DamageFound ==
    (out # <<>> /\ damage # "none") =>
        \/ out[1].err = "InvalidChecksum"
        \/ form = "emoji" /\ out[1].err = "InvalidAddressString"

\* The order in which two addresses are combined does not matter, and the
\* result has the features of both and no payment id of either.
CombineSymmetric ==
    form = "none" =>
        \A other \in NewAddresses :
            LET res == CombineAddresses(addr, other)
            IN  /\ res = CombineAddresses(other, addr)
                /\ res.err = "nil" =>
                      /\ addr.features \cup other.features \subseteq res.addr.features
                      /\ res.addr.memo = <<>>
=============================================================================
