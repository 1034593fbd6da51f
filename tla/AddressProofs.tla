---------------------------- MODULE AddressProofs ----------------------------
(***************************************************************************)
(* Proofs about Address, for any keys, networks, features and payment ids: *)
(* addresses keep their shape, combination is symmetric, the checksum finds*)
(* every replaced byte and every swapped pair, and what is written of an   *)
(* address, in each of its four forms, reads back as that address.         *)
(***************************************************************************)
EXTENDS Address, SequenceTheorems, FiniteSetTheorems, WellFoundedInduction, TLAPS

\* Induction, as the existence of a least counterexample.
LEMMA LeastNat ==
    ASSUME NEW T, T \subseteq Nat, T # {}
    PROVE  \E x \in T : \A y \in T : x <= y
<1> DEFINE R == OpToRel(<, Nat)
<1>1. IsWellFoundedOn(R, Nat)
  BY NatLessThanWellFounded
<1>2. \A x, y \in Nat : <<y, x>> \in R <=> y < x
  BY DEF OpToRel
<1> HIDE DEF R
<1>3. PICK x \in T : \A y \in T : ~(<<y, x>> \in R)
  BY <1>1, WFMin, Zenon
<1>4. ASSUME NEW y \in T PROVE x <= y
  <2>1. x \in Nat /\ y \in Nat
    OBVIOUS
  <2>2. ~(y < x)
    BY <1>2, <1>3, <2>1, Zenon
  <2> QED BY <2>1, <2>2
<1> QED BY <1>4

-----------------------------------------------------------------------------
(* Loops.  The recursive functions of Address are loops of n turns: turn i *)
(* takes the state r to step[i][r].                                        *)

Turns(f, n, E, step) ==
    f = [i \in 1..(n + 1) |-> [r \in E |-> IF i > n THEN r ELSE f[i + 1][step[i][r]]]]

\* The states that a loop goes through from the state a on.
Run(c, n, D, step, a) ==
    /\ c \in [0..n -> D] /\ c[0] = a
    /\ \A i \in 1..n : c[i] = step[i][c[i - 1]]

\* There is such a function: it is built from its last turn on.
LEMMA TurnsExist == ASSUME NEW n \in Nat, NEW E, NEW step PROVE \E f : Turns(f, n, E, step)
<1> DEFINE G(g, i) == [r \in E |-> IF i > n THEN r ELSE g[i + 1][step[i][r]]]
           From(g, m) == g = [i \in (n + 1 - m)..(n + 1) |-> G(g, i)]
           T == {m \in 0..n : \A g : ~From(g, m)}
<1>1. ASSUME T # {} PROVE FALSE
  <2>1. PICK m \in T : \A y \in T : m <= y
    <3>1. T \subseteq Nat
      OBVIOUS
    <3> HIDE DEF T
    <3> QED BY <1>1, <3>1, LeastNat, Zenon
  <2>2. m \in 0..n
    OBVIOUS
  <2>3. CASE m = 0
    <3> DEFINE g == [i \in (n + 1 - 0)..(n + 1) |-> [r \in E |-> r]]
    <3>1. ASSUME NEW i \in (n + 1 - 0)..(n + 1) PROVE G(g, i) = [r \in E |-> r]
      <4>1. i > n
        OBVIOUS
      <4> HIDE DEF g
      <4> QED BY <4>1
    <3>2. From(g, 0)
      <4> HIDE DEF G
      <4> QED BY <3>1
    <3> QED BY <2>3, <3>2
  <2>4. CASE m # 0
    <3>1. m - 1 \in 0..n /\ m - 1 \notin T
      <4> HIDE DEF T
      <4> QED BY <2>1, <2>2, <2>4
    <3>2. PICK g : From(g, m - 1)
      BY <3>1
    <3> DEFINE k == n + 1 - m
               h == [i \in k..(n + 1) |-> IF i = k THEN G(g, k) ELSE g[i]]
    <3>3. k \in 1..n /\ n + 1 - (m - 1) = k + 1
      BY <2>2, <2>4
    <3> HIDE DEF k
    <3>4. ASSUME NEW i \in (k + 1)..(n + 1) PROVE h[i] = g[i] /\ g[i] = G(g, i)
      <4>1. i \in k..(n + 1) /\ i # k
        BY <3>3
      <4>2. h[i] = g[i]
        BY <4>1
      <4>3. g[i] = G(g, i)
        <5> HIDE DEF G
        <5> QED BY <3>2, <3>3
      <4> QED BY <4>2, <4>3
    <3>5. ASSUME NEW i \in k..(n + 1) PROVE G(h, i) = G(g, i)
      <4>1. CASE i > n
        BY <4>1
      <4>2. CASE ~(i > n)
        <5>1. i + 1 \in (k + 1)..(n + 1)
          BY <3>3, <4>2
        <5>2. h[i + 1] = g[i + 1]
          BY <3>4, <5>1
        <5> HIDE DEF h
        <5> QED BY <5>2
      <4> QED BY <4>1, <4>2
    <3>6. ASSUME NEW i \in k..(n + 1) PROVE h[i] = G(h, i)
      <4>1. CASE i = k
        <5> HIDE DEF G
        <5> QED BY <3>5, <4>1
      <4>2. CASE i # k
        <5>1. i \in (k + 1)..(n + 1)
          BY <3>3, <4>2
        <5> HIDE DEF G, h
        <5> QED BY <3>4, <3>5, <5>1
      <4> QED BY <4>1, <4>2
    <3>7. From(h, m)
      <4> HIDE DEF G
      <4>1. h = [i \in k..(n + 1) |-> h[i]]
        OBVIOUS
      <4> HIDE DEF h
      <4> QED BY <3>6, <4>1 DEF k
    <3> QED BY <3>7
  <2> QED BY <2>3, <2>4
<1>2. n \notin T /\ n \in 0..n /\ n + 1 - n = 1
  <2>1. T = {}
    BY <1>1
  <2> HIDE DEF T
  <2> QED BY <2>1
<1>3. PICK g : From(g, n)
  BY <1>2
<1>4. Turns(g, n, E, step)
  <2>1. g = [i \in 1..(n + 1) |-> G(g, i)]
    <3> HIDE DEF G
    <3> QED BY <1>2, <1>3
  <2> QED BY <2>1, Zenon DEF Turns
<1> QED BY <1>4

LEMMA RunExists ==
    ASSUME NEW n \in Nat, NEW D, NEW step, NEW a \in D,
           \A i \in 1..n : \A r \in D : step[i][r] \in D
    PROVE  \E c : Run(c, n, D, step, a)
<1> DEFINE T == {m \in 0..n : \A c : ~Run(c, m, D, step, a)}
<1>1. ASSUME T # {} PROVE FALSE
  <2>1. PICK m \in T : \A y \in T : m <= y
    <3>1. T \subseteq Nat
      OBVIOUS
    <3> HIDE DEF T
    <3> QED BY <1>1, <3>1, LeastNat, Zenon
  <2>2. m \in 0..n
    OBVIOUS
  <2>3. CASE m = 0
    <3> DEFINE c == [i \in 0..0 |-> a]
    <3>1. c \in [0..0 -> D] /\ c[0] = a /\ 1..0 = {}
      OBVIOUS
    <3>2. Run(c, 0, D, step, a)
      BY <3>1 DEF Run
    <3> QED BY <2>3, <3>2
  <2>4. CASE m # 0
    <3>1. m - 1 \in 0..n /\ m - 1 \notin T /\ m \in 1..n
      BY <2>1, <2>2, <2>4
    <3>2. PICK c : Run(c, m - 1, D, step, a)
      BY <3>1
    <3> DEFINE x == step[m][c[m - 1]]
               d == [i \in 0..m |-> IF i = m THEN x ELSE c[i]]
    <3>3. x \in D
      BY <3>1, <3>2 DEF Run
    <3> HIDE DEF x
    <3>4. d \in [0..m -> D]
      BY <2>2, <2>4, <3>2, <3>3 DEF Run
    <3>5. d[0] = a
      BY <2>2, <2>4, <3>2 DEF Run
    <3>6. ASSUME NEW i \in 1..m PROVE d[i] = step[i][d[i - 1]]
      <4>1. i - 1 \in 0..m /\ i - 1 # m /\ i \in 0..m
        BY <2>2
      <4>2. d[i - 1] = c[i - 1]
        BY <4>1
      <4>3. CASE i = m
        BY <4>1, <4>2, <4>3 DEF x
      <4>4. CASE i # m
        <5>1. i \in 1..(m - 1)
          BY <2>2, <4>4
        <5>2. c[i] = step[i][c[i - 1]]
          BY <3>2, <5>1 DEF Run
        <5> QED BY <4>1, <4>2, <4>4, <5>2
      <4> QED BY <4>3, <4>4
    <3> HIDE DEF d
    <3>7. Run(d, m, D, step, a)
      BY <3>4, <3>5, <3>6 DEF Run
    <3> QED BY <3>7
  <2> QED BY <2>3, <2>4
<1>3. n \notin T /\ n \in 0..n
  <2>1. T = {}
    BY <1>1
  <2> HIDE DEF T
  <2> QED BY <2>1
<1> QED BY <1>3

\* The loop ends in the last of its states.
LEMMA LoopEnds ==
    ASSUME NEW n \in Nat, NEW E, NEW D, D \subseteq E, NEW step, NEW a,
           NEW c, Run(c, n, D, step, a), NEW f, Turns(f, n, E, step)
    PROVE  f[1][a] = c[n]
<1> DEFINE G(i) == [r \in E |-> IF i > n THEN r ELSE f[i + 1][step[i][r]]]
<1>1. ASSUME NEW i \in 1..(n + 1) PROVE f[i] = G(i)
  <2>1. f = [j \in 1..(n + 1) |-> G(j)]
    BY Zenon DEF Turns
  <2> HIDE DEF G
  <2> QED BY <2>1
<1>2. ASSUME NEW i \in 0..n PROVE c[i] \in E
  BY DEF Run
<1>3. ASSUME NEW i \in 1..n PROVE f[i][c[i - 1]] = f[i + 1][c[i]]
  <2>1. i \in 1..(n + 1) /\ ~(i > n) /\ i - 1 \in 0..n
    OBVIOUS
  <2>2. f[i] = G(i) /\ c[i - 1] \in E /\ c[i] = step[i][c[i - 1]]
    BY <1>1, <1>2, <2>1 DEF Run
  <2> QED BY <2>1, <2>2
<1> DEFINE T == {m \in 0..n : f[m + 1][c[m]] # f[1][a]}
<1>4. ASSUME T # {} PROVE FALSE
  <2>1. PICK m \in T : \A y \in T : m <= y
    <3>1. T \subseteq Nat
      OBVIOUS
    <3> HIDE DEF T
    <3> QED BY <1>4, <3>1, LeastNat, Zenon
  <2>2. m \in 0..n /\ m # 0
    <3>1. m \in 0..n /\ f[m + 1][c[m]] # f[1][a]
      OBVIOUS
    <3>2. 0 + 1 = 1 /\ c[0] = a
      BY DEF Run
    <3> QED BY <3>1, <3>2
  <2>3. m - 1 \in 0..n /\ m - 1 \notin T /\ m \in 1..n /\ (m - 1) + 1 = m
    BY <2>1, <2>2
  <2>4. f[m][c[m - 1]] = f[1][a]
    BY <2>3
  <2> QED BY <1>3, <2>3, <2>4
<1>5. f[n + 1][c[n]] = f[1][a]
  <2>1. T = {} /\ n \in 0..n
    BY <1>4
  <2> QED BY <2>1
<1>6. f[n + 1][c[n]] = c[n]
  <2>1. n + 1 \in 1..(n + 1) /\ n + 1 > n /\ n \in 0..n
    OBVIOUS
  <2>2. f[n + 1] = G(n + 1)
    <3> HIDE DEF G
    <3> QED BY <1>1, <2>1
  <2>3. G(n + 1)[c[n]] = c[n]
    BY <1>2, <2>1
  <2> QED BY <2>2, <2>3
<1> QED BY <1>5, <1>6

-----------------------------------------------------------------------------
(* Bytes.                                                                  *)

LEMMA ByteEqual ==
    ASSUME NEW a \in Byte, NEW b \in Byte,
           0 \in a <=> 0 \in b, 1 \in a <=> 1 \in b, 2 \in a <=> 2 \in b, 3 \in a <=> 3 \in b,
           4 \in a <=> 4 \in b, 5 \in a <=> 5 \in b, 6 \in a <=> 6 \in b, 7 \in a <=> 7 \in b
    PROVE  a = b
<1>1. ASSUME NEW i \in 0..7 PROVE i \in a <=> i \in b
  <2>1. i = 0 \/ i = 1 \/ i = 2 \/ i = 3 \/ i = 4 \/ i = 5 \/ i = 6 \/ i = 7
    OBVIOUS
  <2> QED BY <2>1
<1> QED BY <1>1 DEF Byte, Bits

LEMMA Mask == checksumMask = {0, 1, 3, 4}
<1>1. checksumMask \in Byte /\ {0, 1, 3, 4} \in Byte
  BY DEF checksumMask, ByteOf, Byte, Bits
<1>2. \A i \in 0..7 : i \in checksumMask <=> (27 \div weights[i + 1]) % 2 = 1
  BY DEF checksumMask, ByteOf, Bits
<1>3. /\ weights[1] = 1 /\ weights[2] = 2 /\ weights[3] = 4 /\ weights[4] = 8
      /\ weights[5] = 16 /\ weights[6] = 32 /\ weights[7] = 64 /\ weights[8] = 128
  BY DEF weights
<1>4. /\ (27 \div 1) % 2 = 1 /\ (27 \div 2) % 2 = 1 /\ (27 \div 4) % 2 = 0 /\ (27 \div 8) % 2 = 1
      /\ (27 \div 16) % 2 = 1 /\ (27 \div 32) % 2 = 0 /\ (27 \div 64) % 2 = 0 /\ (27 \div 128) % 2 = 0
  OBVIOUS
<1>5. /\ 0 \in checksumMask /\ 1 \in checksumMask /\ 2 \notin checksumMask /\ 3 \in checksumMask
      /\ 4 \in checksumMask /\ 5 \notin checksumMask /\ 6 \notin checksumMask /\ 7 \notin checksumMask
  BY <1>2, <1>3, <1>4
<1> QED BY <1>1, <1>5, ByteEqual

LEMMA XorByte == ASSUME NEW a \in Byte, NEW b \in Byte PROVE Xor(a, b) \in Byte
BY DEF Xor, Byte

LEMMA XorBit == ASSUME NEW a, NEW b, NEW i PROVE i \in Xor(a, b) <=> (i \in a /\ i \notin b) \/ (i \notin a /\ i \in b)
BY DEF Xor

\* What Double does to each bit.
LEMMA DoubleBits ==
    ASSUME NEW a \in Byte
    PROVE  /\ Double(a) \in Byte
           /\ 0 \in Double(a) <=> 7 \in a
           /\ 1 \in Double(a) <=> ~(0 \in a <=> 7 \in a)
           /\ 2 \in Double(a) <=> 1 \in a
           /\ 3 \in Double(a) <=> ~(2 \in a <=> 7 \in a)
           /\ 4 \in Double(a) <=> ~(3 \in a <=> 7 \in a)
           /\ 5 \in Double(a) <=> 4 \in a
           /\ 6 \in Double(a) <=> 5 \in a
           /\ 7 \in Double(a) <=> 6 \in a
<1> DEFINE s == {i + 1 : i \in a \ {7}}
<1>1. s \in Byte
  BY DEF Byte, Bits
<1>2. ASSUME NEW j \in 0..6 PROVE j + 1 \in s <=> j \in a
  <2>1. j \in a => j + 1 \in s
    OBVIOUS
  <2>2. ASSUME j + 1 \in s PROVE j \in a
    <3>1. PICK i \in a \ {7} : j + 1 = i + 1
      BY <2>2
    <3>2. i = j
      BY <3>1 DEF Byte, Bits
    <3> QED BY <3>1, <3>2
  <2> QED BY <2>1, <2>2
<1>3. /\ 0 \notin s /\ (1 \in s <=> 0 \in a) /\ (2 \in s <=> 1 \in a) /\ (3 \in s <=> 2 \in a)
      /\ (4 \in s <=> 3 \in a) /\ (5 \in s <=> 4 \in a) /\ (6 \in s <=> 5 \in a) /\ (7 \in s <=> 6 \in a)
  <2>1. 0 \notin s
    BY DEF Byte, Bits
  <2>2. 0 + 1 = 1 /\ 1 + 1 = 2 /\ 2 + 1 = 3 /\ 3 + 1 = 4 /\ 4 + 1 = 5 /\ 5 + 1 = 6 /\ 6 + 1 = 7
    OBVIOUS
  <2> HIDE DEF s
  <2> QED BY <1>2, <2>1, <2>2
<1>4. Double(a) = IF 7 \in a THEN Xor(s, {0, 1, 3, 4}) ELSE s
  BY Mask DEF Double
<1> HIDE DEF s
<1>5. CASE 7 \in a
  <2>1. Double(a) = Xor(s, {0, 1, 3, 4})
    BY <1>4, <1>5
  <2>2. {0, 1, 3, 4} \in Byte
    BY DEF Byte, Bits
  <2>3. Double(a) \in Byte
    BY <1>1, <2>1, <2>2, XorByte
  <2> QED BY <1>3, <1>5, <2>1, <2>3 DEF Xor
<1>6. CASE 7 \notin a
  BY <1>1, <1>3, <1>4, <1>6
<1> QED BY <1>5, <1>6

LEMMA DoubleInjective ==
    ASSUME NEW a \in Byte, NEW b \in Byte, Double(a) = Double(b)
    PROVE  a = b
<1>1. /\ (7 \in a <=> 7 \in b) /\ (0 \in a <=> 0 \in b) /\ (1 \in a <=> 1 \in b) /\ (2 \in a <=> 2 \in b)
      /\ (3 \in a <=> 3 \in b) /\ (4 \in a <=> 4 \in b) /\ (5 \in a <=> 5 \in b) /\ (6 \in a <=> 6 \in b)
  BY DoubleBits
<1> QED BY <1>1, ByteEqual

\* One step of the checksum.
Shift(r, digit) == Double(Xor(r, digit))

LEMMA ShiftByte == ASSUME NEW r \in Byte, NEW a \in Byte PROVE Shift(r, a) \in Byte
BY XorByte, DoubleBits DEF Shift

LEMMA ShiftDigit ==
    ASSUME NEW r \in Byte, NEW a \in Byte, NEW b \in Byte, Shift(r, a) = Shift(r, b)
    PROVE  a = b
<1>1. Xor(r, a) = Xor(r, b)
  BY XorByte, DoubleInjective DEF Shift
<1>2. \A i : i \in a <=> i \in b
  BY <1>1, XorBit
<1> QED BY <1>2, ByteEqual

LEMMA ShiftResult ==
    ASSUME NEW r \in Byte, NEW q \in Byte, NEW a \in Byte, Shift(r, a) = Shift(q, a)
    PROVE  r = q
<1>1. Xor(r, a) = Xor(q, a)
  BY XorByte, DoubleInjective DEF Shift
<1>2. \A i : i \in r <=> i \in q
  BY <1>1, XorBit
<1> QED BY <1>2, ByteEqual

LEMMA ShiftOut == ASSUME NEW r \in Byte PROVE Shift(r, r) = {}
<1>1. Xor(r, r) = {} /\ {} \in Byte
  BY DEF Xor, Byte
<1>2. Double({}) = {}
  BY <1>1, DoubleBits, ByteEqual
<1> QED BY <1>1, <1>2 DEF Shift

\* Two digits in the other order give another result, unless they are equal:
\* no byte but 0 is its own double.
LEMMA ShiftOrder ==
    ASSUME NEW r \in Byte, NEW a \in Byte, NEW b \in Byte,
           Shift(Shift(r, a), b) = Shift(Shift(r, b), a)
    PROVE  a = b
<1> DEFINE x == Xor(r, a)
           y == Xor(r, b)
           u == Double(x)
           v == Double(y)
<1>1. x \in Byte /\ y \in Byte
  BY XorByte
<1>2. \A i : (i \in x <=> ~(i \in r <=> i \in a)) /\ (i \in y <=> ~(i \in r <=> i \in b))
  BY XorBit
<1> HIDE DEF x, y
<1>3. u \in Byte /\ v \in Byte
  BY <1>1, DoubleBits
<1>4. Xor(u, b) = Xor(v, a)
  <2>1. Double(Xor(u, b)) = Double(Xor(v, a))
    BY DEF Shift, x, y
  <2> QED BY <1>3, <2>1, XorByte, DoubleInjective
<1>5. \A i : ~(i \in u <=> i \in b) <=> ~(i \in v <=> i \in a)
  BY <1>4, XorBit, SMTT(60)
<1>6. /\ (0 \in u <=> 7 \in x) /\ (1 \in u <=> ~(0 \in x <=> 7 \in x)) /\ (2 \in u <=> 1 \in x)
      /\ (3 \in u <=> ~(2 \in x <=> 7 \in x)) /\ (4 \in u <=> ~(3 \in x <=> 7 \in x))
      /\ (5 \in u <=> 4 \in x) /\ (6 \in u <=> 5 \in x) /\ (7 \in u <=> 6 \in x)
  BY <1>1, DoubleBits
<1>7. /\ (0 \in v <=> 7 \in y) /\ (1 \in v <=> ~(0 \in y <=> 7 \in y)) /\ (2 \in v <=> 1 \in y)
      /\ (3 \in v <=> ~(2 \in y <=> 7 \in y)) /\ (4 \in v <=> ~(3 \in y <=> 7 \in y))
      /\ (5 \in v <=> 4 \in y) /\ (6 \in v <=> 5 \in y) /\ (7 \in v <=> 6 \in y)
  BY <1>1, DoubleBits
<1> HIDE DEF u, v
<1>8. /\ (0 \in a <=> 0 \in b) /\ (1 \in a <=> 1 \in b) /\ (2 \in a <=> 2 \in b) /\ (3 \in a <=> 3 \in b)
      /\ (4 \in a <=> 4 \in b) /\ (5 \in a <=> 5 \in b) /\ (6 \in a <=> 6 \in b) /\ (7 \in a <=> 7 \in b)
  BY <1>2, <1>5, <1>6, <1>7
<1> QED BY <1>8, ByteEqual

-----------------------------------------------------------------------------
(* The checksum.                                                           *)

\* The results of ComputeChecksum's loop on data.
Trace(c, data) ==
    /\ c \in [0..Len(data) -> Byte] /\ c[0] = {}
    /\ \A i \in 1..Len(data) : c[i] = Shift(c[i - 1], data[i])

\* One of its turns, as a step of a loop.
ShiftStep(data) == [i \in 1..Len(data) |-> [result \in Byte |-> Double(Xor(result, data[i]))]]

LEMMA ShiftSteps ==
    ASSUME NEW data \in Seq(Byte)
    PROVE  /\ Len(data) \in Nat /\ {} \in Byte
           /\ \A i \in 1..Len(data) : \A r \in Byte :
                ShiftStep(data)[i][r] = Shift(r, data[i]) /\ ShiftStep(data)[i][r] \in Byte
<1>1. Len(data) \in Nat /\ \A i \in 1..Len(data) : data[i] \in Byte
  BY LenProperties, ElementOfSeq
<1>2. {} \in Byte
  BY DEF Byte
<1>3. ASSUME NEW i \in 1..Len(data), NEW r \in Byte
      PROVE  ShiftStep(data)[i][r] = Shift(r, data[i]) /\ ShiftStep(data)[i][r] \in Byte
  <2>1. ShiftStep(data)[i][r] = Shift(r, data[i])
    BY DEF ShiftStep, Shift
  <2> QED BY <1>1, <2>1, ShiftByte
<1> QED BY <1>1, <1>2, <1>3

LEMMA TraceRuns ==
    ASSUME NEW data \in Seq(Byte), NEW c
    PROVE  Trace(c, data) <=> Run(c, Len(data), Byte, ShiftStep(data), {})
<1> DEFINE n == Len(data)
           step == ShiftStep(data)
<1>1. n \in Nat /\ \A i \in 1..n : \A r \in Byte : step[i][r] = Shift(r, data[i])
  BY ShiftSteps
<1> HIDE DEF n, step
<1>2. ASSUME c \in [0..n -> Byte], NEW i \in 1..n PROVE step[i][c[i - 1]] = Shift(c[i - 1], data[i])
  <2>1. c[i - 1] \in Byte
    BY <1>1, <1>2
  <2> QED BY <1>1, <2>1
<1>3. Trace(c, data) <=> /\ c \in [0..n -> Byte] /\ c[0] = {}
                         /\ \A i \in 1..n : c[i] = Shift(c[i - 1], data[i])
  BY Zenon DEF Trace, n
<1>4. Run(c, n, Byte, step, {}) <=> /\ c \in [0..n -> Byte] /\ c[0] = {}
                                    /\ \A i \in 1..n : c[i] = step[i][c[i - 1]]
  BY Zenon DEF Run
<1>5. Trace(c, data) <=> Run(c, n, Byte, step, {})
  BY <1>2, <1>3, <1>4
<1> QED BY <1>5 DEF n, step

LEMMA TraceExists == ASSUME NEW data \in Seq(Byte) PROVE \E c : Trace(c, data)
<1> DEFINE n == Len(data)
           step == ShiftStep(data)
           zero == {}
<1>1. n \in Nat /\ zero \in Byte /\ \A i \in 1..n : \A r \in Byte : step[i][r] \in Byte
  BY ShiftSteps
<1> HIDE DEF n, step, zero
<1>2. PICK c : Run(c, n, Byte, step, zero)
  BY <1>1, RunExists, Zenon
<1>3. Trace(c, data)
  BY <1>2, TraceRuns DEF n, step, zero
<1> QED BY <1>3

\* Two traces agree as long as their data does.
LEMMA TraceAgree ==
    ASSUME NEW data \in Seq(Byte), NEW e \in Seq(Byte), NEW c, NEW d, Trace(c, data), Trace(d, e),
           NEW k \in Nat, k <= Len(data), k <= Len(e), \A i \in 1..k : data[i] = e[i]
    PROVE  c[k] = d[k]
<1> DEFINE T == {m \in 0..k : c[m] # d[m]}
<1>l. Len(data) \in Nat /\ Len(e) \in Nat
  BY LenProperties
<1>1. ASSUME T # {} PROVE FALSE
  <2>1. PICK m \in T : \A y \in T : m <= y
    <3>1. T \subseteq Nat
      OBVIOUS
    <3> HIDE DEF T
    <3> QED BY <1>1, <3>1, LeastNat, Zenon
  <2>2. m \in 0..k /\ c[m] # d[m]
    OBVIOUS
  <2>3. m # 0
    BY <2>2 DEF Trace
  <2>4. m - 1 \in 0..k /\ m - 1 \notin T /\ m \in 1..k /\ m \in 1..Len(data) /\ m \in 1..Len(e)
    BY <1>l, <2>1, <2>2, <2>3
  <2>5. c[m - 1] = d[m - 1] /\ data[m] = e[m]
    BY <2>4
  <2>6. c[m] = Shift(c[m - 1], data[m]) /\ d[m] = Shift(d[m - 1], e[m])
    BY <2>4 DEF Trace
  <2> QED BY <2>2, <2>5, <2>6
<1> QED BY <1>1

\* Once two traces differ, equal data cannot bring them together.
LEMMA TraceApart ==
    ASSUME NEW data \in Seq(Byte), NEW e \in Seq(Byte), NEW c, NEW d, Trace(c, data), Trace(d, e),
           Len(data) = Len(e), NEW k \in 0..Len(data), c[k] # d[k],
           \A i \in (k + 1)..Len(data) : data[i] = e[i]
    PROVE  c[Len(data)] # d[Len(data)]
<1> DEFINE n == Len(data)
           T == {m \in k..n : c[m] = d[m]}
<1>l. n \in Nat
  BY LenProperties
<1>t. /\ \A i \in 0..n : c[i] \in Byte /\ d[i] \in Byte
      /\ \A i \in 1..n : data[i] \in Byte
      /\ \A i \in 1..n : c[i] = Shift(c[i - 1], data[i]) /\ d[i] = Shift(d[i - 1], e[i])
  BY ElementOfSeq DEF Trace
<1> HIDE DEF n
<1>1. ASSUME T # {} PROVE FALSE
  <2>1. PICK m \in T : \A y \in T : m <= y
    <3>1. T \subseteq Nat
      BY <1>l DEF n
    <3> HIDE DEF T
    <3> QED BY <1>1, <3>1, LeastNat, Zenon
  <2>2. m \in k..n /\ c[m] = d[m] /\ k \in 0..n
    BY DEF n
  <2>3. m # k
    BY <2>2
  <2>4. m - 1 \in k..n /\ m - 1 \in 0..n /\ m \in 1..n /\ m \in (k + 1)..n /\ m - 1 \notin T
    BY <1>l, <2>1, <2>2, <2>3
  <2>5. c[m - 1] # d[m - 1]
    BY <2>4
  <2>6. data[m] = e[m]
    BY <2>4 DEF n
  <2>7. Shift(c[m - 1], data[m]) = Shift(d[m - 1], data[m])
    BY <1>t, <2>2, <2>4, <2>6
  <2> QED BY <1>t, <2>4, <2>5, <2>7, ShiftResult
<1>2. n \notin T /\ n \in k..n
  BY <1>1, <1>l DEF n
<1> QED BY <1>2 DEF n

\* The loop of ComputeChecksum goes through the results of the trace.
LEMMA TraceResult ==
    ASSUME NEW data \in Seq(Byte), NEW c, Trace(c, data)
    PROVE  ComputeChecksum(data) = c[Len(data)]
<1> DEFINE n == Len(data)
           to(i, result) == Double(Xor(result, data[i]))
           step == ShiftStep(data)
           F(g) == [i \in 1..(n + 1) |->
                      [result \in Byte |-> IF i > n THEN result ELSE g[i + 1][to(i, result)]]]
           f == CHOOSE g : g = F(g)
           zero == {}
<1>1. ComputeChecksum(data) = f[1][zero]
  BY Zenon DEF ComputeChecksum
<1>2. n \in Nat /\ Run(c, n, Byte, step, zero)
  BY ShiftSteps, TraceRuns
<1>3. \A i \in 1..n : \A r \in Byte : step[i][r] = to(i, r)
  BY DEF ShiftStep
<1> HIDE DEF n, to, step, zero
<1>4. ASSUME NEW g PROVE g = F(g) <=> Turns(g, n, Byte, step)
  <2>1. ASSUME NEW i \in 1..(n + 1)
        PROVE  [r \in Byte |-> IF i > n THEN r ELSE g[i + 1][to(i, r)]]
                 = [r \in Byte |-> IF i > n THEN r ELSE g[i + 1][step[i][r]]]
    <3>1. CASE i > n
      BY <3>1
    <3>2. CASE ~(i > n)
      <4>1. i \in 1..n
        BY <1>2, <3>2
      <4> QED BY <1>3, <4>1
    <3> QED BY <3>1, <3>2
  <2>2. F(g) = [i \in 1..(n + 1) |-> [r \in Byte |-> IF i > n THEN r ELSE g[i + 1][step[i][r]]]]
    BY <2>1
  <2> HIDE DEF F
  <2> QED BY <2>2, Zenon DEF Turns
<1>5. Turns(f, n, Byte, step)
  <2>1. PICK g : Turns(g, n, Byte, step)
    BY <1>2, TurnsExist, Zenon
  <2>2. g = F(g)
    BY <1>4, <2>1, Zenon
  <2> HIDE DEF F
  <2>3. f = F(f)
    BY <2>2, Zenon
  <2> HIDE DEF f
  <2> QED BY <1>4, <2>3, Zenon
<1> HIDE DEF f
<1>6. f[1][zero] = c[n]
  <2> DEFINE D == Byte
             E == Byte
  <2>1. n \in Nat /\ D \subseteq E /\ Run(c, n, D, step, zero) /\ Turns(f, n, E, step)
    BY <1>2, <1>5
  <2> HIDE DEF D, E
  <2> QED BY <2>1, LoopEnds
<1> QED BY <1>1, <1>6 DEF n

\* t is s with one byte replaced, or with two neighbours swapped.
Replaced(s, t) ==
    \E i \in 1..Len(s) : t[i] # s[i] /\ \A j \in 1..Len(s) : j # i => t[j] = s[j]
Swapped(s, t) ==
    \E i \in 1..(Len(s) - 1) :
        /\ s[i] # s[i + 1] /\ t[i] = s[i + 1] /\ t[i + 1] = s[i]
        /\ \A j \in 1..Len(s) : j # i /\ j # i + 1 => t[j] = s[j]

\* The checksum tells damaged data from what it was.
LEMMA ReplacedFound ==
    ASSUME NEW s \in Seq(Byte), NEW t \in Seq(Byte), Len(t) = Len(s), Replaced(s, t)
    PROVE  ComputeChecksum(t) # ComputeChecksum(s)
<1>1. PICK c : Trace(c, s)
  BY TraceExists
<1>2. PICK d : Trace(d, t)
  BY TraceExists
<1>3. PICK i \in 1..Len(s) : t[i] # s[i] /\ \A j \in 1..Len(s) : j # i => t[j] = s[j]
  BY DEF Replaced
<1>4. Len(s) \in Nat
  BY LenProperties
<1>5. i - 1 \in Nat /\ i - 1 <= Len(s) /\ \A j \in 1..(i - 1) : s[j] = t[j]
  BY <1>3, <1>4
<1>6. c[i - 1] = d[i - 1]
  BY <1>1, <1>2, <1>5, TraceAgree
<1>7. c[i - 1] \in Byte /\ s[i] \in Byte /\ t[i] \in Byte
  <2>1. i - 1 \in 0..Len(s)
    BY <1>4
  <2> QED BY <1>1, <2>1, ElementOfSeq DEF Trace
<1>8. c[i] = Shift(c[i - 1], s[i]) /\ d[i] = Shift(d[i - 1], t[i])
  BY <1>1, <1>2 DEF Trace
<1>9. c[i] # d[i]
  BY <1>3, <1>6, <1>7, <1>8, ShiftDigit
<1>10. i \in 0..Len(s) /\ \A j \in (i + 1)..Len(s) : s[j] = t[j]
  BY <1>3, <1>4
<1>11. c[Len(s)] # d[Len(s)]
  BY <1>1, <1>2, <1>9, <1>10, TraceApart
<1> QED BY <1>1, <1>2, <1>11, TraceResult

LEMMA SwappedFound ==
    ASSUME NEW s \in Seq(Byte), NEW t \in Seq(Byte), Len(t) = Len(s), Swapped(s, t)
    PROVE  ComputeChecksum(t) # ComputeChecksum(s)
<1>1. PICK c : Trace(c, s)
  BY TraceExists
<1>2. PICK d : Trace(d, t)
  BY TraceExists
<1>4. Len(s) \in Nat
  BY LenProperties
<1>3. PICK i \in 1..(Len(s) - 1) :
         /\ s[i] # s[i + 1] /\ t[i] = s[i + 1] /\ t[i + 1] = s[i]
         /\ \A j \in 1..Len(s) : j # i /\ j # i + 1 => t[j] = s[j]
  BY DEF Swapped
<1>5. i - 1 \in Nat /\ i - 1 <= Len(s) /\ \A j \in 1..(i - 1) : s[j] = t[j]
  BY <1>3, <1>4
<1>6. c[i - 1] = d[i - 1]
  BY <1>1, <1>2, <1>5, TraceAgree
<1>i. i \in 1..Len(s) /\ i + 1 \in 1..Len(s) /\ (i + 1) - 1 = i /\ i - 1 \in 0..Len(s)
  BY <1>4
<1>7. c[i - 1] \in Byte /\ s[i] \in Byte /\ s[i + 1] \in Byte
  BY <1>1, <1>i, ElementOfSeq DEF Trace
<1>8. /\ c[i] = Shift(c[i - 1], s[i]) /\ d[i] = Shift(c[i - 1], s[i + 1])
      /\ c[i + 1] = Shift(c[i], s[i + 1]) /\ d[i + 1] = Shift(d[i], s[i])
  BY <1>1, <1>2, <1>3, <1>6, <1>i DEF Trace
<1>9. c[i + 1] # d[i + 1]
  BY <1>3, <1>7, <1>8, ShiftOrder
<1>10. i + 1 \in 0..Len(s) /\ \A j \in ((i + 1) + 1)..Len(s) : s[j] = t[j]
  BY <1>3, <1>4
<1>11. c[Len(s)] # d[Len(s)]
  BY <1>1, <1>2, <1>9, <1>10, TraceApart
<1> QED BY <1>1, <1>2, <1>11, TraceResult

\* With its own checksum at the end, data has the checksum 0.
LEMMA ChecksumCloses ==
    ASSUME NEW body \in Seq(Byte)
    PROVE  /\ Append(body, ComputeChecksum(body)) \in Seq(Byte)
           /\ ComputeChecksum(Append(body, ComputeChecksum(body))) = {}
<1> DEFINE n == Len(body)
           x == ComputeChecksum(body)
           s == Append(body, x)
<1>1. PICK c : Trace(c, body)
  BY TraceExists
<1>2. n \in Nat
  BY LenProperties
<1>3. x = c[n] /\ x \in Byte
  <2>1. x = c[n]
    BY <1>1, TraceResult
  <2>2. n \in 0..n
    BY <1>2
  <2> QED BY <1>1, <2>1, <2>2 DEF Trace
<1> HIDE DEF x
<1>4. s \in Seq(Byte) /\ Len(s) = n + 1 /\ s[n + 1] = x /\ \A i \in 1..n : s[i] = body[i]
  BY <1>2, <1>3, AppendProperties
<1> HIDE DEF s
<1>5. PICK d : Trace(d, s)
  BY <1>4, TraceExists
<1>6. n <= Len(body) /\ n <= Len(s) /\ \A i \in 1..n : body[i] = s[i]
  BY <1>2, <1>4
<1>7. c[n] = d[n]
  BY <1>1, <1>2, <1>4, <1>5, <1>6, TraceAgree
<1>8. d[n + 1] = Shift(d[n], s[n + 1])
  <2>1. n + 1 \in 1..Len(s) /\ (n + 1) - 1 = n
    BY <1>2, <1>4
  <2> QED BY <1>5, <2>1 DEF Trace
<1>9. d[n + 1] = {}
  BY <1>3, <1>4, <1>7, <1>8, ShiftOut
<1>10. ComputeChecksum(s) = {}
  BY <1>4, <1>5, <1>9, TraceResult
<1> QED BY <1>4, <1>10 DEF s, x

-----------------------------------------------------------------------------
(* The shape of an address.                                                *)

AddressRecs ==
    [kind : {"single", "dual"}, network : Byte, features : Byte,
     view : Seq(Byte), spend : Seq(Byte), memo : Seq(Byte)]

Shaped(a) ==
    /\ a \in AddressRecs
    /\ a.network \in Networks /\ a.features \subseteq validFeatureBits /\ a.spend \in CanonicalKeys
    /\ a.kind = "single" => a.view = <<>> /\ a.memo = <<>>
    /\ a.kind = "dual" => a.view \in CanonicalKeys
    /\ a.memo # <<>> => FeaturePaymentID \subseteq a.features
    /\ Len(a.memo) <= MaxEncryptedDataSize

LEMMA KeySize == ASSUME NEW k \in CanonicalKeys PROVE k \in Seq(Byte) /\ Len(k) = PublicKeySize
<1>1. k \in [1..PublicKeySize -> Byte] /\ PublicKeySize \in Nat
  BY AddressAssumption
<1> QED BY <1>1

LEMMA FlagBytes ==
    /\ \A n \in Networks : n \in Byte
    /\ \A f \in SUBSET validFeatureBits : f \in Byte
    /\ FeaturePaymentID \subseteq validFeatureBits
BY DEF Networks, ByteOf, Byte, Bits, validFeatureBits, FeaturePaymentID, FeatureInteractive, FeatureOneSided

LEMMA SingleShaped ==
    ASSUME NEW n \in Networks, NEW f \in SUBSET validFeatureBits, NEW k \in CanonicalKeys
    PROVE  Shaped(NewSingle(k, n, f))
<1>1. k \in Seq(Byte) /\ n \in Byte /\ f \in Byte /\ <<>> \in Seq(Byte) /\ Len(<<>>) = 0
  BY KeySize, FlagBytes
<1> QED BY <1>1, AddressAssumption DEF Shaped, NewSingle, AddressRecs

LEMMA DualShaped ==
    ASSUME NEW n \in Networks, NEW f \in SUBSET validFeatureBits, NEW k \in CanonicalKeys,
           NEW v \in CanonicalKeys, NEW m \in Seq(Byte), Len(m) <= MaxEncryptedDataSize,
           m # <<>> => FeaturePaymentID \subseteq f
    PROVE  Shaped([kind |-> "dual", network |-> n, features |-> f, view |-> v, spend |-> k, memo |-> m])
<1>1. k \in Seq(Byte) /\ v \in Seq(Byte) /\ n \in Byte /\ f \in Byte
  BY KeySize, FlagBytes
<1> QED BY <1>1 DEF Shaped, AddressRecs

LEMMA ConstructedShaped == ASSUME NEW a, Constructed(a) PROVE Shaped(a)
<1>1. PICK n \in Networks, f \in SUBSET validFeatureBits, v \in CanonicalKeys, k \in CanonicalKeys :
        \/ a = NewSingle(k, n, f)
        \/ a = NewDual(v, k, n, f, <<>>)
        \/ /\ a = NewDual(v, k, n, f, <<a.memo>>)
           /\ a.memo \in Seq(Byte) /\ Len(a.memo) <= MaxEncryptedDataSize
  BY DEF Constructed
<1>2. CASE a = NewSingle(k, n, f)
  BY <1>2, SingleShaped
<1>3. CASE a = NewDual(v, k, n, f, <<>>)
  <2>1. a = [kind |-> "dual", network |-> n, features |-> f, view |-> v, spend |-> k, memo |-> <<>>]
    BY <1>3 DEF NewDual
  <2>2. <<>> \in Seq(Byte) /\ Len(<<>>) <= MaxEncryptedDataSize
    BY AddressAssumption
  <2> QED BY <2>1, <2>2, DualShaped
<1>4. CASE a = NewDual(v, k, n, f, <<a.memo>>) /\ a.memo \in Seq(Byte) /\ Len(a.memo) <= MaxEncryptedDataSize
  <2> DEFINE m == a.memo
             g == f \cup FeaturePaymentID
  <2>1. a = [kind |-> "dual", network |-> n, features |-> g, view |-> v, spend |-> k, memo |-> m]
    <3>1. <<m>> # <<>> /\ <<m>>[1] = m
      OBVIOUS
    <3> HIDE DEF m
    <3>2. NewDual(v, k, n, f, <<m>>) = [kind |-> "dual", network |-> n, features |-> g, view |-> v, spend |-> k, memo |-> m]
      BY <3>1, Zenon DEF NewDual
    <3> QED BY <1>4, <3>2, Zenon DEF m
  <2>2. g \in SUBSET validFeatureBits /\ FeaturePaymentID \subseteq g
    BY FlagBytes
  <2> HIDE DEF m, g
  <2>3. m \in Seq(Byte) /\ Len(m) <= MaxEncryptedDataSize
    BY <1>4 DEF m
  <2> QED BY <2>1, <2>2, <2>3, DualShaped
<1> QED BY <1>1, <1>2, <1>3, <1>4

LEMMA MemoShaped ==
    ASSUME NEW a, Shaped(a), NEW data \in Seq(Byte), WithMemoFieldPaymentID(a, data).err = "nil"
    PROVE  Shaped(WithMemoFieldPaymentID(a, data).addr)
<1> DEFINE r == [a EXCEPT !.features = @ \cup FeaturePaymentID, !.memo = data]
<1>1. a.kind = "dual" /\ Len(data) <= MaxEncryptedDataSize /\ WithMemoFieldPaymentID(a, data).addr = r
  <2>1. Err("PaymentIDNotSupported").err # "nil" /\ Err("PaymentIDTooLarge").err # "nil"
    BY DEF Err
  <2>2. a.kind = "dual"
    BY <2>1 DEF WithMemoFieldPaymentID
  <2>3. ~(Len(data) > MaxEncryptedDataSize)
    BY <2>1, <2>2 DEF WithMemoFieldPaymentID
  <2>4. WithMemoFieldPaymentID(a, data) = Ok(r)
    BY <2>2, <2>3 DEF WithMemoFieldPaymentID
  <2>5. Ok(r).addr = r
    BY DEF Ok
  <2>6. Len(data) \in Nat /\ MaxEncryptedDataSize \in Nat
    BY LenProperties, AddressAssumption
  <2> QED BY <2>2, <2>3, <2>4, <2>5, <2>6
<1>2. r = [kind |-> "dual", network |-> a.network, features |-> a.features \cup FeaturePaymentID,
           view |-> a.view, spend |-> a.spend, memo |-> data]
  BY <1>1 DEF Shaped, AddressRecs
<1>3. /\ a.network \in Networks /\ a.features \cup FeaturePaymentID \in SUBSET validFeatureBits
      /\ a.view \in CanonicalKeys /\ a.spend \in CanonicalKeys
  BY <1>1, FlagBytes DEF Shaped
<1>4. Shaped([kind |-> "dual", network |-> a.network, features |-> a.features \cup FeaturePaymentID,
              view |-> a.view, spend |-> a.spend, memo |-> data])
  BY <1>1, <1>3, DualShaped
<1> QED BY <1>1, <1>2, <1>4

\* What CombineAddresses returns, when it returns an address.
LEMMA Combination ==
    ASSUME NEW a, NEW b, CombineAddresses(a, b).err = "nil"
    PROVE  LET f == a.features \cup b.features
               d == IF a.kind = "dual" THEN a ELSE b
           IN  /\ a.spend = b.spend /\ a.network = b.network
               /\ CombineAddresses(a, b).addr =
                    IF d.kind = "dual"
                    THEN [kind |-> "dual", network |-> a.network, features |-> f, view |-> d.view,
                          spend |-> a.spend, memo |-> <<>>]
                    ELSE [kind |-> "single", network |-> a.network, features |-> f, view |-> <<>>,
                          spend |-> a.spend, memo |-> <<>>]
<1> DEFINE f == a.features \cup b.features
           d == IF a.kind = "dual" THEN a ELSE b
<1>1. Err("Creation").err # "nil"
  BY DEF Err
<1>2. a.spend = b.spend /\ a.network = b.network
  BY <1>1 DEF CombineAddresses
<1>3. ~(a.kind = "dual" /\ b.kind = "dual" /\ a.view # b.view)
  BY <1>1, <1>2 DEF CombineAddresses
<1>4. CombineAddresses(a, b) = IF d.kind = "dual" THEN Ok(NewDual(d.view, a.spend, a.network, f, <<>>))
                                                  ELSE Ok(NewSingle(a.spend, a.network, f))
  BY <1>2, <1>3, Zenon DEF CombineAddresses, CombinedFeatures
<1> HIDE DEF f, d
<1>5. CASE d.kind = "dual"
  BY <1>2, <1>4, <1>5 DEF Ok, NewDual, f, d
<1>6. CASE d.kind # "dual"
  BY <1>2, <1>4, <1>6 DEF Ok, NewSingle, f, d
<1> QED BY <1>5, <1>6

LEMMA CombineShaped ==
    ASSUME NEW a, NEW b, Shaped(a), Shaped(b), CombineAddresses(a, b).err = "nil"
    PROVE  Shaped(CombineAddresses(a, b).addr)
<1> DEFINE f == a.features \cup b.features
           d == IF a.kind = "dual" THEN a ELSE b
<1>1. f \in SUBSET validFeatureBits /\ a.network \in Networks /\ a.spend \in CanonicalKeys
  BY DEF Shaped
<1>2. d.kind = "dual" => d.view \in CanonicalKeys
  BY DEF Shaped
<1>3. <<>> \in Seq(Byte) /\ Len(<<>>) <= MaxEncryptedDataSize
  BY AddressAssumption
<1>4. CombineAddresses(a, b).addr =
         IF d.kind = "dual"
         THEN [kind |-> "dual", network |-> a.network, features |-> f, view |-> d.view,
               spend |-> a.spend, memo |-> <<>>]
         ELSE [kind |-> "single", network |-> a.network, features |-> f, view |-> <<>>,
               spend |-> a.spend, memo |-> <<>>]
  BY Combination
<1> HIDE DEF f, d
<1>5. CASE d.kind = "dual"
  BY <1>1, <1>2, <1>3, <1>4, <1>5, DualShaped
<1>6. CASE d.kind # "dual"
  <2>1. Shaped(NewSingle(a.spend, a.network, f))
    BY <1>1, SingleShaped
  <2> QED BY <1>4, <1>6, <2>1 DEF NewSingle
<1> QED BY <1>5, <1>6

-----------------------------------------------------------------------------
(* The bytes of an address.                                                *)

\* The sequence t stands in b after its first k members.
Stands(b, k, t) == k + Len(t) <= Len(b) /\ \A i \in 1..Len(t) : b[k + i] = t[i]

LEMMA Appended ==
    ASSUME NEW S, NEW s \in Seq(S), NEW t \in Seq(S)
    PROVE  s \o t \in Seq(S) /\ Len(s \o t) = Len(s) + Len(t) /\ Stands(s \o t, Len(s), t)
<1> DEFINE m == Len(s)
           n == Len(t)
           b == s \o t
<1>1. b \in Seq(S) /\ Len(b) = m + n
  BY ConcatProperties, Zenon
<1>2. \A i \in 1 .. m + n : b[i] = IF i <= m THEN s[i] ELSE t[i - m]
  BY ConcatProperties, Zenon
<1>3. m \in Nat /\ n \in Nat
  BY LenProperties
<1> HIDE DEF b, m, n
<1>4. ASSUME NEW i \in 1..n PROVE b[m + i] = t[i]
  <2>1. m + i \in 1..(m + n) /\ ~(m + i <= m) /\ (m + i) - m = i
    BY <1>3
  <2> QED BY <1>2, <2>1
<1>5. Stands(b, m, t)
  BY <1>1, <1>3, <1>4 DEF Stands, n
<1> QED BY <1>1, <1>5 DEF b, m, n

\* What stands in a sequence stays where it is when more is appended.
LEMMA Kept ==
    ASSUME NEW S, NEW s \in Seq(S), NEW t \in Seq(S), NEW r \in Seq(S), NEW k \in Nat, Stands(s, k, r)
    PROVE  Stands(s \o t, k, r)
<1> DEFINE m == Len(s)
           n == Len(t)
           l == Len(r)
           b == s \o t
<1>1. b \in Seq(S) /\ Len(b) = m + n
  BY ConcatProperties, Zenon
<1>2. \A i \in 1 .. m + n : b[i] = IF i <= m THEN s[i] ELSE t[i - m]
  BY ConcatProperties, Zenon
<1>3. m \in Nat /\ n \in Nat /\ l \in Nat
  BY LenProperties
<1>4. k + l <= m /\ \A i \in 1..l : s[k + i] = r[i]
  BY DEF Stands
<1> HIDE DEF b, m, n, l
<1>5. ASSUME NEW i \in 1..l PROVE b[k + i] = r[i]
  <2>1. k + i \in 1..(m + n) /\ k + i <= m
    BY <1>3, <1>4
  <2> QED BY <1>2, <1>4, <2>1
<1>6. k + l <= Len(b)
  BY <1>1, <1>3, <1>4
<1> QED BY <1>5, <1>6 DEF Stands, b, l

\* What stands in a sequence can be cut out of it.
LEMMA CutOut ==
    ASSUME NEW S, NEW b \in Seq(S), NEW h \in Seq(S), NEW m \in Nat, Stands(b, m, h)
    PROVE  SubSeq(b, m + 1, m + Len(h)) = h
<1> DEFINE n == Len(h)
<1>n. n \in Nat
  BY LenProperties
<1>0. m + n <= Len(b) /\ \A l \in 1..n : b[m + l] = h[l]
  BY DEF Stands
<1> HIDE DEF n
<1>1. \A l \in (m + 1)..(m + n) : b[l] \in S
  <2> SUFFICES ASSUME NEW l \in (m + 1)..(m + n) PROVE b[l] \in S
    OBVIOUS
  <2>1. l \in 1..Len(b)
    BY <1>0, <1>n
  <2> QED BY <2>1, ElementOfSeq
<1> DEFINE s == SubSeq(b, m + 1, m + n)
<1>2. s \in Seq(S)
  BY <1>0, <1>1, <1>n
<1>3. Len(s) = n
  BY <1>0, <1>1, <1>n
<1>4. ASSUME NEW l \in 1..n PROVE s[l] = h[l]
  BY <1>0, <1>1, <1>n
<1> HIDE DEF s
<1> QED BY <1>2, <1>3, <1>4, SeqEqual DEF s, n

\* Where the fields of an address are in its bytes.
LEMMA BytesFields ==
    ASSUME NEW a, a \in AddressRecs
    PROVE  LET b == Bytes(a)
               v == 2 + Len(a.view)
               w == v + Len(a.spend)
           IN  /\ b \in Seq(Byte) /\ Len(b) = (w + Len(a.memo)) + 1
               /\ b[1] = a.network /\ b[2] = a.features
               /\ Stands(b, 2, a.view) /\ Stands(b, v, a.spend) /\ Stands(b, w, a.memo)
               /\ ComputeChecksum(b) = {}
<1> DEFINE p == <<a.network, a.features>>
           x == p \o a.view
           y == x \o a.spend
           body == y \o a.memo
           v == 2 + Len(a.view)
           w == v + Len(a.spend)
<1>1. /\ a.network \in Byte /\ a.features \in Byte
      /\ a.view \in Seq(Byte) /\ a.spend \in Seq(Byte) /\ a.memo \in Seq(Byte)
  BY DEF AddressRecs
<1>n. Len(a.view) \in Nat /\ Len(a.spend) \in Nat /\ Len(a.memo) \in Nat
  BY <1>1, LenProperties
<1>v. 0 \in Nat /\ 2 \in Nat /\ v \in Nat /\ w \in Nat
  <2>1. \A i, j \in Nat : 0 \in Nat /\ 2 \in Nat /\ 2 + i \in Nat /\ (2 + i) + j \in Nat
    OBVIOUS
  <2> QED BY <1>n, <2>1, Zenon
<1>2. p \in Seq(Byte) /\ Len(p) = 2 /\ p[1] = a.network /\ p[2] = a.features
  BY <1>1
<1> HIDE DEF p
<1>3. Stands(p, 0, p)
  BY <1>2 DEF Stands
<1>4. x \in Seq(Byte) /\ Len(x) = Len(p) + Len(a.view) /\ Stands(x, Len(p), a.view)
  BY <1>1, <1>2, Appended, Zenon
<1>5. Stands(x, 0, p)
  BY <1>1, <1>2, <1>3, <1>v, Kept, Zenon
<1> HIDE DEF x
<1>6. Len(x) = v /\ Stands(x, 2, a.view)
  BY <1>2, <1>4
<1>7. y \in Seq(Byte) /\ Len(y) = Len(x) + Len(a.spend) /\ Stands(y, Len(x), a.spend)
  BY <1>1, <1>4, Appended, Zenon
<1>8. Stands(y, 0, p) /\ Stands(y, 2, a.view)
  BY <1>1, <1>2, <1>4, <1>5, <1>6, <1>v, Kept, Zenon
<1> HIDE DEF y
<1>9. Len(y) = w /\ Stands(y, v, a.spend)
  BY <1>6, <1>7
<1> HIDE DEF v, w
<1>10. body \in Seq(Byte) /\ Len(body) = Len(y) + Len(a.memo) /\ Stands(body, Len(y), a.memo)
  BY <1>1, <1>7, Appended, Zenon
<1>11. Stands(body, 0, p) /\ Stands(body, 2, a.view) /\ Stands(body, v, a.spend)
  BY <1>1, <1>2, <1>7, <1>8, <1>9, <1>v, Kept, Zenon
<1> HIDE DEF body
<1>12. Len(body) = w + Len(a.memo) /\ Stands(body, w, a.memo)
  BY <1>9, <1>10
<1>13. Bytes(a) = Append(body, ComputeChecksum(body))
  BY Zenon DEF Bytes, body, y, x, p
<1>14. /\ Append(body, ComputeChecksum(body)) \in Seq(Byte)
       /\ ComputeChecksum(Append(body, ComputeChecksum(body))) = {}
  BY <1>10, ChecksumCloses, Zenon
<1> DEFINE c == ComputeChecksum(body)
           z == Append(body, c)
           n == Len(body)
<1>15. n \in Nat /\ z \in Seq(Byte) /\ ComputeChecksum(z) = {}
  BY <1>10, <1>14, LenProperties
<1> HIDE DEF c
<1>16. Len(z) = n + 1 /\ \A i \in 1..n : z[i] = body[i]
  BY <1>10
<1> HIDE DEF z, n
<1>17. ASSUME NEW k \in Nat, NEW t \in Seq(Byte), Stands(body, k, t) PROVE Stands(z, k, t)
  <2> DEFINE l == Len(t)
  <2>1. l \in Nat /\ k + l <= n /\ \A i \in 1..l : body[k + i] = t[i]
    BY <1>17, LenProperties DEF Stands, n
  <2> HIDE DEF l
  <2>2. k + l <= Len(z)
    BY <1>15, <1>16, <2>1
  <2>3. ASSUME NEW i \in 1..l PROVE z[k + i] = t[i]
    <3>1. k + i \in 1..n
      BY <1>15, <2>1
    <3> QED BY <1>16, <2>1, <3>1
  <2> QED BY <2>2, <2>3 DEF Stands, l
<1>18. Stands(z, 0, p) /\ Stands(z, 2, a.view) /\ Stands(z, v, a.spend) /\ Stands(z, w, a.memo)
  BY <1>1, <1>2, <1>11, <1>12, <1>17, <1>v
<1>19. z[1] = a.network /\ z[2] = a.features
  BY <1>2, <1>18 DEF Stands
<1>20. Len(z) = (w + Len(a.memo)) + 1
  BY <1>12, <1>16 DEF n
<1>21. Bytes(a) = z
  BY <1>13, Zenon DEF z, c
<1> QED BY <1>15, <1>18, <1>19, <1>20, <1>21, Zenon DEF v, w
LEMMA BytesSize ==
    ASSUME NEW a, Shaped(a)
    PROVE  /\ a.kind = "single" => SingleSize(Len(Bytes(a)))
           /\ a.kind = "dual" => DualSize(Len(Bytes(a))) /\ ~SingleSize(Len(Bytes(a)))
           /\ GetSize(a) = Len(Bytes(a))
           /\ Len(Bytes(a)) > 3
<1> DEFINE L == Len(Bytes(a))
           P == PublicKeySize
           m == Len(a.memo)
<1>0. P \in Nat /\ P > 0 /\ MaxEncryptedDataSize \in Nat
  BY AddressAssumption
<1>1. a \in AddressRecs /\ a.kind \in {"single", "dual"} /\ Len(a.spend) = P /\ m \in Nat /\ m <= MaxEncryptedDataSize
  BY KeySize, LenProperties DEF Shaped, AddressRecs
<1>2. L = ((2 + Len(a.view)) + P + m) + 1
  BY <1>1, BytesFields
<1>3. CASE a.kind = "single"
  <2>1. Len(a.view) = 0 /\ m = 0
    BY <1>3 DEF Shaped
  <2>2. L = P + 3
    BY <1>0, <1>2, <2>1
  <2> QED BY <1>0, <1>3, <2>2 DEF SingleSize, SingleAddressInternalSize, GetSize
<1>4. CASE a.kind = "dual"
  <2>1. Len(a.view) = P
    BY <1>4, KeySize DEF Shaped
  <2> HIDE DEF L, P, m
  <2>2. L = (2 * P + 3) + m
    BY <1>0, <1>1, <1>2, <2>1
  <2>3. m = 0 \/ FeaturePaymentID \subseteq a.features
    BY DEF Shaped, m
  <2>4. L \in (2 * P + 3)..((2 * P + 3) + MaxEncryptedDataSize) /\ L # P + 3 /\ L > 3
    BY <1>0, <1>1, <2>2
  <2>5. m = 0 => L = 2 * P + 3
    BY <1>0, <2>2
  <2>6. GetSize(a) = L
    BY <1>4, <2>3, <2>5 DEF GetSize, DualAddressInternalSize, L, P
  <2> QED BY <1>4, <2>4, <2>6 DEF L, P,  SingleSize, SingleAddressInternalSize, DualSize, DualAddressInternalSize
<1> QED BY <1>1, <1>3, <1>4

\* Reading the bytes of an address gives the address.
LEMMA ReadBack ==
    ASSUME NEW a, Shaped(a)
    PROVE  /\ FromBytes(Bytes(a)) = Ok(a)
           /\ a.kind = "single" => SingleAddressFromBytes(Bytes(a)) = Ok(a)
           /\ a.kind = "dual" => DualAddressFromBytes(Bytes(a)) = Ok(a)
<1> DEFINE b == Bytes(a)
           P == PublicKeySize
           M == Len(a.memo)
<1>0. P \in Nat /\ P > 0
  BY AddressAssumption
<1>1. /\ a \in AddressRecs /\ a.kind \in {"single", "dual"} /\ Len(a.spend) = P /\ M \in Nat
      /\ a.view \in Seq(Byte) /\ a.spend \in Seq(Byte) /\ a.memo \in Seq(Byte)
      /\ a = [kind |-> a.kind, network |-> a.network, features |-> a.features,
              view |-> a.view, spend |-> a.spend, memo |-> a.memo]
  BY KeySize, LenProperties DEF Shaped, AddressRecs
<1>2. /\ b \in Seq(Byte) /\ Len(b) = (((2 + Len(a.view)) + Len(a.spend)) + M) + 1
      /\ b[1] = a.network /\ b[2] = a.features
      /\ Stands(b, 2, a.view) /\ Stands(b, 2 + Len(a.view), a.spend)
      /\ Stands(b, (2 + Len(a.view)) + Len(a.spend), a.memo)
      /\ ComputeChecksum(b) = {}
  BY <1>1, BytesFields, Zenon
<1>3. /\ a.kind = "single" => SingleSize(Len(b))
      /\ a.kind = "dual" => DualSize(Len(b)) /\ ~SingleSize(Len(b))
      /\ Len(b) > 3
  BY BytesSize, Zenon
<1> HIDE DEF b
<1>4. ValidateChecksum(b)
  <2> DEFINE L == Len(b)
  <2>1. L \in Nat /\ L > 3
    BY <1>2, <1>3, LenProperties
  <2> HIDE DEF L
  <2>2. L >= 2
    BY <2>1
  <2> QED BY <1>2, <2>2 DEF ValidateChecksum, L
<1>5. Checked(b, a) = Ok(a)
  <2>1. /\ a.network \in Networks /\ featuresFromBits(a.features)
        /\ PublicKeyFromCanonicalBytes(a.spend)
        /\ a.kind = "dual" => PublicKeyFromCanonicalBytes(a.view)
    BY DEF Shaped, featuresFromBits, PublicKeyFromCanonicalBytes
  <2> QED BY <1>4, <2>1, Zenon DEF Checked
<1>6. CASE a.kind = "single"
  <2>1. a.view = <<>> /\ a.memo = <<>> /\ Len(a.view) = 0
    BY <1>6 DEF Shaped
  <2>2. Stands(b, 2, a.spend)
    BY <1>2, <2>1
  <2>3. SubSeq(b, 3, P + 2) = a.spend
    <3> DEFINE i == 3
               j == P + 2
    <3>1. 2 \in Nat /\ i = 2 + 1 /\ j = 2 + Len(a.spend)
      BY <1>0, <1>1
    <3>2. SubSeq(b, 2 + 1, 2 + Len(a.spend)) = a.spend
      BY <1>1, <1>2, <2>2, <3>1, CutOut, Zenon
    <3> HIDE DEF i, j
    <3>3. SubSeq(b, i, j) = a.spend
      BY <3>1, <3>2, Zenon
    <3> QED BY <3>3 DEF i, j
  <2>4. NewSingle(a.spend, b[1], b[2]) = a
    BY <1>1, <1>2, <1>6, <2>1, Zenon DEF NewSingle
  <2>5. SingleAddressFromBytes(b) = Ok(a)
    BY <1>3, <1>5, <1>6, <2>3, <2>4, Zenon DEF SingleAddressFromBytes
  <2>6. FromBytes(b) = Ok(a)
    BY <1>3, <1>6, <2>5, Zenon DEF FromBytes
  <2> QED BY <1>6, <2>5, <2>6 DEF b
<1>7. CASE a.kind = "dual"
  <2>1. Len(a.view) = P
    BY <1>7, KeySize DEF Shaped
  <2>2. Stands(b, 2, a.view) /\ Stands(b, 2 + P, a.spend) /\ Stands(b, (2 + P) + P, a.memo)
    BY <1>1, <1>2, <2>1
  <2>3. SubSeq(b, 3, P + 2) = a.view
    <3> DEFINE i == 3
               j == P + 2
    <3>1. 2 \in Nat /\ i = 2 + 1 /\ j = 2 + Len(a.view)
      BY <1>0, <2>1
    <3>2. SubSeq(b, 2 + 1, 2 + Len(a.view)) = a.view
      BY <1>1, <1>2, <2>2, <3>1, CutOut, Zenon
    <3> HIDE DEF i, j
    <3>3. SubSeq(b, i, j) = a.view
      BY <3>1, <3>2, Zenon
    <3> QED BY <3>3 DEF i, j
  <2>4. SubSeq(b, P + 3, 2 * P + 2) = a.spend
    <3> DEFINE i == P + 3
               j == 2 * P + 2
    <3>1. 2 + P \in Nat /\ i = (2 + P) + 1 /\ j = (2 + P) + Len(a.spend)
      BY <1>0, <1>1
    <3>2. SubSeq(b, (2 + P) + 1, (2 + P) + Len(a.spend)) = a.spend
      BY <1>1, <1>2, <2>2, <3>1, CutOut, ZenonT(60)
    <3> HIDE DEF i, j
    <3>3. SubSeq(b, i, j) = a.spend
      BY <3>1, <3>2, Zenon
    <3> QED BY <3>3 DEF i, j
  <2>5. SubSeq(b, 2 * P + 3, Len(b) - 1) = a.memo
    <3> DEFINE i == 2 * P + 3
               j == Len(b) - 1
    <3>1. (2 + P) + P \in Nat /\ i = ((2 + P) + P) + 1 /\ j = ((2 + P) + P) + Len(a.memo)
      BY <1>0, <1>1, <1>2, <2>1, SMTT(60)
    <3>2. SubSeq(b, ((2 + P) + P) + 1, ((2 + P) + P) + Len(a.memo)) = a.memo
      BY <1>1, <1>2, <2>2, <3>1, CutOut, Zenon
    <3> HIDE DEF i, j
    <3>3. SubSeq(b, i, j) = a.memo
      BY <3>1, <3>2, Zenon
    <3> QED BY <3>3 DEF i, j
  <2>6. [NewDual(a.view, a.spend, b[1], b[2], <<>>) EXCEPT !.memo = a.memo] = a
    <3>1. NewDual(a.view, a.spend, b[1], b[2], <<>>) =
            [kind |-> "dual", network |-> a.network, features |-> a.features,
             view |-> a.view, spend |-> a.spend, memo |-> <<>>]
      BY <1>2, Zenon DEF NewDual
    <3>2. [[kind |-> "dual", network |-> a.network, features |-> a.features,
            view |-> a.view, spend |-> a.spend, memo |-> <<>>] EXCEPT !.memo = a.memo] =
            [kind |-> "dual", network |-> a.network, features |-> a.features,
             view |-> a.view, spend |-> a.spend, memo |-> a.memo]
      OBVIOUS
    <3> QED BY <1>1, <1>7, <3>1, <3>2, Zenon
  <2>7. DualAddressFromBytes(b) = Ok(a)
    BY <1>3, <1>5, <1>7, <2>3, <2>4, <2>5, <2>6, Zenon DEF DualAddressFromBytes
  <2>8. FromBytes(b) = Ok(a)
    BY <1>3, <1>7, <2>7, Zenon DEF FromBytes
  <2>9. a.kind # "single"
    BY <1>7
  <2> QED BY <1>7, <2>7, <2>8, <2>9 DEF b
<1> QED BY <1>1, <1>6, <1>7

\* Bytes of the right length with another checksum than 0 are refused for it.
LEMMA ReadDamaged ==
    ASSUME NEW a, Shaped(a), NEW t \in Seq(Byte), Len(t) = Len(Bytes(a)), ComputeChecksum(t) # {}
    PROVE  /\ FromBytes(t).err = "InvalidChecksum"
           /\ a.kind = "single" => SingleAddressFromBytes(t).err = "InvalidChecksum"
           /\ a.kind = "dual" => DualAddressFromBytes(t).err = "InvalidChecksum"
<1>1. ~ValidateChecksum(t)
  BY DEF ValidateChecksum
<1>2. \A x : Checked(t, x) = Err("InvalidChecksum")
  BY <1>1, Zenon DEF Checked
<1>3. Err("InvalidChecksum").err = "InvalidChecksum"
  BY DEF Err
<1>4. /\ a.kind = "single" => SingleSize(Len(t))
      /\ a.kind = "dual" => DualSize(Len(t)) /\ ~SingleSize(Len(t))
  BY BytesSize
<1>5. a.kind \in {"single", "dual"}
  BY DEF Shaped, AddressRecs
<1>6. SingleSize(Len(t)) => SingleAddressFromBytes(t) = Err("InvalidChecksum")
  BY <1>2, Zenon DEF SingleAddressFromBytes
<1>7. DualSize(Len(t)) => DualAddressFromBytes(t) = Err("InvalidChecksum")
  BY <1>2, Zenon DEF DualAddressFromBytes
<1>8. FromBytes(t) = Err("InvalidChecksum")
  <2>1. CASE a.kind = "single"
    BY <1>4, <1>6, <2>1, Zenon DEF FromBytes
  <2>2. CASE a.kind = "dual"
    BY <1>4, <1>7, <2>2, Zenon DEF FromBytes
  <2> QED BY <1>5, <2>1, <2>2
<1> QED BY <1>3, <1>4, <1>6, <1>7, <1>8

-----------------------------------------------------------------------------
(* Emoji ids.                                                              *)

\* A byte is read back from its value.
LEMMA ValueBack == ASSUME NEW b \in Byte PROVE Value(b) \in 0..255 /\ ByteOf(Value(b)) = b
<1> DEFINE x(i) == IF i \in b THEN 1 ELSE 0
           n == Value(b)
<1>1. /\ weights[1] = 1 /\ weights[2] = 2 /\ weights[3] = 4 /\ weights[4] = 8
      /\ weights[5] = 16 /\ weights[6] = 32 /\ weights[7] = 64 /\ weights[8] = 128
  BY DEF weights
<1>2. /\ bit(b, 0) = x(0) /\ bit(b, 1) = 2 * x(1) /\ bit(b, 2) = 4 * x(2) /\ bit(b, 3) = 8 * x(3)
      /\ bit(b, 4) = 16 * x(4) /\ bit(b, 5) = 32 * x(5) /\ bit(b, 6) = 64 * x(6) /\ bit(b, 7) = 128 * x(7)
  BY <1>1 DEF bit
<1>3. n = x(0) + 2 * x(1) + 4 * x(2) + 8 * x(3) + 16 * x(4) + 32 * x(5) + 64 * x(6) + 128 * x(7)
  BY <1>2 DEF Value
<1>4. \A i : x(i) \in {0, 1} /\ (x(i) = 1 <=> i \in b)
  OBVIOUS
<1> DEFINE x0 == x(0)
           x1 == x(1)
           x2 == x(2)
           x3 == x(3)
           x4 == x(4)
           x5 == x(5)
           x6 == x(6)
           x7 == x(7)
<1>b. /\ x0 \in {0, 1} /\ x1 \in {0, 1} /\ x2 \in {0, 1} /\ x3 \in {0, 1}
      /\ x4 \in {0, 1} /\ x5 \in {0, 1} /\ x6 \in {0, 1} /\ x7 \in {0, 1}
  BY <1>4
<1>5. /\ (x0 = 1 <=> 0 \in b) /\ (x1 = 1 <=> 1 \in b) /\ (x2 = 1 <=> 2 \in b) /\ (x3 = 1 <=> 3 \in b)
      /\ (x4 = 1 <=> 4 \in b) /\ (x5 = 1 <=> 5 \in b) /\ (x6 = 1 <=> 6 \in b) /\ (x7 = 1 <=> 7 \in b)
  BY <1>4
<1>6. n = x0 + 2 * x1 + 4 * x2 + 8 * x3 + 16 * x4 + 32 * x5 + 64 * x6 + 128 * x7
  BY <1>3
<1> HIDE DEF n, x0, x1, x2, x3, x4, x5, x6, x7
<1>7. /\ n \in 0..255
      /\ (n \div 1) % 2 = x0 /\ (n \div 2) % 2 = x1 /\ (n \div 4) % 2 = x2
      /\ (n \div 8) % 2 = x3 /\ (n \div 16) % 2 = x4 /\ (n \div 32) % 2 = x5
      /\ (n \div 64) % 2 = x6 /\ (n \div 128) % 2 = x7
  <2>0. n \in 0..255
    BY <1>b, <1>6
  <2>1. (n \div 1) % 2 = x0
    BY <1>b, <1>6
  <2>2. (n \div 2) % 2 = x1
    BY <1>b, <1>6
  <2>3. (n \div 4) % 2 = x2
    BY <1>b, <1>6
  <2>4. (n \div 8) % 2 = x3
    BY <1>b, <1>6
  <2>5. (n \div 16) % 2 = x4
    BY <1>b, <1>6
  <2>6. (n \div 32) % 2 = x5
    BY <1>b, <1>6
  <2>7. (n \div 64) % 2 = x6
    BY <1>b, <1>6
  <2>8. (n \div 128) % 2 = x7
    BY <1>b, <1>6
  <2> QED BY <2>0, <2>1, <2>2, <2>3, <2>4, <2>5, <2>6, <2>7, <2>8
<1>8. ByteOf(n) \in Byte
  BY DEF ByteOf, Byte, Bits
<1>9. \A i \in 0..7 : i \in ByteOf(n) <=> (n \div weights[i + 1]) % 2 = 1
  BY DEF ByteOf, Bits
<1>10. /\ (0 \in ByteOf(n) <=> (n \div 1) % 2 = 1) /\ (1 \in ByteOf(n) <=> (n \div 2) % 2 = 1)
       /\ (2 \in ByteOf(n) <=> (n \div 4) % 2 = 1) /\ (3 \in ByteOf(n) <=> (n \div 8) % 2 = 1)
       /\ (4 \in ByteOf(n) <=> (n \div 16) % 2 = 1) /\ (5 \in ByteOf(n) <=> (n \div 32) % 2 = 1)
       /\ (6 \in ByteOf(n) <=> (n \div 64) % 2 = 1) /\ (7 \in ByteOf(n) <=> (n \div 128) % 2 = 1)
  <2> DEFINE B == ByteOf(n)
             d(w) == (n \div w) % 2
  <2>1. \A i \in 0..7 : i \in B <=> d(weights[i + 1]) = 1
    BY <1>9
  <2> HIDE DEF B, d
  <2>2. /\ (0 \in B <=> d(1) = 1) /\ (1 \in B <=> d(2) = 1) /\ (2 \in B <=> d(4) = 1) /\ (3 \in B <=> d(8) = 1)
        /\ (4 \in B <=> d(16) = 1) /\ (5 \in B <=> d(32) = 1) /\ (6 \in B <=> d(64) = 1) /\ (7 \in B <=> d(128) = 1)
    BY <1>1, <2>1
  <2> QED BY <2>2 DEF B, d
<1>11. ByteOf(n) = b
  BY <1>5, <1>7, <1>8, <1>10, ByteEqual
<1> QED BY <1>7, <1>11 DEF n

EmojiOf(d) == [i \in 1..Len(d) |-> Emoji(d[i])]

LEMMA EmojiBack ==
    ASSUME NEW b \in Byte
    PROVE  /\ Emoji(b) \in Nat /\ IsEmoji(Emoji(b)) /\ ReverseEmoji(Emoji(b)) = b
           /\ Emoji(b) # Space /\ Emoji(b) # Bar
<1>1. Value(b) \in 0..255 /\ ByteOf(Value(b)) = b
  BY ValueBack
<1>2. (128000 + Value(b)) - 128000 = Value(b) /\ 128000 + Value(b) \in 128000..128255
  BY <1>1
<1>3. /\ Emoji(b) \in Nat /\ IsEmoji(Emoji(b)) /\ Emoji(b) # Space /\ Emoji(b) # Bar
  BY <1>2 DEF Emoji, IsEmoji, Space, Bar
<1>4. ReverseEmoji(Emoji(b)) = b
  BY <1>1, <1>2 DEF Emoji, ReverseEmoji
<1> QED BY <1>3, <1>4

LEMMA EmojiText ==
    ASSUME NEW d \in Seq(Byte)
    PROVE  LET s == EmojiOf(d)
           IN  /\ s \in Seq(Nat) /\ Len(s) = Len(d)
               /\ \A i \in 1..Len(d) : s[i] = Emoji(d[i])
               /\ \A i \in 1..Len(s) : IsEmoji(s[i]) /\ s[i] # Space /\ s[i] # Bar
               /\ [i \in 1..Len(s) |-> ReverseEmoji(s[i])] = d
<1> DEFINE s == EmojiOf(d)
           n == Len(d)
<1>1. n \in Nat /\ \A i \in 1..n : d[i] \in Byte
  BY LenProperties, ElementOfSeq
<1>2. \A i \in 1..n : s[i] = Emoji(d[i])
  BY DEF EmojiOf
<1>3. \A i \in 1..n : Emoji(d[i]) \in Nat
  BY <1>1, EmojiBack
<1>4. s \in Seq(Nat) /\ Len(s) = n
  BY <1>1, <1>3 DEF EmojiOf
<1>5. \A i \in 1..n : IsEmoji(s[i]) /\ s[i] # Space /\ s[i] # Bar /\ ReverseEmoji(s[i]) = d[i]
  BY <1>1, <1>2, EmojiBack
<1> HIDE DEF s
<1> DEFINE r == [i \in 1..n |-> ReverseEmoji(s[i])]
<1>6. r = d
  <2>1. r = [i \in 1..n |-> d[i]]
    BY <1>5
  <2>2. d = [i \in 1..n |-> d[i]]
    OBVIOUS
  <2> QED BY <2>1, <2>2
<1> QED BY <1>2, <1>4, <1>5, <1>6 DEF s

\* An emoji id is read as the bytes it stands for.
LEMMA EmojiReads ==
    ASSUME NEW d \in Seq(Byte)
    PROVE  LET s == EmojiOf(d)
           IN  /\ SingleSize(Len(d)) \/ DualSize(Len(d)) => FromEmojiString(s) = FromBytes(d)
               /\ SingleSize(Len(d)) => SingleAddressFromEmojiString(s) = SingleAddressFromBytes(d)
               /\ DualSize(Len(d)) => DualAddressFromEmojiString(s) = DualAddressFromBytes(d)
<1> DEFINE s == EmojiOf(d)
<1>1. /\ Len(s) = Len(d) /\ ~(\E i \in 1..Len(s) : ~IsEmoji(s[i]))
      /\ [i \in 1..Len(s) |-> ReverseEmoji(s[i])] = d
  BY EmojiText
<1> HIDE DEF s
<1>2. SingleSize(Len(d)) \/ DualSize(Len(d)) => FromEmojiString(s) = FromBytes(d)
  BY <1>1, Zenon DEF FromEmojiString, FromEmojiWith
<1>3. SingleSize(Len(d)) => SingleAddressFromEmojiString(s) = SingleAddressFromBytes(d)
  BY <1>1, Zenon DEF SingleAddressFromEmojiString, FromEmojiWith
<1>4. DualSize(Len(d)) => DualAddressFromEmojiString(s) = DualAddressFromBytes(d)
  BY <1>1, Zenon DEF DualAddressFromEmojiString, FromEmojiWith
<1> QED BY <1>2, <1>3, <1>4 DEF s

\* A text whose only bar, if it has one, is at p.
LEMMA OneBar ==
    ASSUME NEW s \in Seq(Nat), NEW p \in Nat, 1 <= p, p <= Len(s) + 1,
           \A i \in 1..Len(s) : s[i] = Bar <=> i = p
    PROVE  WithoutBars(s) = [j \in 1..(IF p <= Len(s) THEN Len(s) - 1 ELSE Len(s)) |->
                               IF j < p THEN s[j] ELSE s[j + 1]]
<1> DEFINE l == Len(s)
           n == Cardinality(Bars(s))
           at(j) == IF j < p THEN s[j] ELSE s[j + 1]
           F(g) == [i \in 0..n |-> IF i = 0 THEN s ELSE Cut(g[i - 1], Min(Bars(g[i - 1])))]
           f == CHOOSE g : g = F(g)
<1>1. l \in Nat
  BY LenProperties
<1>2. WithoutBars(s) = f[n]
  BY DEF WithoutBars
<1> HIDE DEF f
<1>3. CASE p > l
  <2>1. Bars(s) = {}
    BY <1>1, <1>3 DEF Bars
  <2>2. n = 0
    BY <2>1, FS_EmptySet
  <2> HIDE DEF n
  <2>3. [i \in 0..0 |-> s] = F([i \in 0..0 |-> s])
    BY <2>2
  <2>4. f = F(f)
    <3> HIDE DEF F
    <3> QED BY <2>3, Zenon DEF f
  <2>5. f[0] = s
    BY <2>2, <2>4
  <2>6. s = [j \in 1..l |-> at(j)]
    <3>1. s = [j \in 1..l |-> s[j]]
      OBVIOUS
    <3>2. \A j \in 1..l : at(j) = s[j]
      BY <1>1, <1>3
    <3> HIDE DEF at
    <3> QED BY <3>1, <3>2
  <2>7. ~(p <= l)
    BY <1>1, <1>3
  <2> QED BY <1>2, <2>2, <2>5, <2>6, <2>7
<1>4. CASE p <= l
  <2>1. Bars(s) = {p}
    BY <1>1, <1>4 DEF Bars
  <2>2. n = 1
    BY <2>1, FS_Singleton
  <2> HIDE DEF n
  <2>3. Min(Bars(s)) = p
    <3>1. \E x \in {p} : \A y \in {p} : x =< y
      OBVIOUS
    <3>2. Min({p}) \in {p}
      BY <3>1, Zenon DEF Min
    <3> QED BY <2>1, <3>2
  <2> DEFINE k == [i \in 0..1 |-> IF i = 0 THEN s ELSE Cut(s, p)]
  <2>4. k = F(k)
    <3>1. k[0] = s
      OBVIOUS
    <3>2. ASSUME NEW i \in 0..1
          PROVE  (IF i = 0 THEN s ELSE Cut(s, p)) = (IF i = 0 THEN s ELSE Cut(k[i - 1], Min(Bars(k[i - 1]))))
      <4>1. CASE i = 0
        BY <4>1
      <4>2. CASE i # 0
        <5>1. i - 1 = 0
          BY <4>2
        <5> HIDE DEF k
        <5> QED BY <2>3, <3>1, <4>2, <5>1
      <4> QED BY <4>1, <4>2
    <3> QED BY <2>2, <3>2
  <2>5. f = F(f)
    <3> HIDE DEF F, k
    <3> QED BY <2>4, Zenon DEF f
  <2>6. f[0] = s
    BY <2>2, <2>5
  <2>7. f[1] = Cut(f[0], Min(Bars(f[0])))
    BY <2>2, <2>5
  <2>8. f[1] = Cut(s, p)
    BY <2>3, <2>6, <2>7
  <2>9. Cut(s, p) = [j \in 1..(l - 1) |-> at(j)]
    <3> DEFINE a == SubSeq(s, 1, p - 1)
               b == SubSeq(s, p + 1, l)
    <3>1. a \in Seq(Nat) /\ Len(a) = p - 1 /\ \A j \in 1..(p - 1) : a[j] = s[j]
      BY <1>1, <1>4, SubSeqProperties
    <3>2. b \in Seq(Nat) /\ Len(b) = l - p /\ \A j \in 1..(l - p) : b[j] = s[p + j]
      BY <1>1, <1>4, SubSeqProperties
    <3> HIDE DEF a, b
    <3>c. /\ a \o b \in Seq(Nat) /\ Len(a \o b) = Len(a) + Len(b)
          /\ \A j \in 1..(Len(a) + Len(b)) : (a \o b)[j] = IF j <= Len(a) THEN a[j] ELSE b[j - Len(a)]
      BY <3>1, <3>2, ConcatProperties, Zenon
    <3> DEFINE ab == a \o b
    <3> HIDE DEF ab
    <3>3. ab \in Seq(Nat) /\ Len(ab) = l - 1
      BY <1>1, <1>4, <3>1, <3>2, <3>c DEF ab
    <3>i. ASSUME NEW j \in 1..(l - 1) PROVE ab[j] = IF j <= p - 1 THEN a[j] ELSE b[j - (p - 1)]
      <4>1. j \in 1..(Len(a) + Len(b))
        BY <1>1, <1>4, <3>1, <3>2
      <4> QED BY <3>1, <3>c, <4>1 DEF ab
    <3>4. ASSUME NEW j \in 1..(l - 1) PROVE ab[j] = at(j)
      <4>1. CASE j < p
        <5>1. j <= p - 1 /\ j \in 1..(p - 1)
          BY <1>1, <4>1
        <5> QED BY <3>1, <3>i, <4>1, <5>1
      <4>2. CASE ~(j < p)
        <5>1. ~(j <= p - 1) /\ j - (p - 1) \in 1..(l - p) /\ p + (j - (p - 1)) = j + 1
          BY <1>1, <1>4, <4>2
        <5> QED BY <3>2, <3>i, <4>2, <5>1
      <4> QED BY <4>1, <4>2
    <3>5. ab = [j \in 1..(l - 1) |-> ab[j]]
      BY <3>3
    <3>6. Cut(s, p) = ab
      BY DEF Cut, a, b, ab
    <3> HIDE DEF at
    <3> QED BY <3>4, <3>5, <3>6
  <2> QED BY <1>2, <1>4, <2>2, <2>8, <2>9
<1> QED BY <1>1, <1>3, <1>4

\* Cutting the spaces off.
LEMMA Trimmed ==
    ASSUME NEW s \in Seq(Nat), NEW lo \in 1..Len(s), NEW hi \in 1..Len(s), s[lo] # Space, s[hi] # Space,
           \A i \in 1..Len(s) : s[i] # Space => lo <= i /\ i <= hi
    PROVE  Cleaned(s) = WithoutBars(SubSeq(s, lo, hi))
<1> DEFINE ink == {i \in 1..Len(s) : s[i] # Space}
<1>1. lo \in ink /\ hi \in ink /\ \A i \in ink : lo <= i /\ i <= hi
  OBVIOUS
<1>2. ink \subseteq Nat
  OBVIOUS
<1>3. Cleaned(s) = WithoutBars(IF ink = {} THEN <<>> ELSE SubSeq(s, Min(ink), Max(ink)))
  BY DEF Cleaned
<1> HIDE DEF ink
<1>4. Min(ink) = lo
  <2>1. \E x \in ink : \A y \in ink : x =< y
    BY <1>1
  <2>2. Min(ink) \in ink /\ \A y \in ink : Min(ink) =< y
    BY <2>1, Zenon DEF Min
  <2>3. lo <= Min(ink) /\ Min(ink) <= lo /\ lo \in Nat /\ Min(ink) \in Nat
    BY <1>1, <1>2, <2>2, Zenon
  <2> QED BY <2>3
<1>5. Max(ink) = hi
  <2>1. \E x \in ink : \A y \in ink : x >= y
    BY <1>1, <1>2
  <2>2. Max(ink) \in ink /\ \A y \in ink : Max(ink) >= y
    BY <2>1, Zenon DEF Max
  <2>3. Max(ink) <= hi /\ Max(ink) >= hi /\ hi \in Nat /\ Max(ink) \in Nat
    BY <1>1, <1>2, <2>2, Zenon
  <2> QED BY <2>3
<1>6. ink # {}
  BY <1>1
<1> QED BY <1>3, <1>4, <1>5, <1>6, Zenon
LEMMA CleanedPlain ==
    ASSUME NEW t \in Seq(Nat), Len(t) > 0, \A i \in 1..Len(t) : t[i] # Space /\ t[i] # Bar
    PROVE  Cleaned(t) = t
<1> DEFINE n == Len(t)
           lo == 1
<1>1. n \in Nat /\ t = [i \in 1..n |-> t[i]]
  BY LenProperties
<1>2. lo \in 1..n /\ n \in 1..n /\ \A i \in 1..n : lo <= i /\ i <= n
  BY <1>1
<1> HIDE DEF lo
<1>3. Cleaned(t) = WithoutBars(SubSeq(t, lo, n))
  BY <1>2, Trimmed
<1>4. SubSeq(t, lo, n) = t
  BY <1>1 DEF lo
<1> DEFINE p == n + 1
<1>5. p \in Nat /\ 1 <= p /\ p <= n + 1 /\ ~(p <= n) /\ \A i \in 1..n : i # p /\ i < p
  BY <1>1
<1> HIDE DEF p
<1>6. \A i \in 1..n : t[i] = Bar <=> i = p
  BY <1>5
<1>7. WithoutBars(t) = [j \in 1..(IF p <= n THEN n - 1 ELSE n) |-> IF j < p THEN t[j] ELSE t[j + 1]]
  BY <1>5, <1>6, OneBar, Zenon
<1>8. WithoutBars(t) = [j \in 1..n |-> t[j]]
  <2> HIDE DEF n
  <2> QED BY <1>5, <1>7
<1> QED BY <1>1, <1>3, <1>4, <1>8, Zenon

Separated(t) == <<Space>> \o SubSeq(t, 1, 3) \o <<Bar>> \o SubSeq(t, 4, Len(t)) \o <<Space>>

LEMMA SeparatedText ==
    ASSUME NEW t \in Seq(Nat), Len(t) > 3
    PROVE  LET z == Separated(t)
               n == Len(t)
           IN  /\ z \in Seq(Nat) /\ Len(z) = n + 3
               /\ z[1] = Space /\ z[5] = Bar /\ z[n + 3] = Space
               /\ \A i \in 1..3 : z[i + 1] = t[i]
               /\ \A i \in 4..n : z[i + 2] = t[i]
<1> DEFINE n == Len(t)
           A == <<Space>>
           B == SubSeq(t, 1, 3)
           C == <<Bar>>
           D == SubSeq(t, 4, n)
           w == A \o B
           x == w \o C
           y == x \o D
           z == y \o A
<1>1. n \in Nat /\ n > 3 /\ \A i \in 1..n : t[i] \in Nat
  BY LenProperties, ElementOfSeq
<1>2. B \in Seq(Nat) /\ Len(B) = 3 /\ \A i \in 1..3 : B[i] = t[i]
  BY <1>1
<1>3. D \in Seq(Nat) /\ Len(D) = n - 3 /\ \A i \in 1..(n - 3) : D[i] = t[i + 3]
  BY <1>1
<1>4. A \in Seq(Nat) /\ Len(A) = 1 /\ A[1] = Space /\ C \in Seq(Nat) /\ Len(C) = 1 /\ C[1] = Bar
  BY DEF Space, Bar
<1>z. Separated(t) = z
  BY Zenon DEF Separated
<1> HIDE DEF A, B, C, D, n
<1>k. 0 \in Nat /\ 1 \in Nat /\ 4 \in Nat /\ 5 \in Nat
  OBVIOUS
<1>5. Stands(A, 0, A)
  BY <1>4 DEF Stands
<1>6. w \in Seq(Nat) /\ Len(w) = Len(A) + Len(B) /\ Stands(w, Len(A), B)
  BY <1>2, <1>4, Appended, Zenon
<1>7. Stands(w, 0, A)
  BY <1>2, <1>4, <1>5, <1>k, Kept, Zenon
<1> HIDE DEF w
<1>8. Len(w) = 4 /\ Stands(w, 1, B)
  BY <1>2, <1>4, <1>6
<1>9. x \in Seq(Nat) /\ Len(x) = Len(w) + Len(C) /\ Stands(x, Len(w), C)
  BY <1>4, <1>6, Appended, Zenon
<1>10. Stands(x, 0, A) /\ Stands(x, 1, B)
  BY <1>2, <1>4, <1>6, <1>7, <1>8, <1>k, Kept, Zenon
<1> HIDE DEF x
<1>11. Len(x) = 5 /\ Stands(x, 4, C)
  BY <1>4, <1>8, <1>9
<1>12. y \in Seq(Nat) /\ Len(y) = Len(x) + Len(D) /\ Stands(y, Len(x), D)
  BY <1>3, <1>9, Appended, Zenon
<1>13. Stands(y, 0, A) /\ Stands(y, 1, B) /\ Stands(y, 4, C)
  BY <1>2, <1>3, <1>4, <1>9, <1>10, <1>11, <1>k, Kept, Zenon
<1> HIDE DEF y
<1>14. Len(y) = n + 2 /\ Stands(y, 5, D)
  BY <1>1, <1>3, <1>11, <1>12
<1>15. z \in Seq(Nat) /\ Len(z) = Len(y) + Len(A) /\ Stands(z, Len(y), A)
  BY <1>4, <1>12, Appended, Zenon
<1>16. Stands(z, 0, A) /\ Stands(z, 1, B) /\ Stands(z, 4, C) /\ Stands(z, 5, D)
  BY <1>2, <1>3, <1>4, <1>12, <1>13, <1>14, <1>k, Kept, Zenon
<1> HIDE DEF z
<1>17. Len(z) = n + 3 /\ Stands(z, n + 2, A)
  BY <1>1, <1>4, <1>14, <1>15
<1>18. z[1] = Space /\ z[5] = Bar /\ \A i \in 1..3 : z[i + 1] = t[i]
  <2>1. z[0 + 1] = A[1]
    BY <1>4, <1>16 DEF Stands
  <2>2. z[4 + 1] = C[1]
    BY <1>4, <1>16 DEF Stands
  <2>3. ASSUME NEW i \in 1..3 PROVE z[i + 1] = t[i]
    <3>1. Stands(z, 1, B) /\ i \in 1..Len(B)
      BY <1>2, <1>16
    <3>2. z[1 + i] = B[i]
      BY <3>1 DEF Stands
    <3>3. 1 + i = i + 1 /\ B[i] = t[i]
      BY <1>2
    <3> QED BY <3>2, <3>3
  <2> QED BY <1>4, <2>1, <2>2, <2>3
<1>19. z[n + 3] = Space
  <2>1. z[(n + 2) + 1] = Space /\ (n + 2) + 1 = n + 3
    BY <1>1, <1>4, <1>17 DEF Stands
  <2> QED BY <2>1
<1>20. ASSUME NEW i \in 4..n PROVE z[i + 2] = t[i]
  <2>1. i - 3 \in 1..(n - 3) /\ 5 + (i - 3) = i + 2 /\ (i - 3) + 3 = i
    BY <1>1
  <2>2. z[5 + (i - 3)] = D[i - 3]
    BY <1>3, <1>16, <2>1 DEF Stands
  <2> QED BY <1>3, <2>1, <2>2
<1> QED BY <1>15, <1>17, <1>18, <1>19, <1>20, <1>z DEF n

\* How a person separates and pads an emoji id is undone.
LEMMA CleanedSeparated ==
    ASSUME NEW t \in Seq(Nat), Len(t) > 3, \A i \in 1..Len(t) : t[i] # Space /\ t[i] # Bar
    PROVE  Cleaned(Separated(t)) = t
<1> DEFINE z == Separated(t)
           n == Len(t)
           lo == 2
           hi == n + 2
           u == SubSeq(z, lo, hi)
           p == 4
<1>1. n \in Nat /\ n > 3 /\ t = [i \in 1..n |-> t[i]] /\ \A i \in 1..n : t[i] # Space /\ t[i] # Bar
  BY LenProperties
<1>2. /\ z \in Seq(Nat) /\ Len(z) = n + 3
      /\ z[1] = Space /\ z[5] = Bar /\ z[n + 3] = Space
      /\ \A i \in 1..3 : z[i + 1] = t[i]
      /\ \A i \in 4..n : z[i + 2] = t[i]
  BY SeparatedText
<1> DEFINE l == Len(z)
<1>l. l = n + 3
  BY <1>2
<1> HIDE DEF z, n, l
<1>3. ASSUME NEW i \in 2..(n + 2) PROVE z[i] # Space /\ (z[i] = Bar <=> i = 5)
  <2>1. CASE i < 5
    <3>1. i - 1 \in 1..3 /\ i - 1 \in 1..n /\ (i - 1) + 1 = i
      BY <1>1, <2>1, SMTT(60)
    <3>2. z[i] = t[i - 1]
      BY <1>2, <3>1
    <3> QED BY <1>1, <2>1, <3>1, <3>2
  <2>2. CASE i = 5
    BY <1>2, <2>2 DEF Space, Bar
  <2>3. CASE i > 5
    <3>1. i - 2 \in 4..n /\ i - 2 \in 1..n /\ (i - 2) + 2 = i
      BY <1>1, <2>3, SMTT(60)
    <3>2. z[i] = t[i - 2]
      BY <1>2, <3>1
    <3> QED BY <1>1, <2>3, <3>1, <3>2
  <2> QED BY <2>1, <2>2, <2>3
<1>4. Cleaned(z) = WithoutBars(u)
  <2>1. lo \in 1..l /\ hi \in 1..l /\ lo \in 2..(n + 2) /\ hi \in 2..(n + 2)
    BY <1>1, <1>l
  <2>2. ASSUME NEW i \in 1..l, z[i] # Space PROVE lo <= i /\ i <= hi
    <3>1. i # 1 /\ i # n + 3
      BY <1>2, <2>2
    <3> QED BY <1>1, <1>l, <3>1
  <2>3. z[lo] # Space /\ z[hi] # Space
    BY <1>3, <2>1
  <2> HIDE DEF lo, hi
  <2> QED BY <1>2, <2>1, <2>2, <2>3, Trimmed, Zenon DEF l
<1>5. /\ u \in Seq(Nat) /\ Len(u) = n + 1 /\ \A i \in 1..(n + 1) : u[i] = z[i + 1]
  <2>1. \A i \in 2..(n + 2) : z[i] \in Nat
    <3> SUFFICES ASSUME NEW i \in 2..(n + 2) PROVE z[i] \in Nat
      OBVIOUS
    <3>1. i \in 1..l
      BY <1>1, <1>l
    <3> QED BY <1>2, <3>1, ElementOfSeq DEF l
  <2>2. u \in Seq(Nat)
    BY <1>1, <2>1
  <2>3. Len(u) = n + 1
    BY <1>1, <2>1
  <2>4. ASSUME NEW i \in 1..(n + 1) PROVE u[i] = z[i + 1]
    BY <1>1, <2>1
  <2> QED BY <2>2, <2>3, <2>4
<1> HIDE DEF u
<1>6. p \in Nat /\ 1 <= p /\ p <= Len(u) + 1 /\ p <= Len(u) /\ Len(u) - 1 = n
  BY <1>1, <1>5
<1>7. \A i \in 1..Len(u) : u[i] = Bar <=> i = p
  <2> SUFFICES ASSUME NEW i \in 1..(n + 1) PROVE u[i] = Bar <=> i = 4
    BY <1>5
  <2>1. i + 1 \in 2..(n + 2) /\ (i + 1 = 5 <=> i = 4)
    BY <1>1, SMTT(60)
  <2> QED BY <1>3, <1>5, <2>1
<1>8. WithoutBars(u) = [j \in 1..(IF p <= Len(u) THEN Len(u) - 1 ELSE Len(u)) |->
                          IF j < p THEN u[j] ELSE u[j + 1]]
  <2> HIDE DEF p
  <2> QED BY <1>5, <1>6, <1>7, OneBar, Zenon
<1>9. WithoutBars(u) = [j \in 1..n |-> IF j < 4 THEN u[j] ELSE u[j + 1]]
  <2> HIDE DEF u
  <2> QED BY <1>6, <1>8
<1>10. ASSUME NEW j \in 1..n PROVE (IF j < 4 THEN u[j] ELSE u[j + 1]) = t[j]
  <2>1. CASE j < 4
    <3>1. j \in 1..3 /\ j \in 1..(n + 1)
      BY <1>1, <2>1
    <3> QED BY <1>2, <1>5, <2>1, <3>1
  <2>2. CASE ~(j < 4)
    <3>1. j \in 4..n /\ j + 1 \in 1..(n + 1) /\ (j + 1) + 1 = j + 2
      BY <1>1, <2>2
    <3> QED BY <1>2, <1>5, <2>2, <3>1, ZenonT(60)
  <2> QED BY <2>1, <2>2
<1>11. WithoutBars(u) = [j \in 1..n |-> t[j]]
  BY <1>9, <1>10
<1> QED BY <1>1, <1>4, <1>11 DEF z

\* No letter of an ASCII text is taken for an emoji.
LEMMA EmojiHigh == ASSUME NEW c \in 0..200 PROVE ~IsEmoji(c)
<1>1. c <= 200
  BY SMTT(60)
<1>2. ASSUME IsEmoji(c) PROVE c >= 128000
  BY <1>2, SMTT(60) DEF IsEmoji
<1> QED BY <1>1, <1>2, SMTT(60)

-----------------------------------------------------------------------------
(* Numbers.                                                                *)

Bases == {58, 256}
Digits(d) == Seq(0..(d - 1))

\* The digits s in base d stand for the number m: N are the numbers that its
\* beginnings stand for.
Reading(N, s, d) ==
    /\ N \in [0..Len(s) -> Nat] /\ N[0] = 0
    /\ \A i \in 1..Len(s) : N[i] = N[i - 1] * d + s[i]
Number(s, d, m) == \E N : Reading(N, s, d) /\ N[Len(s)] = m

\* No zero in front.
Plain(s) == s # <<>> => s[1] # 0

LEMMA DigitsOf ==
    ASSUME NEW d \in Bases, NEW s \in Digits(d)
    PROVE  s \in Seq(Nat) /\ Len(s) \in Nat /\ \A i \in 1..Len(s) : s[i] \in 0..(d - 1) /\ s[i] \in Nat
<1>1. 0..(d - 1) \subseteq Nat
  BY DEF Bases
<1>2. s \in Seq(0..(d - 1))
  BY DEF Digits
<1> DEFINE S == 0..(d - 1)
<1> HIDE DEF S
<1>3. s \in Seq(S) /\ S \subseteq Nat
  BY <1>1, <1>2 DEF S
<1>4. Len(s) \in Nat /\ (\A i \in 1..Len(s) : s[i] \in S) /\ s = [i \in 1..Len(s) |-> s[i]]
  BY <1>3, ElementOfSeq, LenProperties, Zenon
<1>5. s \in Seq(Nat)
  BY <1>3, <1>4
<1> QED BY <1>3, <1>4, <1>5 DEF S

\* Every string of digits stands for a number, and for one only.
LEMMA NumberExists == ASSUME NEW d \in Bases, NEW s \in Digits(d) PROVE \E m \in Nat : Number(s, d, m)
<1> DEFINE n == Len(s)
           step == [i \in 1..n |-> [r \in Nat |-> r * d + s[i]]]
<1>1. n \in Nat /\ d \in Nat /\ \A i \in 1..n : s[i] \in Nat
  BY DigitsOf DEF Bases
<1> HIDE DEF n
<1>2. ASSUME NEW i \in 1..n, NEW r \in Nat PROVE step[i][r] = r * d + s[i] /\ step[i][r] \in Nat
  <2>1. r * d + s[i] \in Nat
    BY <1>1
  <2> QED BY <2>1
<1> HIDE DEF step
<1>3. PICK c : Run(c, n, Nat, step, 0)
  <2>1. 0 \in Nat /\ \A i \in 1..n : \A r \in Nat : step[i][r] \in Nat
    BY <1>2
  <2> QED BY <1>1, <2>1, RunExists, Zenon
<1>4. ASSUME NEW i \in 1..n PROVE c[i] = c[i - 1] * d + s[i]
  <2>1. i - 1 \in 0..n
    BY <1>1
  <2>2. c[i - 1] \in Nat /\ c[i] = step[i][c[i - 1]]
    BY <1>3, <2>1 DEF Run
  <2> QED BY <1>2, <2>2
<1>5. Reading(c, s, d)
  BY <1>3, <1>4 DEF Reading, Run, n
<1>6. c[n] \in Nat
  <2>1. n \in 0..n
    BY <1>1
  <2> QED BY <1>3, <2>1 DEF Run
<1> QED BY <1>5, <1>6 DEF Number, n

LEMMA NumberUnique ==
    ASSUME NEW d, NEW s \in Seq(Nat), NEW m, NEW k, Number(s, d, m), Number(s, d, k)
    PROVE  m = k
<1> DEFINE n == Len(s)
<1>1. PICK M : Reading(M, s, d) /\ M[n] = m
  BY DEF Number
<1>2. PICK K : Reading(K, s, d) /\ K[n] = k
  BY DEF Number
<1>3. n \in Nat
  BY LenProperties
<1>4. /\ M[0] = 0 /\ \A i \in 1..n : M[i] = M[i - 1] * d + s[i]
      /\ K[0] = 0 /\ \A i \in 1..n : K[i] = K[i - 1] * d + s[i]
  BY <1>1, <1>2 DEF Reading
<1> HIDE DEF n
<1> DEFINE T == {j \in 0..n : M[j] # K[j]}
<1>5. ASSUME T # {} PROVE FALSE
  <2>1. PICK j \in T : \A y \in T : j <= y
    <3>1. T \subseteq Nat
      OBVIOUS
    <3> HIDE DEF T
    <3> QED BY <1>5, <3>1, LeastNat, Zenon
  <2>2. j \in 0..n /\ M[j] # K[j]
    OBVIOUS
  <2>3. j # 0
    BY <1>4, <2>2
  <2>4. j \in 1..n /\ j - 1 \in 0..n /\ j - 1 \notin T
    BY <1>3, <2>1, <2>2, <2>3
  <2>5. M[j - 1] = K[j - 1]
    BY <2>4
  <2>6. M[j] = M[j - 1] * d + s[j] /\ K[j] = K[j - 1] * d + s[j]
    BY <1>4, <2>4
  <2> QED BY <2>2, <2>5, <2>6, Zenon
<1>6. T = {} /\ n \in 0..n
  BY <1>3, <1>5
<1>7. M[n] = K[n]
  BY <1>6
<1> QED BY <1>1, <1>2, <1>7

\* The zeros in front, and what is left without them.
IsZeros(v, z) ==
    /\ z \in 0..Len(v) /\ \A i \in 1..z : v[i] = 0
    /\ z < Len(v) => v[z + 1] # 0

LEMMA ZerosCount ==
    ASSUME NEW v \in Seq(Nat)
    PROVE  IsZeros(v, Zeros(v)) /\ \A z : IsZeros(v, z) => Zeros(v) = z
<1> DEFINE n == Len(v)
           T == {z \in 0..n : z = n \/ v[z + 1] # 0}
<1>1. n \in Nat
  BY LenProperties
<1>2. T \subseteq Nat /\ T # {}
  <2>1. n \in T
    BY <1>1
  <2> QED BY <1>1, <2>1
<1>3. PICK z \in T : \A y \in T : z <= y
  <2> HIDE DEF T
  <2> QED BY <1>2, LeastNat, Zenon
<1>4. IsZeros(v, z)
  <2>1. z \in 0..n /\ (z < n => v[z + 1] # 0)
    BY <1>1
  <2>2. ASSUME NEW i \in 1..z PROVE v[i] = 0
    <3>1. i - 1 \in 0..n /\ i - 1 < z /\ (i - 1) + 1 = i /\ i - 1 # n
      BY <1>1, <2>1
    <3>2. i - 1 \notin T
      <4> HIDE DEF T
      <4> QED BY <1>1, <1>3, <2>1, <3>1
    <3> QED BY <3>1, <3>2
  <2> QED BY <2>1, <2>2 DEF IsZeros
<1>5. ASSUME NEW x, NEW y, IsZeros(v, x), IsZeros(v, y), x < y PROVE FALSE
  <2>1. x \in 0..n /\ y \in 0..n
    BY <1>5 DEF IsZeros
  <2>2. x < n /\ x + 1 \in 1..y
    BY <1>1, <1>5, <2>1
  <2> QED BY <1>5, <2>2 DEF IsZeros
<1>6. ASSUME NEW x, NEW y, IsZeros(v, x), IsZeros(v, y) PROVE x = y
  <2>1. x \in Int /\ y \in Int
    BY <1>1, <1>6 DEF IsZeros
  <2>2. ~(x < y) /\ ~(y < x)
    BY <1>5, <1>6
  <2> QED BY <2>1, <2>2
<1>7. Zeros(v) = CHOOSE x \in 0..n : IsZeros(v, x)
  <2>1. \A x \in 0..n : IsZeros(v, x) <=> /\ \A i \in 1..x : v[i] = 0
                                          /\ x < n => v[x + 1] # 0
    BY DEF IsZeros
  <2> QED BY <2>1 DEF Zeros
<1>8. z \in 0..n
  BY <1>4 DEF IsZeros
<1>9. IsZeros(v, Zeros(v))
  BY <1>4, <1>7, <1>8, Zenon
<1> QED BY <1>6, <1>9, Zenon

\* Stripped takes away the zeros in front, which say nothing of the number.
LEMMA StrippedText ==
    ASSUME NEW d \in Bases, NEW v \in Digits(d)
    PROVE  LET z == Zeros(v)
               n == Len(v)
               u == Stripped(v)
           IN  /\ z \in 0..n /\ n \in Nat /\ u \in Digits(d) /\ Len(u) = n - z
               /\ \A i \in 1..(n - z) : u[i] = v[z + i]
               /\ Plain(u) /\ (\A i \in 1..z : v[i] = 0)
<1> DEFINE z == Zeros(v)
           n == Len(v)
           u == Stripped(v)
           S == 0..(d - 1)
<1>1. v \in Seq(Nat) /\ n \in Nat /\ v \in Seq(S) /\ \A i \in 1..n : v[i] \in S
  BY DigitsOf DEF Digits
<1>2. z \in 0..n /\ (\A i \in 1..z : v[i] = 0) /\ (z < n => v[z + 1] # 0)
  BY <1>1, ZerosCount DEF IsZeros
<1>3. u = SubSeq(v, z + 1, n)
  BY DEF Stripped
<1> HIDE DEF z, n, S
<1>4. \A i \in (z + 1)..n : v[i] \in S
  BY <1>1, <1>2
<1> DEFINE w == SubSeq(v, z + 1, n)
<1>5. w \in Seq(S)
  BY <1>1, <1>2, <1>4
<1>6. Len(w) = n - z
  BY <1>1, <1>2, <1>4
<1>7. ASSUME NEW i \in 1..(n - z) PROVE w[i] = v[z + i]
  BY <1>1, <1>2, <1>4
<1> HIDE DEF w
<1>8. Plain(w)
  <2> SUFFICES ASSUME w # <<>> PROVE w[1] # 0
    BY DEF Plain
  <2>1. n - z # 0
    BY <1>5, <1>6
  <2>2. 1 \in 1..(n - z) /\ z < n
    BY <1>1, <1>2, <2>1
  <2> QED BY <1>2, <1>7, <2>2
<1>9. u = w
  BY <1>3 DEF w
<1> HIDE DEF u
<1>10. u \in Digits(d) /\ Len(u) = n - z /\ Plain(u) /\ \A i \in 1..(n - z) : u[i] = v[z + i]
  BY <1>5, <1>6, <1>7, <1>8, <1>9 DEF Digits, S
<1> QED BY <1>1, <1>2, <1>10 DEF z, n, u

LEMMA NumberStripped ==
    ASSUME NEW d \in Bases, NEW v \in Digits(d), NEW m, Number(v, d, m)
    PROVE  Number(Stripped(v), d, m)
<1> DEFINE z == Zeros(v)
           n == Len(v)
           u == Stripped(v)
           l == Len(u)
<1>1. /\ z \in 0..n /\ n \in Nat /\ l = n - z
      /\ \A i \in 1..(n - z) : u[i] = v[z + i]
      /\ \A i \in 1..z : v[i] = 0
  BY StrippedText
<1>2. PICK N : Reading(N, v, d) /\ N[n] = m
  BY DEF Number
<1>3. N \in [0..n -> Nat] /\ N[0] = 0 /\ \A i \in 1..n : N[i] = N[i - 1] * d + v[i]
  BY <1>2 DEF Reading
<1> HIDE DEF z, n, u, l
<1> DEFINE T == {i \in 0..z : N[i] # 0}
<1>4. ASSUME T # {} PROVE FALSE
  <2>1. PICK j \in T : \A y \in T : j <= y
    <3>1. T \subseteq Nat
      BY <1>1
    <3> HIDE DEF T
    <3> QED BY <1>4, <3>1, LeastNat, Zenon
  <2>2. j \in 0..z /\ N[j] # 0
    OBVIOUS
  <2>3. j # 0
    BY <1>3, <2>2
  <2>4. j \in 1..z /\ j \in 1..n /\ j - 1 \in 0..z /\ j - 1 \notin T
    BY <1>1, <2>1, <2>2, <2>3
  <2>5. N[j - 1] = 0 /\ v[j] = 0 /\ N[j] = N[j - 1] * d + v[j]
    BY <1>1, <1>3, <2>4
  <2>6. 0 * d + 0 = 0
    BY DEF Bases
  <2> QED BY <2>2, <2>5, <2>6
<1>5. N[z] = 0
  <2>1. T = {} /\ z \in 0..z
    BY <1>1, <1>4
  <2> QED BY <2>1
<1> DEFINE M == [i \in 0..l |-> N[z + i]]
<1>6. ASSUME NEW i \in 0..l PROVE z + i \in 0..n
  BY <1>1
<1>7. M \in [0..l -> Nat] /\ M[0] = 0 /\ M[l] = m
  <2>1. 0 \in 0..l /\ z + 0 = z /\ l \in 0..l /\ z + l = n
    BY <1>1
  <2> QED BY <1>2, <1>3, <1>5, <1>6, <2>1
<1>8. ASSUME NEW i \in 1..l PROVE M[i] = M[i - 1] * d + u[i]
  <2>1. i - 1 \in 0..l /\ i \in 0..l /\ z + i \in 1..n /\ (z + i) - 1 = z + (i - 1) /\ i \in 1..(n - z)
    BY <1>1
  <2>2. N[z + i] = N[(z + i) - 1] * d + v[z + i]
    BY <1>3, <2>1
  <2>3. M[i] = N[z + i] /\ M[i - 1] = N[z + (i - 1)] /\ u[i] = v[z + i]
    BY <1>1, <2>1
  <2> QED BY <2>1, <2>2, <2>3, Zenon
<1> HIDE DEF M
<1>9. Reading(M, u, d) /\ M[Len(u)] = m
  BY <1>7, <1>8 DEF Reading, l
<1> QED BY <1>9 DEF Number, u

\* Two plain texts of one number are the same text: from the last digit to the
\* first, the remainders by the base.
LEMMA PlainUnique ==
    ASSUME NEW d \in Bases, NEW u \in Digits(d), NEW v \in Digits(d), Plain(u), Plain(v), NEW m,
           Number(u, d, m), Number(v, d, m)
    PROVE  Len(u) <= Len(v) => u = v
<1> DEFINE k == Len(u)
           n == Len(v)
<1>1. PICK K : Reading(K, u, d) /\ K[k] = m
  BY DEF Number
<1>2. PICK N : Reading(N, v, d) /\ N[n] = m
  BY DEF Number
<1>3. /\ k \in Nat /\ \A i \in 1..k : u[i] \in 0..(d - 1)
      /\ n \in Nat /\ \A i \in 1..n : v[i] \in 0..(d - 1)
      /\ u \in Seq(Nat) /\ v \in Seq(Nat)
  BY DigitsOf
<1>4. /\ K[0] = 0 /\ \A i \in 1..k : K[i] = K[i - 1] * d + u[i]
      /\ N[0] = 0 /\ \A i \in 1..n : N[i] = N[i - 1] * d + v[i]
      /\ \A i \in 0..k : K[i] \in Nat
      /\ \A i \in 0..n : N[i] \in Nat
  BY <1>1, <1>2 DEF Reading
<1> SUFFICES ASSUME k <= n PROVE u = v
  BY DEF k, n
<1>p. n # 0 => v[1] # 0
  BY <1>3 DEF Plain
<1> HIDE DEF k, n
<1> DEFINE T == {j \in 0..k : K[k - j] # N[n - j]}
<1>q. ASSUME NEW x \in Nat, NEW y \in Nat, NEW e \in 0..(d - 1), NEW h \in 0..(d - 1), x * d + e = y * d + h
      PROVE  x = y /\ e = h
  <2>1. CASE d = 58
    BY <1>q, <2>1
  <2>2. CASE d = 256
    BY <1>q, <2>2
  <2> QED BY <2>1, <2>2 DEF Bases
<1>s. ASSUME NEW j \in 0..k, j < k, K[k - j] = N[n - j]
      PROVE  K[k - (j + 1)] = N[n - (j + 1)] /\ u[k - j] = v[n - j]
  <2>1. /\ k - j \in 1..k /\ n - j \in 1..n /\ (k - j) - 1 = k - (j + 1) /\ (n - j) - 1 = n - (j + 1)
        /\ k - (j + 1) \in 0..k /\ n - (j + 1) \in 0..n
    BY <1>3, <1>s
  <2>2. /\ K[k - j] = K[k - (j + 1)] * d + u[k - j]
        /\ N[n - j] = N[n - (j + 1)] * d + v[n - j]
    <3>1. K[k - j] = K[(k - j) - 1] * d + u[k - j] /\ N[n - j] = N[(n - j) - 1] * d + v[n - j]
      BY <1>4, <2>1
    <3> QED BY <2>1, <3>1, Zenon
  <2>3. /\ K[k - (j + 1)] \in Nat /\ N[n - (j + 1)] \in Nat
        /\ u[k - j] \in 0..(d - 1) /\ v[n - j] \in 0..(d - 1)
    BY <1>3, <1>4, <2>1
  <2> DEFINE x == K[k - (j + 1)]
             y == N[n - (j + 1)]
             e == u[k - j]
             h == v[n - j]
  <2>4. x \in Nat /\ y \in Nat /\ e \in 0..(d - 1) /\ h \in 0..(d - 1) /\ x * d + e = y * d + h
    BY <1>s, <2>2, <2>3, Zenon
  <2> HIDE DEF x, y, e, h
  <2>5. x = y /\ e = h
    BY <1>q, <2>4
  <2> QED BY <2>5 DEF x, y, e, h
<1>5. ASSUME T # {} PROVE FALSE
  <2>1. PICK j \in T : \A y \in T : j <= y
    <3>1. T \subseteq Nat
      BY <1>3
    <3> HIDE DEF T
    <3> QED BY <1>5, <3>1, LeastNat, Zenon
  <2>2. j \in 0..k /\ K[k - j] # N[n - j]
    OBVIOUS
  <2>3. j # 0
    <3>1. k - 0 = k /\ n - 0 = n
      BY <1>3
    <3> QED BY <1>1, <1>2, <2>2, <3>1
  <2>4. j - 1 \in 0..k /\ j - 1 < k /\ j - 1 \notin T /\ (j - 1) + 1 = j
    <3> HIDE DEF T
    <3> QED BY <1>3, <2>1, <2>2, <2>3
  <2>5. K[k - (j - 1)] = N[n - (j - 1)]
    BY <2>4
  <2>6. K[k - ((j - 1) + 1)] = N[n - ((j - 1) + 1)]
    BY <1>s, <2>4, <2>5
  <2> QED BY <2>2, <2>4, <2>6
<1>6. ASSUME NEW j \in 0..k PROVE K[k - j] = N[n - j]
  <2>1. T = {}
    BY <1>5
  <2> QED BY <2>1
\* A plain text that is longer still has something in front.
<1>7. n = k
  <2> DEFINE U == {j \in 1..n : N[j] = 0}
  <2>1. ASSUME U # {} PROVE FALSE
    <3>1. PICK j \in U : \A y \in U : j <= y
      <4>1. U \subseteq Nat
        BY <1>3
      <4> HIDE DEF U
      <4> QED BY <2>1, <4>1, LeastNat, Zenon
    <3>2. j \in 1..n /\ N[j] = 0 /\ j \in 0..n /\ j - 1 \in 0..n
      BY <1>3
    <3>3. N[j] = N[j - 1] * d + v[j] /\ N[j - 1] \in Nat /\ v[j] \in 0..(d - 1)
      BY <1>3, <1>4, <3>2
    <3>4. N[j - 1] = 0 /\ v[j] = 0
      <4>1. 0 \in Nat /\ 0 \in 0..(d - 1) /\ 0 * d + 0 = 0
        BY DEF Bases
      <4>2. N[j - 1] * d + v[j] = 0 * d + 0
        BY <3>2, <3>3, <4>1
      <4> QED BY <1>q, <3>3, <4>1, <4>2
    <3>5. j # 1
      BY <1>3, <1>p, <3>2, <3>4
    <3>6. j - 1 \in 1..n /\ j - 1 < j
      BY <1>3, <3>2, <3>5
    <3>7. j - 1 \in U
      BY <3>4, <3>6
    <3> QED BY <1>3, <3>1, <3>2, <3>6, <3>7
  <2>2. U = {}
    BY <2>1
  <2>3. k \in 0..k /\ k - k = 0 /\ (n # k => n - k \in 1..n)
    BY <1>3
  <2>4. N[n - k] = 0
    BY <1>4, <1>6, <2>3
  <2> QED BY <2>2, <2>3, <2>4
<1>8. ASSUME NEW i \in 1..k PROVE u[i] = v[i]
  <2>1. k - i \in 0..k /\ k - i < k /\ k - (k - i) = i
    BY <1>3
  <2>2. u[k - (k - i)] = v[n - (k - i)]
    BY <1>6, <1>s, <2>1
  <2> QED BY <1>7, <2>1, <2>2
<1> QED BY <1>3, <1>7, <1>8, SeqEqual DEF k, n

\* From bytes to base58 and back.
Rebased(b, d) == (b = 256 /\ d = 58) \/ (b = 58 /\ d = 256)

LEMMA RebasedBases ==
    ASSUME NEW b, NEW d, Rebased(b, d)
    PROVE  b \in Bases /\ d \in Bases /\ b \in Nat /\ d \in Nat /\ Rebased(d, b)
BY DEF Rebased, Bases

LEMMA DivMod ==
    ASSUME NEW t \in Nat
    PROVE  /\ t \div 58 \in Nat /\ t % 58 \in 0..57 /\ t = 58 * (t \div 58) + (t % 58)
           /\ t \div 256 \in Nat /\ t % 256 \in 0..255 /\ t = 256 * (t \div 256) + (t % 256)
<1>1. t \div 58 \in Nat /\ t % 58 \in 0..57
  OBVIOUS
<1>2. t = 58 * (t \div 58) + (t % 58)
  OBVIOUS
<1>3. t \div 256 \in Nat /\ t % 256 \in 0..255
  OBVIOUS
<1>4. t = 256 * (t \div 256) + (t % 256)
  OBVIOUS
<1> QED BY <1>1, <1>2, <1>3, <1>4

\* One digit: the carry stays below b.
LEMMA CarryDigit ==
    ASSUME NEW b, NEW d, Rebased(b, d), NEW s \in 0..(d - 1), NEW y \in 0..(b - 1)
    PROVE  /\ (s * b + y) \div d \in 0..(b - 1) /\ (s * b + y) % d \in 0..(d - 1)
           /\ \A p \in Nat : (p * b + ((s * b + y) \div d)) * d + ((s * b + y) % d) = (p * d + s) * b + y
<1> DEFINE t == s * b + y
           q == t \div d
           e == t % d
<1>1. CASE b = 256 /\ d = 58
  <2>1. s \in 0..57 /\ y \in 0..255 /\ t = s * 256 + y
    BY <1>1
  <2> HIDE DEF t
  <2>2. t \in Nat
    BY <2>1
  <2>3. q \in Nat /\ e \in 0..57 /\ t = 58 * q + e
    BY <1>1, <2>2, DivMod
  <2> HIDE DEF q, e
  <2>4. q \in 0..255
    BY <2>1, <2>3, SMTT(60)
  <2>5. \A p \in Nat : (p * 256 + q) * 58 + e = (p * 58 + s) * 256 + y
    BY <2>1, <2>3, SMTT(60)
  <2> QED BY <1>1, <2>3, <2>4, <2>5 DEF t, q, e
<1>2. CASE b = 58 /\ d = 256
  <2>1. s \in 0..255 /\ y \in 0..57 /\ t = s * 58 + y
    BY <1>2
  <2> HIDE DEF t
  <2>2. t \in Nat
    BY <2>1
  <2>3. q \in Nat /\ e \in 0..255 /\ t = 256 * q + e
    BY <1>2, <2>2, DivMod
  <2> HIDE DEF q, e
  <2>4. q \in 0..57
    BY <2>1, <2>3, SMTT(60)
  <2>5. \A p \in Nat : (p * 58 + q) * 256 + e = (p * 256 + s) * 58 + y
    BY <2>1, <2>3, SMTT(60)
  <2> QED BY <1>2, <2>3, <2>4, <2>5 DEF t, q, e
<1> QED BY <1>1, <1>2 DEF Rebased

\* What is left of the carry: two digits.
LEMMA CarryLast ==
    ASSUME NEW b, NEW d, Rebased(b, d), NEW y \in 0..(b - 1)
    PROVE  y \div d \in 0..(d - 1) /\ y % d \in 0..(d - 1) /\ (y \div d) * d + (y % d) = y
<1> DEFINE q == y \div d
           e == y % d
<1>1. CASE b = 256 /\ d = 58
  <2>1. y \in 0..255 /\ y \in Nat
    BY <1>1
  <2>2. q \in Nat /\ e \in 0..57 /\ y = 58 * q + e
    BY <1>1, <2>1, DivMod
  <2> HIDE DEF q, e
  <2>3. q \in 0..57 /\ q * 58 + e = y
    BY <2>1, <2>2
  <2> QED BY <1>1, <2>2, <2>3 DEF q, e
<1>2. CASE b = 58 /\ d = 256
  <2>1. y \in 0..57 /\ y \in Nat
    BY <1>2
  <2>2. q \in Nat /\ e \in 0..255 /\ y = 256 * q + e
    BY <1>2, <2>1, DivMod
  <2> HIDE DEF q, e
  <2>3. q \in 0..255 /\ q * 256 + e = y
    BY <2>1, <2>2
  <2> QED BY <1>2, <2>2, <2>3 DEF q, e
<1> QED BY <1>1, <1>2 DEF Rebased

\* The carries y and the digits of MulAdd before it strips them.
Carries(y, s, b, x, d) ==
    /\ y \in [0..Len(s) -> 0..(b - 1)] /\ y[Len(s)] = x
    /\ \A i \in 1..Len(s) : y[i - 1] = (s[i] * b + y[i]) \div d
Carried(y, s, b, d) ==
    <<y[0] \div d, y[0] % d>> \o [i \in 1..Len(s) |-> (s[i] * b + y[i]) % d]

\* The loop of MulAdd, as the carries that it goes through.
LEMMA MulAddCarries ==
    ASSUME NEW b, NEW d, Rebased(b, d), NEW s \in Digits(d), NEW x \in 0..(b - 1)
    PROVE  \E y : Carries(y, s, b, x, d) /\ MulAdd(s, b, x, d) = Stripped(Carried(y, s, b, d))
<1> DEFINE n == Len(s)
           E == Nat \X Seq(Nat)
           D == (0..(b - 1)) \X Digits(d)
           t(i, st) == s[n + 1 - i] * b + st[1]
           to(i, st) == <<t(i, st) \div d, <<t(i, st) % d>> \o st[2]>>
           step == [i \in 1..n |-> [st \in E |-> to(i, st)]]
           F(g) == [i \in 1..(n + 1) |-> [st \in E |-> IF i > n THEN st ELSE g[i + 1][to(i, st)]]]
           f == CHOOSE g : g = F(g)
           a == <<x, <<>>>>
           r == f[1][a]
<1>1. MulAdd(s, b, x, d) = Stripped(<<r[1] \div d, r[1] % d>> \o r[2])
  BY Zenon DEF MulAdd
<1>2. /\ n \in Nat /\ b \in Nat /\ d \in Nat /\ b \in Bases /\ d \in Bases
      /\ \A i \in 1..n : s[i] \in 0..(d - 1)
  BY DigitsOf, RebasedBases
<1>3. D \subseteq E
  <2>1. 0..(b - 1) \subseteq Nat /\ Digits(d) \subseteq Seq(Nat)
    BY <1>2, DigitsOf
  <2> QED BY <2>1
<1> HIDE DEF n, D, E, to
<1>4. ASSUME NEW g PROVE g = F(g) <=> Turns(g, n, E, step)
  <2>1. ASSUME NEW i \in 1..(n + 1)
        PROVE  [st \in E |-> IF i > n THEN st ELSE g[i + 1][to(i, st)]]
                 = [st \in E |-> IF i > n THEN st ELSE g[i + 1][step[i][st]]]
    <3>1. CASE i > n
      BY <3>1
    <3>2. CASE ~(i > n)
      <4>1. i \in 1..n
        BY <1>2, <3>2
      <4>2. \A st \in E : step[i][st] = to(i, st)
        BY <4>1
      <4> HIDE DEF step
      <4> QED BY <4>2
    <3> QED BY <3>1, <3>2
  <2> HIDE DEF step
  <2>2. F(g) = [i \in 1..(n + 1) |-> [st \in E |-> IF i > n THEN st ELSE g[i + 1][step[i][st]]]]
    BY <2>1
  <2> HIDE DEF F
  <2> QED BY <2>2, Zenon DEF Turns
<1>5. Turns(f, n, E, step)
  <2>1. PICK g : Turns(g, n, E, step)
    <3> HIDE DEF step
    <3> QED BY <1>2, TurnsExist, Zenon
  <2>2. g = F(g)
    BY <1>4, <2>1, Zenon
  <2> HIDE DEF F, step
  <2>3. f = F(f)
    BY <2>2, Zenon
  <2> HIDE DEF f
  <2> QED BY <1>4, <2>3, Zenon
<1>6. ASSUME NEW i \in 1..n, NEW st \in D
      PROVE  /\ step[i][st] = to(i, st) /\ to(i, st) \in D
             /\ to(i, st)[1] = t(i, st) \div d /\ to(i, st)[2] = <<t(i, st) % d>> \o st[2]
  <2>1. st \in E
    BY <1>3
  <2>2. step[i][st] = to(i, st)
    BY <2>1
  <2>3. n + 1 - i \in 1..n /\ st[1] \in 0..(b - 1) /\ st[2] \in Digits(d)
    BY <1>2 DEF D
  <2> DEFINE q == t(i, st) \div d
             e == t(i, st) % d
             S == 0..(d - 1)
  <2>4. q \in 0..(b - 1) /\ e \in S
    <3>1. s[n + 1 - i] \in 0..(d - 1)
      BY <1>2, <2>3
    <3> QED BY <2>3, <3>1, CarryDigit
  <2>5. <<e>> \o st[2] \in Digits(d)
    <3>1. <<e>> \in Seq(S) /\ st[2] \in Seq(S)
      BY <2>3, <2>4 DEF Digits
    <3> HIDE DEF S, e
    <3>2. <<e>> \o st[2] \in Seq(S)
      BY <3>1, ConcatProperties, Zenon
    <3> QED BY <3>2 DEF S, Digits
  <2>6. to(i, st) = <<q, <<e>> \o st[2]>>
    BY DEF to
  <2> DEFINE v == <<e>> \o st[2]
  <2> HIDE DEF q, v
  <2>7. to(i, st) = <<q, v>> /\ v \in Digits(d)
    BY <2>5, <2>6 DEF v
  <2>8. to(i, st) \in D /\ to(i, st)[1] = q /\ to(i, st)[2] = v
    BY <2>4, <2>7 DEF D
  <2> QED BY <2>2, <2>8 DEF q, v
<1>7. PICK c : Run(c, n, D, step, a)
  <2>1. a \in D
    <3>1. <<>> \in Digits(d)
      BY DEF Digits
    <3> QED BY <3>1 DEF D
  <2>2. \A i \in 1..n : \A st \in D : step[i][st] \in D
    BY <1>6
  <2> HIDE DEF step, a
  <2> QED BY <1>2, <2>1, <2>2, RunExists, Zenon
<1>8. r = c[n]
  <2> HIDE DEF step, a, f
  <2>1. n \in Nat /\ D \subseteq E /\ Run(c, n, D, step, a) /\ Turns(f, n, E, step)
    BY <1>2, <1>3, <1>5, <1>7
  <2> QED BY <2>1, LoopEnds
<1> HIDE DEF f, r
\* The turns, told by the digit they take.
<1> DEFINE y == [i \in 0..n |-> c[n - i][1]]
           z(i) == (s[i] * b + y[i]) % d
<1>9. /\ c[0] = <<x, <<>>>> /\ \A i \in 0..n : c[i] \in D
  BY <1>7 DEF Run
<1>10. ASSUME NEW i \in 0..n PROVE y[i] = c[n - i][1] /\ y[i] \in 0..(b - 1)
  <2>1. n - i \in 0..n
    BY <1>2
  <2>2. c[n - i] \in D
    BY <1>9, <2>1
  <2> QED BY <2>2 DEF D
<1>11. ASSUME NEW i \in 1..n
       PROVE  /\ c[n - (i - 1)][1] = (s[i] * b + y[i]) \div d
              /\ c[n - (i - 1)][2] = <<z(i)>> \o c[n - i][2]
  <2> DEFINE k == n + 1 - i
             st == c[n - i]
  <2>1. k \in 1..n /\ k - 1 = n - i /\ k = n - (i - 1) /\ n + 1 - k = i /\ n - i \in 0..n /\ i \in 0..n
    BY <1>2
  <2>2. c[k] = step[k][c[k - 1]] /\ st \in D
    BY <1>7, <1>9, <2>1 DEF Run
  <2>3. y[i] = st[1]
    BY <1>10, <2>1
  <2> HIDE DEF k, st, y, step
  <2>4. c[k] = step[k][st]
    BY <2>1, <2>2 DEF st
  <2>5. c[k][1] = t(k, st) \div d /\ c[k][2] = <<t(k, st) % d>> \o st[2]
    <3>1. k \in 1..n /\ st \in D
      BY <2>1, <2>2
    <3>2. /\ step[k][st] = to(k, st)
          /\ to(k, st)[1] = t(k, st) \div d /\ to(k, st)[2] = <<t(k, st) % d>> \o st[2]
      <4> HIDE DEF t
      <4> QED BY <1>6, <3>1
    <3> HIDE DEF t
    <3> QED BY <2>4, <3>2
  <2>6. t(k, st) = s[i] * b + y[i]
    BY <2>1, <2>3
  <2> QED BY <2>1, <2>5, <2>6 DEF st
<1>12. Carries(y, s, b, x, d)
  <2>1. y \in [0..n -> 0..(b - 1)]
    BY <1>10
  <2>2. y[n] = x
    <3>1. n \in 0..n /\ n - n = 0
      BY <1>2
    <3> QED BY <1>9, <3>1
  <2>3. ASSUME NEW i \in 1..n PROVE y[i - 1] = (s[i] * b + y[i]) \div d
    <3>1. i - 1 \in 0..n
      BY <1>2
    <3>2. y[i - 1] = c[n - (i - 1)][1]
      BY <1>10, <3>1
    <3> HIDE DEF y
    <3> QED BY <1>11, <3>2
  <2> HIDE DEF y
  <2> QED BY <2>1, <2>2, <2>3 DEF Carries, n
<1> HIDE DEF y
<1> DEFINE low(j) == [i \in 1..j |-> z(n - j + i)]
           T == {j \in 0..n : c[j][2] # low(j)}
<1>z. \A i \in 1..n : z(i) \in Nat
  <2> SUFFICES ASSUME NEW i \in 1..n PROVE z(i) \in Nat
    OBVIOUS
  <2>1. s[i] \in 0..(d - 1) /\ y[i] \in 0..(b - 1) /\ i \in 0..n
    BY <1>2, <1>10
  <2>2. z(i) \in 0..(d - 1)
    BY <2>1, CarryDigit
  <2> HIDE DEF z
  <2> QED BY <1>2, <2>2
<1> HIDE DEF z, step
<1>13. ASSUME T # {} PROVE FALSE
  <2>1. PICK j \in T : \A k \in T : j <= k
    <3>1. T \subseteq Nat
      BY <1>2
    <3> HIDE DEF T
    <3> QED BY <1>13, <3>1, LeastNat, Zenon
  <2>2. j \in 0..n /\ c[j][2] # low(j)
    OBVIOUS
  <2>3. CASE j = 0
    <3>1. low(0) = <<>> /\ c[0][2] = <<>>
      BY <1>9
    <3> QED BY <2>2, <2>3, <3>1
  <2>4. CASE j # 0
    <3> DEFINE i == n + 1 - j
               w == low(j - 1)
    <3>1. /\ i \in 1..n /\ n - (i - 1) = j /\ n - i = j - 1 /\ j - 1 \in 0..n /\ j - 1 \notin T
          /\ n - j + 1 = i
      <4> HIDE DEF T
      <4> QED BY <1>2, <2>1, <2>2, <2>4
    <3>2. c[j - 1][2] = w
      BY <3>1
    <3>3. c[j][2] = <<z(i)>> \o w
      <4> HIDE DEF i, w
      <4>1. c[n - (i - 1)][2] = <<z(i)>> \o c[n - i][2]
        BY <1>11, <3>1
      <4> QED BY <3>1, <3>2, <4>1
    <3>4. w \in Seq(Nat) /\ Len(w) = j - 1 /\ \A k \in 1..(j - 1) : w[k] = z(n - (j - 1) + k)
      <4>1. \A k \in 1..(j - 1) : n - (j - 1) + k \in 1..n
        BY <1>2, <2>2, <2>4
      <4> QED BY <1>z, <2>2, <2>4, <4>1
    <3>5. z(i) \in Nat
      BY <1>z, <3>1
    <3> HIDE DEF i, w
    <3> DEFINE v == <<z(i)>> \o w
    <3>6. <<z(i)>> \in Seq(Nat) /\ Len(<<z(i)>>) = 1 /\ <<z(i)>>[1] = z(i)
      BY <3>5
    <3>7. v \in Seq(Nat) /\ Len(v) = 1 + (j - 1)
      BY <3>4, <3>6, ConcatProperties
    <3>8. \A k \in 1..(1 + (j - 1)) : v[k] = IF k <= 1 THEN <<z(i)>>[k] ELSE w[k - 1]
      BY <3>4, <3>6, ConcatProperties
    <3> HIDE DEF v
    <3>9. ASSUME NEW k \in 1..j PROVE v[k] = z(n - j + k)
      <4>1. CASE k = 1
        <5>1. v[1] = z(i)
          BY <2>2, <2>4, <3>6, <3>8
        <5> QED BY <3>1, <4>1, <5>1
      <4>2. CASE k # 1
        <5>1. k - 1 \in 1..(j - 1) /\ k \in 1..(1 + (j - 1)) /\ ~(k <= 1) /\ n - (j - 1) + (k - 1) = n - j + k
          BY <1>2, <2>2, <4>2
        <5> QED BY <3>4, <3>8, <5>1
      <4> QED BY <4>1, <4>2
    <3>10. v = low(j)
      <4>1. v = [k \in 1..j |-> v[k]]
        <5>1. Len(v) = j
          BY <2>2, <3>7
        <5> QED BY <3>7, <5>1, LenProperties
      <4> QED BY <3>9, <4>1
    <3> QED BY <2>2, <3>3, <3>10 DEF v
  <2> QED BY <2>3, <2>4
<1>14. c[n][2] = [i \in 1..n |-> z(i)]
  <2>1. n \in 0..n
    BY <1>2
  <2>2. T = {}
    <3> HIDE DEF T
    <3> QED BY <1>13
  <2>4. c[n][2] = low(n)
    <3> HIDE DEF low
    <3> QED BY <2>1, <2>2
  <2>3. \A i \in 1..n : n - n + i = i
    BY <1>2
  <2> QED BY <2>3, <2>4
<1>15. c[n][1] = y[0]
  <2>1. 0 \in 0..n /\ n - 0 = n
    BY <1>2
  <2> QED BY <1>10, <2>1
<1>16. <<r[1] \div d, r[1] % d>> \o r[2] = Carried(y, s, b, d)
  BY <1>8, <1>14, <1>15 DEF Carried, n, z
<1> QED BY <1>1, <1>12, <1>16

\* MulAdd does what it says, and leaves no zero in front.
LEMMA MulAddNumber ==
    ASSUME NEW b, NEW d, Rebased(b, d), NEW s \in Digits(d), NEW x \in 0..(b - 1), NEW m \in Nat, Number(s, d, m)
    PROVE  LET u == MulAdd(s, b, x, d) IN u \in Digits(d) /\ Plain(u) /\ Number(u, d, m * b + x)
<1> DEFINE n == Len(s)
           S == 0..(d - 1)
<1>1. /\ n \in Nat /\ b \in Nat /\ d \in Nat /\ d \in Bases
      /\ \A i \in 1..n : s[i] \in 0..(d - 1)
  BY DigitsOf, RebasedBases
<1>2. PICK y : Carries(y, s, b, x, d) /\ MulAdd(s, b, x, d) = Stripped(Carried(y, s, b, d))
  BY MulAddCarries
<1>3. /\ \A i \in 0..n : y[i] \in 0..(b - 1)
      /\ y[n] = x /\ \A i \in 1..n : y[i - 1] = (s[i] * b + y[i]) \div d
  BY <1>2 DEF Carries
<1>4. PICK N : Reading(N, s, d) /\ N[n] = m
  BY DEF Number
<1>5. /\ N[0] = 0 /\ (\A i \in 0..n : N[i] \in Nat) /\ \A i \in 1..n : N[i] = N[i - 1] * d + s[i]
  BY <1>4 DEF Reading
<1> DEFINE z(i) == (s[i] * b + y[i]) % d
           q == y[0] \div d
           e == y[0] % d
           low == [i \in 1..n |-> z(i)]
           w == <<q, e>> \o low
<1>w. Carried(y, s, b, d) = w
  BY Zenon DEF Carried
<1> HIDE DEF n
<1>6. q \in S /\ e \in S /\ q * d + e = y[0] /\ y[0] \in Nat
  <2>1. y[0] \in 0..(b - 1)
    BY <1>1, <1>3
  <2> QED BY <1>1, <2>1, CarryLast
<1>7. ASSUME NEW i \in 1..n
      PROVE  z(i) \in S /\ \A p \in Nat : (p * b + y[i - 1]) * d + z(i) = (p * d + s[i]) * b + y[i]
  <2>1. s[i] \in 0..(d - 1) /\ i \in 0..n
    BY <1>1
  <2>2. y[i] \in 0..(b - 1)
    BY <1>3, <2>1
  <2>3. y[i - 1] = (s[i] * b + y[i]) \div d
    BY <1>3
  <2> QED BY <2>1, <2>2, <2>3, CarryDigit
<1> HIDE DEF z, q, e
<1>8. <<q, e>> \in Seq(S) /\ Len(<<q, e>>) = 2 /\ <<q, e>>[1] = q /\ <<q, e>>[2] = e
  BY <1>6
<1>9. low \in Seq(S) /\ Len(low) = n /\ \A i \in 1..n : low[i] = z(i)
  BY <1>1, <1>7
<1> DEFINE h == <<q, e>>
<1> HIDE DEF low, S, h
<1>10. w \in Seq(S) /\ Len(w) = 2 + n
  BY <1>8, <1>9, Appended DEF h
<1>11. Stands(w, 0, h) /\ Stands(w, 2, low)
  <2>1. h \in Seq(S) /\ low \in Seq(S) /\ 0 \in Nat /\ Len(h) = 2 /\ w = h \o low
    BY <1>8, <1>9 DEF h
  <2>2. Stands(h, 0, h)
    BY <2>1 DEF Stands
  <2> HIDE DEF w
  <2> QED BY <2>1, <2>2, Appended, Kept
<1>12. w[1] = q /\ w[2] = e /\ \A i \in 1..n : w[2 + i] = z(i)
  <2> HIDE DEF w
  <2>1. \A i \in 1..2 : w[0 + i] = h[i]
    BY <1>8, <1>11 DEF Stands, h
  <2>2. w[1] = q /\ w[2] = e
    BY <1>8, <2>1 DEF h
  <2>3. \A i \in 1..n : w[2 + i] = low[i]
    BY <1>9, <1>11 DEF Stands
  <2> QED BY <1>9, <2>2, <2>3
<1> HIDE DEF w
<1> DEFINE R == [i \in 0..(n + 2) |-> IF i = 0 THEN 0 ELSE IF i = 1 THEN q ELSE N[i - 2] * b + y[i - 2]]
<1>13. Reading(R, w, d)
  <2>1. R \in [0..(n + 2) -> Nat]
    <3> SUFFICES ASSUME NEW i \in 0..(n + 2) PROVE R[i] \in Nat
      OBVIOUS
    <3>1. q \in Nat
      BY <1>1, <1>6 DEF S
    <3>2. CASE i < 2
      BY <3>1, <3>2
    <3>3. CASE i >= 2
      <4>1. i - 2 \in 0..n /\ i # 0 /\ i # 1
        BY <1>1, <3>3
      <4>2. N[i - 2] \in Nat /\ y[i - 2] \in Nat
        BY <1>1, <1>3, <1>5, <4>1
      <4>3. N[i - 2] * b + y[i - 2] \in Nat
        BY <1>1, <4>2
      <4> QED BY <4>1, <4>3
    <3> QED BY <1>1, <3>2, <3>3
  <2>2. R[0] = 0 /\ R[1] = q /\ \A i \in 0..n : R[i + 2] = N[i] * b + y[i]
    <3>1. 0 \in 0..(n + 2) /\ 1 \in 0..(n + 2)
      BY <1>1
    <3>2. \A i \in 0..n : i + 2 \in 0..(n + 2) /\ i + 2 # 0 /\ i + 2 # 1 /\ (i + 2) - 2 = i
      BY <1>1
    <3> QED BY <3>1, <3>2
  <2> HIDE DEF R
  <2>3. R[1] = R[0] * d + w[1]
    <3>1. q \in Nat /\ 0 * d + q = q
      BY <1>1, <1>6 DEF S
    <3> QED BY <1>12, <2>2, <3>1
  <2>4. R[2] = R[1] * d + w[2]
    <3>1. R[0 + 2] = N[0] * b + y[0]
      BY <1>1, <2>2
    <3>2. 0 * b + y[0] = y[0] /\ 0 + 2 = 2
      BY <1>1, <1>6
    <3> QED BY <1>5, <1>6, <1>12, <2>2, <3>1, <3>2
  <2>5. ASSUME NEW i \in 1..n PROVE R[i + 2] = R[(i + 2) - 1] * d + w[i + 2]
    <3>1. i \in 0..n /\ i - 1 \in 0..n /\ (i + 2) - 1 = (i - 1) + 2 /\ i + 2 = 2 + i
      BY <1>1
    <3>2. R[i + 2] = N[i] * b + y[i] /\ R[(i + 2) - 1] = N[i - 1] * b + y[i - 1] /\ w[i + 2] = z(i)
      BY <1>12, <2>2, <3>1
    <3>3. N[i] = N[i - 1] * d + s[i] /\ N[i - 1] \in Nat
      BY <1>5, <3>1
    <3>4. (N[i - 1] * b + y[i - 1]) * d + z(i) = (N[i - 1] * d + s[i]) * b + y[i]
      BY <1>7, <3>3
    <3> QED BY <3>2, <3>3, <3>4, Zenon
  <2>6. ASSUME NEW j \in 1..(n + 2) PROVE R[j] = R[j - 1] * d + w[j]
    <3>1. CASE j = 1
      <4>1. 1 - 1 = 0
        OBVIOUS
      <4> QED BY <2>3, <3>1, <4>1
    <3>2. CASE j = 2
      <4>1. 2 - 1 = 1
        OBVIOUS
      <4> QED BY <2>4, <3>2, <4>1
    <3>3. CASE j > 2
      <4>1. j - 2 \in 1..n /\ (j - 2) + 2 = j
        BY <1>1, <3>3
      <4> QED BY <2>5, <4>1
    <3> QED BY <1>1, <3>1, <3>2, <3>3
  <2>7. Len(w) = n + 2
    BY <1>1, <1>10
  <2> QED BY <2>1, <2>2, <2>6, <2>7 DEF Reading
<1>14. R[Len(w)] = m * b + x
  <2>1. Len(w) = n + 2 /\ n + 2 \in 0..(n + 2) /\ n + 2 # 0 /\ n + 2 # 1 /\ (n + 2) - 2 = n
    BY <1>1, <1>10
  <2> QED BY <1>3, <1>4, <2>1 DEF n
<1>15. w \in Digits(d) /\ Number(w, d, m * b + x)
  <2> HIDE DEF R
  <2> QED BY <1>10, <1>13, <1>14 DEF Digits, S, Number
<1>16. MulAdd(s, b, x, d) = Stripped(w)
  BY <1>2, <1>w
<1> QED BY <1>1, <1>15, <1>16, StrippedText, NumberStripped

\* Rebase writes the same number in the other base, with no zero in front.
LEMMA RebaseNumber ==
    ASSUME NEW b, NEW d, Rebased(b, d), NEW v \in Digits(b), NEW m, Number(v, b, m)
    PROVE  LET u == Rebase(v, b, d) IN u \in Digits(d) /\ Plain(u) /\ Number(u, d, m)
<1> DEFINE n == Len(v)
           E == Seq(Nat)
           D == Digits(d)
           step == [i \in 1..n |-> [s \in E |-> MulAdd(s, b, v[i], d)]]
           F(g) == [i \in 1..(n + 1) |-> [s \in E |-> IF i > n THEN s ELSE g[i + 1][MulAdd(s, b, v[i], d)]]]
           f == CHOOSE g : g = F(g)
<1>1. Rebase(v, b, d) = f[1][<<>>]
  BY Zenon DEF Rebase
<1>2. /\ n \in Nat /\ b \in Nat /\ d \in Nat /\ b \in Bases /\ d \in Bases
      /\ \A i \in 1..n : v[i] \in 0..(b - 1)
  BY DigitsOf, RebasedBases
<1>3. D \subseteq E
  BY <1>2, DigitsOf
<1> HIDE DEF n, D, E
<1>4. ASSUME NEW g PROVE g = F(g) <=> Turns(g, n, E, step)
  <2>1. ASSUME NEW i \in 1..(n + 1)
        PROVE  [s \in E |-> IF i > n THEN s ELSE g[i + 1][MulAdd(s, b, v[i], d)]]
                 = [s \in E |-> IF i > n THEN s ELSE g[i + 1][step[i][s]]]
    <3>1. CASE i > n
      BY <3>1
    <3>2. CASE ~(i > n)
      <4>1. i \in 1..n
        BY <1>2, <3>2
      <4>2. \A s \in E : step[i][s] = MulAdd(s, b, v[i], d)
        BY <4>1
      <4> HIDE DEF step
      <4> QED BY <4>2
    <3> QED BY <3>1, <3>2
  <2> HIDE DEF step
  <2>2. F(g) = [i \in 1..(n + 1) |-> [s \in E |-> IF i > n THEN s ELSE g[i + 1][step[i][s]]]]
    BY <2>1
  <2> HIDE DEF F
  <2> QED BY <2>2, Zenon DEF Turns
<1>5. Turns(f, n, E, step)
  <2>1. PICK g : Turns(g, n, E, step)
    <3> HIDE DEF step
    <3> QED BY <1>2, TurnsExist, Zenon
  <2>2. g = F(g)
    BY <1>4, <2>1, Zenon
  <2> HIDE DEF F, step
  <2>3. f = F(f)
    BY <2>2, Zenon
  <2> HIDE DEF f
  <2> QED BY <1>4, <2>3, Zenon
<1>6. ASSUME NEW i \in 1..n, NEW s \in D
      PROVE  step[i][s] = MulAdd(s, b, v[i], d) /\ step[i][s] \in D
  <2>1. step[i][s] = MulAdd(s, b, v[i], d)
    BY <1>3
  <2>2. s \in Digits(d) /\ v[i] \in 0..(b - 1)
    BY <1>2 DEF D
  <2>3. PICK k \in Nat : Number(s, d, k)
    BY <1>2, <2>2, NumberExists
  <2>4. MulAdd(s, b, v[i], d) \in Digits(d)
    BY <2>2, <2>3, MulAddNumber
  <2> QED BY <2>1, <2>4 DEF D
<1> DEFINE a == <<>>
<1>7. PICK c : Run(c, n, D, step, a)
  <2>1. a \in D
    BY DEF D, Digits
  <2>2. \A i \in 1..n : \A s \in D : step[i][s] \in D
    BY <1>6
  <2> HIDE DEF step, a
  <2> QED BY <1>2, <2>1, <2>2, RunExists, Zenon
<1>8. Rebase(v, b, d) = c[n]
  <2> HIDE DEF step, f
  <2>1. n \in Nat /\ D \subseteq E /\ Run(c, n, D, step, a) /\ Turns(f, n, E, step)
    BY <1>2, <1>3, <1>5, <1>7
  <2>2. f[1][a] = c[n]
    <3> HIDE DEF a
    <3> QED BY <2>1, LoopEnds
  <2> QED BY <1>1, <2>2
<1> HIDE DEF f
<1>9. c[0] = <<>> /\ (\A i \in 0..n : c[i] \in D) /\ \A i \in 1..n : c[i] = step[i][c[i - 1]]
  BY <1>7 DEF Run
<1> HIDE DEF step
<1>10. PICK N : Reading(N, v, b) /\ N[n] = m
  BY DEF Number, n
<1>11. /\ N[0] = 0 /\ (\A i \in 0..n : N[i] \in Nat) /\ \A i \in 1..n : N[i] = N[i - 1] * b + v[i]
  BY <1>10 DEF Reading, n
<1> DEFINE Good(i) == Plain(c[i]) /\ Number(c[i], d, N[i])
           T == {i \in 0..n : ~Good(i)}
<1>12. Good(0)
  <2>1. Plain(<<>>)
    BY DEF Plain
  <2> DEFINE O == [i \in 0..0 |-> 0]
  <2>2. Reading(O, <<>>, d) /\ O[Len(<<>>)] = 0
    BY DEF Reading
  <2>3. Number(<<>>, d, 0)
    BY <2>2 DEF Number
  <2> QED BY <1>9, <1>11, <2>1, <2>3
<1>13. ASSUME NEW i \in 1..n, Good(i - 1) PROVE Good(i)
  <2>1. i - 1 \in 0..n /\ i \in 0..n
    BY <1>2
  <2>2. c[i - 1] \in Digits(d) /\ N[i - 1] \in Nat /\ v[i] \in 0..(b - 1)
    BY <1>2, <1>9, <1>11, <2>1 DEF D
  <2>3. c[i] = MulAdd(c[i - 1], b, v[i], d)
    BY <1>6, <1>9, <2>1
  <2>4. Number(c[i - 1], d, N[i - 1])
    BY <1>13
  <2> DEFINE s == c[i - 1]
             x == v[i]
             k == N[i - 1]
  <2>5. s \in Digits(d) /\ x \in 0..(b - 1) /\ k \in Nat /\ Number(s, d, k)
    BY <2>2, <2>4
  <2> HIDE DEF s, x, k
  <2>6. LET u == MulAdd(s, b, x, d) IN u \in Digits(d) /\ Plain(u) /\ Number(u, d, k * b + x)
    BY <2>5, MulAddNumber
  <2>7. c[i] = MulAdd(s, b, x, d) /\ N[i] = k * b + x
    BY <1>11, <2>3 DEF s, x, k
  <2> QED BY <2>6, <2>7
<1> HIDE DEF Good
<1>14. ASSUME T # {} PROVE FALSE
  <2>1. PICK j \in T : \A y \in T : j <= y
    <3>1. T \subseteq Nat
      BY <1>2
    <3> HIDE DEF T
    <3> QED BY <1>14, <3>1, LeastNat, Zenon
  <2>2. j \in 0..n /\ ~Good(j)
    OBVIOUS
  <2>3. j # 0
    BY <1>12, <2>2
  <2>4. j \in 1..n /\ j - 1 \in 0..n /\ j - 1 \notin T
    <3> HIDE DEF T
    <3> QED BY <1>2, <2>1, <2>2, <2>3
  <2> QED BY <1>13, <2>2, <2>4
<1>15. Good(n) /\ n \in 0..n
  <2>1. n \in 0..n
    BY <1>2
  <2>2. T = {}
    <3> HIDE DEF T
    <3> QED BY <1>14
  <2> QED BY <2>1, <2>2
<1> QED BY <1>8, <1>9, <1>10, <1>15 DEF Good, D

\* A number rebased and rebased back has lost only the zeros in front.
LEMMA RebaseBack ==
    ASSUME NEW b, NEW d, Rebased(b, d), NEW v \in Digits(b), NEW w \in Digits(d),
           Stripped(w) = Rebase(v, b, d)
    PROVE  Rebase(w, d, b) = Stripped(v)
<1> DEFINE u == Rebase(w, d, b)
           t == Stripped(v)
<1>1. b \in Bases /\ d \in Bases /\ Rebased(d, b)
  BY RebasedBases
<1>2. PICK m \in Nat : Number(v, b, m)
  BY <1>1, NumberExists
<1>3. PICK k \in Nat : Number(w, d, k)
  BY <1>1, NumberExists
<1>4. Number(Rebase(v, b, d), d, m) /\ Rebase(v, b, d) \in Digits(d)
  BY <1>2, RebaseNumber
<1>5. Number(Stripped(w), d, k)
  BY <1>1, <1>3, NumberStripped
<1>6. m = k
  <2>1. Rebase(v, b, d) \in Seq(Nat)
    BY <1>1, <1>4, DigitsOf
  <2> QED BY <1>4, <1>5, <2>1, NumberUnique
<1>7. u \in Digits(b) /\ Plain(u) /\ Number(u, b, m)
  BY <1>1, <1>3, <1>6, RebaseNumber
<1>8. t \in Digits(b) /\ Plain(t) /\ Number(t, b, m)
  BY <1>1, <1>2, StrippedText, NumberStripped
<1>9. Len(u) \in Nat /\ Len(t) \in Nat
  BY <1>1, <1>7, <1>8, DigitsOf
<1> HIDE DEF u, t
<1>10. (Len(u) <= Len(t) => u = t) /\ (Len(t) <= Len(u) => t = u)
  BY <1>1, <1>7, <1>8, PlainUnique
<1>11. Len(u) <= Len(t) \/ Len(t) <= Len(u)
  BY <1>9
<1>12. u = t
  BY <1>10, <1>11
<1> QED BY <1>12 DEF u, t

-----------------------------------------------------------------------------
(* Alphabets.                                                              *)

\* The code points s rise from lo to hi.
Rising(s, lo, hi) ==
    /\ s \in Seq(Nat) /\ lo \in Nat /\ hi \in Nat /\ lo <= hi
    /\ \A i \in 1..Len(s) : s[i] \in lo..hi
    /\ \A i, j \in 1..Len(s) : i < j => s[i] < s[j]

LEMMA FromRises ==
    ASSUME NEW c \in Nat, NEW n \in Nat, n > 0, NEW hi \in Nat, hi = c + n - 1
    PROVE  Rising(from(c, n), c, hi) /\ Len(from(c, n)) = n
<1> DEFINE s == from(c, n)
<1>1. s = [i \in 1..n |-> c + i - 1]
  BY DEF from
<1>2. s \in Seq(Nat) /\ Len(s) = n /\ \A i \in 1..n : s[i] = c + i - 1
  BY <1>1
<1> HIDE DEF s
<1>3. \A i \in 1..n : s[i] \in c..hi
  BY <1>2
<1>4. \A i, j \in 1..n : i < j => s[i] < s[j]
  BY <1>2
<1>5. Rising(s, c, hi)
  BY <1>2, <1>3, <1>4 DEF Rising
<1> QED BY <1>2, <1>5 DEF s

\* Two rising stretches, the second above the first, rise together.
LEMMA RiseOn ==
    ASSUME NEW s, NEW t, NEW a, NEW b, NEW c, NEW d, Rising(s, a, b), Rising(t, c, d), b < c
    PROVE  Rising(s \o t, a, d) /\ Len(s \o t) = Len(s) + Len(t)
<1> DEFINE m == Len(s)
           n == Len(t)
           w == s \o t
<1>1. /\ s \in Seq(Nat) /\ t \in Seq(Nat)
      /\ a \in Nat /\ b \in Nat /\ c \in Nat /\ d \in Nat /\ a <= b /\ c <= d
  BY DEF Rising
<1>2. w \in Seq(Nat) /\ Len(w) = m + n
  BY <1>1, ConcatProperties, Zenon
<1>3. \A i \in 1 .. m + n : w[i] = IF i <= m THEN s[i] ELSE t[i - m]
  BY <1>1, ConcatProperties, Zenon
<1>4. m \in Nat /\ n \in Nat
  BY <1>1, LenProperties
<1>5. /\ \A i \in 1..m : s[i] \in a..b
      /\ \A i, j \in 1..m : i < j => s[i] < s[j]
      /\ \A i \in 1..n : t[i] \in c..d
      /\ \A i, j \in 1..n : i < j => t[i] < t[j]
  BY DEF Rising
<1> HIDE DEF m, n, w
<1>6. ASSUME NEW i \in 1..(m + n)
      PROVE  /\ i <= m => i \in 1..m /\ w[i] = s[i] /\ w[i] \in a..b
             /\ ~(i <= m) => i - m \in 1..n /\ w[i] = t[i - m] /\ w[i] \in c..d
  <2>1. CASE i <= m
    BY <1>3, <1>4, <1>5, <2>1
  <2>2. CASE ~(i <= m)
    <3>1. i - m \in 1..n
      BY <1>4, <2>2
    <3> QED BY <1>3, <1>5, <2>2, <3>1
  <2> QED BY <2>1, <2>2
<1>7. ASSUME NEW i \in 1..(m + n) PROVE w[i] \in a..d
  BY <1>1, <1>6
<1>8. ASSUME NEW i \in 1..(m + n), NEW j \in 1..(m + n), i < j PROVE w[i] < w[j]
  <2>1. CASE j <= m
    <3>1. i <= m
      BY <1>4, <1>8, <2>1
    <3> QED BY <1>5, <1>6, <1>8, <2>1, <3>1
  <2>2. CASE ~(j <= m) /\ i <= m
    <3>1. w[i] \in a..b /\ w[j] \in c..d
      BY <1>6, <2>2
    <3> QED BY <1>1, <3>1
  <2>3. CASE ~(j <= m) /\ ~(i <= m)
    <3>1. i - m \in 1..n /\ j - m \in 1..n /\ i - m < j - m /\ w[i] = t[i - m] /\ w[j] = t[j - m]
      BY <1>4, <1>6, <1>8, <2>3
    <3> QED BY <1>5, <3>1
  <2> QED BY <2>1, <2>2, <2>3
<1>9. a <= d
  BY <1>1
<1>10. Rising(w, a, d)
  BY <1>1, <1>2, <1>7, <1>8, <1>9 DEF Rising
<1> QED BY <1>2, <1>10 DEF w, m, n

\* The alphabets rise, so that each letter stands for one digit only.
LEMMA Base58Rises == Rising(Base58Alphabet, 49, 122) /\ Len(Base58Alphabet) = 58
<1> DEFINE a == from(49, 9)
           b == from(65, 8)
           c == from(74, 5)
           d == from(80, 11)
           e == from(97, 11)
           f == from(109, 14)
           ab == a \o b
           ac == ab \o c
           ad == ac \o d
           ae == ad \o e
           af == ae \o f
<1>1. Rising(a, 49, 57) /\ Len(a) = 9
  <2> DEFINE k == 49
             n == 9
             h == 57
  <2>1. k \in Nat /\ n \in Nat /\ n > 0 /\ h \in Nat /\ h = k + n - 1
    OBVIOUS
  <2>2. a = from(k, n)
    BY Zenon
  <2> HIDE DEF k, n, h, a
  <2>3. Rising(a, k, h) /\ Len(a) = n
    BY <2>1, <2>2, FromRises
  <2> QED BY <2>3 DEF k, n, h
<1>2. Rising(b, 65, 72) /\ Len(b) = 8
  <2> DEFINE k == 65
             n == 8
             h == 72
  <2>1. k \in Nat /\ n \in Nat /\ n > 0 /\ h \in Nat /\ h = k + n - 1
    OBVIOUS
  <2>2. b = from(k, n)
    BY Zenon
  <2> HIDE DEF k, n, h, b
  <2>3. Rising(b, k, h) /\ Len(b) = n
    BY <2>1, <2>2, FromRises
  <2> QED BY <2>3 DEF k, n, h
<1>3. Rising(c, 74, 78) /\ Len(c) = 5
  <2> DEFINE k == 74
             n == 5
             h == 78
  <2>1. k \in Nat /\ n \in Nat /\ n > 0 /\ h \in Nat /\ h = k + n - 1
    OBVIOUS
  <2>2. c = from(k, n)
    BY Zenon
  <2> HIDE DEF k, n, h, c
  <2>3. Rising(c, k, h) /\ Len(c) = n
    BY <2>1, <2>2, FromRises
  <2> QED BY <2>3 DEF k, n, h
<1>4. Rising(d, 80, 90) /\ Len(d) = 11
  <2> DEFINE k == 80
             n == 11
             h == 90
  <2>1. k \in Nat /\ n \in Nat /\ n > 0 /\ h \in Nat /\ h = k + n - 1
    OBVIOUS
  <2>2. d = from(k, n)
    BY Zenon
  <2> HIDE DEF k, n, h, d
  <2>3. Rising(d, k, h) /\ Len(d) = n
    BY <2>1, <2>2, FromRises
  <2> QED BY <2>3 DEF k, n, h
<1>5. Rising(e, 97, 107) /\ Len(e) = 11
  <2> DEFINE k == 97
             n == 11
             h == 107
  <2>1. k \in Nat /\ n \in Nat /\ n > 0 /\ h \in Nat /\ h = k + n - 1
    OBVIOUS
  <2>2. e = from(k, n)
    BY Zenon
  <2> HIDE DEF k, n, h, e
  <2>3. Rising(e, k, h) /\ Len(e) = n
    BY <2>1, <2>2, FromRises
  <2> QED BY <2>3 DEF k, n, h
<1>6. Rising(f, 109, 122) /\ Len(f) = 14
  <2> DEFINE k == 109
             n == 14
             h == 122
  <2>1. k \in Nat /\ n \in Nat /\ n > 0 /\ h \in Nat /\ h = k + n - 1
    OBVIOUS
  <2>2. f = from(k, n)
    BY Zenon
  <2> HIDE DEF k, n, h, f
  <2>3. Rising(f, k, h) /\ Len(f) = n
    BY <2>1, <2>2, FromRises
  <2> QED BY <2>3 DEF k, n, h
<1> HIDE DEF a, b, c, d, e, f
<1>7. Rising(ab, 49, 72) /\ Len(ab) = 17
  <2> DEFINE lo == 49
             m == 57
             p == 65
             hi == 72
  <2>1. Rising(a, lo, m) /\ Rising(b, p, hi) /\ m < p
    BY <1>1, <1>2
  <2> HIDE DEF lo, m, p, hi
  <2>2. Rising(ab, lo, hi) /\ Len(ab) = Len(a) + Len(b)
    BY <2>1, RiseOn
  <2> QED BY <1>1, <1>2, <2>2 DEF lo, hi
<1> HIDE DEF ab
<1>8. Rising(ac, 49, 78) /\ Len(ac) = 22
  <2> DEFINE lo == 49
             m == 72
             p == 74
             hi == 78
  <2>1. Rising(ab, lo, m) /\ Rising(c, p, hi) /\ m < p
    BY <1>3, <1>7
  <2> HIDE DEF lo, m, p, hi
  <2>2. Rising(ac, lo, hi) /\ Len(ac) = Len(ab) + Len(c)
    BY <2>1, RiseOn
  <2> QED BY <1>3, <1>7, <2>2 DEF lo, hi
<1> HIDE DEF ac
<1>9. Rising(ad, 49, 90) /\ Len(ad) = 33
  <2> DEFINE lo == 49
             m == 78
             p == 80
             hi == 90
  <2>1. Rising(ac, lo, m) /\ Rising(d, p, hi) /\ m < p
    BY <1>4, <1>8
  <2> HIDE DEF lo, m, p, hi
  <2>2. Rising(ad, lo, hi) /\ Len(ad) = Len(ac) + Len(d)
    BY <2>1, RiseOn
  <2> QED BY <1>4, <1>8, <2>2 DEF lo, hi
<1> HIDE DEF ad
<1>10. Rising(ae, 49, 107) /\ Len(ae) = 44
  <2> DEFINE lo == 49
             m == 90
             p == 97
             hi == 107
  <2>1. Rising(ad, lo, m) /\ Rising(e, p, hi) /\ m < p
    BY <1>5, <1>9
  <2> HIDE DEF lo, m, p, hi
  <2>2. Rising(ae, lo, hi) /\ Len(ae) = Len(ad) + Len(e)
    BY <2>1, RiseOn
  <2> QED BY <1>5, <1>9, <2>2 DEF lo, hi
<1> HIDE DEF ae
<1>11. Rising(af, 49, 122) /\ Len(af) = 58
  <2> DEFINE lo == 49
             m == 107
             p == 109
             hi == 122
  <2>1. Rising(ae, lo, m) /\ Rising(f, p, hi) /\ m < p
    BY <1>6, <1>10
  <2> HIDE DEF lo, m, p, hi
  <2>2. Rising(af, lo, hi) /\ Len(af) = Len(ae) + Len(f)
    BY <2>1, RiseOn
  <2> QED BY <1>6, <1>10, <2>2 DEF lo, hi
<1>12. Base58Alphabet = af
  BY Zenon DEF Base58Alphabet, a, b, c, d, e, f, ab, ac, ad, ae
<1> QED BY <1>11, <1>12

LEMMA HexRises == Rising(HexAlphabet, 48, 102) /\ Len(HexAlphabet) = 16
<1> DEFINE a == from(48, 10)
           b == from(97, 6)
<1>1. Rising(a, 48, 57) /\ Len(a) = 10
  <2> DEFINE k == 48
             n == 10
             h == 57
  <2>1. k \in Nat /\ n \in Nat /\ n > 0 /\ h \in Nat /\ h = k + n - 1
    OBVIOUS
  <2>2. a = from(k, n)
    BY Zenon
  <2> HIDE DEF k, n, h, a
  <2>3. Rising(a, k, h) /\ Len(a) = n
    BY <2>1, <2>2, FromRises
  <2> QED BY <2>3 DEF k, n, h
<1>2. Rising(b, 97, 102) /\ Len(b) = 6
  <2> DEFINE k == 97
             n == 6
             h == 102
  <2>1. k \in Nat /\ n \in Nat /\ n > 0 /\ h \in Nat /\ h = k + n - 1
    OBVIOUS
  <2>2. b = from(k, n)
    BY Zenon
  <2> HIDE DEF k, n, h, b
  <2>3. Rising(b, k, h) /\ Len(b) = n
    BY <2>1, <2>2, FromRises
  <2> QED BY <2>3 DEF k, n, h
<1>3. HexAlphabet = a \o b
  BY Zenon DEF HexAlphabet
<1> HIDE DEF a, b
<1>4. Rising(a \o b, 48, 102) /\ Len(a \o b) = Len(a) + Len(b)
  <2> DEFINE lo == 48
             m == 57
             p == 97
             hi == 102
  <2>1. Rising(a, lo, m) /\ Rising(b, p, hi) /\ m < p
    BY <1>1, <1>2
  <2> HIDE DEF lo, m, p, hi
  <2>2. Rising(a \o b, lo, hi) /\ Len(a \o b) = Len(a) + Len(b)
    BY <2>1, RiseOn
  <2> QED BY <2>2 DEF lo, hi
<1> QED BY <1>1, <1>2, <1>3, <1>4

\* The first hexadecimal digit is not a base58 letter.
LEMMA ZeroLetter == HexAlphabet[1] = 48 /\ \A i \in 1..Len(Base58Alphabet) : Base58Alphabet[i] # 48
<1> DEFINE a == from(48, 10)
           b == from(97, 6)
<1>1. a \in Seq(Nat) /\ Len(a) = 10 /\ a[1] = 48 /\ b \in Seq(Nat) /\ Len(b) = 6
  BY DEF from
<1>2. HexAlphabet = a \o b
  BY Zenon DEF HexAlphabet
<1> HIDE DEF a, b
<1>3. HexAlphabet[1] = 48
  BY <1>1, <1>2
<1>4. \A i \in 1..Len(Base58Alphabet) : Base58Alphabet[i] \in 49..122
  BY Base58Rises DEF Rising
<1>5. \A x \in 49..122 : x # 48
  OBVIOUS
<1> QED BY <1>3, <1>4, <1>5

\* A digit is read back from its letter.
LEMMA LetterBack ==
    ASSUME NEW al, NEW lo, NEW hi, Rising(al, lo, hi), NEW n, n = Len(al), NEW k \in 0..(n - 1)
    PROVE  /\ Digit(al[k + 1], al) = k /\ k + 1 \in 1..n
           /\ al[k + 1] \in lo..hi /\ al[k + 1] \in Nat
<1>1. n \in Nat /\ (\A i \in 1..n : al[i] \in lo..hi) /\ al \in Seq(Nat) /\ lo \in Nat /\ hi \in Nat
  BY LenProperties DEF Rising
<1>2. k + 1 \in 1..n
  BY <1>1
<1>3. ASSUME NEW i \in 1..n, NEW j \in 1..n, al[i] = al[j] PROVE i = j
  <2>1. al[i] \in Nat /\ al[j] \in Nat
    BY <1>1
  <2>2. (i < j => al[i] < al[j]) /\ (j < i => al[j] < al[i])
    BY DEF Rising
  <2> QED BY <1>3, <2>1, <2>2
<1> DEFINE x == al[k + 1]
           e == CHOOSE j \in 1..n : al[j] = x
<1>4. e \in 1..n /\ al[e] = x
  BY <1>2, Zenon
<1>5. Digit(x, al) = e - 1
  BY Zenon DEF Digit
<1> HIDE DEF e
<1>6. e = k + 1
  BY <1>2, <1>3, <1>4
<1>7. e - 1 = k
  BY <1>6
<1>8. x \in lo..hi /\ x \in Nat
  BY <1>1, <1>2
<1> QED BY <1>2, <1>5, <1>7, <1>8

-----------------------------------------------------------------------------
(* Base58.                                                                 *)

ZerosOf(z) == [i \in 1..z |-> 0]

\* Zeros in front of a text without any are its zeros.
LEMMA ZerosInFront ==
    ASSUME NEW d \in Bases, NEW r \in Digits(d), Plain(r), NEW z \in Nat
    PROVE  LET w == ZerosOf(z) \o r IN w \in Digits(d) /\ Len(w) = z + Len(r) /\ Zeros(w) = z /\ Stripped(w) = r
<1> DEFINE o == ZerosOf(z)
           w == o \o r
           n == Len(r)
           S == 0..(d - 1)
<1>1. r \in Seq(S) /\ n \in Nat /\ o \in Seq(S) /\ Len(o) = z /\ \A i \in 1..z : o[i] = 0
  <2>1. 0 \in S
    BY DEF Bases
  <2> HIDE DEF S
  <2>2. o \in Seq(S) /\ Len(o) = z /\ \A i \in 1..z : o[i] = 0
    BY <2>1 DEF ZerosOf
  <2> QED BY <2>2, DigitsOf DEF Digits, S
<1> HIDE DEF S, o
<1>2. w \in Seq(S) /\ Len(w) = z + n
  BY <1>1, ConcatProperties
<1>3. \A i \in 1..(z + n) : w[i] = IF i <= z THEN o[i] ELSE r[i - z]
  BY <1>1, ConcatProperties
<1>4. w \in Digits(d)
  BY <1>2 DEF Digits, S
<1> HIDE DEF w, n
<1>5. IsZeros(w, z)
  <2>1. z \in 0..Len(w) /\ \A i \in 1..z : w[i] = 0
    BY <1>1, <1>2, <1>3
  <2>2. ASSUME z < Len(w) PROVE w[z + 1] # 0
    <3>1. n # 0 /\ z + 1 \in 1..(z + n) /\ ~(z + 1 <= z) /\ (z + 1) - z = 1
      BY <1>1, <1>2, <2>2
    <3>2. w[z + 1] = r[1]
      BY <1>3, <3>1
    <3>3. r # <<>>
      BY <3>1 DEF n
    <3> QED BY <3>2, <3>3 DEF Plain
  <2> QED BY <2>1, <2>2 DEF IsZeros
<1>6. Zeros(w) = z
  <2>1. w \in Seq(Nat)
    BY <1>4, DigitsOf
  <2> QED BY <1>5, <2>1, ZerosCount
<1>7. Stripped(w) = r
  <2> DEFINE u == Stripped(w)
  <2>1. u \in Digits(d) /\ Len(u) = Len(w) - z /\ \A i \in 1..(Len(w) - z) : u[i] = w[z + i]
    BY <1>4, <1>6, StrippedText
  <2> HIDE DEF u
  <2>2. Len(u) = n /\ Len(w) - z = n
    BY <1>1, <1>2, <2>1
  <2>3. ASSUME NEW i \in 1..n PROVE u[i] = r[i]
    <3>1. z + i \in 1..(z + n) /\ ~(z + i <= z) /\ (z + i) - z = i
      BY <1>1
    <3> QED BY <1>3, <2>1, <2>2, <3>1
  <2>4. u \in Seq(Nat) /\ r \in Seq(Nat)
    BY <2>1, DigitsOf
  <2>5. u = r
    BY <2>2, <2>3, <2>4, SeqEqual DEF n
  <2> QED BY <2>5 DEF u
<1> QED BY <1>2, <1>4, <1>6, <1>7 DEF w, o, n

\* A text is its zeros and what is left without them.
LEMMA Restored ==
    ASSUME NEW d \in Bases, NEW v \in Digits(d)
    PROVE  ZerosOf(Zeros(v)) \o Stripped(v) = v
<1> DEFINE z == Zeros(v)
           n == Len(v)
           o == ZerosOf(z)
           u == Stripped(v)
           w == o \o u
<1>1. /\ z \in 0..n /\ n \in Nat /\ u \in Digits(d) /\ Len(u) = n - z
      /\ \A i \in 1..(n - z) : u[i] = v[z + i]
      /\ Plain(u) /\ (\A i \in 1..z : v[i] = 0)
  BY StrippedText
<1>2. u \in Seq(Nat) /\ v \in Seq(Nat)
  BY <1>1, DigitsOf
<1> HIDE DEF z, n, u
<1>3. o \in Seq(Nat) /\ Len(o) = z /\ \A i \in 1..z : o[i] = 0
  BY <1>1 DEF ZerosOf
<1> HIDE DEF o
<1>4. w \in Seq(Nat) /\ Len(w) = z + (n - z)
  BY <1>1, <1>2, <1>3, ConcatProperties
<1>5. \A i \in 1..(z + (n - z)) : w[i] = IF i <= z THEN o[i] ELSE u[i - z]
  BY <1>1, <1>2, <1>3, ConcatProperties, SMTT(60)
<1> HIDE DEF w
<1>6. Len(w) = n
  BY <1>1, <1>4
<1>7. ASSUME NEW i \in 1..n PROVE w[i] = v[i]
  <2>1. i \in 1..(z + (n - z))
    BY <1>1
  <2>2. CASE i <= z
    <3>1. i \in 1..z
      BY <1>1, <2>2
    <3> QED BY <1>1, <1>3, <1>5, <2>1, <2>2, <3>1
  <2>3. CASE ~(i <= z)
    <3>1. i - z \in 1..(n - z) /\ z + (i - z) = i
      BY <1>1, <2>3
    <3> QED BY <1>1, <1>5, <2>1, <2>3, <3>1
  <2> QED BY <2>2, <2>3
<1>8. w = v
  BY <1>2, <1>4, <1>6, <1>7, SeqEqual DEF n
<1> QED BY <1>8 DEF w, o, u, z

\* What is encoded, and its digits.
Values(b) == [i \in 1..Len(b) |-> Value(b[i])]
Base58Digits(b) == ZerosOf(Zeros(Values(b))) \o Rebase(Values(b), 256, 58)

LEMMA ValuesDigits ==
    ASSUME NEW b \in Seq(Byte)
    PROVE  Values(b) \in Digits(256) /\ Len(Values(b)) = Len(b) /\ \A i \in 1..Len(b) : Values(b)[i] = Value(b[i])
<1> DEFINE n == Len(b)
           v == Values(b)
           S == 0..255
<1>1. n \in Nat /\ \A i \in 1..n : Value(b[i]) \in S
  <2>1. n \in Nat /\ \A i \in 1..n : b[i] \in Byte
    BY ElementOfSeq, LenProperties
  <2> QED BY <2>1, ValueBack
<1>2. v = [i \in 1..n |-> Value(b[i])]
  BY DEF Values
<1> HIDE DEF v, n, S
<1>3. v \in Seq(S) /\ Len(v) = n /\ \A i \in 1..n : v[i] = Value(b[i])
  BY <1>1, <1>2
<1>4. 256 - 1 = 255
  OBVIOUS
<1> QED BY <1>3, <1>4 DEF v, n, S, Digits

\* The digits of base58Encode: as many zeros as there are zero bytes, then the
\* number.
LEMMA Base58DigitsOK ==
    ASSUME NEW b \in Seq(Byte)
    PROVE  LET w == Base58Digits(b)
               v == Values(b)
           IN  /\ w \in Digits(58) /\ Zeros(w) = Zeros(v) /\ Rebase(w, 58, 256) = Stripped(v)
               /\ ZerosOf(Zeros(w)) \o Rebase(w, 58, 256) = v
<1> DEFINE w == Base58Digits(b)
           v == Values(b)
           r == Rebase(v, 256, 58)
           z == Zeros(v)
<1>1. v \in Digits(256) /\ 58 \in Bases /\ 256 \in Bases /\ Rebased(256, 58)
  BY ValuesDigits DEF Bases, Rebased
<1>2. PICK m \in Nat : Number(v, 256, m)
  BY <1>1, NumberExists
<1>3. r \in Digits(58) /\ Plain(r)
  BY <1>1, <1>2, RebaseNumber
<1>4. z \in Nat
  <2>1. z \in 0..Len(v) /\ Len(v) \in Nat
    BY <1>1, StrippedText
  <2> QED BY <2>1
<1>5. w = ZerosOf(z) \o r
  BY Zenon DEF Base58Digits
<1> HIDE DEF w, v, r, z
<1>6. w \in Digits(58) /\ Zeros(w) = z /\ Stripped(w) = r
  BY <1>1, <1>3, <1>4, <1>5, ZerosInFront
<1>7. Rebase(w, 58, 256) = Stripped(v)
  BY <1>1, <1>6, RebaseBack DEF r
<1>8. ZerosOf(z) \o Stripped(v) = v
  BY <1>1, Restored DEF z
<1> QED BY <1>6, <1>7, <1>8 DEF w, v, z

\* base58.Decode undoes base58.Encode, whatever the bytes are; the text is one
\* of letters of its alphabet.
LEMMA Base58Back ==
    ASSUME NEW b \in Seq(Byte)
    PROVE  LET t == base58Encode(b)
           IN  /\ t \in Seq(49..122) /\ Len(t) = Len(Base58Digits(b)) /\ InAlphabet(t, Base58Alphabet)
               /\ base58Decode(t) = b
<1> DEFINE al == Base58Alphabet
           w == Base58Digits(b)
           v == Values(b)
           n == Len(w)
           t == [i \in 1..n |-> al[w[i] + 1]]
           L == 49..122
<1>1. /\ w \in Digits(58) /\ ZerosOf(Zeros(w)) \o Rebase(w, 58, 256) = v
  BY Base58DigitsOK
<1>2. base58Encode(b) = t
  BY Zenon DEF base58Encode, Base58Digits, Values, ZerosOf
<1>3. n \in Nat /\ w \in Seq(Nat) /\ \A i \in 1..n : w[i] \in 0..57
  <2>1. 58 \in Bases /\ 58 - 1 = 57
    BY DEF Bases
  <2> QED BY <1>1, <2>1, DigitsOf, ZenonT(60)
<1>4. Rising(al, 49, 122) /\ Len(al) = 58
  BY Base58Rises
<1> HIDE DEF al, w, n, L
<1>5. ASSUME NEW k \in 0..57 PROVE Digit(al[k + 1], al) = k /\ k + 1 \in 1..Len(al) /\ al[k + 1] \in L
  <2> DEFINE m == Len(al)
             lo == 49
             hi == 122
  <2>1. k \in 0..(m - 1) /\ Rising(al, lo, hi) /\ L = lo..hi
    BY <1>4 DEF L
  <2> HIDE DEF m, lo, hi
  <2>2. Digit(al[k + 1], al) = k /\ k + 1 \in 1..m /\ al[k + 1] \in lo..hi
    BY <2>1, LetterBack DEF m
  <2> QED BY <2>1, <2>2 DEF m
<1>6. t \in Seq(L) /\ Len(t) = n /\ \A i \in 1..n : t[i] = al[w[i] + 1]
  <2>1. \A i \in 1..n : al[w[i] + 1] \in L
    BY <1>3, <1>5
  <2> QED BY <1>3, <2>1
<1> HIDE DEF t
<1>7. InAlphabet(t, al)
  BY <1>3, <1>5, <1>6 DEF InAlphabet
<1>8. [i \in 1..Len(t) |-> Digit(t[i], al)] = w
  <2>1. \A i \in 1..n : Digit(t[i], al) = w[i]
    BY <1>3, <1>5, <1>6
  <2>2. w = [i \in 1..n |-> w[i]]
    BY <1>3, LenProperties DEF n
  <2> QED BY <1>6, <2>1, <2>2
<1>9. base58Decode(t) = [i \in 1..Len(v) |-> ByteOf(v[i])]
  <2>1. base58Decode(t) = LET u == ZerosOf(Zeros(w)) \o Rebase(w, 58, 256)
                          IN  [i \in 1..Len(u) |-> ByteOf(u[i])]
    BY <1>8, Zenon DEF base58Decode, ZerosOf, al
  <2> HIDE DEF v
  <2> QED BY <1>1, <2>1
<1>10. [i \in 1..Len(v) |-> ByteOf(v[i])] = b
  <2> DEFINE m == Len(b)
  <2>1. m \in Nat /\ b = [i \in 1..m |-> b[i]] /\ \A i \in 1..m : b[i] \in Byte
    BY ElementOfSeq, LenProperties
  <2>2. Len(v) = m /\ \A i \in 1..m : v[i] = Value(b[i])
    BY ValuesDigits
  <2> HIDE DEF v, m
  <2>3. \A i \in 1..m : ByteOf(v[i]) = b[i]
    BY <2>1, <2>2, ValueBack
  <2> QED BY <2>1, <2>2, <2>3
<1> QED BY <1>2, <1>6, <1>7, <1>9, <1>10 DEF n, w, al, L

\* A byte below 58 is one letter.
LEMMA OneLetter ==
    ASSUME NEW b \in Byte, Value(b) \in 0..57
    PROVE  Len(base58Encode(<<b>>)) = 1
<1> DEFINE x == Value(b)
           v == Values(<<b>>)
           r == Rebase(v, 256, 58)
           w == Base58Digits(<<b>>)
<1>1. <<b>> \in Seq(Byte) /\ Len(<<b>>) = 1 /\ <<b>>[1] = b
  OBVIOUS
<1>2. v \in Digits(256) /\ v = <<x>>
  <2>1. v \in Digits(256) /\ Len(v) = 1 /\ \A i \in 1..1 : v[i] = Value(<<b>>[i])
    BY <1>1, ValuesDigits
  <2>2. v \in Seq(Nat)
    BY <2>1, DigitsOf DEF Bases
  <2> HIDE DEF v
  <2>3. v[1] = x
    BY <1>1, <2>1
  <2> QED BY <2>1, <2>2, <2>3
<1>3. x \in Nat /\ x \in 0..57 /\ 58 \in Bases /\ 256 \in Bases /\ Rebased(256, 58)
  BY DEF Bases, Rebased
<1> HIDE DEF x, v
<1>4. ASSUME NEW d \in Bases PROVE Number(<<x>>, d, x)
  <2> DEFINE N == [i \in 0..1 |-> IF i = 0 THEN 0 ELSE x]
  <2>1. N \in [0..1 -> Nat] /\ N[0] = 0 /\ N[1] = x /\ Len(<<x>>) = 1
    BY <1>3
  <2>2. 0 * d + x = x /\ 1 - 1 = 0
    BY <1>3 DEF Bases
  <2> HIDE DEF N
  <2>3. ASSUME NEW i \in 1..1 PROVE N[i] = N[i - 1] * d + <<x>>[i]
    <3>1. i = 1
      OBVIOUS
    <3> QED BY <2>1, <2>2, <3>1
  <2>4. Reading(N, <<x>>, d)
    BY <2>1, <2>3 DEF Reading
  <2> QED BY <2>1, <2>4 DEF Number
<1>5. r \in Digits(58) /\ Plain(r) /\ Number(r, 58, x)
  BY <1>2, <1>3, <1>4, RebaseNumber
<1>6. w = ZerosOf(Zeros(v)) \o r
  BY Zenon DEF Base58Digits, v
<1>7. Len(base58Encode(<<b>>)) = Len(w)
  BY <1>1, Base58Back
<1>8. v \in Seq(Nat)
  BY <1>2, <1>3, DigitsOf
<1>z. Zeros(v) \in Nat => Len(w) = Zeros(v) + Len(r)
  <2> DEFINE z == Zeros(v)
             d == 58
  <2>1. d \in Bases /\ r \in Digits(d) /\ Plain(r) /\ w = ZerosOf(z) \o r
    BY <1>3, <1>5, <1>6, SMTT(60)
  <2> HIDE DEF z, d, w, r
  <2>2. z \in Nat => Len(w) = z + Len(r)
    BY <2>1, ZerosInFront
  <2> QED BY <2>2 DEF z
<1> HIDE DEF r, w
<1>9. CASE x = 0
  <2>1. IsZeros(v, 1)
    BY <1>2, <1>9 DEF IsZeros
  <2>2. Zeros(v) = 1
    BY <1>8, <2>1, ZerosCount
  <2>3. <<>> \in Digits(58) /\ Plain(<<>>) /\ Len(<<>>) = 0
    BY DEF Digits, Plain
  <2>4. Number(<<>>, 58, 0)
    <3> DEFINE O == [i \in 0..0 |-> 0]
    <3>1. Reading(O, <<>>, 58) /\ O[Len(<<>>)] = 0
      BY DEF Reading
    <3> QED BY <3>1 DEF Number
  <2>5. Len(r) \in Nat
    BY <1>3, <1>5, DigitsOf
  <2>6. <<>> = r
    <3>1. Len(<<>>) <= Len(r)
      BY <2>3, <2>5
    <3> QED BY <1>3, <1>5, <1>9, <2>3, <2>4, <3>1, PlainUnique
  <2>7. Len(w) = 1 + Len(r)
    BY <1>z, <2>2
  <2> QED BY <1>7, <2>6, <2>7
<1>10. CASE x # 0
  <2>1. IsZeros(v, 0)
    BY <1>2, <1>10 DEF IsZeros
  <2>2. Zeros(v) = 0
    BY <1>8, <2>1, ZerosCount
  <2>3. <<x>> \in Digits(58) /\ Plain(<<x>>) /\ Len(<<x>>) = 1
    BY <1>3, <1>10 DEF Digits, Plain
  <2>4. Number(<<x>>, 58, x)
    BY <1>3, <1>4
  <2>5. Len(r) \in Nat
    BY <1>3, <1>5, DigitsOf
  <2>6. r = <<x>>
    <3>1. Len(<<x>>) <= Len(r) \/ Len(r) <= Len(<<x>>)
      BY <2>3, <2>5
    <3> QED BY <1>3, <1>5, <2>3, <2>4, <3>1, PlainUnique
  <2>7. Len(w) = 0 + Len(r)
    BY <1>z, <2>2
  <2> QED BY <1>7, <2>3, <2>5, <2>6, <2>7
<1> QED BY <1>9, <1>10

\* Network and features are numbers below 58: one letter each in base58.
LEMMA SmallByte ==
    ASSUME NEW b \in Byte, 6 \notin b, 7 \notin b, 5 \in b => 3 \notin b /\ 4 \notin b
    PROVE  Value(b) \in 0..57 /\ (3 \notin b /\ 4 \notin b /\ 5 \notin b => Value(b) \in 0..7)
<1>1. /\ bit(b, 0) \in 0..1 /\ bit(b, 1) \in 0..2 /\ bit(b, 2) \in 0..4 /\ bit(b, 3) \in 0..8
      /\ bit(b, 4) \in 0..16 /\ bit(b, 5) \in 0..32 /\ bit(b, 6) = 0 /\ bit(b, 7) = 0
      /\ (3 \notin b => bit(b, 3) = 0) /\ (4 \notin b => bit(b, 4) = 0) /\ (5 \notin b => bit(b, 5) = 0)
  BY DEF bit, weights
<1> QED BY <1>1 DEF Value

LEMMA NetworkValue == ASSUME NEW n \in Networks PROVE Value(n) \in 0..57
<1>1. PICK k \in {0, 1, 2, 16, 36, 38} : n = ByteOf(k)
  BY DEF Networks
<1>2. weights[4] = 8 /\ weights[5] = 16 /\ weights[6] = 32 /\ weights[7] = 64 /\ weights[8] = 128
  BY DEF weights
<1>3. /\ 3 \in n <=> (k \div 8) % 2 = 1
      /\ 4 \in n <=> (k \div 16) % 2 = 1
      /\ 5 \in n <=> (k \div 32) % 2 = 1
      /\ 6 \in n <=> (k \div 64) % 2 = 1
      /\ 7 \in n <=> (k \div 128) % 2 = 1
  BY <1>1, <1>2 DEF ByteOf, Bits
<1>4. 6 \notin n /\ 7 \notin n /\ (5 \in n => 3 \notin n /\ 4 \notin n)
  BY <1>3
<1>5. n \in Byte
  BY FlagBytes
<1> QED BY <1>4, <1>5, SmallByte

LEMMA FeatureValue == ASSUME NEW f, f \subseteq validFeatureBits PROVE Value(f) \in 0..7 /\ Value(f) \in 0..57
<1>1. f \in Byte
  BY FlagBytes
<1>2. 3 \notin f /\ 4 \notin f /\ 5 \notin f /\ 6 \notin f /\ 7 \notin f
  BY DEF validFeatureBits, FeaturePaymentID, FeatureInteractive, FeatureOneSided
<1> QED BY <1>1, <1>2, SmallByte

LEMMA TwoTogether ==
    ASSUME NEW S, NEW p \in Seq(S), NEW q \in Seq(S), Len(p) = 1, Len(q) = 1
    PROVE  p \o q \in Seq(S) /\ Len(p \o q) = 2 /\ (p \o q)[1] = p[1] /\ (p \o q)[2] = q[1]
<1> DEFINE w == p \o q
<1>1. w \in Seq(S) /\ Len(w) = Len(p) + Len(q)
  BY ConcatProperties, Zenon
<1>2. \A i \in 1 .. Len(p) + Len(q) : w[i] = IF i <= Len(p) THEN p[i] ELSE q[i - Len(p)]
  BY ConcatProperties, Zenon
<1> HIDE DEF w
<1>3. \A i \in 1..2 : w[i] = IF i <= 1 THEN p[i] ELSE q[i - 1]
  BY <1>2
<1>4. w[1] = p[1] /\ w[2] = q[1]
  BY <1>3
<1>5. Len(w) = 2
  BY <1>1
<1> QED BY <1>1, <1>4, <1>5 DEF w

\* The three pieces of the text are those that were written.
LEMMA Base58Reads ==
    ASSUME NEW a, Shaped(a)
    PROVE  LET s == Base58(a)
           IN  /\ s \in Seq(49..122) /\ Len(s) > 0 /\ InAlphabet(s, Base58Alphabet)
               /\ SplitDecoded(s) = Bytes(a)
<1> DEFINE b == Bytes(a)
           n == Len(b)
           S == 49..122
           c == SubSeq(b, 3, n)
           p == base58Encode(<<b[1]>>)
           q == base58Encode(<<b[2]>>)
           r == base58Encode(c)
           pq == p \o q
           s == pq \o r
<1>1. b \in Seq(Byte) /\ b[1] = a.network /\ b[2] = a.features
  BY BytesFields DEF Shaped
<1>2. n \in Nat /\ n > 3 /\ \A i \in 1..n : b[i] \in Byte
  BY <1>1, BytesSize, LenProperties, ElementOfSeq
<1>3. Base58(a) = s
  BY Zenon DEF Base58
<1>4. b[1] \in Byte /\ b[2] \in Byte /\ Value(b[1]) \in 0..57 /\ Value(b[2]) \in 0..57
  <2>1. a.network \in Networks /\ a.features \subseteq validFeatureBits
    BY DEF Shaped
  <2> QED BY <1>1, <2>1, NetworkValue, FeatureValue, FlagBytes
<1> HIDE DEF b, n
<1>5. c \in Seq(Byte) /\ Len(c) = n - 2 /\ \A i \in 1..(n - 2) : c[i] = b[i + 2]
  BY <1>1, <1>2
<1> HIDE DEF c, S
<1> DEFINE one == <<b[1]>>
           two == <<b[2]>>
<1>6. one \in Seq(Byte) /\ two \in Seq(Byte)
  BY <1>4
<1>7. /\ p \in Seq(S) /\ InAlphabet(p, Base58Alphabet) /\ base58Decode(p) = one
      /\ q \in Seq(S) /\ InAlphabet(q, Base58Alphabet) /\ base58Decode(q) = two
      /\ r \in Seq(S) /\ InAlphabet(r, Base58Alphabet) /\ base58Decode(r) = c
  <2> HIDE DEF one, two
  <2>1. ASSUME NEW x \in Seq(Byte)
        PROVE  /\ base58Encode(x) \in Seq(S) /\ InAlphabet(base58Encode(x), Base58Alphabet)
               /\ base58Decode(base58Encode(x)) = x
    BY Base58Back DEF S
  <2> QED BY <1>5, <1>6, <2>1 DEF one, two
<1>8. Len(p) = 1 /\ Len(q) = 1
  BY <1>4, OneLetter
<1> HIDE DEF p, q, r
<1>9. pq \in Seq(S) /\ Len(pq) = 2 /\ pq[1] = p[1] /\ pq[2] = q[1]
  BY <1>7, <1>8, TwoTogether
<1> HIDE DEF pq
<1> DEFINE m == Len(r)
<1>10. m \in Nat
  BY <1>7, LenProperties
<1>11. s \in Seq(S) /\ Len(s) = 2 + m /\ Stands(s, 2, r)
  BY <1>7, <1>9, Appended
<1>12. s[1] = p[1] /\ s[2] = q[1]
  <2>1. Stands(pq, 0, pq) /\ 0 \in Nat
    BY <1>9 DEF Stands
  <2>2. Stands(s, 0, pq)
    BY <1>7, <1>9, <2>1, Kept
  <2> HIDE DEF s
  <2>3. s[0 + 1] = pq[1] /\ s[0 + 2] = pq[2]
    BY <1>9, <2>2 DEF Stands
  <2> QED BY <1>9, <2>3
<1> HIDE DEF s, m
<1>13. SubSeq(s, 3, Len(s)) = r
  <2>1. SubSeq(s, 2 + 1, 2 + Len(r)) = r
    BY <1>7, <1>11, CutOut
  <2> QED BY <1>11, <2>1 DEF m
<1>14. <<s[1]>> = p /\ <<s[2]>> = q
  BY <1>7, <1>8, <1>12
<1>15. SplitDecoded(s) = one \o two \o c
  BY <1>7, <1>13, <1>14, Zenon DEF SplitDecoded
<1>16. one \o two \o c = b
  <2> DEFINE ot == one \o two
             w == ot \o c
  <2>1. Len(one) = 1 /\ one[1] = b[1] /\ Len(two) = 1 /\ two[1] = b[2]
    OBVIOUS
  <2> HIDE DEF one, two
  <2>2. ot \in Seq(Byte) /\ Len(ot) = 2 /\ ot[1] = b[1] /\ ot[2] = b[2]
    BY <1>6, <2>1, TwoTogether
  <2> HIDE DEF ot
  <2>3. w \in Seq(Byte) /\ Len(w) = 2 + (n - 2)
    <3>1. w \in Seq(Byte) /\ Len(w) = Len(ot) + Len(c)
      BY <1>5, <2>2, Appended
    <3> QED BY <1>5, <2>2, <3>1
  <2>4. Stands(w, 2, c) /\ w[1] = ot[1] /\ w[2] = ot[2]
    <3>1. Stands(w, Len(ot), c)
      BY <1>5, <2>2, Appended
    <3>2. Stands(ot, 0, ot) /\ 0 \in Nat
      BY <2>2 DEF Stands
    <3>3. Stands(w, 0, ot)
      BY <1>5, <2>2, <3>2, Kept
    <3> HIDE DEF w
    <3>4. w[0 + 1] = ot[1] /\ w[0 + 2] = ot[2]
      BY <2>2, <3>3 DEF Stands
    <3> QED BY <2>2, <3>1, <3>4
  <2> HIDE DEF w
  <2>5. Len(w) = n
    BY <1>2, <2>3
  <2>6. ASSUME NEW i \in 1..n PROVE w[i] = b[i]
    <3>2. CASE i <= 2
      <4>1. i = 1 \/ i = 2
        BY <1>2, <3>2
      <4> QED BY <2>2, <2>4, <4>1
    <3>3. CASE ~(i <= 2)
      <4>1. i - 2 \in 1..(n - 2) /\ (i - 2) + 2 = i /\ 2 + (i - 2) = i
        BY <1>2, <3>3
      <4>2. w[2 + (i - 2)] = c[i - 2]
        BY <1>5, <2>4, <4>1 DEF Stands
      <4> QED BY <1>5, <4>1, <4>2
    <3> QED BY <3>2, <3>3
  <2>7. w = b
    BY <1>1, <2>3, <2>5, <2>6, SeqEqual DEF n
  <2> QED BY <2>7 DEF w, ot
<1>17. InAlphabet(s, Base58Alphabet)
  <2> DEFINE al == Base58Alphabet
             In(x) == \E d \in 1..Len(al) : al[d] = x
  <2>1. In(p[1]) /\ In(q[1]) /\ \A i \in 1..m : In(r[i])
    BY <1>7, <1>8 DEF InAlphabet, m
  <2> HIDE DEF In
  <2>2. ASSUME NEW i \in 1..Len(s) PROVE In(s[i])
    <3>1. CASE i = 1
      BY <1>12, <2>1, <3>1
    <3>2. CASE i = 2
      BY <1>12, <2>1, <3>2
    <3>3. CASE i # 1 /\ i # 2
      <4>1. i - 2 \in 1..m /\ 2 + (i - 2) = i
        BY <1>10, <1>11, <3>3
      <4>2. s[2 + (i - 2)] = r[i - 2]
        BY <1>11, <4>1 DEF Stands, m
      <4> QED BY <2>1, <4>1, <4>2
    <3> QED BY <3>1, <3>2, <3>3
  <2> QED BY <2>2 DEF InAlphabet, In
<1>18. Len(s) > 0
  BY <1>10, <1>11
<1> QED BY <1>3, <1>11, <1>15, <1>16, <1>17, <1>18 DEF S, b

-----------------------------------------------------------------------------
(* Hexadecimal.                                                            *)

Nibble(b, i) == IF i % 2 = 1 THEN Value(b[(i + 1) \div 2]) \div 16 ELSE Value(b[i \div 2]) % 16
HexOf(b) == [i \in 1..(2 * Len(b)) |-> HexAlphabet[Nibble(b, i) + 1]]
HexBytes(s) == [i \in 1..(Len(s) \div 2) |->
                  ByteOf(16 * Digit(s[2 * i - 1], HexAlphabet) + Digit(s[2 * i], HexAlphabet))]

\* The bytes of a hexadecimal text are the bytes that were written.
LEMMA HexBack ==
    ASSUME NEW b \in Seq(Byte)
    PROVE  LET s == HexOf(b)
           IN  /\ s \in Seq(48..102) /\ Len(s) = 2 * Len(b) /\ Len(s) % 2 = 0
               /\ InAlphabet(s, HexAlphabet) /\ HexBytes(s) = b
               /\ \A i \in 1..Len(b) : s[2 * i - 1] = HexAlphabet[(Value(b[i]) \div 16) + 1]
<1> DEFINE al == HexAlphabet
           n == Len(b)
           s == HexOf(b)
           N(i) == Nibble(b, i)
           L == 48..102
<1>1. n \in Nat /\ b = [i \in 1..n |-> b[i]] /\ \A i \in 1..n : b[i] \in Byte
  BY ElementOfSeq, LenProperties
<1>2. s = [i \in 1..(2 * n) |-> al[N(i) + 1]]
  BY Zenon DEF HexOf
<1>3. Rising(al, 48, 102) /\ Len(al) = 16
  BY HexRises
<1> HIDE DEF al, n, s, L
<1>4. ASSUME NEW k \in 0..15 PROVE Digit(al[k + 1], al) = k /\ k + 1 \in 1..Len(al) /\ al[k + 1] \in L
  <2> DEFINE m == Len(al)
             lo == 48
             hi == 102
  <2>1. k \in 0..(m - 1) /\ Rising(al, lo, hi) /\ L = lo..hi
    BY <1>3 DEF L
  <2> HIDE DEF m, lo, hi
  <2>2. Digit(al[k + 1], al) = k /\ k + 1 \in 1..m /\ al[k + 1] \in lo..hi
    BY <2>1, LetterBack DEF m
  <2> QED BY <2>1, <2>2 DEF m
<1>5. ASSUME NEW x \in 0..255 PROVE x \div 16 \in 0..15 /\ x % 16 \in 0..15 /\ 16 * (x \div 16) + (x % 16) = x
  OBVIOUS
<1>6. ASSUME NEW i \in 1..n
      PROVE  /\ N(2 * i - 1) = Value(b[i]) \div 16 /\ N(2 * i) = Value(b[i]) % 16
             /\ Value(b[i]) \in 0..255 /\ 2 * i - 1 \in 1..(2 * n) /\ 2 * i \in 1..(2 * n)
  <2>1. /\ (2 * i - 1) % 2 = 1 /\ ((2 * i - 1) + 1) \div 2 = i /\ (2 * i) % 2 = 0 /\ (2 * i) \div 2 = i
        /\ 2 * i - 1 \in 1..(2 * n) /\ 2 * i \in 1..(2 * n)
    <3>1. i \in Nat /\ i >= 1 /\ i <= n
      BY <1>1
    <3>2. 2 * i - 1 \in 1..(2 * n) /\ 2 * i \in 1..(2 * n)
      BY <1>1, <3>1
    <3>3. (2 * i - 1) % 2 = 1
      BY <3>1
    <3>4. (2 * i) % 2 = 0
      BY <3>1
    <3>5. ((2 * i - 1) + 1) \div 2 = i
      BY <3>1
    <3>6. (2 * i) \div 2 = i
      BY <3>1
    <3> QED BY <3>2, <3>3, <3>4, <3>5, <3>6
  <2>2. Value(b[i]) \in 0..255
    BY <1>1, ValueBack
  <2>3. N(2 * i - 1) = Value(b[i]) \div 16
    BY <2>1 DEF Nibble
  <2>4. N(2 * i) = Value(b[i]) % 16
    BY <2>1 DEF Nibble
  <2> QED BY <2>1, <2>2, <2>3, <2>4
<1>7. ASSUME NEW j \in 1..(2 * n) PROVE N(j) \in 0..15
  <2>1. \E i \in 1..n : j = 2 * i - 1 \/ j = 2 * i
    <3>1. CASE j % 2 = 1
      <4>1. (j + 1) \div 2 \in 1..n /\ j = 2 * ((j + 1) \div 2) - 1
        BY <1>1, <3>1, SMTT(60)
      <4> QED BY <4>1
    <3>2. CASE j % 2 # 1
      <4>1. j \div 2 \in 1..n /\ j = 2 * (j \div 2)
        BY <1>1, <3>2
      <4> QED BY <4>1
    <3> QED BY <3>1, <3>2
  <2>2. PICK i \in 1..n : j = 2 * i - 1 \/ j = 2 * i
    BY <2>1
  <2> HIDE DEF N
  <2> QED BY <1>5, <1>6, <2>2, ZenonT(60)
<1> HIDE DEF N
<1>8. s \in Seq(L) /\ Len(s) = 2 * n /\ \A j \in 1..(2 * n) : s[j] = al[N(j) + 1]
  <2>1. \A j \in 1..(2 * n) : al[N(j) + 1] \in L
    BY <1>4, <1>7
  <2>2. 2 * n \in Nat
    BY <1>1
  <2> QED BY <1>2, <2>1, <2>2
<1>9. InAlphabet(s, al)
  BY <1>4, <1>7, <1>8 DEF InAlphabet
<1>10. (2 * n) % 2 = 0 /\ (2 * n) \div 2 = n
  BY <1>1
<1>11. ASSUME NEW i \in 1..n
       PROVE  /\ Digit(s[2 * i - 1], al) = Value(b[i]) \div 16 /\ Digit(s[2 * i], al) = Value(b[i]) % 16
              /\ s[2 * i - 1] = al[(Value(b[i]) \div 16) + 1]
  <2>1. /\ s[2 * i - 1] = al[N(2 * i - 1) + 1] /\ s[2 * i] = al[N(2 * i) + 1]
        /\ N(2 * i - 1) \in 0..15 /\ N(2 * i) \in 0..15
    BY <1>6, <1>7, <1>8
  <2>2. Digit(s[2 * i - 1], al) = N(2 * i - 1) /\ Digit(s[2 * i], al) = N(2 * i)
    BY <1>4, <2>1
  <2> QED BY <1>6, <2>1, <2>2
<1>12. HexBytes(s) = b
  <2>1. HexBytes(s) = [i \in 1..n |-> ByteOf(16 * Digit(s[2 * i - 1], al) + Digit(s[2 * i], al))]
    BY <1>8, <1>10 DEF HexBytes, al
  <2>2. ASSUME NEW i \in 1..n PROVE ByteOf(16 * Digit(s[2 * i - 1], al) + Digit(s[2 * i], al)) = b[i]
    <3>1. 16 * Digit(s[2 * i - 1], al) + Digit(s[2 * i], al) = Value(b[i])
      BY <1>5, <1>6, <1>11
    <3>2. ByteOf(Value(b[i])) = b[i]
      BY <1>1, ValueBack
    <3> QED BY <3>1, <3>2
  <2> QED BY <1>1, <2>1, <2>2
<1> QED BY <1>8, <1>9, <1>10, <1>11, <1>12 DEF s, n, al, L

\* No hexadecimal digit that is written is an upper-case one.
LEMMA HexLower == \A d \in 1..Len(HexAlphabet) : HexAlphabet[d] \notin 65..70
<1> DEFINE a == from(48, 10)
           b == from(97, 6)
           up == 65..70
           m == Len(a)
           n == Len(b)
<1>1. /\ a \in Seq(Nat) /\ \A i \in 1..m : a[i] \notin up
      /\ b \in Seq(Nat) /\ \A i \in 1..n : b[i] \notin up
  BY DEF from
<1>2. HexAlphabet = a \o b
  BY Zenon DEF HexAlphabet
<1> HIDE DEF a, b, up
<1>3. m \in Nat /\ n \in Nat
  BY <1>1, LenProperties
<1>4. /\ Len(a \o b) = m + n
      /\ \A i \in 1..(m + n) : (a \o b)[i] = IF i <= m THEN a[i] ELSE b[i - m]
  BY <1>1, ConcatProperties, Zenon
<1> HIDE DEF m, n
<1>5. ASSUME NEW i \in 1..(m + n) PROVE IF i <= m THEN i \in 1..m ELSE i - m \in 1..n
  BY <1>3
<1>6. ASSUME NEW i \in 1..(m + n) PROVE (a \o b)[i] \notin up
  BY <1>1, <1>4, <1>5, Zenon
<1> QED BY <1>2, <1>4, <1>6, Zenon DEF up

\* A text without upper-case digits is read as it stands.
LEMMA LowerSame ==
    ASSUME NEW S, NEW s \in Seq(S), \A i \in 1..Len(s) : s[i] \notin 65..70
    PROVE  LowerCase(s) = s
<1>1. s = [i \in 1..Len(s) |-> s[i]]
  BY LenProperties
<1>2. LowerCase(s) = [i \in 1..Len(s) |-> s[i]]
  BY Zenon DEF LowerCase
<1> QED BY <1>1, <1>2

\* The readers of hexadecimal texts read the bytes.
LEMMA HexReads ==
    ASSUME NEW S, NEW s \in Seq(S), Len(s) % 2 = 0, InAlphabet(s, HexAlphabet)
    PROVE  /\ FromHex(s) = FromBytes(HexBytes(s))
           /\ SingleAddressFromHex(s) = SingleAddressFromBytes(HexBytes(s))
           /\ DualAddressFromHex(s) = DualAddressFromBytes(HexBytes(s))
<1>1. Len(s) % 2 # 1
  OBVIOUS
<1>2. \A i \in 1..Len(s) : s[i] \notin 65..70
  BY HexLower, Zenon DEF InAlphabet
<1>3. LowerCase(s) = s
  BY <1>2, LowerSame, Zenon
<1> QED BY <1>1, <1>3, Zenon DEF FromHex, SingleAddressFromHex, DualAddressFromHex, FromHexWith, HexBytes

LEMMA HexWritten == ASSUME NEW a PROVE Hex(a) = HexOf(Bytes(a))
BY Zenon DEF Hex, HexOf, Nibble

\* The third digit of the text, the high half of the feature flags, is 0: Parse
\* never takes the text of an address for one in base58.
LEMMA HexNotBase58 ==
    ASSUME NEW a, Shaped(a)
    PROVE  ~InAlphabet(HexOf(Bytes(a)), Base58Alphabet)
<1> DEFINE b == Bytes(a)
           s == HexOf(b)
           al == Base58Alphabet
<1>1. b \in Seq(Byte) /\ b[2] = a.features /\ Len(b) > 3
  BY BytesFields, BytesSize DEF Shaped
<1>2. Value(b[2]) \in 0..7
  BY <1>1, FeatureValue DEF Shaped
<1> DEFINE n == Len(b)
<1>3. n \in Nat /\ n > 3
  BY <1>1, LenProperties
<1>4. /\ Len(s) = 2 * n
      /\ \A i \in 1..n : s[2 * i - 1] = HexAlphabet[(Value(b[i]) \div 16) + 1]
  BY <1>1, HexBack
<1> HIDE DEF s, b, n
<1>5. 2 \in 1..n /\ 2 * 2 - 1 = 3 /\ 3 \in 1..Len(s)
  BY <1>3, <1>4
<1>6. (Value(b[2]) \div 16) + 1 = 1
  BY <1>2
<1>7. s[3] = 48
  BY <1>4, <1>5, <1>6, ZeroLetter
<1> SUFFICES ASSUME InAlphabet(s, al) PROVE FALSE
  BY DEF s, b
<1>8. PICK d \in 1..Len(al) : al[d] = s[3]
  BY <1>5 DEF InAlphabet
<1> QED BY <1>7, <1>8, ZeroLetter
-----------------------------------------------------------------------------
(* Texts of ASCII letters.                                                 *)

\* Parse does not read them as emoji.
LEMMA AsciiNotEmoji ==
    ASSUME NEW s, s \in Seq(48..122), Len(s) > 0
    PROVE  FromEmojiString(Cleaned(s)).err # "nil"
<1> DEFINE L == 48..122
           n == Len(s)
<1>1. n \in Nat /\ n > 0 /\ (\A i \in 1..n : s[i] \in L) /\ s = [i \in 1..n |-> s[i]]
  <2>1. s \in Seq(L) /\ n > 0
    OBVIOUS
  <2> HIDE DEF L
  <2> QED BY <2>1, ElementOfSeq, LenProperties
<1>2. \A x \in L : x \in Nat /\ x # Space /\ x # Bar /\ x \in 0..200
  BY DEF Space, Bar
<1> HIDE DEF L
<1>3. s \in Seq(Nat)
  BY <1>1, <1>2
<1>4. Cleaned(s) = s
  BY <1>1, <1>2, <1>3, CleanedPlain
<1>5. 1 \in 1..n
  BY <1>1
<1>6. ~IsEmoji(s[1])
  BY <1>1, <1>2, <1>5, EmojiHigh
<1>7. FromEmojiString(s) = Err("InvalidSize") \/ FromEmojiString(s) = Err("InvalidEmoji")
  BY <1>5, <1>6, Zenon DEF FromEmojiString, FromEmojiWith
<1>8. \A why : Err(why).err = why
  BY DEF Err
<1> QED BY <1>4, <1>7, <1>8

\* A base58 text that is too short for its readers is too short for an address in
\* hexadecimal as well.
LEMMA ShortNotHex ==
    ASSUME NEW S, NEW s \in Seq(S), Len(s) < Base58Sizes["single"][1]
    PROVE  FromHex(s).err # "nil"
<1> DEFINE n == Len(s)
           k == Base58Sizes["single"][1]
           t == LowerCase(s)
           b == [i \in 1..(n \div 2) |->
                   ByteOf(16 * Digit(t[2 * i - 1], HexAlphabet) + Digit(t[2 * i], HexAlphabet))]
<1>1. \A why : Err(why).err = why
  BY DEF Err
<1>2. FromHex(s) = Err("CannotRecoverPublicKey") \/ FromHex(s) = FromBytes(b)
  BY Zenon DEF FromHex, FromHexWith
<1>3. n \in Nat /\ n < k /\ k \in Nat /\ k <= 2 * (PublicKeySize + 3) /\ PublicKeySize \in Nat
  BY LenProperties, AddressAssumption
<1> HIDE DEF n, k
<1>4. n \div 2 \in Nat /\ n \div 2 < PublicKeySize + 3
  BY <1>3
<1>5. Len(b) = n \div 2
  BY <1>4
<1> HIDE DEF b
<1>6. ~SingleSize(Len(b)) /\ ~DualSize(Len(b))
  BY <1>3, <1>4, <1>5 DEF SingleSize, DualSize, SingleAddressInternalSize, DualAddressInternalSize
<1>7. FromBytes(b) = Err("InvalidSize")
  BY <1>6, Zenon DEF FromBytes
<1> QED BY <1>1, <1>2, <1>7

\* The text of an address in base58, and what its readers say of it: it is read
\* back unless it is too short or too long for them.
LEMMA ParseBase58 ==
    ASSUME NEW a, Shaped(a), NEW s, s = Base58(a)
    PROVE  /\ \/ Parse(s) = Ok(a)
              \/ ~TextFits(s, a.kind) /\ Parse(s).err = "InvalidAddressString"
           /\ a.kind = "single" => \/ SingleAddressFromBase58(s) = Ok(a)
                                   \/ ~TextFits(s, a.kind) /\ SingleAddressFromBase58(s).err = "InvalidSize"
           /\ a.kind = "dual" => \/ DualAddressFromBase58(s) = Ok(a)
                                 \/ ~TextFits(s, a.kind) /\ DualAddressFromBase58(s).err = "InvalidSize"
<1>1. s \in Seq(49..122) /\ Len(s) > 0 /\ InAlphabet(s, Base58Alphabet) /\ SplitDecoded(s) = Bytes(a)
  BY Base58Reads
<1>2. /\ FromBytes(Bytes(a)) = Ok(a)
      /\ a.kind = "single" => SingleAddressFromBytes(Bytes(a)) = Ok(a)
      /\ a.kind = "dual" => DualAddressFromBytes(Bytes(a)) = Ok(a)
  BY ReadBack
<1> DEFINE fits == Len(s) >= Base58Sizes["single"][1]
<1>3. IF fits THEN FromBase58(s) = Ok(a) ELSE FromBase58(s) = Err("InvalidSize")
  BY <1>1, <1>2, Zenon DEF FromBase58, FromBase58With
<1>e. \A why : Err(why).err = why
  BY DEF Err
<1>4. a.kind = "single" => \/ SingleAddressFromBase58(s) = Ok(a)
                           \/ ~TextFits(s, a.kind) /\ SingleAddressFromBase58(s).err = "InvalidSize"
  <2> SUFFICES ASSUME a.kind = "single"
               PROVE  IF InSizes(s, "single") THEN SingleAddressFromBase58(s) = Ok(a)
                      ELSE ~TextFits(s, a.kind) /\ SingleAddressFromBase58(s) = Err("InvalidSize")
    BY <1>e
  <2> QED BY <1>1, <1>2, Zenon DEF TextFits, SingleAddressFromBase58, FromBase58With
<1>5. a.kind = "dual" => \/ DualAddressFromBase58(s) = Ok(a)
                         \/ ~TextFits(s, a.kind) /\ DualAddressFromBase58(s).err = "InvalidSize"
  <2> SUFFICES ASSUME a.kind = "dual"
               PROVE  IF InSizes(s, "dual") THEN DualAddressFromBase58(s) = Ok(a)
                      ELSE ~TextFits(s, a.kind) /\ DualAddressFromBase58(s) = Err("InvalidSize")
    BY <1>e
  <2> QED BY <1>1, <1>2, Zenon DEF TextFits, DualAddressFromBase58, FromBase58With
<1>6. s \in Seq(48..122)
  <2> DEFINE L == 49..122
             K == 48..122
  <2>1. s \in Seq(L) /\ L \subseteq K
    BY <1>1
  <2> HIDE DEF L, K
  <2>2. s \in Seq(K)
    BY <2>1
  <2> QED BY <2>2 DEF K
<1>7. FromEmojiString(Cleaned(s)).err # "nil"
  BY <1>1, <1>6, AsciiNotEmoji
<1>8. Ok(a).err = "nil"
  BY DEF Ok
<1>9. fits => Parse(s) = Ok(a)
  BY <1>3, <1>7, <1>8, Zenon DEF Parse
<1>10. ~fits => ~TextFits(s, a.kind) /\ Parse(s).err = "InvalidAddressString"
  <2> SUFFICES ASSUME ~fits PROVE ~TextFits(s, a.kind) /\ Parse(s).err = "InvalidAddressString"
    OBVIOUS
  <2>1. ~TextFits(s, a.kind)
    BY Zenon DEF TextFits
  <2>2. Len(s) < Base58Sizes["single"][1]
    <3> DEFINE n == Len(s)
               k == Base58Sizes["single"][1]
    <3>1. n \in Nat /\ k \in Nat /\ ~(n >= k)
      BY <1>6, LenProperties, AddressAssumption
    <3> HIDE DEF n, k
    <3>2. n < k
      BY <3>1
    <3> QED BY <3>2 DEF n, k
  <2>3. FromHex(s).err # "nil"
    BY <1>6, <2>2, ShortNotHex, Zenon
  <2>4. FromBase58(s).err # "nil"
    <3>1. FromBase58(s) = Err("InvalidSize")
      BY <1>3
    <3> QED BY <1>e, <3>1
  <2>5. Parse(s) = Err("InvalidAddressString")
    BY <1>7, <2>3, <2>4, Zenon DEF Parse
  <2> QED BY <1>e, <2>1, <2>5
<1> HIDE DEF fits
<1> QED BY <1>4, <1>5, <1>9, <1>10

LEMMA NotBase58 ==
    ASSUME NEW s, ~InAlphabet(s, Base58Alphabet)
    PROVE  FromBase58(s).err # "nil"
<1>1. \A why : Err(why).err = why
  BY DEF Err
<1>2. Unrecovered(s) # "nil"
  BY DEF Unrecovered
<1>3. FromBase58(s) = Err("InvalidSize") \/ FromBase58(s) = Err(Unrecovered(s))
  BY Zenon DEF FromBase58, FromBase58With
<1> QED BY <1>1, <1>2, <1>3

\* The same in hexadecimal, whatever its size.
LEMMA ParseHex ==
    ASSUME NEW a, Shaped(a), NEW s, s = HexOf(Bytes(a))
    PROVE  /\ Parse(s) = Ok(a)
           /\ a.kind = "single" => SingleAddressFromHex(s) = Ok(a)
           /\ a.kind = "dual" => DualAddressFromHex(s) = Ok(a)
<1> DEFINE b == Bytes(a)
<1>1. b \in Seq(Byte) /\ Len(b) > 3
  BY BytesFields, BytesSize DEF Shaped
<1>2. s \in Seq(48..102) /\ Len(s) = 2 * Len(b) /\ Len(s) % 2 = 0 /\ InAlphabet(s, HexAlphabet) /\ HexBytes(s) = b
  BY <1>1, HexBack
<1>3. /\ FromHex(s) = FromBytes(b)
      /\ SingleAddressFromHex(s) = SingleAddressFromBytes(b)
      /\ DualAddressFromHex(s) = DualAddressFromBytes(b)
  BY <1>2, HexReads
<1>4. /\ FromBytes(b) = Ok(a)
      /\ a.kind = "single" => SingleAddressFromBytes(b) = Ok(a)
      /\ a.kind = "dual" => DualAddressFromBytes(b) = Ok(a)
  BY ReadBack
<1>5. s \in Seq(48..122)
  <2> DEFINE L == 48..102
             K == 48..122
  <2>1. s \in Seq(L) /\ L \subseteq K
    BY <1>2
  <2> HIDE DEF L, K
  <2>2. s \in Seq(K)
    BY <2>1
  <2> QED BY <2>2 DEF K
<1>6. Len(s) > 0
  <2> DEFINE n == Len(b)
  <2>1. n \in Nat /\ n > 3 /\ Len(s) = 2 * n
    BY <1>1, <1>2, LenProperties
  <2> HIDE DEF n
  <2> QED BY <2>1
<1>7. FromEmojiString(Cleaned(s)).err # "nil"
  BY <1>5, <1>6, AsciiNotEmoji
<1>8. FromBase58(s).err # "nil"
  <2>1. ~InAlphabet(s, Base58Alphabet)
    BY HexNotBase58
  <2> QED BY <2>1, NotBase58
<1>9. FromBase58(s).err # "nil" /\ Ok(a).err = "nil"
  BY <1>8 DEF Ok
<1>10. Parse(s) = Ok(a)
  BY <1>3, <1>4, <1>7, <1>9, Zenon DEF Parse
<1> QED BY <1>3, <1>4, <1>10

-----------------------------------------------------------------------------
(* Reading emoji ids.                                                      *)

\* Nor does an emoji stand in one of the alphabets.
LEMMA EmojiNotAscii ==
    ASSUME NEW s \in Seq(Nat), Len(s) > 0, \A i \in 1..Len(s) : IsEmoji(s[i])
    PROVE  ~InAlphabet(s, Base58Alphabet) /\ ~InAlphabet(LowerCase(s), HexAlphabet)
<1>1. 1 \in 1..Len(s)
  BY LenProperties
<1>2. ASSUME NEW al, \A d \in 1..Len(al) : al[d] \in 0..200, InAlphabet(s, al) PROVE FALSE
  <2>1. PICK d \in 1..Len(al) : al[d] = s[1]
    BY <1>1, <1>2, Zenon DEF InAlphabet
  <2> DEFINE x == s[1]
  <2>2. IsEmoji(x) /\ x \in 0..200
    BY <1>1, <1>2, <2>1, Zenon
  <2> HIDE DEF x
  <2> QED BY <2>2, EmojiHigh, Zenon
<1>3. /\ \A d \in 1..Len(Base58Alphabet) : Base58Alphabet[d] \in 0..200
      /\ \A d \in 1..Len(HexAlphabet) : HexAlphabet[d] \in 0..200
  <2> DEFINE low == 0..200
             letters == 49..122
             digits == 48..102
  <2>1. letters \subseteq low /\ digits \subseteq low
    OBVIOUS
  <2>2. /\ \A d \in 1..Len(Base58Alphabet) : Base58Alphabet[d] \in letters
        /\ \A d \in 1..Len(HexAlphabet) : HexAlphabet[d] \in digits
    BY Base58Rises, HexRises, Zenon DEF Rising
  <2> HIDE DEF low, letters, digits
  <2>3. /\ \A d \in 1..Len(Base58Alphabet) : Base58Alphabet[d] \in low
        /\ \A d \in 1..Len(HexAlphabet) : HexAlphabet[d] \in low
    BY <2>1, <2>2, Zenon
  <2> QED BY <2>3 DEF low
<1>4. LowerCase(s) = s
  <2> DEFINE up == 65..70
             low == 0..200
  <2>1. up \subseteq low
    OBVIOUS
  <2>2. \A i \in 1..Len(s) : s[i] \notin low
    BY EmojiHigh, Zenon
  <2> HIDE DEF up, low
  <2>3. \A i \in 1..Len(s) : s[i] \notin up
    BY <2>1, <2>2, Zenon
  <2> QED BY <2>3, LowerSame, Zenon DEF up
<1> QED BY <1>2, <1>3, <1>4, Zenon

\* Reading of an emoji id, as the person who got it wrote it down.
LEMMA ParseReads ==
    ASSUME NEW d \in Seq(Byte), SingleSize(Len(d)) \/ DualSize(Len(d)), Len(d) > 3,
           NEW s, s = EmojiOf(d) \/ s = Separated(EmojiOf(d))
    PROVE  /\ FromBytes(d).err = "nil" => Parse(s) = FromBytes(d)
           /\ FromBytes(d).err # "nil" /\ s = EmojiOf(d) => Parse(s).err = "InvalidAddressString"
<1> DEFINE t == EmojiOf(d)
<1>1. /\ t \in Seq(Nat) /\ Len(t) = Len(d)
      /\ \A i \in 1..Len(t) : IsEmoji(t[i]) /\ t[i] # Space /\ t[i] # Bar
  BY EmojiText
<1>2. Len(t) > 3 /\ Len(t) > 0
  <2> DEFINE n == Len(d)
  <2>1. n \in Nat /\ n > 3
    BY LenProperties
  <2> HIDE DEF n
  <2>2. n > 0
    BY <2>1
  <2> QED BY <1>1, <2>1, <2>2 DEF n
<1>3. Cleaned(s) = t
  <2>1. Cleaned(t) = t
    BY <1>1, <1>2, CleanedPlain
  <2>2. Cleaned(Separated(t)) = t
    BY <1>1, <1>2, CleanedSeparated
  <2> QED BY <2>1, <2>2
<1>4. FromEmojiString(Cleaned(s)) = FromBytes(d)
  BY <1>3, EmojiReads
<1>5. FromBytes(d).err = "nil" => Parse(s) = FromBytes(d)
  BY <1>4, Zenon DEF Parse
<1>6. ASSUME FromBytes(d).err # "nil", s = t PROVE Parse(s).err = "InvalidAddressString"
  <2>1. ~InAlphabet(s, Base58Alphabet) /\ ~InAlphabet(LowerCase(s), HexAlphabet)
    BY <1>1, <1>2, <1>6, EmojiNotAscii
  <2>2. FromBase58(s).err # "nil"
    BY <2>1, NotBase58
  <2>3. FromHex(s) = Err("CannotRecoverPublicKey")
    BY <2>1, Zenon DEF FromHex, FromHexWith
  <2>4. \A why : Err(why).err = why
    BY DEF Err
  <2>5. FromBase58(s).err # "nil" /\ FromHex(s).err # "nil"
    BY <2>2, <2>3, <2>4
  <2>6. Parse(s) = Err("InvalidAddressString")
    BY <1>4, <1>6, <2>5, Zenon DEF Parse
  <2> QED BY <2>4, <2>6
<1> QED BY <1>5, <1>6

-----------------------------------------------------------------------------
(* The life of an address.                                                 *)

\* d is what was written of the address, with the damage it has met.
Written(d) ==
    /\ d \in Seq(Byte) /\ Len(d) = Len(Bytes(addr))
    /\ damage = "none" => d = Bytes(addr)
    /\ damage = "replaced" => Replaced(Bytes(addr), d)
    /\ damage = "swapped" => Swapped(Bytes(addr), d)

TextInv ==
    /\ form \in {"none", "bytes", "emoji", "base58", "hex"}
    /\ damage \in {"none", "replaced", "swapped"}
    /\ damage # "none" => form \in {"bytes", "emoji"}
    /\ form = "none" => damage = "none" /\ out = <<>>
    /\ form = "bytes" => Written(text)
    /\ form = "emoji" => \/ \E d : Written(d) /\ text = EmojiOf(d)
                         \/ damage = "none" /\ text = Separated(EmojiOf(Bytes(addr)))
    /\ form = "base58" => text = Base58(addr)
    /\ form = "hex" => text = Hex(addr)

\* A base58 text that its readers do not allow is refused for its size.
SizeRefused(res) ==
    /\ form = "base58" /\ ~TextFits(text, addr.kind)
    /\ res.err \in {"InvalidSize", "InvalidAddressString"}

\* What a reader may return.
Answer(res) ==
    /\ damage = "none" => res = Ok(addr) \/ SizeRefused(res)
    /\ damage # "none" => \/ res.err = "InvalidChecksum"
                          \/ form = "emoji" /\ res.err = "InvalidAddressString"

OutInv == out # <<>> => Answer(out[1])

AddressInv == Shaped(addr) /\ TextInv /\ OutInv

\* What each reader of bytes says of what was written.
LEMMA WrittenReads ==
    ASSUME Shaped(addr), damage \in {"none", "replaced", "swapped"}, NEW d, Written(d)
    PROVE  LET Says(res) == /\ damage = "none" => res = Ok(addr)
                            /\ damage # "none" => res.err = "InvalidChecksum"
           IN  /\ Says(FromBytes(d))
               /\ addr.kind = "single" => Says(SingleAddressFromBytes(d))
               /\ addr.kind = "dual" => Says(DualAddressFromBytes(d))
<1>1. CASE damage = "none"
  <2>1. d = Bytes(addr)
    BY <1>1 DEF Written
  <2> QED BY <1>1, <2>1, ReadBack
<1>2. CASE damage # "none"
  <2> DEFINE b == Bytes(addr)
  <2>1. b \in Seq(Byte) /\ ComputeChecksum(b) = {} /\ d \in Seq(Byte) /\ Len(d) = Len(b)
    BY BytesFields DEF Shaped, Written
  <2>2. Replaced(b, d) \/ Swapped(b, d)
    BY <1>2 DEF Written
  <2>3. ComputeChecksum(d) # {}
    <3> HIDE DEF b
    <3> QED BY <2>1, <2>2, ReplacedFound, SwappedFound
  <2> QED BY <1>2, <2>1, <2>3, ReadDamaged
<1> QED BY <1>1, <1>2

LEMMA WrittenSize ==
    ASSUME Shaped(addr), NEW d, Written(d)
    PROVE  /\ d \in Seq(Byte) /\ Len(d) > 3 /\ (SingleSize(Len(d)) \/ DualSize(Len(d)))
           /\ addr.kind = "single" => SingleSize(Len(d))
           /\ addr.kind = "dual" => DualSize(Len(d))
           /\ addr.kind \in {"single", "dual"}
<1>1. addr.kind \in {"single", "dual"}
  BY DEF Shaped, AddressRecs
<1> QED BY <1>1, BytesSize DEF Written

LEMMA InitAddressInv == Init => AddressInv
<1> SUFFICES ASSUME Init PROVE AddressInv
  OBVIOUS
<1>1. Shaped(addr)
  BY InputsAssumption, ConstructedShaped DEF Init
<1> QED BY <1>1 DEF Init, AddressInv, TextInv, OutInv

\* A step that leaves the address, its text and its damage alone keeps what is
\* written.
LEMMA SameText ==
    ASSUME TextInv, UNCHANGED <<addr, form, text, damage>>, form # "none"
    PROVE  TextInv'
<1>1. \A d : Written(d) => Written(d)'
  BY DEF Written
<1>2. text' = text /\ addr' = addr /\ form' = form /\ damage' = damage
  OBVIOUS
<1>3. form' = "emoji" => \/ \E d : Written(d)' /\ text' = EmojiOf(d)
                         \/ damage' = "none" /\ text' = Separated(EmojiOf(Bytes(addr')))
  BY <1>1, <1>2, Zenon DEF TextInv
<1>4. form' = "bytes" => Written(text)'
  BY <1>1, <1>2 DEF TextInv, Written
<1>5. (form' = "base58" => text' = Base58(addr')) /\ (form' = "hex" => text' = Hex(addr'))
  BY <1>2 DEF TextInv
<1> QED BY <1>2, <1>3, <1>4, <1>5 DEF TextInv

LEMMA BecomesKeeps ==
    ASSUME AddressInv, NEW res, Becomes(res), res.err = "nil" => Shaped(res.addr)
    PROVE  AddressInv'
<1>1. Shaped(addr')
  BY DEF Becomes
<1>2. form = "none" /\ form' = "none" /\ damage' = damage /\ out' = out
  BY DEF Becomes
<1>3. damage = "none" /\ out = <<>>
  BY <1>2 DEF AddressInv, TextInv
<1> QED BY <1>1, <1>2, <1>3 DEF AddressInv, TextInv, OutInv

LEMMA WriteKeeps ==
    ASSUME AddressInv, NEW f \in {"bytes", "emoji", "base58", "hex"}, Write(f)
    PROVE  AddressInv'
<1>1. /\ form = "none" /\ form' = f /\ addr' = addr /\ damage' = damage /\ out' = out
      /\ damage = "none" /\ out = <<>>
  BY DEF Write, AddressInv, TextInv
<1>2. Shaped(addr')
  BY <1>1 DEF AddressInv
<1>3. Bytes(addr) \in Seq(Byte)
  BY BytesFields DEF AddressInv, Shaped
<1>4. \A d : d = Bytes(addr) => Written(d)'
  BY <1>1, <1>3 DEF Written
<1>5. f = "bytes" => text' = Bytes(addr')
  BY <1>1 DEF Write
<1>6. f = "emoji" => text' = EmojiOf(Bytes(addr'))
  BY <1>1 DEF Write, EmojiString, EmojiOf
<1>7. f = "bytes" => Written(text)'
  BY <1>1, <1>3, <1>5 DEF Written
<1>8. f = "emoji" => \E d : Written(d)' /\ text' = EmojiOf(d)
  BY <1>1, <1>4, <1>6
<1>9. (f = "base58" => text' = Base58(addr')) /\ (f = "hex" => text' = Hex(addr'))
  BY <1>1 DEF Write
<1>10. TextInv'
  BY <1>1, <1>7, <1>8, <1>9 DEF TextInv
<1> QED BY <1>1, <1>2, <1>10 DEF AddressInv, OutInv

\* An emoji id that has not been padded is written as it is.
LEMMA Unpadded ==
    ASSUME AddressInv, form = "emoji", text[1] # Space \/ Len(text) = Len(Bytes(addr))
    PROVE  \E d : Written(d) /\ text = EmojiOf(d)
<1> DEFINE b == Bytes(addr)
           t == EmojiOf(b)
<1>1. b \in Seq(Byte) /\ Len(b) > 3
  BY BytesFields, BytesSize DEF AddressInv, Shaped
<1>2. t \in Seq(Nat) /\ Len(t) = Len(b)
  BY <1>1, EmojiText
<1>3. Separated(t)[1] = Space /\ Len(Separated(t)) = Len(t) + 3
  BY <1>1, <1>2, SeparatedText
<1>4. Len(t) \in Nat
  BY <1>2, LenProperties
<1>5. Len(Separated(t)) # Len(b)
  <2> DEFINE n == Len(t)
  <2>1. n \in Nat
    BY <1>4
  <2> HIDE DEF n
  <2>2. n + 3 # n
    BY <2>1
  <2> QED BY <1>2, <1>3, <2>2 DEF n
<1>6. text # Separated(t)
  BY <1>3, <1>5
<1> QED BY <1>6 DEF AddressInv, TextInv

LEMMA SeparateKeeps == ASSUME AddressInv, Separate PROVE AddressInv'
<1>1. /\ form = "emoji" /\ damage = "none" /\ out = <<>> /\ text[1] # Space
      /\ addr' = addr /\ form' = form /\ damage' = damage /\ out' = out
      /\ text' = Separated(text)
  BY DEF Separate, Separated
<1>2. PICK d : Written(d) /\ text = EmojiOf(d)
  BY <1>1, Unpadded
<1>3. text' = Separated(EmojiOf(Bytes(addr')))
  BY <1>1, <1>2 DEF Written
<1>4. TextInv'
  BY <1>1, <1>3 DEF TextInv
<1> QED BY <1>1, <1>4 DEF AddressInv, OutInv

\* Damage to a text, in either form, is damage to the bytes it stands for.
LEMMA DamagedText ==
    ASSUME AddressInv, CanDamage
    PROVE  \E d : /\ Written(d) /\ d = Bytes(addr)
                  /\ form = "bytes" => text = d
                  /\ form = "emoji" => text = EmojiOf(d)
<1>1. damage = "none" /\ form \in {"bytes", "emoji"} /\ Len(text) = Len(Bytes(addr))
  BY DEF CanDamage
<1>2. \A d : Written(d) => d = Bytes(addr)
  BY <1>1 DEF Written
<1>3. CASE form = "bytes"
  BY <1>2, <1>3 DEF AddressInv, TextInv
<1>4. CASE form = "emoji"
  <2>1. PICK d : Written(d) /\ text = EmojiOf(d)
    BY <1>1, <1>4, Unpadded
  <2> QED BY <1>2, <1>4, <2>1
<1> QED BY <1>1, <1>3, <1>4

\* The invariant after a text was damaged so that it stands for e.
LEMMA DamageKeeps ==
    ASSUME AddressInv, CanDamage, UNCHANGED <<addr, form, out>>, NEW e,
           damage' \in {"replaced", "swapped"}, e \in Seq(Byte), Len(e) = Len(Bytes(addr)),
           damage' = "replaced" => Replaced(Bytes(addr), e),
           damage' = "swapped" => Swapped(Bytes(addr), e),
           form = "bytes" => text' = e, form = "emoji" => text' = EmojiOf(e)
    PROVE  AddressInv'
<1>1. addr' = addr /\ form' = form /\ out' = out /\ out = <<>> /\ form \in {"bytes", "emoji"}
  BY DEF CanDamage
<1>2. \A d : d = e => Written(d)'
  BY <1>1 DEF Written
<1>3. form = "bytes" => Written(text)'
  BY <1>1 DEF Written
<1>4. form = "emoji" => \E d : Written(d)' /\ text' = EmojiOf(d)
  BY <1>2
<1>5. TextInv'
  BY <1>1, <1>3, <1>4 DEF TextInv
<1> QED BY <1>1, <1>5 DEF AddressInv, OutInv

LEMMA ReplaceKeeps == ASSUME AddressInv, NEW i, NEW b \in Byte, Replace(i, b) PROVE AddressInv'
<1>1. PICK d : /\ Written(d) /\ d = Bytes(addr)
               /\ form = "bytes" => text = d
               /\ form = "emoji" => text = EmojiOf(d)
  BY DamagedText DEF Replace
<1> DEFINE n == Len(d)
           e == [d EXCEPT ![i] = b]
<1>2. /\ CanDamage /\ damage' = "replaced" /\ UNCHANGED <<addr, form, out>> /\ text' # text
      /\ text' = [text EXCEPT ![i] = IF form = "bytes" THEN b ELSE Emoji(b)]
      /\ form \in {"bytes", "emoji"} /\ i \in 1..Len(text) /\ Len(text) = Len(Bytes(addr))
  BY DEF Replace, CanDamage
<1>3. d \in Seq(Byte) /\ n \in Nat /\ i \in 1..n /\ d = [j \in 1..n |-> d[j]] /\ \A j \in 1..n : d[j] \in Byte
  BY <1>1, <1>2, LenProperties, ElementOfSeq DEF Written
<1>4. e \in Seq(Byte) /\ Len(e) = n /\ e[i] = b /\ \A j \in 1..n : j # i => e[j] = d[j]
  BY <1>3
<1>5. form = "bytes" => text' = e
  BY <1>1, <1>2
<1>6. form = "emoji" => text' = EmojiOf(e)
  <2> SUFFICES ASSUME form = "emoji" PROVE text' = EmojiOf(e)
    OBVIOUS
  <2>1. text' = [EmojiOf(d) EXCEPT ![i] = Emoji(b)]
    BY <1>1, <1>2
  <2> HIDE DEF e, n
  <2>2. EmojiOf(e) = [j \in 1..n |-> Emoji(e[j])] /\ EmojiOf(d) = [j \in 1..n |-> Emoji(d[j])]
    BY <1>4 DEF EmojiOf, n
  <2>3. text' = [j \in 1..n |-> IF j = i THEN Emoji(b) ELSE Emoji(d[j])]
    BY <1>3, <2>1, <2>2
  <2> QED BY <1>4, <2>2, <2>3
<1>7. d[i] # b
  <2> SUFFICES ASSUME d[i] = b PROVE FALSE
    OBVIOUS
  <2>1. e = d
    BY <1>3
  <2>2. text' = text
    BY <1>1, <1>2, <1>5, <1>6, <2>1
  <2> QED BY <1>2, <2>2
<1> HIDE DEF e
<1>8. Replaced(d, e)
  BY <1>3, <1>4, <1>7 DEF Replaced
<1>9. /\ damage' \in {"replaced", "swapped"} /\ (damage' = "replaced" => Replaced(Bytes(addr), e))
      /\ (damage' = "swapped" => Swapped(Bytes(addr), e)) /\ Len(e) = Len(Bytes(addr))
  BY <1>1, <1>2, <1>4, <1>8
<1> QED BY <1>2, <1>4, <1>5, <1>6, <1>9, DamageKeeps

LEMMA SwapKeeps == ASSUME AddressInv, NEW i, SwapNeighbours(i) PROVE AddressInv'
<1>1. PICK d : /\ Written(d) /\ d = Bytes(addr)
               /\ form = "bytes" => text = d
               /\ form = "emoji" => text = EmojiOf(d)
  BY DamagedText DEF SwapNeighbours
<1> DEFINE n == Len(d)
           e == [d EXCEPT ![i] = d[i + 1], ![i + 1] = d[i]]
<1>2. /\ CanDamage /\ damage' = "swapped" /\ UNCHANGED <<addr, form, out>> /\ text' # text
      /\ text' = [text EXCEPT ![i] = text[i + 1], ![i + 1] = text[i]]
      /\ form \in {"bytes", "emoji"} /\ i \in 1..(Len(text) - 1) /\ Len(text) = Len(Bytes(addr))
  BY DEF SwapNeighbours, CanDamage
<1>3. /\ d \in Seq(Byte) /\ n \in Nat /\ i \in 1..(n - 1) /\ d = [j \in 1..n |-> d[j]]
      /\ \A j \in 1..n : d[j] \in Byte
  BY <1>1, <1>2, LenProperties, ElementOfSeq DEF Written
<1>i. i \in 1..n /\ i + 1 \in 1..n /\ i # i + 1
  BY <1>3
<1>4. /\ e \in Seq(Byte) /\ Len(e) = n /\ e[i] = d[i + 1] /\ e[i + 1] = d[i]
      /\ \A j \in 1..n : j # i /\ j # i + 1 => e[j] = d[j]
  BY <1>3, <1>i
<1>5. form = "bytes" => text' = e
  BY <1>1, <1>2
<1>6. form = "emoji" => text' = EmojiOf(e)
  <2> SUFFICES ASSUME form = "emoji" PROVE text' = EmojiOf(e)
    OBVIOUS
  <2> HIDE DEF e, n
  <2>1. EmojiOf(e) = [j \in 1..n |-> Emoji(e[j])] /\ EmojiOf(d) = [j \in 1..n |-> Emoji(d[j])]
    BY <1>4 DEF EmojiOf, n
  <2>2. text = EmojiOf(d) /\ text[i] = Emoji(d[i]) /\ text[i + 1] = Emoji(d[i + 1])
    BY <1>1, <1>i, <2>1
  <2>3. text' = [j \in 1..n |-> IF j = i + 1 THEN Emoji(d[i]) ELSE IF j = i THEN Emoji(d[i + 1]) ELSE Emoji(d[j])]
    BY <1>2, <1>i, <2>1, <2>2
  <2> QED BY <1>4, <1>i, <2>1, <2>3
<1>7. d[i] # d[i + 1]
  <2> SUFFICES ASSUME d[i] = d[i + 1] PROVE FALSE
    OBVIOUS
  <2>1. e = d
    BY <1>3, <1>i
  <2>2. text' = text
    BY <1>1, <1>2, <1>5, <1>6, <2>1, ZenonT(60)
  <2> QED BY <1>2, <2>2
<1> HIDE DEF e
<1>8. Swapped(d, e)
  BY <1>3, <1>4, <1>7 DEF Swapped
<1>9. /\ damage' \in {"replaced", "swapped"} /\ (damage' = "replaced" => Replaced(Bytes(addr), e))
      /\ (damage' = "swapped" => Swapped(Bytes(addr), e)) /\ Len(e) = Len(Bytes(addr))
  BY <1>1, <1>2, <1>4, <1>8
<1> QED BY <1>2, <1>4, <1>5, <1>6, <1>9, DamageKeeps

LEMMA ReadKeeps == ASSUME AddressInv, Read PROVE AddressInv'
<1>1. /\ form # "none" /\ UNCHANGED <<addr, form, text, damage>>
      /\ out' = <<IF form = "bytes" THEN FromBytes(text) ELSE Parse(text)>>
  BY DEF Read
<1>2. TextInv'
  BY <1>1, SameText DEF AddressInv
<1>3. Shaped(addr) /\ damage \in {"none", "replaced", "swapped"}
  BY DEF AddressInv, TextInv
<1>4. form = "bytes" => Answer(FromBytes(text))
  <2> SUFFICES ASSUME form = "bytes" PROVE Answer(FromBytes(text))
    OBVIOUS
  <2>1. Written(text)
    BY DEF AddressInv, TextInv
  <2> QED BY <1>3, <2>1, WrittenReads DEF Answer
<1>5. form = "emoji" => Answer(Parse(text))
  <2> SUFFICES ASSUME form = "emoji" PROVE Answer(Parse(text))
    OBVIOUS
  <2>1. PICK d : Written(d) /\ (text = EmojiOf(d) \/ (damage = "none" /\ text = Separated(EmojiOf(d))))
    <3>1. CASE \E d : Written(d) /\ text = EmojiOf(d)
      <4>1. PICK d : Written(d) /\ text = EmojiOf(d)
        BY <3>1, Zenon
      <4> QED BY <4>1
    <3>2. CASE damage = "none" /\ text = Separated(EmojiOf(Bytes(addr)))
      <4>1. Written(Bytes(addr))
        BY <1>3, <3>2, BytesFields DEF Written, Shaped
      <4> QED BY <3>2, <4>1
    <3> QED BY <3>1, <3>2 DEF AddressInv, TextInv
  <2>2. d \in Seq(Byte) /\ Len(d) > 3 /\ (SingleSize(Len(d)) \/ DualSize(Len(d)))
    BY <1>3, <2>1, WrittenSize
  <2>3. /\ FromBytes(d).err = "nil" => Parse(text) = FromBytes(d)
        /\ FromBytes(d).err # "nil" /\ text = EmojiOf(d) => Parse(text).err = "InvalidAddressString"
    BY <2>1, <2>2, ParseReads
  <2>4. /\ damage = "none" => FromBytes(d) = Ok(addr)
        /\ damage # "none" => FromBytes(d).err = "InvalidChecksum"
    BY <1>3, <2>1, WrittenReads
  <2>5. Ok(addr).err = "nil"
    BY DEF Ok
  <2>6. CASE damage = "none"
    BY <2>3, <2>4, <2>5, <2>6 DEF Answer
  <2>7. CASE damage # "none"
    BY <2>1, <2>3, <2>4, <2>7 DEF Answer
  <2> QED BY <2>6, <2>7
<1>6. form = "hex" => Answer(Parse(text))
  BY <1>3, ParseHex, HexWritten DEF AddressInv, TextInv, Answer
<1>7. form = "base58" => Answer(Parse(text))
  BY <1>3, ParseBase58 DEF AddressInv, TextInv, SizeRefused, Answer
<1>8. OutInv'
  <2>1. addr' = addr /\ form' = form /\ text' = text /\ damage' = damage
    BY <1>1
  <2>2. \A res : Answer(res) => (out' = <<res>> => OutInv')
    BY <2>1 DEF OutInv, Answer, SizeRefused, TextFits, InSizes
  <2>3. Answer(IF form = "bytes" THEN FromBytes(text) ELSE Parse(text))
    <3>1. form \in {"bytes", "emoji", "base58", "hex"}
      BY <1>1 DEF AddressInv, TextInv
    <3> QED BY <1>4, <1>5, <1>6, <1>7, <3>1
  <2> QED BY <1>1, <2>2, <2>3
<1> QED BY <1>1, <1>2, <1>3, <1>8 DEF AddressInv

LEMMA ReadTypedKeeps == ASSUME AddressInv, ReadTyped PROVE AddressInv'
<1>1. form # "none" /\ UNCHANGED <<addr, form, text, damage>>
  BY DEF ReadTyped
<1>2. TextInv'
  BY <1>1, SameText DEF AddressInv
<1>3. Shaped(addr) /\ damage \in {"none", "replaced", "swapped"}
  BY DEF AddressInv, TextInv
<1>4. addr' = addr /\ form' = form /\ text' = text /\ damage' = damage
  BY <1>1
<1>5. \A res : Answer(res) => (out' = <<res>> => OutInv')
  BY <1>4 DEF OutInv, Answer, SizeRefused, TextFits, InSizes
<1>6. ASSUME NEW d, Written(d)
      PROVE  /\ addr.kind = "single" => Answer(SingleAddressFromBytes(d))
             /\ addr.kind = "dual" => Answer(DualAddressFromBytes(d))
  BY <1>3, <1>6, WrittenReads DEF Answer
<1>7. addr.kind \in {"single", "dual"}
  BY <1>3 DEF Shaped, AddressRecs
<1>8. CASE form = "bytes"
  <2>1. Written(text)
    BY <1>8 DEF AddressInv, TextInv
  <2>2. out' = <<IF addr.kind = "single" THEN SingleAddressFromBytes(text) ELSE DualAddressFromBytes(text)>>
    BY <1>8 DEF ReadTyped
  <2> QED BY <1>1, <1>2, <1>3, <1>5, <1>6, <1>7, <2>1, <2>2 DEF AddressInv
<1>9. CASE form = "emoji"
  <2>1. text[1] # Space
    BY <1>9 DEF ReadTyped
  <2>2. PICK d : Written(d) /\ text = EmojiOf(d)
    BY <1>9, <2>1, Unpadded
  <2>3. out' = <<IF addr.kind = "single" THEN SingleAddressFromEmojiString(text)
                                         ELSE DualAddressFromEmojiString(text)>>
    BY <1>9 DEF ReadTyped
  <2>4. /\ d \in Seq(Byte)
        /\ addr.kind = "single" => SingleSize(Len(d))
        /\ addr.kind = "dual" => DualSize(Len(d))
    BY <1>3, <2>2, WrittenSize
  <2>5. /\ addr.kind = "single" => SingleAddressFromEmojiString(text) = SingleAddressFromBytes(d)
        /\ addr.kind = "dual" => DualAddressFromEmojiString(text) = DualAddressFromBytes(d)
    BY <2>2, <2>4, EmojiReads
  <2> QED BY <1>1, <1>2, <1>3, <1>5, <1>6, <1>7, <2>2, <2>3, <2>5 DEF AddressInv
<1>10. CASE form = "hex"
  <2>1. damage = "none" /\ text = HexOf(Bytes(addr))
    BY <1>10, HexWritten DEF AddressInv, TextInv
  <2>2. out' = <<IF addr.kind = "single" THEN SingleAddressFromHex(text) ELSE DualAddressFromHex(text)>>
    BY <1>10 DEF ReadTyped
  <2>3. out' = <<Ok(addr)>>
    BY <1>3, <1>7, <2>1, <2>2, ParseHex
  <2> QED BY <1>1, <1>2, <1>3, <1>5, <2>1, <2>3 DEF AddressInv, Answer
<1>11. CASE form = "base58"
  <2>1. damage = "none" /\ text = Base58(addr)
    BY <1>11 DEF AddressInv, TextInv
  <2>2. out' = <<IF addr.kind = "single" THEN SingleAddressFromBase58(text) ELSE DualAddressFromBase58(text)>>
    BY <1>11 DEF ReadTyped
  <2>3. Answer(IF addr.kind = "single" THEN SingleAddressFromBase58(text) ELSE DualAddressFromBase58(text))
    BY <1>3, <1>7, <1>11, <2>1, ParseBase58 DEF SizeRefused, Answer
  <2> QED BY <1>1, <1>2, <1>3, <1>5, <2>2, <2>3 DEF AddressInv
<1>12. form \in {"bytes", "emoji", "base58", "hex"}
  BY <1>1 DEF AddressInv, TextInv
<1> QED BY <1>8, <1>9, <1>10, <1>11, <1>12

LEMMA NextAddressInv == AddressInv /\ [Next]_vars => AddressInv'
<1> SUFFICES ASSUME AddressInv, [Next]_vars PROVE AddressInv'
  OBVIOUS
<1>1. ASSUME NEW data \in Memos, AddMemo(data) PROVE AddressInv'
  <2>1. data \in Seq(Byte) /\ Shaped(addr)
    BY InputsAssumption DEF AddressInv
  <2> QED BY <1>1, <2>1, MemoShaped, BecomesKeeps DEF AddMemo
<1>2. ASSUME NEW other \in NewAddresses, CombineWith(other) PROVE AddressInv'
  <2>1. Shaped(other) /\ Shaped(addr)
    BY InputsAssumption, ConstructedShaped DEF AddressInv
  <2> QED BY <1>2, <2>1, CombineShaped, BecomesKeeps DEF CombineWith
<1>3. ASSUME NEW f \in {"bytes", "emoji", "base58", "hex"}, Write(f) PROVE AddressInv'
  BY <1>3, WriteKeeps
<1>4. CASE Separate
  BY <1>4, SeparateKeeps
<1>5. ASSUME NEW i, NEW b \in Substitutes, Replace(i, b) PROVE AddressInv'
  <2>1. b \in Byte
    BY AddressAssumption
  <2> QED BY <1>5, <2>1, ReplaceKeeps
<1>6. ASSUME NEW i, SwapNeighbours(i) PROVE AddressInv'
  BY <1>6, SwapKeeps
<1>7. CASE Read
  BY <1>7, ReadKeeps
<1>8. CASE ReadTyped
  BY <1>8, ReadTypedKeeps
<1>9. CASE UNCHANGED vars
  <2>1. addr' = addr /\ form' = form /\ damage' = damage /\ out' = out /\ text' = text
    BY <1>9 DEF vars
  <2>2. CASE form = "none"
    BY <2>1, <2>2 DEF AddressInv, TextInv, OutInv
  <2>3. CASE form # "none"
    <3>1. TextInv'
      BY <2>1, <2>3, SameText DEF AddressInv
    <3> QED BY <2>1, <3>1 DEF AddressInv, OutInv, SizeRefused, TextFits, InSizes, Answer
  <2> QED BY <2>2, <2>3
<1> QED BY <1>1, <1>2, <1>3, <1>4, <1>5, <1>6, <1>7, <1>8, <1>9 DEF Next

LEMMA AlwaysAddressInv == Spec => []AddressInv
BY InitAddressInv, NextAddressInv, PTL DEF Spec

\* Whatever is built, combined and given payment ids, the address keeps the
\* shape of its kind, and GetSize is the length that Bytes has.
THEOREM AddressStaysOK == Spec => []AddressOK
<1>1. AddressInv => AddressOK
  <2> SUFFICES ASSUME AddressInv PROVE AddressOK
    OBVIOUS
  <2>1. Shaped(addr)
    BY DEF AddressInv
  <2>2. GetSize(addr) = Len(Bytes(addr))
    BY <2>1, BytesSize
  <2>3. addr.kind \in {"single", "dual"}
    BY <2>1 DEF Shaped, AddressRecs
  <2>4. <<>> \notin CanonicalKeys
    <3>1. PublicKeySize # 0 /\ Len(<<>>) = 0
      BY AddressAssumption
    <3> QED BY <3>1, KeySize
  <2>5. addr.kind = "dual" <=> addr.view \in CanonicalKeys
    BY <2>1, <2>3, <2>4 DEF Shaped
  <2> QED BY <2>1, <2>2, <2>3, <2>5 DEF AddressOK, Shaped
<1> QED BY <1>1, AlwaysAddressInv, PTL

\* The checksum finds every replaced byte or emoji and every pair of swapped
\* neighbours, in addresses of any size: Double is injective and has no fixed
\* point but 0, so the two checksums part at the damage and never meet again.
THEOREM ChecksumFindsDamage == Spec => []DamageFound
<1>1. AddressInv => DamageFound
  BY DEF AddressInv, TextInv, OutInv, Answer, DamageFound
<1> QED BY <1>1, AlwaysAddressInv, PTL

\* Every address reads back as itself from each of its forms, by the reader of
\* its kind and by FromBytes and Parse: bytes, emoji id, separated and padded or
\* not, hexadecimal, and base58 whenever the text has one of the sizes that the
\* readers of base58 allow.  They do not allow every size that Base58 writes (a
\* zero byte at the front of a key takes one letter, so a key that begins with
\* many of them gives a text too short for them), and what they do not allow is
\* refused by every reader and never read as another address.
THEOREM AddressReadsBack == Spec => []RoundTrip
<1>1. AddressInv => RoundTrip
  BY DEF AddressInv, OutInv, Answer, SizeRefused, RoundTrip
<1> QED BY <1>1, AlwaysAddressInv, PTL

LEMMA CombineCommutes ==
    ASSUME NEW a, NEW b PROVE CombineAddresses(a, b) = CombineAddresses(b, a)
<1>1. CombinedFeatures(a, b) = CombinedFeatures(b, a)
  BY DEF CombinedFeatures
<1>2. CASE a.spend # b.spend \/ a.network # b.network
  BY <1>2 DEF CombineAddresses
<1>3. CASE a.spend = b.spend /\ a.network = b.network
  <2>1. CASE a.kind = "dual" /\ b.kind = "dual"
    BY <1>1, <1>3, <2>1, Zenon DEF CombineAddresses
  <2>2. CASE a.kind = "dual" /\ b.kind # "dual"
    BY <1>1, <1>3, <2>2, Zenon DEF CombineAddresses
  <2>3. CASE a.kind # "dual" /\ b.kind = "dual"
    BY <1>1, <1>3, <2>3, Zenon DEF CombineAddresses
  <2>4. CASE a.kind # "dual" /\ b.kind # "dual"
    BY <1>1, <1>3, <2>4, Zenon DEF CombineAddresses
  <2> QED BY <2>1, <2>2, <2>3, <2>4
<1> QED BY <1>2, <1>3

\* CombineAddresses gives the same in either order, with the features of both
\* addresses and the payment id of neither.
THEOREM CombineIsSymmetric == Spec => []CombineSymmetric
<1>1. CombineSymmetric
  <2> SUFFICES ASSUME NEW other \in NewAddresses
               PROVE  /\ CombineAddresses(addr, other) = CombineAddresses(other, addr)
                      /\ CombineAddresses(addr, other).err = "nil" =>
                           /\ addr.features \cup other.features \subseteq CombineAddresses(addr, other).addr.features
                           /\ CombineAddresses(addr, other).addr.memo = <<>>
    BY Zenon DEF CombineSymmetric
  <2>1. CombineAddresses(addr, other) = CombineAddresses(other, addr)
    BY CombineCommutes
  <2>2. ASSUME CombineAddresses(addr, other).err = "nil"
        PROVE  /\ CombineAddresses(addr, other).addr.features = addr.features \cup other.features
               /\ CombineAddresses(addr, other).addr.memo = <<>>
    <3> DEFINE f == addr.features \cup other.features
               d == IF addr.kind = "dual" THEN addr ELSE other
               r == CombineAddresses(addr, other).addr
    <3>1. r = IF d.kind = "dual"
              THEN [kind |-> "dual", network |-> addr.network, features |-> f, view |-> d.view,
                    spend |-> addr.spend, memo |-> <<>>]
              ELSE [kind |-> "single", network |-> addr.network, features |-> f, view |-> <<>>,
                    spend |-> addr.spend, memo |-> <<>>]
      BY <2>2, Combination
    <3> HIDE DEF r, f, d
    <3>2. r.features = f /\ r.memo = <<>>
      BY <3>1
    <3> QED BY <3>2 DEF r, f
  <2> QED BY <2>1, <2>2
<1> QED BY <1>1, PTL
=============================================================================
