---------------------------- MODULE StartupProofs ----------------------------
(***************************************************************************)
(* With -key the program keeps its identity over any number of starts,     *)
(* kills, failed writes and removed files, and any number of processes, as *)
(* long as no two of them set up their keys at the same time; a peer reads *)
(* from its identity message the addresses of the command line; and the    *)
(* message's signature holds for its own claims and for no others.         *)
(***************************************************************************)
EXTENDS Startup, SequenceTheorems, WellFoundedInduction, TLAPS

Half == [half : {"private", "public"}, of : Nat]
WholeKeys == {kp \in [Private : Seq(Half), Public : Seq(Half)] : Len(kp.Private) = 1 /\ Len(kp.Public) = 1}

KeyTypeOK ==
    /\ keyPath \in BOOLEAN /\ exists \in BOOLEAN /\ raced \in BOOLEAN
    /\ keys \in Nat /\ file \in Seq(Half)
    /\ pc \in [Procs -> {"off", "load", "generate", "open", "write", "listen", "serving"}]
    /\ key \in [Procs -> [Private : Seq(Half), Public : Seq(Half)]]
    /\ \A p \in Procs : pc[p] \in {"open", "write", "listen", "serving"} => key[p] \in WholeKeys
    /\ served \subseteq WholeKeys

\* Nobody has used a key from this file, or is about to.
Unused == served = {} /\ \A p \in Procs : pc[p] \notin {"listen", "serving"}

\* One process at a time sets up its key; it generates one only when there is
\* no file, and fills a file that it has made itself; and whoever uses a key
\* holds what the file holds.
StoredInv ==
    /\ \A p, q \in Procs : SettingUp(p) /\ SettingUp(q) => p = q
    /\ \A p \in Procs : pc[p] \in {"generate", "open"} => ~exists
    /\ \A p \in Procs : pc[p] = "write" => exists /\ file = <<>> /\ Unused
    /\ \A p \in Procs : pc[p] \in {"listen", "serving"} => exists /\ file = Raw(key[p])
    /\ \A kp \in served : exists /\ file = Raw(kp)

KeyInv == KeyTypeOK /\ (keyPath /\ ~raced => StoredInv)

-----------------------------------------------------------------------------
(* The file format.                                                        *)

LEMMA TwoHalves ==
    ASSUME NEW s \in Seq(Half), NEW t \in Seq(Half), Len(s) = 1, Len(t) = 1
    PROVE  s \o t \in Seq(Half) /\ Len(s \o t) = 2 /\ (s \o t)[1] = s[1] /\ (s \o t)[2] = t[1]
<1>1. s \o t \in Seq(Half) /\ Len(s \o t) = Len(s) + Len(t)
  BY ConcatProperties, Zenon
<1>2. \A i \in 1 .. Len(s) + Len(t) : (s \o t)[i] = IF i <= Len(s) THEN s[i] ELSE t[i - Len(s)]
  BY ConcatProperties, Zenon
<1>3. (s \o t)[1] = s[1]
  BY <1>2
<1>4. (s \o t)[2] = t[1]
  BY <1>2
<1> QED BY <1>1, <1>3, <1>4

LEMMA RawFacts ==
    ASSUME NEW kp \in WholeKeys
    PROVE  /\ Raw(kp) \in Seq(Half) /\ Len(Raw(kp)) = 2
           /\ Raw(kp)[1] = kp.Private[1] /\ Raw(kp)[2] = kp.Public[1]
<1>1. kp.Private \in Seq(Half) /\ kp.Public \in Seq(Half) /\ Len(kp.Private) = 1 /\ Len(kp.Public) = 1
  BY DEF WholeKeys
<1> QED BY <1>1, TwoHalves, Zenon DEF Raw

LEMMA OneHalf ==
    ASSUME NEW s \in Seq(Half), NEW t \in Seq(Half), Len(s) = 1, Len(t) = 1, s[1] = t[1]
    PROVE  s = t
OBVIOUS

\* Two keypairs with the same file are the same.
LEMMA RawInjective ==
    ASSUME NEW a \in WholeKeys, NEW b \in WholeKeys, Raw(a) = Raw(b)
    PROVE  a = b
<1>1. a.Private = b.Private /\ a.Public = b.Public
  BY RawFacts, OneHalf DEF WholeKeys
<1> QED BY <1>1 DEF WholeKeys

\* What is loaded from a whole file is what the file holds.
LEMMA LoadFacts ==
    ASSUME NEW raw \in Seq(Half), WholeFile(raw)
    PROVE  FromRaw(raw) \in WholeKeys /\ Raw(FromRaw(raw)) = raw
<1>1. Len(raw) = 2
  BY DEF WholeFile, keyFileSize
<1>2. /\ SubSeq(raw, 1, 1) \in Seq(Half) /\ Len(SubSeq(raw, 1, 1)) = 1 /\ SubSeq(raw, 1, 1)[1] = raw[1]
      /\ SubSeq(raw, 2, 2) \in Seq(Half) /\ Len(SubSeq(raw, 2, 2)) = 1 /\ SubSeq(raw, 2, 2)[1] = raw[2]
  BY <1>1
<1>3. FromRaw(raw) \in WholeKeys
  BY <1>1, <1>2 DEF FromRaw, WholeKeys
<1>4. /\ Raw(FromRaw(raw)) \in Seq(Half) /\ Len(Raw(FromRaw(raw))) = 2
      /\ Raw(FromRaw(raw))[1] = raw[1] /\ Raw(FromRaw(raw))[2] = raw[2]
  BY <1>1, <1>2, <1>3, RawFacts DEF FromRaw
<1> QED BY <1>1, <1>3, <1>4

LEMMA KeypairFacts == ASSUME NEW k \in Nat PROVE Keypair(k) \in WholeKeys
BY DEF Keypair, WholeKeys, Half

\* A write into an empty file leaves what was written.
LEMMA OverwrittenFacts ==
    ASSUME file \in Seq(Half), NEW raw \in Seq(Half)
    PROVE  Overwritten(raw) \in Seq(Half) /\ (file = <<>> => Overwritten(raw) = raw)
<1>1. SubSeq(file, Len(raw) + 1, Len(file)) \in Seq(Half)
  OBVIOUS
<1>2. Overwritten(raw) \in Seq(Half)
  BY <1>1, ConcatProperties DEF Overwritten
<1>3. ASSUME file = <<>> PROVE Overwritten(raw) = raw
  <2>1. SubSeq(file, Len(raw) + 1, Len(file)) = <<>>
    BY <1>3
  <2> QED BY <2>1, ConcatEmptySeq DEF Overwritten
<1> QED BY <1>2, <1>3

-----------------------------------------------------------------------------
LEMMA KeyStarts == KeyInit => KeyInv
<1> SUFFICES ASSUME KeyInit PROVE KeyInv
  OBVIOUS
<1>1. NoKey \in [Private : Seq(Half), Public : Seq(Half)] /\ <<>> \in Seq(Half)
  BY DEF NoKey
<1>2. KeyTypeOK
  BY <1>1 DEF KeyInit, KeyTypeOK
<1>3. StoredInv
  BY DEF KeyInit, StoredInv, SettingUp
<1> QED BY <1>2, <1>3 DEF KeyInv

LEMMA StartKeeps == ASSUME KeyInv, NEW p \in Procs, Start(p) PROVE KeyInv'
<1>1. KeyTypeOK'
  BY DEF KeyInv, KeyTypeOK, Start, Goes
<1>2. ASSUME keyPath', ~raced' PROVE StoredInv'
  <2>1. StoredInv /\ \A q \in Procs : ~SettingUp(q)
    BY <1>2 DEF KeyInv, KeyTypeOK, Start
  <2>2. pc' = [pc EXCEPT ![p] = "load"] /\ UNCHANGED <<exists, file, key, served>>
    BY <1>2 DEF Start, Goes
  <2> QED BY <2>1, <2>2 DEF KeyInv, KeyTypeOK, StoredInv, SettingUp, Unused
<1> QED BY <1>1, <1>2 DEF KeyInv

LEMMA LoadKeeps == ASSUME KeyInv, NEW p \in Procs, LoadKey(p) PROVE KeyInv'
<1>1. CASE WholeFile(file)
  <2>1. /\ pc[p] = "load" /\ exists /\ key' = [key EXCEPT ![p] = FromRaw(file)]
        /\ pc' = [pc EXCEPT ![p] = "listen"]
        /\ UNCHANGED <<keyPath, exists, file, keys, raced, served>>
    BY <1>1 DEF LoadKey, Goes
  <2>2. FromRaw(file) \in WholeKeys /\ Raw(FromRaw(file)) = file
    BY <1>1, LoadFacts DEF KeyInv, KeyTypeOK
  <2>3. KeyTypeOK'
    BY <2>1, <2>2 DEF KeyInv, KeyTypeOK, WholeKeys
  <2>4. ASSUME keyPath, ~raced PROVE StoredInv'
    BY <2>1, <2>2, <2>4 DEF KeyInv, KeyTypeOK, StoredInv, SettingUp, Unused
  <2> QED BY <2>1, <2>3, <2>4 DEF KeyInv
<1>2. CASE ~WholeFile(file)
  BY <1>2, ZenonT(60) DEF LoadKey, Goes, KeyInv, KeyTypeOK, StoredInv, SettingUp, Unused
<1> QED BY <1>1, <1>2

\* The process ends, by an error, by a kill or when Serve returns.
LEMMA OffKeeps ==
    ASSUME KeyInv, NEW p \in Procs,
           ReadFails(p) \/ OpenFails(p) \/ ListenFails(p) \/ Stop(p)
    PROVE  KeyInv'
<1>1. pc' = [pc EXCEPT ![p] = "off"] /\ UNCHANGED <<keyPath, exists, file, key, keys, raced, served>>
  BY DEF ReadFails, OpenFails, ListenFails, Stop, Goes
<1>2. KeyTypeOK'
  BY <1>1 DEF KeyInv, KeyTypeOK
<1>3. ASSUME keyPath, ~raced PROVE StoredInv'
  BY <1>1, <1>3 DEF KeyInv, KeyTypeOK, StoredInv, SettingUp, Unused
<1> QED BY <1>1, <1>2, <1>3 DEF KeyInv

LEMMA NoFileKeeps == ASSUME KeyInv, NEW p \in Procs, NoKeyFile(p) PROVE KeyInv'
BY DEF NoKeyFile, Goes, KeyInv, KeyTypeOK, StoredInv, SettingUp, Unused

LEMMA GenerateKeeps == ASSUME KeyInv, NEW p \in Procs, GenerateKey(p) PROVE KeyInv'
<1>1. /\ pc[p] = "generate" /\ keys' = keys + 1 /\ key' = [key EXCEPT ![p] = Keypair(keys + 1)]
      /\ UNCHANGED <<keyPath, exists, file, raced, served>>
      /\ pc' = [pc EXCEPT ![p] = IF keyPath THEN "open" ELSE "listen"]
  BY DEF GenerateKey, Goes
<1>2. keys + 1 \in Nat /\ Keypair(keys + 1) \in WholeKeys
  BY KeypairFacts DEF KeyInv, KeyTypeOK
<1>3. KeyTypeOK'
  BY <1>1, <1>2 DEF KeyInv, KeyTypeOK, WholeKeys
<1>4. ASSUME keyPath, ~raced PROVE StoredInv'
  BY <1>1, <1>4 DEF KeyInv, KeyTypeOK, StoredInv, SettingUp, Unused
<1> QED BY <1>1, <1>3, <1>4 DEF KeyInv

\* The file is made where there was none, so that nobody uses a key yet.
LEMMA OpenKeeps == ASSUME KeyInv, NEW p \in Procs, OpenKeyFile(p) PROVE KeyInv'
<1>1. /\ pc[p] = "open" /\ exists' = TRUE /\ file' = <<>> /\ pc' = [pc EXCEPT ![p] = "write"]
      /\ UNCHANGED <<keyPath, key, keys, raced, served>>
  BY DEF OpenKeyFile, Goes
<1>2. KeyTypeOK'
  BY <1>1 DEF KeyInv, KeyTypeOK
<1>3. ASSUME keyPath, ~raced PROVE StoredInv'
  <2>1. ~exists /\ Unused
    BY <1>1, <1>3 DEF KeyInv, StoredInv, Unused
  <2> QED BY <1>1, <1>3, <2>1 DEF KeyInv, KeyTypeOK, StoredInv, SettingUp, Unused
<1> QED BY <1>1, <1>2, <1>3 DEF KeyInv

LEMMA WriteKeeps == ASSUME KeyInv, NEW p \in Procs, WriteKey(p) PROVE KeyInv'
<1>1. /\ pc[p] = "write" /\ file' = Overwritten(Raw(key[p])) /\ pc' = [pc EXCEPT ![p] = "listen"]
      /\ UNCHANGED <<keyPath, exists, key, keys, raced, served>>
  BY DEF WriteKey, Goes
<1>2. key[p] \in WholeKeys /\ Raw(key[p]) \in Seq(Half) /\ file \in Seq(Half)
  BY <1>1, RawFacts DEF KeyInv, KeyTypeOK
<1>3. Overwritten(Raw(key[p])) \in Seq(Half) /\ (file = <<>> => Overwritten(Raw(key[p])) = Raw(key[p]))
  BY <1>2, OverwrittenFacts
<1>4. KeyTypeOK'
  BY <1>1, <1>3 DEF KeyInv, KeyTypeOK
<1>5. ASSUME keyPath, ~raced PROVE StoredInv'
  <2>1. file = <<>> /\ Unused
    BY <1>1, <1>5 DEF KeyInv, StoredInv
  <2>2. StoredInv /\ pc \in [Procs -> {"off", "load", "generate", "open", "write", "listen", "serving"}]
    BY <1>5 DEF KeyInv, KeyTypeOK
  <2>3. exists
    BY <1>1, <1>5 DEF KeyInv, StoredInv
  <2>4. \A q \in Procs : SettingUp(q)' => SettingUp(q)
    BY <1>1, <2>2 DEF SettingUp
  <2>5. \A q \in Procs : pc'[q] \in {"generate", "open", "write"} => FALSE
    BY <1>1, <2>2 DEF StoredInv, SettingUp
  <2>6. \A q \in Procs : pc'[q] \in {"listen", "serving"} => q = p
    BY <1>1, <2>1, <2>2 DEF Unused
  <2>7. file' = Raw(key[p])' /\ exists' /\ served' = {}
    BY <1>1, <1>3, <2>1, <2>3 DEF Unused, Raw
  <2> QED BY <2>2, <2>4, <2>5, <2>6, <2>7 DEF StoredInv
<1> QED BY <1>1, <1>4, <1>5 DEF KeyInv

\* A write that fails leaves a file that nobody has used.
LEMMA WriteFailsKeeps == ASSUME KeyInv, NEW p \in Procs, WriteFails(p) PROVE KeyInv'
<1>1. /\ pc[p] = "write" /\ pc' = [pc EXCEPT ![p] = "off"]
      /\ UNCHANGED <<keyPath, exists, key, keys, raced, served>>
  BY DEF WriteFails, Goes
<1>2. PICK n \in 0..keyFileSize - 1 : file' = Overwritten(SubSeq(Raw(key[p]), 1, n))
  BY DEF WriteFails
<1>3. Raw(key[p]) \in Seq(Half) /\ Len(Raw(key[p])) = 2 /\ file \in Seq(Half)
  BY <1>1, RawFacts DEF KeyInv, KeyTypeOK
<1>4. SubSeq(Raw(key[p]), 1, n) \in Seq(Half)
  BY <1>3 DEF keyFileSize
<1>5. file' \in Seq(Half)
  BY <1>2, <1>3, <1>4, OverwrittenFacts
<1>6. KeyTypeOK'
  BY <1>1, <1>5 DEF KeyInv, KeyTypeOK
<1>7. ASSUME keyPath, ~raced PROVE StoredInv'
  <2>1. Unused /\ StoredInv
    BY <1>1, <1>7 DEF KeyInv, StoredInv
  <2>2. Unused'
    BY <1>1, <2>1 DEF KeyInv, KeyTypeOK, Unused
  <2>3. \A q \in Procs : SettingUp(q)' => SettingUp(q) /\ q # p
    BY <1>1 DEF KeyInv, KeyTypeOK, SettingUp
  <2>4. \A q \in Procs : ~SettingUp(q)'
    BY <1>1, <2>1, <2>3 DEF StoredInv, SettingUp
  <2> QED BY <2>2, <2>4 DEF StoredInv, SettingUp, Unused
<1> QED BY <1>1, <1>6, <1>7 DEF KeyInv

LEMMA ListenKeeps == ASSUME KeyInv, NEW p \in Procs, Listen(p) PROVE KeyInv'
<1>1. /\ pc[p] = "listen" /\ pc' = [pc EXCEPT ![p] = "serving"] /\ served' = served \cup {key[p]}
      /\ UNCHANGED <<keyPath, exists, file, key, keys, raced>>
  BY DEF Listen, Goes
<1>2. KeyTypeOK'
  BY <1>1 DEF KeyInv, KeyTypeOK
<1>3. ASSUME keyPath, ~raced PROVE StoredInv'
  <2>1. StoredInv /\ exists /\ file = Raw(key[p])
    BY <1>1, <1>3 DEF KeyInv, StoredInv
  <2>2. \A q \in Procs : pc[q] # "write"
    BY <1>1, <2>1 DEF StoredInv, Unused
  <2> QED BY <1>1, <2>1, <2>2 DEF KeyInv, KeyTypeOK, StoredInv, SettingUp, Unused
<1> QED BY <1>1, <1>2, <1>3 DEF KeyInv

\* A file that is not whole is nobody's key.
LEMMA RemoveKeeps == ASSUME KeyInv, RemoveBadFile PROVE KeyInv'
<1>1. /\ ~WholeFile(file) /\ exists' = FALSE /\ file' = <<>> /\ \A p \in Procs : ~SettingUp(p)
      /\ UNCHANGED <<keyPath, pc, key, keys, raced, served>>
  BY DEF RemoveBadFile
<1>2. KeyTypeOK'
  <2>1. file' \in Seq(Half)
    BY <1>1
  <2> QED BY <1>1, <2>1 DEF KeyInv, KeyTypeOK
<1>3. ASSUME keyPath, ~raced PROVE StoredInv'
  <2>1. \A kp \in WholeKeys : file # Raw(kp)
    BY <1>1, RawFacts DEF WholeFile, keyFileSize
  <2>2. Unused
    BY <1>3, <2>1 DEF KeyInv, KeyTypeOK, StoredInv, Unused
  <2> QED BY <1>1, <2>2 DEF StoredInv, SettingUp, Unused
<1> QED BY <1>1, <1>2, <1>3 DEF KeyInv

LEMMA KeyNextKeeps == ASSUME KeyInv, [KeyNext]_keyVars PROVE KeyInv'
<1>1. CASE UNCHANGED keyVars
  BY <1>1 DEF keyVars, KeyInv, KeyTypeOK, StoredInv, SettingUp, Unused, Raw
<1>2. ASSUME NEW p \in Procs, Start(p) \/ KeyStep(p) PROVE KeyInv'
  BY <1>2, StartKeeps, LoadKeeps, NoFileKeeps, OffKeeps, GenerateKeeps, OpenKeeps, WriteKeeps,
     WriteFailsKeeps, ListenKeeps DEF KeyStep
<1>3. CASE RemoveBadFile
  BY <1>3, RemoveKeeps
<1> QED BY <1>1, <1>2, <1>3 DEF KeyNext

\* All who ever served hold what the one file holds, so they are one.
LEMMA OneServed == ASSUME KeyInv PROVE StableIdentity
BY RawInjective DEF StableIdentity, KeyInv, KeyTypeOK, StoredInv

-----------------------------------------------------------------------------
\* Every process that serves with -key does so under one keypair, however many
\* are started, killed at any point of loadOrGenerateKeypair, or fail in it.
THEOREM IdentityIsStable == Spec => []StableIdentity
<1>1. Init => KeyInv
  BY KeyStarts DEF Init
<1>2. [Next]_vars => [KeyNext]_keyVars
  BY DEF Next, vars, Run, KeyNext
<1>3. KeyInv /\ [Next]_vars => KeyInv'
  BY <1>2, KeyNextKeeps
<1>4. KeyInv => StableIdentity
  BY OneServed
<1> QED BY <1>1, <1>3, <1>4, PTL DEF Spec
-----------------------------------------------------------------------------
(* The advertised addresses.                                               *)

\* The sequence t stands in b after its first k members.
Stands(b, k, t) == k + Len(t) <= Len(b) /\ \A i \in 1..Len(t) : b[k + i] = t[i]

LEMMA Appended ==
    ASSUME NEW s \in Seq(Nat), NEW t \in Seq(Nat)
    PROVE  s \o t \in Seq(Nat) /\ Len(s \o t) = Len(s) + Len(t) /\ Stands(s \o t, Len(s), t)
<1> DEFINE m == Len(s)
           n == Len(t)
           b == s \o t
<1>1. b \in Seq(Nat) /\ Len(b) = m + n
  BY ConcatProperties, Zenon
<1>2. \A i \in 1 .. m + n : b[i] = IF i <= m THEN s[i] ELSE t[i - m]
  BY ConcatProperties, Zenon
<1>3. m \in Nat /\ n \in Nat
  BY LenProperties
<1> HIDE DEF b, m, n
<1>4. ASSUME NEW i \in 1..n PROVE b[m + i] = t[i]
  <2>1. m + i \in 1..(m + n) /\ ~(m + i <= m) /\ (m + i) - m = i
    BY <1>3
  <2> QED BY <1>2, <2>1
<1>5. Stands(b, m, t)
  BY <1>1, <1>3, <1>4 DEF Stands, n
<1> QED BY <1>1, <1>5 DEF b, m, n

\* What stands in a sequence stays where it is when more is appended.
LEMMA Kept ==
    ASSUME NEW s \in Seq(Nat), NEW t \in Seq(Nat), NEW r \in Seq(Nat), NEW k \in Nat, Stands(s, k, r)
    PROVE  Stands(s \o t, k, r)
<1> DEFINE m == Len(s)
           n == Len(t)
           l == Len(r)
           b == s \o t
<1>1. b \in Seq(Nat) /\ Len(b) = m + n
  BY ConcatProperties, Zenon
<1>2. \A i \in 1 .. m + n : b[i] = IF i <= m THEN s[i] ELSE t[i - m]
  BY ConcatProperties, Zenon
<1>3. m \in Nat /\ n \in Nat /\ l \in Nat
  BY LenProperties
<1>4. k + l <= m /\ \A i \in 1..l : s[k + i] = r[i]
  BY DEF Stands
<1> HIDE DEF b, m, n, l
<1>5. ASSUME NEW i \in 1..l PROVE b[k + i] = r[i]
  <2>1. k + i \in 1..(m + n) /\ k + i <= m
    BY <1>3, <1>4
  <2> QED BY <1>2, <1>4, <2>1
<1>6. k + l <= Len(b)
  BY <1>1, <1>3, <1>4
<1> QED BY <1>5, <1>6 DEF Stands, b, l

\* A host comes out of an encoding as it went in.
LEMMA HostBack ==
    ASSUME NEW b \in Seq(Nat), NEW h \in Seq(Nat), NEW m \in Nat, Stands(b, m, h)
    PROVE  SubSeq(b, m + 1, m + Len(h)) = h
<1> DEFINE n == Len(h)
<1>n. n \in Nat
  BY LenProperties
<1>0. m + n <= Len(b) /\ \A i \in 1..n : b[m + i] = h[i]
  BY DEF Stands
<1> HIDE DEF n
<1>1. \A l \in (m + 1)..(m + n) : b[l] \in Nat
  <2> SUFFICES ASSUME NEW l \in (m + 1)..(m + n) PROVE b[l] \in Nat
    OBVIOUS
  <2>1. l \in 1..Len(b)
    BY <1>0, <1>n
  <2> QED BY <2>1, ElementOfSeq
<1> DEFINE s == SubSeq(b, m + 1, m + n)
<1>2. s \in Seq(Nat)
  BY <1>0, <1>1, <1>n
<1>3. Len(s) = n
  BY <1>0, <1>1, <1>n
<1>4. ASSUME NEW l \in 1..n PROVE s[l] = h[l]
  BY <1>0, <1>1, <1>n
<1> HIDE DEF s
<1> QED BY <1>2, <1>3, <1>4, SeqEqual DEF s, n

ReadPort(q) == 256 * q[1] + q[2]

\* The port is read back from its two bytes, the high one first.
LEMMA PortBack ==
    ASSUME NEW n \in Nat, ValidPort(n)
    PROVE  /\ BigEndian16(n) \in Seq(Nat) /\ Len(BigEndian16(n)) = 2
           /\ ReadPort(BigEndian16(n)) = n
<1>1. n \div 256 \in Nat /\ n % 256 \in Nat /\ 256 * (n \div 256) + (n % 256) = n
  OBVIOUS
<1>2. <<n \div 256, n % 256>> \in Seq(Nat)
  BY <1>1
<1> QED BY <1>1, <1>2 DEF BigEndian16, ReadPort

\* The peer's parser on the bytes of an encoded ip4 address.
LEMMA Ip4Back ==
    ASSUME NEW w \in Seq(Nat), NEW h \in Seq(Nat), NEW v \in Seq(Nat), NEW q \in Seq(Nat),
           w = AppendUvarint(multiaddrProtoIP4), Len(h) = 4,
           v = AppendUvarint(multiaddrProtoTCP), Len(q) = 2
    PROVE  DecodeMultiaddr(((w \o h) \o v) \o q)
             = [form |-> "ip4", host |-> h, port |-> ReadPort(q)]
<1> DEFINE x == w \o h
           y == x \o v
           b == y \o q
<1>w. Len(w) = 1 /\ w[1] = 4 /\ Len(v) = 1 /\ v[1] = 6
  BY DEF AppendUvarint, multiaddrProtoIP4, multiaddrProtoTCP
<1>0. Stands(w, 0, w)
  BY <1>w DEF Stands
<1>k. 0 \in Nat /\ 1 \in Nat /\ 5 \in Nat /\ 6 \in Nat
  OBVIOUS
<1>1. x \in Seq(Nat) /\ Len(x) = Len(w) + Len(h) /\ Stands(x, Len(w), h)
  BY Appended, Zenon
<1>2. Stands(x, 0, w)
  BY <1>0, <1>k, Kept, Zenon
<1> HIDE DEF x
<1>3. Len(x) = 5 /\ Stands(x, 1, h)
  BY <1>1, <1>w
<1>4. y \in Seq(Nat) /\ Len(y) = Len(x) + Len(v) /\ Stands(y, Len(x), v)
  BY <1>1, Appended, Zenon
<1>5. Stands(y, 0, w) /\ Stands(y, 1, h)
  BY <1>1, <1>2, <1>3, <1>k, Kept, Zenon
<1> HIDE DEF y
<1>6. Len(y) = 6 /\ Stands(y, 5, v)
  BY <1>3, <1>4, <1>w
<1>7. b \in Seq(Nat) /\ Len(b) = Len(y) + Len(q) /\ Stands(b, Len(y), q)
  BY <1>4, Appended, Zenon
<1>8. Stands(b, 0, w) /\ Stands(b, 1, h) /\ Stands(b, 5, v)
  BY <1>4, <1>5, <1>6, <1>k, Kept, Zenon
<1> HIDE DEF b
<1>9. Len(b) = 8 /\ Stands(b, 6, q)
  BY <1>6, <1>7
<1>10. b[1] = 4 /\ b[6] = 6
  BY <1>8, <1>w DEF Stands
<1>11. b[7] = q[1] /\ b[8] = q[2]
  BY <1>9 DEF Stands
<1>12. SubSeq(b, 2, 5) = h
  <2> DEFINE i == 2
             j == 5
  <2>1. i = 1 + 1 /\ j = 1 + Len(h)
    OBVIOUS
  <2>2. SubSeq(b, 1 + 1, 1 + Len(h)) = h
    BY <1>7, <1>8, <1>k, HostBack, Zenon
  <2> HIDE DEF i, j
  <2>3. SubSeq(b, i, j) = h
    BY <2>1, <2>2, Zenon
  <2> QED BY <2>3 DEF i, j
<1>13. DecodeMultiaddr(b) = [form |-> "ip4", host |-> SubSeq(b, 2, 5), port |-> 256 * b[7] + b[8]]
  BY <1>9, <1>10 DEF DecodeMultiaddr, multiaddrProtoIP4, multiaddrProtoTCP, multiaddrProtoOnion3
<1> QED BY <1>11, <1>12, <1>13, ZenonT(60) DEF b, y, x, ReadPort

\* The peer's parser on the bytes of an encoded onion3 address.
LEMMA Onion3Back ==
    ASSUME NEW w \in Seq(Nat), NEW h \in Seq(Nat), NEW q \in Seq(Nat),
           w = AppendUvarint(multiaddrProtoOnion3), Len(h) = onion3HashLen, Len(q) = 2
    PROVE  DecodeMultiaddr((w \o h) \o q)
             = [form |-> "onion3", host |-> h, port |-> ReadPort(q)]
<1> DEFINE x == w \o h
           b == x \o q
<1>w. Len(w) = 2 /\ w[1] = 189 /\ w[2] = 3
  BY DEF AppendUvarint, multiaddrProtoOnion3
<1>h. Len(h) = 35
  BY DEF onion3HashLen
<1>0. Stands(w, 0, w)
  BY <1>w DEF Stands
<1>k. 0 \in Nat /\ 2 \in Nat
  OBVIOUS
<1>1. x \in Seq(Nat) /\ Len(x) = Len(w) + Len(h) /\ Stands(x, Len(w), h)
  BY Appended, Zenon
<1>2. Stands(x, 0, w)
  BY <1>0, <1>k, Kept, Zenon
<1> HIDE DEF x
<1>3. Len(x) = 37 /\ Stands(x, 2, h)
  BY <1>1, <1>w, <1>h
<1>4. b \in Seq(Nat) /\ Len(b) = Len(x) + Len(q) /\ Stands(b, Len(x), q)
  BY <1>1, Appended, Zenon
<1>5. Stands(b, 0, w)
  BY <1>1, <1>2, <1>k, Kept, Zenon
<1>6. Stands(b, 2, h)
  <2>1. Stands(x, 2, h)
    BY <1>3
  <2> QED BY <1>1, <2>1, <1>k, Kept, Zenon
<1> HIDE DEF b
<1>7. Len(b) = 39 /\ Stands(b, 37, q)
  BY <1>3, <1>4
<1>8. b[1] = 189 /\ b[2] = 3
  BY <1>5, <1>w DEF Stands
<1>9. b[38] = q[1] /\ b[39] = q[2]
  BY <1>7 DEF Stands
<1>10. SubSeq(b, 3, 37) = h
  <2> DEFINE i == 3
             j == 37
  <2>1. i = 2 + 1 /\ j = 2 + Len(h)
    BY <1>h
  <2>2. SubSeq(b, 2 + 1, 2 + Len(h)) = h
    BY <1>4, <1>6, <1>k, HostBack, Zenon
  <2> HIDE DEF i, j
  <2>3. SubSeq(b, i, j) = h
    BY <2>1, <2>2, Zenon
  <2> QED BY <2>3 DEF i, j
<1>11. DecodeMultiaddr(b) = [form |-> "onion3", host |-> SubSeq(b, 3, 37), port |-> 256 * b[38] + b[39]]
  BY <1>7, <1>8 DEF DecodeMultiaddr, multiaddrProtoIP4, multiaddrProtoTCP, multiaddrProtoOnion3,
     onion3HashLen
<1> QED BY <1>9, <1>10, <1>11 DEF b, x, ReadPort

\* DecodeMultiaddr undoes EncodeMultiaddrString on what that accepts.
LEMMA AddressBack ==
    ASSUME NEW a \in AddressTexts, Encodable(a)
    PROVE  DecodeMultiaddr(EncodeMultiaddrString(a)) = a
<1>1. a.host \in Seq(Nat) /\ a.port \in Nat /\ a = [form |-> a.form, host |-> a.host, port |-> a.port]
  BY DEF AddressTexts
<1>2. ValidPort(a.port)
  BY DEF Encodable
<1> DEFINE h == a.host
           q == BigEndian16(a.port)
<1>3. q \in Seq(Nat) /\ Len(q) = 2 /\ ReadPort(q) = a.port
  BY <1>1, <1>2, PortBack
<1>4. CASE a.form = "ip4"
  <2> DEFINE w == AppendUvarint(multiaddrProtoIP4)
             v == AppendUvarint(multiaddrProtoTCP)
  <2>1. w \in Seq(Nat) /\ v \in Seq(Nat)
    BY DEF AppendUvarint, multiaddrProtoIP4, multiaddrProtoTCP
  <2>2. Len(h) = 4
    BY <1>4 DEF Encodable
  <2>3. EncodeMultiaddrString(a) = ((w \o h) \o v) \o q
    BY <1>4, Zenon DEF EncodeMultiaddrString, encodeIP4TCPMultiaddr
  <2> HIDE DEF w, v, q, h
  <2>4. DecodeMultiaddr(((w \o h) \o v) \o q)
          = [form |-> "ip4", host |-> h, port |-> ReadPort(q)]
    BY <1>1, <1>3, <2>1, <2>2, Ip4Back, ZenonT(60) DEF h, w, v
  <2> QED BY <1>1, <1>3, <1>4, <2>3, <2>4, Zenon DEF h
<1>5. CASE a.form = "onion3"
  <2> DEFINE w == AppendUvarint(multiaddrProtoOnion3)
  <2>1. w \in Seq(Nat)
    BY DEF AppendUvarint, multiaddrProtoOnion3
  <2>2. Len(h) = onion3HashLen
    BY <1>5 DEF Encodable
  <2>3. EncodeMultiaddrString(a) = (w \o h) \o q
    <3>1. a.form # "ip4"
      BY <1>5
    <3> QED BY <3>1, Zenon DEF EncodeMultiaddrString, encodeOnion3Multiaddr
  <2> HIDE DEF w, q, h
  <2>4. DecodeMultiaddr((w \o h) \o q)
          = [form |-> "onion3", host |-> h, port |-> ReadPort(q)]
    BY <1>1, <1>3, <2>1, <2>2, Onion3Back, Zenon DEF h, w
  <2> QED BY <1>1, <1>3, <1>5, <2>3, <2>4, Zenon DEF h
<1> QED BY <1>4, <1>5 DEF Encodable

\* A process gets past the first lines of run only with addresses that parse.
ParsedInv ==
    /\ tcp \in TCPFlags /\ onion \in OnionFlags
    /\ \A p \in Procs : pc[p] # "off" => AddressesOK(tcp, onion)

LEMMA NextParsedInv == ASSUME KeyInv, ParsedInv, [Next]_vars PROVE ParsedInv'
<1>1. tcp' = tcp /\ onion' = onion
  BY DEF Next, vars
<1>2. ASSUME NEW q \in Procs, pc'[q] # "off" PROVE AddressesOK(tcp, onion)
  <2>1. CASE pc'[q] = pc[q]
    BY <1>2, <2>1 DEF ParsedInv
  <2>2. ASSUME NEW p \in Procs, Run(p) PROVE AddressesOK(tcp, onion)
    BY <2>2 DEF Run
  <2>3. ASSUME NEW p \in Procs, KeyStep(p) PROVE pc'[q] = pc[q] \/ pc[q] # "off"
    BY <1>2, <2>3 DEF KeyStep, LoadKey, NoKeyFile, ReadFails, GenerateKey, OpenKeyFile, OpenFails,
       WriteKey, WriteFails, Listen, ListenFails, Stop, Goes, KeyInv, KeyTypeOK
  <2>4. CASE RemoveBadFile \/ UNCHANGED vars
    BY <2>1, <2>4 DEF RemoveBadFile, vars, keyVars
  <2> QED BY <2>1, <2>2, <2>3, <2>4 DEF Next, ParsedInv
<1> QED BY <1>1, <1>2 DEF ParsedInv

\* A list of flags that was accepted is what the peer decodes.
LEMMA ListBack ==
    ASSUME NEW fs \in Seq(AddressTexts), \A i \in DOMAIN fs : Encodable(fs[i])
    PROVE  LET as == [i \in DOMAIN fs |-> EncodeMultiaddrString(fs[i])]
           IN  [i \in DOMAIN as |-> DecodeMultiaddr(as[i])] = fs
<1> DEFINE as == [i \in DOMAIN fs |-> EncodeMultiaddrString(fs[i])]
<1>1. DOMAIN fs = 1..Len(fs) /\ fs \in [1..Len(fs) -> AddressTexts]
  BY LenProperties
<1>2. ASSUME NEW i \in DOMAIN fs PROVE DecodeMultiaddr(as[i]) = fs[i]
  <2>1. fs[i] \in AddressTexts /\ Encodable(fs[i]) /\ as[i] = EncodeMultiaddrString(fs[i])
    BY <1>1
  <2> QED BY <2>1, AddressBack
<1>3. [i \in DOMAIN as |-> DecodeMultiaddr(as[i])] = [i \in DOMAIN fs |-> fs[i]]
  BY <1>2
<1> QED BY <1>1, <1>3

\* A peer that parses what a serving process advertises finds the addresses of
\* its command line, in order and at least one, whatever the flags are:
\* EncodeMultiaddrString loses nothing of what it accepts, and run serves
\* nothing that it does not accept.
THEOREM AddressesReadBack == Spec => []PeerReadsAddresses
<1>1. Init => KeyInv /\ ParsedInv
  BY KeyStarts DEF Init, KeyInit, ParsedInv
<1>2. [Next]_vars => [KeyNext]_keyVars
  BY DEF Next, vars, Run, KeyNext
<1>3. KeyInv /\ ParsedInv /\ [Next]_vars => KeyInv' /\ ParsedInv'
  BY <1>2, KeyNextKeeps, NextParsedInv
<1>4. ParsedInv => PeerReadsAddresses
  <2> SUFFICES ASSUME ParsedInv, Serving # {} PROVE PeerReadsAddresses
    BY DEF PeerReadsAddresses
  <2> DEFINE fs == tcp \o onion
  <2>1. AddressesOK(tcp, onion)
    BY DEF ParsedInv, Serving
  <2>2. tcp \in Seq(AddressTexts) /\ onion \in Seq(AddressTexts)
    BY StartupAssumption DEF ParsedInv
  <2>3. fs \in Seq(AddressTexts)
    BY <2>2, ConcatProperties, Zenon
  <2>4. fs # <<>> /\ \A i \in DOMAIN fs : Encodable(fs[i])
    BY <2>1 DEF AddressesOK, Flags
  <2>5. OurAddresses = [i \in DOMAIN fs |-> EncodeMultiaddrString(fs[i])]
    BY DEF OurAddresses, parseAdvertisedAddresses, Flags
  <2> HIDE DEF fs
  <2>6. [i \in DOMAIN OurAddresses |-> DecodeMultiaddr(OurAddresses[i])] = fs
    BY <2>3, <2>4, <2>5, ListBack
  <2>7. Len(OurAddresses) > 0
    <3>1. DOMAIN fs = 1..Len(fs) /\ Len(fs) \in Nat \ {0}
      BY <2>3, <2>4, LenProperties, EmptySeq
    <3>2. DOMAIN OurAddresses = 1..Len(fs)
      BY <2>5, <3>1
    <3>3. Len(OurAddresses) = Len(fs)
      BY <2>5, <3>1, <3>2
    <3> QED BY <3>1, <3>3
  <2> QED BY <2>6, <2>7 DEF PeerReadsAddresses, fs
<1> QED BY <1>1, <1>3, <1>4, PTL DEF Spec

-----------------------------------------------------------------------------
(* What is hashed for the signature.                                       *)

\* Induction, as the existence of a least counterexample.
LEMMA LeastNat ==
    ASSUME NEW T, T \subseteq Nat, T # {}
    PROVE  \E x \in T : \A y \in T : x <= y
<1> DEFINE R == OpToRel(<, Nat)
<1>1. IsWellFoundedOn(R, Nat)
  BY NatLessThanWellFounded
<1>2. \A x, y \in Nat : <<y, x>> \in R <=> y < x
  BY DEF OpToRel
<1> HIDE DEF R
<1>3. PICK x \in T : \A y \in T : ~(<<y, x>> \in R)
  BY <1>1, WFMin, Zenon
<1>4. ASSUME NEW y \in T PROVE x <= y
  <2>1. x \in Nat /\ y \in Nat
    OBVIOUS
  <2>2. ~(y < x)
    BY <1>2, <1>3, <2>1, Zenon
  <2> QED BY <2>1, <2>2
<1> QED BY <1>4

\* Everything a hasher is fed with.
Units == Nat \cup Half \cup {"identity_signature"}

Begins(s, t) == Len(s) <= Len(t) /\ \A i \in 1..Len(s) : s[i] = t[i]

LEMMA Joins ==
    ASSUME NEW s \in Seq(Units), NEW t \in Seq(Units)
    PROVE  /\ s \o t \in Seq(Units) /\ Len(s \o t) = Len(s) + Len(t)
           /\ \A i \in 1..Len(s) : (s \o t)[i] = s[i]
           /\ \A i \in 1..Len(t) : (s \o t)[Len(s) + i] = t[i]
<1> DEFINE m == Len(s)
           n == Len(t)
           b == s \o t
<1>1. b \in Seq(Units) /\ Len(b) = m + n
  BY ConcatProperties, Zenon
<1>2. \A i \in 1 .. m + n : b[i] = IF i <= m THEN s[i] ELSE t[i - m]
  BY ConcatProperties, Zenon
<1>3. m \in Nat /\ n \in Nat
  BY LenProperties
<1> HIDE DEF b, m, n
<1>4. ASSUME NEW i \in 1..n PROVE b[m + i] = t[i]
  <2>1. m + i \in 1..(m + n) /\ ~(m + i <= m) /\ (m + i) - m = i
    BY <1>3
  <2> QED BY <1>2, <2>1
<1>5. ASSUME NEW i \in 1..m PROVE b[i] = s[i]
  <2>1. i \in 1..(m + n) /\ i <= m
    BY <1>3
  <2> QED BY <1>2, <2>1
<1> QED BY <1>1, <1>4, <1>5 DEF b, m, n

LEMMA SmallByte == ASSUME NEW k \in Nat, k < 256 PROVE k % 256 = k
BY SMTT(60)

LEMMA Quotients ==
    ASSUME NEW k \in Nat
    PROVE  /\ k % 256 \in Nat /\ k \div 256 \in Nat /\ k \div 65536 \in Nat /\ k \div 16777216 \in Nat
BY SMTT(60)

\* Four bytes tell the numbers below 2^32 apart.
LEMMA BytesApart ==
    ASSUME NEW n \in Nat, NEW m \in Nat, n \div 16777216 < 256, m \div 16777216 < 256,
           n % 256 = m % 256, (n \div 256) % 256 = (m \div 256) % 256,
           (n \div 65536) % 256 = (m \div 65536) % 256,
           (n \div 16777216) % 256 = (m \div 16777216) % 256
    PROVE  n = m
<1>1. ASSUME NEW k \in Nat PROVE k \div 65536 = (k \div 256) \div 256
  BY SMTT(60)
<1>2. ASSUME NEW k \in Nat PROVE k \div 16777216 = (k \div 65536) \div 256
  BY SMTT(60)
<1>3. ASSUME NEW k \in Nat PROVE k \div 256 \in Nat /\ k = 256 * (k \div 256) + (k % 256)
  BY SMTT(60)
<1>5. /\ n \div 256 \in Nat /\ n \div 65536 \in Nat /\ n \div 16777216 \in Nat
      /\ m \div 256 \in Nat /\ m \div 65536 \in Nat /\ m \div 16777216 \in Nat
  BY Quotients, SMTT(60)
<1>6. n \div 16777216 = m \div 16777216
  BY <1>5, SmallByte, SMTT(60)
<1>7. n \div 65536 = m \div 65536
  BY <1>2, <1>3, <1>5, <1>6, SMTT(60)
<1>8. n \div 256 = m \div 256
  BY <1>1, <1>3, <1>5, <1>7, SMTT(60)
<1> QED BY <1>3, <1>8, SMTT(60)

Byte1(n) == n % 256
Byte2(n) == (n \div 256) % 256
Byte3(n) == (n \div 65536) % 256
Byte4(n) == (n \div 16777216) % 256
ByteAt(n, i) == (n \div places[i]) % 256

LEMMA ByteAtFacts ==
    ASSUME NEW n \in Nat
    PROVE  /\ ByteAt(n, 1) = Byte1(n) /\ ByteAt(n, 2) = Byte2(n)
           /\ ByteAt(n, 3) = Byte3(n) /\ ByteAt(n, 4) = Byte4(n)
<1>1. places[1] = 1 /\ places[2] = 256 /\ places[3] = 65536 /\ places[4] = 16777216
  BY SMTT(60) DEF places
<1>2. n \div 1 = n
  BY SMTT(60)
<1> QED BY <1>1, <1>2, SMTT(60) DEF ByteAt, Byte1, Byte2, Byte3, Byte4

LEMMA BytesNat ==
    ASSUME NEW n \in Nat
    PROVE  Byte1(n) \in Nat /\ Byte2(n) \in Nat /\ Byte3(n) \in Nat /\ Byte4(n) \in Nat
<1>1. n \div 256 \in Nat /\ n \div 65536 \in Nat /\ n \div 16777216 \in Nat
  BY Quotients, SMTT(60)
<1> QED BY <1>1, Quotients, SMTT(60) DEF Byte1, Byte2, Byte3, Byte4

LEMMA LittleEndianFacts ==
    ASSUME NEW n \in Nat, NEW size \in {4, 8}
    PROVE  /\ LittleEndian(n, size) \in Seq(Units) /\ Len(LittleEndian(n, size)) = size
           /\ \A i \in 1..4 : LittleEndian(n, size)[i] = ByteAt(n, i)
<1> DEFINE at(i) == IF i <= 4 THEN ByteAt(n, i) ELSE 0
<1>1. LittleEndian(n, size) = [i \in 1..size |-> at(i)]
  BY DEF LittleEndian, ByteAt
<1>2. ASSUME NEW i \in 1..4 PROVE ByteAt(n, i) \in Nat
  <2>1. ByteAt(n, 1) \in Nat /\ ByteAt(n, 2) \in Nat /\ ByteAt(n, 3) \in Nat /\ ByteAt(n, 4) \in Nat
    BY ByteAtFacts, BytesNat
  <2>2. i = 1 \/ i = 2 \/ i = 3 \/ i = 4
    OBVIOUS
  <2> QED BY <2>1, <2>2
<1>3. ASSUME NEW i \in 1..size PROVE at(i) \in Units
  <2>1. CASE i <= 4
    BY <1>2, <2>1 DEF Units
  <2>2. CASE ~(i <= 4)
    BY <2>2 DEF Units
  <2> QED BY <2>1, <2>2
<1>4. ASSUME NEW i \in 1..4 PROVE i \in 1..size /\ at(i) = ByteAt(n, i)
  OBVIOUS
<1> HIDE DEF at
<1>5. [i \in 1..size |-> at(i)] \in Seq(Units) /\ Len([i \in 1..size |-> at(i)]) = size
  BY <1>3
<1> QED BY <1>1, <1>4, <1>5

LEMMA LittleEndianInjective ==
    ASSUME NEW n \in Nat, NEW m \in Nat, Uint32(n), Uint32(m), NEW size \in {4, 8},
           \A i \in 1..size : LittleEndian(n, size)[i] = LittleEndian(m, size)[i]
    PROVE  n = m
<1>1. \A i \in 1..4 : i \in 1..size
  OBVIOUS
<1>2. \A i \in 1..4 : ByteAt(n, i) = ByteAt(m, i)
  BY <1>1, LittleEndianFacts, SMTT(60)
<1>3. n \div 16777216 < 256 /\ m \div 16777216 < 256
  BY SMTT(60) DEF Uint32
<1>4. /\ ByteAt(n, 1) = ByteAt(m, 1) /\ ByteAt(n, 2) = ByteAt(m, 2)
      /\ ByteAt(n, 3) = ByteAt(m, 3) /\ ByteAt(n, 4) = ByteAt(m, 4)
  BY <1>2
<1>5. Byte1(n) = Byte1(m) /\ Byte2(n) = Byte2(m) /\ Byte3(n) = Byte3(m) /\ Byte4(n) = Byte4(m)
  BY <1>4, ByteAtFacts
<1> QED BY <1>3, <1>5, BytesApart, SMTT(60) DEF Byte1, Byte2, Byte3, Byte4

\* What Chain appends: eight bytes of length, then the data.
LEMMA ChainFacts ==
    ASSUME NEW d \in Seq(Units), NEW a \in Seq(Units)
    PROVE  /\ Chain(d, a) \in Seq(Units) /\ Len(Chain(d, a)) = Len(d) + 8 + Len(a)
           /\ Begins(d, Chain(d, a))
           /\ \A i \in 1..8 : Chain(d, a)[Len(d) + i] = LittleEndian(Len(a), 8)[i]
           /\ \A i \in 1..Len(a) : Chain(d, a)[Len(d) + 8 + i] = a[i]
<1> DEFINE l == LittleEndian(Len(a), 8)
           x == d \o l
           c == x \o a
<1>1. Len(a) \in Nat /\ Len(d) \in Nat
  BY LenProperties
<1>2. l \in Seq(Units) /\ Len(l) = 8
  BY <1>1, LittleEndianFacts
<1>3. Chain(d, a) = c
  BY Zenon DEF Chain, writeLengthPrefixedTo
<1> HIDE DEF l
<1>4. /\ x \in Seq(Units) /\ Len(x) = Len(d) + 8
      /\ \A i \in 1..Len(d) : x[i] = d[i]
      /\ \A i \in 1..8 : x[Len(d) + i] = l[i]
  <2>1. /\ x \in Seq(Units) /\ Len(x) = Len(d) + Len(l)
        /\ \A i \in 1..Len(d) : x[i] = d[i]
        /\ \A i \in 1..Len(l) : x[Len(d) + i] = l[i]
    BY <1>2, Joins, Zenon
  <2> HIDE DEF x
  <2> QED BY <1>2, <2>1
<1> HIDE DEF x
<1>5. /\ c \in Seq(Units) /\ Len(c) = Len(x) + Len(a)
      /\ \A i \in 1..Len(x) : c[i] = x[i]
      /\ \A i \in 1..Len(a) : c[Len(x) + i] = a[i]
  BY <1>4, Joins
<1> HIDE DEF c
<1>6. Begins(d, c)
  <2>1. \A i \in 1..Len(d) : i \in 1..Len(x)
    BY <1>1, <1>4
  <2> QED BY <1>1, <1>4, <1>5, <2>1, SMTT(60) DEF Begins
<1>7. ASSUME NEW i \in 1..8 PROVE c[Len(d) + i] = l[i]
  <2>1. Len(d) + i \in 1..Len(x)
    BY <1>1, <1>4, SMTT(60)
  <2> QED BY <1>4, <1>5, <2>1
<1> QED BY <1>3, <1>4, <1>5, <1>6, <1>7 DEF l

\* The length tells where a chunk ends: nothing begins with one digest chained
\* with two different chunks.
LEMMA ChainParses ==
    ASSUME NEW d \in Seq(Units), NEW a \in Seq(Units), NEW b \in Seq(Units), NEW x \in Seq(Units),
           Uint32(Len(a)), Uint32(Len(b)), Begins(Chain(d, a), x), Begins(Chain(d, b), x)
    PROVE  a = b
<1> DEFINE k == Len(d)
           m == Len(a)
           n == Len(b)
<1>1. k \in Nat /\ m \in Nat /\ n \in Nat
  BY LenProperties
<1>2. /\ Len(Chain(d, a)) = k + 8 + m
      /\ \A i \in 1..8 : Chain(d, a)[k + i] = LittleEndian(m, 8)[i]
      /\ \A i \in 1..m : Chain(d, a)[k + 8 + i] = a[i]
  BY ChainFacts
<1>3. /\ Len(Chain(d, b)) = k + 8 + n
      /\ \A i \in 1..8 : Chain(d, b)[k + i] = LittleEndian(n, 8)[i]
      /\ \A i \in 1..n : Chain(d, b)[k + 8 + i] = b[i]
  BY ChainFacts
<1>4. Uint32(m) /\ Uint32(n)
  OBVIOUS
<1>5. a = [i \in 1..m |-> a[i]] /\ b = [i \in 1..n |-> b[i]]
  OBVIOUS
<1> HIDE DEF k, m, n
<1>6. /\ \A i \in 1..(k + 8 + m) : Chain(d, a)[i] = x[i]
      /\ \A i \in 1..(k + 8 + n) : Chain(d, b)[i] = x[i]
  BY <1>2, <1>3 DEF Begins
<1>7. ASSUME NEW i \in 1..8 PROVE LittleEndian(m, 8)[i] = LittleEndian(n, 8)[i]
  <2>1. k + i \in 1..(k + 8 + m) /\ k + i \in 1..(k + 8 + n)
    BY <1>1
  <2>2. Chain(d, a)[k + i] = x[k + i] /\ Chain(d, b)[k + i] = x[k + i]
    BY <1>6, <2>1
  <2>3. Chain(d, a)[k + i] = LittleEndian(m, 8)[i] /\ Chain(d, b)[k + i] = LittleEndian(n, 8)[i]
    BY <1>2, <1>3
  <2> QED BY <2>2, <2>3
<1>8. m = n
  BY <1>1, <1>4, <1>7, LittleEndianInjective
<1>9. ASSUME NEW i \in 1..m PROVE a[i] = b[i]
  <2>1. k + 8 + i \in 1..(k + 8 + m) /\ i \in 1..n
    BY <1>1, <1>8
  <2> QED BY <1>2, <1>3, <1>6, <1>8, <2>1, SMTT(60)
<1> QED BY <1>5, <1>8, <1>9

\* The hasher's states while the addresses are chained to h.
Fed(g, h, as) ==
    /\ g = [i \in 0..Len(as) |-> g[i]] /\ g[0] = h
    /\ \A i \in 1..Len(as) : g[i] = Chain(g[i - 1], as[i])

LEMMA FedExists == ASSUME NEW h, NEW as, Len(as) \in Nat PROVE \E g : Fed(g, h, as)
<1> DEFINE n == Len(as)
           Upto(g, m) == /\ g = [i \in 0..m |-> g[i]] /\ g[0] = h
                         /\ \A i \in 1..m : g[i] = Chain(g[i - 1], as[i])
           T == {m \in 0..n : \A g : ~Upto(g, m)}
<1>1. n \in Nat
  OBVIOUS
<1> HIDE DEF n
<1>2. ASSUME T # {} PROVE FALSE
  <2>1. PICK m \in T : \A y \in T : m <= y
    <3>1. T \subseteq Nat
      <4> HIDE DEF Upto
      <4> QED BY <1>1
    <3> HIDE DEF T
    <3> QED BY <1>2, <3>1, LeastNat, Zenon
  <2>2. m \in 0..n
    OBVIOUS
  <2>3. CASE m = 0
    <3> DEFINE g == [i \in 0..0 |-> h]
    <3>1. g = [i \in 0..0 |-> g[i]] /\ g[0] = h /\ 1..0 = {}
      OBVIOUS
    <3> HIDE DEF g
    <3>2. Upto(g, 0)
      BY <3>1
    <3> QED BY <2>3, <3>2
  <2>4. CASE m # 0
    <3>1. m - 1 \in 0..n /\ m - 1 \notin T
      <4> HIDE DEF T
      <4> QED BY <1>1, <2>1, <2>2, <2>4
    <3>2. PICK g : Upto(g, m - 1)
      BY <3>1
    <3> DEFINE k == [i \in 0..m |-> IF i = m THEN Chain(g[m - 1], as[m]) ELSE g[i]]
    <3>3. k[0] = h
      <4>1. 0 \in 0..m /\ 0 # m
        BY <1>1, <2>2, <2>4
      <4> QED BY <3>2, <4>1
    <3>4. ASSUME NEW i \in 1..m PROVE k[i] = Chain(k[i - 1], as[i])
      <4>1. i - 1 \in 0..m /\ i - 1 # m /\ i \in 0..m
        BY <1>1, <2>2
      <4>2. k[i - 1] = g[i - 1]
        BY <4>1
      <4>3. CASE i = m
        BY <4>1, <4>2, <4>3
      <4>4. CASE i # m
        <5>1. i \in 1..(m - 1)
          BY <1>1, <2>2, <4>4
        <5>2. g[i] = Chain(g[i - 1], as[i])
          BY <3>2, <5>1
        <5> QED BY <4>1, <4>2, <4>4, <5>2
      <4> QED BY <4>3, <4>4
    <3>5. k = [i \in 0..m |-> k[i]]
      OBVIOUS
    <3> HIDE DEF k
    <3>6. Upto(k, m)
      BY <3>3, <3>4, <3>5
    <3> QED BY <3>6
  <2> QED BY <2>3, <2>4
<1>3. n \notin T /\ n \in 0..n
  <2>1. T = {}
    BY <1>2
  <2> HIDE DEF T
  <2> QED BY <1>1, <2>1
<1>4. PICK g : Upto(g, n)
  BY <1>3
<1>5. Fed(g, h, as)
  BY <1>4, Zenon DEF Fed, n
<1> QED BY <1>5

LEMMA FedTypes ==
    ASSUME NEW h \in Seq(Units), NEW as \in Seq(Seq(Units)), NEW g, Fed(g, h, as)
    PROVE  \A i \in 0..Len(as) : g[i] \in Seq(Units)
<1> DEFINE n == Len(as)
           T == {m \in 0..n : g[m] \notin Seq(Units)}
<1>1. n \in Nat /\ \A i \in 1..n : as[i] \in Seq(Units)
  BY LenProperties, ElementOfSeq
<1>2. g[0] = h /\ \A i \in 1..n : g[i] = Chain(g[i - 1], as[i])
  BY Zenon DEF Fed
<1> HIDE DEF n
<1>3. ASSUME T # {} PROVE FALSE
  <2>1. PICK m \in T : \A y \in T : m <= y
    <3>1. T \subseteq Nat
      BY <1>1
    <3> HIDE DEF T
    <3> QED BY <1>3, <3>1, LeastNat, Zenon
  <2>2. m \in 0..n /\ g[m] \notin Seq(Units)
    OBVIOUS
  <2>3. m # 0
    BY <1>2, <2>2
  <2>4. m - 1 \in 0..n /\ m - 1 \notin T /\ m \in 1..n
    BY <1>1, <2>1, <2>2, <2>3
  <2>5. g[m - 1] \in Seq(Units) /\ as[m] \in Seq(Units)
    BY <1>1, <2>4
  <2>6. Chain(g[m - 1], as[m]) \in Seq(Units)
    BY <2>5, ChainFacts
  <2>7. g[m] = Chain(g[m - 1], as[m])
    BY <1>2, <2>4, Zenon
  <2> QED BY <2>2, <2>6, <2>7, Zenon
<1>4. T = {}
  BY <1>3
<1> QED BY <1>4 DEF n

\* Everything chained earlier is still there at the end.
LEMMA FedGrows ==
    ASSUME NEW h \in Seq(Units), NEW as \in Seq(Seq(Units)), NEW g, Fed(g, h, as), NEW i \in 0..Len(as)
    PROVE  Begins(g[i], g[Len(as)])
<1> DEFINE n == Len(as)
           T == {m \in i..n : ~Begins(g[i], g[m])}
<1>1. n \in Nat /\ i \in 0..n /\ \A j \in 1..n : as[j] \in Seq(Units)
  BY LenProperties, ElementOfSeq
<1>2. \A j \in 1..n : g[j] = Chain(g[j - 1], as[j])
  BY Zenon DEF Fed
<1>t. \A j \in 0..n : g[j] \in Seq(Units)
  BY FedTypes
<1> HIDE DEF n
<1>3. ASSUME T # {} PROVE FALSE
  <2>1. PICK m \in T : \A y \in T : m <= y
    <3>1. T \subseteq Nat
      BY <1>1
    <3> HIDE DEF T
    <3> QED BY <1>3, <3>1, LeastNat, Zenon
  <2>2. m \in i..n /\ ~Begins(g[i], g[m])
    OBVIOUS
  <2>3. m # i
    <3>1. Len(g[i]) \in Nat
      BY <1>1, <1>t, LenProperties
    <3> QED BY <2>2, <3>1 DEF Begins
  <2>4. m - 1 \in i..n /\ m - 1 \notin T /\ m \in 1..n /\ m - 1 \in 0..n
    BY <1>1, <2>1, <2>2, <2>3
  <2>5. Begins(g[i], g[m - 1])
    BY <2>4
  <2>6. Begins(g[m - 1], g[m])
    <3>1. g[m - 1] \in Seq(Units) /\ as[m] \in Seq(Units) /\ g[m] = Chain(g[m - 1], as[m])
      BY <1>1, <1>2, <1>t, <2>4
    <3> QED BY <3>1, ChainFacts, ZenonT(60)
  <2>7. Len(g[i]) \in Nat /\ Len(g[m - 1]) \in Nat /\ Len(g[m]) \in Nat
    BY <1>1, <1>t, <2>2, <2>4, LenProperties
  <2>8. Begins(g[i], g[m])
    BY <2>5, <2>6, <2>7, SMTT(60) DEF Begins
  <2> QED BY <2>2, <2>8
<1>4. T = {} /\ n \in i..n
  BY <1>1, <1>3
<1> QED BY <1>4 DEF n

\* The recursive definition of the challenge is what was built step by step.
LEMMA FedResult ==
    ASSUME NEW h, NEW as, Len(as) \in Nat, NEW g, Fed(g, h, as)
    PROVE  LET hasher[i \in 0..Len(as)] == IF i = 0 THEN h ELSE Chain(hasher[i - 1], as[i])
           IN  hasher[Len(as)] = g[Len(as)]
<1> DEFINE n == Len(as)
           F(k) == [i \in 0..n |-> IF i = 0 THEN h ELSE Chain(k[i - 1], as[i])]
           f == CHOOSE k : k = F(k)
<1>l. n \in Nat
  OBVIOUS
<1>g. g = [i \in 0..n |-> g[i]] /\ g[0] = h /\ \A i \in 1..n : g[i] = Chain(g[i - 1], as[i])
  BY Zenon DEF Fed
<1> HIDE DEF n
<1>1. g = F(g)
  <2>1. ASSUME NEW i \in 0..n PROVE g[i] = IF i = 0 THEN h ELSE Chain(g[i - 1], as[i])
    <3>1. CASE i = 0
      BY <1>g, <3>1
    <3>2. CASE i # 0
      <4>1. i \in 1..n
        BY <1>l, <3>2
      <4> QED BY <1>g, <3>2, <4>1
    <3> QED BY <3>1, <3>2
  <2>2. F(g) = [i \in 0..n |-> g[i]]
    BY <2>1
  <2> QED BY <1>g, <2>2, Zenon
<1>2. f = F(f)
  <2> HIDE DEF F
  <2> QED BY <1>1, Zenon
<1> HIDE DEF f
<1> DEFINE T == {m \in 0..n : g[m] # f[m]}
<1>4. ASSUME T # {} PROVE FALSE
  <2>1. PICK m \in T : \A y \in T : m <= y
    <3>1. T \subseteq Nat
      BY <1>l
    <3> HIDE DEF T
    <3> QED BY <1>4, <3>1, LeastNat, Zenon
  <2>2. m \in 0..n /\ g[m] # f[m]
    OBVIOUS
  <2>3. g[m] = F(g)[m] /\ f[m] = F(f)[m]
    BY <1>1, <1>2, Zenon
  <2>4. m # 0
    BY <2>2, <2>3
  <2>5. m - 1 \in 0..n /\ m - 1 \notin T
    BY <1>l, <2>1, <2>2, <2>4
  <2>6. g[m - 1] = f[m - 1]
    BY <2>5
  <2> QED BY <2>2, <2>3, <2>6
<1>5. g[n] = f[n]
  <2>1. T = {} /\ n \in 0..n
    BY <1>4, <1>l
  <2> QED BY <2>1
<1> QED BY <1>5, Zenon DEF f, n

Short(as) == \A i \in 1..Len(as) : Uint32(Len(as[i]))

\* Lists that leave the hasher in the same state are the same: by ChainParses
\* address after address, and a longer list would have left more.
LEMMA FedAgree ==
    ASSUME NEW h \in Seq(Units), NEW as \in Seq(Seq(Units)), NEW bs \in Seq(Seq(Units)),
           Short(as), Short(bs), NEW g, NEW k, Fed(g, h, as), Fed(k, h, bs),
           g[Len(as)] = k[Len(bs)], Len(as) <= Len(bs)
    PROVE  as = bs
<1> DEFINE n == Len(as)
           q == Len(bs)
           T == {m \in 0..n : g[m] # k[m]}
<1>1. /\ n \in Nat /\ q \in Nat /\ n <= q
      /\ \A i \in 1..n : as[i] \in Seq(Units) /\ Uint32(Len(as[i]))
      /\ \A i \in 1..q : bs[i] \in Seq(Units) /\ Uint32(Len(bs[i]))
  BY LenProperties, ElementOfSeq DEF Short
<1>2. /\ g[0] = h /\ \A i \in 1..n : g[i] = Chain(g[i - 1], as[i])
      /\ k[0] = h /\ \A i \in 1..q : k[i] = Chain(k[i - 1], bs[i])
  BY Zenon DEF Fed
<1>3. /\ \A i \in 0..n : g[i] \in Seq(Units) /\ Begins(g[i], g[n])
      /\ \A i \in 0..q : k[i] \in Seq(Units) /\ Begins(k[i], g[n])
  <2>1. g[n] = k[q]
    OBVIOUS
  <2>2. \A i \in 0..n : g[i] \in Seq(Units) /\ Begins(g[i], g[n])
    BY FedTypes, FedGrows, Zenon
  <2>3. \A i \in 0..q : k[i] \in Seq(Units) /\ Begins(k[i], k[q])
    BY FedTypes, FedGrows, Zenon
  <2> HIDE DEF n, q
  <2> QED BY <2>1, <2>2, <2>3, Zenon
<1>s. as = [i \in 1..n |-> as[i]] /\ bs = [i \in 1..q |-> bs[i]]
  BY LenProperties
<1>e. g[n] = k[q]
  OBVIOUS
<1> HIDE DEF n, q
<1>4. ASSUME NEW m \in 1..n, g[m - 1] = k[m - 1] PROVE as[m] = bs[m] /\ g[m] = k[m]
  <2>1. m - 1 \in 0..n /\ m \in 0..n /\ m \in 1..q /\ m \in 0..q /\ n \in 0..n
    BY <1>1
  <2> DEFINE d == g[m - 1]
             a == as[m]
             b == bs[m]
             x == g[n]
  <2>2. d \in Seq(Units) /\ x \in Seq(Units)
    BY <1>3, <2>1, Zenon
  <2>3. a \in Seq(Units) /\ b \in Seq(Units) /\ Uint32(Len(a)) /\ Uint32(Len(b))
    BY <1>1, <2>1, Zenon
  <2>4. g[m] = Chain(d, a) /\ k[m] = Chain(d, b)
    BY <1>2, <1>4, <2>1, Zenon
  <2>5. Begins(g[m], x) /\ Begins(k[m], x)
    BY <1>3, <2>1, Zenon
  <2>6. Begins(Chain(d, a), x) /\ Begins(Chain(d, b), x)
    BY <2>4, <2>5, Zenon
  <2> HIDE DEF d, a, b, x
  <2>7. a = b
    BY <2>2, <2>3, <2>6, ChainParses, Zenon
  <2> QED BY <2>4, <2>7, Zenon DEF a, b
<1>5. ASSUME T # {} PROVE FALSE
  <2>1. PICK m \in T : \A y \in T : m <= y
    <3>1. T \subseteq Nat
      BY <1>1
    <3> HIDE DEF T
    <3> QED BY <1>5, <3>1, LeastNat, Zenon
  <2>2. m \in 0..n /\ g[m] # k[m]
    OBVIOUS
  <2>3. m # 0
    BY <1>2, <2>2
  <2>4. m - 1 \in 0..n /\ m - 1 \notin T /\ m \in 1..n
    BY <1>1, <2>1, <2>2, <2>3
  <2>5. g[m - 1] = k[m - 1]
    BY <2>4
  <2> QED BY <1>4, <2>2, <2>4, <2>5, Zenon
<1>6. ASSUME NEW i \in 0..n PROVE g[i] = k[i]
  <2>1. T = {}
    BY <1>5
  <2> QED BY <2>1
<1>7. ASSUME NEW i \in 1..n PROVE as[i] = bs[i]
  <2>1. i - 1 \in 0..n
    BY <1>1
  <2> QED BY <1>4, <1>6, <2>1, Zenon
<1>8. n = q
  <2>1. CASE n < q
    <3> DEFINE j == n + 1
    <3>1. j \in 1..q /\ j \in 0..q /\ j - 1 = n /\ n \in 0..n
      BY <1>1, <2>1
    <3> HIDE DEF j
    <3>2. k[j] = Chain(g[n], bs[j]) /\ bs[j] \in Seq(Units) /\ g[n] \in Seq(Units) /\ Begins(k[j], g[n])
      BY <1>1, <1>2, <1>3, <1>6, <3>1
    <3>3. Len(Chain(g[n], bs[j])) = Len(g[n]) + 8 + Len(bs[j])
      BY <3>2, ChainFacts
    <3>4. Len(g[n]) \in Nat /\ Len(bs[j]) \in Nat
      BY <3>2, LenProperties
    <3> DEFINE x == Len(g[n])
               y == Len(bs[j])
               z == Len(k[j])
    <3>5. z <= x
      BY <3>2, Zenon DEF Begins
    <3>6. z = x + 8 + y
      BY <3>2, <3>3, Zenon
    <3> HIDE DEF x, y, z
    <3>7. x \in Nat /\ y \in Nat
      BY <3>4, Zenon DEF x, y
    <3> QED BY <3>5, <3>6, <3>7
  <2> QED BY <1>1, <2>1
<1> QED BY <1>s, <1>7, <1>8

\* The hasher before the claims: key, nonce, version and time.
Dated(public, nonce, version, now) ==
    Chain(Chain(Chain(Chain(NewDomainSeparatedHasher512("identity_signature"), public), nonce),
                <<version>>), LittleEndian(now, 8))

LEMMA DatedUnits ==
    ASSUME NEW public \in Seq(Half), NEW nonce \in Seq(Half), NEW version \in Nat, NEW now \in Nat
    PROVE  Dated(public, nonce, version, now) \in Seq(Units)
<1>1. public \in Seq(Units) /\ nonce \in Seq(Units) /\ <<version>> \in Seq(Units)
  BY DEF Units
<1>2. <<>> \in Seq(Units) /\ <<"identity_signature">> \in Seq(Units)
  BY DEF Units
<1>3. LittleEndian(now, 8) \in Seq(Units)
  BY LittleEndianFacts
<1>4. NewDomainSeparatedHasher512("identity_signature") = Chain(<<>>, <<"identity_signature">>)
  BY Zenon DEF NewDomainSeparatedHasher512, Chain
<1>5. \A d, a \in Seq(Units) : Chain(d, a) \in Seq(Units)
  BY ChainFacts
<1> QED BY <1>1, <1>2, <1>3, <1>4, <1>5, Zenon DEF Dated

\* The hasher after the addresses.
Hashed(h, as) ==
    LET hasher[i \in 0..Len(as)] == IF i = 0 THEN h ELSE Chain(hasher[i - 1], as[i])
    IN  hasher[Len(as)]

LEMMA ChallengeIs ==
    ASSUME NEW public, NEW nonce, NEW version, NEW now, NEW f, NEW as
    PROVE  constructIdentitySignatureChallenge(public, nonce, version, now, f, as)
             = Hashed(Chain(Dated(public, nonce, version, now), LittleEndian(f, 4)), as)
BY Zenon DEF constructIdentitySignatureChallenge, Dated, Hashed

LEMMA HashedIsFed ==
    ASSUME NEW h, NEW as, Len(as) \in Nat
    PROVE  \E g : Fed(g, h, as) /\ Hashed(h, as) = g[Len(as)]
<1>1. PICK g : Fed(g, h, as)
  BY FedExists, Zenon
<1>2. Hashed(h, as) = g[Len(as)]
  BY <1>1, FedResult, Zenon DEF Hashed
<1> QED BY <1>1, <1>2, Zenon

\* Features and addresses that a message can claim.
Claim(f, as) == f \in Nat /\ Uint32(f) /\ as \in Seq(Seq(Units)) /\ Short(as)

\* Under one key, nonce, version and time, no two claims hash alike: the
\* features are chained before the addresses, and have a length as well.
LEMMA HashedInjective ==
    ASSUME NEW d \in Seq(Units), NEW f, NEW e, NEW as, NEW bs, Claim(f, as), Claim(e, bs)
    PROVE  Hashed(Chain(d, LittleEndian(f, 4)), as) = Hashed(Chain(d, LittleEndian(e, 4)), bs)
             => f = e /\ as = bs
<1> USE DEF Claim
<1> DEFINE h == Chain(d, LittleEndian(f, 4))
           l == Chain(d, LittleEndian(e, 4))
<1>1. Len(as) \in Nat /\ Len(bs) \in Nat
  BY LenProperties
<1>2. ASSUME NEW g, NEW k, Fed(g, h, as), Fed(k, l, bs), g[Len(as)] = k[Len(bs)]
      PROVE  f = e /\ as = bs
  <2> DEFINE u == LittleEndian(f, 4)
             v == LittleEndian(e, 4)
             x == g[Len(as)]
  <2>1. u \in Seq(Units) /\ v \in Seq(Units) /\ Len(u) = 4 /\ Len(v) = 4
    BY LittleEndianFacts
  <2>2. Uint32(4)
    BY SMTT(60) DEF Uint32
  <2>3. Uint32(Len(u)) /\ Uint32(Len(v))
    BY <2>1, <2>2, Zenon
  <2>z. 0 \in 0..Len(as) /\ 0 \in 0..Len(bs) /\ Len(as) \in 0..Len(as)
    <3> DEFINE n == Len(as)
               q == Len(bs)
    <3>1. n \in Nat /\ q \in Nat
      BY <1>1
    <3> HIDE DEF n, q
    <3>2. 0 \in 0..n /\ 0 \in 0..q /\ n \in 0..n
      BY <3>1
    <3> QED BY <3>2, Zenon DEF n, q
  <2> HIDE DEF u, v
  <2>4. Chain(d, u) \in Seq(Units) /\ Chain(d, v) \in Seq(Units)
    BY <2>1, ChainFacts
  <2>5. Fed(g, Chain(d, u), as) /\ Fed(k, Chain(d, v), bs)
    BY <1>2, Zenon DEF u, v
  <2>6. x \in Seq(Units) /\ Begins(g[0], x)
    BY <2>4, <2>5, <2>z, FedTypes, FedGrows, Zenon
  <2>7. Begins(k[0], k[Len(bs)])
    BY <2>4, <2>5, <2>z, FedGrows, Zenon
  <2>8. g[0] = Chain(d, u) /\ k[0] = Chain(d, v)
    BY <2>5, Zenon DEF Fed
  <2>9. Begins(Chain(d, u), x) /\ Begins(Chain(d, v), x)
    BY <1>2, <2>6, <2>7, <2>8, Zenon
  <2> HIDE DEF x
  <2>10. u = v
    BY <2>1, <2>3, <2>6, <2>9, ChainParses, Zenon
  <2>11. f = e
    <3>1. \A i \in 1..4 : LittleEndian(f, 4)[i] = LittleEndian(e, 4)[i]
      BY <2>10, Zenon DEF u, v
    <3>2. 4 \in {4, 8}
      OBVIOUS
    <3> QED BY <3>1, <3>2, LittleEndianInjective, Zenon
  <2>12. as = bs
    <3>1. Fed(k, Chain(d, u), bs)
      BY <2>5, <2>10, Zenon
    <3>2. CASE Len(as) <= Len(bs)
      BY <1>2, <2>4, <2>5, <3>1, <3>2, FedAgree, Zenon
    <3>3. CASE Len(bs) <= Len(as)
      <4>1. k[Len(bs)] = g[Len(as)]
        BY <1>2, Zenon
      <4>2. bs = as
        BY <2>4, <2>5, <3>1, <3>3, <4>1, FedAgree, Zenon
      <4> QED BY <4>2, Zenon
    <3>4. Len(as) <= Len(bs) \/ Len(bs) <= Len(as)
      <4> DEFINE n == Len(as)
                 q == Len(bs)
      <4>1. n \in Nat /\ q \in Nat
        BY <1>1
      <4> HIDE DEF n, q
      <4>2. n <= q \/ q <= n
        BY <4>1
      <4> QED BY <4>2, Zenon DEF n, q
    <3> QED BY <3>2, <3>3, <3>4, Zenon
  <2> QED BY <2>11, <2>12, Zenon
<1> HIDE DEF h, l
<1>3. PICK g : Fed(g, h, as) /\ Hashed(h, as) = g[Len(as)]
  BY <1>1, HashedIsFed, Zenon
<1>4. PICK k : Fed(k, l, bs) /\ Hashed(l, bs) = k[Len(bs)]
  BY <1>1, HashedIsFed, Zenon
<1>5. Hashed(h, as) = Hashed(l, bs) => f = e /\ as = bs
  BY <1>2, <1>3, <1>4, Zenon
<1> QED BY <1>5, Zenon DEF h, l
-----------------------------------------------------------------------------
(* The signature.                                                          *)

\* The public half belongs to the private one.
Paired(kp) == BaseMult(kp.Private) = kp.Public

\* Whatever key was generated or loaded is a pair, and so is a whole file, as
\* long as no two processes wrote it at the same time.
PairInv ==
    /\ \A p \in Procs : pc[p] \in {"load", "open", "write"} => keyPath
    /\ ~raced =>
        /\ \A p \in Procs : pc[p] \in {"open", "write", "listen", "serving"} => Paired(key[p])
        /\ WholeFile(file) => Paired(FromRaw(file))

LEMMA KeypairPaired == ASSUME NEW k \in Nat PROVE Paired(Keypair(k))
<1>1. DOMAIN <<[half |-> "private", of |-> k]>> = {1}
  OBVIOUS
<1>2. BaseMult(Keypair(k).Private) = [i \in {1} |-> [half |-> "public", of |-> k]]
  BY <1>1 DEF BaseMult, Keypair
<1>3. <<[half |-> "public", of |-> k]>> = [i \in {1} |-> [half |-> "public", of |-> k]]
  OBVIOUS
<1> QED BY <1>2, <1>3 DEF Paired, Keypair

LEMMA FromRawRaw == ASSUME NEW kp \in WholeKeys PROVE FromRaw(Raw(kp)) = kp
<1>1. Raw(kp) \in Seq(Half) /\ WholeFile(Raw(kp))
  BY RawFacts DEF WholeFile, keyFileSize
<1>2. FromRaw(Raw(kp)) \in WholeKeys /\ Raw(FromRaw(Raw(kp))) = Raw(kp)
  BY <1>1, LoadFacts
<1> QED BY <1>2, RawInjective

LEMMA PairStarts == KeyInit => PairInv
<1> SUFFICES ASSUME KeyInit PROVE PairInv
  OBVIOUS
<1>1. ~WholeFile(file)
  BY DEF KeyInit, WholeFile, keyFileSize
<1> QED BY <1>1 DEF KeyInit, PairInv

\* A step that leaves the file alone and gives a process at most a pair.
LEMMA PairKept ==
    ASSUME KeyInv, PairInv, NEW p \in Procs, NEW st, pc' = [pc EXCEPT ![p] = st],
           UNCHANGED <<keyPath, file, key>>, ~raced' => ~raced,
           st \in {"load", "write"} => keyPath,
           st # "open", st \in {"write", "listen", "serving"} => pc[p] \in {"open", "write", "listen", "serving"}
    PROVE  PairInv'
<1>1. \A q \in Procs : pc'[q] = IF q = p THEN st ELSE pc[q]
  BY DEF KeyInv, KeyTypeOK
<1>2. \A q \in Procs : Paired(key[q])' = Paired(key[q])
  BY DEF Paired, BaseMult
<1>3. (WholeFile(file) => Paired(FromRaw(file)))' <=> (WholeFile(file) => Paired(FromRaw(file)))
  BY DEF WholeFile, Paired, FromRaw, BaseMult, keyFileSize
<1>4. \A q \in Procs : pc'[q] \in {"load", "open", "write"} => keyPath'
  BY <1>1 DEF PairInv
<1>5. ASSUME ~raced' PROVE \A q \in Procs : pc'[q] \in {"open", "write", "listen", "serving"} => Paired(key[q])'
  BY <1>1, <1>2, <1>5 DEF PairInv
<1>6. ASSUME ~raced' PROVE (WholeFile(file) => Paired(FromRaw(file)))'
  BY <1>3, <1>6 DEF PairInv
<1> QED BY <1>4, <1>5, <1>6 DEF PairInv

LEMMA KeyStepPaired == ASSUME KeyInv, PairInv, NEW p \in Procs, Start(p) \/ KeyStep(p) PROVE PairInv'
<1>0. /\ raced \in BOOLEAN /\ keyPath \in BOOLEAN /\ keys \in Nat /\ file \in Seq(Half)
      /\ pc \in [Procs -> {"off", "load", "generate", "open", "write", "listen", "serving"}]
      /\ key \in [Procs -> [Private : Seq(Half), Public : Seq(Half)]]
      /\ \A q \in Procs : pc[q] \in {"open", "write", "listen", "serving"} => key[q] \in WholeKeys
  BY DEF KeyInv, KeyTypeOK
<1>1. CASE Start(p)
  <2>1. ~raced' => ~raced
    BY <1>0, <1>1 DEF Start
  <2>2. CASE keyPath
    <3>1. pc' = [pc EXCEPT ![p] = "load"] /\ UNCHANGED <<keyPath, file, key>>
      BY <1>1, <2>2 DEF Start, Goes
    <3> QED BY <2>1, <2>2, <3>1, PairKept
  <2>3. CASE ~keyPath
    <3>1. pc' = [pc EXCEPT ![p] = "generate"] /\ UNCHANGED <<keyPath, file, key>>
      BY <1>1, <2>3 DEF Start, Goes
    <3> QED BY <2>1, <3>1, PairKept
  <2> QED BY <2>2, <2>3
<1>2. CASE LoadKey(p) /\ WholeFile(file)
  <2>1. /\ key' = [key EXCEPT ![p] = FromRaw(file)] /\ pc' = [pc EXCEPT ![p] = "listen"]
        /\ UNCHANGED <<keyPath, file, raced>>
    BY <1>2 DEF LoadKey, Goes
  <2>2. ~raced => Paired(FromRaw(file))
    BY <1>2 DEF PairInv
  <2>3. \A q \in Procs : key'[q] = IF q = p THEN FromRaw(file) ELSE key[q]
    BY <1>0, <2>1
  <2>4. \A q \in Procs : pc'[q] = IF q = p THEN "listen" ELSE pc[q]
    BY <1>0, <2>1
  <2>5. ASSUME ~raced, NEW q \in Procs, pc'[q] \in {"open", "write", "listen", "serving"} PROVE Paired(key'[q])
    BY <2>2, <2>3, <2>4, <2>5 DEF PairInv
  <2>6. \A q \in Procs : pc'[q] \in {"load", "open", "write"} => keyPath'
    BY <2>1, <2>4 DEF PairInv
  <2>7. ~raced => (WholeFile(file) => Paired(FromRaw(file)))'
    BY <2>1, <2>2 DEF Paired, FromRaw, BaseMult
  <2> QED BY <2>1, <2>5, <2>6, <2>7 DEF PairInv, Paired
<1>3. CASE LoadKey(p) /\ ~WholeFile(file)
  <2>1. pc' = [pc EXCEPT ![p] = "off"] /\ UNCHANGED <<keyPath, file, key, raced>>
    BY <1>3 DEF LoadKey, Goes
  <2> QED BY <2>1, PairKept
<1>4. CASE NoKeyFile(p)
  <2>1. pc' = [pc EXCEPT ![p] = "generate"] /\ UNCHANGED <<keyPath, file, key, raced>>
    BY <1>4 DEF NoKeyFile, Goes
  <2> QED BY <2>1, PairKept
<1>5. CASE ReadFails(p) \/ OpenFails(p) \/ ListenFails(p) \/ Stop(p)
  <2>1. pc' = [pc EXCEPT ![p] = "off"] /\ UNCHANGED <<keyPath, file, key, raced>>
    BY <1>5 DEF ReadFails, OpenFails, ListenFails, Stop, Goes
  <2> QED BY <2>1, PairKept
<1>6. CASE GenerateKey(p)
  <2> DEFINE st == IF keyPath THEN "open" ELSE "listen"
  <2>1. /\ key' = [key EXCEPT ![p] = Keypair(keys + 1)] /\ pc' = [pc EXCEPT ![p] = st]
        /\ UNCHANGED <<keyPath, file, raced>>
    BY <1>6 DEF GenerateKey, Goes
  <2>2. Paired(Keypair(keys + 1))
    BY <1>0, KeypairPaired
  <2>3. \A q \in Procs : key'[q] = IF q = p THEN Keypair(keys + 1) ELSE key[q]
    BY <1>0, <2>1
  <2>4. \A q \in Procs : pc'[q] = IF q = p THEN st ELSE pc[q]
    BY <1>0, <2>1
  <2>5. ASSUME ~raced, NEW q \in Procs, pc'[q] \in {"open", "write", "listen", "serving"} PROVE Paired(key'[q])
    BY <2>2, <2>3, <2>4, <2>5 DEF PairInv
  <2>6. \A q \in Procs : pc'[q] \in {"load", "open", "write"} => keyPath'
    BY <1>0, <2>1, <2>4 DEF PairInv
  <2>7. ~raced => (WholeFile(file) => Paired(FromRaw(file)))'
    BY <2>1 DEF PairInv, Paired, FromRaw, BaseMult, WholeFile, keyFileSize
  <2> QED BY <2>1, <2>5, <2>6, <2>7 DEF PairInv, Paired
<1>7. CASE OpenKeyFile(p)
  <2>1. /\ pc[p] = "open" /\ file' = <<>> /\ pc' = [pc EXCEPT ![p] = "write"] /\ UNCHANGED <<keyPath, key, raced>>
    BY <1>7 DEF OpenKeyFile, Goes
  <2>2. ~WholeFile(file')
    BY <2>1 DEF WholeFile, keyFileSize
  <2>3. \A q \in Procs : pc'[q] = IF q = p THEN "write" ELSE pc[q]
    BY <1>0, <2>1
  <2>4. ASSUME ~raced, NEW q \in Procs, pc'[q] \in {"open", "write", "listen", "serving"} PROVE Paired(key'[q])
    BY <2>1, <2>3, <2>4 DEF PairInv
  <2>5. \A q \in Procs : pc'[q] \in {"load", "open", "write"} => keyPath'
    BY <2>1, <2>3 DEF PairInv
  <2> QED BY <2>1, <2>2, <2>4, <2>5 DEF PairInv, Paired, WholeFile
<1>8. CASE WriteKey(p)
  <2>1. /\ pc[p] = "write" /\ file' = Overwritten(Raw(key[p])) /\ pc' = [pc EXCEPT ![p] = "listen"]
        /\ UNCHANGED <<keyPath, key, raced>>
    BY <1>8 DEF WriteKey, Goes
  <2>2. key[p] \in WholeKeys /\ Raw(key[p]) \in Seq(Half)
    BY <1>0, <2>1, RawFacts
  <2>3. ASSUME ~raced PROVE file' = Raw(key[p]) /\ Paired(key[p])
    <3>1. keyPath /\ Paired(key[p])
      BY <2>1, <2>3 DEF PairInv
    <3>2. file = <<>>
      BY <2>1, <2>3, <3>1 DEF KeyInv, StoredInv
    <3> QED BY <1>0, <2>1, <2>2, <3>1, <3>2, OverwrittenFacts
  <2>4. FromRaw(Raw(key[p])) = key[p]
    BY <2>2, FromRawRaw
  <2>5. ASSUME ~raced PROVE Paired(FromRaw(file'))
    BY <2>3, <2>4, <2>5
  <2>6. \A q \in Procs : pc'[q] = IF q = p THEN "listen" ELSE pc[q]
    BY <1>0, <2>1
  <2>7. ASSUME ~raced, NEW q \in Procs, pc'[q] \in {"open", "write", "listen", "serving"} PROVE Paired(key'[q])
    BY <2>1, <2>6, <2>7 DEF PairInv
  <2>8. \A q \in Procs : pc'[q] \in {"load", "open", "write"} => keyPath'
    BY <2>1, <2>6 DEF PairInv
  <2>9. ~raced => Paired(FromRaw(file))'
    BY <2>5 DEF Paired, FromRaw, BaseMult
  <2> QED BY <2>1, <2>7, <2>8, <2>9 DEF PairInv, Paired
<1>9. CASE WriteFails(p)
  <2>1. /\ pc[p] = "write" /\ pc' = [pc EXCEPT ![p] = "off"] /\ UNCHANGED <<keyPath, key, raced>>
    BY <1>9 DEF WriteFails, Goes
  <2>2. PICK n \in 0..keyFileSize - 1 : file' = Overwritten(SubSeq(Raw(key[p]), 1, n))
    BY <1>9 DEF WriteFails
  <2>3. Raw(key[p]) \in Seq(Half) /\ Len(Raw(key[p])) = 2
    BY <1>0, <2>1, RawFacts
  <2>4. SubSeq(Raw(key[p]), 1, n) \in Seq(Half) /\ Len(SubSeq(Raw(key[p]), 1, n)) = n /\ n # 2
    BY <2>3 DEF keyFileSize
  <2>5. ASSUME ~raced PROVE ~WholeFile(file')
    <3>1. keyPath
      BY <2>1 DEF PairInv
    <3>2. file = <<>>
      BY <2>1, <2>5, <3>1 DEF KeyInv, StoredInv
    <3>3. file' = SubSeq(Raw(key[p]), 1, n)
      BY <1>0, <2>2, <2>4, <3>2, OverwrittenFacts
    <3> QED BY <2>4, <3>3 DEF WholeFile, keyFileSize
  <2>6. \A q \in Procs : pc'[q] = IF q = p THEN "off" ELSE pc[q]
    BY <1>0, <2>1
  <2>7. ASSUME ~raced, NEW q \in Procs, pc'[q] \in {"open", "write", "listen", "serving"} PROVE Paired(key'[q])
    BY <2>1, <2>6, <2>7 DEF PairInv
  <2>8. \A q \in Procs : pc'[q] \in {"load", "open", "write"} => keyPath'
    BY <2>1, <2>6 DEF PairInv
  <2> QED BY <2>1, <2>5, <2>7, <2>8 DEF PairInv, Paired, WholeFile
<1>10. CASE Listen(p)
  <2>1. pc[p] = "listen" /\ pc' = [pc EXCEPT ![p] = "serving"] /\ UNCHANGED <<keyPath, file, key, raced>>
    BY <1>10 DEF Listen, Goes
  <2> QED BY <2>1, PairKept
<1> QED BY <1>1, <1>2, <1>3, <1>4, <1>5, <1>6, <1>7, <1>8, <1>9, <1>10 DEF KeyStep

LEMMA KeyNextPaired == ASSUME KeyInv, PairInv, [KeyNext]_keyVars PROVE PairInv'
<1>1. CASE UNCHANGED keyVars
  BY <1>1 DEF keyVars, PairInv, Paired, BaseMult, FromRaw, WholeFile, keyFileSize
<1>2. CASE RemoveBadFile
  <2>1. file' = <<>> /\ UNCHANGED <<keyPath, pc, key, raced>>
    BY <1>2 DEF RemoveBadFile
  <2>2. ~WholeFile(file')
    BY <2>1 DEF WholeFile, keyFileSize
  <2> QED BY <2>1, <2>2 DEF PairInv, Paired, WholeFile
<1> QED BY <1>1, <1>2, KeyStepPaired DEF KeyNext
Pairs == {kp \in WholeKeys : Paired(kp)}

\* A signature holds for what was signed and for nothing else.
Binds(kp, nonce, now, f, as) ==
    \A e, bs : Claim(e, bs) =>
        (VerifyIdentitySignature(kp.Public, e, bs, buildOurIdentitySignature(kp, nonce, now, f, as))
            <=> e = f /\ bs = as)

LEMMA SignatureHolds ==
    ASSUME NEW kp \in Pairs, NEW nonce \in Pairs, NEW now \in Nat, NEW f, NEW as, Claim(f, as)
    PROVE  Binds(kp, nonce, now, f, as)
<1> SUFFICES ASSUME NEW e, NEW bs, Claim(e, bs)
             PROVE  VerifyIdentitySignature(kp.Public, e, bs, buildOurIdentitySignature(kp, nonce, now, f, as))
                      <=> e = f /\ bs = as
  BY Zenon DEF Binds
<1> DEFINE sig == buildOurIdentitySignature(kp, nonce, now, f, as)
           d == Dated(kp.Public, nonce.Public, 0, now)
           u == constructIdentitySignatureChallenge(kp.Public, nonce.Public, 0, now, f, as)
           v == constructIdentitySignatureChallenge(kp.Public, nonce.Public, 0, now, e, bs)
<1>1. kp.Public \in Seq(Half) /\ nonce.Public \in Seq(Half)
  BY DEF WholeKeys, Pairs
<1>2. d \in Seq(Units)
  BY <1>1, DatedUnits
<1>3. sig = [Version |-> 0, PublicNonce |-> nonce.Public, UpdatedAt |-> now,
             Signature |-> [e |-> u, x |-> kp.Private, r |-> nonce.Private]]
  BY Zenon DEF buildOurIdentitySignature, identitySignatureVersion
<1>4. u = Hashed(Chain(d, LittleEndian(f, 4)), as) /\ v = Hashed(Chain(d, LittleEndian(e, 4)), bs)
  BY ChallengeIs, Zenon
<1> HIDE DEF d, u, v
<1>5. u = v => f = e /\ as = bs
  <2>1. Hashed(Chain(d, LittleEndian(f, 4)), as) = Hashed(Chain(d, LittleEndian(e, 4)), bs)
          => f = e /\ as = bs
    BY <1>2, HashedInjective, ZenonT(60)
  <2> QED BY <1>4, <2>1, Zenon
<1>6. f = e /\ as = bs => u = v
  BY Zenon DEF u, v
<1>7. 0 % 256 = 0
  OBVIOUS
<1>8. /\ sig.PublicNonce = nonce.Public /\ sig.Version = 0 /\ sig.UpdatedAt = now
      /\ sig.Signature.e = u /\ sig.Signature.x = kp.Private /\ sig.Signature.r = nonce.Private
  <2> HIDE DEF sig
  <2> QED BY <1>3
<1> HIDE DEF sig
<1>9. ScalarBaseMult(sig.Signature) = [e |-> u, P |-> kp.Public, R |-> nonce.Public]
  BY <1>8 DEF ScalarBaseMult, Paired, Pairs
<1>10. constructIdentitySignatureChallenge(kp.Public, sig.PublicNonce, sig.Version % 256, sig.UpdatedAt, e, bs) = v
  BY <1>7, <1>8, Zenon DEF v
<1>11. VerifyIdentitySignature(kp.Public, e, bs, sig)
         <=> [e |-> u, P |-> kp.Public, R |-> nonce.Public] = [e |-> v, P |-> kp.Public, R |-> nonce.Public]
  BY <1>8, <1>9, <1>10, ZenonT(60) DEF VerifyIdentitySignature
<1>12. VerifyIdentitySignature(kp.Public, e, bs, sig) <=> u = v
  BY <1>11
<1>13. VerifyIdentitySignature(kp.Public, e, bs, sig) <=> e = f /\ bs = as
  BY <1>5, <1>6, <1>12, Zenon
<1> QED BY <1>13, Zenon DEF sig

-----------------------------------------------------------------------------
\* The sizes of an IPv4 and of an onion address.
Sized(a) == a \in Seq(Nat) /\ Len(a) \in {8, 39}

\* The bytes of an address that EncodeMultiaddrString accepts.
LEMMA EncodedBytes ==
    ASSUME NEW a \in AddressTexts, Encodable(a)
    PROVE  Sized(EncodeMultiaddrString(a))
<1> USE DEF Sized
<1>1. a.host \in Seq(Nat) /\ a.port \in Nat /\ a.port \div 256 \in Nat /\ a.port % 256 \in Nat
  BY DEF AddressTexts
<1> DEFINE q == BigEndian16(a.port)
<1>2. q \in Seq(Nat) /\ Len(q) = 2
  BY <1>1 DEF BigEndian16
<1> HIDE DEF q
<1>3. \A s, t \in Seq(Nat) : s \o t \in Seq(Nat) /\ Len(s \o t) = Len(s) + Len(t)
  BY ConcatProperties, Zenon
<1>4. CASE a.form = "ip4" /\ Len(a.host) = 4
  <2>1. EncodeMultiaddrString(a) = ((<<4>> \o a.host) \o <<6>>) \o q
    BY <1>4 DEF EncodeMultiaddrString, encodeIP4TCPMultiaddr, AppendUvarint, multiaddrProtoIP4,
       multiaddrProtoTCP, q
  <2>2. <<4>> \in Seq(Nat) /\ Len(<<4>>) = 1 /\ <<6>> \in Seq(Nat) /\ Len(<<6>>) = 1
    OBVIOUS
  <2> DEFINE x == <<4>> \o a.host
             y == x \o <<6>>
             z == y \o q
  <2>3. x \in Seq(Nat) /\ Len(x) = Len(<<4>>) + Len(a.host)
    BY <1>1, <1>3, <2>2, Zenon
  <2>4. Len(x) = 5
    BY <1>4, <2>2, <2>3
  <2> HIDE DEF x
  <2>5. y \in Seq(Nat) /\ Len(y) = Len(x) + Len(<<6>>)
    BY <1>3, <2>2, <2>3, Zenon
  <2>6. Len(y) = 6
    BY <2>2, <2>4, <2>5
  <2> HIDE DEF y
  <2>7. z \in Seq(Nat) /\ Len(z) = Len(y) + Len(q)
    BY <1>2, <1>3, <2>5, Zenon
  <2>8. Len(z) = 8
    BY <1>2, <2>6, <2>7
  <2> QED BY <2>1, <2>7, <2>8 DEF x, y
<1>5. CASE a.form = "onion3" /\ Len(a.host) = 35
  <2>1. EncodeMultiaddrString(a) = (AppendUvarint(445) \o a.host) \o q
    BY <1>5, Zenon DEF EncodeMultiaddrString, encodeOnion3Multiaddr, multiaddrProtoOnion3, q
  <2>2. AppendUvarint(445) \in Seq(Nat) /\ Len(AppendUvarint(445)) = 2
    BY DEF AppendUvarint
  <2> DEFINE w == AppendUvarint(445)
             x == w \o a.host
             z == x \o q
  <2> HIDE DEF w
  <2>3. x \in Seq(Nat) /\ Len(x) = Len(w) + Len(a.host)
    BY <1>1, <1>3, <2>2, ZenonT(60) DEF w
  <2>4. Len(x) = 37
    <3>1. Len(w) = 2
      BY <2>2, Zenon DEF w
    <3> HIDE DEF x
    <3> QED BY <1>5, <2>3, <3>1
  <2> HIDE DEF x
  <2>5. z \in Seq(Nat) /\ Len(z) = Len(x) + Len(q)
    BY <1>2, <1>3, <2>3, Zenon
  <2>6. Len(z) = 39
    BY <1>2, <2>4, <2>5
  <2> QED BY <2>1, <2>5, <2>6 DEF x, w
<1> QED BY <1>4, <1>5 DEF Encodable, onion3HashLen

\* What a started process advertises.
LEMMA AdvertisedBytes ==
    ASSUME ParsedInv, Serving # {}
    PROVE  /\ OurAddresses \in Seq(Seq(Nat)) /\ Len(OurAddresses) > 0
           /\ \A i \in 1..Len(OurAddresses) : Sized(OurAddresses[i])
<1> DEFINE fs == tcp \o onion
           n == Len(fs)
           en(i) == EncodeMultiaddrString(fs[i])
<1>1. AddressesOK(tcp, onion)
  BY DEF ParsedInv, Serving
<1>2. tcp \in Seq(AddressTexts) /\ onion \in Seq(AddressTexts)
  BY StartupAssumption DEF ParsedInv
<1>3. fs \in Seq(AddressTexts)
  BY <1>2, ConcatProperties, Zenon
<1>4. fs # <<>> /\ \A i \in DOMAIN fs : Encodable(fs[i])
  BY <1>1 DEF AddressesOK, Flags
<1>5. OurAddresses = [i \in DOMAIN fs |-> en(i)]
  BY DEF OurAddresses, parseAdvertisedAddresses, Flags
<1> HIDE DEF fs
<1>6. DOMAIN fs = 1..n /\ n \in Nat \ {0} /\ \A i \in 1..n : fs[i] \in AddressTexts
  BY <1>3, <1>4, LenProperties, EmptySeq
<1>7. \A i \in 1..n : Sized(en(i))
  BY <1>4, <1>6, EncodedBytes
<1>s. \A i \in 1..n : en(i) \in Seq(Nat)
  BY <1>7, Zenon DEF Sized
<1> HIDE DEF n, en
<1>8. OurAddresses = [i \in 1..n |-> en(i)]
  BY <1>5, <1>6
<1>9. OurAddresses \in Seq(Seq(Nat))
  BY <1>6, <1>s, <1>8
<1>10. Len(OurAddresses) = n
  BY <1>6, <1>8
<1> QED BY <1>6, <1>7, <1>8, <1>9, <1>10
\* Address lists of bytes, each address short enough for its length to count.
Lists == {as \in Seq(Seq(Nat)) : Short(as)}

LEMMA ListUnits == ASSUME NEW as \in Lists PROVE as \in Seq(Seq(Units)) /\ Short(as)
<1>1. Nat \subseteq Units
  BY DEF Units
<1>2. Seq(Nat) \subseteq Seq(Units)
  BY <1>1, SeqMonotonic, Zenon
<1>3. as \in Seq(Seq(Nat)) /\ Short(as)
  BY Zenon DEF Lists
<1> QED BY <1>2, <1>3, SeqMonotonic, Zenon

LEMMA ShortLength == ASSUME NEW k \in Nat, k <= 78 PROVE Uint32(k)
BY SMTT(60) DEF Uint32

LEMMA FewLists ==
    ASSUME NEW a \in Seq(Nat), NEW b \in Seq(Nat), Len(a) <= 78, Len(b) <= 78
    PROVE  <<a, b>> \in Lists /\ <<a>> \in Lists /\ <<>> \in Lists
<1>1. Len(a) \in Nat /\ Len(b) \in Nat
  BY LenProperties
<1>2. Uint32(Len(a)) /\ Uint32(Len(b))
  BY <1>1, ShortLength, Zenon
<1>3. <<a, b>> \in Seq(Seq(Nat)) /\ <<a>> \in Seq(Seq(Nat)) /\ <<>> \in Seq(Seq(Nat))
  OBVIOUS
<1>4. Short(<<a, b>>) /\ Short(<<a>>) /\ Short(<<>>)
  BY <1>2 DEF Short
<1> QED BY <1>3, <1>4 DEF Lists

LEMMA SizedFacts ==
    ASSUME NEW a, Sized(a)
    PROVE  a \in Seq(Nat) /\ Len(a) \in Nat /\ Len(a) <= 39 /\ Len(a) <= 78
<1> DEFINE n == Len(a)
<1>1. a \in Seq(Nat) /\ n \in {8, 39}
  BY Zenon DEF Sized
<1> HIDE DEF n
<1>2. n \in Nat /\ n <= 39 /\ n <= 78
  BY <1>1
<1> QED BY <1>1, <1>2, Zenon DEF n

LEMMA SizedJoin ==
    ASSUME NEW a, NEW b, Sized(a), Sized(b)
    PROVE  a \o b \in Seq(Nat) /\ Len(a \o b) \in Nat /\ Len(a \o b) <= 78
<1> DEFINE m == Len(a)
           n == Len(b)
           j == a \o b
           l == Len(j)
<1>1. a \in Seq(Nat) /\ b \in Seq(Nat) /\ m \in Nat /\ n \in Nat /\ m <= 39 /\ n <= 39
  BY SizedFacts
<1>2. j \in Seq(Nat) /\ l = m + n
  BY <1>1, ConcatProperties, Zenon
<1> HIDE DEF m, n, l
<1>3. l \in Nat /\ l <= 78
  BY <1>1, <1>2
<1> QED BY <1>2, <1>3, Zenon DEF l

LEMMA CutLists ==
    ASSUME NEW j \in Seq(Nat), Len(j) <= 78, NEW k \in 0..Len(j)
    PROVE  <<SubSeq(j, 1, k), SubSeq(j, k + 1, Len(j))>> \in Lists
<1> DEFINE a == SubSeq(j, 1, k)
           b == SubSeq(j, k + 1, Len(j))
<1>1. a \in Seq(Nat) /\ Len(a) <= 78
  OBVIOUS
<1>2. b \in Seq(Nat) /\ Len(b) <= 78
  OBVIOUS
<1> HIDE DEF a, b
<1>3. <<a, b>> \in Lists
  BY <1>1, <1>2, FewLists
<1> QED BY <1>3, Zenon DEF a, b

\* The lists that SignatureBindsClaims tries are such lists.
LEMMA RegroupedLists ==
    ASSUME NEW as \in Seq(Seq(Nat)), Len(as) > 0, \A i \in 1..Len(as) : Sized(as[i])
    PROVE  as \in Lists /\ Regrouped(as) \subseteq Lists
<1> DEFINE n == Len(as)
           j == Joined(as)
           a == as[1]
           b == as[2]
<1>n. n \in Nat /\ n > 0
  BY LenProperties
<1>1. \A i \in 1..n : Sized(as[i])
  OBVIOUS
<1>3. j = IF n = 1 THEN a ELSE a \o b
  BY Zenon DEF Joined
<1>r. Regrouped(as) =
            {<<SubSeq(j, 1, k), SubSeq(j, k + 1, Len(j))>> : k \in 0..Len(j)}
              \cup {as, <<j>>, <<a>>, <<>>}
              \cup (IF n = 2 THEN {<<b, a>>, <<b>>} ELSE {})
  BY Zenon DEF Regrouped
<1>2. as \in Lists
  <2>1. \A i \in 1..n : Uint32(Len(as[i]))
    BY <1>1, SizedFacts, ShortLength, Zenon
  <2> QED BY <2>1, Zenon DEF Lists, Short
<1> HIDE DEF n
<1>i. 1 \in 1..n /\ (n # 1 => 2 \in 1..n)
  BY <1>n
<1>4. Sized(a) /\ (n # 1 => Sized(b))
  BY <1>1, <1>i, Zenon
<1> HIDE DEF j, a, b
<1>5. a \in Seq(Nat) /\ Len(a) <= 78 /\ (n # 1 => b \in Seq(Nat) /\ Len(b) <= 78)
  BY <1>4, SizedFacts, Zenon
<1>6. j \in Seq(Nat) /\ Len(j) <= 78
  <2>1. CASE n = 1
    BY <1>3, <1>5, <2>1, Zenon
  <2>2. CASE n # 1
    BY <1>3, <1>4, <2>2, SizedJoin, Zenon
  <2> QED BY <2>1, <2>2
<1>7. ASSUME NEW k \in 0..Len(j) PROVE <<SubSeq(j, 1, k), SubSeq(j, k + 1, Len(j))>> \in Lists
  BY <1>6, CutLists, Zenon
<1>8. <<j>> \in Lists /\ <<a>> \in Lists /\ <<>> \in Lists
  BY <1>5, <1>6, FewLists, Zenon
<1>9. n = 2 => <<b, a>> \in Lists /\ <<b>> \in Lists
  <2>1. n = 2 => n # 1
    OBVIOUS
  <2> QED BY <1>5, <2>1, FewLists, Zenon
<1>10. Regrouped(as) \subseteq Lists
  BY <1>2, <1>7, <1>8, <1>9, <1>r, Zenon
<1> QED BY <1>2, <1>10

\* What the signature of an identity message holds for, whatever the time and
\* the nonce: its own features and addresses, and no others at all.
OnlyOwnClaims ==
    ~raced => \A p \in Serving : \A n \in Nat, t \in Nat, f \in Nat, as \in Lists :
        Uint32(f) =>
            LET m == ourPeerIdentityMsg(key[p], Keypair(n), t, FeaturesCommunicationNode, OurAddresses)
            IN  VerifyIdentitySignature(key[p].Public, f, as, m.IdentitySignature)
                    <=> f = m.Features /\ as = m.Addresses

LEMMA ClaimsBound == ASSUME KeyInv, ParsedInv, PairInv PROVE OnlyOwnClaims
<1> SUFFICES ASSUME ~raced, NEW p \in Serving, NEW n \in Nat, NEW t \in Nat, NEW f \in Nat,
                    NEW as \in Lists, Uint32(f)
             PROVE  LET m == ourPeerIdentityMsg(key[p], Keypair(n), t, FeaturesCommunicationNode, OurAddresses)
                    IN  VerifyIdentitySignature(key[p].Public, f, as, m.IdentitySignature)
                            <=> f = m.Features /\ as = m.Addresses
  BY Zenon DEF OnlyOwnClaims
<1> DEFINE m == ourPeerIdentityMsg(key[p], Keypair(n), t, FeaturesCommunicationNode, OurAddresses)
           own == OurAddresses
           sig == buildOurIdentitySignature(key[p], Keypair(n), t, 3, own)
<1>1. p \in Procs /\ pc[p] = "serving"
  BY DEF Serving
<1>2. key[p] \in WholeKeys /\ Paired(key[p])
  BY <1>1 DEF KeyInv, KeyTypeOK, PairInv
<1>3. Keypair(n) \in WholeKeys /\ Paired(Keypair(n))
  BY KeypairFacts, KeypairPaired
<1>4. own \in Lists
  BY <1>1, AdvertisedBytes, RegroupedLists DEF Serving
<1>5. Claim(f, as)
  BY ListUnits DEF Claim
<1>6. Claim(3, own)
  <2>1. 3 \in Nat /\ Uint32(3)
    BY ShortLength
  <2> HIDE DEF own
  <2> QED BY <1>4, <2>1, ListUnits DEF Claim
<1>7. m = [Addresses |-> own, Features |-> 3, IdentitySignature |-> sig]
  BY Zenon DEF ourPeerIdentityMsg, FeaturesCommunicationNode
<1> HIDE DEF own, sig, m
<1>8. m.Addresses = own /\ m.Features = 3 /\ m.IdentitySignature = sig
  BY <1>7
<1>9. VerifyIdentitySignature(key[p].Public, f, as, sig) <=> f = 3 /\ as = own
  <2> DEFINE kp == key[p]
             nonce == Keypair(n)
  <2>1. kp \in Pairs /\ nonce \in Pairs
    BY <1>2, <1>3, Zenon DEF Pairs
  <2>2. sig = buildOurIdentitySignature(kp, nonce, t, 3, own)
    BY Zenon DEF sig
  <2> HIDE DEF kp, nonce
  <2>3. VerifyIdentitySignature(kp.Public, f, as, buildOurIdentitySignature(kp, nonce, t, 3, own))
          <=> f = 3 /\ as = own
    <3>1. Binds(kp, nonce, t, 3, own)
      BY <1>6, <2>1, SignatureHolds, Zenon
    <3> QED BY <1>5, <3>1, Zenon DEF Binds
  <2> QED BY <2>2, <2>3, Zenon DEF kp
<1>10. VerifyIdentitySignature(key[p].Public, f, as, m.IdentitySignature) <=> f = m.Features /\ as = m.Addresses
  BY <1>8, <1>9, Zenon
<1> QED BY <1>10, Zenon DEF m

\* Every signature that a serving process sends holds under the key of its
\* handshake for the features and addresses in the message, and for no other
\* uint32 and no other list of byte strings: buildOurIdentitySignature signs
\* with the pair that is used, and writeLengthPrefixedTo leaves no two claims
\* with one challenge.
THEOREM SignatureBindsAll == Spec => []OnlyOwnClaims
<1>1. Init => KeyInv /\ ParsedInv /\ PairInv
  BY KeyStarts, PairStarts DEF Init, KeyInit, ParsedInv
<1>2. [Next]_vars => [KeyNext]_keyVars
  BY DEF Next, vars, Run, KeyNext
<1>3. KeyInv /\ ParsedInv /\ PairInv /\ [Next]_vars => KeyInv' /\ ParsedInv' /\ PairInv'
  BY <1>2, KeyNextKeeps, NextParsedInv, KeyNextPaired
<1> QED BY <1>1, <1>3, ClaimsBound, PTL DEF Spec

\* In particular for the features and the regrouped lists of the model.
LEMMA ClaimsChecked == ASSUME ParsedInv, OnlyOwnClaims PROVE SignatureBindsClaims
<1> DEFINE M(p, n, t) == ourPeerIdentityMsg(key[p], Keypair(n), t, FeaturesCommunicationNode, OurAddresses)
           Holds(p, m, f, as) == VerifyIdentitySignature(key[p].Public, f, as, m.IdentitySignature)
                                   <=> f = m.Features /\ as = m.Addresses
<1>1. ~raced => \A p \in Serving : \A n \in Nat, t \in Nat, f \in Nat, as \in Lists :
          Uint32(f) => Holds(p, M(p, n, t), f, as)
  BY Zenon DEF OnlyOwnClaims
<1>2. SignatureBindsClaims <=>
        (~raced => \A p \in Serving : \A m \in {M(p, 0, t) : t \in Times} :
          \A f \in FeatureSets, as \in Regrouped(m.Addresses) : Holds(p, m, f, as))
  BY Zenon DEF SignatureBindsClaims, Messages
<1>3. \A p, t : M(p, 0, t).Addresses = OurAddresses
  BY DEF ourPeerIdentityMsg
<1> HIDE DEF M, Holds
<1>4. ASSUME ~raced, NEW p \in Serving, NEW t \in Times, NEW f \in FeatureSets,
             NEW as \in Regrouped(M(p, 0, t).Addresses)
      PROVE  Holds(p, M(p, 0, t), f, as)
  <2>1. t \in Nat /\ f \in Nat /\ Uint32(f) /\ 0 \in Nat
    BY StartupAssumption, SMTT(60) DEF Uint32
  <2>2. as \in Regrouped(OurAddresses)
    BY <1>3, Zenon
  <2>3. Serving # {}
    OBVIOUS
  <2>4. as \in Lists
    BY <2>2, <2>3, AdvertisedBytes, RegroupedLists, Zenon
  <2> QED BY <1>1, <1>4, <2>1, <2>4, Zenon
<1> QED BY <1>2, <1>4, Zenon

\* The signature of an identity message does not hold for its bytes grouped or
\* ordered otherwise, nor for other features, however the processes were
\* started, killed and started again, and wherever their keys came from.
THEOREM SignatureBinds == Spec => []SignatureBindsClaims
<1>1. Init => KeyInv /\ ParsedInv
  BY KeyStarts DEF Init, KeyInit, ParsedInv
<1>2. KeyInv /\ ParsedInv /\ [Next]_vars => KeyInv' /\ ParsedInv'
  <2>1. [Next]_vars => [KeyNext]_keyVars
    BY DEF Next, vars, Run, KeyNext
  <2> QED BY <2>1, KeyNextKeeps, NextParsedInv
<1>3. ParsedInv /\ OnlyOwnClaims => SignatureBindsClaims
  BY ClaimsChecked
<1> QED BY <1>1, <1>2, <1>3, SignatureBindsAll, PTL DEF Spec
=============================================================================
