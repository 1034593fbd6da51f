------------------------------- MODULE KeyFile -------------------------------
(***************************************************************************)
(* How p2p-responder-spike comes by its identity: run loads the key file   *)
(* or generates a keypair and saves it (loadOrGenerateKeypair), and only   *)
(* then listens.  Several processes may be started on one file, each may   *)
(* be killed at any point and started again, and opening, reading and      *)
(* writing the file may fail, a write also half way.                       *)
(*                                                                         *)
(* The 32-byte halves of the file are single units.  The machine itself    *)
(* does not crash: what has been written stays written.                    *)
(***************************************************************************)
EXTENDS Integers, Sequences

CONSTANTS
    Procs,       \* processes that use one key file and one listen address
    MaxStarts,   \* bound: processes started in all
    MaxKeys      \* bound: keypairs generated in all

ASSUME KeyFileAssumption == MaxStarts \in Nat /\ MaxKeys \in Nat

VARIABLES
    keyPath,   \* -key was given
    exists,    \* the key file exists
    file,      \* its contents: a sequence of halves
    pc,        \* process -> where its run is
    key,       \* process -> its keypair
    starts,    \* processes started so far
    keys,      \* keypairs generated so far
    raced,     \* history: two processes were setting up their keys at once
    served     \* history: the keypairs served under

keyVars == <<keyPath, exists, file, pc, key, starts, keys, raced, served>>

-----------------------------------------------------------------------------
\* A keypair, and the file that holds it: the private half, then the public.
Keypair(k) ==
    [Private |-> <<[half |-> "private", of |-> k]>>, Public |-> <<[half |-> "public", of |-> k]>>]
Raw(kp) == kp.Private \o kp.Public
FromRaw(raw) == [Private |-> SubSeq(raw, 1, 1), Public |-> SubSeq(raw, 2, Len(raw))]
NoKey == [Private |-> <<>>, Public |-> <<>>]

keyFileSize == 2

\* A process is between its start and the end of loadOrGenerateKeypair.
SettingUp(p) == pc[p] \in {"load", "generate", "open", "write"}

Goes(p, st) == pc' = [pc EXCEPT ![p] = st]

\* A process is started.
Start(p) ==
    /\ pc[p] = "off" /\ starts < MaxStarts
    /\ starts' = starts + 1
    /\ raced' = (raced \/ \E q \in Procs : SettingUp(q))
    /\ Goes(p, IF keyPath THEN "load" ELSE "generate")
    /\ UNCHANGED <<keyPath, exists, file, key, keys, served>>

-----------------------------------------------------------------------------
(* loadOrGenerateKeypair.  A process that ends with an error is off again.  *)

WholeFile(raw) == Len(raw) = keyFileSize

\* os.ReadFile returns the contents, which must have the right size ...
LoadKey(p) ==
    /\ pc[p] = "load" /\ exists
    /\ IF WholeFile(file)
       THEN key' = [key EXCEPT ![p] = FromRaw(file)] /\ Goes(p, "listen")
       ELSE UNCHANGED key /\ Goes(p, "off")
    /\ UNCHANGED <<keyPath, exists, file, starts, keys, raced, served>>

\* ... or says that there is no such file ...
NoKeyFile(p) ==
    /\ pc[p] = "load" /\ ~exists
    /\ Goes(p, "generate")
    /\ UNCHANGED <<keyPath, exists, file, key, starts, keys, raced, served>>

\* ... or fails for another reason.
ReadFails(p) ==
    /\ pc[p] = "load"
    /\ Goes(p, "off")
    /\ UNCHANGED <<keyPath, exists, file, key, starts, keys, raced, served>>

GenerateKey(p) ==
    /\ pc[p] = "generate" /\ keys < MaxKeys
    /\ keys' = keys + 1
    /\ key' = [key EXCEPT ![p] = Keypair(keys + 1)]
    /\ Goes(p, IF keyPath THEN "open" ELSE "listen")
    /\ UNCHANGED <<keyPath, exists, file, starts, raced, served>>

\* os.WriteFile creates or truncates the file ...
OpenKeyFile(p) ==
    /\ pc[p] = "open"
    /\ exists' = TRUE /\ file' = <<>>
    /\ Goes(p, "write")
    /\ UNCHANGED <<keyPath, key, starts, keys, raced, served>>

OpenFails(p) ==
    /\ pc[p] = "open"
    /\ Goes(p, "off")
    /\ UNCHANGED <<keyPath, exists, file, key, starts, keys, raced, served>>

\* The contents after a write at the beginning of the file.
Overwritten(raw) == raw \o SubSeq(file, Len(raw) + 1, Len(file))

\* ... and writes the keypair.
WriteKey(p) ==
    /\ pc[p] = "write"
    /\ file' = Overwritten(Raw(key[p]))
    /\ Goes(p, "listen")
    /\ UNCHANGED <<keyPath, exists, key, starts, keys, raced, served>>

\* Mutant: a keypair that could not be saved is used all the same.
WriteFailsServes(p) ==
    /\ pc[p] = "write"
    /\ \E n \in 0..keyFileSize - 1 : file' = Overwritten(SubSeq(Raw(key[p]), 1, n))
    /\ Goes(p, "listen")
    /\ UNCHANGED <<keyPath, exists, key, starts, keys, raced, served>>

\* The write fails after some of the halves.
WriteFails(p) ==
    /\ pc[p] = "write"
    /\ \E n \in 0..keyFileSize - 1 : file' = Overwritten(SubSeq(Raw(key[p]), 1, n))
    /\ Goes(p, "off")
    /\ UNCHANGED <<keyPath, exists, key, starts, keys, raced, served>>

-----------------------------------------------------------------------------
\* net.Listen: one process at a time has the address.
Listen(p) ==
    /\ pc[p] = "listen" /\ \A q \in Procs : pc[q] # "serving"
    /\ served' = served \cup {key[p]}
    /\ Goes(p, "serving")
    /\ UNCHANGED <<keyPath, exists, file, key, starts, keys, raced>>

ListenFails(p) ==
    /\ pc[p] = "listen"
    /\ Goes(p, "off")
    /\ UNCHANGED <<keyPath, exists, file, key, starts, keys, raced, served>>

\* A process is killed, or run returns after Serve.
Stop(p) ==
    /\ pc[p] # "off"
    /\ Goes(p, "off")
    /\ UNCHANGED <<keyPath, exists, file, key, starts, keys, raced, served>>

\* The operator removes a key file that no process accepts.
RemoveBadFile ==
    /\ exists /\ ~WholeFile(file) /\ \A p \in Procs : ~SettingUp(p)
    /\ exists' = FALSE /\ file' = <<>>
    /\ UNCHANGED <<keyPath, pc, key, starts, keys, raced, served>>

-----------------------------------------------------------------------------
KeyInit ==
    /\ keyPath \in BOOLEAN
    /\ exists = FALSE /\ file = <<>>
    /\ pc = [p \in Procs |-> "off"] /\ key = [p \in Procs |-> NoKey]
    /\ starts = 0 /\ keys = 0 /\ raced = FALSE /\ served = {}

KeyStep(p) ==
    \/ LoadKey(p) \/ NoKeyFile(p) \/ ReadFails(p) \/ GenerateKey(p)
    \/ OpenKeyFile(p) \/ OpenFails(p) \/ WriteKey(p) \/ WriteFails(p)
    \/ Listen(p) \/ ListenFails(p) \/ Stop(p)

KeyNext ==
    \/ \E p \in Procs : Start(p) \/ KeyStep(p)
    \/ RemoveBadFile

-----------------------------------------------------------------------------
\* With -key the program keeps its identity: whatever processes are killed,
\* writes fail and files are cleaned up, and also when a second one is started
\* beside a serving one, every process that ever serves does so under the same
\* keypair, provided that no two set up their keys at the same time.
StableIdentity == keyPath /\ ~raced => \A a, b \in served : a = b
=============================================================================
