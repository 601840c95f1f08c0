---------------------------- MODULE SecretVault ----------------------------
(***************************************************************************)
(* The encrypted vault (secret/vault.go, secret/lock.go): a key file and a *)
(* ciphertext, written by the vault UI and by command lines under one file *)
(* lock, and read by anyone without it.  Each file is replaced by a rename *)
(* that lasts once the directory is synced.  Encryption is perfect: a      *)
(* ciphertext opens with the key it was sealed with and no other.          *)
(***************************************************************************)
EXTENDS SecretStore, FiniteSets

CONSTANTS
  Actor,    \* threads that use the vault
  Home,     \* actor -> its process, whose threads share a mutex
  Key       \* keys, each created once

KeyAssumption == Key # {}

VARIABLES
  key, keySafe,   \* master.key as seen, and as a power loss would leave it: {} or {a key}
  enc, encSafe,   \* vault.enc the same: {} or {[key, store]}
  lock,           \* holder of .lock
  mutex,          \* process -> holder of its mutex
  act             \* actor -> its operation in progress

vaultVars == <<key, keySafe, enc, encSafe, mutex, act>>

Process == {Home[a] : a \in Actor}

Resting == [pc |-> "idle", op |-> {}, store |-> EmptyStore, key |-> {}, read |-> {}]

VaultInit ==
  /\ key = {} /\ keySafe = {}
  /\ enc = {} /\ encSafe = {}
  /\ mutex = [p \in Process |-> {}]
  /\ act = [a \in Actor |-> Resting]

StoreOf(file) == IF file = {} THEN EmptyStore ELSE (CHOOSE f \in file : TRUE).store
Opens(file, keys) == \A f \in file : keys = {f.key}

\* The operation ends, for whatever reason: both locks are released.
Release(a) ==
  /\ act' = [act EXCEPT ![a] = Resting]
  /\ mutex' = [mutex EXCEPT ![Home[a]] = {}]
  /\ lock' = lock \ {a}

MutateBegin(a, op) ==
  /\ act[a].pc = "idle" /\ mutex[Home[a]] = {}
  /\ mutex' = [mutex EXCEPT ![Home[a]] = {a}]
  /\ act' = [act EXCEPT ![a] = [Resting EXCEPT !.pc = "lock", !.op = {op}]]
  /\ UNCHANGED <<key, keySafe, enc, encSafe, lock>>

MutateLockUnheld(a) ==
  /\ act[a].pc = "lock"
  /\ lock' = {a}
  /\ act' = [act EXCEPT ![a].pc = "load"]
  /\ UNCHANGED <<key, keySafe, enc, encSafe, mutex>>

MutateLock(a) ==
  /\ act[a].pc = "lock" /\ lock = {}
  /\ lock' = {a}
  /\ act' = [act EXCEPT ![a].pc = "load"]
  /\ UNCHANGED <<key, keySafe, enc, encSafe, mutex>>

\* The ciphertext is read and opened, the change applied, and the key looked up once more.
MutateLoad(a) ==
  /\ act[a].pc = "load"
  /\ \E op \in act[a].op :
       IF ~Opens(enc, key) \/ Refused(op, StoreOf(enc))
       THEN Release(a)
       ELSE /\ act' = [act EXCEPT ![a].pc = IF key = {} THEN "key" ELSE "seal",
                                  ![a].key = key, ![a].store = Change(op, StoreOf(enc))]
            /\ UNCHANGED <<lock, mutex>>
  /\ UNCHANGED <<key, keySafe, enc, encSafe>>

NewKey == CHOOSE k \in Key : k \notin key \union keySafe /\ \A f \in enc \union encSafe : f.key # k

\* A key is created only for a vault that has no ciphertext.
WriteKey(a) ==
  /\ act[a].pc = "key" /\ enc = {}
  /\ key' = {NewKey}
  /\ act' = [act EXCEPT ![a].pc = "syncKey", ![a].key = {NewKey}]
  /\ UNCHANGED <<keySafe, enc, encSafe, lock, mutex>>

SyncKey(a) ==
  /\ act[a].pc = "syncKey"
  /\ keySafe' = key
  /\ act' = [act EXCEPT ![a].pc = "seal"]
  /\ UNCHANGED <<key, enc, encSafe, lock, mutex>>

WriteEnc(a) ==
  \E k \in act[a].key :
    /\ act[a].pc = "seal"
    /\ enc' = {[key |-> k, store |-> act[a].store]}
    /\ act' = [act EXCEPT ![a].pc = "sync"]
    /\ UNCHANGED <<key, keySafe, encSafe, lock, mutex>>

AnswerAtOnce(a) ==
  /\ act[a].pc = "sync"
  /\ act' = [act EXCEPT ![a].pc = "answer"]
  /\ UNCHANGED <<key, keySafe, enc, encSafe, lock, mutex>>

\* One directory holds both files.
SyncEnc(a) ==
  /\ act[a].pc = "sync"
  /\ encSafe' = enc /\ keySafe' = key
  /\ act' = [act EXCEPT ![a].pc = "answer"]
  /\ UNCHANGED <<key, enc, lock, mutex>>

MutateEnd(a) ==
  /\ act[a].pc = "answer"
  /\ Release(a)
  /\ UNCHANGED <<key, keySafe, enc, encSafe>>

MutateFailsLocked(a) ==
  /\ act[a].pc \in {"load", "key", "syncKey", "seal", "sync"}
  /\ act' = [act EXCEPT ![a] = Resting]
  /\ mutex' = [mutex EXCEPT ![Home[a]] = {}]
  /\ UNCHANGED <<key, keySafe, enc, encSafe, lock>>

\* Any file operation fails: what was renamed before stays.
MutateFails(a) ==
  /\ act[a].pc \in {"load", "key", "syncKey", "seal", "sync"}
  /\ Release(a)
  /\ UNCHANGED <<key, keySafe, enc, encSafe>>

\* List, Overview, Resolve: the ciphertext is read, and then the key.
ReadEnc(a) ==
  /\ act[a].pc = "idle" /\ mutex[Home[a]] = {}
  /\ mutex' = [mutex EXCEPT ![Home[a]] = {a}]
  /\ act' = [act EXCEPT ![a] = [Resting EXCEPT !.pc = "readKey", !.read = enc]]
  /\ UNCHANGED <<key, keySafe, enc, encSafe, lock>>

ReadKey(a) ==
  /\ act[a].pc = "readKey"
  /\ Release(a)
  /\ UNCHANGED <<key, keySafe, enc, encSafe>>

VaultStep(a) ==
  \/ MutateLock(a) \/ MutateLoad(a) \/ WriteKey(a) \/ SyncKey(a) \/ WriteEnc(a) \/ SyncEnc(a)
  \/ MutateEnd(a) \/ ReadKey(a)

\* A process dies; the system releases its file lock.
VaultCrash(p) ==
  /\ act' = [a \in Actor |-> IF Home[a] = p THEN Resting ELSE act[a]]
  /\ mutex' = [mutex EXCEPT ![p] = {}]
  /\ lock' = {a \in lock : Home[a] # p}
  /\ UNCHANGED <<key, keySafe, enc, encSafe>>

\* Renames in one directory reach the disk in their order: the key's is before the ciphertext's.
Survivals == {[key |-> keySafe, enc |-> encSafe], [key |-> key, enc |-> encSafe], [key |-> key, enc |-> enc]}

VaultPowerLoss ==
  /\ \E left \in Survivals :
       key' = left.key /\ keySafe' = left.key /\ enc' = left.enc /\ encSafe' = left.enc
  /\ act' = [a \in Actor |-> Resting]
  /\ mutex' = [p \in Process |-> {}]
  /\ lock' = {}

-----------------------------------------------------------------------------
VaultTypeOK ==
  /\ key \subseteq Key /\ keySafe \subseteq Key
  /\ Cardinality(key) <= 1 /\ Cardinality(keySafe) <= 1
  /\ \A f \in enc \union encSafe : f.key \in Key /\ f.store \in Store
  /\ \A a \in Actor :
       /\ act[a].pc \in {"idle", "lock", "load", "key", "syncKey", "seal", "sync", "answer", "readKey"}
       /\ act[a].pc = "idle" <=> mutex[Home[a]] # {a}

\* The vault opens, now and after a power loss; a reader that has read a
\* ciphertext finds its key; what a caller is told is done lasts; and a secret's group exists.
VaultSurvives ==
  /\ \A left \in Survivals : Opens(left.enc, left.key)
  /\ \A a \in Actor :
       /\ act[a].pc = "readKey" => Opens(act[a].read, key)
       /\ act[a].pc = "answer" => encSafe = enc /\ StoreOf(enc) = act[a].store
  /\ GroupsClosed(StoreOf(enc))

=============================================================================
