--------------------------- MODULE VaultUI_proofs ---------------------------
(***************************************************************************)
(* What holds of the vault in use, for any number of requests, command     *)
(* lines, keys, secrets and calls: it opens after every crash and power    *)
(* loss, it keeps its promise, a code opens one session, and a session     *)
(* that has ended serves nobody.  First what each step of the vault (V)    *)
(* preserves and the step of VaultContents that it takes, then what each   *)
(* step of the sessions (S) preserves; the two meet at the file lock,      *)
(* which a request takes as well when it sets a password.                  *)
(***************************************************************************)
EXTENDS VaultUI, FiniteSetTheorems, TLAPS

(* The vault. *)

(* The operations on a store. *)

LEMMA EmptyStoreClosed ==
    V!EmptyStore \in V!Store /\ V!GroupsClosed(V!EmptyStore)
  BY DEF V!EmptyStore, V!Store, V!GroupsClosed

\* A store put together from parts that fit.
LEMMA StoreFromParts ==
    ASSUME NEW v \in [Name -> Value \union {NoValue}], NEW g \in [Name -> Group \union {NoGroup}],
           NEW gs \in SUBSET Group,
           \A n \in Name : g[n] # NoGroup => v[n] # NoValue /\ g[n] \in gs
    PROVE  /\ [value |-> v, group |-> g, groups |-> gs] \in V!Store
           /\ V!GroupsClosed([value |-> v, group |-> g, groups |-> gs])
  BY DEF V!Store, V!GroupsClosed

\* Every update that is not refused keeps the sort of the store and its groups closed.
LEMMA ChangeCloses ==
    ASSUME V!NoneAssumption, NEW s \in V!Store, NEW op \in V!Op, V!GroupsClosed(s), ~V!Refused(op, s)
    PROVE  V!Change(op, s) \in V!Store /\ V!GroupsClosed(V!Change(op, s))
<1>1. PICK v \in [Name -> Value \union {NoValue}], g \in [Name -> Group \union {NoGroup}],
           gs \in SUBSET Group : s = [value |-> v, group |-> g, groups |-> gs]
  BY DEF V!Store
<1>2. \A n \in Name : g[n] # NoGroup => v[n] # NoValue /\ g[n] \in gs
  BY <1>1 DEF V!GroupsClosed
<1>3. ASSUME NEW w \in [Name -> Value \union {NoValue}], NEW h \in [Name -> Group \union {NoGroup}],
             NEW hs \in SUBSET Group,
             V!Change(op, s) = [value |-> w, group |-> h, groups |-> hs],
             \A n \in Name : h[n] # NoGroup => w[n] # NoValue /\ h[n] \in hs
      PROVE  V!Change(op, s) \in V!Store /\ V!GroupsClosed(V!Change(op, s))
  BY <1>3, StoreFromParts
<1>4. CASE op \in [verb : {"set"}, name : Name, value : Value]
  <2>1. V!Change(op, s) = [value |-> [v EXCEPT ![op.name] = op.value], group |-> g, groups |-> gs]
    BY <1>1, <1>4 DEF V!Change
  <2>2. [v EXCEPT ![op.name] = op.value] \in [Name -> Value \union {NoValue}]
    BY <1>4
  <2>3. \A n \in Name : g[n] # NoGroup => [v EXCEPT ![op.name] = op.value][n] # NoValue
    BY <1>2, <1>4 DEF V!NoneAssumption
  <2> QED BY <1>2, <1>3, <2>1, <2>2, <2>3
<1>5. CASE op \in [verb : {"setWithGroup"}, name : Name, value : Value, group : Group \union {NoGroup}]
  <2> DEFINE w == [v EXCEPT ![op.name] = op.value]
             h == [g EXCEPT ![op.name] = op.group]
             hs == gs \union ({op.group} \ {NoGroup})
  <2>1. V!Change(op, s) = [value |-> w, group |-> h, groups |-> hs]
    BY <1>1, <1>5 DEF V!Change
  <2>2. /\ w \in [Name -> Value \union {NoValue}] /\ h \in [Name -> Group \union {NoGroup}]
        /\ hs \in SUBSET Group
    BY <1>5
  <2>3. \A n \in Name : h[n] # NoGroup => w[n] # NoValue /\ h[n] \in hs
    BY <1>2, <1>5 DEF V!NoneAssumption
  <2> HIDE DEF w, h, hs
  <2> QED BY <1>3, <2>1, <2>2, <2>3
<1>6. CASE op \in [verb : {"remove"}, name : Name]
  <2> DEFINE w == [v EXCEPT ![op.name] = NoValue]
             h == [g EXCEPT ![op.name] = NoGroup]
  <2>1. V!Change(op, s) = [value |-> w, group |-> h, groups |-> gs]
    BY <1>1, <1>6 DEF V!Change
  <2>2. w \in [Name -> Value \union {NoValue}] /\ h \in [Name -> Group \union {NoGroup}]
    BY <1>6
  <2>3. \A n \in Name : h[n] # NoGroup => w[n] # NoValue /\ h[n] \in gs
    BY <1>2, <1>6
  <2> HIDE DEF w, h
  <2> QED BY <1>3, <2>1, <2>2, <2>3
<1>7. CASE op \in [verb : {"addGroup"}, group : Group]
  <2>1. V!Change(op, s) = [value |-> v, group |-> g, groups |-> gs \union {op.group}]
    BY <1>1, <1>7 DEF V!Change
  <2>2. gs \union {op.group} \in SUBSET Group
    BY <1>7
  <2> QED BY <1>2, <1>3, <2>1, <2>2
<1>8. CASE op \in [verb : {"deleteGroup"}, group : Group]
  <2> DEFINE h == [n \in Name |-> IF g[n] = op.group THEN NoGroup ELSE g[n]]
             hs == gs \ {op.group}
  <2>1. V!Change(op, s) = [value |-> v, group |-> h, groups |-> hs]
    BY <1>1, <1>8 DEF V!Change, V!DeleteGroup, V!Moved
  <2>2. h \in [Name -> Group \union {NoGroup}] /\ hs \in SUBSET Group
    OBVIOUS
  <2>3. \A n \in Name : h[n] # NoGroup => v[n] # NoValue /\ h[n] \in hs
    BY <1>2
  <2> HIDE DEF h, hs
  <2> QED BY <1>3, <2>1, <2>2, <2>3
<1>9. CASE op \in [verb : {"renameGroup"}, group : Group, to : Group] /\ op.group # op.to
  <2> DEFINE h == [n \in Name |-> IF g[n] = op.group THEN op.to ELSE g[n]]
             hs == (gs \ {op.group}) \union {op.to}
  <2>1. V!Change(op, s) = [value |-> v, group |-> h, groups |-> hs]
    BY <1>1, <1>9 DEF V!Change, V!Moved
  <2>2. h \in [Name -> Group \union {NoGroup}] /\ hs \in SUBSET Group
    BY <1>9
  <2>3. \A n \in Name : h[n] # NoGroup => v[n] # NoValue /\ h[n] \in hs
    BY <1>2, <1>9 DEF V!NoneAssumption
  <2> HIDE DEF h, hs
  <2> QED BY <1>3, <2>1, <2>2, <2>3
<1>10. CASE op \in [verb : {"assignGroup"}, name : Name, group : Group \union {NoGroup}]
  <2> DEFINE h == [g EXCEPT ![op.name] = op.group]
             hs == gs \union ({op.group} \ {NoGroup})
  <2>1. V!Change(op, s) = [value |-> v, group |-> h, groups |-> hs]
    BY <1>1, <1>10 DEF V!Change
  <2>2. h \in [Name -> Group \union {NoGroup}] /\ hs \in SUBSET Group
    BY <1>10
  <2>3. v[op.name] # NoValue
    BY <1>1, <1>10 DEF V!Refused
  <2>4. \A n \in Name : h[n] # NoGroup => v[n] # NoValue /\ h[n] \in hs
    BY <1>2, <1>10, <2>3
  <2> HIDE DEF h, hs
  <2> QED BY <1>3, <2>1, <2>2, <2>4
<1> QED BY <1>4, <1>5, <1>6, <1>7, <1>8, <1>9, <1>10 DEF V!Op

-----------------------------------------------------------------------------
(* The invariant. *)

File == [key : Key, store : V!Store]
AtMostOne(X) == {{}} \union {{x} : x \in X}

Steps == {"idle", "lock", "load", "key", "syncKey", "seal", "sync", "answer", "readKey"}
Holding == {"load", "key", "syncKey", "seal", "sync", "answer"}

Activity == [pc : Steps, op : SUBSET V!Op, store : V!Store, key : SUBSET Key, read : SUBSET File]

Sorts ==
  /\ key \in AtMostOne(Key) /\ keySafe \in AtMostOne(Key)
  /\ enc \in AtMostOne(File) /\ encSafe \in AtMostOne(File)
  /\ act \in [Actor -> Activity]

\* Whichever of the renames last, the ciphertext opens; a key or a ciphertext that would survive
\* is there now.
FilesAgree ==
  /\ V!Opens(enc, key) /\ V!Opens(encSafe, key) /\ V!Opens(encSafe, keySafe)
  /\ keySafe # {} => key # {}
  /\ encSafe # {} => enc # {}
  /\ V!GroupsClosed(V!StoreOf(enc)) /\ V!GroupsClosed(V!StoreOf(encSafe))

Exclusive == \A a \in Actor : act[a].pc \in Holding => lock = {a}

\* What an operation has found out is still so: the key it seals with is the key, the store it
\* seals is the change of the one that is there, and what it has written is there.
Current(o) ==
  /\ o.pc = "key" => key = {} /\ enc = {}
  /\ o.pc = "syncKey" => enc = {}
  /\ o.pc \in {"syncKey", "seal"} => o.key = key /\ key # {}
  /\ o.pc \in {"key", "syncKey", "seal"} =>
       \E op \in o.op : ~V!Refused(op, V!StoreOf(enc)) /\ o.store = V!Change(op, V!StoreOf(enc))
  /\ o.pc \in {"sync", "answer"} => o.store = V!StoreOf(enc)
  /\ o.pc = "answer" => encSafe = enc
  /\ o.pc = "readKey" => V!Opens(o.read, key) /\ (o.read # {} => enc # {})

VaultInv == Sorts /\ FilesAgree /\ Exclusive /\ \A a \in Actor : Current(act[a])

filesVars == <<key, keySafe, enc, encSafe>>

LEMMA RestingActivity ==
    /\ V!Resting \in Activity /\ V!Resting.pc = "idle" /\ Current(V!Resting)
    /\ "idle" \notin Holding /\ "lock" \notin Holding /\ "readKey" \notin Holding
  BY EmptyStoreClosed DEF V!Resting, Activity, Steps, Current, Holding

\* What a file holds is a store.
LEMMA StoreOfSort ==
    /\ \A f \in AtMostOne(File) : V!StoreOf(f) \in V!Store
    /\ \A f : V!StoreOf({f}) = f.store
    /\ V!StoreOf({}) = V!EmptyStore
  BY EmptyStoreClosed DEF AtMostOne, File, V!StoreOf

LEMMA VaultInitKeeps ==
    ASSUME V!VaultInit
    PROVE  VaultInv
<1>1. Sorts
  BY RestingActivity DEF V!VaultInit, Sorts, AtMostOne
<1>2. FilesAgree
  BY EmptyStoreClosed, StoreOfSort DEF V!VaultInit, FilesAgree, V!Opens
<1>3. Exclusive /\ \A a \in Actor : Current(act[a])
  BY RestingActivity DEF V!VaultInit, Exclusive
<1> QED BY <1>1, <1>2, <1>3 DEF VaultInv

-----------------------------------------------------------------------------
(* Steps that leave the files alone. *)

\* One operation goes on, or several end; those that hold the lock after it do so alone.
LEMMA FilesStay ==
    ASSUME VaultInv, UNCHANGED filesVars, act' \in [Actor -> Activity], Exclusive',
           \A a \in Actor : act'[a] = act[a] \/ Current(act'[a])
    PROVE  VaultInv'
<1>1. Sorts' /\ FilesAgree'
  BY DEF VaultInv, filesVars, Sorts, FilesAgree, V!Opens, V!StoreOf
<1>2. \A a \in Actor : Current(act'[a])
  BY DEF VaultInv
<1>3. \A a \in Actor : Current(act[a])'
  BY <1>2 DEF Current, filesVars, V!Opens, V!StoreOf
<1> QED BY <1>1, <1>3 DEF VaultInv

\* The lock held by an operation keeps the others out of the section.
LEMMA HolderAlone ==
    ASSUME VaultInv, NEW a \in Actor, act[a].pc \in Holding, NEW b \in Actor, b # a
    PROVE  act[b].pc \notin Holding
  BY DEF VaultInv, Exclusive

LEMMA BeginKeeps ==
    ASSUME VaultInv, NEW a \in Actor, NEW op \in V!Op, V!MutateBegin(a, op)
    PROVE  VaultInv' /\ UNCHANGED filesVars
<1> DEFINE o == [V!Resting EXCEPT !.pc = "lock", !.op = {op}]
<1>1. o \in Activity /\ o.pc = "lock"
  BY EmptyStoreClosed DEF V!Resting, Activity, Steps
<1>2. Current(o)
  BY <1>1 DEF Current
<1>3. act' = [act EXCEPT ![a] = o] /\ UNCHANGED <<filesVars, lock>>
  BY DEF V!MutateBegin, filesVars
<1> HIDE DEF o
<1>4. act' \in [Actor -> Activity] /\ \A b \in Actor : act'[b] = IF b = a THEN o ELSE act[b]
  BY <1>1, <1>3 DEF VaultInv, Sorts
<1>5. Exclusive'
  BY <1>1, <1>3, <1>4, RestingActivity DEF VaultInv, Exclusive
<1> QED BY <1>2, <1>3, <1>4, <1>5, FilesStay

LEMMA ReadEncKeeps ==
    ASSUME VaultInv, NEW a \in Actor, V!ReadEnc(a)
    PROVE  VaultInv' /\ UNCHANGED filesVars
<1> DEFINE o == [V!Resting EXCEPT !.pc = "readKey", !.read = enc]
<1>1. o \in Activity /\ o.pc = "readKey" /\ o.read = enc
  BY EmptyStoreClosed DEF V!Resting, Activity, Steps, VaultInv, Sorts, AtMostOne
<1>2. Current(o)
  BY <1>1 DEF Current, VaultInv, FilesAgree
<1>3. act' = [act EXCEPT ![a] = o] /\ UNCHANGED <<filesVars, lock>>
  BY DEF V!ReadEnc, filesVars
<1> HIDE DEF o
<1>4. act' \in [Actor -> Activity] /\ \A b \in Actor : act'[b] = IF b = a THEN o ELSE act[b]
  BY <1>1, <1>3 DEF VaultInv, Sorts
<1>5. Exclusive'
  BY <1>1, <1>3, <1>4, RestingActivity DEF VaultInv, Exclusive
<1> QED BY <1>2, <1>3, <1>4, <1>5, FilesStay

LEMMA LockKeeps ==
    ASSUME VaultInv, NEW a \in Actor, V!MutateLock(a)
    PROVE  VaultInv' /\ UNCHANGED filesVars
<1> DEFINE o == [act[a] EXCEPT !.pc = "load"]
<1>1. o \in Activity /\ o.pc = "load"
  BY DEF Activity, Steps, VaultInv, Sorts
<1>2. Current(o)
  BY <1>1 DEF Current
<1>3. act' = [act EXCEPT ![a] = o] /\ UNCHANGED filesVars /\ lock = {} /\ lock' = {a}
  BY DEF V!MutateLock, filesVars
<1> HIDE DEF o
<1>4. act' \in [Actor -> Activity] /\ \A b \in Actor : act'[b] = IF b = a THEN o ELSE act[b]
  BY <1>1, <1>3 DEF VaultInv, Sorts
<1>5. Exclusive'
  BY <1>3, <1>4 DEF VaultInv, Exclusive
<1> QED BY <1>2, <1>3, <1>4, <1>5, FilesStay

\* Giving up, or being done.
LEMMA ReleaseKeeps ==
    ASSUME VaultInv, NEW a \in Actor, V!Release(a), UNCHANGED filesVars
    PROVE  VaultInv'
<1>1. /\ act' \in [Actor -> Activity]
      /\ \A b \in Actor : act'[b] = IF b = a THEN V!Resting ELSE act[b]
  BY RestingActivity DEF V!Release, VaultInv, Sorts
<1>2. Exclusive'
  BY <1>1, RestingActivity DEF V!Release, VaultInv, Exclusive
<1> QED BY <1>1, <1>2, RestingActivity, FilesStay

LEMMA LoadKeeps ==
    ASSUME V!NoneAssumption, VaultInv, NEW a \in Actor, V!MutateLoad(a)
    PROVE  VaultInv' /\ UNCHANGED filesVars
<1>1. UNCHANGED filesVars /\ act[a].pc = "load" /\ lock = {a}
  BY DEF V!MutateLoad, filesVars, VaultInv, Exclusive, Holding
<1>2. CASE V!Release(a)
  BY <1>1, <1>2, ReleaseKeeps
<1>3. CASE ~V!Release(a)
  <2>1. PICK op \in act[a].op :
          /\ V!Opens(enc, key) /\ ~V!Refused(op, V!StoreOf(enc))
          /\ act' = [act EXCEPT ![a].pc = IF key = {} THEN "key" ELSE "seal",
                                ![a].key = key, ![a].store = V!Change(op, V!StoreOf(enc))]
          /\ UNCHANGED lock
    BY <1>3 DEF V!MutateLoad
  <2>2. act[a] \in Activity /\ op \in V!Op /\ V!StoreOf(enc) \in V!Store /\ V!GroupsClosed(V!StoreOf(enc))
    BY StoreOfSort DEF VaultInv, Sorts, Activity, FilesAgree
  <2>3. V!Change(op, V!StoreOf(enc)) \in V!Store
    BY <2>1, <2>2, ChangeCloses
  <2> DEFINE c == V!Change(op, V!StoreOf(enc))
             p == IF key = {} THEN "key" ELSE "seal"
             o == [act[a] EXCEPT !.pc = p, !.key = key, !.store = c]
  <2>4. act' = [act EXCEPT ![a] = o]
    BY <2>1
  <2>5. p \in Steps /\ key \in SUBSET Key
    BY DEF Steps, VaultInv, Sorts, AtMostOne
  <2>6. o \in Activity /\ o.pc = p /\ o.key = key /\ o.store = c /\ o.op = act[a].op
    <3> HIDE DEF c, p
    <3> QED BY <2>2, <2>3, <2>5 DEF Activity, c
  <2>7. key = {} => enc = {}
    BY <2>1 DEF V!Opens
  <2>8. Current(o)
    <3> HIDE DEF o
    <3>1. /\ o.pc = "key" => key = {} /\ enc = {}
          /\ o.pc \in {"key", "seal"} /\ (o.pc = "seal" => o.key = key /\ key # {})
          /\ op \in o.op /\ ~V!Refused(op, V!StoreOf(enc)) /\ o.store = V!Change(op, V!StoreOf(enc))
      BY <2>1, <2>6, <2>7
    <3> QED BY <3>1 DEF Current
  <2> HIDE DEF o
  <2>9. act' \in [Actor -> Activity] /\ \A b \in Actor : act'[b] = IF b = a THEN o ELSE act[b]
    BY <2>4, <2>6 DEF VaultInv, Sorts
  <2>10. Exclusive'
    BY <1>1, <2>1, <2>9 DEF VaultInv, Exclusive
  <2> QED BY <1>1, <2>8, <2>9, <2>10, FilesStay
<1> QED BY <1>1, <1>2, <1>3

\* Processes die with what their threads were doing.
LEMMA CrashKeeps ==
    ASSUME VaultInv, NEW p, V!VaultCrash(p)
    PROVE  VaultInv' /\ UNCHANGED filesVars
<1>1. /\ act' \in [Actor -> Activity] /\ UNCHANGED filesVars
      /\ \A a \in Actor : act'[a] = IF Home[a] = p THEN V!Resting ELSE act[a]
  BY RestingActivity DEF V!VaultCrash, VaultInv, Sorts, filesVars
<1>2. Exclusive'
  BY <1>1, RestingActivity DEF V!VaultCrash, VaultInv, Exclusive
<1> QED BY <1>1, <1>2, RestingActivity, FilesStay

-----------------------------------------------------------------------------
(* Steps that change a file: those of the holder of the lock, and a power loss. *)

\* What readers know stays so, and nobody else knows anything.
LEMMA HolderMoves ==
    ASSUME VaultInv, NEW a \in Actor, act[a].pc \in Holding, UNCHANGED lock,
           NEW o \in Activity, act' = [act EXCEPT ![a] = o],
           Sorts', FilesAgree', Current(act[a])',
           key' = key \/ enc = {}, enc # {} => enc' # {}
    PROVE  VaultInv'
<1>1. \A b \in Actor : act'[b] = IF b = a THEN o ELSE act[b]
  BY DEF VaultInv, Sorts
<1>2. Exclusive'
  BY <1>1, HolderAlone DEF VaultInv, Exclusive
<1>3. ASSUME NEW b \in Actor, b # a PROVE Current(act[b])'
  <2>1. act'[b] = act[b] /\ act[b].pc \notin Holding /\ Current(act[b])
    BY <1>1, <1>3, HolderAlone DEF VaultInv
  <2> QED BY <2>1 DEF Current, Holding, V!Opens
<1> QED BY <1>2, <1>3 DEF VaultInv

LEMMA WriteKeyKeeps ==
    ASSUME V!KeyAssumption, VaultInv, NEW a \in Actor, V!WriteKey(a)
    PROVE  VaultInv' /\ UNCHANGED <<enc, encSafe>>
<1>1. /\ act[a].pc = "key" /\ key = {} /\ enc = {} /\ encSafe = {} /\ keySafe = {}
      /\ UNCHANGED <<keySafe, enc, encSafe, lock>>
  BY DEF V!WriteKey, VaultInv, Current, FilesAgree
<1>2. V!NewKey \in Key
  BY <1>1 DEF V!NewKey, V!KeyAssumption
<1>3. key' = {V!NewKey} /\ key' \in AtMostOne(Key)
  BY <1>2 DEF V!WriteKey, AtMostOne
<1> DEFINE k == {V!NewKey}
           o == [act[a] EXCEPT !.pc = "syncKey", !.key = k]
<1>4. act' = [act EXCEPT ![a] = o] /\ act[a] \in Activity /\ k \in SUBSET Key
  BY <1>2 DEF V!WriteKey, VaultInv, Sorts
<1>5. o \in Activity /\ o.pc = "syncKey" /\ o.key = k /\ o.op = act[a].op /\ o.store = act[a].store
  <2> HIDE DEF k
  <2> QED BY <1>4 DEF Activity, Steps
<1> HIDE DEF o
<1>6. Sorts'
  BY <1>1, <1>3, <1>4, <1>5 DEF VaultInv, Sorts
<1>7. FilesAgree'
  BY <1>1, <1>3 DEF VaultInv, FilesAgree, V!Opens, V!StoreOf
<1>8. Current(act[a])'
  <2>1. act'[a] = o
    BY <1>4 DEF VaultInv, Sorts
  <2>2. \E op \in o.op : ~V!Refused(op, V!StoreOf(enc)) /\ o.store = V!Change(op, V!StoreOf(enc))
    BY <1>1, <1>5 DEF VaultInv, Current
  <2>3. V!StoreOf(enc)' = V!StoreOf(enc)
    BY <1>1 DEF V!StoreOf
  <2> QED BY <1>1, <1>3, <1>5, <2>1, <2>2, <2>3 DEF Current
<1> QED BY <1>1, <1>4, <1>5, <1>6, <1>7, <1>8, HolderMoves DEF Holding

LEMMA SyncKeyKeeps ==
    ASSUME VaultInv, NEW a \in Actor, V!SyncKey(a)
    PROVE  VaultInv' /\ UNCHANGED <<enc, encSafe>>
<1>1. act[a].pc = "syncKey" /\ keySafe' = key /\ UNCHANGED <<key, enc, encSafe, lock>>
  BY DEF V!SyncKey
<1> DEFINE o == [act[a] EXCEPT !.pc = "seal"]
<1>2. act' = [act EXCEPT ![a] = o] /\ act[a] \in Activity
  BY DEF V!SyncKey, VaultInv, Sorts
<1>3. /\ o \in Activity /\ o.pc = "seal" /\ o.key = act[a].key /\ o.op = act[a].op
      /\ o.store = act[a].store
  BY <1>2 DEF Activity, Steps
<1> HIDE DEF o
<1>4. Sorts' /\ FilesAgree'
  BY <1>1, <1>2, <1>3 DEF VaultInv, Sorts, FilesAgree, V!Opens, V!StoreOf
<1>5. Current(act[a])'
  <2>1. act'[a] = o
    BY <1>2 DEF VaultInv, Sorts
  <2>2. \E op \in o.op : ~V!Refused(op, V!StoreOf(enc)) /\ o.store = V!Change(op, V!StoreOf(enc))
    BY <1>1, <1>3 DEF VaultInv, Current
  <2>3. V!StoreOf(enc)' = V!StoreOf(enc)
    BY <1>1 DEF V!StoreOf
  <2>4. o.key = key /\ key # {}
    BY <1>1, <1>3 DEF VaultInv, Current
  <2> QED BY <1>1, <1>3, <2>1, <2>2, <2>3, <2>4 DEF Current
<1> QED BY <1>1, <1>2, <1>3, <1>4, <1>5, HolderMoves DEF Holding

\* The change is applied to what is there, and what is there can be opened.
LEMMA WriteEncKeeps ==
    ASSUME V!NoneAssumption, VaultInv, NEW a \in Actor, V!WriteEnc(a)
    PROVE  /\ VaultInv' /\ UNCHANGED encSafe
           /\ \E op \in V!Op : /\ ~V!Refused(op, V!StoreOf(enc))
                             /\ V!StoreOf(enc)' = V!Change(op, V!StoreOf(enc))
<1>1. PICK k \in act[a].key :
        /\ act[a].pc = "seal" /\ enc' = {[key |-> k, store |-> act[a].store]}
        /\ act' = [act EXCEPT ![a].pc = "sync"]
        /\ UNCHANGED <<key, keySafe, encSafe, lock>>
  BY DEF V!WriteEnc
<1>2. act[a] \in Activity
  BY DEF VaultInv, Sorts
<1>3. key = {k} /\ k \in Key
  BY <1>1 DEF VaultInv, Current, Sorts, AtMostOne
<1>4. PICK op \in act[a].op : /\ ~V!Refused(op, V!StoreOf(enc))
                              /\ act[a].store = V!Change(op, V!StoreOf(enc))
  BY <1>1 DEF VaultInv, Current
<1>5. op \in V!Op /\ V!StoreOf(enc) \in V!Store /\ V!GroupsClosed(V!StoreOf(enc))
  BY <1>2, StoreOfSort DEF VaultInv, Sorts, FilesAgree, Activity
<1>6. act[a].store \in V!Store /\ V!GroupsClosed(act[a].store)
  BY <1>4, <1>5, ChangeCloses
<1> DEFINE f == [key |-> k, store |-> act[a].store]
           o == [act[a] EXCEPT !.pc = "sync"]
<1>7. f \in File /\ f.key = k /\ f.store = act[a].store /\ enc' = {f}
  BY <1>1, <1>3, <1>6 DEF File
<1>8. o \in Activity /\ o.pc = "sync" /\ o.store = act[a].store /\ act' = [act EXCEPT ![a] = o]
  BY <1>1, <1>2 DEF Activity, Steps
<1> HIDE DEF f, o
<1>9. V!StoreOf(enc)' = act[a].store
  <2>1. V!StoreOf({f}) = f.store
    BY StoreOfSort
  <2>2. V!StoreOf(enc)' = V!StoreOf({f})
    BY <1>7 DEF V!StoreOf
  <2> QED BY <1>7, <2>1, <2>2
<1>10. Sorts'
  BY <1>1, <1>7, <1>8 DEF VaultInv, Sorts, AtMostOne
<1>11. FilesAgree'
  <2>1. V!Opens(enc, key)'
    BY <1>1, <1>3, <1>7 DEF V!Opens
  <2>2. /\ V!Opens(encSafe, key)' /\ V!Opens(encSafe, keySafe)' /\ (keySafe' # {} => key' # {})
        /\ V!GroupsClosed(V!StoreOf(encSafe))'
    BY <1>1 DEF VaultInv, FilesAgree, V!Opens, V!StoreOf
  <2>3. V!GroupsClosed(V!StoreOf(enc))' /\ enc' # {}
    BY <1>6, <1>7, <1>9 DEF V!GroupsClosed
  <2> QED BY <2>1, <2>2, <2>3 DEF FilesAgree
<1>12. Current(act[a])'
  <2>1. act'[a] = o
    BY <1>8 DEF VaultInv, Sorts
  <2> QED BY <1>8, <1>9, <2>1 DEF Current
<1>13. VaultInv'
  BY <1>1, <1>7, <1>8, <1>10, <1>11, <1>12, HolderMoves DEF Holding
<1> QED BY <1>1, <1>4, <1>5, <1>9, <1>13

LEMMA SyncEncKeeps ==
    ASSUME VaultInv, NEW a \in Actor, V!SyncEnc(a)
    PROVE  VaultInv' /\ UNCHANGED enc /\ encSafe' = enc
<1>1. /\ act[a].pc = "sync" /\ encSafe' = enc /\ keySafe' = key
      /\ UNCHANGED <<key, enc, lock>>
  BY DEF V!SyncEnc
<1> DEFINE o == [act[a] EXCEPT !.pc = "answer"]
<1>2. act' = [act EXCEPT ![a] = o] /\ act[a] \in Activity
  BY DEF V!SyncEnc, VaultInv, Sorts
<1>3. o \in Activity /\ o.pc = "answer" /\ o.store = act[a].store
  BY <1>2 DEF Activity, Steps
<1> HIDE DEF o
<1>4. Sorts' /\ FilesAgree'
  BY <1>1, <1>2, <1>3 DEF VaultInv, Sorts, FilesAgree, V!Opens, V!StoreOf
<1>5. Current(act[a])'
  <2>1. act'[a] = o
    BY <1>2 DEF VaultInv, Sorts
  <2>2. o.store = V!StoreOf(enc) /\ V!StoreOf(enc)' = V!StoreOf(enc)
    BY <1>1, <1>3 DEF VaultInv, Current, V!StoreOf
  <2> QED BY <1>1, <1>3, <2>1, <2>2 DEF Current
<1> QED BY <1>1, <1>2, <1>3, <1>4, <1>5, HolderMoves DEF Holding

LEMMA PowerLossKeeps ==
    ASSUME VaultInv, V!VaultPowerLoss
    PROVE  VaultInv' /\ encSafe' = enc' /\ enc' \in {enc, encSafe}
<1>1. PICK left \in V!Survivals :
        key' = left.key /\ keySafe' = left.key /\ enc' = left.enc /\ encSafe' = left.enc
  BY DEF V!VaultPowerLoss
<1>2. /\ left.key \in {key, keySafe} /\ left.enc \in {enc, encSafe} /\ V!Opens(left.enc, left.key)
      /\ left.key \in AtMostOne(Key) /\ left.enc \in AtMostOne(File)
      /\ V!GroupsClosed(V!StoreOf(left.enc))
  BY DEF V!Survivals, VaultInv, FilesAgree, Sorts
<1>3. act' = [a \in Actor |-> V!Resting]
  BY DEF V!VaultPowerLoss
<1>4. Sorts'
  BY <1>1, <1>2, <1>3, RestingActivity DEF Sorts
<1>5. FilesAgree'
  BY <1>1, <1>2 DEF FilesAgree, V!Opens, V!StoreOf
<1>6. Exclusive'
  BY <1>3, RestingActivity DEF Exclusive
<1>7. \A a \in Actor : Current(act[a])'
  BY <1>3 DEF Current, V!Resting
<1> QED BY <1>1, <1>2, <1>4, <1>5, <1>6, <1>7 DEF VaultInv

-----------------------------------------------------------------------------
(* Any step of the vault, or one that is none of its own and leaves the lock to its holder. *)

Operation ==
  \/ \E a \in Actor : \/ \E op \in V!Op : V!MutateBegin(a, op)
                      \/ V!ReadEnc(a) \/ V!VaultStep(a) \/ V!MutateFails(a)
  \/ \E p : V!VaultCrash(p)
  \/ V!VaultPowerLoss
  \/ UNCHANGED <<filesVars, act>> /\ \A a \in Actor : act[a].pc \in Holding => lock' = lock

PromiseStep ==
  [Promise!Update \/ Promise!Settle \/ Promise!PowerLoss]_<<V!StoreOf(enc), V!StoreOf(encSafe)>>

\* The promise speaks of the same operations.
LEMMA SameOperations ==
    /\ Promise!Op = V!Op /\ Promise!EmptyStore = V!EmptyStore
    /\ \A op, s : /\ Promise!Refused(op, s) <=> V!Refused(op, s)
                  /\ Promise!Change(op, s) = V!Change(op, s)
<1>1. Promise!Op = V!Op /\ Promise!EmptyStore = V!EmptyStore
  BY DEF Promise!Op, V!Op, Promise!EmptyStore, V!EmptyStore
<1>2. ASSUME NEW op, NEW s PROVE Promise!Refused(op, s) <=> V!Refused(op, s)
  BY DEF Promise!Refused, V!Refused
<1>3. ASSUME NEW op, NEW s PROVE Promise!Change(op, s) = V!Change(op, s)
  BY DEF Promise!Change, V!Change, Promise!DeleteGroup, V!DeleteGroup, Promise!Moved, V!Moved
<1> QED BY <1>1, <1>2, <1>3

LEMMA InitPromise ==
    ASSUME V!VaultInit
    PROVE  Promise!Init
  BY SameOperations DEF V!VaultInit, Promise!Init, V!StoreOf

LEMMA OperationKeeps ==
    ASSUME V!NoneAssumption, V!KeyAssumption, VaultInv, Operation
    PROVE  VaultInv' /\ PromiseStep
<1>0. ASSUME UNCHANGED <<enc, encSafe>> PROVE PromiseStep
  BY <1>0 DEF PromiseStep, V!StoreOf
<1>1. ASSUME VaultInv', UNCHANGED filesVars PROVE VaultInv' /\ PromiseStep
  BY <1>0, <1>1 DEF filesVars
<1>2. ASSUME NEW a \in Actor, NEW op \in V!Op, V!MutateBegin(a, op) PROVE VaultInv' /\ PromiseStep
  BY <1>1, <1>2, BeginKeeps
<1>3. ASSUME NEW a \in Actor, V!ReadEnc(a) PROVE VaultInv' /\ PromiseStep
  BY <1>1, <1>3, ReadEncKeeps
<1>4. ASSUME NEW a \in Actor, V!VaultStep(a) PROVE VaultInv' /\ PromiseStep
  <2>1. CASE V!MutateLock(a) \/ V!MutateLoad(a)
    BY <1>1, <2>1, LockKeeps, LoadKeeps
  <2>2. CASE V!MutateEnd(a) \/ V!ReadKey(a)
    <3>1. V!Release(a) /\ UNCHANGED filesVars
      BY <2>2 DEF V!MutateEnd, V!ReadKey, filesVars
    <3> QED BY <1>1, <3>1, ReleaseKeeps
  <2>3. CASE V!WriteKey(a) \/ V!SyncKey(a)
    BY <1>0, <2>3, WriteKeyKeeps, SyncKeyKeeps
  <2>4. CASE V!WriteEnc(a)
    <3>1. PICK op \in V!Op : ~V!Refused(op, V!StoreOf(enc)) /\ V!StoreOf(enc)' = V!Change(op, V!StoreOf(enc))
      BY <2>4, WriteEncKeeps
    <3>2. VaultInv' /\ encSafe' = encSafe
      BY <2>4, WriteEncKeeps
    <3>4. V!StoreOf(encSafe)' = V!StoreOf(encSafe)
      BY <3>2 DEF V!StoreOf
    <3>3. Promise!Update
      BY <3>1, <3>4, SameOperations DEF Promise!Update
    <3> QED BY <3>2, <3>3 DEF PromiseStep
  <2>5. CASE V!SyncEnc(a)
    <3>1. VaultInv' /\ enc' = enc /\ encSafe' = enc
      BY <2>5, SyncEncKeeps
    <3>2. V!StoreOf(enc)' = V!StoreOf(enc) /\ V!StoreOf(encSafe)' = V!StoreOf(enc)
      BY <3>1 DEF V!StoreOf
    <3> QED BY <3>1, <3>2 DEF PromiseStep, Promise!Settle
  <2> QED BY <1>4, <2>1, <2>2, <2>3, <2>4, <2>5 DEF V!VaultStep
<1>5. ASSUME NEW a \in Actor, V!MutateFails(a) PROVE VaultInv' /\ PromiseStep
  <2>1. V!Release(a) /\ UNCHANGED filesVars
    BY <1>5 DEF V!MutateFails, filesVars
  <2> QED BY <1>1, <2>1, ReleaseKeeps
<1>6. ASSUME NEW p, V!VaultCrash(p) PROVE VaultInv' /\ PromiseStep
  BY <1>1, <1>6, CrashKeeps
<1>7. CASE V!VaultPowerLoss
  <2>1. VaultInv' /\ encSafe' = enc' /\ enc' \in {enc, encSafe}
    BY <1>7, PowerLossKeeps
  <2>2. V!StoreOf(encSafe)' = V!StoreOf(enc)'
    BY <2>1 DEF V!StoreOf
  <2>3. ASSUME enc' = enc PROVE V!StoreOf(enc)' = V!StoreOf(enc)
    BY <2>3 DEF V!StoreOf
  <2>4. ASSUME enc' = encSafe PROVE V!StoreOf(enc)' = V!StoreOf(encSafe)
    BY <2>4 DEF V!StoreOf
  <2>5. V!StoreOf(enc)' = V!StoreOf(enc) \/ V!StoreOf(enc)' = V!StoreOf(encSafe)
    BY <2>1, <2>3, <2>4
  <2> QED BY <2>1, <2>2, <2>5 DEF PromiseStep, Promise!PowerLoss
<1>8. CASE UNCHANGED <<filesVars, act>> /\ \A a \in Actor : act[a].pc \in Holding => lock' = lock
  <2>1. UNCHANGED filesVars /\ act' = act /\ act' \in [Actor -> Activity] /\ Exclusive'
    BY <1>8 DEF VaultInv, Sorts, Exclusive
  <2> QED BY <1>1, <2>1, FilesStay
<1> QED BY <1>2, <1>3, <1>4, <1>5, <1>6, <1>7, <1>8 DEF Operation

\* The invariant says what the vault owes its users.
LEMMA InvSurvives ==
    ASSUME VaultInv
    PROVE  V!VaultSurvives
<1>1. \A left \in V!Survivals : V!Opens(left.enc, left.key)
  BY DEF VaultInv, FilesAgree, V!Survivals
<1>2. \A a \in Actor : /\ act[a].pc = "readKey" => V!Opens(act[a].read, key)
                       /\ act[a].pc = "answer" => encSafe = enc /\ V!StoreOf(enc) = act[a].store
  BY DEF VaultInv, Current
<1>3. V!GroupsClosed(V!StoreOf(enc))
  BY DEF VaultInv, FilesAgree
<1> QED BY <1>1, <1>2, <1>3 DEF V!VaultSurvives

-----------------------------------------------------------------------------
(* The sessions and the password. *)

Kind == {"login", "setup", "status", "logout", "vault"}

Single(X) == \A x, y \in X : x = y

\* A token is issued before it has a session, and has one session at most.
Tokens ==
  /\ issued \subseteq Token /\ ended \subseteq issued
  /\ DOMAIN sessions = Token
  /\ \A t \in Token : Single(sessions[t]) /\ (sessions[t] # {} => t \in issued)

Pcs == Kind \union {"idle", "issue", "setupWrite", "authenticate", "gate", "load",
                     "deriveRight", "deriveWrong", "right", "wrong"}

Asking == [pc : Pcs, token : SUBSET Token, password : SUBSET Password, at : Nat]

\* A request knows the token it was authorized with, and lets go of it when it ends.
Requests ==
  /\ req \in [Request -> Asking]
  /\ \A r \in Request :
       /\ req[r].token \subseteq issued
       /\ Single(req[r].password)
       /\ req[r].pc = "idle" => req[r].token = {}

\* All that can be left of an ended session is the zero one, which no look at it survives.
EndedAreZero == \A t \in ended : \A s \in sessions[t] : s.created = S!ZeroTime

Issuing == {r \in Request : req[r].pc = "issue"}

\* The code is unused, or on its way to the only session it opens, or has opened it.
Opening ==
  /\ Single(Issuing) /\ Single(issued \ ended)
  /\ Issuing = {} \/ issued \ ended = {}
  /\ ~pairing.used => Issuing = {} /\ issued \ ended = {}

Deriving == {r \in Request : req[r].pc \in {"load", "deriveRight", "deriveWrong"}}

Guarded ==
  /\ guard \in [failures : 0..FailureLimit - 1, blockedUntil : Nat, gate : BOOLEAN]
  /\ Single(Deriving)
  /\ guard.gate <=> Deriving # {}
  /\ verifier \subseteq Password /\ Single(verifier)

Clocked == now \in Nat /\ S!Begin <= now

SessionInv == Clocked /\ Tokens /\ Requests /\ EndedAreZero /\ Opening /\ Guarded

\* A request that is let in holds no token that has ended.
EndedStep ==
  \A r \in Request : req[r].pc = "idle" => \A t \in req'[r].token : t \notin ended'

-----------------------------------------------------------------------------
(* Steps that leave the sessions: a request moves on, or ends. *)

MovesOn(r) ==
  \/ req' = req
  \/ S!EndRequest(r)
  \/ req[r].pc # "idle" /\ \E pc \in Pcs \ {"idle", "issue"} : S!Goto(r, pc)

LEMMA MovesOnKeeps ==
    ASSUME Tokens, Requests, EndedAreZero, Opening, NEW r \in Request, MovesOn(r),
           UNCHANGED <<pairing, sessions, ended, issued>>
    PROVE  Tokens' /\ Requests' /\ EndedAreZero' /\ Opening' /\ EndedStep
<1>1. Tokens' /\ EndedAreZero'
  BY DEF Tokens, EndedAreZero, Single
<1>2. S!Free.token = {} /\ S!Free.password = {} /\ S!Free.pc = "idle" /\ S!Free \in Asking
  BY DEF S!Free, Asking, Pcs
<1>3. req' \in [Request -> Asking] /\ \A u \in Request \ {r} : req'[u] = req[u]
  BY <1>2 DEF MovesOn, S!EndRequest, S!Goto, Requests, Asking
<1>4. \/ req'[r] = req[r]
      \/ req'[r] = S!Free
      \/ /\ req[r].pc # "idle" /\ req'[r].pc \notin {"idle", "issue"}
         /\ req'[r].token = req[r].token /\ req'[r].password = req[r].password
  BY DEF MovesOn, S!EndRequest, S!Goto, Requests, Asking
<1>5. Requests'
  BY <1>2, <1>3, <1>4 DEF Requests, Single
<1>6. Issuing' \subseteq Issuing
  BY <1>2, <1>3, <1>4 DEF Issuing
<1>7. Opening'
  BY <1>6 DEF Opening, Single
<1>8. EndedStep
  BY <1>2, <1>3, <1>4 DEF EndedStep, Requests
<1> QED BY <1>1, <1>5, <1>7, <1>8

\* The steps that neither open nor touch a session.
LEMMA OthersMoveOn ==
    ASSUME Requests, NEW r \in Request,
           \/ S!Status(r) \/ S!Setup(r) \/ S!SetupWrite(r) \/ S!SetupFails(r) \/ S!VerifyCheck(r)
           \/ S!VerifyGate(r) \/ S!Load(r) \/ S!Derive(r) \/ S!VerifyRight(r) \/ S!VerifyWrong(r)
    PROVE  MovesOn(r) /\ UNCHANGED <<pairing, sessions, ended, issued>>
<1>1. CASE S!Status(r) \/ S!Setup(r) \/ S!SetupWrite(r) \/ S!SetupFails(r) \/ S!VerifyCheck(r)
  BY <1>1 DEF S!Status, S!Setup, S!SetupWrite, S!SetupFails, S!VerifyCheck, MovesOn, Pcs
<1>2. CASE S!VerifyGate(r) \/ S!VerifyRight(r) \/ S!VerifyWrong(r)
  BY <1>2 DEF S!VerifyGate, S!VerifyRight, S!VerifyWrong, MovesOn, Pcs
<1>3. CASE S!Load(r) \/ S!Derive(r)
  BY <1>3 DEF S!Load, S!Compared, S!Derive, MovesOn, Pcs
<1> QED BY <1>1, <1>2, <1>3

-----------------------------------------------------------------------------
(* Steps that open, end or touch a session. *)

LEMMA PairCheckKeeps ==
    ASSUME Tokens, Requests, EndedAreZero, Opening, NEW r \in Request, Clocked, S!PairCheck(r)
    PROVE  Tokens' /\ Requests' /\ EndedAreZero' /\ Opening' /\ EndedStep
<1>1. Tokens' /\ EndedAreZero'
  BY DEF Tokens, EndedAreZero, Single, S!PairCheck
<1>2. /\ \A u \in Request \ {r} : req'[u] = req[u]
      /\ req'[r].pc = "issue" /\ req'[r].token = {} /\ req'[r].password = {}
      /\ req' \in [Request -> Asking]
  BY DEF S!PairCheck, S!Free, Requests, Asking, Pcs, Clocked
<1>3. Requests'
  BY <1>2 DEF Requests, Single, S!PairCheck
<1>4. Issuing = {} /\ issued \ ended = {}
  BY DEF Opening, S!PairCheck
<1>5. Issuing' = {r}
  BY <1>2, <1>4 DEF Issuing
<1>6. Opening'
  <2>1. issued' \ ended' = {} /\ (pairing.used)' = TRUE
    BY <1>4 DEF S!PairCheck
  <2> QED BY <1>5, <2>1 DEF Opening, Single
<1>7. EndedStep
  BY <1>2 DEF EndedStep, Requests
<1> QED BY <1>1, <1>3, <1>6, <1>7

LEMMA PairIssueKeeps ==
    ASSUME Tokens, Requests, EndedAreZero, Opening, NEW r \in Request, S!PairIssue(r)
    PROVE  Tokens' /\ Requests' /\ EndedAreZero' /\ Opening' /\ EndedStep
<1>1. CASE UNCHANGED <<sessions, issued>>
  BY <1>1, MovesOnKeeps DEF S!PairIssue, MovesOn
<1>2. CASE /\ issued # Token
           /\ sessions' = [sessions EXCEPT ![S!NewToken] =
                              {[created |-> req[r].at, seen |-> req[r].at, auth |-> FALSE]}]
           /\ issued' = issued \union {S!NewToken}
  <2>1. S!NewToken \in Token /\ S!NewToken \notin issued /\ S!NewToken \notin ended
    BY <1>2 DEF S!NewToken, Tokens
  <2>2. /\ req' = [req EXCEPT ![r] = S!Free] /\ ended' = ended /\ pairing' = pairing
        /\ req[r].pc = "issue"
    BY DEF S!PairIssue, S!EndRequest
  <2>3. Tokens'
    BY <1>2, <2>1, <2>2 DEF Tokens, Single
  <2>4. EndedAreZero'
    BY <1>2, <2>1, <2>2 DEF EndedAreZero, Tokens
  <2>5. /\ \A u \in Request \ {r} : req'[u] = req[u]
        /\ req'[r].pc = "idle" /\ req'[r].token = {} /\ req'[r].password = {}
        /\ req' \in [Request -> Asking]
    BY <2>2 DEF S!Free, Requests, Asking, Pcs
  <2>6. Requests'
    BY <1>2, <2>5 DEF Requests, Single
  <2>7. r \in Issuing /\ issued \ ended = {} /\ Issuing \subseteq {r}
    BY <2>2 DEF Issuing, Opening, Single
  <2>8. Issuing' = {} /\ issued' \ ended' = {S!NewToken} /\ pairing'.used
    <3>1. Issuing' = {}
      BY <2>5, <2>7 DEF Issuing
    <3>2. pairing.used
      BY <2>7 DEF Opening
    <3> QED BY <1>2, <2>1, <2>2, <2>7, <3>1, <3>2
  <2>9. Opening'
    BY <2>8 DEF Opening, Single
  <2>10. EndedStep
    BY <2>5 DEF EndedStep, Requests
  <2> QED BY <2>3, <2>4, <2>6, <2>9, <2>10
<1> QED BY <1>1, <1>2 DEF S!PairIssue

LEMMA AuthorizeKeeps ==
    ASSUME S!SessionAssumption, Clocked, Tokens, Requests, EndedAreZero, Opening,
           NEW r \in Request, NEW t \in Token, NEW kind \in Kind, NEW password \in Password,
           S!Authorize(r, t, kind, password)
    PROVE  Tokens' /\ Requests' /\ EndedAreZero' /\ Opening' /\ EndedStep
<1>1. \A u \in Token : S!Kept[u] \subseteq sessions[u]
  BY DEF S!Kept
<1>2. \A u \in ended : S!Kept[u] = {}
  <2> SUFFICES ASSUME NEW u \in ended, NEW s \in sessions[u] PROVE S!Expired(s)
    BY DEF S!Kept, Tokens
  <2>1. s.created = 0
    BY DEF EndedAreZero, S!ZeroTime
  <2>2. now > s.created + SessionAbsolute
    BY <2>1 DEF Clocked, S!Begin, S!SessionAssumption
  <2> QED BY <2>2 DEF S!Expired
<1>3. ended' = ended \union {u \in Token : sessions[u] # {} /\ S!Kept[u] = {}}
      /\ issued' = issued /\ pairing' = pairing /\ req[r].pc = "idle" /\ t \in issued
  BY DEF S!Authorize
<1>4. ended' \subseteq issued /\ \A u \in ended' : S!Kept[u] = {}
  BY <1>2, <1>3 DEF Tokens
<1>5. CASE \E s \in S!Kept[t] :
             /\ sessions' = [S!Kept EXCEPT ![t] = {[s EXCEPT !.seen = now]}]
             /\ req' = [req EXCEPT ![r] = [pc |-> kind, token |-> {t}, password |-> {password}, at |-> 0]]
  <2>1. PICK s \in S!Kept[t] :
             /\ sessions' = [S!Kept EXCEPT ![t] = {[s EXCEPT !.seen = now]}]
             /\ req' = [req EXCEPT ![r] = [pc |-> kind, token |-> {t}, password |-> {password}, at |-> 0]]
    BY <1>5
  <2>2. t \notin ended'
    BY <1>4, <2>1
  <2>3. /\ DOMAIN sessions' = Token /\ sessions'[t] = {[s EXCEPT !.seen = now]}
        /\ \A u \in Token \ {t} : sessions'[u] = S!Kept[u]
    BY <2>1 DEF S!Kept
  <2>4. Tokens'
    BY <1>1, <1>3, <1>4, <2>3 DEF Tokens, Single
  <2>5. EndedAreZero'
    BY <1>3, <1>4, <2>2, <2>3 DEF EndedAreZero, Tokens
  <2>6. /\ \A u \in Request \ {r} : req'[u] = req[u]
        /\ req'[r].pc = kind /\ req'[r].token = {t} /\ req'[r].password = {password}
        /\ kind \notin {"idle", "issue"} /\ req' \in [Request -> Asking]
    BY <2>1 DEF Requests, Kind, Asking, Pcs
  <2>7. Requests'
    BY <1>3, <2>6 DEF Requests, Single
  <2>8. Issuing' = Issuing
    BY <1>3, <2>6 DEF Issuing
  <2>9. Opening'
    BY <1>3, <2>8 DEF Opening, Single
  <2>10. EndedStep
    BY <2>2, <2>6 DEF EndedStep, Requests
  <2> QED BY <2>4, <2>5, <2>7, <2>9, <2>10
<1>6. CASE sessions' = S!Kept /\ req' = req
  <2>1. Tokens'
    BY <1>1, <1>3, <1>4, <1>6 DEF Tokens, Single, S!Kept
  <2>2. EndedAreZero'
    BY <1>4, <1>6 DEF EndedAreZero
  <2>3. Requests'
    BY <1>3, <1>6 DEF Requests, Single
  <2>4. Opening'
    BY <1>3, <1>6 DEF Opening, Single, Issuing
  <2>5. EndedStep
    BY <1>6 DEF EndedStep, Requests
  <2> QED BY <2>1, <2>2, <2>3, <2>4, <2>5
<1> QED BY <1>5, <1>6 DEF S!Authorize

LEMMA LogoutKeeps ==
    ASSUME Tokens, Requests, EndedAreZero, Opening, NEW r \in Request, S!Logout(r)
    PROVE  Tokens' /\ Requests' /\ EndedAreZero' /\ Opening' /\ EndedStep
<1>1. PICK t \in req[r].token :
        /\ sessions' = [sessions EXCEPT ![t] = {}] /\ ended' = ended \union {t}
        /\ req' = [req EXCEPT ![r] = S!Free] /\ UNCHANGED <<pairing, issued>>
  BY DEF S!Logout, S!EndRequest
<1>2. t \in issued /\ t \in Token
  BY DEF Requests, Tokens
<1>3. Tokens'
  BY <1>1, <1>2 DEF Tokens, Single
<1>4. EndedAreZero'
  BY <1>1, <1>2 DEF EndedAreZero, Tokens
<1>5. /\ \A u \in Request \ {r} : req'[u] = req[u]
      /\ req'[r].pc = "idle" /\ req'[r].token = {} /\ req'[r].password = {}
      /\ req' \in [Request -> Asking]
  BY <1>1 DEF S!Free, Requests, Asking, Pcs
<1>6. Requests'
  BY <1>1, <1>5 DEF Requests, Single
<1>7. Issuing' \subseteq Issuing
  BY <1>5 DEF Issuing
<1>8. Opening'
  BY <1>1, <1>7 DEF Opening, Single
<1>9. EndedStep
  BY <1>5 DEF EndedStep, Requests
<1> QED BY <1>3, <1>4, <1>6, <1>8, <1>9

LEMMA AuthenticateKeeps ==
    ASSUME Tokens, Requests, EndedAreZero, Opening, NEW r \in Request, S!Authenticate(r)
    PROVE  Tokens' /\ Requests' /\ EndedAreZero' /\ Opening' /\ EndedStep
<1>1. PICK t \in req[r].token :
        /\ sessions' = [sessions EXCEPT ![t] =
             {[created |-> IF sessions[t] = {} THEN S!ZeroTime
                           ELSE (CHOOSE s \in sessions[t] : TRUE).created,
               seen |-> now, auth |-> TRUE]}]
        /\ req' = [req EXCEPT ![r] = S!Free] /\ UNCHANGED <<pairing, ended, issued>>
  BY DEF S!Authenticate, S!EndRequest
<1>2. t \in issued /\ t \in Token
  BY DEF Requests, Tokens
<1>3. Tokens'
  BY <1>1, <1>2 DEF Tokens, Single
<1>4. EndedAreZero'
  <2> SUFFICES ASSUME t \in ended, NEW s \in sessions'[t] PROVE s.created = S!ZeroTime
    BY <1>1, <1>2 DEF EndedAreZero, Tokens
  <2>1. s.created = IF sessions[t] = {} THEN S!ZeroTime ELSE (CHOOSE x \in sessions[t] : TRUE).created
    BY <1>1, <1>2 DEF Tokens
  <2>2. sessions[t] # {} => (CHOOSE x \in sessions[t] : TRUE) \in sessions[t]
    OBVIOUS
  <2> QED BY <2>1, <2>2 DEF EndedAreZero
<1>5. /\ \A u \in Request \ {r} : req'[u] = req[u]
      /\ req'[r].pc = "idle" /\ req'[r].token = {} /\ req'[r].password = {}
      /\ req' \in [Request -> Asking]
  BY <1>1 DEF S!Free, Requests, Asking, Pcs
<1>6. Requests'
  BY <1>1, <1>5 DEF Requests, Single
<1>7. Issuing' \subseteq Issuing
  BY <1>5 DEF Issuing
<1>8. Opening'
  BY <1>1, <1>7 DEF Opening, Single
<1>9. EndedStep
  BY <1>5 DEF EndedStep, Requests
<1> QED BY <1>3, <1>4, <1>6, <1>8, <1>9

LEMMA RestartKeeps ==
    ASSUME S!SessionAssumption, SessionInv, S!RestartUI, now' = now
    PROVE  SessionInv' /\ EndedStep
<1>1. Clocked'
  BY DEF SessionInv, Clocked, S!Begin
<1>2. S!Free.pc = "idle" /\ S!Free.token = {} /\ S!Free.password = {}
  BY DEF S!Free
<1>9. S!Free \in Asking
  BY DEF S!Free, Asking, Pcs
<1>3. req' = [r \in Request |-> S!Free] /\ sessions' = [t \in Token |-> {}]
      /\ ended' = issued /\ issued' = issued /\ verifier' = verifier /\ guard' = S!Unguarded
  BY DEF S!RestartUI
<1>4. Tokens' /\ EndedAreZero'
  BY <1>3 DEF SessionInv, Tokens, EndedAreZero, Single
<1>5. Requests' /\ EndedStep
  BY <1>2, <1>3, <1>9 DEF Requests, Single, EndedStep
<1>6. Issuing' = {} /\ Deriving' = {}
  BY <1>2, <1>3 DEF Issuing, Deriving
<1>7. Opening'
  BY <1>3, <1>6 DEF Opening, Single
<1>8. Guarded'
  <2>1. S!Unguarded \in [failures : 0..FailureLimit - 1, blockedUntil : Nat, gate : BOOLEAN]
        /\ S!Unguarded.gate = FALSE
    BY DEF S!SessionAssumption, S!Unguarded
  <2> QED BY <1>3, <1>6, <2>1 DEF Guarded, Single, SessionInv
<1> QED BY <1>1, <1>4, <1>5, <1>7, <1>8 DEF SessionInv
-----------------------------------------------------------------------------
(* The password's gate, its failure counter and its file. *)

InGate == {"load", "deriveRight", "deriveWrong"}

Only(r) == /\ \A u \in Request \ {r} : req'[u] = req[u]
           /\ req' \in [Request -> Asking]

LEMMA GotoOnly ==
    ASSUME Requests, NEW r \in Request
    PROVE  /\ S!EndRequest(r) => Only(r) /\ req'[r].pc = "idle"
           /\ \A pc \in Pcs : S!Goto(r, pc) => Only(r) /\ req'[r].pc = pc
<1>1. S!EndRequest(r) => Only(r) /\ req'[r].pc = "idle"
  BY DEF Requests, S!EndRequest, S!Free, Only, Asking, Pcs
<1>2. ASSUME NEW pc \in Pcs, S!Goto(r, pc) PROVE Only(r) /\ req'[r].pc = pc
  BY <1>2 DEF Requests, S!Goto, Only, Asking
<1> QED BY <1>1, <1>2

\* A request that neither enters nor leaves the gate.
LEMMA OutsideGate ==
    ASSUME Requests, Guarded, NEW r \in Request, Only(r), req[r].pc \notin InGate,
           req'[r].pc \notin InGate, guard' = guard, verifier' = verifier
    PROVE  Guarded'
<1>1. Deriving' = Deriving
  BY DEF Only, Deriving, InGate
<1> QED BY <1>1 DEF Guarded, Single

LEMMA PairingAndSessionsOutside ==
    ASSUME Clocked, Requests, Guarded, NEW r \in Request,
           \/ S!PairCheck(r) \/ S!PairIssue(r) \/ S!Status(r) \/ S!Logout(r) \/ S!Authenticate(r)
           \/ S!Setup(r) \/ S!SetupFails(r) \/ S!VerifyCheck(r)
           \/ \E t \in issued, kind \in Kind, password \in Password :
                t \in Token /\ S!Authorize(r, t, kind, password)
    PROVE  Guarded'
<1>1. CASE S!PairCheck(r)
  <2>1. Only(r) /\ req'[r].pc = "issue" /\ req[r].pc = "idle"
    BY <1>1 DEF S!PairCheck, S!Free, Requests, Asking, Pcs, Clocked, Only
  <2> QED BY <1>1, <2>1, OutsideGate DEF S!PairCheck, InGate
<1>2. CASE S!PairIssue(r) \/ S!Status(r) \/ S!Logout(r) \/ S!Authenticate(r) \/ S!SetupFails(r)
  <2>1. S!EndRequest(r) /\ req[r].pc \notin InGate /\ guard' = guard /\ verifier' = verifier
    BY <1>2 DEF S!PairIssue, S!Status, S!Logout, S!Authenticate, S!SetupFails, InGate
  <2> QED BY <2>1, GotoOnly, OutsideGate DEF InGate
<1>3. CASE S!Setup(r)
  <2>1. S!EndRequest(r) \/ S!Goto(r, "setupWrite")
    BY <1>3 DEF S!Setup
  <2>2. Only(r) /\ req'[r].pc \notin InGate
    BY <2>1, GotoOnly DEF InGate, Pcs
  <2> QED BY <1>3, <2>2, OutsideGate DEF S!Setup, InGate
<1>4. CASE S!VerifyCheck(r)
  <2>1. S!EndRequest(r) \/ S!Goto(r, "gate")
    BY <1>4 DEF S!VerifyCheck
  <2>2. Only(r) /\ req'[r].pc \notin InGate
    BY <2>1, GotoOnly DEF InGate, Pcs
  <2> QED BY <1>4, <2>2, OutsideGate DEF S!VerifyCheck, InGate
<1>5. ASSUME NEW t \in Token, NEW kind \in Kind, NEW password \in Password,
             S!Authorize(r, t, kind, password)
      PROVE  Guarded'
  <2>1. CASE req' = req
    BY <1>5, <2>1, OutsideGate DEF S!Authorize, Requests, Only, InGate
  <2>2. CASE req' = [req EXCEPT ![r] = [pc |-> kind, token |-> {t}, password |-> {password}, at |-> 0]]
    <3>1. Only(r) /\ req'[r].pc = kind
      BY <2>2 DEF Requests, Only, Asking, Pcs
    <3> QED BY <1>5, <3>1, OutsideGate DEF S!Authorize, InGate, Kind
  <2> QED BY <1>5, <2>1, <2>2 DEF S!Authorize
<1> QED BY <1>1, <1>2, <1>3, <1>4, <1>5

LEMMA SetupWriteGuarded ==
    ASSUME Requests, Guarded, NEW r \in Request, S!SetupWrite(r)
    PROVE  Guarded'
<1>1. Only(r) /\ req'[r].pc = "authenticate" /\ req[r].pc \notin InGate
  BY GotoOnly DEF S!SetupWrite, InGate, Pcs
<1>2. Deriving' = Deriving
  BY <1>1 DEF Only, Deriving, InGate
<1>3. verifier' \subseteq Password /\ Single(verifier')
  BY DEF S!SetupWrite, Requests, Asking
<1> QED BY <1>2, <1>3 DEF Guarded, S!SetupWrite, Single

LEMMA VerifyGateGuarded ==
    ASSUME Requests, Guarded, NEW r \in Request, S!VerifyGate(r)
    PROVE  Guarded'
<1>1. CASE guard.gate
  <2>1. Only(r) /\ req'[r].pc = "idle"
    BY <1>1, GotoOnly DEF S!VerifyGate
  <2> QED BY <1>1, <2>1, OutsideGate DEF S!VerifyGate, InGate
<1>2. CASE ~guard.gate
  <2>1. Only(r) /\ req'[r].pc = "load" /\ guard' = [guard EXCEPT !.gate = TRUE]
    BY <1>2, GotoOnly DEF S!VerifyGate, Pcs
  <2>2. Deriving = {}
    BY <1>2 DEF Guarded
  <2>3. Deriving' = {r}
    BY <2>1, <2>2 DEF Only, Deriving
  <2>4. guard' \in [failures : 0..FailureLimit - 1, blockedUntil : Nat, gate : BOOLEAN]
        /\ guard'.gate = TRUE
    BY <2>1 DEF Guarded
  <2> QED BY <2>3, <2>4 DEF Guarded, Single, S!VerifyGate
<1> QED BY <1>1, <1>2

\* Leaving the gate empties it.
LEMMA LeavesGate ==
    ASSUME Requests, Guarded, NEW r \in Request, Only(r), req[r].pc \in InGate,
           req'[r].pc \notin InGate, guard' = [guard EXCEPT !.gate = FALSE], verifier' = verifier
    PROVE  Guarded'
<1>1. r \in Deriving /\ \A u \in Deriving : u = r
  BY DEF Deriving, InGate, Guarded, Single
<1>2. Deriving' = {}
  BY <1>1 DEF Only, Deriving, InGate
<1>3. guard' \in [failures : 0..FailureLimit - 1, blockedUntil : Nat, gate : BOOLEAN]
      /\ guard'.gate = FALSE
  BY DEF Guarded
<1> QED BY <1>2, <1>3 DEF Guarded, Single

LEMMA LoadGuarded ==
    ASSUME Requests, Guarded, NEW r \in Request, S!Load(r)
    PROVE  Guarded'
<1>1. req[r].pc = "load" /\ verifier' = verifier
  BY DEF S!Load
<1>2. CASE verifier = {}
  <2>1. S!EndRequest(r) /\ guard' = [guard EXCEPT !.gate = FALSE]
    BY <1>2 DEF S!Load
  <2> QED BY <1>1, <2>1, GotoOnly, LeavesGate DEF InGate
<1>3. CASE verifier # {}
  <2>1. (S!Goto(r, "deriveRight") \/ S!Goto(r, "deriveWrong")) /\ guard' = guard
    BY <1>3 DEF S!Load, S!Compared
  <2>2. Only(r) /\ req'[r].pc \in InGate
    BY <2>1, GotoOnly DEF InGate, Pcs
  <2>3. Deriving' = Deriving
    BY <1>1, <2>2 DEF Only, Deriving, InGate
  <2> QED BY <1>1, <2>1, <2>3 DEF Guarded, Single
<1> QED BY <1>2, <1>3

LEMMA DeriveGuarded ==
    ASSUME Requests, Guarded, NEW r \in Request, S!Derive(r)
    PROVE  Guarded'
<1>1. S!Goto(r, "right") \/ S!Goto(r, "wrong")
  BY DEF S!Derive
<1>2. Only(r) /\ req'[r].pc \notin InGate /\ req[r].pc \in InGate
  BY <1>1, GotoOnly DEF InGate, Pcs, S!Derive
<1> QED BY <1>2, LeavesGate DEF S!Derive

LEMMA VerifiedGuarded ==
    ASSUME S!SessionAssumption, Clocked, Requests, Guarded, NEW r \in Request,
           S!VerifyRight(r) \/ S!VerifyWrong(r)
    PROVE  Guarded'
<1>1. S!EndRequest(r) \/ S!Goto(r, "authenticate")
  BY DEF S!VerifyRight, S!VerifyWrong
<1>2. Only(r) /\ req'[r].pc \notin InGate /\ req[r].pc \notin InGate
  BY <1>1, GotoOnly DEF InGate, Pcs, S!VerifyRight, S!VerifyWrong
<1>3. Deriving' = Deriving
  BY <1>2 DEF Only, Deriving, InGate
<1>4. guard' \in [failures : 0..FailureLimit - 1, blockedUntil : Nat, gate : BOOLEAN]
      /\ guard'.gate = guard.gate
  <2>1. /\ guard \in [failures : 0..FailureLimit - 1, blockedUntil : Nat, gate : BOOLEAN]
        /\ now \in Nat /\ FailureCooldown \in Nat /\ FailureLimit \in Nat \ {0} /\ S!ZeroTime \in Nat
    BY DEF Guarded, Clocked, S!SessionAssumption, S!ZeroTime
  <2>2. CASE S!VerifyRight(r)
    <3>1. guard' = [failures |-> 0, blockedUntil |-> S!ZeroTime, gate |-> guard.gate]
      BY <2>1, <2>2 DEF S!VerifyRight
    <3>2. 0 \in 0..FailureLimit - 1
      BY <2>1
    <3> QED BY <2>1, <3>1, <3>2
  <2>3. CASE S!VerifyWrong(r) /\ guard.failures + 1 >= FailureLimit
    <3>1. guard' = [failures |-> 0, blockedUntil |-> now + FailureCooldown, gate |-> guard.gate]
      BY <2>1, <2>3 DEF S!VerifyWrong
    <3>2. 0 \in 0..FailureLimit - 1 /\ now + FailureCooldown \in Nat
      BY <2>1
    <3> QED BY <2>1, <3>1, <3>2
  <2>4. CASE S!VerifyWrong(r) /\ ~(guard.failures + 1 >= FailureLimit)
    <3>1. guard' = [guard EXCEPT !.failures = guard.failures + 1]
      BY <2>4 DEF S!VerifyWrong
    <3>2. guard.failures + 1 \in 0..FailureLimit - 1
      BY <2>1, <2>4
    <3> QED BY <2>1, <3>1, <3>2
  <2> QED BY <2>2, <2>3, <2>4
<1> QED BY <1>3, <1>4 DEF Guarded, Single, S!VerifyRight, S!VerifyWrong

-----------------------------------------------------------------------------
(* What the UI and the world around it do to the sessions. *)

RequestStep(r) ==
  \/ S!PairCheck(r) \/ S!SessionStep(r) \/ S!SetupFails(r)
  \/ \E t \in Token, kind \in Kind, password \in Password : S!Authorize(r, t, kind, password)
  \/ /\ req[r].pc = "vault" /\ S!EndRequest(r)
     /\ UNCHANGED <<pairing, sessions, guard, verifier, ended, issued>>

SessionOperation ==
  \/ \E r \in Request : RequestStep(r)
  \/ S!Reset
  \/ S!RestartUI /\ now' = now
  \/ UNCHANGED S!sessionVars

LEMMA SessionInitKeeps ==
    ASSUME S!SessionAssumption, S!SessionInit
    PROVE  SessionInv
<1>1. Clocked
  BY DEF S!SessionAssumption, S!SessionInit, Clocked, S!Begin
<1>2. Tokens /\ EndedAreZero
  BY DEF S!SessionInit, Tokens, EndedAreZero, Single
<1>3. Requests
  BY DEF S!SessionInit, Requests, S!Free, Asking, Pcs, Single
<1>4. Issuing = {} /\ Deriving = {}
  BY DEF S!SessionInit, Issuing, Deriving, S!Free
<1>5. Opening
  BY <1>4 DEF S!SessionInit, Opening, Single
<1>6. Guarded
  <2>1. S!Unguarded \in [failures : 0..FailureLimit - 1, blockedUntil : Nat, gate : BOOLEAN]
        /\ S!Unguarded.gate = FALSE
    BY DEF S!SessionAssumption, S!Unguarded
  <2> QED BY <1>4, <2>1 DEF S!SessionInit, Guarded, Single
<1> QED BY <1>1, <1>2, <1>3, <1>5, <1>6 DEF SessionInv

LEMMA RequestStepKeeps ==
    ASSUME S!SessionAssumption, SessionInv, NEW r \in Request, RequestStep(r)
    PROVE  Tokens' /\ Requests' /\ EndedAreZero' /\ Opening' /\ Guarded' /\ EndedStep
<1> USE DEF SessionInv
<1>1. CASE S!PairCheck(r)
  BY <1>1, PairCheckKeeps, PairingAndSessionsOutside
<1>2. CASE \E t \in Token, kind \in Kind, password \in Password : S!Authorize(r, t, kind, password)
  <2>1. PICK t \in Token, kind \in Kind, password \in Password : S!Authorize(r, t, kind, password)
    BY <1>2
  <2>2. t \in issued
    BY <2>1 DEF S!Authorize
  <2> QED BY <2>1, <2>2, AuthorizeKeeps, PairingAndSessionsOutside
<1>3. CASE S!PairIssue(r)
  BY <1>3, PairIssueKeeps, PairingAndSessionsOutside
<1>4. CASE S!Logout(r)
  BY <1>4, LogoutKeeps, PairingAndSessionsOutside
<1>5. CASE S!Authenticate(r)
  BY <1>5, AuthenticateKeeps, PairingAndSessionsOutside
<1>6. CASE \/ S!Status(r) \/ S!Setup(r) \/ S!SetupWrite(r) \/ S!SetupFails(r) \/ S!VerifyCheck(r)
           \/ S!VerifyGate(r) \/ S!Load(r) \/ S!Derive(r) \/ S!VerifyRight(r) \/ S!VerifyWrong(r)
  <2>1. Tokens' /\ Requests' /\ EndedAreZero' /\ Opening' /\ EndedStep
    BY <1>6, OthersMoveOn, MovesOnKeeps
  <2>2. Guarded'
    BY <1>6, PairingAndSessionsOutside, SetupWriteGuarded, VerifyGateGuarded, LoadGuarded,
       DeriveGuarded, VerifiedGuarded
  <2> QED BY <2>1, <2>2
<1>7. CASE /\ req[r].pc = "vault" /\ S!EndRequest(r)
           /\ UNCHANGED <<pairing, sessions, guard, verifier, ended, issued>>
  <2>1. Tokens' /\ Requests' /\ EndedAreZero' /\ Opening' /\ EndedStep
    BY <1>7, MovesOnKeeps DEF MovesOn
  <2>2. Guarded'
    BY <1>7, GotoOnly, OutsideGate DEF InGate
  <2> QED BY <2>1, <2>2
<1> QED BY <1>1, <1>2, <1>3, <1>4, <1>5, <1>6, <1>7 DEF RequestStep, S!SessionStep

\* Whatever happens keeps the invariant, and lets no ended session in.
LEMMA SessionOperationKeeps ==
    ASSUME S!SessionAssumption, SessionInv, SessionOperation, now' \in Nat, now <= now'
    PROVE  SessionInv' /\ EndedStep
<1>1. Clocked'
  <2>1. now \in Nat /\ S!Begin \in Nat /\ S!Begin <= now /\ S!Begin' = S!Begin
    BY DEF SessionInv, Clocked, S!Begin, S!SessionAssumption
  <2> QED BY <2>1 DEF Clocked
<1>2. CASE \E r \in Request : RequestStep(r)
  BY <1>1, <1>2, RequestStepKeeps DEF SessionInv
<1>3. CASE S!RestartUI /\ now' = now
  BY <1>3, RestartKeeps
<1>4. CASE S!Reset \/ UNCHANGED S!sessionVars
  <2>1. UNCHANGED <<pairing, sessions, guard, req, ended, issued>>
        /\ (verifier' = verifier \/ verifier' = {})
    BY <1>4 DEF S!Reset, S!sessionVars
  <2>2. Tokens' /\ Requests' /\ EndedAreZero' /\ Opening'
    BY <2>1 DEF SessionInv, Tokens, Requests, EndedAreZero, Opening, Issuing, Single
  <2>3. Guarded'
    BY <2>1 DEF SessionInv, Guarded, Deriving, Single
  <2>4. EndedStep
    BY <2>1 DEF EndedStep, SessionInv, Requests
  <2> QED BY <1>1, <2>2, <2>3, <2>4 DEF SessionInv
<1> QED BY <1>2, <1>3, <1>4 DEF SessionOperation

-----------------------------------------------------------------------------
(* What the invariant says of counts. *)

LEMMA SingleCardinality ==
    ASSUME NEW X, Single(X)
    PROVE  IsFiniteSet(X) /\ Cardinality(X) <= 1 /\ Cardinality(X) = IF X = {} THEN 0 ELSE 1
<1>1. CASE X = {}
  BY <1>1, FS_EmptySet
<1>2. CASE X # {}
  <2>1. PICK x : x \in X
    BY <1>2
  <2>2. X = {x}
    BY <2>1 DEF Single
  <2>3. IsFiniteSet({x}) /\ Cardinality({x}) = 1
    BY FS_Singleton
  <2> QED BY <1>2, <2>2, <2>3
<1> QED BY <1>1, <1>2

LEMMA InvOneSession == SessionInv => S!OneSessionPerCode
<1> SUFFICES ASSUME SessionInv PROVE S!OneSessionPerCode
  OBVIOUS
<1>1. Single(Issuing) /\ Single(issued \ ended) /\ (Issuing = {} \/ issued \ ended = {})
  BY DEF SessionInv, Opening
<1>2. Cardinality(issued \ ended) + Cardinality(Issuing) <= 1
  BY <1>1, SingleCardinality
<1> QED BY <1>2 DEF S!OneSessionPerCode, Issuing, S!Cardinality, Cardinality

LEMMA InvTypes == S!SessionAssumption /\ SessionInv => S!SessionTypeOK
<1> SUFFICES ASSUME S!SessionAssumption, SessionInv PROVE S!SessionTypeOK
  OBVIOUS
<1>1. \A t \in Token : Cardinality(sessions[t]) <= 1 /\ (sessions[t] # {} => t \in issued)
  BY SingleCardinality DEF SessionInv, Tokens
<1>2. verifier \subseteq Password /\ Cardinality(verifier) <= 1
  BY SingleCardinality DEF SessionInv, Guarded
<1>3. guard.failures \in 0..FailureLimit - 1 /\ guard.blockedUntil \in Nat
  BY DEF SessionInv, Guarded
<1>4. Cardinality(Deriving) = IF guard.gate THEN 1 ELSE 0
  BY SingleCardinality DEF SessionInv, Guarded
<1>5. ended \subseteq issued
  BY DEF SessionInv, Tokens
<1> QED BY <1>1, <1>2, <1>3, <1>4, <1>5 DEF S!SessionTypeOK, Deriving, S!Cardinality, Cardinality

-----------------------------------------------------------------------------
(* The invariant: the vault's, and that a request of the UI does one thing at a time. *)

OneThingAtATime ==
  /\ DOMAIN req = Request
  /\ \A r \in Request : req[r].pc = "idle" \/ act[r].pc = "idle"

UIInv == VaultInv /\ OneThingAtATime

LEMMA Assumptions ==
    /\ V!NoneAssumption /\ V!KeyAssumption
    /\ Request \intersect Line = {} /\ Ops \subseteq V!Op
  BY VaultAssumption DEF VaultAssumption

LEMMA InitInv == Init => UIInv
<1> SUFFICES ASSUME Init PROVE UIInv
  OBVIOUS
<1>1. VaultInv
  BY VaultInitKeeps DEF Init
<1>2. OneThingAtATime
  BY DEF Init, S!SessionInit, S!Free, OneThingAtATime
<1> QED BY <1>1, <1>2 DEF UIInv

\* The steps of a session are of a request that does nothing else, and keep its process's hands
\* off a lock that the vault holds.
LEMMA SessionsMindTheLock ==
    ASSUME UIInv, NEW r \in Request, S!SessionStep(r) \/ S!SetupFails(r)
    PROVE  /\ act[r].pc = "idle"
           /\ \A u \in Request \ {r} : req'[u] = req[u]
           /\ DOMAIN req' = Request
           /\ \A a \in Actor : act[a].pc \in Holding => lock' = lock
<1>1. req[r].pc # "idle"
  BY DEF S!SessionStep, S!SetupFails, S!PairIssue, S!Status, S!Logout, S!Setup, S!SetupWrite,
         S!VerifyCheck, S!VerifyGate, S!Load, S!Derive, S!VerifyRight, S!VerifyWrong,
         S!Authenticate
<1>2. act[r].pc = "idle"
  BY <1>1 DEF UIInv, OneThingAtATime
<1>3. \/ S!EndRequest(r)
      \/ \E pc : S!Goto(r, pc)
  BY DEF S!SessionStep, S!SetupFails, S!PairIssue, S!Status, S!Logout, S!Setup, S!SetupWrite,
         S!VerifyCheck, S!VerifyGate, S!Load, S!Derive, S!VerifyRight, S!VerifyWrong,
         S!Authenticate
<1>4. DOMAIN req' = Request /\ \A u \in Request \ {r} : req'[u] = req[u]
  BY <1>3 DEF S!EndRequest, S!Goto, UIInv, OneThingAtATime
<1>5. \/ lock' = lock
      \/ lock = {}
      \/ lock' = lock \ {r}
  BY DEF S!SessionStep, S!SetupFails, S!PairIssue, S!Status, S!Logout, S!Setup, S!SetupWrite,
         S!VerifyCheck, S!VerifyGate, S!Load, S!Derive, S!VerifyRight, S!VerifyWrong,
         S!Authenticate
<1>6. ASSUME NEW a \in Actor, act[a].pc \in Holding PROVE lock' = lock
  <2>1. lock = {a}
    BY <1>6 DEF UIInv, VaultInv, Exclusive
  <2>2. a # r
    BY <1>2, <1>6 DEF Holding
  <2> QED BY <1>5, <2>1, <2>2
<1> QED BY <1>2, <1>4, <1>6

\* Whatever happens is a step of the vault, or leaves it alone.
LEMMA VaultTakesPart ==
    ASSUME UIInv, [Next]_vars
    PROVE  Operation
<1>1. ASSUME UNCHANGED <<key, keySafe, enc, encSafe, act>>,
             \A a \in Actor : act[a].pc \in Holding => lock' = lock
      PROVE  Operation
  BY <1>1 DEF Operation, filesVars
<1>2. ASSUME NEW r \in Request, SessionStep(r) \/ SetupFails(r) PROVE Operation
  <2>1. UNCHANGED <<key, keySafe, enc, encSafe, act>> /\ (S!SessionStep(r) \/ S!SetupFails(r))
    BY <1>2 DEF SessionStep, SetupFails, vaultVars
  <2> QED BY <1>1, <2>1, SessionsMindTheLock
<1>3. ASSUME NEW r \in Request, Pair(r) \/ Ask(r) PROVE Operation
  <2>1. UNCHANGED <<key, keySafe, enc, encSafe, act>> /\ UNCHANGED lock
    BY <1>3 DEF Pair, Ask, vaultVars, S!PairCheck, S!Authorize
  <2> QED BY <1>1, <2>1
<1>4. ASSUME NEW r \in Request, Serve(r) PROVE Operation
  <2>1. r \in Actor
    BY DEF Actor
  <2>2. (\E op \in Ops : V!MutateBegin(r, op)) \/ V!ReadEnc(r)
    BY <1>4 DEF Serve
  <2> QED BY <2>1, <2>2, Assumptions DEF Operation
<1>5. ASSUME NEW a \in Line, CommandLine(a) PROVE Operation
  <2>1. a \in Actor
    BY DEF Actor
  <2>2. (\E op \in Ops : V!MutateBegin(a, op)) \/ V!ReadEnc(a)
    BY <1>5 DEF CommandLine
  <2> QED BY <2>1, <2>2, Assumptions DEF Operation
<1>6. ASSUME NEW a \in Line, Crash(a) PROVE Operation
  BY <1>6 DEF Crash, Operation
<1>7. ASSUME NEW a \in Actor, VaultStep(a) \/ VaultFails(a) PROVE Operation
  BY <1>7 DEF VaultStep, VaultFails, Operation
<1>8. CASE CrashUI \/ PowerLoss
  BY <1>8 DEF CrashUI, PowerLoss, Operation
<1>9. CASE Tick \/ ResetPassword \/ UNCHANGED vars
  <2>1. UNCHANGED <<key, keySafe, enc, encSafe, act>> /\ UNCHANGED lock
    BY <1>9 DEF Tick, ResetPassword, vars, vaultVars, S!Reset
  <2> QED BY <1>1, <2>1
<1> QED BY <1>2, <1>3, <1>4, <1>5, <1>6, <1>7, <1>8, <1>9 DEF Next

LEMMA StepOneThing ==
    ASSUME UIInv, [Next]_vars
    PROVE  OneThingAtATime'
<1> USE DEF UIInv, OneThingAtATime
<1>0. DOMAIN act = Actor /\ Request \subseteq Actor
  BY DEF VaultInv, Sorts, Actor
<1>1. ASSUME NEW r \in Request, SessionStep(r) \/ SetupFails(r) PROVE OneThingAtATime'
  BY <1>1, SessionsMindTheLock DEF SessionStep, SetupFails, vaultVars
<1>2. ASSUME NEW r \in Request, Pair(r) \/ Ask(r) PROVE OneThingAtATime'
  <2>1. act[r].pc = "idle" /\ act' = act
    BY <1>2, <1>0 DEF Pair, Ask, vaultVars, S!Authorize
  <2>2. DOMAIN req' = Request /\ \A u \in Request \ {r} : req'[u] = req[u]
    BY <1>2 DEF Pair, Ask, S!PairCheck, S!Authorize
  <2> QED BY <2>1, <2>2
<1>3. ASSUME NEW r \in Request, Serve(r) PROVE OneThingAtATime'
  <2>1. req' = [req EXCEPT ![r] = S!Free] /\ S!Free.pc = "idle"
    BY <1>3 DEF Serve, S!EndRequest, S!Free
  <2>2. \A a \in Actor \ {r} : act'[a] = act[a]
    BY <1>3, <1>0 DEF Serve, V!MutateBegin, V!ReadEnc
  <2> QED BY <1>0, <2>1, <2>2
<1>4. ASSUME NEW a \in Line, CommandLine(a) PROVE OneThingAtATime'
  <2>1. req' = req /\ \A b \in Actor \ {a} : act'[b] = act[b]
    BY <1>4, <1>0 DEF CommandLine, sessionVars, V!MutateBegin, V!ReadEnc
  <2> QED BY <1>0, <2>1, Assumptions
<1>5. ASSUME NEW a \in Actor, VaultStep(a) \/ VaultFails(a) PROVE OneThingAtATime'
  <2>1. req' = req /\ act[a].pc # "idle" /\ \A b \in Actor \ {a} : act'[b] = act[b]
    BY <1>5, <1>0
    DEF VaultStep, VaultFails, sessionVars, V!VaultStep, V!MutateFails, V!Release, V!MutateLock,
        V!MutateLoad, V!WriteKey, V!SyncKey, V!WriteEnc, V!SyncEnc, V!MutateEnd, V!ReadKey
  <2> QED BY <1>0, <2>1
<1>6. CASE CrashUI \/ PowerLoss
  BY <1>6 DEF CrashUI, PowerLoss, S!RestartUI, S!Free
<1>7. ASSUME NEW a \in Line, Crash(a) PROVE OneThingAtATime'
  <2>1. req' = req /\ \A b \in Actor : act'[b] = V!Resting \/ act'[b] = act[b]
    BY <1>7 DEF Crash, sessionVars, V!VaultCrash
  <2> QED BY <1>0, <2>1 DEF V!Resting
<1>8. CASE Tick \/ ResetPassword \/ UNCHANGED vars
  BY <1>8 DEF Tick, ResetPassword, vars, vaultVars, sessionVars, S!Reset
<1> QED BY <1>1, <1>2, <1>3, <1>4, <1>5, <1>6, <1>7, <1>8 DEF Next

LEMMA StepInv ==
    UIInv /\ [Next]_vars => UIInv' /\ PromiseStep
  BY Assumptions, VaultTakesPart, StepOneThing, OperationKeeps DEF UIInv

\* The inductive invariant: the two files agree as far as the locks and the step in progress let
\* them, and nobody does two things at once (vault.go:323).
THEOREM UIInvHolds == Spec => []UIInv
  BY InitInv, StepInv, PTL DEF Spec

-----------------------------------------------------------------------------

\* The vault opens with the key that is there, now and after any power loss; what a caller is
\* told lasts; every group exists (vault.go:407, :427).
THEOREM VaultAlwaysSurvives == Spec => []VaultSurvives
<1>1. UIInv => VaultSurvives
  BY InvSurvives DEF UIInv, VaultSurvives
<1> QED BY <1>1, UIInvHolds, PTL

\* Key and ciphertext, two files behind a file lock, implement a store that changes at once: no
\* process loses the update of another, and a power loss takes back at most what has not been
\* answered (vault.go:323).
THEOREM PromiseIsKept == Spec => VaultKeepsPromise
<1>1. Init => Promise!Init
  BY InitPromise DEF Init
<1>2. UIInv /\ [Next]_vars =>
        [Promise!Update \/ Promise!Settle \/ Promise!PowerLoss]_<<V!StoreOf(enc), V!StoreOf(encSafe)>>
  BY StepInv DEF PromiseStep
<1> QED BY <1>1, <1>2, UIInvHolds, PTL DEF Spec, VaultKeepsPromise, Promise!Spec
-----------------------------------------------------------------------------
(* The sessions take part in the same steps. *)

\* Whatever happens is a step of the sessions, or leaves them alone.
LEMMA SessionsTakePart ==
    ASSUME SessionInv, [Next]_vars
    PROVE  SessionOperation /\ now' \in Nat /\ now <= now'
<1>0. now \in Nat
  BY DEF SessionInv, Clocked
<1>1. ASSUME UNCHANGED sessionVars PROVE SessionOperation
  BY <1>1 DEF SessionOperation, S!sessionVars, sessionVars
<1>2. CASE Tick
  BY <1>0, <1>1, <1>2 DEF Tick
<1>3. ASSUME NEW r \in Request, Pair(r) \/ SessionStep(r) \/ SetupFails(r)
      PROVE  SessionOperation /\ now' = now
  <2>1. S!PairCheck(r) \/ S!SessionStep(r) \/ S!SetupFails(r)
    BY <1>3 DEF Pair, SessionStep, SetupFails
  <2> QED BY <1>3, <2>1 DEF SessionOperation, RequestStep, Pair, SessionStep, SetupFails
<1>4. ASSUME NEW r \in Request, Ask(r) PROVE SessionOperation /\ now' = now
  <2>1. PICK t \in Token, password \in Password :
          \/ \E kind \in {"login", "setup"} : S!Authorize(r, t, kind, password)
          \/ \E kind \in {"status", "logout"} : S!Authorize(r, t, kind, password)
          \/ S!Authorize(r, t, "vault", password)
    BY <1>4 DEF Ask
  <2>2. \E kind \in Kind : S!Authorize(r, t, kind, password)
    BY <2>1 DEF Kind
  <2>3. \E kind \in Kind : S!Authorize(r, t, kind, password)
    BY <2>2
  <2> QED BY <1>4, <2>3 DEF SessionOperation, RequestStep, Ask
<1>5. ASSUME NEW r \in Request, Serve(r) PROVE SessionOperation /\ now' = now
  <2>1. S!EndRequest(r)
    BY <1>5 DEF Serve
  <2> QED BY <1>5, <2>1 DEF SessionOperation, RequestStep, Serve
<1>6. CASE \/ \E a \in Line : CommandLine(a) \/ Crash(a)
           \/ \E a \in Actor : VaultStep(a) \/ VaultFails(a)
           \/ UNCHANGED vars
  <2>1. UNCHANGED sessionVars /\ now' = now
    BY <1>6 DEF CommandLine, Crash, VaultStep, VaultFails, vars, sessionVars
  <2> QED BY <1>0, <1>1, <2>1
<1>7. CASE ResetPassword
  <2>1. S!Reset /\ now' = now
    BY <1>7 DEF ResetPassword
  <2> QED BY <1>0, <2>1 DEF SessionOperation
<1>8. CASE CrashUI \/ PowerLoss
  <2>1. S!RestartUI /\ now' = now
    BY <1>8 DEF CrashUI, PowerLoss
  <2> QED BY <1>0, <2>1 DEF SessionOperation
<1> QED BY <1>0, <1>2, <1>3, <1>4, <1>5, <1>6, <1>7, <1>8 DEF Next

LEMMA SessionInvHolds == Spec => []SessionInv
<1>1. Init => SessionInv
  BY SessionInitKeeps, VaultAssumption DEF Init, VaultAssumption
<1>2. SessionInv /\ [Next]_vars => SessionInv'
  BY SessionsTakePart, SessionOperationKeeps, VaultAssumption
  DEF VaultAssumption
<1> QED BY <1>1, <1>2, PTL DEF Spec

\* A pairing code opens one session, whatever requests race for it (server.go:203).
THEOREM OneSessionEach == Spec => []OneSessionPerCode
<1>1. SessionInv => OneSessionPerCode
  BY InvOneSession DEF OneSessionPerCode
<1> QED BY <1>1, SessionInvHolds, PTL

\* What was logged out or has expired is not served again, although a login in flight writes the
\* session back (server.go:592, :565).
THEOREM EndedIsNotServed == Spec => EndedStaysEnded
<1>1. SessionInv /\ [Next]_vars =>
        [\A r \in Request : req[r].pc = "idle" => \A t \in req'[r].token : t \notin ended']_S!sessionVars
  BY SessionsTakePart, SessionOperationKeeps, VaultAssumption
  DEF VaultAssumption, EndedStep
<1> QED BY <1>1, SessionInvHolds, PTL DEF Spec, EndedStaysEnded, S!EndedStaysEnded

-----------------------------------------------------------------------------
(* The locks, and with them the types. *)

Held == {a \in Actor : act[a].pc \in Holding} \union {r \in Request : req[r].pc = "setupWrite"}

InTime == now <= MaxTime

Locks ==
  /\ DOMAIN mutex = V!Process
  /\ \A a \in Actor : act[a].pc = "idle" <=> mutex[Home[a]] # {a}
  /\ lock = Held

\* What a step of the vault does to its locks.
Grip(a) ==
  \/ /\ act'[a].pc = "idle" /\ lock' = lock \ {a}
     /\ mutex' = [mutex EXCEPT ![Home[a]] = {}]
  \/ /\ act[a].pc = "lock" /\ lock = {} /\ act'[a].pc = "load" /\ lock' = {a} /\ mutex' = mutex
  \/ /\ act[a].pc \in Holding /\ act'[a].pc \in Holding /\ lock' = lock /\ mutex' = mutex

LEMMA VaultGrips ==
    ASSUME UIInv, NEW a \in Actor, V!VaultStep(a) \/ V!MutateFails(a)
    PROVE  /\ Grip(a) /\ act[a].pc # "idle"
           /\ DOMAIN act' = Actor /\ \A b \in Actor \ {a} : act'[b] = act[b]
<1>0. DOMAIN act = Actor /\ act[a] \in Activity
  BY DEF UIInv, VaultInv, Sorts
<1>1. CASE V!Release(a) /\ act[a].pc # "idle"
  BY <1>0, <1>1 DEF V!Release, V!Resting, Grip
<1>2. CASE V!MutateLock(a)
  BY <1>0, <1>2 DEF V!MutateLock, Grip, Activity
<1>3. CASE V!MutateLoad(a) /\ ~V!Release(a)
  <2>1. /\ act' = [act EXCEPT ![a].pc = IF key = {} THEN "key" ELSE "seal",
                            ![a].key = key, ![a].store = act'[a].store]
        /\ UNCHANGED <<lock, mutex>> /\ act[a].pc = "load"
    <3>1. PICK op \in act[a].op :
            /\ act' = [act EXCEPT ![a].pc = IF key = {} THEN "key" ELSE "seal",
                                  ![a].key = key, ![a].store = V!Change(op, V!StoreOf(enc))]
            /\ UNCHANGED <<lock, mutex>>
      BY <1>3 DEF V!MutateLoad
    <3>2. act'[a].store = V!Change(op, V!StoreOf(enc))
      BY <1>0, <3>1 DEF Activity
    <3> QED BY <1>3, <3>1, <3>2 DEF V!MutateLoad
  <2>2. act'[a].pc \in {"key", "seal"}
    BY <1>0, <2>1 DEF Activity
  <2>3. DOMAIN act' = Actor /\ \A b \in Actor \ {a} : act'[b] = act[b]
    BY <1>0, <2>1
  <2> QED BY <2>1, <2>2, <2>3 DEF Grip, Holding
<1>4. CASE V!WriteKey(a) \/ V!SyncKey(a) \/ V!WriteEnc(a) \/ V!SyncEnc(a)
  BY <1>0, <1>4 DEF V!WriteKey, V!SyncKey, V!WriteEnc, V!SyncEnc, Grip, Activity, Holding
<1>5. CASE V!MutateEnd(a) \/ V!ReadKey(a) \/ V!MutateFails(a) \/ (V!MutateLoad(a) /\ V!Release(a))
  <2>1. V!Release(a) /\ act[a].pc # "idle"
    BY <1>5 DEF V!MutateEnd, V!ReadKey, V!MutateFails, V!MutateLoad
  <2> QED BY <1>1, <2>1
<1> QED BY <1>2, <1>3, <1>4, <1>5 DEF V!VaultStep

LEMMA VaultKeepsLocks ==
    ASSUME UIInv, Locks, NEW a \in Actor, V!VaultStep(a) \/ V!MutateFails(a), req' = req
    PROVE  Locks'
<1>0. /\ Grip(a) /\ act[a].pc # "idle"
      /\ DOMAIN act' = Actor /\ \A b \in Actor \ {a} : act'[b] = act[b]
  BY VaultGrips
<1>1. mutex[Home[a]] = {a} => \A b \in Actor \ {a} : mutex[Home[b]] = {b} => Home[b] # Home[a]
  OBVIOUS
<1>2. mutex[Home[a]] = {a} /\ \A b \in Actor : Home[b] \in V!Process
  BY <1>0 DEF Locks, V!Process
<1>3. DOMAIN mutex' = V!Process /\ \A b \in Actor : act'[b].pc = "idle" <=> mutex'[Home[b]] # {b}
  <2>1. CASE act'[a].pc = "idle" /\ mutex' = [mutex EXCEPT ![Home[a]] = {}]
    <3> SUFFICES ASSUME NEW b \in Actor PROVE act'[b].pc = "idle" <=> mutex'[Home[b]] # {b}
      BY <2>1 DEF Locks
    <3>1. CASE Home[b] = Home[a]
      <4>1. mutex'[Home[b]] = {}
        BY <1>2, <2>1, <3>1 DEF Locks
      <4>2. CASE b = a
        BY <2>1, <4>1, <4>2
      <4>3. CASE b # a
        <5>1. act[b].pc = "idle" /\ act'[b] = act[b]
          BY <1>0, <1>2, <3>1, <4>3 DEF Locks
        <5> QED BY <4>1, <5>1
      <4> QED BY <4>2, <4>3
    <3>2. CASE Home[b] # Home[a]
      <4>1. b # a /\ mutex'[Home[b]] = mutex[Home[b]] /\ act'[b] = act[b]
        BY <1>0, <1>2, <2>1, <3>2 DEF Locks
      <4> QED BY <4>1 DEF Locks
    <3> QED BY <3>1, <3>2
  <2>2. CASE act'[a].pc # "idle" /\ mutex' = mutex
    BY <1>0, <2>2 DEF Locks
  <2> QED BY <1>0, <2>1, <2>2 DEF Grip, Holding
<1>4. req[a].pc # "setupWrite" \/ a \notin Request
  BY <1>0 DEF UIInv, OneThingAtATime
<1>5. lock' = Held'
  BY <1>0, <1>4 DEF Grip, Locks, Held, Holding
<1> QED BY <1>3, <1>5 DEF Locks

\* Starting an operation takes the mutex of its process.
LEMMA BeginKeepsLocks ==
    ASSUME UIInv, Locks, NEW a \in Actor, (\E op \in Ops : V!MutateBegin(a, op)) \/ V!ReadEnc(a),
           \A r \in Request : req'[r].pc = "setupWrite" <=> req[r].pc = "setupWrite"
    PROVE  Locks'
<1>0. /\ act[a].pc = "idle" /\ mutex[Home[a]] = {}
      /\ mutex' = [mutex EXCEPT ![Home[a]] = {a}] /\ lock' = lock
  BY DEF V!MutateBegin, V!ReadEnc
<1>5. DOMAIN act = Actor
  BY DEF UIInv, VaultInv, Sorts
<1>1. act'[a].pc \in {"lock", "readKey"} /\ \A b \in Actor \ {a} : act'[b] = act[b]
  <2>1. CASE \E op \in Ops : V!MutateBegin(a, op)
    BY <1>5, <2>1 DEF V!MutateBegin, V!Resting
  <2>2. CASE V!ReadEnc(a)
    BY <1>5, <2>2 DEF V!ReadEnc, V!Resting
  <2> QED BY <2>1, <2>2
<1>2. \A b \in Actor : Home[b] \in V!Process
  BY DEF V!Process
<1>3. DOMAIN mutex' = V!Process /\ \A b \in Actor : act'[b].pc = "idle" <=> mutex'[Home[b]] # {b}
  <2> SUFFICES ASSUME NEW b \in Actor PROVE act'[b].pc = "idle" <=> mutex'[Home[b]] # {b}
    BY <1>0 DEF Locks
  <2>1. CASE b = a
    BY <1>0, <1>1, <1>2, <2>1 DEF Locks
  <2>2. CASE b # a /\ Home[b] = Home[a]
    <3>1. act[b].pc = "idle"
      BY <1>0, <2>2 DEF Locks
    <3>2. mutex'[Home[b]] = {a}
      BY <1>0, <1>2, <2>2 DEF Locks
    <3> QED BY <1>1, <2>2, <3>1, <3>2
  <2>3. CASE Home[b] # Home[a]
    BY <1>0, <1>1, <1>2, <2>3 DEF Locks
  <2> QED BY <2>1, <2>2, <2>3
<1>4. Held' = Held
  BY <1>0, <1>1 DEF Held, Holding
<1> QED BY <1>0, <1>3, <1>4 DEF Locks

\* A request that takes or gives back the file lock for the password, and any other.
LEMMA RequestsKeepLocks ==
    ASSUME UIInv, SessionInv, Locks, NEW r \in Request, UNCHANGED <<act, mutex>>,
           \/ S!PairCheck(r) \/ S!SessionStep(r) \/ S!SetupFails(r)
           \/ \E t \in Token, kind \in Kind, password \in Password :
                S!Authorize(r, t, kind, password)
    PROVE  Locks'
<1>0. /\ DOMAIN req = Request /\ req[r] \in Asking
  BY DEF SessionInv, Requests
<1>1. \A u \in Request \ {r} : req'[u] = req[u]
  BY <1>0 DEF S!PairCheck, S!Authorize, S!SessionStep, S!SetupFails, S!PairIssue, S!Status,
     S!Logout, S!Setup, S!SetupWrite, S!VerifyCheck, S!VerifyGate, S!Load, S!Derive,
     S!VerifyRight, S!VerifyWrong, S!Authenticate, S!EndRequest, S!Goto
<1>2. CASE \/ S!PairCheck(r)
           \/ \E t \in Token, kind \in Kind, password \in Password :
                S!Authorize(r, t, kind, password)
  <2>1. lock' = lock /\ req[r].pc # "setupWrite" /\ req'[r].pc # "setupWrite"
    <3>1. CASE S!PairCheck(r)
      BY <1>0, <3>1 DEF S!PairCheck, S!Free
    <3>2. ASSUME NEW t \in Token, NEW kind \in Kind, NEW password \in Password,
                 S!Authorize(r, t, kind, password)
          PROVE  lock' = lock /\ req[r].pc # "setupWrite" /\ req'[r].pc # "setupWrite"
      <4>1. lock' = lock /\ req[r].pc = "idle"
        BY <3>2 DEF S!Authorize
      <4>2. CASE req' = req
        BY <4>1, <4>2
      <4>3. CASE req' = [req EXCEPT ![r] = [pc |-> kind, token |-> {t}, password |-> {password}, at |-> 0]]
        BY <1>0, <4>1, <4>3 DEF Kind
      <4> QED BY <3>2, <4>2, <4>3 DEF S!Authorize
    <3> QED BY <1>2, <3>1, <3>2
  <2> QED BY <1>1, <2>1 DEF Locks, Held
<1>3. CASE S!Setup(r)
  <2>1. \/ lock' = lock /\ req[r].pc = "setup" /\ req'[r].pc = "idle"
        \/ lock = {} /\ lock' = {r} /\ req[r].pc = "setup" /\ req'[r].pc = "setupWrite"
    BY <1>0, <1>3 DEF S!Setup, S!EndRequest, S!Goto, S!Free, Asking
  <2> QED BY <1>1, <2>1 DEF Locks, Held
<1>4. CASE S!SetupWrite(r) \/ S!SetupFails(r)
  <2>1. /\ lock' = lock \ {r} /\ req[r].pc = "setupWrite"
        /\ req'[r].pc \in {"idle", "authenticate"}
    BY <1>0, <1>4 DEF S!SetupWrite, S!SetupFails, S!EndRequest, S!Goto, S!Free, Asking
  <2>2. act[r].pc \notin Holding
    BY <2>1 DEF UIInv, OneThingAtATime, Holding
  <2> QED BY <1>1, <2>1, <2>2 DEF Locks, Held
<1>5. CASE \/ S!PairIssue(r) \/ S!Status(r) \/ S!Logout(r) \/ S!VerifyCheck(r) \/ S!VerifyGate(r)
           \/ S!Load(r) \/ S!Derive(r) \/ S!VerifyRight(r) \/ S!VerifyWrong(r)
           \/ S!Authenticate(r)
  <2>1. /\ lock' = lock /\ req[r].pc # "setupWrite"
        /\ S!EndRequest(r) \/ \E pc : pc # "setupWrite" /\ S!Goto(r, pc)
    BY <1>5 DEF S!PairIssue, S!Status, S!Logout, S!VerifyCheck, S!VerifyGate, S!Load, S!Derive,
       S!VerifyRight, S!VerifyWrong, S!Authenticate, S!Compared
  <2>2. req'[r].pc # "setupWrite"
    BY <1>0, <2>1 DEF S!EndRequest, S!Goto, S!Free, Asking
  <2> QED BY <1>1, <2>1, <2>2 DEF Locks, Held
<1> QED BY <1>2, <1>3, <1>4, <1>5 DEF S!SessionStep

LEMMA CrashKeepsLocks ==
    ASSUME UIInv, Locks,
           \/ (\E a \in Line : V!VaultCrash(a)) /\ req' = req
           \/ (V!VaultCrash(UI) \/ V!VaultPowerLoss) /\ S!RestartUI
    PROVE  Locks'
<1>0. V!Resting.pc = "idle" /\ "idle" \notin Holding /\ S!Free.pc = "idle"
  BY DEF V!Resting, Holding, S!Free
<1>1. ASSUME NEW p, V!VaultCrash(p)
      PROVE  /\ DOMAIN mutex' = V!Process
             /\ \A b \in Actor : act'[b].pc = "idle" <=> mutex'[Home[b]] # {b}
  <2>1. /\ act' = [a \in Actor |-> IF Home[a] = p THEN V!Resting ELSE act[a]]
        /\ mutex' = [mutex EXCEPT ![p] = {}]
    BY <1>1 DEF V!VaultCrash
  <2>2. \A b \in Actor : Home[b] \in V!Process
    BY DEF V!Process
  <2> SUFFICES ASSUME NEW b \in Actor PROVE act'[b].pc = "idle" <=> mutex'[Home[b]] # {b}
    BY <2>1 DEF Locks
  <2>3. CASE Home[b] = p
    BY <1>0, <2>1, <2>2, <2>3 DEF Locks
  <2>4. CASE Home[b] # p
    BY <2>1, <2>2, <2>4 DEF Locks
  <2> QED BY <2>3, <2>4
<1>2. CASE \E a \in Line : V!VaultCrash(a) /\ req' = req
  <2>1. PICK p \in Line : V!VaultCrash(p) /\ req' = req
    BY <1>2
  <2>2. \A r \in Request : Home[r] # p
    BY VaultAssumption DEF VaultAssumption, Home, Actor
  <2>3. lock' = Held'
    <3>1. lock' = {a \in lock : Home[a] # p}
      BY <2>1 DEF V!VaultCrash
    <3>2. \A b \in Actor : act'[b] = IF Home[b] = p THEN V!Resting ELSE act[b]
      BY <2>1 DEF V!VaultCrash
    <3> QED BY <1>0, <2>1, <2>2, <3>1, <3>2 DEF Locks, Held
  <2> QED BY <1>1, <2>1, <2>3 DEF Locks
<1>3. CASE V!VaultCrash(UI) /\ S!RestartUI
  <2>1. \A r \in Request : Home[r] = UI /\ r \in Actor
    BY DEF Home, Actor
  <2>2. lock' = Held'
    <3>1. lock' = {a \in lock : Home[a] # UI}
      BY <1>3 DEF V!VaultCrash
    <3>2. \A b \in Actor : act'[b] = IF Home[b] = UI THEN V!Resting ELSE act[b]
      BY <1>3 DEF V!VaultCrash
    <3>3. \A r \in Request : req'[r].pc = "idle"
      BY <1>0, <1>3 DEF S!RestartUI
    <3> QED BY <1>0, <2>1, <3>1, <3>2, <3>3 DEF Locks, Held
  <2> QED BY <1>1, <1>3, <2>2 DEF Locks
<1>4. CASE V!VaultPowerLoss /\ S!RestartUI
  <2>1. /\ mutex' = [p \in V!Process |-> {}] /\ lock' = {}
        /\ \A b \in Actor : act'[b].pc = "idle" /\ Home[b] \in V!Process
    BY <1>0, <1>4 DEF V!VaultPowerLoss, V!Process
  <2>2. \A r \in Request : req'[r].pc = "idle"
    BY <1>0, <1>4 DEF S!RestartUI
  <2> QED BY <1>0, <2>1, <2>2 DEF Locks, Held
<1> QED BY <1>2, <1>3, <1>4

LEMMA StepLocks ==
    ASSUME UIInv, SessionInv, Locks, [Next]_vars
    PROVE  Locks'
<1>1. ASSUME NEW r \in Request, Pair(r) \/ Ask(r) \/ SessionStep(r) \/ SetupFails(r)
      PROVE  Locks'
  <2>1. /\ UNCHANGED <<act, mutex>>
        /\ \/ S!PairCheck(r) \/ S!SessionStep(r) \/ S!SetupFails(r)
           \/ \E t \in Token, kind \in Kind, password \in Password :
                S!Authorize(r, t, kind, password)
    BY <1>1 DEF Pair, Ask, SessionStep, SetupFails, vaultVars, Kind
  <2> QED BY <2>1, RequestsKeepLocks
<1>2. ASSUME NEW r \in Request, Serve(r) PROVE Locks'
  <2>1. r \in Actor /\ ((\E op \in Ops : V!MutateBegin(r, op)) \/ V!ReadEnc(r))
    BY <1>2 DEF Serve, Actor
  <2>2. \A u \in Request : req'[u].pc = "setupWrite" <=> req[u].pc = "setupWrite"
    BY <1>2 DEF Serve, S!EndRequest, S!Free, SessionInv, Requests
  <2> QED BY <2>1, <2>2, BeginKeepsLocks
<1>3. ASSUME NEW a \in Line, CommandLine(a) PROVE Locks'
  <2>1. a \in Actor /\ ((\E op \in Ops : V!MutateBegin(a, op)) \/ V!ReadEnc(a)) /\ req' = req
    BY <1>3 DEF CommandLine, Actor, sessionVars
  <2> QED BY <2>1, BeginKeepsLocks
<1>4. ASSUME NEW a \in Actor, VaultStep(a) \/ VaultFails(a) PROVE Locks'
  BY <1>4, VaultKeepsLocks DEF VaultStep, VaultFails, sessionVars
<1>5. CASE (\E a \in Line : Crash(a)) \/ CrashUI \/ PowerLoss
  BY <1>5, CrashKeepsLocks DEF Crash, CrashUI, PowerLoss, sessionVars
<1>6. CASE Tick \/ ResetPassword \/ UNCHANGED vars
  <2>1. UNCHANGED <<act, mutex, lock, req>>
    BY <1>6 DEF Tick, ResetPassword, S!Reset, vars, vaultVars, sessionVars
  <2> QED BY <2>1 DEF Locks, Held
<1> QED BY <1>1, <1>2, <1>3, <1>4, <1>5, <1>6 DEF Next

\* Types; every lock has the holder that thinks it has it (ui_auth.go:143, vault.go:323).
THEOREM TypeCorrect == Spec => []TypeOK
<1>1. Init => Locks /\ InTime
  <2> SUFFICES ASSUME Init PROVE Locks /\ InTime
    OBVIOUS
  <2>1. \A a \in Actor : act[a].pc = "idle" /\ mutex[Home[a]] = {}
    BY DEF Init, V!VaultInit, V!Resting, V!Process
  <2>2. \A r \in Request : req[r].pc = "idle"
    BY DEF Init, S!SessionInit, S!Free
  <2>3. Held = {}
    BY <2>1, <2>2 DEF Held, Holding
  <2> QED BY <2>1, <2>3, VaultAssumption DEF Init, V!VaultInit, S!SessionInit, Locks, InTime, VaultAssumption
<1>2. UIInv /\ SessionInv /\ Locks /\ InTime /\ [Next]_vars => Locks' /\ InTime'
  <2> SUFFICES ASSUME UIInv, SessionInv, Locks, InTime, [Next]_vars
               PROVE  InTime'
    BY StepLocks
  <2>1. now' = now \/ Tick
    BY DEF Next, Pair, Ask, Serve, SessionStep, SetupFails, CommandLine, Crash, VaultStep,
           VaultFails, ResetPassword, CrashUI, PowerLoss, vars
  <2> QED BY <2>1, VaultAssumption DEF InTime, Tick, SessionInv, Clocked, VaultAssumption
<1>3. UIInv /\ SessionInv /\ Locks /\ InTime => TypeOK
  <2> SUFFICES ASSUME UIInv, SessionInv, Locks, InTime PROVE TypeOK
    OBVIOUS
  <2>1. now \in S!Begin..MaxTime
    BY VaultAssumption
    DEF InTime, SessionInv, Clocked, VaultAssumption, S!SessionAssumption, S!Begin
  <2>2. S!SessionTypeOK
    BY InvTypes, VaultAssumption DEF VaultAssumption
  <2>3. V!VaultTypeOK
    <3>1. /\ key \in AtMostOne(Key) /\ keySafe \in AtMostOne(Key)
          /\ enc \in AtMostOne(File) /\ encSafe \in AtMostOne(File)
          /\ act \in [Actor -> Activity]
      BY DEF UIInv, VaultInv, Sorts
    <3>2. \A X, T : X \in AtMostOne(T) => X \subseteq T /\ Cardinality(X) <= 1
      <4> SUFFICES ASSUME NEW T, NEW X \in AtMostOne(T) PROVE X \subseteq T /\ Cardinality(X) <= 1
        OBVIOUS
      <4>1. CASE X = {}
        BY <4>1, FS_EmptySet
      <4>2. CASE \E x \in T : X = {x}
        <5>1. PICK x \in T : X = {x}
          BY <4>2
        <5>2. Cardinality({x}) = 1
          BY FS_Singleton
        <5> QED BY <5>1, <5>2
      <4> QED BY <4>1, <4>2 DEF AtMostOne
    <3>3. \A f \in enc \union encSafe : f.key \in Key /\ f.store \in V!Store
      <4>1. enc \subseteq File /\ encSafe \subseteq File
        BY <3>1, <3>2
      <4>2. V!Store = V!Store
        BY DEF V!Store, V!Store
      <4> QED BY <4>1, <4>2 DEF File
    <3>4. \A a \in Actor : act[a].pc \in Steps
      BY <3>1 DEF Activity
    <3>5. V!Cardinality(key) <= 1 /\ V!Cardinality(keySafe) <= 1 /\ key \subseteq Key /\ keySafe \subseteq Key
      BY <3>1, <3>2 DEF Cardinality, V!Cardinality
    <3> QED BY <3>3, <3>4, <3>5 DEF V!VaultTypeOK, Steps, Locks
  <2>4. lock = {a \in Actor : act[a].pc \in {"load", "key", "syncKey", "seal", "sync", "answer"}}
                 \union {r \in Request : req[r].pc = "setupWrite"}
    BY DEF Locks, Held, Holding
  <2> QED BY <2>1, <2>2, <2>3, <2>4 DEF TypeOK
<1> QED BY <1>1, <1>2, <1>3, UIInvHolds, SessionInvHolds, PTL DEF Spec

=============================================================================
