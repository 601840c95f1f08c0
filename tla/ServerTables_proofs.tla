------------------------ MODULE ServerTables_proofs ------------------------
(***************************************************************************)
(* What holds of the tables of one server for every number of tasks, of    *)
(* slots, of spills, of stages and of calls: the slots and the spills are  *)
(* accounted for, both task tables implement the promise of an             *)
(* asynchronous call, and a payload sent by whole lines is put together    *)
(* whole.  The lemmas about one table of tasks are those of                *)
(* TaskTable_proofs, cited through an instance per table; those about the  *)
(* spills and the stages are here.                                         *)
(***************************************************************************)
EXTENDS ServerTables, SequenceTheorems, FiniteSetTheorems, TLAPS

BashP == INSTANCE TaskTable_proofs WITH
  Task <- BashTask, Maximum <- BashSlots, Expiring <- TRUE, Lifetime <- TaskTTL,
  entry <- bashEntry, thread <- bashThread, asked <- bashAsked, used <- bashUsed

OpsP == INSTANCE TaskTable_proofs WITH
  Task <- OpsTask, Maximum <- OpsSlots, Expiring <- FALSE, Lifetime <- 0,
  entry <- opsEntry, thread <- opsThread, asked <- opsAsked, used <- opsUsed

(* The operations of an instance and those its lemmas speak of are the same. *)

LEMMA BashOperations ==
    /\ Bash!TableAssumption <=> BashP!TableAssumption
    /\ Bash!TableInit <=> BashP!TableInit
    /\ Bash!Refuse <=> BashP!Refuse
    /\ Bash!SlotsAccounted <=> BashP!SlotsAccounted
    /\ \A t \in BashTask :
         /\ Bash!Start(t) <=> BashP!Start(t)
         /\ Bash!Look(t) <=> BashP!Look(t)
         /\ Bash!Collect(t) <=> BashP!Collect(t)
         /\ Bash!Cancel(t) <=> BashP!Cancel(t)
         /\ Bash!Begin(t) <=> BashP!Begin(t)
         /\ \A outcome : Bash!Record(t, outcome) <=> BashP!Record(t, outcome)
         /\ Bash!Phase(t) = BashP!Phase(t)
<1>1. /\ Bash!NoEntry = BashP!NoEntry /\ Bash!Ended = BashP!Ended
      /\ \A e : Bash!Held(e) = BashP!Held(e)
  BY DEF Bash!NoEntry, BashP!NoEntry, Bash!Ended, BashP!Ended, Bash!Held, BashP!Held
<1>2. Bash!Reap = BashP!Reap
  BY <1>1 DEF Bash!Reap, BashP!Reap, Bash!Expired, BashP!Expired
<1>0. \A S : /\ Bash!Cardinality(S) = BashP!Cardinality(S)
             /\ Bash!IsFiniteSet(S) <=> BashP!IsFiniteSet(S)
  BY DEF Bash!Cardinality, BashP!Cardinality, Bash!IsFiniteSet, BashP!IsFiniteSet
<1>3. Bash!TableAssumption <=> BashP!TableAssumption
  BY <1>0 DEF Bash!TableAssumption, BashP!TableAssumption
<1>4. Bash!TableInit <=> BashP!TableInit
  BY <1>1 DEF Bash!TableInit, BashP!TableInit
<1>5. Bash!SlotsAccounted <=> BashP!SlotsAccounted
  BY <1>0, <1>1 DEF Bash!SlotsAccounted, BashP!SlotsAccounted
<1>6. Bash!Refuse <=> BashP!Refuse
  BY <1>0, <1>1, <1>2 DEF Bash!Refuse, BashP!Refuse
<1>7. ASSUME NEW t PROVE Bash!Start(t) <=> BashP!Start(t)
  BY <1>0, <1>1, <1>2 DEF Bash!Start, BashP!Start
<1>8. ASSUME NEW t PROVE Bash!Look(t) <=> BashP!Look(t)
  BY <1>2 DEF Bash!Look, BashP!Look
<1>9. ASSUME NEW t PROVE Bash!Collect(t) <=> BashP!Collect(t)
  BY <1>1, <1>2 DEF Bash!Collect, BashP!Collect
<1>10. ASSUME NEW t PROVE (Bash!Cancel(t) <=> BashP!Cancel(t)) /\ (Bash!Begin(t) <=> BashP!Begin(t))
  BY DEF Bash!Cancel, BashP!Cancel, Bash!Begin, BashP!Begin
<1>11. ASSUME NEW t, NEW outcome PROVE Bash!Record(t, outcome) <=> BashP!Record(t, outcome)
  BY DEF Bash!Record, BashP!Record
<1>12. ASSUME NEW t PROVE Bash!Phase(t) = BashP!Phase(t)
  BY <1>1 DEF Bash!Phase, BashP!Phase
<1> QED BY <1>3, <1>4, <1>5, <1>6, <1>7, <1>8, <1>9, <1>10, <1>11, <1>12

LEMMA OpsOperations ==
    /\ Ops!TableAssumption <=> OpsP!TableAssumption
    /\ Ops!TableInit <=> OpsP!TableInit
    /\ Ops!Refuse <=> OpsP!Refuse
    /\ Ops!SlotsAccounted <=> OpsP!SlotsAccounted
    /\ \A t \in OpsTask :
         /\ Ops!Start(t) <=> OpsP!Start(t)
         /\ Ops!Look(t) <=> OpsP!Look(t)
         /\ Ops!Collect(t) <=> OpsP!Collect(t)
         /\ Ops!Cancel(t) <=> OpsP!Cancel(t)
         /\ Ops!Begin(t) <=> OpsP!Begin(t)
         /\ \A outcome : Ops!Record(t, outcome) <=> OpsP!Record(t, outcome)
         /\ Ops!Phase(t) = OpsP!Phase(t)
<1>1. /\ Ops!NoEntry = OpsP!NoEntry /\ Ops!Ended = OpsP!Ended
      /\ \A e : Ops!Held(e) = OpsP!Held(e)
  BY DEF Ops!NoEntry, OpsP!NoEntry, Ops!Ended, OpsP!Ended, Ops!Held, OpsP!Held
<1>2. Ops!Reap = OpsP!Reap
  BY <1>1 DEF Ops!Reap, OpsP!Reap, Ops!Expired, OpsP!Expired
<1>0. \A S : /\ Ops!Cardinality(S) = OpsP!Cardinality(S)
             /\ Ops!IsFiniteSet(S) <=> OpsP!IsFiniteSet(S)
  BY DEF Ops!Cardinality, OpsP!Cardinality, Ops!IsFiniteSet, OpsP!IsFiniteSet
<1>3. Ops!TableAssumption <=> OpsP!TableAssumption
  BY <1>0 DEF Ops!TableAssumption, OpsP!TableAssumption
<1>4. Ops!TableInit <=> OpsP!TableInit
  BY <1>1 DEF Ops!TableInit, OpsP!TableInit
<1>5. Ops!SlotsAccounted <=> OpsP!SlotsAccounted
  BY <1>0, <1>1 DEF Ops!SlotsAccounted, OpsP!SlotsAccounted
<1>6. Ops!Refuse <=> OpsP!Refuse
  BY <1>0, <1>1, <1>2 DEF Ops!Refuse, OpsP!Refuse
<1>7. ASSUME NEW t PROVE Ops!Start(t) <=> OpsP!Start(t)
  BY <1>0, <1>1, <1>2 DEF Ops!Start, OpsP!Start
<1>8. ASSUME NEW t PROVE Ops!Look(t) <=> OpsP!Look(t)
  BY <1>2 DEF Ops!Look, OpsP!Look
<1>9. ASSUME NEW t PROVE Ops!Collect(t) <=> OpsP!Collect(t)
  BY <1>1, <1>2 DEF Ops!Collect, OpsP!Collect
<1>10. ASSUME NEW t PROVE (Ops!Cancel(t) <=> OpsP!Cancel(t)) /\ (Ops!Begin(t) <=> OpsP!Begin(t))
  BY DEF Ops!Cancel, OpsP!Cancel, Ops!Begin, OpsP!Begin
<1>11. ASSUME NEW t, NEW outcome PROVE Ops!Record(t, outcome) <=> OpsP!Record(t, outcome)
  BY DEF Ops!Record, OpsP!Record
<1>12. ASSUME NEW t PROVE Ops!Phase(t) = OpsP!Phase(t)
  BY <1>1 DEF Ops!Phase, OpsP!Phase
<1> QED BY <1>3, <1>4, <1>5, <1>6, <1>7, <1>8, <1>9, <1>10, <1>11, <1>12

-----------------------------------------------------------------------------
(* The spills: what a Store in progress owns between its two locked sections. *)

LEMMA SpillCardinality ==
    \A S : /\ Spills!Cardinality(S) = Cardinality(S)
           /\ Spills!IsFiniteSet(S) <=> IsFiniteSet(S)
  BY DEF Spills!Cardinality, Cardinality, Spills!IsFiniteSet, IsFiniteSet

Storing == [pc : {"idle", "create", "write", "insert"}, id : SUBSET Spill]

\* A Store in progress owns one id, without a record and without a reader, whose file is as far
\* as its own steps have brought it.
OwnsAt(w, table, disk, readers) ==
  IF store[w].pc = "idle" THEN store[w].id = {}
  ELSE \E s \in Spill :
         /\ store[w].id = {s}
         /\ table[s] = 0 /\ s \notin readers
         /\ store[w].pc = "create" => disk[s] = "none"
         /\ store[w].pc = "write" => disk[s] = "partial"
         /\ store[w].pc = "insert" => disk[s] = "whole"

Owns(w) == OwnsAt(w, spills, files, reader)

OwnedByOne == \A v, w \in Worker : v # w => store[v].id \intersect store[w].id = {}

SpillInv ==
  /\ Spills!SpillTypeOK /\ store \in [Worker -> Storing]
  /\ Spills!SpillsAgree /\ Spills!ReadsAreWhole
  /\ OwnedByOne /\ \A w \in Worker : Owns(w)

LEMMA RecordedFewer ==
    ASSUME Spills!SpillAssumption, NEW e, NEW f, \A s \in Spill : e[s] # 0 => f[s] # 0
    PROVE  /\ IsFiniteSet(Spills!Recorded(e)) /\ IsFiniteSet(Spills!Recorded(f))
           /\ Cardinality(Spills!Recorded(e)) \in Nat /\ Cardinality(Spills!Recorded(f)) \in Nat
           /\ Cardinality(Spills!Recorded(e)) <= Cardinality(Spills!Recorded(f))
<1>1. Spills!Recorded(e) \subseteq Spills!Recorded(f) /\ Spills!Recorded(f) \subseteq Spill
  BY DEF Spills!Recorded
<1>2. IsFiniteSet(Spills!Recorded(f))
  BY SpillCardinality, <1>1, FS_Subset DEF Spills!SpillAssumption
<1> QED BY <1>1, <1>2, FS_Subset, FS_CardinalityType

LEMMA OneMore ==
    ASSUME NEW S, IsFiniteSet(S), NEW x, NEW T, T \subseteq S \union {x}
    PROVE  Cardinality(T) \in Nat /\ Cardinality(T) <= Cardinality(S) + 1
<1>0. Cardinality(S) \in Nat
  BY FS_CardinalityType
<1>1. /\ IsFiniteSet(S \union {x}) /\ Cardinality(S) \in Nat
      /\ Cardinality(S \union {x}) <= Cardinality(S) + 1
  <2>1. IsFiniteSet(S \union {x})
    BY FS_AddElement
  <2>2. Cardinality(S \union {x}) = IF x \in S THEN Cardinality(S) ELSE Cardinality(S) + 1
    BY FS_AddElement
  <2> QED BY <1>0, <2>1, <2>2
<1>2. /\ IsFiniteSet(T) /\ Cardinality(T) <= Cardinality(S \union {x})
      /\ Cardinality(T) \in Nat /\ Cardinality(S \union {x}) \in Nat
  BY <1>1, FS_Subset, FS_CardinalityType
<1> QED BY <1>1, <1>2

\* Reaping drops a record with its file and leaves the rest as it is.
LEMMA ReapedKeeps ==
    ASSUME Spills!SpillTypeOK
    PROVE  /\ Spills!Reaped \in [Spill -> Nat]
           /\ Spills!Cleaned \in [Spill -> {"none", "partial", "whole"}]
           /\ \A s \in Spill : \/ Spills!Reaped[s] = spills[s] /\ Spills!Cleaned[s] = files[s]
                               \/ /\ spills[s] # 0
                                  /\ Spills!Reaped[s] = 0 /\ Spills!Cleaned[s] = "none"
  BY DEF Spills!SpillTypeOK, Spills!Reaped, Spills!Cleaned, Spills!Outlived, Spills!Recorded

LEMMA ReapedFits ==
    ASSUME Spills!SpillAssumption, SpillInv
    PROVE  /\ Cardinality(Spills!Recorded(Spills!Reaped)) \in Nat
           /\ Cardinality(Spills!Recorded(Spills!Reaped)) <= MaxSpills
<1>1. \A s \in Spill : Spills!Reaped[s] # 0 => spills[s] # 0
  BY ReapedKeeps DEF SpillInv
<1>2. /\ Cardinality(Spills!Recorded(Spills!Reaped)) \in Nat
      /\ Cardinality(Spills!Recorded(spills)) \in Nat
      /\ Cardinality(Spills!Recorded(Spills!Reaped)) <= Cardinality(Spills!Recorded(spills))
  BY <1>1, RecordedFewer
<1> QED BY SpillCardinality, <1>2 DEF SpillInv, Spills!SpillsAgree, Spills!SpillAssumption

LEMMA SpillInitKeeps ==
    ASSUME Spills!SpillAssumption, Spills!SpillInit
    PROVE  SpillInv
<1>1. Spills!SpillTypeOK /\ store \in [Worker -> Storing]
  BY DEF Spills!SpillInit, Spills!SpillTypeOK, Spills!NotStoring, Storing
<1>2. Spills!Recorded(spills) = {}
  BY DEF Spills!SpillInit, Spills!Recorded
<1>3. Cardinality(Spills!Recorded(spills)) <= MaxSpills
  BY <1>2, FS_EmptySet DEF Spills!SpillAssumption
<1>4. Spills!SpillsAgree /\ Spills!ReadsAreWhole
  BY SpillCardinality, <1>3 DEF Spills!SpillInit, Spills!SpillsAgree, Spills!ReadsAreWhole
<1>5. OwnedByOne /\ \A w \in Worker : Owns(w)
  BY DEF Spills!SpillInit, OwnedByOne, Owns, OwnsAt, Spills!NotStoring
<1> QED BY <1>1, <1>4, <1>5 DEF SpillInv

-----------------------------------------------------------------------------

LEMMA StoreCheckKeeps ==
    ASSUME Spills!SpillAssumption, SpillInv, NEW w \in Worker, Spills!StoreCheck(w)
    PROVE  SpillInv'
<1> USE DEF SpillInv
<1>1. spills' = Spills!Reaped /\ files' = Spills!Cleaned /\ reader' = reader
  BY DEF Spills!StoreCheck
<1>2. \/ store' = store
      \/ \E s \in Spills!Unused : store' = [store EXCEPT ![w] = [pc |-> "create", id |-> {s}]]
  <2>1. Spills!Unused # {} => (CHOOSE s \in Spills!Unused : TRUE) \in Spills!Unused
    OBVIOUS
  <2> QED BY <2>1 DEF Spills!StoreCheck
<1>3. store' \in [Worker -> Storing]
  BY <1>2 DEF Storing, Spills!Unused
<1>4. Spills!SpillTypeOK'
  BY <1>1, <1>3, ReapedKeeps DEF Spills!SpillTypeOK, Storing
<1>5. \A v \in Worker : store[v].id # {} => store'[v] = store[v]
  BY <1>2 DEF Owns, OwnsAt, Spills!StoreCheck
<1>6. Spills!SpillsAgree'
  <2>1. Cardinality(Spills!Recorded(spills')) <= MaxSpills
    BY <1>1, ReapedFits
  <2>2. ASSUME NEW s \in Spill
        PROVE  /\ spills'[s] # 0 => files'[s] = "whole"
               /\ files'[s] # "none" /\ spills'[s] = 0 => \E v \in Worker : store'[v].id = {s}
    BY <1>1, <1>5, ReapedKeeps DEF Spills!SpillsAgree
  <2> QED BY SpillCardinality, <2>1, <2>2 DEF Spills!SpillsAgree, Spills!Recorded
<1>7. Spills!ReadsAreWhole'
  BY <1>1, ReapedKeeps DEF Spills!ReadsAreWhole, Spills!SpillTypeOK
<1>8. ASSUME NEW v \in Worker PROVE Owns(v)'
  <2>1. CASE store'[v] = store[v]
    BY <1>1, <2>1, ReapedKeeps DEF Owns, OwnsAt
  <2>2. CASE store'[v] # store[v]
    <3>1. PICK s \in Spills!Unused : store'[v] = [pc |-> "create", id |-> {s}]
      BY <1>2, <2>2
    <3>2. s \in Spill /\ spills[s] = 0 /\ files[s] = "none" /\ s \notin reader
      BY DEF Spills!Unused
    <3> QED BY <1>1, <3>1, <3>2, ReapedKeeps DEF Owns, OwnsAt
  <2> QED BY <2>1, <2>2
<1>9. OwnedByOne'
  <2>1. CASE store' = store
    BY <2>1 DEF OwnedByOne
  <2>2. ASSUME NEW s \in Spills!Unused, store' = [store EXCEPT ![w] = [pc |-> "create", id |-> {s}]]
        PROVE  OwnedByOne'
    <3>1. \A v \in Worker : s \notin store[v].id
      BY DEF Spills!Unused, Owns, OwnsAt
    <3> QED BY <2>2, <3>1 DEF OwnedByOne
  <2> QED BY <1>2, <2>1, <2>2
<1> QED BY <1>3, <1>4, <1>6, <1>7, <1>8, <1>9

\* A step of a Store that touches no record and only the file of its own id.
LEMMA OwnFileKeeps ==
    ASSUME SpillInv, NEW w \in Worker, NEW s \in Spill, store[w].id = {s},
           NEW f \in {"none", "partial", "whole"}, NEW o \in Storing,
           files' = [files EXCEPT ![s] = f], store' = [store EXCEPT ![w] = o],
           UNCHANGED <<spills, reader>>,
           \/ o = Spills!NotStoring /\ f = "none"
           \/ o = [pc |-> "write", id |-> {s}] /\ f = "partial"
           \/ o = [pc |-> "insert", id |-> {s}] /\ f = "whole"
    PROVE  SpillInv'
<1> USE DEF SpillInv
<1>1. store' \in [Worker -> Storing] /\ Spills!SpillTypeOK'
  BY DEF Spills!SpillTypeOK, Storing
<1>2. spills[s] = 0 /\ s \notin reader
  BY DEF Owns, OwnsAt
<1>3. Spills!SpillsAgree'
  <2>1. ASSUME NEW u \in Spill
        PROVE  /\ spills'[u] # 0 => files'[u] = "whole"
               /\ files'[u] # "none" /\ spills'[u] = 0 => \E v \in Worker : store'[v].id = {u}
    <3>1. CASE u = s
      BY <3>1, <1>2 DEF Spills!SpillTypeOK, Spills!NotStoring
    <3>2. CASE u # s
      <4>1. files'[u] = files[u] /\ \A v \in Worker : store[v].id = {u} => store'[v] = store[v]
        BY <3>2 DEF Spills!SpillTypeOK
      <4> QED BY <4>1 DEF Spills!SpillsAgree
    <3> QED BY <3>1, <3>2
  <2> QED BY <2>1 DEF Spills!SpillsAgree, Spills!Recorded
<1>4. Spills!ReadsAreWhole'
  BY <1>2 DEF Spills!ReadsAreWhole, Spills!SpillTypeOK
<1>5. ASSUME NEW v \in Worker PROVE Owns(v)'
  <2>1. CASE v = w
    BY <2>1, <1>2 DEF Owns, OwnsAt, Spills!NotStoring, Spills!SpillTypeOK
  <2>2. CASE v # w
    <3>1. store'[v] = store[v] /\ s \notin store[v].id
      BY <2>2 DEF OwnedByOne
    <3> QED BY <3>1 DEF Owns, OwnsAt, Spills!SpillTypeOK
  <2> QED BY <2>1, <2>2
<1>6. OwnedByOne'
  <2>1. store'[w].id \subseteq store[w].id
    BY DEF Spills!NotStoring
  <2> QED BY <2>1 DEF OwnedByOne
<1> QED BY <1>1, <1>3, <1>4, <1>5, <1>6

LEMMA StoreCreateKeeps ==
    ASSUME SpillInv, NEW w \in Worker, Spills!StoreCreate(w)
    PROVE  SpillInv'
<1>1. PICK s \in store[w].id :
        /\ files' = [files EXCEPT ![s] = "partial"]
        /\ store' = [store EXCEPT ![w].pc = "write"]
        /\ UNCHANGED <<spills, reader>> /\ store[w].pc = "create"
  BY DEF Spills!StoreCreate
<1>2. s \in Spill /\ store[w].id = {s} /\ store[w] \in Storing
  BY <1>1 DEF SpillInv, Owns, OwnsAt, Storing
<1> DEFINE o == [pc |-> "write", id |-> {s}]
<1>3. o \in Storing /\ store' = [store EXCEPT ![w] = o]
  <2>1. [store[w] EXCEPT !.pc = "write"] = o
    BY <1>2 DEF Storing
  <2> HIDE DEF o
  <2>2. store' = [store EXCEPT ![w] = o]
    BY <1>1, <2>1
  <2> QED BY <1>2, <2>2 DEF Storing, o
<1> HIDE DEF o
<1>4. \/ o = Spills!NotStoring /\ "partial" = "none"
      \/ o = [pc |-> "write", id |-> {s}] /\ "partial" = "partial"
      \/ o = [pc |-> "insert", id |-> {s}] /\ "partial" = "whole"
  BY DEF o
<1> QED BY <1>1, <1>2, <1>3, <1>4, OwnFileKeeps

LEMMA StoreWriteKeeps ==
    ASSUME SpillInv, NEW w \in Worker, Spills!StoreWrite(w)
    PROVE  SpillInv'
<1>1. PICK s \in store[w].id :
        /\ store[w].pc = "write"
        /\ \/ files' = [files EXCEPT ![s] = "whole"] /\ store' = [store EXCEPT ![w].pc = "insert"]
           \/ /\ files' = [files EXCEPT ![s] = "none"]
              /\ store' = [store EXCEPT ![w] = Spills!NotStoring]
        /\ UNCHANGED <<spills, reader>>
  BY DEF Spills!StoreWrite
<1>2. s \in Spill /\ store[w].id = {s} /\ store[w] \in Storing
  BY <1>1 DEF SpillInv, Owns, OwnsAt, Storing
<1>3. CASE files' = [files EXCEPT ![s] = "whole"] /\ store' = [store EXCEPT ![w].pc = "insert"]
  <2> DEFINE o == [pc |-> "insert", id |-> {s}]
  <2>0. [store[w] EXCEPT !.pc = "insert"] = o
    BY <1>2 DEF Storing
  <2>1. o \in Storing /\ store' = [store EXCEPT ![w] = o]
    <3> HIDE DEF o
    <3>1. store' = [store EXCEPT ![w] = o]
      BY <1>3, <2>0
    <3> QED BY <1>2, <3>1 DEF Storing, o
  <2> QED BY <1>1, <1>2, <1>3, <2>1, OwnFileKeeps
<1>4. CASE files' = [files EXCEPT ![s] = "none"] /\ store' = [store EXCEPT ![w] = Spills!NotStoring]
  <2>1. Spills!NotStoring \in Storing
    BY DEF Spills!NotStoring, Storing
  <2> QED BY <1>1, <1>2, <1>4, <2>1, OwnFileKeeps
<1> QED BY <1>1, <1>3, <1>4

LEMMA StoreInsertKeeps ==
    ASSUME Spills!SpillAssumption, now \in Nat, SpillInv, NEW w \in Worker, Spills!StoreInsert(w)
    PROVE  SpillInv'
<1> USE DEF SpillInv
<1>1. PICK s \in store[w].id :
        /\ store[w].pc = "insert"
        /\ IF Spills!CanInsert
           THEN spills' = [Spills!Reaped EXCEPT ![s] = now + SpillTTL] /\ files' = Spills!Cleaned
           ELSE spills' = Spills!Reaped /\ files' = [Spills!Cleaned EXCEPT ![s] = "none"]
        /\ store' = [store EXCEPT ![w] = Spills!NotStoring]
        /\ UNCHANGED reader
  BY DEF Spills!StoreInsert
<1>2. s \in Spill /\ store[w].id = {s} /\ spills[s] = 0 /\ files[s] = "whole" /\ s \notin reader
  BY <1>1 DEF Owns, OwnsAt
<1>3. Spills!Reaped[s] = 0 /\ Spills!Cleaned[s] = "whole"
  BY <1>2, ReapedKeeps
<1>4. now + SpillTTL \in Nat \ {0}
  BY DEF Spills!SpillAssumption
<1>5. spills' \in [Spill -> Nat] /\ files' \in [Spill -> {"none", "partial", "whole"}]
  BY <1>1, <1>2, <1>4, ReapedKeeps
<1>6. store' \in [Worker -> Storing]
  BY <1>1 DEF Spills!NotStoring, Storing
<1>7. Spills!SpillTypeOK'
  BY <1>1, <1>5, <1>6 DEF Spills!SpillTypeOK, Storing
<1>8. \A u \in Spill \ {s} : spills'[u] = Spills!Reaped[u] /\ files'[u] = Spills!Cleaned[u]
  BY <1>1, ReapedKeeps
<1>9. \/ spills'[s] # 0 /\ files'[s] = "whole"
      \/ spills'[s] = 0 /\ files'[s] = "none"
  BY <1>1, <1>2, <1>3, <1>4, ReapedKeeps
<1>10. Cardinality(Spills!Recorded(spills')) <= MaxSpills
  <2>1. CASE Spills!CanInsert
    <3>1. spills' = [Spills!Reaped EXCEPT ![s] = now + SpillTTL]
      BY <1>1, <2>1
    <3>2. Spills!Recorded(spills') \subseteq Spills!Recorded(Spills!Reaped) \union {s}
      BY <3>1, ReapedKeeps DEF Spills!Recorded
    <3>3. /\ IsFiniteSet(Spills!Recorded(Spills!Reaped))
          /\ Cardinality(Spills!Recorded(Spills!Reaped)) \in Nat
      BY RecordedFewer
    <3>5. /\ Cardinality(Spills!Recorded(spills')) \in Nat
          /\ Cardinality(Spills!Recorded(spills'))
                <= Cardinality(Spills!Recorded(Spills!Reaped)) + 1
      BY <3>2, <3>3, OneMore
    <3>6. Cardinality(Spills!Recorded(Spills!Reaped)) < MaxSpills
      BY SpillCardinality, <2>1 DEF Spills!CanInsert, Spills!HasRoom
    <3> QED BY <3>3, <3>5, <3>6 DEF Spills!SpillAssumption
  <2>2. CASE ~Spills!CanInsert
    BY <1>1, <2>2, ReapedFits
  <2> QED BY <2>1, <2>2
<1>11. Spills!SpillsAgree'
  <2>1. ASSUME NEW u \in Spill
        PROVE  /\ spills'[u] # 0 => files'[u] = "whole"
               /\ files'[u] # "none" /\ spills'[u] = 0 => \E v \in Worker : store'[v].id = {u}
    <3>1. CASE u = s
      BY <3>1, <1>9
    <3>2. CASE u # s
      <4>1. \A v \in Worker : store[v].id = {u} => store'[v] = store[v]
        BY <1>1, <1>2, <3>2
      <4>2. spills'[u] = Spills!Reaped[u] /\ files'[u] = Spills!Cleaned[u]
        BY <1>8, <3>2
      <4> QED BY <4>1, <4>2, ReapedKeeps DEF Spills!SpillsAgree
    <3> QED BY <3>1, <3>2
  <2> QED BY SpillCardinality, <1>10, <2>1 DEF Spills!SpillsAgree, Spills!Recorded
<1>12. Spills!ReadsAreWhole'
  BY <1>1, <1>2, <1>8, ReapedKeeps DEF Spills!ReadsAreWhole, Spills!SpillTypeOK
<1>13. ASSUME NEW v \in Worker PROVE Owns(v)'
  <2>1. CASE v = w
    BY <2>1, <1>1 DEF Owns, OwnsAt, Spills!NotStoring
  <2>2. CASE v # w
    <3>1. store'[v] = store[v] /\ s \notin store[v].id
      BY <1>1, <1>2, <2>2 DEF OwnedByOne
    <3> QED BY <3>1, <1>1, <1>8, ReapedKeeps DEF Owns, OwnsAt
  <2> QED BY <2>1, <2>2
<1>14. OwnedByOne'
  BY <1>1 DEF OwnedByOne, Spills!NotStoring
<1> QED BY <1>6, <1>7, <1>11, <1>12, <1>13, <1>14

LEMMA ReadsKeep ==
    ASSUME SpillInv, Spills!ReadOpen \/ \E s \in Spill : Spills!ReadCheck(s)
    PROVE  SpillInv'
<1> USE DEF SpillInv
<1>1. CASE Spills!ReadOpen
  BY <1>1 DEF Spills!ReadOpen, Spills!SpillTypeOK, Spills!SpillsAgree, Spills!ReadsAreWhole,
              OwnedByOne, Owns, OwnsAt, Spills!Recorded
<1>2. ASSUME NEW s \in Spill, Spills!ReadCheck(s) PROVE SpillInv'
  <2>1. spills[s] # 0 /\ files[s] = "whole" /\ reader' = {s} /\ UNCHANGED <<spills, files, store>>
    BY <1>2 DEF Spills!ReadCheck, Spills!SpillsAgree
  <2>2. Spills!SpillTypeOK' /\ Spills!SpillsAgree' /\ Spills!ReadsAreWhole' /\ OwnedByOne'
    BY <2>1 DEF Spills!SpillTypeOK, Spills!SpillsAgree, Spills!ReadsAreWhole,
                OwnedByOne, Spills!Recorded
  <2>3. \A w \in Worker : Owns(w)'
    BY <2>1 DEF Owns, OwnsAt
  <2> QED BY <2>1, <2>2, <2>3
<1> QED BY <1>1, <1>2

(* Any step of the store, or none. *)

SpillStep ==
  \/ \E w \in Worker : \/ Spills!StoreCheck(w) \/ Spills!StoreCreate(w)
                       \/ Spills!StoreWrite(w) \/ Spills!StoreInsert(w)
  \/ Spills!ReadOpen \/ \E s \in Spill : Spills!ReadCheck(s)
  \/ UNCHANGED Spills!spillVars

LEMMA SpillStepKeeps ==
    ASSUME Spills!SpillAssumption, now \in Nat, SpillInv, SpillStep
    PROVE  SpillInv'
<1>1. ASSUME NEW w \in Worker, \/ Spills!StoreCheck(w) \/ Spills!StoreCreate(w)
                                \/ Spills!StoreWrite(w) \/ Spills!StoreInsert(w)
      PROVE  SpillInv'
  BY <1>1, StoreCheckKeeps, StoreCreateKeeps, StoreWriteKeeps, StoreInsertKeeps
<1>2. CASE Spills!ReadOpen \/ \E s \in Spill : Spills!ReadCheck(s)
  BY <1>2, ReadsKeep
<1>3. CASE UNCHANGED Spills!spillVars
  BY <1>3 DEF Spills!spillVars, SpillInv, Spills!SpillTypeOK, Spills!SpillsAgree, Spills!ReadsAreWhole,
              Spills!Recorded,
              OwnedByOne, Owns, OwnsAt
<1> QED BY <1>1, <1>2, <1>3 DEF SpillStep

-----------------------------------------------------------------------------
(* The invariant: that of each table, and what a goroutine does follows from its task. *)

Jobs == {"idle", "run", "store", "done", "failed"}

\* Only a goroutine that is at work has a job, and only one whose job is to store has a Store.
JobsAgree ==
  /\ job \in [Worker -> Jobs]
  /\ \A w \in Worker : job[w] = "store" \/ store[w].pc = "idle"
  /\ \A t \in BashTask : bashThread[t] = "working" \/ job[t] = "idle"
  /\ \A t \in OpsTask : opsThread[t] = "working" \/ job[t] = "idle"

ServerInv ==
  /\ now \in Nat
  /\ BashP!TableInv /\ OpsP!TableInv /\ SpillInv
  /\ JobsAgree

LEMMA Assumptions ==
    /\ BashP!TableAssumption /\ OpsP!TableAssumption /\ Spills!SpillAssumption
    /\ BashTask \intersect OpsTask = {}
  BY ServerAssumption, BashOperations, OpsOperations DEF ServerAssumption

LEMMA InitInv == Init => ServerInv
<1> SUFFICES ASSUME Init PROVE ServerInv
  OBVIOUS
<1>1. BashP!TableInv /\ OpsP!TableInv /\ SpillInv
  BY Assumptions, BashOperations, OpsOperations,
     BashP!InitKeeps, OpsP!InitKeeps, SpillInitKeeps
  DEF Init
<1>2. now \in Nat /\ JobsAgree
  BY DEF Init, JobsAgree, Jobs, Worker, Spills!SpillInit, Spills!NotStoring
<1> QED BY <1>1, <1>2 DEF ServerInv

\* What a step of the server does to each of its tables.
LEMMA StepsOfTables ==
    ASSUME ServerInv, [Next]_vars
    PROVE  BashP!Operation /\ OpsP!Operation /\ SpillStep
<1> USE DEF bashVars, opsVars, spillVars, stageVars, taskVars,
            BashP!tableVars, OpsP!tableVars, Spills!spillVars
<1>1. BashP!Operation
  <2>1. CASE BashCall
    BY <2>1, BashOperations DEF BashCall, BashP!Operation
  <2>2. ASSUME NEW t \in BashTask, BashBegin(t) PROVE BashP!Operation
    BY <2>2, BashOperations DEF BashBegin, BashP!Operation
  <2>3. ASSUME NEW t \in BashTask, BashAnswer(t) PROVE BashP!Operation
    <3>1. BashP!Record(t, job[t]) /\ job[t] \in {"done", "failed"}
      BY <2>3, BashOperations DEF BashAnswer
    <3> QED BY <3>1 DEF BashP!Operation
  <2>4. CASE UNCHANGED bashVars
    BY <2>4 DEF BashP!Operation
  <2>5. \/ BashCall \/ (\E t \in BashTask : BashBegin(t) \/ BashAnswer(t))
        \/ UNCHANGED bashVars
    BY DEF Next, vars, Tick, OpsCall, ReadSpill, OpenSpill, FileCall, Parse, ParseTimesOut,
           ParseEnds, Goroutine, OpsBegin, OpsAnswer, RunEnds, StoreOutput
  <2> QED BY <2>1, <2>2, <2>3, <2>4, <2>5
<1>2. OpsP!Operation
  <2>1. CASE OpsCall
    BY <2>1, OpsOperations DEF OpsCall, OpsP!Operation
  <2>2. ASSUME NEW t \in OpsTask, OpsBegin(t) PROVE OpsP!Operation
    BY <2>2, OpsOperations DEF OpsBegin, OpsP!Operation
  <2>3. ASSUME NEW t \in OpsTask, OpsAnswer(t) PROVE OpsP!Operation
    <3>1. OpsP!Record(t, job[t]) /\ job[t] \in {"done", "failed"}
      BY <2>3, OpsOperations DEF OpsAnswer
    <3> QED BY <3>1 DEF OpsP!Operation
  <2>4. CASE UNCHANGED opsVars
    BY <2>4 DEF OpsP!Operation
  <2>5. \/ OpsCall \/ (\E t \in OpsTask : OpsBegin(t) \/ OpsAnswer(t))
        \/ UNCHANGED opsVars
    BY DEF Next, vars, Tick, BashCall, ReadSpill, OpenSpill, FileCall, Parse, ParseTimesOut,
           ParseEnds, Goroutine, BashBegin, BashAnswer, RunEnds, StoreOutput
  <2> QED BY <2>1, <2>2, <2>3, <2>4, <2>5
<1>3. SpillStep
  <2>1. CASE ReadSpill \/ OpenSpill
    BY <2>1 DEF ReadSpill, OpenSpill, SpillStep
  <2>2. ASSUME NEW w \in Worker, StoreOutput(w) PROVE SpillStep
    BY <2>2 DEF StoreOutput, SpillStep
  <2>3. CASE UNCHANGED spillVars
    BY <2>3 DEF SpillStep
  <2>4. \/ ReadSpill \/ OpenSpill \/ (\E w \in Worker : StoreOutput(w))
        \/ UNCHANGED spillVars
    BY DEF Next, vars, Tick, BashCall, OpsCall, FileCall, Parse, ParseTimesOut,
           ParseEnds, Goroutine, BashBegin, BashAnswer, OpsBegin, OpsAnswer, RunEnds
  <2> QED BY <2>1, <2>2, <2>3, <2>4
<1> QED BY <1>1, <1>2, <1>3

\* A call of the client leaves jobs and Stores alone; a start gives a task a goroutine that has
\* not begun.
LEMMA CallsKeepJobs ==
    ASSUME ServerInv, BashCall \/ OpsCall
    PROVE  JobsAgree'
<1>1. /\ \A t \in BashTask : bashThread'[t] = bashThread[t] \/ bashThread[t] = "none"
      /\ \A t \in OpsTask : opsThread'[t] = opsThread[t] \/ opsThread[t] = "none"
      /\ UNCHANGED <<job, store>>
  <2>1. CASE BashCall
    <3>1. /\ UNCHANGED <<opsThread, job, store>>
          /\ \/ UNCHANGED bashThread
             \/ \E t \in BashTask : BashP!Start(t)
      BY <2>1, BashOperations
      DEF BashCall, opsVars, spillVars, Bash!Refuse, Bash!Look, Bash!Collect, Bash!Cancel
    <3>2. ASSUME NEW t \in BashTask, BashP!Start(t)
          PROVE  \A u \in BashTask : bashThread'[u] = bashThread[u] \/ bashThread[u] = "none"
      <4>1. bashThread[t] = "none"
        BY <3>2 DEF BashP!Start, ServerInv, BashP!TableInv, BashP!HandedOut, BashP!SlotsAccounted
      <4> QED BY <3>2, <4>1 DEF BashP!Start, ServerInv, BashP!TableInv, BashP!TableTypeOK
    <3> QED BY <3>1, <3>2
  <2>2. CASE OpsCall
    <3>1. /\ UNCHANGED <<bashThread, job, store>>
          /\ \/ UNCHANGED opsThread
             \/ \E t \in OpsTask : OpsP!Start(t)
      BY <2>2, OpsOperations
      DEF OpsCall, bashVars, spillVars, Ops!Refuse, Ops!Look, Ops!Collect, Ops!Cancel
    <3>2. ASSUME NEW t \in OpsTask, OpsP!Start(t)
          PROVE  \A u \in OpsTask : opsThread'[u] = opsThread[u] \/ opsThread[u] = "none"
      <4>1. opsThread[t] = "none"
        BY <3>2 DEF OpsP!Start, ServerInv, OpsP!TableInv, OpsP!HandedOut, OpsP!SlotsAccounted
      <4> QED BY <3>2, <4>1 DEF OpsP!Start, ServerInv, OpsP!TableInv, OpsP!TableTypeOK
    <3> QED BY <3>1, <3>2
  <2> QED BY <2>1, <2>2
<1> QED BY <1>1 DEF ServerInv, JobsAgree

\* The steps of a goroutine take its job along; the other goroutines keep theirs.
LEMMA GoroutinesKeepJobs ==
    ASSUME ServerInv, NEW w \in Worker, Goroutine(w)
    PROVE  JobsAgree'
<1> USE DEF ServerInv, JobsAgree
<1>1. ASSUME w \in BashTask, BashBegin(w) PROVE JobsAgree'
  <2>1. /\ job' = [job EXCEPT ![w] = "run"] /\ UNCHANGED <<opsThread, store>>
        /\ bashThread[w] = "spawned" /\ bashThread' = [bashThread EXCEPT ![w] = "working"]
    BY <1>1 DEF BashBegin, Bash!Begin, opsVars, spillVars
  <2>2. w \notin OpsTask /\ job[w] = "idle" /\ store[w].pc = "idle"
    BY <1>1, <2>1, Assumptions
  <2> QED BY <1>1, <2>1, <2>2 DEF BashP!TableInv, BashP!TableTypeOK, Jobs
<1>2. ASSUME w \in OpsTask, OpsBegin(w) PROVE JobsAgree'
  <2>1. /\ job' = [job EXCEPT ![w] = "run"] /\ UNCHANGED <<bashThread, store>>
        /\ opsThread[w] = "spawned" /\ opsThread' = [opsThread EXCEPT ![w] = "working"]
    BY <1>2 DEF OpsBegin, Ops!Begin, bashVars, spillVars
  <2>2. w \notin BashTask /\ job[w] = "idle" /\ store[w].pc = "idle"
    BY <1>2, <2>1, Assumptions
  <2> QED BY <1>2, <2>1, <2>2 DEF OpsP!TableInv, OpsP!TableTypeOK, Jobs
<1>3. ASSUME w \in BashTask, BashAnswer(w) PROVE JobsAgree'
  <2>1. /\ job' = [job EXCEPT ![w] = "idle"] /\ UNCHANGED <<opsThread, store>>
        /\ job[w] \in {"done", "failed"} /\ bashThread' = [bashThread EXCEPT ![w] = "none"]
    BY <1>3 DEF BashAnswer, Bash!Record, opsVars, spillVars
  <2> QED BY <1>3, <2>1 DEF BashP!TableInv, BashP!TableTypeOK, Jobs
<1>4. ASSUME w \in OpsTask, OpsAnswer(w) PROVE JobsAgree'
  <2>1. /\ job' = [job EXCEPT ![w] = "idle"] /\ UNCHANGED <<bashThread, store>>
        /\ job[w] \in {"done", "failed"} /\ opsThread' = [opsThread EXCEPT ![w] = "none"]
    BY <1>4 DEF OpsAnswer, Ops!Record, bashVars, spillVars
  <2> QED BY <1>4, <2>1 DEF OpsP!TableInv, OpsP!TableTypeOK, Jobs
<1>5. ASSUME RunEnds(w) PROVE JobsAgree'
  <2>1. /\ job[w] = "run" /\ \E next \in {"failed", "done", "store"} : job' = [job EXCEPT ![w] = next]
        /\ UNCHANGED <<bashThread, opsThread, store>>
    BY <1>5 DEF RunEnds, bashVars, opsVars, spillVars
  <2> QED BY <2>1 DEF Jobs
<1>6. ASSUME StoreOutput(w) PROVE JobsAgree'
  <2>1. /\ job[w] = "store" /\ UNCHANGED <<bashThread, opsThread>>
        /\ job' = IF store'[w].pc = "idle" THEN [job EXCEPT ![w] = "done"] ELSE job
    BY <1>6 DEF StoreOutput, bashVars, opsVars
  <2>2. \A v \in Worker \ {w} : store'[v] = store[v]
    <3>1. store \in [Worker -> Storing]
      BY DEF SpillInv
    <3> QED BY <1>6, <3>1 DEF StoreOutput, Spills!StoreCheck, Spills!StoreCreate,
                              Spills!StoreWrite, Spills!StoreInsert
  <2> QED BY <2>1, <2>2 DEF Jobs
<1> QED BY <1>1, <1>2, <1>3, <1>4, <1>5, <1>6 DEF Goroutine

LEMMA StepInv == ServerInv /\ [Next]_vars => ServerInv'
<1> SUFFICES ASSUME ServerInv, [Next]_vars PROVE ServerInv'
  OBVIOUS
<1>1. BashP!TableInv' /\ OpsP!TableInv' /\ SpillInv'
  BY Assumptions, StepsOfTables, BashP!OperationKeeps, OpsP!OperationKeeps,
     SpillStepKeeps
  DEF ServerInv
<1>2. now' \in Nat
  BY DEF ServerInv, Next, vars, Tick, Call, BashCall, OpsCall, ReadSpill, OpenSpill, FileCall,
         Parse, ParseTimesOut, ParseEnds, Goroutine, BashBegin, BashAnswer, OpsBegin, OpsAnswer,
         RunEnds, StoreOutput
<1>3. JobsAgree'
  <2>1. CASE BashCall \/ OpsCall
    BY <2>1, CallsKeepJobs
  <2>2. CASE \E w \in Worker : Goroutine(w)
    BY <2>2, GoroutinesKeepJobs
  <2>3. CASE UNCHANGED <<bashThread, opsThread, job, store>>
    BY <2>3 DEF ServerInv, JobsAgree
  <2>4. CASE ReadSpill \/ OpenSpill
    BY <2>3, <2>4 DEF ReadSpill, OpenSpill, Spills!ReadCheck, Spills!ReadOpen,
                      taskVars, bashVars, opsVars
  <2>5. CASE \/ Tick \/ FileCall \/ Parse \/ ParseTimesOut \/ ParseEnds \/ UNCHANGED vars
    BY <2>3, <2>5 DEF Tick, FileCall, Parse, ParseTimesOut, ParseEnds, vars,
                      taskVars, bashVars, opsVars, spillVars
  <2> QED BY <2>1, <2>2, <2>4, <2>5 DEF Next
<1> QED BY <1>1, <1>2, <1>3 DEF ServerInv

\* The inductive invariant: every table accounts for its slots and its spills, and only a task
\* whose goroutine is at work, and a call, is inside a Store (bash/task.go:45, bash/spill.go:51).
THEOREM ServerInvHolds == Spec => []ServerInv
  BY InitInv, StepInv, PTL DEF Spec

-----------------------------------------------------------------------------

\* Every slot of both task tables is accounted for, however many goroutines and calls overlap
\* (bash/task.go:45, ops/task.go:34).
THEOREM SlotsAreAccountedFor == Spec => []SlotsAccounted
<1>1. ServerInv => SlotsAccounted
  BY BashOperations, OpsOperations
  DEF ServerInv, JobsAgree, SlotsAccounted, BashP!TableInv, OpsP!TableInv
<1> QED BY <1>1, ServerInvHolds, PTL

\* Spill table and directory agree, and no reader finds half a file, however many runs store at
\* once (bash/spill.go:51).
THEOREM SpillsAlwaysAgree == Spec => []SpillsAgree
<1>1. ServerInv => SpillsAgree
  BY DEF ServerInv, SpillsAgree, SpillInv
<1> QED BY <1>1, ServerInvHolds, PTL

\* The lifecycle of the lemmas is that of the property.
LEMMA BashLifeSame ==
    /\ BashLife!Init <=> BashP!Life!Init
    /\ BashP!LifeStep <=> [BashLife!Next]_<<[t \in BashTask |-> Bash!Phase(t)], bashAsked>>
<1>1. ASSUME NEW t PROVE Bash!Phase(t) = BashP!Phase(t) /\ Bash!Phase(t)' = BashP!Phase(t)'
  BY DEF Bash!Phase, BashP!Phase, Bash!Ended, BashP!Ended
<1>2. /\ [t \in BashTask |-> Bash!Phase(t)] = [t \in BashTask |-> BashP!Phase(t)]
      /\ [t \in BashTask |-> Bash!Phase(t)]' = [t \in BashTask |-> BashP!Phase(t)]'
  BY <1>1
<1>3. BashLife!Outcome = BashP!Life!Outcome
  BY DEF BashLife!Outcome, BashP!Life!Outcome
<1>4. BashLife!Init <=> BashP!Life!Init
  BY <1>2 DEF BashLife!Init, BashP!Life!Init
<1>5. ASSUME NEW t
      PROVE  /\ BashLife!Cancel(t) <=> BashP!Life!Cancel(t)
             /\ BashLife!End(t) <=> BashP!Life!End(t)
  BY <1>2, <1>3 DEF BashLife!Cancel, BashP!Life!Cancel, BashLife!End, BashP!Life!End
<1>6. ASSUME NEW tasks
      PROVE  /\ BashLife!Forget(tasks) <=> BashP!Life!Forget(tasks)
             /\ \A t : BashLife!ForgetAndStart(tasks, t) <=> BashP!Life!ForgetAndStart(tasks, t)
  BY <1>2, <1>3 DEF BashLife!Forget, BashP!Life!Forget,
                    BashLife!ForgetAndStart, BashP!Life!ForgetAndStart
<1>7. BashLife!Next <=> BashP!Life!Next
  BY <1>5, <1>6 DEF BashLife!Next, BashP!Life!Next
<1> QED BY <1>2, <1>4, <1>7 DEF BashP!LifeStep

LEMMA OpsLifeSame ==
    /\ OpsLife!Init <=> OpsP!Life!Init
    /\ OpsP!LifeStep <=> [OpsLife!Next]_<<[t \in OpsTask |-> Ops!Phase(t)], opsAsked>>
<1>1. ASSUME NEW t PROVE Ops!Phase(t) = OpsP!Phase(t) /\ Ops!Phase(t)' = OpsP!Phase(t)'
  BY DEF Ops!Phase, OpsP!Phase, Ops!Ended, OpsP!Ended
<1>2. /\ [t \in OpsTask |-> Ops!Phase(t)] = [t \in OpsTask |-> OpsP!Phase(t)]
      /\ [t \in OpsTask |-> Ops!Phase(t)]' = [t \in OpsTask |-> OpsP!Phase(t)]'
  BY <1>1
<1>3. OpsLife!Outcome = OpsP!Life!Outcome
  BY DEF OpsLife!Outcome, OpsP!Life!Outcome
<1>4. OpsLife!Init <=> OpsP!Life!Init
  BY <1>2 DEF OpsLife!Init, OpsP!Life!Init
<1>5. ASSUME NEW t
      PROVE  /\ OpsLife!Cancel(t) <=> OpsP!Life!Cancel(t)
             /\ OpsLife!End(t) <=> OpsP!Life!End(t)
  BY <1>2, <1>3 DEF OpsLife!Cancel, OpsP!Life!Cancel, OpsLife!End, OpsP!Life!End
<1>6. ASSUME NEW tasks
      PROVE  /\ OpsLife!Forget(tasks) <=> OpsP!Life!Forget(tasks)
             /\ \A t : OpsLife!ForgetAndStart(tasks, t) <=> OpsP!Life!ForgetAndStart(tasks, t)
  BY <1>2, <1>3 DEF OpsLife!Forget, OpsP!Life!Forget,
                    OpsLife!ForgetAndStart, OpsP!Life!ForgetAndStart
<1>7. OpsLife!Next <=> OpsP!Life!Next
  BY <1>5, <1>6 DEF OpsLife!Next, OpsP!Life!Next
<1> QED BY <1>2, <1>4, <1>7 DEF OpsP!LifeStep

\* The tables implement the promise of an asynchronous call: what was cancelled ends as cancelled,
\* an end is never taken back, and what is gone had ended (bash/task.go:54).
THEOREM PromiseIsKept == Spec => TasksKeepPromise
<1>1. Init => BashLife!Init /\ OpsLife!Init
  BY BashOperations, OpsOperations, BashLifeSame, OpsLifeSame, BashP!InitLife, OpsP!InitLife
  DEF Init
<1>2. ServerInv /\ [Next]_vars =>
        /\ [BashLife!Next]_<<[t \in BashTask |-> Bash!Phase(t)], bashAsked>>
        /\ [OpsLife!Next]_<<[t \in OpsTask |-> Ops!Phase(t)], opsAsked>>
  BY Assumptions, StepsOfTables, BashP!OperationKeeps, OpsP!OperationKeeps,
     BashLifeSame, OpsLifeSame
  DEF ServerInv
<1> QED BY <1>1, <1>2, ServerInvHolds, PTL
        DEF Spec, TasksKeepPromise, BashLife!Spec, OpsLife!Spec

-----------------------------------------------------------------------------
(* The stages of unfinished payloads.  First what a piece holds and what two pieces make. *)

Ending == {"line", "newline", "part"}

LEMMA StageConstants ==
    /\ Lines \in Nat \ {0} /\ MaxStages \in Nat \ {0} /\ StageTTL \in Nat
    /\ Stages!Line = 0..Lines + 1 /\ Stages!Seal = Lines /\ Stages!Empty = 0
    /\ Stages!Cut = Lines + 1
  BY ServerAssumption
  DEF ServerAssumption, Stages!StageAssumption, Stages!Line, Stages!Seal, Stages!Empty, Stages!Cut

LEMMA WholeHolds ==
    ASSUME NEW from \in 1..Lines, NEW upto \in from..Lines
    PROVE  /\ Stages!Whole(from, upto) \in Seq(Stages!Line)
           /\ Len(Stages!Whole(from, upto)) = upto + 1 - from
           /\ \A i \in 1..upto + 1 - from : Stages!Whole(from, upto)[i] = from + i - 1
<1>1. upto + 1 - from \in Nat /\ \A i \in 1..upto + 1 - from : from + i - 1 \in Stages!Line
  BY StageConstants
<1> QED BY <1>1 DEF Stages!Whole

LEMMA WholeFromOne ==
    ASSUME NEW upto \in 1..Lines
    PROVE  /\ Stages!Whole(1, upto) \in Seq(Stages!Line)
           /\ Len(Stages!Whole(1, upto)) = upto
           /\ \A i \in 1..upto : Stages!Whole(1, upto)[i] = i
<1>1. 1 \in 1..Lines /\ upto \in Nat /\ upto + 1 - 1 = upto /\ \A i \in 1..upto : 1 + i - 1 = i
  BY StageConstants
<1> QED BY <1>1, WholeHolds

LEMMA PieceHolds ==
    ASSUME NEW from \in 1..Lines, NEW upto \in from..Lines, NEW ending \in Ending
    PROVE  LET whole == upto + 1 - from
               piece == Stages!Piece(from, upto, ending)
           IN /\ piece \in Seq(Stages!Line)
              /\ Len(piece) = IF ending = "line" THEN whole ELSE whole + 1
              /\ \A i \in 1..whole : piece[i] = from + i - 1
              /\ ending = "newline" => piece[whole + 1] = Stages!Empty
              /\ ending = "part" => piece[whole + 1] = Stages!Cut
<1> DEFINE w == Stages!Whole(from, upto)
<1>0. Stages!Empty \in Stages!Line /\ Stages!Cut \in Stages!Line
  BY StageConstants
<1>1. /\ w \in Seq(Stages!Line) /\ Len(w) = upto + 1 - from
      /\ \A i \in 1..upto + 1 - from : w[i] = from + i - 1
  BY WholeHolds
<1> HIDE DEF w
<1>2. CASE ending = "line"
  <2>1. Stages!Piece(from, upto, ending) = w
    BY <1>2 DEF Stages!Piece, w
  <2> QED BY <1>1, <1>2, <2>1
<1>3. CASE ending = "newline"
  <2>1. Stages!Piece(from, upto, ending) = Append(w, Stages!Empty)
    BY <1>3 DEF Stages!Piece, w
  <2>2. PICK piece : piece = Append(w, Stages!Empty)
    OBVIOUS
  <2>3. /\ piece \in Seq(Stages!Line) /\ Len(piece) = Len(w) + 1
        /\ \A i \in 1..Len(w) : piece[i] = w[i]
        /\ piece[Len(w) + 1] = Stages!Empty
    BY <1>0, <1>1, <2>2
  <2> QED BY <1>1, <1>3, <2>1, <2>2, <2>3
<1>4. CASE ending = "part"
  <2>1. Stages!Piece(from, upto, ending) = Append(w, Stages!Cut)
    BY <1>4 DEF Stages!Piece, w
  <2>2. PICK piece : piece = Append(w, Stages!Cut)
    OBVIOUS
  <2>3. /\ piece \in Seq(Stages!Line) /\ Len(piece) = Len(w) + 1
        /\ \A i \in 1..Len(w) : piece[i] = w[i]
        /\ piece[Len(w) + 1] = Stages!Cut
    BY <1>0, <1>1, <2>2
  <2> QED BY <1>1, <1>4, <2>1, <2>2, <2>3
<1> QED BY <1>2, <1>3, <1>4 DEF Ending

LEMMA PieceFromOne ==
    ASSUME NEW upto \in 1..Lines, NEW ending \in Ending
    PROVE  LET piece == Stages!Piece(1, upto, ending)
           IN /\ piece \in Seq(Stages!Line)
              /\ Len(piece) = IF ending = "line" THEN upto ELSE upto + 1
              /\ \A i \in 1..upto : piece[i] = i
              /\ ending = "newline" => piece[upto + 1] = Stages!Empty
              /\ ending = "part" => piece[upto + 1] = Stages!Cut
<1>1. 1 \in 1..Lines /\ upto \in Nat /\ upto + 1 - 1 = upto /\ \A i \in 1..upto : 1 + i - 1 = i
  BY StageConstants
<1>2. PICK piece : piece = Stages!Piece(1, upto, ending)
  OBVIOUS
<1>3. LET whole == upto + 1 - 1
      IN /\ piece \in Seq(Stages!Line)
         /\ Len(piece) = IF ending = "line" THEN whole ELSE whole + 1
         /\ \A i \in 1..whole : piece[i] = 1 + i - 1
         /\ ending = "newline" => piece[whole + 1] = Stages!Empty
         /\ ending = "part" => piece[whole + 1] = Stages!Cut
  BY <1>1, <1>2, PieceHolds
<1> QED BY <1>1, <1>2, <1>3

\* The lines that have arrived, joined with a piece that starts after them, are one longer piece.
LEMMA JoinedIsOnePiece ==
    ASSUME NEW got \in 1..Lines - 1, NEW upto \in got + 1..Lines, NEW ending \in Ending
    PROVE  Stages!Joined(Stages!Whole(1, got), Stages!Piece(got + 1, upto, ending))
             = Stages!Piece(1, upto, ending)
<1>0. /\ Lines \in Nat \ {0} /\ got \in 1..Lines /\ got \in 1..got /\ got + 1 \in 1..Lines
      /\ upto \in 1..Lines
  BY StageConstants
<1>1. PICK w : w = Stages!Whole(1, got)
  OBVIOUS
<1>2. PICK more : more = Stages!Piece(got + 1, upto, ending)
  OBVIOUS
<1>3. PICK all : all = Stages!Piece(1, upto, ending)
  OBVIOUS
<1>4. /\ w \in Seq(Stages!Line) /\ Len(w) = got /\ \A i \in 1..got : w[i] = i
  BY <1>0, <1>1, WholeFromOne
<1>5a. LET whole == upto + 1 - (got + 1)
       IN /\ more \in Seq(Stages!Line)
          /\ Len(more) = IF ending = "line" THEN whole ELSE whole + 1
          /\ \A i \in 1..whole : more[i] = got + 1 + i - 1
          /\ ending = "newline" => more[whole + 1] = Stages!Empty
          /\ ending = "part" => more[whole + 1] = Stages!Cut
  BY <1>0, <1>2, PieceHolds
<1>5. /\ more \in Seq(Stages!Line)
      /\ Len(more) = IF ending = "line" THEN upto - got ELSE upto - got + 1
      /\ \A i \in 1..upto - got : more[i] = got + i
      /\ ending = "newline" => more[upto - got + 1] = Stages!Empty
      /\ ending = "part" => more[upto - got + 1] = Stages!Cut
  <2>1. upto + 1 - (got + 1) = upto - got /\ \A i \in 1..upto - got : got + 1 + i - 1 = got + i
    BY <1>0
  <2> QED BY <1>5a, <2>1
<1>6. /\ all \in Seq(Stages!Line)
      /\ Len(all) = IF ending = "line" THEN upto ELSE upto + 1
      /\ \A i \in 1..upto : all[i] = i
      /\ ending = "newline" => all[upto + 1] = Stages!Empty
      /\ ending = "part" => all[upto + 1] = Stages!Cut
  BY <1>0, <1>3, PieceFromOne
<1>7. Stages!Joined(w, more) = w \o more
  BY <1>0, <1>4, StageConstants DEF Stages!Joined
<1>8. /\ w \o more \in Seq(Stages!Line) /\ Len(w \o more) = Len(w) + Len(more)
      /\ \A i \in 1..Len(w) + Len(more) :
           (w \o more)[i] = IF i <= Len(w) THEN w[i] ELSE more[i - Len(w)]
  BY <1>4, <1>5, ConcatProperties
<1>9. Len(w \o more) = Len(all)
  BY <1>0, <1>4, <1>5, <1>6, <1>8
<1>10. ASSUME NEW i \in 1..Len(w \o more) PROVE (w \o more)[i] = all[i]
  <2>1. i \in 1..Len(w) + Len(more) /\ i \in Nat
    BY <1>4, <1>5, <1>8
  <2>2. CASE i <= got
    BY <1>0, <1>4, <1>6, <1>8, <2>1, <2>2
  <2>3. CASE i > got /\ i <= upto
    <3>1. (w \o more)[i] = more[i - got] /\ i - got \in 1..upto - got
      BY <1>0, <1>4, <1>8, <2>1, <2>3
    <3> QED BY <1>0, <1>5, <1>6, <2>1, <2>3, <3>1
  <2>4. CASE i > upto
    <3>1. i = upto + 1 /\ ending # "line"
      BY <1>0, <1>4, <1>5, <1>8, <2>1, <2>4
    <3>2. (w \o more)[i] = more[upto - got + 1]
      BY <1>0, <1>4, <1>8, <2>1, <3>1
    <3> QED BY <1>5, <1>6, <3>1, <3>2 DEF Ending
  <2> QED BY <1>0, <2>1, <2>2, <2>3, <2>4
<1>11. w \o more = all
  BY <1>6, <1>8, <1>9, <1>10, SeqEqual
<1> QED BY <1>1, <1>2, <1>3, <1>7, <1>11

\* A piece from the first line parses when it reaches the last one, and is the payload.
LEMMA PieceParses ==
    ASSUME NEW upto \in 1..Lines, NEW ending \in Ending
    PROVE  LET text == Stages!Piece(1, upto, ending)
           IN /\ Stages!Parses(text) <=> upto = Lines
              /\ Stages!Parses(text) => Stages!ToSeal(text) = Stages!Whole(1, Lines)
<1>0. Lines \in Nat \ {0} /\ 1 \in 1..Lines /\ Lines \in 1..Lines
  BY StageConstants
<1>1. PICK text : text = Stages!Piece(1, upto, ending)
  OBVIOUS
<1>2. /\ text \in Seq(Stages!Line)
      /\ Len(text) = IF ending = "line" THEN upto ELSE upto + 1
      /\ \A i \in 1..upto : text[i] = i
      /\ ending = "newline" => text[upto + 1] = Stages!Empty
      /\ ending = "part" => text[upto + 1] = Stages!Cut
  BY <1>0, <1>1, PieceFromOne
<1>3. \A i \in DOMAIN text : text[i] = Stages!Seal <=> (i = Lines /\ upto = Lines)
  <2> SUFFICES ASSUME NEW i \in DOMAIN text
               PROVE  text[i] = Stages!Seal <=> (i = Lines /\ upto = Lines)
    OBVIOUS
  <2>1. i \in 1..Len(text) /\ i \in Nat
    BY <1>2
  <2>2. CASE i <= upto
    BY <1>0, <1>2, <2>1, <2>2, StageConstants
  <2>3. CASE i > upto
    <3>1. i = upto + 1 /\ ending # "line"
      BY <1>2, <2>1, <2>3
    <3> QED BY <1>0, <1>2, <3>1, StageConstants DEF Ending
  <2> QED BY <2>1, <2>2, <2>3
<1>4. Stages!Parses(text) <=> upto = Lines
  <2>1. Lines \in DOMAIN text <=> upto >= Lines \/ (ending # "line" /\ upto + 1 >= Lines)
    BY <1>0, <1>2
  <2> QED BY <1>0, <1>3, <2>1 DEF Stages!Parses
<1>5. ASSUME upto = Lines PROVE Stages!ToSeal(text) = Stages!Whole(1, Lines)
  <2>1. Lines \in DOMAIN text
    BY <1>0, <1>2, <1>5
  <2>2. (CHOOSE i \in DOMAIN text : text[i] = Stages!Seal) = Lines
    BY <1>3, <1>5, <2>1
  <2>3. PICK start : start = SubSeq(text, 1, Lines)
    OBVIOUS
  <2>4. /\ start \in Seq(Stages!Line) /\ Len(start) = Lines
        /\ \A i \in 1..Lines : start[i] = i
    BY <1>0, <1>2, <1>5, <2>3
  <2>5. /\ Stages!Whole(1, Lines) \in Seq(Stages!Line) /\ Len(Stages!Whole(1, Lines)) = Lines
        /\ \A i \in 1..Lines : Stages!Whole(1, Lines)[i] = i
    BY <1>0, WholeFromOne
  <2>6. start = Stages!Whole(1, Lines)
    BY <2>4, <2>5, SeqEqual
  <2> QED BY <2>2, <2>3, <2>6 DEF Stages!ToSeal
<1> QED BY <1>1, <1>4, <1>5

\* What is put together is a text of lines, and not an empty one.
LEMMA JoinedHolds ==
    ASSUME NEW text \in Seq(Stages!Line), NEW piece \in Seq(Stages!Line),
           text # <<>>, piece # <<>>
    PROVE  Stages!Joined(text, piece) \in Seq(Stages!Line) /\ Stages!Joined(text, piece) # <<>>
<1>1. PICK front : front = SubSeq(text, 1, Len(text) - 1)
  OBVIOUS
<1>2. front \in Seq(Stages!Line)
  BY <1>1
<1>3. /\ front \o piece \in Seq(Stages!Line) /\ front \o piece # <<>>
      /\ text \o piece \in Seq(Stages!Line) /\ text \o piece # <<>>
  BY <1>2, ConcatProperties, EmptySeq
<1> QED BY <1>1, <1>3 DEF Stages!Joined

\* A payload that was put together is not empty.
LEMMA ToSealHolds ==
    ASSUME NEW text \in Seq(Stages!Line), Stages!Parses(text)
    PROVE  Stages!ToSeal(text) \in Seq(Stages!Line) /\ Stages!ToSeal(text) # <<>>
<1>1. PICK n : n = CHOOSE i \in DOMAIN text : text[i] = Stages!Seal
  OBVIOUS
<1>2. n \in DOMAIN text /\ DOMAIN text = 1..Len(text) /\ Len(text) \in Nat
  BY <1>1 DEF Stages!Parses
<1>3. PICK start : start = SubSeq(text, 1, n)
  OBVIOUS
<1>4. start \in Seq(Stages!Line) /\ Len(start) = n
  BY <1>2, <1>3
<1>5. start # <<>>
  BY <1>2, <1>4
<1> QED BY <1>1, <1>3, <1>4, <1>5 DEF Stages!ToSeal

-----------------------------------------------------------------------------
(* What holds of the stages and of their senders. *)

Kept == [text : Seq(Stages!Line), expires : Nat]

StagesTyped ==
  /\ stages \in [Stage -> Kept]
  /\ sender \in [Payload -> [stage : SUBSET Stage, got : Nat]]
  /\ result \in [Payload -> Seq(Stages!Line)]
  /\ clean \subseteq Payload /\ issued \subseteq Stage

\* No more stages than fit, each of them issued and with something in it.
StagesFit ==
  /\ IsFiniteSet(Stages!Staged(stages)) /\ Cardinality(Stages!Staged(stages)) <= MaxStages
  /\ \A s \in Stage : stages[s] # Stages!NoStage => s \in issued /\ stages[s].text # <<>>

\* A stage has one sender, who knows no other and whose payload is not complete.
OneSender ==
  \A p \in Payload : \A s \in sender[p].stage :
    /\ sender[p].stage = {s} /\ s \in issued /\ result[p] = <<>>
    /\ \A q \in Payload \ {p} : s \notin sender[q].stage

\* The stage of a payload sent by whole lines holds just the lines its sender was told of, and
\* some are still to come.
InStep(p, s) ==
  stages[s] # Stages!NoStage
  => sender[p].got \in 1..Lines - 1 /\ stages[s].text = Stages!Whole(1, sender[p].got)

StageInv ==
  /\ StagesTyped /\ StagesFit /\ OneSender
  /\ \A p \in clean : \A s \in sender[p].stage : InStep(p, s)
  /\ Stages!AssembledWhole

\* What a step may lose.
LosesLast ==
  \A s \in Stages!Staged(stages) :
    stages'[s] = Stages!NoStage /\ now <= stages[s].expires
    => \/ \E p \in Payload : s \in sender[p].stage /\ result'[p] # result[p]
       \/ /\ Stages!Cardinality(Stages!Staged(Stages!Live)) >= MaxStages
          /\ s \in Stages!Oldest(Stages!Live)

LEMMA StagesCounted == \A S : Stages!Cardinality(S) = Cardinality(S)
  BY DEF Stages!Cardinality, Cardinality

LEMMA StageInitKeeps ==
    ASSUME Stages!StageInit
    PROVE  StageInv
<1>1. StagesTyped
  BY DEF Stages!StageInit, StagesTyped, Kept, Stages!NoStage, Stages!NothingSent
<1>2. Stages!Staged(stages) = {}
  BY DEF Stages!Staged, Stages!StageInit
<1>3. StagesFit
  <2>1. IsFiniteSet(Stages!Staged(stages)) /\ Cardinality(Stages!Staged(stages)) = 0
    BY <1>2, FS_EmptySet
  <2>2. \A s \in Stage : stages[s] = Stages!NoStage
    BY DEF Stages!StageInit
  <2> QED BY <2>1, <2>2, StageConstants DEF StagesFit
<1>4. OneSender /\ \A p \in clean : \A s \in sender[p].stage : InStep(p, s)
  BY DEF Stages!StageInit, OneSender, Stages!NothingSent
<1>5. Stages!AssembledWhole
  BY DEF Stages!StageInit, Stages!AssembledWhole
<1> QED BY <1>1, <1>3, <1>4, <1>5 DEF StageInv

LEMMA LiveHolds ==
    ASSUME StageInv, now \in Nat
    PROVE  /\ Stages!Live \in [Stage -> Kept]
           /\ \A s \in Stage :
                /\ Stages!Live[s] = stages[s] \/ Stages!Live[s] = Stages!NoStage
                /\ now <= stages[s].expires => Stages!Live[s] = stages[s]
           /\ IsFiniteSet(Stages!Staged(Stages!Live))
           /\ Cardinality(Stages!Staged(Stages!Live)) \in Nat
           /\ Cardinality(Stages!Staged(Stages!Live)) <= MaxStages
<1>1. /\ Stages!Live \in [Stage -> Kept]
      /\ \A s \in Stage :
           /\ Stages!Live[s] = stages[s] \/ Stages!Live[s] = Stages!NoStage
           /\ now <= stages[s].expires => Stages!Live[s] = stages[s]
  <2>1. Stages!NoStage \in Kept /\ \A s \in Stage : stages[s] \in Kept /\ stages[s].expires \in Nat
    BY DEF StageInv, StagesTyped, Kept, Stages!NoStage
  <2> QED BY <2>1 DEF Stages!Live
<1>2. Stages!Staged(Stages!Live) \subseteq Stages!Staged(stages)
  BY <1>1 DEF Stages!Staged
<1>3. IsFiniteSet(Stages!Staged(stages)) /\ Cardinality(Stages!Staged(stages)) <= MaxStages
  BY DEF StageInv, StagesFit
<1>4. /\ IsFiniteSet(Stages!Staged(Stages!Live))
      /\ Cardinality(Stages!Staged(Stages!Live)) <= Cardinality(Stages!Staged(stages))
  BY <1>2, <1>3, FS_Subset
<1>5. /\ Cardinality(Stages!Staged(Stages!Live)) \in Nat
      /\ Cardinality(Stages!Staged(stages)) \in Nat
  BY <1>3, <1>4, FS_CardinalityType
<1> QED BY <1>1, <1>3, <1>4, <1>5, StageConstants

\* One more stage in a set with room, or in the place of one of a full set.
LEMMA OneStageMore ==
    ASSUME NEW S, IsFiniteSet(S), Cardinality(S) <= MaxStages, NEW V, NEW x, NEW T,
           T \subseteq (S \ V) \union {x},
           Cardinality(S) >= MaxStages => \E v \in S : V = {v}
    PROVE  IsFiniteSet(T) /\ Cardinality(T) <= MaxStages
<1>0. Cardinality(S) \in Nat /\ MaxStages \in Nat
  BY FS_CardinalityType, StageConstants
<1>1. PICK R : R = S \ V
  OBVIOUS
<1>2. IsFiniteSet(R) /\ Cardinality(R) \in Nat /\ Cardinality(R) <= MaxStages - 1
  <2>1. CASE Cardinality(S) >= MaxStages
    <3>1. PICK v \in S : V = {v}
      BY <2>1
    <3>2. IsFiniteSet(S \ {v}) /\ Cardinality(S \ {v}) = Cardinality(S) - 1
      BY FS_RemoveElement
    <3>3. Cardinality(S \ {v}) \in Nat
      BY <3>2, FS_CardinalityType
    <3>4. R = S \ {v}
      BY <1>1, <3>1
    <3> QED BY <1>0, <3>2, <3>3, <3>4
  <2>2. CASE ~(Cardinality(S) >= MaxStages)
    <3>1. R \in SUBSET S
      BY <1>1
    <3>2. IsFiniteSet(R) /\ Cardinality(R) <= Cardinality(S)
      BY <3>1, FS_Subset
    <3>3. Cardinality(R) \in Nat
      BY <3>2, FS_CardinalityType
    <3> QED BY <1>0, <2>2, <3>2, <3>3
  <2> QED BY <2>1, <2>2
<1>3. /\ IsFiniteSet(R \union {x})
      /\ Cardinality(R \union {x}) = IF x \in R THEN Cardinality(R) ELSE Cardinality(R) + 1
  BY <1>2, FS_AddElement
<1>4. T \in SUBSET (R \union {x})
  BY <1>1
<1>5. IsFiniteSet(T) /\ Cardinality(T) <= Cardinality(R \union {x})
  BY <1>3, <1>4, FS_Subset
<1>6. Cardinality(T) \in Nat
  BY <1>5, FS_CardinalityType
<1> QED BY <1>0, <1>2, <1>3, <1>5, <1>6

\* What the table is after a stage is kept.
LEMMA KeepFits ==
    ASSUME StageInv, now \in Nat, NEW id \in Stage, NEW text \in Seq(Stages!Line), text # <<>>,
           NEW victims \in Stages!Victims(Stages!Live), NEW table,
           table = [s \in Stage |->
              IF s = id THEN [text |-> text, expires |-> now + StageTTL]
              ELSE IF s \in victims THEN Stages!NoStage ELSE Stages!Live[s]]
    PROVE  /\ table \in [Stage -> Kept]
           /\ IsFiniteSet(Stages!Staged(table)) /\ Cardinality(Stages!Staged(table)) <= MaxStages
           /\ table[id].text = text /\ table[id] # Stages!NoStage
           /\ \A s \in Stage \ {id} :
                /\ table[s] # Stages!NoStage => table[s] = stages[s]
                /\ stages[s] # Stages!NoStage /\ table[s] = Stages!NoStage /\ now <= stages[s].expires
                   => /\ Stages!Cardinality(Stages!Staged(Stages!Live)) >= MaxStages
                      /\ s \in Stages!Oldest(Stages!Live)
<1>0. /\ Stages!Live \in [Stage -> Kept]
      /\ \A s \in Stage :
           /\ Stages!Live[s] = stages[s] \/ Stages!Live[s] = Stages!NoStage
           /\ now <= stages[s].expires => Stages!Live[s] = stages[s]
      /\ IsFiniteSet(Stages!Staged(Stages!Live))
      /\ Cardinality(Stages!Staged(Stages!Live)) <= MaxStages
  BY LiveHolds
<1>1. PICK live : live = Stages!Live
  OBVIOUS
<1>2. PICK kept : kept = [text |-> text, expires |-> now + StageTTL]
  OBVIOUS
<1>3. kept \in Kept /\ kept.text = text /\ kept # Stages!NoStage
  <2>1. now + StageTTL \in Nat
    BY StageConstants
  <2> QED BY <1>2, <2>1 DEF Kept, Stages!NoStage
<1>4. Stages!NoStage \in Kept
  BY DEF Kept, Stages!NoStage
<1>5. table = [s \in Stage |-> IF s = id THEN kept
                               ELSE IF s \in victims THEN Stages!NoStage ELSE live[s]]
  BY <1>1, <1>2
<1>6. /\ table \in [Stage -> Kept] /\ table[id] = kept
      /\ \A s \in Stage \ {id} : table[s] = IF s \in victims THEN Stages!NoStage ELSE live[s]
  BY <1>0, <1>1, <1>3, <1>4, <1>5
<1>7. /\ Cardinality(Stages!Staged(live)) >= MaxStages
         => \E v \in Stages!Oldest(live) : victims = {v}
      /\ ~(Cardinality(Stages!Staged(live)) >= MaxStages) => victims = {}
  BY <1>1, StagesCounted DEF Stages!Victims
<1>8. Stages!Oldest(live) \subseteq Stages!Staged(live)
  BY DEF Stages!Oldest
<1>9. Stages!Staged(table) \subseteq (Stages!Staged(live) \ victims) \union {id}
  BY <1>6 DEF Stages!Staged
<1>10. IsFiniteSet(Stages!Staged(table)) /\ Cardinality(Stages!Staged(table)) <= MaxStages
  BY <1>0, <1>1, <1>7, <1>8, <1>9, OneStageMore
<1>11. ASSUME NEW s \in Stage \ {id}
       PROVE  /\ table[s] # Stages!NoStage => table[s] = stages[s]
              /\ stages[s] # Stages!NoStage /\ table[s] = Stages!NoStage /\ now <= stages[s].expires
                 => /\ Cardinality(Stages!Staged(live)) >= MaxStages
                    /\ s \in Stages!Oldest(live)
  BY <1>0, <1>1, <1>6, <1>7
<1> QED BY <1>1, <1>3, <1>6, <1>10, <1>11, StagesCounted

\* A stage is kept: nothing but the oldest of a full table goes for it.
LEMMA KeepKeeps ==
    ASSUME StageInv, now \in Nat, NEW p \in Payload, NEW id \in Stage,
           NEW text \in Seq(Stages!Line), text # <<>>,
           Stages!Keep(p, id, text), result[p] = <<>>,
           \A q \in Payload \ {p} : id \notin sender[q].stage,
           clean' \subseteq clean \union {p},
           p \in clean' => Len(text) \in 1..Lines - 1 /\ text = Stages!Whole(1, Len(text))
    PROVE  StageInv' /\ LosesLast
<1>1. PICK victims \in Stages!Victims(Stages!Live) :
        stages' = [s \in Stage |->
              IF s = id THEN [text |-> text, expires |-> now + StageTTL]
              ELSE IF s \in victims THEN Stages!NoStage ELSE Stages!Live[s]]
  BY DEF Stages!Keep
<1>1a. PICK table : table = stages'
  OBVIOUS
<1>1b. table = [s \in Stage |->
              IF s = id THEN [text |-> text, expires |-> now + StageTTL]
              ELSE IF s \in victims THEN Stages!NoStage ELSE Stages!Live[s]]
  BY <1>1, <1>1a
<1>2. PICK told : told = [stage |-> {id}, got |-> Len(text)]
  OBVIOUS
<1>3. /\ sender' = [sender EXCEPT ![p] = told]
      /\ issued' = issued \union {id} /\ result' = result
  BY <1>2 DEF Stages!Keep
<1>4. told \in [stage : SUBSET Stage, got : Nat] /\ told.stage = {id} /\ told.got = Len(text)
  BY <1>2
<1>5. /\ sender'[p] = told /\ \A q \in Payload \ {p} : sender'[q] = sender[q]
      /\ sender' \in [Payload -> [stage : SUBSET Stage, got : Nat]]
  BY <1>3, <1>4 DEF StageInv, StagesTyped
<1>6a. /\ table \in [Stage -> Kept]
       /\ IsFiniteSet(Stages!Staged(table)) /\ Cardinality(Stages!Staged(table)) <= MaxStages
       /\ table[id].text = text /\ table[id] # Stages!NoStage
       /\ \A s \in Stage \ {id} :
            /\ table[s] # Stages!NoStage => table[s] = stages[s]
            /\ stages[s] # Stages!NoStage /\ table[s] = Stages!NoStage /\ now <= stages[s].expires
               => /\ Stages!Cardinality(Stages!Staged(Stages!Live)) >= MaxStages
                  /\ s \in Stages!Oldest(Stages!Live)
  BY <1>1b, KeepFits
<1>6. /\ stages' \in [Stage -> Kept]
      /\ IsFiniteSet(Stages!Staged(stages')) /\ Cardinality(Stages!Staged(stages')) <= MaxStages
      /\ stages'[id].text = text /\ stages'[id] # Stages!NoStage
      /\ \A s \in Stage \ {id} :
           /\ stages'[s] # Stages!NoStage => stages'[s] = stages[s]
           /\ stages[s] # Stages!NoStage /\ stages'[s] = Stages!NoStage /\ now <= stages[s].expires
              => /\ Stages!Cardinality(Stages!Staged(Stages!Live)) >= MaxStages
                 /\ s \in Stages!Oldest(Stages!Live)
  BY <1>1a, <1>6a
<1> USE DEF StageInv, StagesTyped
<1>7. StagesTyped'
  BY <1>3, <1>5, <1>6
<1>8. StagesFit'
  <2>1. Stages!Staged(stages)' = Stages!Staged(stages')
    BY DEF Stages!Staged
  <2>2. ASSUME NEW s \in Stage, stages'[s] # Stages!NoStage
        PROVE  s \in issued' /\ stages'[s].text # <<>>
    <3>1. CASE s = id
      BY <1>3, <1>6, <3>1
    <3>2. CASE s # id
      BY <1>3, <1>6, <2>2, <3>2 DEF StagesFit
    <3> QED BY <3>1, <3>2
  <2>3. Stages!NoStage' = Stages!NoStage
    BY DEF Stages!NoStage
  <2> QED BY <1>6, <2>1, <2>2, <2>3 DEF StagesFit
<1>9. OneSender'
  BY <1>3, <1>4, <1>5 DEF OneSender
<1>10. ASSUME NEW q \in clean', NEW s \in sender'[q].stage PROVE InStep(q, s)'
  <2>1. q \in Payload
    OBVIOUS
  <2>2. CASE q = p
    BY <1>4, <1>5, <1>6, <1>10, <2>2 DEF InStep
  <2>3. CASE q # p
    <3>1. q \in clean /\ s \in sender[q].stage /\ s # id /\ s \in Stage /\ sender'[q] = sender[q]
      BY <1>5, <1>10, <2>1, <2>3
    <3>2. InStep(q, s)
      BY <3>1
    <3>3. stages'[s] # Stages!NoStage => stages'[s] = stages[s]
      BY <1>6, <3>1
    <3> QED BY <3>1, <3>2, <3>3 DEF InStep, Stages!NoStage
  <2> QED BY <2>2, <2>3
<1>11. Stages!AssembledWhole'
  BY <1>3 DEF Stages!AssembledWhole, Stages!Whole
<1>12. LosesLast
  <2> SUFFICES ASSUME NEW s \in Stages!Staged(stages),
                      stages'[s] = Stages!NoStage, now <= stages[s].expires
               PROVE  /\ Stages!Cardinality(Stages!Staged(Stages!Live)) >= MaxStages
                      /\ s \in Stages!Oldest(Stages!Live)
    BY DEF LosesLast
  <2>1. s \in Stage \ {id} /\ stages[s] # Stages!NoStage
    BY <1>6 DEF Stages!Staged
  <2> QED BY <1>6, <2>1
<1> QED BY <1>7, <1>8, <1>9, <1>10, <1>11, <1>12

\* The sender of a stage forgets it, and the table keeps some of what it has.
LEMMA FewerKept ==
    ASSUME StageInv, NEW p \in Payload,
           stages' \in [Stage -> Kept],
           \A s \in Stage : stages'[s] = stages[s] \/ stages'[s] = Stages!NoStage,
           sender' = [sender EXCEPT ![p] = Stages!NothingSent], UNCHANGED <<clean, issued>>,
           \A q \in Payload \ {p} : result'[q] = result[q]
    PROVE  /\ sender' \in [Payload -> [stage : SUBSET Stage, got : Nat]]
           /\ StagesFit' /\ OneSender'
           /\ \A q \in clean' : \A s \in sender'[q].stage : InStep(q, s)'
<1> USE DEF StageInv, StagesTyped
<1>1. /\ sender'[p].stage = {} /\ \A q \in Payload \ {p} : sender'[q] = sender[q]
      /\ sender' \in [Payload -> [stage : SUBSET Stage, got : Nat]]
  BY DEF Stages!NothingSent
<1>2. StagesFit'
  <2>1. Stages!Staged(stages') \in SUBSET Stages!Staged(stages)
    BY DEF Stages!Staged
  <2>2. IsFiniteSet(Stages!Staged(stages)) /\ Cardinality(Stages!Staged(stages)) <= MaxStages
    BY DEF StagesFit
  <2>3. /\ IsFiniteSet(Stages!Staged(stages'))
        /\ Cardinality(Stages!Staged(stages')) <= Cardinality(Stages!Staged(stages))
    BY <2>1, <2>2, FS_Subset
  <2>4. /\ Cardinality(Stages!Staged(stages')) \in Nat
        /\ Cardinality(Stages!Staged(stages)) \in Nat
    BY <2>2, <2>3, FS_CardinalityType
  <2>5. Cardinality(Stages!Staged(stages')) <= MaxStages
    BY <2>2, <2>3, <2>4, StageConstants
  <2>6. Stages!Staged(stages)' = Stages!Staged(stages') /\ Stages!NoStage' = Stages!NoStage
    BY DEF Stages!Staged, Stages!NoStage
  <2>7. ASSUME NEW s \in Stage, stages'[s] # Stages!NoStage
        PROVE  s \in issued' /\ stages'[s].text # <<>>
    <3>1. stages'[s] = stages[s]
      BY <2>7
    <3> QED BY <2>7, <3>1 DEF StagesFit
  <2> QED BY <2>3, <2>5, <2>6, <2>7 DEF StagesFit
<1>3. OneSender'
  BY <1>1 DEF OneSender
<1>4. ASSUME NEW q \in clean', NEW s \in sender'[q].stage PROVE InStep(q, s)'
  <2>1. q \in clean /\ q # p /\ s \in sender[q].stage /\ s \in Stage /\ sender'[q] = sender[q]
    BY <1>1, <1>4
  <2>2. InStep(q, s) /\ (stages'[s] = stages[s] \/ stages'[s] = Stages!NoStage)
    BY <2>1
  <2> QED BY <2>1, <2>2 DEF InStep, Stages!NoStage
<1> QED BY <1>1, <1>2, <1>3, <1>4

\* A payload is complete: its stage goes with it.
LEMMA FinishKeeps ==
    ASSUME StageInv, now \in Nat, NEW p \in Payload, result[p] = <<>>,
           NEW text \in Seq(Stages!Line), Stages!Parses(text),
           NEW table \in [Stage -> Kept],
           \A s \in Stage :
             /\ table[s] = stages[s] \/ table[s] = Stages!NoStage
             /\ s \notin sender[p].stage /\ now <= stages[s].expires => table[s] = stages[s],
           Stages!Finish(p, text, table), UNCHANGED clean,
           p \in clean => Stages!ToSeal(text) = Stages!Whole(1, Lines)
    PROVE  StageInv' /\ LosesLast
<1>1. PICK payload : payload = Stages!ToSeal(text)
  OBVIOUS
<1>2. payload \in Seq(Stages!Line) /\ payload # <<>>
  BY <1>1, ToSealHolds
<1>3. /\ result' = [result EXCEPT ![p] = payload] /\ stages' = table
      /\ sender' = [sender EXCEPT ![p] = Stages!NothingSent] /\ issued' = issued
  BY <1>1 DEF Stages!Finish
<1>4. /\ result'[p] = payload /\ \A q \in Payload \ {p} : result'[q] = result[q]
      /\ result' \in [Payload -> Seq(Stages!Line)]
  BY <1>2, <1>3 DEF StageInv, StagesTyped
<1>5. /\ sender' \in [Payload -> [stage : SUBSET Stage, got : Nat]]
      /\ StagesFit' /\ OneSender'
      /\ \A q \in clean' : \A s \in sender'[q].stage : InStep(q, s)'
  BY <1>3, <1>4, FewerKept
<1>6. StagesTyped'
  BY <1>3, <1>4, <1>5 DEF StageInv, StagesTyped
<1>7. Stages!AssembledWhole'
  <2>1. ASSUME NEW q \in clean, result'[q] # <<>> PROVE result'[q] = Stages!Whole(1, Lines)
    BY <1>1, <1>4, <2>1 DEF StageInv, StagesTyped, Stages!AssembledWhole
  <2>2. Stages!Whole(1, Lines)' = Stages!Whole(1, Lines)
    BY DEF Stages!Whole
  <2> QED BY <2>1, <2>2 DEF Stages!AssembledWhole
<1>8. LosesLast
  <2> SUFFICES ASSUME NEW s \in Stages!Staged(stages),
                      stages'[s] = Stages!NoStage, now <= stages[s].expires
               PROVE  s \in sender[p].stage /\ result'[p] # result[p]
    BY DEF LosesLast
  <2>1. s \in Stage /\ stages[s] # Stages!NoStage
    BY DEF Stages!Staged
  <2> QED BY <1>2, <1>3, <1>4, <2>1
<1> QED BY <1>5, <1>6, <1>7, <1>8 DEF StageInv

\* The client has nothing to resume and starts again.
LEMMA ForgetKeeps ==
    ASSUME StageInv, now \in Nat, NEW p \in Payload, stages' = Stages!Live,
           sender' = [sender EXCEPT ![p] = Stages!NothingSent],
           UNCHANGED <<result, clean, issued>>
    PROVE  StageInv' /\ LosesLast
<1>1. /\ stages' \in [Stage -> Kept]
      /\ \A s \in Stage :
           /\ stages'[s] = stages[s] \/ stages'[s] = Stages!NoStage
           /\ now <= stages[s].expires => stages'[s] = stages[s]
  BY LiveHolds
<1>2. /\ sender' \in [Payload -> [stage : SUBSET Stage, got : Nat]]
      /\ StagesFit' /\ OneSender'
      /\ \A q \in clean' : \A s \in sender'[q].stage : InStep(q, s)'
  BY <1>1, FewerKept
<1>3. StagesTyped'
  BY <1>1, <1>2 DEF StageInv, StagesTyped
<1>4. Stages!AssembledWhole'
  BY DEF StageInv, Stages!AssembledWhole, Stages!Whole
<1>5. LosesLast
  BY <1>1 DEF LosesLast, Stages!Staged
<1> QED BY <1>2, <1>3, <1>4, <1>5 DEF StageInv

\* The first piece of a payload is a stage of its own, or the payload.
LEMMA SendKeeps ==
    ASSUME StageInv, now \in Nat, NEW p \in Payload, Stages!Send(p)
    PROVE  StageInv' /\ LosesLast
<1>1. PICK upto \in 1..Lines, ending \in Ending :
        LET text == Stages!Piece(1, upto, ending)
        IN /\ sender[p] = Stages!NothingSent /\ result[p] = <<>>
           /\ IF Stages!Parses(text)
              THEN Stages!Finish(p, text, stages) /\ UNCHANGED clean
              ELSE /\ Stage \ issued # {}
                   /\ Stages!Keep(p, CHOOSE s \in Stage \ issued : TRUE, text)
                   /\ clean' = IF ending = "line" THEN clean \union {p} ELSE clean \ {p}
  BY DEF Stages!Send, Ending
<1>2. PICK text : text = Stages!Piece(1, upto, ending)
  OBVIOUS
<1>3. /\ text \in Seq(Stages!Line) /\ Len(text) >= 1 /\ text # <<>>
      /\ ending = "line" => Len(text) = upto
  <2>1. /\ text \in Seq(Stages!Line)
        /\ Len(text) = IF ending = "line" THEN upto ELSE upto + 1
    BY <1>2, PieceFromOne
  <2> QED BY <2>1, StageConstants
<1>4. /\ Stages!Parses(text) <=> upto = Lines
      /\ Stages!Parses(text) => Stages!ToSeal(text) = Stages!Whole(1, Lines)
  BY <1>2, PieceParses
<1>5. CASE Stages!Parses(text)
  <2>1. Stages!Finish(p, text, stages) /\ UNCHANGED clean /\ result[p] = <<>>
    BY <1>1, <1>2, <1>5
  <2>2. stages \in [Stage -> Kept]
    BY DEF StageInv, StagesTyped
  <2> QED BY <1>3, <1>4, <1>5, <2>1, <2>2, FinishKeeps
<1>6. CASE ~Stages!Parses(text)
  <2>1. PICK id : id = CHOOSE s \in Stage \ issued : TRUE
    OBVIOUS
  <2>2. /\ id \in Stage \ issued /\ Stages!Keep(p, id, text) /\ result[p] = <<>>
        /\ clean' = IF ending = "line" THEN clean \union {p} ELSE clean \ {p}
    BY <1>1, <1>2, <1>6, <2>1
  <2>3. \A q \in Payload \ {p} : id \notin sender[q].stage
    BY <2>2 DEF StageInv, OneSender
  <2>4. p \in clean' => Len(text) \in 1..Lines - 1 /\ text = Stages!Whole(1, Len(text))
    <3>1. ending = "line" => text = Stages!Whole(1, upto)
      BY <1>2 DEF Stages!Piece
    <3>2. upto \in 1..Lines - 1
      BY <1>4, <1>6, StageConstants
    <3> QED BY <1>3, <2>2, <3>1, <3>2
  <2>5. clean' \subseteq clean \union {p}
    BY <2>2
  <2> QED BY <1>3, <2>2, <2>3, <2>4, <2>5, KeepKeeps
<1> QED BY <1>5, <1>6

\* A further piece makes the stage longer, or completes the payload.
LEMMA ResumeKeeps ==
    ASSUME StageInv, now \in Nat, NEW p \in Payload, Stages!Resume(p)
    PROVE  StageInv' /\ LosesLast
<1>1. PICK s \in sender[p].stage :
        IF Stages!Live[s] = Stages!NoStage \/ sender[p].got >= Lines
        THEN /\ stages' = Stages!Live
             /\ sender' = [sender EXCEPT ![p] = Stages!NothingSent]
             /\ UNCHANGED <<result, clean, issued>>
        ELSE \E upto \in sender[p].got + 1..Lines, ending \in Ending :
               LET text == Stages!Joined(Stages!Live[s].text,
                                         Stages!Piece(sender[p].got + 1, upto, ending))
               IN IF Stages!Parses(text)
                  THEN /\ Stages!Finish(p, text, [Stages!Live EXCEPT ![s] = Stages!NoStage])
                       /\ UNCHANGED clean
                  ELSE /\ Stages!Keep(p, s, text)
                       /\ clean' = IF ending = "line" THEN clean ELSE clean \ {p}
  BY DEF Stages!Resume, Ending
<1>2. /\ s \in Stage /\ sender[p].stage = {s} /\ result[p] = <<>>
      /\ \A q \in Payload \ {p} : s \notin sender[q].stage
      /\ sender[p].got \in Nat
  BY DEF StageInv, StagesTyped, OneSender
<1>3. CASE Stages!Live[s] = Stages!NoStage \/ sender[p].got >= Lines
  BY <1>1, <1>3, ForgetKeeps
<1>4. CASE ~(Stages!Live[s] = Stages!NoStage \/ sender[p].got >= Lines)
  <2>1. PICK got : got = sender[p].got
    OBVIOUS
  <2>2. PICK upto \in got + 1..Lines, ending \in Ending :
          LET text == Stages!Joined(Stages!Live[s].text, Stages!Piece(got + 1, upto, ending))
          IN IF Stages!Parses(text)
             THEN /\ Stages!Finish(p, text, [Stages!Live EXCEPT ![s] = Stages!NoStage])
                  /\ UNCHANGED clean
             ELSE /\ Stages!Keep(p, s, text)
                  /\ clean' = IF ending = "line" THEN clean ELSE clean \ {p}
    BY <1>1, <1>4, <2>1
  <2>3. PICK piece : piece = Stages!Piece(got + 1, upto, ending)
    OBVIOUS
  <2>4. got \in Nat /\ got + 1 \in 1..Lines /\ upto \in 1..Lines /\ upto \in got + 1..Lines
    BY <1>2, <1>4, <2>1, StageConstants
  <2>5. piece \in Seq(Stages!Line) /\ piece # <<>>
    <3>1. LET whole == upto + 1 - (got + 1)
          IN /\ piece \in Seq(Stages!Line)
             /\ Len(piece) = IF ending = "line" THEN whole ELSE whole + 1
      BY <2>3, <2>4, PieceHolds
    <3> QED BY <2>4, <3>1
  <2>6. /\ Stages!Live \in [Stage -> Kept]
        /\ \A u \in Stage :
             /\ Stages!Live[u] = stages[u] \/ Stages!Live[u] = Stages!NoStage
             /\ now <= stages[u].expires => Stages!Live[u] = stages[u]
    BY LiveHolds
  <2>7. PICK old : old = Stages!Live[s].text
    OBVIOUS
  <2>8. old = stages[s].text /\ stages[s] # Stages!NoStage /\ old \in Seq(Stages!Line) /\ old # <<>>
    <3>1. Stages!Live[s] = stages[s] /\ stages[s] # Stages!NoStage
      BY <1>2, <1>4, <2>6
    <3> QED BY <1>2, <2>7, <3>1 DEF StageInv, StagesTyped, StagesFit, Kept
  <2>9. PICK text : text = Stages!Joined(old, piece)
    OBVIOUS
  <2>10. text \in Seq(Stages!Line) /\ text # <<>>
    BY <2>5, <2>8, <2>9, JoinedHolds
  <2>11. IF Stages!Parses(text)
         THEN /\ Stages!Finish(p, text, [Stages!Live EXCEPT ![s] = Stages!NoStage])
              /\ UNCHANGED clean
         ELSE /\ Stages!Keep(p, s, text)
              /\ clean' = IF ending = "line" THEN clean ELSE clean \ {p}
    BY <2>2, <2>3, <2>7, <2>9
  <2>12. ASSUME p \in clean PROVE text = Stages!Piece(1, upto, ending)
    <3>1. got \in 1..Lines - 1 /\ old = Stages!Whole(1, got)
      BY <1>2, <2>1, <2>8, <2>12 DEF StageInv, InStep
    <3> QED BY <2>3, <2>4, <2>9, <3>1, JoinedIsOnePiece
  <2>13. CASE Stages!Parses(text)
    <3>1. PICK table : table = [Stages!Live EXCEPT ![s] = Stages!NoStage]
      OBVIOUS
    <3>2. /\ table \in [Stage -> Kept]
          /\ \A u \in Stage : table[u] = IF u = s THEN Stages!NoStage ELSE Stages!Live[u]
      <4>1. Stages!NoStage \in Kept
        BY DEF Stages!NoStage, Kept
      <4> QED BY <1>2, <2>6, <3>1, <4>1
    <3>3. Stages!Finish(p, text, table) /\ UNCHANGED clean
      BY <2>11, <2>13, <3>1
    <3>4. p \in clean => Stages!ToSeal(text) = Stages!Whole(1, Lines)
      BY <2>4, <2>12, <2>13, PieceParses
    <3>5. \A u \in Stage :
            /\ table[u] = stages[u] \/ table[u] = Stages!NoStage
            /\ u \notin sender[p].stage /\ now <= stages[u].expires => table[u] = stages[u]
      BY <1>2, <2>6, <3>2
    <3> QED BY <1>2, <2>10, <2>13, <3>2, <3>3, <3>4, <3>5, FinishKeeps
  <2>14. CASE ~Stages!Parses(text)
    <3>1. /\ Stages!Keep(p, s, text)
          /\ clean' = IF ending = "line" THEN clean ELSE clean \ {p}
      BY <2>11, <2>14
    <3>2. ASSUME p \in clean' PROVE Len(text) \in 1..Lines - 1 /\ text = Stages!Whole(1, Len(text))
      <4>1. ending = "line" /\ p \in clean
        BY <3>1, <3>2
      <4>2. text = Stages!Piece(1, upto, ending)
        BY <2>12, <4>1
      <4>3. text = Stages!Whole(1, upto)
        BY <4>1, <4>2 DEF Stages!Piece
      <4>4. upto # Lines
        BY <2>4, <2>14, <4>2, PieceParses
      <4>5. Len(text) = upto
        BY <2>4, <4>3, WholeFromOne
      <4> QED BY <2>4, <4>3, <4>4, <4>5, StageConstants
    <3>3. clean' \subseteq clean \union {p}
      BY <3>1
    <3> QED BY <1>2, <2>10, <3>1, <3>2, <3>3, KeepKeeps
  <2> QED BY <2>13, <2>14
<1> QED BY <1>3, <1>4

\* Only a call about a payload touches the stages.
LEMMA StageSteps ==
    ASSUME ServerInv, StageInv, [Next]_vars
    PROVE  StageInv' /\ LosesLast
<1>1. CASE FileCall
  <2>1. now \in Nat
    BY DEF ServerInv
  <2>2. PICK p \in Payload : Stages!Send(p) \/ Stages!Resume(p)
    BY <1>1 DEF FileCall
  <2> QED BY <2>1, <2>2, SendKeeps, ResumeKeeps
<1>2. CASE UNCHANGED stageVars
  <2>1. UNCHANGED <<stages, sender, result, clean, issued>>
    BY <1>2 DEF stageVars
  <2>2. StageInv'
    BY <2>1 DEF StageInv, StagesTyped, StagesFit, OneSender, InStep, Stages!AssembledWhole,
                Stages!Staged, Stages!NoStage, Stages!Whole, Stages!Line, Kept
  <2>3. LosesLast
    BY <2>1 DEF LosesLast, Stages!Staged
  <2> QED BY <2>2, <2>3
<1>3. FileCall \/ UNCHANGED stageVars
  BY DEF Next, vars, Tick, BashCall, OpsCall, ReadSpill, OpenSpill, Parse, ParseTimesOut,
         ParseEnds, Goroutine, BashBegin, BashAnswer, OpsBegin, OpsAnswer, RunEnds, StoreOutput
<1> QED BY <1>1, <1>2, <1>3

\* The inductive invariant of the stages: each has one sender, and that of a payload sent by whole
\* lines holds just the lines its sender was told of (payload/stages.go:50).
THEOREM StageInvHolds == Spec => []StageInv
<1>1. Init => StageInv
  BY StageInitKeeps DEF Init
<1>2. ServerInv /\ StageInv /\ [Next]_vars => StageInv'
  BY StageSteps
<1> QED BY <1>1, <1>2, ServerInvHolds, PTL DEF Spec

\* A payload whose pieces end with a line is put together without loss or repetition, for any
\* number of payloads, lines and stages (payload/stages.go:50).
THEOREM PayloadsAreWhole == Spec => []AssembledWhole
<1>1. StageInv => AssembledWhole
  BY DEF StageInv, AssembledWhole
<1> QED BY <1>1, StageInvHolds, PTL

\* A stage that has not expired goes only with its payload or as the oldest of a full table
\* (payload/stages.go:85).
THEOREM StagesAreLostLast == Spec => StagesLostLast
<1>1. ServerInv /\ StageInv /\ [Next]_vars =>
        [\A s \in Stages!Staged(stages) :
           stages'[s] = Stages!NoStage /\ now <= stages[s].expires
           => \/ \E p \in Payload : s \in sender[p].stage /\ result'[p] # result[p]
              \/ Stages!Cardinality(Stages!Staged(Stages!Live)) >= MaxStages
                   /\ s \in Stages!Oldest(Stages!Live)]_(Stages!stageVars)
  <2> SUFFICES ASSUME ServerInv, StageInv, [Next]_vars PROVE LosesLast
    BY DEF LosesLast
  <2> QED BY StageSteps
<1> QED BY <1>1, ServerInvHolds, StageInvHolds, PTL
        DEF Spec, StagesLostLast, Stages!StagesLostLast

-----------------------------------------------------------------------------
(* Types. *)

ClockInv ==
  /\ now \in 1..MaxTime
  /\ parser \in [running : BOOLEAN, awaited : BOOLEAN]

LEMMA ClockInvHolds == Spec => []ClockInv
<1>1. Init => ClockInv
  BY ServerAssumption DEF ServerAssumption, Init, ClockInv, NoParse
<1>2. ASSUME ClockInv, [Next]_vars PROVE ClockInv'
  <2>1. CASE Tick
    BY <1>2, <2>1, ServerAssumption DEF ServerAssumption, ClockInv, Tick
  <2>2. CASE UNCHANGED now
    <3>1. CASE UNCHANGED parser
      BY <1>2, <2>2, <3>1 DEF ClockInv
    <3>2. CASE Parse \/ ParseTimesOut \/ ParseEnds
      <4>1. CASE Parse
        BY <1>2, <2>2, <4>1 DEF ClockInv, Parse
      <4>2. CASE ParseTimesOut
        BY <1>2, <2>2, <4>2 DEF ClockInv, ParseTimesOut
      <4>3. CASE ParseEnds
        BY <1>2, <2>2, <4>3 DEF ClockInv, ParseEnds, NoParse
      <4> QED BY <3>2, <4>1, <4>2, <4>3
    <3>3. Tick \/ UNCHANGED parser \/ Parse \/ ParseTimesOut \/ ParseEnds
      BY <1>2
      DEF Next, vars, BashCall, OpsCall, ReadSpill, OpenSpill, FileCall,
          Goroutine, BashBegin, BashAnswer, OpsBegin, OpsAnswer, RunEnds, StoreOutput
    <3> QED BY <2>1, <3>1, <3>2, <3>3
  <2>3. Tick \/ UNCHANGED now
    BY <1>2
    DEF Next, vars, Call, BashCall, OpsCall, ReadSpill, OpenSpill, FileCall, Parse, ParseTimesOut,
        ParseEnds, Goroutine, BashBegin, BashAnswer, OpsBegin, OpsAnswer, RunEnds, StoreOutput
  <2> QED BY <2>1, <2>2, <2>3
<1> QED BY <1>1, <1>2, PTL DEF Spec

\* Every table of the server holds what its type says, and no more stages than fit
\* (payload/stages.go:85).
THEOREM TypeCorrect == Spec => []TypeOK
<1>1. ASSUME ServerInv, StageInv, ClockInv PROVE TypeOK
  <2>1. Bash!TableTypeOK /\ Ops!TableTypeOK
    <3>1. Bash!Status = BashP!Status /\ Ops!Status = OpsP!Status
      BY DEF Bash!Status, BashP!Status, Ops!Status, OpsP!Status,
             Bash!Ended, BashP!Ended, Ops!Ended, OpsP!Ended
    <3>2. BashP!TableTypeOK /\ OpsP!TableTypeOK
      BY <1>1 DEF ServerInv, BashP!TableInv, OpsP!TableInv
    <3>3. Bash!TableTypeOK
      BY <3>1, <3>2 DEF BashP!TableTypeOK, Bash!TableTypeOK
    <3>4. Ops!TableTypeOK
      BY <3>1, <3>2 DEF OpsP!TableTypeOK, Ops!TableTypeOK
    <3> QED BY <3>3, <3>4
  <2>2. Spills!SpillTypeOK
    BY <1>1 DEF ServerInv, SpillInv, Spills!SpillTypeOK, Spills!SpillTypeOK
  <2>3. Stages!StageTypeOK
    BY <1>1, StagesCounted
    DEF StageInv, StagesTyped, StagesFit, OneSender, Stages!StageTypeOK, Kept
  <2> QED BY <1>1, <2>1, <2>2, <2>3 DEF TypeOK, ServerInv, JobsAgree, Jobs, ClockInv
<1> QED BY <1>1, ServerInvHolds, StageInvHolds, ClockInvHolds, PTL

=============================================================================
