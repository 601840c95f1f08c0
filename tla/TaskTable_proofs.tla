-------------------------- MODULE TaskTable_proofs --------------------------
(***************************************************************************)
(* What each operation of a task table preserves, and the step of the      *)
(* promised lifecycle it implements, for any number of tasks and slots.    *)
(* The theorems about a server cite these lemmas for both of its tables.   *)
(***************************************************************************)
EXTENDS TaskTable, FiniteSetTheorems, TLAPS

Life == INSTANCE TaskLifecycle WITH phase <- [t \in Task |-> Phase(t)]

\* An id is handed out before anything is known of its task.
HandedOut ==
  /\ asked \subseteq used
  /\ \A t \in Task : entry[t].status # "none" => t \in used

TableInv == TableTypeOK /\ SlotsAccounted /\ HandedOut

Entry == [status : Status, expires : Nat]

LEMMA EntryType ==
    ASSUME TableTypeOK, NEW t \in Task
    PROVE  /\ entry[t] \in Entry /\ entry[t].status \in Status /\ entry[t].expires \in Nat
           /\ thread[t] \in {"none", "spawned", "working"}
  BY DEF TableTypeOK, Entry

\* Reaping keeps the sort of the table and every task that has not ended.
LEMMA ReapKeeps ==
    ASSUME TableTypeOK
    PROVE  /\ Reap \in [Task -> Entry]
           /\ \A t \in Task : \/ Reap[t] = entry[t]
                              \/ Reap[t] = NoEntry /\ entry[t].status \in Ended
  BY EntryType DEF Reap, NoEntry, Entry, Status

\* What is held after fewer entries are kept is no more than before.
LEMMA HeldFewer ==
    ASSUME TableAssumption, NEW e, NEW f,
           \A t \in Task : e[t].status # "none" => f[t].status # "none"
    PROVE  /\ IsFiniteSet(Held(e)) /\ IsFiniteSet(Held(f))
           /\ Cardinality(Held(e)) \in Nat /\ Cardinality(Held(f)) \in Nat
           /\ Cardinality(Held(e)) <= Cardinality(Held(f))
<1>1. Held(e) \subseteq Held(f) /\ Held(f) \subseteq Task
  BY DEF Held
<1>2. IsFiniteSet(Held(f))
  BY <1>1, FS_Subset DEF TableAssumption
<1> QED BY <1>1, <1>2, FS_Subset, FS_CardinalityType

\* The reaped table holds no more than the table.
LEMMA ReapHolds ==
    ASSUME TableAssumption, TableTypeOK, SlotsAccounted
    PROVE  /\ Cardinality(Held(Reap)) <= Maximum
           /\ Cardinality(Held(Reap)) \in Nat
<1>1. \A t \in Task : Reap[t].status # "none" => entry[t].status # "none"
  BY ReapKeeps DEF NoEntry
<1> QED BY <1>1, HeldFewer DEF SlotsAccounted, TableAssumption

\* An empty table.
LEMMA InitKeeps ==
    ASSUME TableAssumption, TableInit
    PROVE  TableInv
<1>1. TableTypeOK
  BY DEF TableInit, TableTypeOK, NoEntry, Status
<1>2. Held(entry) = {}
  BY DEF Held, TableInit, NoEntry
<1>3. Cardinality(Held(entry)) <= Maximum
  BY <1>2, FS_EmptySet DEF TableAssumption
<1> QED BY <1>1, <1>3 DEF TableInit, TableInv, SlotsAccounted, HandedOut, NoEntry

-----------------------------------------------------------------------------
(* One lemma for each operation of the table. *)

LEMMA StartKeeps ==
    ASSUME TableAssumption, now \in Nat, TableInv, NEW t \in Task, Start(t)
    PROVE  TableInv'
<1> USE DEF TableInv
<1>1. entry' = [Reap EXCEPT ![t] = [status |-> "queued", expires |-> now + Lifetime]]
  BY DEF Start
<1>2. now + Lifetime \in Nat
  BY DEF TableAssumption
<1>3. entry' \in [Task -> Entry]
  BY <1>1, <1>2, ReapKeeps DEF Entry, Status
<1>4. TableTypeOK'
  BY <1>3 DEF Start, TableTypeOK, Entry
<1>5. Cardinality(Held(entry')) <= Maximum
  <2>1. Held(entry') \subseteq Held(Reap) \union {t}
    BY <1>1, ReapKeeps DEF Held
  <2>2. IsFiniteSet(Held(Reap)) /\ Cardinality(Held(Reap)) \in Nat
    BY HeldFewer
  <2>3. /\ IsFiniteSet(Held(Reap) \union {t})
        /\ Cardinality(Held(Reap) \union {t}) <= Cardinality(Held(Reap)) + 1
    BY <2>2, FS_AddElement
  <2>4. /\ Cardinality(Held(entry')) <= Cardinality(Held(Reap) \union {t})
        /\ Cardinality(Held(entry')) \in Nat /\ Cardinality(Held(Reap) \union {t}) \in Nat
    BY <2>1, <2>3, FS_Subset, FS_CardinalityType
  <2>5. Cardinality(Held(Reap)) < Maximum
    BY DEF Start
  <2> QED BY <2>2, <2>3, <2>4, <2>5 DEF TableAssumption
<1>6. ASSUME NEW u \in Task
      PROVE  /\ thread'[u] # "none" <=> entry'[u].status \in {"queued", "running", "cancelling"}
             /\ entry'[u].status = "queued" => thread'[u] = "spawned" /\ u \notin asked'
             /\ entry'[u].status \in {"cancelling", "cancelled"} => u \in asked'
             /\ entry'[u].status # "none" => u \in used'
  <2>1. CASE u = t
    BY <2>1, <1>1, ReapKeeps DEF Start, TableTypeOK, HandedOut
  <2>2. CASE u # t
    <3>1. entry'[u] = Reap[u] /\ thread'[u] = thread[u] /\ asked' = asked /\ (u \in used' <=> u \in used)
      BY <2>2, <1>1, ReapKeeps DEF Start, TableTypeOK
    <3>2. CASE Reap[u] = entry[u]
      BY <3>1, <3>2 DEF SlotsAccounted, HandedOut, Start
    <3>3. CASE Reap[u] = NoEntry /\ entry[u].status \in Ended
      BY <3>1, <3>3 DEF SlotsAccounted, NoEntry, Ended
    <3> QED BY <3>2, <3>3, ReapKeeps
  <2> QED BY <2>1, <2>2
<1>7. SlotsAccounted'
  BY <1>5, <1>6 DEF SlotsAccounted, Held
<1>8. HandedOut'
  BY <1>6 DEF HandedOut, Start
<1> QED BY <1>4, <1>7, <1>8

\* Dropping results of tasks that have ended, and nothing else.
LEMMA DropKeeps ==
    ASSUME TableAssumption, TableInv, entry' \in [Task -> Entry],
           \A t \in Task : \/ entry'[t] = entry[t]
                           \/ entry'[t] = NoEntry /\ entry[t].status \in Ended,
           UNCHANGED <<thread, asked, used>>
    PROVE  /\ TableInv'
           /\ Life!Forget({t \in Task : entry'[t] # entry[t]})
<1> USE DEF TableInv
<1>1. TableTypeOK'
  BY DEF TableTypeOK, Entry
<1>2. \A t \in Task : entry'[t].status # "none" => entry[t].status # "none"
  BY DEF NoEntry
<1>3. Cardinality(Held(entry')) <= Maximum
  BY <1>2, HeldFewer DEF SlotsAccounted, TableAssumption
<1>4. \A t \in Task :
        /\ thread'[t] # "none" <=> entry'[t].status \in {"queued", "running", "cancelling"}
        /\ entry'[t].status = "queued" => thread'[t] = "spawned" /\ t \notin asked'
        /\ entry'[t].status = "cancelling" => t \in asked'
        /\ entry'[t].status = "cancelled" => t \in asked'
  BY DEF SlotsAccounted, NoEntry, Ended
<1>5. SlotsAccounted' /\ HandedOut'
  BY <1>2, <1>3, <1>4 DEF SlotsAccounted, HandedOut, Held
<1>6. Life!Forget({t \in Task : entry'[t] # entry[t]})
  <2>1. \A t \in Task : entry'[t] # entry[t] => Phase(t) \in Ended
    BY DEF Phase, Ended
  <2>2. ASSUME NEW t \in Task
        PROVE  Phase(t)' = IF entry'[t] # entry[t] THEN "gone" ELSE Phase(t)
    BY <2>2 DEF Phase, NoEntry, Ended, HandedOut
  <2> QED BY <2>1, <2>2 DEF Life!Forget, Life!Outcome, Ended
<1> QED BY <1>1, <1>5, <1>6

\* A refused start, a look and a collection forget results and do nothing else.
LEMMA ForgettingKeeps ==
    ASSUME TableAssumption, TableInv, \/ Refuse
                                      \/ \E t \in Task : Look(t) \/ Collect(t)
    PROVE  TableInv' /\ Life!Next
<1>1. /\ entry' \in [Task -> Entry]
      /\ \A t \in Task : \/ entry'[t] = entry[t]
                         \/ entry'[t] = NoEntry /\ entry[t].status \in Ended
      /\ UNCHANGED <<thread, asked, used>>
  <2>1. CASE entry' = Reap /\ UNCHANGED <<thread, asked, used>>
    BY <2>1, ReapKeeps DEF TableInv
  <2>2. ASSUME NEW t \in Task, Collect(t) PROVE <1>1!:
    <3>1. NoEntry \in Entry
      BY DEF NoEntry, Entry, Status
    <3> QED BY <2>2, <3>1, ReapKeeps DEF Collect, TableInv
  <2> QED BY <2>1, <2>2 DEF Refuse, Look
<1>2. TableInv' /\ Life!Forget({t \in Task : entry'[t] # entry[t]})
  BY <1>1, DropKeeps
<1> QED BY <1>2 DEF Life!Next

\* The other operations move one task along and hold as many as before.
LEMMA MoveKeeps ==
    ASSUME TableAssumption, TableInv, NEW t \in Task, NEW e \in Entry,
           entry[t].status # "none", e.status # "none",
           entry' = [entry EXCEPT ![t] = e],
           thread' \in [Task -> {"none", "spawned", "working"}],
           \A u \in Task \ {t} : thread'[u] = thread[u],
           asked' = asked \/ asked' = asked \union {t}, used' = used,
           /\ thread'[t] # "none" <=> e.status \in {"queued", "running", "cancelling"}
           /\ e.status = "queued" => thread'[t] = "spawned" /\ t \notin asked'
           /\ e.status \in {"cancelling", "cancelled"} => t \in asked'
    PROVE  TableInv'
<1> USE DEF TableInv
<1>1. entry' \in [Task -> Entry] /\ TableTypeOK'
  BY DEF TableTypeOK, Entry
<1>2. \A u \in Task : entry'[u].status # "none" => entry[u].status # "none"
  BY DEF TableTypeOK
<1>3. Cardinality(Held(entry')) <= Maximum
  <2>1. Cardinality(Held(entry')) <= Cardinality(Held(entry)) /\ Cardinality(Held(entry')) \in Nat
    BY <1>2, HeldFewer
  <2> QED BY <2>1, <1>2, HeldFewer DEF SlotsAccounted, TableAssumption
<1>4. \A u \in Task :
        /\ thread'[u] # "none" <=> entry'[u].status \in {"queued", "running", "cancelling"}
        /\ entry'[u].status = "queued" => thread'[u] = "spawned" /\ u \notin asked'
        /\ entry'[u].status = "cancelling" => u \in asked'
        /\ entry'[u].status = "cancelled" => u \in asked'
  BY DEF SlotsAccounted, TableTypeOK
<1>5. SlotsAccounted'
  BY <1>3, <1>4 DEF SlotsAccounted, Held
<1>6. HandedOut'
  BY <1>2 DEF HandedOut
<1> QED BY <1>1, <1>5, <1>6

LEMMA BeginKeeps ==
    ASSUME TableAssumption, TableInv, NEW t \in Task, Begin(t)
    PROVE  TableInv'
<1> DEFINE e == [entry[t] EXCEPT !.status = "running"]
<1>1. e \in Entry /\ e.status = "running" /\ entry' = [entry EXCEPT ![t] = e]
  BY EntryType DEF Begin, TableInv, TableTypeOK, Entry, Status
<1>2. entry[t].status # "none"
  BY DEF Begin, TableInv, SlotsAccounted
<1>3. /\ thread' \in [Task -> {"none", "spawned", "working"}] /\ thread'[t] = "working"
      /\ \A u \in Task \ {t} : thread'[u] = thread[u]
  BY DEF Begin, TableInv, TableTypeOK
<1> HIDE DEF e
<1> QED BY <1>1, <1>2, <1>3, MoveKeeps DEF Begin

LEMMA RecordKeeps ==
    ASSUME TableAssumption, now \in Nat, TableInv,
           NEW t \in Task, NEW outcome \in {"done", "failed"}, Record(t, outcome)
    PROVE  TableInv'
<1> DEFINE e == [status |-> IF t \in asked THEN "cancelled" ELSE outcome,
                 expires |-> now + Lifetime]
<1>1. e \in Entry /\ e.status \in Ended /\ (e.status = "cancelled" => t \in asked)
  BY DEF TableAssumption, Entry, Status, Ended
<1>2. entry' = [entry EXCEPT ![t] = e] /\ entry[t].status # "none"
  BY DEF Record, TableInv, SlotsAccounted
<1>3. /\ thread' \in [Task -> {"none", "spawned", "working"}] /\ thread'[t] = "none"
      /\ \A u \in Task \ {t} : thread'[u] = thread[u]
  BY DEF Record, TableInv, TableTypeOK
<1> HIDE DEF e
<1> QED BY <1>1, <1>2, <1>3, MoveKeeps DEF Record, Ended

LEMMA CancelKeeps ==
    ASSUME TableAssumption, TableInv, NEW t \in Task, Cancel(t)
    PROVE  TableInv'
<1> DEFINE e == [entry[t] EXCEPT !.status = "cancelling"]
<1>1. e \in Entry /\ e.status = "cancelling" /\ entry' = [entry EXCEPT ![t] = e]
  BY EntryType DEF Cancel, TableInv, TableTypeOK, Entry, Status
<1>2. entry[t].status # "none" /\ thread[t] # "none"
  BY DEF Cancel, TableInv, SlotsAccounted
<1>3. /\ thread' \in [Task -> {"none", "spawned", "working"}] /\ thread'[t] # "none"
      /\ \A u \in Task \ {t} : thread'[u] = thread[u]
  BY <1>2 DEF Cancel, TableInv, TableTypeOK
<1>4. asked' = asked \union {t} /\ used' = used
  BY DEF Cancel
<1> HIDE DEF e
<1> QED BY <1>1, <1>2, <1>3, <1>4, MoveKeeps

-----------------------------------------------------------------------------
(* The step of the lifecycle each operation takes. *)

LEMMA InitLife ==
    ASSUME TableInit
    PROVE  Life!Init
  BY DEF TableInit, Life!Init, Phase, NoEntry, Ended

LEMMA StartLife ==
    ASSUME TableInv, NEW t \in Task, Start(t)
    PROVE  Life!Next
<1> DEFINE dropped == {u \in Task : Reap[u] # entry[u]}
<1>1. entry' = [Reap EXCEPT ![t] = [status |-> "queued", expires |-> now + Lifetime]]
  BY DEF Start
<1>2. entry[t].status = "none"
  BY DEF Start, TableInv, HandedOut
<1>3. \A u \in Task : Reap[u] # entry[u] => Phase(u) \in Ended
  BY ReapKeeps DEF Phase, Ended, TableInv
<1>4. Phase(t) = "none" /\ t \notin dropped
  BY <1>2, <1>3, ReapKeeps DEF Phase, Start, Ended, TableInv
<1>5. Phase(t)' = "active"
  BY <1>1, ReapKeeps DEF Phase, Ended, TableInv
<1>6. ASSUME NEW u \in Task, u # t
      PROVE  Phase(u)' = IF u \in dropped THEN "gone" ELSE Phase(u)
  <2>1. entry'[u] = Reap[u] /\ (u \in used' <=> u \in used)
    BY <1>1, <1>6, ReapKeeps DEF Start, TableInv
  <2> QED BY <2>1, ReapKeeps DEF Phase, NoEntry, Ended, TableInv, HandedOut
<1>7. Life!ForgetAndStart(dropped, t)
  BY <1>3, <1>4, <1>5, <1>6 DEF Life!ForgetAndStart, Life!Outcome, Ended, Start
<1> QED BY <1>7 DEF Life!Next

LEMMA BeginLife ==
    ASSUME TableInv, NEW t \in Task, Begin(t)
    PROVE  \A u \in Task : Phase(u)' = Phase(u)
<1>1. Phase(t) = "active"
  BY DEF Begin, Phase, Ended, TableInv, SlotsAccounted
<1>2. entry'[t].status = "running"
  BY EntryType DEF Begin, TableInv, TableTypeOK
<1>3. \A u \in Task \ {t} : entry'[u] = entry[u]
  BY DEF Begin, TableInv, TableTypeOK
<1> QED BY <1>1, <1>2, <1>3 DEF Phase, Ended, Begin

LEMMA RecordLife ==
    ASSUME TableInv, NEW t \in Task, NEW outcome \in {"done", "failed"}, Record(t, outcome)
    PROVE  Life!Next
<1>1. Phase(t) = "active"
  BY DEF Record, Phase, Ended, TableInv, SlotsAccounted
<1>2. Phase(t)' = IF t \in asked THEN "cancelled" ELSE outcome
  BY DEF Record, Phase, TableInv, TableTypeOK, Ended
<1>3. \A u \in Task \ {t} : Phase(u)' = Phase(u)
  BY DEF Record, Phase, TableInv, TableTypeOK
<1>4. Life!End(t)
  BY <1>1, <1>2, <1>3 DEF Life!End, Life!Outcome, Record
<1> QED BY <1>4 DEF Life!Next

LEMMA CancelLife ==
    ASSUME TableInv, NEW t \in Task, Cancel(t)
    PROVE  Life!Next
<1>1. Phase(t) = "active"
  BY DEF Cancel, Phase, Ended
<1>2. \A u \in Task : Phase(u)' = Phase(u)
  BY DEF Cancel, Phase, Ended, TableInv, TableTypeOK
<1>3. Life!Cancel(t)
  BY <1>1, <1>2 DEF Life!Cancel, Cancel
<1> QED BY <1>3 DEF Life!Next

-----------------------------------------------------------------------------
(* Any operation of the table, or none. *)

Operation ==
  \/ Refuse
  \/ \E t \in Task : \/ Start(t) \/ Look(t) \/ Collect(t) \/ Cancel(t) \/ Begin(t)
                     \/ \E outcome \in {"done", "failed"} : Record(t, outcome)
  \/ UNCHANGED tableVars

LifeStep == [Life!Next]_<<[t \in Task |-> Phase(t)], asked>>

LEMMA OperationKeeps ==
    ASSUME TableAssumption, now \in Nat, TableInv, Operation
    PROVE  TableInv' /\ LifeStep
<1>1. CASE Refuse \/ \E t \in Task : Look(t) \/ Collect(t)
  BY <1>1, ForgettingKeeps DEF LifeStep
<1>2. ASSUME NEW t \in Task, Start(t) PROVE TableInv' /\ LifeStep
  BY <1>2, StartKeeps, StartLife DEF LifeStep
<1>3. ASSUME NEW t \in Task, Cancel(t) PROVE TableInv' /\ LifeStep
  BY <1>3, CancelKeeps, CancelLife DEF LifeStep
<1>4. ASSUME NEW t \in Task, Begin(t) PROVE TableInv' /\ LifeStep
  <2>1. \A u \in Task : Phase(u)' = Phase(u)
    BY <1>4, BeginLife
  <2>2. UNCHANGED <<[u \in Task |-> Phase(u)], asked>>
    BY <1>4, <2>1 DEF Begin
  <2> QED BY <1>4, <2>2, BeginKeeps DEF LifeStep
<1>5. ASSUME NEW t \in Task, NEW outcome \in {"done", "failed"}, Record(t, outcome)
      PROVE  TableInv' /\ LifeStep
  BY <1>5, RecordKeeps, RecordLife DEF LifeStep
<1>6. CASE UNCHANGED tableVars
  <2>1. TableInv'
    BY <1>6 DEF tableVars, TableInv, TableTypeOK, SlotsAccounted, HandedOut, Held
  <2>2. UNCHANGED <<[u \in Task |-> Phase(u)], asked>>
    BY <1>6 DEF tableVars, Phase
  <2> QED BY <2>1, <2>2 DEF LifeStep
<1> QED BY <1>1, <1>2, <1>3, <1>4, <1>5, <1>6 DEF Operation

=============================================================================
