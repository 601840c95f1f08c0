----------------------------- MODULE TaskTable -----------------------------
(***************************************************************************)
(* The table of asynchronous calls: bash/task.go, and ops/task.go, which   *)
(* is the same without expiry.  Each task has a goroutine of its own; the  *)
(* calls of the client and the two locked sections of the goroutine are    *)
(* one step each.  What the goroutine does in between is the caller's.     *)
(***************************************************************************)
EXTENDS Naturals, FiniteSets

CONSTANTS
  Task,     \* task ids, each used once
  Maximum,  \* slots
  Expiring, \* whether ended tasks expire
  Lifetime  \* how long an ended task is kept

TableAssumption ==
  IsFiniteSet(Task) /\ Maximum \in Nat \ {0} /\ Expiring \in BOOLEAN /\ Lifetime \in Nat

VARIABLES
  now,     \* the clock
  entry,   \* task -> its entry in the table
  thread,  \* task -> its goroutine
  asked,   \* the tasks whose context is cancelled
  used     \* the ids handed out

tableVars == <<entry, thread, asked, used>>

Ended == {"done", "failed", "cancelled"}
Status == {"none", "queued", "running", "cancelling"} \union Ended

NoEntry == [status |-> "none", expires |-> 0]

TableInit ==
  /\ entry = [t \in Task |-> NoEntry]
  /\ thread = [t \in Task |-> "none"]
  /\ asked = {}
  /\ used = {}

Held(entries) == {t \in Task : entries[t].status # "none"}

Expired(e) == Expiring /\ now > e.expires

ReapEvery == [t \in Task |-> IF Expired(entry[t]) THEN NoEntry ELSE entry[t]]

\* reapLocked: what is queued, running or being cancelled stays.
Reap == [t \in Task |-> IF entry[t].status \in Ended /\ Expired(entry[t]) THEN NoEntry ELSE entry[t]]

Start(t) ==
  /\ t \notin used
  /\ Cardinality(Held(Reap)) < Maximum
  /\ entry' = [Reap EXCEPT ![t] = [status |-> "queued", expires |-> now + Lifetime]]
  /\ thread' = [thread EXCEPT ![t] = "spawned"]
  /\ used' = used \union {t}
  /\ UNCHANGED asked

\* The limit is reached: no goroutine starts and the id is dropped.
Refuse ==
  /\ Cardinality(Held(Reap)) >= Maximum
  /\ entry' = Reap
  /\ UNCHANGED <<thread, asked, used>>

\* The goroutine says it is running, whatever the status is by now.
Begin(t) ==
  /\ thread[t] = "spawned"
  /\ thread' = [thread EXCEPT ![t] = "working"]
  /\ entry' = [entry EXCEPT ![t].status = "running"]
  /\ UNCHANGED <<asked, used>>

RecordByStatus(t, outcome) ==
  /\ thread[t] = "working"
  /\ thread' = [thread EXCEPT ![t] = "none"]
  /\ entry' = [entry EXCEPT ![t] = [status |-> IF @.status = "cancelling" THEN "cancelled" ELSE outcome,
                                    expires |-> now + Lifetime]]
  /\ UNCHANGED <<asked, used>>

\* The work has returned an outcome; a cancelled context overrides it.
Record(t, outcome) ==
  /\ thread[t] = "working"
  /\ thread' = [thread EXCEPT ![t] = "none"]
  /\ entry' = [entry EXCEPT ![t] = [status |-> IF t \in asked THEN "cancelled" ELSE outcome,
                                    expires |-> now + Lifetime]]
  /\ UNCHANGED <<asked, used>>

Look(t) ==
  /\ t \in used
  /\ entry' = Reap
  /\ UNCHANGED <<thread, asked, used>>

\* A task that has ended leaves the table with its result.
Collect(t) ==
  /\ t \in used
  /\ entry' = [Reap EXCEPT ![t] = IF @.status \in Ended THEN NoEntry ELSE @]
  /\ UNCHANGED <<thread, asked, used>>

Cancel(t) ==
  /\ entry[t].status \in {"queued", "running"}
  /\ asked' = asked \union {t}
  /\ entry' = [entry EXCEPT ![t].status = "cancelling"]
  /\ UNCHANGED <<thread, used>>

-----------------------------------------------------------------------------

TableTypeOK ==
  /\ entry \in [Task -> [status : Status, expires : Nat]]
  /\ thread \in [Task -> {"none", "spawned", "working"}]
  /\ asked \subseteq Task /\ used \subseteq Task

\* Every slot is accounted for: no more of them than the limit, one for each goroutine, and an
\* entry without a goroutine has ended.
SlotsAccounted ==
  /\ Cardinality(Held(entry)) <= Maximum
  /\ \A t \in Task :
       /\ thread[t] # "none" <=> entry[t].status \in {"queued", "running", "cancelling"}
       /\ entry[t].status = "queued" => thread[t] = "spawned" /\ t \notin asked
       /\ entry[t].status = "cancelling" => t \in asked
       /\ entry[t].status = "cancelled" => t \in asked

\* The table implements the promise of an asynchronous call.
Phase(t) ==
  IF entry[t].status \in Ended THEN entry[t].status
  ELSE IF entry[t].status # "none" THEN "active"
  ELSE IF t \in used THEN "gone" ELSE "none"

=============================================================================
