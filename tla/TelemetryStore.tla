--------------------------- MODULE TelemetryStore ---------------------------
(***************************************************************************)
(* Local usage figures (telemetry/store.go).  Every server process is a    *)
(* session with a writer goroutine; the writers share one directory, which *)
(* the vault UI sums up.  A snapshot holds all figures of its session, so  *)
(* it is represented by the number of records it was taken after.          *)
(***************************************************************************)
EXTENDS Naturals, FiniteSets, FiniteSetsExt

CONSTANTS
  Session,     \* server processes
  SessionCap,  \* sessions kept on disk
  Retention,   \* how long a snapshot is kept after it was written
  MaxRecords,  \* bound: session -> its records
  MaxFailures, \* bound: writes that fail
  MaxTime      \* bound: ticks

ASSUME StoreAssumption ==
  /\ SessionCap \in Nat \ {0} /\ Retention \in Nat
  /\ MaxRecords \in [Session -> Nat] /\ MaxFailures \in Nat /\ MaxTime \in Nat \ {0}

VARIABLES
  now,        \* the clock
  disk,       \* the snapshots in the directory: [session, gen, version, at]
  version,    \* session -> records so far
  flushed,    \* session -> records of its last durable snapshot
  generation, \* session -> generation of its last durable snapshot
  writer,     \* session -> its flush in progress
  failures,   \* failed writes
  load        \* the Load in progress

vars == <<now, disk, version, flushed, generation, writer, failures, load>>

Idle == [pc |-> "idle", version |-> 0, listed |-> {}, doomed |-> {}, crowded |-> FALSE]
Gone == [Idle EXCEPT !.pc = "gone"]

NoLoad == [pc |-> "idle", pass |-> 1, listed |-> {}, todo |-> {}, best |-> {}, warned |-> {}]

Init ==
  /\ now = 1
  /\ disk = {}
  /\ version = [s \in Session |-> 0]
  /\ flushed = [s \in Session |-> 0]
  /\ generation = [s \in Session |-> 0]
  /\ writer = [s \in Session |-> Idle]
  /\ failures = 0
  /\ load = NoLoad

Of(s, snapshots) == {f \in snapshots : f.session = s}
Newest(s, snapshots) == CHOOSE f \in Of(s, snapshots) : \A g \in Of(s, snapshots) : g.gen <= f.gen
SessionsIn(snapshots) == {f.session : f \in snapshots}

Tick ==
  /\ now < MaxTime
  /\ now' = now + 1
  /\ UNCHANGED <<disk, version, flushed, generation, writer, failures, load>>

-----------------------------------------------------------------------------
\* Every Record method adds to the figures and bumps the version under the lock.
Record(s) ==
  /\ writer[s].pc # "gone"
  /\ version[s] < MaxRecords[s]
  /\ version' = [version EXCEPT ![s] = @ + 1]
  /\ UNCHANGED <<now, disk, flushed, generation, writer, failures, load>>

\* A tick of the writer, or its last flush: the figures are copied under the lock.
FlushBegin(s) ==
  /\ writer[s].pc = "idle"
  /\ version[s] # flushed[s]
  /\ writer' = [writer EXCEPT ![s] = [Idle EXCEPT !.pc = "write", !.version = version[s]]]
  /\ UNCHANGED <<now, disk, version, flushed, generation, failures, load>>

\* Any error of writeSnapshot ends the flush; the next tick tries again.
WriteFails(s) ==
  /\ writer[s].pc = "write"
  /\ failures < MaxFailures
  /\ failures' = failures + 1
  /\ writer' = [writer EXCEPT ![s] = Idle]
  /\ UNCHANGED <<now, disk, version, flushed, generation, load>>

SameGeneration(s) == generation[s]
NextGeneration(s) == generation[s] + 1

\* writeSnapshot: a synced temporary file is renamed to a name that did not exist.
Publish(s) ==
  /\ writer[s].pc = "write"
  /\ \A f \in Of(s, disk) : f.gen # NextGeneration(s)
  /\ disk' = disk \union {[session |-> s, gen |-> NextGeneration(s), version |-> writer[s].version, at |-> now]}
  /\ writer' = [writer EXCEPT ![s].pc = "note"]
  /\ UNCHANGED <<now, version, flushed, generation, failures, load>>

NoteCurrent(s) ==
  /\ writer[s].pc = "note"
  /\ flushed' = [flushed EXCEPT ![s] = version[s]]
  /\ generation' = [generation EXCEPT ![s] = NextGeneration(s)]
  /\ writer' = [writer EXCEPT ![s].pc = "remove"]
  /\ UNCHANGED <<now, disk, version, failures, load>>

Note(s) ==
  /\ writer[s].pc = "note"
  /\ flushed' = [flushed EXCEPT ![s] = Max({@, writer[s].version})]
  /\ generation' = [generation EXCEPT ![s] = NextGeneration(s)]
  /\ writer' = [writer EXCEPT ![s].pc = "remove"]
  /\ UNCHANGED <<now, disk, version, failures, load>>

\* The generation before is superseded; a failure to remove it is ignored.
RemovePrevious(s) ==
  /\ writer[s].pc = "remove"
  /\ \/ disk' = {f \in disk : ~(f.session = s /\ f.gen = generation[s] - 1)}
     \/ UNCHANGED disk
  /\ writer' = [writer EXCEPT ![s].pc = "list"]
  /\ UNCHANGED <<now, version, flushed, generation, failures, load>>

\* prune lists the directory, and then asks for the time of each newest snapshot it listed.
PruneList(s) ==
  /\ writer[s].pc = "list"
  /\ writer' = [writer EXCEPT ![s].pc = "decide",
                              ![s].listed = {Newest(u, disk) : u \in SessionsIn(disk)}]
  /\ UNCHANGED <<now, disk, version, flushed, generation, failures, load>>

\* A snapshot that has vanished since it was listed has the zero time.
TimeOf(f) == IF f \in disk THEN f.at ELSE 0

Outdated(s, listed) == {f \in listed : f.session # s /\ now > TimeOf(f) + Retention}

\* Of what retention keeps, the oldest go until the cap is met; sessions of one age in any order.
Excess(s, listed) ==
  LET kept == listed \ Outdated(s, listed)
      others == {f \in kept : f.session # s}
      over == Cardinality(kept) - SessionCap
  IN IF Cardinality(kept) <= SessionCap
     THEN {{}}
     ELSE {out \in SUBSET others :
             /\ Cardinality(out) = over
             /\ \A f \in out, g \in others \ out : TimeOf(f) <= TimeOf(g)}

PruneDecide(s) ==
  /\ writer[s].pc = "decide"
  /\ \E excess \in Excess(s, writer[s].listed) :
       writer' = [writer EXCEPT ![s].pc = "prune", ![s].listed = {}, ![s].crowded = excess # {},
                                ![s].doomed = Outdated(s, writer[s].listed) \union excess]
  /\ UNCHANGED <<now, disk, version, flushed, generation, failures, load>>

RemovableAll(s) == {f \in disk : \E d \in writer[s].doomed : f.session = d.session}

\* The generations of a doomed session up to the one that was listed.
Removable(s) ==
  {f \in disk : \E d \in writer[s].doomed : f.session = d.session /\ f.gen <= d.gen}

AnyRemovable(s) == Removable(s)

\* They go from the first to the last.
NextRemovable(s) == {f \in Removable(s) : \A g \in Of(f.session, Removable(s)) : f.gen <= g.gen}

PruneRemove(s) ==
  /\ writer[s].pc = "prune"
  /\ \E f \in NextRemovable(s) : disk' = disk \ {f}
  /\ UNCHANGED <<now, version, flushed, generation, writer, failures, load>>

PruneEnd(s) ==
  /\ writer[s].pc = "prune"
  /\ Removable(s) = {}
  /\ writer' = [writer EXCEPT ![s] = Idle]
  /\ UNCHANGED <<now, disk, version, flushed, generation, failures, load>>

\* The process is killed, or ends with its last flush.
Quit(s) ==
  /\ writer[s].pc # "gone"
  /\ writer' = [writer EXCEPT ![s] = Gone]
  /\ UNCHANGED <<now, disk, version, flushed, generation, failures, load>>

Flush(s) ==
  \/ FlushBegin(s) \/ Publish(s) \/ Note(s) \/ RemovePrevious(s)
  \/ PruneList(s) \/ PruneDecide(s) \/ PruneRemove(s) \/ PruneEnd(s)

-----------------------------------------------------------------------------
\* Load lists the directory and reads what it listed.
LoadList ==
  /\ load.pc = "idle"
  /\ load' = [NoLoad EXCEPT !.pc = "scan", !.listed = disk, !.todo = disk]
  /\ UNCHANGED <<now, disk, version, flushed, generation, writer, failures>>

Better(best, f) ==
  IF \E g \in Of(f.session, best) : g.gen >= f.gen THEN best ELSE (best \ Of(f.session, best)) \union {f}

\* It reads in the order of the file names.
NextToRead == CHOOSE f \in load.todo : TRUE

LoadRead ==
  /\ load.todo # {}
  /\ NextToRead \in disk
  /\ load' = [load EXCEPT !.todo = @ \ {NextToRead}, !.best = Better(@, NextToRead)]
  /\ UNCHANGED <<now, disk, version, flushed, generation, writer, failures>>

SkipMissing == [load EXCEPT !.todo = @ \ {NextToRead}]

\* A listed snapshot has vanished: the first time everything is scanned again, then it is a
\* warning.
AfterMiss ==
  IF load.pass = 1
  THEN [NoLoad EXCEPT !.pc = "scan", !.pass = 2, !.listed = disk, !.todo = disk]
  ELSE [load EXCEPT !.todo = @ \ {NextToRead}, !.warned = @ \union {NextToRead.session}]

LoadMisses ==
  /\ load.todo # {}
  /\ NextToRead \notin disk
  /\ load' = AfterMiss
  /\ UNCHANGED <<now, disk, version, flushed, generation, writer, failures>>

LoadReturn ==
  /\ load.pc = "scan" /\ load.todo = {}
  /\ load' = NoLoad
  /\ UNCHANGED <<now, disk, version, flushed, generation, writer, failures>>

Next ==
  \/ Tick
  \/ \E s \in Session : Record(s) \/ Flush(s) \/ WriteFails(s) \/ Quit(s)
  \/ LoadList \/ LoadRead \/ LoadMisses \/ LoadReturn

\* The writer of a process that lives goes on: its ticker fires and its file operations return.
Spec == Init /\ [][Next]_vars /\ \A s \in Session : WF_vars(Flush(s))

-----------------------------------------------------------------------------
\* Types; generations count from one and are never ahead of the writer by more than the one it
\* is publishing.
TypeOK ==
  /\ now \in 1..MaxTime
  /\ \A f \in disk :
       /\ f.session \in Session /\ f.at \in 1..now /\ f.version \in 1..version[f.session]
       /\ f.gen \in 1..generation[f.session] + 1
  /\ \A s \in Session :
       /\ version[s] \in 0..MaxRecords[s] /\ flushed[s] \in 0..version[s]
       /\ generation[s] \in Nat
       /\ writer[s].pc \in {"idle", "write", "note", "remove", "list", "decide", "prune", "gone"}
  /\ failures \in 0..MaxFailures
  /\ load.pc \in {"idle", "scan"} /\ load.pass \in 1..2

\* What a reader of the directory would count for a session.
Persisted(s) == IF Of(s, disk) = {} THEN 0 ELSE Newest(s, disk).version

\* The directory implements a lower bound per session (store.go:50, :254): publishing raises it,
\* removing the generation before and a crash in between leave it, and pruning gives it up at
\* once and never shows an older figure.
Promise == INSTANCE SessionTotals WITH
  recorded <- version, persisted <- [s \in Session |-> Persisted(s)]

TotalsKeepPromise == Promise!Spec

\* What Load is about to return counts every session once and never more than it has recorded, and a
\* session that was on disk when it listed is counted with what was listed at least, or there
\* is a warning (store.go:377): the writers replace snapshots meanwhile.
LoadIsSound ==
  load.pc = "scan" /\ load.todo = {} =>
    /\ \A f \in load.best : Of(f.session, load.best) = {f} /\ f.version <= version[f.session]
    /\ \A s \in SessionsIn(load.listed) \ load.warned : Newest(s, load.listed) \in load.best

\* A prune takes the newest snapshot of a session only when it is past retention, or when there
\* were more sessions than the cap, even when the snapshot it listed is replaced before it asks
\* for its time (store.go:302): what a session has just written stays.
FreshSurvivesPrune ==
  [][\A f \in disk \ disk' :
       \/ \E g \in Of(f.session, disk) : g.gen > f.gen
       \/ now > f.at + Retention
       \/ \E s \in Session \ {f.session} : writer[s].pc = "prune" /\ writer[s].crowded]_vars

\* Everything a process has recorded reaches the directory unless the process ends or a prune
\* gives the session up, although records arrive while a snapshot is being written and writes
\* fail (store.go:223).
RecordsReachDisk ==
  \A s \in Session :
    <>[](\/ writer[s].pc = "gone"
         \/ Persisted(s) = version[s]
         \/ Of(s, disk) = {} /\ generation[s] > 0)

=============================================================================
