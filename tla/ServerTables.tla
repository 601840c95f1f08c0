---------------------------- MODULE ServerTables ----------------------------
(***************************************************************************)
(* The bounded tables of one server at work together: the asynchronous     *)
(* calls of light_bash and of light_ops, the spills both of them store     *)
(* their output in, the stages of unfinished payloads and the parser slot. *)
(* The client's calls arrive one at a time; the goroutines of the tasks    *)
(* and of a parse that outlived its deadline run beside them.              *)
(***************************************************************************)
EXTENDS Naturals, Sequences, FiniteSets

CONSTANTS
  BashTask, BashSlots, OpsTask, OpsSlots, TaskTTL, \* the task tables
  Spill, MaxSpills, SpillTTL,                      \* the spills
  Payload, Stage, Lines, MaxStages, StageTTL,      \* the stages
  Budgets,                                         \* bounds: how many calls of each kind
  MaxTime                                          \* bound: ticks

VARIABLES
  now,
  bashEntry, bashThread, bashAsked, bashUsed,
  opsEntry, opsThread, opsAsked, opsUsed,
  spills, files, store, reader,
  stages, sender, result, clean, issued,
  job,      \* task -> what its goroutine does between Begin and Record
  parser,   \* the goroutine of a parse, which holds the slot, and whether its caller waits
  budget    \* calls left, by kind

Bash == INSTANCE TaskTable WITH
  Task <- BashTask, Maximum <- BashSlots, Expiring <- TRUE, Lifetime <- TaskTTL,
  entry <- bashEntry, thread <- bashThread, asked <- bashAsked, used <- bashUsed

Ops == INSTANCE TaskTable WITH
  Task <- OpsTask, Maximum <- OpsSlots, Expiring <- FALSE, Lifetime <- 0,
  entry <- opsEntry, thread <- opsThread, asked <- opsAsked, used <- opsUsed

Worker == BashTask \union OpsTask

Spills == INSTANCE SpillStore WITH Writer <- Worker
Stages == INSTANCE PayloadStages

ASSUME ServerAssumption ==
  /\ BashTask \intersect OpsTask = {}
  /\ Bash!TableAssumption /\ Ops!TableAssumption
  /\ Spills!SpillAssumption /\ Stages!StageAssumption
  /\ MaxTime \in Nat \ {0}

bashVars == <<bashEntry, bashThread, bashAsked, bashUsed>>
opsVars == <<opsEntry, opsThread, opsAsked, opsUsed>>
spillVars == <<spills, files, store, reader>>
stageVars == <<stages, sender, result, clean, issued>>
taskVars == <<bashVars, opsVars, job>>
vars == <<now, taskVars, spillVars, stageVars, parser, budget>>

NoParse == [running |-> FALSE, awaited |-> FALSE]

Init ==
  /\ now = 1
  /\ Bash!TableInit /\ Ops!TableInit
  /\ Spills!SpillInit /\ Stages!StageInit
  /\ job = [w \in Worker |-> "idle"]
  /\ parser = NoParse
  /\ budget \in Budgets

Tick ==
  /\ now < MaxTime
  /\ now' = now + 1
  /\ UNCHANGED <<taskVars, spillVars, stageVars, parser, budget>>

-----------------------------------------------------------------------------
\* The loop that serves the client is busy while a read of a spill or a parse is in progress.
Serving == reader = {} /\ ~parser.awaited

Call(kind) ==
  /\ Serving
  /\ budget[kind] > 0
  /\ budget' = [budget EXCEPT ![kind] = @ - 1]
  /\ UNCHANGED now

BashCall ==
  /\ Call("task")
  /\ \/ Bash!Refuse
     \/ \E t \in BashTask : Bash!Start(t) \/ Bash!Look(t) \/ Bash!Collect(t) \/ Bash!Cancel(t)
  /\ UNCHANGED <<opsVars, job, spillVars, stageVars, parser>>

OpsCall ==
  /\ Call("task")
  /\ \/ Ops!Refuse
     \/ \E t \in OpsTask : Ops!Start(t) \/ Ops!Look(t) \/ Ops!Collect(t) \/ Ops!Cancel(t)
  /\ UNCHANGED <<bashVars, job, spillVars, stageVars, parser>>

ReadSpill ==
  /\ Call("task")
  /\ \E s \in Spill : Spills!ReadCheck(s)
  /\ UNCHANGED <<taskVars, stageVars, parser>>

OpenSpill ==
  /\ Spills!ReadOpen
  /\ UNCHANGED <<now, taskVars, stageVars, parser, budget>>

FileCall ==
  /\ Call("file")
  /\ \E p \in Payload : Stages!Send(p) \/ Stages!Resume(p)
  /\ UNCHANGED <<taskVars, spillVars, parser>>

\* The slot is taken without waiting for it, or the parse is refused.
Parse ==
  /\ Call("file")
  /\ parser' = IF parser.running THEN parser ELSE [running |-> TRUE, awaited |-> TRUE]
  /\ UNCHANGED <<taskVars, spillVars, stageVars>>

ParseTimesOut ==
  /\ parser.awaited
  /\ parser' = [parser EXCEPT !.awaited = FALSE]
  /\ UNCHANGED <<now, taskVars, spillVars, stageVars, budget>>

ParseEndsAwaited ==
  /\ parser.running /\ parser.awaited
  /\ parser' = NoParse
  /\ UNCHANGED <<now, taskVars, spillVars, stageVars, budget>>

\* The work returns, or panics, and gives back the slot; tree-sitter has a timeout of its own.
ParseEnds ==
  /\ parser.running
  /\ parser' = NoParse
  /\ UNCHANGED <<now, taskVars, spillVars, stageVars, budget>>

-----------------------------------------------------------------------------
\* The goroutines of tasks.  A run stores its oversized output before it answers; here as one
\* document.  It answers "done" whatever the store says.

BashBegin(t) ==
  /\ Bash!Begin(t)
  /\ job' = [job EXCEPT ![t] = "run"]
  /\ UNCHANGED <<now, opsVars, spillVars, stageVars, parser, budget>>

OpsBegin(t) ==
  /\ Ops!Begin(t)
  /\ job' = [job EXCEPT ![t] = "run"]
  /\ UNCHANGED <<now, bashVars, spillVars, stageVars, parser, budget>>

\* The command has ended: by itself, killed at its deadline, or killed by a cancellation.
RunEnds(w) ==
  /\ job[w] = "run"
  /\ \E next \in {"failed", "done", "store"} : job' = [job EXCEPT ![w] = next]
  /\ UNCHANGED <<now, bashVars, opsVars, spillVars, stageVars, parser, budget>>

StoreOutput(w) ==
  /\ job[w] = "store"
  /\ Spills!StoreCheck(w) \/ Spills!StoreCreate(w) \/ Spills!StoreWrite(w) \/ Spills!StoreInsert(w)
  /\ job' = IF store'[w].pc = "idle" THEN [job EXCEPT ![w] = "done"] ELSE job
  /\ UNCHANGED <<now, bashVars, opsVars, stageVars, parser, budget>>

BashAnswer(t) ==
  /\ job[t] \in {"done", "failed"}
  /\ Bash!Record(t, job[t])
  /\ job' = [job EXCEPT ![t] = "idle"]
  /\ UNCHANGED <<now, opsVars, spillVars, stageVars, parser, budget>>

OpsAnswer(t) ==
  /\ job[t] \in {"done", "failed"}
  /\ Ops!Record(t, job[t])
  /\ job' = [job EXCEPT ![t] = "idle"]
  /\ UNCHANGED <<now, bashVars, spillVars, stageVars, parser, budget>>

Goroutine(w) ==
  \/ w \in BashTask /\ (BashBegin(w) \/ BashAnswer(w))
  \/ w \in OpsTask /\ (OpsBegin(w) \/ OpsAnswer(w))
  \/ RunEnds(w)
  \/ StoreOutput(w)

Next ==
  \/ Tick
  \/ BashCall \/ OpsCall \/ ReadSpill \/ OpenSpill \/ FileCall
  \/ Parse \/ ParseTimesOut \/ ParseEnds
  \/ \E w \in Worker : Goroutine(w)

\* Every command, request and parse has a deadline after which it is killed, so that a goroutine
\* is never stuck.
Fairness ==
  /\ \A w \in Worker : WF_vars(Goroutine(w))
  /\ WF_vars(ParseEnds)

Spec == Init /\ [][Next]_vars /\ Fairness

-----------------------------------------------------------------------------
\* Types of every table.
TypeOK ==
  /\ now \in 1..MaxTime
  /\ Bash!TableTypeOK /\ Ops!TableTypeOK
  /\ Spills!SpillTypeOK /\ Stages!StageTypeOK
  /\ job \in [Worker -> {"idle", "run", "store", "done", "failed"}]
  /\ parser \in [running : BOOLEAN, awaited : BOOLEAN]

\* Every slot of a task table is accounted for (bash/task.go:45, ops/task.go:34): never more
\* than the limit, one for each goroutine that runs, whose entry is never reaped or collected,
\* and one for each outcome nobody has collected.
SlotsAccounted ==
  /\ Bash!SlotsAccounted /\ Ops!SlotsAccounted
  /\ \A w \in Worker : job[w] = "store" \/ store[w].pc = "idle"

\* The spill table and its directory agree while runs of both tools store at once
\* (bash/spill.go:51): at most the limit, every record has its whole file, every other file
\* belongs to a Store in progress, and a reader never opens a file that is being written.
SpillsAgree == Spills!SpillsAgree /\ Spills!ReadsAreWhole

\* A payload whose pieces end with a line is put together without loss or repetition, although
\* stages expire and are evicted (payload/stages.go:50).
AssembledWhole == Stages!AssembledWhole

\* A live stage is lost only to its own completion or as the oldest of a full table
\* (payload/stages.go:85).
StagesLostLast == Stages!StagesLostLast

\* A payload resumed after the lines the server says it has got is put together whole, wherever
\* its pieces end (docs/REFERENCE.md:86).
ResumeKeepsEveryLine == Stages!ResumeKeepsEveryLine

\* Both task tables keep the promise of an asynchronous call: a cancellation that was accepted
\* ends as cancelled, even when the goroutine says "running" after it (bash/task.go:54), an end
\* is never taken back, and what is gone had ended.
BashLife == INSTANCE TaskLifecycle WITH
  Task <- BashTask, asked <- bashAsked, phase <- [t \in BashTask |-> Bash!Phase(t)]
OpsLife == INSTANCE TaskLifecycle WITH
  Task <- OpsTask, asked <- opsAsked, phase <- [t \in OpsTask |-> Ops!Phase(t)]

TasksKeepPromise == BashLife!Spec /\ OpsLife!Spec

\* When the client has stopped calling, every task that got a slot has ended, its outcome can be
\* collected, and the parser slot has come back however late (symbol/watchdog_treesitter.go:46).
EverythingEnds ==
  <>[](/\ \A t \in BashTask : bashEntry[t].status \in Bash!Ended \union {"none"}
       /\ \A t \in OpsTask : opsEntry[t].status \in Ops!Ended \union {"none"}
       /\ ~parser.running)

=============================================================================
