---------------------------- MODULE ShellCapture ----------------------------
(***************************************************************************)
(* Commands that are captured before they run and can be reverted after-   *)
(* wards: the runner (bash/runner.go) with the guard in front of it and    *)
(* the captures of snapshot/capture.go behind it.                          *)
(*                                                                         *)
(* A runner is one call of light_bash, in its own process or as an async   *)
(* task; vault_restore is a call of another one.  Commands, editors and    *)
(* other processes write the same tree at any moment.  Each step below     *)
(* reads or writes one path of the tree, or publishes one record.          *)
(***************************************************************************)
EXTENDS GlobGuard

CONSTANTS
  Runner,      \* calls of light_bash
  Capture,     \* capture ids
  NoCapture,   \* none of them
  Plans,       \* the commands clients send
  Pasts,       \* the trees, records and rings a behaviour may start from
  Foreign,     \* <<path, state>>: what others write
  Ceiling,     \* files an explicit surface may hold, for captureCeilingBytes
  RingSize,    \* versions the snapshot ring keeps of a path
  MaxForeign   \* bound on the writes of others

\* One captured path: what it was (absent when it did not exist), whether the capture holds
\* its own copy of the bytes, and what the command left of it (absent until sealed).
Entry == [before: State, owned: BOOLEAN, after: State]

\* A capture of some paths.
Record(paths) == [written: BOOLEAN, sealed: BOOLEAN, entries: [paths -> Entry]]
IsRecord(x) == DOMAIN x.entries \subseteq Path /\ x \in Record(DOMAIN x.entries)

Unwritten == [written |-> FALSE, sealed |-> FALSE, entries |-> <<>>]

\* A past is of this code, or of an earlier version, which kept no bytes with its captures.
ASSUME CaptureAssumption ==
  /\ NoCapture \notin Capture
  /\ Plans \subseteq Plan
  /\ \A past \in Pasts :
       /\ past.tree \in Tree
       /\ past.ring \in [Path -> Seq(Bytes)] /\ \A p \in Path : Len(past.ring[p]) <= RingSize
       /\ DOMAIN past.record = Capture
       /\ \A c \in Capture :
            /\ IsRecord(past.record[c])
            /\ \A p \in DOMAIN past.record[c].entries : ~past.record[c].entries[p].owned
  /\ Foreign \subseteq Path \X State
  /\ Ceiling \in Nat /\ RingSize \in Nat \ {0} /\ MaxForeign \in Nat

VARIABLES
  tree,      \* the working tree
  record,    \* capture id -> its published record
  blob,      \* capture id -> the bytes it owns, by path
  ring,      \* path -> contents in the snapshot ring, newest first
  job,       \* runner -> the call it serves
  restore,   \* the vault_restore in progress
  printed,   \* <<plan, paths>> of the surfaces shown with a refusal
  foreign,   \* number of writes of others
  history    \* capture id -> the tree around its command and who interfered

vars == <<tree, record, blob, ring, job, restore, printed, foreign, history>>

NoPlan == [verb |-> "rm", flags |-> {}, operands |-> <<>>]

Idle == [pc |-> "idle", plan |-> NoPlan, groups |-> <<>>, lane |-> "plain", id |-> NoCapture,
         todo |-> {}, entries |-> <<>>]

NoRestore == [pc |-> "idle", id |-> NoCapture, force |-> FALSE, sealed |-> FALSE,
              entries |-> <<>>, todo |-> {}, path |-> NoData, raced |-> FALSE]

\* held and left are the trees when the command starts and when it ends; mixed are the paths
\* others wrote between the capture's reading of them and the seal's; quiet says that since the
\* command started only it has written and, once the capture is sealed, its restores; torn,
\* that a restore stopped after it had removed a path.
NoHistory == [held |-> NoData, left |-> NoData, mixed |-> {}, quiet |-> TRUE, torn |-> FALSE]

Init ==
  /\ \E past \in Pasts : tree = past.tree /\ record = past.record /\ ring = past.ring
  /\ blob = [c \in Capture |-> <<>>]
  /\ job = [r \in Runner |-> Idle]
  /\ restore = NoRestore
  /\ printed = {}
  /\ foreign = 0
  /\ history = [c \in Capture |-> NoHistory]

-----------------------------------------------------------------------------
(* History *)

\* The paths c has read but not sealed yet.
Window(c) ==
  UNION {IF job[r].pc = "seal" THEN job[r].todo ELSE DOMAIN job[r].entries :
           r \in {s \in Runner : job[s].id = c}}

Changed == {p \in Path : tree'[p] # tree[p]}

\* A write of the tree on behalf of the capture c, or of none.
Noted(c) ==
  history' = [d \in Capture |->
    IF d = c THEN history[d]
    ELSE [history[d] EXCEPT !.mixed = @ \union (Window(d) \intersect Changed),
                            !.quiet = @ /\ Changed = {}]]

\* The restore in progress has looked at the path that changes.
Slipped == restore' = [restore EXCEPT !.raced = @ \/ restore.path \in Changed]

-----------------------------------------------------------------------------
(* A call of light_bash *)

\* The function f with y at x.
Put(f, x, y) == [z \in DOMAIN f \union {x} |-> IF z = x THEN y ELSE f[z]]

\* The call returns; what it held goes with it.
Done(r) == job' = [job EXCEPT ![r] = [Idle EXCEPT !.pc = "done"]]

Smaller(a, b) == IF a < b THEN a ELSE b

Fresh(c) ==
  /\ record[c] = Unwritten /\ blob[c] = <<>>
  /\ restore.id # c
  /\ \A r \in Runner : job[r].id # c

\* A random id nothing has used: which one makes no difference.
NewCaptureID == CHOOSE c \in Capture : Fresh(c)

\* A guarded call names something that is there.
Guarded(plan) == Recognised(plan) /\ Flat(Expand(tree, plan)) # {}

Backable(plan) == Guarded(plan) /\ Protectable(tree, plan, Expand(tree, plan))

Called(r, plan, pc, lane) ==
  [job[r] EXCEPT !.plan = plan, !.groups = Expand(tree, plan), !.pc = pc, !.lane = lane]

Runs(r, plan, lane) ==
  /\ job' = [job EXCEPT ![r] = Called(r, plan, "run", lane)]
  /\ UNCHANGED printed

Capturing(r, plan) ==
  [Called(r, plan, "capture", IF HasGlob(plan) THEN "glob" ELSE "explicit")
     EXCEPT !.id = NewCaptureID, !.todo = Flat(Expand(tree, plan))]

BeginCapture(r, plan) ==
  /\ Backable(plan)
  /\ \E c \in Capture : Fresh(c)
  /\ job' = [job EXCEPT ![r] = Capturing(r, plan)]
  /\ UNCHANGED printed

\* A pattern that cannot be protected runs when it names the surface that was shown.
Confirm(r, plan) ==
  \E confirm \in {<<>>} \union {Digest(shown[1], <<shown[2]>>) : shown \in printed} :
    IF confirm = Digest(plan, Expand(tree, plan))
    THEN Runs(r, plan, "unprotected")
    ELSE /\ printed' = printed \union {<<plan, Flat(Expand(tree, plan))>>}
         /\ UNCHANGED job

\* The guard's decision.  A command it does not model, or one that names nothing, runs as it
\* is.  Without a vault nothing is protectable; every server has one.
Submit(r) ==
  /\ job[r].pc = "idle"
  /\ \E plan \in Plans :
       \/ ~Guarded(plan) /\ Runs(r, plan, "plain")
       \/ BeginCapture(r, plan)
       \/ Guarded(plan) /\ ~Backable(plan) /\ ~HasGlob(plan) /\ Runs(r, plan, "unbacked")
       \/ Guarded(plan) /\ ~Backable(plan) /\ HasGlob(plan) /\ Confirm(r, plan)
  /\ UNCHANGED <<tree, record, blob, ring, restore, foreign, history>>

PushedUncut(versions, bytes) == <<bytes>> \o versions
Pushed(versions, bytes) == SubSeq(<<bytes>> \o versions, 1, Smaller(RingSize, Len(versions) + 1))

\* The capture's own copy of a preimage.
WithoutBlob(blobs, p, bytes) == blobs
WithBlob(blobs, p, bytes) == Put(blobs, p, bytes)

\* One path of CaptureSurface or CaptureSurfaceBounded.  The first also feeds the ring.
CapturePath(r) ==
  \E p \in job[r].todo :
    LET c == job[r].id
        bytes == tree[p].data
        entry(owned) == [before |-> tree[p], owned |-> owned, after |-> Absent]
        add(owned) == job' = [job EXCEPT ![r].todo = @ \ {p},
                                         ![r].entries = Put(@, p, entry(owned))]
    IN /\ job[r].pc = "capture"
       /\ \/ /\ tree[p].kind \in {"absent", "link"}
             /\ add(FALSE)
             /\ UNCHANGED <<blob, ring>>
          \/ /\ tree[p].kind = "file"
             /\ job[r].lane = "explicit" => Cardinality({q \in DOMAIN job[r].entries : job[r].entries[q].owned}) < Ceiling
             /\ add(TRUE)
             /\ blob' = [blob EXCEPT ![c] = WithBlob(@, p, bytes)]
             /\ ring' = IF job[r].lane = "glob"
                        THEN [ring EXCEPT ![p] = Pushed(@, bytes)]
                        ELSE ring
       /\ UNCHANGED <<tree, record, restore, printed, foreign, history>>

\* A path that cannot be read, or one file too many.  A pattern's command is refused and its
\* blobs stay; an explicit one runs without a capture.
CaptureFails(r) ==
  LET c == job[r].id
  IN /\ job[r].pc = "capture"
     /\ \E p \in job[r].todo :
          \/ tree[p].kind = "dir"
          \/ /\ job[r].lane = "explicit" /\ tree[p].kind = "file"
             /\ Cardinality({q \in DOMAIN job[r].entries : job[r].entries[q].owned}) >= Ceiling
     /\ IF job[r].lane = "glob"
        THEN /\ Done(r)
             /\ UNCHANGED <<record, blob>>
        ELSE /\ job' = [job EXCEPT ![r].pc = "run", ![r].lane = "unbacked", ![r].id = NoCapture,
                                   ![r].todo = {}, ![r].entries = <<>>]
             /\ record' = [record EXCEPT ![c] = Unwritten]
             /\ blob' = [blob EXCEPT ![c] = <<>>]
     /\ UNCHANGED <<tree, ring, restore, printed, foreign, history>>

Publish(r) ==
  /\ job[r].pc = "capture" /\ job[r].todo = {}
  /\ record' = [record EXCEPT ![job[r].id] =
                  [written |-> TRUE, sealed |-> FALSE, entries |-> job[r].entries]]
  /\ job' = [job EXCEPT ![r].pc = "run"]
  /\ UNCHANGED <<tree, blob, ring, restore, printed, foreign, history>>

\* No slot for an async task: the capture is discarded.
QueueFull(r) ==
  LET c == job[r].id
  IN /\ job[r].pc = "run" /\ job[r].lane \in {"glob", "explicit"}
     /\ record' = [record EXCEPT ![c] = Unwritten]
     /\ blob' = [blob EXCEPT ![c] = <<>>]
     /\ Done(r)
     /\ UNCHANGED <<tree, ring, restore, printed, foreign, history>>

\* What the shell is given: the captured paths, or the command as it was sent.
Words(r) == IF job[r].lane = "glob" THEN Pin(job[r].plan, job[r].groups) ELSE job[r].plan

\* The shell expands what it is given and starts.
Start(r) ==
  LET c == job[r].id
      plan == Words(r)
  IN /\ job[r].pc = "run"
     /\ job' = [job EXCEPT ![r].pc = "effect", ![r].todo = Work(tree, plan, Expand(tree, plan))]
     /\ history' = IF c = NoCapture THEN history
                   ELSE [history EXCEPT ![c].held = tree, ![c].quiet = TRUE]
     /\ UNCHANGED <<tree, record, blob, ring, restore, printed, foreign>>

EffectStep(r) ==
  \E item \in job[r].todo :
    /\ job[r].pc = "effect"
    /\ tree' = Effect(tree, job[r].plan, item)
    /\ job' = [job EXCEPT ![r].todo = @ \ {item}]
    /\ Noted(job[r].id)
    /\ Slipped
    /\ UNCHANGED <<record, blob, ring, printed, foreign>>

\* The command ends, by itself or killed at its deadline.
Stop(r) ==
  LET c == job[r].id
  IN /\ job[r].pc = "effect"
     /\ IF c = NoCapture
        THEN Done(r) /\ UNCHANGED history
        ELSE /\ job' = [job EXCEPT ![r].pc = "seal", ![r].todo = DOMAIN job[r].entries]
             /\ history' = [history EXCEPT ![c].left = tree]
     /\ UNCHANGED <<tree, record, blob, ring, restore, printed, foreign>>

\* A directory looks like nothing, as does what cannot be read.
Look(state) == IF state.kind = "dir" THEN Absent ELSE state

SealPath(r) ==
  \E p \in job[r].todo :
    /\ job[r].pc = "seal"
    /\ job' = [job EXCEPT ![r].todo = @ \ {p}, ![r].entries[p].after = Look(tree[p])]
    /\ UNCHANGED <<tree, record, blob, ring, restore, printed, foreign, history>>

SealWrite(r) ==
  /\ job[r].pc = "seal" /\ job[r].todo = {}
  /\ record' = [record EXCEPT ![job[r].id] =
                  [written |-> TRUE, sealed |-> TRUE, entries |-> job[r].entries]]
  /\ Done(r)
  /\ UNCHANGED <<tree, blob, ring, restore, printed, foreign, history>>

\* The server stops, or the call fails before its command starts.  A command already started
\* may stop half way with it; nothing is sealed.
Abandon(r) ==
  /\ job[r].pc \notin {"idle", "done"}
  /\ Done(r)
  /\ UNCHANGED <<tree, record, blob, ring, restore, printed, foreign, history>>

-----------------------------------------------------------------------------
(* vault_restore with a capture id *)

RestoreBegin ==
  \E c \in Capture, force \in BOOLEAN :
    /\ restore.pc = "idle" /\ record[c].written
    /\ restore' = [NoRestore EXCEPT !.pc = "check", !.id = c, !.force = force,
                     !.sealed = record[c].sealed, !.entries = record[c].entries,
                     !.todo = DOMAIN record[c].entries]
    /\ UNCHANGED <<tree, record, blob, ring, job, printed, foreign, history>>

\* Something has written the path after the command.
ChangedKind(entry, current) == current.kind # entry.after.kind
ChangedSince(entry, current) == current # entry.after

\* What is at the path goes before anything is written there.
ClearsNew(entry, current) == current # Absent /\ entry.before = Absent
MustClear(entry, current) == current # Absent

\* The next path is compared with what the command left of it.
RestoreCheck ==
  \E p \in restore.todo :
    LET entry == restore.entries[p]
        current == Look(tree[p])
        rest == [restore EXCEPT !.todo = @ \ {p}]
        goes(pc) == [rest EXCEPT !.pc = pc, !.path = p, !.raced = FALSE]
    IN /\ restore.pc = "check"
       /\ restore' =
            IF \/ ~restore.force /\ ChangedSince(entry, current)
               \/ current = entry.before
            THEN rest
            ELSE IF MustClear(entry, current) THEN goes("remove") ELSE goes("write")
       /\ UNCHANGED <<tree, record, blob, ring, job, printed, foreign, history>>

Return(torn) ==
  /\ restore' = NoRestore
  /\ history' = [history EXCEPT ![restore.id].torn = @ \/ torn]

\* The capture whose command a restore takes back: one that is sealed.  A restore of any other
\* writes as anybody else does.
Undone == IF restore.sealed THEN restore.id ELSE NoCapture

\* Whatever is at the path is removed.  A path that has gone meanwhile is an error only if it
\* was to be gone.
RestoreRemove ==
  LET p == restore.path
      before == restore.entries[p].before
      full == tree[p] = Dir /\ tree[Inner[p]] # Absent
      lost == tree[p] = Absent /\ before = Absent
  IN /\ restore.pc = "remove"
     /\ IF full \/ lost
        THEN Return(FALSE) /\ UNCHANGED tree
        ELSE /\ tree' = [tree EXCEPT ![p] = Absent]
             /\ restore' = IF before = Absent
                           THEN [restore EXCEPT !.pc = "check", !.path = NoData]
                           ELSE [restore EXCEPT !.pc = "write"]
             /\ Noted(Undone)
     /\ UNCHANGED <<record, blob, ring, job, printed, foreign>>

\* The preimage of a regular file: the capture's own copy, or one of the ring.
Loadable(c, p, bytes) ==
  \/ p \in DOMAIN blob[c] /\ blob[c][p] = bytes
  \/ p \notin DOMAIN blob[c] /\ \E i \in DOMAIN ring[p] : ring[p][i] = bytes

\* Writing bytes follows a link that has appeared at the path; making a link does not.
RestoreWrite ==
  LET p == restore.path
      before == restore.entries[p].before
      place == IF tree[p].kind = "link" THEN tree[p].data ELSE p
      fails == IF before.kind = "link"
               THEN tree[p] # Absent
               ELSE ~Loadable(restore.id, p, before.data) \/ tree[place] = Dir
  IN /\ restore.pc = "write"
     /\ IF fails
        THEN Return(TRUE) /\ UNCHANGED tree
        ELSE /\ tree' = [tree EXCEPT ![IF before.kind = "link" THEN p ELSE place] = before]
             /\ restore' = [restore EXCEPT !.pc = "check", !.path = NoData]
             /\ Noted(Undone)
     /\ UNCHANGED <<record, blob, ring, job, printed, foreign>>

RestoreEnd ==
  /\ restore.pc = "check" /\ restore.todo = {}
  /\ restore' = NoRestore
  /\ UNCHANGED <<tree, record, blob, ring, job, printed, foreign, history>>

RestoreCrash ==
  /\ restore.pc # "idle"
  /\ Return(restore.pc = "write")
  /\ UNCHANGED <<tree, record, blob, ring, job, printed, foreign>>

-----------------------------------------------------------------------------

\* An editor, another command or another server.
ForeignWrite ==
  \E write \in Foreign :
    /\ foreign < MaxForeign
    /\ foreign' = foreign + 1
    /\ tree' = [tree EXCEPT ![write[1]] = write[2]]
    /\ tree' # tree
    /\ Noted(NoCapture)
    /\ Slipped
    /\ UNCHANGED <<record, blob, ring, job, printed>>

RunnerStep(r) ==
  \/ Submit(r) \/ CapturePath(r) \/ CaptureFails(r) \/ Publish(r) \/ QueueFull(r)
  \/ Start(r) \/ EffectStep(r) \/ Stop(r) \/ SealPath(r) \/ SealWrite(r) \/ Abandon(r)

RestoreStep ==
  \/ RestoreBegin \/ RestoreCheck \/ RestoreRemove \/ RestoreWrite \/ RestoreEnd \/ RestoreCrash

Next ==
  \/ \E r \in Runner : RunnerStep(r)
  \/ RestoreStep
  \/ ForeignWrite

Spec == Init /\ [][Next]_vars

-----------------------------------------------------------------------------
(* Properties *)

Job(paths) ==
  [pc: {"idle", "capture", "run", "effect", "seal", "done"},
   plan: Plans \union {NoPlan}, groups: Seq(SUBSET Path),
   lane: {"plain", "glob", "explicit", "unbacked", "unprotected"},
   id: Capture \union {NoCapture},
   todo: SUBSET (Path \union (Path \X Path)), entries: [paths -> Entry]]

Restore(paths) ==
  [pc: {"idle", "check", "remove", "write"}, id: Capture \union {NoCapture},
   force: BOOLEAN, sealed: BOOLEAN, entries: [paths -> Entry], todo: SUBSET Path,
   path: Path \union {NoData}, raced: BOOLEAN]

History == [held: Tree \union {NoData}, left: Tree \union {NoData}, mixed: SUBSET Path,
            quiet: BOOLEAN, torn: BOOLEAN]

\* Every variable holds a value of its type, and the ring of a path its last versions.
TypeOK ==
  /\ tree \in Tree
  /\ DOMAIN record = Capture /\ \A c \in Capture : IsRecord(record[c])
  /\ DOMAIN blob = Capture
  /\ \A c \in Capture : DOMAIN blob[c] \subseteq Path /\ blob[c] \in [DOMAIN blob[c] -> Bytes]
  /\ ring \in [Path -> Seq(Bytes)] /\ \A p \in Path : Len(ring[p]) <= RingSize
  /\ DOMAIN job = Runner
  /\ \A r \in Runner :
       DOMAIN job[r].entries \subseteq Path /\ job[r] \in Job(DOMAIN job[r].entries)
  /\ DOMAIN restore.entries \subseteq Path /\ restore \in Restore(DOMAIN restore.entries)
  /\ printed \subseteq Plans \X SUBSET Path
  /\ foreign \in 0..MaxForeign
  /\ history \in [Capture -> History]

\* A published capture owns the bytes of every file it captured, so a revert does not depend on
\* what later snapshots evict from the ring (capture.go:58-63, loadPreimage).
CaptureOwnsBytes ==
  \A c \in Capture :
    record[c].written =>
      \A p \in DOMAIN record[c].entries :
        LET entry == record[c].entries[p]
        IN entry.owned => p \in DOMAIN blob[c] /\ blob[c][p] = entry.before.data

\* A run that was confirmed is the one that was printed: the same command with the same options
\* over the same paths (guard.go:449-457).
ConfirmedAsPrinted ==
  \A r \in Runner :
    job[r].lane = "unprotected" => <<job[r].plan, Flat(job[r].groups)>> \in printed

\* A command that runs under a capture changes nothing the capture does not hold, whatever has
\* appeared since (pinCommand) - but for what is in a directory which a path leads to or has
\* become meanwhile: mv moves a file into it, and rm -r empties it.
BackedRunStaysInside ==
  [][\A r \in Runner :
       LET held == DOMAIN job[r].entries
       IN /\ job[r].pc = "effect" /\ job[r].id # NoCapture
          /\ job'[r].todo # job[r].todo
          => \/ Changed \subseteq held
             \/ /\ job[r].plan.verb = "mv"
                /\ \E p \in job[r].groups[2] : IsDirectory(tree, p)
             \/ /\ job[r].plan.verb = "rm" /\ "-r" \in job[r].plan.flags
                /\ Changed \subseteq held \union {Inner[p] : p \in {q \in held : tree[q] = Dir}}]_vars

\* Steps of vault_restore that write the tree.
RestoreActs == tree' # tree /\ job' = job /\ foreign' = foreign

\* A revert without force undoes the command and nothing else: what it removes is what the
\* command left there, and what it puts back is what was there when the command started.
\* Excepted are the two windows no lock closes: a path others wrote between the capture's
\* reading and the seal's, whose change counts as the command's, and one they wrote between
\* the check and the write of the revert.
RevertIsExact ==
  [][LET p == restore.path
         past == history[restore.id]
     IN /\ RestoreActs
        /\ ~restore.force /\ restore.sealed /\ ~restore.raced
        /\ past.left # NoData /\ p \notin past.mixed
        => /\ Changed = {p}
           /\ restore.pc = "remove" => Look(tree[p]) = Look(past.left[p])
           /\ restore.pc = "write" => tree'[p] = past.held[p]]_vars

Finished ==
  /\ restore.pc = "check" /\ restore.todo = {} /\ restore.sealed
  /\ LET past == history[restore.id]
     IN /\ past.left # NoData /\ past.mixed = {} /\ past.quiet
        /\ restore.force \/ ~past.torn

\* When a restore of a sealed capture has gone through all its paths, and nobody else has
\* written since before the capture, the whole tree is the one the command found - if the
\* command stayed inside the surface.  After a restore that stopped between removing a file and
\* writing it back, only force does this: the gap looks like a later change.
RevertRestoresTree ==
  LET past == history[restore.id]
  IN /\ Finished
     /\ \A p \in Path \ DOMAIN restore.entries : past.left[p] = past.held[p]
     => tree = past.held

=============================================================================
