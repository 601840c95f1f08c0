# light-tools: a TLA+ model

`light-tools` is one MCP server binary that gives a coding agent file, shell and
remote-operation tools. This directory models the parts of it whose correctness
depends on ordering: several server processes, a vault UI and a CLI share one
state directory and one working tree, commands and editors write the same files
without any protocol, and any of them may stop between two steps. The text
algorithms the tools rest on are modelled beside them.

Every definition is translated from the code under `src/`; `PROJECT.json` maps
each one to the lines it stands for.

## The system

| Component | State | Operations | What is hard | What makes it correct |
| --- | --- | --- | --- | --- |
| Mutation lane: `filetool/mutate.go`, `file/transaction.go` | the working tree | write, edit, sed, rewrite, vault_restore, rename | reads made before the guarded commit; writers outside any lock; failure after the capture | an undisturbed change can be undone; a guard protects what it names |
| Edit transforms: `file/apply.go` | none | batches of spans, find and replace | stale line numbers, duplicate guards, overlaps, brackets | what the spans name is replaced and nothing else |
| Snapshot ring: `snapshot/vault.go` | per path: `metadata.json` and up to three snapshot files | Capture, List, Load | read-modify-write between processes without a lock; crash between file and metadata; unsynced files | the ring names only what the path held; versions load or fail, never lie |
| Read lane: `filetool/read.go` | none of its own | window, batch with cursor | budget shared by items, cursor into content that may change | pages put together are the sections |
| Dedup ledger: `readcache/ledger.go` | LRU list with expiry | ShouldElide, RecordDelivery, PriorDelivery, Invalidate | marks made before the delivery is known | a stub stands for bytes the caller holds |
| Captures: `snapshot/capture.go` | one record and its blobs per command | CaptureSurface, SealCapture, RestoreCapture | attribution of changes; check then write; failure part way | a restore undoes the command and nothing else |
| Glob guard and runner: `bash/guard.go`, `bash/runner.go` | none; the digest the client sends back | plan, confirm, pin, run, seal | the surface changes between approval and run | what runs is what was approved and captured |
| Async tasks: `bash/task.go`, `ops/task.go` | task tables | start, status, collect, cancel, reap | cancel against completion, uncollected tasks | every task ends once and its slot is freed |
| Spill store: `bash/spill.go` | records and files | Store, Read, reap | the lock is released to write | at most the limit; a record has its file |
| Log views: `logs/`, `bash/bounded.go` | none | normalize, group, outline, budget, spill | control sequences, line numbers, a refused spill | what is left out can be recovered under the numbers shown |
| Payload stages: `payload/` | staged partial payloads | Assemble, resume, evict, expire | eviction of a stage in use | a resumed payload is the whole payload |
| Telemetry: `telemetry/store.go` | one generation file per session | record, flush, prune, load | scans against writers, crashes | no call counted twice, none lost after a flush |
| Secret vault: `secret/vault.go` | key file and ciphertext | set, remove, groups, resolve | two files, several processes | no update lost; always openable |
| UI authentication: `secret/ui_auth.go`, `vaultui/server.go` | pairing, sessions, verifier, failure counter | pair, setup, login, logout, authorize | requests in flight across logout and lockout | no session outlives its end |
| Parser watchdog: `symbol/watchdog_treesitter.go` | one slot | run with deadline | a parser that outlives its deadline | the slot comes back |
| Settings, confinement, layout | marker files, roots | set, resolve | other processes | settings never loosen confinement |
| MCP server: `mcp/server.go` | none | a sequential request loop | none | one request at a time |
| Pure code: `terse/`, `portable/`, `payload/parser.go`, the read helpers | none | codecs, coercion, rendering | boundaries | agreement with a reference definition |

How they interact: the MCP loop calls one handler at a time, so handlers of one
process never overlap; only async tasks, a parse that outlived its deadline and
the telemetry writer run beside them. A mutation calls a transform, then the
snapshot ring, then installs, then drops the path from the ledger. The runner
calls the guard, the captures, the compaction of its output and through it the
spill store. The vault UI serves its requests concurrently. Between processes
everything goes through files.

## Modules

| Module | Models | State and actions |
| --- | --- | --- |
| `FileVault` | the mutation lane, `file.Commit` and the snapshot ring | `content` is the tree, `snaps` and `meta` a path's snapshot directory, `op` what each server holds in local variables. One action per effect on shared files: `Begin*` is the handler's first read, `Check` is Commit's read and guard, `WriteSnapshot`, `RemoveStale` and `WriteMeta` are the three writes of `Capture`, `Install` the rename of the temporary file, `CheckTarget` and `Move` the rest of `rename`. `Abandon` is any error and any crash of a server, `PowerLoss` one of the machine |
| `ReadLedger` | `readcache.Ledger` | functions of the LRU list; `Invalidated` numbers the entries that stay by their rank |
| `ReadDedup` | `readWindow`, `readItems`, cursor, budget, the ledger in use | `req` is the batch being read, file by file; `AppendItem`, `CutPage` and `FailBatch` are the ways an item ends |
| `GlobGuard` | the guard's decision, digest and pin, and what the guarded commands do to a tree | functions of a tree and a command |
| `ShellCapture` | a call of `light_bash` through guard, capture, run and seal, and `vault_restore` of a capture | `tree`, the published `record` and `blob` of each capture, `job` what a call holds, `restore` the revert in progress. One action per path read, changed or reverted; `ForeignWrite` is everybody else |
| `TaskTable` | `TaskManager` and `taskStore` | `entry` is the table, `thread` the goroutine of each task, `asked` the cancelled contexts; one action per locked section |
| `TaskLifecycle` | the promise of an asynchronous call, abstractly | a task is none, active, ended in one way, gone |
| `SpillStore` | `SpillStore.Store`, `Read` and expiry | `spills` and `files`; `StoreCheck`, `StoreCreate`, `StoreWrite`, `StoreInsert` are the locked and unlocked parts of one Store |
| `PayloadStages` | `Assembler.Assemble` | `stages`, and `sender`, what each client knows of its own |
| `ServerTables` | the four tables and the parser slot of one server at work together | instances of the modules above sharing a clock; `Goroutine` runs the work of a task, `Call` lets the client in one call at a time |
| `TelemetryStore` | `Record*`, `writerLoop`, `flush`, `prune`, `Load` | `disk` is the directory, `writer` the flush of each session, `load` the scan in progress |
| `SessionTotals` | what the telemetry directory promises, abstractly | a persisted lower bound per session |
| `SecretStore` | the contents of the vault and its updates | functions of a store |
| `SecretVault` | `mutate`, the readers, both locks, the two files | `key` and `enc` as seen, `keySafe` and `encSafe` as a power loss leaves them, `act` what each caller is doing |
| `VaultContents` | the promise of the vault, abstractly | updates applied one after the other |
| `VaultSessions` | pairing, `authorize`, setup, login, logout, `UIAuth.Verify` | `sessions`, `guard` the failure counter and the gate, `verifier` the password file, `req` what each request is doing |
| `VaultUI` | sessions and vault together, with command lines and crashes | instances of `SecretVault` and `VaultSessions` sharing the file lock |
| `LogViews` | `terminalNormalize`, templates, groups, outline, budget, `Compact`, `compactWindow`, `boundedBuffer`, `selectRanges` | `buf` is the stream, `view` what the client got, `got` what read_block returned |
| `EditTransforms` | `TransformEdits`, `autoSnap`, `sedText` | `lines` is the preimage and then the result |
| `TextTools` | the last two side by side | a behaviour exercises one of them |
| `FileVault_proofs`, `ReadDedup_proofs`, `ShellCapture_proofs`, `TelemetryStore_proofs`, `ServerTables_proofs`, `VaultUI_proofs`, `TextTools_proofs` | theorems of the specifications of the same name | see Proofs |
| `TaskTable_proofs` | what one operation of a task table keeps | cited through INSTANCE, once for each table |
| `MC*` | instances of the modules | constants |

Refinements: `ServerTables` implements `TaskLifecycle` twice, once for each
table (`TasksKeepPromise`), `TelemetryStore` implements `SessionTotals`
(`TotalsKeepPromise`) and `VaultUI` implements `VaultContents`
(`VaultKeepsPromise`). The mappings are `Phase`, `Persisted` and `StoreOf`.

### Data

A file's content in `FileVault` is the set of changes it carries, so that an edit
depends on what it read and a write does not; a digest is the content itself,
except that an absent file has the digest of the empty one, as in the code. In
`ReadDedup` a rendered section is a number of units, a page holds `Budget` of
them and a stub `StubLen`; a stub is longer than the shortest section, as in the
code, where it carries a 64-digit digest. In `GlobGuard` an operand is the set of
paths it can stand for, so that expanding it means intersecting it with what
exists. A payload's lines are numbered, and its last one is the seal. All the
figures of a telemetry session are the number of records they were taken after.
A ciphertext is the pair of its key and its store. `LogViews` reads streams of
one-byte tokens, with the byte classes the scanner tells apart; the widths of
fixed text are constants. In `EditTransforms` a line is a sequence of characters
and a find is one character.

History variables (`was`, `undo`, `age`, `clash`, `raced`, `followed` in
`FileVault`; `received`, `cut`, `got`, `whole`, `steady` in `ReadDedup`;
`printed` and `history` in `ShellCapture`; `clean` in `PayloadStages`; `ended`
in `VaultSessions`) only feed the properties. No guard reads them, except that a
caller's `expected_sha` is drawn from the contents the path has had, and its
confirmation from the digests it was shown.

## Runs

| Run | Question | Result |
| --- | --- | --- |
| `vault_solo` | one server, four requests, one file: types, `UndoSurvives`, `RestoreGenuine` | holds |
| `vault_pair` | two servers, two files, two requests: `RingGenuine`, `RingUsable`, `NothingLostSilently` | holds |
| `vault_guard` | does `expected_sha` guard the bytes an edit is computed from | violated: the base is read before the guarded read |
| `dedup` | ledger order and expiry, stubs backed unless a page was cut | holds |
| `dedup_paging` | pages put together are the sections; paging ends | holds |
| `shell` | captures own their bytes, what was confirmed runs, a backed run stays inside its capture, a revert is exact and complete | holds |
| `tables` | slots, spills and stages at their limits; `TasksKeepPromise`; everything ends | holds |
| `payload_resume` | is a payload resumed after `got_lines` put together whole | violated: a piece that ends with a newline counts one line too many |
| `telemetry` | the directory keeps its promise, a load is sound, prunes spare what is fresh, records arrive | holds |
| `vaultui` | the vault opens and loses no update; sessions end for good; one session per code; requests end | holds |
| `text_tools` | outlines name every line, elisions are recoverable, the budget keeps the end, edits are exact | holds |
| `window_recover` | do the numbers of an outlined file window resolve in its spill | violated: they start at the window's offset, the spill does not |

What the properties say where they could surprise:

- `UndoSurvives` counts captures. The bytes the last snapshotted change replaced
  are exactly one place further down for each capture since, and captures of
  requests that fail afterwards count: failures can push a good version out,
  and after `RingSize` of them the property promises nothing.
- `RingUsable` excepts the oldest version of a full ring: a crash after stale
  files are removed leaves that one named and gone. It excepts files torn by a
  power loss, which `Load` detects, and paths two servers captured at once.
- `StubBackedUnlessCut` excepts windows whose page was cut or thrown away: those
  stay marked in the ledger (`read.go:139`).
- `RevertIsExact` excepts the two windows no lock closes: a path others wrote
  between the capture's reading and the seal's, and one written between the check
  and the write of the revert. `BackedRunStaysInside` excepts `mv` onto what is,
  leads to or has become a directory, and `rm -r` of a path that was a file when it
  was captured and has become a directory before the command runs: the run then
  empties it. `SECURITY.md` calls the capture an observation made before the
  execution, so neither is a finding. `RevertRestoresTree` excepts a revert that
  was interrupted after it had removed a file: only `force` completes it.
- `AssembledWhole` is about pieces that end with the end of a line, without its
  newline; `payload_resume` shows why.
- `StagesLostLast` allows the oldest stage of a full table to go even when the
  stage that is kept is one the table already holds (`stages.go:85`).
- `LoadIsSound` allows a session to be missing from a sum if there is a warning.
- `FreshSurvivesPrune` excepts prunes that found the directory over its cap.
- `EndedStaysEnded` is about being served: a login that was verifying its
  password while its session was logged out does write the session back, with the
  zero time as its creation, and the next look at it removes it.
- `ElisionRecoverable` speaks of windows that start at line 1; `window_recover`
  is about the others.

### Observations

Met while modelling; no run of their own shows them.

- `rewrite` passes no snapshotter (`mutate.go:203`), so what it replaces is in no
  snapshot, although `README.md:44` of the repository says every mutation is
  snapshotted first.
- A window whose batch page was cut, or discarded by a later item's error, is
  answered with a stub the next time (`read.go:139`). A cursor cut inside a stub is
  applied to the section, which may be shorter (`read.go:151`).
- `mv` onto a symbolic link to a directory moves outside the captured surface: the
  admission matrix looks at the link (`guard.go:72`).
- A command that has ended but whose pipes stay open past `WaitDelay` is reported as
  an error and its output dropped (`runner.go:335`).
- The surface digest covers the paths, not what was hazardous about them.
- `RestoreCapture` removes what is at a path before it loads the preimage. A
  failing `CaptureSurface` leaves its blobs. `ListCaptures` has no caller.
- `Cancel` before the goroutine has started is shown as running again
  (`task.go:54`); it still ends as cancelled.
- A collected result may name a spill that has expired. `SpillStore.Close` is never
  called.
- A remote command's child that keeps its pipe open is not killed with it
  (`ops/registry.go:137`): see the fairness of `ServerTables`.
- An edit of a file with mixed endings makes all of them CRLF (`apply.go:133`).
- A guard can match a duplicate of its line at the stale position itself, which the
  uniqueness check does not see.
- A bare `\r` at the very end of a line erases a progress line's last frame.
- The mark of a clamped line can make a bounded view longer than the raw text.
- `compactWindow` spends a spill before the ledger decides whether to send a stub,
  against the comment in `readWindow` (`read.go:386`).

### Bounds

`FileVault`: `RingSize` is 2 for the code's 3, the smallest ring with a version
that is neither the newest nor the one falling off. Three captures turn it over,
so `vault_solo` has four requests and four snapshot names; `vault_pair` has two
requests, one for each server or both for one, and three names, which two rings of
two entries and one file in flight do not exhaust for the captures two requests
can make. `MaxOutside` bounds outside writes and power losses together.

`ReadDedup`: three reads, one write and a clock of three ticks with a lifetime of
two and room for two entries reach eviction, expiry of an entry behind a live one,
and a page cut in the first, second and third item. `dedup_paging` stops the clock,
which paging does not depend on except through expiry. `MaxReads` bounds the reads
a client starts, not the continuations it sends.

`ShellCapture`: one runner, one write of others (`MaxForeign`), an old capture to
restore and a new one to make, and trees in which the second operand is absent, a
file, a directory or a link to one. `RingSize` is 1, so that a second snapshot of a
path evicts the first; `Ceiling` is 1 file, so that a surface of two passes it.

`ServerTables`: one slot in each task table, two bash tasks and one remote one, one
spill, two stages, two payloads of three lines, and lifetimes of one tick: each table
meets its limit, its expiry and their coincidence. `Budgets` splits a client's calls
into four on tasks, four on payloads, or two and one; `MaxTime` is three ticks.

`TelemetryStore`: two sessions with two records and one, a cap of one session,
retention of one tick, one failed write. A reader meets a second replacement of what
it lists, a prune meets a replacement of what it saw.

`VaultUI`: two requests and one command line, two tokens, two passwords, one secret
and two groups; a session is idle after one tick and over after two, two failures
start the cooldown. `Budgets` splits the calls between sessions and the vault, with
up to two faults for the vault.

`TextTools`: up to four writes out of eight chunks, among them redrawn lines, a line
ended by `\r\n`, control sequences cut by a line's end and by the end of a write, and
lines past the width;
a buffer of 18 bytes cuts the last of them. All widths are scaled down together:
lines of 6, views of 14, one listed run, one listed value. Files have up to three lines
of ordinary text and brackets, batches one or two spans with any number and guard.
Each behaviour is one request, since a transform depends on its preimage alone.

### Deadlock and fairness

Requests, ticks, writes and faults are bounded, so a behaviour may stop when they
are used up and the passing runs do not check deadlock. What must not stop is
stated as liveness instead.

`FileVault` and `ShellCapture` state no fairness: a server may crash for good at
every step and nothing is promised to happen. `ReadDedup` assumes that the server
serves the batch it has (`readItems` is a loop without waits) and that a client
holding a cursor goes on once it has nothing else to send; the second is the
client's choice, and termination is only claimed for a client that makes it.
`ServerTables` assumes that the goroutine of a task goes on (`Goroutine`) and that a
parse returns: commands and requests have deadlines after which they are killed, and
tree-sitter has a timeout of its own. For remote commands this takes the process to
close its pipe when it is killed. `TelemetryStore` assumes that the writer of a
process that lives goes on: its ticker fires and file operations return. `VaultUI`
assumes the same of requests and vault operations that have started; nobody is
assumed to get a lock that is held, and crashes release locks as the system does.

## Proofs

Proved for every value of the constants that the named assumptions admit. The
shape is the same everywhere: an inductive invariant, one lemma per action, and
temporal steps only in the theorems. The lemmas about one operation of a task table
are in a module of their own, cited through an instance for each table; every other
proof module extends the specification it is about.

Every safety invariant and action property that a passing run checks is a theorem,
and so is every refinement.

| Module | Theorems | Inductive invariant |
| --- | --- | --- |
| `FileVault_proofs` | `TypeCorrect`: `[]TypeOK`; `RingIsGenuine`: `[]RingGenuine`; `RestoreIsGenuine`: `RestoreGenuine`; `RingStaysUsable`: `[]RingUsable`; `UndoAlwaysSurvives`: `[]UndoSurvives`; `NothingIsLostSilently`: `NothingLostSilently` | `Provenance` and `CaptureInv` |
| `ReadDedup_proofs` | `TypeCorrect`: `[]TypeOK`; `LedgerStaysOrdered`: `[]LedgerOrdered`; `UsesLeaveOnlyAlive`: `NoExpiredAfterUse`; `StubsAreBacked`: `[]StubBackedUnlessCut`; `ForcedBatchesAreWhole`: `ForcedBatchWhole` | `TypeInv`, `StubInv` and `BatchInv` |
| `ShellCapture_proofs` | `TypeCorrect`: `[]TypeOK`; `CapturesOwnTheirBytes`: `[]CaptureOwnsBytes`; `ConfirmedRunsArePrinted`: `[]ConfirmedAsPrinted`; `RunsStayInside`: `BackedRunStaysInside`; `RevertsAreExact`: `RevertIsExact`; `RevertsRestoreTheTree`: `[]RevertRestoresTree` | `CallInv` and `RevertInv` |
| `ServerTables_proofs` | `TypeCorrect`: `[]TypeOK`; `SlotsAreAccountedFor`: `[]SlotsAccounted`; `SpillsAlwaysAgree`: `[]SpillsAgree`; `PayloadsAreWhole`: `[]AssembledWhole`; `StagesAreLostLast`: `StagesLostLast`; `PromiseIsKept`: `TasksKeepPromise`, a refinement | `ServerInv` and `StageInv` |
| `VaultUI_proofs` | `TypeCorrect`: `[]TypeOK`; `VaultAlwaysSurvives`: `[]VaultSurvives`; `OneSessionEach`: `[]OneSessionPerCode`; `EndedIsNotServed`: `EndedStaysEnded`; `PromiseIsKept`: `VaultKeepsPromise`, a refinement | `UIInv` and `SessionInv` |
| `TelemetryStore_proofs` | `TypeCorrect`: `[]TypeOK`; `LoadsAreSound`: `[]LoadIsSound`; `FreshIsSpared`: `FreshSurvivesPrune`; `DirectoryKeepsPromise`: `TotalsKeepPromise`, a refinement | `StoreInv` |
| `TextTools_proofs` | `ViewsAreOfTheBuffer`: `[]ViewInv`; `ViewKeepsItsEnds`: `[]EndsSurvive`; `OutlineIsTrue`: `[]OutlineNamesEveryLine`; `ViewIsRecoverable`: `[]ElisionRecoverable`; `BatchesAreExact`: `EditsExact` | `ViewInv` and `EditInv` |

`FileVault`. `RingGenuine` is not inductive: a capture in flight holds a ring and
a preimage that become metadata two steps later, and a restore holds bytes it
loaded earlier. `Provenance` adds that what is in flight is traced as well. Each
content is in `was`, and `was` never shrinks (`WasGrows`), so a record that is
traced stays traced (`TracedGrows`), whatever the other servers do. For
`RestoreIsGenuine`, `ChangedByOwnStep` shows that a request which ends by changing
the tree does so in its own `Install` or `Move`. Assumed: `RingAssumption` and
`BoundAssumption`.

`CaptureInv` is about what a capture has read and not yet written. For a path that
no two servers captured at once, `RingHolds` says that the metadata names distinct
files, of which all but the last of a full ring can be loaded, and that the capture
in flight is the only one, with the ring as it is now behind its new entry
(`Prepended`). This is what makes the order of `WriteSnapshot`, `RemoveStale` and
`WriteMeta` matter. `OpsKnow` follows a request from its capture to its rename:
version 1 is what it captured until somebody captures (`Recorded`), and the path
holds what it read until somebody writes (`Undisturbed`). `UndoSurvives` and
`NothingLostSilently` follow from both together. Assumed besides:
`SentinelAssumption`, that the marks of an absent file and of an unusable snapshot
are no contents.

`ReadDedup`. `TypeInv` has the ledger as `LedgerAt(ledger, now)`: windows in order of
their last use, each once, expiring no later than a lifetime from now. The order is
what lets `expire` stop at the first entry alive (`ExpireKeeps`), and every operation
of the ledger keeps it (`ToFrontKeeps`, `MarkedKeeps`, `RecordedKeeps`,
`InvalidatedKeeps`). A stub is decided before its page is delivered, so
`StubBackedUnlessCut` needs the page in progress: `StubInv` says that a key the ledger
has is backed or marked by this request, that what this request marked is cut or whole
on its page, and that its stubs are backed or on that page too. For a forced batch,
`BatchInv` keeps the page in order after what was received, and `Place` says where the
next unit belongs: at the start, inside the section of the present version, or at the
section after one that was carried to its end. `ForcedItem` draws from it that a
readable item is never refused and never adds nothing without being cut. Assumed:
`LedgerAssumption`, `ReadAssumption` and `NoneAssumption`, that no request, cursor or
unit is the mark of their absence.

`ShellCapture`. `CallInv` follows a call: a capture is of one call (`Single`), the call
holds it from the first path to the seal and publishes it with its blobs in between
(`Phase`), its surface is what it has captured and what it has left to capture, and its
work stays on that surface (`Surface`). The last part rests on `Effect` after `Pin`,
where the two exceptions of `BackedRunStaysInside` come from. `RevertInv` relates the
tree to the history of a capture: what its entries say of the tree before and after
the command (`Knows`, `Tells`), what a revert has seen of the path it is at (`Seen`),
and, while nobody else has written, that each path is as the command left it, as a
revert put it back, or in the gap of a revert that stopped half-way (`Between`).
Assumed: `CaptureAssumption`, that what a behaviour starts from - tree, rings and old
captures - is of the right kind, and that old captures own no bytes, like those made
before captures had blobs.

`ServerTables`. `SlotsAccounted` ties a table to its goroutines. It needs `HandedOut`:
what is in the table or was asked to cancel has an id handed out before, so a new
task starts clean. That the spill table and its files agree needs `Owns` and
`OwnedByOne`: between the two locked sections of a Store its id belongs to one
writer, has no record, and its file is as far as the writer's own steps have brought it.
`JobsAgree` ties both to the jobs: only a goroutine at work has a job, and only one
whose job is to store has a Store. `StageInv` is about payloads: a stage has one sender
(`OneSender`), who knows how many lines it holds, and for a payload sent by whole lines
it holds exactly these (`InStep`), so that the next piece joins them without loss
(`JoinedIsOnePiece`) and the seal is met in the last piece only (`PieceParses`). Assumed:
`ServerAssumption`, that identities are finite in number, the two tables draw different
ones and the clock may reach its start.

`VaultUI`. `FilesAgree` says that the ciphertext opens whichever of the two renames
a power loss undoes, and `Current` that what the holder of the lock has found out is
still so when it seals; `Exclusive` is the file lock. `OneThingAtATime` says that a
request is either about sessions or in the vault, which is what lets the two
components share the lock: a request that sets the password holds it as well. For
sessions, `Opening` says that the code is unused, on its way to one session or spent;
`EndedAreZero` that what a late login writes back after a logout has the zero time
as its creation, which `Expired` refuses; and `Guarded` that one request at most is
behind the gate. `Locks` and `Held` add that the lock has one holder, and with them
the types follow. Assumed: `VaultAssumption`, that requests and command lines differ,
that there is a key, and that the clock starts within its bound.

`TelemetryStore`. `Unique`: a session publishes a generation once. `Followed`: until a
prune gives a session up, the directory holds nothing newer than its writer has
published, and if it holds anything, it holds that. `Remembered` and `Condemned` are
about what a prune has listed and doomed before the directory moved on, and `LoadInv`
about what a load has listed and read. Every way a file can disappear is first shown
to thin the directory (`Thins`): it takes all of a session or leaves its newest.
Assumed: `StoreAssumption`.

`TextTools`. The state is small and the functions are not: `ViewInv` says that what
the client sees is `Compact` or `compactWindow` of the buffer as it was and that what
`read_block` returned is of a head of that view, and `EditInv`
that the lines are a preimage of the right type. The work is in what the functions
compute, and each of them is a fold. The prover cannot instantiate the library's
induction, so a fold is turned into its run: the states after 0, 1, 2... items, one
function of the position, whose steps are facts about single items. Induction over
such a run is `UpFromZero`: a set of natural numbers with 0 and the successor of
each of its members holds them all. On that rest what the
terminal normalisation leaves of a text (`NormIs`), what splitting and joining lines
do (`SplitIs`) and that templates stand for lines (`TemplatizeIs`).

`EndsSurvive` is then about widths. `BudgetCap` cuts a prefix and a suffix of whole rows,
each at the first row that no longer fits its half, and `BudgetCapKeepsEnds` says of it,
for any rows, what the property says of a view.

`OutlineNamesEveryLine` compares two computations, the outline of the normalised
stream and the lines of the raw one. A newline ends every control sequence and puts the
cursor back to the margin, so a terminal reads the first line of a text as it reads that
line alone and the rest as if it came first (`NormPeels`), and a text is normalised line by
line (`LinesOfText`). The groups partition the lines that show anything, each under its own
number (`GroupsPartition`), and what a head or a slot says of its group is so: the runs of
numbers are in order and apart (`LineSetIs`), and values that are listed, ranged or counted
are those of the lines (`SaidIs`). Neither the clamp nor the budget changes what a row says
(`ClampSays`, `CappedRows`).

`ElisionRecoverable` goes back from a head to the spill: a run of numbers selects that many
raw lines, those under the numbers (`SelectedLines`), and each of them, normalised by
itself, has the template of the head it was asked for (`ReadBack`). Only outlines have
heads (`HeadsOfOutlines`), and a view that is not the raw bytes has a spill of them.

`EditsExact` goes the other way, from the promise to the code: a batch whose
edits are all resolved is sorted by position (`SortedIs`), two neighbours that do not
overlap leave what is between them in place (`InPlace`), and the lines after the batch
are those between the edits woven with the replacements, which is what the property
says (`AppliedIsWoven`).

Assumed: `BoundsAssumption`, that half a budget has
room for the seam and three bytes besides, which the budgets of 8000 and 131072 bytes
have many times over; `ChunksAssumption` and `InputsAssumption`, that streams and batches are made of
characters, marks and spans of the right kind.

Nothing about hashing or encryption is assumed beyond what the models say: a digest
determines its content, a sealed file opens with its key.

Only model-checked:

- liveness: `PagingTerminates`, `EverythingEnds`, `RecordsReachDisk`,
  `RequestsEnd`. Fairness and ENABLED are out of the prover's reach.

## Plan

All components with a protocol between processes, goroutines or requests are
modelled. What would come next: compaction's segments by time stamp, in `LogViews`.

## Not modelled

Cryptography, hashing and randomness are perfect: a digest is its content, a new
name is unused, a sealed file opens with its key only. File modes, symlink
refusals and confinement rechecks only turn a request into an error and appear in
`FileVault` as `Abandon`; so does a rename onto itself, which changes nothing but
the ring. `dry_run` has no effect on the modelled state. `Reap` of the snapshot
vault and of captures is called by tests only. Windows replaces a file by removing
it first; the models have the rename of other systems. A batch edit
(`mutateBatch`) is one commit per path in sequence, each the same as a single edit.

Parts of modelled components: finds by regular expression in `EditTransforms`;
environment, redaction and process groups of the runner; the settings and
telemetry handlers and the pages of the UI; the order in which correlated logs are
merged, which compares time stamps as strings; the multi-line segments and
separators of compaction, which appear as widths.

Whole components: the read helpers and the TERSE codec are pure code whose
definition over tokens would be its own reference; the portable adapter coerces
arguments of one call; path confinement resolves one path against the operating
system; settings are marker files, one per setting, that exist or do not;
transports, wiring, installers and benchmarks are I/O or outside the program.
