----------------------------- MODULE FileVault -----------------------------
(***************************************************************************)
(* The mutation lane of light_file: filetool.mutate/batchEdit/rewrite/     *)
(* restore/rename, file.Commit and the per-path snapshot ring of           *)
(* snapshot.Vault.                                                         *)
(*                                                                         *)
(* Several server processes share one working tree and one snapshot root.  *)
(* A server handles one request at a time (mcp/server.go Serve), so its    *)
(* in-process path locks are never contended and are not a variable; no    *)
(* lock is held between processes.  Commands and editors write the same    *)
(* files without any protocol.  A server may crash between any two steps.  *)
(*                                                                         *)
(* A file's content is the set of change tokens it carries: a write        *)
(* replaces the set, an edit or sed adds its token to the set it read.     *)
(* File modes, symlink refusals and dry_run leave no trace here: the       *)
(* refusals are the errors that Fail and the guards stand for.             *)
(***************************************************************************)
EXTENDS Integers, Sequences

CONSTANTS Servers,      \* light-tools processes
          Paths,        \* files of the working tree
          Tokens,       \* changes a file can carry
          SnapIds,      \* names a snapshot file of one path can have
          RingSize,     \* ringSize, 3 in the code
          MaxRequests,  \* bound on the requests a behaviour starts
          MaxOutside,   \* bound on the outside writes and power losses
          Absent, None, NoFile, Torn

Content == SUBSET Tokens

ASSUME RingAssumption == RingSize \in Nat \ {0, 1}
ASSUME BoundAssumption == MaxRequests \in Nat /\ MaxOutside \in Nat
ASSUME SentinelAssumption ==
    /\ {Absent, None, NoFile, Torn} \cap Content = {}
    /\ None \notin Paths
    /\ NoFile # Torn

VARIABLES
    content,   \* [Paths -> Content or Absent]: the working tree
    snaps,     \* [Paths -> [SnapIds -> ...]]: *.snapshot files of a path's directory
    meta,      \* [Paths -> Seq(Entry)]: metadata.json, newest entry first
    op,        \* [Servers -> Op]: the request each server is handling
    was,       \* history: every content each path has had
    undo,      \* history: what the last snapshotted change of a path replaced
    age,       \* history: captures of a path since that change
    clash,     \* history: paths two servers have captured at the same time
    requests,  \* number of requests started
    outside    \* number of outside writes and power losses

vars == <<content, snaps, meta, op, was, undo, age, clash, requests, outside>>
disk == <<content, snaps, meta>>
history == <<was, undo, age, clash>>
bounds == <<requests, outside>>

Entry == [file: SnapIds, sha: Content]
Verbs == {"write", "edit", "rewrite", "restore", "rename"}
Steps == {"idle", "load", "current", "check", "snapshot", "trim", "meta",
          "install", "target", "move"}

\* What a server holds while it handles a request: the verb and its arguments,
\* the result data, the preimage pre of the path cap being captured, the
\* metadata ring about to be written, and whether a capture is complete (saved).
\* seen is the content a rename read from its source.  raced is history: since
\* the request last looked, another actor changed a path of it.
Op == [pc: Steps, verb: Verbs, path: Paths \cup {None}, to: Paths \cup {None},
       tok: Tokens \cup {None}, sha: Content \cup {None}, overwrite: BOOLEAN,
       data: Content, pre: Content, seen: Content, cap: Paths \cup {None},
       ring: Seq(Entry), saved: BOOLEAN, raced: BOOLEAN,
       followed: BOOLEAN]

IdleOp == [pc |-> "idle", verb |-> "write", path |-> None, to |-> None, tok |-> None,
           sha |-> None, overwrite |-> FALSE, data |-> {}, pre |-> {}, seen |-> {},
           cap |-> None, ring |-> <<>>, saved |-> FALSE, raced |-> FALSE,
           followed |-> FALSE]

-----------------------------------------------------------------------------
(* Helpers. *)

\* digest: an absent file is read as nil, which hashes as the empty file.
DigestAsRead(c) == c                                            \* mutant
Digest(c) == IF c = Absent THEN {} ELSE c

\* The entries a capture keeps, and the files of the ones it drops.
KeptOldest(ring) == SubSeq(ring, IF Len(ring) < RingSize THEN 1 ELSE Len(ring) - RingSize + 1,
                           Len(ring))                           \* mutant
StaleOffByOne(ring) == {ring[i].file : i \in RingSize..Len(ring)}  \* mutant
Kept(ring) == SubSeq(ring, 1, IF Len(ring) < RingSize THEN Len(ring) ELSE RingSize)
Stale(ring) == {ring[i].file : i \in (RingSize + 1)..Len(ring)}

\* Vault.Load: the version must exist, its file must be there and match its sum.
Loaded(p, v) == snaps[p][meta[p][v].file]
LoadableUnchecked(p, v) == v \in 1..Len(meta[p]) /\ Loaded(p, v) # NoFile  \* mutant
Loadable(p, v) == v \in 1..Len(meta[p]) /\ Loaded(p, v) = meta[p][v].sha

\* A snapshot's name carries the wall clock and a hash: a new one is used by no
\* file, no metadata and no capture in flight.
NamedIn(ring) == {ring[i].file : i \in 1..Len(ring)}
FreshIds(p) ==
    {i \in SnapIds : /\ snaps[p][i] = NoFile
                     /\ i \notin NamedIn(meta[p])
                     /\ \A s \in Servers : op[s].cap = p => i \notin NamedIn(op[s].ring)}

\* What Commit hands its Snapshotter, and when: rewrite passes none.
PostimageOf(o) == o.data                                        \* mutant
PreimageOf(o) == o.pre
SnapshotUnlessRestored(o, now) == now # Absent /\ o.verb \notin {"rewrite", "restore"}  \* mutant
NeedsSnapshot(o, now) == now # Absent /\ o.verb # "rewrite"

\* Server s is between reading the metadata of p and replacing it.
Capturing(s, p) == op[s].pc \in {"trim", "meta"} /\ op[s].cap = p

\* Server s ends its request having changed the paths ps: every other request
\* on one of them has been raced.
RaceOthers(s, ps) ==
    op' = [x \in Servers |->
             IF x = s THEN IdleOp
             ELSE IF op[x].path \in ps \/ op[x].to \in ps
                  THEN [op[x] EXCEPT !.raced = TRUE] ELSE op[x]]

-----------------------------------------------------------------------------
Init ==
    /\ content \in [Paths -> Content \cup {Absent}]
    /\ snaps = [p \in Paths |-> [i \in SnapIds |-> NoFile]]
    /\ meta = [p \in Paths |-> <<>>]
    /\ op = [s \in Servers |-> IdleOp]
    /\ was = [p \in Paths |-> {content[p]} \ {Absent}]
    /\ undo = [p \in Paths |-> Absent]
    /\ age = [p \in Paths |-> 0]
    /\ clash = {}
    /\ requests = 0
    /\ outside = 0

\* A request arrives and its handler does its first read.
Begin(s, o) ==
    /\ op[s].pc = "idle"
    /\ requests < MaxRequests
    /\ requests' = requests + 1
    /\ op' = [op EXCEPT ![s] = o]
    /\ UNCHANGED <<disk, history, outside>>

\* mutate, verb write: the preimage is not an input of the result.
BeginWrite(s, p, t, e) ==
    Begin(s, [IdleOp EXCEPT !.pc = "check", !.verb = "write", !.path = p, !.tok = t,
                            !.sha = e, !.data = {t}])

\* mutate and batchEdit, verbs edit and sed: the result is computed from a read
\* that precedes Commit's own.
BeginEdit(s, p, t, e) ==
    /\ content[p] # Absent
    /\ Begin(s, [IdleOp EXCEPT !.pc = "check", !.verb = "edit", !.path = p, !.tok = t,
                               !.sha = e, !.data = content[p] \cup {t}])

\* rewrite reads the current bytes, whose digest is its guard unless forced ...
BeginRewrite(s, p, t, force) ==
    /\ content[p] # Absent
    /\ Begin(s, [IdleOp EXCEPT !.pc = "load", !.verb = "rewrite", !.path = p, !.tok = t,
                               !.sha = IF force THEN None ELSE content[p]])

\* ... and then applies the edit to the newest snapshot.
LoadBase(s) ==
    LET o == op[s] IN
    /\ o.pc = "load"
    /\ op' = [op EXCEPT ![s] =
                IF Loadable(o.path, 1)
                THEN [o EXCEPT !.pc = "check", !.data = Loaded(o.path, 1) \cup {o.tok}]
                ELSE IdleOp]
    /\ UNCHANGED <<disk, history, bounds>>

\* restore loads the version first; with neither a guard of the caller's nor
\* force it then reads the current bytes to make one.
BeginRestore(s, p, v, e, force) ==
    /\ Loadable(p, v)
    /\ Begin(s, [IdleOp EXCEPT !.pc = IF e = None /\ ~force THEN "current" ELSE "check",
                               !.verb = "restore", !.path = p, !.sha = e,
                               !.data = Loaded(p, v)])

ReadCurrent(s) ==
    LET o == op[s] IN
    /\ o.pc = "current"
    /\ op' = [op EXCEPT ![s] = IF content[o.path] = Absent THEN IdleOp
                               ELSE [o EXCEPT !.pc = "check", !.sha = content[o.path]]]
    /\ UNCHANGED <<disk, history, bounds>>

\* rename reads its source and captures it first.
BeginRename(s, p, q, overwrite) ==
    /\ p # q
    /\ content[p] # Absent
    /\ Begin(s, [IdleOp EXCEPT !.pc = "snapshot", !.verb = "rename", !.path = p, !.to = q,
                               !.overwrite = overwrite, !.pre = content[p],
                               !.seen = content[p], !.cap = p])

\* Commit re-reads the file: a guard that does not match and a result that
\* changes nothing end the request.
Check(s) ==
    LET o == op[s]
        now == content[o.path] IN
    /\ o.pc = "check"
    /\ op' = [op EXCEPT ![s] =
                IF o.sha \notin {None, Digest(now)} \/ o.data = now THEN IdleOp
                ELSE [o EXCEPT !.pc = IF NeedsSnapshot(o, now) THEN "snapshot" ELSE "install",
                               !.pre = Digest(now), !.cap = o.path, !.raced = FALSE,
                               !.followed = FALSE]]
    /\ UNCHANGED <<disk, history, bounds>>

-----------------------------------------------------------------------------
(* Vault.Capture, one step per effect on the shared snapshot directory. *)

\* The metadata is read and the preimage written, without an fsync.
WriteSnapshot(s) ==
    LET o == op[s] IN
    /\ o.pc = "snapshot"
    /\ \E i \in FreshIds(o.cap) :
         /\ snaps' = [snaps EXCEPT ![o.cap][i] = PreimageOf(o)]
         /\ op' = [op EXCEPT ![s] = [o EXCEPT !.pc = "trim",
                     !.ring = <<[file |-> i, sha |-> PreimageOf(o)]>> \o meta[o.cap]]]
    /\ clash' = IF \E x \in Servers : Capturing(x, o.cap) THEN clash \cup {o.cap} ELSE clash
    /\ UNCHANGED <<content, meta, was, undo, age, bounds>>

\* Files that fall off the ring go before the metadata stops naming them.
RemoveStale(s) ==
    LET o == op[s] IN
    /\ o.pc = "trim"
    /\ snaps' = [snaps EXCEPT ![o.cap] =
                   [i \in SnapIds |-> IF i \in Stale(o.ring) THEN NoFile ELSE snaps[o.cap][i]]]
    /\ op' = [op EXCEPT ![s].pc = "meta"]
    /\ UNCHANGED <<content, meta, history, bounds>>

\* writeJSONAtomic replaces the whole metadata file.
WriteMeta(s) ==
    LET o == op[s] IN
    /\ o.pc = "meta"
    /\ meta' = [meta EXCEPT ![o.cap] = Kept(o.ring)]
    /\ age' = [age EXCEPT ![o.cap] = IF age[o.cap] < RingSize THEN age[o.cap] + 1 ELSE RingSize]
    /\ op' = [x \in Servers |->
                IF x = s
                THEN [o EXCEPT !.ring = <<>>, !.saved = TRUE,
                               !.pc = IF o.verb # "rename" THEN "install"
                                      ELSE IF o.cap = o.path THEN "target" ELSE "move"]
                ELSE IF o.cap \in {op[x].path, op[x].to}
                     THEN [op[x] EXCEPT !.followed = TRUE] ELSE op[x]]
    /\ UNCHANGED <<content, snaps, was, undo, clash, bounds>>

Disturbed(o) == o.raced \/ o.followed

-----------------------------------------------------------------------------
\* The synced temporary file is renamed over the target.  The directory sync and
\* the identity recheck that follow can only change what is reported.
Install(s) ==
    LET o == op[s]
        p == o.path IN
    /\ o.pc = "install"
    /\ content' = [content EXCEPT ![p] = o.data]
    /\ was' = [was EXCEPT ![p] = was[p] \cup {o.data}]
    /\ undo' = IF o.saved THEN [undo EXCEPT ![p] = IF Disturbed(o) THEN Absent ELSE o.pre] ELSE undo
    /\ age' = IF o.saved THEN [age EXCEPT ![p] = 0] ELSE age
    /\ RaceOthers(s, {p})
    /\ UNCHANGED <<snaps, meta, clash, bounds>>

\* rename looks at its target only now; an existing one is captured as well.
CheckTarget(s) ==
    LET o == op[s]
        now == content[o.to] IN
    /\ o.pc = "target"
    /\ op' = [op EXCEPT ![s] =
                IF now = Absent THEN [o EXCEPT !.pc = "move", !.cap = None]
                ELSE IF ~o.overwrite THEN IdleOp
                ELSE [o EXCEPT !.pc = "snapshot", !.pre = now, !.cap = o.to]]
    /\ UNCHANGED <<disk, history, bounds>>

\* os.Rename moves whatever the source holds now, over whatever the target is now.
Move(s) ==
    LET o == op[s]
        p == o.path
        q == o.to IN
    /\ o.pc = "move"
    /\ content[p] # Absent
    /\ content' = [content EXCEPT ![p] = Absent, ![q] = content[p]]
    /\ was' = [was EXCEPT ![q] = was[q] \cup {content[p]}]
    /\ undo' = [undo EXCEPT ![p] = IF Disturbed(o) THEN Absent ELSE o.seen,
                            ![q] = IF o.cap # q THEN undo[q]
                                   ELSE IF Disturbed(o) THEN Absent ELSE o.pre]
    /\ age' = [age EXCEPT ![p] = 0, ![q] = IF o.cap = q THEN 0 ELSE age[q]]
    /\ RaceOthers(s, {p, q})
    /\ UNCHANGED <<snaps, meta, clash, bounds>>

-----------------------------------------------------------------------------
(* The environment. *)

\* A step of the request fails, or its process dies: nothing is rolled back, and
\* nothing the next request needs was in memory.
Abandon(s) ==
    /\ op[s].pc # "idle"
    /\ op' = [op EXCEPT ![s] = IdleOp]
    /\ UNCHANGED <<disk, history, bounds>>

\* A command or an editor writes or removes a file.
Outside(p, c) ==
    /\ c # content[p]
    /\ outside < MaxOutside
    /\ outside' = outside + 1
    /\ content' = [content EXCEPT ![p] = c]
    /\ was' = [was EXCEPT ![p] = was[p] \cup ({c} \ {Absent})]
    /\ op' = [x \in Servers |-> IF p \in {op[x].path, op[x].to}
                                THEN [op[x] EXCEPT !.raced = TRUE] ELSE op[x]]
    /\ UNCHANGED <<snaps, meta, undo, age, clash, requests>>

\* The machine stops.  Nothing syncs a snapshot file, so the ones the kernel has
\* not written back may be cut short; what else is on disk was synced.
PowerLoss(lost) ==
    /\ lost # {}
    /\ outside < MaxOutside
    /\ outside' = outside + 1
    /\ snaps' = [p \in Paths |-> [i \in SnapIds |->
                   IF <<p, i>> \in lost THEN Torn ELSE snaps[p][i]]]
    /\ op' = [s \in Servers |-> IdleOp]
    /\ UNCHANGED <<content, meta, history, requests>>

SnapshotFiles == {f \in Paths \X SnapIds : snaps[f[1]][f[2]] # NoFile}

Guards(p) == {None} \cup was[p]   \* the digests a caller can have learnt

Handle(s) == \/ LoadBase(s) \/ ReadCurrent(s) \/ Check(s)
             \/ WriteSnapshot(s) \/ RemoveStale(s) \/ WriteMeta(s)
             \/ Install(s) \/ CheckTarget(s) \/ Move(s)

Next ==
    \/ \E s \in Servers, p \in Paths :
         \/ \E t \in Tokens, e \in Guards(p) : BeginWrite(s, p, t, e)
         \/ \E t \in Tokens, e \in Guards(p) : BeginEdit(s, p, t, e)
         \/ \E t \in Tokens, force \in BOOLEAN : BeginRewrite(s, p, t, force)
         \/ \E v \in 1..RingSize, e \in Guards(p), force \in BOOLEAN :
              BeginRestore(s, p, v, e, force)
         \/ \E q \in Paths, overwrite \in BOOLEAN : BeginRename(s, p, q, overwrite)
    \/ \E s \in Servers : Handle(s) \/ Abandon(s)
    \/ \E p \in Paths, c \in Content \cup {Absent} : Outside(p, c)
    \/ \E lost \in SUBSET SnapshotFiles : PowerLoss(lost)

Spec == Init /\ [][Next]_vars

-----------------------------------------------------------------------------
(* Properties. *)

\* Every variable keeps its type; a request past its first read has a path.
TypeOK ==
    /\ content \in [Paths -> Content \cup {Absent}]
    /\ snaps \in [Paths -> [SnapIds -> Content \cup {NoFile, Torn}]]
    /\ meta \in [Paths -> Seq(Entry)]
    /\ op \in [Servers -> Op]
    /\ \A s \in Servers :
         /\ op[s].pc # "idle" => op[s].path \in Paths
         /\ op[s].pc \in {"load"} => op[s].tok \in Tokens
         /\ op[s].pc \in {"snapshot", "trim", "meta"} => op[s].cap \in Paths
         /\ op[s].pc \in {"target", "move"} \/ op[s].verb = "rename" => op[s].to \in Paths
    /\ was \in [Paths -> SUBSET Content]
    /\ undo \in [Paths -> Content \cup {Absent}]
    /\ age \in [Paths -> 0..RingSize]
    /\ clash \subseteq Paths
    /\ requests \in 0..MaxRequests /\ outside \in 0..MaxOutside

\* The ring of a path names only contents that path has had, whatever crashes,
\* races between servers and outside writers did to it.
RingGenuine ==
    \A p \in Paths : \A k \in 1..Len(meta[p]) : meta[p][k].sha \in was[p]

\* This step is server s changing the working tree, which ends its request.
Changes(s) == op[s].pc # "idle" /\ op'[s].pc = "idle" /\ content' # content

\* vault_restore never puts into a file bytes that file did not once hold: not
\* after a crash in the middle of a capture, not after a torn snapshot file.
RestoreGenuine ==
    [][\A s \in Servers :
         (Changes(s) /\ op[s].verb = "restore")
            => content'[op[s].path] \in was[op[s].path]]_vars

\* Unless two servers captured a path at the same time, every version of its
\* ring but the oldest of a full one can be loaded (or was torn by a power loss):
\* a crash between removing stale files and replacing the metadata costs no more.
RingUsable ==
    \A p \in Paths \ clash : \A k \in 1..Len(meta[p]) :
        k < RingSize => Loaded(p, k) \in {meta[p][k].sha, Torn}

\* What the last snapshotted change of a path replaced stays in its ring, one
\* place further down for every capture made since, those of requests that then
\* failed included, until the ring has turned over.
UndoSurvives ==
    \A p \in Paths \ clash :
        (undo[p] # Absent /\ age[p] < RingSize)
            => /\ age[p] + 1 <= Len(meta[p])
               /\ meta[p][age[p] + 1].sha = undo[p]

\* The content a commit or a rename makes disappear from a path is version 1 of
\* the path's ring at that moment, unless the verb is rewrite, which takes no
\* snapshot, or somebody changed or captured the file during the request.
Replaced(s) == {p \in {op[s].path, op[s].to} \cap Paths :
                  content[p] # Absent /\ content'[p] # content[p]}
NothingLostSilently ==
    [][\A s \in Servers :
         (Changes(s) /\ op[s].verb # "rewrite" /\ ~Disturbed(op[s]))
         => \A p \in Replaced(s) \ clash :
               Len(meta[p]) > 0 /\ meta[p][1].sha = content[p]
               /\ (Loaded(p, 1) \in {content[p], Torn})]_vars

\* docs/REFERENCE.md:69, "optional expected_sha compare-and-swap": an edit sent
\* with the digest of X, that nobody disturbs once Commit has compared it,
\* installs the edit of X.  Violated: the edit was computed from an earlier read.
GuardedEditOfGuard ==
    [][\A s \in Servers :
         (Changes(s) /\ op[s].verb = "edit" /\ op[s].sha # None /\ ~Disturbed(op[s]))
         => content'[op[s].path] = op[s].sha \cup {op[s].tok}]_vars

=============================================================================
