----------------------- MODULE TelemetryStore_proofs -----------------------
(***************************************************************************)
(* What holds of the telemetry directory for any number of sessions,       *)
(* records and failed writes: its types, the lower bound it promises for   *)
(* each session, what a load returns, and what a prune spares.             *)
(***************************************************************************)
EXTENDS TelemetryStore, TLAPS

Snapshot == [session : Session, gen : Nat, version : Nat, at : Nat]

Pcs == {"idle", "write", "note", "remove", "list", "decide", "prune", "gone"}

Writer == [pc : Pcs, version : Nat, listed : SUBSET Snapshot, doomed : SUBSET Snapshot,
           crowded : BOOLEAN]

Loading == [pc : {"idle", "scan"}, pass : 1..2, listed : SUBSET Snapshot, todo : SUBSET Snapshot,
            best : SUBSET Snapshot, warned : SUBSET Session]

Sorts ==
  /\ now \in Nat \ {0}
  /\ disk \subseteq Snapshot
  /\ version \in [Session -> Nat] /\ flushed \in [Session -> Nat]
  /\ generation \in [Session -> Nat]
  /\ writer \in [Session -> Writer]
  /\ failures \in Nat
  /\ load \in Loading

\* A session publishes a generation once.
Unique(snapshots) ==
  \A f, g \in snapshots : f.session = g.session /\ f.gen = g.gen => f = g

IsNewest(f, snapshots) == \A g \in Of(f.session, snapshots) : g.gen <= f.gen

\* Of the snapshots of a session one is the newest.
Topped(snapshots) ==
  \A s \in Session : Of(s, snapshots) = {} \/ \E f \in Of(s, snapshots) : IsNewest(f, snapshots)

\* The generation and the version of the last snapshot its writer has published.
Top(s) == IF writer[s].pc = "note" THEN generation[s] + 1 ELSE generation[s]
Covered(s) == IF writer[s].pc = "note" THEN writer[s].version ELSE flushed[s]

\* What the directory holds of a live session is at most what its writer has published, and if
\* there is anything, that is there.
Followed(s) ==
  /\ flushed[s] <= version[s]
  /\ writer[s].pc \in {"write", "note"} =>
       flushed[s] < writer[s].version /\ writer[s].version <= version[s]
  /\ writer[s].pc # "gone" =>
       /\ \A f \in Of(s, disk) : f.gen <= Top(s) /\ f.version <= Covered(s)
       /\ Of(s, disk) = {} \/ \E f \in Of(s, disk) : f.gen = Top(s)

\* What a prune has listed was on disk once.
Remembered(d) ==
  /\ \A f \in disk : f.session = d.session /\ f.gen = d.gen => f = d
  /\ Of(d.session, disk) = {} \/ \E f \in Of(d.session, disk) : d.gen <= f.gen
  /\ writer[d.session].pc # "gone" => d.gen <= Top(d.session)

\* What a prune has doomed is another session's, and past retention or in excess.
Condemned(s, d) ==
  /\ d.session # s
  /\ writer[s].crowded \/ d \notin disk \/ now > d.at + Retention

PruneInv ==
  \A s \in Session :
    /\ \A d \in writer[s].listed \union writer[s].doomed : Remembered(d)
    /\ writer[s].pc = "prune" => \A d \in writer[s].doomed : Condemned(s, d)

\* A load in progress has kept the best of what it has read.
LoadInv ==
  /\ load.todo \subseteq load.listed /\ load.best \subseteq load.listed
  /\ Unique(load.listed) /\ Topped(load.listed)
  /\ \A f \in load.listed : f.version <= version[f.session]
  /\ \A f, g \in load.best : f.session = g.session => f = g
  /\ \A f \in load.listed \ load.todo :
       f.session \in load.warned \/ \E g \in load.best : g.session = f.session /\ f.gen <= g.gen

DiskInv == Unique(disk) /\ Topped(disk) /\ \A s \in Session : Followed(s)

StoreInv == Sorts /\ TypeOK /\ DiskInv /\ PruneInv /\ LoadInv

-----------------------------------------------------------------------------
(* Lemmas about sets of snapshots. *)

LEMMA OfMember == \A s, D, f : f \in Of(s, D) <=> f \in D /\ f.session = s
  BY DEF Of

\* The newest snapshot is the one that is not exceeded.
LEMMA NewestIs ==
    ASSUME NEW D \in SUBSET Snapshot, Unique(D), NEW s \in Session, NEW f \in Of(s, D),
           IsNewest(f, D)
    PROVE  Newest(s, D) = f
<1>1. f \in D /\ f.session = s
  BY OfMember
<1>2. \A g \in Of(s, D) : g.gen <= f.gen
  BY <1>1 DEF IsNewest
<1>3. ASSUME NEW h \in Of(s, D), \A g \in Of(s, D) : g.gen <= h.gen PROVE h = f
  <2>1. h \in D /\ h.session = s /\ h.gen <= f.gen /\ f.gen <= h.gen
    BY <1>2, <1>3, OfMember
  <2>2. h.gen = f.gen
    BY <2>1, <1>1 DEF Snapshot
  <2> QED BY <2>1, <2>2, <1>1 DEF Unique
<1> QED BY <1>2, <1>3 DEF Newest

LEMMA NewestOf ==
    ASSUME NEW D \in SUBSET Snapshot, Unique(D), Topped(D), NEW s \in Session, Of(s, D) # {}
    PROVE  /\ Newest(s, D) \in D /\ Newest(s, D).session = s
           /\ \A g \in Of(s, D) : g.gen <= Newest(s, D).gen
<1>1. PICK f \in Of(s, D) : IsNewest(f, D)
  BY DEF Topped
<1>2. Newest(s, D) = f
  BY <1>1, NewestIs
<1> QED BY <1>1, <1>2, OfMember DEF IsNewest

\* A removal either takes all of a session or leaves its newest.
Thins(D, E) ==
  /\ E \subseteq D
  /\ \A s \in Session : Of(s, E) = {} \/ \A f \in Of(s, D) : IsNewest(f, D) => f \in E

LEMMA ThinnedOf ==
    ASSUME NEW D \in SUBSET Snapshot, NEW E, Unique(D), Topped(D), Thins(D, E)
    PROVE  /\ Unique(E) /\ Topped(E)
           /\ \A s \in Session :
                Of(s, E) = {} \/ (Of(s, D) # {} /\ Newest(s, E) = Newest(s, D) /\ Newest(s, D) \in Of(s, E))
<1>1. Unique(E)
  BY DEF Unique, Thins
<1>2. ASSUME NEW s \in Session, Of(s, E) # {}
      PROVE  \E f \in Of(s, E) : f \in Of(s, D) /\ IsNewest(f, E) /\ IsNewest(f, D)
  <2>1. Of(s, E) \subseteq Of(s, D)
    BY DEF Thins, Of
  <2>2. PICK f \in Of(s, D) : IsNewest(f, D)
    BY <1>2, <2>1 DEF Topped
  <2>3. f \in Of(s, E)
    BY <1>2, <2>2, OfMember DEF Thins
  <2>4. IsNewest(f, E)
    BY <2>1, <2>2, OfMember DEF IsNewest
  <2> QED BY <2>2, <2>3, <2>4
<1>3. Topped(E)
  BY <1>2 DEF Topped
<1>4. ASSUME NEW s \in Session, Of(s, E) # {}
      PROVE  Of(s, D) # {} /\ Newest(s, E) = Newest(s, D) /\ Newest(s, D) \in Of(s, E)
  <2>1. PICK f \in Of(s, E) : f \in Of(s, D) /\ IsNewest(f, E) /\ IsNewest(f, D)
    BY <1>2, <1>4
  <2>2. E \in SUBSET Snapshot
    BY DEF Thins
  <2> QED BY <2>1, <2>2, <1>1, NewestIs
<1> QED BY <1>1, <1>3, <1>4
-----------------------------------------------------------------------------
(* What a step does not touch stays as it is. *)

\* A session that has grown, and whose writer is where it was or has gone.
Same(s) ==
  /\ version[s] <= version'[s] /\ flushed'[s] = flushed[s] /\ generation'[s] = generation[s]
  /\ writer'[s] = writer[s]

LEMMA FollowedStays ==
    ASSUME Sorts, Sorts', NEW s \in Session, Followed(s), Same(s), Of(s, disk') = Of(s, disk)
    PROVE  Followed(s)'
<1>1. version[s] \in Nat /\ version'[s] \in Nat /\ flushed[s] \in Nat /\ writer[s].version \in Nat
  BY DEF Sorts, Writer
<1>2. Top(s)' = Top(s) /\ Covered(s)' = Covered(s)
  BY DEF Top, Covered, Same
<1>3. Of(s, disk)' = Of(s, disk)
  BY DEF Of
<1> QED BY <1>1, <1>2, <1>3 DEF Followed, Same

LEMMA RememberedStays ==
    ASSUME Sorts, Sorts', NEW d \in Snapshot, Remembered(d), disk' = disk,
           writer'[d.session].pc # "gone" =>
             writer[d.session].pc # "gone" /\ Top(d.session) <= Top(d.session)'
    PROVE  Remembered(d)'
<1>1. d.session \in Session /\ d.gen \in Nat
  BY DEF Snapshot
<1>2. Top(d.session) \in Nat /\ Top(d.session)' \in Nat
  BY <1>1 DEF Top, Sorts
<1>3. Of(d.session, disk)' = Of(d.session, disk)
  BY DEF Of
<1> QED BY <1>1, <1>2, <1>3 DEF Remembered

\* A step that only moves writers on, and none of them to a prune.
MovesOn ==
  /\ disk' = disk /\ now <= now'
  /\ \A s \in Session :
       /\ writer'[s].pc # "gone" => writer[s].pc # "gone" /\ Top(s) <= Top(s)'
       /\ writer'[s].listed \subseteq writer[s].listed
       /\ writer'[s].doomed \subseteq writer[s].doomed
       /\ writer'[s].pc = "prune" => writer[s].pc = "prune" /\ writer'[s].crowded = writer[s].crowded

LEMMA PruneStays ==
    ASSUME Sorts, Sorts', PruneInv, MovesOn
    PROVE  PruneInv'
<1> SUFFICES ASSUME NEW s \in Session
             PROVE  /\ \A d \in writer'[s].listed \union writer'[s].doomed : Remembered(d)'
                    /\ writer'[s].pc = "prune" => \A d \in writer'[s].doomed : Condemned(s, d)'
  BY DEF PruneInv
<1>1. ASSUME NEW d \in writer'[s].listed \union writer'[s].doomed PROVE Remembered(d)'
  <2>1. d \in Snapshot /\ d.session \in Session
    BY DEF Sorts, Writer, Snapshot
  <2>2. Remembered(d)
    BY DEF PruneInv, MovesOn
  <2> QED BY <2>1, <2>2, RememberedStays DEF MovesOn
<1>2. ASSUME NEW d \in writer'[s].doomed, writer'[s].pc = "prune" PROVE Condemned(s, d)'
  <2>1. Condemned(s, d) /\ disk' = disk /\ writer'[s].crowded = writer[s].crowded
    BY <1>2 DEF PruneInv, MovesOn
  <2>2. d.at \in Nat /\ now \in Nat /\ now' \in Nat /\ now <= now' /\ Retention \in Nat
    BY StoreAssumption DEF Sorts, Writer, Snapshot, MovesOn
  <2> QED BY <2>1, <2>2 DEF Condemned
<1> QED BY <1>1, <1>2

LEMMA LoadStays ==
    ASSUME Sorts, Sorts', LoadInv, load' = load, \A s \in Session : version[s] <= version'[s]
    PROVE  LoadInv'
<1>1. \A f \in load.listed : f.version <= version'[f.session]
  <2> SUFFICES ASSUME NEW f \in load.listed PROVE f.version <= version'[f.session]
    OBVIOUS
  <2>1. f.version \in Nat /\ f.session \in Session
    BY DEF Sorts, Loading, Snapshot
  <2>2. version[f.session] \in Nat /\ version'[f.session] \in Nat
    BY <2>1 DEF Sorts
  <2> QED BY <2>1, <2>2 DEF LoadInv
<1>2. Topped(load.listed)' /\ Unique(load.listed)'
  BY DEF LoadInv, Topped, Unique, Of, IsNewest
<1> QED BY <1>1, <1>2 DEF LoadInv

\* A step of one writer that leaves the directory.
OwnStep(s) ==
  /\ UNCHANGED <<now, disk, version, load>>
  /\ \A u \in Session \ {s} : Same(u)
  /\ failures' \in 0..MaxFailures

LEMMA OwnStepKeeps ==
    ASSUME StoreInv, NEW s \in Session, OwnStep(s), Sorts', Followed(s)',
           generation[s] <= generation'[s]
    PROVE  TypeOK' /\ DiskInv' /\ LoadInv'
<1>1. TypeOK'
  <2>1. \A u \in Session : /\ flushed'[u] \in 0..version'[u]
                           /\ generation'[u] \in Nat /\ generation[u] <= generation'[u]
                           /\ writer'[u].pc \in Pcs
    <3> SUFFICES ASSUME NEW u \in Session
                 PROVE  /\ flushed'[u] \in 0..version'[u]
                        /\ generation'[u] \in Nat /\ generation[u] <= generation'[u]
                        /\ writer'[u].pc \in Pcs
      OBVIOUS
    <3>1. /\ flushed'[u] \in Nat /\ version'[u] \in Nat /\ generation'[u] \in Nat
          /\ generation[u] \in Nat /\ writer'[u].pc \in Pcs
      BY DEF StoreInv, Sorts, Writer
    <3>2. flushed'[u] <= version'[u]
      BY DEF StoreInv, TypeOK, OwnStep, Same, Followed
    <3> QED BY <3>1, <3>2 DEF OwnStep, Same
  <2>2. \A f \in disk : f.session \in Session /\ f.gen \in 1..generation'[f.session] + 1
    <3> SUFFICES ASSUME NEW f \in disk
                 PROVE  f.session \in Session /\ f.gen \in 1..generation'[f.session] + 1
      OBVIOUS
    <3>1. f.session \in Session /\ f.gen \in 1..generation[f.session] + 1
      BY DEF StoreInv, TypeOK
    <3>2. generation[f.session] \in Nat
      BY <3>1 DEF StoreInv, Sorts
    <3> QED BY <3>1, <3>2, <2>1
  <2>3. /\ now \in 1..MaxTime
        /\ \A f \in disk : f.at \in 1..now /\ f.version \in 1..version[f.session]
        /\ \A u \in Session : version[u] \in 0..MaxRecords[u]
        /\ load.pc \in {"idle", "scan"} /\ load.pass \in 1..2
    BY DEF StoreInv, TypeOK
  <2> QED BY <2>1, <2>2, <2>3 DEF TypeOK, OwnStep, Pcs
<1>2. \A u \in Session \ {s} : Followed(u)'
  BY FollowedStays DEF StoreInv, DiskInv, OwnStep
<1>3. Unique(disk)' /\ Topped(disk)'
  BY DEF StoreInv, DiskInv, OwnStep, Unique, Topped, Of, IsNewest
<1>4. LoadInv'
  <2>1. \A u \in Session : version[u] <= version'[u]
    BY DEF StoreInv, Sorts, OwnStep
  <2> QED BY <2>1, LoadStays DEF StoreInv, OwnStep
<1> QED BY <1>1, <1>2, <1>3, <1>4 DEF DiskInv
-----------------------------------------------------------------------------
(* The steps that leave the directory. *)

LEMMA InitKeeps == Init => StoreInv
<1> SUFFICES ASSUME Init PROVE StoreInv
  OBVIOUS
<1> USE StoreAssumption
<1>1. Sorts
  BY DEF Init, Sorts, Idle, NoLoad, Writer, Loading, Pcs
<1>2. TypeOK
  BY DEF Init, TypeOK, Idle, NoLoad
<1>3. DiskInv
  BY DEF Init, DiskInv, Unique, Topped, Followed, Of, Idle
<1>4. PruneInv
  BY DEF Init, PruneInv, Idle
<1>5. LoadInv
  BY DEF Init, LoadInv, NoLoad, Unique, Topped, Of
<1> QED BY <1>1, <1>2, <1>3, <1>4, <1>5 DEF StoreInv

LEMMA TickKeeps ==
    ASSUME StoreInv, Tick
    PROVE  StoreInv'
<1>1. Sorts'
  BY StoreAssumption DEF StoreInv, Sorts, Tick
<1>2. TypeOK'
  BY StoreAssumption DEF StoreInv, Sorts, TypeOK, Tick
<1>3. DiskInv'
  <2>1. \A s \in Session : Same(s)
    BY DEF StoreInv, Sorts, Tick, Same
  <2>2. \A s \in Session : Followed(s)'
    BY <1>1, <2>1, FollowedStays DEF StoreInv, DiskInv, Tick
  <2> QED BY <2>2 DEF StoreInv, DiskInv, Tick, Unique, Topped, Of, IsNewest
<1>4. PruneInv'
  <2>1. MovesOn
    <3>1. \A s \in Session : Top(s) \in Nat /\ Top(s)' = Top(s)
      BY DEF Top, Tick, StoreInv, Sorts
    <3> QED BY <3>1 DEF MovesOn, Tick, StoreInv, Sorts
  <2> QED BY <1>1, <2>1, PruneStays DEF StoreInv
<1>5. LoadInv'
  BY <1>1, LoadStays DEF StoreInv, Sorts, Tick
<1> QED BY <1>1, <1>2, <1>3, <1>4, <1>5 DEF StoreInv

LEMMA RecordKeeps ==
    ASSUME StoreInv, NEW s \in Session, Record(s)
    PROVE  StoreInv'
<1>1. Sorts'
  BY DEF StoreInv, Sorts, Record
<1>0. \A u \in Session : Same(u) /\ version[u] <= version'[u]
  BY DEF StoreInv, Sorts, Record, Same
<1>2. TypeOK'
  <2>1. \A u \in Session : version'[u] \in 0..MaxRecords[u]
    <3> SUFFICES ASSUME NEW u \in Session PROVE version'[u] \in 0..MaxRecords[u]
      OBVIOUS
    <3>1. MaxRecords[u] \in Nat /\ version[u] \in 0..MaxRecords[u]
      BY StoreAssumption DEF StoreInv, TypeOK
    <3>2. CASE u = s
      BY <3>1, <3>2 DEF StoreInv, Sorts, Record
    <3>3. CASE u # s
      BY <3>1, <3>3 DEF StoreInv, Sorts, Record
    <3> QED BY <3>2, <3>3
  <2>2. \A f \in disk : f.version \in 1..version'[f.session]
    <3> SUFFICES ASSUME NEW f \in disk PROVE f.version \in 1..version'[f.session]
      OBVIOUS
    <3>1. f.session \in Session /\ f.version \in 1..version[f.session]
      BY DEF StoreInv, TypeOK
    <3>2. version[f.session] \in Nat /\ version'[f.session] \in Nat
      BY <1>1, <3>1 DEF StoreInv, Sorts
    <3> QED BY <3>1, <3>2, <1>0
  <2>3. \A u \in Session : flushed[u] \in 0..version'[u]
    <3> SUFFICES ASSUME NEW u \in Session PROVE flushed[u] \in 0..version'[u]
      OBVIOUS
    <3>1. flushed[u] \in 0..version[u]
      BY DEF StoreInv, TypeOK
    <3>2. version[u] \in Nat /\ version'[u] \in Nat
      BY <1>1 DEF StoreInv, Sorts
    <3> QED BY <3>1, <3>2, <1>0
  <2> QED BY <2>1, <2>2, <2>3 DEF StoreInv, TypeOK, Record
<1>3. DiskInv'
  <2>2. \A u \in Session : Followed(u)'
    BY <1>0, <1>1, FollowedStays DEF StoreInv, DiskInv, Record
  <2> QED BY <2>2 DEF StoreInv, DiskInv, Record, Unique, Topped, Of, IsNewest
<1>4. PruneInv'
  <2>1. MovesOn
    <3>1. \A u \in Session : Top(u) \in Nat /\ Top(u)' = Top(u)
      BY DEF Top, Record, StoreInv, Sorts
    <3> QED BY <3>1 DEF MovesOn, Record, StoreInv, Sorts
  <2> QED BY <1>1, <2>1, PruneStays DEF StoreInv
<1>5. LoadInv'
  BY <1>0, <1>1, LoadStays DEF StoreInv, Record
<1> QED BY <1>1, <1>2, <1>3, <1>4, <1>5 DEF StoreInv

LEMMA FlushBeginKeeps ==
    ASSUME StoreInv, NEW s \in Session, FlushBegin(s)
    PROVE  StoreInv'
<1>1. Sorts'
  BY DEF StoreInv, Sorts, FlushBegin, Writer, Pcs, Idle
<1>2. OwnStep(s) /\ generation[s] <= generation'[s]
  BY DEF StoreInv, Sorts, TypeOK, FlushBegin, OwnStep, Same
<1>3. writer'[s].pc = "write" /\ writer'[s].version = version[s] /\ writer[s].pc = "idle"
      /\ writer'[s].listed = {} /\ writer'[s].doomed = {}
  BY DEF StoreInv, Sorts, FlushBegin, Idle, Writer
<1>4. Followed(s)'
  <2>1. Followed(s) /\ version[s] # flushed[s] /\ version[s] \in Nat /\ flushed[s] \in Nat
    BY DEF StoreInv, DiskInv, FlushBegin, Sorts
  <2>2. Top(s)' = Top(s) /\ Covered(s)' = Covered(s) /\ Of(s, disk)' = Of(s, disk)
    BY <1>3 DEF Top, Covered, FlushBegin, Of
  <2> QED BY <1>3, <2>1, <2>2 DEF Followed, FlushBegin
<1>5. PruneInv'
  <2>1. MovesOn
    <3>1. \A u \in Session : Top(u) \in Nat /\ Top(u)' = Top(u)
      BY <1>3 DEF Top, FlushBegin, StoreInv, Sorts
    <3> QED BY <1>3, <3>1 DEF MovesOn, FlushBegin, StoreInv, Sorts
  <2> QED BY <1>1, <2>1, PruneStays DEF StoreInv
<1> QED BY <1>1, <1>2, <1>4, <1>5, OwnStepKeeps DEF StoreInv

LEMMA WriteFailsKeeps ==
    ASSUME StoreInv, NEW s \in Session, WriteFails(s)
    PROVE  StoreInv'
<1>1. Sorts'
  BY DEF StoreInv, Sorts, WriteFails, Writer, Pcs, Idle
<1>2. OwnStep(s) /\ generation[s] <= generation'[s]
  BY StoreAssumption DEF StoreInv, Sorts, TypeOK, WriteFails, OwnStep, Same
<1>3. writer'[s].pc = "idle" /\ writer[s].pc = "write"
      /\ writer'[s].listed = {} /\ writer'[s].doomed = {}
  BY DEF StoreInv, Sorts, WriteFails, Idle, Writer
<1>4. Followed(s)'
  <2>1. Followed(s)
    BY DEF StoreInv, DiskInv
  <2>2. Top(s)' = Top(s) /\ Covered(s)' = Covered(s) /\ Of(s, disk)' = Of(s, disk)
    BY <1>3 DEF Top, Covered, WriteFails, Of
  <2> QED BY <1>3, <2>1, <2>2 DEF Followed, WriteFails
<1>5. PruneInv'
  <2>1. MovesOn
    <3>1. \A u \in Session : Top(u) \in Nat /\ Top(u)' = Top(u)
      BY <1>3 DEF Top, WriteFails, StoreInv, Sorts
    <3> QED BY <1>3, <3>1 DEF MovesOn, WriteFails, StoreInv, Sorts
  <2> QED BY <1>1, <2>1, PruneStays DEF StoreInv
<1> QED BY <1>1, <1>2, <1>4, <1>5, OwnStepKeeps DEF StoreInv

LEMMA Maximum ==
    ASSUME NEW a \in Nat, NEW b \in Nat
    PROVE  Max({a, b}) \in {a, b} /\ a <= Max({a, b}) /\ b <= Max({a, b})
<1>1. \E x \in {a, b} : \A y \in {a, b} : x >= y
  OBVIOUS
<1> QED BY <1>1 DEF Max

LEMMA NoteKeeps ==
    ASSUME StoreInv, NEW s \in Session, Note(s)
    PROVE  StoreInv'
<1>0. /\ flushed[s] \in Nat /\ writer[s].version \in Nat /\ generation[s] \in Nat
      /\ version[s] \in Nat /\ writer[s].pc = "note"
      /\ flushed[s] < writer[s].version /\ writer[s].version <= version[s]
  BY DEF StoreInv, Sorts, Writer, DiskInv, Followed, Note
<1>1. Max({flushed[s], writer[s].version}) = writer[s].version
  BY <1>0, Maximum
<1>2. /\ flushed' = [flushed EXCEPT ![s] = writer[s].version]
      /\ generation' = [generation EXCEPT ![s] = generation[s] + 1]
  BY <1>1 DEF Note, NextGeneration
<1>3. Sorts'
  <2>1. flushed' \in [Session -> Nat] /\ generation' \in [Session -> Nat]
    BY <1>0, <1>2 DEF StoreInv, Sorts
  <2>2. writer' \in [Session -> Writer]
    BY DEF StoreInv, Sorts, Note, Writer, Pcs
  <2> QED BY <2>1, <2>2 DEF StoreInv, Sorts, Note
<1>4. OwnStep(s) /\ generation[s] <= generation'[s]
  BY <1>0, <1>2 DEF StoreInv, Sorts, TypeOK, Note, OwnStep, Same
<1>5. /\ writer'[s].pc = "remove" /\ writer'[s].listed = writer[s].listed
      /\ writer'[s].doomed = writer[s].doomed
  BY DEF StoreInv, Sorts, Note, Writer
<1>6. Followed(s)'
  <2>1. Followed(s)
    BY DEF StoreInv, DiskInv
  <2>2. flushed'[s] = writer[s].version /\ generation'[s] = generation[s] + 1
    BY <1>2 DEF StoreInv, Sorts
  <2>3. Top(s)' = Top(s) /\ Covered(s)' = Covered(s) /\ Of(s, disk)' = Of(s, disk)
    BY <1>0, <1>5, <2>2 DEF Top, Covered, Note, Of
  <2> QED BY <1>0, <1>5, <2>1, <2>2, <2>3 DEF Followed, Note
<1>7. PruneInv'
  <2>1. MovesOn
    <3>1. \A u \in Session : Top(u) \in Nat /\ Top(u)' = Top(u)
      BY <1>0, <1>2, <1>5 DEF Top, Note, StoreInv, Sorts
    <3> QED BY <1>0, <1>5, <3>1 DEF MovesOn, Note, StoreInv, Sorts
  <2> QED BY <1>3, <2>1, PruneStays DEF StoreInv
<1> QED BY <1>3, <1>4, <1>6, <1>7, OwnStepKeeps DEF StoreInv

LEMMA QuitKeeps ==
    ASSUME StoreInv, NEW s \in Session, Quit(s)
    PROVE  StoreInv'
<1>1. Sorts'
  BY DEF StoreInv, Sorts, Quit, Writer, Pcs, Idle, Gone
<1>2. OwnStep(s) /\ generation[s] <= generation'[s]
  BY DEF StoreInv, Sorts, TypeOK, Quit, OwnStep, Same
<1>3. writer'[s].pc = "gone" /\ writer'[s].listed = {} /\ writer'[s].doomed = {}
  BY DEF StoreInv, Sorts, Quit, Idle, Gone, Writer
<1>4. Followed(s)'
  BY <1>3 DEF StoreInv, DiskInv, Followed, Quit
<1>5. PruneInv'
  <2>1. MovesOn
    <3>1. \A u \in Session \ {s} : Top(u) \in Nat /\ Top(u)' = Top(u)
      BY DEF Top, Quit, StoreInv, Sorts
    <3> QED BY <1>3, <3>1 DEF MovesOn, Quit, StoreInv, Sorts
  <2> QED BY <1>1, <2>1, PruneStays DEF StoreInv
<1> QED BY <1>1, <1>2, <1>4, <1>5, OwnStepKeeps DEF StoreInv

LEMMA PruneEndKeeps ==
    ASSUME StoreInv, NEW s \in Session, PruneEnd(s)
    PROVE  StoreInv'
<1>1. Sorts'
  BY DEF StoreInv, Sorts, PruneEnd, Writer, Pcs, Idle
<1>2. OwnStep(s) /\ generation[s] <= generation'[s]
  BY DEF StoreInv, Sorts, TypeOK, PruneEnd, OwnStep, Same
<1>3. writer'[s].pc = "idle" /\ writer[s].pc = "prune"
      /\ writer'[s].listed = {} /\ writer'[s].doomed = {}
  BY DEF StoreInv, Sorts, PruneEnd, Idle, Writer
<1>4. Followed(s)'
  <2>1. Followed(s)
    BY DEF StoreInv, DiskInv
  <2>2. Top(s)' = Top(s) /\ Covered(s)' = Covered(s) /\ Of(s, disk)' = Of(s, disk)
    BY <1>3 DEF Top, Covered, PruneEnd, Of
  <2> QED BY <1>3, <2>1, <2>2 DEF Followed, PruneEnd
<1>5. PruneInv'
  <2>1. MovesOn
    <3>1. \A u \in Session : Top(u) \in Nat /\ Top(u)' = Top(u)
      BY <1>3 DEF Top, PruneEnd, StoreInv, Sorts
    <3> QED BY <1>3, <3>1 DEF MovesOn, PruneEnd, StoreInv, Sorts
  <2> QED BY <1>1, <2>1, PruneStays DEF StoreInv
<1> QED BY <1>1, <1>2, <1>4, <1>5, OwnStepKeeps DEF StoreInv
LEMMA PruneListKeeps ==
    ASSUME StoreInv, NEW s \in Session, PruneList(s)
    PROVE  StoreInv'
<1>0. \A u \in SessionsIn(disk) :
        /\ Newest(u, disk) \in disk /\ Newest(u, disk).session = u
        /\ \A g \in Of(u, disk) : g.gen <= Newest(u, disk).gen
  <2> SUFFICES ASSUME NEW u \in SessionsIn(disk)
               PROVE  /\ Newest(u, disk) \in disk /\ Newest(u, disk).session = u
                      /\ \A g \in Of(u, disk) : g.gen <= Newest(u, disk).gen
    OBVIOUS
  <2>1. u \in Session /\ Of(u, disk) # {} /\ disk \in SUBSET Snapshot
    BY DEF SessionsIn, Of, StoreInv, Sorts, Snapshot
  <2> QED BY <2>1, NewestOf DEF StoreInv, DiskInv
<1>1. /\ writer'[s].listed \subseteq disk /\ writer'[s].doomed = writer[s].doomed
      /\ writer'[s].pc = "decide" /\ writer[s].pc = "list"
  BY <1>0 DEF StoreInv, Sorts, PruneList, Writer
<1>2. Sorts'
  <2>1. {Newest(u, disk) : u \in SessionsIn(disk)} \subseteq Snapshot
    BY <1>0 DEF StoreInv, Sorts
  <2> QED BY <2>1 DEF StoreInv, Sorts, PruneList, Writer, Pcs
<1>3. OwnStep(s) /\ generation[s] <= generation'[s]
  BY DEF StoreInv, Sorts, TypeOK, PruneList, OwnStep, Same
<1>4. \A u \in Session : Top(u) \in Nat /\ Top(u)' = Top(u)
  BY <1>1 DEF Top, PruneList, StoreInv, Sorts
<1>5. Followed(s)'
  <2>1. Followed(s)
    BY DEF StoreInv, DiskInv
  <2>2. Top(s)' = Top(s) /\ Covered(s)' = Covered(s) /\ Of(s, disk)' = Of(s, disk)
    BY <1>1 DEF Top, Covered, PruneList, Of
  <2> QED BY <1>1, <2>1, <2>2 DEF Followed, PruneList
<1>6. \A u \in Session : writer'[u].pc # "gone" => writer[u].pc # "gone"
  BY <1>1 DEF PruneList, StoreInv, Sorts
<1>7. ASSUME NEW d \in Snapshot, Remembered(d) PROVE Remembered(d)'
  <2>1. d.session \in Session
    BY DEF Snapshot
  <2>2. Top(d.session) <= Top(d.session)'
    BY <2>1, <1>4
  <2> QED BY <1>2, <1>6, <1>7, <2>1, <2>2, RememberedStays DEF StoreInv, PruneList
<1>8. ASSUME NEW d \in disk PROVE Remembered(d)
  <2>1. d \in Snapshot /\ d.session \in Session /\ d.gen \in Nat /\ d \in Of(d.session, disk)
    BY DEF StoreInv, Sorts, Snapshot, Of
  <2>2. d.gen <= d.gen
    BY <2>1
  <2>3. writer[d.session].pc # "gone" => d.gen <= Top(d.session)
    BY <2>1 DEF StoreInv, DiskInv, Followed
  <2> QED BY <2>1, <2>2, <2>3 DEF Remembered, StoreInv, DiskInv, Unique
<1>9. PruneInv'
  <2> SUFFICES ASSUME NEW u \in Session
               PROVE  /\ \A d \in writer'[u].listed \union writer'[u].doomed : Remembered(d)'
                      /\ writer'[u].pc = "prune" => \A d \in writer'[u].doomed : Condemned(u, d)'
    BY DEF PruneInv
  <2>1. CASE u = s
    <3>1. \A d \in writer[s].doomed : d \in Snapshot /\ Remembered(d)
      BY DEF StoreInv, Sorts, Writer, PruneInv
    <3>2. \A d \in disk : d \in Snapshot
      BY DEF StoreInv, Sorts
    <3> QED BY <2>1, <3>1, <3>2, <1>1, <1>7, <1>8
  <2>2. CASE u # s
    <3>1. writer'[u] = writer[u]
      BY <2>2 DEF PruneList, StoreInv, Sorts
    <3>2. \A d \in writer[u].listed \union writer[u].doomed : d \in Snapshot /\ Remembered(d)
      BY DEF StoreInv, Sorts, Writer, PruneInv
    <3>3. writer[u].pc = "prune" => \A d \in writer[u].doomed : Condemned(u, d)'
      BY <3>1 DEF StoreInv, PruneInv, Condemned, PruneList
    <3> QED BY <3>1, <3>2, <3>3, <1>7
  <2> QED BY <2>1, <2>2
<1> QED BY <1>2, <1>3, <1>5, <1>9, OwnStepKeeps DEF StoreInv

LEMMA PruneDecideKeeps ==
    ASSUME StoreInv, NEW s \in Session, PruneDecide(s)
    PROVE  StoreInv'
<1>0. PICK excess \in Excess(s, writer[s].listed) :
        writer' = [writer EXCEPT ![s].pc = "prune", ![s].listed = {}, ![s].crowded = excess # {},
                                 ![s].doomed = Outdated(s, writer[s].listed) \union excess]
  BY DEF PruneDecide
<1>1. /\ writer'[s].listed = {} /\ writer'[s].pc = "prune" /\ writer[s].pc = "decide"
      /\ writer'[s].doomed = Outdated(s, writer[s].listed) \union excess
      /\ \A u \in Session \ {s} : writer'[u] = writer[u]
  <2>1. writer[s] \in Writer /\ writer[s].pc = "decide"
    BY DEF StoreInv, Sorts, PruneDecide
  <2>2. writer'[s] = [writer[s] EXCEPT !.pc = "prune", !.listed = {}, !.crowded = excess # {},
                        !.doomed = Outdated(s, writer[s].listed) \union excess]
    BY <1>0 DEF StoreInv, Sorts
  <2>3. \A u \in Session \ {s} : writer'[u] = writer[u]
    BY <1>0 DEF StoreInv, Sorts
  <2>4. /\ writer'[s].listed = {} /\ writer'[s].pc = "prune"
        /\ writer'[s].doomed = Outdated(s, writer[s].listed) \union excess
    BY <2>1, <2>2 DEF Writer
  <2> QED BY <2>1, <2>3, <2>4
<1>13. writer'[s].crowded = (excess # {})
  <2>1. writer[s] \in Writer
    BY DEF StoreInv, Sorts
  <2>2. writer'[s] = [writer[s] EXCEPT !.pc = "prune", !.listed = {}, !.crowded = excess # {},
                        !.doomed = Outdated(s, writer[s].listed) \union excess]
    BY <1>0 DEF StoreInv, Sorts
  <2> QED BY <2>1, <2>2 DEF Writer
<1>2. \A d \in excess : d \in writer[s].listed /\ d.session # s
  BY DEF Excess
<1>3. /\ Outdated(s, writer[s].listed) \subseteq writer[s].listed
      /\ \A d \in Outdated(s, writer[s].listed) :
           d.session # s /\ now > TimeOf(d) + Retention
  BY DEF Outdated
<1>4. Sorts'
  <2>1. writer[s] \in Writer
    BY DEF StoreInv, Sorts
  <2>2. Outdated(s, writer[s].listed) \union excess \in SUBSET Snapshot
    BY <1>2, <1>3, <2>1 DEF Writer
  <2>3. writer'[s] = [writer[s] EXCEPT !.pc = "prune", !.listed = {}, !.crowded = excess # {},
                        !.doomed = Outdated(s, writer[s].listed) \union excess]
    BY <1>0 DEF StoreInv, Sorts
  <2>4. (excess # {}) \in BOOLEAN
    OBVIOUS
  <2>5. writer'[s] \in Writer
    BY <2>1, <2>2, <2>3, <2>4 DEF Writer, Pcs
  <2>6. writer' \in [Session -> Writer]
    BY <1>0, <1>1, <2>5 DEF StoreInv, Sorts
  <2> QED BY <2>6 DEF StoreInv, Sorts, PruneDecide
<1>5. OwnStep(s) /\ generation[s] <= generation'[s]
  <2>1. UNCHANGED <<now, disk, version, flushed, generation, failures, load>>
    BY DEF PruneDecide
  <2>2. failures \in 0..MaxFailures /\ generation[s] <= generation[s]
    BY DEF StoreInv, TypeOK, Sorts
  <2>3. \A u \in Session : version[u] <= version[u]
    BY DEF StoreInv, Sorts
  <2> QED BY <1>1, <2>1, <2>2, <2>3 DEF OwnStep, Same
<1>6. \A u \in Session : Top(u) \in Nat /\ Top(u)' = Top(u)
  <2>1. generation' = generation /\ generation \in [Session -> Nat]
    BY DEF PruneDecide, StoreInv, Sorts
  <2>2. \A u \in Session : writer'[u].pc = "note" <=> writer[u].pc = "note"
    BY <1>1
  <2> QED BY <2>1, <2>2 DEF Top
<1>7. Followed(s)'
  <2>1. Followed(s)
    BY DEF StoreInv, DiskInv
  <2>2. Top(s)' = Top(s) /\ Covered(s)' = Covered(s) /\ Of(s, disk)' = Of(s, disk)
    BY <1>1 DEF Top, Covered, PruneDecide, Of
  <2> QED BY <1>1, <2>1, <2>2 DEF Followed, PruneDecide
<1>8. \A u \in Session : writer'[u].pc # "gone" => writer[u].pc # "gone"
  BY <1>1
<1>9. ASSUME NEW d \in Snapshot, Remembered(d) PROVE Remembered(d)'
  <2>1. d.session \in Session
    BY DEF Snapshot
  <2>2. Top(d.session) <= Top(d.session)'
    BY <2>1, <1>6
  <2> QED BY <1>4, <1>8, <1>9, <2>1, <2>2, RememberedStays DEF StoreInv, PruneDecide
<1>10. ASSUME NEW u \in Session, NEW d \in writer'[u].listed \union writer'[u].doomed
       PROVE  Remembered(d)'
  <2>1. d \in writer[u].listed \union writer[u].doomed
    BY <1>1, <1>2, <1>3
  <2>2. d \in Snapshot /\ Remembered(d)
    BY <2>1 DEF StoreInv, Sorts, Writer, PruneInv
  <2> QED BY <2>2, <1>9
<1>11. ASSUME NEW u \in Session, writer'[u].pc = "prune", NEW d \in writer'[u].doomed
       PROVE  Condemned(u, d)'
  <2>1. CASE u # s
    BY <1>1, <1>11, <2>1 DEF StoreInv, PruneInv, Condemned, PruneDecide
  <2>2. CASE u = s /\ excess # {}
    <3>1. d.session # s
      BY <1>1, <1>2, <1>3, <1>11, <2>2
    <3>2. writer'[s].crowded
      BY <1>13, <2>2
    <3> QED BY <2>2, <3>1, <3>2 DEF Condemned
  <2>3. CASE u = s /\ excess = {}
    <3>1. d.session # s /\ now > TimeOf(d) + Retention
      BY <1>1, <1>3, <1>11, <2>3
    <3> QED BY <2>3, <3>1 DEF Condemned, TimeOf, PruneDecide
  <2> QED BY <2>1, <2>2, <2>3
<1>12. PruneInv'
  BY <1>10, <1>11 DEF PruneInv
<1> QED BY <1>4, <1>5, <1>7, <1>12, OwnStepKeeps DEF StoreInv
-----------------------------------------------------------------------------
(* The steps that change the directory. *)

\* A removal by one writer.
Removes ==
  /\ Thins(disk, disk')
  /\ UNCHANGED <<now, version, flushed, generation, failures, load>>
  /\ \A u \in Session :
       /\ writer'[u].version = writer[u].version /\ writer'[u].listed = writer[u].listed
       /\ writer'[u].doomed = writer[u].doomed /\ writer'[u].crowded = writer[u].crowded
       /\ writer'[u].pc = writer[u].pc \/ (writer[u].pc = "remove" /\ writer'[u].pc = "list")

LEMMA RemovesKeeps ==
    ASSUME StoreInv, Sorts', Removes
    PROVE  StoreInv'
<1>0. disk' \subseteq disk /\ disk \in SUBSET Snapshot /\ Unique(disk) /\ Topped(disk)
  BY DEF Removes, Thins, StoreInv, Sorts, DiskInv
<1>1. Unique(disk') /\ Topped(disk')
  BY <1>0, ThinnedOf DEF Removes
<1>2. \A u \in Session : Of(u, disk') = {} \/ \A f \in Of(u, disk) : IsNewest(f, disk) => f \in Of(u, disk')
  BY OfMember DEF Removes, Thins
<1>3. \A u \in Session : Top(u)' = Top(u) /\ Covered(u)' = Covered(u) /\ Top(u) \in Nat
  BY DEF Top, Covered, Removes, StoreInv, Sorts
<1>4. \A u : Of(u, disk)' = Of(u, disk') /\ Of(u, disk') \subseteq Of(u, disk)
  BY <1>0 DEF Of
<1>5. TypeOK'
  <2>1. \A u \in Session : writer'[u].pc \in Pcs
    BY DEF Sorts, Writer
  <2> QED BY <1>0, <2>1 DEF StoreInv, TypeOK, Removes, Pcs
<1>6. ASSUME NEW u \in Session PROVE Followed(u)'
  <2>1. Followed(u)
    BY DEF StoreInv, DiskInv
  <2>2. ASSUME writer[u].pc # "gone", Of(u, disk') # {}
        PROVE  \E f \in Of(u, disk') : f.gen = Top(u)
    <3>1. PICK f \in Of(u, disk) : f.gen = Top(u)
      BY <2>1, <2>2, <1>4 DEF Followed
    <3>2. IsNewest(f, disk)
      BY <2>1, <2>2, <3>1, OfMember DEF Followed, IsNewest
    <3> QED BY <1>2, <2>2, <3>1, <3>2
  <2>3. /\ writer'[u].pc = "gone" <=> writer[u].pc = "gone"
        /\ writer'[u].pc \in {"write", "note"} <=> writer[u].pc \in {"write", "note"}
        /\ writer'[u].version = writer[u].version
        /\ version' = version /\ flushed' = flushed
    BY DEF Removes
  <2>4. writer'[u].pc # "gone" => \A f \in Of(u, disk') : f.gen <= Top(u) /\ f.version <= Covered(u)
    BY <1>4, <2>1, <2>3 DEF Followed
  <2> QED BY <1>3, <1>4, <2>1, <2>2, <2>3, <2>4 DEF Followed
<1>7. ASSUME NEW d \in Snapshot, Remembered(d) PROVE Remembered(d)'
  <2>1. d.session \in Session /\ d.gen \in Nat
    BY DEF Snapshot
  <2>2. ASSUME Of(d.session, disk') # {}
        PROVE  \E f \in Of(d.session, disk') : d.gen <= f.gen
    <3>1. PICK g \in Of(d.session, disk) : d.gen <= g.gen
      BY <1>4, <1>7, <2>2 DEF Remembered
    <3>2. PICK f \in Of(d.session, disk) : IsNewest(f, disk)
      BY <2>1, <3>1 DEF StoreInv, DiskInv, Topped
    <3>3. f \in Of(d.session, disk') /\ g.gen <= f.gen /\ g \in disk /\ f \in disk
      BY <1>2, <2>1, <2>2, <3>1, <3>2, OfMember DEF IsNewest
    <3>4. g.gen \in Nat /\ f.gen \in Nat
      BY <3>3 DEF StoreInv, Sorts, Snapshot
    <3>5. d.gen <= f.gen
      BY <2>1, <3>1, <3>3, <3>4
    <3> QED BY <3>3, <3>5
  <2>3. writer'[d.session].pc # "gone" => d.gen <= Top(d.session)
    BY <2>1, <1>7 DEF Remembered, Removes
  <2>4. \A f \in disk' : f.session = d.session /\ f.gen = d.gen => f = d
    BY <1>0, <1>7 DEF Remembered
  <2> QED BY <1>3, <1>4, <2>1, <2>2, <2>3, <2>4 DEF Remembered
<1>8. PruneInv'
  <2> SUFFICES ASSUME NEW u \in Session
               PROVE  /\ \A d \in writer'[u].listed \union writer'[u].doomed : Remembered(d)'
                      /\ writer'[u].pc = "prune" => \A d \in writer'[u].doomed : Condemned(u, d)'
    BY DEF PruneInv
  <2>1. \A d \in writer[u].listed \union writer[u].doomed : d \in Snapshot /\ Remembered(d)
    BY DEF StoreInv, Sorts, Writer, PruneInv
  <2>2. ASSUME NEW d \in writer[u].doomed, writer'[u].pc = "prune" PROVE Condemned(u, d)'
    <3>1. Condemned(u, d) /\ writer'[u].crowded = writer[u].crowded /\ now' = now
      BY <2>2 DEF StoreInv, PruneInv, Removes
    <3> QED BY <1>0, <3>1 DEF Condemned
  <2> QED BY <1>7, <2>1, <2>2 DEF Removes
<1>9. LoadInv'
  BY LoadStays DEF StoreInv, Sorts, Removes
<1> QED BY <1>1, <1>5, <1>6, <1>8, <1>9 DEF StoreInv, DiskInv

LEMMA RemovePreviousThins ==
    ASSUME StoreInv, NEW s \in Session, RemovePrevious(s)
    PROVE  /\ Thins(disk, disk')
           /\ \A u \in Session \ {s} : Of(u, disk') = Of(u, disk)
           /\ \A f \in disk \ disk' : \E g \in Of(f.session, disk) : g.gen > f.gen
<1>1. disk' \subseteq disk
  BY DEF RemovePrevious
<1>2. \A f \in disk \ disk' : f.session = s /\ f.gen = generation[s] - 1
  BY DEF RemovePrevious
<1>3. \A u \in Session \ {s} : Of(u, disk') = Of(u, disk)
  BY <1>1, <1>2 DEF Of
<1>4. generation[s] \in Nat /\ Followed(s) /\ writer[s].pc # "gone" /\ Top(s) = generation[s]
  BY DEF StoreInv, Sorts, DiskInv, RemovePrevious, Top
<1>5. ASSUME NEW f \in disk \ disk'
      PROVE  f.session = s /\ \E g \in Of(f.session, disk) : g.gen > f.gen
  <2>1. f.session = s /\ f.gen = generation[s] - 1 /\ f \in Of(s, disk)
    BY <1>2, <1>5 DEF Of
  <2>2. PICK g \in Of(s, disk) : g.gen = generation[s]
    BY <1>4, <2>1 DEF Followed
  <2>3. g.gen > f.gen
    BY <1>4, <2>1, <2>2
  <2> QED BY <2>1, <2>2, <2>3
<1>6. ASSUME NEW u \in Session, NEW f \in Of(u, disk), IsNewest(f, disk) PROVE f \in disk'
  <2> SUFFICES ASSUME f \notin disk' PROVE FALSE
    OBVIOUS
  <2>1. f \in disk /\ f.session = u /\ f.gen \in Nat
    BY DEF Of, StoreInv, Sorts, Snapshot
  <2>2. PICK g \in Of(f.session, disk) : g.gen > f.gen
    BY <1>5, <2>1
  <2>3. g.gen \in Nat
    BY DEF Of, StoreInv, Sorts, Snapshot
  <2> QED BY <1>6, <2>1, <2>2, <2>3 DEF IsNewest
<1> QED BY <1>1, <1>3, <1>5, <1>6 DEF Thins

LEMMA RemovePreviousKeeps ==
    ASSUME StoreInv, NEW s \in Session, RemovePrevious(s)
    PROVE  StoreInv'
<1>1. Sorts'
  <2>1. disk' \subseteq disk
    BY DEF RemovePrevious
  <2>2. writer' \in [Session -> Writer]
    BY DEF StoreInv, Sorts, RemovePrevious, Writer, Pcs
  <2> QED BY <2>1, <2>2 DEF StoreInv, Sorts, RemovePrevious
<1>2. Removes
  <2>1. \A u \in Session :
          /\ writer'[u].version = writer[u].version /\ writer'[u].listed = writer[u].listed
          /\ writer'[u].doomed = writer[u].doomed /\ writer'[u].crowded = writer[u].crowded
          /\ writer'[u].pc = writer[u].pc \/ (writer[u].pc = "remove" /\ writer'[u].pc = "list")
    BY DEF StoreInv, Sorts, RemovePrevious, Writer
  <2> QED BY <2>1, RemovePreviousThins DEF Removes, RemovePrevious
<1> QED BY <1>1, <1>2, RemovesKeeps

\* What a prune removes goes from the first to the last, and only up to what it listed.
LEMMA PruneRemoveThins ==
    ASSUME StoreInv, NEW s \in Session, PruneRemove(s)
    PROVE  \E f \in disk :
             /\ disk' = disk \ {f} /\ Thins(disk, disk')
             /\ \A u \in Session \ {f.session} : Of(u, disk') = Of(u, disk)
             /\ IsNewest(f, disk) =>
                  now > f.at + Retention \/ (f.session # s /\ writer[s].pc = "prune" /\ writer[s].crowded)
<1>1. PICK f \in NextRemovable(s) : disk' = disk \ {f}
  BY DEF PruneRemove
<1>2. PICK d \in writer[s].doomed : f \in disk /\ f.session = d.session /\ f.gen <= d.gen
  BY <1>1 DEF NextRemovable, Removable
<1>3. /\ d \in Snapshot /\ f \in Snapshot /\ d.session \in Session /\ d.gen \in Nat /\ f.gen \in Nat
      /\ Remembered(d) /\ Condemned(s, d) /\ writer[s].pc = "prune"
  BY <1>2 DEF StoreInv, Sorts, Writer, Snapshot, PruneInv, PruneRemove
<1>4. ASSUME NEW g \in Of(f.session, disk) PROVE f.gen <= g.gen
  <2>1. g \in disk /\ g.session = d.session /\ g.gen \in Nat
    BY <1>2, OfMember DEF StoreInv, Sorts, Snapshot
  <2>2. CASE g.gen <= d.gen
    <3>1. g \in Of(f.session, Removable(s))
      BY <2>1, <2>2, <1>2, OfMember DEF Removable
    <3> QED BY <3>1, <1>1 DEF NextRemovable
  <2>3. CASE ~(g.gen <= d.gen)
    BY <2>1, <2>3, <1>2, <1>3
  <2> QED BY <2>2, <2>3
<1>5. \A u \in Session \ {f.session} : Of(u, disk') = Of(u, disk)
  BY <1>1 DEF Of
<1>6. ASSUME NEW u \in Session
      PROVE  Of(u, disk') = {} \/ \A h \in Of(u, disk) : IsNewest(h, disk) => h \in disk'
  <2>1. CASE \A h \in Of(u, disk) : IsNewest(h, disk) => h # f
    BY <1>1, <2>1, OfMember
  <2>2. CASE f \in Of(u, disk) /\ IsNewest(f, disk)
    <3>1. f.session = u
      BY <2>2, OfMember
    <3>2. ASSUME NEW g \in Of(u, disk) PROVE g = f
      <4>1. g \in disk /\ g.session = u /\ g.gen \in Nat /\ f.gen <= g.gen /\ g.gen <= f.gen
        BY <1>4, <2>2, <3>1, OfMember DEF StoreInv, Sorts, Snapshot, IsNewest
      <4>2. g.gen = f.gen
        BY <4>1, <1>3
      <4> QED BY <4>1, <4>2, <3>1, <1>2 DEF StoreInv, DiskInv, Unique
    <3>3. Of(u, disk') = {}
      BY <1>1, <3>2 DEF Of
    <3> QED BY <3>3
  <2> QED BY <2>1, <2>2
<1>7. Thins(disk, disk')
  BY <1>1, <1>6 DEF Thins
<1>8. ASSUME IsNewest(f, disk)
      PROVE  now > f.at + Retention \/ (f.session # s /\ writer[s].pc = "prune" /\ writer[s].crowded)
  <2>1. f \in Of(d.session, disk)
    BY <1>2 DEF Of
  <2>2. PICK g \in Of(d.session, disk) : d.gen <= g.gen
    BY <1>3, <2>1 DEF Remembered
  <2>3. g.gen <= f.gen /\ g.gen \in Nat
    BY <1>2, <1>8, <2>2, OfMember DEF IsNewest, StoreInv, Sorts, Snapshot
  <2>4. f.gen = d.gen
    BY <1>2, <1>3, <2>2, <2>3
  <2>5. f = d
    BY <1>2, <1>3, <2>4 DEF Remembered
  <2> QED BY <2>5, <1>2, <1>3 DEF Condemned
<1> QED BY <1>1, <1>2, <1>5, <1>7, <1>8

LEMMA PruneRemoveKeeps ==
    ASSUME StoreInv, NEW s \in Session, PruneRemove(s)
    PROVE  StoreInv'
<1>1. Thins(disk, disk')
  BY PruneRemoveThins
<1>2. UNCHANGED <<now, version, flushed, generation, writer, failures, load>>
  BY DEF PruneRemove
<1>3. Sorts'
  BY <1>1, <1>2 DEF StoreInv, Sorts, Thins
<1> QED BY <1>1, <1>2, <1>3, RemovesKeeps DEF Removes
\* The snapshot a writer is about to publish.
Fresh(s) == [session |-> s, gen |-> generation[s] + 1, version |-> writer[s].version, at |-> now]

LEMMA PublishKeeps ==
    ASSUME StoreInv, NEW s \in Session, Publish(s)
    PROVE  /\ StoreInv'
           /\ disk' = disk \union {Fresh(s)} /\ IsNewest(Fresh(s), disk')
           /\ Persisted(s) < writer[s].version /\ writer[s].version <= version[s]
<1>0. /\ writer[s].pc = "write" /\ disk' = disk \union {Fresh(s)}
      /\ writer' = [writer EXCEPT ![s].pc = "note"]
      /\ UNCHANGED <<now, version, flushed, generation, failures, load>>
  BY DEF Publish, NextGeneration, Fresh
<1>1. /\ Followed(s) /\ writer[s] \in Writer /\ generation[s] \in Nat
      /\ flushed[s] \in Nat /\ version[s] \in Nat /\ writer[s].version \in Nat
      /\ flushed[s] < writer[s].version /\ writer[s].version <= version[s]
  BY <1>0 DEF StoreInv, Sorts, DiskInv, Followed, Writer
<1>2. /\ Fresh(s) \in Snapshot /\ Fresh(s).session = s /\ Fresh(s).gen = generation[s] + 1
      /\ Fresh(s).version = writer[s].version /\ Fresh(s).at = now
  BY <1>1 DEF Fresh, Snapshot, StoreInv, Sorts
<1>3. Sorts'
  <2>1. writer' \in [Session -> Writer]
    BY <1>0 DEF StoreInv, Sorts, Writer, Pcs
  <2> QED BY <2>1, <1>0, <1>2 DEF StoreInv, Sorts
<1>4. /\ writer'[s].pc = "note" /\ writer'[s].version = writer[s].version
      /\ \A u \in Session \ {s} : writer'[u] = writer[u]
      /\ \A u \in Session : /\ writer'[u].listed = writer[u].listed
                            /\ writer'[u].doomed = writer[u].doomed
                            /\ writer'[u].crowded = writer[u].crowded
  BY <1>0, <1>1 DEF StoreInv, Sorts, Writer
<1>5. Top(s) = generation[s] /\ Top(s)' = generation[s] + 1 /\ Covered(s) = flushed[s]
      /\ Covered(s)' = writer[s].version
  BY <1>0, <1>4 DEF Top, Covered
<1>6. \A f \in Of(s, disk) : f.gen <= generation[s] /\ f.gen \in Nat /\ f.version <= flushed[s]
                             /\ f.version \in Nat
  <2>1. \A f \in Of(s, disk) : f.gen <= generation[s] /\ f.version <= flushed[s]
    BY <1>0, <1>1, <1>5 DEF Followed
  <2> QED BY <2>1, OfMember DEF StoreInv, Sorts, Snapshot
<1>7. /\ Of(s, disk') = Of(s, disk) \union {Fresh(s)}
      /\ \A u \in Session \ {s} : Of(u, disk') = Of(u, disk)
  BY <1>0, <1>2 DEF Of
<1>8. \A f \in Of(s, disk') : f.gen <= generation[s] + 1 /\ f.version <= writer[s].version
  <2> SUFFICES ASSUME NEW f \in Of(s, disk')
               PROVE  f.gen <= generation[s] + 1 /\ f.version <= writer[s].version
    OBVIOUS
  <2>1. CASE f = Fresh(s)
    BY <2>1, <1>1, <1>2
  <2>2. CASE f \in Of(s, disk)
    BY <2>2, <1>1, <1>6
  <2> QED BY <2>1, <2>2, <1>7
<1>9. IsNewest(Fresh(s), disk')
  BY <1>2, <1>8 DEF IsNewest
<1>10. Unique(disk')
  <2>1. \A f \in disk : f.session = s => f.gen # generation[s] + 1
    BY <1>0, OfMember DEF Publish, NextGeneration
  <2> QED BY <1>0, <1>2, <2>1 DEF Unique, StoreInv, DiskInv
<1>11. Topped(disk')
  <2> SUFFICES ASSUME NEW u \in Session
               PROVE  Of(u, disk') = {} \/ \E f \in Of(u, disk') : IsNewest(f, disk')
    BY DEF Topped
  <2>1. CASE u = s
    BY <2>1, <1>7, <1>9
  <2>2. CASE u # s
    <3>1. Of(u, disk) = {} \/ \E f \in Of(u, disk) : IsNewest(f, disk)
      BY DEF StoreInv, DiskInv, Topped
    <3>2. \A f \in Of(u, disk) : IsNewest(f, disk) => IsNewest(f, disk')
      BY <1>7, <2>2, OfMember DEF IsNewest
    <3> QED BY <1>7, <2>2, <3>1, <3>2
  <2> QED BY <2>1, <2>2
<1>12. \A u \in Session : Followed(u)'
  <2> SUFFICES ASSUME NEW u \in Session PROVE Followed(u)'
    OBVIOUS
  <2>1. CASE u = s
    <3>1. Of(s, disk)' = Of(s, disk') /\ Fresh(s) \in Of(s, disk') /\ Fresh(s).gen = Top(s)'
      BY <1>2, <1>5, <1>7 DEF Of
    <3>2. flushed' = flushed /\ version' = version
      BY <1>0
    <3> QED BY <2>1, <1>1, <1>4, <1>5, <1>8, <3>1, <3>2 DEF Followed
  <2>2. CASE u # s
    <3>1. Same(u)
      BY <1>0, <1>4, <2>2 DEF Same, StoreInv, Sorts
    <3>2. Followed(u) /\ Of(u, disk') = Of(u, disk)
      BY <1>7, <2>2 DEF StoreInv, DiskInv
    <3> QED BY <1>3, <3>1, <3>2, FollowedStays DEF StoreInv
  <2> QED BY <2>1, <2>2
<1>13. TypeOK'
  <2>1. \A f \in disk' : /\ f.session \in Session /\ f.at \in 1..now
                         /\ f.version \in 1..version[f.session]
                         /\ f.gen \in 1..generation[f.session] + 1
    <3>1. /\ Fresh(s).session \in Session /\ Fresh(s).at \in 1..now
          /\ Fresh(s).version \in 1..version[s] /\ Fresh(s).gen \in 1..generation[s] + 1
      BY <1>1, <1>2 DEF StoreInv, Sorts
    <3> QED BY <1>0, <1>2, <3>1 DEF StoreInv, TypeOK
  <2>2. \A u \in Session : writer'[u].pc \in Pcs
    BY <1>3 DEF Sorts, Writer
  <2> QED BY <1>0, <2>1, <2>2 DEF StoreInv, TypeOK, Pcs
<1>14. ASSUME NEW d \in Snapshot, Remembered(d) PROVE Remembered(d)'
  <2>1. d.session \in Session /\ d.gen \in Nat
    BY DEF Snapshot
  <2>2. CASE d.session # s
    <3>1. Of(d.session, disk)' = Of(d.session, disk) /\ Top(d.session)' = Top(d.session)
      BY <1>0, <1>4, <1>7, <2>1, <2>2 DEF Top, Of
    <3>2. writer'[d.session] = writer[d.session]
      BY <1>4, <2>1, <2>2
    <3> QED BY <1>0, <1>2, <1>14, <2>2, <3>1, <3>2 DEF Remembered
  <2>3. CASE d.session = s
    <3>1. d.gen <= generation[s]
      BY <1>0, <1>5, <1>14, <2>3 DEF Remembered
    <3>2. d.gen # Fresh(s).gen /\ d.gen <= Fresh(s).gen /\ d.gen <= Top(s)'
      BY <1>1, <1>2, <1>5, <2>1, <3>1
    <3>3. Fresh(s) \in Of(s, disk)' /\ Of(s, disk)' = Of(s, disk')
      BY <1>2, <1>7 DEF Of
    <3> QED BY <1>0, <1>14, <2>3, <3>2, <3>3 DEF Remembered
  <2> QED BY <2>2, <2>3
<1>15. PruneInv'
  <2> SUFFICES ASSUME NEW u \in Session
               PROVE  /\ \A d \in writer'[u].listed \union writer'[u].doomed : Remembered(d)'
                      /\ writer'[u].pc = "prune" => \A d \in writer'[u].doomed : Condemned(u, d)'
    BY DEF PruneInv
  <2>1. \A d \in writer[u].listed \union writer[u].doomed : d \in Snapshot /\ Remembered(d)
    BY DEF StoreInv, Sorts, Writer, PruneInv
  <2>2. ASSUME NEW d \in writer[u].doomed, writer'[u].pc = "prune" PROVE Condemned(u, d)'
    <3>1. u # s /\ Condemned(u, d) /\ Remembered(d) /\ d \in Snapshot
      BY <1>4, <2>1, <2>2 DEF StoreInv, PruneInv
    <3>2. d # Fresh(s)
      <4> SUFFICES ASSUME d = Fresh(s) PROVE FALSE
        OBVIOUS
      <4>1. generation[s] + 1 <= generation[s]
        BY <1>0, <1>2, <1>5, <3>1 DEF Remembered
      <4> QED BY <1>1, <4>1
    <3> QED BY <1>0, <1>4, <3>1, <3>2 DEF Condemned
  <2> QED BY <1>4, <1>14, <2>1, <2>2
<1>16. LoadInv'
  <2>1. \A u \in Session : version[u] <= version'[u]
    BY <1>0 DEF StoreInv, Sorts
  <2> QED BY <1>0, <1>3, <2>1, LoadStays DEF StoreInv
<1>17. Persisted(s) < writer[s].version
  <2>1. CASE Of(s, disk) = {}
    BY <1>1, <2>1 DEF Persisted
  <2>2. CASE Of(s, disk) # {}
    <3>1. disk \in SUBSET Snapshot /\ Unique(disk) /\ Topped(disk)
      BY DEF StoreInv, Sorts, DiskInv
    <3>2. Newest(s, disk) \in Of(s, disk)
      BY <2>2, <3>1, NewestOf, OfMember
    <3> QED BY <1>1, <1>6, <2>2, <3>2 DEF Persisted
  <2> QED BY <2>1, <2>2
<1>18. StoreInv'
  <2>1. Unique(disk)' /\ Topped(disk)'
    BY <1>10, <1>11 DEF Unique, Topped, Of, IsNewest
  <2> QED BY <1>3, <1>12, <1>13, <1>15, <1>16, <2>1 DEF StoreInv, DiskInv
<1> QED BY <1>0, <1>1, <1>9, <1>17, <1>18

-----------------------------------------------------------------------------
(* The steps of a load. *)

LEMMA LoadingKeeps ==
    ASSUME StoreInv, UNCHANGED <<now, disk, version, flushed, generation, writer, failures>>,
           load' \in Loading, LoadInv'
    PROVE  StoreInv'
<1>1. Sorts'
  BY DEF StoreInv, Sorts
<1>2. TypeOK'
  BY DEF StoreInv, TypeOK, Loading
<1>3. \A s \in Session : Same(s) /\ Top(s)' = Top(s) /\ Top(s) \in Nat
  BY DEF StoreInv, Sorts, Same, Top
<1>4. DiskInv'
  <2>1. \A s \in Session : Followed(s)'
    BY <1>1, <1>3, FollowedStays DEF StoreInv, DiskInv
  <2> QED BY <2>1 DEF StoreInv, DiskInv, Unique, Topped, Of, IsNewest
<1>5. PruneInv'
  <2>1. MovesOn
    BY <1>3 DEF MovesOn, StoreInv, Sorts
  <2> QED BY <1>1, <2>1, PruneStays DEF StoreInv
<1> QED BY <1>1, <1>2, <1>4, <1>5 DEF StoreInv

LEMMA Listing ==
    ASSUME StoreInv, load' \in Loading,
           load'.listed = disk, load'.todo = disk, load'.best = {}, load'.warned = {},
           UNCHANGED <<now, disk, version, flushed, generation, writer, failures>>
    PROVE  StoreInv'
<1>1. Unique(load.listed)' /\ Topped(load.listed)'
  BY DEF StoreInv, DiskInv, Unique, Topped, Of, IsNewest
<1>2. \A f \in load'.listed : f.version <= version'[f.session]
  <2> SUFFICES ASSUME NEW f \in disk PROVE f.version <= version[f.session]
    OBVIOUS
  <2>1. f.session \in Session /\ f.version \in 1..version[f.session]
    BY DEF StoreInv, TypeOK
  <2> QED BY <2>1
<1>3. LoadInv'
  BY <1>1, <1>2 DEF LoadInv
<1> QED BY <1>3, LoadingKeeps

LEMMA LoadKeeps ==
    ASSUME StoreInv, LoadList \/ LoadRead \/ LoadMisses \/ LoadReturn
    PROVE  StoreInv'
<1>0. load \in Loading /\ LoadInv
  BY DEF StoreInv, Sorts
<1>1. CASE LoadList
  <2>1. load' = [pc |-> "scan", pass |-> 1, listed |-> disk, todo |-> disk,
                 best |-> {}, warned |-> {}]
    BY <1>1 DEF LoadList, NoLoad
  <2>2. disk \in SUBSET Snapshot
    BY DEF StoreInv, Sorts
  <2>3. load' \in Loading
    BY <2>1, <2>2 DEF Loading
  <2>4. load'.listed = disk /\ load'.todo = disk /\ load'.best = {} /\ load'.warned = {}
    BY <2>1
  <2>5. UNCHANGED <<now, disk, version, flushed, generation, writer, failures>>
    BY <1>1 DEF LoadList
  <2> QED BY <2>3, <2>4, <2>5, Listing
<1>2. CASE LoadRead
  <2>1. NextToRead \in load.todo
    BY <1>2 DEF LoadRead, NextToRead
  <2> DEFINE f == NextToRead
             better == Better(load.best, f)
  <2>2. /\ f \in load.listed /\ f \in Snapshot /\ f.session \in Session /\ f.gen \in Nat
        /\ load.best \subseteq load.listed /\ load.listed \subseteq Snapshot
    BY <1>0, <2>1 DEF LoadInv, Loading, Snapshot
  <2>3. /\ better \subseteq load.best \union {f}
        /\ \E b \in better : b.session = f.session /\ f.gen <= b.gen
        /\ \A b \in load.best : b \in better \/ (b.session = f.session /\ b.gen <= f.gen)
        /\ \A a, b \in better : a.session = b.session => a = b
    <3>1. \A a, b \in load.best : a.session = b.session => a = b
      BY <1>0 DEF LoadInv
    <3>2. CASE \E g \in Of(f.session, load.best) : g.gen >= f.gen
      <4>1. better = load.best
        BY <3>2 DEF Better
      <4>2. PICK g \in Of(f.session, load.best) : g.gen >= f.gen
        BY <3>2
      <4>3. g \in load.best /\ g.session = f.session /\ g.gen \in Nat
        BY <2>2, OfMember DEF Snapshot
      <4>4. f.gen <= g.gen
        BY <2>2, <4>2, <4>3
      <4> QED BY <3>1, <4>1, <4>3, <4>4
    <3>3. CASE ~\E g \in Of(f.session, load.best) : g.gen >= f.gen
      <4>1. better = (load.best \ Of(f.session, load.best)) \union {f}
        BY <3>3 DEF Better
      <4>2. \A b \in load.best : b \in Of(f.session, load.best) <=> b.session = f.session
        BY DEF Of
      <4>3. \A b \in Of(f.session, load.best) : b.gen <= f.gen
        BY <2>2, <3>3, OfMember DEF Snapshot
      <4>4. f.gen <= f.gen
        BY <2>2
      <4> QED BY <3>1, <4>1, <4>2, <4>3, <4>4
    <3> QED BY <3>2, <3>3
  <2>4. load' = [load EXCEPT !.todo = load.todo \ {f}, !.best = better]
    BY <1>2 DEF LoadRead
  <2>5. /\ load'.todo = load.todo \ {f} /\ load'.best = better /\ load'.listed = load.listed
        /\ load'.warned = load.warned /\ load' \in Loading
    BY <1>0, <2>2, <2>3, <2>4 DEF Loading
  <2>6. ASSUME NEW h \in load.listed \ load'.todo
        PROVE  h.session \in load.warned \/ \E g \in better : g.session = h.session /\ h.gen <= g.gen
    <3>1. CASE h = f
      BY <3>1, <2>3
    <3>2. CASE h # f /\ h.session \notin load.warned
      <4>1. PICK g \in load.best : g.session = h.session /\ h.gen <= g.gen
        BY <1>0, <2>5, <2>6, <3>2 DEF LoadInv
      <4>2. PICK b \in better : b.session = f.session /\ f.gen <= b.gen
        BY <2>3
      <4>3. b.gen \in Nat /\ g.gen \in Nat /\ h.gen \in Nat
        BY <2>2, <2>3, <2>6, <4>1, <4>2 DEF Snapshot
      <4>4. g \in better \/ (g.session = f.session /\ g.gen <= f.gen)
        BY <2>3
      <4> QED BY <2>2, <4>1, <4>2, <4>3, <4>4
    <3> QED BY <3>1, <3>2
  <2>7. LoadInv'
    <3>1. Unique(load.listed)' /\ Topped(load.listed)'
      BY <1>0, <2>5 DEF LoadInv, Unique, Topped, Of, IsNewest
    <3>2. \A h \in load.listed : h.version <= version'[h.session]
      BY <1>0, <1>2 DEF LoadInv, LoadRead
    <3>3. load'.todo \subseteq load.listed /\ better \subseteq load.listed
      BY <1>0, <2>2, <2>3, <2>5 DEF LoadInv
    <3> HIDE DEF better, f
    <3> QED BY <2>3, <2>5, <2>6, <3>1, <3>2, <3>3 DEF LoadInv
  <2> QED BY <1>2, <2>5, <2>7, LoadingKeeps DEF LoadRead
<1>3. CASE LoadMisses
  <2>1. NextToRead \in load.todo
    BY <1>3 DEF LoadMisses, NextToRead
  <2>2. CASE load.pass = 1
    <3>1. load' = [pc |-> "scan", pass |-> 2, listed |-> disk, todo |-> disk,
                   best |-> {}, warned |-> {}]
      BY <1>3, <2>2 DEF LoadMisses, AfterMiss, NoLoad
    <3>2. disk \in SUBSET Snapshot
      BY DEF StoreInv, Sorts
    <3>3. load' \in Loading
      BY <3>1, <3>2 DEF Loading
    <3> QED BY <1>3, <3>1, <3>3, Listing DEF LoadMisses
  <2>3. CASE load.pass # 1
    <3> DEFINE f == NextToRead
    <3>1. f \in load.listed /\ f.session \in Session
      BY <1>0, <2>1 DEF LoadInv, Loading, Snapshot
    <3>2. load' = [load EXCEPT !.todo = load.todo \ {f}, !.warned = load.warned \union {f.session}]
      BY <1>3, <2>3 DEF LoadMisses, AfterMiss
    <3>3. /\ load'.todo = load.todo \ {f} /\ load'.best = load.best /\ load'.listed = load.listed
          /\ load'.warned = load.warned \union {f.session} /\ load' \in Loading
      BY <1>0, <3>1, <3>2 DEF Loading
    <3>4. Unique(load.listed)' /\ Topped(load.listed)'
      BY <1>0, <3>3 DEF LoadInv, Unique, Topped, Of, IsNewest
    <3>5. version' = version
      BY <1>3 DEF LoadMisses
    <3>6. LoadInv'
      <4> HIDE DEF f
      <4> QED BY <1>0, <3>3, <3>4, <3>5 DEF LoadInv
    <3> QED BY <1>3, <3>3, <3>6, LoadingKeeps DEF LoadMisses
  <2> QED BY <2>2, <2>3
<1>4. CASE LoadReturn
  <2>1. load' = NoLoad /\ version' = version
    BY <1>4 DEF LoadReturn
  <2>2. load' \in Loading
    BY <2>1 DEF NoLoad, Loading
  <2>3. LoadInv'
    BY <2>1 DEF NoLoad, LoadInv, Unique, Topped, Of
  <2> QED BY <1>4, <2>2, <2>3, LoadingKeeps DEF LoadReturn
<1> QED BY <1>1, <1>2, <1>3, <1>4
-----------------------------------------------------------------------------
(* Every step keeps the invariant, the promise, and what is fresh. *)

Totals == [s \in Session |-> Persisted(s)]

PromiseStep == [Promise!Next]_<<version, Totals>>

FreshStep ==
  \A f \in disk \ disk' :
    \/ \E g \in Of(f.session, disk) : g.gen > f.gen
    \/ now > f.at + Retention
    \/ \E s \in Session \ {f.session} : writer[s].pc = "prune" /\ writer[s].crowded

LEMMA LeavesDirectory ==
    ASSUME disk' = disk
    PROVE  Totals' = Totals /\ FreshStep
  BY DEF Totals, Persisted, Newest, Of, FreshStep

\* What a reader counts after a removal is what it counted before, or nothing.
LEMMA RemovesPromise ==
    ASSUME StoreInv, NEW s \in Session, Thins(disk, disk'), version' = version,
           \A u \in Session \ {s} : Of(u, disk') = Of(u, disk)
    PROVE  PromiseStep
<1>0. disk \in SUBSET Snapshot /\ Unique(disk) /\ Topped(disk)
  BY DEF StoreInv, Sorts, DiskInv
<1>1. \A u \in Session \ {s} : Persisted(u)' = Persisted(u)
  <2> SUFFICES ASSUME NEW u \in Session \ {s} PROVE Persisted(u)' = Persisted(u)
    OBVIOUS
  <2>1. Of(u, disk)' = Of(u, disk)
    BY DEF Of
  <2> QED BY <2>1 DEF Persisted, Newest
<1>2. Persisted(s)' = Persisted(s) \/ Persisted(s)' = 0
  <2>1. Of(s, disk)' = Of(s, disk') /\ Newest(s, disk)' = Newest(s, disk')
    BY DEF Of, Newest
  <2>2. Of(s, disk') = {} \/ (Of(s, disk) # {} /\ Newest(s, disk') = Newest(s, disk))
    BY <1>0, ThinnedOf
  <2> QED BY <2>1, <2>2 DEF Persisted
<1>3. CASE Persisted(s)' = Persisted(s)
  BY <1>1, <1>3 DEF PromiseStep, Totals
<1>4. CASE Persisted(s)' = 0
  <2>1. Totals' = [Totals EXCEPT ![s] = 0]
    BY <1>1, <1>4 DEF Totals
  <2>2. Promise!Forget(s)
    BY <2>1 DEF Promise!Forget, Totals
  <2> QED BY <2>2 DEF PromiseStep, Promise!Next
<1> QED BY <1>2, <1>3, <1>4

LEMMA PublishPromise ==
    ASSUME StoreInv, NEW s \in Session, Publish(s)
    PROVE  PromiseStep
<1>1. /\ StoreInv' /\ disk' = disk \union {Fresh(s)} /\ IsNewest(Fresh(s), disk')
      /\ Persisted(s) < writer[s].version /\ writer[s].version <= version[s]
  BY PublishKeeps
<1>2. Fresh(s).session = s /\ Fresh(s).version = writer[s].version
  BY DEF Fresh
<1>3. disk' \in SUBSET Snapshot /\ Unique(disk')
  BY <1>1 DEF StoreInv, Sorts, DiskInv, Unique
<1>4. Newest(s, disk') = Fresh(s) /\ Of(s, disk') # {}
  BY <1>1, <1>2, <1>3, NewestIs, OfMember
<1>5. Persisted(s)' = writer[s].version
  <2>1. Of(s, disk)' = Of(s, disk') /\ Newest(s, disk)' = Newest(s, disk')
    BY DEF Of, Newest
  <2> QED BY <1>2, <1>4, <2>1 DEF Persisted
<1>6. \A u \in Session \ {s} : Persisted(u)' = Persisted(u)
  <2> SUFFICES ASSUME NEW u \in Session \ {s} PROVE Persisted(u)' = Persisted(u)
    OBVIOUS
  <2>1. Of(u, disk)' = Of(u, disk)
    BY <1>1, <1>2 DEF Of
  <2> QED BY <2>1 DEF Persisted, Newest
<1>7. Totals' = [Totals EXCEPT ![s] = writer[s].version]
  BY <1>5, <1>6 DEF Totals
<1>8. Persisted(s) \in Nat
  <2>1. disk \in SUBSET Snapshot /\ Unique(disk) /\ Topped(disk)
    BY DEF StoreInv, Sorts, DiskInv
  <2>2. CASE Of(s, disk) # {}
    <3>1. Newest(s, disk) \in Snapshot
      BY <2>1, <2>2, NewestOf
    <3> QED BY <2>2, <3>1 DEF Persisted, Snapshot
  <2>3. CASE Of(s, disk) = {}
    BY <2>3 DEF Persisted
  <2> QED BY <2>2, <2>3
<1>9. writer[s].version \in Persisted(s) + 1..version[s]
  <2>1. writer[s].version \in Nat /\ version[s] \in Nat
    BY DEF StoreInv, Sorts, Writer
  <2> QED BY <1>1, <1>8, <2>1
<1>10. Promise!Persist(s)
  <2>1. Totals[s] = Persisted(s) /\ version' = version
    BY DEF Totals, Publish
  <2> QED BY <1>7, <1>9, <2>1 DEF Promise!Persist, Totals
<1> QED BY <1>10 DEF PromiseStep, Promise!Next

LEMMA RemovalsKeep ==
    ASSUME StoreInv, NEW s \in Session, RemovePrevious(s) \/ PruneRemove(s)
    PROVE  StoreInv' /\ PromiseStep /\ FreshStep
<1>1. CASE RemovePrevious(s)
  <2>1. Thins(disk, disk') /\ \A u \in Session \ {s} : Of(u, disk') = Of(u, disk)
    BY <1>1, RemovePreviousThins
  <2>2. PromiseStep
    BY <1>1, <2>1, RemovesPromise DEF RemovePrevious
  <2>3. FreshStep
    BY <1>1, RemovePreviousThins DEF FreshStep
  <2> QED BY <1>1, <2>2, <2>3, RemovePreviousKeeps
<1>2. CASE PruneRemove(s)
  <2>1. PICK f \in disk :
          /\ disk' = disk \ {f} /\ Thins(disk, disk')
          /\ \A u \in Session \ {f.session} : Of(u, disk') = Of(u, disk)
          /\ IsNewest(f, disk) =>
               now > f.at + Retention \/ (f.session # s /\ writer[s].pc = "prune" /\ writer[s].crowded)
    BY <1>2, PruneRemoveThins
  <2>2. f.session \in Session /\ f.gen \in Nat /\ \A g \in disk : g.gen \in Nat
    BY DEF StoreInv, Sorts, Snapshot
  <2>3. PromiseStep
    BY <1>2, <2>1, <2>2, RemovesPromise DEF PruneRemove
  <2>4. disk \ disk' = {f}
    BY <2>1
  <2>5. \/ \E g \in Of(f.session, disk) : g.gen > f.gen
        \/ now > f.at + Retention
        \/ \E u \in Session \ {f.session} : writer[u].pc = "prune" /\ writer[u].crowded
    <3>1. CASE IsNewest(f, disk)
      BY <2>1, <3>1
    <3>2. CASE ~IsNewest(f, disk)
      <4>1. PICK g \in Of(f.session, disk) : ~(g.gen <= f.gen)
        BY <3>2 DEF IsNewest
      <4>2. g.gen > f.gen
        BY <2>2, <4>1, OfMember
      <4> QED BY <4>1, <4>2
    <3> QED BY <3>1, <3>2
  <2>6. FreshStep
    BY <2>4, <2>5 DEF FreshStep
  <2> QED BY <1>2, <2>3, <2>6, PruneRemoveKeeps
<1> QED BY <1>1, <1>2

LEMMA StepKeeps ==
    StoreInv /\ [Next]_vars => StoreInv' /\ PromiseStep /\ FreshStep
<1> SUFFICES ASSUME StoreInv, [Next]_vars PROVE StoreInv' /\ PromiseStep /\ FreshStep
  OBVIOUS
<1>1. CASE Tick
  <2>1. disk' = disk /\ version' = version
    BY <1>1 DEF Tick
  <2> QED BY <1>1, <2>1, TickKeeps, LeavesDirectory DEF PromiseStep
<1>2. CASE \E s \in Session : Record(s)
  <2>1. PICK s \in Session : Record(s)
    BY <1>2
  <2>2. disk' = disk /\ version' = [version EXCEPT ![s] = version[s] + 1]
    BY <2>1 DEF Record
  <2>3. Promise!Record(s)
    BY <2>2, LeavesDirectory DEF Promise!Record, Totals
  <2> QED BY <2>1, <2>2, <2>3, RecordKeeps, LeavesDirectory DEF PromiseStep, Promise!Next
<1>3. CASE \E s \in Session : Publish(s)
  <2>1. PICK s \in Session : Publish(s)
    BY <1>3
  <2>2. disk \ disk' = {}
    BY <2>1 DEF Publish
  <2> QED BY <2>1, <2>2, PublishKeeps, PublishPromise DEF FreshStep
<1>4. CASE \E s \in Session : RemovePrevious(s) \/ PruneRemove(s)
  BY <1>4, RemovalsKeep
<1>5. CASE \E s \in Session : \/ FlushBegin(s) \/ Note(s) \/ PruneList(s) \/ PruneDecide(s)
                              \/ PruneEnd(s) \/ WriteFails(s) \/ Quit(s)
  <2>1. PICK s \in Session : \/ FlushBegin(s) \/ Note(s) \/ PruneList(s) \/ PruneDecide(s)
                             \/ PruneEnd(s) \/ WriteFails(s) \/ Quit(s)
    BY <1>5
  <2>2. disk' = disk /\ version' = version
    BY <2>1 DEF FlushBegin, Note, PruneList, PruneDecide, PruneEnd, WriteFails, Quit
  <2>3. StoreInv'
    BY <2>1, FlushBeginKeeps, NoteKeeps, PruneListKeeps, PruneDecideKeeps, PruneEndKeeps,
       WriteFailsKeeps, QuitKeeps
  <2> QED BY <2>2, <2>3, LeavesDirectory DEF PromiseStep
<1>6. CASE LoadList \/ LoadRead \/ LoadMisses \/ LoadReturn
  <2>1. disk' = disk /\ version' = version
    BY <1>6 DEF LoadList, LoadRead, LoadMisses, LoadReturn
  <2> QED BY <1>6, <2>1, LoadKeeps, LeavesDirectory DEF PromiseStep
<1>7. CASE UNCHANGED vars
  <2>1. disk' = disk /\ version' = version
    BY <1>7 DEF vars
  <2>2. StoreInv'
    <3>1. load' \in Loading /\ \A s \in Session : version[s] <= version'[s]
      BY <1>7 DEF vars, StoreInv, Sorts
    <3>2. Sorts'
      BY <1>7 DEF vars, StoreInv, Sorts
    <3>3. LoadInv'
      BY <1>7, <3>1, <3>2, LoadStays DEF vars, StoreInv
    <3> QED BY <1>7, <3>1, <3>3, LoadingKeeps DEF vars
  <2> QED BY <2>1, <2>2, LeavesDirectory DEF PromiseStep
<1> QED BY <1>1, <1>2, <1>3, <1>4, <1>5, <1>6, <1>7 DEF Next, Flush

\* The inductive invariant: a generation is published once, the newest one a live writer has
\* published is on disk as long as anything of it is, and what prunes and loads have listed was
\* there once (store.go:254, :302, :377).
THEOREM StoreInvHolds == Spec => []StoreInv
  BY InitKeeps, StepKeeps, PTL DEF Spec

\* The types, and a generation is at most one ahead of its writer (store.go:254).
THEOREM TypeCorrect == Spec => []TypeOK
<1>1. StoreInv => TypeOK
  BY DEF StoreInv
<1> QED BY <1>1, StoreInvHolds, PTL

\* A load counts each session once and never more than it has recorded, and none that it listed
\* with less than it listed, or it warns, whatever the writers replace meanwhile (store.go:377).
THEOREM LoadsAreSound == Spec => []LoadIsSound
<1>1. StoreInv => LoadIsSound
  <2> SUFFICES ASSUME StoreInv, load.todo = {} PROVE
                 /\ \A f \in load.best : Of(f.session, load.best) = {f} /\ f.version <= version[f.session]
                 /\ \A s \in SessionsIn(load.listed) \ load.warned : Newest(s, load.listed) \in load.best
    BY DEF LoadIsSound
  <2>0. LoadInv /\ load.listed \in SUBSET Snapshot
    BY DEF StoreInv, Sorts, Loading
  <2>1. ASSUME NEW f \in load.best
        PROVE  Of(f.session, load.best) = {f} /\ f.version <= version[f.session]
    <3>1. \A g \in load.best : g.session = f.session => g = f
      BY <2>0 DEF LoadInv
    <3>2. Of(f.session, load.best) = {f}
      BY <3>1 DEF Of
    <3> QED BY <2>0, <3>2 DEF LoadInv
  <2>2. ASSUME NEW s \in SessionsIn(load.listed) \ load.warned
        PROVE  Newest(s, load.listed) \in load.best
    <3>1. s \in Session /\ Of(s, load.listed) # {}
      BY <2>0 DEF SessionsIn, Of, Snapshot
    <3> DEFINE n == Newest(s, load.listed)
    <3>2. n \in load.listed /\ n.session = s /\ \A g \in Of(s, load.listed) : g.gen <= n.gen
      BY <2>0, <3>1, NewestOf DEF LoadInv
    <3>3. PICK b \in load.best : b.session = s /\ n.gen <= b.gen
      BY <2>0, <2>2, <3>2 DEF LoadInv
    <3>4. b \in load.listed /\ b \in Of(s, load.listed)
      BY <2>0, <3>3, OfMember DEF LoadInv
    <3>5. b.gen <= n.gen /\ b.gen \in Nat /\ n.gen \in Nat
      BY <2>0, <3>2, <3>4 DEF Snapshot
    <3>6. b.gen = n.gen
      BY <3>3, <3>5
    <3>7. b = n
      BY <2>0, <3>2, <3>3, <3>4, <3>6 DEF LoadInv, Unique
    <3> QED BY <3>3, <3>7
  <2> QED BY <2>1, <2>2
<1> QED BY <1>1, StoreInvHolds, PTL

\* A prune spares what its session has just written (store.go:302).
THEOREM FreshIsSpared == Spec => FreshSurvivesPrune
<1>1. StoreInv /\ [Next]_vars => FreshStep
  BY StepKeeps
<1> QED BY <1>1, StoreInvHolds, PTL DEF Spec, FreshSurvivesPrune, FreshStep

\* The directory implements a lower bound per session: a flush raises it, a removal and a crash
\* leave it, and a prune gives it up as a whole (store.go:254, :302).
THEOREM DirectoryKeepsPromise == Spec => TotalsKeepPromise
<1>1. Init => Promise!Init
  BY DEF Init, Promise!Init, Persisted, Of
<1>2. StoreInv /\ [Next]_vars => [Promise!Next]_<<version, [s \in Session |-> Persisted(s)]>>
  BY StepKeeps DEF PromiseStep, Totals
<1> QED BY <1>1, <1>2, StoreInvHolds, PTL DEF Spec, TotalsKeepPromise, Promise!Spec

=============================================================================
