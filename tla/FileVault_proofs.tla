-------------------------- MODULE FileVault_proofs --------------------------
(***************************************************************************)
(* What holds of FileVault for every number of servers, paths, tokens and  *)
(* snapshot names, every ring size and every bound.                        *)
(***************************************************************************)
EXTENDS FileVault, TLAPS

(* Sorts of the operators the state is built from. *)

LEMMA IdleOpType == IdleOp \in Op
  BY DEF IdleOp, Op, Entry, Verbs, Steps, Content

\* What a capture keeps is a ring again.
LEMMA KeptType ==
    ASSUME NEW ring \in Seq(Entry)
    PROVE  Kept(ring) \in Seq(Entry)
  BY RingAssumption DEF Kept

\* A capture in flight writes a ring of entries.
LEMMA PrependType ==
    ASSUME NEW ring \in Seq(Entry), NEW i \in SnapIds, NEW c \in Content
    PROVE  <<[file |-> i, sha |-> c]>> \o ring \in Seq(Entry)
  BY DEF Entry

\* Vault.Load returns the bytes of the sum, never a missing or a torn file.
LEMMA LoadedType ==
    ASSUME TypeOK, NEW p \in Paths, NEW v, Loadable(p, v)
    PROVE  Loaded(p, v) = meta[p][v].sha /\ Loaded(p, v) \in Content /\ v \in 1..Len(meta[p])
<1>1. Loaded(p, v) = meta[p][v].sha /\ v \in 1..Len(meta[p])
  BY DEF Loadable
<1>2. meta[p] \in Seq(Entry)
  BY DEF TypeOK
<1>3. meta[p][v] \in Entry
  BY <1>1, <1>2
<1> QED BY <1>1, <1>3 DEF Entry

LEMMA InitTypeOK == Init => TypeOK
  BY RingAssumption, BoundAssumption, IdleOpType
  DEF Init, TypeOK, IdleOp, Content

-----------------------------------------------------------------------------
(* One lemma for each group of actions. *)

\* The requirements on an operation a request holds, besides its sort.
Sound(o) ==
    /\ o.pc # "idle" => o.path \in Paths
    /\ o.pc \in {"load"} => o.tok \in Tokens
    /\ o.pc \in {"snapshot", "trim", "meta"} => o.cap \in Paths
    /\ o.pc \in {"target", "move"} \/ o.verb = "rename" => o.to \in Paths

LEMMA IdleOpSound == Sound(IdleOp)
  BY DEF IdleOp, Sound

\* A request that begins leaves the disk alone, so the new record is all there is
\* to type.
LEMMA BeginTypeOK ==
    ASSUME TypeOK, NEW s \in Servers, NEW o \in Op, Sound(o), Begin(s, o)
    PROVE  TypeOK'
  BY BoundAssumption DEF TypeOK, Begin, Sound, disk, history

LEMMA BeginsTypeOK ==
    ASSUME TypeOK, NEW s \in Servers, NEW p \in Paths,
           \/ \E t \in Tokens, e \in Guards(p) : BeginWrite(s, p, t, e)
           \/ \E t \in Tokens, e \in Guards(p) : BeginEdit(s, p, t, e)
           \/ \E t \in Tokens, force \in BOOLEAN : BeginRewrite(s, p, t, force)
           \/ \E v \in 1..RingSize, e \in Guards(p), force \in BOOLEAN :
                BeginRestore(s, p, v, e, force)
           \/ \E q \in Paths, overwrite \in BOOLEAN : BeginRename(s, p, q, overwrite)
    PROVE  TypeOK'
<1>g. ASSUME NEW e \in Guards(p) PROVE e \in Content \cup {None}
  BY <1>g DEF Guards, TypeOK
<1>c. content[p] \in Content \cup {Absent}
  BY DEF TypeOK
<1>t. ASSUME NEW t \in Tokens PROVE {t} \in Content /\ t \in Tokens \cup {None}
  BY <1>t DEF Content
<1>1. ASSUME NEW t \in Tokens, NEW e \in Guards(p), BeginWrite(s, p, t, e) PROVE TypeOK'
  <2> DEFINE d == {t}
  <2> DEFINE o == [IdleOp EXCEPT !.pc = "check", !.verb = "write", !.path = p, !.tok = t,
                                 !.sha = e, !.data = d]
  <2>0. e \in Content \cup {None} /\ d \in Content
    BY <1>g, <1>t
  <2> HIDE DEF d
  <2>1. o \in Op
    BY IdleOpType, <2>0 DEF Op, Steps, Verbs
  <2>2. Sound(o)
    BY IdleOpType, <2>0 DEF Op, Sound
  <2> QED BY <2>1, <2>2, <1>1, BeginTypeOK DEF BeginWrite, d
<1>2. ASSUME NEW t \in Tokens, NEW e \in Guards(p), BeginEdit(s, p, t, e) PROVE TypeOK'
  <2> DEFINE d == content[p] \cup {t}
  <2> DEFINE o == [IdleOp EXCEPT !.pc = "check", !.verb = "edit", !.path = p, !.tok = t,
                                 !.sha = e, !.data = d]
  <2>0. e \in Content \cup {None} /\ d \in Content
    BY <1>g, <1>c, <1>2 DEF BeginEdit, Content
  <2> HIDE DEF d
  <2>1. o \in Op
    BY IdleOpType, <2>0 DEF Op, Steps, Verbs
  <2>2. Sound(o)
    BY IdleOpType, <2>0 DEF Op, Sound
  <2> QED BY <2>1, <2>2, <1>2, BeginTypeOK DEF BeginEdit, d
<1>3. ASSUME NEW t \in Tokens, NEW force \in BOOLEAN, BeginRewrite(s, p, t, force)
      PROVE  TypeOK'
  <2> DEFINE e == IF force THEN None ELSE content[p]
  <2> DEFINE o == [IdleOp EXCEPT !.pc = "load", !.verb = "rewrite", !.path = p, !.tok = t,
                                 !.sha = e]
  <2>0. e \in Content \cup {None}
    BY <1>c, <1>3 DEF BeginRewrite
  <2> HIDE DEF e
  <2>1. o \in Op
    BY IdleOpType, <2>0 DEF Op, Steps, Verbs
  <2>2. Sound(o)
    BY IdleOpType, <2>0 DEF Op, Sound
  <2> QED BY <2>1, <2>2, <1>3, BeginTypeOK DEF BeginRewrite, e
<1>4. ASSUME NEW v \in 1..RingSize, NEW e \in Guards(p), NEW force \in BOOLEAN,
             BeginRestore(s, p, v, e, force)
      PROVE  TypeOK'
  <2> DEFINE c == IF e = None /\ ~force THEN "current" ELSE "check"
  <2> DEFINE d == Loaded(p, v)
  <2> DEFINE o == [IdleOp EXCEPT !.pc = c,
                                 !.verb = "restore", !.path = p, !.sha = e,
                                 !.data = d]
  <2>0. c \in {"current", "check"} /\ d \in Content /\ e \in Content \cup {None}
    BY <1>4, <1>g, LoadedType DEF BeginRestore
  <2> HIDE DEF c, d
  <2>1. o \in Op
    BY IdleOpType, <2>0 DEF Op, Steps, Verbs
  <2>2. Sound(o)
    BY IdleOpType, <2>0 DEF Op, Sound
  <2> QED BY <2>1, <2>2, <1>4, BeginTypeOK DEF BeginRestore, c, d
<1>5. ASSUME NEW q \in Paths, NEW overwrite \in BOOLEAN, BeginRename(s, p, q, overwrite)
      PROVE  TypeOK'
  <2> DEFINE o == [IdleOp EXCEPT !.pc = "snapshot", !.verb = "rename", !.path = p, !.to = q,
                                 !.overwrite = overwrite, !.pre = content[p],
                                 !.seen = content[p], !.cap = p]
  <2>1. o \in Op /\ Sound(o)
    BY IdleOpType, <1>c, <1>5 DEF BeginRename, Op, Sound, Steps, Verbs, Content
  <2> QED BY <2>1, <1>5, BeginTypeOK DEF BeginRename
<1> QED BY <1>1, <1>2, <1>3, <1>4, <1>5

-----------------------------------------------------------------------------
(* The steps of a request in progress. *)

OpsOK == op \in [Servers -> Op] /\ \A s \in Servers : Sound(op[s])

LEMMA TypeOKOps == TypeOK => OpsOK
  BY DEF TypeOK, OpsOK, Sound

\* One server's record is replaced.
LEMMA ReplaceOne ==
    ASSUME OpsOK, NEW s \in Servers, NEW o \in Op, Sound(o), op' = [op EXCEPT ![s] = o]
    PROVE  OpsOK'
  BY DEF OpsOK

\* A server ends its request and marks some others as raced.
LEMMA RaceOthersOps ==
    ASSUME OpsOK, NEW s \in Servers, NEW ps, RaceOthers(s, ps)
    PROVE  OpsOK'
<1>1. ASSUME NEW x \in Servers
      PROVE  [op[x] EXCEPT !.raced = TRUE] \in Op /\ Sound([op[x] EXCEPT !.raced = TRUE])
  <2>0. op[x] \in Op /\ Sound(op[x])
    BY <1>1 DEF OpsOK
  <2> QED BY <2>0 DEF Op, Sound
<1>2. ASSUME NEW x \in Servers PROVE op'[x] \in Op /\ Sound(op'[x])
  BY <1>1, <1>2, IdleOpType, IdleOpSound DEF RaceOthers, OpsOK
<1>3. op' = [x \in Servers |-> op'[x]]
  BY DEF RaceOthers
<1> QED BY <1>2, <1>3 DEF OpsOK

\* The parts of TypeOK a step may have to prove.
DiskOK == /\ content \in [Paths -> Content \cup {Absent}]
          /\ snaps \in [Paths -> [SnapIds -> Content \cup {NoFile, Torn}]]
          /\ meta \in [Paths -> Seq(Entry)]
HistoryOK == /\ was \in [Paths -> SUBSET Content]
             /\ undo \in [Paths -> Content \cup {Absent}]
             /\ age \in [Paths -> 0..RingSize]
             /\ clash \subseteq Paths
BoundsOK == requests \in 0..MaxRequests /\ outside \in 0..MaxOutside

LEMMA TypeOKParts ==
    ASSUME DiskOK', OpsOK', HistoryOK', BoundsOK'
    PROVE  TypeOK'
  BY DEF TypeOK, DiskOK, OpsOK, HistoryOK, BoundsOK, Sound

LEMMA QuietTypeOK ==
    ASSUME TypeOK, OpsOK', UNCHANGED <<disk, history, bounds>>
    PROVE  TypeOK'
  BY DEF TypeOK, OpsOK, Sound, disk, history, bounds

LEMMA DigestType ==
    ASSUME NEW c \in Content \cup {Absent} PROVE Digest(c) \in Content
  BY DEF Digest, Content

LEMMA LoadBaseTypeOK ==
    ASSUME TypeOK, NEW s \in Servers, LoadBase(s) PROVE TypeOK'
<1> DEFINE o == op[s]
<1>0. o \in Op /\ Sound(o) /\ o.pc = "load"
  BY TypeOKOps DEF OpsOK, LoadBase
<1>1. CASE Loadable(o.path, 1)
  <2> DEFINE d == Loaded(o.path, 1) \cup {o.tok}
  <2>1. o.path \in Paths /\ o.tok \in Tokens
    BY <1>0 DEF Sound
  <2>2. d \in Content
    BY <2>1, <1>1, LoadedType DEF Content
  <2> DEFINE n == [o EXCEPT !.pc = "check", !.data = d]
  <2> HIDE DEF d, o
  <2>3. n \in Op
    BY <1>0, <2>2 DEF Op, Steps
  <2>4. Sound(n)
    BY <1>0, <2>1 DEF Op, Sound
  <2>5. op' = [op EXCEPT ![s] = n]
    BY <1>1 DEF LoadBase, d, o
  <2> QED BY <2>3, <2>4, <2>5, ReplaceOne, TypeOKOps, QuietTypeOK DEF LoadBase
<1>2. CASE ~Loadable(o.path, 1)
  <2>1. op' = [op EXCEPT ![s] = IdleOp]
    BY <1>2 DEF LoadBase
  <2> QED BY <2>1, IdleOpType, IdleOpSound, ReplaceOne, TypeOKOps, QuietTypeOK DEF LoadBase
<1> QED BY <1>1, <1>2

LEMMA ReadCurrentTypeOK ==
    ASSUME TypeOK, NEW s \in Servers, ReadCurrent(s) PROVE TypeOK'
<1> DEFINE o == op[s]
<1>0. o \in Op /\ Sound(o) /\ o.pc = "current"
  BY TypeOKOps DEF OpsOK, ReadCurrent
<1>1. CASE content[o.path] = Absent
  <2>1. op' = [op EXCEPT ![s] = IdleOp]
    BY <1>1 DEF ReadCurrent
  <2> QED BY <2>1, IdleOpType, IdleOpSound, ReplaceOne, TypeOKOps, QuietTypeOK DEF ReadCurrent
<1>2. CASE content[o.path] # Absent
  <2> DEFINE d == content[o.path]
  <2>1. o.path \in Paths /\ d \in Content
    BY <1>0, <1>2 DEF Sound, TypeOK
  <2> DEFINE n == [o EXCEPT !.pc = "check", !.sha = d]
  <2> HIDE DEF d, o
  <2>3. n \in Op
    BY <1>0, <2>1 DEF Op, Steps
  <2>4. Sound(n)
    BY <1>0, <2>1 DEF Op, Sound
  <2>5. op' = [op EXCEPT ![s] = n]
    BY <1>2 DEF ReadCurrent, d, o
  <2> QED BY <2>3, <2>4, <2>5, ReplaceOne, TypeOKOps, QuietTypeOK DEF ReadCurrent
<1> QED BY <1>1, <1>2

LEMMA CheckTypeOK ==
    ASSUME TypeOK, NEW s \in Servers, Check(s) PROVE TypeOK'
<1> DEFINE o == op[s]
           now == content[o.path]
           refused == o.sha \notin {None, Digest(now)} \/ o.data = now
<1>0. o \in Op /\ Sound(o) /\ o.pc = "check"
  BY TypeOKOps DEF OpsOK, Check
<1>1. CASE refused
  <2>1. op' = [op EXCEPT ![s] = IdleOp]
    BY <1>1 DEF Check
  <2> QED BY <2>1, IdleOpType, IdleOpSound, ReplaceOne, TypeOKOps, QuietTypeOK DEF Check
<1>2. CASE ~refused
  <2> DEFINE c == IF NeedsSnapshot(o, now) THEN "snapshot" ELSE "install"
             d == Digest(now)
  <2>1. o.path \in Paths /\ d \in Content /\ c \in {"snapshot", "install"}
    BY <1>0, DigestType DEF Sound, TypeOK
  <2> DEFINE n == [o EXCEPT !.pc = c, !.pre = d, !.cap = o.path, !.raced = FALSE,
                            !.followed = FALSE]
  <2>5. op' = [op EXCEPT ![s] = n]
    BY <1>2 DEF Check
  <2> HIDE DEF c, d, o
  <2>3. n \in Op
    BY <1>0, <2>1 DEF Op, Steps
  <2>4. Sound(n)
    BY <1>0, <2>1 DEF Op, Sound
  <2> QED BY <2>3, <2>4, <2>5, ReplaceOne, TypeOKOps, QuietTypeOK DEF Check
<1> QED BY <1>1, <1>2

LEMMA WriteSnapshotTypeOK ==
    ASSUME TypeOK, NEW s \in Servers, WriteSnapshot(s) PROVE TypeOK'
<1> DEFINE o == op[s]
<1>0. o \in Op /\ Sound(o) /\ o.pc = "snapshot"
  BY TypeOKOps DEF OpsOK, WriteSnapshot
<1>1. PICK i \in FreshIds(o.cap) :
        /\ snaps' = [snaps EXCEPT ![o.cap][i] = PreimageOf(o)]
        /\ op' = [op EXCEPT ![s] = [o EXCEPT !.pc = "trim",
                    !.ring = <<[file |-> i, sha |-> PreimageOf(o)]>> \o meta[o.cap]]]
  BY DEF WriteSnapshot
<1>2. i \in SnapIds /\ o.cap \in Paths /\ PreimageOf(o) \in Content
  BY <1>0 DEF FreshIds, Sound, PreimageOf, Op
<1> DEFINE r == <<[file |-> i, sha |-> PreimageOf(o)]>> \o meta[o.cap]
<1>3. r \in Seq(Entry)
  BY <1>2, PrependType DEF TypeOK
<1> DEFINE n == [o EXCEPT !.pc = "trim", !.ring = r]
<1>4. op' = [op EXCEPT ![s] = n]
  BY <1>1
<1>5. DiskOK'
  BY <1>1, <1>2 DEF WriteSnapshot, DiskOK, TypeOK
<1>6. HistoryOK' /\ BoundsOK'
  BY <1>2 DEF WriteSnapshot, HistoryOK, BoundsOK, TypeOK, bounds
<1> HIDE DEF r, o
<1>7. n \in Op
  BY <1>0, <1>3 DEF Op, Steps
<1>8. Sound(n)
  BY <1>0, <1>2 DEF Op, Sound
<1>9. OpsOK'
  BY <1>4, <1>7, <1>8, ReplaceOne, TypeOKOps
<1> QED BY <1>5, <1>6, <1>9, TypeOKParts

LEMMA RemoveStaleTypeOK ==
    ASSUME TypeOK, NEW s \in Servers, RemoveStale(s) PROVE TypeOK'
<1> DEFINE o == op[s]
           n == [o EXCEPT !.pc = "meta"]
<1>0. o \in Op /\ Sound(o) /\ o.pc = "trim" /\ o.cap \in Paths
  BY TypeOKOps DEF OpsOK, RemoveStale, Sound
<1>1. DiskOK'
  BY <1>0 DEF RemoveStale, DiskOK, TypeOK
<1>2. HistoryOK' /\ BoundsOK'
  BY DEF RemoveStale, HistoryOK, BoundsOK, TypeOK, bounds, history
<1>3. op' = [op EXCEPT ![s] = n]
  BY DEF RemoveStale
<1> HIDE DEF o
<1>4. n \in Op /\ Sound(n)
  BY <1>0 DEF Op, Steps, Sound
<1>5. OpsOK'
  BY <1>3, <1>4, ReplaceOne, TypeOKOps
<1> QED BY <1>1, <1>2, <1>5, TypeOKParts

LEMMA WriteMetaTypeOK ==
    ASSUME TypeOK, NEW s \in Servers, WriteMeta(s) PROVE TypeOK'
<1> DEFINE o == op[s]
<1>0. o \in Op /\ Sound(o) /\ o.pc = "meta" /\ o.cap \in Paths /\ o.ring \in Seq(Entry)
  BY TypeOKOps DEF OpsOK, WriteMeta, Sound, Op
<1>1. DiskOK'
  BY <1>0, KeptType DEF WriteMeta, DiskOK, TypeOK
<1>2. HistoryOK' /\ BoundsOK'
  BY <1>0, RingAssumption DEF WriteMeta, HistoryOK, BoundsOK, TypeOK, bounds
<1> DEFINE c == IF o.verb # "rename" THEN "install"
                ELSE IF o.cap = o.path THEN "target" ELSE "move"
           n == [o EXCEPT !.ring = <<>>, !.saved = TRUE, !.pc = c]
<1>3. n \in Op /\ Sound(n)
  <2>1. c \in {"install", "target", "move"} /\ (c # "install" => o.verb = "rename")
    OBVIOUS
  <2>2. <<>> \in Seq(Entry)
    OBVIOUS
  <2> DEFINE e == <<>>
             m == [o EXCEPT !.ring = e, !.saved = TRUE, !.pc = c]
  <2>3. e \in Seq(Entry)
    BY <2>2
  <2> HIDE DEF c, o, e
  <2>4. m \in Op
    BY <1>0, <2>1, <2>3 DEF Op, Steps
  <2>5. Sound(m)
    BY <1>0, <2>1 DEF Op, Sound
  <2> QED BY <2>4, <2>5 DEF e
<1>4. ASSUME NEW x \in Servers
      PROVE  op'[x] \in Op /\ Sound(op'[x])
  <2>1. op'[x] \in {n, op[x], [op[x] EXCEPT !.followed = TRUE]}
    BY <1>4 DEF WriteMeta
  <2>2. op[x] \in Op /\ Sound(op[x])
    BY <1>4, TypeOKOps DEF OpsOK
  <2>3. [op[x] EXCEPT !.followed = TRUE] \in Op /\ Sound([op[x] EXCEPT !.followed = TRUE])
    BY <2>2 DEF Op, Sound
  <2> QED BY <2>1, <2>2, <2>3, <1>3
<1>5. op' = [x \in Servers |-> op'[x]]
  BY DEF WriteMeta
<1>6. OpsOK'
  BY <1>4, <1>5 DEF OpsOK
<1> QED BY <1>1, <1>2, <1>6, TypeOKParts

LEMMA InstallTypeOK ==
    ASSUME TypeOK, NEW s \in Servers, Install(s) PROVE TypeOK'
<1> DEFINE o == op[s]
<1>0. o.path \in Paths /\ o.data \in Content /\ o.pre \in Content
  BY TypeOKOps DEF OpsOK, Install, Sound, Op
<1>1. DiskOK'
  BY <1>0 DEF Install, DiskOK, TypeOK
<1>2. HistoryOK' /\ BoundsOK'
  BY <1>0, RingAssumption DEF Install, HistoryOK, BoundsOK, TypeOK, bounds
<1>3. OpsOK'
  BY RaceOthersOps, TypeOKOps DEF Install
<1> QED BY <1>1, <1>2, <1>3, TypeOKParts

LEMMA CheckTargetTypeOK ==
    ASSUME TypeOK, NEW s \in Servers, CheckTarget(s) PROVE TypeOK'
<1> DEFINE o == op[s]
           now == content[o.to]
<1>0. o \in Op /\ Sound(o) /\ o.pc = "target" /\ o.to \in Paths
  BY TypeOKOps DEF OpsOK, CheckTarget, Sound
<1>1. CASE now = Absent
  <2> DEFINE n == [o EXCEPT !.pc = "move", !.cap = None]
  <2>1. op' = [op EXCEPT ![s] = n]
    BY <1>1 DEF CheckTarget
  <2> HIDE DEF o
  <2>2. n \in Op /\ Sound(n)
    BY <1>0 DEF Op, Steps, Sound
  <2> QED BY <2>1, <2>2, ReplaceOne, TypeOKOps, QuietTypeOK DEF CheckTarget
<1>2. CASE now # Absent /\ ~o.overwrite
  <2>1. op' = [op EXCEPT ![s] = IdleOp]
    BY <1>2 DEF CheckTarget
  <2> QED BY <2>1, IdleOpType, IdleOpSound, ReplaceOne, TypeOKOps, QuietTypeOK DEF CheckTarget
<1>3. CASE now # Absent /\ o.overwrite
  <2> DEFINE n == [o EXCEPT !.pc = "snapshot", !.pre = now, !.cap = o.to]
  <2>1. op' = [op EXCEPT ![s] = n]
    BY <1>3 DEF CheckTarget
  <2>2. now \in Content
    BY <1>0, <1>3 DEF TypeOK
  <2> HIDE DEF o, now
  <2>3. n \in Op
    BY <1>0, <2>2 DEF Op, Steps
  <2>4. Sound(n)
    BY <1>0 DEF Op, Sound
  <2> QED BY <2>1, <2>3, <2>4, ReplaceOne, TypeOKOps, QuietTypeOK DEF CheckTarget
<1> QED BY <1>1, <1>2, <1>3

LEMMA MoveTypeOK ==
    ASSUME TypeOK, NEW s \in Servers, Move(s) PROVE TypeOK'
<1> DEFINE o == op[s]
<1>0. o.path \in Paths /\ o.to \in Paths /\ o.seen \in Content /\ o.pre \in Content
  BY TypeOKOps DEF OpsOK, Move, Sound, Op
<1>1. DiskOK'
  BY <1>0 DEF Move, DiskOK, TypeOK
<1>2. HistoryOK' /\ BoundsOK'
  <2>1. was' \in [Paths -> SUBSET Content]
    BY <1>0 DEF Move, TypeOK
  <2>2. undo' \in [Paths -> Content \cup {Absent}]
    BY <1>0 DEF Move, TypeOK
  <2>3. age' \in [Paths -> 0..RingSize]
    BY <1>0, RingAssumption DEF Move, TypeOK
  <2> QED BY <2>1, <2>2, <2>3 DEF Move, HistoryOK, BoundsOK, TypeOK, bounds
<1>3. OpsOK'
  BY RaceOthersOps, TypeOKOps DEF Move
<1> QED BY <1>1, <1>2, <1>3, TypeOKParts

LEMMA AbandonTypeOK ==
    ASSUME TypeOK, NEW s \in Servers, Abandon(s) PROVE TypeOK'
  BY IdleOpType, IdleOpSound, ReplaceOne, TypeOKOps, QuietTypeOK DEF Abandon

LEMMA OutsideTypeOK ==
    ASSUME TypeOK, NEW p \in Paths, NEW c \in Content \cup {Absent}, Outside(p, c)
    PROVE  TypeOK'
<1>1. DiskOK'
  BY DEF Outside, DiskOK, TypeOK
<1>2. HistoryOK' /\ BoundsOK'
  BY BoundAssumption DEF Outside, HistoryOK, BoundsOK, TypeOK
<1>3. ASSUME NEW x \in Servers
      PROVE  op'[x] \in Op /\ Sound(op'[x])
  <2>1. op[x] \in Op /\ Sound(op[x])
    BY <1>3, TypeOKOps DEF OpsOK
  <2>2. [op[x] EXCEPT !.raced = TRUE] \in Op /\ Sound([op[x] EXCEPT !.raced = TRUE])
    BY <2>1 DEF Op, Sound
  <2>3. op'[x] \in {op[x], [op[x] EXCEPT !.raced = TRUE]}
    BY <1>3 DEF Outside
  <2> QED BY <2>1, <2>2, <2>3
<1>4. op' = [x \in Servers |-> op'[x]]
  BY DEF Outside
<1>5. OpsOK'
  BY <1>3, <1>4 DEF OpsOK
<1> QED BY <1>1, <1>2, <1>5, TypeOKParts

LEMMA PowerLossTypeOK ==
    ASSUME TypeOK, NEW lost, PowerLoss(lost) PROVE TypeOK'
<1>1. DiskOK'
  BY DEF PowerLoss, DiskOK, TypeOK
<1>2. HistoryOK' /\ BoundsOK'
  BY BoundAssumption DEF PowerLoss, HistoryOK, BoundsOK, TypeOK, history
<1>3. OpsOK'
  BY IdleOpType, IdleOpSound DEF PowerLoss, OpsOK
<1> QED BY <1>1, <1>2, <1>3, TypeOKParts

-----------------------------------------------------------------------------
LEMMA NextTypeOK == TypeOK /\ [Next]_vars => TypeOK'
<1> SUFFICES ASSUME TypeOK, [Next]_vars PROVE TypeOK'
  OBVIOUS
<1>1. CASE UNCHANGED vars
  BY <1>1 DEF vars, TypeOK, disk, history, bounds
<1>2. ASSUME NEW s \in Servers, Handle(s) PROVE TypeOK'
  BY <1>2, LoadBaseTypeOK, ReadCurrentTypeOK, CheckTypeOK, WriteSnapshotTypeOK,
     RemoveStaleTypeOK, WriteMetaTypeOK, InstallTypeOK, CheckTargetTypeOK, MoveTypeOK
  DEF Handle
<1> QED BY <1>1, <1>2, BeginsTypeOK, AbandonTypeOK, OutsideTypeOK, PowerLossTypeOK DEF Next

\* The variables of the mutation lane keep their types: every request that got
\* past its first read names a path it may touch, and a ring holds only entries.
THEOREM TypeCorrect == Spec => []TypeOK
<1>1. Init => TypeOK
  BY InitTypeOK
<1>2. TypeOK /\ [Next]_vars => TypeOK'
  BY NextTypeOK
<1> QED BY <1>1, <1>2, PTL DEF Spec

-----------------------------------------------------------------------------
(* Where the bytes of a ring and of a restore come from. *)

\* What request o carries for its path is something that path has held, by the
\* record w: the preimage it captures, the ring it is about to write, the version
\* it restores.
Traced(o, w) ==
    /\ o.pc \in {"snapshot", "trim", "meta"} => o.pre \in w[o.cap]
    /\ o.pc \in {"trim", "meta"} => \A k \in 1..Len(o.ring) : o.ring[k].sha \in w[o.cap]
    /\ o.pc # "idle" /\ o.verb = "restore" => o.data \in w[o.path]
    /\ o.pc \in {"target", "move"} => o.verb = "rename"
    /\ o.pc = "load" => o.verb = "rewrite"

ContentHad == \A p \in Paths : content[p] \in was[p] \cup {Absent}
OpsTraced == \A s \in Servers : Traced(op[s], was)
Provenance == ContentHad /\ RingGenuine /\ OpsTraced

Grows(w, x) == \A p \in Paths : w[p] \subseteq x[p]

LEMMA InitProvenance == Init => Provenance
  BY DEF Init, Provenance, ContentHad, RingGenuine, OpsTraced, Traced, IdleOp

LEMMA IdleOpTraced == ASSUME NEW w PROVE Traced(IdleOp, w)
  BY DEF Traced, IdleOp

\* A longer record traces what a shorter one did; no step shortens it.
LEMMA TracedGrows ==
    ASSUME NEW o \in Op, Sound(o), NEW w, NEW x, Grows(w, x), Traced(o, w)
    PROVE  Traced(o, x)
  BY DEF Sound, Grows, Traced

LEMMA WasGrows == TypeOK /\ [Next]_vars => Grows(was, was')
<1> SUFFICES ASSUME TypeOK, [Next]_vars PROVE Grows(was, was')
  OBVIOUS
<1>1. ASSUME was' = was PROVE Grows(was, was')
  BY <1>1 DEF Grows
<1>2. ASSUME NEW s \in Servers, Install(s) PROVE Grows(was, was')
  BY <1>2 DEF Install, Grows, TypeOK
<1>3. ASSUME NEW s \in Servers, Move(s) PROVE Grows(was, was')
  BY <1>3 DEF Move, Grows, TypeOK
<1>4. ASSUME NEW p \in Paths, NEW c \in Content \cup {Absent}, Outside(p, c)
      PROVE  Grows(was, was')
  BY <1>4 DEF Outside, Grows, TypeOK
<1>5. ASSUME NEW s \in Servers, NEW o, Begin(s, o) PROVE was' = was
  BY <1>5 DEF Begin, history
<1>6. ASSUME NEW s \in Servers,
             \/ LoadBase(s) \/ ReadCurrent(s) \/ Check(s) \/ WriteSnapshot(s)
             \/ RemoveStale(s) \/ WriteMeta(s) \/ CheckTarget(s) \/ Abandon(s)
      PROVE  was' = was
  BY <1>6 DEF LoadBase, ReadCurrent, Check, WriteSnapshot, RemoveStale, WriteMeta,
     CheckTarget, Abandon, history
<1>7. ASSUME NEW lost, PowerLoss(lost) PROVE was' = was
  BY <1>7 DEF PowerLoss, history
<1>8. CASE UNCHANGED vars
  BY <1>8, <1>1 DEF vars
<1>9. ASSUME NEW s \in Servers, NEW p \in Paths,
             \/ \E t \in Tokens, e \in Guards(p) : BeginWrite(s, p, t, e)
             \/ \E t \in Tokens, e \in Guards(p) : BeginEdit(s, p, t, e)
             \/ \E t \in Tokens, force \in BOOLEAN : BeginRewrite(s, p, t, force)
             \/ \E v \in 1..RingSize, e \in Guards(p), force \in BOOLEAN :
                  BeginRestore(s, p, v, e, force)
             \/ \E q \in Paths, overwrite \in BOOLEAN : BeginRename(s, p, q, overwrite)
      PROVE  was' = was
  BY <1>9, <1>5 DEF BeginWrite, BeginEdit, BeginRewrite, BeginRestore, BeginRename
<1> QED BY <1>1, <1>2, <1>3, <1>4, <1>6, <1>7, <1>8, <1>9 DEF Next, Handle

\* The records of the servers a step does not touch stay traced.
LEMMA ReplaceTraced ==
    ASSUME TypeOK, OpsTraced, Grows(was, was'), NEW s \in Servers, NEW o,
           op' = [op EXCEPT ![s] = o], Traced(o, was')
    PROVE  OpsTraced'
<1>1. ASSUME NEW x \in Servers, x # s PROVE Traced(op[x], was')
  BY <1>1, TypeOKOps, TracedGrows DEF OpsOK, OpsTraced
<1>2. ASSUME NEW x \in Servers PROVE Traced(op'[x], was')
  BY <1>1, <1>2 DEF TypeOK
<1> QED BY <1>2 DEF OpsTraced

\* Marking a request as raced or followed does not change what it carries.
LEMMA MarkTraced ==
    ASSUME NEW o \in Op, NEW w, Traced(o, w)
    PROVE  /\ Traced([o EXCEPT !.raced = TRUE], w)
           /\ Traced([o EXCEPT !.followed = TRUE], w)
  BY DEF Traced, Op

LEMMA RaceOthersTraced ==
    ASSUME TypeOK, OpsTraced, Grows(was, was'), NEW s \in Servers, NEW ps, RaceOthers(s, ps)
    PROVE  OpsTraced'
<1>1. ASSUME NEW x \in Servers PROVE Traced(op'[x], was')
  <2>1. op[x] \in Op /\ Traced(op[x], was')
    BY <1>1, TypeOKOps, TracedGrows DEF OpsOK, OpsTraced
  <2>2. op'[x] \in {IdleOp, op[x], [op[x] EXCEPT !.raced = TRUE]}
    BY <1>1 DEF RaceOthers
  <2> QED BY <2>1, <2>2, IdleOpTraced, MarkTraced
<1> QED BY <1>1 DEF OpsTraced

\* A step that leaves the tree and the metadata alone keeps the rest.
LEMMA QuietProvenance ==
    ASSUME Provenance, Grows(was, was'), UNCHANGED <<content, meta>>, OpsTraced', TypeOK
    PROVE  Provenance'
  BY DEF Provenance, ContentHad, RingGenuine, Grows

LEMMA BeginProvenance ==
    ASSUME TypeOK, Provenance, Grows(was, was'), NEW s \in Servers, NEW o, Begin(s, o),
           Traced(o, was)
    PROVE  Provenance'
<1>1. op' = [op EXCEPT ![s] = o] /\ was' = was /\ UNCHANGED <<content, meta>>
  BY DEF Begin, disk, history
<1>2. OpsTraced'
  BY <1>1, ReplaceTraced DEF Provenance
<1> QED BY <1>1, <1>2, QuietProvenance

LEMMA BeginsProvenance ==
    ASSUME TypeOK, Provenance, Grows(was, was'), NEW s \in Servers, NEW p \in Paths,
           \/ \E t \in Tokens, e \in Guards(p) : BeginWrite(s, p, t, e)
           \/ \E t \in Tokens, e \in Guards(p) : BeginEdit(s, p, t, e)
           \/ \E t \in Tokens, force \in BOOLEAN : BeginRewrite(s, p, t, force)
           \/ \E v \in 1..RingSize, e \in Guards(p), force \in BOOLEAN :
                BeginRestore(s, p, v, e, force)
           \/ \E q \in Paths, overwrite \in BOOLEAN : BeginRename(s, p, q, overwrite)
    PROVE  Provenance'
<1>1. ASSUME NEW t \in Tokens, NEW e \in Guards(p), BeginWrite(s, p, t, e) PROVE Provenance'
  <2> DEFINE o == [IdleOp EXCEPT !.pc = "check", !.verb = "write", !.path = p, !.tok = t,
                                 !.sha = e, !.data = {t}]
  <2>1. o.pc = "check" /\ o.verb = "write"
    BY DEF IdleOp
  <2>2. Traced(o, was)
    BY <2>1 DEF Traced
  <2> QED BY <2>2, <1>1, BeginProvenance DEF BeginWrite
<1>2. ASSUME NEW t \in Tokens, NEW e \in Guards(p), BeginEdit(s, p, t, e) PROVE Provenance'
  <2> DEFINE o == [IdleOp EXCEPT !.pc = "check", !.verb = "edit", !.path = p, !.tok = t,
                                 !.sha = e, !.data = content[p] \cup {t}]
  <2>1. o.pc = "check" /\ o.verb = "edit"
    BY DEF IdleOp
  <2>2. Traced(o, was)
    BY <2>1 DEF Traced
  <2> QED BY <2>2, <1>2, BeginProvenance DEF BeginEdit
<1>3. ASSUME NEW t \in Tokens, NEW force \in BOOLEAN, BeginRewrite(s, p, t, force)
      PROVE  Provenance'
  <2> DEFINE o == [IdleOp EXCEPT !.pc = "load", !.verb = "rewrite", !.path = p, !.tok = t,
                                 !.sha = IF force THEN None ELSE content[p]]
  <2>1. o.pc = "load" /\ o.verb = "rewrite"
    BY DEF IdleOp
  <2>2. Traced(o, was)
    BY <2>1 DEF Traced
  <2> QED BY <2>2, <1>3, BeginProvenance DEF BeginRewrite
<1>4. ASSUME NEW v \in 1..RingSize, NEW e \in Guards(p), NEW force \in BOOLEAN,
             BeginRestore(s, p, v, e, force)
      PROVE  Provenance'
  <2> DEFINE c == IF e = None /\ ~force THEN "current" ELSE "check"
             o == [IdleOp EXCEPT !.pc = c, !.verb = "restore", !.path = p, !.sha = e,
                                 !.data = Loaded(p, v)]
  <2>1. o.pc \in {"current", "check"} /\ o.path = p /\ o.data = Loaded(p, v)
    BY DEF IdleOp
  <2>2. Loaded(p, v) \in was[p]
    BY <1>4, LoadedType DEF BeginRestore, Provenance, RingGenuine
  <2>3. Traced(o, was)
    BY <2>1, <2>2 DEF Traced
  <2> QED BY <2>3, <1>4, BeginProvenance DEF BeginRestore
<1>5. ASSUME NEW q \in Paths, NEW overwrite \in BOOLEAN, BeginRename(s, p, q, overwrite)
      PROVE  Provenance'
  <2> DEFINE o == [IdleOp EXCEPT !.pc = "snapshot", !.verb = "rename", !.path = p, !.to = q,
                                 !.overwrite = overwrite, !.pre = content[p],
                                 !.seen = content[p], !.cap = p]
  <2>1. o.pc = "snapshot" /\ o.verb = "rename" /\ o.cap = p /\ o.pre = content[p]
    BY DEF IdleOp
  <2>2. content[p] \in was[p]
    BY <1>5 DEF BeginRename, Provenance, ContentHad
  <2>3. Traced(o, was)
    BY <2>1, <2>2 DEF Traced
  <2> QED BY <2>3, <1>5, BeginProvenance DEF BeginRename
<1> QED BY <1>1, <1>2, <1>3, <1>4, <1>5

\* Replacing one record by a traced one is all that is left to show of a step that
\* writes neither the tree nor the metadata.
LEMMA OneRecordProvenance ==
    ASSUME TypeOK, Provenance, Grows(was, was'), NEW s \in Servers, NEW n,
           op' = [op EXCEPT ![s] = n], Traced(n, was),
           UNCHANGED <<content, meta, was>>
    PROVE  Provenance'
<1>1. OpsTraced'
  BY ReplaceTraced DEF Provenance
<1> QED BY <1>1, QuietProvenance

LEMMA AbandonProvenance ==
    ASSUME TypeOK, Provenance, Grows(was, was'), NEW s \in Servers,
           op' = [op EXCEPT ![s] = IdleOp], UNCHANGED <<content, meta, was>>
    PROVE  Provenance'
  BY OneRecordProvenance, IdleOpTraced

LEMMA LoadBaseProvenance ==
    ASSUME TypeOK, Provenance, Grows(was, was'), NEW s \in Servers, LoadBase(s)
    PROVE  Provenance'
<1> DEFINE o == op[s]
           d == Loaded(o.path, 1) \cup {o.tok}
           n == [o EXCEPT !.pc = "check", !.data = d]
<1>0. o \in Op /\ Traced(o, was) /\ o.pc = "load"
  BY TypeOKOps DEF OpsOK, Provenance, OpsTraced, LoadBase
<1>1. UNCHANGED <<content, meta, was>>
  BY DEF LoadBase, disk, history
<1>2. op' = [op EXCEPT ![s] = n] \/ op' = [op EXCEPT ![s] = IdleOp]
  BY DEF LoadBase
<1> HIDE DEF o, d
<1>3. Traced(n, was)
  BY <1>0 DEF Traced, Op
<1> QED BY <1>1, <1>2, <1>3, OneRecordProvenance, AbandonProvenance

LEMMA ReadCurrentProvenance ==
    ASSUME TypeOK, Provenance, Grows(was, was'), NEW s \in Servers, ReadCurrent(s)
    PROVE  Provenance'
<1> DEFINE o == op[s]
           d == content[o.path]
           n == [o EXCEPT !.pc = "check", !.sha = d]
<1>0. o \in Op /\ Traced(o, was) /\ o.pc = "current"
  BY TypeOKOps DEF OpsOK, Provenance, OpsTraced, ReadCurrent
<1>1. UNCHANGED <<content, meta, was>>
  BY DEF ReadCurrent, disk, history
<1>2. op' = [op EXCEPT ![s] = n] \/ op' = [op EXCEPT ![s] = IdleOp]
  BY DEF ReadCurrent
<1> HIDE DEF o, d
<1>3. Traced(n, was)
  BY <1>0 DEF Traced, Op
<1> QED BY <1>1, <1>2, <1>3, OneRecordProvenance, AbandonProvenance

\* Commit captures the bytes it has just read; an absent file is not captured.
LEMMA CheckProvenance ==
    ASSUME TypeOK, Provenance, Grows(was, was'), NEW s \in Servers, Check(s)
    PROVE  Provenance'
<1> DEFINE o == op[s]
           now == content[o.path]
           c == IF NeedsSnapshot(o, now) THEN "snapshot" ELSE "install"
           d == Digest(now)
           n == [o EXCEPT !.pc = c, !.pre = d, !.cap = o.path, !.raced = FALSE,
                          !.followed = FALSE]
<1>0. o \in Op /\ Traced(o, was) /\ o.pc = "check" /\ o.path \in Paths
  BY TypeOKOps DEF OpsOK, Provenance, OpsTraced, Check, Sound
<1>1. UNCHANGED <<content, meta, was>>
  BY DEF Check, disk, history
<1>2. op' = [op EXCEPT ![s] = n] \/ op' = [op EXCEPT ![s] = IdleOp]
  BY DEF Check
<1>3. c \in {"snapshot", "install"} /\ (c = "snapshot" => d \in was[o.path])
  BY <1>0 DEF NeedsSnapshot, Digest, Provenance, ContentHad
<1> HIDE DEF o, c, d
<1>4. n.pc = c /\ n.pre = d /\ n.cap = o.path /\ n.verb = o.verb /\ n.data = o.data
      /\ n.path = o.path
  BY <1>0 DEF Op
<1>5. Traced(n, was)
  BY <1>0, <1>3, <1>4 DEF Traced
<1> QED BY <1>1, <1>2, <1>5, OneRecordProvenance, AbandonProvenance

LEMMA RemoveStaleProvenance ==
    ASSUME TypeOK, Provenance, Grows(was, was'), NEW s \in Servers, RemoveStale(s)
    PROVE  Provenance'
<1> DEFINE o == op[s]
           n == [o EXCEPT !.pc = "meta"]
<1>0. o \in Op /\ Traced(o, was) /\ o.pc = "trim"
  BY TypeOKOps DEF OpsOK, Provenance, OpsTraced, RemoveStale
<1>1. UNCHANGED <<content, meta, was>> /\ op' = [op EXCEPT ![s] = n]
  BY DEF RemoveStale, history
<1> HIDE DEF o
<1>2. Traced(n, was)
  BY <1>0 DEF Traced, Op
<1> QED BY <1>1, <1>2, OneRecordProvenance

\* A rename captures its target as it finds it.
LEMMA CheckTargetProvenance ==
    ASSUME TypeOK, Provenance, Grows(was, was'), NEW s \in Servers, CheckTarget(s)
    PROVE  Provenance'
<1> DEFINE o == op[s]
           now == content[o.to]
           m == [o EXCEPT !.pc = "move", !.cap = None]
           n == [o EXCEPT !.pc = "snapshot", !.pre = now, !.cap = o.to]
<1>0. o \in Op /\ Traced(o, was) /\ o.pc = "target" /\ o.to \in Paths
  BY TypeOKOps DEF OpsOK, Provenance, OpsTraced, CheckTarget, Sound
<1>1. UNCHANGED <<content, meta, was>>
  BY DEF CheckTarget, disk, history
<1>2. \/ op' = [op EXCEPT ![s] = m] \/ op' = [op EXCEPT ![s] = IdleOp]
      \/ op' = [op EXCEPT ![s] = n] /\ now # Absent
  BY DEF CheckTarget
<1>3. now # Absent => now \in was[o.to]
  BY <1>0 DEF Provenance, ContentHad
<1> HIDE DEF o, now
<1>4. Traced(m, was)
  BY <1>0 DEF Traced, Op
<1>5. now # Absent => Traced(n, was)
  BY <1>0, <1>3 DEF Traced, Op
<1> QED BY <1>1, <1>2, <1>4, <1>5, OneRecordProvenance, AbandonProvenance

\* The new entry is the preimage, the others come from the ring that was read.
LEMMA WriteSnapshotProvenance ==
    ASSUME TypeOK, Provenance, Grows(was, was'), NEW s \in Servers, WriteSnapshot(s)
    PROVE  Provenance'
<1> DEFINE o == op[s]
<1>0. o \in Op /\ Traced(o, was) /\ o.pc = "snapshot" /\ o.cap \in Paths
  BY TypeOKOps DEF OpsOK, Provenance, OpsTraced, WriteSnapshot, Sound
<1>1. UNCHANGED <<content, meta, was>>
  BY DEF WriteSnapshot
<1>2. PICK i \in FreshIds(o.cap) :
        op' = [op EXCEPT ![s] = [o EXCEPT !.pc = "trim",
                 !.ring = <<[file |-> i, sha |-> PreimageOf(o)]>> \o meta[o.cap]]]
  BY DEF WriteSnapshot
<1> DEFINE e == [file |-> i, sha |-> PreimageOf(o)]
           r == <<e>> \o meta[o.cap]
           n == [o EXCEPT !.pc = "trim", !.ring = r]
<1>3. e \in Entry /\ e.sha = o.pre /\ o.pre \in was[o.cap]
  BY <1>0 DEF Entry, FreshIds, PreimageOf, Op, Traced
<1>4. ASSUME NEW k \in 1..Len(r) PROVE r[k].sha \in was[o.cap]
  <2>1. meta[o.cap] \in Seq(Entry) /\ \A j \in 1..Len(meta[o.cap]) : meta[o.cap][j].sha \in was[o.cap]
    BY <1>0 DEF TypeOK, Provenance, RingGenuine
  <2> DEFINE m == meta[o.cap]
  <2> HIDE DEF e, m
  <2>2. r = <<e>> \o m
    BY DEF m
  <2>3. k = 1 => r[k] = e
    BY <1>3, <2>1, <2>2 DEF m
  <2>4. k # 1 => k - 1 \in 1..Len(m) /\ r[k] = m[k - 1]
    BY <1>3, <1>4, <2>1, <2>2 DEF m
  <2> QED BY <1>3, <2>1, <2>3, <2>4 DEF m
<1>5. op' = [op EXCEPT ![s] = n]
  BY <1>2
<1> HIDE DEF o, r
<1>6. n.pc = "trim" /\ n.ring = r /\ n.pre = o.pre /\ n.cap = o.cap /\ n.verb = o.verb
      /\ n.data = o.data /\ n.path = o.path
  BY <1>0 DEF Op
<1>7. Traced(n, was)
  BY <1>0, <1>3, <1>4, <1>6 DEF Traced
<1> QED BY <1>1, <1>5, <1>7, OneRecordProvenance

\* The ring that is written is the one that was traced, cut to its newest entries.
LEMMA WriteMetaProvenance ==
    ASSUME TypeOK, Provenance, Grows(was, was'), NEW s \in Servers, WriteMeta(s)
    PROVE  Provenance'
<1> DEFINE o == op[s]
<1>0. /\ o \in Op /\ Traced(o, was) /\ o.pc = "meta" /\ o.cap \in Paths
      /\ o.ring \in Seq(Entry)
  BY TypeOKOps DEF OpsOK, Provenance, OpsTraced, WriteMeta, Sound, Op
<1>1. was' = was /\ content' = content /\ meta' = [meta EXCEPT ![o.cap] = Kept(o.ring)]
  BY DEF WriteMeta
<1>2. \A k \in 1..Len(Kept(o.ring)) : Kept(o.ring)[k].sha \in was[o.cap]
  <2> DEFINE r == o.ring
  <2>1. \A k \in 1..Len(r) : r[k].sha \in was[o.cap]
    BY <1>0 DEF Traced
  <2>2. r \in Seq(Entry)
    BY <1>0
  <2> HIDE DEF r
  <2>3. Len(Kept(r)) \in Nat /\ Len(Kept(r)) <= Len(r)
        /\ \A k \in 1..Len(Kept(r)) : Kept(r)[k] = r[k]
    BY <2>2, RingAssumption DEF Kept
  <2> QED BY <2>1, <2>2, <2>3 DEF r
<1>3. RingGenuine'
  BY <1>0, <1>1, <1>2 DEF RingGenuine, Provenance, TypeOK
<1>4. ContentHad'
  BY <1>1 DEF ContentHad, Provenance
<1> DEFINE c == IF o.verb # "rename" THEN "install"
                ELSE IF o.cap = o.path THEN "target" ELSE "move"
           e == <<>>
           n == [o EXCEPT !.ring = e, !.saved = TRUE, !.pc = c]
<1>5. ASSUME NEW x \in Servers
      PROVE  op'[x] \in {n, op[x], [op[x] EXCEPT !.followed = TRUE]}
  BY <1>5 DEF WriteMeta
<1>6. Traced(n, was)
  <2>1. c \in {"install", "target", "move"} /\ (c # "install" => o.verb = "rename")
    OBVIOUS
  <2> HIDE DEF c, o, e
  <2>2. n.pc = c /\ n.verb = o.verb /\ n.data = o.data /\ n.path = o.path
    BY <1>0 DEF Op
  <2> QED BY <1>0, <2>1, <2>2 DEF Traced
<1>7. OpsTraced'
  <2>1. ASSUME NEW x \in Servers PROVE Traced(op'[x], was')
    <3>1. op[x] \in Op /\ Traced(op[x], was)
      BY <2>1, TypeOKOps DEF OpsOK, Provenance, OpsTraced
    <3> QED BY <3>1, <1>1, <1>5, <1>6, MarkTraced
  <2> QED BY <2>1 DEF OpsTraced
<1> QED BY <1>3, <1>4, <1>7 DEF Provenance

LEMMA InstallProvenance ==
    ASSUME TypeOK, Provenance, Grows(was, was'), NEW s \in Servers, Install(s)
    PROVE  Provenance'
<1>1. op[s].path \in Paths /\ op[s].data \in Content
  BY TypeOKOps DEF OpsOK, Install, Sound, Op
<1>2. ContentHad'
  BY <1>1 DEF ContentHad, Install, Provenance, TypeOK
<1>3. RingGenuine'
  BY DEF RingGenuine, Install, Provenance, Grows
<1>4. OpsTraced'
  BY RaceOthersTraced DEF Install, Provenance
<1> QED BY <1>2, <1>3, <1>4 DEF Provenance

LEMMA MoveProvenance ==
    ASSUME TypeOK, Provenance, Grows(was, was'), NEW s \in Servers, Move(s)
    PROVE  Provenance'
<1>1. op[s].path \in Paths /\ op[s].to \in Paths
  BY TypeOKOps DEF OpsOK, Move, Sound
<1>2. ContentHad'
  BY <1>1 DEF ContentHad, Move, Provenance, TypeOK
<1>3. RingGenuine'
  BY DEF RingGenuine, Move, Provenance, Grows
<1>4. OpsTraced'
  BY RaceOthersTraced DEF Move, Provenance
<1> QED BY <1>2, <1>3, <1>4 DEF Provenance

LEMMA OutsideProvenance ==
    ASSUME TypeOK, Provenance, Grows(was, was'), NEW p \in Paths,
           NEW c \in Content \cup {Absent}, Outside(p, c)
    PROVE  Provenance'
<1>1. ContentHad'
  BY DEF ContentHad, Outside, Provenance, TypeOK
<1>2. RingGenuine'
  BY DEF RingGenuine, Outside, Provenance, Grows
<1>3. ASSUME NEW x \in Servers PROVE Traced(op'[x], was')
  <2>1. op[x] \in Op /\ Traced(op[x], was')
    BY <1>3, TypeOKOps, TracedGrows DEF OpsOK, OpsTraced, Provenance
  <2>2. op'[x] \in {op[x], [op[x] EXCEPT !.raced = TRUE]}
    BY <1>3 DEF Outside
  <2> QED BY <2>1, <2>2, MarkTraced
<1> QED BY <1>1, <1>2, <1>3 DEF Provenance, OpsTraced

LEMMA PowerLossProvenance ==
    ASSUME TypeOK, Provenance, Grows(was, was'), NEW lost, PowerLoss(lost)
    PROVE  Provenance'
<1>1. UNCHANGED <<content, meta>> /\ OpsTraced'
  BY IdleOpTraced DEF PowerLoss, OpsTraced
<1> QED BY <1>1, QuietProvenance

LEMMA NextProvenance == TypeOK /\ Provenance /\ [Next]_vars => Provenance'
<1> SUFFICES ASSUME TypeOK, Provenance, [Next]_vars PROVE Provenance'
  OBVIOUS
<1>0. Grows(was, was')
  BY WasGrows
<1>1. CASE UNCHANGED vars
  BY <1>1 DEF vars, Provenance, ContentHad, RingGenuine, OpsTraced
<1>2. ASSUME NEW s \in Servers, Handle(s) PROVE Provenance'
  BY <1>0, <1>2, LoadBaseProvenance, ReadCurrentProvenance, CheckProvenance,
     WriteSnapshotProvenance, RemoveStaleProvenance, WriteMetaProvenance,
     InstallProvenance, CheckTargetProvenance, MoveProvenance DEF Handle
<1>3. ASSUME NEW s \in Servers, Abandon(s) PROVE Provenance'
  BY <1>0, <1>3, AbandonProvenance DEF Abandon, disk, history
<1> QED BY <1>0, <1>1, <1>2, <1>3, BeginsProvenance, OutsideProvenance, PowerLossProvenance
     DEF Next

\* The invariant the two results below rest on: where every content, ring entry
\* and preimage in flight comes from.
THEOREM ProvenanceHolds == Spec => [](TypeOK /\ Provenance)
<1>1. Init => TypeOK /\ Provenance
  BY InitTypeOK, InitProvenance
<1>2. TypeOK /\ Provenance /\ [Next]_vars => TypeOK' /\ Provenance'
  BY NextTypeOK, NextProvenance
<1> QED BY <1>1, <1>2, PTL DEF Spec

\* No crash, race between servers or outside writer makes the snapshot ring of a
\* path name a content that path never had.
THEOREM RingIsGenuine == Spec => []RingGenuine
<1>1. Provenance => RingGenuine
  BY DEF Provenance
<1> QED BY <1>1, ProvenanceHolds, PTL

-----------------------------------------------------------------------------
(* What a restore puts back. *)

\* Marking requests as raced ends none of them.
LEMMA RaceOthersKeeps ==
    ASSUME OpsOK, NEW s \in Servers, NEW x \in Servers, x # s, NEW ps, RaceOthers(x, ps)
    PROVE  op'[s].pc = op[s].pc
<1>1. op[s] \in Op
  BY DEF OpsOK
<1>2. op'[s] \in {op[s], [op[s] EXCEPT !.raced = TRUE]}
  BY DEF RaceOthers
<1> QED BY <1>1, <1>2 DEF Op

\* The working tree changes at the end of a request only by that request's own
\* install or move.
LEMMA ChangedByOwnStep ==
    ASSUME TypeOK, [Next]_vars, NEW s \in Servers, Changes(s)
    PROVE  Install(s) \/ Move(s)
<1> USE TypeOKOps
<1>1. ASSUME NEW x \in Servers, Install(x), x # s PROVE FALSE
  BY <1>1, RaceOthersKeeps DEF Install, Changes
<1>2. ASSUME NEW x \in Servers, Move(x), x # s PROVE FALSE
  BY <1>2, RaceOthersKeeps DEF Move, Changes
<1>3. ASSUME NEW x \in Servers,
             \/ LoadBase(x) \/ ReadCurrent(x) \/ Check(x) \/ WriteSnapshot(x)
             \/ RemoveStale(x) \/ WriteMeta(x) \/ CheckTarget(x) \/ Abandon(x)
      PROVE  content' = content
  BY <1>3 DEF LoadBase, ReadCurrent, Check, WriteSnapshot, RemoveStale, WriteMeta,
     CheckTarget, Abandon, disk
<1>4. ASSUME NEW p \in Paths, NEW c \in Content \cup {Absent}, Outside(p, c) PROVE FALSE
  <2>1. op'[s] \in {op[s], [op[s] EXCEPT !.raced = TRUE]} /\ op[s] \in Op
    BY <1>4 DEF Outside, OpsOK
  <2>2. op'[s].pc = op[s].pc
    BY <2>1 DEF Op
  <2> QED BY <2>2 DEF Changes
<1>5. ASSUME NEW lost, PowerLoss(lost) PROVE content' = content
  BY <1>5 DEF PowerLoss
<1>6. ASSUME NEW x \in Servers, NEW p \in Paths,
             \/ \E t \in Tokens, e \in Guards(p) : BeginWrite(x, p, t, e)
             \/ \E t \in Tokens, e \in Guards(p) : BeginEdit(x, p, t, e)
             \/ \E t \in Tokens, force \in BOOLEAN : BeginRewrite(x, p, t, force)
             \/ \E v \in 1..RingSize, e \in Guards(p), force \in BOOLEAN :
                  BeginRestore(x, p, v, e, force)
             \/ \E q \in Paths, overwrite \in BOOLEAN : BeginRename(x, p, q, overwrite)
      PROVE  content' = content
  BY <1>6 DEF BeginWrite, BeginEdit, BeginRewrite, BeginRestore, BeginRename, Begin, disk
<1>7. content' # content
  BY DEF Changes
<1>8. Next
  BY <1>7 DEF vars
<1> QED BY <1>1, <1>2, <1>3, <1>4, <1>5, <1>6, <1>7, <1>8 DEF Next, Handle

LEMMA RestoreStep ==
    ASSUME TypeOK, Provenance, [Next]_vars, NEW s \in Servers, Changes(s),
           op[s].verb = "restore"
    PROVE  content'[op[s].path] \in was[op[s].path]
<1>1. op[s].path \in Paths /\ op[s].pc # "idle" /\ Traced(op[s], was)
  BY TypeOKOps DEF OpsOK, Sound, Changes, Provenance, OpsTraced
<1>2. Install(s)
  BY <1>1, ChangedByOwnStep DEF Move, Traced
<1>3. content'[op[s].path] = op[s].data
  BY <1>1, <1>2 DEF Install, TypeOK
<1> QED BY <1>1, <1>3 DEF Traced

\* A restore never puts into a file bytes that file did not once hold, whatever
\* was torn, removed or written behind its back.
THEOREM RestoreIsGenuine == Spec => RestoreGenuine
<1>1. TypeOK /\ Provenance /\ [Next]_vars
      => [\A s \in Servers :
            (Changes(s) /\ op[s].verb = "restore")
               => content'[op[s].path] \in was[op[s].path]]_vars
  BY RestoreStep
<1> QED BY <1>1, ProvenanceHolds, PTL DEF Spec, RestoreGenuine

-----------------------------------------------------------------------------
(* What a ring can still give back, and what a request knows of its captures. *)

Named(ring) == \A j, k \in 1..Len(ring) : ring[j].file = ring[k].file => j = k

Usable(ring, files) ==
    \A k \in 1..Len(ring) : k < RingSize => files[ring[k].file] \in {ring[k].sha, Torn}

\* A capture in flight has read the ring, and has put its preimage in front of it.
Prepended(o, ring, files) ==
    /\ Len(o.ring) = Len(ring) + 1
    /\ \A k \in 1..Len(ring) : o.ring[k + 1] = ring[k]
    /\ o.ring[1].sha = o.pre
    /\ files[o.ring[1].file] \in {o.pre, Torn}
    /\ \A k \in 1..Len(ring) : o.ring[1].file # ring[k].file

Alone(s, p) == \A x \in Servers : Capturing(x, p) => x = s

\* Unless a path was captured twice at once, one capture of it is in flight at most, and the
\* metadata that one has read is still there.
RingHolds(p) ==
    p \notin clash =>
      /\ Named(meta[p]) /\ Usable(meta[p], snaps[p])
      /\ \A s \in Servers :
           Capturing(s, p) => Prepended(op[s], meta[p], snaps[p]) /\ Alone(s, p)

RingInv == \A p \in Paths : Len(meta[p]) <= RingSize /\ RingHolds(p)

CapturePcs == {"snapshot", "trim", "meta"}

\* What each verb captures, and in which order.
Shaped(o) ==
    /\ o.pc \in {"load", "current", "check"} => ~o.saved /\ o.verb # "rename"
    /\ o.pc = "install" => o.verb # "rename"
    /\ o.pc \in {"target", "move"} => o.verb = "rename"
    /\ o.pc \in CapturePcs /\ o.verb # "rename" => o.cap = o.path
    /\ o.pc \in CapturePcs /\ o.verb = "rename" =>
         o.cap = o.to \/ (o.cap = o.path /\ o.pre = o.seen)
    /\ o.pc # "idle" /\ o.verb = "rename" => o.path # o.to
    /\ o.pc = "target" => o.cap = o.path
    /\ o.pc = "move" => o.cap \in {None, o.to}

\* A request has captured its path, which then held Seen; a rename, its target as well.
HasPath(o) == \/ o.pc = "install" /\ o.saved
              \/ o.pc \in {"target", "move"}
              \/ o.pc \in CapturePcs /\ o.verb = "rename" /\ o.cap = o.to
Seen(o) == IF o.verb = "rename" THEN o.seen ELSE o.pre
HasTarget(o) == o.pc = "move" /\ o.cap = o.to

Top(ring, c) == Len(ring) > 0 /\ ring[1].sha = c

\* Until somebody else captures a path, what the request captured of it is version 1 ...
Recorded(o, rings, clashes) ==
    ~o.followed =>
      /\ HasPath(o) /\ o.path \notin clashes => Top(rings[o.path], Seen(o))
      /\ HasTarget(o) /\ o.to \notin clashes => Top(rings[o.to], o.pre)

\* ... and until somebody else writes it, the path holds what the request has read.
Undisturbed(o, files) ==
    ~o.raced =>
      /\ o.pc \in CapturePcs => files[o.cap] = o.pre
      /\ HasPath(o) => files[o.path] = Seen(o)
      /\ HasTarget(o) => files[o.to] = o.pre
      /\ o.pc = "move" /\ o.cap # o.to => files[o.to] = Absent
      /\ o.pc = "install" /\ ~o.saved /\ o.verb # "rewrite" => files[o.path] = Absent

Knows(o, files, rings, clashes) ==
    Shaped(o) /\ Recorded(o, rings, clashes) /\ Undisturbed(o, files)

OpsKnow == \A s \in Servers : Knows(op[s], content, meta, clash)

CaptureInv == RingInv /\ OpsKnow /\ UndoSurvives

LEMMA IdleKnows == ASSUME NEW c, NEW m, NEW cl PROVE Knows(IdleOp, c, m, cl)
  BY DEF IdleOp, Knows, Shaped, Recorded, Undisturbed, HasPath, HasTarget, CapturePcs

LEMMA InitCaptureInv == Init => CaptureInv
<1> SUFFICES ASSUME Init PROVE CaptureInv
  OBVIOUS
<1>1. ASSUME NEW p \in Paths PROVE meta[p] = <<>> /\ Len(meta[p]) = 0 /\ undo[p] = Absent
  BY <1>1 DEF Init
<1>2. ASSUME NEW p \in Paths, NEW s \in Servers PROVE ~Capturing(s, p)
  BY <1>2 DEF Init, Capturing, IdleOp
<1>3. RingInv
  BY <1>1, <1>2, RingAssumption DEF RingInv, RingHolds, Named, Usable
<1>4. OpsKnow
  BY IdleKnows DEF Init, OpsKnow
<1>5. UndoSurvives
  BY <1>1 DEF UndoSurvives
<1> QED BY <1>3, <1>4, <1>5 DEF CaptureInv

-----------------------------------------------------------------------------
(* Steps as the requests they do not belong to see them. *)

\* A request is at most marked as raced or followed.
Marked(o, n) ==
    /\ n.pc = o.pc /\ n.verb = o.verb /\ n.path = o.path /\ n.to = o.to /\ n.cap = o.cap
    /\ n.pre = o.pre /\ n.seen = o.seen /\ n.ring = o.ring /\ n.saved = o.saved
    /\ (o.raced => n.raced) /\ (o.followed => n.followed)

LEMMA MarksMark ==
    ASSUME NEW o \in Op
    PROVE  Marked(o, o) /\ Marked(o, [o EXCEPT !.raced = TRUE])
           /\ Marked(o, [o EXCEPT !.followed = TRUE])
  BY DEF Op, Marked

\* A marked request knows what it knew, if the paths it is about are as they were or the mark
\* says that they are not.
LEMMA MarkedKnows ==
    ASSUME NEW o, NEW n, Sound(o), Marked(o, n), NEW c, NEW d, NEW m, NEW l, NEW cl, NEW dl,
           Knows(o, c, m, cl), cl \subseteq dl,
           n.raced \/ \A q \in Paths : q \in {o.path, o.to} => d[q] = c[q],
           n.followed \/ \A q \in Paths : q \in {o.path, o.to} => l[q] = m[q]
    PROVE  Knows(n, d, l, dl)
<1>1. Shaped(n)
  BY DEF Knows, Marked, Shaped
<1>2. HasPath(n) = HasPath(o) /\ Seen(n) = Seen(o) /\ HasTarget(n) = HasTarget(o)
  BY DEF Marked, HasPath, Seen, HasTarget
<1>3. /\ o.pc # "idle" => o.path \in Paths
      /\ o.pc \in CapturePcs => o.cap \in {o.path, o.to} \intersect Paths
      /\ o.pc \in {"target", "move"} => o.to \in Paths
      /\ HasPath(o) => o.path \in Paths
      /\ HasTarget(o) => o.to \in Paths
  BY DEF Sound, Knows, Shaped, CapturePcs, HasPath, HasTarget
<1>4. Recorded(n, l, dl)
  BY <1>2, <1>3 DEF Knows, Recorded, Marked
<1>5. Undisturbed(n, d)
  BY <1>2, <1>3 DEF Knows, Undisturbed, Marked
<1> QED BY <1>1, <1>4, <1>5 DEF Knows

\* A step that begins no capture and leaves the snapshot directories alone.
LEMMA CalmRing ==
    ASSUME RingInv, UNCHANGED <<meta, snaps, clash>>,
           \A x \in Servers : op'[x].pc \in {"trim", "meta"} => Marked(op[x], op'[x])
    PROVE  RingInv'
<1>1. ASSUME NEW p \in Paths, NEW x \in Servers, Capturing(x, p)'
      PROVE  Capturing(x, p) /\ op'[x].ring = op[x].ring /\ op'[x].pre = op[x].pre
  BY <1>1 DEF Capturing, Marked
<1>2. ASSUME NEW p \in Paths PROVE RingHolds(p)'
  BY <1>1, <1>2 DEF RingInv, RingHolds, Alone, Prepended
<1> QED BY <1>2 DEF RingInv

\* One request takes a step that touches nothing shared.
LEMMA QuietCaptureInv ==
    ASSUME TypeOK, CaptureInv, UNCHANGED <<disk, history>>, NEW s \in Servers, NEW n,
           op' = [op EXCEPT ![s] = n], n.pc \notin {"trim", "meta"},
           Knows(n, content, meta, clash)
    PROVE  CaptureInv'
<1>0. UNCHANGED <<content, meta, snaps, clash, undo, age>>
  BY DEF disk, history
<1>1. op'[s] = n /\ \A x \in Servers : x # s => op'[x] = op[x]
  BY DEF TypeOK
<1>2. RingInv'
  BY <1>0, <1>1, CalmRing, MarksMark DEF CaptureInv, TypeOK
<1>3. OpsKnow'
  BY <1>0, <1>1 DEF CaptureInv, OpsKnow
<1>4. UndoSurvives'
  BY <1>0 DEF CaptureInv, UndoSurvives
<1> QED BY <1>2, <1>3, <1>4 DEF CaptureInv

-----------------------------------------------------------------------------
(* The steps of a request that touch nothing shared. *)

\* Before its guarded read a request has captured nothing and relies on nothing.
LEMMA EarlyKnows ==
    ASSUME NEW o, o.pc \in {"load", "current", "check"}, ~o.saved, o.verb # "rename",
           NEW c, NEW m, NEW cl
    PROVE  Knows(o, c, m, cl)
  BY DEF Knows, Shaped, Recorded, Undisturbed, HasPath, HasTarget, CapturePcs

LEMMA BeginsCaptureInv ==
    ASSUME TypeOK, CaptureInv, NEW s \in Servers, NEW p \in Paths,
           \/ \E t \in Tokens, e \in Guards(p) : BeginWrite(s, p, t, e)
           \/ \E t \in Tokens, e \in Guards(p) : BeginEdit(s, p, t, e)
           \/ \E t \in Tokens, force \in BOOLEAN : BeginRewrite(s, p, t, force)
           \/ \E v \in 1..RingSize, e \in Guards(p), force \in BOOLEAN :
                BeginRestore(s, p, v, e, force)
           \/ \E q \in Paths, overwrite \in BOOLEAN : BeginRename(s, p, q, overwrite)
    PROVE  CaptureInv'
<1>0. ASSUME NEW o, Begin(s, o), o.pc \notin {"trim", "meta"}, Knows(o, content, meta, clash)
      PROVE  CaptureInv'
  BY <1>0, QuietCaptureInv DEF Begin
<1>1. ASSUME NEW t \in Tokens, NEW e \in Guards(p), BeginWrite(s, p, t, e) PROVE CaptureInv'
  <2> DEFINE o == [IdleOp EXCEPT !.pc = "check", !.verb = "write", !.path = p, !.tok = t,
                                 !.sha = e, !.data = {t}]
  <2>1. o.pc = "check" /\ o.verb = "write" /\ ~o.saved
    BY DEF IdleOp
  <2>2. Begin(s, o)
    BY <1>1 DEF BeginWrite
  <2> HIDE DEF o
  <2> QED BY <2>1, <2>2, <1>0, EarlyKnows
<1>2. ASSUME NEW t \in Tokens, NEW e \in Guards(p), BeginEdit(s, p, t, e) PROVE CaptureInv'
  <2> DEFINE o == [IdleOp EXCEPT !.pc = "check", !.verb = "edit", !.path = p, !.tok = t,
                                 !.sha = e, !.data = content[p] \cup {t}]
  <2>1. o.pc = "check" /\ o.verb = "edit" /\ ~o.saved
    BY DEF IdleOp
  <2>2. Begin(s, o)
    BY <1>2 DEF BeginEdit
  <2> HIDE DEF o
  <2> QED BY <2>1, <2>2, <1>0, EarlyKnows
<1>3. ASSUME NEW t \in Tokens, NEW force \in BOOLEAN, BeginRewrite(s, p, t, force)
      PROVE  CaptureInv'
  <2> DEFINE o == [IdleOp EXCEPT !.pc = "load", !.verb = "rewrite", !.path = p, !.tok = t,
                                 !.sha = IF force THEN None ELSE content[p]]
  <2>1. o.pc = "load" /\ o.verb = "rewrite" /\ ~o.saved
    BY DEF IdleOp
  <2>2. Begin(s, o)
    BY <1>3 DEF BeginRewrite
  <2> HIDE DEF o
  <2> QED BY <2>1, <2>2, <1>0, EarlyKnows
<1>4. ASSUME NEW v \in 1..RingSize, NEW e \in Guards(p), NEW force \in BOOLEAN,
             BeginRestore(s, p, v, e, force)
      PROVE  CaptureInv'
  <2> DEFINE c == IF e = None /\ ~force THEN "current" ELSE "check"
             o == [IdleOp EXCEPT !.pc = c, !.verb = "restore", !.path = p, !.sha = e,
                                 !.data = Loaded(p, v)]
  <2>1. o.pc \in {"current", "check"} /\ o.verb = "restore" /\ ~o.saved
    BY DEF IdleOp
  <2>2. Begin(s, o)
    BY <1>4 DEF BeginRestore
  <2> HIDE DEF o
  <2> QED BY <2>1, <2>2, <1>0, EarlyKnows
<1>5. ASSUME NEW q \in Paths, NEW overwrite \in BOOLEAN, BeginRename(s, p, q, overwrite)
      PROVE  CaptureInv'
  <2> DEFINE o == [IdleOp EXCEPT !.pc = "snapshot", !.verb = "rename", !.path = p, !.to = q,
                                 !.overwrite = overwrite, !.pre = content[p],
                                 !.seen = content[p], !.cap = p]
  <2>1. /\ o.pc = "snapshot" /\ o.verb = "rename" /\ o.path = p /\ o.to = q /\ o.cap = p
        /\ o.pre = content[p] /\ o.seen = content[p]
    BY DEF IdleOp
  <2>2. Begin(s, o) /\ p # q
    BY <1>5 DEF BeginRename
  <2> HIDE DEF o
  <2>3. Knows(o, content, meta, clash)
    BY <2>1, <2>2 DEF Knows, Shaped, Recorded, Undisturbed, HasPath, HasTarget, CapturePcs
  <2> QED BY <2>1, <2>2, <2>3, <1>0
<1> QED BY <1>1, <1>2, <1>3, <1>4, <1>5

LEMMA EndCaptureInv ==
    ASSUME TypeOK, CaptureInv, UNCHANGED <<disk, history>>, NEW s \in Servers,
           op' = [op EXCEPT ![s] = IdleOp]
    PROVE  CaptureInv'
<1>1. IdleOp.pc \notin {"trim", "meta"}
  BY DEF IdleOp
<1> QED BY <1>1, QuietCaptureInv, IdleKnows

LEMMA LoadBaseCaptureInv ==
    ASSUME TypeOK, CaptureInv, NEW s \in Servers, LoadBase(s) PROVE CaptureInv'
<1> DEFINE o == op[s]
           d == Loaded(o.path, 1) \cup {o.tok}
           n == [o EXCEPT !.pc = "check", !.data = d]
<1>0. o \in Op /\ Shaped(o) /\ o.pc = "load"
  BY TypeOKOps DEF OpsOK, CaptureInv, OpsKnow, Knows, LoadBase
<1>1. UNCHANGED <<disk, history>>
  BY DEF LoadBase
<1>2. op' = [op EXCEPT ![s] = n] \/ op' = [op EXCEPT ![s] = IdleOp]
  BY DEF LoadBase
<1> HIDE DEF o, d
<1>3. n.pc = "check" /\ ~n.saved /\ n.verb # "rename"
  BY <1>0 DEF Shaped, Op
<1> HIDE DEF n
<1> QED BY <1>1, <1>2, <1>3, EarlyKnows, QuietCaptureInv, EndCaptureInv

LEMMA ReadCurrentCaptureInv ==
    ASSUME TypeOK, CaptureInv, NEW s \in Servers, ReadCurrent(s) PROVE CaptureInv'
<1> DEFINE o == op[s]
           d == content[o.path]
           n == [o EXCEPT !.pc = "check", !.sha = d]
<1>0. o \in Op /\ Shaped(o) /\ o.pc = "current"
  BY TypeOKOps DEF OpsOK, CaptureInv, OpsKnow, Knows, ReadCurrent
<1>1. UNCHANGED <<disk, history>>
  BY DEF ReadCurrent
<1>2. op' = [op EXCEPT ![s] = n] \/ op' = [op EXCEPT ![s] = IdleOp]
  BY DEF ReadCurrent
<1> HIDE DEF o, d
<1>3. n.pc = "check" /\ ~n.saved /\ n.verb # "rename"
  BY <1>0 DEF Shaped, Op
<1> HIDE DEF n
<1> QED BY <1>1, <1>2, <1>3, EarlyKnows, QuietCaptureInv, EndCaptureInv

LEMMA CheckCaptureInv ==
    ASSUME TypeOK, CaptureInv, NEW s \in Servers, Check(s) PROVE CaptureInv'
<1> DEFINE o == op[s]
           now == content[o.path]
           c == IF NeedsSnapshot(o, now) THEN "snapshot" ELSE "install"
           d == Digest(now)
           q == o.path
           n == [o EXCEPT !.pc = c, !.pre = d, !.cap = q, !.raced = FALSE, !.followed = FALSE]
<1>0. o \in Op /\ Shaped(o) /\ o.pc = "check"
  BY TypeOKOps DEF OpsOK, CaptureInv, OpsKnow, Knows, Check
<1>1. UNCHANGED <<disk, history>>
  BY DEF Check
<1>2. op' = [op EXCEPT ![s] = n] \/ op' = [op EXCEPT ![s] = IdleOp]
  BY DEF Check
<1>3. \/ c = "snapshot" /\ d = content[q]
      \/ c = "install" /\ (content[q] = Absent \/ o.verb = "rewrite")
  BY DEF NeedsSnapshot, Digest
<1>4. q = o.path
  OBVIOUS
<1> HIDE DEF o, c, d, q
<1>5. /\ n.pc = c /\ n.pre = d /\ n.cap = q /\ n.path = q /\ ~n.raced /\ ~n.followed
      /\ ~n.saved /\ n.verb = o.verb /\ o.verb # "rename"
  BY <1>0, <1>4 DEF Shaped, Op
<1> HIDE DEF n
<1>6. Knows(n, content, meta, clash)
  BY <1>3, <1>5 DEF Knows, Shaped, Recorded, Undisturbed, HasPath, HasTarget, CapturePcs
<1> QED BY <1>1, <1>2, <1>3, <1>5, <1>6, QuietCaptureInv, EndCaptureInv

LEMMA CheckTargetCaptureInv ==
    ASSUME TypeOK, CaptureInv, NEW s \in Servers, CheckTarget(s) PROVE CaptureInv'
<1> DEFINE o == op[s]
           q == o.to
           now == content[q]
           n1 == [o EXCEPT !.pc = "move", !.cap = None]
           n2 == [o EXCEPT !.pc = "snapshot", !.pre = now, !.cap = q]
<1>0. o \in Op /\ Sound(o) /\ Knows(o, content, meta, clash) /\ o.pc = "target"
  BY TypeOKOps DEF OpsOK, CaptureInv, OpsKnow, CheckTarget
<1>1. UNCHANGED <<disk, history>>
  BY DEF CheckTarget
<1>2. \/ op' = [op EXCEPT ![s] = IdleOp]
      \/ now = Absent /\ op' = [op EXCEPT ![s] = n1]
      \/ op' = [op EXCEPT ![s] = n2]
  BY DEF CheckTarget
<1>3. q = o.to /\ now = content[q]
  OBVIOUS
<1> HIDE DEF o, q, now
<1>4. q \in Paths /\ None \notin Paths /\ HasPath(o) /\ o.verb = "rename" /\ o.path # q
  BY <1>0, <1>3, SentinelAssumption DEF Sound, HasPath, Knows, Shaped
<1>5. /\ n1.pc = "move" /\ n1.cap = None /\ n1.path = o.path /\ n1.to = q /\ n1.verb = "rename"
      /\ n1.seen = o.seen /\ n1.raced = o.raced /\ n1.followed = o.followed
  BY <1>0, <1>3, <1>4 DEF Op
<1>6. /\ n2.pc = "snapshot" /\ n2.cap = q /\ n2.path = o.path /\ n2.to = q /\ n2.verb = "rename"
      /\ n2.seen = o.seen /\ n2.pre = now /\ n2.raced = o.raced /\ n2.followed = o.followed
  BY <1>0, <1>3, <1>4 DEF Op
<1> HIDE DEF n1, n2
<1>7. ASSUME now = Absent PROVE Knows(n1, content, meta, clash)
  <2>1. Shaped(n1)
    BY <1>4, <1>5 DEF Shaped, CapturePcs
  <2>2. HasPath(n1) /\ ~HasTarget(n1) /\ Seen(n1) = Seen(o)
    BY <1>4, <1>5 DEF HasPath, HasTarget, Seen
  <2> QED BY <2>1, <2>2, <1>0, <1>3, <1>4, <1>5, <1>7 DEF Knows, Recorded, Undisturbed, CapturePcs
<1>8. Knows(n2, content, meta, clash)
  <2>1. Shaped(n2)
    BY <1>4, <1>6 DEF Shaped, CapturePcs
  <2>2. HasPath(n2) /\ ~HasTarget(n2) /\ Seen(n2) = Seen(o)
    BY <1>4, <1>6 DEF HasPath, HasTarget, Seen, CapturePcs
  <2> QED BY <2>1, <2>2, <1>0, <1>3, <1>4, <1>6 DEF Knows, Recorded, Undisturbed, CapturePcs
<1> QED BY <1>1, <1>2, <1>5, <1>6, <1>7, <1>8, QuietCaptureInv, EndCaptureInv

-----------------------------------------------------------------------------
(* The three effects of a capture. *)

LEMMA PrependIs ==
    ASSUME NEW m \in Seq(Entry), NEW e \in Entry
    PROVE  /\ Len(<<e>> \o m) = Len(m) + 1
           /\ (<<e>> \o m)[1] = e
           /\ \A k \in 1..Len(m) : (<<e>> \o m)[k + 1] = m[k]
  OBVIOUS

LEMMA WriteSnapshotCaptureInv ==
    ASSUME TypeOK, CaptureInv, NEW s \in Servers, WriteSnapshot(s) PROVE CaptureInv'
<1> DEFINE o == op[s]
<1>p. PICK p \in Paths : p = o.cap
  BY TypeOKOps DEF OpsOK, WriteSnapshot, Sound
<1>0. o \in Op /\ Sound(o) /\ Knows(o, content, meta, clash) /\ o.pc = "snapshot"
      /\ p \in Paths /\ o.pre \in Content
  BY TypeOKOps DEF OpsOK, CaptureInv, OpsKnow, WriteSnapshot, Op
<1>1. PICK i \in FreshIds(p) :
        /\ snaps' = [snaps EXCEPT ![p][i] = o.pre]
        /\ op' = [op EXCEPT ![s] = [o EXCEPT !.pc = "trim",
                    !.ring = <<[file |-> i, sha |-> o.pre]>> \o meta[p]]]
  BY <1>p DEF WriteSnapshot, PreimageOf
<1> DEFINE e == [file |-> i, sha |-> o.pre]
           m == meta[p]
           r == <<e>> \o m
           n == [o EXCEPT !.pc = "trim", !.ring = r]
<1>2. /\ clash' = IF \E x \in Servers : Capturing(x, p) THEN clash \cup {p} ELSE clash
      /\ UNCHANGED <<content, meta, was, undo, age>>
  BY <1>p DEF WriteSnapshot
<1>3. i \in SnapIds /\ \A k \in 1..Len(m) : m[k].file # i
  BY DEF FreshIds, NamedIn
<1>4. m \in Seq(Entry) /\ e \in Entry /\ e.file = i /\ e.sha = o.pre
  BY <1>0, <1>3 DEF TypeOK, Entry
<1>5. Len(r) = Len(m) + 1 /\ r[1] = e /\ \A k \in 1..Len(m) : r[k + 1] = m[k]
  BY <1>4, PrependIs
<1>6. op' = [op EXCEPT ![s] = n] /\ m = meta[p] /\ p = o.cap
  BY <1>1, <1>p
<1> HIDE DEF e, m, r
<1>7. /\ n.pc = "trim" /\ n.ring = r /\ n.cap = p /\ n.pre = o.pre /\ n.verb = o.verb
      /\ n.path = o.path /\ n.to = o.to /\ n.seen = o.seen /\ n.saved = o.saved
      /\ n.raced = o.raced /\ n.followed = o.followed
  BY <1>0, <1>6 DEF Op
<1> HIDE DEF o, n
<1>8. op'[s] = n /\ \A x \in Servers : x # s => op'[x] = op[x]
  BY <1>6 DEF TypeOK
<1>9. /\ snaps'[p][i] = o.pre /\ \A j \in SnapIds : j # i => snaps'[p][j] = snaps[p][j]
      /\ \A q \in Paths : q # p => snaps'[q] = snaps[q]
  BY <1>0, <1>1, <1>3 DEF TypeOK
<1>10. clash \subseteq clash'
  BY <1>2
<1>11. RingInv'
  <2>1. ASSUME NEW q \in Paths, q # p PROVE RingHolds(q)'
    <3>1. \A x \in Servers : Capturing(x, q)' => x # s /\ Capturing(x, q) /\ op'[x] = op[x]
      BY <1>7, <1>8, <2>1 DEF Capturing
    <3>2. snaps'[q] = snaps[q] /\ meta'[q] = meta[q] /\ RingHolds(q)
      BY <1>2, <1>9, <2>1 DEF CaptureInv, RingInv
    <3> QED BY <1>10, <3>1, <3>2 DEF RingHolds, Alone
  <2>2. ASSUME p \notin clash' PROVE RingHolds(p)'
    <3>1. p \notin clash /\ \A x \in Servers : ~Capturing(x, p)
      BY <1>2, <2>2
    <3>2. \A x \in Servers : Capturing(x, p)' => x = s
      BY <1>8, <3>1 DEF Capturing
    <3>3. Named(m) /\ Usable(m, snaps[p])
      BY <1>0, <1>6, <3>1 DEF CaptureInv, RingInv, RingHolds
    <3>4. Usable(m, snaps'[p])
      <4>1. ASSUME NEW k \in 1..Len(m) PROVE m[k].file \in SnapIds /\ m[k].file # i
        <5>1. m[k] \in Entry
          BY <1>4
        <5> QED BY <5>1, <1>3 DEF Entry
      <4> QED BY <3>3, <4>1, <1>9 DEF Usable
    <3>5. Prepended(n, m, snaps'[p])
      BY <1>3, <1>4, <1>5, <1>7, <1>9 DEF Prepended
    <3> QED BY <1>2, <1>6, <1>8, <3>2, <3>3, <3>4, <3>5 DEF RingHolds, Alone
  <2>3. RingHolds(p)'
    BY <2>2 DEF RingHolds
  <2> QED BY <1>2, <2>1, <2>3 DEF CaptureInv, RingInv
<1>12. OpsKnow'
  <2>1. ASSUME NEW x \in Servers, x # s PROVE Knows(op'[x], content', meta', clash')
    <3>1. Knows(op[x], content, meta, clash) /\ op[x] \in Op /\ Sound(op[x])
      BY <2>1, TypeOKOps DEF CaptureInv, OpsKnow, OpsOK
    <3> QED BY <1>2, <1>8, <1>10, <2>1, <3>1, MarkedKnows, MarksMark
  <2>2. Knows(n, content', meta', clash')
    <3>1. Shaped(n)
      BY <1>0, <1>6, <1>7 DEF Knows, Shaped, CapturePcs
    <3>2. HasPath(n) = HasPath(o) /\ Seen(n) = Seen(o) /\ ~HasTarget(n) /\ n.pc \in CapturePcs
          /\ o.pc \in CapturePcs
      BY <1>0, <1>7, <1>6 DEF HasPath, Seen, HasTarget, CapturePcs
    <3> QED BY <3>1, <3>2, <1>0, <1>2, <1>6, <1>7, <1>10 DEF Knows, Recorded, Undisturbed
  <2> QED BY <1>8, <2>1, <2>2 DEF OpsKnow
<1>13. UndoSurvives'
  BY <1>2, <1>10 DEF CaptureInv, UndoSurvives
<1> QED BY <1>11, <1>12, <1>13 DEF CaptureInv

\* The files that fall off a ring are those of its places past RingSize.
LEMMA StaleIs ==
    ASSUME NEW ring \in Seq(Entry), NEW f
    PROVE  f \in Stale(ring) <=> \E k \in (RingSize + 1)..Len(ring) : ring[k].file = f
  BY DEF Stale

LEMMA RemoveStaleCaptureInv ==
    ASSUME TypeOK, CaptureInv, NEW s \in Servers, RemoveStale(s) PROVE CaptureInv'
<1> DEFINE o == op[s]
           n == [o EXCEPT !.pc = "meta"]
<1>3. PICK p \in Paths : p = o.cap
  BY TypeOKOps DEF OpsOK, RemoveStale, Sound
<1>0. o \in Op /\ Sound(o) /\ Knows(o, content, meta, clash) /\ o.pc = "trim"
      /\ p \in Paths /\ Capturing(s, p) /\ o.ring \in Seq(Entry) /\ meta[p] \in Seq(Entry)
  BY <1>3, TypeOKOps DEF OpsOK, CaptureInv, OpsKnow, RemoveStale, Sound, Op, Capturing, TypeOK
<1>1. op' = [op EXCEPT ![s] = n]
  BY DEF RemoveStale, TypeOK
<1>2. /\ UNCHANGED <<content, meta, clash, undo, age>>
      /\ snaps' = [snaps EXCEPT ![p] =
                     [i \in SnapIds |-> IF i \in Stale(o.ring) THEN NoFile ELSE snaps[p][i]]]
  BY <1>3 DEF RemoveStale, history
<1> HIDE DEF o
<1>4. /\ n.pc = "meta" /\ n.ring = o.ring /\ n.cap = p /\ n.pre = o.pre /\ n.verb = o.verb
      /\ n.path = o.path /\ n.to = o.to /\ n.seen = o.seen /\ n.saved = o.saved
      /\ n.raced = o.raced /\ n.followed = o.followed
  BY <1>0, <1>3 DEF Op
<1> HIDE DEF n
<1>5. op'[s] = n /\ \A x \in Servers : x # s => op'[x] = op[x]
  BY <1>1 DEF TypeOK
<1>6. /\ \A i \in SnapIds : i \notin Stale(o.ring) => snaps'[p][i] = snaps[p][i]
      /\ \A q \in Paths : q # p => snaps'[q] = snaps[q]
  BY <1>0, <1>2 DEF TypeOK
<1>7. RingInv'
  <2>1. ASSUME NEW q \in Paths, NEW x \in Servers, Capturing(x, q)'
        PROVE  Capturing(x, q) /\ op'[x].ring = op[x].ring /\ op'[x].pre = op[x].pre
    BY <1>0, <1>4, <1>5, <1>3, <2>1 DEF Capturing, o
  <2>2. ASSUME NEW q \in Paths, q # p PROVE RingHolds(q)'
    <3>1. snaps'[q] = snaps[q] /\ meta'[q] = meta[q] /\ RingHolds(q) /\ clash' = clash
      BY <1>2, <1>6, <2>2 DEF CaptureInv, RingInv
    <3> QED BY <2>1, <3>1 DEF RingHolds, Alone, Prepended
  <2>3. ASSUME p \notin clash PROVE RingHolds(p)'
    <3> DEFINE m == meta[p]
    <3>1. Named(m) /\ Usable(m, snaps[p]) /\ Prepended(o, m, snaps[p]) /\ Alone(s, p)
      BY <1>0, <2>3 DEF CaptureInv, RingInv, RingHolds, o
    <3>2. ASSUME NEW f, f \in Stale(o.ring)
          PROVE  f # o.ring[1].file /\ \E k \in RingSize..Len(m) : m[k].file = f
      <4>1. PICK j \in (RingSize + 1)..Len(o.ring) : o.ring[j].file = f
        BY <1>0, <3>2, StaleIs
      <4>2. j - 1 \in RingSize..Len(m) /\ j - 1 \in 1..Len(m) /\ o.ring[(j - 1) + 1] = m[j - 1]
        BY <4>1, <3>1, RingAssumption, <1>0 DEF Prepended
      <4>3. m[j - 1].file = f
        BY <4>1, <4>2, RingAssumption
      <4> QED BY <4>2, <4>3, <3>1 DEF Prepended
    <3>3. Usable(m, snaps'[p])
      <4> SUFFICES ASSUME NEW k \in 1..Len(m), k < RingSize
                   PROVE  snaps'[p][m[k].file] \in {m[k].sha, Torn}
        BY DEF Usable
      <4>1. m[k].file \in SnapIds
        <5>1. m[k] \in Entry
          BY <1>0
        <5> QED BY <5>1 DEF Entry
      <4>2. m[k].file \notin Stale(o.ring)
        <5> SUFFICES ASSUME m[k].file \in Stale(o.ring) PROVE FALSE
          OBVIOUS
        <5>1. PICK j \in RingSize..Len(m) : m[j].file = m[k].file
          BY <3>2
        <5>2. j \in 1..Len(m)
          BY RingAssumption, <1>0
        <5> QED BY <5>1, <5>2, <3>1, RingAssumption DEF Named
      <4> QED BY <4>1, <4>2, <3>1, <1>6 DEF Usable
    <3>4. Prepended(o, m, snaps'[p])
      <4>1. o.ring[1] \in Entry /\ o.ring[1].file \notin Stale(o.ring)
        BY <1>0, <3>1, <3>2 DEF Prepended
      <4>2. o.ring[1].file \in SnapIds
        BY <4>1 DEF Entry
      <4> QED BY <4>1, <4>2, <3>1, <1>6 DEF Prepended
    <3>5. Prepended(n, m, snaps'[p])
      BY <3>4, <1>4 DEF Prepended
    <3>6. \A x \in Servers : Capturing(x, p)' => x = s
      BY <2>1, <3>1 DEF Alone
    <3> QED BY <1>0, <1>2, <1>5, <3>1, <3>3, <3>5, <3>6 DEF RingHolds, Alone
  <2>4. RingHolds(p)'
    BY <2>3, <1>2 DEF RingHolds
  <2> QED BY <1>2, <2>2, <2>4 DEF CaptureInv, RingInv
<1>8. OpsKnow'
  <2>1. ASSUME NEW x \in Servers, x # s PROVE Knows(op'[x], content', meta', clash')
    BY <1>2, <1>5, <2>1 DEF CaptureInv, OpsKnow
  <2>2. Knows(n, content', meta', clash')
    <3>1. Shaped(n)
      BY <1>0, <1>3, <1>4 DEF Knows, Shaped, CapturePcs
    <3>2. HasPath(n) = HasPath(o) /\ Seen(n) = Seen(o) /\ ~HasTarget(n) /\ n.pc \in CapturePcs
          /\ o.pc \in CapturePcs
      BY <1>0, <1>3, <1>4 DEF HasPath, Seen, HasTarget, CapturePcs
    <3> QED BY <3>1, <3>2, <1>0, <1>2, <1>3, <1>4 DEF Knows, Recorded, Undisturbed
  <2> QED BY <1>5, <2>1, <2>2 DEF OpsKnow
<1>9. UndoSurvives'
  BY <1>2 DEF CaptureInv, UndoSurvives
<1> QED BY <1>7, <1>8, <1>9 DEF CaptureInv

\* A capture keeps the newest RingSize entries.
LEMMA KeptIs ==
    ASSUME NEW ring \in Seq(Entry)
    PROVE  /\ Len(Kept(ring)) = IF Len(ring) < RingSize THEN Len(ring) ELSE RingSize
           /\ \A k \in 1..Len(Kept(ring)) : Kept(ring)[k] = ring[k]
  BY RingAssumption DEF Kept

LEMMA WriteMetaCaptureInv ==
    ASSUME TypeOK, CaptureInv, NEW s \in Servers, WriteMeta(s) PROVE CaptureInv'
<1> DEFINE o == op[s]
           c == IF o.verb # "rename" THEN "install" ELSE IF o.cap = o.path THEN "target" ELSE "move"
           n == [o EXCEPT !.ring = <<>>, !.saved = TRUE, !.pc = c]
<1>p. PICK p \in Paths : p = o.cap
  BY TypeOKOps DEF OpsOK, WriteMeta, Sound
<1>0. o \in Op /\ Sound(o) /\ Knows(o, content, meta, clash) /\ o.pc = "meta" /\ Capturing(s, p)
      /\ o.ring \in Seq(Entry) /\ meta[p] \in Seq(Entry) /\ age[p] \in 0..RingSize
  BY <1>p, TypeOKOps DEF OpsOK, CaptureInv, OpsKnow, WriteMeta, Op, Capturing, TypeOK
<1> DEFINE m == Kept(o.ring)
<1>1. /\ UNCHANGED <<content, snaps, undo, clash>>
      /\ meta' = [meta EXCEPT ![p] = m]
      /\ age' = [age EXCEPT ![p] = IF age[p] < RingSize THEN age[p] + 1 ELSE RingSize]
      /\ op' = [x \in Servers |->
                  IF x = s THEN n
                  ELSE IF p \in {op[x].path, op[x].to}
                       THEN [op[x] EXCEPT !.followed = TRUE] ELSE op[x]]
  BY <1>p DEF WriteMeta
<1>2. /\ meta'[p] = m /\ \A q \in Paths : q # p => meta'[q] = meta[q]
      /\ age'[p] = IF age[p] < RingSize THEN age[p] + 1 ELSE RingSize
      /\ \A q \in Paths : q # p => age'[q] = age[q]
      /\ op'[s] = n
  BY <1>1 DEF TypeOK
<1>3. /\ Len(m) = IF Len(o.ring) < RingSize THEN Len(o.ring) ELSE RingSize
      /\ \A k \in 1..Len(m) : m[k] = o.ring[k]
      /\ m \in Seq(Entry)
  BY <1>0, KeptIs, KeptType
<1>4. c = IF o.verb # "rename" THEN "install" ELSE IF p = o.path THEN "target" ELSE "move"
  BY <1>p
<1>5. ASSUME NEW x \in Servers, x # s
      PROVE  /\ Marked(op[x], op'[x]) /\ op[x] \in Op /\ Sound(op[x])
             /\ p \in {op[x].path, op[x].to} => op'[x].followed
  <2>1. op[x] \in Op /\ Sound(op[x])
    BY TypeOKOps, <1>5 DEF OpsOK
  <2>2. op'[x] = IF p \in {op[x].path, op[x].to}
                 THEN [op[x] EXCEPT !.followed = TRUE] ELSE op[x]
    BY <1>1, <1>5
  <2>3. [op[x] EXCEPT !.followed = TRUE].followed
    BY <2>1 DEF Op
  <2> QED BY <2>1, <2>2, <2>3, MarksMark
<1> HIDE DEF o, c, m
<1>6. /\ n.pc = c /\ n.cap = p /\ n.pre = o.pre /\ n.verb = o.verb /\ n.saved
      /\ n.path = o.path /\ n.to = o.to /\ n.seen = o.seen
      /\ n.raced = o.raced /\ n.followed = o.followed
  BY <1>0, <1>p DEF Op
<1> HIDE DEF n
<1>7. ASSUME p \notin clash
      PROVE  /\ Named(meta[p]) /\ Usable(meta[p], snaps[p]) /\ Prepended(o, meta[p], snaps[p])
             /\ \A x \in Servers : Capturing(x, p) => x = s
  BY <1>0, <1>7 DEF CaptureInv, RingInv, RingHolds, Alone, o
<1>8. ASSUME p \notin clash
      PROVE  /\ Len(m) >= 1 /\ m[1].sha = o.pre /\ snaps[p][m[1].file] \in {o.pre, Torn}
             /\ \A k \in 1..Len(meta[p]) : m[1].file # meta[p][k].file
             /\ \A k \in 1..Len(m) : k # 1 => k - 1 \in 1..Len(meta[p]) /\ m[k] = meta[p][k - 1]
  <2>1. Len(o.ring) = Len(meta[p]) + 1 /\ Len(meta[p]) \in Nat
    BY <1>0, <1>7, <1>8 DEF Prepended
  <2>2. Len(m) >= 1 /\ 1 \in 1..Len(m)
    BY <2>1, <1>3, RingAssumption
  <2>3. ASSUME NEW k \in 1..Len(m), k # 1
        PROVE  k - 1 \in 1..Len(meta[p]) /\ m[k] = meta[p][k - 1]
    <3>1. k - 1 \in 1..Len(meta[p]) /\ (k - 1) + 1 = k
      BY <2>1, <2>3, <1>3, RingAssumption
    <3> QED BY <3>1, <1>3, <1>7, <1>8 DEF Prepended
  <2> QED BY <2>2, <2>3, <1>3, <1>7, <1>8 DEF Prepended
<1>9. RingInv'
  <2>1. ASSUME NEW q \in Paths, NEW x \in Servers, Capturing(x, q)'
        PROVE  x # s /\ Capturing(x, q) /\ op'[x].ring = op[x].ring /\ op'[x].pre = op[x].pre
    <3>1. x # s
      BY <1>2, <1>4, <1>6, <2>1 DEF Capturing
    <3> QED BY <3>1, <1>5, <2>1 DEF Capturing, Marked
  <2>2. ASSUME NEW q \in Paths, q # p PROVE RingHolds(q)' /\ Len(meta'[q]) <= RingSize
    <3>1. meta'[q] = meta[q] /\ RingHolds(q) /\ clash' = clash /\ snaps' = snaps
      BY <1>1, <1>2, <2>2 DEF CaptureInv, RingInv
    <3> QED BY <2>1, <2>2, <3>1 DEF RingHolds, Alone, Prepended, CaptureInv, RingInv
  <2>3. ASSUME p \notin clash PROVE RingHolds(p)'
    <3>1. \A x \in Servers : ~Capturing(x, p)'
      BY <2>1, <2>3, <1>7
    <3>2. Named(m)
      <4> SUFFICES ASSUME NEW j \in 1..Len(m), NEW k \in 1..Len(m), m[j].file = m[k].file
                   PROVE  j = k
        BY DEF Named
      <4>1. CASE j = 1 \/ k = 1
        BY <4>1, <1>8, <2>3
      <4>2. CASE j # 1 /\ k # 1
        <5>1. j - 1 = k - 1
          BY <4>2, <1>7, <1>8, <2>3 DEF Named
        <5> QED BY <5>1
      <4> QED BY <4>1, <4>2
    <3>3. Usable(m, snaps[p])
      <4> SUFFICES ASSUME NEW k \in 1..Len(m)
                   PROVE  k < RingSize => snaps[p][m[k].file] \in {m[k].sha, Torn}
        BY DEF Usable
      <4>1. CASE k = 1
        BY <4>1, <1>8, <2>3
      <4>2. CASE k # 1
        <5>1. k < RingSize => k - 1 < RingSize
          BY RingAssumption
        <5> QED BY <4>2, <5>1, <1>7, <1>8, <2>3 DEF Usable
      <4> QED BY <4>1, <4>2
    <3> QED BY <1>1, <1>2, <3>1, <3>2, <3>3 DEF RingHolds
  <2>4. RingHolds(p)'
    BY <2>3, <1>1 DEF RingHolds
  <2>5. Len(meta'[p]) <= RingSize
    BY <1>0, <1>2, <1>3, RingAssumption
  <2> QED BY <2>2, <2>4, <2>5 DEF RingInv
<1>10. OpsKnow'
  <2>1. ASSUME NEW x \in Servers, x # s PROVE Knows(op'[x], content', meta', clash')
    <3>1. Knows(op[x], content, meta, clash)
      BY <2>1 DEF CaptureInv, OpsKnow
    <3>2. op'[x].followed \/ \A q \in Paths : q \in {op[x].path, op[x].to} => meta'[q] = meta[q]
      BY <2>1, <1>2, <1>5
    <3>3. (op'[x].raced \/ \A q \in Paths : q \in {op[x].path, op[x].to} => content'[q] = content[q])
          /\ clash \subseteq clash' /\ Marked(op[x], op'[x]) /\ Sound(op[x])
      BY <2>1, <1>1, <1>5
    <3> QED BY <3>1, <3>2, <3>3, MarkedKnows
  <2>2. Knows(n, content', meta', clash')
    <3>0. o.pc \in CapturePcs /\ o.path \in Paths
      BY <1>0 DEF CapturePcs, Sound
    <3>1. CASE o.verb # "rename"
      <4>1. p = o.path /\ n.pc = "install"
        BY <3>0, <3>1, <1>0, <1>p, <1>4, <1>6 DEF Knows, Shaped
      <4>2. Shaped(n) /\ Seen(n) = o.pre /\ ~HasTarget(n)
        BY <3>1, <4>1, <1>6 DEF Shaped, Seen, HasTarget, CapturePcs
      <4>3. Recorded(n, meta', clash')
        BY <3>0, <4>1, <4>2, <1>1, <1>2, <1>6, <1>8 DEF Recorded, Top
      <4>4. content[p] = o.pre \/ o.raced
        BY <3>0, <1>0, <1>p DEF Knows, Undisturbed
      <4>5. Undisturbed(n, content')
        BY <3>0, <4>1, <4>2, <4>4, <1>1, <1>6 DEF Undisturbed, CapturePcs
      <4> QED BY <4>2, <4>3, <4>5 DEF Knows
    <3>2. CASE o.verb = "rename" /\ p = o.path
      <4>1. n.pc = "target" /\ o.pre = o.seen
        BY <3>0, <3>2, <1>0, <1>p, <1>4, <1>6 DEF Knows, Shaped
      <4>2. Shaped(n) /\ Seen(n) = o.pre /\ ~HasTarget(n)
        BY <3>2, <4>1, <1>0, <1>6 DEF Knows, Shaped, Seen, HasTarget, CapturePcs
      <4>3. Recorded(n, meta', clash')
        BY <3>0, <3>2, <4>1, <4>2, <1>1, <1>2, <1>6, <1>8 DEF Recorded, Top
      <4>4. content[p] = o.pre \/ o.raced
        BY <3>0, <1>0, <1>p DEF Knows, Undisturbed
      <4>5. Undisturbed(n, content')
        BY <3>0, <3>2, <4>1, <4>2, <4>4, <1>1, <1>6 DEF Undisturbed, CapturePcs
      <4> QED BY <4>2, <4>3, <4>5 DEF Knows
    <3>3. CASE o.verb = "rename" /\ p # o.path
      <4>1. n.pc = "move" /\ p = o.to /\ HasPath(o) /\ HasPath(n) /\ Seen(n) = Seen(o)
        BY <3>0, <3>3, <1>0, <1>p, <1>4, <1>6 DEF Knows, Shaped, HasPath, Seen
      <4>2. Shaped(n)
        BY <3>3, <4>1, <1>0, <1>6 DEF Knows, Shaped, CapturePcs
      <4>3. Recorded(n, meta', clash')
        BY <3>0, <3>3, <4>1, <1>0, <1>1, <1>2, <1>6, <1>8 DEF Knows, Recorded, Top
      <4>4. Undisturbed(n, content')
        BY <3>0, <3>3, <4>1, <1>0, <1>1, <1>p, <1>6 DEF Knows, Undisturbed, CapturePcs
      <4> QED BY <4>2, <4>3, <4>4 DEF Knows
    <3> QED BY <3>1, <3>2, <3>3
  <2> QED BY <1>2, <2>1, <2>2 DEF OpsKnow
<1>11. UndoSurvives'
  <2>1. ASSUME NEW q \in Paths, q # p, q \notin clash, undo[q] # Absent, age'[q] < RingSize
        PROVE  age'[q] + 1 <= Len(meta'[q]) /\ meta'[q][age'[q] + 1].sha = undo[q]
    BY <2>1, <1>2 DEF CaptureInv, UndoSurvives
  <2>2. ASSUME p \notin clash, undo[p] # Absent, age'[p] < RingSize
        PROVE  age'[p] + 1 <= Len(meta'[p]) /\ meta'[p][age'[p] + 1].sha = undo[p]
    <3>1. age'[p] = age[p] + 1 /\ age[p] < RingSize /\ age[p] \in Nat
      BY <1>0, <1>2, <2>2, RingAssumption
    <3>2. age[p] + 1 <= Len(meta[p]) /\ meta[p][age[p] + 1].sha = undo[p]
      BY <2>2, <3>1 DEF CaptureInv, UndoSurvives
    <3>3. age[p] + 2 \in 1..Len(m) /\ (age[p] + 2) - 1 = age[p] + 1
      <4>1. Len(o.ring) = Len(meta[p]) + 1 /\ Len(meta[p]) \in Nat
        BY <1>0, <1>7, <2>2 DEF Prepended
      <4> QED BY <4>1, <3>1, <3>2, <2>2, <1>3, RingAssumption
    <3>4. m[age[p] + 2].sha = undo[p]
      BY <3>1, <3>2, <3>3, <1>8, <2>2
    <3> QED BY <1>2, <3>1, <3>3, <3>4
  <2> QED BY <1>1, <2>1, <2>2 DEF UndoSurvives
<1> QED BY <1>9, <1>10, <1>11 DEF CaptureInv

-----------------------------------------------------------------------------
(* The steps that change the tree, and a power loss. *)

LEMMA RaceOthersMarks ==
    ASSUME OpsOK, NEW s \in Servers, NEW ps, RaceOthers(s, ps)
    PROVE  /\ op'[s] = IdleOp
           /\ \A x \in Servers : x # s =>
                /\ Marked(op[x], op'[x])
                /\ op[x].path \in ps \/ op[x].to \in ps => op'[x].raced
<1>1. op'[s] = IdleOp
  BY DEF RaceOthers
<1>2. ASSUME NEW x \in Servers, x # s
      PROVE  /\ Marked(op[x], op'[x])
             /\ op[x].path \in ps \/ op[x].to \in ps => op'[x].raced
  <2>1. op[x] \in Op
    BY DEF OpsOK
  <2>2. op'[x] = IF op[x].path \in ps \/ op[x].to \in ps
                 THEN [op[x] EXCEPT !.raced = TRUE] ELSE op[x]
    BY <1>2 DEF RaceOthers
  <2>3. [op[x] EXCEPT !.raced = TRUE].raced
    BY <2>1 DEF Op
  <2> QED BY <2>1, <2>2, <2>3, MarksMark
<1> QED BY <1>1, <1>2

\* A request ends with a change of the paths ps, of which every other request learns.
LEMMA ChangeKnows ==
    ASSUME TypeOK, CaptureInv, NEW s \in Servers, NEW ps, RaceOthers(s, ps),
           UNCHANGED <<snaps, meta, clash>>,
           \A q \in Paths : q \notin ps => content'[q] = content[q]
    PROVE  RingInv' /\ OpsKnow'
<1>1. /\ op'[s] = IdleOp
      /\ \A x \in Servers : x # s =>
           /\ Marked(op[x], op'[x])
           /\ op[x].path \in ps \/ op[x].to \in ps => op'[x].raced
  BY TypeOKOps, RaceOthersMarks
<1>2. RingInv'
  <2>1. IdleOp.pc = "idle"
    BY DEF IdleOp
  <2> QED BY <1>1, <2>1, CalmRing DEF CaptureInv
<1>3. ASSUME NEW x \in Servers PROVE Knows(op'[x], content', meta', clash')
  <2>1. CASE x = s
    BY <1>1, <2>1, IdleKnows
  <2>2. CASE x # s
    <3>1. Marked(op[x], op'[x]) /\ Sound(op[x]) /\ Knows(op[x], content, meta, clash)
      BY <1>1, <2>2, TypeOKOps DEF OpsOK, CaptureInv, OpsKnow
    <3>2. op'[x].raced \/ \A q \in Paths : q \in {op[x].path, op[x].to} => content'[q] = content[q]
      BY <1>1, <2>2
    <3>3. clash \subseteq clash'
          /\ (op'[x].followed \/ \A q \in Paths : q \in {op[x].path, op[x].to} => meta'[q] = meta[q])
      OBVIOUS
    <3> QED BY <3>1, <3>2, <3>3, MarkedKnows
  <2> QED BY <2>1, <2>2
<1> QED BY <1>2, <1>3 DEF OpsKnow

LEMMA InstallCaptureInv ==
    ASSUME TypeOK, CaptureInv, NEW s \in Servers, Install(s) PROVE CaptureInv'
<1> DEFINE o == op[s]
<1>0. o \in Op /\ Sound(o) /\ Knows(o, content, meta, clash) /\ o.pc = "install"
  BY TypeOKOps DEF OpsOK, CaptureInv, OpsKnow, Install
<1>p. PICK p \in Paths : p = o.path
  BY <1>0 DEF Sound
<1>1. /\ content' = [content EXCEPT ![p] = o.data]
      /\ undo' = IF o.saved THEN [undo EXCEPT ![p] = IF Disturbed(o) THEN Absent ELSE o.pre]
                 ELSE undo
      /\ age' = IF o.saved THEN [age EXCEPT ![p] = 0] ELSE age
      /\ RaceOthers(s, {p})
      /\ UNCHANGED <<snaps, meta, clash>>
  BY <1>p DEF Install
<1>2. \A q \in Paths : q \notin {p} => content'[q] = content[q]
  BY <1>1 DEF TypeOK
<1>3. RingInv' /\ OpsKnow'
  BY <1>1, <1>2, ChangeKnows
<1>4. UndoSurvives'
  <2>1. CASE o.saved
    <3>1. /\ undo'[p] = IF Disturbed(o) THEN Absent ELSE o.pre
          /\ age'[p] = 0
          /\ \A q \in Paths : q # p => undo'[q] = undo[q] /\ age'[q] = age[q]
      BY <1>1, <2>1 DEF TypeOK
    <3>2. ~Disturbed(o) /\ p \notin clash => Top(meta[p], o.pre)
      BY <1>0, <1>p, <2>1 DEF Knows, Recorded, Disturbed, HasPath, Seen, Shaped
    <3>3. p \notin clash /\ undo'[p] # Absent
          => 1 <= Len(meta[p]) /\ meta[p][1].sha = undo'[p]
      <4>1. Len(meta[p]) \in Nat
        BY DEF TypeOK
      <4> QED BY <3>1, <3>2, <4>1 DEF Top
    <3> QED BY <1>1, <3>1, <3>3 DEF CaptureInv, UndoSurvives
  <2>2. CASE ~o.saved
    BY <1>1, <2>2 DEF CaptureInv, UndoSurvives
  <2> QED BY <2>1, <2>2
<1> QED BY <1>3, <1>4 DEF CaptureInv

LEMMA MoveCaptureInv ==
    ASSUME TypeOK, CaptureInv, NEW s \in Servers, Move(s) PROVE CaptureInv'
<1> DEFINE o == op[s]
<1>0. o \in Op /\ Sound(o) /\ Knows(o, content, meta, clash) /\ o.pc = "move"
  BY TypeOKOps DEF OpsOK, CaptureInv, OpsKnow, Move
<1>p. PICK p \in Paths : p = o.path
  BY <1>0 DEF Sound
<1>q. PICK q \in Paths : q = o.to
  BY <1>0 DEF Sound
<1>1. /\ content' = [content EXCEPT ![p] = Absent, ![q] = content[p]]
      /\ undo' = [undo EXCEPT ![p] = IF Disturbed(o) THEN Absent ELSE o.seen,
                              ![q] = IF o.cap # q THEN undo[q]
                                     ELSE IF Disturbed(o) THEN Absent ELSE o.pre]
      /\ age' = [age EXCEPT ![p] = 0, ![q] = IF o.cap = q THEN 0 ELSE age[q]]
      /\ RaceOthers(s, {p, q})
      /\ UNCHANGED <<snaps, meta, clash>>
  BY <1>p, <1>q DEF Move
<1>2. p # q /\ o.verb = "rename"
  BY <1>0, <1>p, <1>q DEF Knows, Shaped
<1>3. \A r \in Paths : r \notin {p, q} => content'[r] = content[r]
  BY <1>1 DEF TypeOK
<1>4. RingInv' /\ OpsKnow'
  BY <1>1, <1>3, ChangeKnows
<1>5. /\ undo'[p] = IF Disturbed(o) THEN Absent ELSE o.seen
      /\ undo'[q] = IF o.cap # q THEN undo[q] ELSE IF Disturbed(o) THEN Absent ELSE o.pre
      /\ age'[p] = 0 /\ age'[q] = IF o.cap = q THEN 0 ELSE age[q]
      /\ \A r \in Paths : r \notin {p, q} => undo'[r] = undo[r] /\ age'[r] = age[r]
  BY <1>1, <1>2 DEF TypeOK
<1>6. /\ ~Disturbed(o) /\ p \notin clash => Top(meta[p], o.seen)
      /\ ~Disturbed(o) /\ q \notin clash /\ o.cap = q => Top(meta[q], o.pre)
  BY <1>0, <1>p, <1>q, <1>2 DEF Knows, Recorded, Disturbed, HasPath, HasTarget, Seen
<1>7. UndoSurvives'
  <2>0. Len(meta[p]) \in Nat /\ Len(meta[q]) \in Nat
    BY DEF TypeOK
  <2>1. p \notin clash /\ undo'[p] # Absent => 1 <= Len(meta[p]) /\ meta[p][1].sha = undo'[p]
    BY <1>5, <1>6, <2>0 DEF Top
  <2>2. q \notin clash /\ undo'[q] # Absent /\ age'[q] < RingSize
        => age'[q] + 1 <= Len(meta[q]) /\ meta[q][age'[q] + 1].sha = undo'[q]
    <3>1. CASE o.cap = q
      <4>1. age'[q] + 1 = 1
        BY <1>5, <3>1
      <4> QED BY <4>1, <1>5, <1>6, <2>0, <3>1 DEF Top
    <3>2. CASE o.cap # q
      <4>1. age'[q] = age[q] /\ undo'[q] = undo[q]
        BY <1>5, <3>2
      <4> QED BY <4>1 DEF CaptureInv, UndoSurvives
    <3> QED BY <3>1, <3>2
  <2>3. ASSUME NEW r \in Paths, r \notin {p, q} PROVE undo'[r] = undo[r] /\ age'[r] = age[r]
    BY <1>5, <2>3
  <2>4. meta' = meta /\ clash' = clash
    BY <1>1
  <2>5. SUFFICES ASSUME NEW r \in Paths \ clash, undo'[r] # Absent, age'[r] < RingSize
                 PROVE  age'[r] + 1 <= Len(meta[r]) /\ meta[r][age'[r] + 1].sha = undo'[r]
    BY <2>4 DEF UndoSurvives
  <2>6. CASE r = p
    <3>1. age'[p] + 1 = 1
      BY <1>5
    <3> QED BY <2>1, <2>5, <2>6, <3>1
  <2>7. CASE r = q
    BY <2>2, <2>5, <2>7
  <2>8. CASE r \notin {p, q}
    BY <2>3, <2>5, <2>8 DEF CaptureInv, UndoSurvives
  <2> QED BY <2>6, <2>7, <2>8
<1> QED BY <1>4, <1>7 DEF CaptureInv

LEMMA OutsideCaptureInv ==
    ASSUME TypeOK, CaptureInv, NEW p \in Paths, NEW c \in Content \cup {Absent}, Outside(p, c)
    PROVE  CaptureInv'
<1>1. /\ \A q \in Paths : q # p => content'[q] = content[q]
      /\ UNCHANGED <<snaps, meta, undo, age, clash>>
  BY DEF Outside, TypeOK
<1>2. ASSUME NEW x \in Servers
      PROVE  /\ Marked(op[x], op'[x]) /\ Sound(op[x])
             /\ p \in {op[x].path, op[x].to} => op'[x].raced
  <2>1. op[x] \in Op /\ Sound(op[x])
    BY TypeOKOps DEF OpsOK
  <2>2. op'[x] = IF p \in {op[x].path, op[x].to} THEN [op[x] EXCEPT !.raced = TRUE] ELSE op[x]
    BY DEF Outside
  <2>3. [op[x] EXCEPT !.raced = TRUE].raced
    BY <2>1 DEF Op
  <2> QED BY <2>1, <2>2, <2>3, MarksMark
<1>3. RingInv'
  BY <1>1, <1>2, CalmRing DEF CaptureInv
<1>4. OpsKnow'
  <2>1. ASSUME NEW x \in Servers PROVE Knows(op'[x], content', meta', clash')
    <3>1. Knows(op[x], content, meta, clash)
      BY DEF CaptureInv, OpsKnow
    <3>2. op'[x].raced \/ \A q \in Paths : q \in {op[x].path, op[x].to} => content'[q] = content[q]
      BY <1>1, <1>2
    <3>3. clash \subseteq clash'
          /\ (op'[x].followed \/ \A q \in Paths : q \in {op[x].path, op[x].to} => meta'[q] = meta[q])
      BY <1>1
    <3> QED BY <1>2, <3>1, <3>2, <3>3, MarkedKnows
  <2> QED BY <2>1 DEF OpsKnow
<1>5. UndoSurvives'
  BY <1>1 DEF CaptureInv, UndoSurvives
<1> QED BY <1>3, <1>4, <1>5 DEF CaptureInv

\* Every request ends, and files may be cut short.
LEMMA PowerLossCaptureInv ==
    ASSUME TypeOK, CaptureInv, NEW lost, PowerLoss(lost) PROVE CaptureInv'
<1>1. UNCHANGED <<content, meta, undo, age, clash>>
  BY DEF PowerLoss, history
<1>2. \A x \in Servers : op'[x] = IdleOp
  BY DEF PowerLoss
<1>3. RingInv'
  <2>1. ASSUME NEW p \in Paths, NEW x \in Servers PROVE ~Capturing(x, p)'
    BY <1>2 DEF Capturing, IdleOp
  <2>2. ASSUME NEW p \in Paths, NEW i \in SnapIds PROVE snaps'[p][i] \in {snaps[p][i], Torn}
    BY DEF PowerLoss
  <2>3. ASSUME NEW p \in Paths, Usable(meta[p], snaps[p]) PROVE Usable(meta[p], snaps'[p])
    <3> SUFFICES ASSUME NEW k \in 1..Len(meta[p]), k < RingSize
                 PROVE  snaps'[p][meta[p][k].file] \in {meta[p][k].sha, Torn}
      BY DEF Usable
    <3>1. meta[p][k] \in Entry
      BY DEF TypeOK
    <3>2. meta[p][k].file \in SnapIds
      BY <3>1 DEF Entry
    <3> QED BY <3>2, <2>2, <2>3 DEF Usable
  <2> QED BY <1>1, <2>1, <2>3 DEF CaptureInv, RingInv, RingHolds
<1>4. OpsKnow'
  BY <1>2, IdleKnows DEF OpsKnow
<1>5. UndoSurvives'
  BY <1>1 DEF CaptureInv, UndoSurvives
<1> QED BY <1>3, <1>4, <1>5 DEF CaptureInv

LEMMA NextCaptureInv == TypeOK /\ CaptureInv /\ [Next]_vars => CaptureInv'
<1> SUFFICES ASSUME TypeOK, CaptureInv, [Next]_vars PROVE CaptureInv'
  OBVIOUS
<1>1. CASE UNCHANGED vars
  <2>1. UNCHANGED <<content, meta, snaps, clash, undo, age, op>>
    BY <1>1 DEF vars
  <2>2. RingInv' /\ OpsKnow' /\ UndoSurvives'
    BY <2>1, CalmRing, MarksMark DEF CaptureInv, OpsKnow, UndoSurvives, TypeOK
  <2> QED BY <2>2 DEF CaptureInv
<1>2. ASSUME NEW s \in Servers, Handle(s) PROVE CaptureInv'
  BY <1>2, LoadBaseCaptureInv, ReadCurrentCaptureInv, CheckCaptureInv,
     WriteSnapshotCaptureInv, RemoveStaleCaptureInv, WriteMetaCaptureInv,
     InstallCaptureInv, CheckTargetCaptureInv, MoveCaptureInv DEF Handle
<1>3. ASSUME NEW s \in Servers, Abandon(s) PROVE CaptureInv'
  BY <1>3, EndCaptureInv DEF Abandon
<1> QED BY <1>1, <1>2, <1>3, BeginsCaptureInv, OutsideCaptureInv, PowerLossCaptureInv DEF Next

\* The invariant of captures: what a ring, a capture in flight and a request agree on.
THEOREM CapturesHold == Spec => [](TypeOK /\ CaptureInv)
<1>1. Init => TypeOK /\ CaptureInv
  BY InitTypeOK, InitCaptureInv
<1>2. TypeOK /\ CaptureInv /\ [Next]_vars => TypeOK' /\ CaptureInv'
  BY NextTypeOK, NextCaptureInv
<1> QED BY <1>1, <1>2, PTL DEF Spec

\* Unless two servers captured a path at once, every version of its ring but the oldest of a
\* full one can be loaded, wherever servers and the machine stopped (vault.go, Capture).
THEOREM RingStaysUsable == Spec => []RingUsable
<1>1. CaptureInv => RingUsable
  BY DEF CaptureInv, RingInv, RingHolds, Usable, RingUsable, Loaded
<1> QED BY <1>1, CapturesHold, PTL

\* What the last snapshotted change of a path replaced is in its ring, one place further down
\* for each capture since, those of failed requests included (transaction.go, Commit).
THEOREM UndoAlwaysSurvives == Spec => []UndoSurvives
<1>1. CaptureInv => UndoSurvives
  BY DEF CaptureInv
<1> QED BY <1>1, CapturesHold, PTL

LEMMA ReplacedIsKept ==
    ASSUME TypeOK, CaptureInv, [Next]_vars, NEW s \in Servers, Changes(s),
           op[s].verb # "rewrite", ~Disturbed(op[s]), NEW p \in Replaced(s) \ clash
    PROVE  /\ Len(meta[p]) > 0 /\ meta[p][1].sha = content[p]
           /\ Loaded(p, 1) \in {content[p], Torn}
<1> DEFINE o == op[s]
<1>0. /\ o \in Op /\ Sound(o) /\ Knows(o, content, meta, clash) /\ o.pc # "idle"
      /\ ~o.raced /\ ~o.followed
      /\ p \in Paths /\ p \in {o.path, o.to} /\ content[p] # Absent /\ content'[p] # content[p]
      /\ p \notin clash
  BY TypeOKOps DEF OpsOK, CaptureInv, OpsKnow, Changes, Disturbed, Replaced
<1>1. Top(meta[p], content[p])
  <2>1. CASE Install(s)
    <3>1. o.pc = "install" /\ p = o.path
      BY <1>0, <2>1 DEF Install, TypeOK
    <3> QED BY <1>0, <3>1 DEF Knows, Shaped, Recorded, Undisturbed, HasPath
  <2>2. CASE Move(s)
    <3>1. o.pc = "move" /\ o.verb = "rename"
      BY <1>0, <2>2 DEF Move, Knows, Shaped
    <3>2. HasPath(o) /\ (p = o.to => HasTarget(o))
      BY <1>0, <3>1 DEF HasPath, HasTarget, Knows, Undisturbed
    <3> QED BY <1>0, <3>2 DEF Knows, Recorded, Undisturbed
  <2> QED BY <2>1, <2>2, ChangedByOwnStep
<1>2. 1 \in 1..Len(meta[p]) /\ 1 < RingSize
  BY <1>0, <1>1, RingAssumption DEF Top, TypeOK
<1>3. Usable(meta[p], snaps[p])
  BY <1>0 DEF CaptureInv, RingInv, RingHolds
<1> QED BY <1>1, <1>2, <1>3 DEF Top, Usable, Loaded

\* The content a commit or a rename takes from a path is version 1 of the path's ring at that
\* moment, unless the verb is rewrite or somebody came in between (mutate.go, transaction.go).
THEOREM NothingIsLostSilently == Spec => NothingLostSilently
<1>1. TypeOK /\ CaptureInv /\ [Next]_vars
      => [\A s \in Servers :
            (Changes(s) /\ op[s].verb # "rewrite" /\ ~Disturbed(op[s]))
            => \A p \in Replaced(s) \ clash :
                  Len(meta[p]) > 0 /\ meta[p][1].sha = content[p]
                  /\ (Loaded(p, 1) \in {content[p], Torn})]_vars
  BY ReplacedIsKept
<1> QED BY <1>1, CapturesHold, PTL DEF Spec, NothingLostSilently

=============================================================================
