------------------------ MODULE ShellCapture_proofs ------------------------
(***************************************************************************)
(* What holds of captured commands and their reverts, for any number of    *)
(* runners, captures, paths and writes of others: a published capture owns *)
(* its bytes, what runs is what was approved and stays inside what was     *)
(* captured, and a revert undoes the command and nothing else.             *)
(***************************************************************************)
EXTENDS ShellCapture, TLAPS

-----------------------------------------------------------------------------
(* The invariant *)

Holds(r) == job[r].id # NoCapture

\* The entries of a capture before and after it is sealed.
Agree(f, g) ==
  /\ DOMAIN f = DOMAIN g
  /\ \A p \in DOMAIN f : f[p].before = g[p].before /\ f[p].owned = g[p].owned

Owned(c, entries) ==
  \A p \in DOMAIN entries :
    entries[p].owned => p \in DOMAIN blob[c] /\ blob[c][p] = entries[p].before.data

\* A capture is of one call.
Single == \A r, s \in Runner : Holds(r) /\ job[r].id = job[s].id => r = s

\* What is left to do is of the sort the phase works on.
Fits(r) ==
  /\ job[r].pc = "capture" => job[r].todo \subseteq Path
  /\ job[r].pc = "effect" => job[r].todo \subseteq Path \X Path
  /\ job[r].pc = "seal" => job[r].todo \subseteq DOMAIN job[r].entries

RestoreFits ==
  /\ restore.pc # "idle" => restore.id \in Capture
  /\ restore.todo \subseteq DOMAIN restore.entries
  /\ restore.pc \in {"remove", "write"} => restore.path \in DOMAIN restore.entries

\* A call holds a capture from the first path to the seal, and publishes it in between.
Phase(r) ==
  /\ job[r].pc \in {"idle", "done"} => ~Holds(r)
  /\ job[r].pc = "idle" => DOMAIN job[r].entries = {}
  /\ job[r].pc \in {"capture", "seal"} => Holds(r)
  /\ Holds(r) <=> job[r].lane \in {"glob", "explicit"}
  /\ job[r].pc \notin {"idle", "done"} => job[r].plan \in Plans
  /\ Holds(r) =>
       /\ Owned(job[r].id, job[r].entries)
       /\ job[r].pc = "capture" => record[job[r].id] = Unwritten
       /\ job[r].pc # "capture" =>
            /\ record[job[r].id].written /\ ~record[job[r].id].sealed
            /\ Agree(record[job[r].id].entries, job[r].entries)

\* The surface of a call: what is captured of it, what is left of it, and the work on it.
Surface(r) ==
  Holds(r) =>
    /\ DOMAIN job[r].groups = DOMAIN job[r].plan.operands
    /\ job[r].lane = "explicit" =>
         /\ ~HasGlob(job[r].plan)
         /\ \A i \in DOMAIN job[r].groups : job[r].groups[i] = job[r].plan.operands[i].names
    /\ job[r].pc = "capture" =>
         /\ Flat(job[r].groups) = job[r].todo \union DOMAIN job[r].entries
    /\ job[r].pc \in {"run", "effect"} => Flat(job[r].groups) = DOMAIN job[r].entries
    /\ job[r].pc = "effect" => \A item \in job[r].todo :
         /\ item \in (DOMAIN job[r].entries) \X (DOMAIN job[r].entries)
         /\ job[r].plan.verb # "mv" => item[1] = item[2]
         /\ job[r].plan.verb = "mv" => item[2] \in job[r].groups[2]

Confirmed(r) == job[r].lane = "unprotected" => <<job[r].plan, Flat(job[r].groups)>> \in printed

Published(c) == record[c].written => Owned(c, record[c].entries)

CallInv ==
  /\ Single
  /\ \A r \in Runner : Fits(r) /\ Phase(r) /\ Surface(r) /\ Confirmed(r)
  /\ \A c \in Capture : Published(c)
  /\ RestoreFits

\* What the capture of a call knows of the tree, but for the paths others wrote meanwhile.
Knows(r) ==
  LET c == job[r].id
      entries == job[r].entries
      past == history[c]
      known == DOMAIN entries \ past.mixed
  IN Holds(r) =>
       /\ \A p \in DOMAIN entries : entries[p].before.kind # "dir"
       /\ job[r].pc \in {"capture", "run", "effect"} =>
            past.left = NoData /\ \A p \in known : tree[p] # Dir
       /\ job[r].pc \in {"capture", "run"} => \A p \in known : tree[p] = entries[p].before
       /\ job[r].pc \in {"effect", "seal"} =>
            past.held \in Tree /\ \A p \in known : past.held[p] = entries[p].before
       /\ job[r].pc = "seal" =>
            /\ past.left \in Tree
            /\ past.quiet => tree = past.left
            /\ \A p \in known : past.left[p] # Dir
            /\ \A p \in known \intersect job[r].todo : tree[p] = past.left[p]
            /\ \A p \in known \ job[r].todo : entries[p].after = Look(past.left[p])

\* What a sealed capture of a command that has run says of it.
Tells(c) ==
  LET entries == record[c].entries
      past == history[c]
  IN past.left # NoData =>
       /\ record[c].written
       /\ record[c].sealed =>
            /\ past.held \in Tree /\ past.left \in Tree
            /\ \A p \in DOMAIN entries : entries[p].before.kind # "dir"
            /\ \A p \in DOMAIN entries \ past.mixed :
                 /\ entries[p].before = past.held[p]
                 /\ entries[p].after = Look(past.left[p])
                 /\ past.left[p] # Dir

\* The restore has the record as it is, and what it saw at its path is still there.
Seen ==
  LET p == restore.path
  IN /\ restore.sealed =>
          /\ restore.pc # "idle"
          /\ record[restore.id] = [written |-> TRUE, sealed |-> TRUE, entries |-> restore.entries]
          /\ restore.raced => ~history[restore.id].quiet
     /\ restore.pc = "remove" /\ ~restore.raced =>
          /\ Look(tree[p]) # Absent
          /\ ~restore.force => Look(tree[p]) = restore.entries[p].after
     /\ restore.pc = "write" /\ ~restore.raced => tree[p] \in {Absent, Dir}

\* The restore of c is at p.
At(c, p) == restore.sealed /\ restore.id = c /\ restore.path = p

\* As long as only the command and the restores of its capture have written, the tree is what
\* the one left or the other put back.
Between(c) ==
  LET entries == record[c].entries
      past == history[c]
  IN record[c].sealed /\ past.left # NoData /\ past.mixed = {} /\ past.quiet =>
       /\ \A p \in Path \ DOMAIN entries : tree[p] = past.left[p]
       /\ \A p \in DOMAIN entries :
            /\ tree[p] \in {past.left[p], entries[p].before, Absent}
            /\ past.torn \/ (restore.pc = "write" /\ At(c, p))
               \/ tree[p] \in {past.left[p], entries[p].before}
            /\ /\ restore.sealed /\ restore.id = c /\ (restore.force \/ ~past.torn)
               /\ p \notin restore.todo
               /\ ~(restore.pc \in {"remove", "write"} /\ restore.path = p)
               => tree[p] = entries[p].before

RevertInv ==
  /\ \A r \in Runner : Knows(r)
  /\ \A c \in Capture : Tells(c) /\ Between(c)
  /\ Seen

-----------------------------------------------------------------------------
(* States, entries and the functions that hold them. *)

Kinds == {"absent", "file", "link", "dir"}

LEMMA StateCases ==
    ASSUME NEW s \in State
    PROVE  /\ s \in [kind : Kinds, data : Bytes \union Path \union {NoData}]
           /\ s.kind \in Kinds
           /\ s.kind = "absent" <=> s = Absent
           /\ s.kind = "dir" <=> s = Dir
           /\ s.kind = "file" => s.data \in Bytes
           /\ s.kind = "link" => s.data \in Path
  BY DEF State, Absent, Dir, File, Link, Kinds

LEMMA StateMembers ==
    /\ Absent \in State /\ Dir \in State /\ Absent # Dir
    /\ Absent.kind = "absent" /\ Dir.kind = "dir"
    /\ \A bytes \in Bytes : File(bytes) \in State /\ File(bytes) # Dir /\ File(bytes) # Absent
  BY DEF State, Absent, Dir, File, Link

LEMMA LookCases ==
    ASSUME NEW s \in State
    PROVE  /\ Look(s) \in State /\ Look(s) # Dir
           /\ s # Dir => Look(s) = s
           /\ s = Dir => Look(s) = Absent
  BY StateCases, StateMembers DEF Look

LEMMA EmptyFunction ==
    ASSUME NEW X
    PROVE  <<>> \in [{} -> X] /\ DOMAIN <<>> = {}
  OBVIOUS

LEMMA PutFacts ==
    ASSUME NEW X, NEW D, NEW f \in [D -> X], NEW p, NEW e \in X
    PROVE  /\ Put(f, p, e) \in [D \union {p} -> X]
           /\ DOMAIN Put(f, p, e) = D \union {p}
           /\ Put(f, p, e)[p] = e
           /\ \A q \in D : q # p => Put(f, p, e)[q] = f[q]
  BY DEF Put

LEMMA EntryFacts ==
    ASSUME NEW D, NEW f \in [D -> Entry], NEW p \in D
    PROVE  /\ f[p] \in Entry
           /\ f[p].before \in State /\ f[p].after \in State /\ f[p].owned \in BOOLEAN
<1>1. f[p] \in Entry
  OBVIOUS
<1> QED BY <1>1 DEF Entry

LEMMA PushedFacts ==
    ASSUME RingSize \in Nat \ {0}, NEW versions \in Seq(Bytes), NEW bytes \in Bytes,
           Len(versions) <= RingSize
    PROVE  Pushed(versions, bytes) \in Seq(Bytes) /\ Len(Pushed(versions, bytes)) <= RingSize
<1> DEFINE all == <<bytes>> \o versions
           n == Smaller(RingSize, Len(versions) + 1)
<1>1. all \in Seq(Bytes) /\ Len(all) = Len(versions) + 1
  OBVIOUS
<1>2. n \in Nat /\ n <= RingSize /\ n <= Len(all) /\ 1 <= n
  BY <1>1 DEF Smaller
<1> HIDE DEF all, n
<1>3. SubSeq(all, 1, n) \in Seq(Bytes) /\ Len(SubSeq(all, 1, n)) = n
  BY <1>1, <1>2
<1>4. Pushed(versions, bytes) = SubSeq(all, 1, n)
  BY DEF Pushed, all, n
<1> QED BY <1>2, <1>3, <1>4

-----------------------------------------------------------------------------
(* Plans and surfaces. *)

LEMMA PlanFacts ==
    ASSUME NEW plan \in Plan
    PROVE  /\ plan.verb \in Verb /\ plan.operands \in Seq(Operand)
           /\ DOMAIN plan.operands = 1..Len(plan.operands) /\ Len(plan.operands) \in Nat
           /\ \A i \in DOMAIN plan.operands :
                plan.operands[i] \in Operand /\ plan.operands[i].names \subseteq Path
<1>1. plan.verb \in Verb /\ plan.operands \in Seq(Operand)
  BY DEF Plan
<1>2. ASSUME NEW i \in DOMAIN plan.operands PROVE plan.operands[i] \in Operand
  BY <1>1
<1>3. \A i \in DOMAIN plan.operands : plan.operands[i].names \subseteq Path
  BY <1>2 DEF Operand
<1> QED BY <1>1, <1>2, <1>3

\* A sequence given by its items.
LEMMA SeqByItems ==
    ASSUME NEW X, NEW n \in Nat, NEW f \in [1..n -> X]
    PROVE  f \in Seq(X) /\ Len(f) = n
  OBVIOUS

LEMMA ExpandFacts ==
    ASSUME NEW t, NEW plan \in Plan
    PROVE  /\ Expand(t, plan) \in Seq(SUBSET Path)
           /\ DOMAIN Expand(t, plan) = DOMAIN plan.operands
           /\ \A i \in DOMAIN plan.operands : Expand(t, plan)[i] = Matches(t, plan.operands[i])
<1>1. \A i \in DOMAIN plan.operands : Matches(t, plan.operands[i]) \in SUBSET Path
  BY PlanFacts DEF Matches
<1>2. Expand(t, plan) \in [1..Len(plan.operands) -> SUBSET Path]
  BY <1>1, PlanFacts DEF Expand
<1>3. Expand(t, plan) \in Seq(SUBSET Path)
  BY <1>2, PlanFacts, SeqByItems
<1> QED BY <1>3 DEF Expand

LEMMA FlatFacts ==
    ASSUME NEW groups \in Seq(SUBSET Path)
    PROVE  /\ Flat(groups) \subseteq Path
           /\ \A i \in DOMAIN groups : groups[i] \subseteq Flat(groups)
           /\ Len(groups) = 2 => 1 \in DOMAIN groups /\ 2 \in DOMAIN groups
<1>1. \A i \in DOMAIN groups : groups[i] \in SUBSET Path
  OBVIOUS
<1>2. DOMAIN groups = 1..Len(groups)
  OBVIOUS
<1> QED BY <1>1, <1>2 DEF Flat

\* The pinned command is one, and stands for exactly what was captured.
LEMMA PinFacts ==
    ASSUME NEW plan \in Plan, NEW groups \in Seq(SUBSET Path), NEW t
    PROVE  /\ Pin(plan, groups) \in Plan
           /\ Pin(plan, groups).verb = plan.verb /\ Pin(plan, groups).flags = plan.flags
           /\ Expand(t, Pin(plan, groups)) = groups
<1> DEFINE operands == [i \in DOMAIN groups |-> [glob |-> FALSE, names |-> groups[i], live |-> FALSE]]
<1>1. \A i \in DOMAIN groups : groups[i] \in SUBSET Path
  OBVIOUS
<1>2. DOMAIN groups = 1..Len(groups) /\ Len(groups) \in Nat
  OBVIOUS
<1>3. operands \in [1..Len(groups) -> Operand]
  BY <1>1, <1>2 DEF Operand
<1>4. operands \in Seq(Operand)
  BY <1>2, <1>3, SeqByItems
<1>5. /\ Pin(plan, groups) \in Plan /\ Pin(plan, groups).operands = operands
      /\ Pin(plan, groups).verb = plan.verb /\ Pin(plan, groups).flags = plan.flags
  BY <1>4 DEF Pin, Plan
<1>6. \A i \in DOMAIN groups : Matches(t, operands[i]) = groups[i]
  BY DEF Matches
<1>7. DOMAIN operands = DOMAIN groups
  OBVIOUS
<1> HIDE DEF operands
<1>8. Expand(t, Pin(plan, groups)) = [i \in DOMAIN groups |-> groups[i]]
  BY <1>5, <1>6, <1>7 DEF Expand
<1> QED BY <1>5, <1>8

\* Without a pattern the operands stand for themselves.
LEMMA ExplicitExpand ==
    ASSUME NEW plan \in Plan, NEW groups \in Seq(SUBSET Path), NEW t, ~HasGlob(plan),
           DOMAIN groups = DOMAIN plan.operands,
           \A i \in DOMAIN groups : groups[i] = plan.operands[i].names
    PROVE  Expand(t, plan) = groups
<1>1. \A i \in DOMAIN plan.operands : Matches(t, plan.operands[i]) = groups[i]
  BY DEF Matches, HasGlob
<1>2. Expand(t, plan) = [i \in DOMAIN groups |-> groups[i]]
  BY <1>1 DEF Expand
<1> QED BY <1>2

-----------------------------------------------------------------------------
(* What a command does to the tree. *)

LEMMA WorkFacts ==
    ASSUME NEW t, NEW plan \in Plan, NEW groups \in Seq(SUBSET Path),
           NEW item \in Work(t, plan, groups)
    PROVE  /\ item \in Flat(groups) \X Flat(groups)
           /\ plan.verb # "mv" => item[1] = item[2]
           /\ plan.verb = "mv" => item[2] \in groups[2]
  BY FlatFacts DEF Work

LEMMA InnerFacts == \A p \in Path : Inner[p] \in Path
  BY TreeAssumption

LEMMA SedFacts == \A bytes \in Bytes : Sed[bytes] \in Bytes
  BY TreeAssumption

LEMMA TreeUpdate ==
    ASSUME NEW t \in Tree, NEW p \in Path, NEW s \in State
    PROVE  /\ [t EXCEPT ![p] = s] \in Tree
           /\ [t EXCEPT ![p] = s][p] = s
           /\ \A q \in Path \ {p} : [t EXCEPT ![p] = s][q] = t[q]
  BY DEF Tree

\* A command makes no directory, and changes the paths of its operands or what is in a
\* directory that one of them is or leads to.
LEMMA RemoveFacts ==
    ASSUME NEW t \in Tree, NEW p \in Path, NEW recursive \in BOOLEAN
    PROVE  /\ Remove(t, p, recursive) \in Tree
           /\ \A q \in Path : Remove(t, p, recursive)[q] \in {t[q], Absent}
           /\ \A q \in Path : \/ q = p
                              \/ recursive /\ t[p] = Dir /\ q = Inner[p]
                              \/ Remove(t, p, recursive)[q] = t[q]
<1>1. t[p].kind \in Kinds /\ (t[p].kind = "dir" <=> t[p] = Dir)
  BY StateCases DEF Tree
<1>2. CASE t[p].kind \in {"file", "link"}
  <2>1. t[p] # Dir
    BY <1>1, <1>2
  <2>2. Remove(t, p, recursive) = [t EXCEPT ![p] = Absent]
    BY <1>2, <2>1 DEF Remove
  <2> QED BY <2>2, StateMembers DEF Tree
<1>3. CASE t[p] = Dir /\ recursive
  <2>1. t[p].kind \notin {"file", "link"}
    BY <1>1, <1>3
  <2>2. Remove(t, p, recursive) = [t EXCEPT ![p] = Absent, ![Inner[p]] = Absent]
    BY <1>3, <2>1 DEF Remove
  <2> QED BY <1>3, <2>2, StateMembers, InnerFacts DEF Tree
<1>4. CASE t[p].kind \notin {"file", "link"} /\ ~(t[p] = Dir /\ recursive)
  <2>1. Remove(t, p, recursive) = t
    BY <1>4 DEF Remove
  <2> QED BY <2>1
<1> QED BY <1>2, <1>3, <1>4

LEMMA MoveFacts ==
    ASSUME NEW t \in Tree, NEW from \in Path, NEW to \in Path
    PROVE  /\ Move(t, from, to) \in Tree
           /\ \A q \in Path : Move(t, from, to)[q] = Dir => t[q] = Dir
           /\ IsDirectory(t, to) \/ \A q \in Path \ {from, to} : Move(t, from, to)[q] = t[q]
<1> DEFINE place == IF IsDirectory(t, to) THEN Inner[DirectoryOf(t, to)] ELSE to
<1>1. place \in Path
  <2>1. CASE IsDirectory(t, to)
    <3>1. DirectoryOf(t, to) \in Path
      <4>1. t[to] \in State
        BY DEF Tree
      <4> QED BY <2>1, <4>1, StateCases DEF IsDirectory, DirectoryOf
    <3> QED BY <2>1, <3>1, InnerFacts
  <2> QED BY <2>1
<1>2. CASE t[from] = Absent \/ from = place \/ t[from] = Dir \/ t[place] = Dir
  <2>1. Move(t, from, to) = t
    BY <1>2 DEF Move
  <2> QED BY <2>1
<1>3. CASE ~(t[from] = Absent \/ from = place \/ t[from] = Dir \/ t[place] = Dir)
  <2>1. Move(t, from, to) = [t EXCEPT ![place] = t[from], ![from] = Absent]
    BY <1>3 DEF Move
  <2>2. t[from] \in State /\ t[from] # Dir
    BY <1>3 DEF Tree
  <2>3. IsDirectory(t, to) \/ place = to
    OBVIOUS
  <2> HIDE DEF place
  <2> QED BY <1>1, <2>1, <2>2, <2>3, StateMembers DEF Tree
<1> QED BY <1>2, <1>3

LEMMA EditFacts ==
    ASSUME NEW t \in Tree, NEW p \in Path
    PROVE  /\ EditInPlace(t, p) \in Tree
           /\ \A q \in Path : EditInPlace(t, p)[q] = Dir => t[q] = Dir
           /\ \A q \in Path \ {p} : EditInPlace(t, p)[q] = t[q]
<1> DEFINE source == IF t[p].kind = "link" THEN t[t[p].data] ELSE t[p]
<1>1. source \in State
  BY StateCases DEF Tree
<1>2. CASE source.kind = "file"
  <2>1. source.data \in Bytes
    BY <1>1, <1>2, StateCases
  <2>2. EditInPlace(t, p) = [t EXCEPT ![p] = File(Sed[source.data])]
    BY <1>2 DEF EditInPlace
  <2>3. File(Sed[source.data]) \in State /\ File(Sed[source.data]) # Dir
    BY <2>1, SedFacts, StateMembers
  <2> HIDE DEF source
  <2> QED BY <2>2, <2>3 DEF Tree
<1>3. CASE source.kind # "file"
  <2>1. EditInPlace(t, p) = t
    BY <1>3 DEF EditInPlace
  <2> QED BY <2>1
<1> QED BY <1>2, <1>3

LEMMA EffectFacts ==
    ASSUME NEW t \in Tree, NEW plan \in Plan, NEW p \in Path, NEW to \in Path
    PROVE  /\ Effect(t, plan, <<p, to>>) \in Tree
           /\ \A q \in Path : Effect(t, plan, <<p, to>>)[q] = Dir => t[q] = Dir
           /\ \A q \in Path :
                \/ q \in {p, to}
                \/ plan.verb = "mv" /\ IsDirectory(t, to)
                \/ plan.verb = "rm" /\ "-r" \in plan.flags /\ t[p] = Dir /\ q = Inner[p]
                \/ Effect(t, plan, <<p, to>>)[q] = t[q]
<1>1. CASE plan.verb = "rm"
  <2>1. PICK recursive \in BOOLEAN : recursive <=> "-r" \in plan.flags
    OBVIOUS
  <2> DEFINE new == Remove(t, p, recursive)
  <2>2. Effect(t, plan, <<p, to>>) = new
    BY <1>1, <2>1 DEF Effect, Remove
  <2>3. /\ new \in Tree
        /\ \A q \in Path : new[q] \in {t[q], Absent}
        /\ \A q \in Path : q = p \/ (recursive /\ t[p] = Dir /\ q = Inner[p]) \/ new[q] = t[q]
    BY RemoveFacts
  <2> HIDE DEF new
  <2>4. \A q \in Path : new[q] = Dir => t[q] = Dir
    BY <2>3, StateMembers
  <2> QED BY <1>1, <2>1, <2>2, <2>3, <2>4
<1>2. CASE plan.verb = "mv"
  <2> DEFINE new == Move(t, p, to)
  <2>1. Effect(t, plan, <<p, to>>) = new
    BY <1>2 DEF Effect
  <2>2. /\ new \in Tree
        /\ \A q \in Path : new[q] = Dir => t[q] = Dir
        /\ IsDirectory(t, to) \/ \A q \in Path \ {p, to} : new[q] = t[q]
    BY MoveFacts
  <2> HIDE DEF new
  <2> QED BY <1>2, <2>1, <2>2
<1>3. CASE plan.verb \notin {"rm", "mv"}
  <2> DEFINE new == EditInPlace(t, p)
  <2>1. Effect(t, plan, <<p, to>>) = new
    BY <1>3 DEF Effect
  <2>2. /\ new \in Tree
        /\ \A q \in Path : new[q] = Dir => t[q] = Dir
        /\ \A q \in Path \ {p} : new[q] = t[q]
    BY EditFacts
  <2> HIDE DEF new
  <2> QED BY <2>1, <2>2
<1> QED BY <1>1, <1>2, <1>3

-----------------------------------------------------------------------------
(* Types: what each variable is updated with. *)

IsJob(j) == DOMAIN j.entries \subseteq Path /\ j \in Job(DOMAIN j.entries)
IsRestore(x) == DOMAIN x.entries \subseteq Path /\ x \in Restore(DOMAIN x.entries)
IsBlob(f) == DOMAIN f \subseteq Path /\ f \in [DOMAIN f -> Bytes]

Todo == SUBSET (Path \union (Path \X Path))

LEMMA JobFacts ==
    ASSUME NEW j, IsJob(j)
    PROVE  /\ j.pc \in {"idle", "capture", "run", "effect", "seal", "done"}
           /\ j.plan \in Plans \union {NoPlan} /\ j.plan \in Plan
           /\ j.groups \in Seq(SUBSET Path)
           /\ j.lane \in {"plain", "glob", "explicit", "unbacked", "unprotected"}
           /\ j.id \in Capture \union {NoCapture}
           /\ j.todo \in Todo
           /\ DOMAIN j.entries \subseteq Path /\ j.entries \in [DOMAIN j.entries -> Entry]
           /\ j = [pc |-> j.pc, plan |-> j.plan, groups |-> j.groups, lane |-> j.lane, id |-> j.id,
                   todo |-> j.todo, entries |-> j.entries]
<1>1. j \in Job(DOMAIN j.entries) /\ DOMAIN j.entries \subseteq Path
  BY DEF IsJob
<1>2. NoPlan \in Plan
  <2>1. <<>> \in Seq(Operand)
    OBVIOUS
  <2>2. {} \in SUBSET STRING
    OBVIOUS
  <2> QED BY <2>1, <2>2 DEF NoPlan, Plan, Verb
<1> QED BY <1>1, <1>2, CaptureAssumption DEF Job, Todo

LEMMA JobByParts ==
    ASSUME NEW pc \in {"idle", "capture", "run", "effect", "seal", "done"},
           NEW plan \in Plans \union {NoPlan}, NEW groups \in Seq(SUBSET Path),
           NEW lane \in {"plain", "glob", "explicit", "unbacked", "unprotected"},
           NEW id \in Capture \union {NoCapture}, NEW todo \in Todo,
           NEW D \in SUBSET Path, NEW entries \in [D -> Entry]
    PROVE  IsJob([pc |-> pc, plan |-> plan, groups |-> groups, lane |-> lane, id |-> id,
                  todo |-> todo, entries |-> entries])
  BY DEF IsJob, Job, Todo

LEMMA IdleIsJob == IsJob(Idle) /\ IsJob([Idle EXCEPT !.pc = "done"])
<1>1. <<>> \in Seq(SUBSET Path) /\ <<>> \in [{} -> Entry] /\ {} \in Todo /\ {} \in SUBSET Path
  BY EmptyFunction DEF Todo
<1>2. IsJob(Idle)
  BY <1>1, JobByParts DEF Idle
<1>3. /\ [Idle EXCEPT !.pc = "done"].entries = Idle.entries
      /\ [Idle EXCEPT !.pc = "done"] \in Job(DOMAIN Idle.entries)
  BY <1>2 DEF IsJob, Job
<1> QED BY <1>2, <1>3 DEF IsJob

LEMMA JobsUpdate ==
    ASSUME TypeOK, NEW r \in Runner, NEW j, IsJob(j), job' = [job EXCEPT ![r] = j]
    PROVE  /\ DOMAIN job' = Runner /\ \A s \in Runner : IsJob(job'[s])
           /\ job'[r] = j
           /\ \A s \in Runner \ {r} : job'[s] = job[s]
  BY DEF TypeOK, IsJob

\* The types of what is derived from the invariant.
LEMMA TypeFacts ==
    ASSUME TypeOK
    PROVE  /\ tree \in [Path -> State]
           /\ \A r \in Runner : IsJob(job[r])
           /\ \A c \in Capture : IsRecord(record[c]) /\ IsBlob(blob[c]) /\ history[c] \in History
           /\ IsRestore(restore)
  BY DEF TypeOK, Tree, IsJob, IsRestore, IsBlob

LEMMA RestoreFacts ==
    ASSUME NEW x, IsRestore(x)
    PROVE  /\ x.pc \in {"idle", "check", "remove", "write"}
           /\ x.id \in Capture \union {NoCapture}
           /\ x.force \in BOOLEAN /\ x.sealed \in BOOLEAN /\ x.raced \in BOOLEAN
           /\ x.todo \in SUBSET Path
           /\ x.path \in Path \union {NoData}
           /\ DOMAIN x.entries \subseteq Path /\ x.entries \in [DOMAIN x.entries -> Entry]
           /\ x = [pc |-> x.pc, id |-> x.id, force |-> x.force, sealed |-> x.sealed,
                   entries |-> x.entries, todo |-> x.todo, path |-> x.path, raced |-> x.raced]
  BY DEF IsRestore, Restore

LEMMA RestoreByParts ==
    ASSUME NEW pc \in {"idle", "check", "remove", "write"}, NEW id \in Capture \union {NoCapture},
           NEW force \in BOOLEAN, NEW sealed \in BOOLEAN, NEW raced \in BOOLEAN,
           NEW todo \in SUBSET Path, NEW path \in Path \union {NoData},
           NEW D \in SUBSET Path, NEW entries \in [D -> Entry]
    PROVE  IsRestore([pc |-> pc, id |-> id, force |-> force, sealed |-> sealed,
                      entries |-> entries, todo |-> todo, path |-> path, raced |-> raced])
  BY DEF IsRestore, Restore

LEMMA NoRestoreIsOne == IsRestore(NoRestore)
<1>1. <<>> \in [{} -> Entry] /\ {} \in SUBSET Path
  BY EmptyFunction
<1> QED BY <1>1, RestoreByParts DEF NoRestore

LEMMA RecordFacts ==
    ASSUME NEW x, IsRecord(x)
    PROVE  /\ x.written \in BOOLEAN /\ x.sealed \in BOOLEAN
           /\ DOMAIN x.entries \subseteq Path /\ x.entries \in [DOMAIN x.entries -> Entry]
           /\ x = [written |-> x.written, sealed |-> x.sealed, entries |-> x.entries]
  BY DEF IsRecord, Record

LEMMA RecordByParts ==
    ASSUME NEW written \in BOOLEAN, NEW sealed \in BOOLEAN,
           NEW D \in SUBSET Path, NEW entries \in [D -> Entry]
    PROVE  IsRecord([written |-> written, sealed |-> sealed, entries |-> entries])
  BY DEF IsRecord, Record

LEMMA UnwrittenIsRecord == IsRecord(Unwritten) /\ IsBlob(<<>>)
<1>1. <<>> \in [{} -> Entry] /\ <<>> \in [{} -> Bytes] /\ DOMAIN <<>> = {} /\ {} \in SUBSET Path
  BY EmptyFunction
<1>2. IsRecord(Unwritten)
  BY <1>1, RecordByParts DEF Unwritten
<1> QED BY <1>1, <1>2 DEF IsBlob

LEMMA ChangedIsSmall == Changed \subseteq Path
  BY DEF Changed

\* What a write of the tree notes about the captures.
LEMMA NotedFacts ==
    ASSUME TypeOK, NEW c, Noted(c)
    PROVE  /\ history' \in [Capture -> History]
           /\ \A d \in Capture :
                /\ history'[d].held = history[d].held /\ history'[d].left = history[d].left
                /\ history'[d].torn = history[d].torn
                /\ d = c => history'[d] = history[d]
                /\ d # c => history'[d].mixed = history[d].mixed \union (Window(d) \intersect Changed)
                /\ d # c /\ history'[d].quiet => history[d].quiet /\ Changed = {}
                /\ history[d].mixed \subseteq history'[d].mixed
<1>1. ASSUME NEW d \in Capture, d # c
      PROVE  /\ history'[d] = [history[d] EXCEPT !.mixed = @ \union (Window(d) \intersect Changed),
                                                 !.quiet = @ /\ Changed = {}]
             /\ history[d] \in History
  BY <1>1 DEF Noted, TypeOK
<1>2. ASSUME NEW d \in Capture, d = c PROVE history'[d] = history[d] /\ history[d] \in History
  BY <1>2 DEF Noted, TypeOK
<1>3. ASSUME NEW d \in Capture, d # c
      PROVE  /\ history'[d] \in History
             /\ history'[d].held = history[d].held /\ history'[d].left = history[d].left
             /\ history'[d].torn = history[d].torn
             /\ history'[d].mixed = history[d].mixed \union (Window(d) \intersect Changed)
             /\ history'[d].quiet => history[d].quiet /\ Changed = {}
  <2>1. PICK q \in BOOLEAN : q <=> (history[d].quiet /\ Changed = {})
    OBVIOUS
  <2>2. PICK m \in SUBSET Path : m = Window(d) \intersect Changed
    BY ChangedIsSmall
  <2>3. history[d].quiet \in BOOLEAN
    BY <1>1, <1>3 DEF History
  <2>4. history'[d] = [history[d] EXCEPT !.mixed = @ \union m, !.quiet = q]
    BY <1>1, <1>3, <2>1, <2>2, <2>3
  <2> DEFINE new == [history[d] EXCEPT !.mixed = @ \union m, !.quiet = q]
  <2>5. history[d] \in History
    BY <1>1, <1>3
  <2>6. /\ new \in History /\ new.mixed = history[d].mixed \union m /\ new.quiet = q
        /\ new.held = history[d].held /\ new.left = history[d].left /\ new.torn = history[d].torn
    BY <2>5 DEF History
  <2> HIDE DEF new
  <2>7. history'[d] = new
    BY <2>4 DEF new
  <2> QED BY <2>1, <2>2, <2>6, <2>7
<1>4. DOMAIN history' = Capture /\ history' = [d \in Capture |-> history'[d]]
  BY DEF Noted
<1>5. \A d \in Capture : history'[d] \in History
  BY <1>2, <1>3
<1> QED BY <1>2, <1>3, <1>4, <1>5

LEMMA SlippedFacts ==
    ASSUME TypeOK, Slipped
    PROVE  /\ IsRestore(restore')
           /\ restore'.pc = restore.pc /\ restore'.id = restore.id /\ restore'.force = restore.force
           /\ restore'.sealed = restore.sealed /\ restore'.entries = restore.entries
           /\ restore'.todo = restore.todo /\ restore'.path = restore.path
           /\ restore'.raced <=> restore.raced \/ restore.path \in Changed
<1>1. IsRestore(restore)
  BY TypeFacts
<1>2. PICK q \in BOOLEAN : q <=> (restore.raced \/ restore.path \in Changed)
  OBVIOUS
<1>3. restore' = [restore EXCEPT !.raced = q]
  BY <1>1, <1>2, RestoreFacts DEF Slipped
<1>4. restore' = [pc |-> restore.pc, id |-> restore.id, force |-> restore.force,
                  sealed |-> restore.sealed, entries |-> restore.entries, todo |-> restore.todo,
                  path |-> restore.path, raced |-> q]
  BY <1>1, <1>3, RestoreFacts
<1>5. IsRestore(restore')
  <2>1. /\ restore.pc \in {"idle", "check", "remove", "write"}
        /\ restore.id \in Capture \union {NoCapture}
        /\ restore.force \in BOOLEAN /\ restore.sealed \in BOOLEAN
        /\ restore.todo \in SUBSET Path /\ restore.path \in Path \union {NoData}
        /\ DOMAIN restore.entries \in SUBSET Path
        /\ restore.entries \in [DOMAIN restore.entries -> Entry]
    BY <1>1, RestoreFacts
  <2> QED BY <1>2, <1>4, <2>1 DEF IsRestore, Restore
<1> QED BY <1>2, <1>4, <1>5

-----------------------------------------------------------------------------
(* Every step keeps the types. *)

LEMMA InitTypes == Init => TypeOK
<1> SUFFICES ASSUME Init PROVE TypeOK
  OBVIOUS
<1>1. PICK past \in Pasts : tree = past.tree /\ record = past.record /\ ring = past.ring
  BY DEF Init
<1>2. /\ tree \in Tree /\ DOMAIN record = Capture /\ \A c \in Capture : IsRecord(record[c])
      /\ ring \in [Path -> Seq(Bytes)] /\ \A p \in Path : Len(ring[p]) <= RingSize
  BY <1>1, CaptureAssumption
<1>3. DOMAIN blob = Capture /\ \A c \in Capture : IsBlob(blob[c])
  BY UnwrittenIsRecord DEF Init
<1>4. DOMAIN job = Runner /\ \A r \in Runner : IsJob(job[r])
  BY IdleIsJob DEF Init
<1>5. IsRestore(restore)
  BY NoRestoreIsOne DEF Init
<1>6. printed \subseteq Plans \X SUBSET Path /\ foreign \in 0..MaxForeign
  BY CaptureAssumption DEF Init
<1>7. history \in [Capture -> History]
  BY DEF Init, NoHistory, History
<1> QED BY <1>2, <1>3, <1>4, <1>5, <1>6, <1>7 DEF TypeOK, IsJob, IsBlob, IsRestore

\* The state by its parts, as every lemma below updates it.
LEMMA TypesByParts ==
    ASSUME /\ tree \in Tree
           /\ DOMAIN record = Capture /\ \A c \in Capture : IsRecord(record[c])
           /\ DOMAIN blob = Capture /\ \A c \in Capture : IsBlob(blob[c])
           /\ ring \in [Path -> Seq(Bytes)] /\ \A p \in Path : Len(ring[p]) <= RingSize
           /\ DOMAIN job = Runner /\ \A r \in Runner : IsJob(job[r])
           /\ IsRestore(restore)
           /\ printed \subseteq Plans \X SUBSET Path
           /\ foreign \in 0..MaxForeign
           /\ history \in [Capture -> History]
    PROVE  TypeOK
  BY DEF TypeOK, IsJob, IsBlob, IsRestore

\* What a call is once it has its plan.
LEMMA CalledFacts ==
    ASSUME NEW r \in Runner, IsJob(job[r]), NEW plan \in Plans,
           NEW pc \in {"run", "capture"},
           NEW lane \in {"plain", "glob", "explicit", "unbacked", "unprotected"}
    PROVE  /\ IsJob(Called(r, plan, pc, lane))
           /\ Called(r, plan, pc, lane).plan = plan
           /\ Called(r, plan, pc, lane).groups = Expand(tree, plan)
           /\ Called(r, plan, pc, lane).pc = pc /\ Called(r, plan, pc, lane).lane = lane
           /\ Called(r, plan, pc, lane).id = job[r].id
           /\ Called(r, plan, pc, lane).todo = job[r].todo
           /\ Called(r, plan, pc, lane).entries = job[r].entries
<1>1. Expand(tree, plan) \in Seq(SUBSET Path)
  BY CaptureAssumption, ExpandFacts
<1> QED BY <1>1 DEF Called, IsJob, Job

LEMMA CapturedFacts ==
    ASSUME NEW r \in Runner, IsJob(job[r]), NEW plan \in Plans,
           \E c \in Capture : Fresh(c)
    PROVE  /\ NewCaptureID \in Capture /\ Fresh(NewCaptureID)
           /\ IsJob(Capturing(r, plan)) /\ Capturing(r, plan).plan = plan
           /\ Capturing(r, plan).groups = Expand(tree, plan)
           /\ Capturing(r, plan).pc = "capture"
           /\ Capturing(r, plan).lane = IF HasGlob(plan) THEN "glob" ELSE "explicit"
           /\ Capturing(r, plan).id = NewCaptureID
           /\ Capturing(r, plan).todo = Flat(Expand(tree, plan))
           /\ Capturing(r, plan).entries = job[r].entries
<1>1. NewCaptureID \in Capture /\ Fresh(NewCaptureID)
  BY DEF NewCaptureID
<1>2. Flat(Expand(tree, plan)) \in Todo
  BY CaptureAssumption, ExpandFacts, FlatFacts DEF Todo
<1>3. PICK lane \in {"glob", "explicit"} : lane = IF HasGlob(plan) THEN "glob" ELSE "explicit"
  OBVIOUS
<1> DEFINE call == Called(r, plan, "capture", lane)
<1>4. /\ IsJob(call) /\ call.plan = plan /\ call.groups = Expand(tree, plan)
      /\ call.pc = "capture" /\ call.lane = lane /\ call.entries = job[r].entries
  BY CalledFacts
<1> HIDE DEF call
<1>5. Capturing(r, plan) = [call EXCEPT !.id = NewCaptureID, !.todo = Flat(Expand(tree, plan))]
  BY <1>3 DEF call, Capturing
<1> QED BY <1>1, <1>2, <1>3, <1>4, <1>5 DEF IsJob, Job, Todo

\* What a submitted command comes to: a run without capture, a capture, or a refusal.
LEMMA SubmitCases ==
    ASSUME TypeOK, NEW r \in Runner, Submit(r)
    PROVE  \E plan \in Plans :
             LET groups == Expand(tree, plan) IN
             \/ /\ job' = job /\ printed' = printed \union {<<plan, Flat(groups)>>}
             \/ /\ printed' = printed
                /\ \E j : /\ job' = [job EXCEPT ![r] = j] /\ IsJob(j)
                          /\ j.plan = plan /\ j.groups = groups /\ j.entries = job[r].entries
                          /\ \/ /\ j.pc = "run" /\ j.id = job[r].id /\ j.todo = job[r].todo
                                /\ \/ j.lane \in {"plain", "unbacked"}
                                   \/ j.lane = "unprotected" /\ <<plan, Flat(groups)>> \in printed
                             \/ /\ j.pc = "capture" /\ j.todo = Flat(groups)
                                /\ j.lane = IF HasGlob(plan) THEN "glob" ELSE "explicit"
                                /\ j.id = NewCaptureID /\ NewCaptureID \in Capture
                                /\ Fresh(NewCaptureID)
<1>1. IsJob(job[r])
  BY TypeFacts
<1>2. PICK plan \in Plans :
       \/ ~Guarded(plan) /\ Runs(r, plan, "plain")
       \/ BeginCapture(r, plan)
       \/ Guarded(plan) /\ ~Backable(plan) /\ ~HasGlob(plan) /\ Runs(r, plan, "unbacked")
       \/ Guarded(plan) /\ ~Backable(plan) /\ HasGlob(plan) /\ Confirm(r, plan)
  BY DEF Submit
<1>3. CASE Runs(r, plan, "plain") \/ Runs(r, plan, "unbacked")
  <2>1. PICK lane \in {"plain", "unbacked"} : Runs(r, plan, lane)
    BY <1>3
  <2> DEFINE j == Called(r, plan, "run", lane)
  <2>2. /\ IsJob(j) /\ j.plan = plan /\ j.groups = Expand(tree, plan) /\ j.pc = "run"
        /\ j.lane = lane /\ j.id = job[r].id /\ j.todo = job[r].todo /\ j.entries = job[r].entries
    BY <1>1, CalledFacts
  <2>3. job' = [job EXCEPT ![r] = j] /\ printed' = printed
    BY <2>1 DEF Runs
  <2> HIDE DEF j
  <2> QED BY <2>2, <2>3
<1>4. CASE BeginCapture(r, plan)
  <2> DEFINE j == Capturing(r, plan)
  <2>1. job' = [job EXCEPT ![r] = j] /\ printed' = printed /\ \E c \in Capture : Fresh(c)
    BY <1>4 DEF BeginCapture
  <2>2. /\ IsJob(j) /\ j.plan = plan /\ j.groups = Expand(tree, plan) /\ j.pc = "capture"
        /\ j.lane = IF HasGlob(plan) THEN "glob" ELSE "explicit"
        /\ j.id = NewCaptureID /\ NewCaptureID \in Capture /\ Fresh(NewCaptureID)
        /\ j.todo = Flat(Expand(tree, plan)) /\ j.entries = job[r].entries
    BY <1>1, <2>1, CapturedFacts
  <2> HIDE DEF j
  <2> QED BY <2>1, <2>2
<1>5. CASE Confirm(r, plan)
  <2>1. PICK confirm \in {<<>>} \union {Digest(shown[1], <<shown[2]>>) : shown \in printed} :
          IF confirm = Digest(plan, Expand(tree, plan))
          THEN Runs(r, plan, "unprotected")
          ELSE /\ printed' = printed \union {<<plan, Flat(Expand(tree, plan))>>}
               /\ UNCHANGED job
    BY <1>5 DEF Confirm
  <2>2. CASE confirm = Digest(plan, Expand(tree, plan))
    <3> DEFINE j == Called(r, plan, "run", "unprotected")
    <3>1. /\ IsJob(j) /\ j.plan = plan /\ j.groups = Expand(tree, plan) /\ j.pc = "run"
          /\ j.lane = "unprotected" /\ j.id = job[r].id /\ j.todo = job[r].todo
          /\ j.entries = job[r].entries
      BY <1>1, CalledFacts
    <3>2. job' = [job EXCEPT ![r] = j] /\ printed' = printed
      BY <2>1, <2>2 DEF Runs
    <3>3. <<plan, Flat(Expand(tree, plan))>> \in printed
      <4>1. confirm = <<plan, Flat(Expand(tree, plan))>>
        BY <2>2 DEF Digest
      <4>2. PICK shown \in printed : confirm = Digest(shown[1], <<shown[2]>>)
        BY <2>1, <4>1
      <4>3. Flat(<<shown[2]>>) = shown[2]
        BY DEF Flat
      <4>4. shown = <<shown[1], shown[2]>>
        BY DEF TypeOK
      <4>5. confirm = <<shown[1], shown[2]>>
        BY <4>2, <4>3 DEF Digest
      <4> QED BY <4>1, <4>4, <4>5
    <3> HIDE DEF j
    <3> QED BY <3>1, <3>2, <3>3
  <2>3. CASE confirm # Digest(plan, Expand(tree, plan))
    BY <2>1, <2>3
  <2> QED BY <2>2, <2>3
<1> QED BY <1>2, <1>3, <1>4, <1>5

LEMMA SubmitTypes ==
    ASSUME TypeOK, NEW r \in Runner, Submit(r)
    PROVE  TypeOK'
<1>1. UNCHANGED <<tree, record, blob, ring, restore, foreign, history>>
  BY DEF Submit
<1>2. (DOMAIN job = Runner /\ \A s \in Runner : IsJob(job[s]))'
  BY SubmitCases, JobsUpdate, TypeFacts DEF TypeOK
<1>3. printed' \subseteq Plans \X SUBSET Path
  <2>1. ASSUME NEW plan \in Plans PROVE Flat(Expand(tree, plan)) \in SUBSET Path
    BY CaptureAssumption, ExpandFacts, FlatFacts
  <2>2. PICK plan \in Plans : printed' \in {printed, printed \union {<<plan, Flat(Expand(tree, plan))>>}}
    BY SubmitCases
  <2>3. printed \subseteq Plans \X SUBSET Path
    BY DEF TypeOK
  <2>4. <<plan, Flat(Expand(tree, plan))>> \in Plans \X SUBSET Path
    BY <2>1
  <2> QED BY <2>2, <2>3, <2>4
<1> QED BY <1>1, <1>2, <1>3 DEF TypeOK, IsJob

\* One path is captured.
LEMMA CapturePathFacts ==
    ASSUME TypeOK, CallInv, NEW r \in Runner, CapturePath(r)
    PROVE  /\ job[r].pc = "capture"
           /\ UNCHANGED <<tree, record, restore, printed, foreign, history>>
           /\ \E p \in job[r].todo, e \in Entry :
                /\ p \in Path /\ e.before = tree[p] /\ e.before.kind # "dir"
                /\ job' = [job EXCEPT ![r].todo = @ \ {p}, ![r].entries = Put(@, p, e)]
                /\ \/ /\ ~e.owned /\ blob' = blob /\ ring' = ring
                   \/ /\ e.owned /\ tree[p].data \in Bytes
                      /\ blob' = [blob EXCEPT ![job[r].id] = Put(@, p, tree[p].data)]
                      /\ ring' \in {ring, [ring EXCEPT ![p] = Pushed(@, tree[p].data)]}
<1>1. PICK p \in job[r].todo :
        LET c == job[r].id
            bytes == tree[p].data
            entry(owned) == [before |-> tree[p], owned |-> owned, after |-> Absent]
            add(owned) == job' = [job EXCEPT ![r].todo = @ \ {p},
                                             ![r].entries = Put(@, p, entry(owned))]
        IN /\ \/ /\ tree[p].kind \in {"absent", "link"}
                 /\ add(FALSE)
                 /\ UNCHANGED <<blob, ring>>
              \/ /\ tree[p].kind = "file"
                 /\ add(TRUE)
                 /\ blob' = [blob EXCEPT ![c] = WithBlob(@, p, bytes)]
                 /\ ring' = IF job[r].lane = "glob"
                            THEN [ring EXCEPT ![p] = Pushed(@, bytes)]
                            ELSE ring
  BY DEF CapturePath
<1>2. job[r].pc = "capture" /\ UNCHANGED <<tree, record, restore, printed, foreign, history>>
  BY DEF CapturePath
<1>3. p \in Path
  BY <1>2 DEF CallInv, Fits
<1>4. tree[p] \in State
  BY <1>3, TypeFacts
<1>5. CASE tree[p].kind \in {"absent", "link"}
  <2>1. PICK e \in Entry : e = [before |-> tree[p], owned |-> FALSE, after |-> Absent]
    BY <1>4, StateMembers DEF Entry
  <2>2. job' = [job EXCEPT ![r].todo = @ \ {p}, ![r].entries = Put(@, p, e)]
        /\ blob' = blob /\ ring' = ring
    BY <1>1, <1>5, <2>1
  <2> QED BY <1>2, <1>3, <1>5, <2>1, <2>2
<1>6. CASE tree[p].kind = "file"
  <2>1. PICK e \in Entry : e = [before |-> tree[p], owned |-> TRUE, after |-> Absent]
    BY <1>4, StateMembers DEF Entry
  <2>2. /\ job' = [job EXCEPT ![r].todo = @ \ {p}, ![r].entries = Put(@, p, e)]
        /\ blob' = [blob EXCEPT ![job[r].id] = Put(@, p, tree[p].data)]
        /\ ring' \in {ring, [ring EXCEPT ![p] = Pushed(@, tree[p].data)]}
    BY <1>1, <1>6, <2>1 DEF WithBlob
  <2>3. tree[p].data \in Bytes
    BY <1>4, <1>6, StateCases
  <2> QED BY <1>2, <1>3, <1>6, <2>1, <2>2, <2>3
<1> QED BY <1>1, <1>5, <1>6

LEMMA CapturePathTypes ==
    ASSUME TypeOK, CallInv, NEW r \in Runner, CapturePath(r)
    PROVE  TypeOK'
<1>1. PICK p \in job[r].todo, e \in Entry :
        /\ p \in Path
        /\ job' = [job EXCEPT ![r].todo = @ \ {p}, ![r].entries = Put(@, p, e)]
        /\ \/ /\ ~e.owned /\ blob' = blob /\ ring' = ring
           \/ /\ e.owned /\ tree[p].data \in Bytes
              /\ blob' = [blob EXCEPT ![job[r].id] = Put(@, p, tree[p].data)]
              /\ ring' \in {ring, [ring EXCEPT ![p] = Pushed(@, tree[p].data)]}
  BY CapturePathFacts
<1>2. job[r].pc = "capture" /\ UNCHANGED <<tree, record, restore, printed, foreign, history>>
  BY CapturePathFacts
<1>3. DOMAIN job' = Runner /\ \A s \in Runner : IsJob(job'[s])
  <2>1. IsJob(job[r])
    BY TypeFacts
  <2>2. PICK new : new = Put(job[r].entries, p, e)
    OBVIOUS
  <2>3. DOMAIN new \subseteq Path /\ new \in [DOMAIN new -> Entry]
    <3>1. PICK D \in SUBSET Path : D = DOMAIN job[r].entries /\ job[r].entries \in [D -> Entry]
      BY <2>1, JobFacts
    <3>2. new \in [D \union {p} -> Entry]
      BY <2>2, <3>1, PutFacts
    <3> QED BY <1>1, <3>1, <3>2
  <2>4. job' = [job EXCEPT ![r] = [job[r] EXCEPT !.todo = job[r].todo \ {p}, !.entries = new]]
    BY <1>1, <2>2
  <2>5. IsJob([job[r] EXCEPT !.todo = job[r].todo \ {p}, !.entries = new])
    BY <2>1, <2>3 DEF IsJob, Job
  <2> QED BY <2>4, <2>5, JobsUpdate
<1>4. DOMAIN blob' = Capture /\ \A c \in Capture : IsBlob(blob'[c])
  <2>1. DOMAIN blob = Capture /\ \A c \in Capture : IsBlob(blob[c])
    BY TypeFacts DEF TypeOK
  <2>2. CASE blob' = blob
    BY <2>1, <2>2
  <2>3. CASE tree[p].data \in Bytes /\ blob' = [blob EXCEPT ![job[r].id] = Put(@, p, tree[p].data)]
    <3>1. job[r].id \in Capture
      BY <1>2, TypeFacts, JobFacts DEF CallInv, Phase, Holds
    <3>2. PICK new : new = Put(blob[job[r].id], p, tree[p].data)
      OBVIOUS
    <3>3. DOMAIN new \subseteq Path /\ new \in [DOMAIN new -> Bytes]
      <4>1. PICK D \in SUBSET Path : D = DOMAIN blob[job[r].id] /\ blob[job[r].id] \in [D -> Bytes]
        BY <2>1, <3>1 DEF IsBlob
      <4>2. new \in [D \union {p} -> Bytes]
        BY <2>3, <3>2, <4>1, PutFacts
      <4> QED BY <1>1, <4>1, <4>2
    <3>4. blob' = [blob EXCEPT ![job[r].id] = new]
      BY <2>3, <3>2
    <3> QED BY <2>1, <3>1, <3>3, <3>4 DEF IsBlob
  <2> QED BY <1>1, <2>2, <2>3
<1>5. ring' \in [Path -> Seq(Bytes)] /\ \A q \in Path : Len(ring'[q]) <= RingSize
  <2>1. ring \in [Path -> Seq(Bytes)] /\ \A q \in Path : Len(ring[q]) <= RingSize
    BY DEF TypeOK
  <2>2. CASE ring' = ring
    BY <2>1, <2>2
  <2>3. CASE tree[p].data \in Bytes /\ ring' = [ring EXCEPT ![p] = Pushed(@, tree[p].data)]
    <3>1. PICK new : new = Pushed(ring[p], tree[p].data)
      OBVIOUS
    <3>2. new \in Seq(Bytes) /\ Len(new) <= RingSize
      BY <1>1, <2>1, <2>3, <3>1, PushedFacts, CaptureAssumption
    <3>3. ring' = [ring EXCEPT ![p] = new]
      BY <2>3, <3>1
    <3> QED BY <1>1, <2>1, <3>2, <3>3
  <2> QED BY <1>1, <2>2, <2>3
<1> QED BY <1>2, <1>3, <1>4, <1>5 DEF TypeOK, IsJob, IsBlob

\* The capture of c is taken back.
LEMMA DiscardTypes ==
    ASSUME TypeOK, NEW c \in Capture, record' = [record EXCEPT ![c] = Unwritten],
           blob' = [blob EXCEPT ![c] = <<>>]
    PROVE  /\ DOMAIN record' = Capture /\ \A d \in Capture : IsRecord(record'[d])
           /\ DOMAIN blob' = Capture /\ \A d \in Capture : IsBlob(blob'[d])
  BY UnwrittenIsRecord, TypeFacts DEF TypeOK

LEMMA DoneTypes ==
    ASSUME TypeOK, NEW r \in Runner, Done(r)
    PROVE  /\ DOMAIN job' = Runner /\ \A s \in Runner : IsJob(job'[s])
           /\ job'[r].pc = "done" /\ job'[r].id = NoCapture /\ job'[r].lane = "plain"
           /\ job'[r].todo = {}
           /\ \A s \in Runner \ {r} : job'[s] = job[s]
<1>1. PICK new : new = [Idle EXCEPT !.pc = "done"]
  OBVIOUS
<1>2. IsJob(new) /\ new.pc = "done" /\ new.id = NoCapture /\ new.lane = "plain" /\ new.todo = {}
  BY <1>1, IdleIsJob DEF Idle
<1>3. job' = [job EXCEPT ![r] = new]
  BY <1>1 DEF Done
<1> QED BY <1>2, <1>3, JobsUpdate

\* A capture that cannot be taken: the call is over, or goes on without.
LEMMA CaptureFailsFacts ==
    ASSUME TypeOK, CallInv, NEW r \in Runner, CaptureFails(r)
    PROVE  /\ job[r].pc = "capture" /\ job[r].id \in Capture
           /\ UNCHANGED <<tree, ring, restore, printed, foreign, history>>
           /\ DOMAIN job' = Runner /\ \A s \in Runner : IsJob(job'[s])
           /\ \A s \in Runner \ {r} : job'[s] = job[s]
           /\ job'[r].id = NoCapture
           /\ \/ /\ job'[r].pc = "done" /\ job'[r].lane = "plain" /\ UNCHANGED <<record, blob>>
              \/ /\ job'[r].pc = "run" /\ job'[r].lane = "unbacked" /\ job'[r].plan = job[r].plan
                 /\ record' = [record EXCEPT ![job[r].id] = Unwritten]
                 /\ blob' = [blob EXCEPT ![job[r].id] = <<>>]
<1>1. job[r].pc = "capture" /\ UNCHANGED <<tree, ring, restore, printed, foreign, history>>
  BY DEF CaptureFails
<1>2. job[r].id \in Capture
  BY <1>1, TypeFacts, JobFacts DEF CallInv, Phase, Holds
<1>3. CASE Done(r) /\ UNCHANGED <<record, blob>>
  BY <1>1, <1>2, <1>3, DoneTypes
<1>4. CASE /\ job' = [job EXCEPT ![r].pc = "run", ![r].lane = "unbacked", ![r].id = NoCapture,
                                 ![r].todo = {}, ![r].entries = <<>>]
           /\ record' = [record EXCEPT ![job[r].id] = Unwritten]
           /\ blob' = [blob EXCEPT ![job[r].id] = <<>>]
  <2>1. IsJob(job[r])
    BY TypeFacts
  <2>2. PICK empty : empty = <<>>
    OBVIOUS
  <2>3. empty \in [{} -> Entry] /\ DOMAIN empty = {}
    BY <2>2, EmptyFunction
  <2>4. PICK new : new = [job[r] EXCEPT !.pc = "run", !.lane = "unbacked", !.id = NoCapture,
                                        !.todo = {}, !.entries = empty]
    OBVIOUS
  <2>5. /\ IsJob(new) /\ new.pc = "run" /\ new.lane = "unbacked" /\ new.id = NoCapture
        /\ new.plan = job[r].plan
    BY <2>1, <2>3, <2>4 DEF IsJob, Job
  <2>6. job' = [job EXCEPT ![r] = new]
    BY <1>4, <2>2, <2>4
  <2> QED BY <1>1, <1>2, <1>4, <2>5, <2>6, JobsUpdate
<1> QED BY <1>3, <1>4 DEF CaptureFails

LEMMA CaptureFailsTypes ==
    ASSUME TypeOK, CallInv, NEW r \in Runner, CaptureFails(r)
    PROVE  TypeOK'
<1>1. DOMAIN record' = Capture /\ \A d \in Capture : IsRecord(record'[d])
  BY CaptureFailsFacts, DiscardTypes, TypeFacts DEF TypeOK
<1>2. DOMAIN blob' = Capture /\ \A d \in Capture : IsBlob(blob'[d])
  BY CaptureFailsFacts, DiscardTypes, TypeFacts DEF TypeOK
<1>3. /\ DOMAIN job' = Runner /\ \A s \in Runner : IsJob(job'[s])
      /\ UNCHANGED <<tree, ring, restore, printed, foreign, history>>
  BY CaptureFailsFacts
<1> QED BY <1>1, <1>2, <1>3 DEF TypeOK, IsJob, IsBlob

LEMMA PublishTypes ==
    ASSUME TypeOK, CallInv, NEW r \in Runner, Publish(r)
    PROVE  /\ TypeOK'
           /\ job[r].pc = "capture" /\ job[r].todo = {} /\ job[r].id \in Capture
           /\ record' = [record EXCEPT ![job[r].id] =
                           [written |-> TRUE, sealed |-> FALSE, entries |-> job[r].entries]]
           /\ job' = [job EXCEPT ![r].pc = "run"]
           /\ UNCHANGED <<tree, blob, ring, restore, printed, foreign, history>>
<1>1. /\ job[r].pc = "capture" /\ job[r].todo = {}
      /\ record' = [record EXCEPT ![job[r].id] =
                      [written |-> TRUE, sealed |-> FALSE, entries |-> job[r].entries]]
      /\ job' = [job EXCEPT ![r].pc = "run"]
      /\ UNCHANGED <<tree, blob, ring, restore, printed, foreign, history>>
  BY DEF Publish
<1>2. job[r].id \in Capture /\ IsJob(job[r])
  BY <1>1, TypeFacts, JobFacts DEF CallInv, Phase, Holds
<1>3. DOMAIN job' = Runner /\ \A s \in Runner : IsJob(job'[s])
  <2>1. PICK new : new = [job[r] EXCEPT !.pc = "run"]
    OBVIOUS
  <2>2. IsJob(new)
    BY <1>2, <2>1 DEF IsJob, Job
  <2>3. job' = [job EXCEPT ![r] = new]
    BY <1>1, <2>1
  <2> QED BY <2>2, <2>3, JobsUpdate
<1>4. DOMAIN record' = Capture /\ \A d \in Capture : IsRecord(record'[d])
  <2>1. IsRecord([written |-> TRUE, sealed |-> FALSE, entries |-> job[r].entries])
    BY <1>2, JobFacts DEF IsRecord, Record
  <2> QED BY <1>1, <1>2, <2>1, TypeFacts DEF TypeOK
<1>5. TypeOK'
  BY <1>1, <1>3, <1>4 DEF TypeOK, IsJob, IsBlob
<1> QED BY <1>1, <1>2, <1>5

LEMMA QueueFullTypes ==
    ASSUME TypeOK, CallInv, NEW r \in Runner, QueueFull(r)
    PROVE  /\ TypeOK'
           /\ job[r].pc = "run" /\ job[r].id \in Capture
           /\ record' = [record EXCEPT ![job[r].id] = Unwritten]
           /\ blob' = [blob EXCEPT ![job[r].id] = <<>>]
           /\ job'[r].pc = "done" /\ job'[r].id = NoCapture /\ job'[r].lane = "plain"
           /\ \A s \in Runner \ {r} : job'[s] = job[s]
           /\ UNCHANGED <<tree, ring, restore, printed, foreign, history>>
<1>1. /\ job[r].pc = "run" /\ job[r].lane \in {"glob", "explicit"}
      /\ record' = [record EXCEPT ![job[r].id] = Unwritten]
      /\ blob' = [blob EXCEPT ![job[r].id] = <<>>]
      /\ Done(r)
      /\ UNCHANGED <<tree, ring, restore, printed, foreign, history>>
  BY DEF QueueFull
<1>2. job[r].id \in Capture
  BY <1>1, TypeFacts, JobFacts DEF CallInv, Phase, Holds
<1>3. /\ DOMAIN job' = Runner /\ \A s \in Runner : IsJob(job'[s])
      /\ job'[r].pc = "done" /\ job'[r].id = NoCapture /\ job'[r].lane = "plain"
      /\ \A s \in Runner \ {r} : job'[s] = job[s]
  BY <1>1, DoneTypes
<1>4. /\ DOMAIN record' = Capture /\ \A d \in Capture : IsRecord(record'[d])
      /\ DOMAIN blob' = Capture /\ \A d \in Capture : IsBlob(blob'[d])
  BY <1>1, <1>2, DiscardTypes
<1>5. TypeOK'
  BY <1>1, <1>3, <1>4 DEF TypeOK, IsJob, IsBlob
<1> QED BY <1>1, <1>2, <1>3, <1>5

LEMMA WordsFacts ==
    ASSUME NEW r \in Runner, IsJob(job[r])
    PROVE  Words(r) \in Plan /\ Words(r).verb = job[r].plan.verb
<1>1. job[r].plan \in Plan /\ job[r].groups \in Seq(SUBSET Path)
  BY JobFacts
<1> QED BY <1>1, PinFacts DEF Words

LEMMA StartTypes ==
    ASSUME TypeOK, NEW r \in Runner, Start(r)
    PROVE  /\ TypeOK'
           /\ job[r].pc = "run" /\ job'[r].pc = "effect"
           /\ job'[r].todo = Work(tree, Words(r), Expand(tree, Words(r)))
           /\ job'[r].todo \subseteq Path \X Path
           /\ job'[r].plan = job[r].plan /\ job'[r].groups = job[r].groups
           /\ job'[r].lane = job[r].lane /\ job'[r].id = job[r].id
           /\ job'[r].entries = job[r].entries
           /\ \A s \in Runner \ {r} : job'[s] = job[s]
           /\ UNCHANGED <<tree, record, blob, ring, restore, printed, foreign>>
           /\ \A c \in Capture \ {job[r].id} : history'[c] = history[c]
           /\ job[r].id \in Capture =>
                LET past == history[job[r].id]
                    next == history'[job[r].id]
                IN next.held = tree /\ next.quiet /\ next.left = past.left /\ next.mixed = past.mixed
                   /\ next.torn = past.torn
<1>1. /\ job[r].pc = "run"
      /\ job' = [job EXCEPT ![r].pc = "effect",
                            ![r].todo = Work(tree, Words(r), Expand(tree, Words(r)))]
      /\ history' = IF job[r].id = NoCapture THEN history
                    ELSE [history EXCEPT ![job[r].id].held = tree, ![job[r].id].quiet = TRUE]
      /\ UNCHANGED <<tree, record, blob, ring, restore, printed, foreign>>
  BY DEF Start
<1>2. IsJob(job[r])
  BY TypeFacts
<1>3. PICK todo : todo = Work(tree, Words(r), Expand(tree, Words(r)))
  OBVIOUS
<1>4. todo \subseteq Path \X Path
  <2>1. PICK groups \in Seq(SUBSET Path) : groups = Expand(tree, Words(r))
    BY <1>2, WordsFacts, ExpandFacts
  <2>2. \A item \in Work(tree, Words(r), groups) : item \in Flat(groups) \X Flat(groups)
    BY <1>2, WordsFacts, WorkFacts
  <2>3. Flat(groups) \subseteq Path
    BY FlatFacts
  <2> QED BY <1>3, <2>1, <2>2, <2>3
<1>5. PICK new : new = [job[r] EXCEPT !.pc = "effect", !.todo = todo]
  OBVIOUS
<1>6. /\ IsJob(new) /\ new.pc = "effect" /\ new.todo = todo /\ new.plan = job[r].plan
      /\ new.groups = job[r].groups /\ new.lane = job[r].lane /\ new.id = job[r].id
      /\ new.entries = job[r].entries
  BY <1>2, <1>4, <1>5 DEF IsJob, Job
<1>7. job' = [job EXCEPT ![r] = new]
  BY <1>1, <1>3, <1>5
<1>8. /\ DOMAIN job' = Runner /\ \A s \in Runner : IsJob(job'[s])
      /\ job'[r] = new /\ \A s \in Runner \ {r} : job'[s] = job[s]
  BY <1>6, <1>7, JobsUpdate
<1>9. /\ history' \in [Capture -> History]
      /\ \A c \in Capture \ {job[r].id} : history'[c] = history[c]
      /\ job[r].id \in Capture =>
                LET past == history[job[r].id]
                    next == history'[job[r].id]
                IN next.held = tree /\ next.quiet /\ next.left = past.left /\ next.mixed = past.mixed
                   /\ next.torn = past.torn
  <2>1. history \in [Capture -> History] /\ tree \in Tree
    BY DEF TypeOK
  <2>2. CASE job[r].id = NoCapture
    <3>1. history' = history /\ job[r].id \notin Capture
      BY <1>1, <2>2, CaptureAssumption
    <3> QED BY <2>1, <3>1
  <2>3. CASE job[r].id # NoCapture
    <3>1. PICK c \in Capture : c = job[r].id
      BY <1>2, <2>3, JobFacts
    <3>2. history' = [history EXCEPT ![c].held = tree, ![c].quiet = TRUE]
      BY <1>1, <2>3, <3>1
    <3>3. PICK h \in History : h = history[c]
      BY <2>1
    <3>4. PICK next : next = [h EXCEPT !.held = tree, !.quiet = TRUE]
      OBVIOUS
    <3>5. /\ next \in History /\ next.held = tree /\ next.quiet /\ next.left = h.left
          /\ next.mixed = h.mixed /\ next.torn = h.torn
      BY <2>1, <3>4 DEF History
    <3>6. history' = [history EXCEPT ![c] = next]
      BY <3>2, <3>3, <3>4
    <3> QED BY <2>1, <3>1, <3>3, <3>5, <3>6
  <2> QED BY <2>2, <2>3
<1>10. TypeOK'
  BY <1>1, <1>8, <1>9 DEF TypeOK, IsJob, IsBlob
<1> QED BY <1>1, <1>3, <1>4, <1>6, <1>8, <1>9, <1>10

LEMMA EffectStepFacts ==
    ASSUME TypeOK, CallInv, NEW r \in Runner, EffectStep(r)
    PROVE  /\ TypeOK'
           /\ job[r].pc = "effect" /\ Noted(job[r].id) /\ Slipped
           /\ UNCHANGED <<record, blob, ring, printed, foreign>>
           /\ \E p \in Path, to \in Path :
                /\ <<p, to>> \in job[r].todo
                /\ tree' = Effect(tree, job[r].plan, <<p, to>>)
                /\ job'[r].todo = job[r].todo \ {<<p, to>>}
           /\ job'[r].pc = "effect" /\ job'[r].plan = job[r].plan /\ job'[r].groups = job[r].groups
           /\ job'[r].lane = job[r].lane /\ job'[r].id = job[r].id
           /\ job'[r].entries = job[r].entries
           /\ \A s \in Runner \ {r} : job'[s] = job[s]
<1>1. PICK item \in job[r].todo :
        /\ job[r].pc = "effect"
        /\ tree' = Effect(tree, job[r].plan, item)
        /\ job' = [job EXCEPT ![r].todo = @ \ {item}]
        /\ Noted(job[r].id)
        /\ Slipped
        /\ UNCHANGED <<record, blob, ring, printed, foreign>>
  BY DEF EffectStep
<1>2. PICK p \in Path, to \in Path : item = <<p, to>>
  BY <1>1 DEF CallInv, Fits
<1>3. IsJob(job[r])
  BY TypeFacts
<1>4. tree' \in Tree
  <2>1. job[r].plan \in Plan
    BY <1>3, JobFacts
  <2>2. tree \in Tree
    BY DEF TypeOK
  <2> QED BY <1>1, <1>2, <2>1, <2>2, EffectFacts
<1>5. PICK new : new = [job[r] EXCEPT !.todo = job[r].todo \ {<<p, to>>}]
  OBVIOUS
<1>6. /\ IsJob(new) /\ new.pc = job[r].pc /\ new.plan = job[r].plan /\ new.groups = job[r].groups
      /\ new.lane = job[r].lane /\ new.id = job[r].id /\ new.entries = job[r].entries
      /\ new.todo = job[r].todo \ {<<p, to>>}
  BY <1>3, <1>5 DEF IsJob, Job
<1>7. job' = [job EXCEPT ![r] = new]
  BY <1>1, <1>2, <1>5
<1>8. /\ DOMAIN job' = Runner /\ \A s \in Runner : IsJob(job'[s])
      /\ job'[r] = new /\ \A s \in Runner \ {r} : job'[s] = job[s]
  BY <1>6, <1>7, JobsUpdate
<1>9. history' \in [Capture -> History] /\ IsRestore(restore')
  BY <1>1, NotedFacts, SlippedFacts
<1>10. TypeOK'
  BY <1>1, <1>4, <1>8, <1>9 DEF TypeOK, IsJob, IsBlob, IsRestore
<1> QED BY <1>1, <1>2, <1>6, <1>8, <1>10

LEMMA StopFacts ==
    ASSUME TypeOK, NEW r \in Runner, Stop(r)
    PROVE  /\ TypeOK'
           /\ job[r].pc = "effect"
           /\ UNCHANGED <<tree, record, blob, ring, restore, printed, foreign>>
           /\ \A s \in Runner \ {r} : job'[s] = job[s]
           /\ job'[r].id = job[r].id
           /\ \A c \in Capture \ {job[r].id} : history'[c] = history[c]
           /\ job[r].id = NoCapture => job'[r].pc = "done" /\ job'[r].lane = "plain"
           /\ job[r].id # NoCapture =>
                /\ job[r].id \in Capture
                /\ job'[r].pc = "seal" /\ job'[r].plan = job[r].plan /\ job'[r].lane = job[r].lane
                /\ job'[r].groups = job[r].groups
                /\ job'[r].entries = job[r].entries /\ job'[r].todo = DOMAIN job[r].entries
                /\ LET past == history[job[r].id]
                       next == history'[job[r].id]
                   IN next.left = tree /\ next.held = past.held /\ next.quiet = past.quiet
                      /\ next.mixed = past.mixed /\ next.torn = past.torn
<1>1. job[r].pc = "effect" /\ UNCHANGED <<tree, record, blob, ring, restore, printed, foreign>>
  BY DEF Stop
<1>2. IsJob(job[r])
  BY TypeFacts
<1>3. CASE job[r].id = NoCapture
  <2>1. Done(r) /\ history' = history
    BY <1>3 DEF Stop
  <2>2. /\ DOMAIN job' = Runner /\ \A s \in Runner : IsJob(job'[s])
        /\ job'[r].pc = "done" /\ job'[r].id = NoCapture /\ job'[r].lane = "plain"
        /\ \A s \in Runner \ {r} : job'[s] = job[s]
    BY <2>1, DoneTypes
  <2>3. TypeOK'
    BY <1>1, <2>1, <2>2 DEF TypeOK, IsJob, IsBlob
  <2> QED BY <1>1, <1>3, <2>1, <2>2, <2>3
<1>4. CASE job[r].id # NoCapture
  <2>1. /\ job' = [job EXCEPT ![r].pc = "seal", ![r].todo = DOMAIN job[r].entries]
        /\ history' = [history EXCEPT ![job[r].id].left = tree]
    BY <1>4 DEF Stop
  <2>2. PICK c \in Capture : c = job[r].id
    BY <1>2, <1>4, JobFacts
  <2>3. PICK new : new = [job[r] EXCEPT !.pc = "seal", !.todo = DOMAIN job[r].entries]
    OBVIOUS
  <2>4. /\ IsJob(new) /\ new.pc = "seal" /\ new.plan = job[r].plan /\ new.groups = job[r].groups
        /\ new.lane = job[r].lane /\ new.id = job[r].id /\ new.entries = job[r].entries
        /\ new.todo = DOMAIN job[r].entries
    BY <1>2, <2>3 DEF IsJob, Job
  <2>5. job' = [job EXCEPT ![r] = new]
    BY <2>1, <2>3
  <2>6. /\ DOMAIN job' = Runner /\ \A s \in Runner : IsJob(job'[s])
        /\ job'[r] = new /\ \A s \in Runner \ {r} : job'[s] = job[s]
    BY <2>4, <2>5, JobsUpdate
  <2>7. PICK h \in History : h = history[c]
    BY DEF TypeOK
  <2>8. PICK next : next = [h EXCEPT !.left = tree]
    OBVIOUS
  <2>9. /\ next \in History /\ next.held = h.held /\ next.quiet = h.quiet /\ next.left = tree
        /\ next.mixed = h.mixed /\ next.torn = h.torn
    BY <2>8 DEF History, TypeOK
  <2>10. history' = [history EXCEPT ![c] = next]
    BY <2>1, <2>2, <2>7, <2>8
  <2>11. /\ history' \in [Capture -> History] /\ history'[c] = next
         /\ \A d \in Capture \ {c} : history'[d] = history[d]
    BY <2>9, <2>10 DEF TypeOK
  <2>12. TypeOK'
    BY <1>1, <2>6, <2>11 DEF TypeOK, IsJob, IsBlob
  <2> QED BY <1>1, <1>4, <2>2, <2>4, <2>6, <2>7, <2>9, <2>11, <2>12
<1> QED BY <1>3, <1>4

LEMMA SealPathFacts ==
    ASSUME TypeOK, CallInv, NEW r \in Runner, SealPath(r)
    PROVE  /\ TypeOK'
           /\ job[r].pc = "seal"
           /\ UNCHANGED <<tree, record, blob, ring, restore, printed, foreign, history>>
           /\ \A s \in Runner \ {r} : job'[s] = job[s]
           /\ job'[r].pc = "seal" /\ job'[r].plan = job[r].plan /\ job'[r].groups = job[r].groups
           /\ job'[r].lane = job[r].lane /\ job'[r].id = job[r].id
           /\ DOMAIN job'[r].entries = DOMAIN job[r].entries
           /\ \E p \in job[r].todo :
                /\ p \in DOMAIN job[r].entries /\ job'[r].todo = job[r].todo \ {p}
                /\ job'[r].entries[p].before = job[r].entries[p].before
                /\ job'[r].entries[p].owned = job[r].entries[p].owned
                /\ job'[r].entries[p].after = Look(tree[p])
                /\ \A q \in DOMAIN job[r].entries \ {p} : job'[r].entries[q] = job[r].entries[q]
<1>1. PICK p \in job[r].todo :
        /\ job[r].pc = "seal"
        /\ job' = [job EXCEPT ![r].todo = @ \ {p}, ![r].entries[p].after = Look(tree[p])]
        /\ UNCHANGED <<tree, record, blob, ring, restore, printed, foreign, history>>
  BY DEF SealPath
<1>2. IsJob(job[r])
  BY TypeFacts
<1>3. PICK D \in SUBSET Path : D = DOMAIN job[r].entries /\ job[r].entries \in [D -> Entry]
  BY <1>2, JobFacts
<1>4. p \in D
  BY <1>1, <1>3 DEF CallInv, Fits
<1>5. PICK f \in [D -> Entry] : f = job[r].entries
  BY <1>3
<1>6. Look(tree[p]) \in State
  BY <1>3, <1>4, LookCases, TypeFacts
<1>7. PICK g : g = [f EXCEPT ![p].after = Look(tree[p])]
  OBVIOUS
<1>8. /\ g \in [D -> Entry] /\ \A q \in D \ {p} : g[q] = f[q]
      /\ g[p].before = f[p].before /\ g[p].owned = f[p].owned /\ g[p].after = Look(tree[p])
  <2>1. f[p] \in Entry
    BY <1>4
  <2>2. PICK e : e = [f[p] EXCEPT !.after = Look(tree[p])]
    OBVIOUS
  <2>3. e \in Entry /\ e.before = f[p].before /\ e.owned = f[p].owned /\ e.after = Look(tree[p])
    BY <1>6, <2>1, <2>2 DEF Entry
  <2>4. g = [f EXCEPT ![p] = e]
    BY <1>7, <2>2
  <2> QED BY <1>4, <2>3, <2>4
<1>9. PICK new : new = [job[r] EXCEPT !.todo = job[r].todo \ {p}, !.entries = g]
  OBVIOUS
<1>10. /\ IsJob(new) /\ new.pc = job[r].pc /\ new.plan = job[r].plan /\ new.groups = job[r].groups
       /\ new.lane = job[r].lane /\ new.id = job[r].id /\ new.entries = g
       /\ new.todo = job[r].todo \ {p}
  <2>1. DOMAIN g = D
    BY <1>8
  <2> QED BY <1>2, <1>8, <1>9, <2>1 DEF IsJob, Job
<1>11. job' = [job EXCEPT ![r] = new]
  BY <1>1, <1>5, <1>7, <1>9
<1>12. /\ DOMAIN job' = Runner /\ \A s \in Runner : IsJob(job'[s])
       /\ job'[r] = new /\ \A s \in Runner \ {r} : job'[s] = job[s]
  BY <1>10, <1>11, JobsUpdate
<1>13. TypeOK'
  BY <1>1, <1>12 DEF TypeOK, IsJob, IsBlob
<1> QED BY <1>1, <1>3, <1>4, <1>5, <1>8, <1>10, <1>12, <1>13

LEMMA SealWriteFacts ==
    ASSUME TypeOK, CallInv, NEW r \in Runner, SealWrite(r)
    PROVE  /\ TypeOK'
           /\ job[r].pc = "seal" /\ job[r].todo = {} /\ job[r].id \in Capture
           /\ record' = [record EXCEPT ![job[r].id] =
                           [written |-> TRUE, sealed |-> TRUE, entries |-> job[r].entries]]
           /\ job'[r].pc = "done" /\ job'[r].id = NoCapture /\ job'[r].lane = "plain"
           /\ \A s \in Runner \ {r} : job'[s] = job[s]
           /\ UNCHANGED <<tree, blob, ring, restore, printed, foreign, history>>
<1>1. /\ job[r].pc = "seal" /\ job[r].todo = {}
      /\ record' = [record EXCEPT ![job[r].id] =
                      [written |-> TRUE, sealed |-> TRUE, entries |-> job[r].entries]]
      /\ Done(r)
      /\ UNCHANGED <<tree, blob, ring, restore, printed, foreign, history>>
  BY DEF SealWrite
<1>2. job[r].id \in Capture /\ IsJob(job[r])
  BY <1>1, TypeFacts, JobFacts DEF CallInv, Phase, Holds
<1>3. /\ DOMAIN job' = Runner /\ \A s \in Runner : IsJob(job'[s])
      /\ job'[r].pc = "done" /\ job'[r].id = NoCapture /\ job'[r].lane = "plain"
      /\ \A s \in Runner \ {r} : job'[s] = job[s]
  BY <1>1, DoneTypes
<1>4. DOMAIN record' = Capture /\ \A d \in Capture : IsRecord(record'[d])
  <2>1. IsRecord([written |-> TRUE, sealed |-> TRUE, entries |-> job[r].entries])
    BY <1>2, JobFacts DEF IsRecord, Record
  <2> QED BY <1>1, <1>2, <2>1, TypeFacts DEF TypeOK
<1>5. TypeOK'
  BY <1>1, <1>3, <1>4 DEF TypeOK, IsJob, IsBlob
<1> QED BY <1>1, <1>2, <1>3, <1>5

LEMMA AbandonFacts ==
    ASSUME TypeOK, NEW r \in Runner, Abandon(r)
    PROVE  /\ TypeOK'
           /\ job'[r].pc = "done" /\ job'[r].id = NoCapture /\ job'[r].lane = "plain"
           /\ job'[r].todo = {}
           /\ \A s \in Runner \ {r} : job'[s] = job[s]
           /\ UNCHANGED <<tree, record, blob, ring, restore, printed, foreign, history>>
<1>1. Done(r) /\ UNCHANGED <<tree, record, blob, ring, restore, printed, foreign, history>>
  BY DEF Abandon
<1> QED BY <1>1, DoneTypes DEF TypeOK, IsJob, IsBlob

LEMMA RestoreBeginFacts ==
    ASSUME TypeOK, RestoreBegin
    PROVE  /\ TypeOK' /\ restore.pc = "idle"
           /\ UNCHANGED <<tree, record, blob, ring, job, printed, foreign, history>>
           /\ \E c \in Capture :
                /\ record[c].written
                /\ restore'.pc = "check" /\ restore'.id = c /\ restore'.sealed = record[c].sealed
                /\ restore'.entries = record[c].entries /\ restore'.todo = DOMAIN record[c].entries
                /\ ~restore'.raced
<1>1. PICK c \in Capture, force \in BOOLEAN :
        /\ restore.pc = "idle" /\ record[c].written
        /\ restore' = [NoRestore EXCEPT !.pc = "check", !.id = c, !.force = force,
                         !.sealed = record[c].sealed, !.entries = record[c].entries,
                         !.todo = DOMAIN record[c].entries]
        /\ UNCHANGED <<tree, record, blob, ring, job, printed, foreign, history>>
  BY DEF RestoreBegin
<1>2. PICK x : x = record[c]
  OBVIOUS
<1>3. /\ x.sealed \in BOOLEAN /\ DOMAIN x.entries \subseteq Path
      /\ x.entries \in [DOMAIN x.entries -> Entry]
  BY <1>2, TypeFacts, RecordFacts
<1>4. restore' = [pc |-> "check", id |-> c, force |-> force, sealed |-> x.sealed,
                  entries |-> x.entries, todo |-> DOMAIN x.entries, path |-> NoData, raced |-> FALSE]
  BY <1>1, <1>2 DEF NoRestore
<1>5. IsRestore(restore')
  BY <1>3, <1>4 DEF IsRestore, Restore
<1>6. TypeOK'
  BY <1>1, <1>5 DEF TypeOK, IsRestore
<1>7. /\ restore'.pc = "check" /\ restore'.id = c /\ restore'.sealed = x.sealed
      /\ restore'.entries = x.entries /\ restore'.todo = DOMAIN x.entries /\ ~restore'.raced
  BY <1>4
<1>8. UNCHANGED <<tree, record, blob, ring, job, printed, foreign, history>>
  BY <1>1
<1> QED BY <1>1, <1>2, <1>6, <1>7, <1>8

\* The copy a restore works on stays.
SameCopy ==
  /\ restore'.id = restore.id /\ restore'.force = restore.force
  /\ restore'.sealed = restore.sealed /\ restore'.entries = restore.entries

LEMMA RestoreCheckFacts ==
    ASSUME TypeOK, CallInv, RestoreCheck
    PROVE  /\ TypeOK' /\ restore.pc = "check" /\ SameCopy
           /\ UNCHANGED <<tree, record, blob, ring, job, printed, foreign, history>>
           /\ \E p \in restore.todo :
                LET entry == restore.entries[p]
                    current == Look(tree[p])
                IN /\ p \in Path /\ p \in DOMAIN restore.entries /\ entry \in Entry
                   /\ restore'.todo = restore.todo \ {p}
                   /\ \/ /\ \/ ~restore.force /\ current # entry.after
                            \/ current = entry.before
                         /\ restore'.pc = "check" /\ restore'.raced = restore.raced
                         /\ restore'.path = restore.path
                      \/ /\ restore.force \/ current = entry.after
                         /\ current # entry.before
                         /\ restore'.path = p /\ ~restore'.raced
                         /\ restore'.pc = IF current # Absent THEN "remove" ELSE "write"
<1>1. PICK p \in restore.todo :
        LET entry == restore.entries[p]
            current == Look(tree[p])
            rest == [restore EXCEPT !.todo = @ \ {p}]
            goes(pc) == [rest EXCEPT !.pc = pc, !.path = p, !.raced = FALSE]
        IN restore' =
             IF \/ ~restore.force /\ ChangedSince(entry, current)
                \/ current = entry.before
             THEN rest
             ELSE IF MustClear(entry, current) THEN goes("remove") ELSE goes("write")
  BY DEF RestoreCheck
<1>2. restore.pc = "check" /\ UNCHANGED <<tree, record, blob, ring, job, printed, foreign, history>>
  BY DEF RestoreCheck
<1>3. IsRestore(restore)
  BY TypeFacts
<1>4. p \in Path /\ p \in DOMAIN restore.entries
  BY <1>3, RestoreFacts DEF CallInv, RestoreFits
<1>5. restore.entries[p] \in Entry
  BY <1>3, <1>4, RestoreFacts
<1> DEFINE entry == restore.entries[p]
           current == Look(tree[p])
<1>6. PICK rest : rest = [restore EXCEPT !.todo = @ \ {p}]
  OBVIOUS
<1>7. /\ IsRestore(rest) /\ rest.pc = restore.pc /\ rest.id = restore.id
      /\ rest.force = restore.force /\ rest.sealed = restore.sealed
      /\ rest.entries = restore.entries /\ rest.todo = restore.todo \ {p}
      /\ rest.path = restore.path /\ rest.raced = restore.raced
  BY <1>3, <1>6 DEF IsRestore, Restore
<1>8. CASE (~restore.force /\ current # entry.after) \/ current = entry.before
  <2>1. restore' = rest
    BY <1>1, <1>6, <1>8 DEF ChangedSince
  <2>2. TypeOK'
    BY <1>2, <1>7, <2>1 DEF TypeOK, IsRestore
  <2> HIDE DEF entry, current
  <2>3. /\ (~restore.force /\ current # entry.after) \/ current = entry.before
        /\ restore'.pc = "check" /\ restore'.raced = restore.raced
        /\ restore'.path = restore.path
    BY <1>2, <1>7, <1>8, <2>1
  <2> QED BY <1>2, <1>4, <1>5, <1>7, <2>1, <2>2, <2>3 DEF entry, current, SameCopy
<1>9. CASE ~((~restore.force /\ current # entry.after) \/ current = entry.before)
  <2>1. PICK pc \in {"remove", "write"} : pc = IF current # Absent THEN "remove" ELSE "write"
    OBVIOUS
  <2>2. restore' = [rest EXCEPT !.pc = pc, !.path = p, !.raced = FALSE]
    <3>1. restore' = IF MustClear(entry, current)
                     THEN [rest EXCEPT !.pc = "remove", !.path = p, !.raced = FALSE]
                     ELSE [rest EXCEPT !.pc = "write", !.path = p, !.raced = FALSE]
      BY <1>1, <1>6, <1>9 DEF ChangedSince
    <3> HIDE DEF entry, current
    <3> QED BY <2>1, <3>1 DEF MustClear
  <2>3. /\ IsRestore(restore') /\ restore'.pc = pc /\ restore'.id = rest.id
        /\ restore'.force = rest.force /\ restore'.sealed = rest.sealed
        /\ restore'.entries = rest.entries /\ restore'.todo = rest.todo
        /\ restore'.path = p /\ restore'.raced = FALSE
    BY <1>4, <1>7, <2>2 DEF IsRestore, Restore
  <2>4. TypeOK'
    BY <1>2, <2>3 DEF TypeOK, IsRestore
  <2> HIDE DEF entry, current
  <2>5. /\ restore.force \/ current = entry.after
        /\ current # entry.before
        /\ restore'.path = p /\ ~restore'.raced
        /\ restore'.pc = IF current # Absent THEN "remove" ELSE "write"
    BY <1>9, <2>1, <2>3
  <2> QED BY <1>2, <1>4, <1>5, <1>7, <2>3, <2>4, <2>5 DEF entry, current, SameCopy
<1> QED BY <1>8, <1>9

LEMMA ReturnFacts ==
    ASSUME TypeOK, CallInv, restore.pc # "idle", NEW torn \in BOOLEAN, Return(torn)
    PROVE  /\ IsRestore(restore') /\ restore'.pc = "idle" /\ ~restore'.sealed
           /\ restore'.todo = {} /\ ~restore'.raced
           /\ history' \in [Capture -> History]
           /\ \A c \in Capture : /\ history'[c].held = history[c].held
                                 /\ history'[c].left = history[c].left
                                 /\ history'[c].mixed = history[c].mixed
                                 /\ history'[c].quiet = history[c].quiet
                                 /\ c # restore.id => history'[c].torn = history[c].torn
                                 /\ c = restore.id => (history'[c].torn <=> history[c].torn \/ torn)
<1>1. PICK c \in Capture : c = restore.id
  BY DEF CallInv, RestoreFits
<1>2. PICK h \in History : h = history[c]
  BY DEF TypeOK
<1>3. PICK q \in BOOLEAN : q <=> (h.torn \/ torn)
  OBVIOUS
<1>4. h.torn \in BOOLEAN
  BY DEF History
<1>5. history' = [history EXCEPT ![c] = [h EXCEPT !.torn = q]]
  BY <1>1, <1>2, <1>3, <1>4 DEF Return
<1>6. PICK next : next = [h EXCEPT !.torn = q]
  OBVIOUS
<1>7. /\ next \in History /\ next.held = h.held /\ next.quiet = h.quiet /\ next.left = h.left
      /\ next.mixed = h.mixed /\ next.torn = q
  BY <1>6 DEF History
<1>8. /\ history' \in [Capture -> History] /\ history'[c] = next
      /\ \A d \in Capture \ {c} : history'[d] = history[d]
  BY <1>5, <1>6, <1>7 DEF TypeOK
<1>9. /\ IsRestore(restore') /\ restore'.pc = "idle" /\ ~restore'.sealed
      /\ restore'.todo = {} /\ ~restore'.raced
  BY NoRestoreIsOne DEF Return, NoRestore
<1> QED BY <1>1, <1>2, <1>3, <1>7, <1>8, <1>9

\* The restore goes on to another phase.
LEMMA RestoreGoesOn ==
    ASSUME TypeOK, NEW pc \in {"check", "write"}, NEW path \in {NoData, restore.path},
           restore' = [restore EXCEPT !.pc = pc, !.path = path]
    PROVE  /\ IsRestore(restore') /\ SameCopy /\ restore'.pc = pc /\ restore'.path = path
           /\ restore'.todo = restore.todo /\ restore'.raced = restore.raced
<1>1. IsRestore(restore)
  BY TypeFacts
<1>2. path \in Path \union {NoData}
  BY <1>1, RestoreFacts
<1> QED BY <1>1, <1>2 DEF IsRestore, Restore, SameCopy

LEMMA RestoreRemoveFacts ==
    ASSUME TypeOK, CallInv, RestoreRemove
    PROVE  /\ TypeOK' /\ restore.pc = "remove" /\ restore.path \in Path
           /\ restore.entries[restore.path] \in Entry
           /\ UNCHANGED <<record, blob, ring, job, printed, foreign>>
           /\ LET p == restore.path
                  before == restore.entries[p].before
              IN \/ /\ Return(FALSE) /\ tree' = tree
                    /\ tree[p] = Dir \/ tree[p] = Absent
                 \/ /\ tree' = [tree EXCEPT ![p] = Absent] /\ Noted(Undone) /\ SameCopy
                    /\ restore'.todo = restore.todo /\ restore'.raced = restore.raced
                    /\ before = Absent => restore'.pc = "check" /\ restore'.path = NoData
                    /\ before # Absent => restore'.pc = "write" /\ restore'.path = p
<1>1. restore.pc = "remove" /\ UNCHANGED <<record, blob, ring, job, printed, foreign>>
  BY DEF RestoreRemove
<1>2. IsRestore(restore)
  BY TypeFacts
<1>3. PICK p \in Path : p = restore.path /\ p \in DOMAIN restore.entries
  BY <1>1, <1>2, RestoreFacts DEF CallInv, RestoreFits
<1>4. PICK entry \in Entry : entry = restore.entries[p]
  BY <1>2, <1>3, RestoreFacts
<1>5. CASE Return(FALSE) /\ tree' = tree /\ (tree[p] = Dir \/ tree[p] = Absent)
  <2>1. TypeOK'
    BY <1>1, <1>5, ReturnFacts DEF TypeOK, IsRestore
  <2> QED BY <1>1, <1>3, <1>4, <1>5, <2>1
<1>6. CASE /\ tree' = [tree EXCEPT ![p] = Absent]
           /\ restore' = IF entry.before = Absent
                         THEN [restore EXCEPT !.pc = "check", !.path = NoData]
                         ELSE [restore EXCEPT !.pc = "write"]
           /\ Noted(Undone)
  <2>1. tree' \in Tree
    BY <1>6, StateMembers DEF TypeOK, Tree
  <2>2. /\ IsRestore(restore') /\ SameCopy
        /\ restore'.todo = restore.todo /\ restore'.raced = restore.raced
        /\ entry.before = Absent => restore'.pc = "check" /\ restore'.path = NoData
        /\ entry.before # Absent => restore'.pc = "write" /\ restore'.path = p
    <3>1. CASE entry.before = Absent
      BY <1>6, <3>1, RestoreGoesOn
    <3>2. CASE entry.before # Absent
      <4>1. restore' = [restore EXCEPT !.pc = "write"]
        BY <1>6, <3>2
      <4> QED BY <1>2, <1>3, <3>2, <4>1 DEF IsRestore, Restore, SameCopy
    <3> QED BY <3>1, <3>2
  <2>3. TypeOK'
    BY <1>1, <1>6, <2>1, <2>2, NotedFacts DEF TypeOK, IsRestore
  <2> QED BY <1>1, <1>3, <1>4, <1>6, <2>2, <2>3
<1> QED BY <1>3, <1>4, <1>5, <1>6 DEF RestoreRemove

LEMMA RestoreWriteFacts ==
    ASSUME TypeOK, CallInv, RestoreWrite
    PROVE  /\ TypeOK' /\ restore.pc = "write" /\ restore.path \in Path
           /\ restore.entries[restore.path] \in Entry
           /\ UNCHANGED <<record, blob, ring, job, printed, foreign>>
           /\ LET p == restore.path
                  before == restore.entries[p].before
                  place == IF tree[p].kind = "link" THEN tree[p].data ELSE p
              IN \/ Return(TRUE) /\ tree' = tree
                 \/ /\ tree' = [tree EXCEPT ![IF before.kind = "link" THEN p ELSE place] = before]
                    /\ Noted(Undone) /\ SameCopy
                    /\ restore'.todo = restore.todo /\ restore'.raced = restore.raced
                    /\ restore'.pc = "check" /\ restore'.path = NoData
<1>1. restore.pc = "write" /\ UNCHANGED <<record, blob, ring, job, printed, foreign>>
  BY DEF RestoreWrite
<1>2. IsRestore(restore)
  BY TypeFacts
<1>3. PICK p \in Path : p = restore.path /\ p \in DOMAIN restore.entries
  BY <1>1, <1>2, RestoreFacts DEF CallInv, RestoreFits
<1>4. PICK entry \in Entry : entry = restore.entries[p]
  BY <1>2, <1>3, RestoreFacts
<1>5. PICK place : place = IF tree[p].kind = "link" THEN tree[p].data ELSE p
  OBVIOUS
<1>6. CASE Return(TRUE) /\ tree' = tree
  <2>1. TypeOK'
    BY <1>1, <1>6, ReturnFacts DEF TypeOK, IsRestore
  <2> QED BY <1>1, <1>3, <1>4, <1>6, <2>1
<1>7. CASE /\ tree' = [tree EXCEPT ![IF entry.before.kind = "link" THEN p ELSE place] = entry.before]
           /\ restore' = [restore EXCEPT !.pc = "check", !.path = NoData]
           /\ Noted(Undone)
  <2>1. place \in Path /\ entry.before \in State
    BY <1>3, <1>4, <1>5, StateCases, TypeFacts DEF Entry
  <2>2. tree' \in Tree
    BY <1>3, <1>7, <2>1 DEF TypeOK, Tree
  <2>3. /\ IsRestore(restore') /\ SameCopy
        /\ restore'.todo = restore.todo /\ restore'.raced = restore.raced
        /\ restore'.pc = "check" /\ restore'.path = NoData
    BY <1>7, RestoreGoesOn
  <2>4. TypeOK'
    BY <1>1, <1>7, <2>2, <2>3, NotedFacts DEF TypeOK, IsRestore
  <2> QED BY <1>1, <1>3, <1>4, <1>5, <1>7, <2>3, <2>4
<1> QED BY <1>3, <1>4, <1>5, <1>6, <1>7 DEF RestoreWrite

LEMMA RestoreEndFacts ==
    ASSUME TypeOK, RestoreEnd
    PROVE  /\ TypeOK'
           /\ restore'.pc = "idle" /\ ~restore'.sealed /\ restore'.todo = {} /\ ~restore'.raced
           /\ UNCHANGED <<tree, record, blob, ring, job, printed, foreign, history>>
<1>1. restore' = NoRestore /\ UNCHANGED <<tree, record, blob, ring, job, printed, foreign, history>>
  BY DEF RestoreEnd
<1> QED BY <1>1, NoRestoreIsOne DEF TypeOK, IsRestore, NoRestore

LEMMA RestoreCrashFacts ==
    ASSUME TypeOK, CallInv, RestoreCrash
    PROVE  /\ TypeOK' /\ restore.pc # "idle"
           /\ \E torn \in BOOLEAN : (torn <=> restore.pc = "write") /\ Return(torn)
           /\ UNCHANGED <<tree, record, blob, ring, job, printed, foreign>>
<1>1. /\ restore.pc # "idle" /\ Return(restore.pc = "write")
      /\ UNCHANGED <<tree, record, blob, ring, job, printed, foreign>>
  BY DEF RestoreCrash
<1>2. PICK torn \in BOOLEAN : (torn <=> restore.pc = "write") /\ Return(torn)
  <2>1. CASE restore.pc = "write"
    <3>1. Return(TRUE)
      BY <1>1, <2>1 DEF Return
    <3> QED BY <2>1, <3>1
  <2>2. CASE restore.pc # "write"
    <3>1. Return(FALSE)
      BY <1>1, <2>2 DEF Return
    <3> QED BY <2>2, <3>1
  <2> QED BY <2>1, <2>2
<1> QED BY <1>1, <1>2, ReturnFacts DEF TypeOK, IsRestore

LEMMA ForeignFacts ==
    ASSUME TypeOK, ForeignWrite
    PROVE  /\ TypeOK' /\ Noted(NoCapture) /\ Slipped
           /\ UNCHANGED <<record, blob, ring, job, printed>>
<1>1. PICK write \in Foreign :
        /\ foreign < MaxForeign
        /\ foreign' = foreign + 1
        /\ tree' = [tree EXCEPT ![write[1]] = write[2]]
        /\ Noted(NoCapture) /\ Slipped
        /\ UNCHANGED <<record, blob, ring, job, printed>>
  BY DEF ForeignWrite
<1>2. write[1] \in Path /\ write[2] \in State
  BY CaptureAssumption
<1>3. tree' \in Tree
  BY <1>1, <1>2 DEF TypeOK, Tree
<1>4. foreign' \in 0..MaxForeign
  BY <1>1, CaptureAssumption DEF TypeOK
<1> QED BY <1>1, <1>3, <1>4, NotedFacts, SlippedFacts DEF TypeOK, IsRestore


-----------------------------------------------------------------------------
(* Every step keeps the invariant of the calls. *)

LEMMA InitCall == Init => CallInv
<1> SUFFICES ASSUME Init PROVE CallInv
  OBVIOUS
<1>1. ASSUME NEW r \in Runner
      PROVE  /\ job[r].pc = "idle" /\ job[r].id = NoCapture /\ job[r].lane = "plain"
             /\ DOMAIN job[r].entries = {}
  BY DEF Init, Idle
<1>2. Single
  BY <1>1 DEF Single, Holds
<1>3. ASSUME NEW r \in Runner PROVE Fits(r) /\ Phase(r) /\ Surface(r) /\ Confirmed(r)
  BY <1>1 DEF Fits, Phase, Surface, Confirmed, Holds
<1>4. ASSUME NEW c \in Capture PROVE Published(c)
  <2>1. PICK past \in Pasts : record = past.record
    BY DEF Init
  <2> QED BY <2>1, CaptureAssumption DEF Published, Owned
<1>5. RestoreFits
  BY DEF Init, NoRestore, RestoreFits
<1> QED BY <1>2, <1>3, <1>4, <1>5 DEF CallInv

\* A step of one call, which touches no capture but its own.
LEMMA OthersStay ==
    ASSUME TypeOK, CallInv, NEW r \in Runner, NEW s \in Runner \ {r}, job'[s] = job[s],
           printed \subseteq printed',
           \A c \in Capture \ {job[r].id} : record'[c] = record[c] /\ blob'[c] = blob[c]
    PROVE  (Fits(s) /\ Phase(s) /\ Surface(s) /\ Confirmed(s))'
<1>1. Fits(s) /\ Phase(s) /\ Surface(s) /\ Confirmed(s)
  BY DEF CallInv
<1>2. Holds(s) => job[s].id \in Capture /\ job[s].id # job[r].id
  BY TypeFacts, JobFacts DEF CallInv, Single, Holds
<1>3. Fits(s)' /\ Surface(s)' /\ Confirmed(s)' /\ (Holds(s)' <=> Holds(s))
  BY <1>1 DEF Fits, Surface, Confirmed, Holds
<1>4. Holds(s) => record'[job[s].id] = record[job[s].id] /\ blob'[job[s].id] = blob[job[s].id]
  BY <1>2
<1>5. Phase(s)'
  BY <1>1, <1>3, <1>4 DEF Phase, Owned, Agree, Holds
<1> QED BY <1>3, <1>5

LEMMA CallStep ==
    ASSUME TypeOK, CallInv, NEW r \in Runner, \A s \in Runner \ {r} : job'[s] = job[s],
           \/ job'[r].id \in {job[r].id, NoCapture}
           \/ \A s \in Runner : job[s].id # job'[r].id,
           printed \subseteq printed', restore' = restore,
           \A c \in Capture \ {job[r].id} : record'[c] = record[c] /\ blob'[c] = blob[c],
           \A c \in Capture : c = job[r].id => Published(c)',
           Fits(r)', Phase(r)', Surface(r)', Confirmed(r)'
    PROVE  CallInv'
<1>1. Single'
  <2>1. Single
    BY DEF CallInv
  <2> QED BY <2>1 DEF Single, Holds
<1>2. ASSUME NEW s \in Runner PROVE (Fits(s) /\ Phase(s) /\ Surface(s) /\ Confirmed(s))'
  <2>1. CASE s = r
    BY <2>1
  <2>2. CASE s # r
    BY <2>2, OthersStay
  <2> QED BY <2>1, <2>2
<1>3. ASSUME NEW c \in Capture PROVE Published(c)'
  <2>1. CASE c = job[r].id
    BY <2>1
  <2>2. CASE c # job[r].id
    <3>1. Published(c) /\ record'[c] = record[c] /\ blob'[c] = blob[c]
      BY <2>2 DEF CallInv
    <3> QED BY <3>1 DEF Published, Owned
  <2> QED BY <2>1, <2>2
<1>4. RestoreFits'
  BY DEF CallInv, RestoreFits
<1> QED BY <1>1, <1>2, <1>3, <1>4 DEF CallInv

LEMMA SubmitCall ==
    ASSUME TypeOK, CallInv, NEW r \in Runner, Submit(r)
    PROVE  CallInv'
<1>1. job[r].pc = "idle" /\ UNCHANGED <<tree, record, blob, ring, restore, foreign, history>>
  BY DEF Submit
<1>2. job[r].id = NoCapture /\ DOMAIN job[r].entries = {} /\ job[r].id \notin Capture
  BY <1>1, CaptureAssumption DEF CallInv, Phase, Holds
<1>3. PICK plan \in Plans :
        LET groups == Expand(tree, plan) IN
        \/ /\ job' = job /\ printed' = printed \union {<<plan, Flat(groups)>>}
        \/ /\ printed' = printed
           /\ \E j : /\ job' = [job EXCEPT ![r] = j] /\ IsJob(j)
                     /\ j.plan = plan /\ j.groups = groups /\ j.entries = job[r].entries
                     /\ \/ /\ j.pc = "run" /\ j.id = job[r].id /\ j.todo = job[r].todo
                           /\ \/ j.lane \in {"plain", "unbacked"}
                              \/ j.lane = "unprotected" /\ <<plan, Flat(groups)>> \in printed
                        \/ /\ j.pc = "capture" /\ j.todo = Flat(groups)
                           /\ j.lane = IF HasGlob(plan) THEN "glob" ELSE "explicit"
                           /\ j.id = NewCaptureID /\ NewCaptureID \in Capture
                           /\ Fresh(NewCaptureID)
  BY SubmitCases
<1>4. PICK groups : groups = Expand(tree, plan)
  OBVIOUS
<1>5. CASE job' = job /\ printed \subseteq printed'
  <2>1. (Fits(r) /\ Phase(r) /\ Surface(r) /\ Confirmed(r))'
    <3>1. Fits(r) /\ Phase(r) /\ Surface(r) /\ Confirmed(r)
      BY DEF CallInv
    <3> QED BY <1>1, <1>2, <1>5, <3>1 DEF Fits, Phase, Surface, Confirmed, Holds
  <2> QED BY <1>1, <1>2, <1>5, <2>1, CallStep
<1>6. ASSUME NEW j, job' = [job EXCEPT ![r] = j], IsJob(j), j.plan = plan, j.groups = groups,
             j.entries = job[r].entries, printed' = printed,
             j.pc = "run", j.id = NoCapture,
             \/ j.lane \in {"plain", "unbacked"}
             \/ j.lane = "unprotected" /\ <<plan, Flat(groups)>> \in printed
      PROVE  CallInv'
  <2>1. job'[r] = j /\ \A s \in Runner \ {r} : job'[s] = job[s]
    BY <1>6, JobsUpdate
  <2>2. (Fits(r) /\ Phase(r) /\ Surface(r) /\ Confirmed(r))'
    BY <1>6, <2>1 DEF Fits, Phase, Surface, Confirmed, Holds
  <2>3. job'[r].id = NoCapture /\ printed \subseteq printed'
    BY <1>6, <2>1
  <2> QED BY <1>1, <1>2, <2>1, <2>2, <2>3, CallStep
<1>7. ASSUME NEW j, job' = [job EXCEPT ![r] = j], IsJob(j), j.plan = plan, j.groups = groups,
             j.entries = job[r].entries, printed' = printed,
             j.pc = "capture", j.todo = Flat(groups), j.id \in Capture, Fresh(j.id),
             j.lane = IF HasGlob(plan) THEN "glob" ELSE "explicit"
      PROVE  CallInv'
  <2>1. job'[r] = j /\ \A s \in Runner \ {r} : job'[s] = job[s]
    BY <1>7, JobsUpdate
  <2>2. /\ groups \in Seq(SUBSET Path) /\ DOMAIN groups = DOMAIN plan.operands
        /\ \A i \in DOMAIN plan.operands : groups[i] = Matches(tree, plan.operands[i])
    BY <1>4, CaptureAssumption, ExpandFacts
  <2>3. Flat(groups) \subseteq Path
    BY <2>2, FlatFacts
  <2>4. j.id # NoCapture /\ record[j.id] = Unwritten /\ \A s \in Runner : job[s].id # j.id
    BY <1>7, CaptureAssumption DEF Fresh
  <2>5. Fits(r)'
    BY <1>7, <2>1, <2>3 DEF Fits
  <2>6. DOMAIN j.entries = {} /\ j.lane \in {"glob", "explicit"}
    BY <1>2, <1>7
  <2>7. Phase(r)'
    BY <1>1, <1>7, <2>1, <2>4, <2>6 DEF Phase, Holds, Owned
  <2>8. Surface(r)'
    <3>1. j.lane = "explicit" =>
            ~HasGlob(plan) /\ \A i \in DOMAIN groups : groups[i] = plan.operands[i].names
      BY <1>7, <2>2 DEF HasGlob, Matches
    <3> QED BY <1>7, <2>1, <2>2, <2>6, <3>1 DEF Surface
  <2>9. Confirmed(r)'
    BY <2>1, <2>6 DEF Confirmed
  <2>10. /\ \A s \in Runner : job[s].id # job'[r].id
         /\ printed \subseteq printed'
    BY <1>7, <2>1, <2>4
  <2> QED BY <1>1, <1>2, <2>1, <2>5, <2>7, <2>8, <2>9, <2>10, CallStep
<1> QED BY <1>2, <1>3, <1>4, <1>5, <1>6, <1>7

LEMMA CapturePathCall ==
    ASSUME TypeOK, CallInv, NEW r \in Runner, CapturePath(r)
    PROVE  CallInv'
<1>1. PICK p \in job[r].todo, e \in Entry :
        /\ p \in Path /\ e.before = tree[p]
        /\ job' = [job EXCEPT ![r].todo = @ \ {p}, ![r].entries = Put(@, p, e)]
        /\ \/ ~e.owned /\ blob' = blob
           \/ e.owned /\ blob' = [blob EXCEPT ![job[r].id] = Put(@, p, tree[p].data)]
  BY CapturePathFacts
<1>2. job[r].pc = "capture" /\ UNCHANGED <<tree, record, restore, printed, foreign, history>>
  BY CapturePathFacts
<1>3. IsJob(job[r]) /\ job[r].id \in Capture /\ job[r].id # NoCapture
  BY <1>2, TypeFacts, JobFacts DEF CallInv, Phase, Holds
<1>4. PICK c \in Capture : c = job[r].id
  BY <1>3
<1>5. PICK f : f = job[r].entries
  OBVIOUS
<1>6. PICK g : g = Put(f, p, e)
  OBVIOUS
<1>7. /\ DOMAIN g = DOMAIN f \union {p} /\ g[p] = e
      /\ \A q \in DOMAIN f : q # p => g[q] = f[q]
  BY <1>6 DEF Put
<1>8. /\ job'[r].pc = job[r].pc /\ job'[r].plan = job[r].plan /\ job'[r].groups = job[r].groups
      /\ job'[r].lane = job[r].lane /\ job'[r].id = c /\ job'[r].entries = g
      /\ job'[r].todo = job[r].todo \ {p}
      /\ \A s \in Runner \ {r} : job'[s] = job[s]
  <2>1. PICK new : new = [job[r] EXCEPT !.todo = job[r].todo \ {p}, !.entries = g]
    OBVIOUS
  <2>2. /\ new.pc = job[r].pc /\ new.plan = job[r].plan /\ new.groups = job[r].groups
        /\ new.lane = job[r].lane /\ new.id = job[r].id /\ new.entries = g
        /\ new.todo = job[r].todo \ {p}
    BY <1>3, <2>1 DEF IsJob, Job
  <2>3. job' = [job EXCEPT ![r] = new]
    BY <1>1, <1>5, <1>6, <2>1
  <2>4. DOMAIN job = Runner
    BY DEF TypeOK
  <2> QED BY <1>4, <2>2, <2>3, <2>4
<1>9. Fits(r) /\ Phase(r) /\ Surface(r) /\ Confirmed(r) /\ Published(c)
  BY DEF CallInv
<1>10. Owned(c, f) /\ record[c] = Unwritten
  BY <1>2, <1>3, <1>4, <1>5, <1>9 DEF Phase, Holds
<1>11. Owned(c, g)'
  <2>1. CASE ~e.owned /\ blob' = blob
    BY <1>7, <1>10, <2>1 DEF Owned
  <2>2. CASE e.owned /\ blob' = [blob EXCEPT ![job[r].id] = Put(@, p, tree[p].data)]
    <3>1. PICK b : b = Put(blob[c], p, tree[p].data)
      OBVIOUS
    <3>2. /\ DOMAIN b = DOMAIN blob[c] \union {p} /\ b[p] = tree[p].data
          /\ \A q \in DOMAIN blob[c] : q # p => b[q] = blob[c][q]
      BY <3>1 DEF Put
    <3>3. blob'[c] = b
      BY <1>4, <2>2, <3>1 DEF TypeOK
    <3> QED BY <1>1, <1>7, <1>10, <3>2, <3>3 DEF Owned
  <2> QED BY <1>1, <2>1, <2>2
<1>12. Fits(r)' /\ Surface(r)' /\ Confirmed(r)'
  <2>1. Fits(r)'
    BY <1>2, <1>8, <1>9 DEF Fits
  <2>2. Surface(r)'
    <3>1. Flat(job[r].groups) = job[r].todo \union DOMAIN f
      BY <1>2, <1>3, <1>5, <1>9 DEF Surface, Holds
    <3>2. p \in job[r].todo
      BY <1>1
    <3>3. Flat(job[r].groups) = (job[r].todo \ {p}) \union DOMAIN g
      BY <1>7, <3>1, <3>2
    <3> QED BY <1>2, <1>3, <1>8, <1>9, <3>3 DEF Surface, Holds
  <2>3. Confirmed(r)'
    BY <1>2, <1>8, <1>9 DEF Confirmed
  <2> QED BY <2>1, <2>2, <2>3
<1>13. Phase(r)'
  BY <1>2, <1>3, <1>4, <1>8, <1>9, <1>10, <1>11 DEF Phase, Holds
<1>14. Published(c)'
  BY <1>2, <1>10 DEF Published, Unwritten
<1>15. \A d \in Capture \ {job[r].id} : record'[d] = record[d] /\ blob'[d] = blob[d]
  <2>1. DOMAIN blob = Capture
    BY DEF TypeOK
  <2> QED BY <1>1, <1>2, <2>1
<1>16. \A d \in Capture : d = job[r].id => Published(d)'
  BY <1>4, <1>14
<1>17. printed \subseteq printed' /\ restore' = restore /\ job'[r].id = job[r].id
  BY <1>2, <1>4, <1>8
<1> QED BY <1>8, <1>12, <1>13, <1>15, <1>16, <1>17, CallStep

\* A call that ends, or goes on, without its capture.
LEMMA WithoutCapture ==
    ASSUME TypeOK, CallInv, NEW r \in Runner, \A s \in Runner \ {r} : job'[s] = job[s],
           job'[r].id = NoCapture, job'[r].pc \in {"run", "done"},
           job'[r].lane \in {"plain", "unbacked"},
           job'[r].pc = "run" => job'[r].plan \in Plans,
           printed' = printed, restore' = restore,
           \A c \in Capture \ {job[r].id} : record'[c] = record[c] /\ blob'[c] = blob[c],
           \A c \in Capture : c = job[r].id =>
             \/ record'[c] = Unwritten
             \/ record'[c] = record[c] /\ blob'[c] = blob[c]
    PROVE  CallInv'
<1>1. (Fits(r) /\ Phase(r) /\ Surface(r) /\ Confirmed(r))'
  BY DEF Fits, Phase, Surface, Confirmed, Holds
<1>2. ASSUME NEW c \in Capture, c = job[r].id PROVE Published(c)'
  <2>1. Published(c)
    BY DEF CallInv
  <2> QED BY <1>2, <2>1 DEF Published, Owned, Unwritten
<1> QED BY <1>1, <1>2, CallStep

LEMMA CaptureFailsCall ==
    ASSUME TypeOK, CallInv, NEW r \in Runner, CaptureFails(r)
    PROVE  CallInv'
<1>1. /\ job[r].pc = "capture" /\ job[r].id \in Capture
      /\ UNCHANGED <<tree, ring, restore, printed, foreign, history>>
      /\ \A s \in Runner \ {r} : job'[s] = job[s]
      /\ job'[r].id = NoCapture
      /\ \/ /\ job'[r].pc = "done" /\ job'[r].lane = "plain" /\ UNCHANGED <<record, blob>>
         \/ /\ job'[r].pc = "run" /\ job'[r].lane = "unbacked" /\ job'[r].plan = job[r].plan
            /\ record' = [record EXCEPT ![job[r].id] = Unwritten]
            /\ blob' = [blob EXCEPT ![job[r].id] = <<>>]
  BY CaptureFailsFacts
<1>2. \A c \in Capture \ {job[r].id} : record'[c] = record[c] /\ blob'[c] = blob[c]
  BY <1>1 DEF TypeOK
<1>3. \A c \in Capture : c = job[r].id =>
        \/ record'[c] = Unwritten
        \/ record'[c] = record[c] /\ blob'[c] = blob[c]
  BY <1>1 DEF TypeOK
<1>4. job[r].plan \in Plans
  BY <1>1 DEF CallInv, Phase
<1> QED BY <1>1, <1>2, <1>3, <1>4, WithoutCapture

LEMMA PublishCall ==
    ASSUME TypeOK, CallInv, NEW r \in Runner, Publish(r)
    PROVE  CallInv'
<1>1. /\ job[r].pc = "capture" /\ job[r].todo = {} /\ job[r].id \in Capture
      /\ record' = [record EXCEPT ![job[r].id] =
                      [written |-> TRUE, sealed |-> FALSE, entries |-> job[r].entries]]
      /\ job' = [job EXCEPT ![r].pc = "run"]
      /\ UNCHANGED <<tree, blob, ring, restore, printed, foreign, history>>
  BY PublishTypes
<1>2. PICK c \in Capture : c = job[r].id
  BY <1>1
<1>3. /\ record'[c].written /\ ~record'[c].sealed /\ record'[c].entries = job[r].entries
      /\ \A d \in Capture \ {c} : record'[d] = record[d]
  BY <1>1, <1>2 DEF TypeOK
<1>4. /\ job'[r].pc = "run" /\ job'[r].plan = job[r].plan /\ job'[r].groups = job[r].groups
      /\ job'[r].lane = job[r].lane /\ job'[r].id = c /\ job'[r].entries = job[r].entries
      /\ job'[r].todo = job[r].todo
      /\ \A s \in Runner \ {r} : job'[s] = job[s]
  <2>1. IsJob(job[r]) /\ DOMAIN job = Runner
    BY TypeFacts DEF TypeOK
  <2> QED BY <1>1, <1>2, <2>1, JobFacts
<1>5. Fits(r) /\ Phase(r) /\ Surface(r) /\ Confirmed(r) /\ c # NoCapture
  BY CaptureAssumption DEF CallInv
<1>6. Owned(c, job[r].entries)
  BY <1>2, <1>5 DEF Phase, Holds
<1>7. Published(c)'
  BY <1>1, <1>3, <1>6 DEF Published, Owned
<1>8. Phase(r)'
  BY <1>1, <1>2, <1>3, <1>4, <1>5, <1>6 DEF Phase, Holds, Owned, Agree
<1>9. Fits(r)' /\ Surface(r)' /\ Confirmed(r)'
  BY <1>1, <1>2, <1>4, <1>5 DEF Fits, Surface, Confirmed, Holds
<1>10. \A d \in Capture \ {job[r].id} : record'[d] = record[d] /\ blob'[d] = blob[d]
  BY <1>1, <1>2, <1>3
<1>11. \A d \in Capture : d = job[r].id => Published(d)'
  BY <1>2, <1>7
<1>12. printed \subseteq printed' /\ restore' = restore /\ job'[r].id = job[r].id
  BY <1>1, <1>2, <1>4
<1> QED BY <1>4, <1>8, <1>9, <1>10, <1>11, <1>12, CallStep

LEMMA QueueFullCall ==
    ASSUME TypeOK, CallInv, NEW r \in Runner, QueueFull(r)
    PROVE  CallInv'
<1>1. /\ job[r].id \in Capture
      /\ record' = [record EXCEPT ![job[r].id] = Unwritten]
      /\ blob' = [blob EXCEPT ![job[r].id] = <<>>]
      /\ job'[r].pc = "done" /\ job'[r].id = NoCapture /\ job'[r].lane = "plain"
      /\ \A s \in Runner \ {r} : job'[s] = job[s]
      /\ UNCHANGED <<tree, ring, restore, printed, foreign, history>>
  BY QueueFullTypes
<1>2. \A c \in Capture \ {job[r].id} : record'[c] = record[c] /\ blob'[c] = blob[c]
  BY <1>1 DEF TypeOK
<1>3. \A c \in Capture : c = job[r].id => record'[c] = Unwritten
  BY <1>1 DEF TypeOK
<1> QED BY <1>1, <1>2, <1>3, WithoutCapture

LEMMA AbandonCall ==
    ASSUME TypeOK, CallInv, NEW r \in Runner, Abandon(r)
    PROVE  CallInv'
<1>1. /\ job'[r].pc = "done" /\ job'[r].id = NoCapture /\ job'[r].lane = "plain"
      /\ \A s \in Runner \ {r} : job'[s] = job[s]
      /\ UNCHANGED <<tree, record, blob, ring, restore, printed, foreign, history>>
  BY AbandonFacts
<1> QED BY <1>1, WithoutCapture

\* The shell works on what was captured, and on nothing else.
LEMMA WordsStandForTheSurface ==
    ASSUME TypeOK, CallInv, NEW r \in Runner, job[r].pc = "run", Holds(r), NEW t
    PROVE  Expand(t, Words(r)) = job[r].groups
<1>1. job[r].plan \in Plan /\ job[r].groups \in Seq(SUBSET Path) /\ Phase(r) /\ Surface(r)
  BY TypeFacts, JobFacts DEF CallInv
<1>2. CASE job[r].lane = "glob"
  BY <1>1, <1>2, PinFacts DEF Words
<1>3. CASE job[r].lane = "explicit"
  <2>1. /\ ~HasGlob(job[r].plan) /\ DOMAIN job[r].groups = DOMAIN job[r].plan.operands
        /\ \A i \in DOMAIN job[r].groups : job[r].groups[i] = job[r].plan.operands[i].names
    BY <1>1, <1>3 DEF Surface
  <2> QED BY <1>1, <1>3, <2>1, ExplicitExpand DEF Words
<1> QED BY <1>1, <1>2, <1>3 DEF Phase

LEMMA StartCall ==
    ASSUME TypeOK, CallInv, NEW r \in Runner, Start(r)
    PROVE  CallInv'
<1>1. /\ job[r].pc = "run" /\ job'[r].pc = "effect"
      /\ job'[r].todo = Work(tree, Words(r), Expand(tree, Words(r)))
      /\ job'[r].todo \subseteq Path \X Path
      /\ job'[r].plan = job[r].plan /\ job'[r].groups = job[r].groups
      /\ job'[r].lane = job[r].lane /\ job'[r].id = job[r].id
      /\ job'[r].entries = job[r].entries
      /\ \A s \in Runner \ {r} : job'[s] = job[s]
      /\ UNCHANGED <<tree, record, blob, ring, restore, printed, foreign>>
  BY StartTypes
<1>2. Fits(r) /\ Phase(r) /\ Surface(r) /\ Confirmed(r)
  BY DEF CallInv
<1>3. Fits(r)' /\ Phase(r)' /\ Confirmed(r)'
  BY <1>1, <1>2 DEF Fits, Phase, Confirmed, Holds, Owned, Agree
<1>4. ASSUME Holds(r)
      PROVE  \A item \in job'[r].todo :
               /\ item \in (DOMAIN job[r].entries) \X (DOMAIN job[r].entries)
               /\ job[r].plan.verb # "mv" => item[1] = item[2]
               /\ job[r].plan.verb = "mv" => item[2] \in job[r].groups[2]
  <2>1. PICK words \in Plan : words = Words(r) /\ words.verb = job[r].plan.verb
    BY TypeFacts, WordsFacts
  <2>2. PICK groups \in Seq(SUBSET Path) : groups = job[r].groups
    BY TypeFacts, JobFacts
  <2>3. job'[r].todo = Work(tree, words, groups)
    BY <1>1, <1>4, <2>1, <2>2, WordsStandForTheSurface
  <2>4. \A item \in Work(tree, words, groups) :
          /\ item \in Flat(groups) \X Flat(groups)
          /\ words.verb # "mv" => item[1] = item[2]
          /\ words.verb = "mv" => item[2] \in groups[2]
    BY WorkFacts
  <2>5. Flat(groups) = DOMAIN job[r].entries
    BY <1>1, <1>2, <1>4, <2>2 DEF Surface
  <2> QED BY <2>1, <2>2, <2>3, <2>4, <2>5
<1>5. Surface(r)'
  BY <1>1, <1>2, <1>4 DEF Surface, Holds
<1>6. \A c \in Capture : c = job[r].id => Published(c)'
  BY <1>1 DEF CallInv, Published, Owned
<1>7. \A c \in Capture \ {job[r].id} : record'[c] = record[c] /\ blob'[c] = blob[c]
  BY <1>1
<1> QED BY <1>1, <1>3, <1>5, <1>6, <1>7, CallStep

LEMMA EffectStepCall ==
    ASSUME TypeOK, CallInv, NEW r \in Runner, EffectStep(r)
    PROVE  CallInv'
<1>1. /\ job[r].pc = "effect"
      /\ UNCHANGED <<record, blob, ring, printed, foreign>>
      /\ job'[r].todo \subseteq job[r].todo
      /\ job'[r].pc = "effect" /\ job'[r].plan = job[r].plan /\ job'[r].groups = job[r].groups
      /\ job'[r].lane = job[r].lane /\ job'[r].id = job[r].id
      /\ job'[r].entries = job[r].entries
      /\ \A s \in Runner \ {r} : job'[s] = job[s]
  BY EffectStepFacts
<1>2. \A s \in Runner : (Fits(s) /\ Phase(s) /\ Surface(s) /\ Confirmed(s))'
  <2>1. ASSUME NEW s \in Runner \ {r} PROVE (Fits(s) /\ Phase(s) /\ Surface(s) /\ Confirmed(s))'
    BY <1>1, <2>1, OthersStay
  <2>2. Fits(r) /\ Phase(r) /\ Surface(r) /\ Confirmed(r)
    BY DEF CallInv
  <2>3. Fits(r)' /\ Phase(r)' /\ Confirmed(r)'
    BY <1>1, <2>2 DEF Fits, Phase, Confirmed, Holds, Owned, Agree
  <2>4. Surface(r)'
    BY <1>1, <2>2 DEF Surface, Holds
  <2> QED BY <2>1, <2>3, <2>4
<1>3. Single'
  BY <1>1 DEF CallInv, Single, Holds
<1>4. \A c \in Capture : Published(c)'
  BY <1>1 DEF CallInv, Published, Owned
<1>5. RestoreFits'
  <2>1. /\ restore'.pc = restore.pc /\ restore'.id = restore.id
        /\ restore'.entries = restore.entries
        /\ restore'.todo = restore.todo /\ restore'.path = restore.path
    BY EffectStepFacts, SlippedFacts
  <2> QED BY <2>1 DEF CallInv, RestoreFits
<1> QED BY <1>2, <1>3, <1>4, <1>5 DEF CallInv

LEMMA StopCall ==
    ASSUME TypeOK, CallInv, NEW r \in Runner, Stop(r)
    PROVE  CallInv'
<1>1. /\ job[r].pc = "effect"
      /\ UNCHANGED <<tree, record, blob, ring, restore, printed, foreign>>
      /\ \A s \in Runner \ {r} : job'[s] = job[s]
      /\ job'[r].id = job[r].id
      /\ job[r].id = NoCapture => job'[r].pc = "done" /\ job'[r].lane = "plain"
      /\ job[r].id # NoCapture =>
           /\ job[r].id \in Capture
           /\ job'[r].pc = "seal" /\ job'[r].plan = job[r].plan /\ job'[r].lane = job[r].lane
           /\ job'[r].groups = job[r].groups
           /\ job'[r].entries = job[r].entries /\ job'[r].todo = DOMAIN job[r].entries
  BY StopFacts
<1>2. CASE job[r].id = NoCapture
  BY <1>1, <1>2, WithoutCapture
<1>3. CASE job[r].id # NoCapture
  <2>1. Fits(r) /\ Phase(r) /\ Surface(r) /\ Confirmed(r)
    BY DEF CallInv
  <2>2. Fits(r)' /\ Phase(r)' /\ Confirmed(r)'
    BY <1>1, <1>3, <2>1 DEF Fits, Phase, Confirmed, Holds, Owned, Agree
  <2>3. Surface(r)'
    BY <1>1, <1>3, <2>1 DEF Surface, Holds
  <2>4. \A c \in Capture : c = job[r].id => Published(c)'
    BY <1>1 DEF CallInv, Published, Owned
  <2> QED BY <1>1, <2>2, <2>3, <2>4, CallStep
<1> QED BY <1>2, <1>3

LEMMA SealPathCall ==
    ASSUME TypeOK, CallInv, NEW r \in Runner, SealPath(r)
    PROVE  CallInv'
<1>1. /\ job[r].pc = "seal"
      /\ UNCHANGED <<tree, record, blob, ring, restore, printed, foreign, history>>
      /\ \A s \in Runner \ {r} : job'[s] = job[s]
      /\ job'[r].pc = "seal" /\ job'[r].plan = job[r].plan /\ job'[r].groups = job[r].groups
      /\ job'[r].lane = job[r].lane /\ job'[r].id = job[r].id
      /\ DOMAIN job'[r].entries = DOMAIN job[r].entries
  BY SealPathFacts
<1>2. PICK f, g : f = job[r].entries /\ g = job'[r].entries
  OBVIOUS
<1>3. /\ job'[r].todo \subseteq job[r].todo
      /\ DOMAIN f = DOMAIN g
      /\ \A q \in DOMAIN f : g[q].before = f[q].before /\ g[q].owned = f[q].owned
  BY <1>1, <1>2, SealPathFacts
<1>4. Fits(r) /\ Phase(r) /\ Surface(r) /\ Confirmed(r)
  BY DEF CallInv
<1>5. Fits(r)' /\ Surface(r)' /\ Confirmed(r)'
  BY <1>1, <1>2, <1>3, <1>4 DEF Fits, Surface, Confirmed, Holds
<1>6. Holds(r) /\ Owned(job[r].id, f) /\ Agree(record[job[r].id].entries, f)
  BY <1>1, <1>2, <1>4 DEF Phase
<1>7. PICK c : c = job[r].id
  OBVIOUS
<1>8. Owned(c, g)' /\ Agree(record'[c].entries, g)
  BY <1>1, <1>3, <1>6, <1>7 DEF Owned, Agree
<1>9. Phase(r)'
  BY <1>1, <1>2, <1>4, <1>7, <1>8 DEF Phase, Holds
<1>10. \A d \in Capture : d = job[r].id => Published(d)'
  BY <1>1 DEF CallInv, Published, Owned
<1>11. \A d \in Capture \ {job[r].id} : record'[d] = record[d] /\ blob'[d] = blob[d]
  BY <1>1
<1> QED BY <1>1, <1>5, <1>9, <1>10, <1>11, CallStep

LEMMA SealWriteCall ==
    ASSUME TypeOK, CallInv, NEW r \in Runner, SealWrite(r)
    PROVE  CallInv'
<1>1. /\ job[r].pc = "seal" /\ job[r].todo = {} /\ job[r].id \in Capture
      /\ record' = [record EXCEPT ![job[r].id] =
                      [written |-> TRUE, sealed |-> TRUE, entries |-> job[r].entries]]
      /\ job'[r].pc = "done" /\ job'[r].id = NoCapture /\ job'[r].lane = "plain"
      /\ \A s \in Runner \ {r} : job'[s] = job[s]
      /\ UNCHANGED <<tree, blob, ring, restore, printed, foreign, history>>
  BY SealWriteFacts
<1>2. PICK c \in Capture : c = job[r].id
  BY <1>1
<1>3. /\ record'[c].entries = job[r].entries
      /\ \A d \in Capture \ {c} : record'[d] = record[d]
  BY <1>1, <1>2 DEF TypeOK
<1>4. Owned(c, job[r].entries)
  BY <1>1, <1>2, CaptureAssumption DEF CallInv, Phase, Holds
<1>5. \A d \in Capture : d = job[r].id => Published(d)'
  BY <1>1, <1>2, <1>3, <1>4 DEF Published, Owned
<1>6. (Fits(r) /\ Phase(r) /\ Surface(r) /\ Confirmed(r))'
  BY <1>1 DEF Fits, Phase, Surface, Confirmed, Holds
<1>7. \A d \in Capture \ {job[r].id} : record'[d] = record[d] /\ blob'[d] = blob[d]
  BY <1>1, <1>2, <1>3
<1>8. printed \subseteq printed' /\ restore' = restore /\ job'[r].id \in {job[r].id, NoCapture}
  BY <1>1
<1> QED BY <1>1, <1>5, <1>6, <1>7, <1>8, CallStep

\* A step of nobody's call.
LEMMA RestoreStepCall ==
    ASSUME TypeOK, CallInv, UNCHANGED <<record, blob, job, printed>>, RestoreFits'
    PROVE  CallInv'
<1>1. Single'
  BY DEF CallInv, Single, Holds
<1>2. ASSUME NEW r \in Runner PROVE (Fits(r) /\ Phase(r) /\ Surface(r) /\ Confirmed(r))'
  <2>1. Fits(r) /\ Phase(r) /\ Surface(r) /\ Confirmed(r)
    BY DEF CallInv
  <2>2. Fits(r)' /\ Confirmed(r)' /\ Surface(r)'
    BY <2>1 DEF Fits, Confirmed, Surface, Holds
  <2>3. Phase(r)'
    BY <2>1 DEF Phase, Holds, Owned, Agree
  <2> QED BY <2>2, <2>3
<1>3. \A c \in Capture : Published(c)'
  BY DEF CallInv, Published, Owned
<1> QED BY <1>1, <1>2, <1>3 DEF CallInv

LEMMA OtherCall ==
    ASSUME TypeOK, CallInv, RestoreStep \/ ForeignWrite
    PROVE  TypeOK' /\ CallInv'
<1>1. RestoreFits
  BY DEF CallInv
<1>2. CASE RestoreBegin
  <2>1. RestoreFits'
    <3>1. PICK c \in Capture :
            /\ restore'.pc = "check" /\ restore'.id = c
            /\ restore'.entries = record[c].entries /\ restore'.todo = DOMAIN record[c].entries
      BY <1>2, RestoreBeginFacts
    <3> QED BY <3>1 DEF RestoreFits
  <2> QED BY <1>2, <2>1, RestoreBeginFacts, RestoreStepCall
<1>3. CASE RestoreCheck
  <2>1. RestoreFits'
    <3>1. PICK p \in restore.todo :
             /\ p \in DOMAIN restore.entries
             /\ restore'.todo = restore.todo \ {p}
             /\ \/ restore'.pc = "check"
                \/ restore'.path = p /\ restore'.pc \in {"remove", "write"}
      BY <1>3, RestoreCheckFacts
    <3>2. SameCopy /\ restore.pc = "check"
      BY <1>3, RestoreCheckFacts
    <3> QED BY <1>1, <3>1, <3>2 DEF RestoreFits, SameCopy
  <2> QED BY <1>3, <2>1, RestoreCheckFacts, RestoreStepCall
<1>4. ASSUME restore'.pc = "idle", restore'.todo = {} PROVE RestoreFits'
  BY <1>4 DEF RestoreFits
<1>5. ASSUME NEW torn \in BOOLEAN, Return(torn), restore.pc # "idle" PROVE RestoreFits'
  BY <1>4, <1>5, ReturnFacts
<1>6. CASE RestoreRemove
  <2>1. RestoreFits'
    <3>1. CASE Return(FALSE)
      BY <1>5, <1>6, <3>1, RestoreRemoveFacts
    <3>2. CASE ~Return(FALSE)
      <4>1. /\ SameCopy /\ restore'.todo = restore.todo /\ restore.pc = "remove"
            /\ \/ restore'.pc = "check"
               \/ restore'.pc = "write" /\ restore'.path = restore.path
        BY <1>6, <3>2, RestoreRemoveFacts
      <4> QED BY <1>1, <4>1 DEF RestoreFits, SameCopy
    <3> QED BY <3>1, <3>2
  <2> QED BY <1>6, <2>1, RestoreRemoveFacts, RestoreStepCall
<1>7. CASE RestoreWrite
  <2>1. RestoreFits'
    <3>1. CASE Return(TRUE)
      BY <1>5, <1>7, <3>1, RestoreWriteFacts
    <3>2. CASE ~Return(TRUE)
      <4>1. /\ SameCopy /\ restore'.todo = restore.todo /\ restore.pc = "write"
            /\ restore'.pc = "check"
        BY <1>7, <3>2, RestoreWriteFacts
      <4> QED BY <1>1, <4>1 DEF RestoreFits, SameCopy
    <3> QED BY <3>1, <3>2
  <2> QED BY <1>7, <2>1, RestoreWriteFacts, RestoreStepCall
<1>8. CASE RestoreEnd
  BY <1>4, <1>8, RestoreEndFacts, RestoreStepCall
<1>9. CASE RestoreCrash
  <2>1. RestoreFits'
    BY <1>5, <1>9, RestoreCrashFacts
  <2> QED BY <1>9, <2>1, RestoreCrashFacts, RestoreStepCall
<1>10. CASE ForeignWrite
  <2>1. RestoreFits'
    <3>1. /\ restore'.pc = restore.pc /\ restore'.id = restore.id
          /\ restore'.entries = restore.entries
          /\ restore'.todo = restore.todo /\ restore'.path = restore.path
      BY <1>10, ForeignFacts, SlippedFacts
    <3> QED BY <1>1, <3>1 DEF RestoreFits
  <2> QED BY <1>10, <2>1, ForeignFacts, RestoreStepCall
<1> QED BY <1>2, <1>3, <1>6, <1>7, <1>8, <1>9, <1>10 DEF RestoreStep

LEMMA RunnerCall ==
    ASSUME TypeOK, CallInv, NEW r \in Runner, RunnerStep(r)
    PROVE  TypeOK' /\ CallInv'
<1>1. CASE Submit(r)
  BY <1>1, SubmitTypes, SubmitCall
<1>2. CASE CapturePath(r)
  BY <1>2, CapturePathTypes, CapturePathCall
<1>3. CASE CaptureFails(r)
  BY <1>3, CaptureFailsTypes, CaptureFailsCall
<1>4. CASE Publish(r)
  BY <1>4, PublishTypes, PublishCall
<1>5. CASE QueueFull(r)
  BY <1>5, QueueFullTypes, QueueFullCall
<1>6. CASE Start(r)
  BY <1>6, StartTypes, StartCall
<1>7. CASE EffectStep(r)
  BY <1>7, EffectStepFacts, EffectStepCall
<1>8. CASE Stop(r)
  BY <1>8, StopFacts, StopCall
<1>9. CASE SealPath(r)
  BY <1>9, SealPathFacts, SealPathCall
<1>10. CASE SealWrite(r)
  BY <1>10, SealWriteFacts, SealWriteCall
<1>11. CASE Abandon(r)
  BY <1>11, AbandonFacts, AbandonCall
<1> QED BY <1>1, <1>2, <1>3, <1>4, <1>5, <1>6, <1>7, <1>8, <1>9, <1>10, <1>11 DEF RunnerStep

LEMMA NextCall == TypeOK /\ CallInv /\ [Next]_vars => TypeOK' /\ CallInv'
<1> SUFFICES ASSUME TypeOK, CallInv, [Next]_vars PROVE TypeOK' /\ CallInv'
  OBVIOUS
<1>1. CASE UNCHANGED vars
  <2>1. TypeOK'
    BY <1>1 DEF TypeOK, vars
  <2>2. RestoreFits'
    BY <1>1 DEF CallInv, RestoreFits, vars
  <2>3. CallInv'
    BY <1>1, <2>2, RestoreStepCall DEF vars
  <2> QED BY <2>1, <2>3
<1> QED BY <1>1, RunnerCall, OtherCall DEF Next

-----------------------------------------------------------------------------
(* What follows for the calls. *)

LEMMA CallInvariant == Spec => [](TypeOK /\ CallInv)
<1>1. Init => TypeOK /\ CallInv
  BY InitTypes, InitCall
<1>2. (TypeOK /\ CallInv) /\ [Next]_vars => (TypeOK /\ CallInv)'
  BY NextCall
<1> QED BY <1>1, <1>2, PTL DEF Spec

\* Whatever commands are called and however they, a revert and others interleave, every variable
\* keeps its type, and the ring of a path no more than its last versions.
THEOREM TypeCorrect == Spec => []TypeOK
<1>1. TypeOK /\ CallInv => TypeOK
  OBVIOUS
<1> QED BY <1>1, CallInvariant, PTL

\* A published capture owns the bytes of every file it captured, for good: no snapshot, no
\* eviction from the ring, no other call and no crash takes them away (capture.go:58-63).
THEOREM CapturesOwnTheirBytes == Spec => []CaptureOwnsBytes
<1>1. TypeOK /\ CallInv => CaptureOwnsBytes
  BY DEF CallInv, Published, Owned, CaptureOwnsBytes
<1> QED BY <1>1, CallInvariant, PTL

\* No command runs confirmed without a backup but the one whose options and paths were printed
\* with a refusal (guard.go:449-457).
THEOREM ConfirmedRunsArePrinted == Spec => []ConfirmedAsPrinted
<1>1. TypeOK /\ CallInv => ConfirmedAsPrinted
  BY DEF CallInv, Confirmed, ConfirmedAsPrinted
<1> QED BY <1>1, CallInvariant, PTL

\* What the property says of the call r in one step.
Inside(r) ==
  LET held == DOMAIN job[r].entries
  IN /\ job[r].pc = "effect" /\ job[r].id # NoCapture
     /\ job'[r].todo # job[r].todo
     => \/ Changed \subseteq held
        \/ /\ job[r].plan.verb = "mv"
           /\ \E p \in job[r].groups[2] : IsDirectory(tree, p)
        \/ /\ job[r].plan.verb = "rm" /\ "-r" \in job[r].plan.flags
           /\ Changed \subseteq held \union {Inner[p] : p \in {q \in held : tree[q] = Dir}}

LEMMA EffectStaysInside ==
    ASSUME TypeOK, CallInv, NEW r \in Runner, EffectStep(r), job[r].id # NoCapture
    PROVE  Inside(r)
<1>1. PICK p \in Path, to \in Path :
        <<p, to>> \in job[r].todo /\ tree' = Effect(tree, job[r].plan, <<p, to>>)
  BY EffectStepFacts
<1>2. PICK held : held = DOMAIN job[r].entries
  OBVIOUS
<1>3. /\ p \in held /\ to \in held
      /\ job[r].plan.verb # "mv" => p = to
      /\ job[r].plan.verb = "mv" => to \in job[r].groups[2]
  <2>1. Holds(r) /\ job[r].pc = "effect" /\ Surface(r)
    BY EffectStepFacts DEF CallInv, Holds
  <2> QED BY <1>1, <1>2, <2>1 DEF Surface
<1>4. job[r].plan \in Plan /\ tree \in Tree
  BY TypeFacts, JobFacts DEF TypeOK
<1>5. \A q \in Path :
         \/ q \in {p, to}
         \/ job[r].plan.verb = "mv" /\ IsDirectory(tree, to)
         \/ job[r].plan.verb = "rm" /\ "-r" \in job[r].plan.flags /\ tree[p] = Dir /\ q = Inner[p]
         \/ tree'[q] = tree[q]
  BY <1>1, <1>4, EffectFacts
<1>6. CASE job[r].plan.verb = "mv" /\ IsDirectory(tree, to)
  BY <1>3, <1>6 DEF Inside
<1>7. CASE job[r].plan.verb = "rm" /\ "-r" \in job[r].plan.flags
  <2>1. Changed \subseteq held \union {Inner[q] : q \in {q \in held : tree[q] = Dir}}
    BY <1>3, <1>5, <1>7 DEF Changed
  <2> QED BY <1>2, <1>7, <2>1 DEF Inside
<1>8. CASE /\ ~(job[r].plan.verb = "mv" /\ IsDirectory(tree, to))
           /\ ~(job[r].plan.verb = "rm" /\ "-r" \in job[r].plan.flags)
  <2>1. Changed \subseteq held
    BY <1>3, <1>5, <1>8 DEF Changed
  <2> QED BY <1>2, <2>1 DEF Inside
<1> QED BY <1>6, <1>7, <1>8

LEMMA NextStaysInside ==
    ASSUME TypeOK, CallInv, [Next]_vars, NEW r \in Runner
    PROVE  Inside(r)
<1>1. ASSUME tree' = tree PROVE Inside(r)
  <2>1. Changed = {}
    BY <1>1 DEF Changed
  <2> QED BY <2>1 DEF Inside
<1>2. ASSUME job'[r] = job[r] PROVE Inside(r)
  BY <1>2 DEF Inside
<1>3. CASE UNCHANGED vars
  BY <1>1, <1>3 DEF vars
<1>4. ASSUME NEW s \in Runner, EffectStep(s) PROVE Inside(r)
  <2>1. CASE s = r
    <3>1. CASE job[r].id = NoCapture
      BY <3>1 DEF Inside
    <3>2. CASE job[r].id # NoCapture
      BY <1>4, <2>1, <3>2, EffectStaysInside
    <3> QED BY <3>1, <3>2
  <2>2. CASE s # r
    BY <1>2, <1>4, <2>2, EffectStepFacts
  <2> QED BY <2>1, <2>2
<1>5. ASSUME NEW s \in Runner, RunnerStep(s), ~EffectStep(s) PROVE Inside(r)
  <2>1. tree' = tree
    BY <1>5 DEF RunnerStep, Submit, CapturePath, CaptureFails, Publish, QueueFull, Start, Stop,
                SealPath, SealWrite, Abandon
  <2> QED BY <1>1, <2>1
<1>6. CASE RestoreStep \/ ForeignWrite
  <2>1. job' = job
    BY <1>6 DEF RestoreStep, ForeignWrite, RestoreBegin, RestoreCheck, RestoreRemove,
                RestoreWrite, RestoreEnd, RestoreCrash
  <2> QED BY <1>2, <2>1
<1> QED BY <1>3, <1>4, <1>5, <1>6 DEF Next

\* A command that runs under a capture changes only what the capture holds, whatever has
\* appeared in the tree since it was approved - but for what is inside a directory that one of
\* its paths is by then or leads to (pinCommand).
THEOREM RunsStayInside == Spec => BackedRunStaysInside
<1>1. TypeOK /\ CallInv /\ [Next]_vars =>
        [\A r \in Runner :
           LET held == DOMAIN job[r].entries
           IN /\ job[r].pc = "effect" /\ job[r].id # NoCapture
              /\ job'[r].todo # job[r].todo
              => \/ Changed \subseteq held
                 \/ /\ job[r].plan.verb = "mv"
                    /\ \E p \in job[r].groups[2] : IsDirectory(tree, p)
                 \/ /\ job[r].plan.verb = "rm" /\ "-r" \in job[r].plan.flags
                    /\ Changed \subseteq held \union {Inner[p] : p \in {q \in held : tree[q] = Dir}}]_vars
  BY NextStaysInside DEF Inside
<1> QED BY <1>1, CallInvariant, PTL DEF Spec, BackedRunStaysInside

-----------------------------------------------------------------------------
(* Every step keeps the invariant of the reverts. *)

\* A call with a capture: its record is not sealed, and it is the only one.
LEMMA HolderFacts ==
    ASSUME TypeOK, CallInv, NEW r \in Runner, Holds(r)
    PROVE  /\ job[r].id \in Capture /\ ~record[job[r].id].sealed
           /\ \A s \in Runner \ {r} : job[s].id # job[r].id
<1>1. job[r].id \in Capture /\ \A s \in Runner \ {r} : job[s].id # job[r].id
  BY TypeFacts, JobFacts DEF CallInv, Single, Holds
<1>2. ~record[job[r].id].sealed
  BY DEF CallInv, Phase, Unwritten
<1> QED BY <1>1, <1>2

\* Nobody has read paths for a sealed capture that are not sealed yet.
LEMMA SealedFacts ==
    ASSUME TypeOK, CallInv, NEW c \in Capture, record[c].sealed
    PROVE  Window(c) = {} /\ \A r \in Runner : job[r].id # c
<1>1. \A r \in Runner : job[r].id # c
  BY HolderFacts, CaptureAssumption DEF Holds
<1> QED BY <1>1 DEF Window

LEMMA WindowFacts ==
    ASSUME TypeOK, CallInv, NEW r \in Runner, Holds(r)
    PROVE  Window(job[r].id) = IF job[r].pc = "seal" THEN job[r].todo ELSE DOMAIN job[r].entries
<1>1. {s \in Runner : job[s].id = job[r].id} = {r}
  BY HolderFacts
<1> QED BY <1>1 DEF Window

LEMMA SealedRestore ==
    ASSUME TypeOK, CallInv, Seen, restore.sealed
    PROVE  /\ restore.id \in Capture /\ record[restore.id].sealed
           /\ record[restore.id].entries = restore.entries
           /\ \A r \in Runner : job[r].id # restore.id
<1>1. restore.id \in Capture /\ record[restore.id].sealed
      /\ record[restore.id].entries = restore.entries
  BY DEF Seen, CallInv, RestoreFits
<1> QED BY <1>1, SealedFacts

LEMMA UnchangedTree ==
    ASSUME tree \in Tree, tree' \in Tree, Changed = {}
    PROVE  tree' = tree
  BY DEF Changed, Tree

\* A step of one call which does not write the tree.
LEMMA CallKeepsReverts ==
    ASSUME TypeOK, CallInv, RevertInv, NEW r \in Runner,
           \A s \in Runner \ {r} : job'[s] = job[s],
           tree' = tree, restore' = restore,
           \A c \in Capture \ {job[r].id} : record'[c] = record[c] /\ history'[c] = history[c],
           \A c \in Capture : c = job[r].id => Tells(c)' /\ Between(c)',
           Knows(r)'
    PROVE  RevertInv'
<1>1. ASSUME NEW s \in Runner PROVE Knows(s)'
  <2>1. CASE s = r
    BY <2>1
  <2>2. CASE s # r
    <3>1. Knows(s) /\ job'[s] = job[s]
      BY <2>2 DEF RevertInv
    <3>2. Holds(s) => history'[job[s].id] = history[job[s].id]
      BY <2>2, HolderFacts
    <3> QED BY <3>1, <3>2 DEF Knows, Holds
  <2> QED BY <2>1, <2>2
<1>2. ASSUME NEW c \in Capture PROVE Tells(c)' /\ Between(c)'
  <2>1. CASE c = job[r].id
    BY <2>1
  <2>2. CASE c # job[r].id
    <3>1. Tells(c) /\ Between(c) /\ record'[c] = record[c] /\ history'[c] = history[c]
      BY <2>2 DEF RevertInv
    <3> QED BY <3>1 DEF Tells, Between, At
  <2> QED BY <2>1, <2>2
<1>3. Seen'
  <2>1. Seen
    BY DEF RevertInv
  <2>2. restore.sealed => /\ record'[restore.id] = record[restore.id]
                          /\ history'[restore.id] = history[restore.id]
    BY <2>1, SealedRestore
  <2> QED BY <2>1, <2>2 DEF Seen
<1> QED BY <1>1, <1>2, <1>3 DEF RevertInv

\* A step of one call that leaves the captures as they are.
LEMMA OnlyTheCall ==
    ASSUME TypeOK, CallInv, RevertInv, NEW r \in Runner,
           \A s \in Runner \ {r} : job'[s] = job[s],
           tree' = tree, restore' = restore, record' = record, history' = history, Knows(r)'
    PROVE  RevertInv'
<1>1. \A c \in Capture : Tells(c)' /\ Between(c)'
  BY DEF RevertInv, Tells, Between, At
<1> QED BY <1>1, CallKeepsReverts

LEMMA SubmitRevert ==
    ASSUME TypeOK, CallInv, RevertInv, NEW r \in Runner, Submit(r)
    PROVE  RevertInv'
<1>1. job[r].pc = "idle" /\ UNCHANGED <<tree, record, blob, ring, restore, foreign, history>>
  BY DEF Submit
<1>2. job[r].id = NoCapture /\ DOMAIN job[r].entries = {}
  BY <1>1 DEF CallInv, Phase, Holds
<1>3. \/ job' = job
      \/ \E j : /\ job' = [job EXCEPT ![r] = j] /\ IsJob(j) /\ j.entries = job[r].entries
                /\ \/ j.id = job[r].id
                   \/ j.pc = "capture" /\ j.id \in Capture /\ Fresh(j.id)
  <2>1. PICK plan \in Plans :
          \/ job' = job
          \/ \E j : /\ job' = [job EXCEPT ![r] = j] /\ IsJob(j) /\ j.entries = job[r].entries
                    /\ \/ j.pc = "run" /\ j.id = job[r].id
                       \/ /\ j.pc = "capture" /\ j.id = NewCaptureID
                          /\ NewCaptureID \in Capture /\ Fresh(NewCaptureID)
    <3> HIDE DEF CallInv, RevertInv
    <3> QED BY SubmitCases
  <2>2. CASE job' = job
    BY <2>2
  <2>3. ASSUME NEW j, job' = [job EXCEPT ![r] = j], IsJob(j), j.entries = job[r].entries,
               \/ j.pc = "run" /\ j.id = job[r].id
               \/ /\ j.pc = "capture" /\ j.id = NewCaptureID
                  /\ NewCaptureID \in Capture /\ Fresh(NewCaptureID)
        PROVE  \E k : /\ job' = [job EXCEPT ![r] = k] /\ IsJob(k) /\ k.entries = job[r].entries
                      /\ \/ k.id = job[r].id
                         \/ k.pc = "capture" /\ k.id \in Capture /\ Fresh(k.id)
    <3>1. \/ j.id = job[r].id
          \/ j.pc = "capture" /\ j.id \in Capture /\ Fresh(j.id)
      BY <2>3 DEF Fresh
    <3> QED BY <2>3, <3>1
  <2> QED BY <2>1, <2>2, <2>3
<1>4. CASE job' = job
  <2>1. Knows(r)'
    BY <1>2, <1>4 DEF Knows, Holds
  <2> QED BY <1>1, <1>4, <2>1, OnlyTheCall
<1>5. ASSUME NEW j, job' = [job EXCEPT ![r] = j], IsJob(j), j.entries = job[r].entries,
             \/ j.id = job[r].id
             \/ j.pc = "capture" /\ j.id \in Capture /\ Fresh(j.id)
      PROVE  RevertInv'
  <2>1. job'[r] = j /\ \A s \in Runner \ {r} : job'[s] = job[s]
    BY <1>5, JobsUpdate
  <2>2. CASE j.id = job[r].id
    <3>1. Knows(r)'
      BY <1>2, <2>1, <2>2 DEF Knows, Holds
    <3> QED BY <1>1, <2>1, <3>1, OnlyTheCall
  <2>3. CASE j.pc = "capture" /\ j.id \in Capture /\ Fresh(j.id)
    <3>1. history[j.id].left = NoData
      <4>1. Tells(j.id) /\ ~record[j.id].written
        BY <2>3 DEF RevertInv, Fresh, Unwritten
      <4> QED BY <4>1 DEF Tells
    <3>2. DOMAIN j.entries = {}
      BY <1>2, <1>5
    <3>3. Knows(r)'
      BY <1>1, <2>1, <2>3, <3>1, <3>2 DEF Knows, Holds
    <3> QED BY <1>1, <2>1, <3>3, OnlyTheCall
  <2> QED BY <1>5, <2>2, <2>3
<1> QED BY <1>3, <1>4, <1>5

LEMMA CapturePathRevert ==
    ASSUME TypeOK, CallInv, RevertInv, NEW r \in Runner, CapturePath(r)
    PROVE  RevertInv'
<1>1. PICK p \in job[r].todo, e \in Entry :
        /\ p \in Path /\ e.before = tree[p] /\ e.before.kind # "dir"
        /\ job' = [job EXCEPT ![r].todo = @ \ {p}, ![r].entries = Put(@, p, e)]
  BY CapturePathFacts
<1>2. job[r].pc = "capture" /\ UNCHANGED <<tree, record, restore, printed, foreign, history>>
  BY CapturePathFacts
<1>3. PICK f, g : f = job[r].entries /\ g = Put(job[r].entries, p, e)
  OBVIOUS
<1>4. /\ DOMAIN g = DOMAIN f \union {p} /\ g[p] = e
      /\ \A q \in DOMAIN f : q # p => g[q] = f[q]
  BY <1>3 DEF Put
<1>5. /\ job'[r].pc = job[r].pc /\ job'[r].id = job[r].id /\ job'[r].entries = g
      /\ \A s \in Runner \ {r} : job'[s] = job[s]
  <2>1. PICK new : new = [job[r] EXCEPT !.todo = job[r].todo \ {p}, !.entries = g]
    OBVIOUS
  <2>2. IsJob(job[r]) /\ DOMAIN job = Runner
    BY TypeFacts DEF TypeOK
  <2>3. new.pc = job[r].pc /\ new.id = job[r].id /\ new.entries = g
    BY <2>1, <2>2 DEF IsJob, Job
  <2>4. job' = [job EXCEPT ![r] = new]
    BY <1>1, <1>3, <2>1
  <2> QED BY <2>2, <2>3, <2>4
<1>6. Knows(r)'
  <2>1. tree[p] # Dir
    BY <1>1, StateMembers
  <2>2. Knows(r)
    BY DEF RevertInv
  <2>3. CASE ~Holds(r)
    BY <1>5, <2>3 DEF Knows, Holds
  <2>4. CASE Holds(r)
    <3>1. PICK past : past = history[job[r].id]
      OBVIOUS
    <3>2. /\ past.left = NoData /\ \A q \in DOMAIN f : f[q].before.kind # "dir"
          /\ \A q \in DOMAIN f \ past.mixed : tree[q] # Dir /\ tree[q] = f[q].before
      BY <1>2, <1>3, <2>2, <2>4, <3>1 DEF Knows
    <3>3. \A q \in DOMAIN g : g[q].before.kind # "dir"
      BY <1>1, <1>4, <3>2
    <3>4. \A q \in DOMAIN g \ past.mixed : tree[q] # Dir /\ tree[q] = g[q].before
      BY <1>1, <1>4, <2>1, <3>2
    <3>5. history'[job'[r].id] = past /\ tree' = tree /\ job'[r].pc = "capture"
      BY <1>2, <1>5, <3>1
    <3> QED BY <1>5, <3>2, <3>3, <3>4, <3>5 DEF Knows
  <2> QED BY <2>3, <2>4
<1> QED BY <1>2, <1>5, <1>6, OnlyTheCall

\* A capture whose command has not run is taken back, and its call with it.
LEMMA DroppedCapture ==
    ASSUME TypeOK, CallInv, RevertInv, NEW r \in Runner,
           \A s \in Runner \ {r} : job'[s] = job[s],
           job[r].pc \in {"capture", "run"}, job[r].id \in Capture, job'[r].id = NoCapture,
           UNCHANGED <<tree, restore, history>>,
           record' = record \/ record' = [record EXCEPT ![job[r].id] = Unwritten]
    PROVE  RevertInv'
<1>1. Knows(r)'
  BY DEF Knows, Holds
<1>2. \A c \in Capture \ {job[r].id} : record'[c] = record[c] /\ history'[c] = history[c]
  BY DEF TypeOK
<1>3. ASSUME NEW c \in Capture, c = job[r].id PROVE Tells(c)' /\ Between(c)'
  <2>1. history[c].left = NoData
    BY <1>3, CaptureAssumption DEF RevertInv, Knows, Holds
  <2> QED BY <2>1 DEF Tells, Between
<1> QED BY <1>1, <1>2, <1>3, CallKeepsReverts

LEMMA CaptureFailsRevert ==
    ASSUME TypeOK, CallInv, RevertInv, NEW r \in Runner, CaptureFails(r)
    PROVE  RevertInv'
  BY CaptureFailsFacts, DroppedCapture

LEMMA QueueFullRevert ==
    ASSUME TypeOK, CallInv, RevertInv, NEW r \in Runner, QueueFull(r)
    PROVE  RevertInv'
  BY QueueFullTypes, DroppedCapture

LEMMA AbandonRevert ==
    ASSUME TypeOK, CallInv, RevertInv, NEW r \in Runner, Abandon(r)
    PROVE  RevertInv'
<1>1. Knows(r)'
  BY AbandonFacts DEF Knows, Holds
<1> QED BY <1>1, AbandonFacts, OnlyTheCall

LEMMA PublishRevert ==
    ASSUME TypeOK, CallInv, RevertInv, NEW r \in Runner, Publish(r)
    PROVE  RevertInv'
<1>1. /\ job[r].pc = "capture" /\ job[r].todo = {} /\ job[r].id \in Capture
      /\ record' = [record EXCEPT ![job[r].id] =
                      [written |-> TRUE, sealed |-> FALSE, entries |-> job[r].entries]]
      /\ job' = [job EXCEPT ![r].pc = "run"]
      /\ UNCHANGED <<tree, blob, ring, restore, printed, foreign, history>>
  BY PublishTypes
<1>2. PICK c \in Capture : c = job[r].id
  BY <1>1
<1>3. ~record'[c].sealed /\ \A d \in Capture \ {c} : record'[d] = record[d]
  BY <1>1, <1>2 DEF TypeOK
<1>4. /\ job'[r].pc = "run" /\ job'[r].id = c /\ job'[r].entries = job[r].entries
      /\ \A s \in Runner \ {r} : job'[s] = job[s]
  <2>1. IsJob(job[r]) /\ DOMAIN job = Runner
    BY TypeFacts DEF TypeOK
  <2> QED BY <1>1, <1>2, <2>1, JobFacts
<1>5. Knows(r)
  BY DEF RevertInv
<1>6. Knows(r)'
  BY <1>1, <1>2, <1>4, <1>5 DEF Knows, Holds
<1>7. history'[c].left = NoData
  BY <1>1, <1>2, <1>5, CaptureAssumption DEF Knows, Holds
<1>8. \A d \in Capture : d = job[r].id => Tells(d)' /\ Between(d)'
  BY <1>2, <1>3, <1>7 DEF Tells, Between
<1>9. \A d \in Capture \ {job[r].id} : record'[d] = record[d] /\ history'[d] = history[d]
  BY <1>1, <1>2, <1>3
<1> QED BY <1>1, <1>4, <1>6, <1>8, <1>9, CallKeepsReverts

\* The history of a capture that is not sealed promises nothing yet.
LEMMA UnsealedTells ==
    ASSUME NEW c \in Capture, record' = record, ~record[c].sealed, record[c].written
    PROVE  Tells(c)' /\ Between(c)'
  BY DEF Tells, Between

LEMMA StartRevert ==
    ASSUME TypeOK, CallInv, RevertInv, NEW r \in Runner, Start(r)
    PROVE  RevertInv'
<1>1. /\ job[r].pc = "run" /\ job'[r].pc = "effect"
      /\ job'[r].id = job[r].id /\ job'[r].entries = job[r].entries
      /\ \A s \in Runner \ {r} : job'[s] = job[s]
      /\ UNCHANGED <<tree, record, blob, ring, restore, printed, foreign>>
      /\ \A c \in Capture \ {job[r].id} : history'[c] = history[c]
      /\ job[r].id \in Capture =>
           LET past == history[job[r].id]
               next == history'[job[r].id]
           IN next.held = tree /\ next.quiet /\ next.left = past.left /\ next.mixed = past.mixed
  BY StartTypes
<1>2. Knows(r)
  BY DEF RevertInv
<1>3. Knows(r)'
  <2>1. CASE ~Holds(r)
    BY <1>1, <2>1 DEF Knows, Holds
  <2>2. CASE Holds(r)
    <3>1. PICK c \in Capture : c = job[r].id
      BY <2>2, HolderFacts
    <3>2. tree \in Tree
      BY DEF TypeOK
    <3> QED BY <1>1, <1>2, <2>2, <3>1, <3>2 DEF Knows, Holds
  <2> QED BY <2>1, <2>2
<1>4. ASSUME NEW c \in Capture, c = job[r].id PROVE Tells(c)' /\ Between(c)'
  <2>1. Holds(r)
    BY <1>4, CaptureAssumption DEF Holds
  <2>2. record[c].written /\ ~record[c].sealed
    BY <1>1, <1>4, <2>1 DEF CallInv, Phase
  <2> QED BY <1>1, <2>2, UnsealedTells
<1>5. \A c \in Capture \ {job[r].id} : record'[c] = record[c] /\ history'[c] = history[c]
  BY <1>1
<1> QED BY <1>1, <1>3, <1>4, <1>5, CallKeepsReverts

LEMMA StopRevert ==
    ASSUME TypeOK, CallInv, RevertInv, NEW r \in Runner, Stop(r)
    PROVE  RevertInv'
<1>1. /\ job[r].pc = "effect"
      /\ UNCHANGED <<tree, record, blob, ring, restore, printed, foreign>>
      /\ \A s \in Runner \ {r} : job'[s] = job[s]
      /\ job'[r].id = job[r].id
      /\ \A c \in Capture \ {job[r].id} : history'[c] = history[c]
      /\ job[r].id # NoCapture =>
           /\ job[r].id \in Capture
           /\ job'[r].pc = "seal"
           /\ job'[r].entries = job[r].entries /\ job'[r].todo = DOMAIN job[r].entries
           /\ LET past == history[job[r].id]
                  next == history'[job[r].id]
              IN next.left = tree /\ next.held = past.held /\ next.quiet = past.quiet
                 /\ next.mixed = past.mixed
  BY StopFacts
<1>2. Knows(r)
  BY DEF RevertInv
<1>3. Knows(r)'
  <2>1. CASE ~Holds(r)
    BY <1>1, <2>1 DEF Knows, Holds
  <2>2. CASE Holds(r)
    <3>1. tree \in Tree
      BY DEF TypeOK
    <3> QED BY <1>1, <1>2, <2>2, <3>1 DEF Knows, Holds
  <2> QED BY <2>1, <2>2
<1>4. ASSUME NEW c \in Capture, c = job[r].id PROVE Tells(c)' /\ Between(c)'
  <2>1. Holds(r)
    BY <1>4, CaptureAssumption DEF Holds
  <2>2. record[c].written /\ ~record[c].sealed
    BY <1>1, <1>4, <2>1 DEF CallInv, Phase
  <2> QED BY <1>1, <2>2, UnsealedTells
<1>5. \A c \in Capture \ {job[r].id} : record'[c] = record[c] /\ history'[c] = history[c]
  BY <1>1
<1> QED BY <1>1, <1>3, <1>4, <1>5, CallKeepsReverts

LEMMA SealPathRevert ==
    ASSUME TypeOK, CallInv, RevertInv, NEW r \in Runner, SealPath(r)
    PROVE  RevertInv'
<1>1. /\ job[r].pc = "seal"
      /\ UNCHANGED <<tree, record, blob, ring, restore, printed, foreign, history>>
      /\ \A s \in Runner \ {r} : job'[s] = job[s]
      /\ job'[r].pc = "seal" /\ job'[r].id = job[r].id
      /\ DOMAIN job'[r].entries = DOMAIN job[r].entries
  BY SealPathFacts
<1>2. PICK f, g : f = job[r].entries /\ g = job'[r].entries
  OBVIOUS
<1>3. PICK p \in job[r].todo :
        /\ p \in DOMAIN f /\ job'[r].todo = job[r].todo \ {p}
        /\ g[p].before = f[p].before /\ g[p].after = Look(tree[p])
        /\ \A q \in DOMAIN f \ {p} : g[q] = f[q]
  BY <1>2, SealPathFacts
<1>4. Knows(r) /\ Holds(r)
  BY <1>1 DEF RevertInv, CallInv, Phase
<1>5. Knows(r)'
  <2>1. PICK past : past = history[job[r].id]
    OBVIOUS
  <2>2. /\ \A q \in DOMAIN f : f[q].before.kind # "dir"
        /\ past.held \in Tree /\ past.left \in Tree
        /\ past.quiet => tree = past.left
        /\ \A q \in DOMAIN f \ past.mixed : past.left[q] # Dir /\ past.held[q] = f[q].before
        /\ \A q \in (DOMAIN f \ past.mixed) \intersect job[r].todo : tree[q] = past.left[q]
        /\ \A q \in (DOMAIN f \ past.mixed) \ job[r].todo : f[q].after = Look(past.left[q])
    BY <1>1, <1>2, <1>4, <2>1 DEF Knows
  <2>3. \A q \in DOMAIN f : g[q].before = f[q].before
    BY <1>3
  <2>4. ASSUME NEW q \in (DOMAIN f \ past.mixed) \ job'[r].todo PROVE g[q].after = Look(past.left[q])
    <3>1. CASE q = p
      BY <1>3, <2>2, <3>1
    <3>2. CASE q # p
      BY <1>3, <2>2, <3>2
    <3> QED BY <3>1, <3>2
  <2>5. \A q \in (DOMAIN f \ past.mixed) \intersect job'[r].todo : tree[q] = past.left[q]
    BY <1>3, <2>2
  <2> QED BY <1>1, <1>2, <2>1, <2>2, <2>3, <2>4, <2>5 DEF Knows
<1> QED BY <1>1, <1>5, OnlyTheCall

LEMMA SealWriteRevert ==
    ASSUME TypeOK, CallInv, RevertInv, NEW r \in Runner, SealWrite(r)
    PROVE  RevertInv'
<1>1. /\ job[r].pc = "seal" /\ job[r].todo = {} /\ job[r].id \in Capture
      /\ record' = [record EXCEPT ![job[r].id] =
                      [written |-> TRUE, sealed |-> TRUE, entries |-> job[r].entries]]
      /\ job'[r].id = NoCapture
      /\ \A s \in Runner \ {r} : job'[s] = job[s]
      /\ UNCHANGED <<tree, blob, ring, restore, printed, foreign, history>>
  BY SealWriteFacts
<1>2. PICK c \in Capture : c = job[r].id
  BY <1>1
<1>3. PICK f, past : f = job[r].entries /\ past = history[c]
  OBVIOUS
<1>4. /\ record'[c].written /\ record'[c].sealed /\ record'[c].entries = f
      /\ \A d \in Capture \ {c} : record'[d] = record[d]
  BY <1>1, <1>2, <1>3 DEF TypeOK
<1>5. Holds(r) /\ ~record[c].sealed
  BY <1>2, CaptureAssumption, HolderFacts DEF Holds
<1>6. /\ \A q \in DOMAIN f : f[q].before.kind # "dir"
      /\ past.held \in Tree /\ past.left \in Tree
      /\ past.quiet => tree = past.left
      /\ \A q \in DOMAIN f \ past.mixed : past.left[q] # Dir /\ past.held[q] = f[q].before
      /\ \A q \in DOMAIN f \ past.mixed : f[q].after = Look(past.left[q])
  BY <1>1, <1>2, <1>3, <1>5 DEF RevertInv, Knows
<1>7. Tells(c)'
  BY <1>1, <1>3, <1>4, <1>6 DEF Tells
<1>8. ~(restore.sealed /\ restore.id = c)
  BY <1>5, SealedRestore DEF RevertInv
<1>9. Between(c)'
  BY <1>1, <1>3, <1>4, <1>6, <1>8 DEF Between, At
<1>10. Knows(r)'
  BY <1>1 DEF Knows, Holds
<1>11. \A d \in Capture \ {job[r].id} : record'[d] = record[d] /\ history'[d] = history[d]
  BY <1>1, <1>2, <1>4
<1>12. \A d \in Capture : d = job[r].id => Tells(d)' /\ Between(d)'
  BY <1>2, <1>7, <1>9
<1> QED BY <1>1, <1>10, <1>11, <1>12, CallKeepsReverts

\* A write of the tree: what the capture of a call knows, unless the call has written it.
LEMMA WriteKeepsKnowledge ==
    ASSUME TypeOK, CallInv, RevertInv, TypeOK', NEW a, Noted(a),
           NEW r \in Runner, job'[r] = job[r], job[r].id # a
    PROVE  Knows(r)'
<1>1. Knows(r)
  BY DEF RevertInv
<1>2. CASE ~Holds(r)
  BY <1>2 DEF Knows, Holds
<1>3. CASE Holds(r)
  <2>1. PICK c \in Capture : c = job[r].id
    BY <1>3, HolderFacts
  <2>2. PICK f, past, next : f = job[r].entries /\ past = history[c] /\ next = history'[c]
    OBVIOUS
  <2>3. DOMAIN f \subseteq Path
    BY <2>2, TypeFacts, JobFacts
  <2>4. /\ next.held = past.held /\ next.left = past.left
        /\ next.mixed = past.mixed \union (Window(c) \intersect Changed)
        /\ next.quiet => past.quiet /\ Changed = {}
    BY <2>1, <2>2, NotedFacts
  <2>5. Window(c) = IF job[r].pc = "seal" THEN job[r].todo ELSE DOMAIN f
    BY <1>3, <2>1, <2>2, WindowFacts
  <2>6. \A q \in (DOMAIN f \ next.mixed) : q \notin past.mixed
    BY <2>4
  <2>7. \A q \in (DOMAIN f \ next.mixed) \intersect Window(c) : tree'[q] = tree[q]
    BY <2>3, <2>4 DEF Changed
  <2>8. next.quiet => past.quiet /\ tree' = tree
    BY <2>4, UnchangedTree DEF TypeOK
  <2>9. CASE job[r].pc = "seal"
    <3>1. /\ \A p \in DOMAIN f : f[p].before.kind # "dir"
          /\ past.held \in Tree /\ \A p \in DOMAIN f \ past.mixed : past.held[p] = f[p].before
          /\ past.left \in Tree
          /\ past.quiet => tree = past.left
          /\ \A p \in DOMAIN f \ past.mixed : past.left[p] # Dir
          /\ \A p \in (DOMAIN f \ past.mixed) \intersect job[r].todo : tree[p] = past.left[p]
          /\ \A p \in (DOMAIN f \ past.mixed) \ job[r].todo : f[p].after = Look(past.left[p])
      BY <1>1, <1>3, <2>1, <2>2, <2>9 DEF Knows
    <3>2. /\ next.held \in Tree /\ \A p \in DOMAIN f \ next.mixed : next.held[p] = f[p].before
          /\ next.left \in Tree
          /\ next.quiet => tree' = next.left
          /\ \A p \in DOMAIN f \ next.mixed : next.left[p] # Dir
          /\ \A p \in (DOMAIN f \ next.mixed) \intersect job[r].todo : tree'[p] = next.left[p]
          /\ \A p \in (DOMAIN f \ next.mixed) \ job[r].todo : f[p].after = Look(next.left[p])
      BY <2>4, <2>5, <2>6, <2>7, <2>8, <2>9, <3>1
    <3> QED BY <2>1, <2>2, <2>9, <3>1, <3>2 DEF Knows
  <2>10. CASE job[r].pc # "seal"
    <3>1. /\ \A p \in DOMAIN f : f[p].before.kind # "dir"
          /\ job[r].pc \in {"capture", "run", "effect"} =>
               past.left = NoData /\ \A p \in DOMAIN f \ past.mixed : tree[p] # Dir
          /\ job[r].pc \in {"capture", "run"} =>
               \A p \in DOMAIN f \ past.mixed : tree[p] = f[p].before
          /\ job[r].pc = "effect" =>
               past.held \in Tree /\ \A p \in DOMAIN f \ past.mixed : past.held[p] = f[p].before
      BY <1>1, <1>3, <2>1, <2>2 DEF Knows
    <3>2. /\ job[r].pc \in {"capture", "run", "effect"} =>
               next.left = NoData /\ \A p \in DOMAIN f \ next.mixed : tree'[p] # Dir
          /\ job[r].pc \in {"capture", "run"} =>
               \A p \in DOMAIN f \ next.mixed : tree'[p] = f[p].before
          /\ job[r].pc = "effect" =>
               next.held \in Tree /\ \A p \in DOMAIN f \ next.mixed : next.held[p] = f[p].before
      BY <2>4, <2>5, <2>6, <2>7, <2>10, <3>1
    <3> QED BY <2>1, <2>2, <2>10, <3>1, <3>2 DEF Knows
  <2> QED BY <2>9, <2>10
<1> QED BY <1>2, <1>3

LEMMA WriteKeepsTales ==
    ASSUME TypeOK, CallInv, RevertInv, NEW a, Noted(a), record' = record, NEW c \in Capture
    PROVE  Tells(c)'
<1>1. history'[c].held = history[c].held /\ history'[c].left = history[c].left
  BY NotedFacts
<1>2. record[c].sealed => history'[c].mixed = history[c].mixed
  BY NotedFacts, SealedFacts
<1>3. Tells(c)
  BY DEF RevertInv
<1> QED BY <1>1, <1>2, <1>3 DEF Tells

\* The control of the restore: all of it but what it has noticed.
SameRestore ==
  SameCopy /\ restore'.pc = restore.pc /\ restore'.todo = restore.todo
           /\ restore'.path = restore.path

\* A write on behalf of another: the tree is not the command's any more.
LEMMA WriteKeepsBetween ==
    ASSUME TypeOK, CallInv, RevertInv, TypeOK', NEW a, Noted(a), record' = record,
           NEW c \in Capture, c # a,
           \/ SameRestore
           \/ ~(restore.sealed /\ restore.id = c) /\ ~(restore'.sealed /\ restore'.id = c)
    PROVE  Between(c)'
<1> SUFFICES ASSUME record[c].sealed, history'[c].left # NoData, history'[c].mixed = {},
                    history'[c].quiet
             PROVE  Between(c)'
  BY DEF Between
<1>1. /\ history'[c].left = history[c].left /\ history'[c].torn = history[c].torn
      /\ history[c].mixed = {} /\ history[c].quiet /\ Changed = {}
  BY NotedFacts
<1>2. tree' = tree
  BY <1>1, UnchangedTree DEF TypeOK
<1>3. PICK entries, past : entries = record[c].entries /\ past = history[c]
  OBVIOUS
<1>4. /\ \A p \in Path \ DOMAIN entries : tree[p] = past.left[p]
      /\ \A p \in DOMAIN entries :
           /\ tree[p] \in {past.left[p], entries[p].before, Absent}
           /\ past.torn \/ (restore.pc = "write" /\ At(c, p))
              \/ tree[p] \in {past.left[p], entries[p].before}
           /\ /\ restore.sealed /\ restore.id = c /\ (restore.force \/ ~past.torn)
              /\ p \notin restore.todo
              /\ ~(restore.pc \in {"remove", "write"} /\ restore.path = p)
              => tree[p] = entries[p].before
  BY <1>1, <1>3 DEF RevertInv, Between
<1>5. CASE SameRestore
  BY <1>1, <1>2, <1>3, <1>4, <1>5 DEF Between, At, SameRestore, SameCopy
<1>6. CASE ~(restore.sealed /\ restore.id = c) /\ ~(restore'.sealed /\ restore'.id = c)
  BY <1>1, <1>2, <1>3, <1>4, <1>6 DEF Between, At
<1> QED BY <1>5, <1>6

\* The restore notices who writes at its path, or is not quiet any more.
LEMMA SlippedSeen ==
    ASSUME TypeOK, CallInv, RevertInv, TypeOK', NEW a, Noted(a), Slipped, record' = record,
           restore.sealed => restore.id # a
    PROVE  Seen' /\ SameRestore
<1>1. /\ restore'.pc = restore.pc /\ restore'.id = restore.id /\ restore'.force = restore.force
      /\ restore'.sealed = restore.sealed /\ restore'.entries = restore.entries
      /\ restore'.todo = restore.todo /\ restore'.path = restore.path
      /\ restore'.raced <=> restore.raced \/ restore.path \in Changed
  BY SlippedFacts
<1>2. Seen
  BY DEF RevertInv
<1>3. restore.sealed /\ restore'.raced => ~history'[restore.id].quiet
  <2>1. ASSUME restore.sealed, restore'.raced, history'[restore.id].quiet PROVE FALSE
    <3>1. restore.id \in Capture
      BY <1>2, <2>1, SealedRestore
    <3>2. history[restore.id].quiet /\ Changed = {}
      BY <2>1, <3>1, NotedFacts
    <3> QED BY <1>1, <1>2, <2>1, <3>2 DEF Seen
  <2> QED BY <2>1
<1>4. restore.pc \in {"remove", "write"} /\ ~restore'.raced =>
        ~restore.raced /\ tree'[restore.path] = tree[restore.path]
  <2>1. restore.pc \in {"remove", "write"} => restore.path \in Path
    BY TypeFacts, RestoreFacts DEF CallInv, RestoreFits
  <2> QED BY <1>1, <2>1 DEF Changed
<1>5. Seen'
  BY <1>1, <1>2, <1>3, <1>4 DEF Seen
<1> QED BY <1>1, <1>5 DEF SameRestore, SameCopy

LEMMA EffectStepRevert ==
    ASSUME TypeOK, CallInv, RevertInv, NEW r \in Runner, EffectStep(r)
    PROVE  RevertInv'
<1>1. /\ TypeOK' /\ job[r].pc = "effect" /\ Noted(job[r].id) /\ Slipped
      /\ UNCHANGED <<record, blob, ring, printed, foreign>>
      /\ job'[r].pc = "effect" /\ job'[r].id = job[r].id /\ job'[r].entries = job[r].entries
      /\ \A s \in Runner \ {r} : job'[s] = job[s]
  BY EffectStepFacts
<1>2. \A q \in Path : tree'[q] = Dir => tree[q] = Dir
  <2>1. PICK p \in Path, to \in Path : tree' = Effect(tree, job[r].plan, <<p, to>>)
    BY EffectStepFacts
  <2>2. job[r].plan \in Plan /\ tree \in Tree
    BY TypeFacts, JobFacts DEF TypeOK
  <2> QED BY <2>1, <2>2, EffectFacts
<1>3. Knows(r)'
  <2>1. CASE ~Holds(r)
    BY <1>1, <2>1 DEF Knows, Holds
  <2>2. CASE Holds(r)
    <3>1. PICK c \in Capture : c = job[r].id
      BY <2>2, HolderFacts
    <3>2. history'[c] = history[c]
      BY <1>1, <3>1, NotedFacts
    <3>3. DOMAIN job[r].entries \subseteq Path
      BY TypeFacts, JobFacts
    <3>4. Knows(r)
      BY DEF RevertInv
    <3> QED BY <1>1, <1>2, <2>2, <3>1, <3>2, <3>3, <3>4 DEF Knows, Holds
  <2> QED BY <2>1, <2>2
<1>4. ASSUME NEW s \in Runner, s # r PROVE Knows(s)'
  <2>1. CASE ~Holds(s)
    BY <1>1, <1>4, <2>1 DEF Knows, Holds
  <2>2. CASE Holds(s)
    <3>1. job'[s] = job[s] /\ job[s].id # job[r].id
      BY <1>1, <1>4, <2>2, HolderFacts
    <3> QED BY <1>1, <3>1, WriteKeepsKnowledge
  <2> QED BY <2>1, <2>2
<1>5. restore.sealed => restore.id # job[r].id
  BY SealedRestore DEF RevertInv
<1>6. Seen' /\ SameRestore
  BY <1>1, <1>5, SlippedSeen
<1>7. ASSUME NEW c \in Capture PROVE Between(c)'
  <2>1. CASE c = job[r].id
    <3>1. ~record[c].sealed
      BY <2>1, SealedFacts
    <3> QED BY <1>1, <3>1 DEF Between
  <2>2. CASE c # job[r].id
    BY <1>1, <1>6, <2>2, WriteKeepsBetween
  <2> QED BY <2>1, <2>2
<1>8. \A c \in Capture : Tells(c)'
  BY <1>1, WriteKeepsTales
<1> QED BY <1>3, <1>4, <1>6, <1>7, <1>8 DEF RevertInv

LEMMA ForeignRevert ==
    ASSUME TypeOK, CallInv, RevertInv, ForeignWrite
    PROVE  RevertInv'
<1>1. TypeOK' /\ Noted(NoCapture) /\ Slipped /\ UNCHANGED <<record, blob, ring, job, printed>>
  BY ForeignFacts
<1>2. ASSUME NEW r \in Runner PROVE Knows(r)'
  <2>1. CASE ~Holds(r)
    BY <1>1, <2>1 DEF Knows, Holds
  <2>2. CASE Holds(r)
    BY <1>1, <2>2, WriteKeepsKnowledge DEF Holds
  <2> QED BY <2>1, <2>2
<1>3. restore.sealed => restore.id # NoCapture
  BY SealedRestore, CaptureAssumption DEF RevertInv
<1>4. Seen' /\ SameRestore
  BY <1>1, <1>3, SlippedSeen
<1>5. \A c \in Capture : c # NoCapture
  BY CaptureAssumption
<1>6. \A c \in Capture : Between(c)'
  BY <1>1, <1>4, <1>5, WriteKeepsBetween
<1>7. \A c \in Capture : Tells(c)'
  BY <1>1, WriteKeepsTales
<1> QED BY <1>2, <1>4, <1>6, <1>7 DEF RevertInv

-----------------------------------------------------------------------------
(* The steps of vault_restore. *)

\* One that does not write.
LEMMA ReadingStep ==
    ASSUME RevertInv, UNCHANGED <<tree, record, job>>,
           \A c \in Capture : /\ history'[c].held = history[c].held
                              /\ history'[c].left = history[c].left
                              /\ history'[c].mixed = history[c].mixed
                              /\ history'[c].quiet = history[c].quiet,
           \A r \in Runner : Holds(r) => job[r].id \in Capture
    PROVE  (\A r \in Runner : Knows(r)') /\ (\A c \in Capture : Tells(c)')
<1>1. ASSUME NEW r \in Runner PROVE Knows(r)'
  BY DEF RevertInv, Knows, Holds
<1>2. ASSUME NEW c \in Capture PROVE Tells(c)'
  BY DEF RevertInv, Tells
<1> QED BY <1>1, <1>2

\* What holds between for c while its restore is somewhere else.
LEMMA IdleBetween ==
    ASSUME RevertInv, UNCHANGED <<tree, record>>, NEW c \in Capture,
           history'[c].left = history[c].left /\ history'[c].mixed = history[c].mixed
             /\ history'[c].quiet = history[c].quiet,
           history[c].torn => history'[c].torn,
           restore.pc = "write" /\ restore.sealed /\ restore.id = c => history'[c].torn,
           ~(restore'.sealed /\ restore'.id = c)
    PROVE  Between(c)'
<1>1. Between(c)
  BY DEF RevertInv
<1> QED BY <1>1 DEF Between, At

LEMMA ReturnRevert ==
    ASSUME TypeOK, CallInv, RevertInv, restore.pc # "idle", NEW torn \in BOOLEAN, Return(torn),
           restore.pc = "write" => torn, UNCHANGED <<tree, record, job>>
    PROVE  RevertInv'
<1>1. /\ restore'.pc = "idle" /\ ~restore'.sealed
      /\ \A c \in Capture : /\ history'[c].held = history[c].held
                            /\ history'[c].left = history[c].left
                            /\ history'[c].mixed = history[c].mixed
                            /\ history'[c].quiet = history[c].quiet
                            /\ history[c].torn => history'[c].torn
                            /\ c = restore.id /\ torn => history'[c].torn
  BY ReturnFacts
<1>2. (\A r \in Runner : Knows(r)') /\ (\A c \in Capture : Tells(c)')
  BY <1>1, HolderFacts, ReadingStep
<1>3. \A c \in Capture : Between(c)'
  BY <1>1, IdleBetween
<1>4. Seen'
  BY <1>1 DEF Seen
<1> QED BY <1>2, <1>3, <1>4 DEF RevertInv

LEMMA RestoreEndRevert ==
    ASSUME TypeOK, CallInv, RevertInv, RestoreEnd
    PROVE  RevertInv'
<1>1. /\ restore'.pc = "idle" /\ ~restore'.sealed /\ restore.pc = "check"
      /\ UNCHANGED <<tree, record, blob, ring, job, printed, foreign, history>>
  BY RestoreEndFacts DEF RestoreEnd
<1>2. (\A r \in Runner : Knows(r)') /\ (\A c \in Capture : Tells(c)')
  BY <1>1, HolderFacts, ReadingStep
<1>3. \A c \in Capture : Between(c)'
  BY <1>1, IdleBetween
<1>4. Seen'
  BY <1>1 DEF Seen
<1> QED BY <1>2, <1>3, <1>4 DEF RevertInv

LEMMA RestoreBeginRevert ==
    ASSUME TypeOK, CallInv, RevertInv, RestoreBegin
    PROVE  RevertInv'
<1>1. restore.pc = "idle" /\ UNCHANGED <<tree, record, blob, ring, job, printed, foreign, history>>
  BY RestoreBeginFacts
<1>2. PICK c \in Capture :
        /\ record[c].written
        /\ restore'.pc = "check" /\ restore'.id = c /\ restore'.sealed = record[c].sealed
        /\ restore'.entries = record[c].entries /\ restore'.todo = DOMAIN record[c].entries
        /\ ~restore'.raced
  BY RestoreBeginFacts
<1>3. (\A r \in Runner : Knows(r)') /\ (\A d \in Capture : Tells(d)')
  BY <1>1, HolderFacts, ReadingStep
<1>4. ASSUME NEW d \in Capture PROVE Between(d)'
  <2>1. Between(d)
    BY DEF RevertInv
  <2> QED BY <1>1, <1>2, <2>1 DEF Between, At
<1>5. Seen'
  <2>1. IsRecord(record[c])
    BY TypeFacts
  <2>2. PICK x : x = record[c]
    OBVIOUS
  <2>3. x.written /\ x.sealed =>
          x = [written |-> TRUE, sealed |-> TRUE, entries |-> x.entries]
    BY <2>1, <2>2, RecordFacts
  <2>4. restore'.sealed =>
          record'[restore'.id] = [written |-> TRUE, sealed |-> TRUE, entries |-> restore'.entries]
    BY <1>1, <1>2, <2>2, <2>3
  <2> QED BY <1>2, <2>4 DEF Seen
<1> QED BY <1>3, <1>4, <1>5 DEF RevertInv

LEMMA RestoreCheckRevert ==
    ASSUME TypeOK, CallInv, RevertInv, RestoreCheck
    PROVE  RevertInv'
<1>1. /\ restore.pc = "check" /\ SameCopy
      /\ UNCHANGED <<tree, record, blob, ring, job, printed, foreign, history>>
  BY RestoreCheckFacts
<1>2. PICK p \in restore.todo :
        LET entry == restore.entries[p]
            current == Look(tree[p])
        IN /\ p \in Path /\ p \in DOMAIN restore.entries /\ entry \in Entry
           /\ restore'.todo = restore.todo \ {p}
           /\ \/ /\ \/ ~restore.force /\ current # entry.after
                    \/ current = entry.before
                 /\ restore'.pc = "check" /\ restore'.raced = restore.raced
                 /\ restore'.path = restore.path
              \/ /\ restore.force \/ current = entry.after
                 /\ current # entry.before
                 /\ restore'.path = p /\ ~restore'.raced
                 /\ restore'.pc = IF current # Absent THEN "remove" ELSE "write"
  BY RestoreCheckFacts
<1>3. (\A r \in Runner : Knows(r)') /\ (\A c \in Capture : Tells(c)')
  BY <1>1, HolderFacts, ReadingStep
<1>4. PICK current : current = Look(tree[p])
  OBVIOUS
<1>5. tree[p] \in State /\ (tree[p] # Dir => current = tree[p])
      /\ (current = Absent => tree[p] \in {Absent, Dir})
  <2>1. tree[p] \in State
    BY <1>2, TypeFacts
  <2> QED BY <1>4, <2>1, LookCases
<1>6. Seen'
  <2>1. Seen
    BY DEF RevertInv
  <2>2. restore'.pc = "remove" => current # Absent /\ (~restore.force => current = restore.entries[p].after)
                                  /\ restore'.path = p
    BY <1>2, <1>4
  <2>3. restore'.pc = "write" => tree[p] \in {Absent, Dir} /\ restore'.path = p
    BY <1>2, <1>4, <1>5
  <2>4. restore'.pc # "idle" /\ (restore'.raced => restore.raced)
    BY <1>2
  <2> QED BY <1>1, <1>4, <2>1, <2>2, <2>3, <2>4 DEF Seen, SameCopy
<1>7. ASSUME NEW c \in Capture PROVE Between(c)'
  <2>1. Between(c)
    BY DEF RevertInv
  <2>2. CASE ~(restore.sealed /\ restore.id = c)
    BY <1>1, <2>1, <2>2 DEF Between, At, SameCopy
  <2>3. CASE restore.sealed /\ restore.id = c
    <3> SUFFICES ASSUME record[c].sealed, history[c].left # NoData, history[c].mixed = {},
                        history[c].quiet
                 PROVE  Between(c)'
      BY <1>1 DEF Between
    <3>1. PICK entries, past : entries = record[c].entries /\ past = history[c]
      OBVIOUS
    <3>2. entries = restore.entries
      BY <2>3, <3>1, SealedRestore DEF RevertInv
    <3>3. /\ \A q \in Path \ DOMAIN entries : tree[q] = past.left[q]
          /\ \A q \in DOMAIN entries :
               /\ tree[q] \in {past.left[q], entries[q].before, Absent}
               /\ past.torn \/ tree[q] \in {past.left[q], entries[q].before}
               /\ (restore.force \/ ~past.torn) /\ q \notin restore.todo
                  => tree[q] = entries[q].before
      BY <1>1, <2>1, <2>3, <3>1 DEF Between, At
    <3>4. /\ \A q \in DOMAIN entries : entries[q].before.kind # "dir"
          /\ \A q \in DOMAIN entries : /\ entries[q].after = Look(past.left[q])
                                       /\ past.left[q] # Dir
          /\ past.left \in Tree
      BY <3>1 DEF RevertInv, Tells
    <3>5. restore'.pc = "check" /\ (restore.force \/ ~past.torn) => tree[p] = entries[p].before
      <4>1. p \in DOMAIN entries
        BY <1>2, <3>2
      <4>2. tree[p] # Dir
        BY <3>3, <3>4, <4>1, StateMembers
      <4>3. past.left[p] = entries[p].after
        <5>1. past.left[p] \in State
          BY <1>2, <3>4 DEF Tree
        <5> QED BY <3>4, <4>1, <5>1, LookCases
      <4>4. restore'.pc = "check" =>
              (~restore.force /\ current # entries[p].after) \/ current = entries[p].before
        BY <1>2, <1>4, <3>2
      <4> QED BY <1>5, <3>3, <4>1, <4>2, <4>3, <4>4
    <3>6. /\ restore'.todo = restore.todo \ {p}
          /\ restore'.pc # "check" => restore'.path = p /\ restore'.pc \in {"remove", "write"}
      BY <1>2
    <3>7. ASSUME NEW q \in DOMAIN entries, restore.force \/ ~past.torn, q \notin restore'.todo,
                 ~(restore'.pc \in {"remove", "write"} /\ restore'.path = q)
          PROVE  tree[q] = entries[q].before
      <4>1. CASE q = p
        BY <3>5, <3>6, <3>7, <4>1
      <4>2. CASE q # p
        BY <3>3, <3>6, <3>7, <4>2
      <4> QED BY <4>1, <4>2
    <3>8. /\ restore'.force = restore.force /\ restore'.id = restore.id
          /\ tree' = tree /\ record'[c].entries = entries /\ history'[c] = past
      BY <1>1, <3>1 DEF SameCopy
    <3> QED BY <3>3, <3>7, <3>8 DEF Between
  <2> QED BY <2>2, <2>3
<1> QED BY <1>3, <1>6, <1>7 DEF RevertInv

\* The restore writes at its path, where it is sure of what is there.
LEMMA OwnWriteBetween ==
    ASSUME TypeOK, CallInv, RevertInv, Noted(Undone), SameCopy, record' = record,
           restore.sealed, NEW c \in Capture, c = restore.id,
           restore.pc \in {"remove", "write"}, NEW p \in Path, p = restore.path,
           NEW s, tree' = [tree EXCEPT ![p] = s],
           restore'.todo = restore.todo,
           s \in {restore.entries[p].before, Absent},
           \/ restore'.pc = "check" /\ s = restore.entries[p].before
           \/ restore'.pc = "write" /\ restore'.path = p
    PROVE  Between(c)'
<1> SUFFICES ASSUME record[c].sealed, history[c].left # NoData, history[c].mixed = {},
                    history[c].quiet
             PROVE  Between(c)'
  BY NotedFacts DEF Between, Undone
<1>1. history'[c] = history[c]
  BY NotedFacts DEF Undone
<1>2. PICK entries, past : entries = record[c].entries /\ past = history[c]
  OBVIOUS
<1>3. entries = restore.entries /\ p \in DOMAIN entries
  BY <1>2, SealedRestore DEF RevertInv, CallInv, RestoreFits
<1>4. /\ \A q \in Path \ DOMAIN entries : tree[q] = past.left[q]
      /\ \A q \in DOMAIN entries :
           /\ tree[q] \in {past.left[q], entries[q].before, Absent}
           /\ past.torn \/ (restore.pc = "write" /\ q = p)
              \/ tree[q] \in {past.left[q], entries[q].before}
           /\ /\ restore.force \/ ~past.torn
              /\ q \notin restore.todo /\ q # p
              => tree[q] = entries[q].before
  BY <1>2 DEF RevertInv, Between, At
<1>5. tree'[p] = s /\ \A q \in Path \ {p} : tree'[q] = tree[q]
  BY DEF TypeOK, Tree
<1>6. DOMAIN entries \subseteq Path
  BY <1>3, TypeFacts, RestoreFacts
<1>7. \A q \in Path \ DOMAIN entries : tree'[q] = past.left[q]
  BY <1>3, <1>4, <1>5
<1>8. ASSUME NEW q \in DOMAIN entries
      PROVE  /\ tree'[q] \in {past.left[q], entries[q].before, Absent}
             /\ past.torn \/ (restore'.pc = "write" /\ restore'.path = q)
                \/ tree'[q] \in {past.left[q], entries[q].before}
             /\ /\ restore.force \/ ~past.torn
                /\ q \notin restore.todo
                /\ ~(restore'.pc \in {"remove", "write"} /\ restore'.path = q)
                => tree'[q] = entries[q].before
  <2>1. CASE q = p
    BY <1>3, <1>5, <2>1
  <2>2. CASE q # p
    BY <1>4, <1>5, <1>6, <2>2
  <2> QED BY <2>1, <2>2
<1>9. /\ restore'.sealed /\ restore'.force = restore.force /\ restore'.id = c
      /\ record'[c].entries = entries /\ history'[c] = past
  BY <1>1, <1>2 DEF SameCopy
<1> QED BY <1>7, <1>8, <1>9 DEF Between, At

\* What every other capture and every call keep when the restore writes.
LEMMA OwnWriteOthers ==
    ASSUME TypeOK, CallInv, RevertInv, TypeOK', Noted(Undone), SameCopy,
           UNCHANGED <<record, job>>
    PROVE  /\ \A r \in Runner : Knows(r)'
           /\ \A c \in Capture : Tells(c)'
           /\ \A c \in Capture : c # Undone => Between(c)'
<1>1. ASSUME NEW r \in Runner PROVE Knows(r)'
  <2>1. CASE ~Holds(r)
    BY <2>1 DEF Knows, Holds
  <2>2. CASE Holds(r)
    <3>1. job[r].id # Undone
      BY <2>2, SealedRestore DEF Undone, Holds, RevertInv
    <3> QED BY <3>1, WriteKeepsKnowledge
  <2> QED BY <2>1, <2>2
<1>2. \A c \in Capture : Tells(c)'
  BY WriteKeepsTales
<1>3. ASSUME NEW c \in Capture, c # Undone PROVE Between(c)'
  <2>1. ~(restore.sealed /\ restore.id = c) /\ ~(restore'.sealed /\ restore'.id = c)
    BY <1>3 DEF Undone, SameCopy
  <2> QED BY <1>3, <2>1, WriteKeepsBetween
<1> QED BY <1>1, <1>2, <1>3

\* A sealed restore that has been overtaken is of a capture that is not quiet.
LEMMA OwnWriteSeen ==
    ASSUME TypeOK, CallInv, RevertInv, Noted(Undone), SameCopy, record' = record,
           restore'.pc \in {"check", "write"}, restore'.raced = restore.raced,
           restore'.pc = "write" => tree'[restore'.path] \in {Absent, Dir}
    PROVE  Seen'
<1>1. Seen
  BY DEF RevertInv
<1>2. restore.sealed => restore.id \in Capture /\ history'[restore.id] = history[restore.id]
  BY <1>1, SealedRestore, NotedFacts DEF Undone
<1> QED BY <1>1, <1>2 DEF Seen, SameCopy

LEMMA RestoreRemoveRevert ==
    ASSUME TypeOK, CallInv, RevertInv, RestoreRemove
    PROVE  RevertInv'
<1>1. /\ TypeOK' /\ restore.pc = "remove" /\ restore.path \in Path
      /\ UNCHANGED <<record, blob, ring, job, printed, foreign>>
  BY RestoreRemoveFacts
<1>2. PICK p \in Path : p = restore.path
  BY <1>1
<1>3. CASE Return(FALSE) /\ tree' = tree
  BY <1>1, <1>3, ReturnRevert
<1>4. CASE /\ tree' = [tree EXCEPT ![p] = Absent] /\ Noted(Undone) /\ SameCopy
           /\ restore'.todo = restore.todo /\ restore'.raced = restore.raced
           /\ restore.entries[p].before = Absent => restore'.pc = "check"
           /\ restore.entries[p].before # Absent => restore'.pc = "write" /\ restore'.path = p
  <2>1. /\ \A r \in Runner : Knows(r)'
        /\ \A c \in Capture : Tells(c)'
        /\ \A c \in Capture : c # Undone => Between(c)'
    BY <1>1, <1>4, OwnWriteOthers
  <2>2. tree'[p] = Absent
    BY <1>4 DEF TypeOK, Tree
  <2>3. restore'.pc \in {"check", "write"} /\ (restore'.pc = "write" => restore'.path = p)
    BY <1>4
  <2>4. Seen'
    BY <1>1, <1>4, <2>2, <2>3, OwnWriteSeen
  <2>5. ASSUME NEW c \in Capture, c = Undone PROVE Between(c)'
    <3>1. restore.sealed /\ c = restore.id
      BY <2>5, CaptureAssumption DEF Undone
    <3>2. PICK s : s = Absent
      OBVIOUS
    <3>3. /\ tree' = [tree EXCEPT ![p] = s]
          /\ s \in {restore.entries[p].before, Absent}
          /\ \/ restore'.pc = "check" /\ s = restore.entries[p].before
             \/ restore'.pc = "write" /\ restore'.path = p
      BY <1>4, <3>2
    <3> QED BY <1>1, <1>2, <1>4, <3>1, <3>3, OwnWriteBetween
  <2> QED BY <2>1, <2>4, <2>5 DEF RevertInv
<1> QED BY <1>2, <1>3, <1>4, RestoreRemoveFacts

\* Nothing is at the path, or a directory: the bytes go there and nowhere else.
LEMMA WritePlace ==
    ASSUME TypeOK, CallInv, RevertInv, restore.pc = "write", ~restore.raced,
           NEW p \in Path, p = restore.path
    PROVE  tree[p].kind # "link"
<1>1. tree[p] \in {Absent, Dir}
  BY DEF RevertInv, Seen
<1> QED BY <1>1, StateMembers

LEMMA RestoreWriteRevert ==
    ASSUME TypeOK, CallInv, RevertInv, RestoreWrite
    PROVE  RevertInv'
<1>1. /\ TypeOK' /\ restore.pc = "write" /\ restore.path \in Path
      /\ UNCHANGED <<record, blob, ring, job, printed, foreign>>
  BY RestoreWriteFacts
<1>2. PICK p \in Path : p = restore.path
  BY <1>1
<1>3. PICK before, place : /\ before = restore.entries[p].before
                           /\ place = IF tree[p].kind = "link" THEN tree[p].data ELSE p
  OBVIOUS
<1>4. CASE Return(TRUE) /\ tree' = tree
  BY <1>1, <1>4, ReturnRevert
<1>5. CASE /\ tree' = [tree EXCEPT ![IF before.kind = "link" THEN p ELSE place] = before]
           /\ Noted(Undone) /\ SameCopy
           /\ restore'.todo = restore.todo /\ restore'.raced = restore.raced
           /\ restore'.pc = "check" /\ restore'.path = NoData
  <2>1. /\ \A r \in Runner : Knows(r)'
        /\ \A c \in Capture : Tells(c)'
        /\ \A c \in Capture : c # Undone => Between(c)'
    BY <1>1, <1>5, OwnWriteOthers
  <2>2. Seen'
    BY <1>1, <1>5, OwnWriteSeen
  <2>3. ASSUME NEW c \in Capture, c = Undone PROVE Between(c)'
    <3>1. restore.sealed /\ c = restore.id
      BY <2>3, CaptureAssumption DEF Undone
    <3>2. CASE restore.raced
      <4>1. ~history[c].quiet /\ history'[c] = history[c]
        BY <1>5, <2>3, <3>1, <3>2, NotedFacts DEF RevertInv, Seen
      <4> QED BY <4>1 DEF Between
    <3>3. CASE ~restore.raced
      <4>1. place = p
        BY <1>1, <1>2, <1>3, <3>3, WritePlace
      <4>2. tree' = [tree EXCEPT ![p] = before]
        BY <1>5, <4>1
      <4>3. before \in {restore.entries[p].before, Absent} /\ before = restore.entries[p].before
        BY <1>3
      <4> QED BY <1>1, <1>2, <1>5, <3>1, <4>2, <4>3, OwnWriteBetween
    <3> QED BY <3>2, <3>3
  <2> QED BY <2>1, <2>2, <2>3 DEF RevertInv
<1> QED BY <1>2, <1>3, <1>4, <1>5, RestoreWriteFacts

LEMMA RestoreCrashRevert ==
    ASSUME TypeOK, CallInv, RevertInv, RestoreCrash
    PROVE  RevertInv'
<1>1. /\ restore.pc # "idle" /\ UNCHANGED <<tree, record, blob, ring, job, printed, foreign>>
      /\ \E torn \in BOOLEAN : (torn <=> restore.pc = "write") /\ Return(torn)
  BY RestoreCrashFacts
<1> QED BY <1>1, ReturnRevert

LEMMA InitRevert == Init => RevertInv
<1> SUFFICES ASSUME Init PROVE RevertInv
  OBVIOUS
<1>1. \A r \in Runner : Knows(r)
  BY DEF Init, Idle, Knows, Holds
<1>2. \A c \in Capture : history[c].left = NoData
  BY DEF Init, NoHistory
<1>3. \A c \in Capture : Tells(c) /\ Between(c)
  BY <1>2 DEF Tells, Between
<1>4. Seen
  BY DEF Init, NoRestore, Seen
<1> QED BY <1>1, <1>3, <1>4 DEF RevertInv

LEMMA StutterRevert ==
    ASSUME RevertInv, UNCHANGED vars
    PROVE  RevertInv'
<1>1. \A r \in Runner : Knows(r)'
  BY DEF RevertInv, Knows, Holds, vars
<1>2. \A c \in Capture : Tells(c)' /\ Between(c)'
  BY DEF RevertInv, Tells, Between, At, vars
<1>3. Seen'
  BY DEF RevertInv, Seen, vars
<1> QED BY <1>1, <1>2, <1>3 DEF RevertInv

LEMMA NextRevert == TypeOK /\ CallInv /\ RevertInv /\ [Next]_vars => RevertInv'
<1> SUFFICES ASSUME TypeOK, CallInv, RevertInv, [Next]_vars PROVE RevertInv'
  OBVIOUS
<1>1. ASSUME NEW r \in Runner, RunnerStep(r) PROVE RevertInv'
  BY <1>1, SubmitRevert, CapturePathRevert, CaptureFailsRevert, PublishRevert, QueueFullRevert,
     StartRevert, EffectStepRevert, StopRevert, SealPathRevert, SealWriteRevert, AbandonRevert
     DEF RunnerStep
<1>2. CASE RestoreStep
  BY <1>2, RestoreBeginRevert, RestoreCheckRevert, RestoreRemoveRevert, RestoreWriteRevert,
     RestoreEndRevert, RestoreCrashRevert DEF RestoreStep
<1> QED BY <1>1, <1>2, ForeignRevert, StutterRevert DEF Next

LEMMA RevertInvariant == Spec => [](TypeOK /\ CallInv /\ RevertInv)
<1>1. Init => TypeOK /\ CallInv /\ RevertInv
  BY InitTypes, InitCall, InitRevert
<1>2. (TypeOK /\ CallInv /\ RevertInv) /\ [Next]_vars => (TypeOK /\ CallInv /\ RevertInv)'
  BY NextCall, NextRevert
<1> QED BY <1>1, <1>2, PTL DEF Spec

-----------------------------------------------------------------------------
(* What follows for the reverts. *)

\* When a restore of a sealed capture is through, and only the command and such restores have
\* written since before the capture, the whole tree is the one the command found, in whatever
\* order its paths were taken and however often it was tried before.
THEOREM RevertsRestoreTheTree == Spec => []RevertRestoresTree
<1>1. TypeOK /\ CallInv /\ RevertInv => RevertRestoresTree
  <2> SUFFICES ASSUME TypeOK, CallInv, RevertInv, Finished,
                      \A p \in Path \ DOMAIN restore.entries :
                        history[restore.id].left[p] = history[restore.id].held[p]
               PROVE  tree = history[restore.id].held
    BY DEF RevertRestoresTree
  <2>1. /\ restore.pc = "check" /\ restore.todo = {} /\ restore.sealed
    BY DEF Finished
  <2>2. PICK c \in Capture : /\ c = restore.id /\ record[c].sealed
                             /\ record[c].entries = restore.entries
    BY <2>1, SealedRestore DEF RevertInv
  <2>3. PICK past : past = history[c]
    OBVIOUS
  <2>4. /\ past.left # NoData /\ past.mixed = {} /\ past.quiet /\ (restore.force \/ ~past.torn)
    BY <2>2, <2>3 DEF Finished
  <2>5. /\ past.held \in Tree
        /\ \A p \in DOMAIN restore.entries : restore.entries[p].before = past.held[p]
    BY <2>2, <2>3, <2>4 DEF RevertInv, Tells
  <2>6. /\ \A p \in Path \ DOMAIN restore.entries : tree[p] = past.left[p]
        /\ \A p \in DOMAIN restore.entries : tree[p] = restore.entries[p].before
    BY <2>1, <2>2, <2>3, <2>4 DEF RevertInv, Between
  <2>7. \A p \in Path : tree[p] = past.held[p]
    BY <2>2, <2>3, <2>5, <2>6
  <2> QED BY <2>2, <2>3, <2>5, <2>7 DEF TypeOK, Tree
<1> QED BY <1>1, RevertInvariant, PTL

\* What the property says of one step.
Exact ==
  LET p == restore.path
      past == history[restore.id]
  IN /\ RestoreActs
     /\ ~restore.force /\ restore.sealed /\ ~restore.raced
     /\ past.left # NoData /\ p \notin past.mixed
     => /\ Changed = {p}
        /\ restore.pc = "remove" => Look(tree[p]) = Look(past.left[p])
        /\ restore.pc = "write" => tree'[p] = past.held[p]

\* Only a restore's own writes are restore acts.
LEMMA RestoreActsOnly ==
    ASSUME TypeOK, CallInv, [Next]_vars, RestoreActs
    PROVE  RestoreRemove \/ RestoreWrite
<1>1. ASSUME NEW r \in Runner, RunnerStep(r) PROVE FALSE
  <2>1. CASE EffectStep(r)
    <3>1. job'[r].todo # job[r].todo
      BY <2>1, EffectStepFacts
    <3> QED BY <3>1 DEF RestoreActs
  <2>2. CASE ~EffectStep(r)
    <3>1. tree' = tree
      BY <1>1, <2>2 DEF RunnerStep, Submit, CapturePath, CaptureFails, Publish, QueueFull,
                        Start, Stop, SealPath, SealWrite, Abandon
    <3> QED BY <3>1 DEF RestoreActs
  <2> QED BY <2>1, <2>2
<1>2. ~ForeignWrite
  <2>1. ASSUME foreign' = foreign + 1 PROVE foreign' # foreign
    BY <2>1, CaptureAssumption DEF TypeOK
  <2> QED BY <2>1 DEF ForeignWrite, RestoreActs
<1>3. ~UNCHANGED vars /\ ~RestoreBegin /\ ~RestoreCheck /\ ~RestoreEnd /\ ~RestoreCrash
  BY DEF RestoreActs, vars, RestoreBegin, RestoreCheck, RestoreEnd, RestoreCrash
<1> QED BY <1>1, <1>2, <1>3 DEF Next, RestoreStep

LEMMA NextExact ==
    ASSUME TypeOK, CallInv, RevertInv, [Next]_vars
    PROVE  Exact
<1> SUFFICES ASSUME RestoreActs, ~restore.force, restore.sealed, ~restore.raced,
                    history[restore.id].left # NoData,
                    restore.path \notin history[restore.id].mixed
             PROVE  /\ Changed = {restore.path}
                    /\ restore.pc = "remove" =>
                         Look(tree[restore.path]) = Look(history[restore.id].left[restore.path])
                    /\ restore.pc = "write" =>
                         tree'[restore.path] = history[restore.id].held[restore.path]
  BY DEF Exact
<1>1. RestoreRemove \/ RestoreWrite
  BY RestoreActsOnly
<1>2. PICK p \in Path : p = restore.path /\ p \in DOMAIN restore.entries
                        /\ restore.pc \in {"remove", "write"}
  <2>1. restore.path \in Path /\ restore.pc \in {"remove", "write"}
    BY <1>1, RestoreRemoveFacts, RestoreWriteFacts
  <2> QED BY <2>1 DEF CallInv, RestoreFits
<1>3. PICK c \in Capture : /\ c = restore.id /\ record[c].sealed
                           /\ record[c].entries = restore.entries
  BY SealedRestore DEF RevertInv
<1>4. PICK past, entry : past = history[c] /\ entry = restore.entries[p]
  OBVIOUS
<1>5. entry.before = past.held[p] /\ entry.after = Look(past.left[p])
  BY <1>2, <1>3, <1>4 DEF RevertInv, Tells
<1>6. tree \in Tree /\ tree' # tree
  BY DEF TypeOK, RestoreActs
<1>7. ASSUME NEW s, tree' = [tree EXCEPT ![p] = s] PROVE tree'[p] = s /\ Changed = {p}
  <2>1. tree'[p] = s /\ \A q \in Path \ {p} : tree'[q] = tree[q]
    BY <1>6, <1>7 DEF Tree
  <2>2. s # tree[p]
    BY <1>6, <1>7 DEF Tree
  <2> QED BY <2>1, <2>2 DEF Changed
<1>8. CASE RestoreRemove
  <2>1. restore.pc = "remove" /\ tree' = [tree EXCEPT ![p] = Absent]
    BY <1>2, <1>6, <1>8, RestoreRemoveFacts
  <2>2. Look(tree[p]) = entry.after
    BY <1>2, <1>4, <2>1 DEF RevertInv, Seen
  <2> QED BY <1>2, <1>3, <1>4, <1>5, <1>7, <2>1, <2>2
<1>9. CASE RestoreWrite
  <2>1. restore.pc = "write"
    BY <1>9, RestoreWriteFacts
  <2>2. PICK place : place = IF tree[p].kind = "link" THEN tree[p].data ELSE p
    OBVIOUS
  <2>3. tree' = [tree EXCEPT ![IF entry.before.kind = "link" THEN p ELSE place] = entry.before]
    BY <1>2, <1>4, <1>6, <1>9, <2>2, RestoreWriteFacts
  <2>4. place = p
    BY <1>2, <2>1, <2>2, WritePlace
  <2>5. tree' = [tree EXCEPT ![p] = entry.before]
    BY <2>3, <2>4
  <2>6. PICK s : s = entry.before
    OBVIOUS
  <2>7. tree'[p] = s /\ Changed = {p}
    BY <1>7, <2>5, <2>6
  <2> QED BY <1>2, <1>3, <1>4, <1>5, <2>1, <2>6, <2>7
<1> QED BY <1>1, <1>8, <1>9

\* A revert without force removes exactly what the command left at a path and puts back exactly
\* what the command found there, and touches no other path - but for paths others wrote between
\* the two readings of the capture, or between the revert's check and its write.
THEOREM RevertsAreExact == Spec => RevertIsExact
<1>1. TypeOK /\ CallInv /\ RevertInv /\ [Next]_vars =>
        [LET p == restore.path
             past == history[restore.id]
         IN /\ RestoreActs
            /\ ~restore.force /\ restore.sealed /\ ~restore.raced
            /\ past.left # NoData /\ p \notin past.mixed
            => /\ Changed = {p}
               /\ restore.pc = "remove" => Look(tree[p]) = Look(past.left[p])
               /\ restore.pc = "write" => tree'[p] = past.held[p]]_vars
  BY NextExact DEF Exact
<1> QED BY <1>1, RevertInvariant, PTL DEF Spec, RevertIsExact
=============================================================================
