----------------------------- MODULE GlobGuard -----------------------------
(***************************************************************************)
(* What the shell guard decides about a command that deletes, renames or   *)
(* edits the paths it names (bash/guard.go), and what such a command does  *)
(* to the tree.  Every operator takes the tree as a parameter: the guard   *)
(* reads it before the command runs, the shell reads it again when it does.*)
(*                                                                         *)
(* A command is its verb, its options and its operands.  An operand is the *)
(* set of paths it can stand for, whether the shell expands it as a        *)
(* pattern, and whether the shell rewrites it in another way ($, `, ~, {). *)
(* Quoting, order and spelling are left out.  So are irregular files and   *)
(* unreadable paths, which the guard treats as it treats directories.      *)
(***************************************************************************)
EXTENDS Naturals, Sequences, FiniteSets

CONSTANTS
  Path,   \* the paths commands can name or reach
  Bytes,  \* contents of regular files
  Inner,  \* Inner[q]: where a file moved into the directory q ends up
  Sed,    \* Sed[b]: what an in-place edit makes of the content b
  NoData  \* no bytes and no link target

ASSUME TreeAssumption ==
  /\ Inner \in [Path -> Path]
  /\ Sed \in [Bytes -> Bytes]
  /\ NoData \notin Bytes \union Path

Absent == [kind |-> "absent", data |-> NoData]
Dir == [kind |-> "dir", data |-> NoData]
File(bytes) == [kind |-> "file", data |-> bytes]
Link(to) == [kind |-> "link", data |-> to]

State == {Absent, Dir} \union {File(bytes) : bytes \in Bytes} \union {Link(to) : to \in Path}

Tree == [Path -> State]

-----------------------------------------------------------------------------
(* The plan of a command *)

Verb == {"rm", "mv", "sed", "gofmt"}

Operand == [glob: BOOLEAN, names: SUBSET Path, live: BOOLEAN]

Plan == [verb: Verb, flags: SUBSET STRING, operands: Seq(Operand)]

\* The commands with a modelled effect.  An edit enters the lane only when it works in place.
Recognised(plan) ==
  /\ plan.operands # <<>>
  /\ plan.verb = "sed" => plan.flags \intersect {"-i", "-i.bak"} # {}
  /\ plan.verb = "gofmt" => "-w" \in plan.flags

ModeledFlags ==
  [rm |-> {"-f", "-r"}, mv |-> {}, sed |-> {"-i", "-e"}, gofmt |-> {"-w"}]

Unmodeled(plan) == plan.flags \ ModeledFlags[plan.verb]

\* The paths one operand stands for now: a pattern matches what exists, a name is itself.
Matches(tree, operand) ==
  IF operand.glob
  THEN {p \in operand.names : tree[p] # Absent}
  ELSE operand.names

\* The surface, operand by operand.
Expand(tree, plan) == [i \in DOMAIN plan.operands |-> Matches(tree, plan.operands[i])]

Flat(groups) == UNION {groups[i] : i \in DOMAIN groups}

HasGlob(plan) == \E i \in DOMAIN plan.operands : plan.operands[i].glob

Hazard(tree, p) ==
  CASE tree[p].kind = "absent" -> {"missing"}
    [] tree[p].kind = "link" -> {"symlink"}
    [] tree[p].kind = "dir" -> {"directory"}
    [] OTHER -> {}

Allowed(tree, paths, hazards) == \A p \in paths : Hazard(tree, p) \subseteq hazards

\* The admission matrix.
Protectable(tree, plan, groups) ==
  /\ Unmodeled(plan) = {}
  /\ \A i \in DOMAIN groups : groups[i] # {} /\ ~plan.operands[i].live
  /\ CASE plan.verb = "rm" -> Allowed(tree, Flat(groups), {"symlink"})
       [] plan.verb = "mv" ->
            /\ Len(groups) = 2
            /\ Cardinality(groups[1]) = 1 /\ Cardinality(groups[2]) = 1
            /\ Allowed(tree, groups[1], {"symlink"})
            /\ Allowed(tree, groups[2], {"symlink", "missing"})
       [] OTHER -> Allowed(tree, Flat(groups), {})

DigestOfVerb(plan, groups) == <<plan.verb, Flat(groups)>>

\* What a confirmation is bound to: the whole command and the paths of its surface.
Digest(plan, groups) == <<plan, Flat(groups)>>

Unpinned(plan, groups) == plan

\* The command with the captured paths in the place of its patterns.
Pin(plan, groups) ==
  [plan EXCEPT !.operands =
     [i \in DOMAIN groups |-> [glob |-> FALSE, names |-> groups[i], live |-> FALSE]]]

-----------------------------------------------------------------------------
(* What the programs do: not code of the repository *)

IsDirectory(tree, p) ==
  \/ tree[p] = Dir
  \/ tree[p].kind = "link" /\ tree[tree[p].data] = Dir

\* The directory p is or leads to.
DirectoryOf(tree, p) == IF tree[p] = Dir THEN p ELSE tree[p].data

Remove(tree, p, recursive) ==
  CASE tree[p].kind \in {"file", "link"} -> [tree EXCEPT ![p] = Absent]
    [] tree[p] = Dir /\ recursive -> [tree EXCEPT ![p] = Absent, ![Inner[p]] = Absent]
    [] OTHER -> tree

Move(tree, from, to) ==
  LET place == IF IsDirectory(tree, to) THEN Inner[DirectoryOf(tree, to)] ELSE to
  IN IF \/ tree[from] = Absent \/ from = place
        \/ tree[from] = Dir
        \/ tree[place] = Dir
     THEN tree
     ELSE [tree EXCEPT ![place] = tree[from], ![from] = Absent]

\* sed and gofmt write a new file in the place of the one they read, even of a link.
EditInPlace(tree, p) ==
  LET source == IF tree[p].kind = "link" THEN tree[tree[p].data] ELSE tree[p]
  IN IF source.kind = "file" THEN [tree EXCEPT ![p] = File(Sed[source.data])] ELSE tree

\* The steps a command takes on the paths its operands have become.  Several files move
\* only into a directory.
Work(tree, plan, groups) ==
  IF plan.verb # "mv" THEN {<<p, p>> : p \in Flat(groups)}
  ELSE IF /\ Len(groups) = 2
          /\ \A to \in groups[2] : IsDirectory(tree, to) \/ Cardinality(groups[1]) = 1
       THEN groups[1] \X groups[2]
       ELSE {}

Effect(tree, plan, item) ==
  CASE plan.verb = "rm" -> Remove(tree, item[1], "-r" \in plan.flags)
    [] plan.verb = "mv" -> Move(tree, item[1], item[2])
    [] OTHER -> EditInPlace(tree, item[1])

=============================================================================
