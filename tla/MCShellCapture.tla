--------------------------- MODULE MCShellCapture ---------------------------
(***************************************************************************)
(* Instances of ShellCapture: two files x and y that a pattern matches, a  *)
(* directory d, and the one place a file moved into a directory takes.     *)
(***************************************************************************)
EXTENDS ShellCapture, TLC

CONSTANTS x, y, d, in, b0, b1, b2, old, c1, c2, r1, r2

MCInner == [p \in Path |-> in]
MCSed == (b0 :> b1) @@ (b1 :> b1) @@ (b2 :> b1)

Glob(names) == [glob |-> TRUE, names |-> names, live |-> FALSE]
Named(p) == [glob |-> FALSE, names |-> {p}, live |-> FALSE]
Command(verb, flags, operands) == [verb |-> verb, flags |-> flags, operands |-> operands]

MCPlans ==
  {Command("rm", {}, <<Glob({y})>>),
   Command("rm", {"-r"}, <<Glob({y})>>),
   Command("rm", {"-f"}, <<Named(x), Named(y)>>),
   Command("mv", {}, <<Named(x), Named(y)>>),
   Command("sed", {"-i"}, <<Glob({x, y})>>)}

TreeWith(atX, atY) ==
  (x :> atX) @@ (y :> atY) @@ (d :> Dir) @@ (in :> Absent)

Blank == [c \in Capture |-> Unwritten]
EmptyRing == [p \in Path |-> <<>>]

\* A capture of an earlier version, whose file was deleted and whose bytes are in the ring.
LegacyRecord ==
  [Blank EXCEPT ![old] = [written |-> TRUE, sealed |-> TRUE,
     entries |-> (x :> [before |-> File(b2), owned |-> FALSE, after |-> File(b0)])]]

Past(t, records, rings) == [tree |-> t, record |-> records, ring |-> rings]

MCPasts ==
  {Past(TreeWith(File(b0), atY), Blank, EmptyRing) : atY \in {Absent, File(b2), Link(d), Dir}}
    \union {Past(TreeWith(Link(in), File(b0)), Blank, EmptyRing),
            Past([TreeWith(File(b0), File(b2)) EXCEPT ![in] = File(b1)], Blank, EmptyRing),
            Past(TreeWith(File(b0), Absent), LegacyRecord, [EmptyRing EXCEPT ![x] = <<b2>>])}

MCForeign == {<<y, File(b2)>>, <<y, Dir>>, <<y, Absent>>}
=============================================================================
