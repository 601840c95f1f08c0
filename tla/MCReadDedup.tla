---------------------------- MODULE MCReadDedup ----------------------------
(* Instances of ReadDedup for TLC. *)
EXTENDS ReadDedup

CONSTANTS a, b, a1, a2, b1   \* two files, two windows of a and one of b

MCPathOf == [i \in {a1, a2, b1} |-> IF i = b1 THEN b ELSE a]

\* Version 1 is a short file, whose section is shorter than a stub; version 2
\* of b overflows a page.
MCSecLen == [i \in {a1, a2, b1} |-> [v \in {1, 2} |-> IF v = 1 THEN 1 ELSE IF i = b1 THEN 5 ELSE 2]]
MCBatches == {<<a1, b1>>, <<b1, a1, a2>>}
=============================================================================
