---------------------------- MODULE SessionTotals ----------------------------
(***************************************************************************)
(* What the telemetry directory promises: for each session a persisted     *)
(* lower bound of what it has recorded, which only grows, until the        *)
(* session's figures are given up as a whole.                              *)
(***************************************************************************)
EXTENDS Naturals

CONSTANT Session

VARIABLES
  recorded,  \* session -> what has been recorded in memory
  persisted  \* session -> what a reader of the directory would count

Init ==
  /\ recorded = [s \in Session |-> 0]
  /\ persisted = [s \in Session |-> 0]

Record(s) ==
  /\ recorded' = [recorded EXCEPT ![s] = @ + 1]
  /\ UNCHANGED persisted

Persist(s) ==
  \E n \in persisted[s] + 1..recorded[s] : persisted' = [persisted EXCEPT ![s] = n]
  /\ UNCHANGED recorded

Forget(s) ==
  /\ persisted' = [persisted EXCEPT ![s] = 0]
  /\ UNCHANGED recorded

Next == \E s \in Session : Record(s) \/ Persist(s) \/ Forget(s)

Spec == Init /\ [][Next]_<<recorded, persisted>>
=============================================================================
