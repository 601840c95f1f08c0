--------------------------- MODULE TaskLifecycle ---------------------------
(***************************************************************************)
(* What an asynchronous call promises: its task is started once and ends   *)
(* once, with the outcome of its work unless it was cancelled while it     *)
(* was active, and whoever collects it takes it.                           *)
(***************************************************************************)
CONSTANT Task

VARIABLES
  phase,  \* task -> "none", "active", the outcome it ended with, or "gone"
  asked   \* the tasks whose cancellation was accepted

Outcome == {"done", "failed", "cancelled"}

Init == phase = [t \in Task |-> "none"] /\ asked = {}

Cancel(t) ==
  /\ phase[t] = "active"
  /\ asked' = asked \union {t}
  /\ UNCHANGED phase

End(t) ==
  /\ phase[t] = "active"
  /\ \E outcome \in Outcome :
       /\ outcome = "cancelled" <=> t \in asked
       /\ phase' = [phase EXCEPT ![t] = outcome]
  /\ UNCHANGED asked

\* The results of any number of ended tasks go at once: one is collected or several expire.
Forget(tasks) ==
  /\ \A t \in tasks : phase[t] \in Outcome
  /\ phase' = [t \in Task |-> IF t \in tasks THEN "gone" ELSE phase[t]]
  /\ UNCHANGED asked

\* A start first forgets what has expired.
ForgetAndStart(tasks, t) ==
  /\ \A u \in tasks : phase[u] \in Outcome
  /\ phase[t] = "none"
  /\ phase' = [u \in Task |-> IF u \in tasks THEN "gone" ELSE IF u = t THEN "active" ELSE phase[u]]
  /\ UNCHANGED asked

Next ==
  \/ \E t \in Task : Cancel(t) \/ End(t)
  \/ \E tasks \in SUBSET Task : Forget(tasks) \/ \E t \in Task : ForgetAndStart(tasks, t)

Spec == Init /\ [][Next]_<<phase, asked>>
=============================================================================
