---------------------------- MODULE VaultContents ----------------------------
(***************************************************************************)
(* The promise of the secret vault: each update is applied at once to what *)
(* all the updates before it have left, and a power loss takes back at     *)
(* most what has not settled.                                              *)
(***************************************************************************)
EXTENDS SecretStore

VARIABLES
  contents,  \* what a reader finds
  safe       \* what would be left by a power loss

Init == contents = EmptyStore /\ safe = EmptyStore

Update ==
  /\ \E op \in Op : ~Refused(op, contents) /\ contents' = Change(op, contents)
  /\ UNCHANGED safe

Settle == safe' = contents /\ UNCHANGED contents

PowerLoss == contents' \in {contents, safe} /\ safe' = contents'

Spec == Init /\ [][Update \/ Settle \/ PowerLoss]_<<contents, safe>>
=============================================================================
