----------------------------- MODULE MCVaultUI -----------------------------
(***************************************************************************)
(* Instances of VaultUI: most calls for sessions, or for the vault.        *)
(***************************************************************************)
EXTENDS VaultUI

CONSTANTS r1, r2, l1, t1, t2, p1, p2, k1, k2, n1, v1, g1, g2

Calls(auth, vault, fault) == [auth |-> auth, vault |-> vault, fault |-> fault]

MCBudgets == {Calls(4, 0, 0), Calls(1, 1, 1), Calls(1, 2, 0), Calls(0, 2, 2)}

MCOps ==
  {[verb |-> "set", name |-> n1, value |-> v1],
   [verb |-> "setWithGroup", name |-> n1, value |-> v1, group |-> g1],
   [verb |-> "remove", name |-> n1],
   [verb |-> "addGroup", group |-> g2],
   [verb |-> "deleteGroup", group |-> g1],
   [verb |-> "renameGroup", group |-> g1, to |-> g2],
   [verb |-> "assignGroup", name |-> n1, group |-> g2]}
=============================================================================
