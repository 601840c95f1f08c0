--------------------------- MODULE MCServerTables ---------------------------
(***************************************************************************)
(* Instances of ServerTables: a client that works on tasks, on payloads,   *)
(* or on a little of both.                                                 *)
(***************************************************************************)
EXTENDS ServerTables, TLC

CONSTANTS b1, b2, o1, o2, p1, p2

Calls(tasks, files_) == [task |-> tasks, file |-> files_]

MCBudgets == {Calls(4, 0), Calls(0, 4), Calls(2, 1)}
MCPayloadBudgets == {Calls(0, 4)}
=============================================================================
