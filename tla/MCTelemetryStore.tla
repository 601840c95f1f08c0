-------------------------- MODULE MCTelemetryStore --------------------------
(***************************************************************************)
(* An instance of TelemetryStore: one session outlives a record of another.*)
(***************************************************************************)
EXTENDS TelemetryStore, TLC

CONSTANTS s1, s2

MCMaxRecords == (s1 :> 2) @@ (s2 :> 1)
=============================================================================
