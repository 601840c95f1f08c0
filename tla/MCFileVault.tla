---------------------------- MODULE MCFileVault ----------------------------
(* Instances of FileVault for TLC. *)
EXTENDS FileVault, TLC

\* Servers, paths, change tokens and snapshot names are interchangeable.
Symmetry == Permutations(Servers) \cup Permutations(Paths) \cup Permutations(SnapIds)
            \cup Permutations(Tokens)
=============================================================================
