---------------------------- MODULE MCSelfUpdate ----------------------------
(* Two updates that may run at once, three processes - one that leaves,    *)
(* one that comes up and one started by hand - and three builds, of which  *)
(* the one in the middle cannot serve.                                     *)
EXTENDS SelfUpdate, TLC

Symmetry == Permutations(Process) \cup Permutations(Update)
=============================================================================
