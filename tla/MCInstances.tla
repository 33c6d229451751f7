----------------------------- MODULE MCInstances -----------------------------
(***************************************************************************)
(* Small instances of Instances for TLC.                                   *)
(***************************************************************************)
EXTENDS Instances, TLC

Symmetry == Permutations(Clients) \cup Permutations(Nodes)
=============================================================================
