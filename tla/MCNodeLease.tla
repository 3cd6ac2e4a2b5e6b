------------------------------ MODULE MCNodeLease ------------------------------
(***************************************************************************)
(* Instances of NodeLease.                                                 *)
(***************************************************************************)
EXTENDS NodeLease

Symmetry == Permutations(Replicas)
===============================================================================
