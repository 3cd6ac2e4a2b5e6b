------------------------------- MODULE MCPayment ------------------------------
(***************************************************************************)
(* Instances of Payment: calls are interchangeable.                        *)
(***************************************************************************)
EXTENDS Payment, TLC

Symmetry == Permutations(Calls)
===============================================================================
