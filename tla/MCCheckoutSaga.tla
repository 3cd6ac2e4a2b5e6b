---------------------------- MODULE MCCheckoutSaga ----------------------------
(***************************************************************************)
(* Instances of CheckoutSaga: payment calls are interchangeable.           *)
(***************************************************************************)
EXTENDS CheckoutSaga, TLC

Symmetry == Permutations(Calls)
===============================================================================
