---------------------------- MODULE MCMessaging ----------------------------
(***************************************************************************)
(* Instances of Messaging: workers are interchangeable.                    *)
(***************************************************************************)
EXTENDS Messaging, TLC

Symmetry == Permutations(Workers)
=============================================================================
