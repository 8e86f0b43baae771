------------------------------ MODULE MCCutover ------------------------------
(* One stored notification, and others that may arrive in any order.       *)
EXTENDS Cutover, TLC
Interchangeable == Permutations(Notes \ {First})
=============================================================================
