--------------------------- MODULE MCAuthorization ---------------------------
(* Two stores whose accounts the reviewer knows, the first account with two *)
(* keys, and interchangeable states, batches and finalizers.                *)
EXTENDS Authorization, TLC

CONSTANTS s1, s2, p1, p2, k1, k2, k3

Identities == s1 :> p1 @@ s2 :> p2
Issued == k1 :> p1 @@ k2 :> p1 @@ k3 :> p2
Interchangeable == Permutations(States) \cup Permutations(Batches)
                   \cup Permutations(Finalizers) \cup Permutations({k1, k2})
=============================================================================
