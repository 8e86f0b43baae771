----------------------------- MODULE MCBackfill -----------------------------
(* A plan of two stores, or of one store and a blocked grain.              *)
EXTENDS Backfill, TLC
CONSTANTS g1, g2
OneGrain == <<g1>>
TwoGrains == <<g1, g2>>
OneDay == [g \in Grains |-> 1]
TwoDaysOfOne == [g \in Grains |-> IF g = g1 THEN 2 ELSE 1]
Interchangeable == Permutations(Executions) \cup Permutations(Prints)
=============================================================================
