--------------------------- MODULE MCV4Collection ---------------------------
(* Two executions of a plan with a page grain and a statistic.             *)
EXTENDS V4Collection, TLC
CONSTANTS page, statistic
TheGrains == {page, statistic}
ThePlan == <<page, statistic>>
Interchangeable == Permutations(Executions)
=============================================================================
