------------------------- MODULE MCModelCallBudget -------------------------
(* ModelCallBudget for TLC: a run of two threads whose worker may die      *)
(* once, and a run of one call that spends from the same daily budget.     *)
EXTENDS ModelCallBudget, TLC

CONSTANTS r1, r2, c1, c2, c3

MCThreadsOf == [r \in Runs |-> IF r = r1 THEN {c1, c2} ELSE {c3}]
MCMaxModelCalls == [r \in Runs |-> IF r = r1 THEN 2 ELSE 1]
MCMaxCrashes == [r \in Runs |-> IF r = r1 THEN 1 ELSE 0]

Symmetry == Permutations({c1, c2})
=============================================================================
