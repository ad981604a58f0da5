----------------------------- MODULE MCPlanForm -----------------------------
EXTENDS PlanForm, TLC
\* Neither threads nor workers are told apart by any definition.
Interchangeable == Permutations(Threads) \cup Permutations(Workers)
=============================================================================
