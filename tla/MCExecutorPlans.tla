--------------------------- MODULE MCExecutorPlans ---------------------------
(* Small instances of ExecutorPlans for TLC. *)
EXTENDS ExecutorPlans

CONSTANT ph1
=============================================================================
