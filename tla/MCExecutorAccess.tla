-------------------------- MODULE MCExecutorAccess --------------------------
(* The bounds and model values are in the configuration. *)
EXTENDS ExecutorAccess
=============================================================================
