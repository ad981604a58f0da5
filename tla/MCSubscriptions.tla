--------------------------- MODULE MCSubscriptions ---------------------------
(***************************************************************************)
(* One user who may have paid before, and a payment: users meet only in    *)
(* the order of the job's list.                                            *)
(***************************************************************************)
EXTENDS Subscriptions

CONSTANTS e1, p1

MCUsers == {e1}
MCPayments == {p1}
MCPayer == [p \in Payments |-> e1]
MCWorkers == 1 .. 2
MCFirstEnds == {1}
MCFaults == {"persist", "unbound", "activate", "invite", "delete", "find", "warn", "record",
             "mark", "user", "kick", "crash"}
=============================================================================
