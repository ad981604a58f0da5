------------------------------- MODULE Orders -------------------------------
(***************************************************************************)
(* The order repository (db/orders.ts): the rows of the orders table, the  *)
(* has_active_order flag of the users table and the active-orders gauge.   *)
(* One action is one statement or one transaction as PostgreSQL commits    *)
(* it.  The single exception is completeOrderByExecutor, which runs at     *)
(* READ COMMITTED: it reads, with the row locked, whether the executor has *)
(* another active order, and commits that answer later (CompleteBegin,     *)
(* CompleteCommit), so transactions on other rows interleave.              *)
(*                                                                         *)
(* Abstractions: claimed_at (ordering of lists only), addresses, prices    *)
(* and contacts are left out; completed_at is present or absent;           *)
(* updated_at is the bit `stale`, "older than the expiry horizon".         *)
(***************************************************************************)
EXTENDS Naturals, FiniteSets

CONSTANTS
    OrderIds,     \* ids the sequence will hand out
    Executors,    \* telegram ids that may claim
    Clients,
    Cities,
    Messages,     \* channel message ids
    ClientOf,     \* client_id of each order
    CityOf,       \* city of each order
    NULL

ASSUME OrdersAssumption ==
    /\ IsFiniteSet(OrderIds)
    /\ ClientOf \in [OrderIds -> Clients]
    /\ CityOf \in [OrderIds -> Cities]
    /\ NULL \notin Executors
    /\ NULL \notin Messages

VARIABLES
    orders,      \* orders[o]: the committed row
    hasActive,   \* users.has_active_order
    gauge,       \* servicebot_active_orders
    tx           \* tx[o]: the completeOrderByExecutor transaction that locks row o

vars == <<orders, hasActive, gauge, tx>>

Statuses == {"new", "open", "claimed", "in_progress", "cancelled", "finished", "expired"}

Row == [status    : Statuses \cup {"absent"},
        claimedBy : Executors \cup {NULL},
        message   : Messages \cup {NULL},
        completed : BOOLEAN,
        stale     : BOOLEAN]

Completion == [executor : Executors, to : {"in_progress", "finished"}, flag : BOOLEAN]

Held == {"claimed", "in_progress"}

\* Slip: SELECT without FOR UPDATE.
FreeUnlocked(o) == TRUE

\* Row o is not locked by a completion (lockOrderById).
Free(o) == tx[o] = NULL

-----------------------------------------------------------------------------
\* updateExecutorHasActiveOrder: does the table `rows` give e an active order?
HasActiveOrder(rows, e) ==
    \E o \in OrderIds : /\ rows[o].claimedBy = e
                        /\ rows[o].status \in {"open", "claimed", "in_progress"}

UpdateExecutorHasActiveOrder(e) ==
    hasActive' = [hasActive EXCEPT ![e] = HasActiveOrder(orders', e)]

\* updateActiveOrdersGauge counts two statuses.
CountActiveOrders(rows) ==
    Cardinality({o \in OrderIds : rows[o].status \in {"open", "claimed"}})

UpdateActiveOrdersGauge == gauge' = CountActiveOrders(orders')

-----------------------------------------------------------------------------
Init ==
    /\ orders = [o \in OrderIds |-> [status |-> "absent", claimedBy |-> NULL,
                                     message |-> NULL, completed |-> FALSE,
                                     stale |-> FALSE]]
    /\ hasActive = [e \in Executors |-> FALSE]
    /\ gauge = 0
    /\ tx = [o \in OrderIds |-> NULL]

CreateOrder(o) ==
    /\ orders[o].status = "absent"
    /\ orders' = [orders EXCEPT ![o].status = "new"]
    /\ UpdateActiveOrdersGauge
    /\ UNCHANGED <<hasActive, tx>>

\* markOrderAsOpen, then setOrderChannelMessageId: the publishing transaction.
\* Only a 'new' row changes its status; the gauge is not refreshed.
PublishOrder(o, m) ==
    /\ Free(o)
    /\ orders[o].status # "absent" /\ orders[o].message = NULL
    /\ orders' = [orders EXCEPT ![o].status = IF @ = "new" THEN "open" ELSE @,
                                ![o].message = m,
                                ![o].stale = FALSE]
    /\ UNCHANGED <<hasActive, gauge, tx>>

TryClaimOrder(o, e, city) ==
    /\ Free(o)
    /\ orders[o].status = "open" /\ CityOf[o] = city
    /\ orders' = [orders EXCEPT ![o].status = "claimed",
                                ![o].claimedBy = e,
                                ![o].stale = FALSE]
    /\ UpdateExecutorHasActiveOrder(e)
    /\ UpdateActiveOrdersGauge
    /\ UNCHANGED tx

\* Slip: the release forgets claimed_by.
ReleaseKeepsOwner(o, e) ==
    /\ Free(o)
    /\ orders[o].status \in Held /\ orders[o].claimedBy = e
    /\ orders' = [orders EXCEPT ![o].status = "open",
                                ![o].message = NULL,
                                ![o].stale = FALSE]
    /\ UpdateExecutorHasActiveOrder(e)
    /\ UpdateActiveOrdersGauge
    /\ UNCHANGED tx

TryReleaseOrder(o, e) ==
    /\ Free(o)
    /\ orders[o].status \in Held /\ orders[o].claimedBy = e
    /\ orders' = [orders EXCEPT ![o].status = "open",
                                ![o].claimedBy = NULL,
                                ![o].message = NULL,
                                ![o].stale = FALSE]
    /\ UpdateExecutorHasActiveOrder(e)
    /\ UpdateActiveOrdersGauge
    /\ UNCHANGED tx

\* Slip: the undo takes the order back from whoever claimed it meanwhile.
ReclaimFromHolder(o, e) ==
    /\ Free(o)
    /\ orders[o].status \in {"open", "claimed"}
    /\ orders' = [orders EXCEPT ![o].status = "claimed",
                                ![o].claimedBy = e,
                                ![o].message = NULL,
                                ![o].stale = FALSE]
    /\ UpdateExecutorHasActiveOrder(e)
    /\ UpdateActiveOrdersGauge
    /\ UNCHANGED tx

\* Undo of a release: neither the city nor the driver's limit is looked at.
TryReclaimOrder(o, e) ==
    /\ Free(o)
    /\ orders[o].status = "open" /\ orders[o].claimedBy = NULL
    /\ orders' = [orders EXCEPT ![o].status = "claimed",
                                ![o].claimedBy = e,
                                ![o].message = NULL,
                                ![o].stale = FALSE]
    /\ UpdateExecutorHasActiveOrder(e)
    /\ UpdateActiveOrdersGauge
    /\ UNCHANGED tx

TryCompleteOrder(o, e) ==
    /\ Free(o)
    /\ orders[o].status \in Held /\ orders[o].claimedBy = e
    /\ orders' = [orders EXCEPT ![o].status = "finished",
                                ![o].completed = TRUE,
                                ![o].stale = FALSE]
    /\ UpdateExecutorHasActiveOrder(e)
    /\ UpdateActiveOrdersGauge
    /\ UNCHANGED tx

\* Slips: the undo of a completion forgets the flag of the executor, or revives a
\* cancelled order as well.
RestoreForgetsFlag(o, e) ==
    /\ Free(o)
    /\ orders[o].status = "finished" /\ orders[o].claimedBy = e
    /\ orders' = [orders EXCEPT ![o].status = "claimed",
                                ![o].completed = FALSE,
                                ![o].stale = FALSE]
    /\ UpdateActiveOrdersGauge
    /\ UNCHANGED <<hasActive, tx>>

RestoreCancelled(o, e) ==
    /\ Free(o)
    /\ orders[o].status \in {"finished", "cancelled"} /\ orders[o].claimedBy = e
    /\ orders' = [orders EXCEPT ![o].status = "claimed",
                                ![o].completed = FALSE,
                                ![o].stale = FALSE]
    /\ UpdateExecutorHasActiveOrder(e)
    /\ UpdateActiveOrdersGauge
    /\ UNCHANGED tx

TryRestoreCompletedOrder(o, e) ==
    /\ Free(o)
    /\ orders[o].status = "finished" /\ orders[o].claimedBy = e
    /\ orders' = [orders EXCEPT ![o].status = "claimed",
                                ![o].completed = FALSE,
                                ![o].stale = FALSE]
    /\ UpdateExecutorHasActiveOrder(e)
    /\ UpdateActiveOrdersGauge
    /\ UNCHANGED tx

TryCancelOrder(o) ==
    /\ Free(o)
    /\ orders[o].status = "open"
    /\ orders' = [orders EXCEPT ![o].status = "cancelled", ![o].stale = FALSE]
    /\ UpdateActiveOrdersGauge
    /\ UNCHANGED <<hasActive, tx>>

\* No status condition, and no refresh of the holder's flag.
MarkOrderAsCancelled(o) ==
    /\ Free(o)
    /\ orders[o].status # "absent"
    /\ orders' = [orders EXCEPT ![o].status = "cancelled", ![o].stale = FALSE]
    /\ UpdateActiveOrdersGauge
    /\ UNCHANGED <<hasActive, tx>>

\* One statement: neither the flag nor the gauge is refreshed.
CancelClientOrder(o, c) ==
    /\ Free(o)
    /\ ClientOf[o] = c
    /\ orders[o].status \in {"open", "claimed"}
    /\ orders' = [orders EXCEPT ![o].status = "cancelled", ![o].stale = FALSE]
    /\ UNCHANGED <<hasActive, gauge, tx>>

-----------------------------------------------------------------------------
(* completeOrderByExecutor.  The row stays locked from CompleteBegin to    *)
(* CompleteCommit or CompleteRollback; others read the row it had before.  *)

NextStatus(status) == IF status = "claimed" THEN "in_progress" ELSE "finished"

CompletedRow(r, to) == [r EXCEPT !.status = to, !.completed = (to = "finished"),
                                 !.stale = FALSE]

CompleteBegin(o, e) ==
    /\ Free(o)
    /\ orders[o].claimedBy = e /\ orders[o].status \in Held
    /\ LET to   == NextStatus(orders[o].status)
           seen == [orders EXCEPT ![o] = CompletedRow(@, to)]
       IN  /\ tx' = [tx EXCEPT ![o] = [executor |-> e, to |-> to,
                                       flag |-> HasActiveOrder(seen, e)]]
           /\ gauge' = CountActiveOrders(seen)
    /\ UNCHANGED <<orders, hasActive>>

CompleteCommit(o) ==
    /\ ~Free(o)
    /\ orders' = [orders EXCEPT ![o] = CompletedRow(@, tx[o].to)]
    /\ hasActive' = [hasActive EXCEPT ![tx[o].executor] = tx[o].flag]
    /\ tx' = [tx EXCEPT ![o] = NULL]
    /\ UNCHANGED gauge

CompleteRollback(o) ==
    /\ ~Free(o)
    /\ tx' = [tx EXCEPT ![o] = NULL]
    /\ UNCHANGED <<orders, hasActive, gauge>>

\* The process dies: PostgreSQL rolls every open transaction back, and the gauge
\* starts again from zero.
Crash ==
    /\ tx' = [o \in OrderIds |-> NULL]
    /\ gauge' = 0
    /\ UNCHANGED <<orders, hasActive>>

-----------------------------------------------------------------------------
(* expireStaleOrders: one UPDATE of the rows that are stale in its snapshot *)
(* (S; a row that becomes stale later waits for the next run of the job).   *)
(* It waits for locked rows.  The driver returns claimed_by (bigint) as     *)
(* text, so the typeof test collects no executor and no flag is refreshed.  *)

\* Slip: one of the two statuses is missing from the default list.
OnlyClaimedExpire == {"claimed"}

Expirable == {"open", "claimed"}

StaleOrders == {o \in OrderIds : orders[o].stale /\ orders[o].status \in Expirable}

ExpireStaleOrders(S) ==
    /\ S # {} /\ S \subseteq StaleOrders
    /\ \A o \in S : Free(o)
    /\ orders' = [o \in OrderIds |->
                    IF o \in S
                    THEN [orders[o] EXCEPT !.status = "expired", !.stale = FALSE]
                    ELSE orders[o]]
    /\ UpdateActiveOrdersGauge
    /\ UNCHANGED <<hasActive, tx>>

\* Time passes: the last update of row o falls behind the expiry horizon (which
\* matters only while the row can expire; every update starts it anew).
Age(o) ==
    /\ orders[o].status \in Expirable
    /\ orders' = [orders EXCEPT ![o].stale = TRUE]
    /\ UNCHANGED <<hasActive, gauge, tx>>

\* The end of a subscription writes has_active_order = false without looking
\* at the orders table.
DropSubscription(e) ==
    /\ hasActive' = [hasActive EXCEPT ![e] = FALSE]
    /\ UNCHANGED <<orders, gauge, tx>>

-----------------------------------------------------------------------------
Next ==
    \/ \E o \in OrderIds :
        \/ CreateOrder(o)
        \/ \E m \in Messages : PublishOrder(o, m)
        \/ \E e \in Executors, city \in Cities : TryClaimOrder(o, e, city)
        \/ \E e \in Executors : \/ TryReleaseOrder(o, e)
                                \/ TryReclaimOrder(o, e)
                                \/ TryCompleteOrder(o, e)
                                \/ TryRestoreCompletedOrder(o, e)
                                \/ CompleteBegin(o, e)
        \/ CompleteCommit(o)
        \/ CompleteRollback(o)
        \/ TryCancelOrder(o)
        \/ MarkOrderAsCancelled(o)
        \/ \E c \in Clients : CancelClientOrder(o, c)
        \/ Age(o)
    \/ \E S \in SUBSET OrderIds : ExpireStaleOrders(S)
    \/ \E e \in Executors : DropSubscription(e)
    \/ Crash

Spec == Init /\ [][Next]_vars

(* Time passes, a commit in flight ends, and the maintenance job runs on    *)
(* its cron schedule; the UPDATE queues for row locks, so it gets them      *)
(* (strong fairness).  Nobody is obliged to claim or finish anything.       *)
Fairness ==
    \A o \in OrderIds :
        /\ WF_vars(Age(o))
        /\ WF_vars(CompleteCommit(o))
        /\ SF_vars(\E S \in SUBSET OrderIds : o \in S /\ ExpireStaleOrders(S))

FairSpec == Spec /\ Fairness

-----------------------------------------------------------------------------
TypeOK ==
    /\ orders \in [OrderIds -> Row]
    /\ hasActive \in [Executors -> BOOLEAN]
    /\ gauge \in Nat
    /\ tx \in [OrderIds -> Completion \cup {NULL}]

\* A row names an executor exactly from the claim on: never while it waits, and
\* always while it is held or finished.  Seven statements write the two columns
\* separately; a missed reset lets an order be offered while it belongs to someone.
Ownership ==
    \A o \in OrderIds :
        /\ orders[o].status \in {"absent", "new", "open"} => orders[o].claimedBy = NULL
        /\ orders[o].status \in Held \cup {"finished"} => orders[o].claimedBy # NULL

\* completed_at is set exactly on finished rows, and otherwise only survives on a
\* row that was cancelled after it was finished: no undo, restart of the work or
\* release leaves a completion time behind.
CompletionStamp ==
    \A o \in OrderIds :
        /\ orders[o].status = "finished" => orders[o].completed
        /\ orders[o].completed => orders[o].status \in {"finished", "cancelled"}

\* Between the read and the commit of completeOrderByExecutor nobody changes the
\* row it decided on: it is still held, by the same executor, in the status that
\* the transition starts from.
CompletionStillValid ==
    \A o \in OrderIds : tx[o] # NULL =>
        /\ orders[o].claimedBy = tx[o].executor
        /\ orders[o].status \in Held
        /\ tx[o].to = NextStatus(orders[o].status)

\* An order never passes from one executor to another directly: whoever takes it
\* finds it unowned, so the previous holder has released it.
NoHandOver ==
    [][\A o \in OrderIds :
        orders[o].claimedBy # NULL =>
            orders'[o].claimedBy \in {orders[o].claimedBy, NULL}]_vars

\* Whoever gains an order (claim, undo of a release, undo of a completion) is
\* flagged as busy by the same transaction; the city guard reads only the flag.
GainingSetsFlag ==
    [][\A o \in OrderIds, e \in Executors :
        (/\ orders'[o].status = "claimed" /\ orders'[o].claimedBy = e
         /\ orders[o].status # "claimed")
            => hasActive'[e]]_vars

\* The refinement: two statuses wait, two are held, two are closed.
Phase(r) == CASE r.status = "absent"                    -> "absent"
              [] r.status \in {"new", "open"}           -> "waiting"
              [] r.status \in Held                      -> "held"
              [] r.status = "finished"                  -> "done"
              [] r.status \in {"cancelled", "expired"}  -> "closed"

phaseBar  == [o \in OrderIds |-> Phase(orders[o])]
holderBar == [o \in OrderIds |-> orders[o].claimedBy]

Lifecycle == INSTANCE OrderLifecycle WITH phase <- phaseBar, holder <- holderBar

\* The repository implements the life cycle: every statement on every row is one
\* of its transitions, for every interleaving of callers.
ImplementsLifecycle == Lifecycle!Spec

\* An open order does not stay open for ever: if nobody takes or cancels it, the
\* expiry job closes it, whatever else keeps running.
OpenOrderLeaves ==
    \A o \in OrderIds : orders[o].status = "open" ~> orders[o].status # "open"

\* A claimed order does not stay claimed for ever either, even when its executor
\* vanishes: only 'in_progress' is exempt from expiry.
ClaimedOrderLeaves ==
    \A o \in OrderIds : orders[o].status = "claimed" ~> orders[o].status # "claimed"

\* The invariant: with its types the table keeps the stamps, and the completions in flight
\* hold what their transaction has read.
CompletionsFit == TypeOK /\ CompletionStamp /\ CompletionStillValid

\* No order that waits or is claimed stays so for ever.
OrdersLeave == OpenOrderLeaves /\ ClaimedOrderLeaves
=============================================================================
