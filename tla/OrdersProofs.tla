---------------------------- MODULE OrdersProofs ----------------------------
(***************************************************************************)
(* Orders, for any finite set of orders and any sets of executors, clients *)
(* and messages: the inductive invariant of the repository, and the        *)
(* refinement of OrderLifecycle.                                           *)
(***************************************************************************)
EXTENDS Orders, FiniteSetTheorems, TLAPS

\* The three parts of the invariant need each other: a completion commits the
\* executor and the status it has read, so Ownership and CompletionStamp are
\* preserved by CompleteCommit only because CompletionStillValid holds.
IInv == TypeOK /\ Ownership /\ CompletionStamp /\ CompletionStillValid

\* The gauge counts a subset of a finite set, so it is a natural number.
LEMMA CountIsNat ==
  ASSUME NEW rows PROVE CountActiveOrders(rows) \in Nat
<1>1. {o \in OrderIds : rows[o].status \in {"open", "claimed"}} \subseteq OrderIds
  OBVIOUS
<1>2. IsFiniteSet({o \in OrderIds : rows[o].status \in {"open", "claimed"}})
  BY <1>1, FS_Subset, OrdersAssumption
<1> QED
  BY <1>2, FS_CardinalityType DEF CountActiveOrders

\* The flag written back is a truth value.
LEMMA FlagIsBoolean ==
  ASSUME NEW rows, NEW e PROVE HasActiveOrder(rows, e) \in BOOLEAN
BY DEF HasActiveOrder

\* An empty table satisfies the invariant.
LEMMA InitInv == Init => IInv
BY OrdersAssumption
   DEF Init, IInv, TypeOK, Row, Statuses, Ownership, CompletionStamp,
       CompletionStillValid, Held

\* A step that refreshes the flag of an executor keeps the flags Boolean.
LEMMA FlagRefreshed ==
  ASSUME hasActive \in [Executors -> BOOLEAN], NEW e \in Executors,
         UpdateExecutorHasActiveOrder(e)
  PROVE  hasActive' \in [Executors -> BOOLEAN]
<1>1. HasActiveOrder(orders', e) \in BOOLEAN
  BY FlagIsBoolean
<1> QED
  BY <1>1 DEF UpdateExecutorHasActiveOrder

\* The rows: every action leaves well-formed rows with the right ownership.  This
\* is the invariant's core; it needs no knowledge of flag and gauge.
RowInv ==
    /\ orders \in [OrderIds -> Row]
    /\ tx \in [OrderIds -> Completion \cup {NULL}]
    /\ Ownership
    /\ CompletionStamp
    /\ CompletionStillValid

\* Cancelling keeps the row's executor and completion time, and is not blocked by
\* anything but a completion in flight.
LEMMA CancelStep ==
  ASSUME RowInv, NEW o \in OrderIds, Free(o),
         orders' = [orders EXCEPT ![o].status = "cancelled", ![o].stale = FALSE],
         tx' = tx
  PROVE  RowInv'
<1> USE DEF RowInv
<1>1. orders' \in [OrderIds -> Row]
  BY DEF Row, Statuses
<1>2. \A x \in OrderIds \ {o} : orders'[x] = orders[x]
  OBVIOUS
<1>3. /\ orders'[o].status = "cancelled"
      /\ orders'[o].claimedBy = orders[o].claimedBy
      /\ orders'[o].completed = orders[o].completed
  BY DEF Row
<1>4. Ownership'
  BY <1>2, <1>3 DEF Ownership, Held
<1>5. CompletionStamp'
  BY <1>2, <1>3 DEF CompletionStamp
<1>6. CompletionStillValid'
  BY <1>2 DEF CompletionStillValid, Free
<1> QED
  BY <1>1, <1>4, <1>5, <1>6

\* The two rewritings of a row that say nothing of its executor.
LEMMA AgedRow ==
  ASSUME NEW r \in Row PROVE [r EXCEPT !.stale = TRUE] \in Row
BY DEF Row

\* An expired row is a row, with the stamp of completion it had (expireStaleOrders).
LEMMA ExpiredRow ==
  ASSUME NEW r \in Row
  PROVE  /\ [r EXCEPT !.status = "expired", !.stale = FALSE] \in Row
         /\ [r EXCEPT !.status = "expired", !.stale = FALSE].status = "expired"
         /\ [r EXCEPT !.status = "expired", !.stale = FALSE].completed = r.completed
BY DEF Row, Statuses

\* The passage of time changes no column the invariant reads.
LEMMA AgeStep ==
  ASSUME RowInv, NEW o \in OrderIds, Age(o) PROVE RowInv'
<1> USE DEF RowInv
<1>1. orders' = [orders EXCEPT ![o] = [orders[o] EXCEPT !.stale = TRUE]] /\ tx' = tx
  BY DEF Age
<1>2. orders' \in [OrderIds -> Row]
  BY <1>1, AgedRow
<1>3. \A x \in OrderIds : /\ orders'[x].status = orders[x].status
                          /\ orders'[x].claimedBy = orders[x].claimedBy
                          /\ orders'[x].completed = orders[x].completed
  BY <1>1 DEF Row
<1> QED
  BY <1>1, <1>2, <1>3 DEF Ownership, CompletionStamp, CompletionStillValid

\* Expiry closes rows that nobody has locked.
LEMMA ExpireStep ==
  ASSUME RowInv, NEW S \in SUBSET OrderIds, ExpireStaleOrders(S) PROVE RowInv'
<1> USE DEF RowInv
<1>1. tx' = tx /\ \A o \in S : tx[o] = NULL
  BY DEF ExpireStaleOrders, Free
<1>2. orders' = [o \in OrderIds |->
                   IF o \in S
                   THEN [orders[o] EXCEPT !.status = "expired", !.stale = FALSE]
                   ELSE orders[o]]
  BY DEF ExpireStaleOrders
<1>3. orders' \in [OrderIds -> Row]
  BY <1>2, ExpiredRow
<1>4. \A x \in OrderIds \ S : orders'[x] = orders[x]
  BY <1>2
<1>5. \A x \in S : /\ orders'[x].status = "expired"
                   /\ orders'[x].completed = orders[x].completed
  BY <1>2, ExpiredRow
<1>6. \A x \in S : orders[x].status \in {"open", "claimed"}
  BY DEF ExpireStaleOrders, StaleOrders, Expirable
<1>7. Ownership'
  BY <1>4, <1>5 DEF Ownership, Held
<1>8. CompletionStamp'
  BY <1>4, <1>5, <1>6 DEF CompletionStamp
<1>9. CompletionStillValid'
  BY <1>1, <1>4 DEF CompletionStillValid
<1> QED
  BY <1>1, <1>3, <1>7, <1>8, <1>9

\* Every statement on the orders table, and every step of a completion, preserves
\* the invariant of the rows: one case per action.
LEMMA RowStep ==
  ASSUME RowInv, hasActive \in [Executors -> BOOLEAN], Next
  PROVE  RowInv'
<1> USE OrdersAssumption DEF RowInv, Row, Completion, Statuses, Held, Ownership,
                             CompletionStamp, CompletionStillValid, Free
<1>1. CASE \E o \in OrderIds : CreateOrder(o)
  BY <1>1 DEF CreateOrder
<1>2. CASE \E o \in OrderIds, m \in Messages : PublishOrder(o, m)
  BY <1>2 DEF PublishOrder
<1>3. CASE \E o \in OrderIds, e \in Executors, city \in Cities :
               TryClaimOrder(o, e, city)
  BY <1>3 DEF TryClaimOrder
<1>4. CASE \E o \in OrderIds, e \in Executors : TryReleaseOrder(o, e)
  BY <1>4 DEF TryReleaseOrder
<1>5. CASE \E o \in OrderIds, e \in Executors : TryReclaimOrder(o, e)
  BY <1>5 DEF TryReclaimOrder
<1>6. CASE \E o \in OrderIds, e \in Executors : TryCompleteOrder(o, e)
  BY <1>6 DEF TryCompleteOrder
<1>7. CASE \E o \in OrderIds, e \in Executors : TryRestoreCompletedOrder(o, e)
  BY <1>7 DEF TryRestoreCompletedOrder
<1>8. CASE \E o \in OrderIds, e \in Executors : CompleteBegin(o, e)
  <2>1. PICK o \in OrderIds, e \in Executors : CompleteBegin(o, e)
    BY <1>8
  <2> DEFINE to == NextStatus(orders[o].status)
             flag == HasActiveOrder([orders EXCEPT ![o] = CompletedRow(@, to)], e)
  <2>2. flag \in BOOLEAN
    BY FlagIsBoolean
  <2>3. to \in {"in_progress", "finished"}
    BY DEF NextStatus
  <2>4. /\ tx' = [tx EXCEPT ![o] = [executor |-> e, to |-> to, flag |-> flag]]
        /\ orders' = orders
        /\ orders[o].claimedBy = e /\ orders[o].status \in Held
    BY <2>1 DEF CompleteBegin
  <2> HIDE DEF flag
  <2>5. [executor |-> e, to |-> to, flag |-> flag] \in Completion
    BY <2>2, <2>3
  <2>6. tx' \in [OrderIds -> Completion \cup {NULL}]
    BY <2>4, <2>5
  <2>7. /\ tx'[o].executor = e
        /\ tx'[o].to = to
        /\ \A x \in OrderIds \ {o} : tx'[x] = tx[x]
    BY <2>4
  <2> QED
    BY <2>4, <2>6, <2>7
<1>9. CASE \E o \in OrderIds : CompleteCommit(o)
  <2>1. PICK o \in OrderIds : CompleteCommit(o)
    BY <1>9
  <2>2. /\ tx[o] \in Completion
        /\ orders[o].claimedBy # NULL
        /\ tx[o].to \in {"in_progress", "finished"}
    BY <2>1 DEF CompleteCommit
  <2> DEFINE row == [orders[o] EXCEPT !.status = tx[o].to,
                                      !.completed = (tx[o].to = "finished"),
                                      !.stale = FALSE]
  <2>3. /\ row \in Row
        /\ row.claimedBy # NULL
        /\ row.status \in {"in_progress", "finished"}
        /\ row.completed = (row.status = "finished")
    BY <2>2
  <2>4. /\ orders' = [orders EXCEPT ![o] = row]
        /\ tx' = [tx EXCEPT ![o] = NULL]
    BY <2>1 DEF CompleteCommit, CompletedRow
  <2> HIDE DEF row
  <2>5. orders' \in [OrderIds -> Row] /\ tx' \in [OrderIds -> Completion \cup {NULL}]
    BY <2>3, <2>4
  <2>6. \A x \in OrderIds \ {o} : orders'[x] = orders[x] /\ tx'[x] = tx[x]
    BY <2>4
  <2>7. orders'[o] = row /\ tx'[o] = NULL
    BY <2>4
  <2>8. Ownership'
    BY <2>3, <2>6, <2>7
  <2>9. CompletionStamp'
    BY <2>3, <2>6, <2>7
  <2>10. CompletionStillValid'
    BY <2>6, <2>7
  <2> QED
    BY <2>5, <2>8, <2>9, <2>10
<1>10. CASE \E o \in OrderIds : CompleteRollback(o)
  BY <1>10 DEF CompleteRollback
<1>11. CASE \E o \in OrderIds : TryCancelOrder(o) \/ MarkOrderAsCancelled(o)
  <2>1. PICK o \in OrderIds : TryCancelOrder(o) \/ MarkOrderAsCancelled(o)
    BY <1>11
  <2> QED
    BY <2>1, CancelStep DEF TryCancelOrder, MarkOrderAsCancelled
<1>12. CASE \E o \in OrderIds, c \in Clients : CancelClientOrder(o, c)
  <2>1. PICK o \in OrderIds, c \in Clients : CancelClientOrder(o, c)
    BY <1>12
  <2> QED
    BY <2>1, CancelStep DEF CancelClientOrder
<1>13. CASE \E o \in OrderIds : Age(o)
  BY <1>13, AgeStep
<1>14. CASE \E S \in SUBSET OrderIds : ExpireStaleOrders(S)
  BY <1>14, ExpireStep
<1>15. CASE \E e \in Executors : DropSubscription(e)
  BY <1>15 DEF DropSubscription
<1>16. CASE Crash
  BY <1>16 DEF Crash
<1> QED
  BY <1>1, <1>2, <1>3, <1>4, <1>5, <1>6, <1>7, <1>8, <1>9, <1>10, <1>11, <1>12,
     <1>13, <1>14, <1>15, <1>16 DEF Next

\* The flag and the gauge keep their types.
LEMMA FlagGaugeStep ==
  ASSUME TypeOK, Next
  PROVE  hasActive' \in [Executors -> BOOLEAN] /\ gauge' \in Nat
<1> USE DEF TypeOK
<1>1. \A rows : CountActiveOrders(rows) \in Nat
  BY CountIsNat
<1>2. ASSUME NEW o \in OrderIds, NEW e \in Executors,
             \/ \E city \in Cities : TryClaimOrder(o, e, city)
             \/ TryReleaseOrder(o, e)
             \/ TryReclaimOrder(o, e)
             \/ TryCompleteOrder(o, e)
             \/ TryRestoreCompletedOrder(o, e)
      PROVE  hasActive' \in [Executors -> BOOLEAN] /\ gauge' \in Nat
  <2>1. UpdateExecutorHasActiveOrder(e) /\ UpdateActiveOrdersGauge
    BY <1>2 DEF TryClaimOrder, TryReleaseOrder, TryReclaimOrder, TryCompleteOrder,
                TryRestoreCompletedOrder
  <2> QED
    BY <1>1, <2>1, FlagRefreshed DEF UpdateActiveOrdersGauge
<1>3. ASSUME NEW o \in OrderIds, NEW e \in Executors, CompleteBegin(o, e)
      PROVE  hasActive' \in [Executors -> BOOLEAN] /\ gauge' \in Nat
  BY <1>1, <1>3 DEF CompleteBegin
<1>4. ASSUME NEW o \in OrderIds, CompleteCommit(o)
      PROVE  hasActive' \in [Executors -> BOOLEAN] /\ gauge' \in Nat
  <2>1. tx[o] \in Completion
    BY <1>4 DEF CompleteCommit, Free
  <2> QED
    BY <1>4, <2>1 DEF CompleteCommit, Completion
<1>5. ASSUME NEW o \in OrderIds,
             \/ CreateOrder(o)
             \/ \E m \in Messages : PublishOrder(o, m)
             \/ CompleteRollback(o)
             \/ TryCancelOrder(o)
             \/ MarkOrderAsCancelled(o)
             \/ \E c \in Clients : CancelClientOrder(o, c)
             \/ Age(o)
      PROVE  hasActive' \in [Executors -> BOOLEAN] /\ gauge' \in Nat
  BY <1>1, <1>5 DEF CreateOrder, PublishOrder, CompleteRollback, TryCancelOrder,
     MarkOrderAsCancelled, CancelClientOrder, Age, UpdateActiveOrdersGauge
<1>6. CASE \E S \in SUBSET OrderIds : ExpireStaleOrders(S)
  BY <1>1, <1>6 DEF ExpireStaleOrders, UpdateActiveOrdersGauge
<1>7. CASE \E e \in Executors : DropSubscription(e)
  BY <1>7 DEF DropSubscription
<1>8. CASE Crash
  <2>1. gauge' = 0 /\ hasActive' = hasActive
    BY <1>8 DEF Crash
  <2> QED
    BY <2>1
<1> QED
  BY <1>2, <1>3, <1>4, <1>5, <1>6, <1>7, <1>8 DEF Next

\* The invariant is inductive.
LEMMA NextInv == IInv /\ [Next]_vars => IInv'
<1> SUFFICES ASSUME IInv, [Next]_vars PROVE IInv'
  OBVIOUS
<1>1. CASE Next
  <2>1. RowInv'
    BY <1>1, RowStep DEF IInv, TypeOK, RowInv
  <2>2. hasActive' \in [Executors -> BOOLEAN] /\ gauge' \in Nat
    BY <1>1, FlagGaugeStep DEF IInv
  <2> QED
    BY <2>1, <2>2 DEF IInv, TypeOK, RowInv
<1>2. CASE UNCHANGED vars
  BY <1>2 DEF vars, IInv, TypeOK, Ownership, CompletionStamp, CompletionStillValid
<1> QED
  BY <1>1, <1>2

\* The inductive invariant holds in every reachable state of the repository.
THEOREM Invariance == Spec => []IInv
<1> QED
  BY InitInv, NextInv, PTL DEF Spec

\* The repository's rows, flags, gauge and locks always have their types.
THEOREM TypeCorrect == Spec => []TypeOK
<1>1. IInv => TypeOK
  BY DEF IInv
<1> QED
  BY <1>1, Invariance, PTL

\* Waiting orders are unowned; held and finished ones are owned (db/orders.ts).
THEOREM OwnershipHolds == Spec => []Ownership
<1>1. IInv => Ownership
  BY DEF IInv
<1> QED
  BY <1>1, Invariance, PTL

\* No path through release, undo and cancellation strands a completion time.
THEOREM CompletionStampHolds == Spec => []CompletionStamp
<1>1. IInv => CompletionStamp
  BY DEF IInv
<1> QED
  BY <1>1, Invariance, PTL

\* What completeOrderByExecutor has read under its lock is true when it commits.
THEOREM CompletionStillValidHolds == Spec => []CompletionStillValid
<1>1. IInv => CompletionStillValid
  BY DEF IInv
<1> QED
  BY <1>1, Invariance, PTL

-----------------------------------------------------------------------------
\* Where each kind of step takes the one order it touches: the columns that the
\* life cycle reads, before and after.
LEMMA PhaseOf ==
  ASSUME NEW r
  PROVE  /\ r.status = "absent" => Phase(r) = "absent"
         /\ r.status \in {"new", "open"} => Phase(r) = "waiting"
         /\ r.status \in Held => Phase(r) = "held"
         /\ r.status = "finished" => Phase(r) = "done"
         /\ r.status \in {"cancelled", "expired"} => Phase(r) = "closed"
BY DEF Phase, Held

\* An order none of whose read columns change does not move in the life cycle.
LEMMA SamePhase ==
  ASSUME NEW r, NEW s, r.status = s.status PROVE Phase(r) = Phase(s)
BY DEF Phase

\* A step that only moves one order o, from phase `from` to phase `to`, and leaves
\* the others alone, in terms of the abstract variables.
LEMMA OneOrder ==
  ASSUME NEW o \in OrderIds, NEW r, orders \in [OrderIds -> Row],
         orders' = [orders EXCEPT ![o] = r]
  PROVE  /\ phaseBar' = [phaseBar EXCEPT ![o] = Phase(r)]
         /\ holderBar' = [holderBar EXCEPT ![o] = r.claimedBy]
BY DEF phaseBar, holderBar

\* A step that keeps the phase and the executor of the one row it writes is not
\* visible in the life cycle.
LEMMA Invisible ==
  ASSUME NEW o \in OrderIds, NEW r, orders \in [OrderIds -> Row],
         orders' = [orders EXCEPT ![o] = r],
         Phase(r) = Phase(orders[o]), r.claimedBy = orders[o].claimedBy
  PROVE  UNCHANGED <<phaseBar, holderBar>>
BY OneOrder DEF phaseBar, holderBar

\* A step that closes one existing row and keeps its executor is a Close.
LEMMA Closes ==
  ASSUME NEW o \in OrderIds, orders \in [OrderIds -> Row],
         orders[o].status # "absent",
         orders' = [orders EXCEPT ![o].status = "cancelled", ![o].stale = FALSE]
  PROVE  Lifecycle!Close({o})
<1> DEFINE r == [orders[o] EXCEPT !.status = "cancelled", !.stale = FALSE]
<1>1. orders' = [orders EXCEPT ![o] = r]
  OBVIOUS
<1>2. r.status = "cancelled" /\ r.claimedBy = orders[o].claimedBy
  BY DEF Row
<1> HIDE DEF r
<1>3. Phase(r) = "closed" /\ phaseBar[o] # "absent"
  BY <1>2, PhaseOf DEF phaseBar, Phase, Row, Statuses, Held
<1>4. phaseBar' = [x \in OrderIds |-> IF x \in {o} THEN "closed" ELSE phaseBar[x]]
  BY <1>1, <1>3, OneOrder DEF phaseBar
<1>5. holderBar' = holderBar
  BY <1>1, <1>2, OneOrder DEF holderBar
<1> QED
  BY <1>3, <1>4, <1>5 DEF Lifecycle!Close

\* Every statement of db/orders.ts is one transition of the life cycle, or none.
LEMMA StepRefines ==
  ASSUME IInv, Next
  PROVE  Lifecycle!Next \/ UNCHANGED <<phaseBar, holderBar>>
<1> orders \in [OrderIds -> Row]
  BY DEF IInv, TypeOK
<1> USE DEF Lifecycle!Next
<1>1. ASSUME NEW o \in OrderIds, CreateOrder(o)
      PROVE  Lifecycle!Submit(o)
  <2> DEFINE r == [orders[o] EXCEPT !.status = "new"]
  <2>1. orders' = [orders EXCEPT ![o] = r] /\ orders[o].status = "absent"
    BY <1>1 DEF CreateOrder
  <2>2. r.status = "new" /\ r.claimedBy = orders[o].claimedBy
    BY DEF Row
  <2> HIDE DEF r
  <2> QED
    BY <2>1, <2>2, PhaseOf, OneOrder DEF Lifecycle!Submit, phaseBar, holderBar
<1>2. ASSUME NEW o \in OrderIds, NEW m \in Messages, PublishOrder(o, m)
      PROVE  UNCHANGED <<phaseBar, holderBar>>
  <2> DEFINE r == [orders[o] EXCEPT !.status = IF @ = "new" THEN "open" ELSE @,
                                    !.message = m, !.stale = FALSE]
  <2>1. orders' = [orders EXCEPT ![o] = r]
    BY <1>2 DEF PublishOrder
  <2>2. /\ r.status = IF orders[o].status = "new" THEN "open" ELSE orders[o].status
        /\ r.claimedBy = orders[o].claimedBy
    BY DEF Row
  <2> HIDE DEF r
  <2>3. Phase(r) = Phase(orders[o])
    BY <2>2, PhaseOf, SamePhase
  <2> QED
    BY <2>1, <2>2, <2>3, Invisible
<1>3. ASSUME NEW o \in OrderIds, NEW e \in Executors,
             \/ \E city \in Cities : TryClaimOrder(o, e, city)
             \/ TryReclaimOrder(o, e)
      PROVE  Lifecycle!Take(o, e)
  <2> PICK m \in {orders[o].message, NULL} :
        /\ orders[o].status = "open"
        /\ orders' = [orders EXCEPT ![o] = [orders[o] EXCEPT !.status = "claimed",
                        !.claimedBy = e, !.message = m, !.stale = FALSE]]
    BY <1>3 DEF TryClaimOrder, TryReclaimOrder, Row
  <2> DEFINE r == [orders[o] EXCEPT !.status = "claimed", !.claimedBy = e,
                                    !.message = m, !.stale = FALSE]
  <2>1. r.status = "claimed" /\ r.claimedBy = e /\ orders' = [orders EXCEPT ![o] = r]
    BY DEF Row
  <2> HIDE DEF r
  <2> QED
    BY <2>1, PhaseOf, OneOrder DEF Lifecycle!Take, phaseBar, holderBar, Held
<1>4. ASSUME NEW o \in OrderIds, NEW e \in Executors, TryReleaseOrder(o, e)
      PROVE  Lifecycle!PutBack(o)
  <2> DEFINE r == [orders[o] EXCEPT !.status = "open", !.claimedBy = NULL,
                                    !.message = NULL, !.stale = FALSE]
  <2>1. orders' = [orders EXCEPT ![o] = r] /\ orders[o].status \in Held
    BY <1>4 DEF TryReleaseOrder
  <2>2. r.status = "open" /\ r.claimedBy = NULL
    BY DEF Row
  <2> HIDE DEF r
  <2> QED
    BY <2>1, <2>2, PhaseOf, OneOrder DEF Lifecycle!PutBack, phaseBar, holderBar
<1>5. ASSUME NEW o \in OrderIds, NEW e \in Executors, TryCompleteOrder(o, e)
      PROVE  Lifecycle!Finish(o)
  <2> DEFINE r == [orders[o] EXCEPT !.status = "finished", !.completed = TRUE,
                                    !.stale = FALSE]
  <2>1. orders' = [orders EXCEPT ![o] = r] /\ orders[o].status \in Held
    BY <1>5 DEF TryCompleteOrder
  <2>2. r.status = "finished" /\ r.claimedBy = orders[o].claimedBy
    BY DEF Row
  <2> HIDE DEF r
  <2> QED
    BY <2>1, <2>2, PhaseOf, OneOrder DEF Lifecycle!Finish, phaseBar, holderBar
<1>6. ASSUME NEW o \in OrderIds, NEW e \in Executors, TryRestoreCompletedOrder(o, e)
      PROVE  Lifecycle!Resume(o)
  <2> DEFINE r == [orders[o] EXCEPT !.status = "claimed", !.completed = FALSE,
                                    !.stale = FALSE]
  <2>1. orders' = [orders EXCEPT ![o] = r] /\ orders[o].status = "finished"
    BY <1>6 DEF TryRestoreCompletedOrder
  <2>2. r.status = "claimed" /\ r.claimedBy = orders[o].claimedBy
    BY DEF Row
  <2> HIDE DEF r
  <2> QED
    BY <2>1, <2>2, PhaseOf, OneOrder DEF Lifecycle!Resume, phaseBar, holderBar, Held
<1>7. ASSUME NEW o \in OrderIds, CompleteCommit(o)
      PROVE  Lifecycle!Finish(o) \/ UNCHANGED <<phaseBar, holderBar>>
  <2> DEFINE r == CompletedRow(orders[o], tx[o].to)
  <2>1. orders' = [orders EXCEPT ![o] = r]
    BY <1>7 DEF CompleteCommit
  <2>2. r.status = tx[o].to /\ r.claimedBy = orders[o].claimedBy
    BY DEF CompletedRow, Row
  <2>3. tx[o].to = NextStatus(orders[o].status) /\ orders[o].status \in Held
    BY <1>7 DEF CompleteCommit, Free, IInv, CompletionStillValid
  <2> HIDE DEF r
  <2>4. CASE orders[o].status = "claimed"
    <3>1. r.status = "in_progress"
      BY <2>2, <2>3, <2>4 DEF NextStatus
    <3>2. Phase(r) = Phase(orders[o])
      BY <3>1, <2>3, PhaseOf DEF Held
    <3> QED
      BY <2>1, <2>2, <3>2, Invisible
  <2>5. CASE orders[o].status = "in_progress"
    <3>1. r.status = "finished"
      BY <2>2, <2>3, <2>5 DEF NextStatus
    <3> QED
      BY <2>1, <2>2, <2>3, <3>1, PhaseOf, OneOrder
         DEF Lifecycle!Finish, phaseBar, holderBar
  <2> QED
    BY <2>3, <2>4, <2>5 DEF Held
<1>8. ASSUME NEW o \in OrderIds,
             \/ TryCancelOrder(o) \/ MarkOrderAsCancelled(o)
             \/ \E c \in Clients : CancelClientOrder(o, c)
      PROVE  Lifecycle!Close({o})
  BY <1>8, Closes DEF TryCancelOrder, MarkOrderAsCancelled, CancelClientOrder
<1>9. ASSUME NEW o \in OrderIds, Age(o)
      PROVE  UNCHANGED <<phaseBar, holderBar>>
  <2> DEFINE r == [orders[o] EXCEPT !.stale = TRUE]
  <2>1. orders' = [orders EXCEPT ![o] = r]
    BY <1>9 DEF Age
  <2>2. r.status = orders[o].status /\ r.claimedBy = orders[o].claimedBy
    BY DEF Row
  <2> HIDE DEF r
  <2> QED
    BY <2>1, <2>2, SamePhase, Invisible
<1>10. ASSUME NEW S \in SUBSET OrderIds, ExpireStaleOrders(S)
       PROVE  Lifecycle!Close(S)
  <2> DEFINE expired(o) == [orders[o] EXCEPT !.status = "expired", !.stale = FALSE]
  <2>1. /\ orders' = [o \in OrderIds |-> IF o \in S THEN expired(o) ELSE orders[o]]
        /\ S \subseteq StaleOrders
    BY <1>10 DEF ExpireStaleOrders
  <2>2. \A o \in OrderIds : /\ expired(o).status = "expired"
                            /\ expired(o).claimedBy = orders[o].claimedBy
    BY DEF Row
  <2> HIDE DEF expired
  <2>3. \A o \in OrderIds : Phase(expired(o)) = "closed"
    BY <2>2, PhaseOf
  <2>4. \A o \in S : phaseBar[o] # "absent"
    BY <2>1, PhaseOf DEF StaleOrders, Expirable, phaseBar, Held
  <2>5. phaseBar' = [o \in OrderIds |-> IF o \in S THEN "closed" ELSE phaseBar[o]]
    BY <2>1, <2>3 DEF phaseBar
  <2>6. holderBar' = holderBar
    BY <2>1, <2>2 DEF holderBar
  <2> QED
    BY <2>4, <2>5, <2>6 DEF Lifecycle!Close
<1>11. ASSUME \/ \E o \in OrderIds, e \in Executors : CompleteBegin(o, e)
              \/ \E o \in OrderIds : CompleteRollback(o)
              \/ \E e \in Executors : DropSubscription(e)
              \/ Crash
       PROVE  UNCHANGED <<phaseBar, holderBar>>
  BY <1>11 DEF CompleteBegin, CompleteRollback, DropSubscription, Crash, phaseBar,
                 holderBar
<1>12. \A o \in OrderIds : {o} \in SUBSET OrderIds
  OBVIOUS
<1> QED
  BY <1>1, <1>2, <1>3, <1>4, <1>5, <1>6, <1>7, <1>8, <1>9, <1>10, <1>11, <1>12 DEF Next

\* db/orders.ts implements the life cycle, for every set of orders and executors.
THEOREM Refinement == Spec => ImplementsLifecycle
<1>1. Init => Lifecycle!Init
  BY PhaseOf DEF Init, Lifecycle!Init, phaseBar, holderBar
<1>2. IInv /\ [Next]_vars => [Lifecycle!Next]_(Lifecycle!vars)
  <2>1. ASSUME IInv, Next PROVE [Lifecycle!Next]_(Lifecycle!vars)
    BY <2>1, StepRefines DEF Lifecycle!vars
  <2>2. ASSUME UNCHANGED vars PROVE UNCHANGED Lifecycle!vars
    BY <2>2 DEF vars, Lifecycle!vars, phaseBar, holderBar
  <2> QED
    BY <2>1, <2>2
<1> QED
  BY <1>1, <1>2, Invariance, PTL DEF Spec, Lifecycle!Spec, ImplementsLifecycle

\* No executor ever takes an order away from another one.
THEOREM NoHandOverHolds == Spec => NoHandOver
<1>1. IInv /\ [Next]_vars =>
        [\A o \in OrderIds : orders[o].claimedBy # NULL =>
           orders'[o].claimedBy \in {orders[o].claimedBy, NULL}]_vars
  <2> SUFFICES ASSUME IInv, Next, NEW o \in OrderIds, orders[o].claimedBy # NULL
               PROVE  orders'[o].claimedBy \in {orders[o].claimedBy, NULL}
    OBVIOUS
  <2>1. Phase(orders[o]) # "waiting" /\ Phase(orders[o]) # "absent"
    BY DEF IInv, TypeOK, Ownership, Phase, Row, Statuses, Held
  <2>2. holderBar'[o] = orders'[o].claimedBy /\ holderBar[o] = orders[o].claimedBy
    BY DEF holderBar
  <2>3. phaseBar[o] = Phase(orders[o])
    BY DEF phaseBar
  <2>4. CASE UNCHANGED <<phaseBar, holderBar>>
    BY <2>2, <2>4
  <2>5. CASE \E x \in OrderIds, e \in Executors : Lifecycle!Take(x, e)
    BY <2>1, <2>2, <2>3, <2>5 DEF Lifecycle!Take, holderBar
  <2>6. CASE \E x \in OrderIds : Lifecycle!PutBack(x)
    BY <2>2, <2>6 DEF Lifecycle!PutBack, holderBar
  <2>7. CASE \/ \E x \in OrderIds : \/ Lifecycle!Submit(x)
                                    \/ Lifecycle!Finish(x)
                                    \/ Lifecycle!Resume(x)
             \/ \E S \in SUBSET OrderIds : Lifecycle!Close(S)
    BY <2>2, <2>7 DEF Lifecycle!Submit, Lifecycle!Finish, Lifecycle!Resume, Lifecycle!Close
  <2> QED
    BY <2>4, <2>5, <2>6, <2>7, StepRefines DEF Lifecycle!Next
<1> QED
  BY <1>1, Invariance, PTL DEF Spec, NoHandOver

\* Types, stamps and completions in flight together, as the run checks them.
THEOREM CompletionsFitHolds == Spec => []CompletionsFit
<1>1. IInv => CompletionsFit BY DEF IInv, CompletionsFit
<1>2. QED BY <1>1, Invariance, PTL

\* A step by which e gets order o.
Gains(o, e) ==
    /\ orders'[o].status = "claimed" /\ orders'[o].claimedBy = e
    /\ orders[o].status # "claimed"

\* A step in which each claimed row was claimed before gives no order to anybody.
LEMMA NobodyGains ==
  ASSUME \A o \in OrderIds : orders'[o].status = "claimed" => orders[o].status = "claimed"
  PROVE  \A o \in OrderIds, e \in Executors : ~Gains(o, e)
BY DEF Gains

\* Whoever gains an order is flagged as busy by the same transaction, which looks through the
\* table it leaves: no statement gives an order to anybody but the executor whose flag it refreshes.
THEOREM GainingSetsFlagHolds == Spec => GainingSetsFlag
<1>1. IInv /\ [Next]_vars =>
        [\A o \in OrderIds, e \in Executors : Gains(o, e) => hasActive'[e]]_vars
  <2> SUFFICES ASSUME IInv, Next, NEW x \in OrderIds, NEW f \in Executors, Gains(x, f)
               PROVE  hasActive'[f]
    OBVIOUS
  <2> USE DEF IInv, TypeOK, Row
  <2>1. ASSUME NEW o \in OrderIds, NEW e \in Executors,
               \/ \E city \in Cities : TryClaimOrder(o, e, city)
               \/ TryReclaimOrder(o, e)
               \/ TryRestoreCompletedOrder(o, e)
        PROVE  hasActive'[f]
    <3>1. orders'[x].status = "claimed" /\ orders'[x].claimedBy = f
      BY DEF Gains
    <3>2. x = o /\ f = e
      BY <2>1, <3>1 DEF Gains, TryClaimOrder, TryReclaimOrder, TryRestoreCompletedOrder
    <3>3. HasActiveOrder(orders', e)
      BY <3>1, <3>2 DEF HasActiveOrder
    <3>4. UpdateExecutorHasActiveOrder(e)
      BY <2>1 DEF TryClaimOrder, TryReclaimOrder, TryRestoreCompletedOrder
    <3> QED
      BY <3>2, <3>3, <3>4 DEF UpdateExecutorHasActiveOrder
  <2>2. ASSUME NEW o \in OrderIds, NEW e \in Executors,
               TryReleaseOrder(o, e) \/ TryCompleteOrder(o, e)
        PROVE  \A z \in OrderIds : orders'[z].status = "claimed" => orders[z].status = "claimed"
    BY <2>2 DEF TryReleaseOrder, TryCompleteOrder
  <2>3. ASSUME NEW o \in OrderIds, CompleteCommit(o)
        PROVE  \A z \in OrderIds : orders'[z].status = "claimed" => orders[z].status = "claimed"
    <3>1. tx[o].to \in {"in_progress", "finished"}
      BY <2>3 DEF CompleteCommit, Free, Completion
    <3> QED
      BY <2>3, <3>1 DEF CompleteCommit, CompletedRow
  <2>4. ASSUME NEW o \in OrderIds,
               \/ CreateOrder(o) \/ TryCancelOrder(o) \/ MarkOrderAsCancelled(o)
               \/ \E c \in Clients : CancelClientOrder(o, c)
        PROVE  \A z \in OrderIds : orders'[z].status = "claimed" => orders[z].status = "claimed"
    BY <2>4 DEF CreateOrder, TryCancelOrder, MarkOrderAsCancelled, CancelClientOrder
  <2>5. ASSUME NEW o \in OrderIds, NEW m \in Messages, PublishOrder(o, m)
        PROVE  \A z \in OrderIds : orders'[z].status = "claimed" => orders[z].status = "claimed"
    BY <2>5 DEF PublishOrder
  <2>6. ASSUME NEW o \in OrderIds, Age(o)
        PROVE  \A z \in OrderIds : orders'[z].status = "claimed" => orders[z].status = "claimed"
    BY <2>6 DEF Age
  <2>7. ASSUME \/ \E o \in OrderIds : CompleteRollback(o)
               \/ \E o \in OrderIds, e \in Executors : CompleteBegin(o, e)
               \/ \E e \in Executors : DropSubscription(e)
               \/ Crash
        PROVE  \A z \in OrderIds : orders'[z].status = "claimed" => orders[z].status = "claimed"
    BY <2>7 DEF CompleteRollback, CompleteBegin, DropSubscription, Crash
  <2>8. ASSUME NEW S \in SUBSET OrderIds, ExpireStaleOrders(S)
        PROVE  \A z \in OrderIds : orders'[z].status = "claimed" => orders[z].status = "claimed"
    BY <2>8 DEF ExpireStaleOrders
  <2> QED
    BY <2>1, <2>2, <2>3, <2>4, <2>5, <2>6, <2>7, <2>8, NobodyGains DEF Next
<1> QED
  BY <1>1, Invariance, PTL DEF Spec, GainingSetsFlag, Gains
=============================================================================
