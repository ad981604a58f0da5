------------------------ MODULE OrdersChannelProofs ------------------------
(***************************************************************************)
(* OrdersChannel, for any orders, executors, clients and messages, any     *)
(* faults and any number of handlers in flight: what the process remembers *)
(* agrees with the rows, and a lone handler leaves an open order its card. *)
(***************************************************************************)
EXTENDS OrdersChannel, FiniteSetTheorems, TLAPS

\* The theorems about Orders, for the tables of the channel.
Repository == INSTANCE OrdersProofs

-----------------------------------------------------------------------------
(* DB and Repository are the same specification of the same variables.      *)

\* The assumptions of Orders are among those of the channel.
LEMMA RepositoryAssumption == Repository!OrdersAssumption
BY ChannelAssumption DEF Repository!OrdersAssumption, Repository!IsFiniteSet, IsFiniteSet

\* They begin alike.
LEMMA SameInit == DB!Init <=> Repository!Init
BY DEF DB!Init, Repository!Init

\* They move alike.
LEMMA SameNext == DB!Next <=> Repository!Next
BY Zenon
   DEF DB!Next, DB!Free, DB!Held, DB!Cardinality, DB!CountActiveOrders,
       DB!UpdateActiveOrdersGauge, DB!HasActiveOrder, DB!UpdateExecutorHasActiveOrder,
       DB!NextStatus, DB!CompletedRow, DB!Expirable, DB!StaleOrders, DB!CreateOrder,
       DB!PublishOrder, DB!TryClaimOrder, DB!TryReleaseOrder, DB!TryReclaimOrder,
       DB!TryCompleteOrder, DB!TryRestoreCompletedOrder, DB!CompleteBegin,
       DB!CompleteCommit, DB!CompleteRollback, DB!TryCancelOrder,
       DB!MarkOrderAsCancelled, DB!CancelClientOrder, DB!Age, DB!ExpireStaleOrders,
       DB!DropSubscription, DB!Crash,
       Repository!Next, Repository!Free, Repository!Held, Repository!Cardinality,
       Repository!CountActiveOrders, Repository!UpdateActiveOrdersGauge,
       Repository!HasActiveOrder, Repository!UpdateExecutorHasActiveOrder,
       Repository!NextStatus, Repository!CompletedRow, Repository!Expirable,
       Repository!StaleOrders, Repository!CreateOrder, Repository!PublishOrder,
       Repository!TryClaimOrder, Repository!TryReleaseOrder, Repository!TryReclaimOrder,
       Repository!TryCompleteOrder, Repository!TryRestoreCompletedOrder,
       Repository!CompleteBegin, Repository!CompleteCommit, Repository!CompleteRollback,
       Repository!TryCancelOrder, Repository!MarkOrderAsCancelled,
       Repository!CancelClientOrder, Repository!Age, Repository!ExpireStaleOrders,
       Repository!DropSubscription, Repository!Crash

\* What the channel needs of the repository's invariant.
RowsFit ==
    /\ DB!TypeOK
    /\ \A o \in OrderIds : tx[o] # NULL =>
        /\ orders[o].claimedBy = tx[o].executor
        /\ orders[o].status \in DB!Held
        /\ tx[o].to \in {"in_progress", "finished"}

\* The inductive invariant of Orders, and its induction step.
Rows == Repository!IInv

\* It gives the types and the completions in flight.
LEMMA RowsGive == Rows => RowsFit
BY DEF Rows, RowsFit, Repository!IInv, Repository!TypeOK, DB!TypeOK, Repository!Row,
       DB!Row, Repository!Statuses, DB!Statuses, Repository!Completion, DB!Completion,
       Repository!CompletionStillValid, Repository!Held, DB!Held, Repository!NextStatus

\* A step of the tables preserves it.
LEMMA RowsStep == ASSUME Rows, [DB!Next]_dbVars PROVE Rows'
<1>1. [Repository!Next]_Repository!vars
  BY SameNext DEF dbVars, Repository!vars
<1> QED
  BY <1>1, RepositoryAssumption, Repository!NextInv DEF Rows

-----------------------------------------------------------------------------
(* What each statement makes of the rows, as far as the channel looks.      *)

\* Row o becomes this; the others stay.
Becomes(o, status, by, message) ==
    /\ orders'[o].status = status /\ orders'[o].claimedBy = by
    /\ orders'[o].message = message
    /\ \A x \in OrderIds \ {o} : orders'[x] = orders[x]

\* A new row belongs to nobody in the channel.
LEMMA Creates ==
  ASSUME DB!TypeOK, NEW o \in OrderIds, DB!CreateOrder(o)
  PROVE  Becomes(o, "new", orders[o].claimedBy, orders[o].message)
BY DEF DB!TypeOK, DB!Row, DB!CreateOrder, Becomes

\* A publication writes the message, and opens a new order.
LEMMA Publishes ==
  ASSUME DB!TypeOK, NEW o \in OrderIds, NEW m \in Messages, DB!PublishOrder(o, m)
  PROVE  Becomes(o, IF orders[o].status = "new" THEN "open" ELSE orders[o].status,
                 orders[o].claimedBy, m)
BY DEF DB!TypeOK, DB!Row, DB!PublishOrder, Becomes

\* A claim takes an open order.
LEMMA Claims ==
  ASSUME DB!TypeOK, NEW o \in OrderIds, NEW e \in Executors, NEW city,
         DB!TryClaimOrder(o, e, city)
  PROVE  orders[o].status = "open" /\ Becomes(o, "claimed", e, orders[o].message)
BY DEF DB!TypeOK, DB!Row, DB!TryClaimOrder, Becomes

\* A release forgets the executor and the message.
LEMMA Releases ==
  ASSUME DB!TypeOK, NEW o \in OrderIds, NEW e \in Executors, DB!TryReleaseOrder(o, e)
  PROVE  /\ orders[o].status \in DB!Held /\ orders[o].claimedBy = e
         /\ Becomes(o, "open", NULL, NULL)
BY DEF DB!TypeOK, DB!Row, DB!TryReleaseOrder, Becomes

\* Its undo takes an open order and forgets the message.
LEMMA Reclaims ==
  ASSUME DB!TypeOK, NEW o \in OrderIds, NEW e \in Executors, DB!TryReclaimOrder(o, e)
  PROVE  orders[o].status = "open" /\ Becomes(o, "claimed", e, NULL)
BY DEF DB!TypeOK, DB!Row, DB!TryReclaimOrder, Becomes

\* A completion ends an order the executor holds.
LEMMA Completes ==
  ASSUME DB!TypeOK, NEW o \in OrderIds, NEW e \in Executors, DB!TryCompleteOrder(o, e)
  PROVE  /\ orders[o].status \in DB!Held /\ orders[o].claimedBy = e
         /\ Becomes(o, "finished", e, orders[o].message)
BY DEF DB!TypeOK, DB!Row, DB!TryCompleteOrder, Becomes

\* Its undo gives the order back to the executor.
LEMMA Restores ==
  ASSUME DB!TypeOK, NEW o \in OrderIds, NEW e \in Executors, DB!TryRestoreCompletedOrder(o, e)
  PROVE  /\ orders[o].status = "finished" /\ orders[o].claimedBy = e
         /\ Becomes(o, "claimed", e, orders[o].message)
BY DEF DB!TypeOK, DB!Row, DB!TryRestoreCompletedOrder, Becomes

\* The menu's completion moves a row that is held.
LEMMA Commits ==
  ASSUME RowsFit, NEW o \in OrderIds, DB!CompleteCommit(o)
  PROVE  /\ orders[o].status \in DB!Held
         /\ orders'[o].status \in {"in_progress", "finished"}
         /\ Becomes(o, orders'[o].status, orders[o].claimedBy, orders[o].message)
<1>1. orders[o] \in DB!Row /\ orders \in [OrderIds -> DB!Row]
  BY DEF RowsFit, DB!TypeOK
<1>2. /\ orders[o].status \in DB!Held /\ tx[o].to \in {"in_progress", "finished"}
      /\ orders' = [orders EXCEPT ![o] = DB!CompletedRow(@, tx[o].to)]
  BY DEF RowsFit, DB!CompleteCommit, DB!Free
<1> DEFINE r == DB!CompletedRow(orders[o], tx[o].to)
<1>3. /\ r.status = tx[o].to /\ r.claimedBy = orders[o].claimedBy
      /\ r.message = orders[o].message
  BY <1>1 DEF DB!CompletedRow, DB!Row
<1> HIDE DEF r
<1>4. orders'[o] = r /\ \A x \in OrderIds \ {o} : orders'[x] = orders[x]
  BY <1>1, <1>2 DEF r
<1> QED
  BY <1>2, <1>3, <1>4 DEF Becomes

\* A cancellation changes the status only.
LEMMA Cancels ==
  ASSUME DB!TypeOK, NEW o \in OrderIds,
         DB!MarkOrderAsCancelled(o) \/ DB!CancelClientOrder(o, ClientOf[o])
  PROVE  Becomes(o, "cancelled", orders[o].claimedBy, orders[o].message)
BY DEF DB!TypeOK, DB!Row, DB!MarkOrderAsCancelled, DB!CancelClientOrder, Becomes

\* So does time,
LEMMA Ages ==
  ASSUME DB!TypeOK, NEW o \in OrderIds, DB!Age(o)
  PROVE  Becomes(o, orders[o].status, orders[o].claimedBy, orders[o].message)
BY DEF DB!TypeOK, DB!Row, DB!Age, Becomes

\* and the maintenance job, which ends what nobody works on.
LEMMA Expires ==
  ASSUME DB!TypeOK, NEW S, DB!ExpireStaleOrders(S)
  PROVE  \A o \in OrderIds :
            /\ orders'[o].claimedBy = orders[o].claimedBy
            /\ orders'[o].message = orders[o].message
            /\ \/ orders'[o].status = orders[o].status
               \/ orders[o].status \in {"open", "claimed"} /\ orders'[o].status = "expired"
BY DEF DB!TypeOK, DB!Row, DB!ExpireStaleOrders, DB!StaleOrders, DB!Expirable

-----------------------------------------------------------------------------
(* Types, what a handler in flight knows, and whose cards are remembered.   *)

\* m is a channel message that was sent for order o.
Card(m, o) == m \in Messages /\ cards[m].order = o /\ cards[m].face # "unused"

\* The kinds of handler that act for an executor, and for a card.
ForExecutor == {"undoable", "claimed", "processed", "dismissed", "released", "reclaim",
                "reclaimed", "completed", "restore"}
ForCard == {"posted", "remembered", "claimed", "processed", "dismissed"}

Fit(t) == /\ t \in Task
          /\ t.kind \in ForExecutor => t.exec \in Executors
          /\ t.kind \in ForCard => t.message \in Messages
          /\ t.message # NULL => Card(t.message, t.order)

CardsType ==
    /\ cards \in [Messages -> [order : OrderIds \cup {NULL},
                               face : {"unused", "live", "bare", "gone"}]]
    /\ \A m \in Messages : cards[m].face # "unused" => cards[m].order \in OrderIds

StatesType ==
    /\ states \in [Keys -> [OrderIds -> State \cup {NULL}]]
    /\ \A key \in Keys, o \in OrderIds :
          states[key][o] # NULL => Card(states[key][o].message, o)

RowCards == \A o \in OrderIds : orders[o].message # NULL => Card(orders[o].message, o)

UndoType ==
    /\ dismissed \in [OrderIds -> SUBSET Executors]
    /\ undoRelease \in [OrderIds -> Executors \cup {NULL}]
    /\ undoComplete \in [OrderIds -> Executors \cup {NULL}]

TasksFit == \A t \in tasks : Fit(t)

Typed == /\ CardsType /\ StatesType /\ RowCards /\ UndoType /\ TasksFit
         /\ offered \subseteq OrderIds \X Executors

\* Together with the rows, these are the types of the module.
LEMMA TypedGives == RowsFit /\ Typed => TypeOK
BY DEF RowsFit, Typed, CardsType, StatesType, UndoType, TasksFit, Fit, TypeOK

\* A new handler.
LEMMA NewTaskFits ==
  ASSUME NEW kind \in {"publish", "publishing", "posted", "remembered", "failed", "undoable",
                 "claimed", "processed", "dismissed", "released", "reclaim", "reclaimed",
                 "completed", "restore", "cancelling", "reading", "cleanup"},
         NEW o \in OrderIds, NEW e \in Executors \cup {NULL}, NEW m \in Messages \cup {NULL},
         kind \in ForExecutor => e \in Executors,
         kind \in ForCard => m \in Messages,
         m # NULL => Card(m, o)
  PROVE  /\ Fit(NewTask(kind, o, e, m))
         /\ NewTask(kind, o, e, m).kind = kind /\ NewTask(kind, o, e, m).order = o
         /\ NewTask(kind, o, e, m).exec = e /\ NewTask(kind, o, e, m).message = m
<1> DEFINE t == NewTask(kind, o, e, m)
<1>1. /\ t.kind = kind /\ t.order = o /\ t.exec = e /\ t.message = m
      /\ t = [kind |-> kind, order |-> o, exec |-> e, message |-> m, seen |-> "absent"]
  BY DEF NewTask
<1>2. t \in Task
  BY <1>1 DEF Task
<1> QED
  BY <1>1, <1>2 DEF Fit

\* Cards keep their types, and what was sent for an order remains its card.
CardsStay == /\ CardsType'
             /\ \A m \in Messages, o \in OrderIds : Card(m, o) => Card(m, o)'

\* Nothing sent or edited.
LEMMA CardsSame == ASSUME CardsType, UNCHANGED cards PROVE CardsStay
BY DEF CardsType, CardsStay, Card

\* Withdrawing a card.
LEMMA DeleteFits ==
  ASSUME CardsType, NEW m, NEW o \in OrderIds, Card(m, o), Delete(m)
  PROVE  CardsStay
BY DEF CardsType, CardsStay, Card, Delete

\* Clearing its buttons.
LEMMA StripFits == ASSUME CardsType, NEW m \in Messages, Strip(m) PROVE CardsStay
BY DEF CardsType, CardsStay, Card, Strip

\* Sending one.
LEMMA SendFits ==
  ASSUME CardsType, NEW m \in Messages, NEW o \in OrderIds, cards[m].face = "unused",
         cards' = [cards EXCEPT ![m] = [order |-> o, face |-> "live"]]
  PROVE  CardsStay /\ Card(m, o)'
BY DEF CardsType, CardsStay, Card

\* A handler that starts, goes on as another or ends, when what it becomes fits.
LEMMA TasksKeep ==
  ASSUME TasksFit, CardsStay, \A u \in tasks' : u \in tasks \/ Fit(u) \/ Fit(u)'
  PROVE  TasksFit'
<1> SUFFICES ASSUME NEW u \in tasks', Fit(u) PROVE Fit(u)'
  BY DEF TasksFit
<1> QED
  BY DEF Fit, CardsStay, Task

\* An entry of orderStates.
LEMMA SetStateFits ==
  ASSUME StatesType, CardsStay, NEW key \in Keys, NEW o \in OrderIds,
         NEW s \in State \cup {NULL}, s # NULL => Card(s.message, o), SetState(key, o, s)
  PROVE  /\ StatesType'
         /\ states'[key][o] = s
         /\ \A k \in Keys, x \in OrderIds : k # key \/ x # o => states'[k][x] = states[k][x]
<1>1. /\ states' \in [Keys -> [OrderIds -> State \cup {NULL}]]
      /\ states'[key][o] = s
      /\ \A k \in Keys, x \in OrderIds : k # key \/ x # o => states'[k][x] = states[k][x]
  BY DEF SetState, StatesType
<1>2. \A k \in Keys, x \in OrderIds :
         states'[k][x] # NULL => Card(states'[k][x].message, x)
  BY <1>1 DEF StatesType
<1>3. \A k \in Keys, x \in OrderIds :
         (states[k][x] # NULL => Card(states[k][x].message, x))'
  BY <1>2 DEF CardsStay, Card
<1> QED
  BY <1>1, <1>3 DEF StatesType

\* Entries that stay.
LEMMA StatesSame == ASSUME StatesType, CardsStay, UNCHANGED states PROVE StatesType'
BY DEF StatesType, CardsStay, Card

\* Rows whose message stays, is forgotten or is a card of the order.
LEMMA RowCardsKeep ==
  ASSUME RowCards, CardsStay,
         \A o \in OrderIds : \/ orders'[o].message \in {NULL, orders[o].message}
                             \/ Card(orders'[o].message, o)
  PROVE  RowCards'
BY DEF RowCards, CardsStay, Card

\* What ensureOrderState returns.
LEMMA EnsureFits ==
  ASSUME StatesType, NEW o \in OrderIds, NEW m \in Messages, NEW st
  PROVE  /\ EnsureMessage(o, m) \in State /\ EnsureMessage(o, m).message = m
         /\ EnsureState(o, m, st) \in State /\ EnsureState(o, m, st).message = m
         /\ EnsureState(o, m, st).status = MapOrderStatus(st)
<1>1. states["number"][o] \in State \cup {NULL}
  BY DEF Keys, StatesType
<1>2. EnsureMessage(o, m) \in State /\ EnsureMessage(o, m).message = m
  BY <1>1 DEF EnsureMessage, State
<1>3. MapOrderStatus(st) \in {"pending", "claimed", "declined"}
  BY DEF MapOrderStatus
<1> QED
  BY <1>2, <1>3 DEF EnsureState, State

\* The text entries are the publication's and the client's; decisions write number entries.
TextKept == \A x \in OrderIds : states'["text"][x] = states["text"][x]

\* A decision records what it knows.
LEMMA RecordFits ==
  ASSUME StatesType, CardsStay, NEW o \in OrderIds, NEW s \in State, Card(s.message, o),
         SetState("number", o, s)
  PROVE  StatesType' /\ TextKept
BY SetStateFits DEF TextKept, Keys

\* updateOrderMessage, whatever Telegram refuses.
LEMMA UpdateFits ==
  ASSUME CardsType, StatesType, NEW o \in OrderIds, NEW s \in State, Card(s.message, o),
         UpdateOrderMessage(o, s)
  PROVE  CardsStay /\ StatesType' /\ TextKept
<1> DEFINE r == [s EXCEPT !.rendered = s.status]
<1>1. s.message \in Messages /\ r.message = s.message /\ (s.status # "pending" => r \in State)
  BY DEF State
<1>2. CASE s.status = "claimed" /\ Delete(s.message) /\ SetState("number", o, r)
  BY <1>1, <1>2, DeleteFits, RecordFits
<1>3. CASE s.status # "pending" /\ Strip(s.message) /\ SetState("number", o, r)
  BY <1>1, <1>3, StripFits, RecordFits
<1>4. CASE SetState("number", o, s) /\ UNCHANGED cards
  BY <1>4, CardsSame, RecordFits
<1> QED
  BY <1>2, <1>3, <1>4 DEF UpdateOrderMessage

\* removeOrderState.
LEMMA RemoveFits ==
  ASSUME CardsType, StatesType, UndoType, NEW key \in Keys, NEW o \in OrderIds,
         RemoveOrderState(key, o)
  PROVE  /\ CardsStay /\ StatesType'
         /\ dismissed' \in [OrderIds -> SUBSET Executors]
         /\ \A x \in OrderIds : states'["text"][x] \in {NULL, states["text"][x]}
<1>1. SetState(key, o, NULL) /\ dismissed' \in [OrderIds -> SUBSET Executors]
  BY DEF RemoveOrderState, UndoType
<1>2. CardsStay
  <2>1. CASE UNCHANGED cards
    BY <2>1, CardsSame
  <2>2. CASE states[key][o] # NULL /\ Delete(states[key][o].message)
    BY <2>2, DeleteFits DEF StatesType
  <2> QED
    BY <2>1, <2>2 DEF RemoveOrderState, TryDelete
<1>3. StatesType' /\ \A k \in Keys, x \in OrderIds : states'[k][x] \in {NULL, states[k][x]}
  BY <1>1, <1>2, SetStateFits
<1> QED
  BY <1>1, <1>2, <1>3 DEF Keys

\* A step that leaves the cards, the memory and the direct messages alone.
LEMMA OnlyRows ==
  ASSUME Typed, UNCHANGED <<cards, memory, offered>>,
         \A o \in OrderIds : \/ orders'[o].message \in {NULL, orders[o].message}
                             \/ Card(orders'[o].message, o),
         \A u \in tasks' : u \in tasks \/ Fit(u)
  PROVE  Typed'
<1>1. CardsStay
  BY CardsSame DEF Typed
<1> QED
  BY <1>1, TasksKeep, StatesSame, RowCardsKeep DEF Typed, CardsStay, UndoType, memory

\* What one row became, as the cards see it.
LEMMA BecomesCards ==
  ASSUME NEW o \in OrderIds, NEW status, NEW by, NEW m, Becomes(o, status, by, m),
         m = NULL \/ m = orders[o].message \/ Card(m, o)
  PROVE  \A x \in OrderIds : \/ orders'[x].message \in {NULL, orders[x].message}
                             \/ Card(orders'[x].message, x)
BY DEF Becomes

\* A publication: every step of it is a step of the repository, or none.
LEMMA PublishTyped ==
  ASSUME RowsFit, Typed, NEW t \in tasks, Publish(t)
  PROVE  Typed' /\ [DB!Next]_dbVars
<1>1. /\ Fit(t) /\ t \in Task /\ t.order \in OrderIds /\ t.exec \in Executors \cup {NULL}
      /\ orders[t.order].message \in Messages \cup {NULL}
      /\ CardsType /\ StatesType /\ RowCards /\ UndoType /\ TasksFit /\ DB!TypeOK
  BY DEF Typed, TasksFit, Fit, Task, RowsFit, DB!TypeOK, DB!Row
<1>2. ASSUME PublishEnds(t) PROVE \A u \in tasks' : u \in tasks \/ Fit(u)
  <2>1. CASE t.exec = NULL
    BY <1>2, <2>1 DEF PublishEnds, End
  <2>2. CASE t.exec # NULL
    <3>1. Fit(NewTask("undoable", t.order, t.exec, NULL))
      BY <1>1, <2>2, NewTaskFits DEF ForCard
    <3> QED
      BY <1>2, <2>2, <3>1 DEF PublishEnds, Become
  <2> QED
    BY <2>1, <2>2
<1>3. ASSUME PublishThrows(t) PROVE \A u \in tasks' : u \in tasks \/ Fit(u)
  <2>1. CASE t.exec = NULL
    <3>1. Fit(NewTask("failed", t.order, t.exec, NULL))
      BY <1>1, NewTaskFits DEF ForExecutor, ForCard
    <3> QED
      BY <1>3, <2>1, <3>1 DEF PublishThrows, Become
  <2>2. CASE t.exec # NULL
    <3>1. Fit(NewTask("undoable", t.order, t.exec, NULL))
      BY <1>1, <2>2, NewTaskFits DEF ForCard
    <3> QED
      BY <1>3, <2>2, <3>1 DEF PublishThrows, Become
  <2> QED
    BY <2>1, <2>2
<1>4. CASE PublishRemember(t)
  <2> DEFINE s == [message |-> t.message, status |-> "pending", rendered |-> "none"]
             u == [t EXCEPT !.kind = "remembered"]
  <2>1. Card(t.message, t.order) /\ t.message \in Messages
    BY <1>1, <1>4, ChannelAssumption DEF PublishRemember, Fit, ForCard
  <2>2. s \in State /\ s.message = t.message /\ CardsStay
    BY <1>1, <1>4, <2>1, CardsSame DEF State, PublishRemember
  <2>3. Fit(u)
    BY <1>1, <2>1 DEF Fit, Task, ForExecutor, ForCard
  <2>4. SetState("text", t.order, s) /\ tasks' = (tasks \ {t}) \cup {u}
    BY <1>4 DEF PublishRemember, RememberPosted, Become
  <2> HIDE DEF s, u
  <2>5. StatesType' /\ TasksFit' /\ RowCards'
    BY <1>1, <1>4, <2>1, <2>2, <2>3, <2>4, SetStateFits, TasksKeep, RowCardsKeep
       DEF PublishRemember, Keys, dbVars
  <2> QED
    BY <1>1, <1>4, <2>2, <2>5
       DEF PublishRemember, RememberPosted, dbVars, Typed, CardsStay, UndoType
<1>5. CASE PublishMissingChannel(t)
  BY <1>2, <1>5, OnlyRows DEF PublishMissingChannel, dbVars
<1>6. CASE PublishAlready(t)
  <2> DEFINE s == [message |-> orders[t.order].message,
                   status |-> MapOrderStatus(orders[t.order].status), rendered |-> "none"]
  <2>1. s \in State /\ Card(s.message, t.order) /\ CardsStay
    BY <1>1, <1>6, CardsSame DEF PublishAlready, State, MapOrderStatus, RowCards
  <2>2. SetState("text", t.order, s)
    BY <1>6 DEF PublishAlready
  <2> HIDE DEF s
  <2>3. StatesType' /\ TasksFit' /\ RowCards'
    BY <1>1, <1>2, <1>6, <2>1, <2>2, SetStateFits, TasksKeep, RowCardsKeep
       DEF PublishAlready, Keys, dbVars
  <2> QED
    BY <1>1, <1>6, <2>1, <2>3 DEF PublishAlready, dbVars, Typed, CardsStay, UndoType
<1>7. CASE PublishLock(t)
  <2>1. Fit(NewTask("publishing", t.order, t.exec, NULL))
    BY <1>1, NewTaskFits DEF ForExecutor, ForCard
  <2> QED
    BY <1>7, <2>1, OnlyRows DEF PublishLock, Become, dbVars
<1>8. CASE PublishSend(t)
  <2>1. PICK m \in Messages :
          /\ cards[m].face = "unused"
          /\ cards' = [cards EXCEPT ![m] = [order |-> t.order, face |-> "live"]]
          /\ Become(t, [t EXCEPT !.kind = "posted", !.message = m])
    BY <1>8 DEF PublishSend
  <2>2. CardsStay /\ Card(m, t.order)'
    BY <1>1, <2>1, SendFits
  <2> DEFINE u == [t EXCEPT !.kind = "posted", !.message = m]
  <2>3. u \in Task /\ u.kind = "posted" /\ u.message = m /\ u.order = t.order
    BY <1>1 DEF Task
  <2> HIDE DEF u
  <2>4. Fit(u)'
    BY <2>2, <2>3 DEF Fit, ForExecutor, ForCard, Card
  <2>5. TasksFit' /\ StatesType' /\ RowCards'
    BY <1>1, <1>8, <2>1, <2>2, <2>4, TasksKeep, StatesSame, RowCardsKeep
       DEF PublishSend, Become, u, dbVars, memory
  <2> QED
    BY <1>1, <1>8, <2>2, <2>5 DEF PublishSend, dbVars, memory, Typed, CardsStay, UndoType
<1>9. CASE PublishSendFails(t)
  BY <1>3, <1>9, OnlyRows DEF PublishSendFails, dbVars
<1>10. CASE PublishCommit(t)
  <2>1. Card(t.message, t.order) /\ t.message \in Messages
    BY <1>1, <1>10, ChannelAssumption DEF PublishCommit, Fit, ForCard
  <2>2. DB!PublishOrder(t.order, t.message) /\ PublishEnds(t)
    BY <1>10 DEF PublishCommit
  <2>3. DB!Next
    BY <1>1, <2>1, <2>2 DEF DB!Next
  <2> QED
    BY <1>1, <1>2, <1>10, <2>1, <2>2, <2>3, Publishes, BecomesCards, OnlyRows
       DEF PublishCommit
<1>11. CASE PublishCommitFails(t)
  <2>1. Card(t.message, t.order) /\ t.message \in Messages
    BY <1>1, <1>11, ChannelAssumption DEF PublishCommitFails, Fit, ForCard
  <2>2. PublishThrows(t) /\ UNCHANGED <<cards, memory, offered>>
    BY <1>11 DEF PublishCommitFails
  <2>3. CASE DB!PublishOrder(t.order, t.message)
    <3>1. DB!Next
      BY <1>1, <2>1, <2>3 DEF DB!Next
    <3> QED
      BY <1>1, <1>3, <2>1, <2>2, <2>3, <3>1, Publishes, BecomesCards, OnlyRows
  <2>4. CASE UNCHANGED dbVars
    BY <1>3, <2>2, <2>4, OnlyRows DEF dbVars
  <2> QED
    BY <1>11, <2>3, <2>4 DEF PublishCommitFails
<1>12. CASE CancelUnpublished(t)
  <2>1. \A x \in OrderIds : orders'[x].message \in {NULL, orders[x].message}
    BY <1>1, <1>12, Cancels DEF CancelUnpublished, Becomes
  <2>2. DB!Next
    BY <1>1, <1>12 DEF CancelUnpublished, DB!Next
  <2> QED
    BY <1>12, <2>1, <2>2, OnlyRows DEF CancelUnpublished, End
<1>13. CASE PublishRefused(t)
  BY <1>3, <1>13, OnlyRows DEF PublishRefused, dbVars
<1> QED
  BY <1>4, <1>5, <1>6, <1>7, <1>8, <1>9, <1>10, <1>11, <1>12, <1>13 DEF Publish

\* Waiting for the lock of a row: the handler keeps what it saw of it.
LEMMA WaitTyped ==
  ASSUME RowsFit, Typed, NEW t \in tasks, Wait(t)
  PROVE  Typed' /\ [DB!Next]_dbVars
<1> DEFINE u == [t EXCEPT !.seen = orders[t.order].status,
                          !.message = orders[t.order].message]
<1>1. Fit(t) /\ t \in Task /\ t.order \in OrderIds
  BY DEF Typed, TasksFit, Fit, Task
<1>2. /\ orders[t.order].status \in DB!Statuses \cup {"absent"}
      /\ orders[t.order].message \in Messages \cup {NULL}
      /\ orders[t.order].message # NULL => Card(orders[t.order].message, t.order)
  BY <1>1 DEF RowsFit, DB!TypeOK, DB!Row, Typed, RowCards
<1>3. /\ u \in Task /\ u.kind = t.kind /\ u.order = t.order /\ u.exec = t.exec
      /\ u.message = orders[t.order].message
  BY <1>1, <1>2 DEF Task
<1>4. t.kind \in {"publish", "reclaim", "restore"} /\ tasks' = (tasks \ {t}) \cup {u}
  BY DEF Wait, Become
<1> HIDE DEF u
<1>5. Fit(u)
  BY <1>1, <1>2, <1>3, <1>4 DEF Fit, ForExecutor, ForCard
<1> QED
  BY <1>4, <1>5, OnlyRows DEF Wait, dbVars

\* A press on a card, and what is shown of the decision.
LEMMA DecisionTyped ==
  ASSUME RowsFit, Typed, Decision
  PROVE  Typed' /\ [DB!Next]_dbVars
<1>1. /\ CardsType /\ StatesType /\ RowCards /\ UndoType /\ TasksFit /\ DB!TypeOK
      /\ \A o \in OrderIds : orders[o].status \in DB!Statuses \cup {"absent"}
      /\ \A m \in Messages : Pressable(m) => /\ cards[m].order \in OrderIds
                                             /\ Card(m, cards[m].order)
  BY DEF Typed, RowsFit, DB!TypeOK, DB!Row, Pressable, CardsType, Card
<1>2. ASSUME NEW e \in Executors, NEW m \in Messages, Pressable(m),
             AlreadyProcessed(e, m, cards[m].order)
      PROVE  Typed' /\ [DB!Next]_dbVars
  <2> DEFINE o == cards[m].order
             u == [NewTask("processed", o, e, m) EXCEPT !.seen = orders[o].status]
  <2>1. u = [kind |-> "processed", order |-> o, exec |-> e, message |-> m,
             seen |-> orders[o].status]
    BY DEF NewTask
  <2>2. Fit(u)
    BY <1>1, <1>2, <2>1 DEF Fit, Task, ForExecutor, ForCard
  <2>3. tasks' = tasks \cup {u}
    BY <1>2 DEF AlreadyProcessed, Start
  <2> HIDE DEF u
  <2> QED
    BY <1>2, <2>2, <2>3, OnlyRows DEF AlreadyProcessed, dbVars
<1>3. ASSUME NEW e \in Executors, NEW m \in Messages, NEW kind \in Kinds,
             NEW city \in Cities, AcceptClaims(e, m, kind, city)
      PROVE  Typed' /\ [DB!Next]_dbVars
  <2>1. cards[m].order \in OrderIds /\ Card(m, cards[m].order)
    BY <1>1, <1>3 DEF AcceptClaims
  <2>2. Fit(NewTask("claimed", cards[m].order, e, m))
    BY <2>1, NewTaskFits
  <2>3. \A x \in OrderIds : orders'[x].message \in {NULL, orders[x].message}
    BY <1>1, <1>3, <2>1, Claims DEF AcceptClaims, Becomes
  <2>4. DB!Next
    BY <1>3, <2>1 DEF AcceptClaims, DB!Next
  <2> QED
    BY <1>3, <2>2, <2>3, <2>4, OnlyRows DEF AcceptClaims, Start
<1>4. ASSUME NEW m \in Messages, NEW s \in State, Card(m, cards[m].order), s.message = m,
             SetState("number", cards[m].order, s),
             UNCHANGED <<dbVars, cards, dismissed, undoRelease, undoComplete, offered, tasks>>
      PROVE  Typed' /\ [DB!Next]_dbVars
  <2>1. CardsStay /\ cards[m].order \in OrderIds
    BY <1>1, <1>4, CardsSame DEF Card, CardsType
  <2>2. StatesType' /\ TasksFit' /\ RowCards'
    BY <1>1, <1>4, <2>1, RecordFits, TasksKeep, RowCardsKeep DEF dbVars
  <2> QED
    BY <1>1, <1>4, <2>1, <2>2 DEF Typed, CardsStay, UndoType, dbVars
<1>5. ASSUME NEW e \in Executors, NEW m \in Messages, NEW kind \in Kinds,
             NEW city \in Cities, AcceptRefused(e, m, kind, city)
      PROVE  Typed' /\ [DB!Next]_dbVars
  <2>1. cards[m].order \in OrderIds /\ Card(m, cards[m].order)
    BY <1>1, <1>5 DEF AcceptRefused
  <2>2. /\ EnsureMessage(cards[m].order, m) \in State
        /\ EnsureMessage(cards[m].order, m).message = m
        /\ EnsureState(cards[m].order, m, "open") \in State
        /\ EnsureState(cards[m].order, m, "open").message = m
    BY <1>1, <2>1, EnsureFits
  <2> QED
    BY <1>4, <1>5, <2>1, <2>2 DEF AcceptRefused
<1>6. ASSUME NEW e \in Executors, NEW m \in Messages, AcceptTooLate(e, m)
      PROVE  Typed' /\ [DB!Next]_dbVars
  BY <1>2, <1>6 DEF AcceptTooLate
<1>7. ASSUME NEW e \in Executors, NEW m \in Messages, Decline(e, m)
      PROVE  Typed' /\ [DB!Next]_dbVars
  <2>1. cards[m].order \in OrderIds /\ Card(m, cards[m].order) /\ Pressable(m)
    BY <1>1, <1>7 DEF Decline
  <2>2. CASE AlreadyProcessed(e, m, cards[m].order)
    BY <1>2, <2>1, <2>2
  <2>3. CASE /\ Start(NewTask("dismissed", cards[m].order, e, m))
             /\ UNCHANGED <<dbVars, cards, memory, offered>>
    <3>1. Fit(NewTask("dismissed", cards[m].order, e, m))
      BY <2>1, NewTaskFits
    <3> QED
      BY <2>3, <3>1, OnlyRows DEF Start, dbVars
  <2> QED
    BY <1>7, <2>2, <2>3 DEF Decline
<1>8. ASSUME NEW e \in Executors, NEW m \in Messages, DeclineAgain(e, m)
      PROVE  Typed' /\ [DB!Next]_dbVars
  <2>1. cards[m].order \in OrderIds /\ Card(m, cards[m].order)
    BY <1>1, <1>8 DEF DeclineAgain
  <2>2. EnsureMessage(cards[m].order, m) \in State /\ EnsureMessage(cards[m].order, m).message = m
    BY <1>1, <2>1, EnsureFits
  <2> QED
    BY <1>4, <1>8, <2>1, <2>2 DEF DeclineAgain
<1>9. ASSUME NEW t \in tasks, ShowClaimed(t) \/ ShowProcessed(t) \/ ShowDismissed(t)
      PROVE  Typed' /\ [DB!Next]_dbVars
  <2>1. /\ t.order \in OrderIds /\ t.exec \in Executors /\ t.message \in Messages
        /\ Card(t.message, t.order)
        /\ UNCHANGED <<dbVars, undoRelease, undoComplete>> /\ tasks' \subseteq tasks
    BY <1>1, <1>9, ChannelAssumption DEF ShowClaimed, ShowProcessed, ShowDismissed, End,
       TasksFit, Fit, Task, ForExecutor, ForCard
  <2>2. \A st : /\ EnsureState(t.order, t.message, st) \in State
                /\ EnsureState(t.order, t.message, st).message = t.message
    BY <1>1, <2>1, EnsureFits
  <2>3. SUFFICES CardsStay /\ StatesType' /\ dismissed' \in [OrderIds -> SUBSET Executors]
                 /\ offered' \subseteq OrderIds \X Executors
    BY <1>1, <2>1, <2>3, TasksKeep, RowCardsKeep DEF Typed, CardsStay, UndoType, dbVars
  <2>4. CASE ShowClaimed(t)
    <3>1. CardsStay /\ StatesType'
      BY <1>1, <2>1, <2>2, <2>4, UpdateFits DEF ShowClaimed
    <3>2. offered' \subseteq OrderIds \X Executors
      BY <2>1, <2>4 DEF ShowClaimed, Typed
    <3> QED
      BY <1>1, <2>4, <3>1, <3>2 DEF ShowClaimed, UndoType
  <2>5. CASE ShowProcessed(t)
    <3> DEFINE s == EnsureState(t.order, t.message, t.seen)
    <3>1. CardsStay /\ StatesType'
      <4>1. CASE SetState("number", t.order, s) /\ UNCHANGED cards
        BY <1>1, <2>1, <2>2, <4>1, CardsSame, RecordFits
      <4>2. CASE UpdateOrderMessage(t.order, s)
        BY <1>1, <2>1, <2>2, <4>2, UpdateFits
      <4> QED
        BY <2>5, <4>1, <4>2 DEF ShowProcessed, EnsureMessageReflectsState
    <3> QED
      BY <1>1, <2>5, <3>1 DEF ShowProcessed, Typed, UndoType
  <2>6. CASE ShowDismissed(t)
    <3>1. CardsStay
      BY <1>1, <2>1, <2>6, StripFits, CardsSame DEF ShowDismissed
    <3>2. StatesType'
      BY <1>1, <2>1, <2>2, <2>6, <3>1, RecordFits DEF ShowDismissed
    <3>3. dismissed' \in [OrderIds -> SUBSET Executors]
      BY <1>1, <2>1, <2>6 DEF ShowDismissed, UndoType
    <3> QED
      BY <2>6, <3>1, <3>2, <3>3 DEF ShowDismissed, Typed
  <2> QED
    BY <1>9, <2>4, <2>5, <2>6
<1> QED
  BY <1>3, <1>5, <1>6, <1>7, <1>8, <1>9 DEF Decision

\* A handler that shows what became of a release, a reclaim or a cancellation.
LEMMA RemoverTyped ==
  ASSUME RowsFit, Typed, NEW key \in Keys, NEW o \in OrderIds, RemoveOrderState(key, o),
         UNCHANGED <<dbVars, undoComplete>>,
         undoRelease' \in [OrderIds -> Executors \cup {NULL}],
         offered' \subseteq OrderIds \X Executors,
         \A u \in tasks' : u \in tasks \/ Fit(u)
  PROVE  Typed' /\ [DB!Next]_dbVars
<1>1. /\ CardsStay /\ StatesType' /\ dismissed' \in [OrderIds -> SUBSET Executors]
  BY RemoveFits DEF Typed
<1> QED
  BY <1>1, TasksKeep, RowCardsKeep DEF Typed, CardsStay, UndoType, dbVars

\* Release and its undo.
LEMMA ReleasingTyped ==
  ASSUME RowsFit, Typed, Releasing
  PROVE  Typed' /\ [DB!Next]_dbVars
<1>1. /\ CardsType /\ StatesType /\ RowCards /\ UndoType /\ TasksFit /\ DB!TypeOK
      /\ offered \subseteq OrderIds \X Executors
      /\ \A t \in tasks : /\ t.order \in OrderIds /\ Fit(t)
                          /\ t.kind \in ForExecutor => t.exec \in Executors
  BY DEF Typed, RowsFit, TasksFit, Fit, Task
<1>2. ASSUME NEW o \in OrderIds, NEW e \in Executors,
             NEW kind \in {"released", "reclaim", "reclaimed"},
             Start(NewTask(kind, o, e, NULL))
               \/ \E t \in tasks : Become(t, NewTask(kind, o, e, NULL))
      PROVE  \A u \in tasks' : u \in tasks \/ Fit(u)
  <2>1. Fit(NewTask(kind, o, e, NULL))
    BY NewTaskFits DEF ForCard
  <2> QED
    BY <1>2, <2>1 DEF Start, Become
<1>3. ASSUME NEW e \in Executors, NEW o \in OrderIds, Release(e, o)
      PROVE  Typed' /\ [DB!Next]_dbVars
  <2>1. \A x \in OrderIds : orders'[x].message \in {NULL, orders[x].message}
    BY <1>1, <1>3, Releases DEF Release, Becomes
  <2>2. DB!Next
    BY <1>3 DEF Release, DB!Next
  <2> QED
    BY <1>2, <1>3, <2>1, <2>2, OnlyRows DEF Release
<1>4. ASSUME NEW e \in Executors, NEW o \in OrderIds, UndoRelease(e, o)
      PROVE  Typed' /\ [DB!Next]_dbVars
  <2>1. /\ CardsStay /\ \A u \in tasks' : u \in tasks \/ Fit(u)
        /\ undoRelease' \in [OrderIds -> Executors \cup {NULL}]
    BY <1>1, <1>2, <1>4, CardsSame DEF UndoRelease, UndoType
  <2> QED
    BY <1>1, <1>4, <2>1, TasksKeep, StatesSame, RowCardsKeep
       DEF UndoRelease, Typed, CardsStay, UndoType, dbVars
<1>5. ASSUME NEW t \in tasks, Reclaim(t) \/ ReclaimFails(t)
      PROVE  Typed' /\ [DB!Next]_dbVars
  <2>1. CASE Reclaim(t)
    <3>1. t.order \in OrderIds /\ t.exec \in Executors
      BY <1>1, <2>1 DEF Reclaim, ForExecutor
    <3>2. \A x \in OrderIds : orders'[x].message \in {NULL, orders[x].message}
      BY <1>1, <2>1, <3>1, Reclaims DEF Reclaim, Becomes
    <3>3. DB!Next
      BY <2>1, <3>1 DEF Reclaim, DB!Next
    <3> QED
      BY <1>2, <2>1, <3>1, <3>2, <3>3, OnlyRows DEF Reclaim
  <2>2. CASE ReclaimFails(t)
    BY <2>2, OnlyRows DEF ReclaimFails, End, dbVars
  <2> QED
    BY <1>5, <2>1, <2>2
<1>6. ASSUME NEW t \in tasks, ReleaseRepublish(t)
      PROVE  Typed' /\ [DB!Next]_dbVars
  <2>1. t.order \in OrderIds /\ t.exec \in Executors
    BY <1>1, <1>6 DEF ReleaseRepublish, ForExecutor
  <2>2. Fit(NewTask("publish", t.order, t.exec, NULL))
    BY <2>1, NewTaskFits DEF ForExecutor, ForCard
  <2> QED
    BY <1>1, <1>6, <2>1, <2>2, RemoverTyped DEF ReleaseRepublish, Become, Keys, UndoType
<1>7. ASSUME NEW t \in tasks, ReleaseOffersUndo(t)
      PROVE  Typed' /\ [DB!Next]_dbVars
  <2>1. t.order \in OrderIds /\ t.exec \in Executors
    BY <1>1, <1>7 DEF ReleaseOffersUndo, ForExecutor
  <2>2. CardsStay /\ undoRelease' \in [OrderIds -> Executors \cup {NULL}]
    BY <1>1, <1>7, <2>1, CardsSame DEF ReleaseOffersUndo, UndoType
  <2> QED
    BY <1>1, <1>7, <2>2, TasksKeep, StatesSame, RowCardsKeep
       DEF ReleaseOffersUndo, End, Typed, CardsStay, UndoType, dbVars
<1>8. ASSUME NEW t \in tasks, ReclaimRemovesCard(t)
      PROVE  Typed' /\ [DB!Next]_dbVars
  <2>1. t.order \in OrderIds /\ t.exec \in Executors
    BY <1>1, <1>8 DEF ReclaimRemovesCard, ForExecutor
  <2> QED
    BY <1>1, <1>8, <2>1, RemoverTyped DEF ReclaimRemovesCard, End, Keys, UndoType
<1> QED
  BY <1>3, <1>4, <1>5, <1>6, <1>7, <1>8 DEF Releasing

\* Completion and its undo, from either button.
LEMMA CompletingTyped ==
  ASSUME RowsFit, Typed, Completing
  PROVE  Typed' /\ [DB!Next]_dbVars
<1>1. /\ CardsType /\ StatesType /\ RowCards /\ UndoType /\ TasksFit /\ DB!TypeOK
      /\ \A t \in tasks : t.order \in OrderIds /\ (t.kind \in ForExecutor => t.exec \in Executors)
  BY DEF Typed, RowsFit, TasksFit, Fit, Task
<1>2. ASSUME NEW e \in Executors, NEW o \in OrderIds, Complete(e, o)
      PROVE  Typed' /\ [DB!Next]_dbVars
  <2>1. \A x \in OrderIds : orders'[x].message \in {NULL, orders[x].message}
    BY <1>1, <1>2, Completes DEF Complete, Becomes
  <2>2. Fit(NewTask("completed", o, e, NULL))
    BY NewTaskFits DEF ForCard
  <2>3. DB!Next
    BY <1>2 DEF Complete, DB!Next
  <2> QED
    BY <1>2, <2>1, <2>2, <2>3, OnlyRows DEF Complete, Start
<1>3. ASSUME NEW u \in [OrderIds -> Executors \cup {NULL}], undoComplete' = u,
             UNCHANGED <<dbVars, cards, states, dismissed, undoRelease, offered>>,
             \A v \in tasks' : v \in tasks \/ Fit(v)
      PROVE  Typed' /\ [DB!Next]_dbVars
  <2>1. CardsStay
    BY <1>1, <1>3, CardsSame
  <2> QED
    BY <1>1, <1>3, <2>1, TasksKeep, StatesSame, RowCardsKeep
       DEF Typed, CardsStay, UndoType, dbVars
<1>4. ASSUME NEW e \in Executors, NEW o \in OrderIds, UndoComplete(e, o)
      PROVE  Typed' /\ [DB!Next]_dbVars
  <2>1. /\ [undoComplete EXCEPT ![o] = NULL] \in [OrderIds -> Executors \cup {NULL}]
        /\ Fit(NewTask("restore", o, e, NULL))
    BY <1>1, NewTaskFits DEF UndoType, ForCard
  <2> QED
    BY <1>3, <1>4, <2>1 DEF UndoComplete, Start
<1>5. ASSUME NEW t \in tasks, Restore(t) \/ RestoreFails(t)
      PROVE  Typed' /\ [DB!Next]_dbVars
  <2>1. CASE Restore(t)
    <3>1. t.order \in OrderIds /\ t.exec \in Executors
      BY <1>1, <2>1 DEF Restore, ForExecutor
    <3>2. \A x \in OrderIds : orders'[x].message \in {NULL, orders[x].message}
      BY <1>1, <2>1, <3>1, Restores DEF Restore, Becomes
    <3>3. DB!Next
      BY <2>1, <3>1 DEF Restore, DB!Next
    <3> QED
      BY <2>1, <3>2, <3>3, OnlyRows DEF Restore, End
  <2>2. CASE RestoreFails(t)
    BY <2>2, OnlyRows DEF RestoreFails, End, dbVars
  <2> QED
    BY <1>5, <2>1, <2>2
<1>6. ASSUME NEW t \in tasks, CompleteOffersUndo(t)
      PROVE  Typed' /\ [DB!Next]_dbVars
  <2>1. [undoComplete EXCEPT ![t.order] = t.exec] \in [OrderIds -> Executors \cup {NULL}]
    BY <1>1, <1>6 DEF CompleteOffersUndo, ForExecutor, UndoType
  <2> QED
    BY <1>3, <1>6, <2>1 DEF CompleteOffersUndo, End
<1>7. ASSUME NEW o \in OrderIds, MenuCompletion(o)
      PROVE  Typed' /\ [DB!Next]_dbVars
  <2>1. \A x \in OrderIds : orders'[x].message \in {NULL, orders[x].message}
    <3>1. CASE DB!CompleteCommit(o)
      BY <3>1, Commits DEF Becomes
    <3>2. CASE UNCHANGED orders
      BY <3>2
    <3> QED
      BY <1>7, <3>1, <3>2 DEF MenuCompletion, DB!CompleteBegin, DB!CompleteRollback
  <2>2. DB!Next
    BY <1>7 DEF MenuCompletion, DB!Next
  <2> QED
    BY <1>7, <2>1, <2>2, OnlyRows DEF MenuCompletion
<1> QED
  BY <1>2, <1>4, <1>5, <1>6, <1>7 DEF Completing

\* Cancellation by the client, in the bot and in the web application.
LEMMA CancellingTyped ==
  ASSUME RowsFit, Typed, Cancelling
  PROVE  Typed' /\ [DB!Next]_dbVars
<1>1. /\ CardsType /\ StatesType /\ RowCards /\ UndoType /\ TasksFit /\ DB!TypeOK
      /\ \A t \in tasks : t.order \in OrderIds /\ Fit(t)
      /\ \A o \in OrderIds : /\ orders[o].message \in Messages \cup {NULL}
                             /\ orders[o].message # NULL => Card(orders[o].message, o)
  BY DEF Typed, RowsFit, DB!TypeOK, DB!Row, TasksFit, Fit, Task, RowCards
<1>2. ASSUME NEW o \in OrderIds PROVE Fit(NewTask("cleanup", o, NULL, orders[o].message))
  BY <1>1, NewTaskFits DEF ForExecutor, ForCard
<1>3. ASSUME NEW o \in OrderIds, NEW kind \in {"cancelling", "reading"}
      PROVE  Fit(NewTask(kind, o, NULL, NULL))
  BY NewTaskFits DEF ForExecutor, ForCard
<1>4. ASSUME NEW o \in OrderIds, ClientCancel(o)
      PROVE  Typed' /\ [DB!Next]_dbVars
  <2>1. DB!CancelClientOrder(o, ClientOf[o]) /\ UNCHANGED <<cards, memory, offered>>
    BY <1>4 DEF ClientCancel
  <2>2. \A x \in OrderIds : orders'[x].message \in {NULL, orders[x].message}
    BY <1>1, <2>1, Cancels DEF Becomes
  <2>3. DB!Next
    BY <2>1, ChannelAssumption DEF DB!Next
  <2>4. \A u \in tasks' : u \in tasks \/ Fit(u)
    BY <1>2, <1>4 DEF ClientCancel, Start
  <2> QED
    BY <2>1, <2>2, <2>3, <2>4, OnlyRows
<1>5. ASSUME NEW o \in OrderIds, SpaCancelCheck(o)
      PROVE  Typed' /\ [DB!Next]_dbVars
  BY <1>3, <1>5, OnlyRows DEF SpaCancelCheck, Start, dbVars
<1>6. ASSUME NEW t \in tasks, SpaCancelWrite(t)
      PROVE  Typed' /\ [DB!Next]_dbVars
  <2>1. DB!MarkOrderAsCancelled(t.order) /\ UNCHANGED <<cards, memory, offered>>
    BY <1>6 DEF SpaCancelWrite
  <2>2. \A x \in OrderIds : orders'[x].message \in {NULL, orders[x].message}
    BY <1>1, <2>1, Cancels DEF Becomes
  <2>3. DB!Next
    BY <1>1, <2>1 DEF DB!Next
  <2>4. \A u \in tasks' : u \in tasks \/ Fit(u)
    BY <1>1, <1>3, <1>6 DEF SpaCancelWrite, Become
  <2> QED
    BY <2>1, <2>2, <2>3, <2>4, OnlyRows
<1>7. ASSUME NEW t \in tasks, SpaCancelRead(t)
      PROVE  Typed' /\ [DB!Next]_dbVars
  <2>1. \A u \in tasks' : u \in tasks \/ Fit(u)
    BY <1>1, <1>2, <1>7 DEF SpaCancelRead, Become, End
  <2> QED
    BY <1>7, <2>1, OnlyRows DEF SpaCancelRead, dbVars
<1>8. ASSUME NEW t \in tasks, CancelCleanup(t)
      PROVE  Typed' /\ [DB!Next]_dbVars
  <2>1. CASE RemoveOrderState("text", t.order)
    BY <1>1, <1>8, <2>1, RemoverTyped DEF CancelCleanup, End, Keys, UndoType, Typed
  <2>2. CASE /\ IF t.message = NULL THEN UNCHANGED cards ELSE TryDelete(t.message)
             /\ UNCHANGED <<states, dismissed>>
    <3>1. CardsStay
      BY <1>1, <2>2, CardsSame, DeleteFits DEF TryDelete, Fit
    <3> QED
      BY <1>1, <1>8, <2>2, <3>1, TasksKeep, StatesSame, RowCardsKeep
         DEF CancelCleanup, End, Typed, CardsStay, UndoType, dbVars
  <2> QED
    BY <1>8, <2>1, <2>2 DEF CancelCleanup
<1> QED
  BY <1>4, <1>5, <1>6, <1>7, <1>8 DEF Cancelling

\* Every step of the channel keeps the types, and is a step of the repository or none.
LEMMA TypedStep ==
  ASSUME RowsFit, Typed, [Next]_vars
  PROVE  Typed' /\ [DB!Next]_dbVars
<1>1. CardsType /\ StatesType /\ RowCards /\ UndoType /\ TasksFit /\ DB!TypeOK
  BY DEF Typed, RowsFit
<1>2. CASE UNCHANGED vars
  BY <1>2, OnlyRows DEF vars, dbVars
<1>3. ASSUME NEW o \in OrderIds, Create(o)
      PROVE  Typed' /\ [DB!Next]_dbVars
  <2>1. \A x \in OrderIds : orders'[x].message \in {NULL, orders[x].message}
    BY <1>1, <1>3, Creates DEF Create, Becomes
  <2>2. Fit(NewTask("publish", o, NULL, NULL))
    BY NewTaskFits DEF ForExecutor, ForCard
  <2>3. DB!Next
    BY <1>3 DEF Create, DB!Next
  <2> QED
    BY <1>3, <2>1, <2>2, <2>3, OnlyRows DEF Create, Start
<1>4. ASSUME NEW o \in OrderIds, UndoExpires(o)
      PROVE  Typed' /\ [DB!Next]_dbVars
  <2>1. CardsStay /\ UndoType'
    BY <1>1, <1>4, CardsSame DEF UndoExpires, UndoType
  <2> QED
    BY <1>1, <1>4, <2>1, TasksKeep, StatesSame, RowCardsKeep
       DEF UndoExpires, Typed, CardsStay, dbVars
<1>5. ASSUME NEW o \in OrderIds, Age(o)
      PROVE  Typed' /\ [DB!Next]_dbVars
  <2>1. \A x \in OrderIds : orders'[x].message \in {NULL, orders[x].message}
    BY <1>1, <1>5, Ages DEF Age, Becomes
  <2>2. DB!Next
    BY <1>5 DEF Age, DB!Next
  <2> QED
    BY <1>5, <2>1, <2>2, OnlyRows DEF Age
<1>6. CASE Expire
  <2>1. PICK S \in SUBSET {o \in OrderIds : ~Publishing(o)} : DB!ExpireStaleOrders(S)
    BY <1>6 DEF Expire
  <2>2. \A x \in OrderIds : orders'[x].message \in {NULL, orders[x].message}
    BY <1>1, <2>1, Expires
  <2>3. DB!Next
    BY <2>1 DEF DB!Next
  <2> QED
    BY <1>6, <2>2, <2>3, OnlyRows DEF Expire
<1>7. CASE Crash
  <2>1. UNCHANGED <<orders, cards, offered>> /\ DB!Next
    BY <1>7 DEF Crash, DB!Crash, DB!Next
  <2>2. CardsStay /\ RowCards'
    BY <1>1, <2>1, CardsSame, RowCardsKeep
  <2>3. StatesType' /\ UndoType' /\ TasksFit'
    BY <1>7 DEF Crash, StatesType, UndoType, TasksFit, Keys
  <2> QED
    BY <2>1, <2>2, <2>3 DEF Typed, CardsStay
<1> QED
  BY <1>2, <1>3, <1>4, <1>5, <1>6, <1>7, PublishTyped, WaitTyped, DecisionTyped,
     ReleasingTyped, CompletingTyped, CancellingTyped DEF Next

-----------------------------------------------------------------------------
(* What the channel knows in every state.                                   *)

Known == Rows /\ Typed

\* Initially there are neither orders nor handlers.
LEMMA KnownInit == Init => Known
<1> SUFFICES ASSUME Init PROVE Known
  OBVIOUS
<1>1. Rows
  BY SameInit, RepositoryAssumption, Repository!InitInv DEF Init, Rows
<1>2. \A o \in OrderIds : orders[o].message = NULL
  BY DEF Init, DB!Init
<1>3. CardsType /\ StatesType
  BY DEF Init, CardsType, StatesType, Keys
<1>4. UndoType /\ TasksFit /\ offered \subseteq OrderIds \X Executors
  BY DEF Init, UndoType, TasksFit
<1> QED
  BY <1>1, <1>2, <1>3, <1>4 DEF Known, Typed, RowCards

\* Every step keeps what is known, and is a step of the repository or none.
LEMMA KnownStep == ASSUME Known, [Next]_vars PROVE Known' /\ [DB!Next]_dbVars
<1>1. RowsFit
  BY RowsGive DEF Known
<1>2. Typed' /\ [DB!Next]_dbVars
  BY <1>1, TypedStep DEF Known
<1> QED
  BY <1>2, RowsStep DEF Known

\* The types of OrdersChannel hold in every state, and every remembered card is the
\* order's own (StatesType, RowCards, Fit).
THEOREM KnownHolds == Spec => []Known
BY KnownInit, KnownStep, PTL DEF Spec

-----------------------------------------------------------------------------
(* What the process remembers agrees with the rows.                         *)

\* A publishing transaction holds the row, whose message is still to be written.
Locking(t) == t.kind \in {"publishing", "posted", "remembered"}
Publications ==
    /\ \A t, u \in tasks : Locking(t) /\ Locking(u) /\ t.order = u.order => t = u
    /\ \A t \in tasks : Locking(t) => orders[t.order].message = NULL
    /\ \A t \in tasks : t.kind = "remembered" /\ states["text"][t.order] # NULL =>
          states["text"][t.order].message = t.message

\* A completion whose undo is to be offered, is on offer or was pressed is the only one of
\* its order, and stands.
Ending(t) == t.kind \in {"completed", "restore"}
CompletionsStand ==
    /\ \A t, u \in tasks : Ending(t) /\ Ending(u) /\ t.order = u.order => t = u
    /\ \A t \in tasks : Ending(t) =>
          /\ orders[t.order].claimedBy = t.exec
          /\ orders[t.order].status \in {"finished", "cancelled"}
          /\ undoComplete[t.order] = NULL

Agreement == /\ Publications /\ CacheAgreesWithRow
             /\ UndoCompleteMatchesRow /\ CompletionsStand

\* Most steps write no message, end no undo of a completion and start neither a
\* publishing nor a completing handler.
Harmless(u) == ~Locking(u) /\ ~Ending(u)
QuietRow(x) ==
    /\ orders'[x].message \in {NULL, orders[x].message}
    /\ orders[x].status \in {"finished", "cancelled"} =>
          /\ orders'[x].status \in {"finished", "cancelled"}
          /\ orders'[x].claimedBy = orders[x].claimedBy
QuietMemory(x) ==
    /\ states'["text"][x] \in {NULL, states["text"][x]}
    /\ undoComplete'[x] \in {NULL, undoComplete[x]}
Quiet == /\ \A x \in OrderIds : QuietRow(x) /\ QuietMemory(x)
         /\ \A u \in tasks' : u \in tasks \/ Harmless(u)

\* Such a step keeps the agreement.
LEMMA QuietAgrees == ASSUME Typed, Agreement, Quiet PROVE Agreement'
<1>0. /\ \A t \in tasks : t.order \in OrderIds
      /\ \A x \in OrderIds : QuietRow(x) /\ QuietMemory(x)
      /\ \A u \in tasks' : u \in tasks \/ Harmless(u)
  BY DEF Typed, TasksFit, Fit, Task, Quiet
<1>1. Publications'
  BY <1>0 DEF Agreement, Publications, Harmless, Locking, QuietRow, QuietMemory
<1>2. CacheAgreesWithRow'
  BY <1>0 DEF Agreement, CacheAgreesWithRow, QuietRow, QuietMemory
<1>3. UndoCompleteMatchesRow'
  BY <1>0 DEF Agreement, UndoCompleteMatchesRow, QuietRow, QuietMemory
<1>4. CompletionsStand'
  BY <1>0 DEF Agreement, CompletionsStand, QuietRow, QuietMemory, Harmless, Ending
<1> QED
  BY <1>1, <1>2, <1>3, <1>4 DEF Agreement

\* Rows that do not change are quiet.
LEMMA SameRows == ASSUME UNCHANGED orders PROVE \A x \in OrderIds : QuietRow(x)
BY DEF QuietRow

\* So is one that becomes something else, if it stays ended once it has ended.
LEMMA OneRow ==
  ASSUME NEW o \in OrderIds, NEW status, NEW by, NEW m, Becomes(o, status, by, m),
         m \in {NULL, orders[o].message},
         orders[o].status \in {"finished", "cancelled"} =>
            status \in {"finished", "cancelled"} /\ by = orders[o].claimedBy
  PROVE  \A x \in OrderIds : QuietRow(x)
BY DEF Becomes, QuietRow

\* So is the memory that no step touches.
LEMMA SameMemory == ASSUME UNCHANGED memory PROVE \A x \in OrderIds : QuietMemory(x)
BY DEF QuietMemory, memory

\* A new handler of another kind.
LEMMA NewHarmless ==
  ASSUME NEW kind, NEW o, NEW e, NEW m,
         kind \notin {"publishing", "posted", "remembered", "completed", "restore"}
  PROVE  Harmless(NewTask(kind, o, e, m))
BY DEF NewTask, Harmless, Locking, Ending

\* No publication is under way for an unlocked row.
LEMMA UnlockedAlone ==
  ASSUME NEW o, Unlocked(o)
  PROVE  \A t \in tasks : Locking(t) => t.order # o
BY DEF Unlocked, Publishing, Locking

\* What happens to a publication that ends.
LEMMA PublishEndsHarmless ==
  ASSUME NEW t \in tasks, PublishEnds(t) \/ PublishThrows(t)
  PROVE  /\ \A u \in tasks' : u \in tasks \/ Harmless(u)
         /\ \A u \in tasks' : Locking(u) => u # t
<1>1. /\ Harmless(NewTask("undoable", t.order, t.exec, NULL))
      /\ Harmless(NewTask("failed", t.order, t.exec, NULL))
  BY NewHarmless
<1> QED
  BY <1>1 DEF PublishEnds, PublishThrows, Become, End, Harmless

\* The statement that ends a publication writes the row's message, the cache has it too.
LEMMA PublishCommitAgrees ==
  ASSUME Typed, DB!TypeOK, Agreement, NEW t \in tasks, t.kind = "remembered",
         PublishEnds(t) \/ PublishThrows(t), UNCHANGED memory,
         DB!PublishOrder(t.order, t.message)
  PROVE  Agreement'
<1> DEFINE o == t.order
<1>1. o \in OrderIds /\ t.message \in Messages
  BY ChannelAssumption DEF Typed, TasksFit, Fit, Task, ForCard
<1>2. Becomes(o, IF orders[o].status = "new" THEN "open" ELSE orders[o].status,
              orders[o].claimedBy, t.message)
  BY <1>1, Publishes
<1>3. /\ orders'[o].message = t.message
      /\ \A x \in OrderIds \ {o} : orders'[x] = orders[x]
      /\ \A x \in OrderIds : /\ orders'[x].claimedBy = orders[x].claimedBy
                             /\ orders[x].status \in {"finished", "cancelled"} =>
                                   orders'[x].status = orders[x].status
  BY <1>1, <1>2 DEF Becomes
<1>4. /\ \A u \in tasks' : u \in tasks \/ Harmless(u)
      /\ \A u \in tasks' : Locking(u) => u # t
      /\ \A u \in tasks : u.order \in OrderIds
  BY PublishEndsHarmless DEF Typed, TasksFit, Fit, Task
<1>5. Publications'
  <2>1. \A u \in tasks' : Locking(u) => u \in tasks /\ u.order # o
    BY <1>4 DEF Agreement, Publications, Harmless, Locking
  <2> QED
    BY <1>3, <1>4, <2>1 DEF Agreement, Publications, Locking, memory
<1>6. CacheAgreesWithRow'
  BY <1>3 DEF Agreement, CacheAgreesWithRow, Publications, memory
<1>7. UndoCompleteMatchesRow'
  BY <1>3 DEF Agreement, UndoCompleteMatchesRow, memory
<1>8. CompletionsStand'
  BY <1>3, <1>4 DEF Agreement, CompletionsStand, Harmless, Ending, memory
<1> QED
  BY <1>5, <1>6, <1>7, <1>8 DEF Agreement

\* A publication keeps the agreement.
LEMMA PublishAgrees ==
  ASSUME Typed, DB!TypeOK, Agreement, NEW t \in tasks, Publish(t)
  PROVE  Agreement'
<1>1. t.order \in OrderIds /\ \A u \in tasks : u.order \in OrderIds
  BY DEF Typed, TasksFit, Fit, Task
<1>2. ASSUME PublishEnds(t) \/ PublishThrows(t), UNCHANGED <<dbVars, memory>>
      PROVE  Agreement'
  BY <1>2, PublishEndsHarmless, SameRows, SameMemory, QuietAgrees DEF Quiet, dbVars
<1>3. CASE PublishAlready(t)
  <2> DEFINE s == [message |-> orders[t.order].message,
                   status |-> MapOrderStatus(orders[t.order].status), rendered |-> "none"]
  <2>1. SetState("text", t.order, s) /\ s.message = orders[t.order].message
    BY <1>3 DEF PublishAlready
  <2> HIDE DEF s
  <2>2. /\ states'["text"][t.order] = s
        /\ \A x \in OrderIds \ {t.order} : states'["text"][x] = states["text"][x]
    BY <1>1, <2>1 DEF SetState, Typed, StatesType, Keys
  <2>3. /\ \A u \in tasks' : u \in tasks \/ Harmless(u)
        /\ UNCHANGED <<orders, undoComplete>>
    BY <1>3, PublishEndsHarmless DEF PublishAlready, dbVars
  <2>4. CacheAgreesWithRow'
    BY <2>1, <2>2, <2>3 DEF Agreement, CacheAgreesWithRow
  <2>5. \A u \in tasks : Locking(u) => u.order # t.order
    BY <1>3, UnlockedAlone DEF PublishAlready, GetsLock
  <2>6. Publications'
    BY <1>1, <2>2, <2>3, <2>5 DEF Agreement, Publications, Harmless, Locking
  <2>7. CompletionsStand' /\ UndoCompleteMatchesRow'
    BY <2>3 DEF Agreement, CompletionsStand, UndoCompleteMatchesRow, Harmless
  <2> QED
    BY <2>4, <2>6, <2>7 DEF Agreement
<1>4. ASSUME NEW u, u.kind \in {"publishing", "posted"}, u.order = t.order,
             Become(t, u), UNCHANGED <<orders, memory>>, orders[t.order].message = NULL,
             \A v \in tasks : Locking(v) /\ v.order = t.order => v = t
      PROVE  Agreement'
  <2>1. tasks' = (tasks \ {t}) \cup {u} /\ ~Ending(u)
    BY <1>4 DEF Become, Ending
  <2>2. Publications'
    BY <1>4, <2>1 DEF Agreement, Publications, Locking, memory
  <2>3. CompletionsStand'
    BY <1>4, <2>1 DEF Agreement, CompletionsStand, memory
  <2>4. CacheAgreesWithRow' /\ UndoCompleteMatchesRow'
    BY <1>4 DEF Agreement, CacheAgreesWithRow, UndoCompleteMatchesRow, memory
  <2> QED
    BY <2>2, <2>3, <2>4 DEF Agreement
<1>5. CASE PublishLock(t)
  <2> DEFINE u == NewTask("publishing", t.order, t.exec, NULL)
  <2>1. u.kind = "publishing" /\ u.order = t.order
    BY DEF NewTask
  <2>2. \A v \in tasks : Locking(v) => v.order # t.order
    BY <1>5, UnlockedAlone DEF PublishLock, GetsLock
  <2>3. Become(t, u)
    BY <1>5 DEF PublishLock
  <2> HIDE DEF u
  <2> QED
    BY <1>4, <1>5, <2>1, <2>2, <2>3 DEF PublishLock, dbVars
<1>6. CASE PublishSend(t)
  <2>1. PICK m \in Messages : Become(t, [t EXCEPT !.kind = "posted", !.message = m])
    BY <1>6 DEF PublishSend
  <2> DEFINE u == [t EXCEPT !.kind = "posted", !.message = m]
  <2>2. u.kind = "posted" /\ u.order = t.order /\ Become(t, u)
    BY <2>1 DEF Typed, TasksFit, Fit, Task
  <2> HIDE DEF u
  <2>3. /\ orders[t.order].message = NULL
        /\ \A v \in tasks : Locking(v) /\ v.order = t.order => v = t
    BY <1>6 DEF PublishSend, Agreement, Publications, Locking
  <2> QED
    BY <1>4, <1>6, <2>2, <2>3 DEF PublishSend, dbVars
<1>7. CASE PublishRemember(t)
  <2> DEFINE u == [t EXCEPT !.kind = "remembered"]
             s == [message |-> t.message, status |-> "pending", rendered |-> "none"]
  <2>1. /\ u.kind = "remembered" /\ u.order = t.order /\ u.message = t.message
        /\ tasks' = (tasks \ {t}) \cup {u} /\ t.kind = "posted"
    BY <1>7 DEF PublishRemember, Become, Typed, TasksFit, Fit, Task
  <2>2. SetState("text", t.order, s) /\ s.message = t.message
        /\ UNCHANGED <<orders, undoComplete>>
    BY <1>7 DEF PublishRemember, RememberPosted, dbVars
  <2> HIDE DEF u, s
  <2>3. /\ states'["text"][t.order] = s
        /\ \A x \in OrderIds \ {t.order} : states'["text"][x] = states["text"][x]
    BY <1>1, <2>2 DEF SetState, Typed, StatesType, Keys
  <2>4. /\ orders[t.order].message = NULL
        /\ \A v \in tasks : Locking(v) /\ v.order = t.order => v = t
    BY <2>1 DEF Agreement, Publications, Locking
  <2>5. Publications'
    <3>1. /\ \A v, w \in tasks' : Locking(v) /\ Locking(w) /\ v.order = w.order => v = w
          /\ \A v \in tasks' : Locking(v) => orders'[v.order].message = NULL
      BY <2>1, <2>2, <2>4 DEF Agreement, Publications, Locking
    <3>2. ASSUME NEW v \in tasks', v.kind = "remembered", states'["text"][v.order] # NULL
          PROVE  states'["text"][v.order].message = v.message
      <4>1. CASE v = u
        BY <2>1, <2>2, <2>3, <4>1
      <4>2. CASE v \in tasks /\ v.order # t.order
        BY <1>1, <2>3, <3>2, <4>2 DEF Agreement, Publications
      <4> QED
        BY <2>1, <2>4, <3>2, <4>1, <4>2 DEF Locking
    <3> QED
      BY <3>1, <3>2 DEF Publications
  <2>6. CacheAgreesWithRow'
    BY <2>2, <2>3, <2>4 DEF Agreement, CacheAgreesWithRow
  <2>7. CompletionsStand' /\ UndoCompleteMatchesRow'
    BY <2>1, <2>2 DEF Agreement, CompletionsStand, UndoCompleteMatchesRow, Ending
  <2> QED
    BY <2>5, <2>6, <2>7 DEF Agreement
<1>8. CASE PublishCommit(t) \/ PublishCommitFails(t)
  <2>1. CASE t.kind = "remembered" /\ DB!PublishOrder(t.order, t.message)
    BY <1>8, <2>1, PublishCommitAgrees DEF PublishCommit, PublishCommitFails
  <2>2. CASE UNCHANGED dbVars
    BY <1>2, <1>8, <2>2 DEF PublishCommit, PublishCommitFails
  <2> QED
    BY <1>8, <2>1, <2>2 DEF PublishCommit, PublishCommitFails
<1>9. CASE CancelUnpublished(t)
  <2>1. \A x \in OrderIds : QuietRow(x)
    BY <1>1, <1>9, Cancels, OneRow DEF CancelUnpublished
  <2> QED
    BY <1>9, <2>1, SameMemory, QuietAgrees DEF CancelUnpublished, End, Quiet
<1> QED
  BY <1>2, <1>3, <1>5, <1>6, <1>7, <1>8, <1>9
     DEF Publish, PublishMissingChannel, PublishSendFails, PublishRefused

\* A handler that waits for the lock of a row is still the one it was.
LEMMA WaitAgrees ==
  ASSUME Typed, Agreement, NEW t \in tasks, Wait(t)
  PROVE  Agreement'
<1> DEFINE u == [t EXCEPT !.seen = orders[t.order].status,
                          !.message = orders[t.order].message]
<1>1. /\ u.kind = t.kind /\ u.order = t.order /\ u.exec = t.exec
      /\ t.kind \in {"publish", "reclaim", "restore"}
      /\ tasks' = (tasks \ {t}) \cup {u}
      /\ UNCHANGED <<orders, states, undoComplete>>
  BY DEF Wait, Become, Typed, TasksFit, Fit, Task, dbVars, memory
<1> HIDE DEF u
<1>2. Publications'
  BY <1>1 DEF Agreement, Publications, Locking
<1>3. CompletionsStand'
  BY <1>1 DEF Agreement, CompletionsStand, Ending
<1>4. CacheAgreesWithRow' /\ UndoCompleteMatchesRow'
  BY <1>1 DEF Agreement, CacheAgreesWithRow, UndoCompleteMatchesRow
<1> QED
  BY <1>2, <1>3, <1>4 DEF Agreement

\* A decision records what it shows under the number key.
LEMMA RecordQuiet ==
  ASSUME Typed, NEW o \in OrderIds, NEW s, SetState("number", o, s)
  PROVE  TextKept
BY DEF SetState, TextKept, Typed, StatesType, Keys

\* So a handler that only shows something is quiet.
LEMMA ShowingAgrees ==
  ASSUME Typed, Agreement, UNCHANGED <<dbVars, undoRelease, undoComplete>>,
         \A x \in OrderIds : states'["text"][x] \in {NULL, states["text"][x]},
         \A u \in tasks' : u \in tasks \/ Harmless(u)
  PROVE  Agreement'
BY SameRows, QuietAgrees DEF Quiet, QuietMemory, dbVars

\* A decision keeps the agreement.
LEMMA DecisionAgrees ==
  ASSUME Typed, DB!TypeOK, Agreement, Decision
  PROVE  Agreement'
<1>1. /\ \A m \in Messages : Pressable(m) => cards[m].order \in OrderIds
      /\ \A t \in tasks : t.order \in OrderIds
      /\ CardsType /\ StatesType
  BY DEF Typed, Pressable, CardsType, TasksFit, Fit, Task
<1>2. ASSUME NEW e \in Executors, NEW m \in Messages, NEW kind \in Kinds,
             NEW city \in Cities, AcceptClaims(e, m, kind, city)
      PROVE  Agreement'
  <2> DEFINE o == cards[m].order
  <2>1. o \in OrderIds
    BY <1>1, <1>2 DEF AcceptClaims
  <2>2. orders[o].status = "open" /\ Becomes(o, "claimed", e, orders[o].message)
    BY <1>2, <2>1, Claims DEF AcceptClaims
  <2>3. \A x \in OrderIds : QuietRow(x)
    BY <2>1, <2>2, OneRow
  <2>4. \A u \in tasks' : u \in tasks \/ Harmless(u)
    BY <1>2, NewHarmless DEF AcceptClaims, Start
  <2> QED
    BY <1>2, <2>3, <2>4, SameMemory, QuietAgrees DEF AcceptClaims, Quiet
<1>3. ASSUME NEW e \in Executors, NEW m \in Messages, NEW o \in OrderIds, AlreadyProcessed(e, m, o)
      PROVE  Agreement'
  <2> DEFINE u == [NewTask("processed", o, e, m) EXCEPT !.seen = orders[o].status]
  <2>1. u = [kind |-> "processed", order |-> o, exec |-> e, message |-> m,
             seen |-> orders[o].status]
    BY DEF NewTask
  <2>2. Harmless(u)
    BY <2>1 DEF Harmless, Locking, Ending
  <2>3. tasks' = tasks \cup {u}
    BY <1>3 DEF AlreadyProcessed, Start
  <2> HIDE DEF u
  <2> QED
    BY <1>3, <2>2, <2>3, ShowingAgrees DEF AlreadyProcessed, memory
<1>4. ASSUME NEW e \in Executors, NEW m \in Messages, NEW kind, NEW city,
             AcceptRefused(e, m, kind, city) \/ DeclineAgain(e, m)
      PROVE  Agreement'
  <2>1. cards[m].order \in OrderIds
    BY <1>1, <1>4 DEF AcceptRefused, DeclineAgain
  <2>2. TextKept
    BY <1>4, <2>1, RecordQuiet DEF AcceptRefused, DeclineAgain
  <2> QED
    BY <1>4, <2>2, ShowingAgrees DEF AcceptRefused, DeclineAgain, TextKept
<1>5. ASSUME NEW e \in Executors, NEW m \in Messages, Decline(e, m) \/ AcceptTooLate(e, m)
      PROVE  Agreement'
  <2>1. cards[m].order \in OrderIds
    BY <1>1, <1>5 DEF Decline, AcceptTooLate
  <2>2. CASE AlreadyProcessed(e, m, cards[m].order)
    BY <1>3, <2>1, <2>2
  <2>3. CASE /\ Start(NewTask("dismissed", cards[m].order, e, m))
             /\ UNCHANGED <<dbVars, cards, memory, offered>>
    <3>1. \A u \in tasks' : u \in tasks \/ Harmless(u)
      BY <2>3, NewHarmless DEF Start
    <3> QED
      BY <2>3, <3>1, ShowingAgrees DEF memory
  <2> QED
    BY <1>5, <2>2, <2>3 DEF Decline, AcceptTooLate
<1>6. ASSUME NEW t \in tasks, ShowClaimed(t) \/ ShowProcessed(t) \/ ShowDismissed(t)
      PROVE  Agreement'
  <2>1. /\ t.order \in OrderIds /\ t.message \in Messages /\ tasks' \subseteq tasks
        /\ UNCHANGED <<dbVars, undoRelease, undoComplete>>
    BY <1>1, <1>6 DEF ShowClaimed, ShowProcessed, ShowDismissed, End, Typed, TasksFit, Fit, ForCard
  <2>2. TextKept
    <3>1. ASSUME NEW s, SetState("number", t.order, s) PROVE TextKept
      BY <2>1, <3>1, RecordQuiet
    <3>2. ASSUME NEW s, UpdateOrderMessage(t.order, s) PROVE TextKept
      BY <3>1, <3>2 DEF UpdateOrderMessage
    <3> QED
      BY <1>6, <3>1, <3>2
         DEF ShowClaimed, ShowProcessed, ShowDismissed, EnsureMessageReflectsState
  <2> QED
    BY <2>1, <2>2, ShowingAgrees DEF TextKept
<1> QED
  BY <1>2, <1>4, <1>5, <1>6 DEF Decision

\* removeOrderState forgets an entry of the cache.
LEMMA RemoveQuiet ==
  ASSUME Typed, NEW key \in Keys, NEW o \in OrderIds, RemoveOrderState(key, o)
  PROVE  \A x \in OrderIds : states'["text"][x] \in {NULL, states["text"][x]}
BY RemoveFits DEF Typed

\* A release and its undo keep the agreement.
LEMMA ReleasingAgrees ==
  ASSUME Typed, DB!TypeOK, Agreement, Releasing
  PROVE  Agreement'
<1>1. /\ \A t \in tasks : t.order \in OrderIds
      /\ \A t \in tasks : t.kind = "reclaim" => t.exec \in Executors
  BY DEF Typed, TasksFit, Fit, Task, ForExecutor
<1>2. ASSUME NEW e \in Executors, NEW o \in OrderIds, Release(e, o)
      PROVE  Agreement'
  <2>1. /\ orders[o].status \in DB!Held /\ Becomes(o, "open", NULL, NULL)
    BY <1>2, Releases DEF Release
  <2>2. \A x \in OrderIds : QuietRow(x)
    BY <2>1, OneRow DEF DB!Held
  <2>3. \A u \in tasks' : u \in tasks \/ Harmless(u)
    BY <1>2, NewHarmless DEF Release, Start
  <2> QED
    BY <1>2, <2>2, <2>3, SameMemory, QuietAgrees DEF Release, Quiet
<1>3. ASSUME NEW e \in Executors, NEW o \in OrderIds, UndoRelease(e, o)
      PROVE  Agreement'
  <2>1. \A u \in tasks' : u \in tasks \/ Harmless(u)
    BY <1>3, NewHarmless DEF UndoRelease, Start
  <2> QED
    BY <1>3, <2>1, SameRows, QuietAgrees DEF UndoRelease, QuietMemory, Quiet, dbVars
<1>4. ASSUME NEW t \in tasks, Reclaim(t)
      PROVE  Agreement'
  <2>1. /\ orders[t.order].status = "open" /\ Becomes(t.order, "claimed", t.exec, NULL)
    BY <1>1, <1>4, Reclaims DEF Reclaim
  <2>2. \A x \in OrderIds : QuietRow(x)
    BY <1>1, <2>1, OneRow
  <2>3. \A u \in tasks' : u \in tasks \/ Harmless(u)
    BY <1>4, NewHarmless DEF Reclaim, Become
  <2> QED
    BY <1>4, <2>2, <2>3, SameMemory, QuietAgrees DEF Reclaim, Quiet
<1>5. ASSUME NEW t \in tasks, ReclaimFails(t)
      PROVE  Agreement'
  BY <1>5, SameRows, SameMemory, QuietAgrees DEF ReclaimFails, End, Quiet, dbVars
<1>6. ASSUME NEW t \in tasks, ReleaseRepublish(t)
      PROVE  Agreement'
  <2>1. Harmless(NewTask("publish", t.order, t.exec, NULL))
    BY NewHarmless
  <2> QED
    BY <1>1, <1>6, <2>1, RemoveQuiet, ShowingAgrees DEF ReleaseRepublish, Become, Keys
<1>7. ASSUME NEW t \in tasks, ReleaseOffersUndo(t)
      PROVE  Agreement'
  BY <1>7, SameRows, QuietAgrees DEF ReleaseOffersUndo, QuietMemory, Quiet, dbVars, End
<1>8. ASSUME NEW t \in tasks, ReclaimRemovesCard(t)
      PROVE  Agreement'
  BY <1>1, <1>8, RemoveQuiet, ShowingAgrees DEF ReclaimRemovesCard, End, Keys
<1> QED
  BY <1>2, <1>3, <1>4, <1>5, <1>6, <1>7, <1>8 DEF Releasing

\* A completion keeps the agreement: its undo is offered while it stands, once.
LEMMA CompletingAgrees ==
  ASSUME RowsFit, Typed, Agreement, Completing
  PROVE  Agreement'
<1>1. /\ \A t \in tasks : t.order \in OrderIds /\ (Ending(t) => t.exec \in Executors)
      /\ UndoType /\ DB!TypeOK
  BY DEF Typed, TasksFit, Fit, Task, ForExecutor, RowsFit, Ending
<1>2. ASSUME NEW e \in Executors, NEW o \in OrderIds, Complete(e, o)
      PROVE  Agreement'
  <2>1. /\ orders[o].status \in DB!Held /\ orders[o].claimedBy = e
        /\ Becomes(o, "finished", e, orders[o].message)
    BY <1>1, <1>2, Completes DEF Complete, RowsFit
  <2> DEFINE u == NewTask("completed", o, e, NULL)
  <2>2. /\ u.kind = "completed" /\ u.order = o /\ u.exec = e
        /\ tasks' = tasks \cup {u} /\ UNCHANGED memory
    BY <1>2 DEF Complete, Start, NewTask
  <2> HIDE DEF u
  <2>3. undoComplete[o] = NULL /\ \A t \in tasks : Ending(t) => t.order # o
    BY <2>1 DEF Agreement, UndoCompleteMatchesRow, CompletionsStand, DB!Held
  <2>4. CompletionsStand'
    <3>1. \A t, v \in tasks' : Ending(t) /\ Ending(v) /\ t.order = v.order => t = v
      BY <2>2, <2>3 DEF Agreement, CompletionsStand
    <3>2. ASSUME NEW t \in tasks', Ending(t)
          PROVE  /\ orders'[t.order].claimedBy = t.exec
                 /\ orders'[t.order].status \in {"finished", "cancelled"}
                 /\ undoComplete'[t.order] = NULL
      <4>1. CASE t = u
        BY <2>1, <2>2, <2>3, <4>1 DEF Becomes, memory
      <4>2. CASE t \in tasks
        <5>1. orders'[t.order] = orders[t.order]
          BY <1>1, <2>1, <2>3, <3>2, <4>2 DEF Becomes
        <5> QED
          BY <2>2, <3>2, <4>2, <5>1 DEF Agreement, CompletionsStand, memory
      <4> QED
        BY <2>2, <4>1, <4>2
    <3> QED
      BY <3>1, <3>2 DEF CompletionsStand
  <2>5. Publications'
    BY <1>1, <2>1, <2>2 DEF Agreement, Publications, Locking, Becomes, memory
  <2>6. CacheAgreesWithRow'
    BY <2>1, <2>2 DEF Agreement, CacheAgreesWithRow, Becomes, memory
  <2>7. UndoCompleteMatchesRow'
    BY <2>1, <2>2, <2>3 DEF Agreement, UndoCompleteMatchesRow, Becomes, memory
  <2> QED
    BY <2>4, <2>5, <2>6, <2>7 DEF Agreement
<1>3. ASSUME NEW t \in tasks, CompleteOffersUndo(t)
      PROVE  Agreement'
  <2> DEFINE o == t.order
  <2>1. /\ o \in OrderIds /\ Ending(t) /\ t.exec \in Executors
        /\ tasks' = tasks \ {t}
        /\ undoComplete' = [undoComplete EXCEPT ![o] = t.exec]
        /\ UNCHANGED <<dbVars, cards, states, dismissed, undoRelease, offered>>
    BY <1>1, <1>3 DEF CompleteOffersUndo, End, Ending
  <2>2. /\ t.exec = orders[o].claimedBy
        /\ orders[o].status \in {"finished", "cancelled"}
        /\ \A u \in tasks' : Ending(u) => u.order # o
    BY <2>1 DEF Agreement, CompletionsStand
  <2>3. UndoCompleteMatchesRow'
    BY <1>1, <2>1, <2>2 DEF Agreement, UndoCompleteMatchesRow, UndoType, dbVars
  <2>4. CompletionsStand'
    BY <1>1, <2>1, <2>2 DEF Agreement, CompletionsStand, UndoType, dbVars
  <2>5. Publications' /\ CacheAgreesWithRow'
    BY <2>1 DEF Agreement, Publications, CacheAgreesWithRow, dbVars
  <2> QED
    BY <2>3, <2>4, <2>5 DEF Agreement
<1>4. ASSUME NEW e \in Executors, NEW o \in OrderIds, UndoComplete(e, o)
      PROVE  Agreement'
  <2> DEFINE u == NewTask("restore", o, e, NULL)
  <2>1. /\ u.kind = "restore" /\ u.order = o /\ u.exec = e /\ tasks' = tasks \cup {u}
        /\ undoComplete[o] = e /\ undoComplete' = [undoComplete EXCEPT ![o] = NULL]
        /\ UNCHANGED <<dbVars, cards, states, dismissed, undoRelease, offered>>
    BY <1>4 DEF UndoComplete, Start, NewTask
  <2> HIDE DEF u
  <2>2. /\ orders[o].claimedBy = e /\ orders[o].status \in {"finished", "cancelled"}
        /\ \A t \in tasks : Ending(t) => t.order # o
    BY <2>1, ChannelAssumption DEF Agreement, CompletionsStand, UndoCompleteMatchesRow
  <2>3. CompletionsStand'
    <3>1. \A t, v \in tasks' : Ending(t) /\ Ending(v) /\ t.order = v.order => t = v
      BY <2>1, <2>2 DEF Agreement, CompletionsStand
    <3>2. ASSUME NEW t \in tasks', Ending(t)
          PROVE  /\ orders'[t.order].claimedBy = t.exec
                 /\ orders'[t.order].status \in {"finished", "cancelled"}
                 /\ undoComplete'[t.order] = NULL
      BY <1>1, <2>1, <2>2, <3>2 DEF Agreement, CompletionsStand, UndoType, dbVars
    <3> QED
      BY <3>1, <3>2 DEF CompletionsStand
  <2>4. UndoCompleteMatchesRow'
    BY <1>1, <2>1 DEF Agreement, UndoCompleteMatchesRow, UndoType, dbVars
  <2>5. Publications' /\ CacheAgreesWithRow'
    BY <2>1 DEF Agreement, Publications, Locking, CacheAgreesWithRow, dbVars
  <2> QED
    BY <2>3, <2>4, <2>5 DEF Agreement
<1>5. ASSUME NEW t \in tasks, Restore(t)
      PROVE  Agreement'
  <2> DEFINE o == t.order
  <2>1. /\ o \in OrderIds /\ Ending(t) /\ t.exec \in Executors
        /\ tasks' = tasks \ {t} /\ UNCHANGED memory
    BY <1>1, <1>5 DEF Restore, End, Ending
  <2>2. Becomes(o, "claimed", t.exec, orders[o].message)
    BY <1>1, <1>5, <2>1, Restores DEF Restore
  <2>3. undoComplete[o] = NULL /\ \A u \in tasks' : Ending(u) => u.order # o
    BY <2>1 DEF Agreement, CompletionsStand
  <2>4. UndoCompleteMatchesRow'
    BY <2>1, <2>2, <2>3 DEF Agreement, UndoCompleteMatchesRow, Becomes, memory
  <2>5. CompletionsStand'
    BY <1>1, <2>1, <2>2, <2>3 DEF Agreement, CompletionsStand, Becomes, memory
  <2>6. Publications'
    BY <1>1, <2>1, <2>2 DEF Agreement, Publications, Becomes, memory
  <2>7. CacheAgreesWithRow'
    BY <2>1, <2>2 DEF Agreement, CacheAgreesWithRow, Becomes, memory
  <2> QED
    BY <2>4, <2>5, <2>6, <2>7 DEF Agreement
<1>6. ASSUME NEW t \in tasks, RestoreFails(t)
      PROVE  Agreement'
  BY <1>6, SameRows, SameMemory, QuietAgrees DEF RestoreFails, End, Quiet, dbVars
<1>7. ASSUME NEW o \in OrderIds, MenuCompletion(o)
      PROVE  Agreement'
  <2>1. \A x \in OrderIds : QuietRow(x)
    <3>1. CASE DB!CompleteCommit(o)
      BY <3>1, Commits, OneRow DEF DB!Held
    <3>2. CASE UNCHANGED orders
      BY <3>2, SameRows
    <3> QED
      BY <1>7, <3>1, <3>2 DEF MenuCompletion, DB!CompleteBegin, DB!CompleteRollback
  <2> QED
    BY <1>7, <2>1, SameMemory, QuietAgrees DEF MenuCompletion, Quiet
<1> QED
  BY <1>2, <1>3, <1>4, <1>5, <1>6, <1>7 DEF Completing

\* A cancellation keeps the agreement: the undo of a completion may outlive it.
LEMMA CancellingAgrees ==
  ASSUME Typed, DB!TypeOK, Agreement, Cancelling
  PROVE  Agreement'
<1>1. \A t \in tasks : t.order \in OrderIds
  BY DEF Typed, TasksFit, Fit, Task
<1>2. ASSUME NEW kind \in {"cancelling", "reading", "cleanup"}, NEW o, NEW m
      PROVE  Harmless(NewTask(kind, o, NULL, m))
  BY NewHarmless
<1>3. ASSUME NEW o \in OrderIds,
             DB!MarkOrderAsCancelled(o) \/ DB!CancelClientOrder(o, ClientOf[o])
      PROVE  \A x \in OrderIds : QuietRow(x)
  BY <1>3, Cancels, OneRow
<1>4. ASSUME NEW o \in OrderIds, ClientCancel(o)
      PROVE  Agreement'
  BY <1>2, <1>3, <1>4, SameMemory, QuietAgrees DEF ClientCancel, Start, Quiet
<1>5. ASSUME NEW o \in OrderIds, SpaCancelCheck(o)
      PROVE  Agreement'
  BY <1>2, <1>5, ShowingAgrees DEF SpaCancelCheck, Start, memory
<1>6. ASSUME NEW t \in tasks, SpaCancelWrite(t)
      PROVE  Agreement'
  BY <1>1, <1>2, <1>3, <1>6, SameMemory, QuietAgrees DEF SpaCancelWrite, Become, Quiet
<1>7. ASSUME NEW t \in tasks, SpaCancelRead(t)
      PROVE  Agreement'
  BY <1>2, <1>7, ShowingAgrees DEF SpaCancelRead, Become, End, memory
<1>8. ASSUME NEW t \in tasks, CancelCleanup(t)
      PROVE  Agreement'
  <2>1. \A x \in OrderIds : states'["text"][x] \in {NULL, states["text"][x]}
    BY <1>1, <1>8, RemoveQuiet DEF CancelCleanup, Keys
  <2> QED
    BY <1>8, <2>1, ShowingAgrees DEF CancelCleanup, End
<1> QED
  BY <1>4, <1>5, <1>6, <1>7, <1>8 DEF Cancelling

Agreed == Known /\ Agreement

\* Initially there is nothing to agree on.
LEMMA AgreedInit == Init => Agreed
<1> SUFFICES ASSUME Init PROVE Agreement
  BY KnownInit DEF Agreed
<1>1. \A o \in OrderIds : orders[o].message = NULL /\ orders[o].claimedBy = NULL
  BY DEF Init, DB!Init
<1>2. tasks = {} /\ \A o \in OrderIds : undoComplete[o] = NULL
  BY DEF Init
<1> QED
  BY <1>1, <1>2
     DEF Agreement, Publications, CacheAgreesWithRow, UndoCompleteMatchesRow,
         CompletionsStand

\* Every step keeps the agreement.
LEMMA AgreedStep == ASSUME Agreed, [Next]_vars PROVE Agreed'
<1>1. RowsFit /\ Typed /\ Agreement /\ DB!TypeOK /\ UndoType
  BY RowsGive DEF Agreed, Known, RowsFit, Typed
<1>2. SUFFICES Agreement'
  BY KnownStep DEF Agreed
<1>3. CASE UNCHANGED vars
  BY <1>1, <1>3, ShowingAgrees DEF vars, memory, dbVars
<1>4. ASSUME NEW o \in OrderIds, Create(o)
      PROVE  Agreement'
  <2>1. orders[o].status = "absent"
    BY <1>4 DEF Create, DB!CreateOrder
  <2>2. \A x \in OrderIds : QuietRow(x)
    BY <1>1, <1>4, <2>1, Creates, OneRow DEF Create
  <2>3. \A u \in tasks' : u \in tasks \/ Harmless(u)
    BY <1>4, NewHarmless DEF Create, Start
  <2> QED
    BY <1>1, <1>4, <2>2, <2>3, SameMemory, QuietAgrees DEF Create, Quiet
<1>5. ASSUME NEW o \in OrderIds, UndoExpires(o)
      PROVE  Agreement'
  <2>1. \A x \in OrderIds : QuietMemory(x)
    BY <1>1, <1>5 DEF UndoExpires, QuietMemory, UndoType
  <2> QED
    BY <1>1, <1>5, <2>1, SameRows, QuietAgrees DEF UndoExpires, Quiet, dbVars
<1>6. ASSUME NEW o \in OrderIds, Age(o)
      PROVE  Agreement'
  <2>1. \A x \in OrderIds : QuietRow(x)
    BY <1>1, <1>6, Ages, OneRow DEF Age
  <2> QED
    BY <1>1, <1>6, <2>1, SameMemory, QuietAgrees DEF Age, Quiet
<1>7. CASE Expire
  <2>1. PICK S : DB!ExpireStaleOrders(S)
    BY <1>7 DEF Expire
  <2>2. \A x \in OrderIds : QuietRow(x)
    BY <1>1, <2>1, Expires DEF QuietRow
  <2> QED
    BY <1>1, <1>7, <2>2, SameMemory, QuietAgrees DEF Expire, Quiet
<1>8. CASE Crash
  <2>1. UNCHANGED orders /\ tasks' = {}
    BY <1>8 DEF Crash, DB!Crash
  <2>2. \A x \in OrderIds : QuietMemory(x)
    BY <1>8, ChannelAssumption DEF Crash, QuietMemory, Keys
  <2> QED
    BY <1>1, <2>1, <2>2, SameRows, QuietAgrees DEF Quiet
<1> QED
  BY <1>1, <1>3, <1>4, <1>5, <1>6, <1>7, <1>8, PublishAgrees, WaitAgrees, DecisionAgrees,
     ReleasingAgrees, CompletingAgrees, CancellingAgrees DEF Next

\* What the channel remembers agrees with the rows, with all that makes it so.
THEOREM AgreedHolds == Spec => []Agreed
BY AgreedInit, AgreedStep, PTL DEF Spec

\* The maps of ordersChannel.ts agree with the rows: a card remembered by publishing is
\* the row's (ensureOrderState, removeOrderState), and an undo of a completion on offer
\* concerns a completion that stands, by the executor to whom it is offered.
THEOREM MemoryAgreesHolds == Spec => []MemoryAgrees
<1>1. Agreed => MemoryAgrees
  BY RowsGive, TypedGives DEF Agreed, Known, Agreement, MemoryAgrees
<1> QED
  BY <1>1, AgreedHolds, PTL

\* Of the four statements that write a row's message, none leaves the cache with another.
THEOREM CacheAgreesHolds == Spec => []CacheAgreesWithRow
<1>1. Agreed => CacheAgreesWithRow
  BY DEF Agreed, Agreement
<1> QED
  BY <1>1, AgreedHolds, PTL

-----------------------------------------------------------------------------
(* Handlers one at a time: an open order keeps its card.                    *)

Shown == \A o \in OrderIds :
    (orders[o].status = "open" /\ orders[o].message # NULL) =>
        cards[orders[o].message].face # "gone"

\* What the one handler in flight still knows of the row it looked at.
Facts(t) ==
    /\ t.kind \in {"posted", "remembered"} => cards[t.message].face # "gone"
    /\ t.kind = "claimed" => orders[t.order].status \notin {"new", "open"}
    /\ t.kind = "processed" /\ MapOrderStatus(t.seen) = "claimed" =>
          orders[t.order].status \notin {"new", "open"}
    /\ t.kind \in {"released", "reclaimed"} => orders[t.order].message = NULL
    /\ t.kind = "cleanup" => orders[t.order].status = "cancelled"

Single == \A t, u \in tasks : t = u

Cautious == Single /\ Shown /\ \A t \in tasks : Facts(t)

Alone == Agreed /\ Cautious

\* A handler starts when no other is in flight.
LEMMA StartAlone ==
  ASSUME MaxTasks = 1, Single, NEW u, Start(u)
  PROVE  tasks = {} /\ tasks' = {u}
<1>1. ASSUME NEW t \in tasks PROVE FALSE
  <2>1. tasks = {t}
    BY DEF Single
  <2>2. Cardinality(tasks) = 1
    BY <2>1, FS_Singleton
  <2> QED
    BY <2>2 DEF Start
<1> QED
  BY <1>1 DEF Start

\* No card is withdrawn, but cards of order o.
WithdrawnOnly(o) == \A m \in Messages :
    cards'[m].face = "gone" => cards[m].face = "gone" \/ cards[m].order = o
NoneWithdrawn == \A m \in Messages : cards'[m].face = "gone" => cards[m].face = "gone"

\* Rows that do not open keep their cards.
LEMMA ShownKeeps ==
  ASSUME Agreed, Shown, NoneWithdrawn,
         \A x \in OrderIds : orders'[x].status = "open" /\ orders'[x].message # NULL =>
            orders[x].status = "open" /\ orders'[x].message = orders[x].message
  PROVE  Shown'
<1>1. \A x \in OrderIds : orders[x].message # NULL => orders[x].message \in Messages
  BY DEF Agreed, Known, Typed, RowCards, Card
<1> QED
  BY <1>1 DEF Shown, NoneWithdrawn

\* Withdrawing the cards of an order that is not open, or names no card.
LEMMA ShownWithout ==
  ASSUME Agreed, Shown, NEW o \in OrderIds, WithdrawnOnly(o), UNCHANGED orders,
         ~(orders[o].status = "open" /\ orders[o].message # NULL)
  PROVE  Shown'
<1>1. \A x \in OrderIds : orders[x].message # NULL =>
         orders[x].message \in Messages /\ cards[orders[x].message].order = x
  BY DEF Agreed, Known, Typed, RowCards, Card
<1> QED
  BY <1>1 DEF Shown, WithdrawnOnly

\* Steps beside the handler: no row opens, forgets its cancellation or gets a message.
LEMMA BesideAlone ==
  ASSUME Alone, UNCHANGED tasks, UNCHANGED cards,
         \A x \in OrderIds :
            /\ orders'[x].message = orders[x].message
            /\ orders'[x].status \in {"new", "open"} => orders'[x].status = orders[x].status
            /\ orders[x].status = "cancelled" => orders'[x].status = "cancelled"
  PROVE  Cautious'
<1>1. \A t \in tasks : t.order \in OrderIds
  BY DEF Alone, Agreed, Known, Typed, TasksFit, Fit, Task
<1>2. Shown'
  BY ShownKeeps DEF Alone, Cautious, NoneWithdrawn
<1>3. ASSUME NEW t \in tasks PROVE Facts(t)'
  BY <1>1 DEF Alone, Cautious, Facts
<1> QED
  BY <1>2, <1>3 DEF Alone, Cautious, Single

\* updateOrderMessage withdraws the order's own card, and only when it is claimed.
LEMMA UpdateWithdraws ==
  ASSUME CardsType, NEW o \in OrderIds, NEW s \in State, Card(s.message, o),
         UpdateOrderMessage(o, s)
  PROVE  WithdrawnOnly(o) /\ (s.status # "claimed" => NoneWithdrawn)
<1>1. s.message \in Messages
  BY DEF State
<1>2. CASE s.status = "claimed" /\ Delete(s.message)
  BY <1>1, <1>2 DEF CardsType, Card, Delete, WithdrawnOnly
<1>3. CASE Strip(s.message)
  BY <1>1, <1>3 DEF CardsType, Strip, WithdrawnOnly, NoneWithdrawn
<1>4. CASE UNCHANGED cards
  BY <1>4 DEF WithdrawnOnly, NoneWithdrawn
<1> QED
  BY <1>2, <1>3, <1>4 DEF UpdateOrderMessage

\* So does removeOrderState.
LEMMA RemoveWithdraws ==
  ASSUME CardsType, StatesType, NEW key \in Keys, NEW o \in OrderIds, RemoveOrderState(key, o)
  PROVE  WithdrawnOnly(o)
<1>1. CASE UNCHANGED cards
  BY <1>1 DEF WithdrawnOnly
<1>2. CASE states[key][o] # NULL /\ Delete(states[key][o].message)
  <2>1. Card(states[key][o].message, o)
    BY <1>2 DEF StatesType
  <2> QED
    BY <1>2, <2>1 DEF CardsType, Card, Delete, WithdrawnOnly
<1> QED
  BY <1>1, <1>2 DEF RemoveOrderState, TryDelete

\* The handler goes on as another, or ends.
LEMMA GoesOn ==
  ASSUME Shown', NEW u, tasks' \subseteq {u}, u \in tasks' => Facts(u)' PROVE Cautious'
BY DEF Cautious, Single

\* A kind of handler that knows nothing of the row.
LEMMA KnowsNothing ==
  ASSUME NEW kind \in {"publish", "publishing", "failed", "undoable", "dismissed", "reclaim",
                       "completed", "restore", "cancelling", "reading"},
         NEW o, NEW e, NEW m
  PROVE  Facts(NewTask(kind, o, e, m))'
BY DEF Facts, NewTask

\* A publication names a card that has just been sent.
LEMMA PublishAlone ==
  ASSUME Alone, NEW t \in tasks, Publish(t)
  PROVE  Cautious'
<1>1. /\ DB!TypeOK /\ CardsType /\ tasks = {t} /\ Facts(t) /\ Agreed /\ Shown
      /\ t.order \in OrderIds /\ Fit(t)
  BY RowsGive DEF Alone, Cautious, Agreed, Known, RowsFit, Typed, TasksFit, Fit, Task, Single
<1>2. ASSUME PublishEnds(t) \/ PublishThrows(t), Shown' PROVE Cautious'
  <2>1. /\ Facts(NewTask("undoable", t.order, t.exec, NULL))'
        /\ Facts(NewTask("failed", t.order, t.exec, NULL))'
    BY KnowsNothing
  <2> QED
    BY <1>1, <1>2, <2>1, GoesOn DEF PublishEnds, PublishThrows, Become, End
<1>3. ASSUME UNCHANGED <<orders, cards>> PROVE Shown'
  BY <1>1, <1>3 DEF Shown
<1>4. CASE \/ PublishMissingChannel(t) \/ PublishAlready(t) \/ PublishSendFails(t)
           \/ PublishRefused(t)
  BY <1>2, <1>3, <1>4
     DEF PublishMissingChannel, PublishAlready, PublishSendFails, PublishRefused, dbVars
<1>5. CASE PublishLock(t)
  <2>1. tasks' = {NewTask("publishing", t.order, t.exec, NULL)}
    BY <1>1, <1>5 DEF PublishLock, Become
  <2> QED
    BY <1>3, <1>5, <2>1, KnowsNothing, GoesOn DEF PublishLock, dbVars
<1>6. CASE PublishSend(t)
  <2>1. PICK m \in Messages :
          /\ cards[m].face = "unused"
          /\ cards' = [cards EXCEPT ![m] = [order |-> t.order, face |-> "live"]]
          /\ Become(t, [t EXCEPT !.kind = "posted", !.message = m])
    BY <1>6 DEF PublishSend
  <2> DEFINE u == [t EXCEPT !.kind = "posted", !.message = m]
  <2>2. u.kind = "posted" /\ u.message = m
    BY <1>1 DEF Fit, Task
  <2>3. cards'[m].face = "live" /\ NoneWithdrawn
    BY <1>1, <2>1 DEF CardsType, NoneWithdrawn
  <2>4. Facts(u)'
    BY <2>2, <2>3 DEF Facts
  <2>5. tasks' = {u}
    BY <1>1, <2>1 DEF Become
  <2> HIDE DEF u
  <2>6. Shown'
    BY <1>1, <1>6, <2>3, ShownKeeps DEF PublishSend, dbVars
  <2> QED
    BY <2>4, <2>5, <2>6, GoesOn
<1>7. CASE PublishCommit(t) \/ PublishCommitFails(t)
  <2>1. /\ t.message \in Messages /\ cards[t.message].face # "gone" /\ UNCHANGED cards
    BY <1>1, <1>7 DEF PublishCommit, PublishCommitFails, Fit, ForCard, Facts
  <2>2. CASE DB!PublishOrder(t.order, t.message)
    <3>1. /\ orders'[t.order].message = t.message
          /\ \A x \in OrderIds \ {t.order} : orders'[x] = orders[x]
      BY <1>1, <2>1, <2>2, Publishes DEF Becomes
    <3>2. Shown'
      BY <1>1, <2>1, <3>1 DEF Shown
    <3> QED
      BY <1>2, <1>7, <3>2 DEF PublishCommit, PublishCommitFails
  <2> QED
    BY <1>2, <1>3, <1>7, <2>1, <2>2 DEF PublishCommit, PublishCommitFails, dbVars
<1>8. CASE PublishRemember(t)
  <2> DEFINE u == [t EXCEPT !.kind = "remembered"]
  <2>1. u.kind = "remembered" /\ u.message = t.message /\ t.kind = "posted"
    BY <1>1, <1>8 DEF PublishRemember, Fit, Task
  <2>2. tasks' = {u} /\ UNCHANGED <<orders, cards>>
    BY <1>1, <1>8 DEF PublishRemember, Become, dbVars
  <2> HIDE DEF u
  <2>3. Facts(u)'
    BY <1>1, <2>1, <2>2 DEF Facts
  <2> QED
    BY <1>3, <2>2, <2>3, GoesOn
<1>9. CASE CancelUnpublished(t)
  <2>1. Becomes(t.order, "cancelled", orders[t.order].claimedBy, orders[t.order].message)
    BY <1>1, <1>9, Cancels DEF CancelUnpublished
  <2>2. NoneWithdrawn
    BY <1>9 DEF CancelUnpublished, NoneWithdrawn
  <2>3. Shown'
    BY <1>1, <2>1, <2>2, ShownKeeps DEF Becomes
  <2>4. tasks' = {}
    BY <1>1, <1>9 DEF CancelUnpublished, End
  <2> QED
    BY <2>3, <2>4, GoesOn
<1> QED
  BY <1>4, <1>5, <1>6, <1>7, <1>8, <1>9 DEF Publish

\* A handler that waits for the lock of a row counts on nothing.
LEMMA WaitAlone ==
  ASSUME Alone, NEW t \in tasks, Wait(t)
  PROVE  Cautious'
<1>1. Shown /\ tasks = {t} /\ t \in Task
  BY DEF Alone, Cautious, Single, Agreed, Known, Typed, TasksFit, Fit
<1>2. PICK u : u = [t EXCEPT !.seen = orders[t.order].status,
                             !.message = orders[t.order].message]
  OBVIOUS
<1>3. u.kind \in {"publish", "reclaim", "restore"}
  BY <1>1, <1>2 DEF Wait, Task
<1>4. tasks' = {u} /\ UNCHANGED <<orders, cards>>
  BY <1>1, <1>2 DEF Wait, Become, dbVars
<1>5. Facts(u)'
  BY <1>3 DEF Facts
<1> QED
  BY <1>1, <1>4, <1>5, GoesOn DEF Shown

\* A decision withdraws the card of an order that is not open any more.
LEMMA DecisionAlone ==
  ASSUME MaxTasks = 1, Alone, Decision
  PROVE  Cautious'
<1>1. /\ DB!TypeOK /\ CardsType /\ StatesType /\ Agreed /\ Shown /\ Single
      /\ \A t \in tasks : t.order \in OrderIds /\ Fit(t) /\ Facts(t)
      /\ \A m \in Messages : Pressable(m) => cards[m].order \in OrderIds
  BY RowsGive
     DEF Alone, Cautious, Agreed, Known, RowsFit, Typed, TasksFit, Fit, Task, Pressable, CardsType
<1>2. ASSUME UNCHANGED <<orders, cards>> PROVE Shown'
  BY <1>1, <1>2 DEF Shown
<1>3. ASSUME NEW e \in Executors, NEW m \in Messages, NEW kind \in Kinds,
             NEW city \in Cities, AcceptClaims(e, m, kind, city)
      PROVE  Cautious'
  <2>1. PICK o \in OrderIds : o = cards[m].order
    BY <1>1, <1>3 DEF AcceptClaims
  <2> DEFINE u == NewTask("claimed", o, e, m)
  <2>2. Becomes(o, "claimed", e, orders[o].message)
    BY <1>1, <1>3, <2>1, Claims DEF AcceptClaims
  <2>3. Shown'
    BY <1>1, <1>3, <2>2, ShownKeeps DEF AcceptClaims, NoneWithdrawn, Becomes
  <2>4. tasks' = {u}
    BY <1>1, <1>3, <2>1, StartAlone DEF AcceptClaims
  <2>5. Facts(u)'
    BY <2>2 DEF Facts, NewTask, Becomes
  <2> HIDE DEF u
  <2> QED
    BY <2>3, <2>4, <2>5, GoesOn
<1>4. ASSUME NEW e \in Executors, NEW m \in Messages, NEW o \in OrderIds,
             AlreadyProcessed(e, m, o)
      PROVE  Cautious'
  <2>1. PICK st : st = orders[o].status
    OBVIOUS
  <2> DEFINE u == [NewTask("processed", o, e, m) EXCEPT !.seen = st]
  <2>2. u = [kind |-> "processed", order |-> o, exec |-> e, message |-> m, seen |-> st]
    BY DEF NewTask
  <2>3. MapOrderStatus(st) = "claimed" => st \notin {"new", "open"}
    BY DEF MapOrderStatus
  <2>4. UNCHANGED <<orders, cards>>
    BY <1>4 DEF AlreadyProcessed, dbVars
  <2>5. Facts(u)'
    BY <2>1, <2>2, <2>3, <2>4 DEF Facts
  <2>6. tasks' = {u}
    BY <1>1, <1>4, <2>1, StartAlone DEF AlreadyProcessed
  <2> HIDE DEF u
  <2> QED
    BY <1>2, <2>4, <2>5, <2>6, GoesOn
<1>5. ASSUME NEW e \in Executors, NEW m \in Messages, NEW kind, NEW city,
             AcceptRefused(e, m, kind, city) \/ DeclineAgain(e, m)
      PROVE  Cautious'
  BY <1>5, BesideAlone DEF AcceptRefused, DeclineAgain, dbVars
<1>6. ASSUME NEW e \in Executors, NEW m \in Messages, Decline(e, m) \/ AcceptTooLate(e, m)
      PROVE  Cautious'
  <2>1. PICK o \in OrderIds : o = cards[m].order
    BY <1>1, <1>6 DEF Decline, AcceptTooLate
  <2>2. CASE AlreadyProcessed(e, m, o)
    BY <1>4, <2>2
  <2>3. CASE Start(NewTask("dismissed", o, e, m)) /\ UNCHANGED <<dbVars, cards, memory, offered>>
    <3>1. tasks' = {NewTask("dismissed", o, e, m)}
      BY <1>1, <2>3, StartAlone
    <3> QED
      BY <1>2, <2>3, <3>1, KnowsNothing, GoesOn DEF dbVars
  <2> QED
    BY <1>6, <2>1, <2>2, <2>3 DEF Decline, AcceptTooLate
<1>7. ASSUME NEW t \in tasks, ShowClaimed(t) \/ ShowProcessed(t) \/ ShowDismissed(t)
      PROVE  Cautious'
  <2>1. /\ t.order \in OrderIds /\ t.message \in Messages /\ Card(t.message, t.order)
        /\ tasks' = {} /\ UNCHANGED orders
    BY <1>1, <1>7, ChannelAssumption DEF ShowClaimed, ShowProcessed, ShowDismissed, End, dbVars,
       Fit, ForCard, Single
  <2>2. SUFFICES Shown'
    BY <2>1, GoesOn
  <2>3. ASSUME NEW st, UpdateOrderMessage(t.order, EnsureState(t.order, t.message, st)),
               MapOrderStatus(st) = "claimed" => orders[t.order].status # "open"
        PROVE  Shown'
    <3> DEFINE s == EnsureState(t.order, t.message, st)
    <3>1. s \in State /\ s.message = t.message /\ s.status = MapOrderStatus(st)
      BY <1>1, <2>1, EnsureFits
    <3> HIDE DEF s
    <3>2. WithdrawnOnly(t.order) /\ (s.status # "claimed" => NoneWithdrawn)
      BY <1>1, <2>1, <2>3, <3>1, UpdateWithdraws DEF s
    <3>3. CASE s.status = "claimed"
      BY <1>1, <2>1, <2>3, <3>1, <3>2, <3>3, ShownWithout
    <3>4. CASE s.status # "claimed"
      BY <1>1, <2>1, <3>2, <3>4, ShownKeeps
    <3> QED
      BY <3>3, <3>4
  <2>4. CASE ShowClaimed(t)
    BY <1>1, <2>3, <2>4 DEF ShowClaimed, Facts
  <2>5. CASE ShowProcessed(t)
    BY <1>1, <1>2, <2>1, <2>3, <2>5 DEF ShowProcessed, Facts, EnsureMessageReflectsState
  <2>6. CASE ShowDismissed(t)
    <3>1. NoneWithdrawn
      BY <1>1, <2>1, <2>6 DEF ShowDismissed, Strip, CardsType, NoneWithdrawn
    <3> QED
      BY <1>1, <2>1, <3>1, ShownKeeps
  <2> QED
    BY <1>7, <2>4, <2>5, <2>6
<1> QED
  BY <1>3, <1>5, <1>6, <1>7 DEF Decision

\* A release withdraws the old card when the row has forgotten it.
LEMMA ReleasingAlone ==
  ASSUME MaxTasks = 1, Alone, Releasing
  PROVE  Cautious'
<1>1. /\ DB!TypeOK /\ CardsType /\ StatesType /\ Agreed /\ Shown /\ Single
      /\ \A t \in tasks : t.order \in OrderIds /\ Facts(t) /\ Fit(t)
  BY RowsGive DEF Alone, Cautious, Agreed, Known, RowsFit, Typed, TasksFit, Fit, Task
<1>2. ASSUME NEW e \in Executors, NEW o \in OrderIds, Release(e, o)
      PROVE  Cautious'
  <2>1. Becomes(o, "open", NULL, NULL)
    BY <1>1, <1>2, Releases DEF Release
  <2>2. Shown'
    BY <1>1, <1>2, <2>1, ShownKeeps DEF Release, NoneWithdrawn, Becomes
  <2>3. tasks' = {NewTask("released", o, e, NULL)}
    BY <1>1, <1>2, StartAlone DEF Release
  <2>4. Facts(NewTask("released", o, e, NULL))'
    BY <2>1 DEF Facts, NewTask, Becomes
  <2> QED
    BY <2>2, <2>3, <2>4, GoesOn
<1>3. ASSUME NEW e \in Executors, NEW o \in OrderIds, UndoRelease(e, o)
      PROVE  Cautious'
  <2>1. tasks' = {NewTask("reclaim", o, e, NULL)} /\ UNCHANGED <<orders, cards>>
    BY <1>1, <1>3, StartAlone DEF UndoRelease, dbVars
  <2> QED
    BY <1>1, <2>1, KnowsNothing, GoesOn DEF Shown
<1>4. ASSUME NEW t \in tasks, ReleaseRepublish(t) \/ ReclaimRemovesCard(t)
      PROVE  Cautious'
  <2>1. /\ t.order \in OrderIds /\ orders[t.order].message = NULL
        /\ RemoveOrderState("number", t.order) /\ UNCHANGED orders
    BY <1>1, <1>4 DEF ReleaseRepublish, ReclaimRemovesCard, Facts, dbVars
  <2>2. Shown'
    BY <1>1, <2>1, RemoveWithdraws, ShownWithout DEF Keys
  <2>3. tasks' \subseteq {NewTask("publish", t.order, t.exec, NULL)}
    BY <1>1, <1>4 DEF ReleaseRepublish, ReclaimRemovesCard, Become, End, Single
  <2> QED
    BY <2>2, <2>3, KnowsNothing, GoesOn
<1>5. ASSUME NEW t \in tasks, ReleaseOffersUndo(t) \/ ReclaimFails(t)
      PROVE  Cautious'
  <2>1. tasks' = {} /\ UNCHANGED <<orders, cards>>
    BY <1>1, <1>5 DEF ReleaseOffersUndo, ReclaimFails, End, Single, dbVars
  <2> QED
    BY <1>1, <2>1, GoesOn DEF Shown
<1>6. ASSUME NEW t \in tasks, Reclaim(t)
      PROVE  Cautious'
  <2>1. t.order \in OrderIds /\ t.exec \in Executors
    BY <1>1, <1>6 DEF Reclaim, ForExecutor, Fit
  <2>2. Becomes(t.order, "claimed", t.exec, NULL)
    BY <1>1, <1>6, <2>1, Reclaims DEF Reclaim
  <2>3. Shown'
    BY <1>1, <1>6, <2>1, <2>2, ShownKeeps DEF Reclaim, NoneWithdrawn, Becomes
  <2>4. tasks' = {NewTask("reclaimed", t.order, t.exec, NULL)}
    BY <1>1, <1>6 DEF Reclaim, Become, Single
  <2>5. Facts(NewTask("reclaimed", t.order, t.exec, NULL))'
    BY <2>2 DEF Facts, NewTask, Becomes
  <2> QED
    BY <2>3, <2>4, <2>5, GoesOn
<1> QED
  BY <1>2, <1>3, <1>4, <1>5, <1>6 DEF Releasing

\* A completion touches no card.
LEMMA CompletingAlone ==
  ASSUME MaxTasks = 1, Alone, Completing
  PROVE  Cautious'
<1>1. /\ RowsFit /\ DB!TypeOK /\ Agreed /\ Shown /\ Single
      /\ \A t \in tasks : t.order \in OrderIds /\ Fit(t)
  BY RowsGive DEF Alone, Cautious, Agreed, Known, RowsFit, Typed, TasksFit, Fit, Task
<1>2. ASSUME NEW e \in Executors, NEW o \in OrderIds, Complete(e, o)
      PROVE  Cautious'
  <2>1. Becomes(o, "finished", e, orders[o].message)
    BY <1>1, <1>2, Completes DEF Complete
  <2>2. Shown'
    BY <1>1, <1>2, <2>1, ShownKeeps DEF Complete, NoneWithdrawn, Becomes
  <2>3. tasks' = {NewTask("completed", o, e, NULL)}
    BY <1>1, <1>2, StartAlone DEF Complete
  <2> QED
    BY <2>2, <2>3, KnowsNothing, GoesOn
<1>3. ASSUME NEW e \in Executors, NEW o \in OrderIds, UndoComplete(e, o)
      PROVE  Cautious'
  <2>1. tasks' = {NewTask("restore", o, e, NULL)} /\ UNCHANGED <<orders, cards>>
    BY <1>1, <1>3, StartAlone DEF UndoComplete, dbVars
  <2> QED
    BY <1>1, <2>1, KnowsNothing, GoesOn DEF Shown
<1>4. ASSUME NEW t \in tasks, Restore(t)
      PROVE  Cautious'
  <2>1. t.order \in OrderIds /\ t.exec \in Executors
    BY <1>1, <1>4 DEF Restore, ForExecutor, Fit
  <2>2. Becomes(t.order, "claimed", t.exec, orders[t.order].message)
    BY <1>1, <1>4, <2>1, Restores DEF Restore
  <2>3. Shown'
    BY <1>1, <1>4, <2>1, <2>2, ShownKeeps DEF Restore, NoneWithdrawn, Becomes
  <2>4. tasks' = {}
    BY <1>1, <1>4 DEF Restore, End, Single
  <2> QED
    BY <2>3, <2>4, GoesOn
<1>5. ASSUME NEW t \in tasks, CompleteOffersUndo(t) \/ RestoreFails(t)
      PROVE  Cautious'
  <2>1. tasks' = {} /\ UNCHANGED <<orders, cards>>
    BY <1>1, <1>5 DEF CompleteOffersUndo, RestoreFails, End, Single, dbVars
  <2> QED
    BY <1>1, <2>1, GoesOn DEF Shown
<1>6. ASSUME NEW o \in OrderIds, MenuCompletion(o)
      PROVE  Cautious'
  <2>1. CASE DB!CompleteCommit(o)
    BY <1>1, <1>6, <2>1, Commits, BesideAlone DEF MenuCompletion, Becomes, DB!Held
  <2>2. CASE UNCHANGED orders
    BY <1>6, <2>2, BesideAlone DEF MenuCompletion
  <2> QED
    BY <1>6, <2>1, <2>2 DEF MenuCompletion, DB!CompleteBegin, DB!CompleteRollback
<1> QED
  BY <1>2, <1>3, <1>4, <1>5, <1>6 DEF Completing

\* A cancellation withdraws the card of an order that stays cancelled.
LEMMA CancellingAlone ==
  ASSUME MaxTasks = 1, Alone, Cancelling
  PROVE  Cautious'
<1>1. /\ DB!TypeOK /\ CardsType /\ StatesType /\ Agreed /\ Shown /\ Single
      /\ \A t \in tasks : t.order \in OrderIds /\ Fit(t) /\ Facts(t)
  BY RowsGive DEF Alone, Cautious, Agreed, Known, RowsFit, Typed, TasksFit, Fit, Task
<1>2. ASSUME NEW o \in OrderIds, UNCHANGED cards,
             DB!MarkOrderAsCancelled(o) \/ DB!CancelClientOrder(o, ClientOf[o])
      PROVE  Shown' /\ orders'[o].status = "cancelled"
  <2>1. Becomes(o, "cancelled", orders[o].claimedBy, orders[o].message)
    BY <1>1, <1>2, Cancels
  <2> QED
    BY <1>1, <1>2, <2>1, ShownKeeps DEF NoneWithdrawn, Becomes
<1>3. ASSUME UNCHANGED <<orders, cards>> PROVE Shown'
  BY <1>1, <1>3 DEF Shown
<1>4. ASSUME NEW o \in OrderIds, ClientCancel(o)
      PROVE  Cautious'
  <2>1. PICK m : m = orders[o].message
    OBVIOUS
  <2>2. tasks' = {NewTask("cleanup", o, NULL, m)}
    BY <1>1, <1>4, <2>1, StartAlone DEF ClientCancel
  <2>3. Shown' /\ orders'[o].status = "cancelled"
    BY <1>2, <1>4 DEF ClientCancel
  <2>4. Facts(NewTask("cleanup", o, NULL, m))'
    BY <2>3 DEF Facts, NewTask
  <2> QED
    BY <2>2, <2>3, <2>4, GoesOn
<1>5. ASSUME NEW o \in OrderIds, SpaCancelCheck(o)
      PROVE  Cautious'
  <2>1. tasks' = {NewTask("cancelling", o, NULL, NULL)} /\ UNCHANGED <<orders, cards>>
    BY <1>1, <1>5, StartAlone DEF SpaCancelCheck, dbVars
  <2> QED
    BY <1>3, <2>1, KnowsNothing, GoesOn
<1>6. ASSUME NEW t \in tasks, SpaCancelWrite(t)
      PROVE  Cautious'
  <2>1. tasks' = {NewTask("reading", t.order, NULL, NULL)} /\ Shown'
    BY <1>1, <1>2, <1>6 DEF SpaCancelWrite, Become, Single
  <2> QED
    BY <2>1, KnowsNothing, GoesOn
<1>7. ASSUME NEW t \in tasks, SpaCancelRead(t)
      PROVE  Cautious'
  <2>1. Shown' /\ UNCHANGED orders
    BY <1>3, <1>7 DEF SpaCancelRead, dbVars
  <2>2. PICK m : m = orders[t.order].message
    OBVIOUS
  <2>3. CASE orders[t.order].status = "cancelled"
    <3>1. tasks' = {NewTask("cleanup", t.order, NULL, m)}
      BY <1>1, <1>7, <2>2, <2>3 DEF SpaCancelRead, Become, Single
    <3>2. Facts(NewTask("cleanup", t.order, NULL, m))'
      BY <2>1, <2>3 DEF Facts, NewTask
    <3> QED
      BY <2>1, <3>1, <3>2, GoesOn
  <2>4. CASE orders[t.order].status # "cancelled"
    <3>1. tasks' = {}
      BY <1>1, <1>7, <2>4 DEF SpaCancelRead, End, Single
    <3> QED
      BY <2>1, <3>1, GoesOn
  <2> QED
    BY <2>3, <2>4
<1>8. ASSUME NEW t \in tasks, CancelCleanup(t)
      PROVE  Cautious'
  <2>1. /\ t.order \in OrderIds /\ orders[t.order].status = "cancelled" /\ UNCHANGED orders
        /\ tasks' = {}
    BY <1>1, <1>8 DEF CancelCleanup, Facts, End, Single, dbVars
  <2>2. WithdrawnOnly(t.order)
    <3>1. CASE RemoveOrderState("text", t.order)
      BY <1>1, <2>1, <3>1, RemoveWithdraws DEF Keys
    <3>2. CASE t.message # NULL /\ Delete(t.message)
      BY <1>1, <3>2 DEF Fit, Card, CardsType, Delete, WithdrawnOnly
    <3>3. CASE UNCHANGED cards
      BY <3>3 DEF WithdrawnOnly
    <3> QED
      BY <1>8, <3>1, <3>2, <3>3 DEF CancelCleanup, TryDelete
  <2>3. Shown'
    BY <1>1, <2>1, <2>2, ShownWithout
  <2> QED
    BY <2>1, <2>3, GoesOn
<1> QED
  BY <1>4, <1>5, <1>6, <1>7, <1>8 DEF Cancelling

\* Every step of a process whose handlers run one at a time.
LEMMA AloneStep == ASSUME MaxTasks = 1, Alone, [Next]_vars PROVE Alone'
<1>1. /\ DB!TypeOK /\ Agreed /\ Shown /\ Single
  BY RowsGive DEF Alone, Cautious, Agreed, Known, RowsFit
<1>2. SUFFICES Cautious'
  BY AgreedStep DEF Alone
<1>3. CASE UNCHANGED vars
  BY <1>3, BesideAlone DEF vars, dbVars
<1>4. ASSUME NEW o \in OrderIds, Create(o)
      PROVE  Cautious'
  <2>1. Becomes(o, "new", orders[o].claimedBy, orders[o].message)
    BY <1>1, <1>4, Creates DEF Create
  <2>2. Shown'
    BY <1>1, <1>4, <2>1, ShownKeeps DEF Create, NoneWithdrawn, Becomes
  <2>3. tasks' = {NewTask("publish", o, NULL, NULL)}
    BY <1>1, <1>4, StartAlone DEF Create
  <2> QED
    BY <2>2, <2>3, KnowsNothing, GoesOn
<1>5. ASSUME NEW o \in OrderIds, UndoExpires(o)
      PROVE  Cautious'
  BY <1>5, BesideAlone DEF UndoExpires, dbVars
<1>6. ASSUME NEW o \in OrderIds, Age(o)
      PROVE  Cautious'
  BY <1>1, <1>6, Ages, BesideAlone DEF Age, Becomes
<1>7. CASE Expire
  <2>1. PICK S : DB!ExpireStaleOrders(S)
    BY <1>7 DEF Expire
  <2> QED
    BY <1>1, <1>7, <2>1, Expires, BesideAlone DEF Expire
<1>8. CASE Crash
  <2>1. UNCHANGED <<orders, cards>> /\ tasks' = {}
    BY <1>8 DEF Crash, DB!Crash
  <2> QED
    BY <1>1, <2>1, GoesOn DEF Shown
<1> QED
  BY <1>3, <1>4, <1>5, <1>6, <1>7, <1>8, PublishAlone, WaitAlone, DecisionAlone,
     ReleasingAlone, CompletingAlone, CancellingAlone DEF Next

\* While handlers run one at a time, the card that the row of an open order names has
\* not been withdrawn, whatever was released, undone, declined, cancelled, refused by
\* Telegram or lost in a crash before (updateOrderMessage, removeOrderState and
\* handleClientOrderCancellation are the ones that withdraw cards).
THEOREM OpenOrderKeepsCardHolds ==
  ASSUME MaxTasks = 1 PROVE Spec => []OpenOrderKeepsCard
<1>1. Init => Alone
  BY AgreedInit DEF Init, DB!Init, Alone, Cautious, Single, Shown
<1>2. Alone /\ [Next]_vars => Alone'
  BY AloneStep
<1>3. Alone => OpenOrderKeepsCard
  BY DEF Alone, Cautious, Shown, OpenOrderKeepsCard
<1> QED
  BY <1>1, <1>2, <1>3, PTL DEF Spec
=============================================================================
