---------------------------- MODULE OrdersChannel ----------------------------
(***************************************************************************)
(* The drivers' channel (bot/channels/ordersChannel.ts) on top of the      *)
(* order repository: publishing a card, accepting and declining it,        *)
(* releasing and completing an order, the two undo buttons, the client's   *)
(* and the web application's cancellation.  A handler is split where it    *)
(* awaits the database or Telegram; what remains of it is a record in      *)
(* `tasks`, so any two handlers interleave there.  Everything but the      *)
(* database and the messages in Telegram lives in the process and is lost  *)
(* by Crash.                                                               *)
(*                                                                         *)
(* The in-memory maps are keyed by the order id.  The repository returns   *)
(* the bigint id as the text the driver hands over, callbacks parse it to  *)
(* a number, and a JavaScript Map tells the two apart: `states` has one    *)
(* entry per kind of key.                                                  *)
(*                                                                         *)
(* Abstractions: the buttons of a direct message may be pressed as long as *)
(* it exists, and those of a channel card even later (the fault "late"),   *)
(* any number of times, which is more than the 60 s duplicate guard        *)
(* admits; executors have a phone and are not blocked (the refusals before *)
(* the transaction change nothing), and each press is made as a driver or  *)
(* as a courier, as the executor has chosen by then; texts and reports are *)
(* left out.                                                               *)
(***************************************************************************)
EXTENDS Naturals, FiniteSets

CONSTANTS
    OrderIds, Executors, Clients, Cities, Messages, ClientOf, CityOf, NULL,
    Taxi,        \* the orders of kind 'taxi'
    Faults,      \* what may happen: a refused call of Telegram, a failed commit, a
                 \* crash, a channel that is not bound, a press on a withdrawn card
    MaxTasks     \* bound: handlers in flight

VARIABLES orders, hasActive, gauge, tx,   \* the repository
    cards,         \* cards[m]: the channel message m and what it still shows
    states,        \* orderStates, by kind of key and order
    dismissed,     \* orderDismissals (only ever filled under number keys)
    undoRelease,   \* releaseUndoStates
    undoComplete,  \* completionUndoStates
    offered,       \* <<o, e>>: e has a direct message with release and complete buttons
    tasks          \* handlers that have not finished

dbVars == <<orders, hasActive, gauge, tx>>
memory == <<states, dismissed, undoRelease, undoComplete>>
vars == <<dbVars, cards, memory, offered, tasks>>

DB == INSTANCE Orders

\* What Orders assumes of its constants, and what the channel adds.
ASSUME ChannelAssumption ==
    /\ IsFiniteSet(OrderIds)
    /\ ClientOf \in [OrderIds -> Clients] /\ CityOf \in [OrderIds -> Cities]
    /\ NULL \notin Executors /\ NULL \notin Messages
    /\ Taxi \subseteq OrderIds
    /\ Faults \subseteq {"telegram", "commit", "crash", "unbound", "late"}
    /\ MaxTasks \in Nat \ {0}

Keys == {"text", "number"}

State == [message : Messages, status : {"pending", "claimed", "declined"},
          rendered : {"none", "claimed", "declined"}]

\* publish: to lock the row; publishing: row locked, card not sent; posted: card
\* sent; remembered: to commit; failed: to cancel; undoable: to offer the undo;
\* claimed, processed, dismissed: decision to be shown; released, reclaimed: old card
\* to be removed; reclaim, restore: undo pressed, its transaction to come; completed;
\* cancelling, reading, cleanup: cancellation.
Task == [kind : {"publish", "publishing", "posted", "remembered", "failed", "undoable",
                 "claimed", "processed", "dismissed", "released", "reclaim", "reclaimed",
                 "completed", "restore", "cancelling", "reading", "cleanup"},
         order : OrderIds, exec : Executors \cup {NULL},
         message : Messages \cup {NULL}, seen : DB!Statuses \cup {"absent"}]

NewTask(kind, o, e, m) ==
    [kind |-> kind, order |-> o, exec |-> e, message |-> m, seen |-> "absent"]

Start(t) ==
    /\ Cardinality(tasks) < MaxTasks
    /\ tasks' = tasks \cup {t}

Become(t, u) == tasks' = (tasks \ {t}) \cup {u}
End(t) == tasks' = tasks \ {t}

\* A publishing transaction holds the row's lock; so does a completion (DB!Free).
Publishing(o) ==
    \E t \in tasks : t.order = o /\ t.kind \in {"publishing", "posted", "remembered"}
Unlocked(o) == DB!Free(o) /\ ~Publishing(o)

\* A serializable transaction that finds the row locked waits, with the snapshot it has
\* (`seen` and `message`).
Wait(t) ==
    LET o == t.order IN
    /\ t.kind \in {"publish", "reclaim", "restore"} /\ t.seen = "absent"
    /\ ~Unlocked(o)
    /\ Become(t, [t EXCEPT !.seen = orders[o].status, !.message = orders[o].message])
    /\ UNCHANGED <<dbVars, cards, memory, offered>>

\* It goes on if the holder of the lock has left the row as it was; else PostgreSQL
\* refuses it, "could not serialize access due to concurrent update".
Current(t) == LET r == orders[t.order] IN
    t.seen = "absent" \/ (r.status = t.seen /\ r.message = t.message)

GetsLock(t) == Unlocked(t.order) /\ Current(t)
Refused(t) == Unlocked(t.order) /\ ~Current(t)

-----------------------------------------------------------------------------
(* Channel messages and the order states                                   *)

Delete(m) == cards' = [cards EXCEPT ![m].face = "gone"]
Strip(m)  == cards' = [cards EXCEPT ![m].face = IF @ = "live" THEN "bare" ELSE @]

\* Telegram refuses an operation: always on a deleted message, else as a fault.
Refusable(m) == cards[m].face = "gone" \/ "telegram" \in Faults

MapOrderStatus(status) ==
    CASE status \in {"claimed", "in_progress", "finished"} -> "claimed"
      [] status \in {"cancelled", "expired"} -> "declined"
      [] OTHER -> "pending"

\* ensureOrderState, with and without the order: an entry that exists keeps what
\* was rendered, even when it moves to another message.
EnsureMessage(o, m) ==
    LET s == states["number"][o]
    IN  IF s = NULL THEN [message |-> m, status |-> "pending", rendered |-> "none"]
                    ELSE [s EXCEPT !.message = m]

EnsureState(o, m, status) == [EnsureMessage(o, m) EXCEPT !.status = MapOrderStatus(status)]

SetState(key, o, s) == states' = [states EXCEPT ![key][o] = s]

\* updateOrderMessage: a claimed card is deleted, else edited without buttons; if
\* both are refused nothing is recorded as rendered.
UpdateOrderMessage(o, s) ==
    \/ /\ s.status = "claimed" /\ cards[s.message].face # "gone"
       /\ Delete(s.message)
       /\ SetState("number", o, [s EXCEPT !.rendered = s.status])
    \/ /\ s.status # "pending" /\ cards[s.message].face # "gone"
       /\ s.status = "claimed" => Refusable(s.message)
       /\ Strip(s.message)
       /\ SetState("number", o, [s EXCEPT !.rendered = s.status])
    \/ /\ Refusable(s.message)
       /\ SetState("number", o, s)
       /\ UNCHANGED cards

\* ensureMessageReflectsState
EnsureMessageReflectsState(o, s) ==
    IF s.status = "pending" \/ s.rendered = s.status
    THEN SetState("number", o, s) /\ UNCHANGED cards
    ELSE UpdateOrderMessage(o, s)

\* deleteMessage whose refusal is only logged
TryDelete(m) == Delete(m) \/ (Refusable(m) /\ UNCHANGED cards)

\* removeOrderState under one kind of key.  The dismissals have number keys.
RemoveOrderState(key, o) ==
    /\ IF states[key][o] = NULL THEN UNCHANGED cards
                                ELSE TryDelete(states[key][o].message)
    /\ SetState(key, o, NULL)
    /\ dismissed' = IF key = "number" THEN [dismissed EXCEPT ![o] = {}] ELSE dismissed

-----------------------------------------------------------------------------
Init ==
    /\ DB!Init
    /\ cards = [m \in Messages |-> [order |-> NULL, face |-> "unused"]]
    /\ states = [key \in Keys |-> [o \in OrderIds |-> NULL]]
    /\ dismissed = [o \in OrderIds |-> {}]
    /\ undoRelease = [o \in OrderIds |-> NULL]
    /\ undoComplete = [o \in OrderIds |-> NULL]
    /\ offered = {}
    /\ tasks = {}

-----------------------------------------------------------------------------
(* publishOrderToDriversChannel, after a creation (exec = NULL, and a       *)
(* failure cancels the order) or after a release (a failure is only logged) *)

Create(o) ==
    /\ DB!CreateOrder(o)
    /\ Start(NewTask("publish", o, NULL, NULL))
    /\ UNCHANGED <<cards, memory, offered>>

PublishEnds(t) ==
    IF t.exec = NULL THEN End(t) ELSE Become(t, NewTask("undoable", t.order, t.exec, NULL))

PublishThrows(t) ==
    Become(t, NewTask(IF t.exec = NULL THEN "failed" ELSE "undoable", t.order, t.exec, NULL))

PublishMissingChannel(t) ==
    /\ t.kind = "publish" /\ t.seen = "absent" /\ "unbound" \in Faults
    /\ PublishEnds(t)
    /\ UNCHANGED <<dbVars, cards, memory, offered>>

\* The row has a message already: only the memory is refreshed.
PublishAlready(t) ==
    LET o == t.order IN
    /\ t.kind = "publish" /\ GetsLock(t)
    /\ orders[o].message # NULL
    /\ SetState("text", o, [message |-> orders[o].message,
                            status |-> MapOrderStatus(orders[o].status),
                            rendered |-> "none"])
    /\ PublishEnds(t)
    /\ UNCHANGED <<dbVars, cards, dismissed, undoRelease, undoComplete, offered>>

PublishLock(t) ==
    /\ t.kind = "publish" /\ GetsLock(t)
    /\ orders[t.order].message = NULL
    /\ Become(t, NewTask("publishing", t.order, t.exec, NULL))
    /\ UNCHANGED <<dbVars, cards, memory, offered>>

PublishRefused(t) ==
    /\ t.kind = "publish" /\ Refused(t)
    /\ PublishThrows(t)
    /\ UNCHANGED <<dbVars, cards, memory, offered>>

\* The status is not looked at: a cancelled or claimed order gets a card as well.
PublishSend(t) ==
    /\ t.kind = "publishing"
    /\ \E m \in Messages :
        /\ cards[m].face = "unused"
        /\ cards' = [cards EXCEPT ![m] = [order |-> t.order, face |-> "live"]]
        /\ Become(t, [t EXCEPT !.kind = "posted", !.message = m])
    /\ UNCHANGED <<dbVars, memory, offered>>

PublishSendFails(t) ==
    /\ t.kind = "publishing" /\ "telegram" \in Faults
    /\ PublishThrows(t)
    /\ UNCHANGED <<dbVars, cards, memory, offered>>

\* Slip: an entry that exists is kept.
RememberFirstPosted(t) ==
    /\ IF states["text"][t.order] # NULL THEN UNCHANGED states
       ELSE SetState("text", t.order, [message |-> t.message, status |-> "pending",
                                       rendered |-> "none"])
    /\ UNCHANGED <<dismissed, undoRelease, undoComplete>>

RememberPosted(t) ==
    /\ SetState("text", t.order, [message |-> t.message, status |-> "pending",
                                  rendered |-> "none"])
    /\ UNCHANGED <<dismissed, undoRelease, undoComplete>>

\* The map is written, then the report of the publication is awaited before the commit.
PublishRemember(t) ==
    /\ t.kind = "posted"
    /\ RememberPosted(t)
    /\ Become(t, [t EXCEPT !.kind = "remembered"])
    /\ UNCHANGED <<dbVars, cards, offered>>

PublishCommit(t) ==
    /\ t.kind = "remembered"
    /\ DB!PublishOrder(t.order, t.message)
    /\ PublishEnds(t)
    /\ UNCHANGED <<cards, memory, offered>>

\* The statement that stores the message fails, or the commit fails, or the commit succeeds
\* with its answer lost: the card is out in each case.
PublishCommitFails(t) ==
    /\ "commit" \in Faults
    /\ \/ t.kind \in {"posted", "remembered"} /\ UNCHANGED dbVars
       \/ t.kind = "remembered" /\ DB!PublishOrder(t.order, t.message)
    /\ PublishThrows(t)
    /\ UNCHANGED <<cards, memory, offered>>

CancelUnpublished(t) ==
    /\ t.kind = "failed" /\ Unlocked(t.order)
    /\ DB!MarkOrderAsCancelled(t.order)
    /\ End(t)
    /\ UNCHANGED <<cards, memory, offered>>

Publish(t) ==
    \/ PublishMissingChannel(t) \/ PublishAlready(t) \/ PublishLock(t) \/ PublishRefused(t)
    \/ PublishSend(t) \/ PublishSendFails(t) \/ PublishRemember(t) \/ PublishCommit(t)
    \/ PublishCommitFails(t) \/ CancelUnpublished(t)

-----------------------------------------------------------------------------
(* processOrderAction and handleOrderDecision                              *)

\* A press on a card whose buttons are gone was on its way, or comes from a client
\* that still shows them.
Pressable(m) ==
    \/ cards[m].face = "live"
    \/ cards[m].face \in {"bare", "gone"} /\ "late" \in Faults

Kinds == {"driver", "courier"}

\* Only drivers take taxis, and they take one order at a time.
KindFits(o, kind) == o \in Taxi => kind = "driver"

LimitReached(e, kind) ==
    /\ kind = "driver"
    /\ \E o \in OrderIds : orders[o].claimedBy = e /\ orders[o].status \in DB!Held

MayTake(o, e, kind, city) ==
    KindFits(o, kind) /\ ~LimitReached(e, kind) /\ CityOf[o] = city

\* The transaction found the row locked (SKIP LOCKED) or not open; a locked row is
\* read again without a lock, as it was last committed.
AlreadyProcessed(e, m, o) ==
    /\ ~Unlocked(o) \/ orders[o].status # "open"
    /\ Start([NewTask("processed", o, e, m) EXCEPT !.seen = orders[o].status])
    /\ UNCHANGED <<dbVars, cards, memory, offered>>

AcceptClaims(e, m, kind, city) ==
    LET o == cards[m].order IN
    /\ Pressable(m) /\ Unlocked(o)
    /\ MayTake(o, e, kind, city)
    /\ DB!TryClaimOrder(o, e, city)
    /\ Start(NewTask("claimed", o, e, m))
    /\ UNCHANGED <<cards, memory, offered>>

\* Kind, limit or city: the order stays open and the press is remembered.
AcceptRefused(e, m, kind, city) ==
    LET o == cards[m].order IN
    /\ Pressable(m) /\ Unlocked(o)
    /\ orders[o].status = "open" /\ ~MayTake(o, e, kind, city)
    /\ IF KindFits(o, kind) /\ LimitReached(e, kind)
       THEN SetState("number", o, EnsureMessage(o, m))
       ELSE SetState("number", o, EnsureState(o, m, "open"))
    /\ UNCHANGED <<dbVars, cards, dismissed, undoRelease, undoComplete, offered, tasks>>

AcceptTooLate(e, m) ==
    /\ Pressable(m)
    /\ AlreadyProcessed(e, m, cards[m].order)

Decline(e, m) ==
    LET o == cards[m].order IN
    /\ Pressable(m)
    /\ e \notin dismissed[o]
    /\ \/ AlreadyProcessed(e, m, o)
       \/ /\ Unlocked(o) /\ orders[o].status = "open"
          /\ Start(NewTask("dismissed", o, e, m))
          /\ UNCHANGED <<dbVars, cards, memory, offered>>

DeclineAgain(e, m) ==
    LET o == cards[m].order IN
    /\ Pressable(m) /\ e \in dismissed[o]
    /\ SetState("number", o, EnsureMessage(o, m))
    /\ UNCHANGED <<dbVars, cards, dismissed, undoRelease, undoComplete, offered, tasks>>

\* The winner's card is withdrawn and he gets the direct message.
ShowClaimed(t) ==
    LET o == t.order IN
    /\ t.kind = "claimed"
    /\ dismissed' = [dismissed EXCEPT ![o] = {}]
    /\ UpdateOrderMessage(o, EnsureState(o, t.message, "claimed"))
    /\ \/ offered' = offered \cup {<<o, t.exec>>}
       \/ "telegram" \in Faults /\ UNCHANGED offered
    /\ End(t)
    /\ UNCHANGED <<dbVars, undoRelease, undoComplete>>

ShowProcessed(t) ==
    LET o == t.order IN
    /\ t.kind = "processed"
    /\ dismissed' = IF t.seen = "open" THEN dismissed ELSE [dismissed EXCEPT ![o] = {}]
    /\ EnsureMessageReflectsState(o, EnsureState(o, t.message, t.seen))
    /\ End(t)
    /\ UNCHANGED <<dbVars, undoRelease, undoComplete, offered>>

\* The keyboard is cleared on the message itself: for every member of the channel.
ShowDismissed(t) ==
    LET o == t.order IN
    /\ t.kind = "dismissed"
    /\ dismissed' = [dismissed EXCEPT ![o] = @ \cup {t.exec}]
    /\ SetState("number", o, EnsureState(o, t.message, "open"))
    /\ Strip(t.message) \/ (Refusable(t.message) /\ UNCHANGED cards)
    /\ End(t)
    /\ UNCHANGED <<dbVars, undoRelease, undoComplete, offered>>

Decision ==
    \/ \E e \in Executors, m \in Messages :
        \/ \E kind \in Kinds, city \in Cities :
              AcceptClaims(e, m, kind, city) \/ AcceptRefused(e, m, kind, city)
        \/ AcceptTooLate(e, m)
        \/ Decline(e, m)
        \/ DeclineAgain(e, m)
    \/ \E t \in tasks : ShowClaimed(t) \/ ShowProcessed(t) \/ ShowDismissed(t)

-----------------------------------------------------------------------------
(* Release and its undo                                                    *)

Release(e, o) ==
    /\ <<o, e>> \in offered /\ Unlocked(o)
    /\ DB!TryReleaseOrder(o, e)
    /\ Start(NewTask("released", o, e, NULL))
    /\ UNCHANGED <<cards, memory, offered>>

\* Slip: the card is removed and the order not published again.
ReleaseOnlyRemoves(t) ==
    /\ t.kind = "released"
    /\ RemoveOrderState("number", t.order)
    /\ Become(t, NewTask("undoable", t.order, t.exec, NULL))
    /\ UNCHANGED <<dbVars, undoRelease, undoComplete, offered>>

\* The number key: the card that publishing stored under the text key stays.
ReleaseRepublish(t) ==
    /\ t.kind = "released"
    /\ RemoveOrderState("number", t.order)
    /\ Become(t, NewTask("publish", t.order, t.exec, NULL))
    /\ UNCHANGED <<dbVars, undoRelease, undoComplete, offered>>

\* Slip: the old card is removed only after the publication.
OffersUndoThenRemoves(t) ==
    /\ t.kind = "undoable"
    /\ undoRelease' = [undoRelease EXCEPT ![t.order] = t.exec]
    /\ RemoveOrderState("text", t.order)
    /\ End(t)
    /\ UNCHANGED <<dbVars, undoComplete, offered>>

ReleaseOffersUndo(t) ==
    /\ t.kind = "undoable"
    /\ undoRelease' = [undoRelease EXCEPT ![t.order] = t.exec]
    /\ End(t)
    /\ UNCHANGED <<dbVars, cards, states, dismissed, undoComplete, offered>>

\* The entry is consumed when the button is pressed, before the transaction.
UndoRelease(e, o) ==
    /\ undoRelease[o] = e
    /\ undoRelease' = [undoRelease EXCEPT ![o] = NULL]
    /\ Start(NewTask("reclaim", o, e, NULL))
    /\ UNCHANGED <<dbVars, cards, states, dismissed, undoComplete, offered>>

Reclaim(t) ==
    /\ t.kind = "reclaim" /\ GetsLock(t)
    /\ DB!TryReclaimOrder(t.order, t.exec)
    /\ Become(t, NewTask("reclaimed", t.order, t.exec, NULL))
    /\ UNCHANGED <<cards, memory, offered>>

\* The transaction fails, or finds the order taken or cancelled.
ReclaimFails(t) ==
    /\ t.kind = "reclaim"
    /\ \/ "commit" \in Faults
       \/ Refused(t)
       \/ Unlocked(t.order) /\ orders[t.order].status # "open"
    /\ End(t)
    /\ UNCHANGED <<dbVars, cards, memory, offered>>

ReclaimRemovesCard(t) ==
    /\ t.kind = "reclaimed"
    /\ RemoveOrderState("number", t.order)
    /\ offered' = offered \cup {<<t.order, t.exec>>}
    /\ End(t)
    /\ UNCHANGED <<dbVars, undoRelease, undoComplete>>

Releasing ==
    \/ \E e \in Executors, o \in OrderIds :
        Release(e, o) \/ UndoRelease(e, o)
    \/ \E t \in tasks :
        \/ ReleaseRepublish(t) \/ ReleaseOffersUndo(t)
        \/ Reclaim(t) \/ ReclaimFails(t) \/ ReclaimRemovesCard(t)

-----------------------------------------------------------------------------
(* Completion: the button of the direct message with its undo, and the      *)
(* two-step button of the executor's menu (flows/executor/orders.ts)        *)

Complete(e, o) ==
    /\ <<o, e>> \in offered /\ Unlocked(o)
    /\ DB!TryCompleteOrder(o, e)
    /\ Start(NewTask("completed", o, e, NULL))
    /\ UNCHANGED <<cards, memory, offered>>

CompleteOffersUndo(t) ==
    /\ t.kind = "completed"
    /\ undoComplete' = [undoComplete EXCEPT ![t.order] = t.exec]
    /\ End(t)
    /\ UNCHANGED <<dbVars, cards, states, dismissed, undoRelease, offered>>

\* Slip: the entry is looked at (peekUndoState) but not consumed.
UndoCompleteTwice(e, o) ==
    /\ undoComplete[o] = e
    /\ Start(NewTask("restore", o, e, NULL))
    /\ UNCHANGED <<dbVars, cards, memory, offered>>

UndoComplete(e, o) ==
    /\ undoComplete[o] = e
    /\ undoComplete' = [undoComplete EXCEPT ![o] = NULL]
    /\ Start(NewTask("restore", o, e, NULL))
    /\ UNCHANGED <<dbVars, cards, states, dismissed, undoRelease, offered>>

Restore(t) ==
    /\ t.kind = "restore" /\ GetsLock(t)
    /\ DB!TryRestoreCompletedOrder(t.order, t.exec)
    /\ End(t)
    /\ UNCHANGED <<cards, memory, offered>>

RestoreFails(t) ==
    /\ t.kind = "restore"
    /\ \/ "commit" \in Faults
       \/ Refused(t)
       \/ /\ Unlocked(t.order)
          /\ orders[t.order].status # "finished" \/ orders[t.order].claimedBy # t.exec
    /\ End(t)
    /\ UNCHANGED <<dbVars, cards, memory, offered>>

MenuCompletion(o) ==
    /\ ~Publishing(o)
    /\ \/ \E e \in Executors : DB!CompleteBegin(o, e)
       \/ DB!CompleteCommit(o)
       \/ "commit" \in Faults /\ DB!CompleteRollback(o)
    /\ UNCHANGED <<cards, memory, offered, tasks>>

Completing ==
    \/ \E e \in Executors, o \in OrderIds :
        Complete(e, o) \/ UndoComplete(e, o)
    \/ \E t \in tasks : CompleteOffersUndo(t) \/ Restore(t) \/ RestoreFails(t)
    \/ \E o \in OrderIds : MenuCompletion(o)

\* The two minutes of an undo entry are over.
UndoExpires(o) ==
    /\ \/ undoRelease' = [undoRelease EXCEPT ![o] = NULL] /\ UNCHANGED undoComplete
       \/ undoComplete' = [undoComplete EXCEPT ![o] = NULL] /\ UNCHANGED undoRelease
    /\ UNCHANGED <<dbVars, cards, states, dismissed, offered, tasks>>

-----------------------------------------------------------------------------
(* Cancellation by the client in the bot (flows/client/orders.ts) and in    *)
(* the web application (http/spaOrders.ts)                                  *)

ClientCancel(o) ==
    /\ ~Publishing(o)
    /\ DB!CancelClientOrder(o, ClientOf[o])
    /\ Start(NewTask("cleanup", o, NULL, orders[o].message))
    /\ UNCHANGED <<cards, memory, offered>>

Closed == {"cancelled", "finished", "expired"}

\* The status is read in one statement and overwritten in another.
SpaCancelCheck(o) ==
    /\ orders[o].status \notin Closed \cup {"absent"}
    /\ Start(NewTask("cancelling", o, NULL, NULL))
    /\ UNCHANGED <<dbVars, cards, memory, offered>>

SpaCancelWrite(t) ==
    /\ t.kind = "cancelling" /\ Unlocked(t.order)
    /\ DB!MarkOrderAsCancelled(t.order)
    /\ Become(t, NewTask("reading", t.order, NULL, NULL))
    /\ UNCHANGED <<cards, memory, offered>>

SpaCancelRead(t) ==
    /\ t.kind = "reading"
    /\ IF orders[t.order].status = "cancelled"
       THEN Become(t, NewTask("cleanup", t.order, NULL, orders[t.order].message))
       ELSE End(t)
    /\ UNCHANGED <<dbVars, cards, memory, offered>>

\* handleClientOrderCancellation: the remembered card, else the one of the row.
CancelCleanup(t) ==
    /\ t.kind = "cleanup"
    /\ IF states["text"][t.order] # NULL
       THEN RemoveOrderState("text", t.order)
       ELSE /\ IF t.message = NULL THEN UNCHANGED cards ELSE TryDelete(t.message)
            /\ UNCHANGED <<states, dismissed>>
    /\ End(t)
    /\ UNCHANGED <<dbVars, undoRelease, undoComplete, offered>>

Cancelling ==
    \/ \E o \in OrderIds : ClientCancel(o) \/ SpaCancelCheck(o)
    \/ \E t \in tasks : SpaCancelWrite(t) \/ SpaCancelRead(t) \/ CancelCleanup(t)

-----------------------------------------------------------------------------
\* The maintenance job; the card of an expired order is not touched.
Expire ==
    /\ \E S \in SUBSET {o \in OrderIds : ~Publishing(o)} : DB!ExpireStaleOrders(S)
    /\ UNCHANGED <<cards, memory, offered, tasks>>

Age(o) ==
    /\ DB!Age(o)
    /\ UNCHANGED <<cards, memory, offered, tasks>>

Crash ==
    /\ "crash" \in Faults
    /\ DB!Crash
    /\ states' = [key \in Keys |-> [o \in OrderIds |-> NULL]]
    /\ dismissed' = [o \in OrderIds |-> {}]
    /\ undoRelease' = [o \in OrderIds |-> NULL]
    /\ undoComplete' = [o \in OrderIds |-> NULL]
    /\ tasks' = {}
    /\ UNCHANGED <<cards, offered>>

Next ==
    \/ \E o \in OrderIds : Create(o) \/ UndoExpires(o) \/ Age(o)
    \/ \E t \in tasks : Publish(t) \/ Wait(t)
    \/ Decision
    \/ Releasing
    \/ Completing
    \/ Cancelling
    \/ Expire
    \/ Crash

Spec == Init /\ [][Next]_vars
(* Handlers in flight go on and end, and so does a commit in flight; nobody *)
(* is obliged to press a button, and neither time nor the maintenance job   *)
(* is counted on.                                                           *)
Progress == \E t \in tasks :
    \/ PublishAlready(t) \/ PublishLock(t) \/ PublishRefused(t) \/ PublishSend(t)
    \/ PublishRemember(t) \/ PublishCommit(t) \/ CancelUnpublished(t)
    \/ ShowClaimed(t) \/ ShowProcessed(t) \/ ShowDismissed(t)
    \/ ReleaseRepublish(t) \/ ReleaseOffersUndo(t)
    \/ Reclaim(t) \/ ReclaimFails(t) \/ ReclaimRemovesCard(t)
    \/ CompleteOffersUndo(t) \/ Restore(t) \/ RestoreFails(t)
    \/ SpaCancelWrite(t) \/ SpaCancelRead(t) \/ CancelCleanup(t)

Fairness ==
    /\ WF_vars(Progress)
    /\ \A o \in OrderIds : WF_vars(~Publishing(o) /\ DB!CompleteCommit(o)
                                    /\ UNCHANGED <<cards, memory, offered, tasks>>)

FairSpec == Spec /\ Fairness

-----------------------------------------------------------------------------
TypeOK ==
    /\ DB!TypeOK
    /\ cards \in [Messages -> [order : OrderIds \cup {NULL},
                               face : {"unused", "live", "bare", "gone"}]]
    /\ states \in [Keys -> [OrderIds -> State \cup {NULL}]]
    /\ dismissed \in [OrderIds -> SUBSET Executors]
    /\ undoRelease \in [OrderIds -> Executors \cup {NULL}]
    /\ undoComplete \in [OrderIds -> Executors \cup {NULL}]
    /\ offered \subseteq OrderIds \X Executors
    /\ tasks \subseteq Task

\* The cache knows the card of the row: whenever the row names a channel message
\* and publishing remembers one for it, they are the same message, although four
\* statements write the row's message and only publishing writes both.
CacheAgreesWithRow ==
    \A o \in OrderIds :
        (orders[o].message # NULL /\ states["text"][o] # NULL) =>
            states["text"][o].message = orders[o].message

\* An undo of a completion that is still on offer concerns a completion that
\* stands (or was cancelled since), by the executor to whom it is offered.
UndoCompleteMatchesRow ==
    \A o \in OrderIds : undoComplete[o] # NULL =>
        /\ orders[o].claimedBy = undoComplete[o]
        /\ orders[o].status \in {"finished", "cancelled"}

\* Handlers one at a time: the card that the row of an open order names has not
\* been withdrawn, whatever was released, undone, declined and republished before.
OpenOrderKeepsCard ==
    \A o \in OrderIds :
        (tasks = {} /\ orders[o].status = "open" /\ orders[o].message # NULL) =>
            cards[orders[o].message].face # "gone"

\* When nothing fails, an open order without a card gets one (or is taken): a
\* release always leads to the republication.  Channel messages are bounded here.
OpenOrderIsOffered ==
    \A o \in OrderIds :
        orders[o].status \in {"new", "open"} /\ orders[o].message = NULL ~>
            \/ orders[o].status \notin {"new", "open"}
            \/ orders[o].message # NULL
            \/ \A m \in Messages : cards[m].face # "unused"

\* What the process remembers, cards and undo buttons, agrees with the rows.
MemoryAgrees == TypeOK /\ CacheAgreesWithRow /\ UndoCompleteMatchesRow
=============================================================================
