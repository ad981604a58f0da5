---------------------------- MODULE Subscriptions ----------------------------
(***************************************************************************)
(* Payments and subscriptions: the moderators' queue of payments           *)
(* (bot/moderation/queue.ts and paymentQueue.ts), the rows of              *)
(* subscriptions, payments and users (db/subscriptions.ts), the scheduled  *)
(* maintenance (jobs/scheduler.ts) and the two handlers that keep the      *)
(* drivers' channel in step (channels/joinRequests.ts, membership.ts).     *)
(*                                                                         *)
(* An application is an entry of the queue's memory and a row of           *)
(* callback_map; the moderators' Accept button runs its callback, which    *)
(* writes the subscription in one transaction (the upsert of the user      *)
(* locks her row, so that two transactions of one user never overlap).     *)
(* The job works on the rows it read at its start; a handler is split      *)
(* where it awaits Telegram or the database.                               *)
(*                                                                         *)
(* Abstractions: time counts days; every payment buys Days of them; a      *)
(* period's end stands for next_billing_at (grace_until is never set); a   *)
(* token outlives the instance; the role and the status of a user, which   *)
(* the menus, the phone and the choice of a role write as well, are left   *)
(* out, as are the texts, the reports and the static link.  The Reject     *)
(* button is not modelled: its pattern matches no button (README,          *)
(* "Differences met"), nor is the failed flag, for no callback throws.     *)
(* Submit, though exported, is called by no handler of this commit.        *)
(* `periods`, `warnings` and the sets of exceptions are history variables. *)
(***************************************************************************)
EXTENDS Naturals

CONSTANTS
    Users,
    Payments,      \* the payments ever submitted
    Payer,         \* who submits a payment
    Days,          \* what a payment buys
    Warn,          \* config.subscriptions.warnHoursBefore, in days
    MaxTime,       \* bound: days that pass
    FirstEnds,     \* when the subscriptions of those who paid before end
    Workers,       \* bound: 1 .. n, updates handled at the same time
    Faults,        \* what may fail
    MaxEvents,     \* bound: presses of Accept, leaves, requests to join and failures together
    NULL

ASSUME SubscriptionsAssumption ==
    /\ Payer \in [Payments -> Users]
    /\ Days \in Nat \ {0} /\ Warn \in Nat \ {0}
    /\ FirstEnds \subseteq 1 .. Days /\ Workers \subseteq Nat
    /\ MaxTime \in Nat /\ MaxEvents \in Nat
    /\ Faults \subseteq {"persist", "unbound", "activate", "invite", "delete", "find", "warn",
                         "record", "mark", "user", "kick", "crash"}
    /\ NULL \notin Users \cup Payments \cup Nat

VARIABLES
    now,
    sub,          \* the user's row of subscriptions for the drivers' channel
    user,         \* sub_status and sub_expires_at of users
    member,       \* who is in the channel
    links,        \* personal invite links not used yet: their last day
    submitted,    \* submittedAt of a payment
    entry,        \* the queue's memory: an object per application
    store,        \* applications with a row in callback_map; the row says pending
    task,         \* what a worker does
    job,          \* the run of the maintenance
    events,       \* chat_member updates on their way
    periods,      \* rows of payments
    warnings,     \* warnings delivered
    decided,      \* applications ever approved
    lost,         \* approved without an activation, for a known reason
    overlapped,   \* applications two presses of which overlapped
    unsaved,      \* applications whose row was not written or not deleted
    unrecorded,   \* periods whose warning was not recorded
    raced,        \* users who paid while their subscription was being ended
    doubted,      \* users whose row of users was left behind
    slipped,      \* users who are in the channel for a known reason
    spent

database == <<sub, user, periods, store>>
queue == <<submitted, entry>>
channel == <<member, links, events>>
excuses == <<decided, lost, overlapped, unsaved, unrecorded, raced, doubted, slipped>>
bounds == <<now, spent>>
vars == <<database, queue, channel, excuses, bounds, warnings, task, job>>

Time == 0 .. MaxTime
Ends == Nat

Row == [status : {"none", "active", "expired"}, end : Ends, warned : Time \cup {NULL}]
User == [status : {"none", "active", "expired"}, until : Ends]
Entry == [status : {"pending", "approved"},
          date : {"Date", "text"},            \* what submittedAt is in this object
          by : Workers \cup {NULL}]           \* which load made the object
Period == [user : Users, payment : Payments \cup {NULL}, start : Ends, end : Ends]
Warning == [user : Users, end : Ends, nth : 1 .. 2]
Event == [user : Users, kind : {"left", "kicked"}]

Task == [phase : {"persist", "load", "activate", "close", "remove", "look", "expire", "demote",
                  "check", "admit"},
         payment : Payments \cup {NULL}, user : Users \cup {NULL},
         date : {"Date", "text"}, by : Workers \cup {NULL}, end : Ends,
         kind : {"left", "kicked", "none"}]

Job == [phase : {"send", "record", "find", "mark", "users", "kick"},
        at : Time, todo : SUBSET Users, list : SUBSET Users, end : [Users -> Ends]]

ASSUME NullAssumption == NULL \notin Entry \cup Task \cup Job

Spend == spent < MaxEvents /\ spent' = spent + 1
Occurs(k) == k \in Faults /\ Spend

Blank == [phase |-> "load", payment |-> NULL, user |-> NULL, date |-> "Date", by |-> NULL,
          end |-> 0, kind |-> "none"]

\* Workers are alike: the first idle one takes an update.
Idle(w) == task[w] = NULL /\ \A v \in Workers : task[v] = NULL => w <= v
At(w, phase) == task[w] # NULL /\ task[w].phase = phase
Done(w) == task' = [task EXCEPT ![w] = NULL]
Goto(w, phase) == task' = [task EXCEPT ![w].phase = phase]

\* Whether an answer under way may still end the subscription of u or rewrite her row.
EndedBy(u) ==
    \/ job # NULL /\ u \in job.list
    \/ \E e \in events : e.user = u
    \/ \E w \in Workers : task[w] # NULL /\ task[w].phase \in {"look", "expire", "demote"}
                             /\ task[w].user = u

Deciding(p) == {w \in Workers : task[w] # NULL /\ task[w].payment = p
                                  /\ task[w].phase # "persist"}

-----------------------------------------------------------------------------
(* The moderators' queue.                                                  *)

\* The statements on callback_map.
UpsertCallbackMapRecord(p) == store \cup {p}
LoadCallbackMapRecord(p) == p \in store
DeleteCallbackMapRecord(p) == store \ {p}
ListCallbackMapRecords == store

\* createSubscriptionPaymentReviewItem: the request, with the date of its submission.
Application == [status |-> "pending", date |-> "Date", by |-> NULL]

\* hydrateStoredEntry and revivePaymentReviewItem: the callbacks come back, the date stays text.
Hydrated(w) == [status |-> "pending", date |-> "text", by |-> w]

\* submitSubscriptionPaymentReview: the card is sent, then the object is put into the memory.
\* Without a channel, or when the card is not sent, the caller is told and nothing is kept.
Submit(w, p) ==
    /\ Idle(w) /\ submitted[p] = NULL
    /\ submitted' = [submitted EXCEPT ![p] = now]
    /\ entry' = [entry EXCEPT ![p] = Application]
    /\ task' = [task EXCEPT ![w] = [Blank EXCEPT !.phase = "persist", !.payment = p]]
    /\ UNCHANGED <<database, channel, excuses, bounds, warnings, job>>

\* The row says pending; it may be written after the decision has removed it.
PersistEntry(w) ==
    /\ At(w, "persist")
    /\ LET p == task[w].payment IN
       \/ /\ store' = UpsertCallbackMapRecord(p)
          /\ unsaved' = IF p \in decided THEN unsaved \cup {p} ELSE unsaved
          /\ UNCHANGED spent
       \/ Occurs("persist") /\ unsaved' = unsaved \cup {p} /\ UNCHANGED store
    /\ Done(w)
    /\ UNCHANGED <<sub, user, periods, queue, channel, now, warnings, job,
                   decided, lost, overlapped, unrecorded, raced, doubted, slipped>>

\* Slip: the application is approved before its callback has run.
SlipPress(w, p) ==
    /\ Idle(w) /\ entry[p] # NULL /\ Spend
    /\ entry[p].status = "pending"
    /\ task' = [task EXCEPT ![w] = [Blank EXCEPT !.payment = p, !.phase = "activate",
                                                  !.date = entry[p].date, !.by = entry[p].by]]
    /\ entry' = [entry EXCEPT ![p].status = "approved"]
    /\ UNCHANGED <<database, submitted, channel, now, excuses, warnings, job>>

\* A press of Accept: an approved application is only answered, as is one that is nowhere.
Press(w, p) ==
    /\ Idle(w) /\ submitted[p] # NULL /\ Spend
    /\ entry[p] # NULL => entry[p].status = "pending"
    /\ task' = [task EXCEPT ![w] =
                  IF entry[p] = NULL THEN [Blank EXCEPT !.payment = p]
                  ELSE [Blank EXCEPT !.payment = p, !.phase = "activate", !.date = entry[p].date,
                                     !.by = entry[p].by]]
    /\ overlapped' = IF Deciding(p) # {} THEN overlapped \cup {p} ELSE overlapped
    /\ UNCHANGED <<database, queue, channel, now, warnings, job,
                   decided, lost, unsaved, unrecorded, raced, doubted, slipped>>

\* loadEntryFromStore: the row's JSON becomes a new object, with the date as text; without a
\* row, or when the query fails, the moderator is told that there is no such application.
Load(w) ==
    /\ At(w, "load")
    /\ LET p == task[w].payment IN
       \/ /\ LoadCallbackMapRecord(p)
          /\ entry' = [entry EXCEPT ![p] = Hydrated(w)]
          /\ task' = [task EXCEPT ![w] = [@ EXCEPT !.phase = "activate", !.date = "text", !.by = w]]
       \/ Done(w) /\ UNCHANGED entry
    /\ UNCHANGED <<database, submitted, channel, excuses, bounds, warnings, job>>

\* determinePeriodStart: a period follows the one paid before, also when that was ended early.
PeriodStart(u, at) ==
    IF sub[u].status # "none" /\ sub[u].end > at THEN sub[u].end ELSE at

\* The row is prolonged or made; a warning of the period before no longer counts.
ActiveRow(end) == [status |-> "active", end |-> end, warned |-> NULL]

\* What activation writes in the user's row.
Promoted(u, end) == user' = [user EXCEPT ![u] = [status |-> "active", until |-> end]]

\* Slip: the user's row keeps the end of the period before.
SlipActivated(p, start) ==
    LET u == Payer[p]
        end == start + Days
    IN
    /\ sub' = [sub EXCEPT ![u] = ActiveRow(end)]
    /\ periods' = periods \cup {[user |-> u, payment |-> p, start |-> start, end |-> end]}
    /\ user' = [user EXCEPT ![u].status = "active"]

\* activateSubscription, one transaction: the subscription, the payment and the user.
Activated(p, start) ==
    LET u == Payer[p]
        end == start + Days
    IN
    /\ sub' = [sub EXCEPT ![u] = ActiveRow(end)]
    /\ periods' = periods \cup {[user |-> u, payment |-> p, start |-> start, end |-> end]}
    /\ Promoted(u, end)

\* A date read back as text has no getTime: the transaction throws and is rolled back.
Activate(w) ==
    /\ At(w, "activate")
    /\ task[w].date = "Date"
    /\ LET p == task[w].payment
           u == Payer[p]
       IN
       /\ Activated(p, PeriodStart(u, submitted[p]))
       /\ task' = [task EXCEPT ![w].phase = "close", ![w].end = PeriodStart(u, submitted[p]) + Days]
       /\ IF EndedBy(u) THEN raced' = raced \cup {u} /\ UNCHANGED <<doubted, slipped>>
          ELSE /\ raced' = raced \ {u}
               /\ doubted' = doubted \ {u}
               /\ slipped' = slipped \ {u}
    /\ UNCHANGED <<store, queue, channel, bounds, warnings, job,
                   decided, lost, overlapped, unsaved, unrecorded>>

\* The callback returns without an activation, and the application will be closed as approved.
NotActivated(w) ==
    /\ lost' = lost \cup {task[w].payment}
    /\ Goto(w, "close")
    /\ UNCHANGED <<database, queue, channel, now, warnings, job,
                   decided, overlapped, unsaved, unrecorded, raced, doubted, slipped>>

\* handleSubscriptionApproval knows no drivers' channel: it thanks the user and returns.
NoDriversChannel(w) == At(w, "activate") /\ Occurs("unbound") /\ NotActivated(w)

\* The transaction throws: the user is told to write to the support.
ActivateFails(w) ==
    /\ At(w, "activate")
    /\ IF task[w].date = "text" THEN UNCHANGED spent ELSE Occurs("activate")
    /\ NotActivated(w)

\* A link for one member until the period's end.
InviteLink(u, end) == [links EXCEPT ![u] = @ \cup ({end} \ {0})]

\* An activated user gets a link, if Telegram makes it; then the callback returns, the object
\* is approved and the card loses its buttons.
Close(w) ==
    /\ At(w, "close")
    /\ LET p == task[w].payment IN
       /\ entry' = [entry EXCEPT ![p] = IF @.by = task[w].by THEN [@ EXCEPT !.status = "approved"]
                                        ELSE @]
       /\ decided' = decided \cup {p}
       /\ \/ /\ links' = InviteLink(Payer[p], task[w].end)
             /\ UNCHANGED spent
          \/ Occurs("invite") /\ UNCHANGED links
    /\ task' = [task EXCEPT ![w] = [Blank EXCEPT !.phase = "remove", !.payment = task[w].payment]]
    /\ UNCHANGED <<database, submitted, member, events, now, warnings, job,
                   lost, overlapped, unsaved, unrecorded, raced, doubted, slipped>>

RemovePersistedEntry(w) ==
    /\ At(w, "remove")
    /\ \/ store' = DeleteCallbackMapRecord(task[w].payment) /\ UNCHANGED <<unsaved, spent>>
       \/ Occurs("delete") /\ unsaved' = unsaved \cup {task[w].payment} /\ UNCHANGED store
    /\ Done(w)
    /\ UNCHANGED <<sub, user, periods, queue, channel, now, warnings, job,
                   decided, lost, overlapped, unrecorded, raced, doubted, slipped>>

-----------------------------------------------------------------------------
(* The scheduled maintenance.                                              *)

ExpiringSoon(at) ==
    {u \in Users : /\ sub[u].status = "active"
                   /\ sub[u].end > at /\ sub[u].end <= at + Warn
                   /\ sub[u].warned # NULL => sub[u].warned + Warn < sub[u].end}

\* Slip: the horizon of the warnings instead of the present.
SlipToExpire(at) == {u \in Users : sub[u].status = "active" /\ sub[u].end <= at + Warn}

\* Slip: only who was warned is put out.
SlipToExpireWarned(at) ==
    {u \in Users : sub[u].status = "active" /\ sub[u].end <= at /\ sub[u].warned # NULL}

ToExpire(at) == {u \in Users : sub[u].status = "active" /\ sub[u].end <= at}

EndsOf(us) == [u \in Users |-> IF u \in us THEN sub[u].end ELSE 0]

JobAt(phase) == job # NULL /\ job.phase = phase

Run(phase, at, todo, list) ==
    [phase |-> phase, at |-> at, todo |-> todo, list |-> list, end |-> EndsOf(todo \cup list)]

\* The cron's tick and the query of the warnings, which may fail; a tick is left out while a
\* run still works.
RunMaintenance ==
    /\ job = NULL
    /\ \/ /\ job' = Run(IF ExpiringSoon(now) = {} THEN "find" ELSE "send", now, ExpiringSoon(now), {})
          /\ UNCHANGED spent
       \/ Occurs("find") /\ job' = Run("find", now, {}, {})
    /\ UNCHANGED <<database, queue, channel, excuses, now, warnings, task>>

Warned(u, end) ==
    LET first == [user |-> u, end |-> end, nth |-> 1] IN
    IF first \in warnings THEN [first EXCEPT !.nth = 2] ELSE first

\* sendWarning of the next subscription; a failure is logged.
SendWarning ==
    /\ JobAt("send")
    /\ \E u \in job.todo :
         /\ job' = [job EXCEPT !.phase = "record", !.list = {u}]
         /\ \/ /\ warnings' = warnings \cup {Warned(u, job.end[u])}
               /\ UNCHANGED spent
            \/ Occurs("warn") /\ UNCHANGED warnings
    /\ UNCHANGED <<database, queue, channel, excuses, now, task>>

Recorded(u) ==
    IF job.todo = {u} THEN Run("find", job.at, {}, {})
    ELSE [job EXCEPT !.phase = "send", !.todo = @ \ {u}, !.list = {}]

\* In the finally block: also a warning that failed is recorded.
RecordSubscriptionWarning ==
    /\ JobAt("record")
    /\ \E u \in job.list :
         /\ \/ sub' = [sub EXCEPT ![u].warned = now] /\ UNCHANGED <<unrecorded, spent>>
            \/ /\ Occurs("record")
               /\ unrecorded' = unrecorded \cup {<<u, job.end[u]>>}
               /\ UNCHANGED sub
         /\ job' = Recorded(u)
    /\ UNCHANGED <<user, periods, store, queue, channel, now, warnings, task,
                   decided, lost, overlapped, unsaved, raced, doubted, slipped>>

\* The rest of the run, expireStaleOrders and the cleanup, is outside of this module.
FindSubscriptionsToExpire ==
    /\ JobAt("find")
    /\ \/ /\ LET found == ToExpire(job.at) IN
             job' = IF found = {} THEN NULL
                    ELSE Run("mark", job.at, {}, found)
          /\ UNCHANGED spent
       \/ Occurs("find") /\ job' = NULL
    /\ UNCHANGED <<database, queue, channel, excuses, now, warnings, task>>

\* The statement tests the status of the rows it was given, not their dates.
Marked(us) ==
    sub' = [u \in Users |-> IF u \in us /\ sub[u].status # "expired"
                            THEN [sub[u] EXCEPT !.status = "expired", !.warned = NULL]
                            ELSE sub[u]]

MarkSubscriptionsExpired ==
    /\ JobAt("mark")
    /\ \/ /\ Marked(job.list)
          /\ job' = [job EXCEPT !.phase = "users", !.todo = job.list]
          /\ UNCHANGED spent
       \/ Occurs("mark") /\ job' = NULL /\ UNCHANGED sub
    /\ UNCHANGED <<user, periods, store, queue, channel, excuses, now, warnings, task>>

\* updateUserSubscriptionStatus of an ended subscription.
Demoted(u, end) == user' = [user EXCEPT ![u] = [status |-> "expired", until |-> end]]

UpdateUser ==
    /\ JobAt("users")
    /\ \E u \in job.todo :
         /\ \/ Demoted(u, job.end[u]) /\ UNCHANGED spent
               /\ doubted' = IF u \in raced THEN doubted \cup {u} ELSE doubted
            \/ Occurs("user") /\ doubted' = doubted \cup {u} /\ UNCHANGED user
         /\ job' = IF job.todo = {u} THEN [job EXCEPT !.phase = "kick", !.todo = job.list]
                   ELSE [job EXCEPT !.todo = @ \ {u}]
    /\ UNCHANGED <<sub, periods, store, queue, channel, now, warnings, task,
                   decided, lost, overlapped, unsaved, unrecorded, raced, slipped>>

\* The message to the user, then removeUserFromChannel: a failure is logged and never retried.
RemoveUserFromChannel ==
    /\ JobAt("kick")
    /\ \E u \in job.todo :
         /\ \/ /\ member' = member \ {u}
               /\ events' = IF u \in member THEN events \cup {[user |-> u, kind |-> "kicked"]}
                            ELSE events
               /\ UNCHANGED <<slipped, spent>>
            \/ /\ Occurs("kick")
               /\ slipped' = slipped \cup {u}
               /\ UNCHANGED <<member, events>>
         /\ job' = IF job.todo = {u} THEN NULL
                   ELSE [job EXCEPT !.todo = @ \ {u}, !.list = @ \ {u}]
    /\ UNCHANGED <<database, queue, links, now, warnings, task,
                   decided, lost, overlapped, unsaved, unrecorded, raced, doubted>>

JobStep ==
    \/ RunMaintenance \/ SendWarning \/ RecordSubscriptionWarning
    \/ FindSubscriptionsToExpire \/ MarkSubscriptionsExpired \/ UpdateUser \/ RemoveUserFromChannel

-----------------------------------------------------------------------------
(* The channel: what its people do, and the two handlers.                  *)

Enters(u, slips) ==
    /\ member' = member \cup {u}
    /\ slipped' = IF slips \/ EndedBy(u) THEN slipped \cup {u} ELSE slipped

Leave(u) ==
    /\ u \in member /\ Spend
    /\ member' = member \ {u}
    /\ events' = events \cup {[user |-> u, kind |-> "left"]}
    /\ UNCHANGED <<database, queue, excuses, now, warnings, links, task, job>>

\* A link stays good until its day, also after the subscription was ended early.
JoinByLink(u) ==
    /\ u \notin member
    /\ \E e \in links[u] :
         /\ e > now
         /\ links' = [links EXCEPT ![u] = @ \ {e}]
    /\ Enters(u, sub[u].status # "active")
    /\ UNCHANGED <<database, queue, bounds, warnings, events, task, job,
                   decided, lost, overlapped, unsaved, unrecorded, raced, doubted>>

HasActiveSubscription(u) == sub[u].status = "active" /\ sub[u].end > now

RequestJoin(w, u) ==
    /\ Idle(w) /\ u \notin member /\ Spend
    /\ task' = [task EXCEPT ![w] = [Blank EXCEPT !.phase = "check", !.user = u]]
    /\ UNCHANGED <<database, queue, channel, excuses, now, warnings, job>>

\* A request without an active subscription is declined, as is one whose check failed.
CheckRequest(w) ==
    /\ At(w, "check")
    /\ LET u == task[w].user IN
       IF HasActiveSubscription(u)
       THEN task' = [task EXCEPT ![w].phase = "admit",
                                 ![w].end = IF sub[u].status = "active" THEN sub[u].end ELSE 0]
       ELSE Done(w)
    /\ UNCHANGED <<database, queue, channel, excuses, bounds, warnings, job>>

ApproveChatJoinRequest(w) ==
    /\ At(w, "admit")
    /\ LET u == task[w].user IN
       Enters(u, task[w].end > 0 /\ sub[u].status # "active") \/ UNCHANGED <<member, slipped>>
    /\ Done(w)
    /\ UNCHANGED <<database, queue, links, events, bounds, warnings, job,
                   decided, lost, overlapped, unsaved, unrecorded, raced, doubted>>

\* registerMembershipSync: a member has left or was removed.
MemberUpdate(w) ==
    /\ Idle(w)
    /\ \E e \in events :
         /\ events' = events \ {e}
         /\ task' = [task EXCEPT ![w] = [Blank EXCEPT !.phase = "look", !.user = e.user,
                                                      !.kind = e.kind]]
    /\ UNCHANGED <<database, queue, member, links, excuses, bounds, warnings, job>>

LookForSubscription(w) ==
    /\ At(w, "look")
    /\ LET u == task[w].user IN
       IF HasActiveSubscription(u)
       THEN task' = [task EXCEPT ![w].phase = "expire", ![w].end = sub[u].end]
       ELSE Done(w)
    /\ UNCHANGED <<database, queue, channel, excuses, bounds, warnings, job>>

ExpireLeaver(w) ==
    /\ At(w, "expire")
    /\ \/ Marked({task[w].user}) /\ Goto(w, "demote") /\ UNCHANGED spent
       \/ Occurs("mark") /\ Done(w) /\ UNCHANGED sub
    /\ UNCHANGED <<user, periods, store, queue, channel, excuses, now, warnings, job>>

DemoteLeaver(w) ==
    /\ At(w, "demote")
    /\ LET u == task[w].user IN
       \/ /\ Demoted(u, task[w].end)
          /\ doubted' = IF u \in raced THEN doubted \cup {u} ELSE doubted
          /\ UNCHANGED spent
       \/ Occurs("user") /\ doubted' = doubted \cup {u} /\ UNCHANGED user
    /\ Done(w)
    /\ UNCHANGED <<sub, periods, store, queue, channel, now, warnings, job,
                   decided, lost, overlapped, unsaved, unrecorded, raced, slipped>>

-----------------------------------------------------------------------------
(* The process and time.                                                   *)

HeldPayments == {task[w].payment : w \in {v \in Workers : task[v] # NULL}} \ {NULL}
HeldUsers == {u \in Users : EndedBy(u)} \cup (IF job = NULL THEN {} ELSE job.list)

\* The process dies and starts again; restore() reads the rows, or fails and leaves them.
Restart ==
    /\ Occurs("crash")
    /\ task' = [w \in Workers |-> NULL]
    /\ job' = NULL
    /\ \/ entry' = [p \in Payments |-> IF p \in ListCallbackMapRecords
                                                 THEN Hydrated(NULL) ELSE NULL]
       \/ entry' = [p \in Payments |-> NULL]
    /\ unsaved' = unsaved \cup HeldPayments
    /\ unrecorded' = IF JobAt("record") THEN unrecorded \cup {<<u, job.end[u]>> : u \in job.list}
                     ELSE unrecorded
    /\ doubted' = doubted \cup HeldUsers
    /\ slipped' = slipped \cup HeldUsers
    /\ UNCHANGED <<database, submitted, channel, now, warnings,
                   decided, lost, overlapped, raced>>

Tick ==
    /\ now < MaxTime
    /\ now' = now + 1
    /\ UNCHANGED <<database, queue, channel, excuses, spent, warnings, task, job>>

Init ==
    /\ now = 0
    /\ \E us \in SUBSET Users, end \in FirstEnds :
         /\ sub = [u \in Users |-> IF u \in us
                     THEN [status |-> "active", end |-> end, warned |-> NULL]
                     ELSE [status |-> "none", end |-> 0, warned |-> NULL]]
         /\ user = [u \in Users |-> IF u \in us
                      THEN [status |-> "active", until |-> end]
                      ELSE [status |-> "none", until |-> 0]]
         /\ member = us
         /\ periods = {[user |-> u, payment |-> NULL, start |-> 0, end |-> end] : u \in us}
    /\ links = [u \in Users |-> {}]
    /\ submitted = [p \in Payments |-> NULL]
    /\ entry = [p \in Payments |-> NULL]
    /\ store = {} /\ task = [w \in Workers |-> NULL] /\ job = NULL /\ events = {}
    /\ warnings = {}
    /\ decided = {} /\ lost = {} /\ overlapped = {} /\ unsaved = {} /\ unrecorded = {}
    /\ raced = {} /\ doubted = {} /\ slipped = {}
    /\ spent = 0

Worker(w) ==
    \/ \E p \in Payments : Submit(w, p) \/ Press(w, p)
    \/ PersistEntry(w) \/ Load(w) \/ Activate(w) \/ NoDriversChannel(w)
    \/ ActivateFails(w) \/ Close(w)
    \/ RemovePersistedEntry(w)
    \/ \E u \in Users : RequestJoin(w, u)
    \/ CheckRequest(w) \/ ApproveChatJoinRequest(w)
    \/ MemberUpdate(w) \/ LookForSubscription(w) \/ ExpireLeaver(w) \/ DemoteLeaver(w)

Next ==
    \/ \E w \in Workers : Worker(w)
    \/ JobStep
    \/ \E u \in Users : Leave(u) \/ JoinByLink(u)
    \/ Restart \/ Tick

\* The cron fires again and again, and a run of the job goes on.
Fairness == WF_vars(JobStep)

Spec == Init /\ [][Next]_vars /\ Fairness

-----------------------------------------------------------------------------
(* Properties.                                                             *)

TypeOK ==
    /\ sub \in [Users -> Row] /\ user \in [Users -> User]
    /\ entry \in [Payments -> Entry \cup {NULL}] /\ store \subseteq Payments
    /\ task \in [Workers -> Task \cup {NULL}] /\ job \in Job \cup {NULL}
    /\ member \subseteq Users /\ links \in [Users -> SUBSET Ends] /\ events \subseteq Event
    /\ periods \subseteq Period /\ warnings \subseteq Warning
    /\ now \in Time /\ spent \in 0 .. MaxEvents /\ submitted \in [Payments -> Time \cup {NULL}]
    /\ {decided, lost, overlapped, unsaved} \subseteq SUBSET Payments
    /\ {raced, doubted, slipped} \subseteq SUBSET Users /\ unrecorded \subseteq Users \X Ends

\* A payment is counted once, unless two presses of its button overlapped.
PaidOnce ==
    \A x, y \in periods :
       x.payment = y.payment /\ x.payment # NULL => x = y \/ x.payment \in overlapped

\* The days of two payments of a user never overlap and no paid day is skipped before the submission.
PeriodsDisjoint ==
    \A x, y \in periods :
       x # y /\ x.user = y.user => x.end <= y.start \/ y.end <= x.start

\* An approved application has its days, unless the channel was unbound, the transaction failed
\* or the application had been read back from the store.
ApprovedIsPaid ==
    \A p \in Payments :
       entry[p] # NULL /\ entry[p].status = "approved" =>
          p \in lost \/ \E x \in periods : x.payment = p

\* An approved application does not come back, unless its row could not be written or removed.
DecidedStaysDecided ==
    \A p \in decided \ (unsaved \cup overlapped) :
       /\ Deciding(p) = {} => p \notin store
       /\ entry[p] # NULL => entry[p].status = "approved"

\* When nothing works on a user, the subscription in her row of users is the one of her row of
\* subscriptions.
UsersAgree ==
    \A u \in Users : ~EndedBy(u) /\ u \notin doubted /\ sub[u].status # "none" =>
       user[u] = [status |-> sub[u].status, until |-> sub[u].end]

\* Who is in the channel has an active subscription or is being removed.
MembersPaid ==
    \A u \in member : sub[u].status = "active" \/ u \in slipped \/ EndedBy(u)

\* Nobody is warned twice of the same end, unless the first warning could not be recorded.
WarnedOnce ==
    \A x, y \in warnings :
       x.user = y.user /\ x.end = y.end => x = y \/ <<x.user, x.end>> \in unrecorded

\* Days left are only taken from somebody who left the channel, or who paid at that moment.
DaysLeftStay ==
    [][\A u \in Users :
         sub[u].status = "active" /\ sub'[u].status = "expired" /\ sub[u].end > now =>
            \/ u \in raced
            \/ \E w \in Workers : At(w, "expire") /\ task[w].user = u /\ task[w].kind = "left"]_vars

\* A member whose days are over is removed or pays again, unless the removal failed.
EndedIsOut ==
    \A u \in Users :
       (u \in member /\ sub[u].status = "active" /\ sub[u].end <= now)
          ~> (u \notin member \/ u \in slipped \/ sub[u].end > now)

\* An application is decided once, for days of its own that it paid for.
PaymentsSound == TypeOK /\ PaidOnce /\ PeriodsDisjoint /\ ApprovedIsPaid /\ DecidedStaysDecided

\* The users, the channel and the warnings follow the subscriptions.
AccountsAgree == UsersAgree /\ MembersPaid /\ WarnedOnce
=============================================================================
