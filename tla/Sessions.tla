------------------------------ MODULE Sessions ------------------------------
(***************************************************************************)
(* The session of one private chat: how an update loads and saves it       *)
(* (middlewares/session.ts, db/sessions.ts, infra/sessionCache.ts), how a  *)
(* step of the screen is noted in the same row (ui.ts), and the two jobs   *)
(* that work on the rows by themselves: the reminder of an unpaid          *)
(* subscription (jobs/paymentFollowUp.ts) and the nudge of a chat that     *)
(* went quiet (jobs/nudger.ts).                                            *)
(*                                                                         *)
(* Abstractions: an update, the step it shows and the payment it asks for  *)
(* have the update's number for a time; a time is only past or not yet     *)
(* past its threshold (`due`, `quiet`); of the session only the list of    *)
(* messages to delete and the subscription are kept.  The row is never     *)
(* deleted: nothing calls clearSession.  `reminded`, `nudges` and          *)
(* `troubles` are history variables.                                       *)
(***************************************************************************)
EXTENDS ChatUpdates

CONSTANTS
    Ticks,        \* bound: ticks of the nudger running at the same time
    MaxUpdates,   \* bound: updates ever received
    MaxPlanned    \* bound: reminders ever planned

ASSUME SessionsAssumption ==
    /\ MaxUpdates \in Nat /\ MaxPlanned \in Nat /\ MaxTroubles \in Nat
    /\ Troubles \subseteq {"overlap", "connect", "track", "save", "redis", "telegram", "db", "crash"}

VARIABLES
    row,          \* the chat's row of `sessions`, or NULL
    cache,        \* its entry in Redis, or NULL
    updates,      \* how many were received
    due,          \* payments asked for up to this one are 15 minutes old
    followUp,     \* the run of the payment job
    planned,      \* how many reminders were planned
    tick,         \* the runs of the nudger
    reminded,     \* reminders delivered for each payment
    nudges        \* nudges delivered for each step

jobs == <<due, followUp, planned, tick, reminded, nudges>>
vars == <<row, cache, task, updates, jobs, troubles>>

Updates == 1 .. MaxUpdates
\* `asked` and `told` stand for paymentRequestedAt and lastReminderAt, 0 for none; a
\* payment asked for also sets the status, which nothing resets.
Data == [list : BOOLEAN, asked : 0 .. MaxUpdates, told : 0 .. MaxPlanned]
Row == [data : Data, step : 0 .. MaxUpdates, quiet : BOOLEAN, nudged : BOOLEAN]
Task == [n : Updates, kind : {"plain", "step", "subscribe"}, copy : Data \cup {NULL},
         degraded : BOOLEAN, threw : BOOLEAN,
         phase : {"load", "handle", "send", "track", "save", "cache"}]
FollowUp == [phase : {"plan", "send", "revert"}, told : 0 .. MaxPlanned, asked : 0 .. MaxUpdates]
Tick == [phase : {"send", "mark"}, step : Updates]

\* "None" is none of the records.
ASSUME NullAssumption == NULL \notin Row \cup Data \cup Task \cup FollowUp \cup Tick

createDefaultState == [list |-> TRUE, asked |-> 0, told |-> 0]
Empty == [list |-> FALSE, asked |-> 0, told |-> 0]     \* the '{}' of a row that ui.ts makes

Idle == /\ \A w \in Workers : task[w] = NULL
        /\ followUp = NULL /\ \A t \in Ticks : tick[t] = NULL

\* What begins while something else is in flight may interfere with it.
Begins == IF Idle THEN Quiet ELSE Occurs("overlap")

-----------------------------------------------------------------------------
(* An update: middlewares/session.ts                                         *)

Receive(w, kind) ==
    /\ task[w] = NULL /\ updates < MaxUpdates
    /\ updates' = updates + 1
    /\ task' = [task EXCEPT ![w] = [n |-> updates', kind |-> kind, copy |-> cache, phase |-> "load",
                                    degraded |-> FALSE, threw |-> FALSE]]
    /\ Begins /\ UNCHANGED <<row, cache, jobs>>

Cached(w) == IF task[w].copy # NULL THEN task[w].copy ELSE createDefaultState

\* Slip: what is cached goes before what is stored.
SlipLoad(w) ==
    /\ At(w, "load")
    /\ task' = [task EXCEPT ![w].phase = "handle",
                            ![w].copy = IF @ = NULL /\ row # NULL THEN row.data ELSE Cached(w)]
    /\ Quiet /\ UNCHANGED <<row, cache, updates, jobs>>

\* loadSessionState; normaliseSessionState does not restore a missing list.
Load(w) ==
    /\ At(w, "load")
    /\ task' = [task EXCEPT ![w].phase = "handle",
                            ![w].copy = IF row # NULL THEN row.data ELSE Cached(w)]
    /\ Quiet /\ UNCHANGED <<row, cache, updates, jobs>>

\* No connection, or no answer: the update goes on in safe mode.
LoadFails(w) ==
    /\ At(w, "load") /\ Occurs("connect")
    /\ task' = [task EXCEPT ![w].phase = "handle", ![w].copy = Cached(w), ![w].degraded = TRUE]
    /\ UNCHANGED <<row, cache, updates, jobs>>

\* A handler in safe mode saves nothing; one that threw caches nothing.
AfterHandler(w, threw) ==
    task' = [task EXCEPT ![w].threw = threw, ![w].phase = IF task[w].degraded THEN "cache" ELSE "save"]

\* autoDelete reads the length of the list.
Throw(w) ==
    /\ At(w, "handle") /\ ~task[w].copy.list
    /\ AfterHandler(w, TRUE)
    /\ Quiet /\ UNCHANGED <<row, cache, updates, jobs>>

\* stateGate answers an update in safe mode by a card; startExecutorSubscription notes
\* that a payment is awaited before it shows how to pay.
Handle(w) ==
    LET t == task[w] IN
    /\ At(w, "handle") /\ t.copy.list
    /\ IF t.degraded THEN To(w, "send")
       ELSE IF t.kind = "subscribe"
       THEN task' = [task EXCEPT ![w].copy.asked = t.n, ![w].phase = "send"]
       ELSE IF t.kind = "step" THEN To(w, "send") ELSE AfterHandler(w, FALSE)
    /\ Quiet /\ UNCHANGED <<row, cache, updates, jobs>>

\* ui.step
Send(w) ==
    /\ At(w, "send")
    /\ \/ To(w, "track") /\ Quiet
       \/ AfterHandler(w, TRUE) /\ Occurs("telegram")
    /\ UNCHANGED <<row, cache, updates, jobs>>

\* updateFlowMeta, on a connection of its own: a chat without a row gets an empty session.
Track(w) ==
    /\ At(w, "track")
    /\ row' = [data |-> IF row = NULL THEN Empty ELSE row.data,
               step |-> task[w].n, quiet |-> FALSE, nudged |-> FALSE]
    /\ AfterHandler(w, FALSE)
    /\ Quiet /\ UNCHANGED <<cache, updates, jobs>>

TrackFails(w) ==
    /\ At(w, "track") /\ Occurs("track")
    /\ AfterHandler(w, FALSE)
    /\ UNCHANGED <<row, cache, updates, jobs>>

Stored(data) == IF row = NULL THEN [data |-> data, step |-> 0, quiet |-> FALSE, nudged |-> FALSE]
                ELSE [row EXCEPT !.data = data]

AfterSave(w) == IF task[w].threw THEN task' = [task EXCEPT ![w] = NULL] ELSE To(w, "cache")

Save(w) ==
    /\ At(w, "save")
    /\ row' = Stored(task[w].copy)
    /\ AfterSave(w)
    /\ Quiet /\ UNCHANGED <<cache, updates, jobs>>

SaveFails(w) ==
    /\ At(w, "save") /\ Occurs("save")
    /\ AfterSave(w)
    /\ UNCHANGED <<row, cache, updates, jobs>>

\* saveSessionCache, after the connection was given back.
SaveCache(w) ==
    /\ At(w, "cache")
    /\ \/ cache' = (IF task[w].threw THEN cache ELSE task[w].copy) /\ Quiet
       \/ UNCHANGED cache /\ Occurs("redis")
    /\ task' = [task EXCEPT ![w] = NULL]
    /\ UNCHANGED <<row, updates, jobs>>

CacheExpires ==
    /\ cache # NULL /\ cache' = NULL
    /\ Quiet /\ UNCHANGED <<row, task, updates, jobs>>

-----------------------------------------------------------------------------
(* jobs/paymentFollowUp.ts: `running` keeps it to one run at a time          *)

BecomesDue ==
    /\ due < updates /\ due' = due + 1
    /\ Quiet /\ UNCHANGED <<row, cache, task, updates, followUp, planned, tick, reminded, nudges>>

fetchPendingSubscriptions ==
    /\ followUp = NULL
    /\ row # NULL /\ row.data.asked # 0 /\ row.data.told = 0
    /\ followUp' = [phase |-> "plan", told |-> 0, asked |-> 0]
    /\ Begins
    /\ UNCHANGED <<row, cache, task, updates, due, planned, tick, reminded, nudges>>

\* Slip: the 15 minutes are never over for the last payment.
SlipShouldSend(d) == d.asked # 0 /\ d.told = 0 /\ d.asked < due

shouldSendReminder(d) == d.asked # 0 /\ d.told = 0 /\ d.asked <= due

Planning == followUp # NULL /\ followUp.phase = "plan"

\* In one transaction, the row locked.
planReminder ==
    /\ Planning
    /\ IF shouldSendReminder(row.data)
       THEN /\ planned < MaxPlanned /\ planned' = planned + 1
            /\ row' = [row EXCEPT !.data.told = planned']
            /\ followUp' = [phase |-> "send", told |-> planned', asked |-> row.data.asked]
       ELSE followUp' = NULL /\ UNCHANGED <<row, planned>>
    /\ Quiet /\ UNCHANGED <<cache, task, updates, due, tick, reminded, nudges>>

PlanFails ==
    /\ Planning /\ Occurs("db")
    /\ followUp' = NULL
    /\ UNCHANGED <<row, cache, task, updates, due, planned, tick, reminded, nudges>>

Deliver(r) == reminded' = [reminded EXCEPT ![r] = IF @ < 2 THEN @ + 1 ELSE @]

\* A call that failed may have been carried out.
SendReminder ==
    /\ followUp # NULL /\ followUp.phase = "send"
    /\ \/ Deliver(followUp.asked) /\ followUp' = NULL /\ Quiet
       \/ /\ Deliver(followUp.asked) \/ UNCHANGED reminded
          /\ followUp' = [followUp EXCEPT !.phase = "revert"] /\ Occurs("telegram")
    /\ UNCHANGED <<row, cache, task, updates, due, planned, tick, nudges>>

revertReminderFlag ==
    /\ followUp # NULL /\ followUp.phase = "revert"
    /\ \/ /\ row' = IF row.data.told = followUp.told THEN [row EXCEPT !.data.told = 0] ELSE row
          /\ Quiet
       \/ UNCHANGED row /\ Occurs("db")
    /\ followUp' = NULL
    /\ UNCHANGED <<cache, task, updates, due, planned, tick, reminded, nudges>>

-----------------------------------------------------------------------------
(* jobs/nudger.ts: ticks do not wait for each other                          *)

GoesQuiet ==
    /\ row # NULL /\ row.step # 0 /\ ~row.quiet
    /\ row' = [row EXCEPT !.quiet = TRUE]
    /\ Quiet /\ UNCHANGED <<cache, task, updates, jobs>>

fetchPendingSessions(t) ==
    /\ tick[t] = NULL
    /\ row # NULL /\ row.quiet /\ ~row.nudged
    /\ tick' = [tick EXCEPT ![t] = [phase |-> "send", step |-> row.step]]
    /\ Begins
    /\ UNCHANGED <<row, cache, task, updates, due, followUp, planned, reminded, nudges>>

deliverNudge(t) ==
    /\ tick[t] # NULL /\ tick[t].phase = "send"
    /\ LET Delivered == nudges' = [nudges EXCEPT ![tick[t].step] = IF @ < 2 THEN @ + 1 ELSE @] IN
         \/ Delivered /\ tick' = [tick EXCEPT ![t].phase = "mark"] /\ Quiet
         \/ /\ Delivered \/ UNCHANGED nudges
            /\ tick' = [tick EXCEPT ![t] = NULL] /\ Occurs("telegram")
    /\ UNCHANGED <<row, cache, task, updates, due, followUp, planned, reminded>>

\* Slip: nothing is marked.
SlipMark(t) ==
    /\ tick[t] # NULL /\ tick[t].phase = "mark"
    /\ tick' = [tick EXCEPT ![t] = NULL]
    /\ Quiet /\ UNCHANGED <<row, cache, task, updates, due, followUp, planned, reminded, nudges>>

\* Whatever step the row has by now.
markNudged(t) ==
    /\ tick[t] # NULL /\ tick[t].phase = "mark"
    /\ \/ row' = [row EXCEPT !.nudged = TRUE] /\ Quiet
       \/ UNCHANGED row /\ Occurs("db")
    /\ tick' = [tick EXCEPT ![t] = NULL]
    /\ UNCHANGED <<cache, task, updates, due, followUp, planned, reminded, nudges>>

Crash ==
    /\ ~Idle /\ Occurs("crash")
    /\ task' = [w \in Workers |-> NULL] /\ followUp' = NULL /\ tick' = [t \in Ticks |-> NULL]
    /\ UNCHANGED <<row, cache, updates, due, planned, reminded, nudges>>

-----------------------------------------------------------------------------
Init ==
    /\ row = NULL /\ cache = NULL /\ task = [w \in Workers |-> NULL] /\ updates = 0
    /\ due = 0 /\ followUp = NULL /\ planned = 0 /\ tick = [t \in Ticks |-> NULL]
    /\ reminded = [r \in Updates |-> 0] /\ nudges = [s \in Updates |-> 0]
    /\ troubles = <<>>

Work(w) ==
    \/ Load(w) \/ LoadFails(w) \/ Throw(w) \/ Handle(w) \/ Send(w) \/ Track(w) \/ TrackFails(w)
    \/ Save(w) \/ SaveFails(w) \/ SaveCache(w)

FollowUpStep == planReminder \/ PlanFails \/ SendReminder \/ revertReminderFlag
TickStep(t) == deliverNudge(t) \/ markNudged(t)

Next ==
    \/ \E w \in Workers :
         (\E kind \in {"plain", "step", "subscribe"} : Receive(w, kind)) \/ Work(w)
    \/ CacheExpires \/ BecomesDue \/ fetchPendingSubscriptions \/ FollowUpStep
    \/ GoesQuiet \/ (\E t \in Ticks : fetchPendingSessions(t) \/ TickStep(t)) \/ Crash

\* Handlers and jobs go on, time passes and cron calls both jobs again and again; nothing
\* makes users write.
Spec ==
    /\ Init /\ [][Next]_vars
    /\ \A w \in Workers : WF_vars(Work(w))
    /\ WF_vars(BecomesDue) /\ WF_vars(GoesQuiet)
    /\ WF_vars(fetchPendingSubscriptions) /\ WF_vars(FollowUpStep)
    /\ \A t \in Ticks : WF_vars(fetchPendingSessions(t)) /\ WF_vars(TickStep(t))

-----------------------------------------------------------------------------
(* Properties *)

\* The variables keep their types; the jobs only run over a row.
TypeOK ==
    /\ row \in Row \cup {NULL} /\ cache \in Data \cup {NULL}
    /\ task \in [Workers -> Task \cup {NULL}]
    /\ \A w \in Workers : task[w] # NULL /\ task[w].phase # "load" => task[w].copy # NULL
    /\ updates \in 0 .. MaxUpdates /\ due \in 0 .. updates /\ planned \in 0 .. MaxPlanned
    /\ followUp \in FollowUp \cup {NULL} /\ tick \in [Ticks -> Tick \cup {NULL}]
    /\ followUp # NULL \/ (\E t \in Ticks : tick[t] # NULL) => row # NULL
    /\ reminded \in [Updates -> 0 .. 2] /\ nudges \in [Updates -> 0 .. 2]
    /\ troubles \in Seq(Troubles) /\ Len(troubles) <= MaxTroubles

\* The stored subscription never goes back: neither a payment asked for nor a reminder sent
\* is forgotten, not after an outage, whatever the cache held, unless an update and
\* something else were in flight together; only a reminder that failed is taken back.
StoredKept ==
    [][row # NULL /\ row.data.list => LET d == row'.data IN
         \/ d.asked >= row.data.asked /\ (d.told >= row.data.told \/ revertReminderFlag)
         \/ Met({"overlap"})]_vars

\* A chat is reminded once of a payment it asked for, unless a call to Telegram failed or
\* an update was in flight when the job noted the reminder.
RemindedOnce ==
    Met({"telegram", "overlap"}) \/ \A r \in Updates : reminded[r] <= 1

\* A step that went quiet is nudged once, unless the call or its mark failed, the process
\* died between them, or two ticks met.
NudgedOnce ==
    Met({"telegram", "db", "crash", "overlap"}) \/ \A s \in Updates : nudges[s] <= 1

\* The first payment a chat asks for is reminded of when it is 15 minutes old, or an
\* update or a call got in the way.
PaymentReminded ==
    (row # NULL /\ row.data.asked # 0)
      ~> (troubles # <<>> \/ \E r \in Updates : reminded[r] > 0)

\* A chat that stays at a step is nudged, unless something got in the way.
LastStep == IF row = NULL THEN 0 ELSE row.step
QuietNudged ==
    \A s \in Updates :
      LastStep = s ~> (troubles # <<>> \/ nudges[s] > 0 \/ LastStep # s)

\* A chat whose stored session lacks its list cannot be served any more: every update
\* throws.  It takes an outage, a crash, a failed save or overlapping updates.
ServedAgain ==
    Met({"connect", "crash", "save", "overlap"})
      \/ \A w \in Workers : At(w, "handle") => task[w].copy.list

\* The jobs and the screen leave sessions that can be served, and notify once.
SessionsSound == TypeOK /\ RemindedOnce /\ NudgedOnce /\ ServedAgain

\* What the jobs are for happens.
NotifiedInTime == PaymentReminded /\ QuietNudged
=============================================================================
