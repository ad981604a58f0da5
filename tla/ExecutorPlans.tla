---------------------------- MODULE ExecutorPlans ----------------------------
(***************************************************************************)
(* The plans of executors: the moderators' commands                        *)
(* (bot/channels/commands/form.ts), the Redis list that keeps what the     *)
(* database did not take (infra/executorPlanQueue.ts), the table           *)
(* (db/executorPlans.ts) and the reminders, jobs of a BullMQ queue         *)
(* (jobs/executorPlanReminders.ts).                                        *)
(*                                                                         *)
(* Four kinds of process share the table, the list and the jobs: command   *)
(* handlers (`tasks`), the reschedulings that the mutation listener starts *)
(* and nobody awaits (`schedules`), the worker (`running`, one job at a    *)
(* time) and the listing of the plans after a start (`starting`).  Each    *)
(* is split where it awaits a statement, a Redis call or Telegram.         *)
(*                                                                         *)
(* Abstractions: a job may run at any time after it was added (its due     *)
(* time, ends_at plus an offset, is not kept); executor_blocks, the access *)
(* cache, comments, cards and texts are left out, since nothing here reads *)
(* them; a flush pops as long as the list is not empty (the code stops     *)
(* after 100 items).  `period`, `applied`, `sent` and `faults` are history *)
(* variables: the program does not have them.                              *)
(***************************************************************************)
EXTENDS Integers, Sequences, FiniteSets

CONSTANTS
    MaxPlans,     \* bound: plans ever created
    Phones,
    Days,         \* durations of plans, extensions
    Stages,       \* number of reminders of a plan (5 in the code)
    Commands,     \* the kinds of command that moderators give
    Faults,       \* what may fail
    MaxFaults,    \* bound: how many failures
    MaxTasks,     \* bound: command handlers in flight
    MaxMutations, \* bound: commands given (completions count too)
    NULL

VARIABLES
    plans,        \* executor_plans
    nextPlan,     \* the sequence of its ids
    queue,        \* the Redis list of mutations
    jobs,         \* the reminder jobs; their id is <<plan, stage>>
    running,      \* the job in the worker
    schedules, tasks, starting,
    applied,      \* applied[n]: how often mutation n was executed
    sent,         \* sent[p]: the stages posted in the latest period of plan p
    faults        \* how many failures happened, and of which kinds

vars == <<plans, nextPlan, queue, jobs, running, schedules, tasks, starting,
          applied, sent, faults>>

PlanIds == 1 .. MaxPlans

Kinds == {"create", "extend", "set-start", "block", "unblock", "complete",
          "mute", "unmute", "comment", "delete"}

\* "toggle" and "status" are commands that first read; "edit" is like "status".
ASSUME PlansAssumption ==
    /\ MaxPlans \in Nat \ {0} /\ Stages \in Nat \ {0}
    /\ MaxTasks \in Nat \ {0} /\ MaxMutations \in Nat /\ MaxFaults \in Nat
    /\ Days \subseteq Nat \ {0}
    /\ Commands \subseteq (Kinds \ {"complete"}) \cup {"toggle", "status"}
    /\ Faults \subseteq {"statement", "answer", "telegram", "redis", "job", "crash"}

Row == [phone : Phones, start : Int, ends : Int, muted : BOOLEAN,
        status : {"active", "blocked", "completed"}, stage : 0 .. Stages, period : Nat]

\* arg: the phone of a create, the days of an extend or the date of a set-start.
Mutation == [n : Nat, type : Kinds \cup {"toggle", "status", "startup"},
             plan : PlanIds \cup {NULL}, arg : Nat \cup Phones \cup {NULL}]

\* What the worker has in hand.
Running == [job : PlanIds \X (0 .. Stages - 1),
            phase : {"read", "post", "advance", "complete", "remove", "add"},
            row : Row \cup {NULL}]

ASSUME NullAssumption == NULL \notin Row \cup Mutation \cup Running

Occurs(k) ==
    /\ k \in Faults /\ faults.count < MaxFaults
    /\ faults' = [count |-> faults.count + 1, kinds |-> faults.kinds \cup {k}]

-----------------------------------------------------------------------------
(* db/executorPlans.ts *)

NewPlan(phone, days) ==
    [phone |-> phone, start |-> 0, ends |-> days, muted |-> FALSE,
     status |-> "active", stage |-> 0, period |-> 1]

\* The right-hand sides of an UPDATE see the old row: the new end is the old START
\* plus the days.
Extend(row, days) ==
    [row EXCEPT !.start = row.ends, !.ends = row.start + days,
                !.stage = 0, !.status = "active", !.period = @ + 1]

SetStart(row, date) ==
    [row EXCEPT !.ends = date + (row.ends - row.start), !.start = date,
                !.stage = 0, !.period = @ + 1]

Updated(row, m) ==
    CASE m.type = "extend"    -> Extend(row, m.arg)
      [] m.type = "set-start" -> SetStart(row, m.arg)
      [] m.type = "block"     -> [row EXCEPT !.status = "blocked"]
      [] m.type = "unblock"   -> [row EXCEPT !.status = "active"]
      [] m.type = "complete"  -> [row EXCEPT !.status = "completed"]
      [] m.type = "mute"      -> [row EXCEPT !.muted = TRUE]
      [] m.type = "unmute"    -> [row EXCEPT !.muted = FALSE]
      [] m.type = "comment"   -> row

Target(m) == IF m.type = "create" THEN nextPlan ELSE m.plan
Found(m) == m.type = "create" \/ plans[m.plan] # NULL

\* findActiveExecutorPlanByPhone
HasPlan(phone) ==
    \E p \in PlanIds : /\ plans[p] # NULL
                       /\ plans[p].phone = phone /\ plans[p].status \in {"active", "blocked"}

\* applyMutation: the statement alone.
ApplyMutation(m) ==
    /\ Target(m) \in PlanIds
    /\ applied' = [applied EXCEPT ![m.n] = @ + 1]
    /\ nextPlan' = IF m.type = "create" THEN nextPlan + 1 ELSE nextPlan
    /\ IF ~Found(m) THEN UNCHANGED plans
       ELSE \/ /\ m.type = "create"
               /\ \E d \in Days : plans' = [plans EXCEPT ![nextPlan] = NewPlan(m.arg, d)]
            \/ /\ m.type = "delete"
               /\ plans' = [plans EXCEPT ![m.plan] = NULL]
            \/ /\ m.type \notin {"create", "delete"}
               /\ plans' = [plans EXCEPT ![m.plan] = Updated(@, m)]

\* processMutation: the statement, and the listener started on its result.
ProcessMutation(m) ==
    /\ ApplyMutation(m)
    /\ schedules' = schedules \cup
         IF Found(m) THEN {[id |-> <<m.n, applied[m.n]>>, plan |-> Target(m),
                            row |-> plans'[Target(m)], phase |-> "remove"]}
         ELSE {}

\* The statement fails: by a fault, or because it is the one of set-start, whose
\* first use of $2, as $2 + (ends_at - start_at), makes PostgreSQL take $2 for an
\* interval; both outcomes are allowed for it here.  When only its answer is lost, it
\* took effect, but processMutation is left before it tells the listener.
StatementFails(m) ==
    \/ Occurs("statement") /\ UNCHANGED <<plans, nextPlan, schedules, applied>>
    \/ Occurs("answer") /\ ApplyMutation(m) /\ UNCHANGED schedules
    \/ m.type = "set-start" /\ UNCHANGED <<plans, nextPlan, schedules, applied, faults>>

-----------------------------------------------------------------------------
(* scheduleReminder: five removals, then an addition.  The job in the       *)
(* worker is locked: it is not removed, and adding its id again does        *)
(* nothing.                                                                 *)

Due(row) == row # NULL /\ row.status = "active" /\ ~row.muted /\ row.stage < Stages

Locked(job) == running # NULL /\ job = running.job

RemoveScheduledReminders(p) == jobs' = {job \in jobs : job[1] # p \/ Locked(job)}
AddJob(p, row) == jobs' = jobs \cup {<<p, row.stage>>}

\* A rescheduling that nobody awaits (row = NULL after a deletion).
ScheduleRemove(s) ==
    /\ s.phase = "remove"
    /\ RemoveScheduledReminders(s.plan)
    /\ schedules' = (schedules \ {s}) \cup IF Due(s.row) THEN {[s EXCEPT !.phase = "add"]} ELSE {}
    /\ UNCHANGED <<plans, nextPlan, queue, running, tasks, starting, applied, sent, faults>>

ScheduleAdd(s) ==
    /\ s.phase = "add"
    /\ AddJob(s.plan, s.row)
    /\ schedules' = schedules \ {s}
    /\ UNCHANGED <<plans, nextPlan, queue, running, tasks, starting, applied, sent, faults>>

\* Its rejection is nobody's: only this rescheduling is lost, or the process (Crash).
ScheduleAddFails(s) ==
    /\ s.phase = "add" /\ Occurs("redis")
    /\ schedules' = schedules \ {s}
    /\ UNCHANGED <<plans, nextPlan, queue, jobs, running, tasks, starting, applied, sent>>

-----------------------------------------------------------------------------
(* Command handlers *)

Task == [mut : Mutation, phase : {"pop", "apply", "own", "reply", "refuse", "remove",
                                  "add", "enqueue"},
         item : Mutation \cup {NULL}, row : Row \cup {NULL}]

NewTask(m) == [mut |-> m, phase |-> "pop", item |-> NULL, row |-> NULL]

Become(t, u) == tasks' = (tasks \ {t}) \cup {u}
End(t) == tasks' = tasks \ {t}
To(t, phase) == Become(t, [t EXCEPT !.phase = phase])

\* A new mutation gets the next number.
Fresh(type, p, arg) == [n |-> Len(applied) + 1, type |-> type, plan |-> p, arg |-> arg]

\* What a moderator can name: a plan that exists or existed.
Arguments(type) ==
    CASE type = "extend" -> Days
      [] type = "set-start" -> {0, 1}
      [] OTHER -> {NULL}

\* A create has looked for an active plan of the phone before it flushes.
Begin ==
    /\ Cardinality(tasks) < MaxTasks
    /\ Len(applied) < MaxMutations
    /\ \/ \E phone \in Phones :
            /\ "create" \in Commands /\ ~HasPlan(phone)
            /\ tasks' = tasks \cup {NewTask(Fresh("create", NULL, phone))}
            /\ applied' = Append(applied, 0)
       \/ \E type \in Commands \ {"create", "toggle", "status"}, p \in 1 .. nextPlan - 1 :
          \E arg \in Arguments(type) :
            /\ tasks' = tasks \cup {NewTask(Fresh(type, p, arg))}
            /\ applied' = Append(applied, 0)
       \/ \E type \in Commands \cap {"toggle", "status"}, p \in 1 .. nextPlan - 1 :
            /\ tasks' = tasks \cup {NewTask([n |-> 0, type |-> type, plan |-> p, arg |-> NULL])}
            /\ UNCHANGED applied
    /\ UNCHANGED <<plans, nextPlan, queue, jobs, running, schedules, starting, sent, faults>>

\* Slip: the head of the list is read (LINDEX) and not taken.
FlushPeek(t) ==
    /\ t.phase = "pop" /\ queue # <<>>
    /\ Become(t, [t EXCEPT !.phase = "apply", !.item = Head(queue)])
    /\ UNCHANGED <<plans, nextPlan, queue, jobs, running, schedules, starting, applied, sent, faults>>

\* flushExecutorPlanMutations
FlushPop(t) ==
    /\ t.phase = "pop" /\ queue # <<>>
    /\ queue' = Tail(queue)
    /\ Become(t, [t EXCEPT !.phase = "apply", !.item = Head(queue)])
    /\ UNCHANGED <<plans, nextPlan, jobs, running, schedules, starting, applied, sent, faults>>

FlushApplies(t) ==
    /\ t.phase = "apply"
    /\ ProcessMutation(t.item)
    /\ Become(t, [t EXCEPT !.phase = "pop", !.item = NULL])
    /\ UNCHANGED <<queue, jobs, running, starting, sent, faults>>

\* Slip: the flush stops without putting the item back.
FlushDropsItem(t) ==
    /\ t.phase = "apply"
    /\ StatementFails(t.item)
    /\ Become(t, [t EXCEPT !.phase = "own", !.item = NULL])
    /\ UNCHANGED <<queue, jobs, running, starting, sent>>

\* Back to the head, and the handler goes on with its own statement.
FlushFails(t) ==
    /\ t.phase = "apply"
    /\ StatementFails(t.item)
    /\ queue' = <<t.item>> \o queue
    /\ Become(t, [t EXCEPT !.phase = "own", !.item = NULL])
    /\ UNCHANGED <<jobs, running, starting, sent>>

FlushDone(t) ==
    /\ t.phase = "pop" /\ queue = <<>>
    /\ To(t, "own")
    /\ UNCHANGED <<plans, nextPlan, queue, jobs, running, schedules, starting, applied, sent, faults>>

\* The list cannot be read or written back: the handler is left by the error, with
\* the item it held.
FlushLosesHandler(t) ==
    /\ t.phase \in {"pop", "apply"} /\ Occurs("redis")
    /\ End(t)
    /\ UNCHANGED <<plans, nextPlan, queue, jobs, running, schedules, starting, applied, sent>>

Flush(t) ==
    \/ FlushPop(t) \/ FlushApplies(t) \/ FlushFails(t) \/ FlushDone(t) \/ FlushLosesHandler(t)

\* /status and the edit button only read; so does the flush of a start.
OnlyReads(t) ==
    /\ t.phase = "own" /\ t.mut.type \in {"status", "startup"}
    /\ End(t)
    /\ UNCHANGED <<plans, nextPlan, queue, jobs, running, schedules, starting, applied, sent, faults>>

\* handleToggleMuteCallback reads the row, then flushes once more.
ToggleReads(t) ==
    LET p == t.mut.plan IN
    /\ t.phase = "own" /\ t.mut.type = "toggle"
    /\ IF plans[p] = NULL THEN End(t) /\ UNCHANGED applied
       ELSE /\ Become(t, NewTask(Fresh(IF plans[p].muted THEN "unmute" ELSE "mute", p, NULL)))
            /\ applied' = Append(applied, 0)
    /\ UNCHANGED <<plans, nextPlan, queue, jobs, running, schedules, starting, sent, faults>>

\* handleMutationWithFallback
OwnApplies(t) ==
    /\ t.phase = "own" /\ t.mut.type \in Kinds
    /\ ProcessMutation(t.mut)
    /\ Become(t, IF Found(t.mut)
                 THEN [t EXCEPT !.phase = "reply", !.row = plans'[Target(t.mut)],
                                !.mut.plan = Target(t.mut)]
                 ELSE [t EXCEPT !.phase = "refuse"])
    /\ UNCHANGED <<queue, jobs, running, starting, sent, faults>>

OwnFails(t) ==
    /\ t.phase = "own" /\ t.mut.type \in Kinds
    /\ StatementFails(t.mut)
    /\ To(t, "enqueue")
    /\ UNCHANGED <<queue, jobs, running, starting, sent>>

\* What each handler does after its reply.
AfterReply(type) ==
    CASE type \in {"create", "extend", "set-start", "unblock", "unmute"} -> "reschedule"
      [] type = "delete" -> "remove"
      [] type \in {"block", "mute", "comment"} -> "nothing"

Reply(t) ==
    /\ \/ t.phase = "refuse" /\ End(t)
       \/ /\ t.phase = "reply"
          /\ IF AfterReply(t.mut.type) = "nothing" THEN End(t) ELSE To(t, "remove")
    /\ UNCHANGED <<plans, nextPlan, queue, jobs, running, schedules, starting, applied, sent, faults>>

\* The reply throws inside the same try as the statement: although applied, the
\* mutation is queued.
ReplyFails(t) ==
    /\ t.phase \in {"reply", "refuse"} /\ Occurs("telegram")
    /\ To(t, "enqueue")
    /\ UNCHANGED <<plans, nextPlan, queue, jobs, running, schedules, starting, applied, sent>>

OwnRemove(t) ==
    /\ t.phase = "remove"
    /\ RemoveScheduledReminders(t.mut.plan)
    /\ IF Due(t.row) THEN To(t, "add") ELSE End(t)
    /\ UNCHANGED <<plans, nextPlan, queue, running, schedules, starting, applied, sent, faults>>

OwnAdd(t) ==
    /\ t.phase = "add"
    /\ AddJob(t.mut.plan, t.row)
    /\ End(t)
    /\ UNCHANGED <<plans, nextPlan, queue, running, schedules, starting, applied, sent, faults>>

OwnAddFails(t) ==
    /\ t.phase = "add" /\ Occurs("redis")
    /\ To(t, "enqueue")
    /\ UNCHANGED <<plans, nextPlan, queue, jobs, running, schedules, starting, applied, sent>>

\* What was queued is the mutation as the moderator gave it.
Enqueue(t) ==
    /\ t.phase = "enqueue"
    /\ queue' = Append(queue, IF t.mut.type = "create" THEN [t.mut EXCEPT !.plan = NULL] ELSE t.mut)
    /\ End(t)
    /\ UNCHANGED <<plans, nextPlan, jobs, running, schedules, starting, applied, sent, faults>>

EnqueueFails(t) ==
    /\ t.phase = "enqueue" /\ Occurs("redis")
    /\ End(t)
    /\ UNCHANGED <<plans, nextPlan, queue, jobs, running, schedules, starting, applied, sent>>

HandleMutation(t) ==
    \/ OnlyReads(t) \/ ToggleReads(t) \/ OwnApplies(t) \/ OwnFails(t)
    \/ Reply(t) \/ ReplyFails(t) \/ OwnRemove(t) \/ OwnAdd(t) \/ OwnAddFails(t)
    \/ Enqueue(t) \/ EnqueueFails(t)

-----------------------------------------------------------------------------
(* The worker: handleReminderJob.  A finished or failed job is removed and  *)
(* not retried.                                                             *)

Step(phase, row) == running' = [running EXCEPT !.phase = phase, !.row = row]

Finish == /\ running' = NULL
          /\ jobs' = jobs \ {running.job}

WorkerTake ==
    /\ running = NULL
    /\ \E job \in jobs : running' = [job |-> job, phase |-> "read", row |-> NULL]
    /\ UNCHANGED <<plans, nextPlan, queue, jobs, schedules, tasks, starting, applied, sent, faults>>

\* A job that does not fit the row reschedules (a plan that is gone: only removes).
WorkerRead ==
    LET row == plans[running.job[1]] IN
    /\ running # NULL /\ running.phase = "read"
    /\ IF row # NULL /\ row.stage = running.job[2] /\ row.status = "active" /\ ~row.muted
       THEN Step("post", row) ELSE Step("remove", row)
    /\ UNCHANGED <<plans, nextPlan, queue, jobs, schedules, tasks, starting, applied, sent, faults>>

\* The stages posted in a period: those of an earlier one are forgotten.
Sent(p, period, stage) ==
    IF sent[p].period = period
    THEN [sent[p] EXCEPT !.stages = Append(@, stage)]
    ELSE [period |-> period, stages |-> <<stage>>]

\* A refused message is only logged.
WorkerPost ==
    LET p == running.job[1] IN
    /\ running # NULL /\ running.phase = "post"
    /\ \/ sent' = [sent EXCEPT ![p] = Sent(p, running.row.period, running.job[2])]
          /\ UNCHANGED faults
       \/ Occurs("telegram") /\ UNCHANGED sent
    /\ Step("advance", running.row)
    /\ UNCHANGED <<plans, nextPlan, queue, jobs, schedules, tasks, starting, applied>>

\* Slip: the worker ends without scheduling the next reminder.
AdvanceOnly ==
    LET p == running.job[1] IN
    /\ running # NULL /\ running.phase = "advance"
    /\ IF plans[p] # NULL /\ plans[p].stage = running.job[2]
       THEN plans' = [plans EXCEPT ![p].stage = @ + 1]
       ELSE UNCHANGED plans
    /\ Finish
    /\ UNCHANGED <<nextPlan, queue, schedules, tasks, starting, applied, sent, faults>>

\* Slip: the index is written back as it was.
AdvanceToSame ==
    LET p == running.job[1] IN
    /\ running # NULL /\ running.phase = "advance"
    /\ IF plans[p] # NULL /\ plans[p].stage = running.job[2]
       THEN Step("remove", plans[p]) /\ UNCHANGED jobs
       ELSE Finish
    /\ UNCHANGED <<plans, nextPlan, queue, schedules, tasks, starting, applied, sent, faults>>

\* updateExecutorPlanReminderIndex: only the index is compared.
WorkerAdvance ==
    LET p == running.job[1] IN
    /\ running # NULL /\ running.phase = "advance"
    /\ IF plans[p] # NULL /\ plans[p].stage = running.job[2]
       THEN /\ plans' = [plans EXCEPT ![p].stage = @ + 1]
            /\ Step(IF plans[p].stage + 1 = Stages THEN "complete" ELSE "remove", plans'[p])
            /\ UNCHANGED jobs
       ELSE Finish /\ UNCHANGED plans
    /\ UNCHANGED <<nextPlan, queue, schedules, tasks, starting, applied, sent, faults>>

\* The completion is only queued: the next flush applies it.
WorkerComplete ==
    /\ running # NULL /\ running.phase = "complete"
    /\ \/ /\ queue' = Append(queue, Fresh("complete", running.job[1], NULL))
          /\ applied' = Append(applied, 0)
          /\ UNCHANGED faults
       \/ Occurs("redis") /\ UNCHANGED <<queue, applied>>
    /\ Step("remove", running.row)
    /\ UNCHANGED <<plans, nextPlan, jobs, schedules, tasks, starting, sent>>

WorkerRemove ==
    /\ running # NULL /\ running.phase = "remove"
    /\ IF Due(running.row)
       THEN Step("add", running.row) /\ RemoveScheduledReminders(running.job[1])
       ELSE running' = NULL /\ jobs' = {job \in jobs : job[1] # running.job[1]}
    /\ UNCHANGED <<plans, nextPlan, queue, schedules, tasks, starting, applied, sent, faults>>

WorkerAdd ==
    /\ running # NULL /\ running.phase = "add"
    /\ running' = NULL
    /\ jobs' = (jobs \cup {<<running.job[1], running.row.stage>>}) \ {running.job}
    /\ UNCHANGED <<plans, nextPlan, queue, schedules, tasks, starting, applied, sent, faults>>

\* A statement or the addition fails: the job is gone.
JobFails ==
    /\ running # NULL
    /\ \/ running.phase \in {"read", "advance"} /\ Occurs("job")
       \/ running.phase = "add" /\ Occurs("redis")
    /\ Finish
    /\ UNCHANGED <<plans, nextPlan, queue, schedules, tasks, starting, applied, sent>>

Work ==
    \/ WorkerTake \/ WorkerRead \/ WorkerPost \/ WorkerAdvance \/ WorkerComplete
    \/ WorkerRemove \/ WorkerAdd \/ JobFails

-----------------------------------------------------------------------------
(* Death of the process, and its start *)

\* The table, the list and the jobs remain; the job in the worker becomes stalled
\* and runs again.
Crash ==
    /\ Occurs("crash")
    /\ tasks' = {NewTask([n |-> 0, type |-> "startup", plan |-> NULL, arg |-> NULL])}
    /\ schedules' = {} /\ running' = NULL /\ starting' = TRUE
    /\ UNCHANGED <<plans, nextPlan, queue, jobs, applied, sent>>

\* Slip: only blocked plans are listed.
ListBlocked ==
    /\ starting /\ starting' = FALSE
    /\ schedules' = schedules \cup
            {[id |-> <<0, p>>, plan |-> p, row |-> plans[p], phase |-> "remove"] :
              p \in {q \in PlanIds : plans[q] # NULL /\ plans[q].status = "blocked"}}
    /\ UNCHANGED <<plans, nextPlan, queue, jobs, running, tasks, applied, sent, faults>>

\* initialisePlanSchedules; a failure to list is only logged.
ListPlans ==
    /\ starting /\ starting' = FALSE
    /\ \/ /\ schedules' = schedules \cup
              {[id |-> <<0, p>>, plan |-> p, row |-> plans[p], phase |-> "remove"] :
                p \in {q \in PlanIds : plans[q] # NULL /\ plans[q].status # "completed"}}
          /\ UNCHANGED faults
       \/ Occurs("statement") /\ UNCHANGED schedules
    /\ UNCHANGED <<plans, nextPlan, queue, jobs, running, tasks, applied, sent>>

-----------------------------------------------------------------------------
Init ==
    /\ plans = [p \in PlanIds |-> NULL]
    /\ nextPlan = 1
    /\ queue = <<>> /\ jobs = {} /\ running = NULL
    /\ schedules = {} /\ tasks = {} /\ starting = FALSE
    /\ applied = <<>>
    /\ sent = [p \in PlanIds |-> [period |-> 0, stages |-> <<>>]]
    /\ faults = [count |-> 0, kinds |-> {}]

Next ==
    \/ Begin
    \/ \E t \in tasks : Flush(t) \/ HandleMutation(t)
    \/ \E s \in schedules : ScheduleRemove(s) \/ ScheduleAdd(s) \/ ScheduleAddFails(s)
    \/ Work
    \/ Crash
    \/ ListPlans

Spec == Init /\ [][Next]_vars

-----------------------------------------------------------------------------
TypeOK ==
    /\ plans \in [PlanIds -> Row \cup {NULL}]
    /\ nextPlan \in 1 .. MaxPlans + 1
    /\ queue \in Seq(Mutation)
    /\ jobs \subseteq PlanIds \X (0 .. Stages - 1)
    /\ running # NULL => running \in Running /\ running.job \in jobs
    /\ schedules \subseteq [id : Nat \X Nat, plan : PlanIds, row : Row \cup {NULL},
                            phase : {"remove", "add"}]
    /\ tasks \subseteq Task
    /\ starting \in BOOLEAN
    /\ applied \in Seq(Nat)
    /\ sent \in [PlanIds -> [period : Nat, stages : Seq(0 .. Stages - 1)]]
    /\ faults \in [count : 0 .. MaxFaults, kinds : SUBSET Faults]

None(kinds) == kinds \cap faults.kinds = {}

\* As long as Redis answers and the process lives, no command is lost: each is
\* applied, queued or in the hands of a handler, however many statements failed and
\* whichever handler's flush took it from the list.
CommandsKept ==
    None({"redis", "crash"}) =>
        \A n \in 1 .. Len(applied) :
            \/ applied[n] > 0
            \/ \E i \in 1 .. Len(queue) : queue[i].n = n
            \/ \E t \in tasks : t.mut.n = n \/ (t.item # NULL /\ t.item.n = n)

\* As long as no answer is lost (of the database after the statement took effect, of
\* Telegram, of Redis to an addition), no command is applied twice, although it
\* may go through the list several times and be popped by any handler.
AppliedOnce ==
    None({"answer", "telegram", "redis"}) => \A n \in 1 .. Len(applied) : applied[n] <= 1

\* Within a period (since the plan was created, extended or given a new start) the
\* reminders never go back, whatever fails and whichever schedules overlap.
RemindersInOrder ==
    \A p \in PlanIds : \A i, j \in 1 .. Len(sent[p].stages) :
        i < j => sent[p].stages[i] <= sent[p].stages[j]

\* Unless a job failed after its message or the process died, no reminder is sent
\* twice in a period.
RemindersOnce ==
    None({"job", "crash"}) =>
        \A p \in PlanIds : \A i, j \in 1 .. Len(sent[p].stages) :
            i # j => sent[p].stages[i] # sent[p].stages[j]

\* Who is about to add a reminder of plan p, or to look at its row for that.
Covers(s, p) == s.plan = p /\ Due(s.row)
Covered(p) ==
    \/ \E job \in jobs : job[1] = p /\ ~Locked(job)
    \/ running # NULL /\ running.job[1] = p
       /\ (running.phase \in {"read", "post", "advance"} \/ Due(running.row))
    \/ \E s \in schedules : Covers(s, p)
    \/ \E t \in tasks : t.phase \in {"remove", "add"} /\ t.mut.plan = p /\ Due(t.row)
    \/ starting

\* Somebody reschedules plan p from a row that is no longer the one of the table.
Stale(p) ==
    \/ \E s \in schedules : s.plan = p /\ s.row # plans[p]
    \/ \E t \in tasks : t.phase \in {"remove", "add"} /\ t.mut.plan = p /\ t.row # plans[p]
    \/ running # NULL /\ running.job[1] = p /\ running.phase # "read" /\ running.row # plans[p]

\* A plan that still has reminders to send is left without a job only by somebody
\* who reschedules from an outdated row, or when a call failed: never by commands
\* and reminders that act on what the table says, through any sequence of blocking,
\* muting, extending, restarting and reminding.
KeepsReminder ==
    [][\A p \in PlanIds :
        (Due(plans'[p]) /\ ~Covered(p)') =>
            \/ Due(plans[p]) /\ ~Covered(p)
            \/ Stale(p) \/ faults' # faults]_vars

\* The reminders of a period are sent in order, and once.
RemindersSound == TypeOK /\ RemindersInOrder /\ RemindersOnce
=============================================================================
