------------------------ MODULE ExecutorPlansProofs ------------------------
(***************************************************************************)
(* ExecutorPlans, for any plans, phones and durations, any number of       *)
(* commands, handlers and reminders, whatever fails: no command is lost    *)
(* or applied twice beyond what the failures excuse, the reminders of a    *)
(* period go out in order and once, and no plan loses its reminder to      *)
(* commands and reminders that act on what the table says.                 *)
(***************************************************************************)
EXTENDS ExecutorPlans, SequenceTheorems, TLAPS

\* A mutation that changes a plan, as a moderator gave it or the worker did.
Command(m) ==
    /\ m.type \in Kinds /\ m.n \in 1 .. Len(applied)
    /\ m.type = "create" => m.arg \in Phones
    /\ m.type # "create" => m.plan \in PlanIds
    /\ m.type = "extend" => m.arg \in Days
    /\ m.type = "set-start" => m.arg \in {0, 1}

\* What a handler that does not change a plan carries.
Reader(m) ==
    /\ m.n = 0 /\ m.type \in {"toggle", "status", "startup"}
    /\ m.type = "toggle" => m.plan \in PlanIds

TaskFits(t) ==
    /\ IF t.phase = "apply" THEN t.item # NULL /\ Command(t.item) ELSE t.item = NULL
    /\ Command(t.mut) \/ (Reader(t.mut) /\ t.phase \in {"pop", "apply", "own"})
    /\ t.phase \in {"reply", "remove", "add"} => t.mut.plan \in PlanIds
    /\ t.phase = "add" => Due(t.row)

\* The worker posts and advances the stage of its job; a reminder it adds is another
\* than the one it has in hand.
WorkerFits(r) ==
    /\ r.phase \in {"post", "advance"} => r.row # NULL /\ r.row.stage = r.job[2]
    /\ r.phase = "add" => Due(r.row)
    /\ r.phase \in {"complete", "remove", "add"} /\ Due(r.row) => r.row.stage # r.job[2]

QueueFits == \A i \in 1 .. Len(queue) : Command(queue[i])
TasksFit == \A t \in tasks : TaskFits(t)
SchedulesFit == \A s \in schedules : s.phase = "add" => Due(s.row)
WorkerFit == running # NULL => WorkerFits(running)
NoneBeyond == \A p \in PlanIds : p >= nextPlan => plans[p] = NULL

Fit == TypeOK /\ QueueFits /\ TasksFit /\ SchedulesFit /\ WorkerFit /\ NoneBeyond

Schedule == [id : Nat \X Nat, plan : PlanIds, row : Row \cup {NULL}, phase : {"remove", "add"}]

-----------------------------------------------------------------------------
(* What a statement does *)

\* A statement leaves the row of plan p, deletes it, creates it, changes it within its
\* period, or begins a new period.
RowMoves(p) ==
    \/ plans'[p] = plans[p]
    \/ plans[p] # NULL /\ plans'[p] = NULL
    \/ /\ plans[p] = NULL /\ p = nextPlan /\ p < nextPlan'
       /\ plans'[p] \in Row /\ plans'[p].period = 1 /\ plans'[p].stage = 0
    \/ /\ plans[p] # NULL /\ plans'[p] \in Row
       /\ \/ plans'[p].period = plans[p].period /\ plans'[p].stage = plans[p].stage
          \/ plans'[p].period = plans[p].period + 1 /\ plans'[p].stage = 0

\* What a statement that takes effect changes, and what it leaves.
Executes(m) ==
    /\ applied' \in Seq(Nat) /\ Len(applied') = Len(applied)
    /\ \A n \in 1 .. Len(applied) :
         applied'[n] = IF n = m.n THEN applied[n] + 1 ELSE applied[n]
    /\ nextPlan' \in 1 .. MaxPlans + 1 /\ nextPlan <= nextPlan'
    /\ plans' \in [PlanIds -> Row \cup {NULL}]
    /\ \A p \in PlanIds : RowMoves(p)

\* A rescheduling is started of the row that a statement changed, or its answer is lost.
Applies(m) ==
    /\ Executes(m)
    /\ schedules \subseteq schedules'
    /\ \A s \in schedules' : s \in schedules \/ (s \in Schedule /\ s.phase = "remove")
    /\ \/ faults' # faults
       \/ \A p \in PlanIds :
            plans'[p] = plans[p] \/ \E s \in schedules' : s.plan = p /\ s.row = plans'[p]

\* An UPDATE makes a row of a row, of the same period or of the next.
LEMMA UpdatedRow ==
    ASSUME Fit, NEW m \in Mutation, Command(m), m.type \notin {"create", "delete"},
           NEW row \in Row
    PROVE  /\ Updated(row, m) \in Row
           /\ \/ Updated(row, m).period = row.period /\ Updated(row, m).stage = row.stage
              \/ Updated(row, m).period = row.period + 1 /\ Updated(row, m).stage = 0
<1> USE DEF Row
<1>0. 0 \in 0 .. Stages BY PlansAssumption
<1>1. CASE m.type = "extend"
  <2>1. m.arg \in Int
    <3>1. m.arg \in Days BY <1>1 DEF Command
    <3>2. \A d \in Days : d \in Nat BY PlansAssumption
    <3>3. QED BY <3>1, <3>2
  <2>2. Updated(row, m) = Extend(row, m.arg) BY <1>1 DEF Updated
  <2>3. row.ends \in Int /\ row.start + m.arg \in Int /\ row.period + 1 \in Nat BY <2>1
  <2>4. QED BY <1>0, <2>2, <2>3 DEF Extend
<1>2. CASE m.type = "set-start"
  <2>1. m.arg \in Int BY <1>2 DEF Command
  <2>2. Updated(row, m) = SetStart(row, m.arg) BY <1>2 DEF Updated
  <2>3. m.arg + (row.ends - row.start) \in Int /\ row.period + 1 \in Nat BY <2>1
  <2>4. QED BY <1>0, <2>1, <2>2, <2>3 DEF SetStart
<1>3. CASE m.type = "block" BY <1>3 DEF Updated
<1>4. CASE m.type = "unblock" BY <1>4 DEF Updated
<1>5. CASE m.type = "complete" BY <1>5 DEF Updated
<1>6. CASE m.type = "mute" BY <1>6 DEF Updated
<1>7. CASE m.type = "unmute" BY <1>7 DEF Updated
<1>8. CASE m.type = "comment" BY <1>8 DEF Updated
<1> QED BY <1>1, <1>2, <1>3, <1>4, <1>5, <1>6, <1>7, <1>8 DEF Command, Kinds

\* applyMutation: it touches one row.
LEMMA Executed ==
    ASSUME Fit, NEW m \in Mutation, Command(m), ApplyMutation(m)
    PROVE  /\ Executes(m) /\ Target(m) \in PlanIds
           /\ \A p \in PlanIds \ {Target(m)} : plans'[p] = plans[p]
           /\ ~Found(m) => plans' = plans
<1>0. /\ plans \in [PlanIds -> Row \cup {NULL}] /\ nextPlan \in 1 .. MaxPlans + 1
      /\ applied \in Seq(Nat) /\ m.n \in 1 .. Len(applied) /\ MaxPlans \in Nat
      /\ Target(m) \in PlanIds
      /\ NULL \notin Row
  BY PlansAssumption, NullAssumption
     DEF Fit, TypeOK, Command, ApplyMutation, PlansAssumption
<1>1. /\ applied' \in Seq(Nat) /\ Len(applied') = Len(applied)
      /\ \A n \in 1 .. Len(applied) :
           applied'[n] = IF n = m.n THEN applied[n] + 1 ELSE applied[n]
  <2>1. applied[m.n] + 1 \in Nat BY <1>0, ElementOfSeq
  <2>2. applied' = [applied EXCEPT ![m.n] = applied[m.n] + 1] BY DEF ApplyMutation
  <2>3. QED BY <1>0, <2>1, <2>2, ExceptSeq
<1>2. /\ nextPlan' \in 1 .. MaxPlans + 1 /\ nextPlan <= nextPlan'
      /\ m.type = "create" => nextPlan' = nextPlan + 1
  BY <1>0 DEF ApplyMutation, Target, PlanIds
<1>3. CASE ~Found(m)
  <2>1. UNCHANGED plans BY <1>3 DEF ApplyMutation
  <2>2. QED BY <1>0, <1>1, <1>2, <1>3, <2>1 DEF Executes, RowMoves
<1>4. CASE Found(m)
  <2>1. /\ plans' \in [PlanIds -> Row \cup {NULL}]
        /\ \A p \in PlanIds \ {Target(m)} : plans'[p] = plans[p]
        /\ RowMoves(Target(m))
    <3>1. CASE m.type = "create"
      <4>1. PICK d \in Days : plans' = [plans EXCEPT ![nextPlan] = NewPlan(m.arg, d)]
        BY <1>4, <3>1 DEF ApplyMutation
      <4>2. m.arg \in Phones /\ d \in Int /\ 0 \in 0 .. Stages
        BY <3>1, PlansAssumption DEF Command
      <4>3. NewPlan(m.arg, d) \in Row /\ NewPlan(m.arg, d).period = 1
            /\ NewPlan(m.arg, d).stage = 0
        BY <4>2 DEF NewPlan, Row
      <4>4. Target(m) = nextPlan /\ plans[nextPlan] = NULL /\ nextPlan \in PlanIds
        BY <1>0, <3>1 DEF Target, Fit, NoneBeyond
      <4>5. QED BY <1>0, <1>2, <3>1, <4>1, <4>3, <4>4 DEF RowMoves
    <3>2. CASE m.type = "delete"
      <4>1. plans' = [plans EXCEPT ![m.plan] = NULL] /\ Target(m) = m.plan
        BY <1>4, <3>2 DEF ApplyMutation, Target
      <4>2. QED BY <1>0, <4>1 DEF RowMoves
    <3>3. CASE m.type \notin {"create", "delete"}
      <4>1. /\ plans' = [plans EXCEPT ![m.plan] = Updated(plans[m.plan], m)]
            /\ Target(m) = m.plan /\ plans[m.plan] # NULL
        BY <1>4, <3>3 DEF ApplyMutation, Target, Found
      <4>2. plans[m.plan] \in Row BY <1>0, <4>1
      <4> DEFINE old == plans[m.plan]
                 u == Updated(old, m)
      <4>3. /\ u \in Row
            /\ \/ u.period = old.period /\ u.stage = old.stage
               \/ u.period = old.period + 1 /\ u.stage = 0
        BY <3>3, <4>2, UpdatedRow
      <4>4. plans' = [plans EXCEPT ![m.plan] = u] /\ old = plans[m.plan] BY <4>1
      <4> HIDE DEF u, old
      <4>5. QED BY <1>0, <4>1, <4>2, <4>3, <4>4 DEF RowMoves
    <3>4. QED BY <3>1, <3>2, <3>3
  <2>2. \A p \in PlanIds : RowMoves(p) BY <2>1 DEF RowMoves
  <2>3. QED BY <1>0, <1>1, <1>2, <1>4, <2>1, <2>2 DEF Executes
<1> QED BY <1>3, <1>4

\* processMutation: the statement and the rescheduling that it starts.
LEMMA Processed ==
    ASSUME Fit, NEW m \in Mutation, Command(m), ProcessMutation(m)
    PROVE  Applies(m)
<1>0. /\ m.n \in 1 .. Len(applied) /\ applied \in Seq(Nat)
      /\ schedules \subseteq Schedule
  BY DEF Fit, TypeOK, Command, Schedule
<1>1. /\ Executes(m) /\ Target(m) \in PlanIds
      /\ \A p \in PlanIds \ {Target(m)} : plans'[p] = plans[p]
      /\ ~Found(m) => plans' = plans
  BY Executed DEF ProcessMutation
<1>2. CASE ~Found(m)
  <2>1. schedules' = schedules BY <1>2 DEF ProcessMutation
  <2>2. QED BY <1>0, <1>1, <1>2, <2>1 DEF Applies
<1>3. CASE Found(m)
  <2> DEFINE new == [id |-> <<m.n, applied[m.n]>>, plan |-> Target(m),
                     row |-> plans'[Target(m)], phase |-> "remove"]
  <2>1. schedules' = schedules \cup {new} BY <1>3 DEF ProcessMutation
  <2>2. new \in Schedule /\ new.phase = "remove" /\ new.plan = Target(m)
        /\ new.row = plans'[Target(m)]
    <3>1. m.n \in Nat /\ applied[m.n] \in Nat BY <1>0, ElementOfSeq
    <3>2. plans'[Target(m)] \in Row \cup {NULL} BY <1>1 DEF Executes
    <3>3. QED BY <1>1, <3>1, <3>2 DEF Schedule
  <2> HIDE DEF new
  <2>3. \A p \in PlanIds :
          plans'[p] = plans[p] \/ \E s \in schedules' : s.plan = p /\ s.row = plans'[p]
    BY <1>1, <2>1, <2>2
  <2>4. QED BY <1>0, <1>1, <2>1, <2>2, <2>3 DEF Applies
<1> QED BY <1>2, <1>3

\* The statement of a command takes effect, or nothing changes.
StatementDone(m) == Applies(m) \/ UNCHANGED <<plans, nextPlan, schedules, applied>>

\* A failure that happens is counted.
LEMMA Counted ==
    ASSUME Fit, NEW k, Occurs(k)
    PROVE  /\ faults' \in [count : 0 .. MaxFaults, kinds : SUBSET Faults]
           /\ k \in faults'.kinds /\ faults.kinds \subseteq faults'.kinds
           /\ faults' # faults
  BY PlansAssumption DEF Fit, TypeOK, Occurs

\* A statement that fails took effect or not.
LEMMA FailsEither ==
    ASSUME Fit, NEW m \in Mutation, Command(m), StatementFails(m)
    PROVE  /\ StatementDone(m)
           /\ faults' \in [count : 0 .. MaxFaults, kinds : SUBSET Faults]
           /\ faults.kinds \subseteq faults'.kinds
           /\ Applies(m) => "answer" \in faults'.kinds \/ UNCHANGED applied
<1>1. faults \in [count : 0 .. MaxFaults, kinds : SUBSET Faults] BY DEF Fit, TypeOK
<1>2. CASE Occurs("statement") /\ UNCHANGED <<plans, nextPlan, schedules, applied>>
  BY <1>2, Counted DEF StatementDone
<1>3. CASE Occurs("answer") /\ ApplyMutation(m) /\ UNCHANGED schedules
  <2>1. Executes(m) BY <1>3, Executed
  <2>2. Applies(m) BY <1>3, <2>1, Counted DEF Applies, Executes
  <2>3. QED BY <1>3, <2>2, Counted DEF StatementDone
<1>4. CASE UNCHANGED <<plans, nextPlan, schedules, applied, faults>>
  BY <1>1, <1>4 DEF StatementDone
<1> QED BY <1>2, <1>3, <1>4 DEF StatementFails

-----------------------------------------------------------------------------
(* The shapes, one part of the state at a time *)

TableFits ==
    /\ plans \in [PlanIds -> Row \cup {NULL}]
    /\ nextPlan \in 1 .. MaxPlans + 1
    /\ sent \in [PlanIds -> [period : Nat, stages : Seq(0 .. Stages - 1)]]
    /\ NoneBeyond
ListFits == queue \in Seq(Mutation) /\ QueueFits
JobsFit ==
    /\ jobs \subseteq PlanIds \X (0 .. Stages - 1)
    /\ running # NULL => running \in Running /\ running.job \in jobs
    /\ WorkerFit
HandlersFit == tasks \subseteq Task /\ TasksFit
OthersFit ==
    /\ schedules \subseteq Schedule /\ SchedulesFit
    /\ starting \in BOOLEAN
CountsFit ==
    /\ applied \in Seq(Nat)
    /\ faults \in [count : 0 .. MaxFaults, kinds : SUBSET Faults]

Parts == TableFits /\ ListFits /\ JobsFit /\ HandlersFit /\ OthersFit /\ CountsFit

\* The shapes are those of the parts.
LEMMA FitParts == (Fit <=> Parts) /\ (Fit' <=> Parts')
  BY DEF Fit, Parts, TypeOK, TableFits, ListFits, JobsFit, HandlersFit, OthersFit, CountsFit,
         Schedule

\* Commands are only added.
Grows == applied' \in Seq(Nat) /\ Len(applied) <= Len(applied')

\* A command remains one.
LEMMA CommandStays ==
    ASSUME Fit, Grows, NEW m, Command(m)
    PROVE  Command(m)'
  BY DEF Fit, TypeOK, Grows, Command, PlanIds

\* What fits goes on fitting.
LEMMA TaskStays ==
    ASSUME Fit, Grows, NEW t, TaskFits(t)
    PROVE  TaskFits(t)'
<1>1. \A m : Command(m) => Command(m)' BY CommandStays
<1>2. \A m : Reader(m) => Reader(m)' BY DEF Reader
<1> QED BY <1>1, <1>2 DEF TaskFits

\* New tasks that fit are enough.
LEMMA HandlersGo ==
    ASSUME Fit, Grows, \A u \in tasks' : u \in tasks \/ (u \in Task /\ TaskFits(u)')
    PROVE  HandlersFit'
<1>1. \A t \in tasks : t \in Task /\ TaskFits(t) BY DEF Fit, TypeOK, TasksFit
<1>2. \A t \in tasks : TaskFits(t)' BY <1>1, TaskStays
<1> QED BY <1>1, <1>2 DEF HandlersFit, TasksFit

\* The list stays as it is, loses its head, or gets a command at one of its ends.
LEMMA ListGoes ==
    ASSUME Fit, Grows,
           \/ UNCHANGED queue
           \/ queue # <<>> /\ queue' = Tail(queue)
           \/ \E m \in Mutation : Command(m)' /\ queue' \in {<<m>> \o queue, Append(queue, m)}
    PROVE  ListFits'
<1>0. /\ queue \in Seq(Mutation)
      /\ \A i \in 1 .. Len(queue) : \E c \in Mutation : c = queue[i] /\ Command(c)'
  <2>1. queue \in Seq(Mutation) /\ \A i \in 1 .. Len(queue) : Command(queue[i])
    BY DEF Fit, TypeOK, QueueFits
  <2>2. \A c \in Mutation : Command(c) => Command(c)' BY CommandStays
  <2>3. \A i \in 1 .. Len(queue) : queue[i] \in Mutation BY <2>1, ElementOfSeq
  <2>4. QED BY <2>1, <2>2, <2>3
<1>1. SUFFICES queue' \in Seq(Mutation)
               /\ \A i \in 1 .. Len(queue') : \E c \in Mutation : c = queue'[i] /\ Command(c)'
  BY DEF ListFits, QueueFits
<1>2. CASE UNCHANGED queue BY <1>0, <1>2
<1>3. CASE queue # <<>> /\ queue' = Tail(queue)
  <2>1. /\ queue' \in Seq(Mutation) /\ Len(queue') = Len(queue) - 1
        /\ \A i \in 1 .. Len(queue') : queue'[i] = queue[i + 1]
    BY <1>0, <1>3, HeadTailProperties
  <2>2. \A i \in 1 .. Len(queue') : i + 1 \in 1 .. Len(queue)
    BY <1>0, <2>1, LenProperties
  <2>3. QED BY <1>0, <2>1, <2>2
<1>4. ASSUME NEW m \in Mutation, Command(m)', queue' = <<m>> \o queue
      PROVE  /\ queue' \in Seq(Mutation)
             /\ \A i \in 1 .. Len(queue') : \E c \in Mutation : c = queue'[i] /\ Command(c)'
  <2>1. <<m>> \in Seq(Mutation) /\ Len(<<m>>) = 1 /\ <<m>>[1] = m BY <1>4
  <2>2. /\ queue' \in Seq(Mutation) /\ Len(queue') = 1 + Len(queue)
        /\ \A i \in 1 .. Len(queue') : queue'[i] = IF i <= 1 THEN <<m>>[i] ELSE queue[i - 1]
    BY <1>0, <1>4, <2>1, ConcatProperties
  <2>3. \A i \in 1 .. Len(queue') : i = 1 \/ (~(i <= 1) /\ i - 1 \in 1 .. Len(queue))
    BY <1>0, <2>2, LenProperties
  <2>4. \A i \in 1 .. Len(queue') :
          queue'[i] = m \/ \E j \in 1 .. Len(queue) : queue'[i] = queue[j]
    BY <2>1, <2>2, <2>3
  <2>5. QED BY <1>0, <1>4, <2>2, <2>4
<1>5. ASSUME NEW m \in Mutation, Command(m)', queue' = Append(queue, m)
      PROVE  /\ queue' \in Seq(Mutation)
             /\ \A i \in 1 .. Len(queue') : \E c \in Mutation : c = queue'[i] /\ Command(c)'
  <2>1. /\ queue' \in Seq(Mutation) /\ Len(queue') = Len(queue) + 1
        /\ \A i \in 1 .. Len(queue') :
             queue'[i] = m \/ \E j \in 1 .. Len(queue) : queue'[i] = queue[j]
    BY <1>0, <1>5
  <2>2. QED BY <1>0, <1>5, <2>1
<1> QED BY <1>2, <1>3, <1>4, <1>5

\* Jobs are added and removed, never the one in the worker; the worker goes on with it.
LEMMA JobsStay ==
    ASSUME Fit, UNCHANGED running,
           \A job \in jobs' : job \in jobs \/ job \in PlanIds \X (0 .. Stages - 1),
           running # NULL => running.job \in jobs'
    PROVE  JobsFit'
  BY DEF Fit, TypeOK, WorkerFit, JobsFit, WorkerFits

\* removeScheduledReminders takes jobs of its plan, never the one in the worker.
LEMMA Removed ==
    ASSUME Fit, NEW p, RemoveScheduledReminders(p)
    PROVE  /\ jobs' \subseteq jobs
           /\ running # NULL => running.job \in jobs'
           /\ \A job \in jobs : job[1] # p => job \in jobs'
  BY DEF Fit, TypeOK, RemoveScheduledReminders, Locked

\* What scheduleReminder adds is a job.
LEMMA Added ==
    ASSUME Fit, NEW p \in PlanIds, NEW row \in Row \cup {NULL}, Due(row)
    PROVE  <<p, row.stage>> \in PlanIds \X (0 .. Stages - 1)
  BY PlansAssumption DEF Due, Row

-----------------------------------------------------------------------------
(* One step, for the shapes *)

\* A step of handler t that leaves the table and the reminders alone.
LEMMA QuietStep ==
    ASSUME Fit, Grows, HandlersFit', ListFits',
           UNCHANGED <<plans, nextPlan, jobs, running, schedules, starting, sent>>,
           faults' \in [count : 0 .. MaxFaults, kinds : SUBSET Faults]
    PROVE  Fit'
<1>1. TableFits' BY DEF Fit, TypeOK, TableFits, NoneBeyond
<1>2. JobsFit' BY DEF Fit, TypeOK, JobsFit, WorkerFit, WorkerFits
<1>3. OthersFit' BY DEF Fit, TypeOK, OthersFit, SchedulesFit, Schedule
<1>4. CountsFit' BY DEF Grows, CountsFit
<1> QED BY <1>1, <1>2, <1>3, <1>4, FitParts DEF Parts

\* A step in which a statement is tried.
LEMMA StatementStep ==
    ASSUME Fit, NEW m \in Mutation, Command(m), StatementDone(m), HandlersFit', ListFits',
           UNCHANGED <<jobs, running, starting, sent>>,
           faults' \in [count : 0 .. MaxFaults, kinds : SUBSET Faults]
    PROVE  Fit'
<1>1. JobsFit' BY DEF Fit, TypeOK, JobsFit, WorkerFit, WorkerFits
<1>2. CountsFit' BY DEF Fit, TypeOK, CountsFit, StatementDone, Applies, Executes
<1>3. OthersFit'
  BY DEF Fit, TypeOK, OthersFit, SchedulesFit, Schedule, StatementDone, Applies, Executes
<1>4. TableFits'
  <2>1. CASE UNCHANGED <<plans, nextPlan, schedules, applied>>
    BY <2>1 DEF Fit, TypeOK, TableFits, NoneBeyond
  <2>2. CASE Applies(m)
    <3>0. /\ nextPlan \in Nat /\ nextPlan' \in Nat /\ nextPlan <= nextPlan'
          /\ \A p \in PlanIds : p \in Nat
      BY <2>2, PlansAssumption DEF Fit, TypeOK, Applies, Executes, PlanIds
    <3>1. \A p \in PlanIds : p >= nextPlan' =>
            p >= nextPlan /\ plans[p] = NULL
      BY <3>0 DEF Fit, NoneBeyond
    <3>2. \A p \in PlanIds : p >= nextPlan' => plans'[p] = NULL
      <4>1. \A p \in PlanIds : p >= nextPlan' /\ p < nextPlan' => FALSE
        BY <3>0
      <4>2. QED BY <2>2, <3>1, <4>1 DEF Applies, Executes, RowMoves
    <3>3. QED BY <2>2, <3>1, <3>2 DEF Fit, TypeOK, TableFits, NoneBeyond, Applies, Executes
  <2>3. QED BY <2>1, <2>2 DEF StatementDone
<1> QED BY <1>1, <1>2, <1>3, <1>4, FitParts DEF Parts

\* A step that only moves jobs.
LEMMA JobsStep ==
    ASSUME Fit, JobsFit', HandlersFit', OthersFit',
           UNCHANGED <<plans, nextPlan, queue, applied, sent>>,
           faults' \in [count : 0 .. MaxFaults, kinds : SUBSET Faults]
    PROVE  Fit'
<1>1. TableFits' BY DEF Fit, TypeOK, TableFits, NoneBeyond
<1>2. Grows /\ CountsFit' BY LenProperties DEF Fit, TypeOK, CountsFit, Grows
<1>3. ListFits' BY <1>2, ListGoes
<1> QED BY <1>1, <1>2, <1>3, FitParts DEF Parts

\* Nothing new is no obstacle.
LEMMA GrowsAlready == ASSUME Fit, UNCHANGED applied PROVE Grows
  BY LenProperties DEF Fit, TypeOK, Grows

\* A command that is given gets the number after the last.
LEMMA GrowsByOne ==
    ASSUME Fit, applied' = Append(applied, 0)
    PROVE  /\ Grows /\ Len(applied') = Len(applied) + 1
           /\ Len(applied) \in Nat
           /\ \A n \in 1 .. Len(applied) : applied'[n] = applied[n]
           /\ applied'[Len(applied) + 1] = 0
  BY DEF Fit, TypeOK, Grows

\* A new command is one.
LEMMA NewCommand ==
    ASSUME Fit, applied' = Append(applied, 0), NEW type \in Kinds,
           NEW p \in PlanIds \cup {NULL}, NEW arg \in Nat \cup Phones \cup {NULL},
           type = "create" => arg \in Phones,
           type # "create" => p \in PlanIds,
           type = "extend" => arg \in Days,
           type = "set-start" => arg \in {0, 1}
    PROVE  \E m \in Mutation : m = Fresh(type, p, arg) /\ Command(m)'
<1>1. /\ Len(applied) \in Nat /\ Len(applied') = Len(applied) + 1 BY GrowsByOne
<1>2. \A m : m = Fresh(type, p, arg) => m \in Mutation /\ Command(m)'
  BY <1>1 DEF Fresh, Mutation, Command
<1> QED BY <1>2

\* A command that begins carries what its handler needs.
LEMMA BeginFits == ASSUME Fit, Begin PROVE Fit'
<1>0. /\ Len(applied) \in Nat /\ NULL \notin Row \cup Mutation
      /\ nextPlan \in 1 .. MaxPlans + 1 /\ MaxPlans \in Nat
      /\ faults' \in [count : 0 .. MaxFaults, kinds : SUBSET Faults]
      /\ UNCHANGED <<plans, nextPlan, queue, jobs, running, schedules, starting, sent>>
      /\ \A p \in 1 .. nextPlan - 1 : p \in PlanIds
  BY PlansAssumption, NullAssumption, LenProperties DEF Fit, TypeOK, Begin, PlanIds
<1>1. CASE \E phone \in Phones :
             /\ "create" \in Commands /\ ~HasPlan(phone)
             /\ tasks' = tasks \cup {NewTask(Fresh("create", NULL, phone))}
             /\ applied' = Append(applied, 0)
  <2>1. PICK phone \in Phones : tasks' = tasks \cup {NewTask(Fresh("create", NULL, phone))}
    BY <1>1
  <2>2. Grows BY <1>1, GrowsByOne
  <2>3. PICK m \in Mutation : m = Fresh("create", NULL, phone) /\ Command(m)'
    BY <1>1, NewCommand DEF Kinds
  <2> DEFINE u == NewTask(m)
  <2>4. u \in Task /\ TaskFits(u)' BY <2>3 DEF NewTask, Task, TaskFits
  <2> HIDE DEF u
  <2>5. tasks' = tasks \cup {u} BY <2>1, <2>3 DEF u
  <2>6. HandlersFit' BY <2>2, <2>4, <2>5, HandlersGo
  <2>7. QED BY <1>0, <2>2, <2>6, ListGoes, QuietStep
<1>2. CASE \E type \in Commands \ {"create", "toggle", "status"}, p \in 1 .. nextPlan - 1 :
           \E arg \in Arguments(type) :
             /\ tasks' = tasks \cup {NewTask(Fresh(type, p, arg))}
             /\ applied' = Append(applied, 0)
  <2>1. PICK type \in Commands \ {"create", "toggle", "status"}, p \in 1 .. nextPlan - 1 :
        \E arg \in Arguments(type) : tasks' = tasks \cup {NewTask(Fresh(type, p, arg))}
    BY <1>2
  <2>2. PICK arg \in Arguments(type) : tasks' = tasks \cup {NewTask(Fresh(type, p, arg))}
    BY <2>1
  <2>3. Grows BY <1>2, GrowsByOne
  <2>4. type \in Kinds \ {"create"} BY PlansAssumption
  <2>5. /\ arg \in Nat \cup {NULL}
        /\ type = "extend" => arg \in Days
        /\ type = "set-start" => arg \in {0, 1}
    <3>1. \A d \in Days : d \in Nat BY PlansAssumption
    <3>2. CASE type = "extend" BY <3>1, <3>2 DEF Arguments
    <3>3. CASE type = "set-start" BY <3>3 DEF Arguments
    <3>4. CASE type \notin {"extend", "set-start"}
      <4>1. arg = NULL BY <3>4 DEF Arguments
      <4>2. QED BY <3>4, <4>1
    <3>5. QED BY <3>2, <3>3, <3>4
  <2>6. PICK m \in Mutation : m = Fresh(type, p, arg) /\ Command(m)'
    BY <1>0, <1>2, <2>4, <2>5, NewCommand
  <2> DEFINE u == NewTask(m)
  <2>7. u \in Task /\ TaskFits(u)' BY <2>6 DEF NewTask, Task, TaskFits
  <2> HIDE DEF u
  <2>8. tasks' = tasks \cup {u} BY <2>2, <2>6 DEF u
  <2>9. HandlersFit' BY <2>3, <2>7, <2>8, HandlersGo
  <2>10. QED BY <1>0, <2>3, <2>9, ListGoes, QuietStep
<1>3. CASE /\ \E type \in Commands \cap {"toggle", "status"}, p \in 1 .. nextPlan - 1 :
                tasks' = tasks \cup {NewTask([n |-> 0, type |-> type, plan |-> p, arg |-> NULL])}
           /\ UNCHANGED applied
  <2>1. PICK type \in {"toggle", "status"}, p \in 1 .. nextPlan - 1 :
          tasks' = tasks \cup {NewTask([n |-> 0, type |-> type, plan |-> p, arg |-> NULL])}
    BY <1>3
  <2> DEFINE m == [n |-> 0, type |-> type, plan |-> p, arg |-> NULL]
             u == NewTask(m)
  <2>2. m \in Mutation /\ Reader(m)' BY <1>0 DEF Mutation, Reader
  <2> HIDE DEF m
  <2>3. u \in Task /\ TaskFits(u)' BY <2>2 DEF NewTask, Task, TaskFits
  <2> HIDE DEF u
  <2>4. tasks' = tasks \cup {u} BY <2>1 DEF u, m
  <2>5. Grows BY <1>3, GrowsAlready
  <2>6. HandlersFit' BY <2>3, <2>4, <2>5, HandlersGo
  <2>7. QED BY <1>0, <2>5, <2>6, ListGoes, QuietStep
<1> QED BY <1>1, <1>2, <1>3 DEF Begin

\* What a handler has in hand.
LEMMA Hand ==
    ASSUME Fit, NEW t \in tasks
    PROVE  /\ t \in Task /\ TaskFits(t)
           /\ t.phase = "apply" => t.item \in Mutation /\ Command(t.item)
           /\ t.phase \notin {"pop", "apply", "own"} \/ t.mut.type \in Kinds => Command(t.mut)
           /\ t.mut \in Mutation
  BY NullAssumption DEF Fit, TypeOK, TasksFit, TaskFits, Task, Reader, Kinds

\* A handler ends.
LEMMA Ends ==
    ASSUME Fit, Grows, NEW t \in tasks, End(t)
    PROVE  HandlersFit'
  BY HandlersGo DEF End

\* A handler becomes another that fits.
LEMMA Becomes ==
    ASSUME Fit, Grows, NEW t \in tasks, NEW u \in Task, Become(t, u), TaskFits(u)'
    PROVE  HandlersFit'
  BY HandlersGo DEF Become

\* The failures so far are well counted.
LEMMA StillCounted ==
    ASSUME Fit, UNCHANGED faults \/ \E k \in Faults : Occurs(k)
    PROVE  faults' \in [count : 0 .. MaxFaults, kinds : SUBSET Faults]
  BY Counted DEF Fit, TypeOK

\* A flush (flushExecutorPlanMutations) hands commands over as they were listed.
LEMMA FlushFits == ASSUME Fit, NEW t \in tasks, Flush(t) PROVE Fit'
<1>0. /\ t \in Task /\ TaskFits(t) /\ queue \in Seq(Mutation)
      /\ t.phase = "apply" => t.item \in Mutation /\ Command(t.item)
  BY Hand DEF Fit, TypeOK
<1>a. Command(t.mut) \/ Reader(t.mut) BY <1>0 DEF TaskFits
<1>1. CASE FlushPop(t)
  <2> DEFINE u == [t EXCEPT !.phase = "apply", !.item = Head(queue)]
  <2>1. Grows BY <1>1, GrowsAlready DEF FlushPop
  <2>2. queue # <<>> /\ queue' = Tail(queue) /\ Become(t, u) /\ t.phase = "pop"
    BY <1>1 DEF FlushPop
  <2>3. Head(queue) \in Mutation /\ Command(Head(queue))
    <3>1. Len(queue) \in Nat \ {0} BY <1>0, <2>2, EmptySeq
    <3>2. Head(queue) = queue[1] /\ 1 \in 1 .. Len(queue) BY <1>0, <3>1
    <3>3. QED BY <1>0, <3>2, ElementOfSeq DEF Fit, QueueFits
  <2>4. u \in Task /\ TaskFits(u)
    BY <1>0, <2>2, <2>3, NullAssumption DEF Task, TaskFits
  <2> HIDE DEF u
  <2>5. HandlersFit' BY <2>1, <2>2, <2>4, TaskStays, Becomes
  <2>6. QED BY <1>1, <2>1, <2>2, <2>5, ListGoes, QuietStep, StillCounted DEF FlushPop
<1>2. CASE FlushApplies(t)
  <2> DEFINE u == [t EXCEPT !.phase = "pop", !.item = NULL]
  <2>1. /\ ProcessMutation(t.item) /\ Become(t, u) /\ t.phase = "apply"
        /\ UNCHANGED <<queue, jobs, running, starting, sent, faults>>
    BY <1>2 DEF FlushApplies
  <2>2. Applies(t.item) BY <1>0, <2>1, Processed
  <2>3. Grows BY <2>2 DEF Applies, Executes, Grows, Fit, TypeOK
  <2>4. u \in Task /\ TaskFits(u) BY <1>0, <1>a, <2>1 DEF Task, TaskFits
  <2> HIDE DEF u
  <2>5. HandlersFit' BY <2>1, <2>3, <2>4, TaskStays, Becomes
  <2>6. ListFits' BY <2>1, <2>3, ListGoes
  <2>7. QED BY <1>0, <2>1, <2>2, <2>5, <2>6, StatementStep, StillCounted DEF StatementDone
<1>3. CASE FlushFails(t)
  <2> DEFINE u == [t EXCEPT !.phase = "own", !.item = NULL]
  <2>1. /\ StatementFails(t.item) /\ Become(t, u) /\ t.phase = "apply"
        /\ queue' = <<t.item>> \o queue
        /\ UNCHANGED <<jobs, running, starting, sent>>
    BY <1>3 DEF FlushFails
  <2>2. /\ StatementDone(t.item)
        /\ faults' \in [count : 0 .. MaxFaults, kinds : SUBSET Faults]
    BY <1>0, <2>1, FailsEither
  <2>3. Grows
    BY <2>2, GrowsAlready DEF StatementDone, Applies, Executes, Grows, Fit, TypeOK
  <2>4. u \in Task /\ TaskFits(u) BY <1>0, <1>a, <2>1 DEF Task, TaskFits
  <2> HIDE DEF u
  <2>5. HandlersFit' BY <2>1, <2>3, <2>4, TaskStays, Becomes
  <2>6. Command(t.item)' 
    <3>1. PICK m \in Mutation : m = t.item BY <1>0, <2>1
    <3>2. Command(m)' BY <1>0, <2>1, <2>3, <3>1, CommandStays
    <3>3. QED BY <3>1, <3>2
  <2>7. ListFits' BY <1>0, <2>1, <2>3, <2>6, ListGoes
  <2>8. QED BY <1>0, <2>1, <2>2, <2>5, <2>7, StatementStep
<1>4. CASE FlushDone(t)
  <2> DEFINE u == [t EXCEPT !.phase = "own"]
  <2>1. Grows BY <1>4, GrowsAlready DEF FlushDone
  <2>2. Become(t, u) /\ t.phase = "pop" BY <1>4 DEF FlushDone, To
  <2>3. u \in Task /\ TaskFits(u) BY <1>0, <2>2 DEF Task, TaskFits
  <2> HIDE DEF u
  <2>4. HandlersFit' BY <2>1, <2>2, <2>3, TaskStays, Becomes
  <2>5. QED BY <1>4, <2>1, <2>4, ListGoes, QuietStep, StillCounted DEF FlushDone
<1>5. CASE FlushLosesHandler(t)
  <2>1. Grows BY <1>5, GrowsAlready DEF FlushLosesHandler
  <2>2. HandlersFit' BY <1>5, <2>1, Ends DEF FlushLosesHandler
  <2>3. faults' \in [count : 0 .. MaxFaults, kinds : SUBSET Faults]
    BY <1>5, Counted DEF FlushLosesHandler
  <2>4. QED BY <1>5, <2>1, <2>2, <2>3, ListGoes, QuietStep DEF FlushLosesHandler
<1> QED BY <1>1, <1>2, <1>3, <1>4, <1>5 DEF Flush

\* A handler goes on in another phase, with nothing in hand but its command.
LEMMA Continues ==
    ASSUME Fit, Grows, NEW t \in tasks, NEW phase \in {"own", "refuse", "enqueue", "remove", "add"},
           To(t, phase), t.phase # "apply",
           phase = "own" \/ Command(t.mut),
           phase \in {"remove", "add"} => t.mut.plan \in PlanIds,
           phase = "add" => Due(t.row)
    PROVE  HandlersFit'
<1> DEFINE u == [t EXCEPT !.phase = phase]
<1>1. t \in Task /\ TaskFits(t) /\ Become(t, u) BY Hand DEF To
<1>2. u \in Task /\ u.phase = phase /\ u.mut = t.mut /\ u.item = t.item /\ u.row = t.row
  BY <1>1 DEF Task
<1> HIDE DEF u
<1>3. TaskFits(u) BY <1>1, <1>2 DEF TaskFits
<1> QED BY <1>1, <1>2, <1>3, TaskStays, Becomes

\* A handler's own statement (handleMutationWithFallback), and what it reads before.
LEMMA OwnFits ==
    ASSUME Fit, NEW t \in tasks,
           OnlyReads(t) \/ ToggleReads(t) \/ OwnApplies(t) \/ OwnFails(t)
    PROVE  Fit'
<1>0. /\ t \in Task /\ TaskFits(t) /\ t.phase = "own" /\ t.mut \in Mutation
      /\ t.mut.type \in Kinds => Command(t.mut)
  BY Hand DEF OnlyReads, ToggleReads, OwnApplies, OwnFails
<1>1. CASE OnlyReads(t)
  <2>1. Grows BY <1>1, GrowsAlready DEF OnlyReads
  <2>2. HandlersFit' BY <1>1, <2>1, Ends DEF OnlyReads
  <2>3. QED BY <1>1, <2>1, <2>2, ListGoes, QuietStep, StillCounted DEF OnlyReads
<1>2. CASE ToggleReads(t)
  <2>1. Grows BY <1>2, GrowsAlready, GrowsByOne DEF ToggleReads
  <2>2. HandlersFit'
    <3>1. CASE End(t) BY <2>1, <3>1, Ends
    <3>2. CASE /\ Become(t, NewTask(Fresh(IF plans[t.mut.plan].muted THEN "unmute" ELSE "mute",
                                          t.mut.plan, NULL)))
               /\ applied' = Append(applied, 0)
      <4> DEFINE type == IF plans[t.mut.plan].muted THEN "unmute" ELSE "mute"
      <4>1. t.mut.plan \in PlanIds
        BY <1>0, <1>2 DEF ToggleReads, TaskFits, Reader, Command, Kinds
      <4>2. type \in {"unmute", "mute"} BY DEF type
      <4>3. Become(t, NewTask(Fresh(type, t.mut.plan, NULL))) BY <3>2 DEF type
      <4> HIDE DEF type
      <4>4. PICK m \in Mutation : m = Fresh(type, t.mut.plan, NULL) /\ Command(m)'
        BY <3>2, <4>1, <4>2, NewCommand DEF Kinds
      <4> DEFINE u == NewTask(m)
      <4>5. u \in Task /\ TaskFits(u)' BY <4>4 DEF NewTask, Task, TaskFits
      <4>6. Become(t, u) BY <4>3, <4>4
      <4> HIDE DEF u
      <4>7. QED BY <2>1, <4>5, <4>6, Becomes
    <3>3. QED BY <1>2, <3>1, <3>2 DEF ToggleReads
  <2>3. QED BY <1>2, <2>1, <2>2, ListGoes, QuietStep, StillCounted DEF ToggleReads
<1>3. CASE OwnApplies(t)
  <2>1. /\ ProcessMutation(t.mut) /\ t.mut.type \in Kinds /\ Command(t.mut)
        /\ UNCHANGED <<queue, jobs, running, starting, sent, faults>>
    BY <1>0, <1>3 DEF OwnApplies
  <2>2. Applies(t.mut) BY <1>0, <2>1, Processed
  <2>3. Grows BY <2>2 DEF Applies, Executes, Grows, Fit, TypeOK
  <2>4. HandlersFit'
    <3>1. CASE Found(t.mut)
      <4> DEFINE p == Target(t.mut)
                 row == plans'[p]
                 u == [t EXCEPT !.phase = "reply", !.row = row, !.mut.plan = p]
      <4>1. Become(t, u) BY <1>3, <3>1 DEF OwnApplies
      <4>2. p \in PlanIds /\ row \in Row \cup {NULL}
        BY <2>1, <2>2 DEF ProcessMutation, ApplyMutation, Applies, Executes
      <4> HIDE DEF p, row
      <4>3. /\ u \in Task /\ u.phase = "reply" /\ u.item = t.item
            /\ u.mut.n = t.mut.n /\ u.mut.type = t.mut.type /\ u.mut.arg = t.mut.arg
            /\ u.mut.plan = p
        BY <1>0, <4>2 DEF Task, Mutation
      <4> HIDE DEF u
      <4>4. Command(u.mut) BY <2>1, <4>2, <4>3 DEF Command
      <4>5. TaskFits(u) BY <1>0, <4>2, <4>3, <4>4 DEF TaskFits
      <4>6. QED BY <2>3, <4>1, <4>3, <4>5, TaskStays, Becomes
    <3>2. CASE ~Found(t.mut)
      <4>1. To(t, "refuse") BY <1>3, <3>2 DEF OwnApplies, To
      <4>2. QED BY <1>0, <2>1, <2>3, <4>1, Continues
    <3>3. QED BY <3>1, <3>2
  <2>5. ListFits' BY <2>1, <2>3, ListGoes
  <2>6. QED BY <1>0, <2>1, <2>2, <2>4, <2>5, StatementStep, StillCounted DEF StatementDone
<1>4. CASE OwnFails(t)
  <2>1. /\ StatementFails(t.mut) /\ Command(t.mut) /\ To(t, "enqueue")
        /\ UNCHANGED <<queue, jobs, running, starting, sent>>
    BY <1>0, <1>4 DEF OwnFails
  <2>2. /\ StatementDone(t.mut)
        /\ faults' \in [count : 0 .. MaxFaults, kinds : SUBSET Faults]
    BY <1>0, <2>1, FailsEither
  <2>3. Grows BY <2>2, GrowsAlready DEF StatementDone, Applies, Executes, Grows, Fit, TypeOK
  <2>4. HandlersFit' BY <1>0, <2>1, <2>3, Continues
  <2>5. ListFits' BY <2>1, <2>3, ListGoes
  <2>6. QED BY <1>0, <2>1, <2>2, <2>4, <2>5, StatementStep
<1> QED BY <1>1, <1>2, <1>3, <1>4

\* What a handler does after its statement, down to the list.
LEMMA AfterwardsFits ==
    ASSUME Fit, NEW t \in tasks,
           \/ Reply(t) \/ ReplyFails(t) \/ OwnRemove(t) \/ OwnAdd(t) \/ OwnAddFails(t)
           \/ Enqueue(t) \/ EnqueueFails(t)
    PROVE  Fit'
<1>0. /\ t \in Task /\ TaskFits(t) /\ t.phase \notin {"pop", "apply", "own"}
      /\ t.mut \in Mutation /\ Command(t.mut)
  BY Hand DEF Reply, ReplyFails, OwnRemove, OwnAdd, OwnAddFails, Enqueue, EnqueueFails
<1>1. Grows
  BY GrowsAlready DEF Reply, ReplyFails, OwnRemove, OwnAdd, OwnAddFails, Enqueue, EnqueueFails
<1>2. faults' \in [count : 0 .. MaxFaults, kinds : SUBSET Faults]
  BY Counted, StillCounted
     DEF Reply, ReplyFails, OwnRemove, OwnAdd, OwnAddFails, Enqueue, EnqueueFails
<1>3. CASE Reply(t)
  <2>1. CASE End(t) BY <1>1, <1>2, <1>3, <2>1, Ends, ListGoes, QuietStep DEF Reply
  <2>2. CASE t.phase = "reply" /\ To(t, "remove")
    <3>1. HandlersFit' BY <1>0, <1>1, <2>2, Continues DEF TaskFits
    <3>2. QED BY <1>1, <1>2, <1>3, <3>1, ListGoes, QuietStep DEF Reply
  <2>3. QED BY <1>3, <2>1, <2>2 DEF Reply
<1>4. CASE ReplyFails(t)
  <2>1. HandlersFit' BY <1>0, <1>1, <1>4, Continues DEF ReplyFails
  <2>2. QED BY <1>1, <1>2, <1>4, <2>1, ListGoes, QuietStep DEF ReplyFails
<1>5. CASE OwnRemove(t)
  <2>1. JobsFit' BY <1>5, Removed, JobsStay DEF OwnRemove
  <2>2. HandlersFit'
    <3>1. CASE End(t) BY <1>1, <3>1, Ends
    <3>2. CASE Due(t.row) /\ To(t, "add")
      <4>1. t.phase = "remove" BY <1>5 DEF OwnRemove
      <4>2. t.mut.plan \in PlanIds BY <1>0, <4>1 DEF TaskFits
      <4>3. QED BY <1>0, <1>1, <3>2, <4>2, Continues
    <3>3. QED BY <1>5, <3>1, <3>2 DEF OwnRemove
  <2>3. OthersFit' BY <1>5 DEF OwnRemove, Fit, TypeOK, OthersFit, SchedulesFit, Schedule
  <2>4. QED BY <1>2, <1>5, <2>1, <2>2, <2>3, JobsStep DEF OwnRemove
<1>6. CASE OwnAdd(t)
  <2>1. <<t.mut.plan, t.row.stage>> \in PlanIds \X (0 .. Stages - 1)
    <3>1. t.mut.plan \in PlanIds /\ t.row \in Row \cup {NULL} /\ Due(t.row)
      BY <1>0, <1>6 DEF OwnAdd, TaskFits, Task
    <3>2. QED BY <3>1, Added
  <2>2. JobsFit' BY <1>6, <2>1, JobsStay DEF OwnAdd, AddJob, Fit, TypeOK
  <2>3. HandlersFit' BY <1>1, <1>6, Ends DEF OwnAdd
  <2>4. OthersFit' BY <1>6 DEF OwnAdd, Fit, TypeOK, OthersFit, SchedulesFit, Schedule
  <2>5. QED BY <1>2, <1>6, <2>2, <2>3, <2>4, JobsStep DEF OwnAdd
<1>7. CASE OwnAddFails(t)
  <2>1. HandlersFit' BY <1>0, <1>1, <1>7, Continues DEF OwnAddFails
  <2>2. QED BY <1>1, <1>2, <1>7, <2>1, ListGoes, QuietStep DEF OwnAddFails
<1>8. CASE Enqueue(t)
  <2> DEFINE m == IF t.mut.type = "create" THEN [t.mut EXCEPT !.plan = NULL] ELSE t.mut
  <2>1. m \in Mutation /\ Command(m) BY <1>0 DEF Command, Mutation
  <2>2. queue' = Append(queue, m) BY <1>8 DEF Enqueue
  <2> HIDE DEF m
  <2>3. ListFits' BY <1>1, <2>1, <2>2, CommandStays, ListGoes
  <2>4. HandlersFit' BY <1>1, <1>8, Ends DEF Enqueue
  <2>5. QED BY <1>1, <1>2, <1>8, <2>3, <2>4, QuietStep DEF Enqueue
<1>9. CASE EnqueueFails(t)
  BY <1>1, <1>2, <1>9, Ends, ListGoes, QuietStep DEF EnqueueFails
<1> QED BY <1>3, <1>4, <1>5, <1>6, <1>7, <1>8, <1>9

\* A rescheduling that nobody awaits (scheduleReminder).
LEMMA ScheduleFits ==
    ASSUME Fit, NEW s \in schedules, ScheduleRemove(s) \/ ScheduleAdd(s) \/ ScheduleAddFails(s)
    PROVE  Fit'
<1>0. /\ s \in Schedule /\ schedules \subseteq Schedule
      /\ s.phase = "add" => Due(s.row)
      /\ \A r \in schedules : r.phase = "add" => Due(r.row)
  BY DEF Fit, TypeOK, SchedulesFit, Schedule
<1>1. /\ UNCHANGED <<plans, nextPlan, queue, running, tasks, starting, applied, sent>>
      /\ faults' \in [count : 0 .. MaxFaults, kinds : SUBSET Faults]
  BY Counted, StillCounted DEF ScheduleRemove, ScheduleAdd, ScheduleAddFails
<1>2. Grows BY <1>1, GrowsAlready
<1>3. HandlersFit' BY <1>1, <1>2, HandlersGo
<1>4. JobsFit'
  <2>1. CASE ScheduleRemove(s) BY <2>1, Removed, JobsStay DEF ScheduleRemove
  <2>2. CASE ScheduleAdd(s)
    <3>1. <<s.plan, s.row.stage>> \in PlanIds \X (0 .. Stages - 1)
      BY <1>0, <2>2, Added DEF ScheduleAdd, Schedule
    <3>2. QED BY <2>2, <3>1, JobsStay DEF ScheduleAdd, AddJob, Fit, TypeOK
  <2>3. CASE ScheduleAddFails(s)
    BY <2>3, JobsStay DEF ScheduleAddFails, Fit, TypeOK
  <2>4. QED BY <2>1, <2>2, <2>3
<1>5. OthersFit'
  <2>1. CASE ScheduleRemove(s)
    <3> DEFINE r == [s EXCEPT !.phase = "add"]
    <3>1. r \in Schedule /\ r.row = s.row BY <1>0 DEF Schedule
    <3>2. \A x \in schedules' : x \in schedules \/ (x = r /\ Due(s.row))
      BY <2>1 DEF ScheduleRemove
    <3> HIDE DEF r
    <3>3. QED BY <1>0, <1>1, <3>1, <3>2 DEF OthersFit, SchedulesFit, Fit, TypeOK
  <2>2. CASE schedules' = schedules \ {s}
    BY <1>0, <1>1, <2>2 DEF OthersFit, SchedulesFit, Fit, TypeOK
  <2>3. QED BY <2>1, <2>2 DEF ScheduleAdd, ScheduleAddFails
<1> QED BY <1>1, <1>3, <1>4, <1>5, JobsStep

\* The worker has a job of the plans there are, and goes on with it or is done.
LEMMA WorkerHas ==
    ASSUME Fit, running # NULL
    PROVE  /\ running \in Running /\ WorkerFits(running) /\ running.job \in jobs
           /\ running.job \in PlanIds \X (0 .. Stages - 1)
           /\ running.job[1] \in PlanIds /\ running.job[2] \in 0 .. Stages - 1
           /\ running.job = <<running.job[1], running.job[2]>>
           /\ plans[running.job[1]] \in Row \cup {NULL}
  BY DEF Fit, TypeOK, WorkerFit, Running

\* The worker goes on with its job, in a phase that suits the row it has.
LEMMA WorkerSteps ==
    ASSUME Fit, running # NULL,
           NEW phase \in {"read", "post", "advance", "complete", "remove", "add"},
           NEW row \in Row \cup {NULL}, Step(phase, row),
           jobs' \subseteq jobs, running.job \in jobs',
           phase \in {"post", "advance"} => row # NULL /\ row.stage = running.job[2],
           phase = "add" => Due(row),
           phase \in {"complete", "remove", "add"} /\ Due(row) => row.stage # running.job[2]
    PROVE  JobsFit'
<1> DEFINE r == [running EXCEPT !.phase = phase, !.row = row]
<1>1. running' = r BY DEF Step
<1>2. r \in Running /\ r.job = running.job /\ r.phase = phase /\ r.row = row
  BY WorkerHas DEF Running
<1> HIDE DEF r
<1>3. WorkerFits(r) BY <1>2 DEF WorkerFits
<1>4. jobs \subseteq PlanIds \X (0 .. Stages - 1) BY DEF Fit, TypeOK
<1> QED BY <1>1, <1>2, <1>3, <1>4 DEF JobsFit, WorkerFit

\* The worker is done with a job.
LEMMA WorkerDone ==
    ASSUME Fit, running' = NULL,
           \A job \in jobs' : job \in jobs \/ job \in PlanIds \X (0 .. Stages - 1)
    PROVE  JobsFit'
  BY DEF Fit, TypeOK, JobsFit, WorkerFit

\* A step of the worker that leaves the table alone.
LEMMA WorkStep ==
    ASSUME Fit, JobsFit', UNCHANGED <<plans, nextPlan, queue, schedules, tasks, starting, applied, sent>>,
           UNCHANGED faults \/ \E k \in Faults : Occurs(k)
    PROVE  Fit'
<1>1. faults' \in [count : 0 .. MaxFaults, kinds : SUBSET Faults] BY StillCounted
<1>2. HandlersFit' BY GrowsAlready, HandlersGo
<1>3. OthersFit' BY DEF Fit, TypeOK, OthersFit, SchedulesFit, Schedule
<1> QED BY <1>1, <1>2, <1>3, JobsStep

\* The worker's steps (handleReminderJob).
LEMMA WorkFits == ASSUME Fit, Work PROVE Fit'
<1>1. CASE WorkerTake
  <2>1. PICK job \in jobs : running' = [job |-> job, phase |-> "read", row |-> NULL]
    BY <1>1 DEF WorkerTake
  <2> DEFINE r == [job |-> job, phase |-> "read", row |-> NULL]
  <2>2. r \in Running /\ r.job \in jobs /\ WorkerFits(r)
    BY DEF Running, WorkerFits, Fit, TypeOK
  <2>3. running' = r /\ UNCHANGED jobs BY <1>1, <2>1 DEF WorkerTake
  <2> HIDE DEF r
  <2>4. JobsFit' BY <2>2, <2>3 DEF JobsFit, WorkerFit, Fit, TypeOK
  <2>5. QED BY <1>1, <2>4, WorkStep DEF WorkerTake
<1>2. CASE WorkerRead
  <2> DEFINE row == plans[running.job[1]]
  <2>1. row \in Row \cup {NULL} /\ running # NULL BY <1>2, WorkerHas DEF WorkerRead
  <2>2. \/ Step("post", row) /\ row # NULL /\ row.stage = running.job[2]
        \/ Step("remove", row) /\ (Due(row) => row.stage # running.job[2])
    BY <1>2 DEF WorkerRead, Due
  <2>3. UNCHANGED jobs /\ running.job \in jobs BY <1>2, WorkerHas DEF WorkerRead
  <2> HIDE DEF row
  <2>4. JobsFit' BY <2>1, <2>2, <2>3, WorkerSteps
  <2>5. QED BY <1>2, <2>4, WorkStep DEF WorkerRead
<1>3. CASE WorkerPost
  <2> DEFINE p == running.job[1]
             row == running.row
             stage == running.job[2]
  <2>1. /\ running # NULL /\ running.job \in jobs /\ row \in Row \cup {NULL}
        /\ row # NULL /\ row.stage = stage /\ p \in PlanIds /\ stage \in 0 .. Stages - 1
    BY <1>3, WorkerHas DEF WorkerPost, WorkerFits, Running
  <2>2. Step("advance", row) /\ UNCHANGED jobs BY <1>3 DEF WorkerPost
  <2>3. JobsFit' BY <2>1, <2>2, WorkerSteps
  <2>4. sent' \in [PlanIds -> [period : Nat, stages : Seq(0 .. Stages - 1)]]
    <3>1. sent \in [PlanIds -> [period : Nat, stages : Seq(0 .. Stages - 1)]]
      BY DEF Fit, TypeOK
    <3>2. row.period \in Nat BY <2>1 DEF Row
    <3>3. Sent(p, row.period, stage) \in [period : Nat, stages : Seq(0 .. Stages - 1)]
      <4>1. CASE sent[p].period = row.period
        <5>1. Append(sent[p].stages, stage) \in Seq(0 .. Stages - 1) BY <2>1, <3>1
        <5>2. QED BY <2>1, <3>1, <4>1, <5>1 DEF Sent
      <4>2. CASE sent[p].period # row.period BY <2>1, <3>2, <4>2 DEF Sent
      <4>3. QED BY <4>1, <4>2
    <3>4. sent' = sent \/ sent' = [sent EXCEPT ![p] = Sent(p, row.period, stage)]
      BY <1>3 DEF WorkerPost
    <3>5. QED BY <2>1, <3>1, <3>3, <3>4
  <2>5. TableFits' BY <1>3, <2>4 DEF WorkerPost, NoneBeyond, TableFits, Fit, TypeOK
  <2>6. UNCHANGED <<plans, nextPlan, queue, schedules, tasks, starting, applied>>
        /\ faults' \in [count : 0 .. MaxFaults, kinds : SUBSET Faults]
    BY <1>3, Counted, StillCounted DEF WorkerPost
  <2> HIDE DEF p, row, stage
  <2>7. Grows BY <2>6, GrowsAlready
  <2>8. HandlersFit' /\ ListFits' BY <2>6, <2>7, HandlersGo, ListGoes
  <2>9. OthersFit' /\ CountsFit'
    BY <2>6, <2>7 DEF Fit, TypeOK, OthersFit, SchedulesFit, Schedule, CountsFit, Grows
  <2>10. QED BY <2>3, <2>5, <2>8, <2>9, FitParts DEF Parts
<1>4. CASE WorkerAdvance
  <2> DEFINE p == running.job[1]
             old == plans[p]
             new == plans'[p]
  <2>1. /\ running # NULL /\ running.job \in jobs /\ p \in PlanIds
        /\ running.job[2] \in 0 .. Stages - 1 /\ Stages \in Nat
        /\ plans \in [PlanIds -> Row \cup {NULL}] /\ old \in Row \cup {NULL}
    BY <1>4, WorkerHas, PlansAssumption DEF WorkerAdvance, Fit, TypeOK
  <2>2. /\ UNCHANGED <<nextPlan, queue, schedules, tasks, starting, applied, sent, faults>>
    BY <1>4 DEF WorkerAdvance
  <2>3. JobsFit' /\ plans' \in [PlanIds -> Row \cup {NULL}]
        /\ \A q \in PlanIds : plans[q] = NULL => plans'[q] = NULL
    <3>1. CASE old # NULL /\ old.stage = running.job[2]
      <4>1. /\ plans' = [plans EXCEPT ![p].stage = old.stage + 1]
            /\ Step(IF old.stage + 1 = Stages THEN "complete" ELSE "remove", new)
            /\ UNCHANGED jobs
        BY <1>4, <3>1 DEF WorkerAdvance
      <4>2. [old EXCEPT !.stage = old.stage + 1] \in Row
            /\ new = [old EXCEPT !.stage = old.stage + 1]
            /\ new.stage = old.stage + 1
        BY <2>1, <3>1, <4>1 DEF Row
      <4>3. /\ plans' \in [PlanIds -> Row \cup {NULL}]
            /\ \A q \in PlanIds : plans[q] = NULL => plans'[q] = NULL
        BY <2>1, <3>1, <4>1, <4>2
      <4>4. new \in Row \cup {NULL} /\ new.stage # running.job[2] BY <2>1, <3>1, <4>2
      <4>5. PICK phase \in {"complete", "remove"} : Step(phase, new)
        BY <4>1
      <4> HIDE DEF p, old, new
      <4>6. JobsFit' BY <2>1, <4>1, <4>4, <4>5, WorkerSteps
      <4>7. QED BY <4>3, <4>6
    <3>2. CASE ~(old # NULL /\ old.stage = running.job[2])
      <4>1. Finish /\ UNCHANGED plans BY <1>4, <3>2 DEF WorkerAdvance
      <4>2. QED BY <2>1, <4>1, WorkerDone DEF Finish
    <3>3. QED BY <3>1, <3>2
  <2> HIDE DEF p, old, new
  <2>4. TableFits' BY <2>2, <2>3 DEF NoneBeyond, TableFits, Fit, TypeOK
  <2>5. Grows BY <2>2, GrowsAlready
  <2>6. HandlersFit' /\ ListFits' BY <2>2, <2>5, HandlersGo, ListGoes
  <2>7. OthersFit' /\ CountsFit'
    BY <2>2, <2>5 DEF Fit, TypeOK, OthersFit, SchedulesFit, Schedule, CountsFit, Grows
  <2>8. QED BY <2>3, <2>4, <2>6, <2>7, FitParts DEF Parts
<1>5. CASE WorkerComplete
  <2>1. /\ running # NULL /\ running.phase = "complete" /\ Step("remove", running.row)
        /\ UNCHANGED <<plans, nextPlan, jobs, schedules, tasks, starting, sent>>
        /\ faults' \in [count : 0 .. MaxFaults, kinds : SUBSET Faults]
    BY <1>5, Counted, StillCounted DEF WorkerComplete
  <2>2. JobsFit' BY <2>1, WorkerHas, WorkerSteps DEF WorkerFits, Running
  <2>3. Grows BY <1>5, GrowsAlready, GrowsByOne DEF WorkerComplete
  <2>4. ListFits'
    <3>1. CASE UNCHANGED queue BY <2>3, <3>1, ListGoes
    <3>2. CASE /\ queue' = Append(queue, Fresh("complete", running.job[1], NULL))
               /\ applied' = Append(applied, 0)
      <4>1. running.job[1] \in PlanIds BY <2>1, WorkerHas
      <4>2. PICK m \in Mutation : m = Fresh("complete", running.job[1], NULL) /\ Command(m)'
        BY <3>2, <4>1, NewCommand DEF Kinds
      <4>3. QED BY <2>3, <3>2, <4>2, ListGoes
    <3>3. QED BY <1>5, <3>1, <3>2 DEF WorkerComplete
  <2>5. HandlersFit' BY <2>1, <2>3, HandlersGo
  <2>6. TableFits' BY <2>1 DEF NoneBeyond, TableFits, Fit, TypeOK
  <2>7. OthersFit' /\ CountsFit'
    BY <2>1, <2>3 DEF Fit, TypeOK, OthersFit, SchedulesFit, Schedule, CountsFit, Grows
  <2>8. QED BY <2>2, <2>4, <2>5, <2>6, <2>7, FitParts DEF Parts
<1>6. CASE WorkerRemove
  <2>1. running # NULL /\ running.phase = "remove" BY <1>6 DEF WorkerRemove
  <2>2. JobsFit'
    <3>1. CASE Due(running.row)
      <4>1. Step("add", running.row) /\ RemoveScheduledReminders(running.job[1])
        BY <1>6, <3>1 DEF WorkerRemove
      <4>2. jobs' \subseteq jobs /\ running.job \in jobs' BY <2>1, <4>1, Removed
      <4>3. running.row \in Row \cup {NULL} /\ running.row.stage # running.job[2]
        BY <2>1, <3>1, WorkerHas DEF WorkerFits, Running
      <4>4. QED BY <2>1, <3>1, <4>1, <4>2, <4>3, WorkerSteps
    <3>2. CASE ~Due(running.row)
      <4>1. running' = NULL /\ jobs' \subseteq jobs BY <1>6, <3>2 DEF WorkerRemove
      <4>2. QED BY <4>1, WorkerDone
    <3>3. QED BY <3>1, <3>2
  <2>3. QED BY <1>6, <2>2, WorkStep DEF WorkerRemove
<1>7. CASE WorkerAdd
  <2>1. running # NULL /\ running.phase = "add" /\ running' = NULL
        /\ jobs' = (jobs \cup {<<running.job[1], running.row.stage>>}) \ {running.job}
    BY <1>7 DEF WorkerAdd
  <2>2. <<running.job[1], running.row.stage>> \in PlanIds \X (0 .. Stages - 1)
    <3>1. /\ running.job[1] \in PlanIds /\ running.row \in Row \cup {NULL} /\ Due(running.row)
      BY <2>1, WorkerHas DEF WorkerFits, Running
    <3>2. QED BY <3>1, Added
  <2>3. JobsFit' BY <2>1, <2>2, WorkerDone
  <2>4. QED BY <1>7, <2>3, WorkStep DEF WorkerAdd
<1>8. CASE JobFails
  <2>1. JobsFit' BY <1>8, WorkerDone DEF JobFails, Finish
  <2>2. \E k \in Faults : Occurs(k) BY <1>8 DEF JobFails, Occurs
  <2>3. QED BY <1>8, <2>1, <2>2, WorkStep DEF JobFails
<1> QED BY <1>1, <1>2, <1>3, <1>4, <1>5, <1>6, <1>7, <1>8 DEF Work

\* The death of the process.
LEMMA CrashFits == ASSUME Fit, Crash PROVE Fit'
<1> DEFINE m == [n |-> 0, type |-> "startup", plan |-> NULL, arg |-> NULL]
           u == NewTask(m)
<1>1. m \in Mutation /\ Reader(m) BY DEF Mutation, Reader
<1>2. tasks' = {u} BY DEF Crash
<1> HIDE DEF m
<1>3. u \in Task /\ TaskFits(u) BY <1>1 DEF NewTask, Task, TaskFits
<1> HIDE DEF u
<1>4. Grows BY GrowsAlready DEF Crash
<1>5. HandlersFit' BY <1>2, <1>3, <1>4, TaskStays, HandlersGo
<1>6. JobsFit' BY WorkerDone DEF Crash
<1>7. OthersFit' BY DEF Crash, OthersFit, SchedulesFit
<1>8. faults' \in [count : 0 .. MaxFaults, kinds : SUBSET Faults] BY Counted DEF Crash
<1> QED BY <1>5, <1>6, <1>7, <1>8, JobsStep DEF Crash

\* The listing of the plans after a start (initialisePlanSchedules).
LEMMA ListPlansFits == ASSUME Fit, ListPlans PROVE Fit'
<1>1. /\ UNCHANGED <<plans, nextPlan, queue, jobs, running, tasks, applied, sent>>
      /\ faults' \in [count : 0 .. MaxFaults, kinds : SUBSET Faults]
      /\ starting' = FALSE
  BY Counted, StillCounted DEF ListPlans
<1>2. HandlersFit' BY <1>1, GrowsAlready, HandlersGo
<1>3. JobsFit' BY <1>1, JobsStay DEF Fit, TypeOK
<1>4. /\ schedules \subseteq Schedule /\ SchedulesFit
      /\ plans \in [PlanIds -> Row \cup {NULL}]
  BY DEF Fit, TypeOK, Schedule
<1>5. \A s \in schedules' : s \in schedules \/ (s \in Schedule /\ s.phase = "remove")
  <2>1. \A p \in PlanIds :
          [id |-> <<0, p>>, plan |-> p, row |-> plans[p], phase |-> "remove"] \in Schedule
    BY <1>4 DEF Schedule, PlanIds
  <2>2. \A s \in schedules' : s \in schedules \/ \E p \in PlanIds :
          s = [id |-> <<0, p>>, plan |-> p, row |-> plans[p], phase |-> "remove"]
    BY DEF ListPlans
  <2>3. QED BY <2>1, <2>2
<1>6. OthersFit' BY <1>1, <1>4, <1>5 DEF OthersFit, SchedulesFit
<1> QED BY <1>1, <1>2, <1>3, <1>6, JobsStep

\* Every step keeps the shapes.
LEMMA FitStep == ASSUME Fit, [Next]_vars PROVE Fit'
<1>1. CASE Begin BY <1>1, BeginFits
<1>2. ASSUME NEW t \in tasks, Flush(t) PROVE Fit' BY <1>2, FlushFits
<1>3. ASSUME NEW t \in tasks, HandleMutation(t) PROVE Fit'
  BY <1>3, OwnFits, AfterwardsFits DEF HandleMutation
<1>4. ASSUME NEW s \in schedules, ScheduleRemove(s) \/ ScheduleAdd(s) \/ ScheduleAddFails(s)
      PROVE  Fit'
  BY <1>4, ScheduleFits
<1>5. CASE Work BY <1>5, WorkFits
<1>6. CASE Crash BY <1>6, CrashFits
<1>7. CASE ListPlans BY <1>7, ListPlansFits
<1>8. CASE UNCHANGED vars
  BY <1>8 DEF vars, Fit, TypeOK, QueueFits, TasksFit, TaskFits, SchedulesFit, WorkerFit,
              WorkerFits, NoneBeyond, Command, Reader
<1> QED BY <1>1, <1>2, <1>3, <1>4, <1>5, <1>6, <1>7, <1>8 DEF Next

\* The shapes hold at first.
LEMMA FitInit == Init => Fit
<1> SUFFICES ASSUME Init PROVE Fit OBVIOUS
<1>1. sent \in [PlanIds -> [period : Nat, stages : Seq(0 .. Stages - 1)]]
  BY DEF Init
<1>2. nextPlan \in 1 .. MaxPlans + 1 BY PlansAssumption DEF Init
<1>3. faults \in [count : 0 .. MaxFaults, kinds : SUBSET Faults] BY PlansAssumption DEF Init
<1>4. queue \in Seq(Mutation) /\ applied \in Seq(Nat) BY DEF Init
<1>5. TypeOK BY <1>1, <1>2, <1>3, <1>4 DEF Init, TypeOK
<1> QED
  BY <1>5 DEF Init, Fit, QueueFits, TasksFit, SchedulesFit, WorkerFit, NoneBeyond

-----------------------------------------------------------------------------
(* The lists, element by element *)

\* A list that is not empty has a head, and the tail has the others.
LEMMA TailOf ==
    ASSUME NEW S, NEW q \in Seq(S), q # <<>>
    PROVE  /\ Len(q) \in Nat \ {0} /\ Head(q) = q[1] /\ Head(q) \in S
           /\ Tail(q) \in Seq(S) /\ Len(Tail(q)) = Len(q) - 1
           /\ \A i \in 1 .. Len(Tail(q)) : i + 1 \in 1 .. Len(q) /\ Tail(q)[i] = q[i + 1]
           /\ \A i \in 1 .. Len(q) : i = 1 \/ (i - 1 \in 1 .. Len(Tail(q)) /\ Tail(q)[i - 1] = q[i])
<1>1. Len(q) \in Nat \ {0} BY EmptySeq
<1>2. /\ Head(q) = q[1] /\ Head(q) \in S /\ Tail(q) \in Seq(S) /\ Len(Tail(q)) = Len(q) - 1
      /\ \A i \in 1 .. Len(Tail(q)) : Tail(q)[i] = q[i + 1]
  BY <1>1, HeadTailProperties
<1>3. \A i \in 1 .. Len(Tail(q)) : i + 1 \in 1 .. Len(q) BY <1>1, <1>2
<1>4. \A i \in 1 .. Len(q) : i = 1 \/ i - 1 \in 1 .. Len(Tail(q)) BY <1>1, <1>2
<1>5. \A i \in 1 .. Len(q) : i - 1 \in 1 .. Len(Tail(q)) => Tail(q)[i - 1] = q[i]
  BY <1>1, <1>2
<1> QED BY <1>1, <1>2, <1>3, <1>4, <1>5

\* A list with a new head.
LEMMA PutBefore ==
    ASSUME NEW S, NEW q \in Seq(S), NEW m \in S
    PROVE  /\ <<m>> \o q \in Seq(S) /\ Len(<<m>> \o q) = Len(q) + 1 /\ Len(q) \in Nat
           /\ (<<m>> \o q)[1] = m
           /\ \A i \in 1 .. Len(q) : i + 1 \in 1 .. Len(q) + 1 /\ (<<m>> \o q)[i + 1] = q[i]
           /\ \A i \in 1 .. Len(q) + 1 :
                i = 1 \/ (i - 1 \in 1 .. Len(q) /\ (<<m>> \o q)[i] = q[i - 1])
<1>1. /\ <<m>> \in Seq(S) /\ Len(<<m>>) = 1 /\ <<m>>[1] = m /\ Len(q) \in Nat
  OBVIOUS
<1>2. /\ <<m>> \o q \in Seq(S) /\ Len(<<m>> \o q) = 1 + Len(q)
      /\ \A i \in 1 .. 1 + Len(q) :
           (<<m>> \o q)[i] = IF i <= 1 THEN <<m>>[i] ELSE q[i - 1]
  BY <1>1, ConcatProperties
<1>3. \A i \in 1 .. Len(q) + 1 : i = 1 \/ (~(i <= 1) /\ i - 1 \in 1 .. Len(q)) BY <1>1
<1>4. \A i \in 1 .. Len(q) : i + 1 \in 1 .. Len(q) + 1 /\ ~(i + 1 <= 1) /\ (i + 1) - 1 = i
  BY <1>1
<1> QED BY <1>1, <1>2, <1>3, <1>4

-----------------------------------------------------------------------------
(* The commands *)

\* The counts of the commands: one more command, one more time, or as before.
Counting ==
    \/ UNCHANGED applied
    \/ applied' = Append(applied, 0)
    \/ \E m \in Mutation : Command(m) /\ Applies(m)

\* Every step counts so, and forgets no failure.
LEMMA StepCounts == ASSUME Fit, [Next]_vars PROVE Counting /\ faults.kinds \subseteq faults'.kinds
<1>0. \A k : Occurs(k) => faults.kinds \subseteq faults'.kinds BY Counted
<1>1. ASSUME NEW t \in tasks, Flush(t) PROVE Counting /\ faults.kinds \subseteq faults'.kinds
  <2>1. CASE FlushApplies(t) BY <2>1, Hand, Processed DEF FlushApplies, Counting
  <2>2. CASE FlushFails(t) BY <2>2, Hand, FailsEither DEF FlushFails, Counting, StatementDone
  <2>3. CASE FlushPop(t) \/ FlushDone(t) \/ FlushLosesHandler(t)
    BY <1>0, <2>3 DEF FlushPop, FlushDone, FlushLosesHandler, Counting
  <2>4. QED BY <1>1, <2>1, <2>2, <2>3 DEF Flush
<1>2. ASSUME NEW t \in tasks, HandleMutation(t)
      PROVE  Counting /\ faults.kinds \subseteq faults'.kinds
  <2>1. CASE OwnApplies(t) BY <2>1, Hand, Processed DEF OwnApplies, Counting
  <2>2. CASE OwnFails(t) BY <2>2, Hand, FailsEither DEF OwnFails, Counting, StatementDone
  <2>3. CASE ToggleReads(t) BY <2>3 DEF ToggleReads, Counting
  <2>4. CASE \/ OnlyReads(t) \/ Reply(t) \/ ReplyFails(t) \/ OwnRemove(t) \/ OwnAdd(t)
             \/ OwnAddFails(t) \/ Enqueue(t) \/ EnqueueFails(t)
    BY <1>0, <2>4
       DEF OnlyReads, Reply, ReplyFails, OwnRemove, OwnAdd, OwnAddFails, Enqueue, EnqueueFails,
           Counting
  <2>5. QED BY <1>2, <2>1, <2>2, <2>3, <2>4 DEF HandleMutation
<1>3. CASE Begin BY <1>3 DEF Begin, Counting
<1>4. ASSUME NEW s \in schedules, ScheduleRemove(s) \/ ScheduleAdd(s) \/ ScheduleAddFails(s)
      PROVE  Counting /\ faults.kinds \subseteq faults'.kinds
  BY <1>0, <1>4 DEF ScheduleRemove, ScheduleAdd, ScheduleAddFails, Counting
<1>5. CASE Work
  BY <1>0, <1>5 DEF Work, WorkerTake, WorkerRead, WorkerPost, WorkerAdvance, WorkerComplete,
                    WorkerRemove, WorkerAdd, JobFails, Counting
<1>6. CASE Crash BY <1>0, <1>6 DEF Crash, Counting
<1>7. CASE ListPlans BY <1>0, <1>7 DEF ListPlans, Counting
<1>8. CASE UNCHANGED vars BY <1>8 DEF vars, Counting
<1> QED BY <1>1, <1>2, <1>3, <1>4, <1>5, <1>6, <1>7, <1>8 DEF Next

\* No count goes down.
LEMMA NeverFewer ==
    ASSUME Fit, Counting
    PROVE  /\ Len(applied) \in Nat /\ Len(applied') \in Nat /\ Len(applied) <= Len(applied')
           /\ \A n \in 1 .. Len(applied) :
                applied[n] \in Nat /\ applied'[n] \in Nat /\ applied'[n] >= applied[n]
<1>0. applied \in Seq(Nat) /\ \A n \in 1 .. Len(applied) : applied[n] \in Nat
  BY ElementOfSeq DEF Fit, TypeOK
<1>1. CASE UNCHANGED applied BY <1>0, <1>1
<1>2. CASE applied' = Append(applied, 0) BY <1>0, <1>2, GrowsByOne
<1>3. ASSUME NEW m \in Mutation, Applies(m)
      PROVE  /\ Len(applied) \in Nat /\ Len(applied') \in Nat /\ Len(applied) <= Len(applied')
             /\ \A n \in 1 .. Len(applied) :
                  applied[n] \in Nat /\ applied'[n] \in Nat /\ applied'[n] >= applied[n]
  BY <1>0, <1>3 DEF Applies, Executes
<1> QED BY <1>1, <1>2, <1>3 DEF Counting

\* A handler has command n: as its own, or taken from the list.
Holds(t, n) == t.mut.n = n \/ (t.item # NULL /\ t.item.n = n)
InHand(n) == \E t \in tasks : Holds(t, n)
InList(n) == \E i \in 1 .. Len(queue) : queue[i].n = n
Somewhere(n) == applied[n] > 0 \/ InList(n) \/ InHand(n)

\* A handler that answers has applied its command.
Answered ==
    \A t \in tasks : t.phase \in {"reply", "refuse", "remove", "add"} => applied[t.mut.n] > 0

Safe == None({"redis", "crash"})

\* A handler's step loses no command it holds, and none of the list.
LEMMA HandlerKeeps ==
    ASSUME Fit, Answered, Safe', NEW t \in tasks, Flush(t) \/ HandleMutation(t),
           NEW n \in 1 .. Len(applied), Somewhere(n)
    PROVE  Somewhere(n)'
<1>0. /\ t \in Task /\ TaskFits(t) /\ queue \in Seq(Mutation)
      /\ t.phase # "apply" => t.item = NULL
      /\ n \in Nat /\ n # 0
      /\ [Next]_vars
  BY Hand DEF Fit, TypeOK, TaskFits, Next
<1>1. applied[n] > 0 => applied'[n] > 0
  BY <1>0, StepCounts, NeverFewer
<1>2. SUFFICES ASSUME InList(n) \/ InHand(n) PROVE applied'[n] > 0 \/ InList(n)' \/ InHand(n)'
  BY <1>1 DEF Somewhere
<1>3. \A k : k \in {"redis", "crash"} => ~Occurs(k) BY DEF Safe, None, Occurs
<1>4. UNCHANGED queue => (InList(n) => InList(n)') BY DEF InList
<1>5. \A u : Become(t, u) /\ (Holds(t, n) => Holds(u, n)) => (InHand(n) => InHand(n)')
  BY DEF Become, InHand
<1>6. End(t) /\ ~Holds(t, n) => (InHand(n) => InHand(n)') BY DEF End, InHand
<1>7. \A phase : To(t, phase) => (InHand(n) => InHand(n)')
  <2>1. ASSUME NEW phase, To(t, phase) PROVE InHand(n) => InHand(n)'
    <3> DEFINE u == [t EXCEPT !.phase = phase]
    <3>1. u.mut = t.mut /\ u.item = t.item BY <1>0 DEF Task
    <3>2. Become(t, u) BY <2>1 DEF To
    <3> HIDE DEF u
    <3>3. QED BY <1>5, <3>1, <3>2 DEF Holds
  <2>2. QED BY <2>1
<1>8. CASE FlushPop(t)
  <2>0. PICK u : u = [t EXCEPT !.phase = "apply", !.item = Head(queue)] OBVIOUS
  <2>1. queue # <<>> /\ queue' = Tail(queue) /\ Become(t, u) /\ t.phase = "pop"
    BY <1>8, <2>0 DEF FlushPop, Become
  <2>2. u.mut = t.mut /\ u.item = Head(queue) BY <1>0, <2>0 DEF Task
  <2>3. Head(queue) # NULL BY <1>0, <2>1, TailOf, NullAssumption
  <2>4. InHand(n) => InHand(n)'
    <3>1. Holds(t, n) => Holds(u, n) BY <1>0, <2>1, <2>2 DEF Holds
    <3>2. Become(t, u) BY <2>1
    <3>3. QED BY <3>1, <3>2 DEF Become, InHand
  <2>5. ASSUME InList(n) PROVE InList(n)' \/ InHand(n)'
    <3>1. PICK i \in 1 .. Len(queue) : queue[i].n = n BY <2>5 DEF InList
    <3>2. CASE i = 1
      <4>1. Holds(u, n) BY <1>0, <2>1, <2>2, <2>3, <3>1, <3>2, TailOf DEF Holds
      <4>2. QED BY <2>1, <4>1 DEF Become, InHand
    <3>3. CASE i # 1
      <4>1. i - 1 \in 1 .. Len(queue') /\ queue'[i - 1] = queue[i]
        BY <1>0, <2>1, <3>1, <3>3, TailOf
      <4>2. QED BY <3>1, <4>1 DEF InList
    <3>4. QED BY <3>2, <3>3
  <2>6. QED BY <1>2, <2>4, <2>5
<1>9. CASE FlushApplies(t)
  <2> DEFINE u == [t EXCEPT !.phase = "pop", !.item = NULL]
  <2>1. ProcessMutation(t.item) /\ Become(t, u) /\ t.phase = "apply" /\ UNCHANGED queue
    BY <1>9 DEF FlushApplies
  <2>2. u.mut = t.mut BY <1>0 DEF Task
  <2> HIDE DEF u
  <2>3. Applies(t.item) /\ Command(t.item) BY <2>1, Hand, Processed
  <2>4. CASE t.item.n = n
    <3>1. applied[n] \in Nat /\ applied'[n] = applied[n] + 1
      BY <2>3, <2>4, ElementOfSeq DEF Applies, Executes, Fit, TypeOK
    <3>2. QED BY <3>1
  <2>5. CASE t.item.n # n
    <3>1. InHand(n) => InHand(n)' BY <1>5, <2>1, <2>2, <2>5 DEF Holds
    <3>2. QED BY <1>2, <1>4, <2>1, <3>1
  <2>6. QED BY <2>4, <2>5
<1>10. CASE FlushFails(t)
  <2> DEFINE u == [t EXCEPT !.phase = "own", !.item = NULL]
  <2>1. Become(t, u) /\ t.phase = "apply" /\ queue' = <<t.item>> \o queue
    BY <1>10 DEF FlushFails
  <2>2. u.mut = t.mut BY <1>0 DEF Task
  <2> HIDE DEF u
  <2>3. t.item \in Mutation BY <2>1, Hand
  <2>4. InList(n) => InList(n)' BY <1>0, <2>1, <2>3, PutBefore DEF InList
  <2>5. t.item.n = n => InList(n)'
    <3>1. 1 \in 1 .. Len(queue') /\ queue'[1] = t.item BY <1>0, <2>1, <2>3, PutBefore
    <3>2. QED BY <3>1 DEF InList
  <2>6. t.item.n # n => (InHand(n) => InHand(n)') BY <1>5, <2>1, <2>2 DEF Holds
  <2>7. QED BY <1>2, <2>4, <2>5, <2>6
<1>11. CASE FlushDone(t) BY <1>2, <1>4, <1>7, <1>11 DEF FlushDone
<1>12. CASE FlushLosesHandler(t) BY <1>3, <1>12 DEF FlushLosesHandler
<1>13. CASE OnlyReads(t)
  <2>1. t.mut.n = 0 /\ t.item = NULL BY <1>0, <1>13 DEF OnlyReads, TaskFits, Command, Kinds, Reader
  <2>2. QED BY <1>0, <1>2, <1>4, <1>6, <1>13, <2>1 DEF OnlyReads, Holds
<1>14. CASE ToggleReads(t)
  <2>1. t.mut.n = 0 /\ t.item = NULL
    BY <1>0, <1>14 DEF ToggleReads, TaskFits, Command, Kinds, Reader
  <2>2. ~Holds(t, n) BY <1>0, <2>1 DEF Holds
  <2>3. End(t) \/ \E u : Become(t, u) BY <1>14 DEF ToggleReads
  <2>4. QED BY <1>2, <1>4, <1>5, <1>6, <1>14, <2>2, <2>3 DEF ToggleReads
<1>15. CASE OwnApplies(t)
  <2>1. ProcessMutation(t.mut) /\ Command(t.mut) /\ t.mut \in Mutation /\ t.item = NULL
        /\ UNCHANGED queue
    BY <1>0, <1>15, Hand DEF OwnApplies
  <2>2. Applies(t.mut) BY <2>1, Processed
  <2>3. CASE t.mut.n = n
    <3>1. applied[n] \in Nat /\ applied'[n] = applied[n] + 1
      BY <2>2, <2>3, ElementOfSeq DEF Applies, Executes, Fit, TypeOK
    <3>2. QED BY <3>1
  <2>4. CASE t.mut.n # n
    <3>1. ~Holds(t, n) BY <2>1, <2>4 DEF Holds
    <3>2. \E u : Become(t, u) BY <1>15 DEF OwnApplies
    <3>3. QED BY <1>2, <1>4, <1>5, <2>1, <3>1, <3>2
  <2>5. QED BY <2>3, <2>4
<1>16. CASE OwnFails(t) BY <1>2, <1>4, <1>7, <1>16 DEF OwnFails
<1>17. CASE ReplyFails(t) BY <1>2, <1>4, <1>7, <1>17 DEF ReplyFails
<1>18. CASE Reply(t) \/ OwnRemove(t) \/ OwnAdd(t)
  <2>1. applied[t.mut.n] > 0 /\ t.item = NULL /\ UNCHANGED <<queue, applied>>
    BY <1>0, <1>18 DEF Reply, OwnRemove, OwnAdd, Answered
  <2>2. CASE t.mut.n = n BY <2>1, <2>2
  <2>3. CASE t.mut.n # n
    <3>1. ~Holds(t, n) BY <2>1, <2>3 DEF Holds
    <3>2. End(t) \/ \E phase : To(t, phase) BY <1>18 DEF Reply, OwnRemove, OwnAdd
    <3>3. QED BY <1>2, <1>4, <1>6, <1>7, <2>1, <3>1, <3>2
  <2>4. QED BY <2>2, <2>3
<1>19. CASE OwnAddFails(t) \/ EnqueueFails(t) BY <1>3, <1>19 DEF OwnAddFails, EnqueueFails
<1>20. CASE Enqueue(t)
  <2> DEFINE m == IF t.mut.type = "create" THEN [t.mut EXCEPT !.plan = NULL] ELSE t.mut
  <2>1. m.n = t.mut.n /\ m \in Mutation BY <1>0, Hand DEF Mutation
  <2>2. queue' = Append(queue, m) /\ End(t) /\ t.item = NULL BY <1>0, <1>20 DEF Enqueue
  <2> HIDE DEF m
  <2>3. InList(n) => InList(n)' BY <1>0, <2>1, <2>2 DEF InList
  <2>4. t.mut.n = n => InList(n)'
    <3>1. Len(queue) + 1 \in 1 .. Len(queue') /\ queue'[Len(queue) + 1] = m BY <1>0, <2>1, <2>2
    <3>2. QED BY <2>1, <3>1 DEF InList
  <2>5. t.mut.n # n => (InHand(n) => InHand(n)') BY <1>6, <2>2 DEF Holds
  <2>6. QED BY <1>2, <2>3, <2>4, <2>5
<1> QED
  BY <1>8, <1>9, <1>10, <1>11, <1>12, <1>13, <1>14, <1>15, <1>16, <1>17, <1>18, <1>19, <1>20
     DEF Flush, HandleMutation

\* A handler answers only after its command was applied.
LEMMA AnsweredStep == ASSUME Fit, Answered, [Next]_vars PROVE Answered'
<1> DEFINE After == {"reply", "refuse", "remove", "add"}
<1>0. \A u \in tasks : u.phase \in After => u.mut.n \in 1 .. Len(applied) /\ applied[u.mut.n] > 0
  BY Hand DEF Answered, Command
<1>1. \A u \in tasks : u.phase \in After => applied'[u.mut.n] > 0
  BY <1>0, StepCounts, NeverFewer
<1>2. SUFFICES \A u \in tasks' : u \in tasks \/ u.phase \notin After \/ applied'[u.mut.n] > 0
  BY <1>1 DEF Answered
<1> HIDE DEF After
<1>3. \A m : NewTask(m).phase \notin After BY DEF NewTask, After
<1>4. ASSUME NEW t \in tasks, NEW phase, To(t, phase),
             phase \notin After \/ (t.phase \in After /\ UNCHANGED applied)
      PROVE  \A u \in tasks' : u \in tasks \/ u.phase \notin After \/ applied'[u.mut.n] > 0
  <2> DEFINE x == [t EXCEPT !.phase = phase]
  <2>1. x.phase = phase /\ x.mut = t.mut BY Hand DEF Task
  <2>2. \A u \in tasks' : u \in tasks \/ u = x BY <1>4 DEF To, Become
  <2> HIDE DEF x
  <2>3. QED BY <1>1, <1>4, <2>1, <2>2
<1>5. ASSUME NEW t \in tasks, Flush(t)
      PROVE  \A u \in tasks' : u \in tasks \/ u.phase \notin After \/ applied'[u.mut.n] > 0
  <2>0. t \in Task BY Hand
  <2>1. CASE FlushPop(t)
    <3>1. \A u \in tasks' : u \in tasks \/ u = [t EXCEPT !.phase = "apply", !.item = Head(queue)]
      BY <2>1 DEF FlushPop, Become
    <3>2. [t EXCEPT !.phase = "apply", !.item = Head(queue)].phase = "apply" BY <2>0 DEF Task
    <3>3. QED BY <3>1, <3>2 DEF After
  <2>2. CASE FlushApplies(t)
    <3>1. \A u \in tasks' : u \in tasks \/ u = [t EXCEPT !.phase = "pop", !.item = NULL]
      BY <2>2 DEF FlushApplies, Become
    <3>2. [t EXCEPT !.phase = "pop", !.item = NULL].phase = "pop" BY <2>0 DEF Task
    <3>3. QED BY <3>1, <3>2 DEF After
  <2>3. CASE FlushFails(t)
    <3>1. \A u \in tasks' : u \in tasks \/ u = [t EXCEPT !.phase = "own", !.item = NULL]
      BY <2>3 DEF FlushFails, Become
    <3>2. [t EXCEPT !.phase = "own", !.item = NULL].phase = "own" BY <2>0 DEF Task
    <3>3. QED BY <3>1, <3>2 DEF After
  <2>4. CASE FlushDone(t)
    <3>1. To(t, "own") /\ "own" \notin After BY <2>4 DEF FlushDone, After
    <3>2. QED BY <1>4, <3>1
  <2>5. CASE FlushLosesHandler(t) BY <2>5 DEF FlushLosesHandler, End
  <2>6. QED BY <1>5, <2>1, <2>2, <2>3, <2>4, <2>5 DEF Flush
<1>6. ASSUME NEW t \in tasks, HandleMutation(t)
      PROVE  \A u \in tasks' : u \in tasks \/ u.phase \notin After \/ applied'[u.mut.n] > 0
  <2>0. t \in Task BY Hand
  <2>1. CASE OnlyReads(t) \/ Enqueue(t) \/ EnqueueFails(t) \/ OwnAdd(t)
    BY <2>1 DEF OnlyReads, Enqueue, EnqueueFails, OwnAdd, End
  <2>2. CASE ToggleReads(t)
    <3>1. End(t) \/ \E m : Become(t, NewTask(m)) BY <2>2 DEF ToggleReads
    <3>2. \A u \in tasks' : u \in tasks \/ \E m : u = NewTask(m)
      BY <3>1 DEF End, Become
    <3>3. QED BY <1>3, <3>2
  <2>3. CASE OwnApplies(t)
    <3>1. ProcessMutation(t.mut) /\ t.mut \in Mutation /\ Command(t.mut)
      BY <2>3, Hand DEF OwnApplies
    <3>2. applied[t.mut.n] \in Nat /\ applied'[t.mut.n] = applied[t.mut.n] + 1
      BY <3>1, Processed, ElementOfSeq DEF Applies, Executes, Fit, TypeOK, Command
    <3>3. applied'[t.mut.n] > 0 BY <3>2
    <3>4. PICK x : x = IF Found(t.mut)
                       THEN [t EXCEPT !.phase = "reply", !.row = plans'[Target(t.mut)],
                                      !.mut.plan = Target(t.mut)]
                       ELSE [t EXCEPT !.phase = "refuse"]
      OBVIOUS
    <3>5. x.mut.n = t.mut.n BY <2>0, <3>4 DEF Task, Mutation
    <3>6. tasks' = (tasks \ {t}) \cup {x} BY <2>3, <3>4 DEF OwnApplies, Become
    <3>7. QED BY <3>3, <3>5, <3>6
  <2>4. CASE OwnFails(t) \/ ReplyFails(t) \/ OwnAddFails(t)
    <3>1. To(t, "enqueue") /\ "enqueue" \notin After
      BY <2>4 DEF OwnFails, ReplyFails, OwnAddFails, After
    <3>2. QED BY <1>4, <3>1
  <2>5. CASE Reply(t) \/ OwnRemove(t)
    <3>1. /\ t.phase \in After /\ UNCHANGED applied
          /\ End(t) \/ To(t, "remove") \/ To(t, "add")
      BY <2>5 DEF Reply, OwnRemove, After
    <3>2. CASE End(t) BY <3>2 DEF End
    <3>3. CASE To(t, "remove") BY <1>4, <3>1, <3>3
    <3>4. CASE To(t, "add") BY <1>4, <3>1, <3>4
    <3>5. QED BY <3>1, <3>2, <3>3, <3>4
  <2>6. QED BY <1>6, <2>1, <2>2, <2>3, <2>4, <2>5 DEF HandleMutation
<1>7. CASE Begin \/ Crash
  <2>1. CASE Begin
    <3>1. \E m : tasks' = tasks \cup {NewTask(m)} BY <2>1, Zenon DEF Begin
    <3>2. QED BY <1>3, <3>1
  <2>2. CASE Crash
    <3>1. \E m : tasks' = {NewTask(m)} BY <2>2, Zenon DEF Crash
    <3>2. QED BY <1>3, <3>1
  <2>3. QED BY <1>7, <2>1, <2>2
<1>8. ASSUME NEW s \in schedules, ScheduleRemove(s) \/ ScheduleAdd(s) \/ ScheduleAddFails(s)
      PROVE  UNCHANGED tasks
  BY <1>8 DEF ScheduleRemove, ScheduleAdd, ScheduleAddFails
<1>9. Work \/ ListPlans \/ UNCHANGED vars => UNCHANGED tasks
  BY DEF Work, WorkerTake, WorkerRead, WorkerPost, WorkerAdvance, WorkerComplete,
         WorkerRemove, WorkerAdd, JobFails, ListPlans, vars
<1> QED BY <1>5, <1>6, <1>7, <1>8, <1>9 DEF Next

\* No step loses a command while nothing fails that excuses it.
LEMMA KeptStep ==
    ASSUME Fit, Answered, CommandsKept, [Next]_vars
    PROVE  CommandsKept'
<1>1. SUFFICES ASSUME Safe' PROVE \A n \in 1 .. Len(applied') : Somewhere(n)'
  BY DEF CommandsKept, Safe, Somewhere, InList, InHand, Holds
<1>2. \A n \in 1 .. Len(applied) : Somewhere(n)
  BY <1>1, StepCounts DEF CommandsKept, Safe, None, Somewhere, InList, InHand, Holds
<1>3. /\ Len(applied) \in Nat
      /\ \A n \in 1 .. Len(applied) : applied[n] > 0 => applied'[n] > 0
  BY StepCounts, NeverFewer
<1>4. ASSUME UNCHANGED <<queue, tasks, applied>> PROVE \A n \in 1 .. Len(applied') : Somewhere(n)'
  BY <1>2, <1>4 DEF Somewhere, InList, InHand
<1>5. UNCHANGED applied \/ Len(applied') = Len(applied) \/ applied' = Append(applied, 0)
  BY StepCounts DEF Counting, Applies, Executes
<1>6. ASSUME NEW t \in tasks, Flush(t) \/ HandleMutation(t)
      PROVE  \A n \in 1 .. Len(applied') : Somewhere(n)'
  <2>1. \A n \in 1 .. Len(applied) : Somewhere(n)' BY <1>1, <1>2, <1>6, HandlerKeeps
  <2>2. CASE Len(applied') = Len(applied) BY <2>1, <2>2
  <2>3. CASE applied' = Append(applied, 0) /\ Len(applied') # Len(applied)
    <3>1. Len(applied') = Len(applied) + 1 BY <2>3, GrowsByOne
    <3>2. CASE ToggleReads(t)
      <4>1. PICK type, p : Become(t, NewTask(Fresh(type, p, NULL)))
        BY <2>3, <3>2 DEF ToggleReads
      <4>2. PICK m : m = Fresh(type, p, NULL) OBVIOUS
      <4>3. m.n = Len(applied) + 1 /\ NewTask(m) \in tasks' /\ NewTask(m).mut = m
        BY <4>1, <4>2 DEF Become, Fresh, NewTask
      <4>4. Holds(NewTask(m), Len(applied) + 1) BY <4>3 DEF Holds
      <4>5. \A n \in 1 .. Len(applied') : n \in 1 .. Len(applied) \/ n = Len(applied) + 1
        BY <1>3, <3>1
      <4>6. \A n : n = Len(applied) + 1 => InHand(n)' BY <4>3, <4>4 DEF InHand
      <4>7. QED BY <2>1, <4>5, <4>6 DEF Somewhere
    <3>3. CASE ~ToggleReads(t)
      <4>1. \/ UNCHANGED applied
            \/ ApplyMutation(t.item) /\ t.phase = "apply"
            \/ ApplyMutation(t.mut) /\ t.mut.type \in Kinds
        BY <1>6, <3>3
           DEF Flush, HandleMutation, FlushPop, FlushApplies, FlushFails, FlushDone,
               FlushLosesHandler, OnlyReads, OwnApplies, OwnFails, StatementFails,
               ProcessMutation, Reply,
               ReplyFails, OwnRemove, OwnAdd, OwnAddFails, Enqueue, EnqueueFails
      <4>2. UNCHANGED applied \/ Len(applied') = Len(applied)
        BY <4>1, Hand, Executed DEF Executes
      <4>3. QED BY <2>3, <4>2
    <3>4. QED BY <3>2, <3>3
  <2>4. QED BY <1>5, <2>2, <2>3
<1>7. CASE Begin
  <2>1. tasks \subseteq tasks' /\ UNCHANGED queue BY <1>7 DEF Begin
  <2>2. \A n \in 1 .. Len(applied) : Somewhere(n)'
    BY <1>2, <1>3, <2>1 DEF Somewhere, InList, InHand
  <2>3. CASE UNCHANGED applied BY <2>2, <2>3
  <2>4. CASE ~UNCHANGED applied
    <3>1. PICK type, p, arg : NewTask(Fresh(type, p, arg)) \in tasks'
      BY <1>7, <2>4 DEF Begin
    <3>2. PICK m : m = Fresh(type, p, arg) OBVIOUS
    <3>3. m.n = Len(applied) + 1 /\ NewTask(m) \in tasks' /\ NewTask(m).mut = m
      BY <3>1, <3>2 DEF Fresh, NewTask
    <3>4. \A n : n = Len(applied) + 1 => InHand(n)' BY <3>3 DEF InHand, Holds
    <3>5. Len(applied') = Len(applied) + 1 BY <1>7, <2>4, GrowsByOne DEF Begin
    <3>6. \A n \in 1 .. Len(applied') : n \in 1 .. Len(applied) \/ n = Len(applied) + 1
      BY <1>3, <3>5
    <3>7. QED BY <2>2, <3>4, <3>6 DEF Somewhere
  <2>5. QED BY <2>3, <2>4
<1>8. CASE WorkerComplete
  <2>1. CASE UNCHANGED <<queue, applied>> BY <1>4, <1>8, <2>1 DEF WorkerComplete
  <2>2. CASE /\ queue' = Append(queue, Fresh("complete", running.job[1], NULL))
             /\ applied' = Append(applied, 0)
    <3>0. queue \in Seq(Mutation) /\ UNCHANGED tasks BY <1>8 DEF Fit, TypeOK, WorkerComplete
    <3>a. running.job[1] \in PlanIds BY <1>8, WorkerHas DEF WorkerComplete
    <3>1. PICK m \in Mutation : m = Fresh("complete", running.job[1], NULL) /\ Command(m)'
      BY <2>2, <3>a, NewCommand DEF Kinds
    <3>2. queue' = Append(queue, m) /\ m.n = Len(applied) + 1 BY <2>2, <3>1 DEF Fresh
    <3>3. /\ Len(queue) + 1 \in 1 .. Len(queue') /\ queue'[Len(queue) + 1] = m
          /\ \A i \in 1 .. Len(queue) : i \in 1 .. Len(queue') /\ queue'[i] = queue[i]
      BY <3>0, <3>2
    <3>4. \A n \in 1 .. Len(applied) : Somewhere(n)'
      BY <1>2, <1>3, <3>0, <3>3 DEF Somewhere, InList, InHand
    <3>5. \A n : n = Len(applied) + 1 => InList(n)' BY <3>2, <3>3 DEF InList
    <3>6. Len(applied') = Len(applied) + 1 BY <2>2, GrowsByOne
    <3>7. \A n \in 1 .. Len(applied') : n \in 1 .. Len(applied) \/ n = Len(applied) + 1
      BY <1>3, <3>6
    <3>8. QED BY <3>4, <3>5, <3>7 DEF Somewhere
  <2>3. QED BY <1>8, <2>1, <2>2 DEF WorkerComplete
<1>9. CASE Work /\ ~WorkerComplete
  <2>1. UNCHANGED <<queue, tasks, applied>>
    BY <1>9 DEF Work, WorkerTake, WorkerRead, WorkerPost, WorkerAdvance,
                WorkerRemove, WorkerAdd, JobFails
  <2>2. QED BY <1>4, <2>1
<1>10. ASSUME NEW s \in schedules, ScheduleRemove(s) \/ ScheduleAdd(s) \/ ScheduleAddFails(s)
       PROVE  UNCHANGED <<queue, tasks, applied>>
  BY <1>10 DEF ScheduleRemove, ScheduleAdd, ScheduleAddFails
<1>11. ~Crash BY <1>1, Counted DEF Crash, Safe, None
<1>12. ListPlans \/ UNCHANGED vars => UNCHANGED <<queue, tasks, applied>> BY DEF ListPlans, vars
<1> QED BY <1>4, <1>6, <1>7, <1>8, <1>9, <1>10, <1>11, <1>12 DEF Next

\* The invariant of the commands that are kept.
KeptInv == Fit /\ Answered /\ CommandsKept

\* As long as Redis answers and the process lives, no command is lost
\* (handleMutationWithFallback, flushExecutorPlanMutations).
THEOREM CommandsKeptHolds == Spec => []CommandsKept
<1>1. Init => KeptInv
  <2>1. Init => Answered /\ CommandsKept BY DEF Init, Answered, CommandsKept
  <2>2. QED BY <2>1, FitInit DEF KeptInv
<1>2. KeptInv /\ [Next]_vars => KeptInv' BY FitStep, AnsweredStep, KeptStep DEF KeptInv
<1>3. KeptInv => CommandsKept BY DEF KeptInv
<1> QED BY <1>1, <1>2, <1>3, PTL DEF Spec

-----------------------------------------------------------------------------
(* Each command is in one place *)

Numbers == Nat \ {0}

\* A command is in the list once, or in the hands of one handler, who holds it either as
\* its own or as an item of the list.
OnePlace ==
    /\ \A i, j \in 1 .. Len(queue) : i # j => queue[i].n # queue[j].n
    /\ \A i \in 1 .. Len(queue), t \in tasks : ~Holds(t, queue[i].n)
    /\ \A t, u \in tasks, n \in Numbers : Holds(t, n) /\ Holds(u, n) => t = u
    /\ \A t \in tasks : t.item # NULL => t.item.n # t.mut.n

\* A handler has yet to apply command n, or to queue it.
Pending(t, n) ==
    \/ t.mut.n = n /\ t.phase \in {"pop", "apply", "own", "enqueue"}
    \/ t.item # NULL /\ t.item.n = n

Sure == None({"answer", "telegram", "redis"})

\* What waits has not been applied, as long as no answer is lost.
NotYet ==
    Sure => /\ \A i \in 1 .. Len(queue) : applied[queue[i].n] = 0
            /\ \A t \in tasks, n \in Numbers : Pending(t, n) => applied[n] = 0

OnceInv == OnePlace /\ NotYet /\ AppliedOnce

\* Numbers that are held or listed were given to commands.
LEMMA Numbered ==
    ASSUME Fit
    PROVE  /\ Len(applied) \in Nat /\ queue \in Seq(Mutation)
           /\ \A i \in 1 .. Len(queue) :
                queue[i] \in Mutation /\ queue[i].n \in 1 .. Len(applied) /\ queue[i].n \in Numbers
           /\ \A t \in tasks, n \in Numbers : Holds(t, n) => n \in 1 .. Len(applied)
           /\ \A t \in tasks : \A n : Pending(t, n) => Holds(t, n)
           /\ \A t \in tasks : t.item # NULL => t.item.n \in Numbers /\ t.phase = "apply"
<1>1. /\ Len(applied) \in Nat /\ queue \in Seq(Mutation)
      /\ \A i \in 1 .. Len(queue) : queue[i] \in Mutation /\ queue[i].n \in 1 .. Len(applied)
  BY ElementOfSeq, LenProperties DEF Fit, TypeOK, QueueFits, Command
<1>2. \A i \in 1 .. Len(queue) : queue[i].n \in Numbers BY <1>1 DEF Numbers
<1>3. \A t \in tasks : t.item # NULL => t.phase = "apply" /\ t.item.n \in 1 .. Len(applied)
  BY Hand DEF TaskFits, Command
<1>4. \A t \in tasks : t.mut.n = 0 \/ t.mut.n \in 1 .. Len(applied)
  BY Hand DEF TaskFits, Command, Reader
<1>5. \A t \in tasks : \A n : Pending(t, n) => Holds(t, n) BY DEF Pending, Holds
<1> QED BY <1>1, <1>2, <1>3, <1>4, <1>5 DEF Holds, Numbers

\* A handler that lets go of commands, applies one that it had yet to apply, or passes
\* an unapplied one on to itself.
LEMMA LetsGo ==
    ASSUME Fit, OnceInv, NEW t \in tasks, NEW u,
           tasks' \subseteq (tasks \ {t}) \cup {u}, UNCHANGED queue,
           \A n \in Numbers : Holds(u, n) => Holds(t, n),
           u.item # NULL => u = t,
           Sure' => /\ Sure /\ Len(applied') = Len(applied)
                    /\ \A n \in Numbers : Pending(u, n) => Pending(t, n)
                    /\ \A n \in 1 .. Len(applied) :
                         \/ applied'[n] = applied[n]
                         \/ Pending(t, n) /\ ~Pending(u, n) /\ applied'[n] = applied[n] + 1
    PROVE  OnceInv'
<1>1. OnePlace'
  <2>1. \A i \in 1 .. Len(queue'), x \in tasks' : ~Holds(x, queue'[i].n)
    BY Numbered DEF OnceInv, OnePlace
  <2>2. \A x, y \in tasks', n \in Numbers : Holds(x, n) /\ Holds(y, n) => x = y
    BY DEF OnceInv, OnePlace
  <2>3. \A x \in tasks' : x.item # NULL => x.item.n # x.mut.n BY DEF OnceInv, OnePlace
  <2>4. QED BY <2>1, <2>2, <2>3 DEF OnceInv, OnePlace, Holds
<1>2. ASSUME Sure' PROVE NotYet' /\ AppliedOnce'
  <2>0. /\ Sure /\ Len(applied') = Len(applied)
        /\ \A n \in Numbers : Pending(u, n) => Pending(t, n)
        /\ \A n \in 1 .. Len(applied) :
             \/ applied'[n] = applied[n]
             \/ Pending(t, n) /\ ~Pending(u, n) /\ applied'[n] = applied[n] + 1
    BY <1>2
  <2>1. /\ \A i \in 1 .. Len(queue) : applied[queue[i].n] = 0
        /\ \A x \in tasks, n \in Numbers : Pending(x, n) => applied[n] = 0
        /\ \A n \in 1 .. Len(applied) : applied[n] <= 1
        /\ \A n \in 1 .. Len(applied) : n \in Numbers
    BY <2>0, Numbered DEF OnceInv, NotYet, AppliedOnce, Sure, Numbers
  <2>2. \A i \in 1 .. Len(queue) : applied'[queue[i].n] = 0
    <3>1. \A i \in 1 .. Len(queue) : ~Pending(t, queue[i].n)
      BY Numbered DEF OnceInv, OnePlace
    <3>2. QED BY <2>0, <2>1, <3>1, Numbered
  <2>3. \A x \in tasks', n \in Numbers : Pending(x, n) => applied'[n] = 0
    <3>1. ASSUME NEW x \in tasks', NEW n \in Numbers, Pending(x, n) PROVE applied'[n] = 0
      <4>1. CASE x = u
        <5>1. Pending(t, n) /\ Pending(u, n) BY <2>0, <3>1, <4>1
        <5>2. n \in 1 .. Len(applied) /\ applied[n] = 0 BY <2>1, <5>1, Numbered
        <5>3. QED BY <2>0, <5>1, <5>2
      <4>2. CASE x # u
        <5>1. x \in tasks /\ x # t BY <4>2
        <5>2. n \in 1 .. Len(applied) /\ applied[n] = 0 /\ Holds(x, n)
          BY <2>1, <3>1, <5>1, Numbered
        <5>3. ~Pending(t, n) BY <5>1, <5>2, Numbered DEF OnceInv, OnePlace
        <5>4. QED BY <2>0, <5>2, <5>3
      <4>3. QED BY <4>1, <4>2
    <3>2. QED BY <3>1
  <2>4. \A n \in 1 .. Len(applied') : applied'[n] <= 1
    <3>1. \A n \in 1 .. Len(applied) : Pending(t, n) => applied[n] = 0 BY <2>1
    <3>2. QED BY <2>0, <2>1, <3>1
  <2>5. QED BY <2>2, <2>3, <2>4 DEF NotYet, AppliedOnce, Pending
<1>3. ~Sure' => NotYet' /\ AppliedOnce' BY DEF NotYet, AppliedOnce, Sure
<1> QED BY <1>1, <1>2, <1>3 DEF OnceInv

\* What stays to be shown when the counts stay.
LEMMA Waiting ==
    ASSUME Fit, OnceInv, UNCHANGED applied, Sure' => Sure, OnePlace',
           Sure' => /\ \A i \in 1 .. Len(queue') : applied[queue'[i].n] = 0
                    /\ \A x \in tasks', n \in Numbers : Pending(x, n) => applied[n] = 0
    PROVE  OnceInv'
  BY DEF OnceInv, NotYet, AppliedOnce, Sure, Pending

\* A flush takes the head of the list.
LEMMA Takes ==
    ASSUME Fit, OnceInv, NEW t \in tasks, FlushPop(t), Sure' => Sure
    PROVE  OnceInv'
<1>0. PICK u : u = [t EXCEPT !.phase = "apply", !.item = Head(queue)] OBVIOUS
<1>1. /\ queue # <<>> /\ queue' = Tail(queue) /\ tasks' = (tasks \ {t}) \cup {u}
      /\ t.phase = "pop" /\ UNCHANGED applied
  BY <1>0 DEF FlushPop, Become
<1>2. /\ u.mut = t.mut /\ u.item = queue[1] /\ t.item = NULL /\ u.phase = "apply"
      /\ queue[1].n \in Numbers /\ 1 \in 1 .. Len(queue)
  BY <1>0, <1>1, TailOf, Numbered, Hand DEF Task, TaskFits
<1>3. \A n : Holds(u, n) => Holds(t, n) \/ n = queue[1].n BY <1>2 DEF Holds
<1>4. /\ Len(queue) \in Nat /\ Len(queue') = Len(queue) - 1
      /\ \A i \in 1 .. Len(queue') :
           i \in Nat /\ i + 1 \in 1 .. Len(queue) /\ i + 1 # 1 /\ queue'[i] = queue[i + 1]
  BY <1>1, TailOf, Numbered
<1>5. /\ \A i, j \in 1 .. Len(queue) : i # j => queue[i].n # queue[j].n
      /\ \A i \in 1 .. Len(queue), x \in tasks : ~Holds(x, queue[i].n)
      /\ \A x, y \in tasks, n \in Numbers : Holds(x, n) /\ Holds(y, n) => x = y
      /\ \A x \in tasks : x.item # NULL => x.item.n # x.mut.n
  BY DEF OnceInv, OnePlace
<1>6. OnePlace'
  <2>1. \A i, j \in 1 .. Len(queue') : i # j => queue'[i].n # queue'[j].n
    <3>1. \A i, j \in 1 .. Len(queue') : i # j => i + 1 # j + 1 BY <1>4
    <3>2. QED BY <1>4, <1>5, <3>1
  <2>2. \A i \in 1 .. Len(queue'), x \in tasks' : ~Holds(x, queue'[i].n)
    <3>1. \A i \in 1 .. Len(queue') : queue'[i].n # queue[1].n BY <1>2, <1>4, <1>5
    <3>2. QED BY <1>1, <1>3, <1>4, <1>5, <3>1
  <2>3. \A x, y \in tasks', n \in Numbers : Holds(x, n) /\ Holds(y, n) => x = y
    <3>1. \A x \in tasks : ~Holds(x, queue[1].n) BY <1>2, <1>5
    <3>2. QED BY <1>1, <1>3, <1>5, <3>1
  <2>4. \A x \in tasks' : x.item # NULL => x.item.n # x.mut.n
    <3>1. u.item.n # u.mut.n BY <1>2, <1>5 DEF Holds
    <3>2. QED BY <1>1, <1>5, <3>1
  <2>5. QED BY <2>1, <2>2, <2>3, <2>4 DEF OnePlace, Holds
<1>7. ASSUME Sure'
      PROVE  /\ \A i \in 1 .. Len(queue') : applied[queue'[i].n] = 0
             /\ \A x \in tasks', n \in Numbers : Pending(x, n) => applied[n] = 0
  <2>1. /\ \A i \in 1 .. Len(queue) : applied[queue[i].n] = 0
        /\ \A x \in tasks, n \in Numbers : Pending(x, n) => applied[n] = 0
    BY <1>7 DEF OnceInv, NotYet
  <2>2. \A n : Pending(u, n) => Pending(t, n) \/ n = queue[1].n BY <1>1, <1>2 DEF Pending
  <2>3. QED BY <1>1, <1>2, <1>4, <2>1, <2>2
<1> QED BY <1>1, <1>6, <1>7, Waiting

\* A flush puts back what it could not apply.
LEMMA PutsBack ==
    ASSUME Fit, OnceInv, NEW t \in tasks, FlushFails(t), Sure' => Sure
    PROVE  OnceInv'
<1>0. PICK u : u = [t EXCEPT !.phase = "own", !.item = NULL] OBVIOUS
<1>1. /\ queue' = <<t.item>> \o queue /\ tasks' = (tasks \ {t}) \cup {u}
      /\ t.phase = "apply" /\ StatementFails(t.item)
      /\ t.item \in Mutation /\ Command(t.item)
  BY <1>0, Hand DEF FlushFails, Become
<1>2. /\ u.mut = t.mut /\ u.item = NULL /\ t.item # NULL /\ u.phase = "own"
      /\ t.item.n \in Numbers
  BY <1>0, <1>1, Numbered, Hand, NullAssumption DEF Task
<1>3. \A n : Holds(u, n) => Holds(t, n) /\ (n # t.item.n)
  BY <1>2 DEF Holds, OnceInv, OnePlace
<1>4. /\ Len(queue) \in Nat /\ Len(queue') = Len(queue) + 1 /\ queue'[1] = t.item
      /\ \A i \in 1 .. Len(queue') :
           i = 1 \/ (i - 1 \in 1 .. Len(queue) /\ queue'[i] = queue[i - 1])
  BY <1>1, PutBefore, Numbered
<1>5. /\ \A i, j \in 1 .. Len(queue) : i # j => queue[i].n # queue[j].n
      /\ \A i \in 1 .. Len(queue), x \in tasks : ~Holds(x, queue[i].n)
      /\ \A x, y \in tasks, n \in Numbers : Holds(x, n) /\ Holds(y, n) => x = y
      /\ \A x \in tasks : x.item # NULL => x.item.n # x.mut.n
      /\ Holds(t, t.item.n)
  BY <1>2 DEF OnceInv, OnePlace, Holds
<1>6. OnePlace'
  <2>1. \A i, j \in 1 .. Len(queue') : i # j => queue'[i].n # queue'[j].n
    <3>1. \A i, j \in 1 .. Len(queue') : i # j => i - 1 # j - 1 BY <1>4
    <3>2. \A i \in 1 .. Len(queue) : queue[i].n # t.item.n BY <1>5
    <3>3. QED BY <1>4, <1>5, <3>1, <3>2
  <2>2. \A i \in 1 .. Len(queue'), x \in tasks' : ~Holds(x, queue'[i].n)
    <3>1. \A x \in tasks' : ~Holds(x, t.item.n) BY <1>1, <1>2, <1>3, <1>5
    <3>2. \A i \in 1 .. Len(queue), x \in tasks' : ~Holds(x, queue[i].n)
      BY <1>1, <1>3, <1>5
    <3>3. QED BY <1>4, <3>1, <3>2
  <2>3. \A x, y \in tasks', n \in Numbers : Holds(x, n) /\ Holds(y, n) => x = y
    BY <1>1, <1>3, <1>5
  <2>4. \A x \in tasks' : x.item # NULL => x.item.n # x.mut.n BY <1>1, <1>2, <1>5
  <2>5. QED BY <2>1, <2>2, <2>3, <2>4 DEF OnePlace, Holds
<1>7. ASSUME Sure'
      PROVE  /\ UNCHANGED applied
             /\ \A i \in 1 .. Len(queue') : applied[queue'[i].n] = 0
             /\ \A x \in tasks', n \in Numbers : Pending(x, n) => applied[n] = 0
  <2>1. /\ \A i \in 1 .. Len(queue) : applied[queue[i].n] = 0
        /\ \A x \in tasks, n \in Numbers : Pending(x, n) => applied[n] = 0
    BY <1>7 DEF OnceInv, NotYet
  <2>2. \A n : Pending(u, n) => Pending(t, n) BY <1>1, <1>2 DEF Pending
  <2>3. applied[t.item.n] = 0 BY <1>2, <2>1 DEF Pending
  <2>4. UNCHANGED applied
    BY <1>1, <1>7, FailsEither DEF StatementDone, Sure, None
  <2>5. QED BY <1>1, <1>4, <2>1, <2>2, <2>3, <2>4
<1> QED
  <2>1. CASE Sure' BY <1>6, <1>7, <2>1, Waiting
  <2>2. CASE ~Sure' BY <1>6, <2>2 DEF OnceInv, NotYet, AppliedOnce, Sure
  <2>3. QED BY <2>1, <2>2

\* A command at the end of the list, that nobody holds.
LEMMA AtTheEnd ==
    ASSUME Fit, OnceInv, NEW m \in Mutation, queue' = Append(queue, m), m.n \in Numbers,
           tasks' \subseteq tasks,
           \A i \in 1 .. Len(queue) : queue[i].n # m.n,
           \A x \in tasks' : ~Holds(x, m.n)
    PROVE  /\ OnePlace'
           /\ \A i \in 1 .. Len(queue') :
                queue'[i] = m \/ (i \in 1 .. Len(queue) /\ queue'[i] = queue[i])
<1>1. /\ Len(queue) \in Nat /\ Len(queue') = Len(queue) + 1 /\ queue'[Len(queue) + 1] = m
      /\ \A i \in 1 .. Len(queue') :
           i = Len(queue) + 1 \/ (i \in 1 .. Len(queue) /\ queue'[i] = queue[i])
  BY Numbered
<1>2. /\ \A i, j \in 1 .. Len(queue) : i # j => queue[i].n # queue[j].n
      /\ \A i \in 1 .. Len(queue), x \in tasks : ~Holds(x, queue[i].n)
      /\ \A x, y \in tasks, n \in Numbers : Holds(x, n) /\ Holds(y, n) => x = y
      /\ \A x \in tasks : x.item # NULL => x.item.n # x.mut.n
  BY DEF OnceInv, OnePlace
<1>3. \A i, j \in 1 .. Len(queue') : i # j => queue'[i].n # queue'[j].n BY <1>1, <1>2
<1>4. \A i \in 1 .. Len(queue'), x \in tasks' : ~Holds(x, queue'[i].n) BY <1>1, <1>2
<1>5. OnePlace' BY <1>2, <1>3, <1>4 DEF OnePlace, Holds
<1> QED BY <1>1, <1>5

\* A handler queues its own command.
LEMMA Queues ==
    ASSUME Fit, OnceInv, NEW t \in tasks, Enqueue(t), Sure' => Sure
    PROVE  OnceInv'
<1>0. PICK m : m = IF t.mut.type = "create" THEN [t.mut EXCEPT !.plan = NULL] ELSE t.mut
  OBVIOUS
<1>1. m \in Mutation /\ m.n = t.mut.n /\ m.n \in Numbers
  <2>1. t.mut \in Mutation /\ t.phase = "enqueue" BY Hand DEF Enqueue
  <2>2. Command(t.mut) BY <2>1, Hand
  <2>3. QED BY <1>0, <2>1, <2>2 DEF Mutation, Command, Numbers
<1>2. /\ queue' = Append(queue, m) /\ tasks' = tasks \ {t} /\ t.phase = "enqueue"
      /\ UNCHANGED applied
  BY <1>0 DEF Enqueue, End
<1>3. Holds(t, m.n) /\ Pending(t, m.n) BY <1>1, <1>2 DEF Holds, Pending
<1>4. /\ \A i \in 1 .. Len(queue) : queue[i].n # m.n
      /\ \A x \in tasks' : ~Holds(x, m.n)
  BY <1>1, <1>2, <1>3 DEF OnceInv, OnePlace
<1>5. /\ OnePlace'
      /\ \A i \in 1 .. Len(queue') :
           queue'[i] = m \/ (i \in 1 .. Len(queue) /\ queue'[i] = queue[i])
  BY <1>1, <1>2, <1>4, AtTheEnd
<1>6. Sure' => /\ \A i \in 1 .. Len(queue') : applied[queue'[i].n] = 0
               /\ \A x \in tasks', n \in Numbers : Pending(x, n) => applied[n] = 0
  BY <1>1, <1>2, <1>3, <1>5 DEF OnceInv, NotYet
<1> QED BY <1>2, <1>5, <1>6, Waiting

\* A new command is nowhere yet.
LEMMA Unseen ==
    ASSUME Fit, NEW n, n = Len(applied) + 1
    PROVE  /\ n \in Numbers
           /\ \A i \in 1 .. Len(queue) : queue[i].n # n
           /\ \A x \in tasks : ~Holds(x, n)
<1>1. n \in Numbers /\ n \notin 1 .. Len(applied) BY Numbered DEF Numbers
<1> QED BY <1>1, Numbered

\* A handler that begins, or begins again, with a new command or none.
LEMMA NewHandler ==
    ASSUME Fit, OnceInv, NEW m, tasks' \subseteq tasks \cup {NewTask(m)}, UNCHANGED queue,
           Sure' => Sure,
           \/ m.n = 0 /\ UNCHANGED applied
           \/ m.n = Len(applied) + 1 /\ applied' = Append(applied, 0)
    PROVE  OnceInv'
<1> DEFINE u == NewTask(m)
<1>1. u.mut = m /\ u.item = NULL BY DEF NewTask
<1>2. \A n \in Numbers : Holds(u, n) => n = m.n /\ n = Len(applied) + 1
  BY <1>1 DEF Holds, Numbers
<1>3. \A n \in Numbers : Holds(u, n) =>
          /\ \A i \in 1 .. Len(queue) : queue[i].n # n
          /\ \A x \in tasks : ~Holds(x, n)
  BY <1>2, Unseen
<1>4. tasks' \subseteq tasks \cup {u} OBVIOUS
<1> HIDE DEF u
<1>5. OnePlace'
  <2>1. \A i \in 1 .. Len(queue'), x \in tasks' : ~Holds(x, queue'[i].n)
    BY <1>3, <1>4, Numbered DEF OnceInv, OnePlace
  <2>2. \A x, y \in tasks', n \in Numbers : Holds(x, n) /\ Holds(y, n) => x = y
    BY <1>3, <1>4 DEF OnceInv, OnePlace
  <2>3. \A x \in tasks' : x.item # NULL => x.item.n # x.mut.n
    BY <1>1, <1>4 DEF OnceInv, OnePlace
  <2>4. QED BY <2>1, <2>2, <2>3 DEF OnceInv, OnePlace, Holds
<1>6. ASSUME Sure' PROVE NotYet' /\ AppliedOnce'
  <2>1. /\ \A i \in 1 .. Len(queue) : applied[queue[i].n] = 0
        /\ \A x \in tasks, n \in Numbers : Pending(x, n) => applied[n] = 0
        /\ \A n \in 1 .. Len(applied) : applied[n] <= 1
    BY <1>6 DEF OnceInv, NotYet, AppliedOnce, Sure
  <2>2. /\ \A n \in 1 .. Len(applied) : applied'[n] = applied[n]
        /\ \A n \in 1 .. Len(applied') :
             n \in 1 .. Len(applied) \/ (n = Len(applied) + 1 /\ applied'[n] = 0)
        /\ m.n # 0 => applied'[Len(applied) + 1] = 0
    <3>1. CASE m.n = 0 /\ UNCHANGED applied BY <3>1
    <3>2. CASE m.n = Len(applied) + 1 /\ applied' = Append(applied, 0)
      BY <3>2, GrowsByOne
    <3>3. QED BY <3>1, <3>2
  <2>3. \A i \in 1 .. Len(queue) : applied'[queue[i].n] = 0 BY <2>1, <2>2, Numbered
  <2>4. \A x \in tasks', n \in Numbers : Pending(x, n) => applied'[n] = 0
    <3>1. \A x \in tasks, n \in Numbers : Pending(x, n) => applied'[n] = 0
      BY <2>1, <2>2, Numbered
    <3>2. \A n \in Numbers : Pending(u, n) => applied'[n] = 0
      <4>1. \A n : Pending(u, n) => Holds(u, n) BY DEF Pending, Holds
      <4>2. QED BY <1>2, <2>2, <4>1 DEF Numbers
    <3>3. QED BY <1>4, <3>1, <3>2
  <2>5. \A n \in 1 .. Len(applied') : applied'[n] <= 1 BY <2>1, <2>2
  <2>6. QED BY <2>3, <2>4, <2>5 DEF NotYet, AppliedOnce, Pending
<1>7. ~Sure' => NotYet' /\ AppliedOnce' BY DEF NotYet, AppliedOnce, Sure
<1> QED BY <1>5, <1>6, <1>7 DEF OnceInv

\* The worker queues a completion.
LEMMA Completes ==
    ASSUME Fit, OnceInv, WorkerComplete, Sure' => Sure
    PROVE  OnceInv'
<1>0. UNCHANGED tasks BY DEF WorkerComplete
<1>1. CASE UNCHANGED <<queue, applied>>
  <2>1. OnePlace' BY <1>0, <1>1 DEF OnceInv, OnePlace, Holds
  <2>2. QED BY <1>0, <1>1, <2>1, Waiting DEF OnceInv, NotYet
<1>2. CASE /\ queue' = Append(queue, Fresh("complete", running.job[1], NULL))
           /\ applied' = Append(applied, 0)
  <2>1. running.job[1] \in PlanIds BY WorkerHas DEF WorkerComplete
  <2>2. PICK m \in Mutation : m = Fresh("complete", running.job[1], NULL) /\ Command(m)'
    BY <1>2, <2>1, NewCommand DEF Kinds
  <2>3. queue' = Append(queue, m) /\ m.n = Len(applied) + 1 BY <1>2, <2>2 DEF Fresh
  <2>4. /\ m.n \in Numbers
        /\ \A i \in 1 .. Len(queue) : queue[i].n # m.n
        /\ \A x \in tasks' : ~Holds(x, m.n)
    BY <1>0, <2>3, Unseen
  <2>5. /\ OnePlace'
        /\ \A i \in 1 .. Len(queue') :
             queue'[i] = m \/ (i \in 1 .. Len(queue) /\ queue'[i] = queue[i])
    BY <1>0, <2>3, <2>4, AtTheEnd
  <2>6. /\ \A n \in 1 .. Len(applied) : applied'[n] = applied[n]
        /\ applied'[m.n] = 0 /\ Len(applied) \in Nat
        /\ \A n \in 1 .. Len(applied') : n \in 1 .. Len(applied) \/ n = m.n
    BY <1>2, <2>3, GrowsByOne
  <2>7. ASSUME Sure' PROVE NotYet' /\ AppliedOnce'
    <3>1. /\ \A i \in 1 .. Len(queue) : applied[queue[i].n] = 0
          /\ \A x \in tasks, n \in Numbers : Pending(x, n) => applied[n] = 0
          /\ \A n \in 1 .. Len(applied) : applied[n] <= 1
      BY <2>7 DEF OnceInv, NotYet, AppliedOnce, Sure
    <3>2. \A i \in 1 .. Len(queue') : applied'[queue'[i].n] = 0 BY <2>5, <2>6, <3>1, Numbered
    <3>3. \A x \in tasks', n \in Numbers : Pending(x, n) => applied'[n] = 0
      BY <1>0, <2>6, <3>1, Numbered
    <3>4. \A n \in 1 .. Len(applied') : applied'[n] <= 1 BY <2>6, <3>1
    <3>5. QED BY <3>2, <3>3, <3>4 DEF NotYet, AppliedOnce, Pending
  <2>8. ~Sure' => NotYet' /\ AppliedOnce' BY DEF NotYet, AppliedOnce, Sure
  <2>9. QED BY <2>5, <2>7, <2>8 DEF OnceInv
<1> QED BY <1>1, <1>2 DEF WorkerComplete

\* A handler goes on in another phase with an unapplied command, or with an applied one.
LEMMA GoesOn ==
    ASSUME Fit, OnceInv, NEW t \in tasks, NEW phase, To(t, phase), t.phase # "apply",
           UNCHANGED queue,
           Sure' => /\ Sure /\ UNCHANGED applied
                    /\ \/ phase \notin {"pop", "apply", "own", "enqueue"}
                       \/ t.phase \in {"pop", "apply", "own", "enqueue"}
    PROVE  OnceInv'
<1>1. PICK u : u = [t EXCEPT !.phase = phase] OBVIOUS
<1>2. t.item = NULL /\ u.item = NULL /\ u.mut = t.mut /\ u.phase = phase
  BY <1>1, Hand DEF Task, TaskFits
<1>3. tasks' = (tasks \ {t}) \cup {u} BY <1>1 DEF To, Become
<1>4. \A n \in Numbers : Holds(u, n) => Holds(t, n) BY <1>2 DEF Holds
<1>5. Sure' => \A n \in Numbers : Pending(u, n) => Pending(t, n) BY <1>2 DEF Pending
<1> QED BY <1>2, <1>3, <1>4, <1>5, LetsGo

\* A handler ends.
LEMMA Leaves ==
    ASSUME Fit, OnceInv, NEW t \in tasks, End(t), UNCHANGED <<queue, applied>>, Sure' => Sure
    PROVE  OnceInv'
  BY LetsGo DEF End

\* A handler applies a command: one it took from the list, or its own.
LEMMA AppliesOne ==
    ASSUME Fit, OnceInv, NEW t \in tasks, FlushApplies(t) \/ OwnApplies(t), Sure' => Sure
    PROVE  OnceInv'
<1>1. CASE FlushApplies(t)
  <2>1. PICK u : u = [t EXCEPT !.phase = "pop", !.item = NULL] OBVIOUS
  <2>2. /\ tasks' = (tasks \ {t}) \cup {u} /\ t.phase = "apply" /\ UNCHANGED queue
        /\ t.item \in Mutation /\ Command(t.item) /\ Applies(t.item) /\ t.item # NULL
    BY <1>1, <2>1, Hand, Processed, NullAssumption DEF FlushApplies, Become
  <2>3. u.item = NULL /\ u.mut = t.mut /\ u.phase = "pop" BY <2>1, Hand DEF Task
  <2>4. \A n \in Numbers : Holds(u, n) => Holds(t, n) BY <2>3 DEF Holds
  <2>5. \A n \in Numbers : Pending(u, n) => Pending(t, n) BY <2>2, <2>3 DEF Pending
  <2>6. Pending(t, t.item.n) /\ ~Pending(u, t.item.n)
    BY <2>2, <2>3 DEF Pending, OnceInv, OnePlace
  <2>7. /\ Len(applied') = Len(applied)
        /\ \A n \in 1 .. Len(applied) :
             \/ applied'[n] = applied[n]
             \/ Pending(t, n) /\ ~Pending(u, n) /\ applied'[n] = applied[n] + 1
    BY <2>2, <2>6 DEF Applies, Executes
  <2>8. QED BY <2>2, <2>3, <2>4, <2>5, <2>7, LetsGo
<1>2. CASE OwnApplies(t)
  <2>1. PICK u : u = IF Found(t.mut)
                     THEN [t EXCEPT !.phase = "reply", !.row = plans'[Target(t.mut)],
                                    !.mut.plan = Target(t.mut)]
                     ELSE [t EXCEPT !.phase = "refuse"]
    OBVIOUS
  <2>2. /\ tasks' = (tasks \ {t}) \cup {u} /\ t.phase = "own" /\ UNCHANGED queue
        /\ t.mut \in Mutation /\ Command(t.mut) /\ Applies(t.mut) /\ t.item = NULL
    BY <1>2, <2>1, Hand, Processed DEF OwnApplies, Become, TaskFits
  <2>3. u.item = NULL /\ u.mut.n = t.mut.n /\ u.phase \in {"reply", "refuse"}
    BY <2>1, <2>2, Hand DEF Task, Mutation
  <2>4. \A n \in Numbers : Holds(u, n) => Holds(t, n) BY <2>3 DEF Holds
  <2>5. \A n : ~Pending(u, n) BY <2>3 DEF Pending
  <2>6. Pending(t, t.mut.n) BY <2>2 DEF Pending
  <2>7. /\ Len(applied') = Len(applied)
        /\ \A n \in 1 .. Len(applied) :
             \/ applied'[n] = applied[n]
             \/ Pending(t, n) /\ ~Pending(u, n) /\ applied'[n] = applied[n] + 1
    BY <2>2, <2>5, <2>6 DEF Applies, Executes
  <2>8. QED BY <2>2, <2>3, <2>4, <2>5, <2>7, LetsGo
<1> QED BY <1>1, <1>2

\* Every step keeps each command in one place, and applied at most once.
LEMMA OnceStep == ASSUME Fit, OnceInv, [Next]_vars PROVE OnceInv'
<1>0. Sure' => Sure BY StepCounts DEF Sure, None
<1>1. \A k : k \in {"answer", "telegram", "redis"} /\ Occurs(k) => ~Sure'
  BY Counted DEF Sure, None
<1>2. ASSUME UNCHANGED <<queue, tasks, applied>> PROVE OnceInv'
  <2>1. OnePlace' BY <1>2 DEF OnceInv, OnePlace, Holds
  <2>2. QED BY <1>0, <1>2, <2>1, Waiting DEF OnceInv, NotYet
<1>3. ASSUME NEW t \in tasks, Flush(t) PROVE OnceInv'
  <2>1. CASE FlushPop(t) BY <1>0, <2>1, Takes
  <2>2. CASE FlushApplies(t) BY <1>0, <2>2, AppliesOne
  <2>3. CASE FlushFails(t) BY <1>0, <2>3, PutsBack
  <2>4. CASE FlushDone(t) BY <1>0, <2>4, GoesOn DEF FlushDone
  <2>5. CASE FlushLosesHandler(t) BY <1>0, <2>5, Leaves DEF FlushLosesHandler
  <2>6. QED BY <1>3, <2>1, <2>2, <2>3, <2>4, <2>5 DEF Flush
<1>4. ASSUME NEW t \in tasks, HandleMutation(t) PROVE OnceInv'
  <2>1. CASE OnlyReads(t) BY <1>0, <2>1, Leaves DEF OnlyReads
  <2>2. CASE ToggleReads(t)
    <3>1. CASE End(t) /\ UNCHANGED applied BY <1>0, <2>2, <3>1, Leaves DEF ToggleReads
    <3>2. CASE ~(End(t) /\ UNCHANGED applied)
      <4>1. PICK type, p : Become(t, NewTask(Fresh(type, p, NULL)))
                           /\ applied' = Append(applied, 0)
        BY <2>2, <3>2 DEF ToggleReads
      <4>2. PICK m : m = Fresh(type, p, NULL) OBVIOUS
      <4>3. m.n = Len(applied) + 1 BY <4>2 DEF Fresh
      <4>4. tasks' \subseteq tasks \cup {NewTask(m)} BY <4>1, <4>2 DEF Become
      <4>5. QED BY <1>0, <2>2, <4>1, <4>3, <4>4, NewHandler DEF ToggleReads
    <3>3. QED BY <3>1, <3>2
  <2>3. CASE OwnApplies(t) BY <1>0, <2>3, AppliesOne
  <2>4. CASE OwnFails(t)
    <3>1. Sure' => UNCHANGED applied
      <4>1. StatementFails(t.mut) /\ t.mut \in Mutation /\ Command(t.mut)
        BY <2>4, Hand DEF OwnFails
      <4>2. QED BY <4>1, FailsEither DEF StatementDone, Sure, None
    <3>2. QED BY <1>0, <2>4, <3>1, GoesOn DEF OwnFails
  <2>5. CASE Reply(t)
    <3>1. CASE End(t) BY <1>0, <2>5, <3>1, Leaves DEF Reply
    <3>2. CASE t.phase = "reply" /\ To(t, "remove") BY <1>0, <2>5, <3>2, GoesOn DEF Reply
    <3>3. QED BY <2>5, <3>1, <3>2 DEF Reply
  <2>6. CASE ReplyFails(t) BY <1>1, <2>6, GoesOn DEF ReplyFails
  <2>7. CASE OwnRemove(t)
    <3>1. CASE End(t) BY <1>0, <2>7, <3>1, Leaves DEF OwnRemove
    <3>2. CASE To(t, "add") BY <1>0, <2>7, <3>2, GoesOn DEF OwnRemove
    <3>3. QED BY <2>7, <3>1, <3>2 DEF OwnRemove
  <2>8. CASE OwnAdd(t) BY <1>0, <2>8, Leaves DEF OwnAdd
  <2>9. CASE OwnAddFails(t) BY <1>1, <2>9, GoesOn DEF OwnAddFails
  <2>10. CASE Enqueue(t) BY <1>0, <2>10, Queues
  <2>11. CASE EnqueueFails(t) BY <1>0, <2>11, Leaves DEF EnqueueFails
  <2>12. QED
    BY <1>4, <2>1, <2>2, <2>3, <2>4, <2>5, <2>6, <2>7, <2>8, <2>9, <2>10, <2>11
       DEF HandleMutation
<1>5. CASE Begin
  <2>1. CASE UNCHANGED applied
    <3>0. applied' # Append(applied, 0)
      <4>1. applied' = Append(applied, 0) => Len(applied') = Len(applied) + 1 /\ Len(applied) \in Nat
        BY GrowsByOne
      <4>2. QED BY <2>1, <4>1
    <3>1. PICK type, p : tasks' = tasks \cup
                           {NewTask([n |-> 0, type |-> type, plan |-> p, arg |-> NULL])}
      BY <1>5, <3>0 DEF Begin
    <3>2. PICK m : m = [n |-> 0, type |-> type, plan |-> p, arg |-> NULL] OBVIOUS
    <3>3. m.n = 0 /\ tasks' = tasks \cup {NewTask(m)} BY <3>1, <3>2
    <3>4. QED BY <1>0, <1>5, <2>1, <3>3, NewHandler DEF Begin
  <2>2. CASE ~UNCHANGED applied
    <3>1. PICK type, p, arg : /\ tasks' = tasks \cup {NewTask(Fresh(type, p, arg))}
                              /\ applied' = Append(applied, 0)
      BY <1>5, <2>2 DEF Begin
    <3>2. PICK m : m = Fresh(type, p, arg) OBVIOUS
    <3>3. m.n = Len(applied) + 1 /\ tasks' = tasks \cup {NewTask(m)}
      BY <3>1, <3>2 DEF Fresh
    <3>4. QED BY <1>0, <1>5, <3>1, <3>3, NewHandler DEF Begin
  <2>3. QED BY <2>1, <2>2
<1>6. CASE Crash
  <2>1. PICK m : m = [n |-> 0, type |-> "startup", plan |-> NULL, arg |-> NULL] OBVIOUS
  <2>2. m.n = 0 /\ tasks' = {NewTask(m)} BY <1>6, <2>1 DEF Crash
  <2>3. QED BY <1>0, <1>6, <2>2, NewHandler DEF Crash
<1>7. CASE WorkerComplete BY <1>0, <1>7, Completes
<1>8. CASE Work /\ ~WorkerComplete
  <2>1. UNCHANGED <<queue, tasks, applied>>
    BY <1>8 DEF Work, WorkerTake, WorkerRead, WorkerPost, WorkerAdvance,
                WorkerRemove, WorkerAdd, JobFails
  <2>2. QED BY <1>2, <2>1
<1>9. ASSUME NEW s \in schedules, ScheduleRemove(s) \/ ScheduleAdd(s) \/ ScheduleAddFails(s)
      PROVE  UNCHANGED <<queue, tasks, applied>>
  BY <1>9 DEF ScheduleRemove, ScheduleAdd, ScheduleAddFails
<1>10. ListPlans \/ UNCHANGED vars => UNCHANGED <<queue, tasks, applied>> BY DEF ListPlans, vars
<1> QED BY <1>2, <1>3, <1>4, <1>5, <1>6, <1>7, <1>8, <1>9, <1>10 DEF Next

\* As long as no answer is lost, no command is applied twice, through any number of
\* failures and flushes (handleMutationWithFallback, flushExecutorPlanMutations).
THEOREM AppliedOnceHolds == Spec => []AppliedOnce
<1>1. Init => Fit /\ OnceInv
  <2>1. Init => OnceInv BY DEF Init, OnceInv, OnePlace, NotYet, AppliedOnce
  <2>2. QED BY <2>1, FitInit
<1>2. Fit /\ OnceInv /\ [Next]_vars => (Fit /\ OnceInv)' BY FitStep, OnceStep
<1>3. OnceInv => AppliedOnce BY DEF OnceInv
<1> QED BY <1>1, <1>2, <1>3, PTL DEF Spec

-----------------------------------------------------------------------------
(* The reminders of a period *)

SentUpTo(p, stage) == \A i \in 1 .. Len(sent[p].stages) : sent[p].stages[i] <= stage
SentBelow(p, stage) == \A i \in 1 .. Len(sent[p].stages) : sent[p].stages[i] < stage

\* What was sent in a plan's period does not go beyond the stage of its row.
SentInOrder ==
    \A p \in PlanIds :
        /\ p >= nextPlan => sent[p].period = 0
        /\ plans[p] # NULL =>
             /\ sent[p].period <= plans[p].period
             /\ sent[p].period = plans[p].period => SentUpTo(p, plans[p].stage)

\* What the worker posts is not behind what was sent, and the row either has moved to
\* another period or still waits for this reminder.
PostsInOrder ==
    running # NULL /\ running.phase \in {"post", "advance"} =>
        /\ running.job[1] < nextPlan
        /\ sent[running.job[1]].period <= running.row.period
        /\ sent[running.job[1]].period = running.row.period
             => SentUpTo(running.job[1], running.job[2])
        /\ plans[running.job[1]] # NULL =>
             /\ running.row.period <= plans[running.job[1]].period
             /\ running.row.period = plans[running.job[1]].period
                  => plans[running.job[1]].stage = running.job[2]

\* The worker has posted a reminder of the plan's period and not yet advanced the row.
InAdvance(p) ==
    /\ running # NULL /\ running.phase = "advance" /\ running.job[1] = p
    /\ running.row.period = plans[p].period

Calm == None({"job", "crash"})

\* What was sent is behind the row's stage, but for the reminder in the worker.
SentOnce ==
    Calm =>
        /\ \A p \in PlanIds : plans[p] # NULL /\ sent[p].period = plans[p].period
             => SentBelow(p, plans[p].stage) \/ InAdvance(p)
        /\ running # NULL /\ running.phase = "post" /\ sent[running.job[1]].period = running.row.period
             => SentBelow(running.job[1], running.job[2])

SentInv == SentInOrder /\ PostsInOrder /\ SentOnce /\ RemindersInOrder /\ RemindersOnce

\* The types that the reminders need.
LEMMA SentTypes ==
    ASSUME Fit
    PROVE  /\ \A p \in PlanIds : /\ sent[p].period \in Nat
                                 /\ sent[p].stages \in Seq(0 .. Stages - 1)
                                 /\ Len(sent[p].stages) \in Nat
                                 /\ \A i \in 1 .. Len(sent[p].stages) : sent[p].stages[i] \in Nat
           /\ \A p \in PlanIds : p \in Nat /\ plans[p] \in Row \cup {NULL}
           /\ \A p \in PlanIds : plans[p] # NULL => plans[p].period \in Nat /\ plans[p].stage \in Nat
           /\ nextPlan \in Nat
<1>1. /\ sent \in [PlanIds -> [period : Nat, stages : Seq(0 .. Stages - 1)]]
      /\ plans \in [PlanIds -> Row \cup {NULL}] /\ nextPlan \in Nat
  BY PlansAssumption DEF Fit, TypeOK
<1>2. \A p \in PlanIds : sent[p].period \in Nat /\ sent[p].stages \in Seq(0 .. Stages - 1)
  BY <1>1
<1>3. \A p \in PlanIds : /\ Len(sent[p].stages) \in Nat
                         /\ \A i \in 1 .. Len(sent[p].stages) : sent[p].stages[i] \in 0 .. Stages - 1
  BY <1>2, ElementOfSeq, LenProperties
<1>4. \A p \in PlanIds : plans[p] # NULL => plans[p].period \in Nat /\ plans[p].stage \in Nat
  BY <1>1 DEF Row
<1> QED BY <1>1, <1>2, <1>3, <1>4 DEF PlanIds

\* The worker posts a row.
LEMMA WorkerTypes ==
    ASSUME Fit, running # NULL, running.phase \in {"post", "advance"}
    PROVE  /\ running.job[1] \in PlanIds /\ running.job[2] \in 0 .. Stages - 1
           /\ running.row \in Row /\ running.row.period \in Nat /\ running.row.stage = running.job[2]
<1>1. /\ running.row \in Row \cup {NULL} /\ running.row # NULL
      /\ running.row.stage = running.job[2]
      /\ running.job[1] \in PlanIds /\ running.job[2] \in 0 .. Stages - 1
  BY WorkerHas DEF WorkerFits, Running
<1> QED BY <1>1 DEF Row

\* Nothing that reminders are about changes; failures are only added.
LEMMA SentStays ==
    ASSUME SentInv, UNCHANGED <<plans, nextPlan, sent, running>>,
           faults.kinds \subseteq faults'.kinds
    PROVE  SentInv'
<1>1. Calm' => Calm BY DEF Calm, None
<1>2. RemindersInOrder' BY DEF SentInv, RemindersInOrder
<1>3. RemindersOnce' BY <1>1 DEF SentInv, RemindersOnce, Calm
<1>4. SentInOrder' BY DEF SentInv, SentInOrder, SentUpTo
<1>5. PostsInOrder' BY DEF SentInv, PostsInOrder, SentUpTo
<1>6. SentOnce' BY <1>1 DEF SentInv, SentOnce, SentBelow, InAdvance
<1> QED BY <1>2, <1>3, <1>4, <1>5, <1>6 DEF SentInv

\* The worker does something else than posting, or ends; not after a message, unless
\* something failed.
LEMMA SentLeaves ==
    ASSUME Fit, SentInv, UNCHANGED <<plans, nextPlan, sent>>,
           faults.kinds \subseteq faults'.kinds,
           running' # NULL => running'.phase \notin {"post", "advance"},
           Calm' => running = NULL \/ running.phase # "advance"
    PROVE  SentInv'
<1>1. Calm' => Calm BY DEF Calm, None
<1>2. RemindersInOrder' BY DEF SentInv, RemindersInOrder
<1>3. RemindersOnce' BY <1>1 DEF SentInv, RemindersOnce, Calm
<1>4. SentInOrder' BY DEF SentInv, SentInOrder, SentUpTo
<1>5. PostsInOrder' BY DEF PostsInOrder
<1>6. SentOnce' BY <1>1 DEF SentInv, SentOnce, SentBelow, InAdvance
<1> QED BY <1>2, <1>3, <1>4, <1>5, <1>6 DEF SentInv

\* A statement about a plan, whatever the worker has in hand.
LEMMA SentStatement ==
    ASSUME Fit, SentInv, NEW m \in Mutation, StatementDone(m), UNCHANGED <<sent, running>>,
           faults.kinds \subseteq faults'.kinds
    PROVE  SentInv'
<1>1. CASE UNCHANGED <<plans, nextPlan, schedules, applied>> BY <1>1, SentStays
<1>2. CASE Applies(m)
  <2>0. /\ nextPlan' \in Nat /\ nextPlan \in Nat /\ nextPlan <= nextPlan'
        /\ \A p \in PlanIds : RowMoves(p)
    BY <1>2, SentTypes, PlansAssumption DEF Applies, Executes
  <2>1. Calm' => Calm BY DEF Calm, None
  <2>2. RemindersInOrder' BY DEF SentInv, RemindersInOrder
  <2>3. RemindersOnce' BY <2>1 DEF SentInv, RemindersOnce, Calm
  <2>4. SentInOrder'
    <3>1. SUFFICES ASSUME NEW p \in PlanIds
                   PROVE  /\ p >= nextPlan' => sent[p].period = 0
                          /\ plans'[p] # NULL =>
                               /\ sent[p].period <= plans'[p].period
                               /\ sent[p].period = plans'[p].period => SentUpTo(p, plans'[p].stage)
      BY DEF SentInOrder, SentUpTo
    <3>2. p >= nextPlan' => sent[p].period = 0
      BY <2>0, SentTypes DEF SentInv, SentInOrder
    <3>3. ASSUME plans'[p] # NULL
          PROVE  /\ sent[p].period <= plans'[p].period
                 /\ sent[p].period = plans'[p].period => SentUpTo(p, plans'[p].stage)
      BY <2>0, <3>3, SentTypes DEF SentInv, SentInOrder, RowMoves
    <3>4. QED BY <3>2, <3>3
  <2>5. PostsInOrder'
    <3>1. SUFFICES ASSUME running # NULL, running.phase \in {"post", "advance"}
                   PROVE  /\ running.job[1] < nextPlan'
                          /\ sent[running.job[1]].period <= running.row.period
                          /\ sent[running.job[1]].period = running.row.period
                               => SentUpTo(running.job[1], running.job[2])
                          /\ plans'[running.job[1]] # NULL =>
                               /\ running.row.period <= plans'[running.job[1]].period
                               /\ running.row.period = plans'[running.job[1]].period
                                    => plans'[running.job[1]].stage = running.job[2]
      BY DEF PostsInOrder, SentUpTo
    <3> DEFINE p == running.job[1]
    <3>2. p \in PlanIds /\ p \in Nat /\ running.row.period \in Nat /\ RowMoves(p)
      BY <2>0, <3>1, WorkerTypes, SentTypes
    <3>3. /\ p < nextPlan
          /\ sent[p].period <= running.row.period
          /\ sent[p].period = running.row.period => SentUpTo(p, running.job[2])
          /\ plans[p] # NULL =>
               /\ running.row.period <= plans[p].period
               /\ running.row.period = plans[p].period => plans[p].stage = running.job[2]
      BY <3>1 DEF SentInv, PostsInOrder
    <3>4. plans[p] # NULL => plans[p].period \in Nat BY <3>2, SentTypes
    <3> HIDE DEF p
    <3>5. plans'[p] # NULL =>
            /\ running.row.period <= plans'[p].period
            /\ running.row.period = plans'[p].period => plans'[p].stage = running.job[2]
      BY <2>0, <3>2, <3>3, <3>4 DEF RowMoves
    <3>6. QED BY <2>0, <3>2, <3>3, <3>5 DEF p
  <2>6. SentOnce'
    <3>1. SUFFICES ASSUME Calm, NEW p \in PlanIds, plans'[p] # NULL,
                          sent[p].period = plans'[p].period
                   PROVE  SentBelow(p, plans'[p].stage) \/ InAdvance(p)'
      BY <2>1 DEF SentInv, SentOnce, SentBelow
    <3>2. /\ plans[p] # NULL /\ plans'[p].period = plans[p].period
          /\ plans'[p].stage = plans[p].stage
      BY <2>0, <3>1, SentTypes DEF SentInv, SentInOrder, RowMoves
    <3>3. QED BY <3>1, <3>2 DEF SentInv, SentOnce, InAdvance
  <2>7. QED BY <2>2, <2>3, <2>4, <2>5, <2>6 DEF SentInv
<1> QED BY <1>1, <1>2 DEF StatementDone

\* What the worker has in hand after a step to another phase.
LEMMA StepTo ==
    ASSUME Fit, running # NULL,
           NEW phase \in {"read", "post", "advance", "complete", "remove", "add"},
           NEW row \in Row \cup {NULL}, Step(phase, row)
    PROVE  /\ running' # NULL /\ running'.phase = phase /\ running'.row = row
           /\ running'.job[1] = running.job[1] /\ running'.job[2] = running.job[2]
<1>1. PICK r : r = [running EXCEPT !.phase = phase, !.row = row] OBVIOUS
<1>2. running' = r BY <1>1 DEF Step
<1>3. r \in Running /\ r.job = running.job /\ r.phase = phase /\ r.row = row
  BY <1>1, WorkerHas DEF Running
<1> QED BY <1>2, <1>3, NullAssumption

\* The worker reads the row of its job (handleReminderJob).
LEMMA SentRead ==
    ASSUME Fit, SentInv, WorkerRead
    PROVE  SentInv'
<1> DEFINE p == running.job[1]
           row == plans[p]
<1>0. /\ running # NULL /\ running.phase = "read" /\ UNCHANGED <<plans, nextPlan, sent, faults>>
      /\ p \in PlanIds /\ running \in Running
  BY WorkerHas DEF WorkerRead
<1>1. CASE Step("remove", row)
  <2>1. running'.phase = "remove" BY <1>0, <1>1 DEF Step, Running
  <2>2. QED BY <1>0, <2>1, SentLeaves
<1>2. CASE Step("post", row) /\ row # NULL /\ row.stage = running.job[2]
  <2>1. /\ running' # NULL /\ running'.phase = "post" /\ running'.row = row
        /\ running'.job[1] = p /\ running'.job[2] = running.job[2]
    <3>1. row \in Row \cup {NULL} BY <1>0, WorkerHas
    <3> HIDE DEF row
    <3>2. QED BY <1>0, <1>2, <3>1, StepTo
  <2>2. p < nextPlan BY <1>0, <1>2, SentTypes DEF Fit, NoneBeyond
  <2>3. /\ sent[p].period <= row.period
        /\ sent[p].period = row.period => SentUpTo(p, row.stage)
    BY <1>0, <1>2 DEF SentInv, SentInOrder
  <2>4. row.period \in Nat BY <1>0, <1>2, SentTypes
  <2>5. Calm => \A q \in PlanIds : plans[q] # NULL /\ sent[q].period = plans[q].period
                   => SentBelow(q, plans[q].stage)
    BY <1>0 DEF SentInv, SentOnce, InAdvance
  <2>6. Calm' => Calm BY <1>0 DEF Calm, None
  <2>7. RemindersInOrder' /\ RemindersOnce'
    BY <1>0, <2>6 DEF SentInv, RemindersInOrder, RemindersOnce, Calm
  <2>8. SentInOrder' BY <1>0 DEF SentInv, SentInOrder, SentUpTo
  <2>9. PostsInOrder'
    <3>1. running'.job[1] = p /\ running'.job[2] = row.stage BY <1>2, <2>1
    <3> HIDE DEF p
    <3>2. QED BY <1>0, <2>1, <2>2, <2>3, <2>4, <3>1 DEF PostsInOrder, SentUpTo
  <2>10. SentOnce'
    <3>1. running'.job[1] = p /\ running'.job[2] = row.stage BY <1>2, <2>1
    <3>2. plans[p] # NULL BY <1>2
    <3>3. Calm /\ sent[p].period = row.period => SentBelow(p, row.stage) BY <1>0, <2>5, <3>2
    <3> HIDE DEF p
    <3>4. QED BY <1>0, <2>1, <2>5, <2>6, <3>1, <3>3 DEF SentOnce, SentBelow
  <2>11. QED BY <2>7, <2>8, <2>9, <2>10 DEF SentInv
<1>3. QED BY <1>1, <1>2 DEF WorkerRead

\* The worker posts a reminder, or its message is refused.
LEMMA SentPost ==
    ASSUME Fit, SentInv, WorkerPost
    PROVE  SentInv'
<1> DEFINE p == running.job[1]
           stage == running.job[2]
           period == running.row.period
<1>0. /\ running # NULL /\ running.phase = "post" /\ UNCHANGED <<plans, nextPlan>>
      /\ p \in PlanIds /\ stage \in 0 .. Stages - 1 /\ stage \in Nat /\ period \in Nat
      /\ running.row \in Row /\ p \in Nat
  <2>1. running # NULL /\ running.phase = "post" /\ UNCHANGED <<plans, nextPlan>>
    BY DEF WorkerPost
  <2>2. QED BY <2>1, WorkerTypes, SentTypes, PlansAssumption
<1>1. /\ running' # NULL /\ running'.phase = "advance" /\ running'.row = running.row
      /\ running'.job[1] = p /\ running'.job[2] = stage
  <2>1. Step("advance", running.row) BY DEF WorkerPost
  <2>2. QED BY <1>0, <2>1, StepTo
<1>2. /\ p < nextPlan
      /\ sent[p].period <= period
      /\ sent[p].period = period => SentUpTo(p, stage)
      /\ plans[p] # NULL =>
           /\ period <= plans[p].period
           /\ period = plans[p].period => plans[p].stage = stage
  BY <1>0 DEF SentInv, PostsInOrder
<1>3. /\ Calm => \A q \in PlanIds : plans[q] # NULL /\ sent[q].period = plans[q].period
                   => SentBelow(q, plans[q].stage)
      /\ Calm /\ sent[p].period = period => SentBelow(p, stage)
  BY <1>0 DEF SentInv, SentOnce, InAdvance
<1>4. faults.kinds \subseteq faults'.kinds BY Counted DEF WorkerPost
<1>5. Calm' => Calm BY <1>4 DEF Calm, None
<1>6. CASE UNCHANGED sent
  <2>1. RemindersInOrder' /\ RemindersOnce'
    BY <1>5, <1>6 DEF SentInv, RemindersInOrder, RemindersOnce, Calm
  <2>2. SentInOrder' BY <1>0, <1>6 DEF SentInv, SentInOrder, SentUpTo
  <2>3. PostsInOrder'
    <3> HIDE DEF p, stage
    <3>1. QED BY <1>0, <1>1, <1>2, <1>6 DEF PostsInOrder, SentUpTo, period
  <2>4. SentOnce' BY <1>0, <1>1, <1>3, <1>5, <1>6 DEF SentOnce, SentBelow
  <2>5. QED BY <2>1, <2>2, <2>3, <2>4 DEF SentInv
<1>7. CASE sent' = [sent EXCEPT ![p] = Sent(p, period, stage)]
  <2>1. PICK s : s = Sent(p, period, stage) OBVIOUS
  <2>2. sent \in [PlanIds -> [period : Nat, stages : Seq(0 .. Stages - 1)]] BY DEF Fit, TypeOK
  <2>3. sent'[p] = s /\ \A q \in PlanIds \ {p} : sent'[q] = sent[q] BY <1>0, <1>7, <2>1, <2>2
  <2>4. /\ s.period = period /\ Len(s.stages) \in Nat \ {0}
        /\ s.stages[Len(s.stages)] = stage
        /\ \A i \in 1 .. Len(s.stages) :
             i = Len(s.stages) \/ (/\ sent[p].period = period /\ i \in 1 .. Len(sent[p].stages)
                                   /\ s.stages[i] = sent[p].stages[i] /\ i < Len(s.stages))
    <3>1. CASE sent[p].period = period
      <4>1. s = [sent[p] EXCEPT !.stages = Append(sent[p].stages, stage)] BY <2>1, <3>1 DEF Sent
      <4>2. s.period = period /\ s.stages = Append(sent[p].stages, stage)
        BY <1>0, <2>2, <3>1, <4>1
      <4>3. sent[p].stages \in Seq(0 .. Stages - 1) BY <1>0, <2>2
      <4>4. QED BY <1>0, <3>1, <4>2, <4>3
    <3>2. CASE sent[p].period # period
      <4>1. s = [period |-> period, stages |-> <<stage>>] BY <2>1, <3>2 DEF Sent
      <4>2. s.period = period /\ s.stages = <<stage>> BY <4>1
      <4>3. QED BY <4>2
    <3>3. QED BY <3>1, <3>2
  <2>5. \A i \in 1 .. Len(sent[p].stages) : sent[p].stages[i] \in Nat BY <1>0, SentTypes
  <2> HIDE DEF p, stage, period
  <2>6. \A i \in 1 .. Len(s.stages) : s.stages[i] <= stage
    BY <1>0, <1>2, <2>4 DEF SentUpTo
  <2>7. RemindersInOrder'
    <3>1. ASSUME NEW i \in 1 .. Len(s.stages), NEW j \in 1 .. Len(s.stages), i < j
          PROVE  s.stages[i] <= s.stages[j]
      <4>1. CASE j = Len(s.stages) BY <2>4, <2>6, <4>1
      <4>2. CASE j # Len(s.stages)
        <5>1. /\ i \in 1 .. Len(sent[p].stages) /\ s.stages[i] = sent[p].stages[i]
              /\ j \in 1 .. Len(sent[p].stages) /\ s.stages[j] = sent[p].stages[j]
          BY <2>4, <3>1, <4>2
        <5>2. QED BY <1>0, <3>1, <5>1 DEF SentInv, RemindersInOrder
      <4>3. QED BY <4>1, <4>2
    <3>2. QED BY <2>3, <3>1 DEF SentInv, RemindersInOrder
  <2>8. RemindersOnce'
    <3>0. SUFFICES ASSUME Calm'
                   PROVE  \A q \in PlanIds : \A i, j \in 1 .. Len(sent'[q].stages) :
                            i # j => sent'[q].stages[i] # sent'[q].stages[j]
      BY DEF RemindersOnce, Calm
    <3>1. \A i \in 1 .. Len(s.stages) : i = Len(s.stages) \/ s.stages[i] # stage
      BY <1>0, <1>3, <1>5, <2>4, <2>5, <3>0 DEF SentBelow
    <3>2. ASSUME NEW i \in 1 .. Len(s.stages), NEW j \in 1 .. Len(s.stages), i # j
          PROVE  s.stages[i] # s.stages[j]
      <4>1. CASE i = Len(s.stages) BY <2>4, <3>1, <3>2, <4>1
      <4>2. CASE j = Len(s.stages) BY <2>4, <3>1, <3>2, <4>2
      <4>3. CASE i # Len(s.stages) /\ j # Len(s.stages)
        <5>1. /\ i \in 1 .. Len(sent[p].stages) /\ s.stages[i] = sent[p].stages[i]
              /\ j \in 1 .. Len(sent[p].stages) /\ s.stages[j] = sent[p].stages[j]
          BY <2>4, <4>3
        <5>2. QED BY <1>0, <1>5, <3>0, <3>2, <5>1 DEF SentInv, RemindersOnce, Calm
      <4>4. QED BY <4>1, <4>2, <4>3
    <3>3. QED BY <1>5, <2>3, <3>0, <3>2 DEF SentInv, RemindersOnce, Calm
  <2>9. SentInOrder'
    <3>1. ASSUME NEW q \in PlanIds
          PROVE  /\ q >= nextPlan => sent'[q].period = 0
                 /\ plans[q] # NULL =>
                      /\ sent'[q].period <= plans[q].period
                      /\ sent'[q].period = plans[q].period
                           => \A i \in 1 .. Len(sent'[q].stages) :
                                sent'[q].stages[i] <= plans[q].stage
      <4>1. CASE q = p BY <1>0, <1>2, <2>3, <2>4, <2>6, <4>1, SentTypes
      <4>2. CASE q # p BY <2>3, <3>1, <4>2 DEF SentInv, SentInOrder, SentUpTo
      <4>3. QED BY <4>1, <4>2
    <3>2. QED BY <1>0, <3>1 DEF SentInOrder, SentUpTo
  <2>10. PostsInOrder'
    <3>1. /\ sent'[p].period = running'.row.period /\ running'.row.period = period
      BY <1>1, <2>3, <2>4 DEF period
    <3>2. QED BY <1>0, <1>1, <1>2, <2>3, <2>6, <3>1 DEF PostsInOrder, SentUpTo
  <2>11. SentOnce'
    <3>1. ASSUME Calm, NEW q \in PlanIds, plans[q] # NULL, sent'[q].period = plans[q].period,
                 q # p
          PROVE  \A i \in 1 .. Len(sent'[q].stages) : sent'[q].stages[i] < plans[q].stage
      BY <1>3, <2>3, <3>1 DEF SentBelow
    <3>2. ASSUME NEW q \in PlanIds, plans[q] # NULL, sent'[q].period = plans[q].period, q = p
          PROVE  InAdvance(q)'
      BY <1>0, <1>1, <2>3, <2>4, <3>2 DEF InAdvance, period
    <3>3. \A q \in PlanIds : Calm /\ plans[q] # NULL /\ sent'[q].period = plans[q].period
            => (\A i \in 1 .. Len(sent'[q].stages) : sent'[q].stages[i] < plans[q].stage)
               \/ InAdvance(q)'
      BY <3>1, <3>2
    <3>4. QED BY <1>0, <1>1, <1>5, <3>3 DEF SentOnce, SentBelow
  <2>12. QED BY <2>7, <2>8, <2>9, <2>10, <2>11 DEF SentInv
<1> QED BY <1>6, <1>7 DEF WorkerPost

\* The worker advances the row, or finds that it has moved.
LEMMA SentAdvance ==
    ASSUME Fit, SentInv, WorkerAdvance
    PROVE  SentInv'
<1> DEFINE p == running.job[1]
           stage == running.job[2]
           period == running.row.period
<1>0. /\ running # NULL /\ running.phase = "advance" /\ UNCHANGED <<nextPlan, sent, faults>>
      /\ p \in PlanIds /\ stage \in 0 .. Stages - 1 /\ stage \in Nat /\ period \in Nat
      /\ p \in Nat /\ plans \in [PlanIds -> Row \cup {NULL}] /\ plans[p] \in Row \cup {NULL}
  <2>1. running # NULL /\ running.phase = "advance" /\ UNCHANGED <<nextPlan, sent, faults>>
    BY DEF WorkerAdvance
  <2>2. p \in PlanIds /\ stage \in 0 .. Stages - 1 /\ period \in Nat
    BY <2>1, WorkerTypes
  <2>3. plans \in [PlanIds -> Row \cup {NULL}] BY DEF Fit, TypeOK
  <2>4. stage \in Nat BY <2>2, PlansAssumption
  <2> HIDE DEF p, stage, period
  <2>5. p \in Nat /\ plans[p] \in Row \cup {NULL} BY <2>2, SentTypes
  <2>6. QED BY <2>1, <2>2, <2>3, <2>4, <2>5
<1>1. Calm' => Calm BY <1>0 DEF Calm, None
<1>2. RemindersInOrder' /\ RemindersOnce'
  BY <1>0, <1>1 DEF SentInv, RemindersInOrder, RemindersOnce, Calm
<1>3. CASE plans[p] # NULL /\ plans[p].stage = stage
  <2>1. PICK row : row = [plans[p] EXCEPT !.stage = stage + 1] OBVIOUS
  <2>2. /\ row \in Row \cup {NULL} /\ row # NULL
        /\ row.period = plans[p].period /\ row.stage = stage + 1
    <3>1. row \in Row /\ row.period = plans[p].period /\ row.stage = stage + 1
      BY <1>0, <1>3, <2>1, PlansAssumption DEF Row
    <3>2. QED BY <3>1, NullAssumption
  <2>3. plans' = [plans EXCEPT ![p] = row]
    BY <1>0, <1>3, <2>1 DEF WorkerAdvance
  <2>4. plans'[p] = row /\ \A q \in PlanIds \ {p} : plans'[q] = plans[q] BY <1>0, <2>3
  <2>5. running' # NULL /\ running'.phase \notin {"post", "advance"}
    <3>1. PICK phase \in {"complete", "remove"} : Step(phase, row)
      BY <1>3, <2>4 DEF WorkerAdvance
    <3>2. QED BY <1>0, <2>2, <3>1, StepTo
  <2>6. plans[p].period = sent[p].period => SentUpTo(p, stage)
    BY <1>0, <1>3 DEF SentInv, SentInOrder
  <2>7. \A i \in 1 .. Len(sent[p].stages) : sent[p].stages[i] \in Nat BY <1>0, SentTypes
  <2> HIDE DEF p, stage, period
  <2>8. SentInOrder'
    <3>1. ASSUME NEW q \in PlanIds
          PROVE  /\ q >= nextPlan => sent[q].period = 0
                 /\ plans'[q] # NULL =>
                      /\ sent[q].period <= plans'[q].period
                      /\ sent[q].period = plans'[q].period
                           => \A i \in 1 .. Len(sent[q].stages) : sent[q].stages[i] <= plans'[q].stage
      <4>1. CASE q = p
        BY <1>0, <1>3, <2>2, <2>4, <2>6, <2>7, <4>1 DEF SentInv, SentInOrder, SentUpTo
      <4>2. CASE q # p BY <2>4, <3>1, <4>2 DEF SentInv, SentInOrder, SentUpTo
      <4>3. QED BY <4>1, <4>2
    <3>2. QED BY <1>0, <3>1 DEF SentInOrder, SentUpTo
  <2>9. PostsInOrder' BY <2>5 DEF PostsInOrder
  <2>10. SentOnce'
    <3>1. ASSUME Calm, NEW q \in PlanIds, plans'[q] # NULL, sent[q].period = plans'[q].period
          PROVE  \A i \in 1 .. Len(sent[q].stages) : sent[q].stages[i] < plans'[q].stage
      <4>1. CASE q = p BY <1>0, <2>2, <2>4, <2>6, <2>7, <3>1, <4>1 DEF SentUpTo
      <4>2. CASE q # p
        BY <2>4, <3>1, <4>2 DEF SentInv, SentOnce, SentBelow, InAdvance, p
      <4>3. QED BY <4>1, <4>2
    <3>2. QED BY <1>0, <1>1, <2>5, <3>1 DEF SentOnce, SentBelow
  <2>11. QED BY <1>2, <2>8, <2>9, <2>10 DEF SentInv
<1>4. CASE ~(plans[p] # NULL /\ plans[p].stage = stage)
  <2>1. running' = NULL /\ UNCHANGED plans BY <1>4 DEF WorkerAdvance, Finish
  <2>2. ASSUME Calm, NEW q \in PlanIds, plans[q] # NULL, sent[q].period = plans[q].period
        PROVE  SentBelow(q, plans[q].stage)
    <3>1. ~InAdvance(q)
      BY <1>0, <1>4, <2>2 DEF SentInv, PostsInOrder, InAdvance
    <3>2. QED BY <2>2, <3>1 DEF SentInv, SentOnce
  <2>3. SentOnce' BY <1>0, <1>1, <2>1, <2>2 DEF SentOnce, SentBelow
  <2>4. SentInOrder' BY <1>0, <2>1 DEF SentInv, SentInOrder, SentUpTo
  <2>5. PostsInOrder' BY <2>1 DEF PostsInOrder
  <2>6. QED BY <1>2, <2>3, <2>4, <2>5 DEF SentInv
<1> QED BY <1>3, <1>4

\* Every step keeps the reminders in order.
LEMMA SentStep == ASSUME Fit, SentInv, [Next]_vars PROVE SentInv'
<1>0. faults.kinds \subseteq faults'.kinds BY StepCounts
<1>1. ASSUME NEW t \in tasks, Flush(t) PROVE SentInv'
  <2>1. CASE FlushApplies(t) \/ FlushFails(t)
    <3>1. /\ t.item \in Mutation /\ StatementDone(t.item) /\ UNCHANGED <<sent, running>>
      BY <2>1, Hand, Processed, FailsEither DEF FlushApplies, FlushFails, StatementDone
    <3>2. QED BY <1>0, <3>1, SentStatement
  <2>2. CASE FlushPop(t) \/ FlushDone(t) \/ FlushLosesHandler(t)
    BY <1>0, <2>2, SentStays DEF FlushPop, FlushDone, FlushLosesHandler
  <2>3. QED BY <1>1, <2>1, <2>2 DEF Flush
<1>2. ASSUME NEW t \in tasks, HandleMutation(t) PROVE SentInv'
  <2>1. CASE OwnApplies(t) \/ OwnFails(t)
    <3>1. /\ t.mut \in Mutation /\ StatementDone(t.mut) /\ UNCHANGED <<sent, running>>
      BY <2>1, Hand, Processed, FailsEither DEF OwnApplies, OwnFails, StatementDone
    <3>2. QED BY <1>0, <3>1, SentStatement
  <2>2. CASE \/ OnlyReads(t) \/ ToggleReads(t) \/ Reply(t) \/ ReplyFails(t) \/ OwnRemove(t)
             \/ OwnAdd(t) \/ OwnAddFails(t) \/ Enqueue(t) \/ EnqueueFails(t)
    BY <1>0, <2>2, SentStays
       DEF OnlyReads, ToggleReads, Reply, ReplyFails, OwnRemove, OwnAdd, OwnAddFails, Enqueue,
           EnqueueFails
  <2>3. QED BY <1>2, <2>1, <2>2 DEF HandleMutation
<1>3. CASE Begin \/ ListPlans \/ UNCHANGED vars
  BY <1>0, <1>3, SentStays DEF Begin, ListPlans, vars
<1>4. ASSUME NEW s \in schedules, ScheduleRemove(s) \/ ScheduleAdd(s) \/ ScheduleAddFails(s)
      PROVE  SentInv'
  BY <1>0, <1>4, SentStays DEF ScheduleRemove, ScheduleAdd, ScheduleAddFails
<1>5. CASE Work
  <2>1. CASE WorkerTake
    <3>1. PICK job \in jobs : running' = [job |-> job, phase |-> "read", row |-> NULL]
      BY <2>1 DEF WorkerTake
    <3>2. running'.phase = "read" BY <3>1
    <3>3. QED BY <1>0, <2>1, <3>2, SentLeaves DEF WorkerTake
  <2>2. CASE WorkerComplete
    <3>1. running # NULL /\ Step("remove", running.row) /\ running.phase = "complete"
          /\ UNCHANGED <<plans, nextPlan, sent>>
      BY <2>2 DEF WorkerComplete
    <3>2. running'.phase = "remove" BY <3>1, WorkerHas, StepTo DEF Running
    <3>3. QED BY <1>0, <3>1, <3>2, SentLeaves
  <2>3. CASE WorkerRemove
    <3>1. running # NULL /\ running.phase = "remove" /\ UNCHANGED <<plans, nextPlan, sent>>
          /\ (running' = NULL \/ Step("add", running.row))
      BY <2>3 DEF WorkerRemove
    <3>2. running' # NULL => running'.phase = "add" BY <3>1, WorkerHas, StepTo DEF Running
    <3>3. QED BY <1>0, <3>1, <3>2, SentLeaves
  <2>4. CASE WorkerAdd BY <1>0, <2>4, SentLeaves DEF WorkerAdd
  <2>5. CASE JobFails
    <3>1. (running.phase \in {"read", "advance"} /\ Occurs("job")) \/ running.phase = "add"
      BY <2>5 DEF JobFails
    <3>2. Calm' => running.phase # "advance" BY <3>1, Counted DEF Calm, None
    <3>3. QED BY <1>0, <2>5, <3>2, SentLeaves DEF JobFails, Finish
  <2>6. QED
    BY <1>5, <2>1, <2>2, <2>3, <2>4, <2>5, SentRead, SentPost, SentAdvance DEF Work
<1>6. CASE Crash
  <2>1. ~Calm' BY <1>6, Counted DEF Crash, Calm, None
  <2>2. QED BY <1>0, <1>6, <2>1, SentLeaves DEF Crash
<1> QED BY <1>1, <1>2, <1>3, <1>4, <1>5, <1>6 DEF Next

\* The reminders of a period go out in order whatever fails, and once unless a job failed
\* after its message or the process died (handleReminderJob, updateExecutorPlanReminderIndex).
THEOREM RemindersSoundHolds == Spec => []RemindersSound
<1>1. Init => Fit /\ SentInv
  <2>1. ASSUME Init PROVE SentInv
    <3>1. /\ sent = [p \in PlanIds |-> [period |-> 0, stages |-> <<>>]]
          /\ plans = [p \in PlanIds |-> NULL] /\ running = NULL
      BY <2>1 DEF Init
    <3>2. \A p \in PlanIds : sent[p].period = 0 /\ Len(sent[p].stages) = 0 /\ plans[p] = NULL
      BY <3>1
    <3>3. QED
      BY <3>1, <3>2 DEF SentInv, SentInOrder, PostsInOrder, SentOnce, SentUpTo, SentBelow,
                        InAdvance, RemindersInOrder, RemindersOnce
  <2>2. QED BY <2>1, FitInit
<1>2. Fit /\ SentInv /\ [Next]_vars => (Fit /\ SentInv)' BY FitStep, SentStep
<1>3. Fit /\ SentInv => RemindersSound BY DEF Fit, SentInv, RemindersSound
<1> QED BY <1>1, <1>2, <1>3, PTL DEF Spec

-----------------------------------------------------------------------------
(* No plan without its reminder *)

\* The worker has a job of another plan, or none: what it does there covers and
\* uncovers nothing of plan p.
Elsewhere(p) == running = NULL \/ running.job[1] # p

\* Who covers plan p goes on doing it, unless it is the worker.
LEMMA CoverStays ==
    ASSUME NEW p \in PlanIds, Covered(p),
           UNCHANGED running \/ (Elsewhere(p) /\ Elsewhere(p)'),
           \A job \in jobs : job[1] = p => job \in jobs',
           \A s \in schedules : s.plan = p => s \in schedules',
           \A t \in tasks : t.phase \in {"remove", "add"} /\ t.mut.plan = p => t \in tasks',
           starting' = starting
    PROVE  Covered(p)'
<1>1. ASSUME NEW job \in jobs, job[1] = p, ~Locked(job) PROVE Covered(p)'
  <2>1. job \in jobs' BY <1>1
  <2>2. ~(running' # NULL /\ job = running'.job) BY <1>1 DEF Elsewhere, Locked
  <2>3. QED BY <1>1, <2>1, <2>2 DEF Covered, Locked
<1>2. CASE running # NULL /\ running.job[1] = p
           /\ (running.phase \in {"read", "post", "advance"} \/ Due(running.row))
  BY <1>2 DEF Elsewhere, Covered
<1>3. ASSUME NEW s \in schedules, Covers(s, p) PROVE Covered(p)'
  <2>1. s \in schedules' BY <1>3 DEF Covers
  <2>2. QED BY <1>3, <2>1 DEF Covered, Covers
<1>4. ASSUME NEW t \in tasks, t.phase \in {"remove", "add"}, t.mut.plan = p, Due(t.row)
      PROVE  Covered(p)'
  <2>1. t \in tasks' BY <1>4
  <2>2. QED BY <1>4, <2>1 DEF Covered
<1>5. CASE starting BY <1>5 DEF Covered
<1> QED BY <1>1, <1>2, <1>3, <1>4, <1>5 DEF Covered

\* What a step may assume of plan p, and owes it.
Kept(p) ==
    ~Stale(p) /\ faults' = faults /\ Due(plans'[p]) /\ (Due(plans[p]) => Covered(p))
      => Covered(p)'

\* A statement starts a rescheduling of the row it leaves (notify).
LEMMA StatementKeeps ==
    ASSUME Fit, NEW p \in PlanIds, NEW m \in Mutation, StatementDone(m),
           UNCHANGED <<jobs, running, starting>>,
           \A t \in tasks : t.phase \in {"remove", "add"} => t \in tasks'
    PROVE  Kept(p)
<1> SUFFICES ASSUME faults' = faults, Due(plans'[p]), Due(plans[p]) => Covered(p)
             PROVE  Covered(p)'
  BY DEF Kept
<1>0. faults' = faults OBVIOUS
<1>1. CASE plans'[p] = plans[p]
  <2>1. schedules \subseteq schedules' BY DEF StatementDone, Applies, Executes
  <2>2. QED BY <1>1, <2>1, CoverStays
<1>2. CASE plans'[p] # plans[p]
  <2>1. PICK s \in schedules' : s.plan = p /\ s.row = plans'[p]
    BY <1>0, <1>2 DEF StatementDone, Applies
  <2>2. QED BY <2>1 DEF Covered, Covers
<1> QED BY <1>1, <1>2

\* A step that leaves the table, the jobs, the worker and the reschedulings alone.
LEMMA QuietKeeps ==
    ASSUME NEW p \in PlanIds, UNCHANGED <<plans, jobs, running, schedules, starting>>,
           \A t \in tasks : t.phase \in {"remove", "add"} => t \in tasks'
    PROVE  Kept(p)
  BY CoverStays DEF Kept

\* A handler that goes from the removals to the addition, or adds (scheduleReminder).
LEMMA HandlerReschedules ==
    ASSUME Fit, NEW p \in PlanIds, NEW t \in tasks, OwnRemove(t) \/ OwnAdd(t)
    PROVE  Kept(p)
<1> SUFFICES ASSUME ~Stale(p), Due(plans'[p]), Due(plans[p]) => Covered(p) PROVE Covered(p)'
  BY DEF Kept
<1>0. /\ UNCHANGED <<plans, running, schedules, starting>> /\ t.phase \in {"remove", "add"}
      /\ \A u \in tasks : u = t \/ u \in tasks'
      /\ Covered(p)
  BY DEF OwnRemove, OwnAdd, To, End, Become
<1>1. CASE t.mut.plan # p
  <2>1. \A job \in jobs : job[1] = p => job \in jobs'
    BY <1>1, Removed DEF OwnRemove, OwnAdd, AddJob
  <2>2. QED BY <1>0, <1>1, <2>1, CoverStays
<1>2. CASE t.mut.plan = p
  <2>1. t.row = plans[p] /\ Due(t.row) BY <1>0, <1>2 DEF Stale
  <2>2. CASE OwnRemove(t)
    <3>1. PICK u : u = [t EXCEPT !.phase = "add"] OBVIOUS
    <3>2. u \in tasks' /\ u.phase = "add" /\ u.mut = t.mut /\ u.row = t.row
      BY <2>1, <2>2, <3>1, Hand DEF OwnRemove, To, Become, Task
    <3>3. QED BY <1>2, <2>1, <3>2 DEF Covered
  <2>3. CASE OwnAdd(t)
    <3>1. PICK job : job = <<p, t.row.stage>> OBVIOUS
    <3>2. job[1] = p /\ job \in jobs' BY <1>2, <2>3, <3>1 DEF OwnAdd, AddJob
    <3>3. CASE running = NULL \/ job # running.job BY <1>0, <3>2, <3>3 DEF Covered, Locked
    <3>4. CASE running # NULL /\ job = running.job
      <4>1. running.phase = "read" \/ running.row = plans[p] BY <3>2, <3>4 DEF Stale
      <4>2. QED BY <1>0, <2>1, <3>2, <3>4, <4>1 DEF Covered
    <3>5. QED BY <3>3, <3>4
  <2>4. QED BY <2>2, <2>3
<1> QED BY <1>1, <1>2

\* The same of a rescheduling that nobody awaits.
LEMMA ListenerReschedules ==
    ASSUME Fit, NEW p \in PlanIds, NEW s \in schedules, ScheduleRemove(s) \/ ScheduleAdd(s)
    PROVE  Kept(p)
<1> SUFFICES ASSUME ~Stale(p), Due(plans'[p]), Due(plans[p]) => Covered(p) PROVE Covered(p)'
  BY DEF Kept
<1>0. /\ UNCHANGED <<plans, running, tasks, starting>>
      /\ \A r \in schedules : r = s \/ r \in schedules'
      /\ Covered(p)
  BY DEF ScheduleRemove, ScheduleAdd
<1>1. CASE s.plan # p
  <2>1. \A job \in jobs : job[1] = p => job \in jobs'
    BY <1>1, Removed DEF ScheduleRemove, ScheduleAdd, AddJob
  <2>2. QED BY <1>0, <1>1, <2>1, CoverStays
<1>2. CASE s.plan = p
  <2>1. s.row = plans[p] /\ Due(s.row) BY <1>0, <1>2 DEF Stale
  <2>2. CASE ScheduleRemove(s)
    <3>1. PICK r : r = [s EXCEPT !.phase = "add"] OBVIOUS
    <3>2. s \in Schedule BY DEF Fit, TypeOK, Schedule
    <3>3. r \in schedules' /\ r.plan = s.plan /\ r.row = s.row
      BY <2>1, <2>2, <3>1, <3>2 DEF ScheduleRemove, Schedule
    <3>4. QED BY <1>2, <2>1, <3>3 DEF Covered, Covers
  <2>3. CASE ScheduleAdd(s)
    <3>1. PICK job : job = <<p, s.row.stage>> OBVIOUS
    <3>2. job[1] = p /\ job \in jobs' BY <1>2, <2>3, <3>1 DEF ScheduleAdd, AddJob
    <3>3. CASE running = NULL \/ job # running.job BY <1>0, <3>2, <3>3 DEF Covered, Locked
    <3>4. CASE running # NULL /\ job = running.job
      <4>1. running.phase = "read" \/ running.row = plans[p] BY <3>2, <3>4 DEF Stale
      <4>2. QED BY <1>0, <2>1, <3>2, <3>4, <4>1 DEF Covered
    <3>5. QED BY <3>3, <3>4
  <2>4. QED BY <2>2, <2>3
<1> QED BY <1>1, <1>2

\* The worker goes on with a row that is due, or in a phase that covers.
LEMMA WorkerCovers ==
    ASSUME NEW p \in PlanIds, running' # NULL, running'.job[1] = p,
           running'.phase \in {"read", "post", "advance"} \/ Due(running'.row)
    PROVE  Covered(p)'
  BY DEF Covered

\* The worker, from the job it takes to the one it adds (handleReminderJob).
LEMMA WorkKeeps ==
    ASSUME Fit, NEW p \in PlanIds, Work
    PROVE  Kept(p)
<1> SUFFICES ASSUME ~Stale(p), faults' = faults, Due(plans'[p]), Due(plans[p]) => Covered(p)
             PROVE  Covered(p)'
  BY DEF Kept
<1>0. UNCHANGED <<schedules, tasks, starting>>
  BY DEF Work, WorkerTake, WorkerRead, WorkerPost, WorkerAdvance, WorkerComplete, WorkerRemove,
         WorkerAdd, JobFails
<1>1. CASE WorkerTake
  <2>1. PICK job \in jobs : running' = [job |-> job, phase |-> "read", row |-> NULL]
    BY <1>1 DEF WorkerTake
  <2>2. /\ running' # NULL /\ running'.job = job /\ running'.phase = "read" /\ running = NULL
        /\ UNCHANGED <<plans, jobs>>
    <3>1. PICK r : r = [job |-> job, phase |-> "read", row |-> NULL] OBVIOUS
    <3>2. r \in Running /\ r.job = job /\ r.phase = "read" BY <3>1 DEF Running, Fit, TypeOK
    <3>3. QED BY <1>1, <2>1, <3>1, <3>2, NullAssumption DEF WorkerTake
  <2>3. CASE job[1] = p BY <2>2, <2>3, WorkerCovers
  <2>4. CASE job[1] # p BY <1>0, <2>2, <2>4, CoverStays DEF Elsewhere
  <2>5. QED BY <2>3, <2>4
<1>2. CASE Work /\ ~WorkerTake
  <2>0. /\ running # NULL
        /\ \A k : ~Occurs(k)
    BY <1>2, Counted
       DEF Work, WorkerRead, WorkerPost, WorkerAdvance, WorkerComplete, WorkerRemove,
           WorkerAdd, JobFails
  <2>1. /\ WorkerFits(running) /\ running.job \in jobs /\ running.row \in Row \cup {NULL}
        /\ running.job = <<running.job[1], running.job[2]>>
        /\ plans[running.job[1]] \in Row \cup {NULL}
    BY <2>0, WorkerHas DEF Running
  <2>2. CASE running.job[1] # p
    <3>1. Elsewhere(p)' /\ plans'[p] = plans[p] /\ \A job \in jobs : job[1] = p => job \in jobs'
      <4>1. CASE WorkerRead
        <5>1. \E phase \in {"post", "remove"} : Step(phase, plans[running.job[1]])
          BY <4>1 DEF WorkerRead
        <5>2. QED BY <2>0, <2>1, <2>2, <4>1, <5>1, StepTo DEF Elsewhere, WorkerRead
      <4>2. CASE WorkerPost \/ WorkerComplete
        <5>1. \E phase \in {"advance", "remove"} : Step(phase, running.row)
          BY <4>2 DEF WorkerPost, WorkerComplete
        <5>2. QED BY <2>0, <2>1, <2>2, <4>2, <5>1, StepTo
                  DEF Elsewhere, WorkerPost, WorkerComplete
      <4>3. CASE WorkerAdvance
        <5>1. CASE Finish /\ UNCHANGED plans BY <2>2, <5>1 DEF Finish, Elsewhere
        <5>2. CASE ~(Finish /\ UNCHANGED plans)
          <6>1. /\ plans[running.job[1]] # NULL
                /\ plans' = [plans EXCEPT ![running.job[1]].stage = @ + 1]
                /\ \E phase \in {"complete", "remove"} : Step(phase, plans'[running.job[1]])
                /\ UNCHANGED jobs
            BY <4>3, <5>2 DEF WorkerAdvance
          <6>2. plans'[running.job[1]] \in Row \cup {NULL}
            <7>1. Fit' BY FitStep DEF Next
            <7>2. QED BY <2>0, <7>1, WorkerHas DEF Fit, TypeOK
          <6>3. Elsewhere(p)' BY <2>0, <2>2, <6>1, <6>2, StepTo DEF Elsewhere
          <6>4. plans'[p] = plans[p]
            <7>1. PICK i : i = running.job[1] OBVIOUS
            <7>2. plans' = [plans EXCEPT ![i].stage = @ + 1] /\ i # p BY <2>2, <6>1, <7>1
            <7>3. plans \in [PlanIds -> Row \cup {NULL}] BY DEF Fit, TypeOK
            <7>4. QED BY <7>2, <7>3
          <6>5. QED BY <6>1, <6>3, <6>4
        <5>3. QED BY <5>1, <5>2
      <4>4. CASE WorkerRemove
        <5>1. CASE Step("add", running.row) /\ RemoveScheduledReminders(running.job[1])
          BY <2>0, <2>1, <2>2, <4>4, <5>1, StepTo, Removed DEF Elsewhere, WorkerRemove
        <5>2. CASE running' = NULL /\ jobs' = {job \in jobs : job[1] # running.job[1]}
          BY <2>2, <4>4, <5>2 DEF Elsewhere, WorkerRemove
        <5>3. QED BY <4>4, <5>1, <5>2 DEF WorkerRemove
      <4>5. CASE WorkerAdd BY <2>2, <4>5 DEF Elsewhere, WorkerAdd
      <4>6. QED BY <1>2, <2>0, <4>1, <4>2, <4>3, <4>4, <4>5 DEF Work, JobFails
    <3>2. QED BY <1>0, <2>2, <3>1, CoverStays DEF Elsewhere
  <2>3. CASE running.job[1] = p
    <3>0. running.phase = "read" \/ running.row = plans[p] BY <2>0, <2>3 DEF Stale
    <3>1. CASE WorkerRead
      <4>1. \E phase \in {"post", "remove"} : Step(phase, plans[p])
        BY <2>3, <3>1 DEF WorkerRead
      <4>2. UNCHANGED plans BY <3>1 DEF WorkerRead
      <4>3. QED BY <2>0, <2>1, <2>3, <4>1, <4>2, StepTo, WorkerCovers
    <3>2. CASE WorkerPost
      <4>1. Step("advance", running.row) BY <3>2 DEF WorkerPost
      <4>2. QED BY <2>0, <2>1, <2>3, <4>1, StepTo, WorkerCovers
    <3>3. CASE WorkerAdvance
      <4>0. running.phase = "advance" BY <3>3 DEF WorkerAdvance
      <4>1. plans[p] # NULL /\ plans[p].stage = running.job[2]
        BY <2>0, <2>1, <3>0, <4>0 DEF WorkerFits
      <4>2. \E phase \in {"complete", "remove"} : Step(phase, plans'[p])
        BY <2>3, <3>3, <4>1 DEF WorkerAdvance
      <4>3. plans'[p] \in Row \cup {NULL}
        <5>1. Fit' BY FitStep DEF Next
        <5>2. QED BY <5>1 DEF Fit, TypeOK
      <4>4. QED BY <2>0, <2>3, <4>2, <4>3, StepTo, WorkerCovers
    <3>4. CASE WorkerComplete
      <4>1. Step("remove", running.row) /\ UNCHANGED plans /\ running.phase = "complete"
        BY <3>4 DEF WorkerComplete
      <4>2. QED BY <2>0, <2>1, <2>3, <3>0, <4>1, StepTo, WorkerCovers
    <3>5. CASE WorkerRemove
      <4>1. UNCHANGED plans /\ running.phase = "remove" BY <3>5 DEF WorkerRemove
      <4>2. Step("add", running.row) BY <3>0, <3>5, <4>1 DEF WorkerRemove
      <4>3. QED BY <2>0, <2>1, <2>3, <3>0, <4>1, <4>2, StepTo, WorkerCovers
    <3>6. CASE WorkerAdd
      <4>1. UNCHANGED plans /\ running.phase = "add" /\ running' = NULL
            /\ jobs' = (jobs \cup {<<running.job[1], running.row.stage>>}) \ {running.job}
        BY <3>6 DEF WorkerAdd
      <4>2. Due(running.row) /\ running.row.stage # running.job[2]
        BY <2>1, <4>1 DEF WorkerFits
      <4>3. PICK job : job = <<running.job[1], running.row.stage>> OBVIOUS
      <4>4. job # running.job /\ job[1] = p BY <2>1, <2>3, <4>2, <4>3
      <4>5. job \in jobs' BY <4>1, <4>3, <4>4
      <4>6. QED BY <4>1, <4>4, <4>5 DEF Covered, Locked
    <3>7. QED BY <1>2, <2>0, <3>1, <3>2, <3>3, <3>4, <3>5, <3>6 DEF Work, JobFails
  <2>4. QED BY <2>2, <2>3
<1> QED BY <1>1, <1>2

\* Every step keeps what it owes to every plan.
LEMMA ReminderKept == ASSUME Fit, [Next]_vars, NEW p \in PlanIds PROVE Kept(p)
<1>0. \A k : Occurs(k) => Kept(p) BY Counted DEF Kept
<1>1. ASSUME NEW t \in tasks, Flush(t) PROVE Kept(p)
  <2>1. CASE FlushApplies(t) \/ FlushFails(t)
    <3>1. t.item \in Mutation /\ StatementDone(t.item)
      BY <2>1, Hand, Processed, FailsEither DEF FlushApplies, FlushFails, StatementDone
    <3>2. QED BY <2>1, <3>1, StatementKeeps DEF FlushApplies, FlushFails, Become
  <2>2. CASE FlushPop(t) \/ FlushDone(t)
    BY <2>2, QuietKeeps DEF FlushPop, FlushDone, To, Become
  <2>3. QED BY <1>0, <1>1, <2>1, <2>2 DEF Flush, FlushLosesHandler
<1>2. ASSUME NEW t \in tasks, HandleMutation(t) PROVE Kept(p)
  <2>1. CASE OwnApplies(t) \/ OwnFails(t)
    <3>1. t.mut \in Mutation /\ StatementDone(t.mut)
      BY <2>1, Hand, Processed, FailsEither DEF OwnApplies, OwnFails, StatementDone
    <3>2. \A u \in tasks : u = t \/ u \in tasks'
      BY <2>1 DEF OwnApplies, OwnFails, To, Become
    <3>3. QED BY <2>1, <3>1, <3>2, StatementKeeps DEF OwnApplies, OwnFails
  <2>2. CASE OnlyReads(t) \/ ToggleReads(t) \/ Reply(t) \/ Enqueue(t)
    <3>1. t.phase \notin {"remove", "add"} /\ \A u \in tasks : u = t \/ u \in tasks'
      BY <2>2 DEF OnlyReads, ToggleReads, Reply, Enqueue, To, End, Become
    <3>2. QED BY <2>2, <3>1, QuietKeeps DEF OnlyReads, ToggleReads, Reply, Enqueue
  <2>3. CASE OwnRemove(t) \/ OwnAdd(t) BY <2>3, HandlerReschedules
  <2>4. QED BY <1>0, <1>2, <2>1, <2>2, <2>3
            DEF HandleMutation, ReplyFails, OwnAddFails, EnqueueFails
<1>3. ASSUME NEW s \in schedules, ScheduleRemove(s) \/ ScheduleAdd(s) \/ ScheduleAddFails(s)
      PROVE  Kept(p)
  BY <1>0, <1>3, ListenerReschedules DEF ScheduleAddFails
<1>4. CASE Begin BY <1>4, QuietKeeps DEF Begin
<1>5. CASE Work BY <1>5, WorkKeeps
<1>6. CASE Crash BY <1>0, <1>6 DEF Crash
<1>7. CASE ListPlans
  <2>1. SUFFICES ASSUME Due(plans'[p]), faults' = faults PROVE Covered(p)' BY DEF Kept
  <2>2. Due(plans[p]) /\ plans'[p] = plans[p] BY <1>7, <2>1 DEF ListPlans
  <2>3. PICK s : s = [id |-> <<0, p>>, plan |-> p, row |-> plans[p], phase |-> "remove"] OBVIOUS
  <2>4. s \in schedules'
    <3>1. ~Occurs("statement") BY <2>1, Counted
    <3>2. p \in {q \in PlanIds : plans[q] # NULL /\ plans[q].status # "completed"}
      BY <2>2 DEF Due
    <3>3. QED BY <1>7, <2>3, <3>1, <3>2 DEF ListPlans
  <2>5. s.plan = p /\ Due(s.row) BY <2>2, <2>3
  <2>6. QED BY <2>4, <2>5 DEF Covered, Covers
<1>8. CASE UNCHANGED vars BY <1>8, QuietKeeps DEF vars
<1> QED BY <1>1, <1>2, <1>3, <1>4, <1>5, <1>6, <1>7, <1>8 DEF Next

\* A plan that has reminders to send keeps a job, or somebody about to add one, as long as
\* nobody reschedules from an outdated row and no call fails (scheduleReminder and its
\* callers).
THEOREM KeepsReminderHolds == Spec => KeepsReminder
<1>1. ASSUME Fit, [Next]_vars, NEW p \in PlanIds, Due(plans'[p]), ~Covered(p)'
      PROVE  (Due(plans[p]) /\ ~Covered(p)) \/ Stale(p) \/ faults' # faults
  BY <1>1, ReminderKept DEF Kept
<1> DEFINE Owed == \A p \in PlanIds :
             (Due(plans'[p]) /\ ~Covered(p)') =>
                 \/ Due(plans[p]) /\ ~Covered(p)
                 \/ Stale(p) \/ faults' # faults
<1>2. Fit /\ [Next]_vars => [Owed]_vars
  <2>1. Fit /\ [Next]_vars => Owed BY <1>1
  <2>2. QED BY <2>1
<1>3. Fit /\ [Next]_vars => Fit' BY FitStep
<1>4. KeepsReminder <=> [][Owed]_vars BY DEF KeepsReminder
<1> HIDE DEF Owed
<1>5. Spec => [][Owed]_vars BY <1>2, <1>3, FitInit, PTL DEF Spec
<1> QED BY <1>4, <1>5
=============================================================================
