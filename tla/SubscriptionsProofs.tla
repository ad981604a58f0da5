------------------------ MODULE SubscriptionsProofs ------------------------
(***************************************************************************)
(* Subscriptions, for any users, payments, durations, handlers and bounds, *)
(* whatever fails: an application is decided once, for days of its own;    *)
(* the users' rows, the channel and the warnings follow the subscriptions; *)
(* and days left are not taken away.                                       *)
(***************************************************************************)
EXTENDS Subscriptions, TLAPS

PaymentPhases == {"persist", "load", "activate", "close", "remove"}
LeaverPhases == {"look", "expire", "demote"}

\* What the phases say of the fields of a task, ...
TaskFits(t) ==
    /\ IF t.phase \in PaymentPhases THEN t.payment \in Payments
       ELSE t.payment = NULL /\ t.user \in Users
    /\ t.phase \in LeaverPhases => t.kind # "none"
    /\ t.phase = "admit" => t.end > 0
    /\ t.phase = "activate" /\ t.date = "Date" => t.by = NULL

\* ... and of those of a run of the maintenance.
RunFits(j) ==
    /\ j.at <= now
    /\ j.phase = "send" => j.list = {}
    /\ j.phase = "record" => \E u \in j.todo : j.list = {u}
    /\ j.phase = "users" => j.todo \subseteq j.list
    /\ j.phase = "kick" => j.todo = j.list

TasksFit == \A w \in Workers : task[w] # NULL => TaskFits(task[w])
JobFits == job # NULL => RunFits(job)

Fit == TypeOK /\ TasksFit /\ JobFits

-----------------------------------------------------------------------------
(* What payments rest on *)

Holds(w, p) == task[w] # NULL /\ task[w].payment = p
Decides(w, p) == Holds(w, p) /\ task[w].phase # "persist"
Paid(p) == \E x \in periods : x.payment = p

\* Nothing is known of a payment before it was submitted.
NoneBefore ==
    \A p \in Payments : submitted[p] = NULL =>
        /\ entry[p] = NULL /\ p \notin store /\ p \notin decided /\ ~Paid(p)
        /\ \A w \in Workers : ~Holds(w, p)

\* A handler that decides has the object of the memory, and is the only one.
Objects ==
    /\ \A p \in Payments : entry[p] # NULL /\ entry[p].date = "Date" => entry[p].by = NULL
    /\ \A w \in Workers : At(w, "activate") \/ At(w, "close") =>
         /\ entry[task[w].payment] # NULL
         /\ task[w].payment \notin overlapped => entry[task[w].payment].by = task[w].by
OneDecides ==
    \A p \in Payments \ overlapped : \A v, w \in Workers : Decides(v, p) /\ Decides(w, p) => v = w

\* A handler that closes an application has paid it, or lost it.
Closing == \A w \in Workers : At(w, "close") => task[w].payment \in lost \/ Paid(task[w].payment)

\* What was paid is not paid again: its object is about to be approved, or will be restored
\* with a date that is text.
NotAgain ==
    \A p \in Payments \ overlapped : Paid(p) =>
        /\ \A w \in Workers : ~(At(w, "activate") /\ Holds(w, p) /\ task[w].date = "Date")
        /\ entry[p] # NULL /\ entry[p].status = "pending" /\ entry[p].date = "Date" =>
             \E w \in Workers : At(w, "close") /\ Holds(w, p)

\* Nobody waits for the row of a decided application.
NotLoaded ==
    \A p \in decided \ (unsaved \cup overlapped) :
        \A w \in Workers : At(w, "load") /\ Holds(w, p) => p \notin store

\* The subscription ends with the latest period.
PeriodsBefore ==
    \A x \in periods : sub[x.user].status # "none" /\ x.end <= sub[x.user].end

PaymentInv ==
    /\ NoneBefore /\ Objects /\ OneDecides /\ Closing /\ NotAgain /\ NotLoaded /\ PeriodsBefore
    /\ PaidOnce /\ PeriodsDisjoint /\ ApprovedIsPaid /\ DecidedStaysDecided

-----------------------------------------------------------------------------
(* What accounts rest on *)

Leaving(w, u) == task[w] # NULL /\ task[w].phase \in LeaverPhases /\ task[w].user = u

\* Whom the run of the maintenance has marked, and whose row it still has to write.
Marking(u) == JobAt("mark") /\ u \in job.list
MarkedByJob(u) == (JobAt("users") \/ JobAt("kick")) /\ u \in job.list
OwedByJob(u) == JobAt("users") /\ u \in job.todo
OwedByLeaver(w, u) == At(w, "demote") /\ task[w].user = u

\* The rows of the users, but those still to be written.
Agrees(u) ==
    user[u] = [status |-> sub[u].status, until |-> sub[u].end]
UsersFollow ==
    \A u \in Users : sub[u].status # "none" /\ u \notin doubted =>
        Agrees(u) \/ OwedByJob(u) \/ \E w \in Workers : OwedByLeaver(w, u)

\* Who is ending a subscription works on its end, unless the user paid meanwhile.
EndsKnown ==
    \A u \in Users \ raced :
        /\ Marking(u) => sub[u].status # "none" /\ sub[u].end = job.end[u] /\ job.end[u] <= job.at
        /\ MarkedByJob(u) => sub[u].status = "expired" /\ sub[u].end = job.end[u]
        /\ \A w \in Workers :
             /\ At(w, "expire") /\ task[w].user = u =>
                  sub[u].status # "none" /\ sub[u].end = task[w].end
             /\ OwedByLeaver(w, u) => sub[u].status = "expired" /\ sub[u].end = task[w].end

\* Who was removed by the bot has no days, unless the user paid meanwhile.
KickedEnded ==
    \A u \in Users \ raced :
        (\/ \E e \in events : e.user = u /\ e.kind = "kicked"
         \/ \E w \in Workers : Leaving(w, u) /\ task[w].kind = "kicked")
          => sub[u].status = "expired"

\* Who has left is out, and a member has a subscription or is being removed.
LeaversOut ==
    \A u \in Users \ slipped :
        (\E e \in events : e.user = u) \/ (\E w \in Workers : Leaving(w, u)) => u \notin member
MembersFollow ==
    \A u \in member \ slipped : sub[u].status = "active" \/ MarkedByJob(u)

AccountInv == UsersFollow /\ EndsKnown /\ KickedEnded /\ LeaversOut /\ MembersFollow

-----------------------------------------------------------------------------
(* What warnings rest on *)

Told(u, end) == \E x \in warnings : x.user = u /\ x.end = end

\* A warning counts as long as the subscription has the end that it names.
WarningsKnown ==
    \A x \in warnings : <<x.user, x.end>> \notin unrecorded =>
        \/ sub[x.user].end > x.end
        \/ /\ sub[x.user].end = x.end
           /\ \/ sub[x.user].status # "active"
              \/ sub[x.user].warned # NULL /\ sub[x.user].warned + Warn >= x.end
              \/ JobAt("record") /\ x.user \in job.list /\ job.end[x.user] = x.end

\* Who is to be warned has not been warned of that end.
ToWarn ==
    JobAt("send") \/ JobAt("record") =>
        \A u \in job.todo :
            /\ job.end[u] <= sub[u].end /\ job.end[u] <= job.at + Warn
            /\ u \notin job.list /\ Told(u, job.end[u]) => <<u, job.end[u]>> \in unrecorded

\* What was recorded is in the past, and who never had a subscription has no end.
RowsFit ==
    \A u \in Users : /\ sub[u].warned # NULL => sub[u].warned <= now
                     /\ sub[u].status = "none" => sub[u].end = 0

WarningInv == RowsFit /\ WarningsKnown /\ ToWarn /\ WarnedOnce

-----------------------------------------------------------------------------
(* Types *)

\* What a task and a run are, and what NULL is not.
LEMMA Apart ==
    /\ NULL \notin Users /\ NULL \notin Payments /\ NULL \notin Nat /\ NULL \notin Workers
    /\ NULL \notin Entry /\ NULL \notin Task /\ NULL \notin Job
    /\ Blank \in Task /\ Blank.phase = "load" /\ Blank.payment = NULL /\ Blank.user = NULL
    /\ Blank.date = "Date" /\ Blank.by = NULL /\ Blank.end = 0 /\ Blank.kind = "none"
    /\ Days \in Nat /\ Days > 0 /\ Warn \in Nat /\ MaxTime \in Nat /\ MaxEvents \in Nat
    /\ \A p \in Payments : Payer[p] \in Users
<1>1. Blank \in Task BY DEF Blank, Task, Ends
<1>2. /\ Blank.phase = "load" /\ Blank.payment = NULL /\ Blank.user = NULL
      /\ Blank.date = "Date" /\ Blank.by = NULL /\ Blank.end = 0 /\ Blank.kind = "none"
  BY DEF Blank
<1> QED BY <1>1, <1>2, SubscriptionsAssumption, NullAssumption

\* One worker goes on with a task that fits.
LEMMA TaskBecomes ==
    ASSUME Fit, NEW w \in Workers, NEW t \in Task \cup {NULL}, t # NULL => TaskFits(t),
           task' = [task EXCEPT ![w] = t]
    PROVE  task' \in [Workers -> Task \cup {NULL}] /\ TasksFit'
<1>1. \A v \in Workers : task'[v] = IF v = w THEN t ELSE task[v] BY DEF Fit, TypeOK
<1>2. TasksFit' BY <1>1 DEF Fit, TasksFit, TaskFits
<1> QED BY <1>2 DEF Fit, TypeOK

\* A worker that is done is idle.
LEMMA TaskEnds ==
    ASSUME Fit, NEW w \in Workers, Done(w)
    PROVE  task' \in [Workers -> Task \cup {NULL}] /\ TasksFit'
BY TaskBecomes DEF Done

\* What a busy worker has.
LEMMA Has ==
    ASSUME Fit, NEW w \in Workers, task[w] # NULL
    PROVE  task[w] \in Task /\ TaskFits(task[w])
BY DEF Fit, TypeOK, TasksFit

\* The job's part, when it and what it looks at stay.
LEMMA JobStays ==
    ASSUME Fit, UNCHANGED <<job, now>> PROVE job' \in Job \cup {NULL} /\ JobFits'
BY DEF Fit, TypeOK, JobFits, RunFits

\* Another phase of the same task.
LEMMA GoesOn ==
    ASSUME Fit, NEW w \in Workers, task[w] # NULL, NEW phase, Goto(w, phase),
           [task[w] EXCEPT !.phase = phase] \in Task,
           TaskFits([task[w] EXCEPT !.phase = phase])
    PROVE  task' \in [Workers -> Task \cup {NULL}] /\ TasksFit'
<1> DEFINE t == [task[w] EXCEPT !.phase = phase]
<1>1. task' = [task EXCEPT ![w] = t] BY Has DEF Goto, Task
<1>2. t \in Task /\ TaskFits(t) OBVIOUS
<1> HIDE DEF t
<1> QED BY <1>1, <1>2, TaskBecomes

\* A bounded count of what was pressed, moved or failed.
LEMMA Spends ==
    ASSUME Fit, Spend \/ UNCHANGED spent PROVE spent' \in 0 .. MaxEvents
BY Apart DEF Fit, TypeOK, Spend

\* An activation makes the row active until the end of the new period.
LEMMA Activates ==
    ASSUME Fit, NEW p \in Payments, NEW start \in Nat, Activated(p, start)
    PROVE  LET u == Payer[p]  end == start + Days IN
           /\ u \in Users /\ end \in Nat /\ end > start
           /\ sub' \in [Users -> Row] /\ user' \in [Users -> User]
           /\ \A v \in Users : v # u => sub'[v] = sub[v] /\ user'[v] = user[v]
           /\ sub'[u].status = "active" /\ sub'[u].end = end /\ sub'[u].warned = NULL
           /\ user'[u] = [status |-> "active", until |-> end]
           /\ [user |-> u, payment |-> p, start |-> start, end |-> end] \in Period
           /\ periods' = periods \cup {[user |-> u, payment |-> p, start |-> start, end |-> end]}
<1> DEFINE u == Payer[p]
           end == start + Days
<1>1. u \in Users /\ end \in Nat /\ end > start BY Apart
<1>2. ActiveRow(end) \in Row /\ ActiveRow(end).status = "active" /\ ActiveRow(end).end = end
      /\ ActiveRow(end).warned = NULL
  BY <1>1 DEF ActiveRow, Row, Ends
<1>3. [status |-> "active", until |-> end] \in User BY <1>1 DEF User, Ends
<1>4. [user |-> u, payment |-> p, start |-> start, end |-> end] \in Period
  BY <1>1 DEF Period, Ends
<1>5. /\ sub' = [sub EXCEPT ![u] = ActiveRow(end)]
      /\ user' = [user EXCEPT ![u] = [status |-> "active", until |-> end]]
      /\ periods' = periods \cup {[user |-> u, payment |-> p, start |-> start, end |-> end]}
  BY DEF Activated, Promoted
<1> HIDE DEF u, end
<1>6. /\ sub' \in [Users -> Row] /\ user' \in [Users -> User]
      /\ \A v \in Users : v # u => sub'[v] = sub[v] /\ user'[v] = user[v]
      /\ sub'[u] = ActiveRow(end)
      /\ user'[u] = [status |-> "active", until |-> end]
  BY <1>1, <1>2, <1>3, <1>5 DEF Fit, TypeOK
<1> QED BY <1>1, <1>2, <1>4, <1>5, <1>6 DEF u, end

\* A period begins at its submission or, later, at the end of the last one.
LEMMA Begins ==
    ASSUME Fit, NEW p \in Payments, submitted[p] # NULL
    PROVE  LET start == PeriodStart(Payer[p], submitted[p]) IN
           /\ start \in Nat
           /\ sub[Payer[p]].status # "none" => start >= sub[Payer[p]].end
<1>1. submitted[p] \in Nat BY Apart DEF Fit, TypeOK, Time
<1>2. sub[Payer[p]] \in Row BY Apart DEF Fit, TypeOK
<1> QED BY <1>1, <1>2 DEF PeriodStart, Row, Ends

\* The moderators' queue keeps the types.
LEMMA QueueFit ==
    ASSUME Fit, NoneBefore, Objects, NEW w \in Workers,
           \/ \E p \in Payments : Submit(w, p) \/ Press(w, p)
           \/ PersistEntry(w) \/ Load(w) \/ Activate(w) \/ NoDriversChannel(w)
           \/ ActivateFails(w) \/ Close(w) \/ RemovePersistedEntry(w)
    PROVE  Fit'
<1> USE DEF database, queue, channel, excuses, bounds
<1>1. ASSUME NEW p \in Payments, Submit(w, p) PROVE Fit'
  <2> DEFINE t == [Blank EXCEPT !.phase = "persist", !.payment = p]
  <2>1. t \in Task /\ TaskFits(t) BY Apart DEF Task, TaskFits, PaymentPhases, LeaverPhases
  <2>2. task' = [task EXCEPT ![w] = t] BY <1>1 DEF Submit
  <2> HIDE DEF t
  <2>3. task' \in [Workers -> Task \cup {NULL}] /\ TasksFit' BY <2>1, <2>2, TaskBecomes
  <2>4. Application \in Entry BY DEF Application, Entry
  <2>5. job' \in Job \cup {NULL} /\ JobFits' BY <1>1, JobStays DEF Submit
  <2> QED BY <1>1, <2>3, <2>4, <2>5 DEF Submit, Fit, TypeOK
<1>2. ASSUME NEW p \in Payments, Press(w, p) PROVE Fit'
  <2> DEFINE t == IF entry[p] = NULL THEN [Blank EXCEPT !.payment = p]
                  ELSE [Blank EXCEPT !.payment = p, !.phase = "activate", !.date = entry[p].date,
                                     !.by = entry[p].by]
  <2>1. t \in Task /\ TaskFits(t)
    <3>1. CASE entry[p] = NULL BY <3>1, Apart DEF Task, TaskFits, PaymentPhases, LeaverPhases
    <3>2. CASE entry[p] # NULL
      <4>1. /\ entry[p] \in Entry /\ entry[p].date \in {"Date", "text"}
            /\ entry[p].by \in Workers \cup {NULL}
        BY <3>2 DEF Fit, TypeOK, Entry
      <4>2. entry[p].date = "Date" => entry[p].by = NULL BY <3>2 DEF Objects
      <4> QED BY <3>2, <4>1, <4>2, Apart DEF Task, TaskFits, PaymentPhases, LeaverPhases
    <3> QED BY <3>1, <3>2
  <2>2. task' = [task EXCEPT ![w] = t] BY <1>2 DEF Press
  <2> HIDE DEF t
  <2>3. task' \in [Workers -> Task \cup {NULL}] /\ TasksFit' BY <2>1, <2>2, TaskBecomes
  <2>4. job' \in Job \cup {NULL} /\ JobFits' BY <1>2, JobStays DEF Press
  <2>5. spent' \in 0 .. MaxEvents BY <1>2, Spends DEF Press
  <2> QED BY <1>2, <2>3, <2>4, <2>5 DEF Press, Fit, TypeOK
<1>3. CASE PersistEntry(w)
  <2>1. task' \in [Workers -> Task \cup {NULL}] /\ TasksFit' BY <1>3, TaskEnds DEF PersistEntry
  <2>2. job' \in Job \cup {NULL} /\ JobFits' BY <1>3, JobStays DEF PersistEntry
  <2>3. spent' \in 0 .. MaxEvents BY <1>3, Spends DEF PersistEntry, Occurs
  <2>4. task[w].payment \in Payments BY <1>3, Has DEF PersistEntry, At, TaskFits, PaymentPhases
  <2>5. store' \subseteq Payments /\ unsaved' \in SUBSET Payments
    BY <1>3, <2>4 DEF PersistEntry, UpsertCallbackMapRecord, Fit, TypeOK
  <2> QED BY <1>3, <2>1, <2>2, <2>3, <2>5 DEF PersistEntry, Fit, TypeOK
<1>4. CASE Load(w)
  <2>0. /\ task[w] # NULL /\ task[w] \in Task /\ task[w].payment \in Payments
    BY <1>4, Has DEF Load, At, TaskFits, PaymentPhases
  <2>1. task' \in [Workers -> Task \cup {NULL}] /\ TasksFit'
    <3>1. CASE Done(w) BY <3>1, TaskEnds
    <3>2. CASE ~Done(w)
      <4> DEFINE t == [task[w] EXCEPT !.phase = "activate", !.date = "text", !.by = w]
      <4>1. t \in Task /\ TaskFits(t)
        BY <1>4, <2>0 DEF Load, At, Task, TaskFits, PaymentPhases, LeaverPhases
      <4>2. task' = [task EXCEPT ![w] = t] BY <1>4, <3>2 DEF Load
      <4> HIDE DEF t
      <4> QED BY <4>1, <4>2, TaskBecomes
    <3> QED BY <3>1, <3>2
  <2>2. job' \in Job \cup {NULL} /\ JobFits' BY <1>4, JobStays DEF Load
  <2>3. Hydrated(w) \in Entry BY DEF Hydrated, Entry
  <2>4. entry' \in [Payments -> Entry \cup {NULL}] BY <1>4, <2>0, <2>3 DEF Load, Fit, TypeOK
  <2> QED BY <1>4, <2>1, <2>2, <2>4 DEF Load, Fit, TypeOK
<1>5. CASE Activate(w)
  <2> DEFINE p == task[w].payment
             start == PeriodStart(Payer[p], submitted[p])
             t == [task[w] EXCEPT !.phase = "close", !.end = start + Days]
  <2>0. /\ task[w] # NULL /\ task[w] \in Task /\ p \in Payments /\ submitted[p] # NULL
        /\ task[w].phase = "activate"
    BY <1>5, Has DEF Activate, At, TaskFits, PaymentPhases, NoneBefore, Holds
  <2>1. start \in Nat BY <2>0, Begins
  <2>2. Activated(p, start) /\ task' = [task EXCEPT ![w].phase = "close", ![w].end = start + Days]
    BY <1>5 DEF Activate
  <2>3. /\ Payer[p] \in Users /\ start + Days \in Nat
        /\ sub' \in [Users -> Row] /\ user' \in [Users -> User] /\ periods' \subseteq Period
    <3> DEFINE x == [user |-> Payer[p], payment |-> p, start |-> start, end |-> start + Days]
    <3>1. x \in Period /\ periods' = periods \cup {x} BY <2>0, <2>1, <2>2, Activates
    <3>2. periods' \subseteq Period
      <4> HIDE DEF x
      <4> QED BY <3>1 DEF Fit, TypeOK
    <3>3. /\ Payer[p] \in Users /\ start + Days \in Nat
          /\ sub' \in [Users -> Row] /\ user' \in [Users -> User]
      <4> HIDE DEF start, p
      <4> QED BY <2>0, <2>1, <2>2, Activates
    <3> QED BY <3>2, <3>3
  <2>4. t \in Task /\ TaskFits(t)
    BY <2>0, <2>3 DEF Task, TaskFits, PaymentPhases, LeaverPhases, Ends
  <2>5. task' = [task EXCEPT ![w] = t] BY <2>0, <2>2 DEF Fit, TypeOK, Task
  <2>6. task' \in [Workers -> Task \cup {NULL}] /\ TasksFit'
    <3> HIDE DEF t
    <3> QED BY <2>4, <2>5, TaskBecomes
  <2>7. job' \in Job \cup {NULL} /\ JobFits' BY <1>5, JobStays DEF Activate
  <2>8. {raced', doubted', slipped'} \subseteq SUBSET Users
    BY <1>5, <2>3 DEF Activate, Fit, TypeOK
  <2> HIDE DEF t, start, p
  <2> QED BY <1>5, <2>3, <2>6, <2>7, <2>8 DEF Activate, Fit, TypeOK
<1>6. CASE NoDriversChannel(w) \/ ActivateFails(w)
  <2>0. /\ task[w] # NULL /\ task[w] \in Task /\ task[w].payment \in Payments
        /\ task[w].phase = "activate"
    BY <1>6, Has DEF NoDriversChannel, ActivateFails, At, TaskFits, PaymentPhases
  <2>1. NotActivated(w) BY <1>6 DEF NoDriversChannel, ActivateFails
  <2>2. task' \in [Workers -> Task \cup {NULL}] /\ TasksFit'
    <3> DEFINE t == [task[w] EXCEPT !.phase = "close"]
    <3>1. t \in Task /\ TaskFits(t) BY <2>0 DEF Task, TaskFits, PaymentPhases, LeaverPhases
    <3> QED BY <2>0, <2>1, <3>1, GoesOn DEF NotActivated
  <2>3. job' \in Job \cup {NULL} /\ JobFits' BY <2>1, JobStays DEF NotActivated
  <2>4. spent' \in 0 .. MaxEvents BY <1>6, Spends DEF NoDriversChannel, ActivateFails, Occurs
  <2> QED BY <2>0, <2>1, <2>2, <2>3, <2>4 DEF NotActivated, Fit, TypeOK
<1>7. CASE Close(w)
  <2> DEFINE p == task[w].payment
             t == [Blank EXCEPT !.phase = "remove", !.payment = task[w].payment]
  <2>0. /\ task[w] # NULL /\ task[w] \in Task /\ p \in Payments /\ task[w].end \in Nat
        /\ Payer[p] \in Users
    BY <1>7, Has, Apart DEF Close, At, TaskFits, PaymentPhases, Task, Ends
  <2>1. t \in Task /\ TaskFits(t) BY <2>0, Apart DEF Task, TaskFits, PaymentPhases, LeaverPhases
  <2>2. task' = [task EXCEPT ![w] = t] BY <1>7 DEF Close
  <2> HIDE DEF t
  <2>3. task' \in [Workers -> Task \cup {NULL}] /\ TasksFit' BY <2>1, <2>2, TaskBecomes
  <2>4. job' \in Job \cup {NULL} /\ JobFits' BY <1>7, JobStays DEF Close
  <2>5. spent' \in 0 .. MaxEvents BY <1>7, Spends DEF Close, Occurs
  <2>6. links' \in [Users -> SUBSET Ends]
    BY <1>7, <2>0 DEF Close, InviteLink, Fit, TypeOK, Ends
  <2>7. entry' \in [Payments -> Entry \cup {NULL}]
    <3>1. entry[p] \in Entry BY <1>7, <2>0 DEF Close, Objects, Fit, TypeOK
    <3>2. [entry[p] EXCEPT !.status = "approved"] \in Entry BY <3>1 DEF Entry
    <3> QED BY <1>7, <2>0, <3>1, <3>2 DEF Close, Fit, TypeOK
  <2>8. decided' \in SUBSET Payments BY <1>7, <2>0 DEF Close, Fit, TypeOK
  <2> QED BY <1>7, <2>3, <2>4, <2>5, <2>6, <2>7, <2>8 DEF Close, Fit, TypeOK
<1>8. CASE RemovePersistedEntry(w)
  <2>1. task' \in [Workers -> Task \cup {NULL}] /\ TasksFit'
    BY <1>8, TaskEnds DEF RemovePersistedEntry
  <2>2. job' \in Job \cup {NULL} /\ JobFits' BY <1>8, JobStays DEF RemovePersistedEntry
  <2>3. spent' \in 0 .. MaxEvents BY <1>8, Spends DEF RemovePersistedEntry, Occurs
  <2>4. task[w].payment \in Payments
    BY <1>8, Has DEF RemovePersistedEntry, At, TaskFits, PaymentPhases
  <2>5. store' \subseteq Payments /\ unsaved' \in SUBSET Payments
    BY <1>8, <2>4 DEF RemovePersistedEntry, DeleteCallbackMapRecord, Fit, TypeOK
  <2> QED BY <1>8, <2>1, <2>2, <2>3, <2>5 DEF RemovePersistedEntry, Fit, TypeOK
<1> QED BY <1>1, <1>2, <1>3, <1>4, <1>5, <1>6, <1>7, <1>8

\* A part of a run that the code makes.
LEMMA RunTyped ==
    ASSUME Fit, NEW phase \in {"send", "record", "find", "mark", "users", "kick"},
           NEW at \in Time, NEW todo \in SUBSET Users, NEW list \in SUBSET Users
    PROVE  /\ Run(phase, at, todo, list) \in Job
           /\ Run(phase, at, todo, list).phase = phase /\ Run(phase, at, todo, list).at = at
           /\ Run(phase, at, todo, list).todo = todo /\ Run(phase, at, todo, list).list = list
           /\ \A u \in todo \cup list : Run(phase, at, todo, list).end[u] = sub[u].end
<1>1. \A u \in Users : sub[u].end \in Ends BY DEF Fit, TypeOK, Row
<1>2. EndsOf(todo \cup list) \in [Users -> Ends] BY <1>1 DEF EndsOf, Ends
<1>3. \A u \in todo \cup list : EndsOf(todo \cup list)[u] = sub[u].end BY DEF EndsOf
<1> QED BY <1>2, <1>3 DEF Run, Job

\* What a run has in hand.
LEMMA Runs ==
    ASSUME Fit, job # NULL
    PROVE  /\ job \in Job /\ job.at \in Time /\ job.todo \subseteq Users /\ job.list \subseteq Users
           /\ job.end \in [Users -> Nat] /\ RunFits(job)
BY DEF Fit, TypeOK, JobFits, Job, Ends

\* Marking rows leaves rows.
LEMMA Marks ==
    ASSUME Fit, NEW us \in SUBSET Users, Marked(us)
    PROVE  /\ sub' \in [Users -> Row]
           /\ \A u \in Users \ us : sub'[u] = sub[u]
           /\ \A u \in us : sub'[u].status = "expired" /\ sub'[u].end = sub[u].end
           /\ \A u \in Users : sub'[u].end = sub[u].end
<1>1. \A u \in Users : sub[u] \in Row BY DEF Fit, TypeOK
<1>2. \A r \in Row : /\ [r EXCEPT !.status = "expired", !.warned = NULL] \in Row
                     /\ [r EXCEPT !.status = "expired", !.warned = NULL].status = "expired"
                     /\ [r EXCEPT !.status = "expired", !.warned = NULL].end = r.end
  BY DEF Row
<1>3. \A u \in Users : sub'[u] = IF u \in us /\ sub[u].status # "expired"
                                 THEN [sub[u] EXCEPT !.status = "expired", !.warned = NULL]
                                 ELSE sub[u]
  BY DEF Marked
<1>4. sub' = [u \in Users |-> sub'[u]] BY DEF Marked
<1>5. \A u \in Users : sub'[u] \in Row BY <1>1, <1>2, <1>3
<1> QED BY <1>1, <1>2, <1>3, <1>4, <1>5

\* An ended subscription leaves a client.
LEMMA Demotes ==
    ASSUME Fit, NEW u \in Users, NEW end \in Nat, Demoted(u, end)
    PROVE  /\ user' \in [Users -> User]
           /\ user'[u] = [status |-> "expired", until |-> end]
           /\ \A v \in Users : v # u => user'[v] = user[v]
<1>1. [status |-> "expired", until |-> end] \in User BY DEF User, Ends
<1> QED BY <1>1 DEF Demoted, Fit, TypeOK

\* The maintenance keeps the types.
LEMMA MaintenanceFit == ASSUME Fit, JobStep PROVE Fit'
<1> USE DEF database, queue, channel, excuses, bounds
<1>0. task' = task /\ now' = now /\ now \in Time
  BY DEF JobStep, RunMaintenance, SendWarning, RecordSubscriptionWarning, FindSubscriptionsToExpire,
         MarkSubscriptionsExpired, UpdateUser, RemoveUserFromChannel, Fit, TypeOK
<1>1. task' \in [Workers -> Task \cup {NULL}] /\ TasksFit'
  BY <1>0 DEF Fit, TypeOK, TasksFit
<1>2. spent' \in 0 .. MaxEvents
  BY Spends DEF JobStep, RunMaintenance, SendWarning, RecordSubscriptionWarning,
     FindSubscriptionsToExpire, MarkSubscriptionsExpired, UpdateUser, RemoveUserFromChannel, Occurs
<1>3. CASE RunMaintenance
  <2>1. ExpiringSoon(now) \in SUBSET Users BY DEF ExpiringSoon
  <2>2. /\ job' \in Job /\ job'.at = now /\ job'.list = {}
        /\ job'.phase = "find" \/ job'.phase = "send"
    <3>1. PICK phase \in {"find", "send"}, todo \in SUBSET Users : job' = Run(phase, now, todo, {})
      BY <1>3, <2>1 DEF RunMaintenance
    <3>2. {} \in SUBSET Users /\ phase \in {"send", "record", "find", "mark", "users", "kick"}
      OBVIOUS
    <3>3. /\ Run(phase, now, todo, {}) \in Job /\ Run(phase, now, todo, {}).phase = phase
          /\ Run(phase, now, todo, {}).at = now /\ Run(phase, now, todo, {}).list = {}
      BY <1>0, <3>2, RunTyped DEF Run
    <3> QED BY <3>1, <3>3
  <2>3. RunFits(job)' BY <1>0, <2>2 DEF RunFits, Time
  <2> QED BY <1>1, <1>2, <1>3, <2>2, <2>3 DEF RunMaintenance, JobFits, Fit, TypeOK
<1>4. CASE SendWarning
  <2>1. PICK u \in job.todo : /\ job' = [job EXCEPT !.phase = "record", !.list = {u}]
                              /\ warnings' = warnings \cup {Warned(u, job.end[u])}
                                 \/ UNCHANGED warnings
    BY <1>4 DEF SendWarning
  <2>2. job # NULL BY <1>4 DEF SendWarning, JobAt
  <2>3. u \in Users BY <2>1, <2>2, Runs
  <2>4. job' \in Job /\ job'.at = job.at /\ job'.phase = "record" /\ job'.list = {u}
        /\ job'.todo = job.todo
    BY <2>1, <2>2, <2>3, Runs DEF Job
  <2>5. RunFits(job)' BY <1>0, <2>1, <2>2, <2>4, Runs DEF RunFits
  <2>6. Warned(u, job.end[u]) \in Warning
    BY <2>2, <2>3, Runs DEF Warned, Warning, Ends
  <2> QED BY <1>1, <1>2, <1>4, <2>1, <2>4, <2>5, <2>6 DEF SendWarning, JobFits, Fit, TypeOK
<1>5. CASE RecordSubscriptionWarning
  <2>0. job # NULL BY <1>5 DEF RecordSubscriptionWarning, JobAt
  <2>1. PICK u \in job.list :
          /\ job' = Recorded(u)
          /\ \/ sub' = [sub EXCEPT ![u].warned = now] /\ UNCHANGED unrecorded
             \/ unrecorded' = unrecorded \cup {<<u, job.end[u]>>} /\ UNCHANGED sub
    BY <1>5 DEF RecordSubscriptionWarning
  <2>2. u \in Users /\ job.end[u] \in Nat BY <2>0, <2>1, Runs
  <2>3. job' \in Job /\ job'.at = job.at /\ job'.phase \in {"find", "send"} /\ job'.list = {}
    <3>1. CASE job.todo = {u}
      <4>1. job' = Run("find", job.at, {}, {}) BY <2>1, <3>1 DEF Recorded
      <4>2. {} \in SUBSET Users /\ job.at \in Time BY <2>0, Runs
      <4>3. "find" \in {"send", "record", "find", "mark", "users", "kick"} OBVIOUS
      <4>4. /\ Run("find", job.at, {}, {}) \in Job
            /\ Run("find", job.at, {}, {}).phase = "find"
            /\ Run("find", job.at, {}, {}).at = job.at /\ Run("find", job.at, {}, {}).list = {}
        BY <4>2, <4>3, RunTyped DEF Run
      <4> QED BY <4>1, <4>4
    <3>2. CASE job.todo # {u}
      BY <2>0, <2>1, <2>2, <3>2, Runs DEF Recorded, Job
    <3> QED BY <3>1, <3>2
  <2>4. RunFits(job)' BY <1>0, <2>0, <2>3, Runs DEF RunFits
  <2>5. sub' \in [Users -> Row] /\ unrecorded' \subseteq Users \X Ends
    <3>1. sub[u] \in Row /\ [sub[u] EXCEPT !.warned = now] \in Row
      BY <1>0, <2>2 DEF Fit, TypeOK, Row
    <3>2. CASE sub' = [sub EXCEPT ![u].warned = now] /\ UNCHANGED unrecorded
      BY <2>2, <3>1, <3>2 DEF Fit, TypeOK
    <3>3. CASE unrecorded' = unrecorded \cup {<<u, job.end[u]>>} /\ UNCHANGED sub
      BY <2>2, <3>3 DEF Fit, TypeOK, Ends
    <3> QED BY <2>1, <3>2, <3>3
  <2> QED BY <1>1, <1>2, <1>5, <2>3, <2>4, <2>5 DEF RecordSubscriptionWarning, JobFits, Fit, TypeOK
<1>6. CASE FindSubscriptionsToExpire
  <2>0. job # NULL BY <1>6 DEF FindSubscriptionsToExpire, JobAt
  <2>1. ToExpire(job.at) \in SUBSET Users /\ job.at \in Time BY <2>0, Runs DEF ToExpire
  <2>2. job' = NULL \/ (job' \in Job /\ job'.phase = "mark" /\ job'.at = job.at)
    <3>1. CASE job' = Run("mark", job.at, {}, ToExpire(job.at))
      <4>1. {} \in SUBSET Users /\ "mark" \in {"send", "record", "find", "mark", "users", "kick"}
        OBVIOUS
      <4>2. /\ Run("mark", job.at, {}, ToExpire(job.at)) \in Job
            /\ Run("mark", job.at, {}, ToExpire(job.at)).phase = "mark"
            /\ Run("mark", job.at, {}, ToExpire(job.at)).at = job.at
        BY <2>1, <4>1, RunTyped
      <4> QED BY <3>1, <4>2
    <3> QED BY <1>6, <3>1 DEF FindSubscriptionsToExpire
  <2>3. job' # NULL => RunFits(job)' BY <1>0, <2>0, <2>2, Runs DEF RunFits
  <2> QED BY <1>1, <1>2, <1>6, <2>2, <2>3 DEF FindSubscriptionsToExpire, JobFits, Fit, TypeOK
<1>7. CASE MarkSubscriptionsExpired
  <2>0. job # NULL BY <1>7 DEF MarkSubscriptionsExpired, JobAt
  <2>1. job' = NULL \/ (job' \in Job /\ job'.phase = "users" /\ job'.at = job.at
                        /\ job'.todo = job.list /\ job'.list = job.list)
    BY <1>7, <2>0, Runs DEF MarkSubscriptionsExpired, Job
  <2>2. job' # NULL => RunFits(job)' BY <1>0, <2>0, <2>1, Runs DEF RunFits
  <2>3. sub' \in [Users -> Row] BY <1>7, <2>0, Runs, Marks DEF MarkSubscriptionsExpired, Fit, TypeOK
  <2> QED BY <1>1, <1>2, <1>7, <2>1, <2>2, <2>3 DEF MarkSubscriptionsExpired, JobFits, Fit, TypeOK
<1>8. CASE UpdateUser
  <2>0. job # NULL /\ job.phase = "users" BY <1>8 DEF UpdateUser, JobAt
  <2>1. PICK u \in job.todo :
          /\ Demoted(u, job.end[u]) \/ UNCHANGED user
          /\ doubted' = doubted \cup {u} \/ doubted' = doubted
          /\ job' = IF job.todo = {u} THEN [job EXCEPT !.phase = "kick", !.todo = job.list]
                    ELSE [job EXCEPT !.todo = @ \ {u}]
    BY <1>8 DEF UpdateUser
  <2>2. u \in Users /\ job.end[u] \in Nat BY <2>0, <2>1, Runs
  <2>3. /\ job' \in Job /\ job'.at = job.at /\ job'.list = job.list
        /\ \/ job'.phase = "kick" /\ job'.todo = job.list
           \/ job'.phase = "users" /\ job'.todo \subseteq job.todo
    <3>1. CASE job.todo = {u}
      <4>1. job' = [job EXCEPT !.phase = "kick", !.todo = job.list] BY <2>1, <3>1
      <4> QED BY <2>0, <4>1, Runs DEF Job
    <3>2. CASE job.todo # {u}
      <4>1. job' = [job EXCEPT !.todo = job.todo \ {u}] BY <2>1, <3>2
      <4>2. job.todo \ {u} \in SUBSET Users BY <2>0, Runs
      <4> QED BY <2>0, <4>1, <4>2, Runs DEF Job
    <3> QED BY <3>1, <3>2
  <2>4. RunFits(job)' BY <1>0, <2>0, <2>3, Runs DEF RunFits
  <2>5. user' \in [Users -> User] /\ doubted' \in SUBSET Users
    BY <2>1, <2>2, Demotes DEF Fit, TypeOK
  <2> QED BY <1>1, <1>2, <1>8, <2>3, <2>4, <2>5 DEF UpdateUser, JobFits, Fit, TypeOK
<1>9. CASE RemoveUserFromChannel
  <2>0. job # NULL /\ job.phase = "kick" BY <1>9 DEF RemoveUserFromChannel, JobAt
  <2>1. PICK u \in job.todo :
          /\ member' \subseteq member
          /\ events' \subseteq events \cup {[user |-> u, kind |-> "kicked"]}
          /\ slipped' = slipped \cup {u} \/ slipped' = slipped
          /\ job' = IF job.todo = {u} THEN NULL
                    ELSE [job EXCEPT !.todo = @ \ {u}, !.list = @ \ {u}]
    BY <1>9 DEF RemoveUserFromChannel
  <2>2. u \in Users BY <2>0, <2>1, Runs
  <2>3. job' = NULL \/ (job' \in Job /\ job'.at = job.at /\ job'.phase = "kick"
                        /\ job'.todo = job.todo \ {u} /\ job'.list = job.list \ {u})
    BY <2>0, <2>1, Runs DEF Job
  <2>4. job' # NULL => RunFits(job)' BY <1>0, <2>0, <2>3, Runs DEF RunFits
  <2>5. member' \subseteq Users /\ events' \subseteq Event /\ slipped' \in SUBSET Users
    BY <2>1, <2>2 DEF Event, Fit, TypeOK
  <2> QED BY <1>1, <1>2, <1>9, <2>3, <2>4, <2>5 DEF RemoveUserFromChannel, JobFits, Fit, TypeOK
<1> QED BY <1>3, <1>4, <1>5, <1>6, <1>7, <1>8, <1>9 DEF JobStep

\* What a handler of the channel has.
LEMMA HasUser ==
    ASSUME Fit, NEW w \in Workers, task[w] # NULL, task[w].phase \notin PaymentPhases
    PROVE  /\ task[w] \in Task /\ task[w].user \in Users /\ task[w].payment = NULL
           /\ task[w].end \in Nat
           /\ task[w].phase \in LeaverPhases => task[w].kind \in {"left", "kicked"}
BY Has DEF TaskFits, Task, Ends

\* The same task in another phase, with an end.
LEMMA ChannelTask ==
    ASSUME Fit, NEW w \in Workers, task[w] # NULL, task[w].phase \notin PaymentPhases,
           NEW phase \in {"expire", "demote", "admit"}, NEW end \in Nat,
           phase \in {"expire", "demote"} => task[w].phase \in LeaverPhases,
           phase = "admit" => end > 0,
           \/ task' = [task EXCEPT ![w].phase = phase, ![w].end = end]
           \/ task' = [task EXCEPT ![w].phase = phase] /\ end = task[w].end
    PROVE  /\ task' \in [Workers -> Task \cup {NULL}] /\ TasksFit'
           /\ task'[w] = [task[w] EXCEPT !.phase = phase, !.end = end]
<1> DEFINE t == [task[w] EXCEPT !.phase = phase, !.end = end]
<1>1. /\ task[w] \in Task /\ task[w].user \in Users /\ task[w].payment = NULL
      /\ task[w].phase \in LeaverPhases => task[w].kind \in {"left", "kicked"}
  BY HasUser
<1>2. t \in Task /\ TaskFits(t)
  BY <1>1 DEF Task, TaskFits, PaymentPhases, LeaverPhases, Ends
<1>3. task' = [task EXCEPT ![w] = t]
  <2>1. CASE task' = [task EXCEPT ![w].phase = phase, ![w].end = end]
    BY <1>1, <2>1 DEF Fit, TypeOK, Task
  <2>2. CASE task' = [task EXCEPT ![w].phase = phase] /\ end = task[w].end
    <3>1. t = [task[w] EXCEPT !.phase = phase] BY <1>1, <2>2 DEF Task
    <3> QED BY <2>2, <3>1
  <2> QED BY <2>1, <2>2
<1>4. task'[w] = t BY <1>3 DEF Fit, TypeOK
<1>5. task' \in [Workers -> Task \cup {NULL}] /\ TasksFit'
  <2> HIDE DEF t
  <2> QED BY <1>2, <1>3, TaskBecomes
<1> QED BY <1>4, <1>5

\* The people of the channel and its handlers keep the types.
LEMMA ChannelFit ==
    ASSUME Fit,
           \/ \E u \in Users : Leave(u) \/ JoinByLink(u)
           \/ \E w \in Workers :
                \/ \E u \in Users : RequestJoin(w, u)
                \/ CheckRequest(w) \/ ApproveChatJoinRequest(w)
                \/ MemberUpdate(w) \/ LookForSubscription(w) \/ ExpireLeaver(w) \/ DemoteLeaver(w)
    PROVE  Fit'
<1> USE DEF database, queue, channel, excuses, bounds
<1>0. /\ job' = job /\ now' = now
  BY DEF Leave, JoinByLink, RequestJoin, CheckRequest, ApproveChatJoinRequest, MemberUpdate,
         LookForSubscription, ExpireLeaver, DemoteLeaver
<1>1. job' \in Job \cup {NULL} /\ JobFits' BY <1>0, JobStays
<1>2. spent' \in 0 .. MaxEvents
  BY Spends DEF Leave, JoinByLink, RequestJoin, CheckRequest, ApproveChatJoinRequest, MemberUpdate,
         LookForSubscription, ExpireLeaver, DemoteLeaver, Occurs
<1>3. ASSUME NEW u \in Users, Leave(u) PROVE Fit'
  <2>1. [user |-> u, kind |-> "left"] \in Event BY DEF Event
  <2>2. TasksFit' BY <1>3 DEF Leave, Fit, TasksFit
  <2> QED BY <1>1, <1>2, <1>3, <2>1, <2>2 DEF Leave, Fit, TypeOK
<1>4. ASSUME NEW u \in Users, JoinByLink(u) PROVE Fit'
  <2>1. links' \in [Users -> SUBSET Ends] BY <1>4 DEF JoinByLink, Fit, TypeOK
  <2>2. TasksFit' BY <1>4 DEF JoinByLink, Fit, TasksFit
  <2>3. member' \subseteq Users /\ slipped' \in SUBSET Users
    BY <1>4 DEF JoinByLink, Enters, Fit, TypeOK
  <2> QED BY <1>1, <1>2, <1>4, <2>1, <2>2, <2>3 DEF JoinByLink, Fit, TypeOK
<1>5. ASSUME NEW w \in Workers, NEW u \in Users, RequestJoin(w, u) PROVE Fit'
  <2> DEFINE t == [Blank EXCEPT !.phase = "check", !.user = u]
  <2>1. t \in Task /\ TaskFits(t) BY Apart DEF Task, TaskFits, PaymentPhases, LeaverPhases
  <2>2. task' = [task EXCEPT ![w] = t] BY <1>5 DEF RequestJoin
  <2> HIDE DEF t
  <2>3. task' \in [Workers -> Task \cup {NULL}] /\ TasksFit' BY <2>1, <2>2, TaskBecomes
  <2> QED BY <1>1, <1>2, <1>5, <2>3 DEF RequestJoin, Fit, TypeOK
<1>6. ASSUME NEW w \in Workers, CheckRequest(w) PROVE Fit'
  <2>0. /\ task[w] # NULL /\ task[w].phase = "check" /\ task[w].phase \notin PaymentPhases
        /\ now \in Nat /\ \A u \in Users : sub[u].end \in Nat
    BY <1>6 DEF CheckRequest, At, PaymentPhases, Fit, TypeOK, Time, Row, Ends
  <2>1. task' \in [Workers -> Task \cup {NULL}] /\ TasksFit'
    <3>1. CASE Done(w) BY <3>1, TaskEnds
    <3>2. CASE ~Done(w)
      <4> DEFINE u == task[w].user
      <4>1. /\ u \in Users /\ sub[u].end > 0
            /\ task' = [task EXCEPT ![w].phase = "admit", ![w].end = sub[u].end]
        BY <1>6, <2>0, <3>2, HasUser DEF CheckRequest, HasActiveSubscription
      <4> QED BY <2>0, <4>1, ChannelTask
    <3> QED BY <3>1, <3>2
  <2> QED BY <1>1, <1>2, <1>6, <2>1 DEF CheckRequest, Fit, TypeOK
<1>7. ASSUME NEW w \in Workers, ApproveChatJoinRequest(w) PROVE Fit'
  <2>0. task[w].user \in Users
    BY <1>7, HasUser DEF ApproveChatJoinRequest, At, PaymentPhases
  <2>1. task' \in [Workers -> Task \cup {NULL}] /\ TasksFit'
    BY <1>7, TaskEnds DEF ApproveChatJoinRequest
  <2>2. member' \subseteq Users /\ slipped' \in SUBSET Users
    BY <1>7, <2>0 DEF ApproveChatJoinRequest, Enters, Fit, TypeOK
  <2> QED BY <1>1, <1>2, <1>7, <2>1, <2>2 DEF ApproveChatJoinRequest, Fit, TypeOK
<1>8. ASSUME NEW w \in Workers, MemberUpdate(w) PROVE Fit'
  <2>1. PICK e \in events :
          /\ events' = events \ {e}
          /\ task' = [task EXCEPT ![w] = [Blank EXCEPT !.phase = "look", !.user = e.user,
                                                       !.kind = e.kind]]
    BY <1>8 DEF MemberUpdate
  <2> DEFINE t == [Blank EXCEPT !.phase = "look", !.user = e.user, !.kind = e.kind]
  <2>2. e.user \in Users /\ e.kind \in {"left", "kicked"} BY DEF Fit, TypeOK, Event
  <2>3. t \in Task /\ TaskFits(t) BY <2>2, Apart DEF Task, TaskFits, PaymentPhases, LeaverPhases
  <2>4. task' = [task EXCEPT ![w] = t] BY <2>1
  <2> HIDE DEF t
  <2>5. task' \in [Workers -> Task \cup {NULL}] /\ TasksFit' BY <2>3, <2>4, TaskBecomes
  <2> QED BY <1>1, <1>2, <1>8, <2>1, <2>5 DEF MemberUpdate, Fit, TypeOK
<1>9. ASSUME NEW w \in Workers, LookForSubscription(w) PROVE Fit'
  <2>0. /\ task[w] # NULL /\ task[w].phase = "look" /\ task[w].phase \notin PaymentPhases
        /\ \A u \in Users : sub[u].end \in Nat
    BY <1>9 DEF LookForSubscription, At, PaymentPhases, Fit, TypeOK, Row, Ends
  <2>1. task' \in [Workers -> Task \cup {NULL}] /\ TasksFit'
    <3>1. CASE Done(w) BY <3>1, TaskEnds
    <3>2. CASE ~Done(w)
      <4> DEFINE u == task[w].user
      <4>1. u \in Users /\ task' = [task EXCEPT ![w].phase = "expire", ![w].end = sub[u].end]
        BY <1>9, <2>0, <3>2, HasUser DEF LookForSubscription
      <4> QED BY <2>0, <4>1, ChannelTask DEF LeaverPhases
    <3> QED BY <3>1, <3>2
  <2> QED BY <1>1, <1>2, <1>9, <2>1 DEF LookForSubscription, Fit, TypeOK
<1>10. ASSUME NEW w \in Workers, ExpireLeaver(w) PROVE Fit'
  <2>0. /\ task[w] # NULL /\ task[w].phase = "expire" /\ task[w].phase \notin PaymentPhases
    BY <1>10 DEF ExpireLeaver, At, PaymentPhases
  <2>1. task' \in [Workers -> Task \cup {NULL}] /\ TasksFit'
    <3>1. CASE Done(w) BY <3>1, TaskEnds
    <3>2. CASE ~Done(w)
      <4>1. task' = [task EXCEPT ![w].phase = "demote"] BY <1>10, <3>2 DEF ExpireLeaver, Goto
      <4>2. task[w].end \in Nat BY <2>0, HasUser
      <4> QED BY <2>0, <4>1, <4>2, ChannelTask DEF LeaverPhases
    <3> QED BY <3>1, <3>2
  <2>2. sub' \in [Users -> Row]
    <3>1. {task[w].user} \in SUBSET Users BY <2>0, HasUser
    <3> QED BY <1>10, <3>1, Marks DEF ExpireLeaver, Fit, TypeOK
  <2> QED BY <1>1, <1>2, <1>10, <2>1, <2>2 DEF ExpireLeaver, Fit, TypeOK
<1>11. ASSUME NEW w \in Workers, DemoteLeaver(w) PROVE Fit'
  <2>0. task[w].user \in Users /\ task[w].end \in Nat
    BY <1>11, HasUser DEF DemoteLeaver, At, PaymentPhases
  <2>1. task' \in [Workers -> Task \cup {NULL}] /\ TasksFit'
    BY <1>11, TaskEnds DEF DemoteLeaver
  <2>2. user' \in [Users -> User] /\ doubted' \in SUBSET Users
    BY <1>11, <2>0, Demotes DEF DemoteLeaver, Fit, TypeOK
  <2> QED BY <1>1, <1>2, <1>11, <2>1, <2>2 DEF DemoteLeaver, Fit, TypeOK
<1> QED BY <1>3, <1>4, <1>5, <1>6, <1>7, <1>8, <1>9, <1>10, <1>11

\* A restart and the passing of time keep the types.
LEMMA ProcessFit == ASSUME Fit, Restart \/ Tick PROVE Fit'
<1> USE DEF database, queue, channel, excuses, bounds
<1>1. CASE Restart
  <2>1. job' = NULL /\ task' = [w \in Workers |-> NULL] BY <1>1 DEF Restart
  <2>2. \A p \in Payments : entry'[p] = Hydrated(NULL) \/ entry'[p] = NULL
    BY <1>1 DEF Restart
  <2>3. Hydrated(NULL) \in Entry BY DEF Hydrated, Entry
  <2>4. entry' \in [Payments -> Entry \cup {NULL}]
    <3>1. entry' = [p \in Payments |-> entry'[p]] BY <1>1 DEF Restart
    <3> QED BY <2>2, <2>3, <3>1
  <2>5. spent' \in 0 .. MaxEvents BY <1>1, Spends DEF Restart, Occurs
  <2>6. HeldPayments \subseteq Payments
    BY DEF HeldPayments, Fit, TypeOK, Task
  <2>7. HeldUsers \subseteq Users
    BY Runs DEF HeldUsers
  <2>8. unrecorded' \subseteq Users \X Ends
    BY <1>1, Runs DEF Restart, JobAt, Ends, Fit, TypeOK
  <2> QED BY <1>1, <2>1, <2>4, <2>5, <2>6, <2>7, <2>8
          DEF Restart, TasksFit, JobFits, Fit, TypeOK
<1>2. CASE Tick
  <2>1. now' \in Time /\ now' >= now BY <1>2, Apart DEF Tick, Fit, TypeOK, Time
  <2>2. TasksFit' BY <1>2 DEF Tick, Fit, TasksFit
  <2>3. JobFits'
    <3>1. job # NULL => job.at \in Nat /\ now \in Nat /\ now' \in Nat
      BY <2>1, Runs DEF Time, Fit, TypeOK
    <3> QED BY <1>2, <2>1, <3>1, Runs DEF Tick, JobFits, RunFits
  <2> QED BY <1>2, <2>1, <2>2, <2>3 DEF Tick, Fit, TypeOK
<1> QED BY <1>1, <1>2

-----------------------------------------------------------------------------
(* Payments *)

\* A worker that decides about no payment.
Free(w) == task[w] = NULL \/ task[w].payment = NULL

\* Ends of subscriptions only grow, and a subscription stays one.
SubGrows ==
    \A u \in Users :
        /\ sub'[u].end >= sub[u].end
        /\ sub[u].status # "none" => sub'[u].status # "none"

\* The phases of a payment are those of a worker that is not free.
LEMMA Phases ==
    ASSUME Fit, NEW w \in Workers, task[w] # NULL
    PROVE  /\ task[w].phase \in PaymentPhases <=> ~Free(w)
           /\ task[w].phase \in PaymentPhases => task[w].payment \in Payments
BY Has, Apart DEF TaskFits, Free

\* Periods that stay end before the subscription does, as its end only grows.
LEMMA PeriodsStay ==
    ASSUME Fit, Fit', PeriodsBefore, PeriodsDisjoint, UNCHANGED periods, SubGrows
    PROVE  PeriodsBefore' /\ PeriodsDisjoint'
<1>1. \A x \in periods : x.user \in Users /\ x.end \in Nat BY DEF Fit, TypeOK, Period, Ends
<1>2. \A u \in Users : sub[u].end \in Nat /\ sub'[u].end \in Nat BY DEF Fit, TypeOK, Row, Ends
<1>3. PeriodsDisjoint' BY DEF PeriodsDisjoint
<1>4. ASSUME NEW x \in periods PROVE sub'[x.user].status # "none" /\ x.end <= sub'[x.user].end
  <2>1. /\ x.user \in Users /\ x.end \in Nat /\ sub[x.user].end \in Nat
        /\ sub[x.user].status # "none" /\ x.end <= sub[x.user].end
    BY <1>1, <1>2 DEF PeriodsBefore
  <2>2. /\ sub'[x.user].end >= sub[x.user].end /\ sub'[x.user].status # "none"
        /\ sub'[x.user].end \in Nat
    BY <1>2, <2>1 DEF SubGrows
  <2> QED BY <2>1, <2>2
<1> QED BY <1>3, <1>4 DEF PeriodsBefore

\* What touches neither payments nor who decides about them keeps what payments rest on.
LEMMA PaymentsAside ==
    ASSUME Fit, Fit', PaymentInv, SubGrows,
           UNCHANGED <<submitted, entry, store, periods, decided, lost, overlapped, unsaved>>,
           \A w \in Workers : task'[w] = task[w] \/ (Free(w) /\ Free(w)')
    PROVE  PaymentInv'
<1>1. \A w \in Workers, p \in Payments :
        /\ Holds(w, p)' <=> Holds(w, p)
        /\ Holds(w, p) => task'[w] = task[w]
        /\ Decides(w, p)' <=> Decides(w, p)
  BY Apart DEF Holds, Decides, Free
<1>2. \A w \in Workers, phase \in PaymentPhases :
        /\ At(w, phase)' <=> At(w, phase)
        /\ At(w, phase) => task'[w] = task[w] /\ task[w].payment \in Payments
        /\ At(w, phase)' => task'[w] = task[w]
  <2> TAKE w \in Workers, phase \in PaymentPhases
  <2>1. task[w] # NULL => (task[w].phase \in PaymentPhases <=> ~Free(w)) BY Phases
  <2>2. task'[w] # NULL => (task'[w].phase \in PaymentPhases <=> ~Free(w)')
    BY Apart DEF Fit, TypeOK, TasksFit, TaskFits, Free
  <2> QED BY <2>1, <2>2, Phases DEF At, Free
<1>3. NoneBefore' BY <1>1 DEF PaymentInv, NoneBefore, Paid
<1>4. Objects' BY <1>2 DEF PaymentInv, Objects, PaymentPhases
<1>5. OneDecides' BY <1>1 DEF PaymentInv, OneDecides
<1>6. Closing' BY <1>2 DEF PaymentInv, Closing, Paid, PaymentPhases
<1>7. NotAgain'
  <2> SUFFICES ASSUME NEW p \in Payments, p \notin overlapped, Paid(p)
               PROVE  /\ \A w \in Workers :
                           ~(At(w, "activate")' /\ Holds(w, p)' /\ task'[w].date = "Date")
                      /\ entry[p] # NULL /\ entry[p].status = "pending" /\ entry[p].date = "Date"
                           => \E w \in Workers : At(w, "close")' /\ Holds(w, p)'
    BY DEF NotAgain, Paid
  <2> QED BY <1>1, <1>2 DEF PaymentInv, NotAgain, PaymentPhases
<1>8. NotLoaded'
  <2>1. decided \subseteq Payments BY DEF Fit, TypeOK
  <2> QED BY <1>1, <1>2, <2>1 DEF PaymentInv, NotLoaded, PaymentPhases
<1>9. PeriodsBefore' /\ PeriodsDisjoint' BY PeriodsStay DEF PaymentInv
<1>10. PaidOnce' /\ ApprovedIsPaid' BY DEF PaymentInv, PaidOnce, ApprovedIsPaid
<1>11. DecidedStaysDecided'
  <2>1. \A p \in Payments : Deciding(p)' = {} => Deciding(p) = {}
    BY <1>1 DEF Deciding, Decides, Holds
  <2>2. decided \subseteq Payments BY DEF Fit, TypeOK
  <2> QED BY <2>1, <2>2 DEF PaymentInv, DecidedStaysDecided
<1> QED BY <1>3, <1>4, <1>5, <1>6, <1>7, <1>8, <1>9, <1>10, <1>11 DEF PaymentInv

\* Ends grow by marking, by recording a warning, and by nothing else but payments.
LEMMA Grows ==
    ASSUME Fit, \/ sub' = sub
                \/ \E us \in SUBSET Users : Marked(us)
                \/ \E u \in Users : sub' = [sub EXCEPT ![u].warned = now]
    PROVE  SubGrows
<1>1. \A u \in Users : sub[u].end \in Nat BY DEF Fit, TypeOK, Row, Ends
<1>2. CASE sub' = sub BY <1>1, <1>2 DEF SubGrows
<1>3. ASSUME NEW us \in SUBSET Users, Marked(us) PROVE SubGrows
  <2>1. /\ \A u \in Users : sub'[u].end = sub[u].end
        /\ \A u \in us : sub'[u].status = "expired"
        /\ \A u \in Users \ us : sub'[u] = sub[u]
    BY <1>3, Marks
  <2> QED BY <1>1, <2>1 DEF SubGrows
<1>4. ASSUME NEW u \in Users, sub' = [sub EXCEPT ![u].warned = now] PROVE SubGrows
  <2>1. \A v \in Users : sub'[v].end = sub[v].end /\ sub'[v].status = sub[v].status
    BY <1>4 DEF Fit, TypeOK, Row
  <2> QED BY <1>1, <2>1 DEF SubGrows
<1> QED BY <1>2, <1>3, <1>4

\* The maintenance, the channel and time are such steps.
LEMMA PaymentsUntouched ==
    ASSUME Fit, Fit', PaymentInv,
           \/ JobStep \/ Tick
           \/ \E u \in Users : Leave(u) \/ JoinByLink(u)
           \/ \E w \in Workers :
                \/ \E u \in Users : RequestJoin(w, u)
                \/ CheckRequest(w) \/ ApproveChatJoinRequest(w)
                \/ MemberUpdate(w) \/ LookForSubscription(w) \/ ExpireLeaver(w) \/ DemoteLeaver(w)
    PROVE  PaymentInv'
<1> USE DEF database, queue, channel, excuses, bounds
<1>1. UNCHANGED <<submitted, entry, store, periods, decided, lost, overlapped, unsaved>>
  BY DEF JobStep, RunMaintenance, SendWarning, RecordSubscriptionWarning, FindSubscriptionsToExpire,
         MarkSubscriptionsExpired, UpdateUser, RemoveUserFromChannel, Tick, Leave, JoinByLink,
         RequestJoin, CheckRequest, ApproveChatJoinRequest, MemberUpdate,
         LookForSubscription, ExpireLeaver, DemoteLeaver
<1>2. SubGrows
  <2>1. JobStep => \/ sub' = sub
                   \/ \E us \in SUBSET Users : Marked(us)
                   \/ \E u \in Users : sub' = [sub EXCEPT ![u].warned = now]
    BY Runs DEF JobStep, RunMaintenance, SendWarning, RecordSubscriptionWarning, JobAt,
         FindSubscriptionsToExpire, MarkSubscriptionsExpired, UpdateUser, RemoveUserFromChannel
  <2>2. ASSUME NEW w \in Workers, ExpireLeaver(w)
        PROVE  sub' = sub \/ \E us \in SUBSET Users : Marked(us)
    BY <2>2, HasUser DEF ExpireLeaver, At, PaymentPhases
  <2>3. JobStep \/ (\E w \in Workers : ExpireLeaver(w)) \/ sub' = sub
    BY DEF Tick, Leave, JoinByLink, RequestJoin, CheckRequest, ApproveChatJoinRequest,
           MemberUpdate, LookForSubscription, DemoteLeaver
  <2> QED BY <2>1, <2>2, <2>3, Grows
<1>3. ASSUME NEW v \in Workers PROVE task'[v] = task[v] \/ (Free(v) /\ Free(v)')
  <2>1. CASE task' = task BY <2>1
  <2>2. ASSUME NEW w \in Workers, NEW u \in Users, RequestJoin(w, u)
        PROVE  task'[v] = task[v] \/ (Free(v) /\ Free(v)')
    <3> DEFINE t == [Blank EXCEPT !.phase = "check", !.user = u]
    <3>1. t.payment = NULL BY Apart DEF Task
    <3>2. task' = [task EXCEPT ![w] = t] /\ task[w] = NULL BY <2>2 DEF RequestJoin, Idle
    <3> HIDE DEF t
    <3> QED BY <3>1, <3>2 DEF Free, Fit, TypeOK
  <2>3. ASSUME NEW w \in Workers, MemberUpdate(w)
        PROVE  task'[v] = task[v] \/ (Free(v) /\ Free(v)')
    <3>1. PICK e \in events : task' = [task EXCEPT ![w] = [Blank EXCEPT !.phase = "look",
                                                            !.user = e.user, !.kind = e.kind]]
      BY <2>3 DEF MemberUpdate
    <3> DEFINE t == [Blank EXCEPT !.phase = "look", !.user = e.user, !.kind = e.kind]
    <3>2. t.payment = NULL BY Apart DEF Task
    <3>3. task' = [task EXCEPT ![w] = t] /\ task[w] = NULL BY <2>3, <3>1 DEF MemberUpdate, Idle
    <3> HIDE DEF t
    <3> QED BY <3>2, <3>3 DEF Free, Fit, TypeOK
  <2>4. ASSUME NEW w \in Workers, CheckRequest(w) \/ ApproveChatJoinRequest(w)
                 \/ LookForSubscription(w) \/ ExpireLeaver(w) \/ DemoteLeaver(w)
        PROVE  task'[v] = task[v] \/ (Free(v) /\ Free(v)')
    <3>1. task[w] # NULL /\ task[w].payment = NULL /\ task[w] \in Task
      BY <2>4, HasUser DEF CheckRequest, ApproveChatJoinRequest, LookForSubscription, ExpireLeaver,
                           DemoteLeaver, At, PaymentPhases
    <3>2. CASE Done(w) BY <3>1, <3>2 DEF Done, Free, Fit, TypeOK
    <3>3. CASE ~Done(w)
      <4>1. /\ \A x \in Workers : x # w => task'[x] = task[x]
            /\ task'[w].payment = task[w].payment
        BY <2>4, <3>1, <3>3 DEF CheckRequest, ApproveChatJoinRequest, LookForSubscription,
           ExpireLeaver, DemoteLeaver, Goto, Fit, TypeOK, Task
      <4> QED BY <3>1, <4>1 DEF Free
    <3> QED BY <3>2, <3>3
  <2>5. JobStep \/ Tick \/ (\E u \in Users : Leave(u) \/ JoinByLink(u)) => task' = task
    BY DEF JobStep, RunMaintenance, SendWarning, RecordSubscriptionWarning,
         FindSubscriptionsToExpire, MarkSubscriptionsExpired, UpdateUser, RemoveUserFromChannel,
         Tick, Leave, JoinByLink
  <2> QED BY <2>1, <2>2, <2>3, <2>4, <2>5
<1> QED BY <1>1, <1>2, <1>3, PaymentsAside

\* The others stay where they are.
OthersStay(w) == \A v \in Workers : v # w => task'[v] = task[v]

\* A submission is of a payment nothing is known of.
LEMMA SubmitPays ==
    ASSUME Fit, Fit', PaymentInv, NEW w \in Workers, NEW p \in Payments, Submit(w, p)
    PROVE  PaymentInv'
<1> USE DEF database, queue, channel, excuses, bounds
<1> DEFINE t == [Blank EXCEPT !.phase = "persist", !.payment = p]
<1>1. /\ t # NULL /\ t.phase = "persist" /\ t.payment = p
      /\ Application.status = "pending" /\ Application.date = "Date" /\ Application.by = NULL
      /\ Application # NULL
  <2>1. t.phase = "persist" /\ t.payment = p /\ t \in Task BY Apart DEF Task
  <2>2. t # NULL
    <3> HIDE DEF t
    <3> QED BY <2>1, Apart
  <2>3. /\ Application.status = "pending" /\ Application.date = "Date" /\ Application.by = NULL
    BY DEF Application
  <2>4. Application \in Entry BY DEF Application, Entry
  <2>5. Application # NULL BY <2>4, Apart
  <2> QED BY <2>1, <2>2, <2>3, <2>5
<1>2. /\ submitted[p] = NULL /\ submitted' = [submitted EXCEPT ![p] = now]
      /\ entry' = [entry EXCEPT ![p] = Application]
      /\ task[w] = NULL /\ task' = [task EXCEPT ![w] = t]
      /\ UNCHANGED <<sub, store, periods, decided, lost, overlapped, unsaved>>
  BY DEF Submit, Idle
<1>3. /\ entry[p] = NULL /\ p \notin store /\ p \notin decided /\ ~Paid(p)
      /\ \A v \in Workers : ~Holds(v, p)
  BY <1>2 DEF PaymentInv, NoneBefore
<1> HIDE DEF t
<1>4. /\ OthersStay(w) /\ task'[w] = t /\ submitted'[p] = now /\ entry'[p] = Application
      /\ \A q \in Payments : q # p => submitted'[q] = submitted[q] /\ entry'[q] = entry[q]
      /\ now # NULL
  BY <1>2, Apart DEF OthersStay, Fit, TypeOK, Time
<1>5. \A v \in Workers, q \in Payments :
        /\ Decides(v, q)' <=> Decides(v, q)
        /\ Holds(v, q) => Holds(v, q)'
        /\ Holds(v, q)' => Holds(v, q) \/ q = p
  BY <1>1, <1>2, <1>4 DEF Holds, Decides, OthersStay
<1>6. \A v \in Workers, phase \in PaymentPhases \ {"persist"} :
        /\ At(v, phase)' <=> At(v, phase)
        /\ At(v, phase) => task'[v] = task[v] /\ task[v].payment \in Payments
                           /\ task[v].payment # p
  BY <1>1, <1>2, <1>3, <1>4, Phases DEF At, OthersStay, Holds
<1>7. NoneBefore' BY <1>2, <1>4, <1>5 DEF PaymentInv, NoneBefore, Paid
<1>8. Objects' BY <1>1, <1>2, <1>4, <1>6 DEF PaymentInv, Objects, PaymentPhases
<1>9. OneDecides' BY <1>2, <1>5 DEF PaymentInv, OneDecides
<1>10. Closing' BY <1>2, <1>6 DEF PaymentInv, Closing, Paid, PaymentPhases
<1>11. NotAgain'
  <2> SUFFICES ASSUME NEW q \in Payments, q \notin overlapped, Paid(q)
               PROVE  /\ \A v \in Workers :
                           ~(At(v, "activate")' /\ Holds(v, q)' /\ task'[v].date = "Date")
                      /\ entry'[q] # NULL /\ entry'[q].status = "pending" /\ entry'[q].date = "Date"
                           => \E v \in Workers : At(v, "close")' /\ Holds(v, q)'
    BY <1>2 DEF NotAgain, Paid
  <2>1. q # p /\ entry'[q] = entry[q] BY <1>3, <1>4
  <2> QED BY <1>5, <1>6, <2>1 DEF PaymentInv, NotAgain, PaymentPhases
<1>12. NotLoaded'
  <2>1. decided \subseteq Payments BY DEF Fit, TypeOK
  <2> QED BY <1>2, <1>3, <1>5, <1>6, <2>1 DEF PaymentInv, NotLoaded, PaymentPhases
<1>13. PeriodsBefore' /\ PeriodsDisjoint'
  BY <1>2, Grows, PeriodsStay DEF PaymentInv
<1>14. PaidOnce' /\ ApprovedIsPaid'
  BY <1>1, <1>2, <1>4 DEF PaymentInv, PaidOnce, ApprovedIsPaid
<1>15. DecidedStaysDecided'
  <2>1. \A q \in Payments : Deciding(q)' = {} => Deciding(q) = {}
    BY <1>5 DEF Deciding, Decides, Holds
  <2>2. decided \subseteq Payments BY DEF Fit, TypeOK
  <2> QED BY <1>2, <1>3, <1>4, <2>1, <2>2 DEF PaymentInv, DecidedStaysDecided
<1> QED BY <1>7, <1>8, <1>9, <1>10, <1>11, <1>12, <1>13, <1>14, <1>15 DEF PaymentInv

\* What the others hold and where they are.
LEMMA OthersKeep ==
    ASSUME NEW w \in Workers, OthersStay(w)
    PROVE  \A v \in Workers : v # w =>
             /\ task'[v] = task[v]
             /\ \A phase \in PaymentPhases : At(v, phase)' <=> At(v, phase)
             /\ \A q \in Payments : (Holds(v, q)' <=> Holds(v, q)) /\ (Decides(v, q)' <=> Decides(v, q))
BY DEF OthersStay, At, Holds, Decides

\* A handler of a payment, and that the payment was submitted.
LEMMA Handles ==
    ASSUME Fit, NoneBefore, NEW w \in Workers, NEW phase \in PaymentPhases, At(w, phase)
    PROVE  /\ task[w] # NULL /\ task[w] \in Task /\ TaskFits(task[w]) /\ task[w].phase = phase
           /\ task[w].payment \in Payments /\ submitted[task[w].payment] # NULL
           /\ Holds(w, task[w].payment)
           /\ \A q \in Payments : Holds(w, q) <=> q = task[w].payment
           /\ \A q \in Payments : Decides(w, q) <=> q = task[w].payment /\ phase # "persist"
           /\ \A f \in PaymentPhases : At(w, f) <=> f = phase
BY Has DEF At, TaskFits, NoneBefore, Holds, Decides

\* The row of an application may be written after its decision, which is then known.
LEMMA PersistPays ==
    ASSUME Fit, Fit', PaymentInv, NEW w \in Workers, PersistEntry(w)
    PROVE  PaymentInv'
<1> USE DEF database, queue, channel, excuses, bounds
<1> DEFINE p == task[w].payment
<1>1. At(w, "persist") /\ "persist" \in PaymentPhases BY DEF PersistEntry, PaymentPhases
<1>2. /\ p \in Payments /\ submitted[p] # NULL
      /\ \A q \in Payments : ~Decides(w, q)
      /\ \A q \in Payments : Holds(w, q) <=> q = p
      /\ \A f \in PaymentPhases : At(w, f) <=> f = "persist"
  BY <1>1, Handles DEF PaymentInv
<1>3. /\ task' = [task EXCEPT ![w] = NULL]
      /\ UNCHANGED <<sub, submitted, entry, periods, decided, lost, overlapped>>
      /\ \/ store' = store \cup {p} /\ unsaved' = IF p \in decided THEN unsaved \cup {p} ELSE unsaved
         \/ store' = store /\ unsaved' = unsaved \cup {p}
  BY DEF PersistEntry, Done, UpsertCallbackMapRecord
<1> HIDE DEF p
<1>4. OthersStay(w) /\ task'[w] = NULL BY <1>3 DEF OthersStay, Fit, TypeOK
<1>5. \A v \in Workers, q \in Payments :
        (Decides(v, q)' <=> Decides(v, q)) /\ (Holds(v, q)' => Holds(v, q))
  BY <1>2, <1>4, OthersKeep DEF Holds, Decides
<1>6. \A v \in Workers, phase \in PaymentPhases \ {"persist"} :
        /\ At(v, phase)' <=> At(v, phase)
        /\ At(v, phase) => task'[v] = task[v] /\ task[v].payment \in Payments
                           /\ \A q \in Payments : Holds(v, q)' <=> Holds(v, q)
  <2> SUFFICES ASSUME NEW v \in Workers, NEW phase \in PaymentPhases \ {"persist"}
               PROVE  /\ At(v, phase)' <=> At(v, phase)
                      /\ At(v, phase) => task'[v] = task[v] /\ task[v].payment \in Payments
                           /\ \A q \in Payments : Holds(v, q)' <=> Holds(v, q)
    OBVIOUS
  <2>1. CASE v = w BY <1>2, <1>4, <2>1 DEF At
  <2>2. CASE v # w BY <1>4, <2>2, OthersKeep, Phases DEF At
  <2> QED BY <2>1, <2>2
<1>7. NoneBefore' BY <1>2, <1>3, <1>5 DEF PaymentInv, NoneBefore, Paid
<1>8. Objects' BY <1>3, <1>6 DEF PaymentInv, Objects, PaymentPhases
<1>9. OneDecides' BY <1>3, <1>5 DEF PaymentInv, OneDecides
<1>10. Closing' BY <1>3, <1>6 DEF PaymentInv, Closing, Paid, PaymentPhases
<1>11. NotAgain' BY <1>3, <1>6 DEF PaymentInv, NotAgain, Paid, PaymentPhases
<1>12. decided \subseteq Payments /\ unsaved \subseteq unsaved' BY <1>3 DEF Fit, TypeOK
<1>13. \A q \in Payments : q \in decided \ unsaved' => (q \in store' <=> q \in store) BY <1>3
<1>14. NotLoaded'
  BY <1>3, <1>6, <1>12, <1>13 DEF PaymentInv, NotLoaded, PaymentPhases
<1>15. PeriodsBefore' /\ PeriodsDisjoint' BY <1>3, Grows, PeriodsStay DEF PaymentInv
<1>16. PaidOnce' /\ ApprovedIsPaid' BY <1>3 DEF PaymentInv, PaidOnce, ApprovedIsPaid
<1>17. DecidedStaysDecided'
  <2>1. \A q \in Payments : Deciding(q)' = {} => Deciding(q) = {}
    BY <1>5 DEF Deciding, Decides, Holds
  <2> QED BY <1>3, <1>12, <1>13, <2>1 DEF PaymentInv, DecidedStaysDecided
<1> QED BY <1>7, <1>8, <1>9, <1>10, <1>11, <1>14, <1>15, <1>16, <1>17 DEF PaymentInv

\* A press of an application that nobody decides is the first, or finds it decided.
LEMMA PressPays ==
    ASSUME Fit, Fit', PaymentInv, NEW w \in Workers, NEW p \in Payments, Press(w, p)
    PROVE  PaymentInv'
<1> USE DEF database, queue, channel, excuses, bounds
<1> DEFINE t == IF entry[p] = NULL THEN [Blank EXCEPT !.payment = p]
                ELSE [Blank EXCEPT !.payment = p, !.phase = "activate", !.date = entry[p].date,
                                   !.by = entry[p].by]
<1>1. /\ task' = [task EXCEPT ![w] = t] /\ task[w] = NULL
      /\ submitted[p] # NULL /\ (entry[p] # NULL => entry[p].status = "pending")
      /\ overlapped' = IF Deciding(p) # {} THEN overlapped \cup {p} ELSE overlapped
      /\ UNCHANGED <<sub, submitted, entry, store, periods, decided, lost, unsaved>>
  BY DEF Press, Idle
<1>2. /\ t.payment = p
      /\ entry[p] = NULL => t.phase = "load"
      /\ entry[p] # NULL => t.phase = "activate" /\ t.date = entry[p].date /\ t.by = entry[p].by
  BY Apart DEF Task
<1> HIDE DEF t
<1>3. OthersStay(w) /\ task'[w] = t BY <1>1 DEF OthersStay, Fit, TypeOK
<1>4. t # NULL
  <2>1. t \in Task
    <3>1. CASE entry[p] = NULL BY <3>1, Apart DEF t, Task
    <3>2. CASE entry[p] # NULL
      <4>1. entry[p].date \in {"Date", "text"} /\ entry[p].by \in Workers \cup {NULL}
        BY <3>2 DEF Fit, TypeOK, Entry
      <4> QED BY <3>2, <4>1, Apart DEF t, Task
    <3> QED BY <3>1, <3>2
  <2> QED BY <2>1, Apart
<1>5. overlapped \subseteq overlapped' /\ overlapped' \subseteq overlapped \cup {p}
      /\ (p \notin overlapped' => p \notin overlapped /\ \A v \in Workers : ~Decides(v, p))
  BY <1>1 DEF Deciding, Decides, Holds
<1>6. \A v \in Workers, q \in Payments :
        /\ Decides(v, q) => Decides(v, q)' /\ v # w
        /\ Decides(v, q)' => Decides(v, q) \/ (v = w /\ q = p)
        /\ Holds(v, q)' => Holds(v, q) \/ (v = w /\ q = p)
  BY <1>1, <1>2, <1>3, OthersKeep DEF Holds, Decides
<1>7. \A v \in Workers, phase \in PaymentPhases :
        At(v, phase)' =>
          \/ /\ v # w /\ At(v, phase) /\ task'[v] = task[v] /\ task[v].payment \in Payments
             /\ \A q \in Payments : Holds(v, q)' <=> Holds(v, q)
          \/ v = w /\ phase = t.phase
  <2> SUFFICES ASSUME NEW v \in Workers, NEW phase \in PaymentPhases, At(v, phase)'
               PROVE  \/ /\ v # w /\ At(v, phase) /\ task'[v] = task[v]
                         /\ task[v].payment \in Payments
                         /\ \A q \in Payments : Holds(v, q)' <=> Holds(v, q)
                      \/ v = w /\ phase = t.phase
    OBVIOUS
  <2>1. CASE v = w BY <1>3, <2>1 DEF At
  <2>2. CASE v # w BY <1>3, <2>2, OthersKeep, Phases DEF At
  <2> QED BY <2>1, <2>2
<1>8. \A v \in Workers, phase \in PaymentPhases : At(v, phase) => v # w /\ At(v, phase)'
        /\ \A q \in Payments : Holds(v, q)' <=> Holds(v, q)
  BY <1>1, <1>3, OthersKeep DEF At
<1>9. \A q \in Payments : Holds(w, q)' <=> q = p BY <1>2, <1>3, <1>4 DEF Holds
<1>10. NoneBefore' BY <1>1, <1>6 DEF PaymentInv, NoneBefore, Paid
<1>11. Objects'
  <2>1. \A q \in Payments : entry[q] # NULL /\ entry[q].date = "Date" => entry[q].by = NULL
    BY DEF PaymentInv, Objects
  <2>2. ASSUME NEW v \in Workers, At(v, "activate")' \/ At(v, "close")'
        PROVE  /\ entry[task'[v].payment] # NULL
               /\ task'[v].payment \notin overlapped' => entry[task'[v].payment].by = task'[v].by
    <3>1. CASE v = w BY <1>2, <1>3, <1>7, <2>2, <3>1 DEF PaymentPhases
    <3>2. CASE v # w BY <1>5, <1>7, <2>2, <3>2 DEF PaymentInv, Objects, PaymentPhases
    <3> QED BY <3>1, <3>2
  <2> QED BY <1>1, <2>1, <2>2 DEF Objects
<1>12. OneDecides' BY <1>5, <1>6 DEF PaymentInv, OneDecides
<1>13. Closing'
  <2>1. t.phase # "close" BY <1>2
  <2> QED BY <1>1, <1>7, <2>1 DEF PaymentInv, Closing, Paid, PaymentPhases
<1>14. NotAgain'
  <2> SUFFICES ASSUME NEW q \in Payments, q \notin overlapped', Paid(q)
               PROVE  /\ \A v \in Workers :
                           ~(At(v, "activate")' /\ Holds(v, q)' /\ task'[v].date = "Date")
                      /\ entry[q] # NULL /\ entry[q].status = "pending" /\ entry[q].date = "Date"
                           => \E v \in Workers : At(v, "close")' /\ Holds(v, q)'
    BY <1>1 DEF NotAgain, Paid
  <2>1. /\ \A v \in Workers : ~(At(v, "activate") /\ Holds(v, q) /\ task[v].date = "Date")
        /\ entry[q] # NULL /\ entry[q].status = "pending" /\ entry[q].date = "Date"
             => \E v \in Workers : At(v, "close") /\ Holds(v, q)
    BY <1>5 DEF PaymentInv, NotAgain
  <2>2. ~(At(w, "activate")' /\ Holds(w, q)' /\ task'[w].date = "Date")
    <3> SUFFICES ASSUME At(w, "activate")', q = p, task'[w].date = "Date" PROVE FALSE
      BY <1>9
    <3>1. entry[p] # NULL /\ entry[p].status = "pending" /\ entry[p].date = "Date"
      BY <1>1, <1>2, <1>3 DEF At
    <3>2. PICK v \in Workers : At(v, "close") /\ Holds(v, p) BY <2>1, <3>1
    <3>3. Decides(v, p) BY <3>2 DEF At, Decides
    <3> QED BY <1>5, <3>3
  <2> QED BY <1>7, <1>8, <2>1, <2>2 DEF PaymentPhases
<1>15. decided \subseteq Payments BY DEF Fit, TypeOK
<1>16. NotLoaded'
  <2> SUFFICES ASSUME NEW q \in Payments, q \in decided \ (unsaved \cup overlapped'),
                      NEW v \in Workers, At(v, "load")', Holds(v, q)'
               PROVE  q \notin store
    BY <1>1, <1>15 DEF NotLoaded
  <2>1. q \in decided \ (unsaved \cup overlapped) BY <1>5
  <2>2. CASE v = w
    <3>1. q = p BY <1>9, <2>2
    <3>2. Deciding(p) = {} BY <1>5, <3>1 DEF Deciding, Decides, Holds
    <3> QED BY <2>1, <3>1, <3>2 DEF PaymentInv, DecidedStaysDecided
  <2>3. CASE v # w BY <1>7, <2>1, <2>3 DEF PaymentInv, NotLoaded, PaymentPhases
  <2> QED BY <2>2, <2>3
<1>17. PeriodsBefore' /\ PeriodsDisjoint' BY <1>1, Grows, PeriodsStay DEF PaymentInv
<1>18. PaidOnce' /\ ApprovedIsPaid' BY <1>1, <1>5 DEF PaymentInv, PaidOnce, ApprovedIsPaid
<1>19. DecidedStaysDecided'
  <2>1. \A q \in Payments : Deciding(q)' = {} => Deciding(q) = {}
    BY <1>6 DEF Deciding, Decides, Holds
  <2> QED BY <1>1, <1>5, <1>15, <2>1 DEF PaymentInv, DecidedStaysDecided
<1> QED BY <1>10, <1>11, <1>12, <1>13, <1>14, <1>16, <1>17, <1>18, <1>19 DEF PaymentInv

\* A row that is loaded makes an object whose date is text.
LEMMA LoadPays ==
    ASSUME Fit, Fit', PaymentInv, NEW w \in Workers, Load(w)
    PROVE  PaymentInv'
<1> USE DEF database, queue, channel, excuses, bounds
<1> DEFINE p == task[w].payment
           t == [task[w] EXCEPT !.phase = "activate", !.date = "text", !.by = w]
<1>1. At(w, "load") /\ "load" \in PaymentPhases BY DEF Load, PaymentPhases
<1>2. /\ p \in Payments /\ submitted[p] # NULL /\ task[w] \in Task /\ TaskFits(task[w])
      /\ \A q \in Payments : Decides(w, q) <=> q = p
      /\ \A q \in Payments : Holds(w, q) <=> q = p
      /\ \A f \in PaymentPhases : At(w, f) <=> f = "load"
  BY <1>1, Handles DEF PaymentInv
<1>3. /\ UNCHANGED <<sub, submitted, store, periods, decided, lost, overlapped, unsaved>>
      /\ \/ p \in store /\ entry' = [entry EXCEPT ![p] = Hydrated(w)] /\ task' = [task EXCEPT ![w] = t]
         \/ entry' = entry /\ task' = [task EXCEPT ![w] = NULL]
  BY DEF Load, Done, LoadCallbackMapRecord
<1>4. /\ t \in Task /\ t.payment = p /\ t.phase = "activate" /\ t.date = "text" /\ t.by = w
  BY <1>2 DEF Task
<1>5. t # NULL
  <2> HIDE DEF t
  <2> QED BY <1>4, Apart
<1>6. Hydrated(w) # NULL /\ Hydrated(w).date = "text" /\ Hydrated(w).by = w
      /\ Hydrated(w).status = "pending"
  <2>1. Hydrated(w).date = "text" /\ Hydrated(w).by = w /\ Hydrated(w).status = "pending"
    BY DEF Hydrated
  <2>2. Hydrated(w) \in Entry BY DEF Hydrated, Entry
  <2> QED BY <2>1, <2>2, Apart
<1>7. p \in store => p \notin decided \ (unsaved \cup overlapped)
  BY <1>1, <1>2 DEF PaymentInv, NotLoaded
<1> HIDE DEF t, p
<1>8. /\ OthersStay(w) /\ (task'[w] = t \/ task'[w] = NULL)
      /\ \A q \in Payments : q # p => entry'[q] = entry[q]
      /\ \/ entry'[p] = entry[p] /\ task'[w] = NULL
         \/ entry'[p] = Hydrated(w) /\ task'[w] = t /\ p \in store
  BY <1>2, <1>3 DEF OthersStay, Fit, TypeOK
<1>9. \A v \in Workers, q \in Payments :
        (Decides(v, q)' => Decides(v, q)) /\ (Holds(v, q)' => Holds(v, q))
  BY <1>2, <1>4, <1>8, OthersKeep DEF Holds, Decides
<1>10. \A v \in Workers, phase \in PaymentPhases :
        At(v, phase)' =>
          \/ /\ v # w /\ At(v, phase) /\ task'[v] = task[v] /\ task[v].payment \in Payments
             /\ \A q \in Payments : Holds(v, q)' <=> Holds(v, q)
          \/ v = w /\ phase = "activate" /\ task'[w] = t
  <2> SUFFICES ASSUME NEW v \in Workers, NEW phase \in PaymentPhases, At(v, phase)'
               PROVE  \/ /\ v # w /\ At(v, phase) /\ task'[v] = task[v]
                         /\ task[v].payment \in Payments
                         /\ \A q \in Payments : Holds(v, q)' <=> Holds(v, q)
                      \/ v = w /\ phase = "activate" /\ task'[w] = t
    OBVIOUS
  <2>1. CASE v = w BY <1>4, <1>8, <2>1 DEF At
  <2>2. CASE v # w BY <1>8, <2>2, OthersKeep, Phases DEF At
  <2> QED BY <2>1, <2>2
<1>11. \A v \in Workers : v # w => /\ \A q \in Payments : Holds(v, q)' <=> Holds(v, q)
                                   /\ \A phase \in PaymentPhases : At(v, phase)' <=> At(v, phase)
  BY <1>8, OthersKeep
<1>12. NoneBefore' BY <1>2, <1>3, <1>8, <1>9 DEF PaymentInv, NoneBefore, Paid
<1>13. Objects'
  <2>1. \A q \in Payments : entry'[q] # NULL /\ entry'[q].date = "Date" => entry'[q].by = NULL
    BY <1>6, <1>8 DEF PaymentInv, Objects
  <2>2. ASSUME NEW v \in Workers, At(v, "activate")' \/ At(v, "close")'
        PROVE  /\ entry'[task'[v].payment] # NULL
               /\ task'[v].payment \notin overlapped => entry'[task'[v].payment].by = task'[v].by
    <3>1. CASE v = w BY <1>4, <1>5, <1>6, <1>8, <1>10, <2>2, <3>1 DEF PaymentPhases, At
    <3>2. CASE v # w
      <4>1. /\ At(v, "activate") \/ At(v, "close")
            /\ task'[v] = task[v] /\ task[v].payment \in Payments
        BY <1>10, <2>2, <3>2 DEF PaymentPhases
      <4>2. Decides(v, task[v].payment) BY <4>1 DEF At, Decides, Holds
      <4>3. task[v].payment = p => p \in overlapped
        BY <1>2, <3>2, <4>1, <4>2 DEF PaymentInv, OneDecides
      <4> QED BY <1>6, <1>8, <4>1, <4>3 DEF PaymentInv, Objects
    <3> QED BY <3>1, <3>2
  <2> QED BY <1>3, <2>1, <2>2 DEF Objects
<1>14. OneDecides' BY <1>3, <1>9 DEF PaymentInv, OneDecides
<1>15. Closing' BY <1>3, <1>10 DEF PaymentInv, Closing, Paid, PaymentPhases
<1>16. NotAgain'
  <2> SUFFICES ASSUME NEW q \in Payments, q \notin overlapped, Paid(q)
               PROVE  /\ \A v \in Workers :
                           ~(At(v, "activate")' /\ Holds(v, q)' /\ task'[v].date = "Date")
                      /\ entry'[q] # NULL /\ entry'[q].status = "pending" /\ entry'[q].date = "Date"
                           => \E v \in Workers : At(v, "close")' /\ Holds(v, q)'
    BY <1>3 DEF NotAgain, Paid
  <2>1. /\ \A v \in Workers : ~(At(v, "activate") /\ Holds(v, q) /\ task[v].date = "Date")
        /\ entry[q] # NULL /\ entry[q].status = "pending" /\ entry[q].date = "Date"
             => \E v \in Workers : At(v, "close") /\ Holds(v, q)
    BY DEF PaymentInv, NotAgain
  <2>2. ASSUME NEW v \in Workers
        PROVE  ~(At(v, "activate")' /\ Holds(v, q)' /\ task'[v].date = "Date")
    BY <1>4, <1>10, <2>1 DEF PaymentPhases
  <2>3. ASSUME entry'[q] # NULL, entry'[q].status = "pending", entry'[q].date = "Date"
        PROVE  \E v \in Workers : At(v, "close")' /\ Holds(v, q)'
    <3>1. entry'[q] = entry[q] BY <1>6, <1>8, <2>3
    <3>2. PICK v \in Workers : At(v, "close") /\ Holds(v, q) BY <2>1, <2>3, <3>1
    <3>3. v # w BY <1>2, <3>2 DEF PaymentPhases
    <3> QED BY <1>11, <3>2, <3>3 DEF PaymentPhases
  <2> QED BY <2>2, <2>3
<1>17. decided \subseteq Payments BY DEF Fit, TypeOK
<1>18. NotLoaded'
  <2> SUFFICES ASSUME NEW q \in Payments, q \in decided \ (unsaved \cup overlapped),
                      NEW v \in Workers, At(v, "load")', Holds(v, q)'
               PROVE  q \notin store
    BY <1>3, <1>17 DEF NotLoaded
  <2> QED BY <1>10 DEF PaymentInv, NotLoaded, PaymentPhases
<1>19. PeriodsBefore' /\ PeriodsDisjoint' BY <1>3, Grows, PeriodsStay DEF PaymentInv
<1>20. PaidOnce' BY <1>3 DEF PaymentInv, PaidOnce
<1>21. ApprovedIsPaid' BY <1>3, <1>6, <1>8 DEF PaymentInv, ApprovedIsPaid
<1>22. DecidedStaysDecided'
  <2> SUFFICES ASSUME NEW q \in Payments, q \in decided \ (unsaved \cup overlapped)
               PROVE  /\ Deciding(q)' = {} => q \notin store
                      /\ entry'[q] # NULL => entry'[q].status = "approved"
    BY <1>3, <1>17 DEF DecidedStaysDecided
  <2>1. /\ Deciding(q) = {} => q \notin store
        /\ entry[q] # NULL => entry[q].status = "approved"
    BY DEF PaymentInv, DecidedStaysDecided
  <2>2. CASE q = p BY <1>7, <1>8, <2>1, <2>2
  <2>3. CASE q # p
    <3>1. \A v \in Workers : Decides(v, q)' <=> Decides(v, q)
      BY <1>2, <1>4, <1>8, <2>3, OthersKeep DEF Decides, Holds
    <3> QED BY <1>8, <2>1, <2>3, <3>1 DEF Deciding, Decides, Holds
  <2> QED BY <2>2, <2>3
<1> QED BY <1>12, <1>13, <1>14, <1>15, <1>16, <1>18, <1>19, <1>20, <1>21, <1>22 DEF PaymentInv

\* A worker that goes on from one phase of its payment to another that decides, or that is done.
LEMMA OnePhase ==
    ASSUME Fit, NEW w \in Workers, NEW f \in PaymentPhases \ {"persist"}, At(w, f),
           OthersStay(w), NEW p \in Payments, p = task[w].payment,
           NEW g \in PaymentPhases \ {"persist"},
           \/ task'[w] = NULL
           \/ task'[w] # NULL /\ task'[w].phase = g /\ task'[w].payment = p
    PROVE  /\ \A v \in Workers, q \in Payments :
                /\ Holds(v, q)' => Holds(v, q)
                /\ Decides(v, q)' => Decides(v, q)
                /\ q # p => (Decides(v, q)' <=> Decides(v, q)) /\ (Holds(v, q)' <=> Holds(v, q))
                /\ task'[w] # NULL => (Decides(v, q)' <=> Decides(v, q))
           /\ \A v \in Workers, phase \in PaymentPhases :
                At(v, phase)' => \/ v # w /\ At(v, phase) /\ task'[v] = task[v]
                                    /\ task[v].payment \in Payments
                                 \/ v = w /\ phase = g /\ task'[w] # NULL
           /\ \A v \in Workers, phase \in PaymentPhases :
                At(v, phase) => \/ v # w /\ At(v, phase)' /\ task'[v] = task[v]
                                \/ v = w /\ phase = f
<1>1. \A v \in Workers : v # w => task'[v] = task[v] BY DEF OthersStay
<1>2. \A v \in Workers, phase \in PaymentPhases : At(v, phase) => task[v].payment \in Payments
  BY Phases DEF At
<1>3. task[w] # NULL /\ task[w].phase = f BY DEF At
<1>4. \A v \in Workers, q \in Payments :
        /\ Holds(v, q)' => Holds(v, q)
        /\ Decides(v, q)' => Decides(v, q)
        /\ q # p => (Decides(v, q)' <=> Decides(v, q)) /\ (Holds(v, q)' <=> Holds(v, q))
        /\ task'[w] # NULL => (Decides(v, q)' <=> Decides(v, q))
  BY <1>1, <1>3 DEF Holds, Decides
<1> QED BY <1>1, <1>2, <1>3, <1>4 DEF At

\* An activation adds a period that follows those before it, for a payment that had none.
LEMMA ActivatePays ==
    ASSUME Fit, Fit', PaymentInv, NEW w \in Workers, Activate(w)
    PROVE  PaymentInv'
<1> USE DEF database, queue, channel, excuses, bounds
<1> DEFINE p == task[w].payment
           start == PeriodStart(Payer[p], submitted[p])
           u == Payer[p]
           x == [user |-> u, payment |-> p, start |-> start, end |-> start + Days]
<1>1. At(w, "activate") /\ "activate" \in PaymentPhases /\ task[w].date = "Date"
  BY DEF Activate, PaymentPhases
<1>2. /\ p \in Payments /\ submitted[p] # NULL /\ task[w] \in Task
      /\ \A q \in Payments : Decides(w, q) <=> q = p
      /\ \A q \in Payments : Holds(w, q) <=> q = p
      /\ \A f \in PaymentPhases : At(w, f) <=> f = "activate"
  BY <1>1, Handles DEF PaymentInv
<1>3. /\ Activated(p, start)
      /\ task' = [task EXCEPT ![w].phase = "close", ![w].end = start + Days]
      /\ UNCHANGED <<submitted, entry, store, decided, lost, overlapped, unsaved>>
  BY DEF Activate
<1>4. start \in Nat /\ (sub[u].status # "none" => start >= sub[u].end) BY <1>2, Begins
<1>5. /\ OthersStay(w) /\ task'[w].phase = "close" /\ task'[w].payment = p
      /\ task'[w].by = task[w].by
  BY <1>2, <1>3 DEF OthersStay, Fit, TypeOK, Task
<1>6. task'[w] # NULL
  <2> DEFINE t == [task[w] EXCEPT !.phase = "close", !.end = start + Days]
  <2>1. start + Days \in Nat BY <1>4, Apart
  <2>2. t \in Task BY <1>2, <2>1 DEF Task, Ends
  <2>3. task'[w] = t BY <1>2, <1>3 DEF Fit, TypeOK
  <2> HIDE DEF t
  <2> QED BY <2>2, <2>3, Apart
<1>7. /\ u \in Users /\ start + Days \in Nat /\ start + Days > start
      /\ \A v \in Users : v # u => sub'[v] = sub[v]
      /\ sub'[u].status = "active" /\ sub'[u].end = start + Days
      /\ periods' = periods \cup {x}
  <2> HIDE DEF start, p
  <2> QED BY <1>2, <1>3, <1>4, Activates
<1>8. x.user = u /\ x.payment = p /\ x.start = start /\ x.end = start + Days OBVIOUS
<1> HIDE DEF x, u, start, p
<1>9. \A y \in periods : y \in Period /\ y.user \in Users /\ y.end \in Nat /\ y.start \in Nat
  BY DEF Fit, TypeOK, Period, Ends
<1>10. p \notin overlapped => ~Paid(p)
  BY <1>1, <1>2 DEF PaymentInv, NotAgain
<1>11. \A q \in Payments : Paid(q)' <=> Paid(q) \/ q = p BY <1>7, <1>8 DEF Paid
<1>12. /\ \A v \in Workers, q \in Payments :
            /\ Holds(v, q)' => Holds(v, q)
            /\ Decides(v, q)' <=> Decides(v, q)
       /\ \A v \in Workers, phase \in PaymentPhases :
            At(v, phase)' => \/ v # w /\ At(v, phase) /\ task'[v] = task[v]
                                /\ task[v].payment \in Payments
                             \/ v = w /\ phase = "close"
       /\ \A v \in Workers, phase \in PaymentPhases :
            At(v, phase) => \/ v # w /\ At(v, phase)' /\ task'[v] = task[v]
                            \/ v = w /\ phase = "activate"
  <2>1. "activate" \in PaymentPhases \ {"persist"} /\ "close" \in PaymentPhases \ {"persist"}
    BY DEF PaymentPhases
  <2>2. p = task[w].payment BY DEF p
  <2> QED BY <1>1, <1>2, <1>5, <1>6, <2>1, <2>2, OnePhase
<1>13. NoneBefore' BY <1>2, <1>3, <1>11, <1>12 DEF PaymentInv, NoneBefore
<1>14. Objects'
  <2>1. ASSUME NEW v \in Workers, At(v, "activate")' \/ At(v, "close")'
        PROVE  /\ entry[task'[v].payment] # NULL
               /\ task'[v].payment \notin overlapped => entry[task'[v].payment].by = task'[v].by
    <3>1. CASE v = w
      <4>1. entry[p] # NULL /\ (p \notin overlapped => entry[p].by = task[w].by)
        BY <1>1 DEF PaymentInv, Objects, p
      <4> QED BY <1>5, <3>1, <4>1
    <3>2. CASE v # w BY <1>12, <2>1, <3>2 DEF PaymentInv, Objects, PaymentPhases
    <3> QED BY <3>1, <3>2
  <2> QED BY <1>3, <2>1 DEF PaymentInv, Objects
<1>15. OneDecides' BY <1>3, <1>12 DEF PaymentInv, OneDecides
<1>16. Closing'
  <2> SUFFICES ASSUME NEW v \in Workers, At(v, "close")'
               PROVE  task'[v].payment \in lost \/ \E y \in periods' : y.payment = task'[v].payment
    BY <1>3 DEF Closing, Paid
  <2>1. CASE v = w BY <1>5, <1>7, <1>8, <2>1
  <2>2. CASE v # w BY <1>7, <1>12, <2>2 DEF PaymentInv, Closing, Paid, PaymentPhases
  <2> QED BY <2>1, <2>2
<1>17. NotAgain'
  <2> SUFFICES ASSUME NEW q \in Payments, q \notin overlapped, Paid(q)'
               PROVE  /\ \A v \in Workers :
                           ~(At(v, "activate")' /\ Holds(v, q)' /\ task'[v].date = "Date")
                      /\ entry[q] # NULL /\ entry[q].status = "pending" /\ entry[q].date = "Date"
                           => \E v \in Workers : At(v, "close")' /\ Holds(v, q)'
    BY <1>3 DEF NotAgain
  <2>1. CASE q = p
    <3>1. At(w, "close")' /\ Holds(w, q)' BY <1>5, <1>6, <2>1 DEF At, Holds
    <3>2. ASSUME NEW v \in Workers, At(v, "activate")', Holds(v, q)' PROVE FALSE
      <4>1. v # w /\ Decides(v, q)' BY <3>2, <1>5 DEF At, Decides
      <4>2. Decides(v, q) /\ Decides(w, q) BY <1>2, <1>12, <2>1, <4>1
      <4> QED BY <1>2, <2>1, <4>1, <4>2 DEF PaymentInv, OneDecides
    <3> QED BY <2>1, <3>1, <3>2
  <2>2. CASE q # p
    <3>1. /\ \A v \in Workers : ~(At(v, "activate") /\ Holds(v, q) /\ task[v].date = "Date")
          /\ entry[q] # NULL /\ entry[q].status = "pending" /\ entry[q].date = "Date"
               => \E v \in Workers : At(v, "close") /\ Holds(v, q)
      BY <1>11, <2>2 DEF PaymentInv, NotAgain
    <3>2. \A v \in Workers : ~(At(v, "activate")' /\ Holds(v, q)' /\ task'[v].date = "Date")
      BY <1>12, <3>1 DEF PaymentPhases
    <3>3. \A v \in Workers : At(v, "close") /\ Holds(v, q) => At(v, "close")' /\ Holds(v, q)'
      BY <1>12 DEF PaymentPhases, Holds
    <3> QED BY <3>1, <3>2, <3>3
  <2> QED BY <2>1, <2>2
<1>18. decided \subseteq Payments BY DEF Fit, TypeOK
<1>19. NotLoaded' BY <1>3, <1>12, <1>18 DEF PaymentInv, NotLoaded, PaymentPhases
<1>20. \A y \in periods : y.user = u => y.end <= start
  <2> SUFFICES ASSUME NEW y \in periods, y.user = u PROVE y.end <= start
    OBVIOUS
  <2>1. sub[u].status # "none" /\ y.end <= sub[u].end BY DEF PaymentInv, PeriodsBefore
  <2>2. sub[u].end \in Nat BY <1>7 DEF Fit, TypeOK, Row, Ends
  <2> QED BY <1>4, <1>9, <2>1, <2>2
<1>21. PeriodsBefore'
  <2> SUFFICES ASSUME NEW y \in periods'
               PROVE  sub'[y.user].status # "none" /\ y.end <= sub'[y.user].end
    BY DEF PeriodsBefore
  <2>1. CASE y = x BY <1>7, <1>8, <2>1
  <2>2. CASE y \in periods /\ y.user = u BY <1>4, <1>7, <1>9, <1>20, <2>2
  <2>3. CASE y \in periods /\ y.user # u
    BY <1>7, <1>9, <2>3 DEF PaymentInv, PeriodsBefore
  <2> QED BY <1>7, <2>1, <2>2, <2>3
<1>22. PaidOnce'
  <2> SUFFICES ASSUME NEW y \in periods', NEW z \in periods', y.payment = z.payment,
                      y.payment # NULL, y # z
               PROVE  y.payment \in overlapped
    BY <1>3 DEF PaidOnce
  <2>1. CASE y \in periods /\ z \in periods BY <2>1 DEF PaymentInv, PaidOnce
  <2>2. CASE y = x \/ z = x BY <1>7, <1>8, <1>10, <2>2 DEF Paid
  <2> QED BY <1>7, <2>1, <2>2
<1>23. PeriodsDisjoint'
  <2> SUFFICES ASSUME NEW y \in periods', NEW z \in periods', y # z, y.user = z.user
               PROVE  y.end <= z.start \/ z.end <= y.start
    BY DEF PeriodsDisjoint
  <2>1. CASE y \in periods /\ z \in periods BY <2>1 DEF PaymentInv, PeriodsDisjoint
  <2>2. CASE y = x \/ z = x BY <1>7, <1>8, <1>20, <2>2
  <2> QED BY <1>7, <2>1, <2>2
<1>24. ApprovedIsPaid'
  <2>1. \A q \in Payments : (\E y \in periods : y.payment = q) => \E y \in periods' : y.payment = q
    BY <1>7
  <2> QED BY <1>3, <2>1 DEF PaymentInv, ApprovedIsPaid
<1>25. DecidedStaysDecided'
  <2>1. \A q \in Payments : Deciding(q)' = {} => Deciding(q) = {}
    BY <1>12 DEF Deciding, Decides, Holds
  <2> QED BY <1>3, <1>18, <2>1 DEF PaymentInv, DecidedStaysDecided
<1> QED BY <1>13, <1>14, <1>15, <1>16, <1>17, <1>19, <1>21, <1>22, <1>23, <1>24, <1>25
        DEF PaymentInv

\* An application without an activation is lost, and known to be.
LEMMA NotActivatedPays ==
    ASSUME Fit, Fit', PaymentInv, NEW w \in Workers, NoDriversChannel(w) \/ ActivateFails(w)
    PROVE  PaymentInv'
<1> USE DEF database, queue, channel, excuses, bounds
<1> DEFINE p == task[w].payment
<1>1. At(w, "activate") /\ "activate" \in PaymentPhases /\ NotActivated(w)
  BY DEF NoDriversChannel, ActivateFails, PaymentPhases
<1>2. /\ p \in Payments /\ submitted[p] # NULL /\ task[w] \in Task
      /\ \A q \in Payments : Decides(w, q) <=> q = p
      /\ \A q \in Payments : Holds(w, q) <=> q = p
      /\ \A f \in PaymentPhases : At(w, f) <=> f = "activate"
  BY <1>1, Handles DEF PaymentInv
<1>3. /\ task' = [task EXCEPT ![w].phase = "close"] /\ lost' = lost \cup {p}
      /\ UNCHANGED <<sub, periods, submitted, entry, store, decided, overlapped, unsaved>>
  BY <1>1 DEF NotActivated, Goto
<1>4. /\ OthersStay(w) /\ task'[w].phase = "close" /\ task'[w].payment = p
      /\ task'[w].by = task[w].by
  BY <1>2, <1>3 DEF OthersStay, Fit, TypeOK, Task
<1>5. task'[w] # NULL
  <2> DEFINE t == [task[w] EXCEPT !.phase = "close"]
  <2>1. t \in Task BY <1>2 DEF Task
  <2>2. task'[w] = t BY <1>2, <1>3 DEF Fit, TypeOK
  <2> HIDE DEF t
  <2> QED BY <2>1, <2>2, Apart
<1>6. p = task[w].payment BY DEF p
<1> HIDE DEF p
<1>7. /\ \A v \in Workers, q \in Payments :
           /\ Holds(v, q)' => Holds(v, q)
           /\ Decides(v, q)' <=> Decides(v, q)
      /\ \A v \in Workers, phase \in PaymentPhases :
           At(v, phase)' => \/ v # w /\ At(v, phase) /\ task'[v] = task[v]
                               /\ task[v].payment \in Payments
                            \/ v = w /\ phase = "close"
      /\ \A v \in Workers, phase \in PaymentPhases :
           At(v, phase) => \/ v # w /\ At(v, phase)' /\ task'[v] = task[v]
                           \/ v = w /\ phase = "activate"
  <2>1. "activate" \in PaymentPhases \ {"persist"} /\ "close" \in PaymentPhases \ {"persist"}
    BY DEF PaymentPhases
  <2> QED BY <1>1, <1>2, <1>4, <1>5, <1>6, <2>1, OnePhase
<1>8. NoneBefore' BY <1>2, <1>3, <1>7 DEF PaymentInv, NoneBefore, Paid
<1>9. Objects'
  <2>1. ASSUME NEW v \in Workers, At(v, "activate")' \/ At(v, "close")'
        PROVE  /\ entry[task'[v].payment] # NULL
               /\ task'[v].payment \notin overlapped => entry[task'[v].payment].by = task'[v].by
    <3>1. CASE v = w
      <4>1. entry[p] # NULL /\ (p \notin overlapped => entry[p].by = task[w].by)
        BY <1>1, <1>6 DEF PaymentInv, Objects
      <4> QED BY <1>4, <3>1, <4>1
    <3>2. CASE v # w BY <1>7, <2>1, <3>2 DEF PaymentInv, Objects, PaymentPhases
    <3> QED BY <3>1, <3>2
  <2> QED BY <1>3, <2>1 DEF PaymentInv, Objects
<1>10. OneDecides' BY <1>3, <1>7 DEF PaymentInv, OneDecides
<1>11. Closing'
  <2> SUFFICES ASSUME NEW v \in Workers, At(v, "close")'
               PROVE  task'[v].payment \in lost' \/ Paid(task'[v].payment)
    BY <1>3 DEF Closing, Paid
  <2>1. CASE v = w BY <1>3, <1>4, <2>1
  <2>2. CASE v # w BY <1>3, <1>7, <2>2 DEF PaymentInv, Closing, PaymentPhases
  <2> QED BY <2>1, <2>2
<1>12. NotAgain'
  <2> SUFFICES ASSUME NEW q \in Payments, q \notin overlapped, Paid(q)
               PROVE  /\ \A v \in Workers :
                           ~(At(v, "activate")' /\ Holds(v, q)' /\ task'[v].date = "Date")
                      /\ entry[q] # NULL /\ entry[q].status = "pending" /\ entry[q].date = "Date"
                           => \E v \in Workers : At(v, "close")' /\ Holds(v, q)'
    BY <1>3 DEF NotAgain, Paid
  <2>1. /\ \A v \in Workers : ~(At(v, "activate") /\ Holds(v, q) /\ task[v].date = "Date")
        /\ entry[q] # NULL /\ entry[q].status = "pending" /\ entry[q].date = "Date"
             => \E v \in Workers : At(v, "close") /\ Holds(v, q)
    BY DEF PaymentInv, NotAgain
  <2>2. \A v \in Workers : ~(At(v, "activate")' /\ Holds(v, q)' /\ task'[v].date = "Date")
    BY <1>7, <2>1 DEF PaymentPhases
  <2>3. \A v \in Workers : At(v, "close") /\ Holds(v, q) => At(v, "close")' /\ Holds(v, q)'
    BY <1>7 DEF PaymentPhases, Holds
  <2> QED BY <2>1, <2>2, <2>3
<1>13. decided \subseteq Payments BY DEF Fit, TypeOK
<1>14. NotLoaded' BY <1>3, <1>7, <1>13 DEF PaymentInv, NotLoaded, PaymentPhases
<1>15. PeriodsBefore' /\ PeriodsDisjoint' BY <1>3, Grows, PeriodsStay DEF PaymentInv
<1>16. PaidOnce' /\ ApprovedIsPaid' BY <1>3 DEF PaymentInv, PaidOnce, ApprovedIsPaid
<1>17. DecidedStaysDecided'
  <2>1. \A q \in Payments : Deciding(q)' = {} => Deciding(q) = {}
    BY <1>7 DEF Deciding, Decides, Holds
  <2> QED BY <1>3, <1>13, <2>1 DEF PaymentInv, DecidedStaysDecided
<1> QED BY <1>8, <1>9, <1>10, <1>11, <1>12, <1>14, <1>15, <1>16, <1>17 DEF PaymentInv

\* An application is closed by the one who decided it, over the object that he read.
LEMMA ClosePays ==
    ASSUME Fit, Fit', PaymentInv, NEW w \in Workers, Close(w)
    PROVE  PaymentInv'
<1> USE DEF database, queue, channel, excuses, bounds
<1>1. At(w, "close") /\ "close" \in PaymentPhases BY DEF Close, PaymentPhases
<1>2. PICK p \in Payments : p = task[w].payment BY <1>1, Handles DEF PaymentInv
<1> DEFINE t == [Blank EXCEPT !.phase = "remove", !.payment = p]
<1>3. /\ submitted[p] # NULL
      /\ \A q \in Payments : Decides(w, q) <=> q = p
      /\ \A q \in Payments : Holds(w, q) <=> q = p
      /\ \A f \in PaymentPhases : At(w, f) <=> f = "close"
  BY <1>1, <1>2, Handles DEF PaymentInv
<1>4. /\ task' = [task EXCEPT ![w] = t] /\ decided' = decided \cup {p}
      /\ entry' = [entry EXCEPT ![p] = IF entry[p].by = task[w].by
                                       THEN [entry[p] EXCEPT !.status = "approved"] ELSE entry[p]]
      /\ UNCHANGED <<sub, periods, submitted, store, lost, overlapped, unsaved>>
  BY <1>2 DEF Close
<1>5. t \in Task /\ t.phase = "remove" /\ t.payment = p BY Apart DEF Task, PaymentPhases
<1> HIDE DEF t
<1>6. t # NULL BY <1>5, Apart
<1>7. OthersStay(w) /\ task'[w] = t BY <1>4 DEF OthersStay, Fit, TypeOK
<1>8. entry[p] \in Entry /\ (p \notin overlapped => entry[p].by = task[w].by)
  BY <1>1, <1>2 DEF PaymentInv, Objects, Fit, TypeOK
<1>9. /\ \A q \in Payments : q # p => entry'[q] = entry[q]
      /\ entry'[p] \in Entry /\ entry'[p].by = entry[p].by /\ entry'[p].date = entry[p].date
      /\ entry'[p].status = entry[p].status \/ entry'[p].status = "approved"
      /\ entry[p].by = task[w].by => entry'[p].status = "approved"
  BY <1>4, <1>8 DEF Fit, TypeOK, Entry
<1>10. entry'[p] # NULL BY <1>9, Apart
<1>11. /\ \A v \in Workers, q \in Payments :
            /\ Holds(v, q)' => Holds(v, q)
            /\ Decides(v, q)' <=> Decides(v, q)
       /\ \A v \in Workers, phase \in PaymentPhases :
            At(v, phase)' => \/ v # w /\ At(v, phase) /\ task'[v] = task[v]
                                /\ task[v].payment \in Payments
                             \/ v = w /\ phase = "remove"
       /\ \A v \in Workers, phase \in PaymentPhases :
            At(v, phase) => \/ v # w /\ At(v, phase)' /\ task'[v] = task[v]
                            \/ v = w /\ phase = "close"
  <2>1. "remove" \in PaymentPhases \ {"persist"} /\ "close" \in PaymentPhases \ {"persist"}
    BY DEF PaymentPhases
  <2> QED BY <1>1, <1>2, <1>5, <1>6, <1>7, <2>1, OnePhase
\* Nobody else decides about p, unless presses overlapped.
<1>12. \A v \in Workers, phase \in PaymentPhases \ {"persist"} :
         At(v, phase) /\ v # w /\ task[v].payment = p => p \in overlapped
  BY <1>3 DEF PaymentInv, OneDecides, At, Decides, Holds
<1>13. NoneBefore' BY <1>3, <1>4, <1>9, <1>11 DEF PaymentInv, NoneBefore, Paid
<1>14. Objects'
  <2>1. \A q \in Payments : entry'[q] # NULL /\ entry'[q].date = "Date" => entry'[q].by = NULL
    BY <1>8, <1>9, Apart DEF PaymentInv, Objects
  <2>2. ASSUME NEW v \in Workers, At(v, "activate")' \/ At(v, "close")'
        PROVE  /\ entry'[task'[v].payment] # NULL
               /\ task'[v].payment \notin overlapped => entry'[task'[v].payment].by = task'[v].by
    <3>1. /\ At(v, "activate") \/ At(v, "close")
          /\ v # w /\ task'[v] = task[v] /\ task[v].payment \in Payments
      BY <1>11, <2>2 DEF PaymentPhases
    <3> QED BY <1>9, <1>10, <1>12, <3>1 DEF PaymentInv, Objects, PaymentPhases
  <2> QED BY <1>4, <2>1, <2>2 DEF Objects
<1>15. OneDecides' BY <1>4, <1>11 DEF PaymentInv, OneDecides
<1>16. Closing' BY <1>4, <1>11 DEF PaymentInv, Closing, Paid, PaymentPhases
<1>17. NotAgain'
  <2> SUFFICES ASSUME NEW q \in Payments, q \notin overlapped, Paid(q)
               PROVE  /\ \A v \in Workers :
                           ~(At(v, "activate")' /\ Holds(v, q)' /\ task'[v].date = "Date")
                      /\ entry'[q] # NULL /\ entry'[q].status = "pending" /\ entry'[q].date = "Date"
                           => \E v \in Workers : At(v, "close")' /\ Holds(v, q)'
    BY <1>4 DEF NotAgain, Paid
  <2>1. /\ \A v \in Workers : ~(At(v, "activate") /\ Holds(v, q) /\ task[v].date = "Date")
        /\ entry[q] # NULL /\ entry[q].status = "pending" /\ entry[q].date = "Date"
             => \E v \in Workers : At(v, "close") /\ Holds(v, q)
    BY DEF PaymentInv, NotAgain
  <2>2. \A v \in Workers : ~(At(v, "activate")' /\ Holds(v, q)' /\ task'[v].date = "Date")
    BY <1>11, <2>1 DEF PaymentPhases
  <2>3. CASE q = p BY <1>8, <1>9, <2>2, <2>3
  <2>4. CASE q # p
    <3>1. \A v \in Workers : At(v, "close") /\ Holds(v, q) => At(v, "close")' /\ Holds(v, q)'
      BY <1>3, <1>11, <2>4 DEF PaymentPhases, Holds
    <3> QED BY <1>9, <2>1, <2>2, <2>4, <3>1
  <2> QED BY <2>3, <2>4
<1>18. decided \subseteq Payments BY DEF Fit, TypeOK
<1>19. NotLoaded'
  <2> SUFFICES ASSUME NEW q \in decided' \ (unsaved \cup overlapped),
                      NEW v \in Workers, At(v, "load")', Holds(v, q)'
               PROVE  q \notin store
    BY <1>4 DEF NotLoaded
  <2>1. v # w /\ At(v, "load") /\ task'[v] = task[v] BY <1>11 DEF PaymentPhases
  <2>2. Holds(v, q) BY <2>1 DEF Holds
  <2>3. q # p BY <1>12, <2>1, <2>2 DEF Holds, PaymentPhases
  <2> QED BY <1>4, <2>1, <2>2, <2>3 DEF PaymentInv, NotLoaded
<1>20. PeriodsBefore' /\ PeriodsDisjoint' BY <1>4, Grows, PeriodsStay DEF PaymentInv
<1>21. PaidOnce' BY <1>4 DEF PaymentInv, PaidOnce
<1>22. ApprovedIsPaid'
  <2>1. p \in lost \/ Paid(p) BY <1>1, <1>2 DEF PaymentInv, Closing
  <2> QED BY <1>4, <1>9, <2>1 DEF PaymentInv, ApprovedIsPaid, Paid
<1>23. DecidedStaysDecided'
  <2> SUFFICES ASSUME NEW q \in decided' \ (unsaved \cup overlapped)
               PROVE  /\ Deciding(q)' = {} => q \notin store
                      /\ entry'[q] # NULL => entry'[q].status = "approved"
    BY <1>4 DEF DecidedStaysDecided
  <2>1. CASE q = p
    <3>1. Decides(w, p)' BY <1>5, <1>6, <1>7 DEF Decides, Holds
    <3>2. Deciding(p)' # {} BY <3>1 DEF Deciding, Decides, Holds
    <3> QED BY <1>8, <1>9, <2>1, <3>2
  <2>2. CASE q # p
    <3>1. q \in decided /\ q \in Payments BY <1>4, <1>18, <2>2
    <3>2. Deciding(q)' = {} => Deciding(q) = {}
      BY <1>11, <3>1 DEF Deciding, Decides, Holds
    <3> QED BY <1>9, <2>2, <3>1, <3>2 DEF PaymentInv, DecidedStaysDecided
  <2> QED BY <2>1, <2>2
<1> QED BY <1>13, <1>14, <1>15, <1>16, <1>17, <1>19, <1>20, <1>21, <1>22, <1>23 DEF PaymentInv

\* The row of a decided application is removed, or known to be left.
LEMMA RemovePays ==
    ASSUME Fit, Fit', PaymentInv, NEW w \in Workers, RemovePersistedEntry(w)
    PROVE  PaymentInv'
<1> USE DEF database, queue, channel, excuses, bounds
<1>1. At(w, "remove") /\ "remove" \in PaymentPhases BY DEF RemovePersistedEntry, PaymentPhases
<1>2. PICK p \in Payments : p = task[w].payment BY <1>1, Handles DEF PaymentInv
<1>3. /\ submitted[p] # NULL
      /\ \A q \in Payments : Decides(w, q) <=> q = p
      /\ \A f \in PaymentPhases : At(w, f) <=> f = "remove"
  BY <1>1, <1>2, Handles DEF PaymentInv
<1>4. /\ task' = [task EXCEPT ![w] = NULL]
      /\ \/ store' = store \ {p} /\ unsaved' = unsaved
         \/ store' = store /\ unsaved' = unsaved \cup {p}
      /\ UNCHANGED <<sub, periods, submitted, entry, decided, lost, overlapped>>
  BY <1>2 DEF RemovePersistedEntry, Done, DeleteCallbackMapRecord
<1>5. OthersStay(w) /\ task'[w] = NULL BY <1>4 DEF OthersStay, Fit, TypeOK
<1>6. /\ \A v \in Workers, q \in Payments :
           /\ Holds(v, q)' => Holds(v, q)
           /\ Decides(v, q)' => Decides(v, q)
           /\ q # p => (Decides(v, q)' <=> Decides(v, q))
      /\ \A v \in Workers, phase \in PaymentPhases :
           At(v, phase)' => v # w /\ At(v, phase) /\ task'[v] = task[v]
                            /\ task[v].payment \in Payments
      /\ \A v \in Workers, phase \in PaymentPhases :
           At(v, phase) => \/ v # w /\ At(v, phase)' /\ task'[v] = task[v]
                           \/ v = w /\ phase = "remove"
  <2>1. "remove" \in PaymentPhases \ {"persist"} BY DEF PaymentPhases
  <2> QED BY <1>1, <1>2, <1>5, <2>1, OnePhase DEF At
<1>7. NoneBefore' BY <1>3, <1>4, <1>6 DEF PaymentInv, NoneBefore, Paid
<1>8. Objects' BY <1>4, <1>6 DEF PaymentInv, Objects, PaymentPhases
<1>9. OneDecides' BY <1>4, <1>6 DEF PaymentInv, OneDecides
<1>10. Closing' BY <1>4, <1>6 DEF PaymentInv, Closing, Paid, PaymentPhases
<1>11. NotAgain'
  <2>1. \A v \in Workers, q \in Payments :
          At(v, "close") /\ Holds(v, q) => At(v, "close")' /\ Holds(v, q)'
    BY <1>6 DEF PaymentPhases, Holds
  <2>2. \A v \in Workers, q \in Payments :
          At(v, "activate")' /\ Holds(v, q)' =>
            At(v, "activate") /\ Holds(v, q) /\ task'[v] = task[v]
    BY <1>6 DEF PaymentPhases
  <2> QED BY <1>4, <2>1, <2>2 DEF PaymentInv, NotAgain, Paid
<1>12. decided \subseteq Payments BY DEF Fit, TypeOK
<1>13. NotLoaded' BY <1>4, <1>6, <1>12 DEF PaymentInv, NotLoaded, PaymentPhases
<1>14. PeriodsBefore' /\ PeriodsDisjoint' BY <1>4, Grows, PeriodsStay DEF PaymentInv
<1>15. PaidOnce' /\ ApprovedIsPaid' BY <1>4 DEF PaymentInv, PaidOnce, ApprovedIsPaid
<1>16. DecidedStaysDecided'
  <2> SUFFICES ASSUME NEW q \in decided \ (unsaved' \cup overlapped)
               PROVE  /\ Deciding(q)' = {} => q \notin store'
                      /\ entry[q] # NULL => entry[q].status = "approved"
    BY <1>4 DEF DecidedStaysDecided
  <2>1. q \in Payments /\ q \notin unsaved BY <1>4, <1>12
  <2>2. q # p => (Deciding(q)' = {} => Deciding(q) = {})
    BY <1>6, <2>1 DEF Deciding, Decides, Holds
  <2> QED BY <1>4, <2>1, <2>2 DEF PaymentInv, DecidedStaysDecided
<1> QED BY <1>7, <1>8, <1>9, <1>10, <1>11, <1>13, <1>14, <1>15, <1>16 DEF PaymentInv

\* A restart forgets the memory, and brings back the rows with a date that is text.
LEMMA RestartPays ==
    ASSUME Fit, Fit', PaymentInv, Restart
    PROVE  PaymentInv'
<1> USE DEF database, queue, channel, excuses, bounds
<1>1. /\ task' = [w \in Workers |-> NULL] /\ unsaved' = unsaved \cup HeldPayments
      /\ UNCHANGED <<sub, periods, submitted, store, decided, lost, overlapped>>
  BY DEF Restart
<1>2. \A p \in Payments : entry'[p] = NULL \/ (p \in store /\ entry'[p] = Hydrated(NULL))
  BY DEF Restart, ListCallbackMapRecords
<1>3. Hydrated(NULL).date = "text" /\ Hydrated(NULL).status = "pending" BY DEF Hydrated
<1>4. \A w \in Workers : /\ \A f : ~At(w, f)'
                         /\ \A q : ~Holds(w, q)' /\ ~Decides(w, q)'
  BY <1>1 DEF At, Holds, Decides
<1>5. decided \subseteq Payments BY DEF Fit, TypeOK
<1>6. \A q \in Payments : q \notin unsaved' => Deciding(q) = {}
  <2> SUFFICES ASSUME NEW q \in Payments, NEW w \in Deciding(q) PROVE q \in HeldPayments
    BY <1>1
  <2>1. w \in Workers /\ task[w] # NULL /\ task[w].payment = q BY DEF Deciding
  <2> QED BY <2>1, Apart DEF HeldPayments
<1>7. NoneBefore' BY <1>1, <1>2, <1>4 DEF PaymentInv, NoneBefore, Paid
<1>8. Objects' BY <1>2, <1>3, <1>4 DEF Objects
<1>9. OneDecides' BY <1>1, <1>4 DEF OneDecides
<1>10. Closing' BY <1>4 DEF Closing
<1>11. NotAgain' BY <1>2, <1>3, <1>4 DEF NotAgain
<1>12. NotLoaded' BY <1>4 DEF NotLoaded
<1>13. PeriodsBefore' /\ PeriodsDisjoint' BY <1>1, Grows, PeriodsStay DEF PaymentInv
<1>14. PaidOnce' BY <1>1 DEF PaymentInv, PaidOnce
<1>15. ApprovedIsPaid' BY <1>2, <1>3 DEF ApprovedIsPaid
<1>16. DecidedStaysDecided'
  <2> SUFFICES ASSUME NEW q \in decided \ (unsaved' \cup overlapped)
               PROVE  q \notin store /\ entry'[q] = NULL
    BY <1>1 DEF DecidedStaysDecided
  <2>1. q \in Payments /\ q \notin unsaved /\ Deciding(q) = {} BY <1>1, <1>5, <1>6
  <2>2. q \notin store BY <2>1 DEF PaymentInv, DecidedStaysDecided
  <2> QED BY <1>2, <2>1, <2>2
<1> QED BY <1>7, <1>8, <1>9, <1>10, <1>11, <1>12, <1>13, <1>14, <1>15, <1>16 DEF PaymentInv

-----------------------------------------------------------------------------
(* Accounts *)

\* The part of a run, and the handlers, that end subscriptions.
Ending == {"mark", "users", "kick"}
EndsJob == job # NULL /\ job.phase \in Ending
EndsTask(w) == task[w] # NULL /\ task[w].phase \in LeaverPhases

\* What a worker and the job that end subscriptions are, for EndedBy.
LEMMA Ended ==
    ASSUME Fit, NEW u \in Users
    PROVE  /\ Marking(u) \/ MarkedByJob(u) \/ OwedByJob(u) => EndedBy(u)
           /\ OwedByJob(u) => MarkedByJob(u)
           /\ \A w \in Workers : Leaving(w, u) \/ OwedByLeaver(w, u) => EndedBy(u)
           /\ \A w \in Workers : At(w, "expire") /\ task[w].user = u => EndedBy(u)
           /\ (\E e \in events : e.user = u) => EndedBy(u)
           /\ EndedBy(u) => u \in HeldUsers
           /\ (Marking(u) \/ MarkedByJob(u) => u \in job.list)
BY Runs DEF Marking, MarkedByJob, OwedByJob, OwedByLeaver, Leaving, EndedBy, LeaverPhases, JobAt,
            At, RunFits, HeldUsers

\* A step that ends nothing keeps what accounts rest on.
LEMMA AccountsAside ==
    ASSUME Fit, Fit', AccountInv,
           UNCHANGED <<user, member, events, raced, doubted, slipped>>,
           \A u \in Users : sub'[u].status = sub[u].status /\ sub'[u].end = sub[u].end,
           job' = job \/ (~EndsJob /\ ~EndsJob') \/ (JobAt("mark") /\ job' = NULL),
           \A w \in Workers : \/ task'[w] = task[w]
                              \/ ~EndsTask(w) /\ ~EndsTask(w)'
    PROVE  AccountInv'
<1>1. \A u \in Users :
        /\ Marking(u)' => Marking(u) /\ job' = job
        /\ MarkedByJob(u)' => job' = job
        /\ MarkedByJob(u)' <=> MarkedByJob(u)
        /\ OwedByJob(u)' <=> OwedByJob(u)
  BY DEF Marking, MarkedByJob, OwedByJob, JobAt, EndsJob, Ending
<1>2. \A w \in Workers, u \in Users :
        /\ Leaving(w, u)' <=> Leaving(w, u)
        /\ Leaving(w, u) => task'[w] = task[w]
        /\ OwedByLeaver(w, u)' <=> OwedByLeaver(w, u)
        /\ OwedByLeaver(w, u) => task'[w] = task[w]
        /\ At(w, "expire")' => At(w, "expire") /\ task'[w] = task[w]
  BY DEF Leaving, OwedByLeaver, At, EndsTask, LeaverPhases
<1>3. \A u \in Users : Agrees(u)' <=> Agrees(u) BY DEF Agrees
<1>4. UsersFollow' BY <1>1, <1>2, <1>3 DEF AccountInv, UsersFollow
<1>5. EndsKnown' BY <1>1, <1>2 DEF AccountInv, EndsKnown
<1>6. KickedEnded' BY <1>2 DEF AccountInv, KickedEnded
<1>7. LeaversOut' BY <1>2 DEF AccountInv, LeaversOut
<1>8. MembersFollow'
  <2>1. member \subseteq Users BY DEF Fit, TypeOK
  <2> QED BY <1>1, <2>1 DEF AccountInv, MembersFollow
<1> QED BY <1>4, <1>5, <1>6, <1>7, <1>8 DEF AccountInv

\* A subscription is ended by who marks it only: its user is owed her row.
LEMMA MarkAccounts ==
    ASSUME Fit, Fit', AccountInv, MarkSubscriptionsExpired
    PROVE  AccountInv'
<1> USE DEF database, queue, channel, excuses, bounds
<1>0. job # NULL /\ job.phase = "mark" BY DEF MarkSubscriptionsExpired, JobAt
<1>1. CASE UNCHANGED sub /\ job' = NULL
  BY <1>0, <1>1, AccountsAside DEF MarkSubscriptionsExpired, JobAt
<1>2. CASE Marked(job.list) /\ job' = [job EXCEPT !.phase = "users", !.todo = job.list]
  <2>1. /\ \A u \in Users \ job.list : sub'[u] = sub[u]
        /\ \A u \in job.list : sub'[u].status = "expired"
        /\ \A u \in Users : sub'[u].end = sub[u].end
    BY <1>0, <1>2, Runs, Marks
  <2>2. /\ job' # NULL /\ job'.phase = "users" /\ job'.todo = job.list /\ job'.list = job.list
        /\ job'.end = job.end
    <3>1. /\ job' \in Job /\ job'.phase = "users" /\ job'.todo = job.list /\ job'.list = job.list
          /\ job'.end = job.end
      BY <1>0, <1>2, Runs DEF Job
    <3> QED BY <3>1, Apart
  <2>3. /\ UNCHANGED <<user, member, events, raced, doubted, slipped, task>>
    BY DEF MarkSubscriptionsExpired
  <2>4. \A u \in Users :
          /\ ~Marking(u)' /\ ~MarkedByJob(u) /\ ~OwedByJob(u)
          /\ Marking(u) <=> u \in job.list
          /\ MarkedByJob(u)' <=> u \in job.list
          /\ OwedByJob(u)' <=> u \in job.list
    BY <1>0, <2>2 DEF Marking, MarkedByJob, OwedByJob, JobAt
  <2>5. \A w \in Workers, u \in Users :
          /\ Leaving(w, u)' <=> Leaving(w, u)
          /\ OwedByLeaver(w, u)' <=> OwedByLeaver(w, u)
          /\ At(w, "expire")' <=> At(w, "expire")
    BY <2>3 DEF Leaving, OwedByLeaver, At
  <2>6. UsersFollow'
    <3>1. \A u \in Users \ job.list : Agrees(u)' <=> Agrees(u) BY <2>1, <2>3 DEF Agrees
    <3> QED BY <2>1, <2>3, <2>4, <2>5, <3>1 DEF AccountInv, UsersFollow
  <2>7. EndsKnown'
    <3> SUFFICES ASSUME NEW u \in Users \ raced
                 PROVE  /\ MarkedByJob(u)' => sub'[u].status = "expired" /\ sub'[u].end = job'.end[u]
                        /\ \A w \in Workers :
                             /\ At(w, "expire")' /\ task'[w].user = u =>
                                  sub'[u].status # "none" /\ sub'[u].end = task'[w].end
                             /\ OwedByLeaver(w, u)' =>
                                  sub'[u].status = "expired" /\ sub'[u].end = task'[w].end
      BY <2>3, <2>4 DEF EndsKnown
    <3>1. MarkedByJob(u)' => sub'[u].status = "expired" /\ sub'[u].end = job'.end[u]
      BY <2>1, <2>2, <2>4 DEF AccountInv, EndsKnown
    <3>2. ASSUME NEW w \in Workers
          PROVE  /\ At(w, "expire")' /\ task'[w].user = u =>
                      sub'[u].status # "none" /\ sub'[u].end = task'[w].end
                 /\ OwedByLeaver(w, u)' =>
                      sub'[u].status = "expired" /\ sub'[u].end = task'[w].end
      BY <2>1, <2>3, <2>5 DEF AccountInv, EndsKnown
    <3> QED BY <3>1, <3>2
  <2>8. KickedEnded' BY <2>1, <2>3, <2>5 DEF AccountInv, KickedEnded
  <2>9. LeaversOut' BY <2>3, <2>5 DEF AccountInv, LeaversOut
  <2>10. MembersFollow'
    <3>1. member \subseteq Users BY DEF Fit, TypeOK
    <3> QED BY <2>1, <2>3, <2>4, <3>1 DEF AccountInv, MembersFollow
  <2> QED BY <2>6, <2>7, <2>8, <2>9, <2>10 DEF AccountInv
<1> QED BY <1>1, <1>2 DEF MarkSubscriptionsExpired

\* Her row is written with the end that was marked, unless she paid meanwhile.
LEMMA UserAccounts ==
    ASSUME Fit, Fit', AccountInv, UpdateUser
    PROVE  AccountInv'
<1> USE DEF database, queue, channel, excuses, bounds
<1>0. job # NULL /\ job.phase = "users" BY DEF UpdateUser, JobAt
<1>1. PICK u \in job.todo :
        /\ \/ Demoted(u, job.end[u]) /\ doubted' = IF u \in raced THEN doubted \cup {u} ELSE doubted
           \/ doubted' = doubted \cup {u} /\ UNCHANGED user
        /\ job' = IF job.todo = {u} THEN [job EXCEPT !.phase = "kick", !.todo = job.list]
                  ELSE [job EXCEPT !.todo = @ \ {u}]
  BY DEF UpdateUser
<1>2. /\ u \in Users /\ job.end[u] \in Nat /\ job.todo \subseteq job.list
  BY <1>0, <1>1, Runs DEF RunFits
<1>3. /\ UNCHANGED <<sub, member, events, raced, slipped, task>> BY DEF UpdateUser
<1>4. /\ job' # NULL /\ job'.list = job.list /\ job'.end = job.end
      /\ \/ job'.phase = "kick" /\ job.todo = {u}
         \/ job'.phase = "users" /\ job'.todo = job.todo \ {u}
  <2>1. CASE job.todo = {u}
    <3>1. job' = [job EXCEPT !.phase = "kick", !.todo = job.list] BY <1>1, <2>1
    <3>2. job' \in Job /\ job'.list = job.list /\ job'.end = job.end /\ job'.phase = "kick"
      BY <1>0, <3>1, Runs DEF Job
    <3> QED BY <2>1, <3>2, Apart
  <2>2. CASE job.todo # {u}
    <3>1. job' = [job EXCEPT !.todo = job.todo \ {u}] BY <1>1, <2>2
    <3>2. job' \in Job /\ job'.list = job.list /\ job'.end = job.end /\ job'.phase = "users"
          /\ job'.todo = job.todo \ {u}
      BY <1>0, <3>1, Runs DEF Job
    <3> QED BY <3>2, Apart
  <2> QED BY <2>1, <2>2
<1>5. \A v \in Users :
        /\ ~Marking(v)' /\ (MarkedByJob(v)' <=> MarkedByJob(v))
        /\ v # u /\ OwedByJob(v) => OwedByJob(v)'
  BY <1>0, <1>4 DEF Marking, MarkedByJob, OwedByJob, JobAt
<1>6. MarkedByJob(u) BY <1>0, <1>1, <1>2 DEF MarkedByJob, JobAt
<1>7. \A w \in Workers, v \in Users :
        /\ Leaving(w, v)' <=> Leaving(w, v)
        /\ OwedByLeaver(w, v)' <=> OwedByLeaver(w, v)
        /\ At(w, "expire")' <=> At(w, "expire")
  BY <1>3 DEF Leaving, OwedByLeaver, At
<1>8. \A v \in Users : v # u => (Agrees(v)' <=> Agrees(v)) /\ (v \in doubted' <=> v \in doubted)
  BY <1>1, <1>2, <1>3, Demotes DEF Agrees
<1>9. u \in doubted' \/ Agrees(u)'
  <2>1. ASSUME u \notin raced, Demoted(u, job.end[u]) PROVE Agrees(u)'
    <3>1. sub[u].status = "expired" /\ sub[u].end = job.end[u]
      BY <1>2, <1>6, <2>1 DEF AccountInv, EndsKnown
    <3>2. user'[u] = [status |-> "expired", until |-> job.end[u]]
      BY <1>2, <2>1, Demotes
    <3> QED BY <1>3, <3>1, <3>2 DEF Agrees
  <2> QED BY <1>1, <2>1
<1>10. UsersFollow' BY <1>3, <1>5, <1>7, <1>8, <1>9 DEF AccountInv, UsersFollow
<1>11. EndsKnown' BY <1>3, <1>4, <1>5, <1>7 DEF AccountInv, EndsKnown
<1>12. KickedEnded' BY <1>3, <1>7 DEF AccountInv, KickedEnded
<1>13. LeaversOut' BY <1>3, <1>7 DEF AccountInv, LeaversOut
<1>14. MembersFollow'
  <2>1. member \subseteq Users BY DEF Fit, TypeOK
  <2> QED BY <1>3, <1>5, <2>1 DEF AccountInv, MembersFollow
<1> QED BY <1>10, <1>11, <1>12, <1>13, <1>14 DEF AccountInv

\* Who is removed by the bot was marked, and is out.
LEMMA KickAccounts ==
    ASSUME Fit, Fit', AccountInv, RemoveUserFromChannel
    PROVE  AccountInv'
<1> USE DEF database, queue, channel, excuses, bounds
<1>0. job # NULL /\ job.phase = "kick" /\ job.todo = job.list
  BY Runs DEF RemoveUserFromChannel, JobAt, RunFits
<1>1. PICK u \in job.todo :
        /\ \/ /\ member' = member \ {u}
              /\ events' = IF u \in member THEN events \cup {[user |-> u, kind |-> "kicked"]}
                           ELSE events
              /\ slipped' = slipped
           \/ slipped' = slipped \cup {u} /\ member' = member /\ events' = events
        /\ job' = IF job.todo = {u} THEN NULL ELSE [job EXCEPT !.todo = @ \ {u}, !.list = @ \ {u}]
  BY DEF RemoveUserFromChannel
<1>2. UNCHANGED <<sub, user, raced, doubted, task>> BY DEF RemoveUserFromChannel
<1>3. \/ job' = NULL /\ job.list = {u}
      \/ /\ job' # NULL /\ job'.phase = "kick" /\ job'.list = job.list \ {u} /\ job'.end = job.end
  <2>1. CASE job.todo # {u}
    <3>1. /\ job' \in Job /\ job'.phase = "kick" /\ job'.list = job.list \ {u}
          /\ job'.end = job.end
      BY <1>0, <1>1, <2>1, Runs DEF Job
    <3> QED BY <3>1, Apart
  <2> QED BY <1>0, <1>1, <2>1
<1>4. u \in Users /\ MarkedByJob(u)
  BY <1>0, <1>1, Runs DEF MarkedByJob, JobAt
<1>5. \A v \in Users :
        /\ ~Marking(v)' /\ ~OwedByJob(v)
        /\ MarkedByJob(v)' => MarkedByJob(v) /\ job'.end = job.end
        /\ MarkedByJob(v) /\ v # u => MarkedByJob(v)'
  BY <1>0, <1>3 DEF Marking, MarkedByJob, OwedByJob, JobAt
<1>6. \A w \in Workers, v \in Users :
        /\ Leaving(w, v)' <=> Leaving(w, v)
        /\ OwedByLeaver(w, v)' <=> OwedByLeaver(w, v)
        /\ At(w, "expire")' <=> At(w, "expire")
  BY <1>2 DEF Leaving, OwedByLeaver, At
<1>7. \A v \in Users : Agrees(v)' <=> Agrees(v) BY <1>2 DEF Agrees
<1>8. UsersFollow' BY <1>2, <1>5, <1>6, <1>7 DEF AccountInv, UsersFollow
<1>9. EndsKnown' BY <1>2, <1>5, <1>6 DEF AccountInv, EndsKnown
<1>10. \A e \in events' : e \in events \/ (e.user = u /\ u \notin member') BY <1>1
<1>11. member' \subseteq member /\ slipped \subseteq slipped' BY <1>1
<1>12. KickedEnded'
  <2> SUFFICES ASSUME NEW v \in Users \ raced,
                      \/ \E e \in events' : e.user = v /\ e.kind = "kicked"
                      \/ \E w \in Workers : Leaving(w, v)' /\ task[w].kind = "kicked"
               PROVE  sub[v].status = "expired"
    BY <1>2 DEF KickedEnded
  <2>1. CASE v = u BY <1>4, <2>1 DEF AccountInv, EndsKnown
  <2>2. CASE v # u BY <1>6, <1>10, <2>2 DEF AccountInv, KickedEnded
  <2> QED BY <2>1, <2>2
<1>13. LeaversOut' BY <1>6, <1>10, <1>11 DEF AccountInv, LeaversOut
<1>14. MembersFollow'
  <2> SUFFICES ASSUME NEW v \in member' \ slipped' PROVE sub[v].status = "active" \/ MarkedByJob(v)'
    BY <1>2 DEF MembersFollow
  <2>1. v \in Users /\ v \in member \ slipped BY <1>11 DEF Fit, TypeOK
  <2>2. v # u BY <1>1
  <2> QED BY <1>5, <2>1, <2>2 DEF AccountInv, MembersFollow
<1> QED BY <1>8, <1>9, <1>12, <1>13, <1>14 DEF AccountInv

\* What the job marks and owes, when it stays.
LEMMA JobKeeps ==
    ASSUME job' = job
    PROVE  \A u \in Users : /\ Marking(u)' <=> Marking(u)
                            /\ MarkedByJob(u)' <=> MarkedByJob(u)
                            /\ OwedByJob(u)' <=> OwedByJob(u)
BY DEF Marking, MarkedByJob, OwedByJob, JobAt

\* What the handlers do to a user, when they stay.
LEMMA TasksKeep ==
    ASSUME task' = task
    PROVE  \A w \in Workers, u \in Users :
             /\ Leaving(w, u)' <=> Leaving(w, u)
             /\ OwedByLeaver(w, u)' <=> OwedByLeaver(w, u)
             /\ At(w, "expire")' <=> At(w, "expire")
BY DEF Leaving, OwedByLeaver, At

\* Who leaves is out.
LEMMA LeaveAccounts ==
    ASSUME Fit, Fit', AccountInv, NEW u \in Users, Leave(u)
    PROVE  AccountInv'
<1> USE DEF database, queue, channel, excuses, bounds
<1>1. /\ member' = member \ {u} /\ events' = events \cup {[user |-> u, kind |-> "left"]}
      /\ UNCHANGED <<sub, user, raced, doubted, slipped, task, job>>
  BY DEF Leave
<1>2. \A e \in events' : e \in events \/ (e.user = u /\ e.kind = "left") BY <1>1
<1>3. \A v \in Users : Agrees(v)' <=> Agrees(v) BY <1>1 DEF Agrees
<1>4. UsersFollow' BY <1>1, <1>3, JobKeeps, TasksKeep DEF AccountInv, UsersFollow
<1>5. EndsKnown' BY <1>1, JobKeeps, TasksKeep DEF AccountInv, EndsKnown
<1>6. KickedEnded' BY <1>1, <1>2, TasksKeep DEF AccountInv, KickedEnded
<1>7. LeaversOut' BY <1>1, <1>2, TasksKeep DEF AccountInv, LeaversOut
<1>8. MembersFollow'
  <2>1. member \subseteq Users BY DEF Fit, TypeOK
  <2> QED BY <1>1, <2>1, JobKeeps DEF AccountInv, MembersFollow
<1> QED BY <1>4, <1>5, <1>6, <1>7, <1>8 DEF AccountInv

\* Who enters has a subscription, or it is known why not.
LEMMA EnterAccounts ==
    ASSUME Fit, Fit', AccountInv, NEW u \in Users, NEW slips \in BOOLEAN, Enters(u, slips),
           sub[u].status = "active" \/ slips,
           UNCHANGED <<sub, user, events, raced, doubted, job>>,
           \A w \in Workers : task'[w] = task[w] \/ (~EndsTask(w) /\ ~EndsTask(w)')
    PROVE  AccountInv'
<1>1. /\ member' = member \cup {u}
      /\ slipped' = IF slips \/ EndedBy(u) THEN slipped \cup {u} ELSE slipped
  BY DEF Enters
<1>2. \A w \in Workers, v \in Users :
        /\ Leaving(w, v)' <=> Leaving(w, v)
        /\ Leaving(w, v) => task'[w] = task[w]
        /\ OwedByLeaver(w, v)' <=> OwedByLeaver(w, v)
        /\ OwedByLeaver(w, v) => task'[w] = task[w]
        /\ At(w, "expire")' => At(w, "expire") /\ task'[w] = task[w]
  BY DEF Leaving, OwedByLeaver, At, EndsTask, LeaverPhases
<1>3. \A v \in Users : Agrees(v)' <=> Agrees(v) BY DEF Agrees
<1>4. UsersFollow' BY <1>2, <1>3, JobKeeps DEF AccountInv, UsersFollow
<1>5. EndsKnown' BY <1>2, JobKeeps DEF AccountInv, EndsKnown
<1>6. KickedEnded' BY <1>2 DEF AccountInv, KickedEnded
<1>7. LeaversOut'
  <2> SUFFICES ASSUME NEW v \in Users \ slipped',
                      (\E e \in events : e.user = v) \/ (\E w \in Workers : Leaving(w, v)')
               PROVE  v \notin member'
    BY DEF LeaversOut
  <2>1. EndedBy(v) BY <1>2, Ended
  <2>2. v # u /\ v \notin slipped BY <1>1, <2>1
  <2> QED BY <1>1, <1>2, <2>2 DEF AccountInv, LeaversOut
<1>8. MembersFollow'
  <2>1. member \subseteq Users BY DEF Fit, TypeOK
  <2> QED BY <1>1, <2>1, JobKeeps DEF AccountInv, MembersFollow
<1> QED BY <1>4, <1>5, <1>6, <1>7, <1>8 DEF AccountInv

\* The news that a member has left goes to a handler.
LEMMA NewsAccounts ==
    ASSUME Fit, Fit', AccountInv, NEW w \in Workers, MemberUpdate(w)
    PROVE  AccountInv'
<1> USE DEF database, queue, channel, excuses, bounds
<1>1. PICK e \in events :
        /\ events' = events \ {e}
        /\ task' = [task EXCEPT ![w] = [Blank EXCEPT !.phase = "look", !.user = e.user,
                                                     !.kind = e.kind]]
  BY DEF MemberUpdate
<1> DEFINE t == [Blank EXCEPT !.phase = "look", !.user = e.user, !.kind = e.kind]
<1>2. t.phase = "look" /\ t.user = e.user /\ t.kind = e.kind BY Apart DEF Task
<1>3. task' = [task EXCEPT ![w] = t] BY <1>1
<1> HIDE DEF t
<1>4. task[w] = NULL /\ UNCHANGED <<sub, user, member, raced, doubted, slipped, job>>
  BY DEF MemberUpdate, Idle
<1>5. task'[w] = t /\ \A v \in Workers : v # w => task'[v] = task[v] BY <1>3 DEF Fit, TypeOK
<1>6. \A v \in Workers, u \in Users :
        /\ Leaving(v, u)' => \/ Leaving(v, u) /\ task'[v] = task[v]
                             \/ v = w /\ u = e.user
        /\ OwedByLeaver(v, u)' <=> OwedByLeaver(v, u)
        /\ OwedByLeaver(v, u) => task'[v] = task[v]
        /\ At(v, "expire")' => At(v, "expire") /\ task'[v] = task[v]
  BY <1>2, <1>4, <1>5 DEF Leaving, OwedByLeaver, At
<1>7. \A u \in Users : Agrees(u)' <=> Agrees(u) BY <1>4 DEF Agrees
<1>8. UsersFollow' BY <1>4, <1>6, <1>7, JobKeeps DEF AccountInv, UsersFollow
<1>9. EndsKnown' BY <1>4, <1>6, JobKeeps DEF AccountInv, EndsKnown
<1>10. KickedEnded'
  <2> SUFFICES ASSUME NEW u \in Users \ raced,
                      \/ \E f \in events' : f.user = u /\ f.kind = "kicked"
                      \/ \E v \in Workers : Leaving(v, u)' /\ task'[v].kind = "kicked"
               PROVE  sub[u].status = "expired"
    BY <1>4 DEF KickedEnded
  <2>1. CASE \E f \in events' : f.user = u /\ f.kind = "kicked"
    BY <1>1, <2>1 DEF AccountInv, KickedEnded
  <2>2. ASSUME NEW v \in Workers, Leaving(v, u)', task'[v].kind = "kicked"
        PROVE  sub[u].status = "expired"
    BY <1>2, <1>5, <1>6, <2>2 DEF AccountInv, KickedEnded
  <2> QED BY <2>1, <2>2
<1>11. LeaversOut' BY <1>1, <1>4, <1>6 DEF AccountInv, LeaversOut
<1>12. MembersFollow'
  <2>1. member \subseteq Users BY DEF Fit, TypeOK
  <2> QED BY <1>4, <2>1, JobKeeps DEF AccountInv, MembersFollow
<1> QED BY <1>8, <1>9, <1>10, <1>11, <1>12 DEF AccountInv

\* The handler finds the subscription of who has left.
LEMMA LookAccounts ==
    ASSUME Fit, Fit', AccountInv, NEW w \in Workers, LookForSubscription(w)
    PROVE  AccountInv'
<1> USE DEF database, queue, channel, excuses, bounds
<1>0. task[w] # NULL /\ task[w].phase = "look" /\ task[w].phase \notin PaymentPhases
  BY DEF LookForSubscription, At, PaymentPhases
<1>1. PICK u \in Users : u = task[w].user BY <1>0, HasUser
<1>2. UNCHANGED <<sub, user, member, events, raced, doubted, slipped, job>>
  BY DEF LookForSubscription
<1>3. /\ \A v \in Workers : v # w => task'[v] = task[v]
      /\ \/ task'[w] = NULL
         \/ /\ sub[u].status = "active"
            /\ task'[w].phase = "expire" /\ task'[w].user = u /\ task'[w].end = sub[u].end
            /\ task'[w].kind = task[w].kind
  <2>1. CASE HasActiveSubscription(u)
    <3>1. /\ sub[u].status = "active"
          /\ task' = [task EXCEPT ![w].phase = "expire", ![w].end = sub[u].end]
      BY <1>1, <2>1 DEF LookForSubscription, HasActiveSubscription
    <3> QED BY <1>0, <1>1, <3>1, HasUser DEF Fit, TypeOK, Task
  <2>2. CASE ~HasActiveSubscription(u)
    BY <1>1, <2>2 DEF LookForSubscription, Done, Fit, TypeOK
  <2> QED BY <2>1, <2>2
<1>4. \A v \in Workers, x \in Users :
        /\ Leaving(v, x)' => Leaving(v, x) /\ task'[v].kind = task[v].kind
        /\ OwedByLeaver(v, x)' => v # w
        /\ OwedByLeaver(v, x) => OwedByLeaver(v, x)' /\ task'[v] = task[v]
        /\ v # w => /\ OwedByLeaver(v, x)' <=> OwedByLeaver(v, x)
                    /\ At(v, "expire")' <=> At(v, "expire")
  BY <1>0, <1>1, <1>3 DEF Leaving, OwedByLeaver, At, LeaverPhases
<1>5. \A x \in Users : Agrees(x)' <=> Agrees(x) BY <1>2 DEF Agrees
<1>6. UsersFollow' BY <1>2, <1>4, <1>5, JobKeeps DEF AccountInv, UsersFollow
<1>7. EndsKnown'
  <2> SUFFICES ASSUME NEW x \in Users \ raced
               PROVE  /\ Marking(x) => /\ sub[x].status # "none" /\ sub[x].end = job.end[x]
                                       /\ job.end[x] <= job.at
                      /\ MarkedByJob(x) => sub[x].status = "expired" /\ sub[x].end = job.end[x]
                      /\ \A v \in Workers :
                           /\ At(v, "expire")' /\ task'[v].user = x =>
                                sub[x].status # "none" /\ sub[x].end = task'[v].end
                           /\ OwedByLeaver(v, x)' =>
                                sub[x].status = "expired" /\ sub[x].end = task'[v].end
    BY <1>2, JobKeeps DEF EndsKnown
  <2>1. ASSUME NEW v \in Workers
        PROVE  /\ At(v, "expire")' /\ task'[v].user = x =>
                    sub[x].status # "none" /\ sub[x].end = task'[v].end
               /\ OwedByLeaver(v, x)' =>
                    sub[x].status = "expired" /\ sub[x].end = task'[v].end
    <3>1. CASE v = w BY <1>3, <1>4, <3>1 DEF At
    <3>2. CASE v # w BY <1>3, <1>4, <3>2 DEF AccountInv, EndsKnown
    <3> QED BY <3>1, <3>2
  <2> QED BY <2>1 DEF AccountInv, EndsKnown
<1>8. KickedEnded' BY <1>2, <1>4 DEF AccountInv, KickedEnded
<1>9. LeaversOut' BY <1>2, <1>4 DEF AccountInv, LeaversOut
<1>10. MembersFollow'
  <2>1. member \subseteq Users BY DEF Fit, TypeOK
  <2> QED BY <1>2, <2>1, JobKeeps DEF AccountInv, MembersFollow
<1> QED BY <1>6, <1>7, <1>8, <1>9, <1>10 DEF AccountInv

\* The handler ends the subscription of who has left, and owes her row.
LEMMA ExpireAccounts ==
    ASSUME Fit, Fit', AccountInv, NEW w \in Workers, ExpireLeaver(w)
    PROVE  AccountInv'
<1> USE DEF database, queue, channel, excuses, bounds
<1>0. task[w] # NULL /\ task[w].phase = "expire" /\ task[w].phase \notin PaymentPhases
  BY DEF ExpireLeaver, At, PaymentPhases
<1>1. PICK u \in Users : u = task[w].user BY <1>0, HasUser
<1>2. UNCHANGED <<user, member, events, raced, doubted, slipped, job>> BY DEF ExpireLeaver
<1>3. /\ \A v \in Workers : v # w => task'[v] = task[v]
      /\ \/ task'[w] = NULL /\ sub' = sub
         \/ /\ Marked({u})
            /\ task'[w] # NULL /\ task'[w].phase = "demote" /\ task'[w].user = u
            /\ task'[w].end = task[w].end /\ task'[w].kind = task[w].kind
  <2>1. CASE Marked({u}) /\ Goto(w, "demote")
    <3>1. task' = [task EXCEPT ![w].phase = "demote"] BY <2>1 DEF Goto
    <3>2. [task[w] EXCEPT !.phase = "demote"] \in Task BY <1>0, HasUser DEF Task
    <3>3. task'[w] \in Task BY <3>1, <3>2 DEF Fit, TypeOK
    <3> QED BY <1>0, <1>1, <2>1, <3>1, <3>3, HasUser, Apart DEF Fit, TypeOK, Task
  <2>2. CASE Done(w) /\ UNCHANGED sub BY <2>2 DEF Done, Fit, TypeOK
  <2> QED BY <1>1, <2>1, <2>2 DEF ExpireLeaver
<1>4. /\ \A x \in Users : x # u => sub'[x] = sub[x]
      /\ \A x \in Users : sub'[x].end = sub[x].end
      /\ \A x \in Users : sub'[x].status = sub[x].status \/ sub'[x].status = "expired"
      /\ task'[w] # NULL => sub'[u].status = "expired"
      /\ task'[w] = NULL => sub' = sub
  BY <1>3, Marks
<1>5. \A v \in Workers, x \in Users :
        /\ Leaving(v, x)' => Leaving(v, x) /\ task'[v].kind = task[v].kind
        /\ v # w => /\ OwedByLeaver(v, x)' <=> OwedByLeaver(v, x)
                    /\ At(v, "expire")' <=> At(v, "expire")
        /\ v = w => ~OwedByLeaver(v, x) /\ ~At(v, "expire")'
                    /\ (OwedByLeaver(v, x)' <=> x = u /\ task'[w] # NULL)
  BY <1>0, <1>1, <1>3 DEF Leaving, OwedByLeaver, At, LeaverPhases
<1>6. Leaving(w, u) BY <1>0, <1>1 DEF Leaving, LeaverPhases
<1>7. \A x \in Users : x # u => (Agrees(x)' <=> Agrees(x)) BY <1>2, <1>4 DEF Agrees
<1>8. UsersFollow'
  <2>1. CASE task'[w] = NULL
    <3>1. \A x \in Users : Agrees(x)' <=> Agrees(x) BY <1>2, <1>4, <2>1 DEF Agrees
    <3> QED BY <1>2, <1>4, <1>5, <2>1, <3>1, JobKeeps DEF AccountInv, UsersFollow
  <2>2. CASE task'[w] # NULL
    BY <1>2, <1>4, <1>5, <1>7, <2>2, JobKeeps DEF AccountInv, UsersFollow
  <2> QED BY <2>1, <2>2
<1>9. EndsKnown'
  <2> SUFFICES ASSUME NEW x \in Users \ raced
               PROVE  /\ Marking(x) => /\ sub'[x].status # "none" /\ sub'[x].end = job.end[x]
                                       /\ job.end[x] <= job.at
                      /\ MarkedByJob(x) => sub'[x].status = "expired" /\ sub'[x].end = job.end[x]
                      /\ \A v \in Workers :
                           /\ At(v, "expire")' /\ task'[v].user = x =>
                                sub'[x].status # "none" /\ sub'[x].end = task'[v].end
                           /\ OwedByLeaver(v, x)' =>
                                sub'[x].status = "expired" /\ sub'[x].end = task'[v].end
    BY <1>2, JobKeeps DEF EndsKnown
  <2>1. ASSUME NEW v \in Workers
        PROVE  /\ At(v, "expire")' /\ task'[v].user = x =>
                    sub'[x].status # "none" /\ sub'[x].end = task'[v].end
               /\ OwedByLeaver(v, x)' =>
                    sub'[x].status = "expired" /\ sub'[x].end = task'[v].end
    <3>1. CASE v = w
      <4>1. ASSUME x = u PROVE sub[x].end = task[w].end
        BY <1>0, <1>1, <4>1 DEF AccountInv, EndsKnown, At
      <4> QED BY <1>3, <1>4, <1>5, <3>1, <4>1
    <3>2. CASE v # w BY <1>3, <1>4, <1>5, <3>2 DEF AccountInv, EndsKnown
    <3> QED BY <3>1, <3>2
  <2> QED BY <1>4, <2>1 DEF AccountInv, EndsKnown
<1>10. KickedEnded' BY <1>2, <1>4, <1>5 DEF AccountInv, KickedEnded
<1>11. LeaversOut' BY <1>2, <1>5 DEF AccountInv, LeaversOut
<1>12. MembersFollow'
  <2> SUFFICES ASSUME NEW x \in member \ slipped PROVE sub'[x].status = "active" \/ MarkedByJob(x)
    BY <1>2, JobKeeps DEF MembersFollow, Fit, TypeOK
  <2>1. x \in Users BY DEF Fit, TypeOK
  <2>2. x # u BY <1>6, <2>1 DEF AccountInv, LeaversOut
  <2> QED BY <1>4, <2>1, <2>2 DEF AccountInv, MembersFollow
<1> QED BY <1>8, <1>9, <1>10, <1>11, <1>12 DEF AccountInv

\* The row of who has left is written with the end that was found, unless she paid meanwhile.
LEMMA DemoteAccounts ==
    ASSUME Fit, Fit', AccountInv, NEW w \in Workers, DemoteLeaver(w)
    PROVE  AccountInv'
<1> USE DEF database, queue, channel, excuses, bounds
<1>0. task[w] # NULL /\ task[w].phase = "demote" /\ task[w].phase \notin PaymentPhases
  BY DEF DemoteLeaver, At, PaymentPhases
<1>1. PICK u \in Users : u = task[w].user /\ task[w].end \in Nat BY <1>0, HasUser
<1>2. /\ UNCHANGED <<sub, member, events, raced, slipped, job>>
      /\ \/ Demoted(u, task[w].end) /\ doubted' = IF u \in raced THEN doubted \cup {u} ELSE doubted
         \/ doubted' = doubted \cup {u} /\ UNCHANGED user
      /\ task'[w] = NULL /\ \A v \in Workers : v # w => task'[v] = task[v]
  BY <1>1 DEF DemoteLeaver, Done, Fit, TypeOK
<1>3. OwedByLeaver(w, u) BY <1>0, <1>1 DEF OwedByLeaver, At
<1>4. \A v \in Workers, x \in Users :
        /\ Leaving(v, x)' => Leaving(v, x) /\ task'[v] = task[v]
        /\ OwedByLeaver(v, x)' => OwedByLeaver(v, x) /\ task'[v] = task[v]
        /\ x # u /\ OwedByLeaver(v, x) => OwedByLeaver(v, x)'
        /\ At(v, "expire")' => At(v, "expire") /\ task'[v] = task[v]
  BY <1>1, <1>2 DEF Leaving, OwedByLeaver, At
<1>5. \A x \in Users : x # u => (Agrees(x)' <=> Agrees(x)) /\ (x \in doubted' <=> x \in doubted)
  BY <1>1, <1>2, Demotes DEF Agrees
<1>6. u \in doubted' \/ Agrees(u)'
  <2>1. ASSUME u \notin raced, Demoted(u, task[w].end) PROVE Agrees(u)'
    <3>1. sub[u].status = "expired" /\ sub[u].end = task[w].end
      BY <1>3, <2>1 DEF AccountInv, EndsKnown
    <3>2. user'[u] = [status |-> "expired", until |-> task[w].end]
      BY <1>1, <2>1, Demotes
    <3> QED BY <1>2, <3>1, <3>2 DEF Agrees
  <2> QED BY <1>2, <2>1
<1>7. UsersFollow' BY <1>2, <1>4, <1>5, <1>6, JobKeeps DEF AccountInv, UsersFollow
<1>8. EndsKnown' BY <1>2, <1>4, JobKeeps DEF AccountInv, EndsKnown
<1>9. KickedEnded' BY <1>2, <1>4 DEF AccountInv, KickedEnded
<1>10. LeaversOut' BY <1>2, <1>4 DEF AccountInv, LeaversOut
<1>11. MembersFollow'
  <2>1. member \subseteq Users BY DEF Fit, TypeOK
  <2> QED BY <1>2, <2>1, JobKeeps DEF AccountInv, MembersFollow
<1> QED BY <1>7, <1>8, <1>9, <1>10, <1>11 DEF AccountInv

\* What the job found to end has ended; it is marked with the end that was found.
LEMMA FindAccounts ==
    ASSUME Fit, Fit', AccountInv, FindSubscriptionsToExpire
    PROVE  AccountInv'
<1> USE DEF database, queue, channel, excuses, bounds
<1>0. job # NULL /\ job.phase = "find" BY DEF FindSubscriptionsToExpire, JobAt
<1>1. UNCHANGED <<sub, user, member, events, raced, doubted, slipped, task>>
  BY DEF FindSubscriptionsToExpire
<1>2. CASE job' = NULL BY <1>0, <1>1, <1>2, AccountsAside DEF EndsJob, Ending
<1>3. CASE job' = Run("mark", job.at, {}, ToExpire(job.at))
  <2>1. PICK found \in SUBSET Users : found = ToExpire(job.at) BY DEF ToExpire
  <2>2. job' = [phase |-> "mark", at |-> job.at, todo |-> {}, list |-> found,
                end |-> EndsOf({} \cup found)]
    BY <1>3, <2>1 DEF Run
  <2>3. \A u \in found : EndsOf({} \cup found)[u] = sub[u].end BY DEF EndsOf
  <2>4. /\ job'.phase = "mark" /\ job'.at = job.at /\ job'.list = ToExpire(job.at)
        /\ \A u \in ToExpire(job.at) : job'.end[u] = sub[u].end
    BY <2>1, <2>2, <2>3
  <2>5. \A u \in Users :
          /\ ~Marking(u) /\ ~MarkedByJob(u) /\ ~OwedByJob(u) /\ ~MarkedByJob(u)' /\ ~OwedByJob(u)'
          /\ Marking(u)' => /\ sub[u].status = "active" /\ job'.end[u] = sub[u].end
                            /\ sub[u].end <= job'.at
    BY <1>0, <2>4 DEF Marking, MarkedByJob, OwedByJob, JobAt, ToExpire
  <2>6. \A u \in Users : Agrees(u)' <=> Agrees(u) BY <1>1 DEF Agrees
  <2>7. UsersFollow' BY <1>1, <2>5, <2>6, TasksKeep DEF AccountInv, UsersFollow
  <2>8. EndsKnown' BY <1>1, <2>5, TasksKeep DEF AccountInv, EndsKnown
  <2>9. KickedEnded' BY <1>1, TasksKeep DEF AccountInv, KickedEnded
  <2>10. LeaversOut' BY <1>1, TasksKeep DEF AccountInv, LeaversOut
  <2>11. MembersFollow'
    <3>1. member \subseteq Users BY DEF Fit, TypeOK
    <3> QED BY <1>1, <2>5, <3>1 DEF AccountInv, MembersFollow
  <2> QED BY <2>7, <2>8, <2>9, <2>10, <2>11 DEF AccountInv
<1> QED BY <1>2, <1>3 DEF FindSubscriptionsToExpire

\* Who pays is in order, unless an answer under way may still end what she paid.
LEMMA ActivateAccounts ==
    ASSUME Fit, Fit', NoneBefore, AccountInv, NEW w \in Workers, Activate(w)
    PROVE  AccountInv'
<1> USE DEF database, queue, channel, excuses, bounds
<1>1. At(w, "activate") /\ "activate" \in PaymentPhases BY DEF Activate, PaymentPhases
<1>2. PICK p \in Payments : p = task[w].payment /\ submitted[p] # NULL BY <1>1, Handles
<1>3. PICK start \in Nat : start = PeriodStart(Payer[p], submitted[p]) BY <1>2, Begins
<1>4. PICK u \in Users : u = Payer[p] BY Apart
<1>5. /\ Activated(p, start)
      /\ task' = [task EXCEPT ![w].phase = "close", ![w].end = start + Days]
      /\ UNCHANGED <<member, events, job>>
      /\ \/ EndedBy(u) /\ raced' = raced \cup {u} /\ UNCHANGED <<doubted, slipped>>
         \/ /\ ~EndedBy(u)
            /\ raced' = raced \ {u} /\ doubted' = doubted \ {u} /\ slipped' = slipped \ {u}
  BY <1>2, <1>3, <1>4 DEF Activate
<1>6. /\ \A v \in Users : v # u => sub'[v] = sub[v] /\ user'[v] = user[v]
      /\ sub'[u].status = "active" /\ sub'[u].end = start + Days
      /\ user'[u] = [status |-> "active", until |-> start + Days]
  BY <1>2, <1>4, <1>5, Activates
<1>7. /\ \A v \in Workers : v # w => task'[v] = task[v]
      /\ task[w] # NULL /\ task[w].phase = "activate" /\ task'[w].phase = "close"
  BY <1>1, <1>5, Has DEF At, Fit, TypeOK, Task
<1>8. \A v \in Workers, x \in Users :
        /\ Leaving(v, x)' <=> Leaving(v, x)
        /\ Leaving(v, x) => task'[v] = task[v]
        /\ OwedByLeaver(v, x)' <=> OwedByLeaver(v, x)
        /\ OwedByLeaver(v, x) => task'[v] = task[v]
        /\ At(v, "expire")' => At(v, "expire") /\ task'[v] = task[v]
  BY <1>7 DEF Leaving, OwedByLeaver, At, LeaverPhases
<1>9. \A x \in Users : x # u => /\ Agrees(x)' <=> Agrees(x)
                                /\ x \in doubted' <=> x \in doubted
                                /\ x \in raced' <=> x \in raced
                                /\ x \in slipped' <=> x \in slipped
  BY <1>5, <1>6 DEF Agrees
<1>10. Agrees(u)' BY <1>6 DEF Agrees
<1>11. u \notin raced' => ~EndedBy(u) BY <1>5
<1>12. UsersFollow'
  BY <1>5, <1>6, <1>8, <1>9, <1>10, JobKeeps DEF AccountInv, UsersFollow
<1>13. EndsKnown'
  <2> SUFFICES ASSUME NEW x \in Users \ raced'
               PROVE  /\ Marking(x) => /\ sub'[x].status # "none" /\ sub'[x].end = job.end[x]
                                       /\ job.end[x] <= job.at
                      /\ MarkedByJob(x) => sub'[x].status = "expired" /\ sub'[x].end = job.end[x]
                      /\ \A v \in Workers :
                           /\ At(v, "expire")' /\ task'[v].user = x =>
                                sub'[x].status # "none" /\ sub'[x].end = task'[v].end
                           /\ OwedByLeaver(v, x)' =>
                                sub'[x].status = "expired" /\ sub'[x].end = task'[v].end
    BY <1>5, JobKeeps DEF EndsKnown
  <2>1. CASE x = u BY <1>8, <1>11, <2>1, Ended
  <2>2. CASE x # u BY <1>6, <1>8, <1>9, <2>2 DEF AccountInv, EndsKnown
  <2> QED BY <2>1, <2>2
<1>14. KickedEnded'
  <2> SUFFICES ASSUME NEW x \in Users \ raced',
                      \/ \E e \in events : e.user = x /\ e.kind = "kicked"
                      \/ \E v \in Workers : Leaving(v, x)' /\ task'[v].kind = "kicked"
               PROVE  sub'[x].status = "expired"
    BY <1>5 DEF KickedEnded
  <2>1. CASE x = u BY <1>8, <1>11, <2>1, Ended
  <2>2. CASE x # u BY <1>6, <1>8, <1>9, <2>2 DEF AccountInv, KickedEnded
  <2> QED BY <2>1, <2>2
<1>15. LeaversOut'
  <2> SUFFICES ASSUME NEW x \in Users \ slipped',
                      (\E e \in events : e.user = x) \/ (\E v \in Workers : Leaving(v, x))
               PROVE  x \notin member
    BY <1>5, <1>8 DEF LeaversOut
  <2>1. x \notin slipped BY <1>5, Ended
  <2> QED BY <2>1 DEF AccountInv, LeaversOut
<1>16. MembersFollow'
  <2>1. member \subseteq Users BY DEF Fit, TypeOK
  <2> QED BY <1>5, <1>6, <1>9, <2>1, JobKeeps DEF AccountInv, MembersFollow
<1> QED BY <1>12, <1>13, <1>14, <1>15, <1>16 DEF AccountInv

\* A restart leaves known who was being ended.
LEMMA RestartAccounts ==
    ASSUME Fit, Fit', AccountInv, Restart
    PROVE  AccountInv'
<1> USE DEF database, queue, channel, excuses, bounds
<1>1. /\ task' = [w \in Workers |-> NULL] /\ job' = NULL
      /\ doubted' = doubted \cup HeldUsers /\ slipped' = slipped \cup HeldUsers
      /\ UNCHANGED <<sub, user, member, events, raced>>
  BY DEF Restart
<1>2. \A u \in Users : ~Marking(u)' /\ ~MarkedByJob(u)' /\ ~OwedByJob(u)'
  BY <1>1 DEF Marking, MarkedByJob, OwedByJob, JobAt
<1>3. \A w \in Workers, u \in Users : ~Leaving(w, u)' /\ ~OwedByLeaver(w, u)' /\ ~At(w, "expire")'
  BY <1>1 DEF Leaving, OwedByLeaver, At
<1>4. \A u \in Users : Agrees(u)' <=> Agrees(u) BY <1>1 DEF Agrees
<1>5. UsersFollow' BY <1>1, <1>4, Ended DEF AccountInv, UsersFollow
<1>6. EndsKnown' BY <1>2, <1>3 DEF EndsKnown
<1>7. KickedEnded' BY <1>1, <1>3 DEF AccountInv, KickedEnded
<1>8. LeaversOut' BY <1>1, <1>3 DEF AccountInv, LeaversOut
<1>9. MembersFollow'
  <2>1. member \subseteq Users BY DEF Fit, TypeOK
  <2> QED BY <1>1, <2>1, Ended DEF AccountInv, MembersFollow
<1> QED BY <1>5, <1>6, <1>7, <1>8, <1>9 DEF AccountInv

\* A handler of a payment ends no subscription.
LEMMA QueueAccounts ==
    ASSUME Fit, Fit', NoneBefore, AccountInv, NEW w \in Workers,
           \/ \E p \in Payments : Submit(w, p) \/ Press(w, p)
           \/ PersistEntry(w) \/ Load(w) \/ NoDriversChannel(w)
           \/ ActivateFails(w) \/ Close(w) \/ RemovePersistedEntry(w)
    PROVE  AccountInv'
<1> USE DEF database, queue, channel, excuses, bounds
<1>1. UNCHANGED <<sub, user, member, events, raced, doubted, slipped, job>>
  BY DEF Submit, Press, PersistEntry, Load, NoDriversChannel, ActivateFails, NotActivated, Close,
         RemovePersistedEntry
<1>2. \A v \in Workers : v # w => task'[v] = task[v]
  BY DEF Submit, Press, PersistEntry, Load, NoDriversChannel, ActivateFails, NotActivated, Close,
         RemovePersistedEntry, Done, Goto, Fit, TypeOK
<1>3. ~EndsTask(w)
  BY DEF Submit, Press, PersistEntry, Load, NoDriversChannel, ActivateFails, Close,
         RemovePersistedEntry, Idle, At, EndsTask, LeaverPhases
<1>4. ~EndsTask(w)'
  <2>1. ASSUME NEW p \in Payments, Submit(w, p) PROVE ~EndsTask(w)'
    <3> DEFINE t == [Blank EXCEPT !.phase = "persist", !.payment = p]
    <3>1. t.phase = "persist" /\ task' = [task EXCEPT ![w] = t] BY <2>1, Apart DEF Submit, Task
    <3> HIDE DEF t
    <3> QED BY <3>1 DEF Fit, TypeOK, EndsTask, LeaverPhases
  <2>2. ASSUME NEW p \in Payments, Press(w, p) PROVE ~EndsTask(w)'
    <3> DEFINE t == IF entry[p] = NULL THEN [Blank EXCEPT !.payment = p]
                    ELSE [Blank EXCEPT !.payment = p, !.phase = "activate", !.date = entry[p].date,
                                       !.by = entry[p].by]
    <3>1. t.phase \in {"load", "activate"} /\ task' = [task EXCEPT ![w] = t]
      BY <2>2, Apart DEF Press, Task
    <3> HIDE DEF t
    <3> QED BY <3>1 DEF Fit, TypeOK, EndsTask, LeaverPhases
  <2>3. CASE PersistEntry(w) \/ RemovePersistedEntry(w)
    BY <2>3 DEF PersistEntry, RemovePersistedEntry, Done, Fit, TypeOK, EndsTask
  <2>4. CASE Load(w)
    <3>1. task[w] \in Task BY <2>4, Has DEF Load, At
    <3>2. CASE Done(w) BY <3>2 DEF Done, Fit, TypeOK, EndsTask
    <3>3. CASE ~Done(w)
      <4>1. task' = [task EXCEPT ![w] = [task[w] EXCEPT !.phase = "activate", !.date = "text",
                                                        !.by = w]]
        BY <2>4, <3>3 DEF Load
      <4>2. task'[w].phase = "activate" BY <3>1, <4>1 DEF Fit, TypeOK, Task
      <4> QED BY <4>2 DEF EndsTask, LeaverPhases
    <3> QED BY <3>2, <3>3
  <2>5. CASE NoDriversChannel(w) \/ ActivateFails(w)
    <3>1. task[w] \in Task /\ task' = [task EXCEPT ![w].phase = "close"]
      BY <2>5, Has DEF NoDriversChannel, ActivateFails, NotActivated, Goto, At
    <3>2. task'[w].phase = "close" BY <3>1 DEF Fit, TypeOK, Task
    <3> QED BY <3>2 DEF EndsTask, LeaverPhases
  <2>6. CASE Close(w)
    <3> DEFINE t == [Blank EXCEPT !.phase = "remove", !.payment = task[w].payment]
    <3>1. t.phase = "remove" /\ task' = [task EXCEPT ![w] = t] BY <2>6, Apart DEF Close, Task
    <3> HIDE DEF t
    <3> QED BY <3>1 DEF Fit, TypeOK, EndsTask, LeaverPhases
  <2> QED BY <2>1, <2>2, <2>3, <2>4, <2>5, <2>6
<1> QED BY <1>1, <1>2, <1>3, <1>4, AccountsAside

\* A run that only warns, and time, end no subscription.
LEMMA WarnAccounts ==
    ASSUME Fit, Fit', AccountInv,
           RunMaintenance \/ SendWarning \/ RecordSubscriptionWarning \/ Tick
    PROVE  AccountInv'
<1> USE DEF database, queue, channel, excuses, bounds
<1>1. UNCHANGED <<user, member, events, raced, doubted, slipped, task>>
  BY DEF RunMaintenance, SendWarning, RecordSubscriptionWarning, Tick
<1>2. \A u \in Users : sub'[u].status = sub[u].status /\ sub'[u].end = sub[u].end
  <2>1. ASSUME NEW v \in Users, sub' = [sub EXCEPT ![v].warned = now], NEW u \in Users
        PROVE  sub'[u].status = sub[u].status /\ sub'[u].end = sub[u].end
    BY <2>1 DEF Fit, TypeOK, Row
  <2>2. sub' = sub \/ \E v \in Users : sub' = [sub EXCEPT ![v].warned = now]
    BY Runs DEF RunMaintenance, SendWarning, RecordSubscriptionWarning, Tick, JobAt
  <2> QED BY <2>1, <2>2
<1>3. job' = job \/ (~EndsJob /\ ~EndsJob')
  <2>1. CASE RunMaintenance
    <3>1. job = NULL BY <2>1 DEF RunMaintenance
    <3>2. job'.phase \in {"find", "send"} BY <2>1 DEF RunMaintenance, Run
    <3> QED BY <3>1, <3>2 DEF EndsJob, Ending
  <2>2. CASE SendWarning
    <3>1. job # NULL /\ job.phase = "send" BY <2>2 DEF SendWarning, JobAt
    <3>2. job'.phase = "record" BY <2>2, <3>1, Runs DEF SendWarning, Job
    <3> QED BY <3>1, <3>2 DEF EndsJob, Ending
  <2>3. CASE RecordSubscriptionWarning
    <3>1. job # NULL /\ job.phase = "record" BY <2>3 DEF RecordSubscriptionWarning, JobAt
    <3>2. PICK u \in job.list : job' = Recorded(u) BY <2>3 DEF RecordSubscriptionWarning
    <3>3. job'.phase \in {"find", "send"}
      <4>1. CASE job.todo = {u} BY <3>2, <4>1 DEF Recorded, Run
      <4>2. CASE job.todo # {u} BY <3>1, <3>2, <4>2, Runs DEF Recorded, Job
      <4> QED BY <4>1, <4>2
    <3> QED BY <3>1, <3>3 DEF EndsJob, Ending
  <2>4. CASE Tick BY <2>4 DEF Tick
  <2> QED BY <2>1, <2>2, <2>3, <2>4
<1> QED BY <1>1, <1>2, <1>3, AccountsAside

\* Requests to join end nothing; who is admitted enters.
LEMMA JoinAccounts ==
    ASSUME Fit, Fit', AccountInv,
           \/ \E u \in Users : JoinByLink(u)
           \/ \E w \in Workers : \/ \E u \in Users : RequestJoin(w, u)
                                 \/ CheckRequest(w) \/ ApproveChatJoinRequest(w)
    PROVE  AccountInv'
<1> USE DEF database, queue, channel, excuses, bounds
<1>1. ASSUME NEW u \in Users, JoinByLink(u) PROVE AccountInv'
  <2>1. (sub[u].status # "active") \in BOOLEAN OBVIOUS
  <2>2. /\ Enters(u, sub[u].status # "active")
        /\ UNCHANGED <<sub, user, events, raced, doubted, job, task>>
    BY <1>1 DEF JoinByLink
  <2> QED BY <2>1, <2>2, EnterAccounts
<1>2. ASSUME NEW w \in Workers, NEW u \in Users, RequestJoin(w, u) PROVE AccountInv'
  <2> DEFINE t == [Blank EXCEPT !.phase = "check", !.user = u]
  <2>1. t.phase = "check" /\ task' = [task EXCEPT ![w] = t] /\ task[w] = NULL
    BY <1>2, Apart DEF RequestJoin, Idle, Task
  <2> HIDE DEF t
  <2>2. \A v \in Workers : task'[v] = task[v] \/ (~EndsTask(v) /\ ~EndsTask(v)')
    BY <2>1 DEF Fit, TypeOK, EndsTask, LeaverPhases
  <2>3. UNCHANGED <<sub, user, member, events, raced, doubted, slipped, job>>
    BY <1>2 DEF RequestJoin
  <2> QED BY <2>2, <2>3, AccountsAside
<1>3. ASSUME NEW w \in Workers, CheckRequest(w) PROVE AccountInv'
  <2>0. task[w] # NULL /\ task[w].phase = "check" /\ task[w] \in Task
    BY <1>3, Has DEF CheckRequest, At
  <2>1. \A v \in Workers : task'[v] = task[v] \/ (~EndsTask(v) /\ ~EndsTask(v)')
    BY <1>3, <2>0 DEF CheckRequest, Done, Fit, TypeOK, Task, EndsTask, LeaverPhases
  <2>2. UNCHANGED <<sub, user, member, events, raced, doubted, slipped, job>>
    BY <1>3 DEF CheckRequest
  <2> QED BY <2>1, <2>2, AccountsAside
<1>4. ASSUME NEW w \in Workers, ApproveChatJoinRequest(w) PROVE AccountInv'
  <2>0. task[w] # NULL /\ task[w].phase = "admit" /\ task[w].phase \notin PaymentPhases
        /\ task[w].end > 0
    BY <1>4, Has DEF ApproveChatJoinRequest, At, TaskFits, PaymentPhases
  <2>1. PICK u \in Users : u = task[w].user BY <2>0, HasUser
  <2>2. \A v \in Workers : task'[v] = task[v] \/ (~EndsTask(v) /\ ~EndsTask(v)')
    BY <1>4, <2>0 DEF ApproveChatJoinRequest, Done, Fit, TypeOK, EndsTask, LeaverPhases
  <2>3. UNCHANGED <<sub, user, events, raced, doubted, job>>
    BY <1>4 DEF ApproveChatJoinRequest
  <2>4. CASE UNCHANGED <<member, slipped>> BY <2>2, <2>3, <2>4, AccountsAside
  <2>5. CASE Enters(u, sub[u].status # "active")
    <3>1. (sub[u].status # "active") \in BOOLEAN OBVIOUS
    <3> QED BY <2>2, <2>3, <2>5, <3>1, EnterAccounts
  <2>6. (task[w].end > 0 /\ sub[u].status # "active") <=> sub[u].status # "active" BY <2>0
  <2>7. Enters(u, task[w].end > 0 /\ sub[u].status # "active") \/ UNCHANGED <<member, slipped>>
    BY <1>4, <2>1 DEF ApproveChatJoinRequest
  <2> QED BY <2>4, <2>5, <2>6, <2>7 DEF Enters
<1> QED BY <1>1, <1>2, <1>3, <1>4

\* What steps of [Next]_vars keep of the accounts.
LEMMA AccountStep ==
    ASSUME Fit, Fit', NoneBefore, AccountInv, [Next]_vars PROVE AccountInv'
<1>1. CASE UNCHANGED vars
  <2>1. /\ UNCHANGED <<user, member, events, raced, doubted, slipped, sub, job, task>>
    BY <1>1 DEF vars, database, channel, excuses
  <2> QED BY <2>1, AccountsAside
<1>2. CASE JobStep
  BY <1>2, WarnAccounts, FindAccounts, MarkAccounts, UserAccounts, KickAccounts DEF JobStep
<1>3. CASE Tick BY <1>3, WarnAccounts
<1>4. CASE Restart BY <1>4, RestartAccounts
<1>5. CASE \E u \in Users : Leave(u) \/ JoinByLink(u) BY <1>5, LeaveAccounts, JoinAccounts
<1>6. ASSUME NEW w \in Workers, Worker(w) PROVE AccountInv'
  <2>1. CASE Activate(w) BY <2>1, ActivateAccounts
  <2>2. CASE \/ \E p \in Payments : Submit(w, p) \/ Press(w, p)
             \/ PersistEntry(w) \/ Load(w) \/ NoDriversChannel(w)
             \/ ActivateFails(w) \/ Close(w) \/ RemovePersistedEntry(w)
    BY <2>2, QueueAccounts
  <2>3. CASE \/ \E u \in Users : RequestJoin(w, u)
             \/ CheckRequest(w) \/ ApproveChatJoinRequest(w)
    BY <2>3, JoinAccounts
  <2>4. CASE MemberUpdate(w) \/ LookForSubscription(w) \/ ExpireLeaver(w) \/ DemoteLeaver(w)
    BY <2>4, NewsAccounts, LookAccounts, ExpireAccounts, DemoteAccounts
  <2> QED BY <1>6, <2>1, <2>2, <2>3, <2>4 DEF Worker
<1> QED BY <1>1, <1>2, <1>3, <1>4, <1>5, <1>6 DEF Next

-----------------------------------------------------------------------------
(* Warnings *)

\* The part of a run that warns.
Warns == JobAt("send") \/ JobAt("record")

\* What a warning and a row are made of.
LEMMA Rows ==
    ASSUME Fit
    PROVE  /\ now \in Nat
           /\ \A u \in Users : sub[u].end \in Nat /\ sub[u].warned \in Nat \cup {NULL}
           /\ \A x \in warnings : x.user \in Users /\ x.end \in Nat
BY Apart DEF Fit, TypeOK, Row, Ends, Time, Warning

\* A row is left alone, or expired with its end and without its warning.
LEMMA MarkedRows ==
    ASSUME Fit, NEW us \in SUBSET Users, Marked(us)
    PROVE  \A u \in Users : \/ sub'[u] = sub[u]
                            \/ sub'[u].status = "expired" /\ sub'[u].warned = NULL
                               /\ sub'[u].end = sub[u].end
<1>1. \A r \in Row : LET e == [r EXCEPT !.status = "expired", !.warned = NULL] IN
                       e.status = "expired" /\ e.warned = NULL /\ e.end = r.end
  BY DEF Row
<1>2. \A u \in Users : /\ sub[u] \in Row
                       /\ sub'[u] = IF u \in us /\ sub[u].status # "expired"
                                    THEN [sub[u] EXCEPT !.status = "expired", !.warned = NULL]
                                    ELSE sub[u]
  BY DEF Marked, Fit, TypeOK
<1> QED BY <1>1, <1>2

\* A step that warns nobody, and at most ends or prolongs subscriptions.
LEMMA WarningsAside ==
    ASSUME Fit, Fit', WarningInv, UNCHANGED <<warnings, unrecorded>>, now' >= now,
           \A u \in Users :
               \/ sub'[u] = sub[u]
               \/ sub'[u].status = "expired" /\ sub'[u].warned = NULL /\ sub'[u].end = sub[u].end
               \/ sub'[u].status = "active" /\ sub'[u].warned = NULL /\ sub'[u].end > sub[u].end,
           job' = job \/ (~Warns /\ ~Warns')
    PROVE  WarningInv'
<1>1. /\ now \in Nat /\ now' \in Nat
      /\ \A u \in Users : /\ sub[u].end \in Nat /\ sub[u].warned \in Nat \cup {NULL}
                          /\ sub'[u].end \in Nat
      /\ \A x \in warnings : x.user \in Users /\ x.end \in Nat
  BY Rows, Apart DEF Fit, TypeOK, Row, Ends, Time
<1>2. RowsFit'
  <2> SUFFICES ASSUME NEW u \in Users
               PROVE  /\ sub'[u].warned # NULL => sub'[u].warned <= now'
                      /\ sub'[u].status = "none" => sub'[u].end = 0
    BY DEF RowsFit
  <2>1. CASE sub'[u] = sub[u]
    <3>1. /\ sub[u].warned # NULL => sub[u].warned <= now /\ sub[u].warned \in Nat
          /\ sub[u].status = "none" => sub[u].end = 0
      BY <1>1 DEF WarningInv, RowsFit
    <3> QED BY <1>1, <2>1, <3>1
  <2>2. CASE sub'[u].warned = NULL /\ sub'[u].status # "none" BY <2>2
  <2> QED BY <2>1, <2>2
<1>3. JobAt("record")' => JobAt("record") /\ job' = job BY DEF Warns, JobAt
<1>4. WarningsKnown'
  <2> SUFFICES ASSUME NEW x \in warnings, <<x.user, x.end>> \notin unrecorded
               PROVE  \/ sub'[x.user].end > x.end
                      \/ /\ sub'[x.user].end = x.end
                         /\ \/ sub'[x.user].status # "active"
                            \/ sub'[x.user].warned # NULL /\ sub'[x.user].warned + Warn >= x.end
                            \/ JobAt("record")' /\ x.user \in job'.list /\ job'.end[x.user] = x.end
    BY DEF WarningsKnown
  <2>0. JobAt("record") => JobAt("record")' /\ job' = job BY DEF Warns, JobAt
  <2>1. PICK u \in Users : u = x.user BY <1>1
  <2>2. \/ sub[u].end > x.end
        \/ /\ sub[u].end = x.end
           /\ \/ sub[u].status # "active"
              \/ sub[u].warned # NULL /\ sub[u].warned + Warn >= x.end
              \/ JobAt("record") /\ u \in job.list /\ job.end[u] = x.end
    BY <2>1 DEF WarningInv, WarningsKnown
  <2>3. x.end \in Nat /\ sub[u].end \in Nat /\ sub'[u].end \in Nat BY <1>1
  <2>4. CASE sub'[u] = sub[u] BY <2>0, <2>1, <2>2, <2>4
  <2>5. CASE sub'[u].status = "expired" /\ sub'[u].end = sub[u].end
    BY <2>1, <2>2, <2>3, <2>5
  <2>6. CASE sub'[u].end > sub[u].end BY <2>1, <2>2, <2>3, <2>6
  <2> QED BY <2>4, <2>5, <2>6
<1>5. ToWarn'
  <2>1. CASE ~Warns' BY <2>1 DEF ToWarn, Warns
  <2>2. CASE Warns'
    <3>1. job' = job /\ Warns BY <2>2 DEF Warns, JobAt
    <3> SUFFICES ASSUME NEW u \in job.todo
                 PROVE  /\ job.end[u] <= sub'[u].end /\ job.end[u] <= job.at + Warn
                        /\ u \notin job.list /\ Told(u, job.end[u]) =>
                             <<u, job.end[u]>> \in unrecorded
      BY <3>1 DEF ToWarn, Told
    <3>2. u \in Users /\ job.end[u] \in Nat BY <3>1, Runs DEF Warns, JobAt
    <3>3. /\ job.end[u] <= sub[u].end /\ job.end[u] <= job.at + Warn
          /\ u \notin job.list /\ Told(u, job.end[u]) => <<u, job.end[u]>> \in unrecorded
      BY <3>1 DEF WarningInv, ToWarn, Warns
    <3>4. sub'[u].end >= sub[u].end BY <1>1, <3>2
    <3>5. sub[u].end \in Nat /\ sub'[u].end \in Nat BY <1>1, <3>2
    <3>6. job.end[u] <= sub'[u].end BY <3>2, <3>3, <3>4, <3>5
    <3> QED BY <3>3, <3>6
  <2> QED BY <2>1, <2>2
<1>6. WarnedOnce' BY DEF WarningInv, WarnedOnce
<1> QED BY <1>2, <1>4, <1>5, <1>6 DEF WarningInv

\* A run warns whom it has not warned, unless that is known.
LEMMA RunWarns ==
    ASSUME Fit, Fit', WarningInv, RunMaintenance PROVE WarningInv'
<1> USE DEF database, queue, channel, excuses, bounds
<1>1. job = NULL /\ UNCHANGED <<warnings, unrecorded, sub, now>> BY DEF RunMaintenance
<1>2. PICK found \in SUBSET Users : found = ExpiringSoon(now) BY DEF ExpiringSoon
<1>3. \/ job'.phase = "find"
      \/ job' = [phase |-> "send", at |-> now, todo |-> found, list |-> {},
                 end |-> EndsOf(found \cup {})]
  BY <1>2 DEF RunMaintenance, Run
<1>4. ~JobAt("record")' /\ ~JobAt("record") BY <1>1, <1>3 DEF JobAt
<1>5. RowsFit' /\ WarnedOnce' BY <1>1 DEF WarningInv, RowsFit, WarnedOnce
<1>6. WarningsKnown' BY <1>1, <1>4 DEF WarningInv, WarningsKnown
<1>7. ToWarn'
  <2>1. CASE job'.phase = "find" BY <2>1 DEF ToWarn, JobAt
  <2>2. CASE job' = [phase |-> "send", at |-> now, todo |-> found, list |-> {},
                     end |-> EndsOf(found \cup {})]
    <3>1. job'.todo = found /\ job'.at = now /\ job'.list = {}
          /\ \A u \in found : job'.end[u] = sub[u].end
      BY <2>2 DEF EndsOf
    <3>2. ASSUME NEW u \in found
          PROVE  /\ sub[u].end <= sub[u].end /\ sub[u].end <= now + Warn
                 /\ Told(u, sub[u].end) => <<u, sub[u].end>> \in unrecorded
      <4>1. /\ u \in Users /\ sub[u].status = "active" /\ sub[u].end <= now + Warn
            /\ sub[u].warned # NULL => sub[u].warned + Warn < sub[u].end
        BY <1>2 DEF ExpiringSoon
      <4>2. sub[u].end \in Nat /\ sub[u].warned \in Nat \cup {NULL} BY <4>1, Rows
      <4>3. ASSUME NEW x \in warnings, x.user = u, x.end = sub[u].end,
                   <<u, sub[u].end>> \notin unrecorded
            PROVE  FALSE
        <5>1. sub[u].warned # NULL /\ sub[u].warned + Warn >= sub[u].end
          BY <1>4, <4>1, <4>2, <4>3 DEF WarningInv, WarningsKnown
        <5>2. sub[u].warned \in Nat /\ sub[u].warned + Warn < sub[u].end BY <4>1, <4>2, <5>1
        <5> QED BY <4>2, <5>1, <5>2, Apart
      <4> QED BY <4>1, <4>2, <4>3 DEF Told
    <3> QED BY <1>1, <3>1, <3>2 DEF ToWarn, Told
  <2> QED BY <1>3, <2>1, <2>2
<1> QED BY <1>5, <1>6, <1>7 DEF WarningInv

\* A warning is of an end that nobody was warned of, and will be recorded.
LEMMA SendWarns ==
    ASSUME Fit, Fit', WarningInv, SendWarning PROVE WarningInv'
<1> USE DEF database, queue, channel, excuses, bounds
<1>0. job # NULL /\ job.phase = "send" /\ job.list = {}
  BY Runs DEF SendWarning, JobAt, RunFits
<1>1. PICK u \in job.todo :
        /\ job' = [job EXCEPT !.phase = "record", !.list = {u}]
        /\ \/ warnings' = warnings \cup {Warned(u, job.end[u])}
           \/ UNCHANGED warnings
  BY DEF SendWarning
<1>2. UNCHANGED <<unrecorded, sub, now>> BY DEF SendWarning
<1>3. u \in Users BY <1>0, <1>1, Runs
<1>4. PICK end \in Nat : end = job.end[u] BY <1>0, <1>3, Runs
<1>5. /\ job'.phase = "record" /\ job'.list = {u} /\ job'.todo = job.todo /\ job'.end = job.end
      /\ job'.at = job.at /\ job' \in Job
  BY <1>0, <1>1, <1>3, Runs DEF Job
<1>6. Warned(u, end).user = u /\ Warned(u, end).end = end BY DEF Warned
<1>7. \A x \in warnings' : x \in warnings \/ (x.user = u /\ x.end = end /\ x = Warned(u, end))
  BY <1>1, <1>4, <1>6
<1>8. /\ end <= sub[u].end
      /\ Told(u, end) => <<u, end>> \in unrecorded
  BY <1>0, <1>1, <1>4 DEF WarningInv, ToWarn, JobAt
<1>9. JobAt("record")' /\ ~JobAt("record") BY <1>0, <1>5, Apart DEF JobAt
<1>10. RowsFit' BY <1>2 DEF WarningInv, RowsFit
<1>11. WarningsKnown'
  <2> SUFFICES ASSUME NEW x \in warnings', <<x.user, x.end>> \notin unrecorded
               PROVE  \/ sub[x.user].end > x.end
                      \/ /\ sub[x.user].end = x.end
                         /\ \/ sub[x.user].status # "active"
                            \/ sub[x.user].warned # NULL /\ sub[x.user].warned + Warn >= x.end
                            \/ JobAt("record")' /\ x.user \in job'.list /\ job'.end[x.user] = x.end
    BY <1>2 DEF WarningsKnown
  <2>1. CASE x \in warnings BY <1>9, <2>1 DEF WarningInv, WarningsKnown
  <2>2. CASE x.user = u /\ x.end = end
    <3>1. sub[u].end \in Nat BY <1>3, Rows
    <3>2. sub[u].end > end \/ sub[u].end = end BY <1>4, <1>8, <3>1
    <3> QED BY <1>4, <1>5, <1>9, <2>2, <3>2
  <2> QED BY <1>7, <2>1, <2>2
<1>12. ToWarn'
  <2> SUFFICES ASSUME NEW v \in job.todo
               PROVE  /\ job.end[v] <= sub[v].end /\ job.end[v] <= job.at + Warn
                      /\ v # u /\ (\E x \in warnings' : x.user = v /\ x.end = job.end[v]) =>
                           <<v, job.end[v]>> \in unrecorded
    BY <1>2, <1>5 DEF ToWarn, Told
  <2>1. /\ job.end[v] <= sub[v].end /\ job.end[v] <= job.at + Warn
        /\ Told(v, job.end[v]) => <<v, job.end[v]>> \in unrecorded
    BY <1>0 DEF WarningInv, ToWarn, JobAt
  <2> QED BY <1>7, <2>1 DEF Told
<1>13. WarnedOnce'
  <2> SUFFICES ASSUME NEW x \in warnings', NEW y \in warnings', x.user = y.user, x.end = y.end,
                      x # y
               PROVE  <<x.user, x.end>> \in unrecorded
    BY <1>2 DEF WarnedOnce
  <2>1. CASE x \in warnings /\ y \in warnings BY <2>1 DEF WarningInv, WarnedOnce
  <2>2. CASE x \in warnings /\ y \notin warnings BY <1>7, <1>8, <2>2 DEF Told
  <2>3. CASE x \notin warnings /\ y \in warnings BY <1>7, <1>8, <2>3 DEF Told
  <2> QED BY <1>7, <2>1, <2>2, <2>3
<1> QED BY <1>10, <1>11, <1>12, <1>13 DEF WarningInv

\* The warning is recorded when it was sent or later, or is known not to be.
LEMMA RecordWarns ==
    ASSUME Fit, Fit', WarningInv, RecordSubscriptionWarning PROVE WarningInv'
<1> USE DEF database, queue, channel, excuses, bounds
<1>0. job # NULL /\ job.phase = "record" BY DEF RecordSubscriptionWarning, JobAt
<1>1. PICK u \in job.list :
        /\ \/ sub' = [sub EXCEPT ![u].warned = now] /\ UNCHANGED unrecorded
           \/ unrecorded' = unrecorded \cup {<<u, job.end[u]>>} /\ UNCHANGED sub
        /\ job' = Recorded(u)
  BY DEF RecordSubscriptionWarning
<1>2. UNCHANGED <<warnings, now>> BY DEF RecordSubscriptionWarning
<1>3. u \in Users /\ job.list = {u} /\ u \in job.todo /\ job.at <= now
  BY <1>0, <1>1, Runs DEF RunFits
<1>4. PICK end \in Nat : end = job.end[u] BY <1>0, <1>3, Runs
<1>5. \/ job'.phase = "find"
      \/ /\ job'.phase = "send" /\ job'.list = {} /\ job'.todo = job.todo \ {u}
         /\ job'.end = job.end /\ job'.at = job.at
  <2>1. CASE job.todo = {u} BY <1>1, <2>1 DEF Recorded, Run
  <2>2. CASE job.todo # {u} BY <1>0, <1>1, <2>2, Runs DEF Recorded, Job
  <2> QED BY <2>1, <2>2
<1>6. ~JobAt("record")' BY <1>5 DEF JobAt
<1>7. job.at \in Nat /\ now \in Nat /\ Warn \in Nat BY <1>0, Runs, Rows, Apart DEF Time
<1>8. end <= now + Warn
  <2>1. end <= job.at + Warn BY <1>0, <1>3, <1>4 DEF WarningInv, ToWarn, JobAt
  <2> QED BY <1>3, <1>4, <1>7, <2>1
<1>9. /\ \A v \in Users : /\ sub'[v].end = sub[v].end /\ sub'[v].status = sub[v].status
                          /\ v # u => sub'[v] = sub[v]
      /\ sub' = sub \/ (sub'[u].warned = now /\ unrecorded' = unrecorded)
  <2>1. CASE sub' = [sub EXCEPT ![u].warned = now] BY <1>1, <1>3, <2>1 DEF Fit, TypeOK, Row
  <2> QED BY <1>1, <2>1
<1>10. RowsFit'
  <2> SUFFICES ASSUME NEW v \in Users
               PROVE  /\ sub'[v].warned # NULL => sub'[v].warned <= now
                      /\ sub'[v].status = "none" => sub'[v].end = 0
    BY <1>2 DEF RowsFit
  <2>1. CASE sub'[v] = sub[v] BY <2>1 DEF WarningInv, RowsFit
  <2>2. CASE v = u /\ sub'[u].warned = now BY <1>7, <1>9, <2>2 DEF WarningInv, RowsFit
  <2> QED BY <1>9, <2>1, <2>2
<1>11. WarningsKnown'
  <2> SUFFICES ASSUME NEW x \in warnings, <<x.user, x.end>> \notin unrecorded'
               PROVE  \/ sub'[x.user].end > x.end
                      \/ /\ sub'[x.user].end = x.end
                         /\ \/ sub'[x.user].status # "active"
                            \/ sub'[x.user].warned # NULL /\ sub'[x.user].warned + Warn >= x.end
    BY <1>2 DEF WarningsKnown
  <2>1. x.user \in Users /\ x.end \in Nat BY Rows
  <2>2. \/ sub[x.user].end > x.end
        \/ /\ sub[x.user].end = x.end
           /\ \/ sub[x.user].status # "active"
              \/ sub[x.user].warned # NULL /\ sub[x.user].warned + Warn >= x.end
              \/ x.user = u /\ end = x.end
    BY <1>1, <1>3, <1>4 DEF WarningInv, WarningsKnown
  <2>3. CASE x.user # u BY <1>9, <2>1, <2>2, <2>3
  <2>4. CASE x.user = u /\ sub' = sub
    <3>1. CASE unrecorded' = unrecorded \cup {<<u, job.end[u]>>}
      BY <1>4, <2>2, <2>4, <3>1
    <3>2. CASE sub' = [sub EXCEPT ![u].warned = now]
      <4>1. sub[u].warned = now BY <1>3, <2>4, <3>2 DEF Fit, TypeOK, Row
      <4> QED BY <1>7, <1>8, <2>2, <2>4, <4>1, Apart
    <3> QED BY <1>1, <3>1, <3>2
  <2>5. CASE x.user = u /\ sub'[u].warned = now
    <3>1. now # NULL BY <1>7, Apart
    <3>2. ASSUME sub[u].warned # NULL, sub[u].warned + Warn >= x.end PROVE now + Warn >= x.end
      <4>1. sub[u].warned \in Nat /\ sub[u].warned <= now
        BY <1>3, <3>2, Rows DEF WarningInv, RowsFit
      <4> QED BY <1>7, <2>1, <3>2, <4>1
    <3> QED BY <1>3, <1>8, <1>9, <2>2, <2>5, <3>1, <3>2
  <2> QED BY <1>9, <2>3, <2>4, <2>5
<1>12. ToWarn'
  <2>1. CASE job'.phase = "find" BY <2>1 DEF ToWarn, JobAt
  <2>2. CASE /\ job'.phase = "send" /\ job'.list = {} /\ job'.todo = job.todo \ {u}
             /\ job'.end = job.end /\ job'.at = job.at
    <3> SUFFICES ASSUME NEW v \in job.todo \ {u}
                 PROVE  /\ job.end[v] <= sub'[v].end /\ job.end[v] <= job.at + Warn
                        /\ Told(v, job.end[v]) => <<v, job.end[v]>> \in unrecorded'
      BY <1>2, <2>2 DEF ToWarn, Told
    <3>1. /\ job.end[v] <= sub[v].end /\ job.end[v] <= job.at + Warn
          /\ v \notin job.list /\ Told(v, job.end[v]) => <<v, job.end[v]>> \in unrecorded
      BY <1>0 DEF WarningInv, ToWarn, JobAt
    <3>2. v \in Users /\ unrecorded \subseteq unrecorded' BY <1>0, <1>1, Runs
    <3> QED BY <1>3, <1>9, <3>1, <3>2
  <2> QED BY <1>5, <2>1, <2>2
<1>13. WarnedOnce' BY <1>1, <1>2 DEF WarningInv, WarnedOnce
<1> QED BY <1>10, <1>11, <1>12, <1>13 DEF WarningInv

\* A warning cut off by the end of the process is known not to be recorded.
LEMMA RestartWarns ==
    ASSUME Fit, Fit', WarningInv, Restart PROVE WarningInv'
<1> USE DEF database, queue, channel, excuses, bounds
<1>1. /\ job' = NULL /\ UNCHANGED <<warnings, sub, now>>
      /\ unrecorded' = IF JobAt("record") THEN unrecorded \cup {<<u, job.end[u]>> : u \in job.list}
                       ELSE unrecorded
  BY DEF Restart
<1>2. RowsFit' /\ ToWarn' BY <1>1 DEF WarningInv, RowsFit, ToWarn, JobAt
<1>3. WarnedOnce' BY <1>1 DEF WarningInv, WarnedOnce
<1>4. WarningsKnown'
  <2> SUFFICES ASSUME NEW x \in warnings, <<x.user, x.end>> \notin unrecorded'
               PROVE  \/ sub[x.user].end > x.end
                      \/ /\ sub[x.user].end = x.end
                         /\ \/ sub[x.user].status # "active"
                            \/ sub[x.user].warned # NULL /\ sub[x.user].warned + Warn >= x.end
    BY <1>1 DEF WarningsKnown
  <2>1. ~(JobAt("record") /\ x.user \in job.list /\ job.end[x.user] = x.end) BY <1>1
  <2>2. <<x.user, x.end>> \notin unrecorded BY <1>1
  <2> QED BY <2>1, <2>2 DEF WarningInv, WarningsKnown
<1> QED BY <1>2, <1>3, <1>4 DEF WarningInv

\* What steps of [Next]_vars keep of the warnings.
LEMMA WarningStep ==
    ASSUME Fit, Fit', NoneBefore, WarningInv, [Next]_vars PROVE WarningInv'
<1> USE DEF database, queue, channel, excuses, bounds
<1>0. now \in Nat /\ now <= now BY Rows
<1>1. CASE RunMaintenance BY <1>1, RunWarns
<1>2. CASE SendWarning BY <1>2, SendWarns
<1>3. CASE RecordSubscriptionWarning BY <1>3, RecordWarns
<1>4. CASE Restart BY <1>4, RestartWarns
<1>5. CASE FindSubscriptionsToExpire \/ MarkSubscriptionsExpired \/ UpdateUser
           \/ RemoveUserFromChannel
  <2>1. job # NULL /\ job.phase \in {"find", "mark", "users", "kick"}
    BY <1>5 DEF FindSubscriptionsToExpire, MarkSubscriptionsExpired, UpdateUser,
                RemoveUserFromChannel, JobAt
  <2>2. job' = NULL \/ job'.phase \in {"mark", "users", "kick"}
    <3>1. CASE FindSubscriptionsToExpire BY <3>1 DEF FindSubscriptionsToExpire, Run
    <3>2. CASE MarkSubscriptionsExpired
      BY <2>1, <3>2, Runs DEF MarkSubscriptionsExpired, Job
    <3>3. CASE UpdateUser
      <4>1. PICK u \in job.todo :
              job' = IF job.todo = {u} THEN [job EXCEPT !.phase = "kick", !.todo = job.list]
                     ELSE [job EXCEPT !.todo = @ \ {u}]
        BY <3>3 DEF UpdateUser
      <4>2. job.phase = "users" BY <3>3 DEF UpdateUser, JobAt
      <4> QED BY <2>1, <4>1, <4>2, Runs DEF Job
    <3>4. CASE RemoveUserFromChannel
      BY <2>1, <3>4, Runs DEF RemoveUserFromChannel, JobAt, Job
    <3> QED BY <1>5, <3>1, <3>2, <3>3, <3>4
  <2>3. ~Warns /\ ~Warns' BY <2>1, <2>2 DEF Warns, JobAt
  <2>4. UNCHANGED <<warnings, unrecorded, now>>
    BY <1>5 DEF FindSubscriptionsToExpire, MarkSubscriptionsExpired, UpdateUser,
                RemoveUserFromChannel
  <2>5. sub' = sub \/ Marked(job.list)
    BY <1>5 DEF FindSubscriptionsToExpire, MarkSubscriptionsExpired, UpdateUser,
                RemoveUserFromChannel
  <2>6. job.list \in SUBSET Users BY <2>1, Runs
  <2>7. \A u \in Users : \/ sub'[u] = sub[u]
                         \/ sub'[u].status = "expired" /\ sub'[u].warned = NULL
                            /\ sub'[u].end = sub[u].end
    BY <2>5, <2>6, MarkedRows
  <2> QED BY <1>0, <2>3, <2>4, <2>7, WarningsAside
<1>6. CASE Tick
  <2>1. UNCHANGED <<warnings, unrecorded, sub, job>> /\ now' >= now
    BY <1>0, <1>6 DEF Tick
  <2> QED BY <2>1, WarningsAside
<1>7. ASSUME NEW w \in Workers, Activate(w) PROVE WarningInv'
  <2>1. At(w, "activate") /\ "activate" \in PaymentPhases BY <1>7 DEF Activate, PaymentPhases
  <2>2. PICK p \in Payments : p = task[w].payment /\ submitted[p] # NULL BY <2>1, Handles
  <2>3. PICK start \in Nat : start = PeriodStart(Payer[p], submitted[p]) BY <2>2, Begins
  <2>4. PICK u \in Users : u = Payer[p] BY Apart
  <2>5. Activated(p, start) /\ UNCHANGED <<warnings, unrecorded, now, job>>
    BY <1>7, <2>2, <2>3 DEF Activate
  <2>6. /\ \A v \in Users : v # u => sub'[v] = sub[v]
        /\ sub'[u].status = "active" /\ sub'[u].end = start + Days /\ sub'[u].warned = NULL
    BY <2>2, <2>4, <2>5, Activates
  <2>7. start >= sub[u].end
    <3>1. sub[u].status # "none" => start >= sub[u].end BY <2>2, <2>3, <2>4, Begins
    <3>2. sub[u].status = "none" => sub[u].end = 0 BY DEF WarningInv, RowsFit
    <3> QED BY <3>1, <3>2
  <2>8. sub'[u].end > sub[u].end
    <3>1. sub[u].end \in Nat BY Rows
    <3> QED BY <2>6, <2>7, <3>1, Apart
  <2> QED BY <1>0, <2>5, <2>6, <2>8, WarningsAside
<1>8. ASSUME NEW w \in Workers, ExpireLeaver(w) PROVE WarningInv'
  <2>1. task[w] # NULL /\ task[w].phase \notin PaymentPhases
    BY <1>8 DEF ExpireLeaver, At, PaymentPhases
  <2>2. PICK v \in Users : v = task[w].user BY <2>1, HasUser
  <2>3. UNCHANGED <<warnings, unrecorded, now, job>> /\ (sub' = sub \/ Marked({v}))
    BY <1>8, <2>2 DEF ExpireLeaver
  <2>4. \A u \in Users : \/ sub'[u] = sub[u]
                         \/ sub'[u].status = "expired" /\ sub'[u].warned = NULL
                            /\ sub'[u].end = sub[u].end
    <3>1. {v} \in SUBSET Users OBVIOUS
    <3> QED BY <2>3, <3>1, MarkedRows
  <2> QED BY <1>0, <2>3, <2>4, WarningsAside
<1>9. ASSUME UNCHANGED <<warnings, unrecorded, sub, job, now>> PROVE WarningInv'
  BY <1>0, <1>9, WarningsAside
<1>10. CASE UNCHANGED vars BY <1>9, <1>10 DEF vars
<1>11. CASE \E u \in Users : Leave(u) \/ JoinByLink(u)
  BY <1>9, <1>11 DEF Leave, JoinByLink
<1>12. ASSUME NEW w \in Workers, Worker(w) PROVE WarningInv'
  <2>1. Activate(w) \/ ExpireLeaver(w) \/ UNCHANGED <<warnings, unrecorded, sub, job, now>>
    BY <1>12 DEF Worker, Submit, Press, PersistEntry, Load, NoDriversChannel, ActivateFails,
       NotActivated, Close, RemovePersistedEntry, RequestJoin, CheckRequest,
       ApproveChatJoinRequest, MemberUpdate, LookForSubscription, DemoteLeaver
  <2> QED BY <1>7, <1>8, <1>9, <2>1
<1> QED BY <1>1, <1>2, <1>3, <1>4, <1>5, <1>6, <1>10, <1>11, <1>12 DEF Next, JobStep

-----------------------------------------------------------------------------
(* The behaviours *)

\* Initially some users have paid, and nobody works.
LEMMA Starts ==
    ASSUME Init
    PROVE  \E us \in SUBSET Users, end \in Nat \ {0} :
             /\ end <= Days
             /\ sub \in [Users -> Row] /\ user \in [Users -> User]
             /\ \A u \in us :
                  /\ sub[u] = [status |-> "active", end |-> end, warned |-> NULL]
                  /\ user[u] = [status |-> "active", until |-> end]
             /\ \A u \in Users \ us : sub[u].status = "none" /\ sub[u].end = 0
             /\ \A u \in Users : sub[u].warned = NULL
             /\ member = us
             /\ periods = {[user |-> u, payment |-> NULL, start |-> 0, end |-> end] : u \in us}
<1>1. PICK us \in SUBSET Users, end \in FirstEnds :
        /\ sub = [u \in Users |-> IF u \in us
                     THEN [status |-> "active", end |-> end, warned |-> NULL]
                     ELSE [status |-> "none", end |-> 0, warned |-> NULL]]
        /\ user = [u \in Users |-> IF u \in us
                     THEN [status |-> "active", until |-> end]
                     ELSE [status |-> "none", until |-> 0]]
        /\ member = us
        /\ periods = {[user |-> u, payment |-> NULL, start |-> 0, end |-> end] : u \in us}
  BY DEF Init
<1>2. end \in 1 .. Days /\ Days \in Nat BY SubscriptionsAssumption
<1>3. end \in Nat \ {0} /\ end <= Days BY <1>2
<1>4. /\ [status |-> "active", end |-> end, warned |-> NULL] \in Row
      /\ [status |-> "none", end |-> 0, warned |-> NULL] \in Row
  BY <1>3 DEF Row, Ends
<1>5. /\ [status |-> "active", until |-> end] \in User
      /\ [status |-> "none", until |-> 0] \in User
  BY <1>3 DEF User, Ends
<1>6. sub \in [Users -> Row] BY <1>1, <1>4
<1>7. user \in [Users -> User] BY <1>1, <1>5
<1>8. /\ \A u \in us :
           /\ sub[u] = [status |-> "active", end |-> end, warned |-> NULL]
           /\ user[u] = [status |-> "active", until |-> end]
      /\ \A u \in Users \ us : sub[u].status = "none" /\ sub[u].end = 0
      /\ \A u \in Users : sub[u].warned = NULL
  BY <1>1
<1> QED BY <1>1, <1>3, <1>6, <1>7, <1>8

\* Initially all types hold.
LEMMA FitInit == ASSUME Init PROVE Fit
<1>1. PICK us \in SUBSET Users, end \in Nat \ {0} :
        /\ sub \in [Users -> Row] /\ user \in [Users -> User] /\ member = us
        /\ periods = {[user |-> u, payment |-> NULL, start |-> 0, end |-> end] : u \in us}
  BY Starts
<1>2. periods \subseteq Period BY <1>1 DEF Period, Ends
<1>3. now \in Time /\ spent \in 0 .. MaxEvents BY Apart DEF Init, Time
<1> QED BY <1>1, <1>2, <1>3 DEF Init, Fit, TypeOK, TasksFit, JobFits

\* Initially nothing was submitted.
LEMMA PaymentInit == ASSUME Init PROVE PaymentInv
<1>1. PICK us \in SUBSET Users, end \in Nat \ {0} :
        /\ \A u \in us : sub[u] = [status |-> "active", end |-> end, warned |-> NULL]
        /\ periods = {[user |-> u, payment |-> NULL, start |-> 0, end |-> end] : u \in us}
  BY Starts
<1>2. \A x \in periods : x.payment = NULL /\ x.user \in us /\ x.end = end BY <1>1
<1>3. \A x, y \in periods : x.user = y.user => x = y BY <1>1
<1>4. \A p \in Payments : ~Paid(p) BY <1>2, Apart DEF Paid
<1>5. \A u \in us : sub[u].status = "active" /\ sub[u].end = end BY <1>1
<1>6. PeriodsBefore BY <1>2, <1>5 DEF PeriodsBefore
<1>7. PaidOnce /\ PeriodsDisjoint BY <1>2, <1>3 DEF PaidOnce, PeriodsDisjoint
<1>8. \A w \in Workers : task[w] = NULL BY DEF Init
<1>9. /\ entry = [p \in Payments |-> NULL] /\ decided = {} /\ store = {} BY DEF Init
<1>10. /\ NoneBefore /\ Objects /\ OneDecides /\ Closing /\ NotAgain /\ NotLoaded
       /\ ApprovedIsPaid /\ DecidedStaysDecided
  BY <1>4, <1>8, <1>9 DEF NoneBefore, Objects, OneDecides, Closing, NotAgain, NotLoaded,
     ApprovedIsPaid, DecidedStaysDecided, At, Holds, Decides
<1> QED BY <1>6, <1>7, <1>10 DEF PaymentInv

\* A step that changes nothing.
LEMMA Stutters == ASSUME Fit, UNCHANGED vars PROVE Fit'
BY DEF vars, database, queue, channel, excuses, bounds, Fit, TypeOK, TasksFit, JobFits, RunFits

\* Every step keeps types and payments.
LEMMA PaymentStep == ASSUME Fit, PaymentInv, [Next]_vars PROVE Fit' /\ PaymentInv'
<1>1. CASE UNCHANGED vars
  <2>1. Fit' BY <1>1, Stutters
  <2>2. SubGrows BY <1>1, Grows DEF vars, database
  <2>3. PaymentInv'
    BY <1>1, <2>1, <2>2, PaymentsAside DEF vars, database, queue, excuses
  <2> QED BY <2>1, <2>3
<1>2. CASE JobStep \/ Tick \/ \E u \in Users : Leave(u) \/ JoinByLink(u)
  <2>1. Fit' BY <1>2, MaintenanceFit, ChannelFit, ProcessFit
  <2> QED BY <1>2, <2>1, PaymentsUntouched
<1>3. CASE Restart BY <1>3, ProcessFit, RestartPays
<1>4. ASSUME NEW w \in Workers, Worker(w) PROVE Fit' /\ PaymentInv'
  <2>1. CASE \/ \E u \in Users : RequestJoin(w, u)
             \/ CheckRequest(w) \/ ApproveChatJoinRequest(w)
             \/ MemberUpdate(w) \/ LookForSubscription(w) \/ ExpireLeaver(w) \/ DemoteLeaver(w)
    <3>1. Fit' BY <2>1, ChannelFit
    <3> QED BY <2>1, <3>1, PaymentsUntouched
  <2>2. CASE \/ \E p \in Payments : Submit(w, p) \/ Press(w, p)
             \/ PersistEntry(w) \/ Load(w) \/ Activate(w) \/ NoDriversChannel(w)
             \/ ActivateFails(w) \/ Close(w) \/ RemovePersistedEntry(w)
    <3>1. Fit' BY <2>2, QueueFit DEF PaymentInv
    <3> QED BY <2>2, <3>1, SubmitPays, PressPays, PersistPays, LoadPays, ActivatePays,
               NotActivatedPays, ClosePays, RemovePays
  <2> QED BY <1>4, <2>1, <2>2 DEF Worker
<1> QED BY <1>1, <1>2, <1>3, <1>4 DEF Next

\* Types and payments hold of every behaviour.
LEMMA PaymentsAlways == Spec => [](Fit /\ PaymentInv)
<1>1. Init => Fit /\ PaymentInv BY FitInit, PaymentInit
<1>2. Fit /\ PaymentInv /\ [Next]_vars => Fit' /\ PaymentInv' BY PaymentStep
<1> QED BY <1>1, <1>2, PTL DEF Spec

\* However presses, restarts and failures mix, an application that is approved was paid, unless
\* it is known to be lost; its days are its own and are counted once, unless two presses
\* overlapped; and it does not come back to be decided again.
THEOREM PaymentsSoundHolds == Spec => []PaymentsSound
<1>1. Fit /\ PaymentInv => PaymentsSound BY DEF Fit, PaymentInv, PaymentsSound
<1> QED BY <1>1, PaymentsAlways, PTL

\* Initially who has paid is in the channel and in order, and nobody was warned.
LEMMA AccountInit == ASSUME Init PROVE AccountInv /\ WarningInv
<1>1. PICK us \in SUBSET Users, end \in Nat \ {0} :
        /\ \A u \in us : /\ sub[u] = [status |-> "active", end |-> end, warned |-> NULL]
                         /\ user[u] = [status |-> "active", until |-> end]
        /\ \A u \in Users \ us : sub[u].status = "none" /\ sub[u].end = 0
        /\ \A u \in Users : sub[u].warned = NULL
        /\ member = us
  BY Starts
<1>2. /\ job = NULL /\ events = {} /\ warnings = {} /\ \A w \in Workers : task[w] = NULL
  BY DEF Init
<1>3. ASSUME NEW u \in us PROVE sub[u].status = "active" /\ sub[u].end = end
  <2>1. sub[u] = [status |-> "active", end |-> end, warned |-> NULL] BY <1>1
  <2> QED BY <2>1
<1>4. \A u \in us : Agrees(u) BY <1>1, <1>3 DEF Agrees
<1>5. UsersFollow BY <1>1, <1>4 DEF UsersFollow
<1>6. EndsKnown /\ KickedEnded /\ LeaversOut
  BY <1>2 DEF EndsKnown, KickedEnded, LeaversOut, Marking, MarkedByJob, JobAt, At, Leaving,
              OwedByLeaver
<1>7. MembersFollow BY <1>1, <1>3 DEF MembersFollow
<1>8. RowsFit BY <1>1, <1>3 DEF RowsFit
<1>9. WarningsKnown /\ ToWarn /\ WarnedOnce
  BY <1>2 DEF WarningsKnown, ToWarn, WarnedOnce, JobAt
<1> QED BY <1>5, <1>6, <1>7, <1>8, <1>9 DEF AccountInv, WarningInv

\* Accounts and warnings hold of every behaviour.
LEMMA AccountsAlways == Spec => [](Fit /\ PaymentInv /\ AccountInv /\ WarningInv)
<1>1. Init => Fit /\ PaymentInv /\ AccountInv /\ WarningInv BY FitInit, PaymentInit, AccountInit
<1>2. Fit /\ PaymentInv /\ AccountInv /\ WarningInv /\ [Next]_vars
        => Fit' /\ PaymentInv' /\ AccountInv' /\ WarningInv'
  BY PaymentStep, AccountStep, WarningStep DEF PaymentInv
<1> QED BY <1>1, <1>2, PTL DEF Spec

\* Whoever pays, leaves, joins or is removed at whatever moment: when nothing works on a user, her
\* row of users says what her subscription says; who is in the channel has an active subscription
\* or is being removed; and nobody is warned twice of one end. The exceptions are the known ones.
THEOREM AccountsAgreeHolds == Spec => []AccountsAgree
<1>1. ASSUME Fit, AccountInv, WarningInv PROVE AccountsAgree
  <2>1. UsersAgree
    <3> SUFFICES ASSUME NEW u \in Users, ~EndedBy(u), u \notin doubted, sub[u].status # "none"
                 PROVE  Agrees(u)
      BY DEF UsersAgree, Agrees
    <3> QED BY <1>1, Ended DEF AccountInv, UsersFollow
  <2>2. MembersPaid
    <3>1. member \subseteq Users BY <1>1 DEF Fit, TypeOK
    <3> QED BY <1>1, <3>1, Ended DEF AccountInv, MembersFollow, MembersPaid
  <2>3. WarnedOnce BY <1>1 DEF WarningInv
  <2> QED BY <2>1, <2>2, <2>3 DEF AccountsAgree
<1> QED BY <1>1, AccountsAlways, PTL

\* The job and the handler of leavers take days left from nobody but who has left the channel
\* or paid at that moment.
THEOREM DaysLeftStayHolds == Spec => DaysLeftStay
<1> DEFINE Taken(u) == sub[u].status = "active" /\ sub'[u].status = "expired" /\ sub[u].end > now
           Known(u) == \/ u \in raced
                       \/ \E w \in Workers :
                            At(w, "expire") /\ task[w].user = u /\ task[w].kind = "left"
           Body == \A u \in Users : Taken(u) => Known(u)
<1>1. ASSUME Fit, NoneBefore, AccountInv, Next PROVE Body
  <2> SUFFICES ASSUME NEW u \in Users, Taken(u) PROVE Known(u)
    OBVIOUS
  <2> USE DEF database, queue, channel, excuses, bounds
  <2>1. CASE MarkSubscriptionsExpired
    <3>1. job # NULL /\ JobAt("mark") /\ (sub' = sub \/ Marked(job.list))
      BY <2>1 DEF MarkSubscriptionsExpired, JobAt
    <3>2. u \in job.list
      <4>1. job.list \in SUBSET Users BY <3>1, <1>1, Runs
      <4>2. CASE sub' = sub BY <4>2
      <4>3. CASE Marked(job.list) BY <1>1, <4>1, <4>3, Marks
      <4> QED BY <3>1, <4>2, <4>3
    <3>3. ASSUME u \notin raced PROVE FALSE
      <4>1. sub[u].end = job.end[u] /\ job.end[u] <= job.at
        BY <1>1, <3>1, <3>2, <3>3 DEF AccountInv, EndsKnown, Marking
      <4>2. /\ job.at <= now /\ job.at \in Nat /\ job.end[u] \in Nat /\ now \in Nat
        BY <1>1, <3>1, Runs, Rows DEF RunFits, Time
      <4> QED BY <4>1, <4>2
    <3> QED BY <3>3
  <2>2. ASSUME NEW w \in Workers, ExpireLeaver(w) PROVE Known(u)
    <3>1. /\ At(w, "expire") /\ task[w] # NULL /\ task[w].phase \notin PaymentPhases
          /\ task[w].phase \in LeaverPhases
      BY <2>2 DEF ExpireLeaver, At, PaymentPhases, LeaverPhases
    <3>2. task[w].user \in Users /\ task[w].kind \in {"left", "kicked"} BY <1>1, <3>1, HasUser
    <3>3. u = task[w].user
      <4>1. {task[w].user} \in SUBSET Users BY <3>2
      <4>2. CASE sub' = sub BY <4>2
      <4>3. CASE Marked({task[w].user}) BY <1>1, <4>1, <4>3, Marks
      <4> QED BY <2>2, <4>2, <4>3 DEF ExpireLeaver
    <3>4. CASE task[w].kind = "left" BY <3>1, <3>3, <3>4
    <3>5. CASE task[w].kind = "kicked"
      BY <1>1, <3>1, <3>3, <3>5 DEF AccountInv, KickedEnded, Leaving
    <3> QED BY <3>2, <3>4, <3>5
  <2>3. ASSUME NEW w \in Workers, Activate(w) PROVE Known(u)
    <3>1. At(w, "activate") /\ "activate" \in PaymentPhases BY <2>3 DEF Activate, PaymentPhases
    <3>2. PICK p \in Payments : p = task[w].payment /\ submitted[p] # NULL BY <1>1, <3>1, Handles
    <3>3. PICK start \in Nat : start = PeriodStart(Payer[p], submitted[p]) BY <1>1, <3>2, Begins
    <3>4. Activated(p, start) BY <2>3, <3>2, <3>3 DEF Activate
    <3>5. sub'[Payer[p]].status = "active" /\ \A v \in Users : v # Payer[p] => sub'[v] = sub[v]
      BY <1>1, <3>2, <3>4, Activates
    <3> QED BY <3>5
  <2>4. CASE RecordSubscriptionWarning
    <3>1. PICK v \in Users : sub' = sub \/ sub' = [sub EXCEPT ![v].warned = now]
      BY <1>1, <2>4, Runs DEF RecordSubscriptionWarning, JobAt
    <3>2. sub'[u].status = sub[u].status BY <1>1, <3>1 DEF Fit, TypeOK, Row
    <3> QED BY <3>2
  <2>5. CASE sub' = sub BY <2>5
  <2>6. \/ MarkSubscriptionsExpired \/ RecordSubscriptionWarning \/ sub' = sub
        \/ \E w \in Workers : ExpireLeaver(w) \/ Activate(w)
    <3>1. ASSUME NEW w \in Workers, Worker(w)
          PROVE  ExpireLeaver(w) \/ Activate(w) \/ sub' = sub
      BY <3>1 DEF Worker, Submit, Press, PersistEntry, Load, NoDriversChannel, ActivateFails,
         NotActivated, Close, RemovePersistedEntry, RequestJoin, CheckRequest,
         ApproveChatJoinRequest, MemberUpdate, LookForSubscription, DemoteLeaver
    <3>2. JobStep => MarkSubscriptionsExpired \/ RecordSubscriptionWarning \/ sub' = sub
      BY DEF JobStep, RunMaintenance, SendWarning, FindSubscriptionsToExpire, UpdateUser,
             RemoveUserFromChannel
    <3>3. (\E v \in Users : Leave(v) \/ JoinByLink(v)) \/ Restart \/ Tick => sub' = sub
      BY DEF Leave, JoinByLink, Restart, Tick
    <3> QED BY <1>1, <3>1, <3>2, <3>3 DEF Next
  <2> QED BY <2>1, <2>2, <2>3, <2>4, <2>5, <2>6
<1>2. ASSUME UNCHANGED vars PROVE Body BY <1>2 DEF vars, database
<1>3. Fit /\ PaymentInv /\ AccountInv /\ WarningInv /\ [Next]_vars => [Body]_vars
  BY <1>1, <1>2 DEF PaymentInv
<1>4. DaysLeftStay <=> [][Body]_vars BY DEF DaysLeftStay
<1> HIDE DEF Body
<1>5. Spec => [][Body]_vars BY <1>3, AccountsAlways, PTL DEF Spec
<1> QED BY <1>4, <1>5
=============================================================================
