-------------------------- MODULE ChatUpdatesProofs --------------------------
(***************************************************************************)
(* Sessions, for any workers and ticks, any numbers of updates and         *)
(* reminders and any troubles: sessions stay usable, nothing stored is     *)
(* forgotten, and what the jobs send is sent once.  Then PlanForm, for any *)
(* threads, phones, workers and bounds: no form gets ahead of its answers, *)
(* forms of two threads do not mix, and a phone has one plan.              *)
(***************************************************************************)
EXTENDS Sessions, PlanForm, TLAPS

-----------------------------------------------------------------------------
(* Sessions                                                                  *)

\* What TypeOK leaves out: nothing refers to an update that was not received, a session that
\* is quiet is at a step, and an update in safe mode does not save.
Counts ==
    /\ row # NULL => /\ row.data.asked <= updates /\ row.step <= updates
                     /\ row.quiet => row.step # 0
    /\ cache # NULL => cache.asked <= updates
    /\ \A w \in Workers : task[w] # NULL =>
         /\ task[w].n <= updates
         /\ task[w].copy # NULL => task[w].copy.asked <= updates
         /\ task[w].phase = "save" => ~task[w].degraded

\* The types, with what TypeOK leaves out.
Typed == TypeOK /\ Counts

\* What was met after a trouble is what was met before, or the trouble.
LEMMA MetAfter ==
    ASSUME TypeOK, NEW k, Occurs(k), NEW S
    PROVE  Met(S)' <=> Met(S) \/ k \in S
<1>1. troubles \in Seq(Troubles) /\ troubles' = Append(troubles, k) /\ k \in Troubles
  BY DEF TypeOK, Occurs
<1>2. /\ Len(troubles') = Len(troubles) + 1 /\ troubles'[Len(troubles) + 1] = k
      /\ \A i \in 1 .. Len(troubles) : troubles'[i] = troubles[i]
  BY <1>1
<1>3. Len(troubles) \in Nat
  BY <1>1
<1> QED BY <1>2, <1>3 DEF Met

\* A quiet step notes nothing.
LEMMA MetQuiet ==
    ASSUME Quiet, NEW S
    PROVE  Met(S)' <=> Met(S)
BY DEF Quiet, Met

\* What goes wrong is noted in a list of troubles,
LEMMA OccursTyped ==
    ASSUME TypeOK, NEW k, Occurs(k)
    PROVE  troubles' \in Seq(Troubles) /\ Len(troubles') <= MaxTroubles
BY SessionsAssumption DEF TypeOK, Occurs

\* and so is nothing.
LEMMA QuietTyped ==
    ASSUME TypeOK, Quiet
    PROVE  troubles' \in Seq(Troubles) /\ Len(troubles') <= MaxTroubles
BY DEF TypeOK, Quiet

\* An update in a worker: it was received, and its copy asks for nothing later.
GoodTask(t) ==
    /\ t \in Task /\ t.n <= updates
    /\ t.copy # NULL => t.copy.asked <= updates
    /\ t.phase # "load" => t.copy # NULL
    /\ t.phase = "save" => ~t.degraded

\* A row: its payment and its step are of updates that were received.
GoodRow(r) ==
    /\ r \in Row /\ r.data.asked <= updates /\ r.step <= updates
    /\ r.quiet => r.step # 0

\* The parts of Typed, piece by piece.
LEMMA TypedGives ==
    ASSUME Typed
    PROVE  /\ row # NULL => GoodRow(row)
           /\ \A w \in Workers : task[w] # NULL => GoodTask(task[w])
           /\ cache # NULL => cache \in Data /\ cache.asked <= updates
           /\ updates \in 0 .. MaxUpdates /\ NULL \notin Task /\ NULL \notin Data /\ NULL \notin Row
BY NullAssumption DEF Typed, TypeOK, Counts, GoodRow, GoodTask

\* Another record for one update, or none, over a row and a cache that are typed.
LEMMA TaskReplaced ==
    ASSUME Typed, NEW w \in Workers, NEW t, t = NULL \/ GoodTask(t),
           task' = [task EXCEPT ![w] = t], Quiet \/ \E k : Occurs(k), UNCHANGED <<updates, jobs>>,
           row' = row \/ GoodRow(row'),
           cache' = cache \/ cache' = NULL \/ (cache' \in Data /\ cache'.asked <= updates)
    PROVE  Typed'
<1>1. troubles' \in Seq(Troubles) /\ Len(troubles') <= MaxTroubles
  BY OccursTyped, QuietTyped DEF Typed
<1>2. /\ row' \in Row \cup {NULL}
      /\ row' # NULL => /\ row'.data.asked <= updates /\ row'.step <= updates
                        /\ row'.quiet => row'.step # 0
      /\ row # NULL => row' # NULL
  BY NullAssumption DEF Typed, TypeOK, Counts, GoodRow
<1>3. \A v \in Workers : task'[v] # NULL => GoodTask(task'[v])
  BY TypedGives DEF Typed, TypeOK
<1>4. task' \in [Workers -> Task \cup {NULL}]
  BY DEF Typed, TypeOK, GoodTask
<1> QED BY <1>1, <1>2, <1>3, <1>4 DEF Typed, TypeOK, Counts, jobs, GoodTask

\* Each step of an update keeps the types.
LEMMA WorkTyped ==
    ASSUME Typed, NEW w \in Workers, Work(w)
    PROVE  Typed'
<1>0. /\ GoodTask(task[w]) /\ task[w] \in Task
      /\ row # NULL => GoodRow(row)
      /\ cache # NULL => cache \in Data /\ cache.asked <= updates
      /\ createDefaultState \in Data /\ Empty \in Data
      /\ createDefaultState.asked = 0 /\ Empty.asked = 0
      /\ updates \in 0 .. MaxUpdates /\ NULL \notin Data
  <2>1. task[w] # NULL
    BY DEF Work, Load, LoadFails, Throw, Handle, Send, Track, TrackFails, Save, SaveFails,
       SaveCache, At
  <2> QED BY <2>1, TypedGives, SessionsAssumption DEF GoodTask, Task, createDefaultState, Empty,
      Data
<1> USE DEF GoodTask, Task
<1>1. CASE Load(w) \/ LoadFails(w)
  <2>1. Cached(w) \in Data /\ Cached(w).asked <= updates
    BY <1>0 DEF Cached
  <2>2. row # NULL => row.data \in Data /\ row.data.asked <= updates
    BY <1>0 DEF GoodRow, Row
  <2>3. PICK c \in Data, d \in BOOLEAN :
          /\ c.asked <= updates
          /\ task' = [task EXCEPT ![w] = [task[w] EXCEPT !.phase = "handle", !.copy = c,
                                                             !.degraded = d]]
    <3>1. CASE Load(w)
      <4> DEFINE c == IF row # NULL THEN row.data ELSE Cached(w)
      <4>1. task' = [task EXCEPT ![w] = [task[w] EXCEPT !.phase = "handle", !.copy = c,
                                                        !.degraded = task[w].degraded]]
        BY <1>0, <3>1 DEF Load
      <4>2. c \in Data /\ c.asked <= updates /\ task[w].degraded \in BOOLEAN
        BY <1>0, <2>1, <2>2
      <4> HIDE DEF c
      <4> QED BY <4>1, <4>2
    <3>2. CASE LoadFails(w)
      BY <1>0, <2>1, <3>2 DEF LoadFails
    <3> QED BY <1>1, <3>1, <3>2
  <2>4. UNCHANGED <<row, cache, updates, jobs>> /\ (Quiet \/ \E k : Occurs(k))
    BY <1>1 DEF Load, LoadFails
  <2>5. GoodTask([task[w] EXCEPT !.phase = "handle", !.copy = c, !.degraded = d])
    BY <1>0, <2>3
  <2> HIDE DEF GoodTask
  <2> QED BY <2>3, <2>4, <2>5, TaskReplaced
<1>2. ASSUME NEW b \in BOOLEAN, AfterHandler(w, b), task[w].phase # "load"
      PROVE  \E t : GoodTask(t) /\ task' = [task EXCEPT ![w] = t]
  <2> DEFINE t == [task[w] EXCEPT !.threw = b,
                                   !.phase = IF task[w].degraded THEN "cache" ELSE "save"]
  <2>1. task' = [task EXCEPT ![w] = t]
    BY <1>2 DEF AfterHandler
  <2>2. GoodTask(t)
    BY <1>0, <1>2
  <2> QED BY <2>1, <2>2
<1>3. ASSUME NEW p \in {"send", "track", "cache"}, To(w, p), task[w].phase # "load"
      PROVE  \E t : GoodTask(t) /\ task' = [task EXCEPT ![w] = t]
  <2> DEFINE t == [task[w] EXCEPT !.phase = p]
  <2>1. task' = [task EXCEPT ![w] = t]
    BY <1>3 DEF To
  <2>2. GoodTask(t)
    BY <1>0, <1>3
  <2> QED BY <2>1, <2>2
<1>4. CASE Throw(w) \/ Handle(w) \/ Send(w) \/ TrackFails(w)
  <2>1. UNCHANGED <<row, cache, updates, jobs>> /\ (Quiet \/ \E k : Occurs(k))
    BY <1>4 DEF Throw, Handle, Send, TrackFails
  <2>2. task[w].phase # "load"
    BY <1>4 DEF Throw, Handle, Send, TrackFails, At
  <2>3. \/ \E b \in BOOLEAN : AfterHandler(w, b)
        \/ \E p \in {"send", "track", "cache"} : To(w, p)
        \/ task' = [task EXCEPT ![w].copy.asked = task[w].n, ![w].phase = "send"]
    BY <1>4 DEF Throw, Handle, Send, TrackFails
  <2>4. CASE task' = [task EXCEPT ![w].copy.asked = task[w].n, ![w].phase = "send"]
    <3> DEFINE t == [task[w] EXCEPT !.copy.asked = task[w].n, !.phase = "send"]
    <3>1. task' = [task EXCEPT ![w] = t]
      BY <2>4
    <3> DEFINE c == [task[w].copy EXCEPT !.asked = task[w].n]
    <3>2. c \in Data /\ c.asked <= updates
      BY <1>0, <2>2 DEF Data, Updates
    <3>4. t = [task[w] EXCEPT !.copy = c, !.phase = "send"]
      BY <1>0
    <3> HIDE DEF c, t
    <3>3. GoodTask(t)
      BY <1>0, <2>2, <3>2, <3>4
    <3> HIDE DEF GoodTask, t
    <3> QED BY <2>1, <3>1, <3>3, TaskReplaced
  <2>5. CASE (\E b \in BOOLEAN : AfterHandler(w, b))
               \/ \E p \in {"send", "track", "cache"} : To(w, p)
    <3>1. \E t : GoodTask(t) /\ task' = [task EXCEPT ![w] = t]
      <4> HIDE DEF GoodTask
      <4> QED BY <1>2, <1>3, <2>2, <2>5
    <3> HIDE DEF GoodTask
    <3> QED BY <2>1, <3>1, TaskReplaced
  <2> HIDE DEF GoodTask
  <2> QED BY <2>3, <2>4, <2>5
<1>5. CASE Track(w)
  <2>1. GoodRow(row')
    BY <1>0, <1>5 DEF Track, GoodRow, Row, Data, Empty, Updates
  <2>2. /\ UNCHANGED <<cache, updates, jobs>> /\ Quiet /\ AfterHandler(w, FALSE)
        /\ task[w].phase # "load"
    BY <1>5 DEF Track, At
  <2>3. \E t : GoodTask(t) /\ task' = [task EXCEPT ![w] = t]
    BY <1>2, <2>2
  <2> HIDE DEF GoodTask
  <2> QED BY <2>1, <2>2, <2>3, TaskReplaced
<1>6. CASE Save(w) \/ SaveFails(w)
  <2>1. task[w].copy \in Data /\ task[w].copy.asked <= updates /\ task[w].phase # "load"
    BY <1>0, <1>6 DEF Save, SaveFails, At
  <2>2. row' = row \/ GoodRow(row')
    <3>1. CASE row = NULL
      <4>1. CASE Save(w)
        <5>1. row' = [data |-> task[w].copy, step |-> 0, quiet |-> FALSE, nudged |-> FALSE]
          BY <3>1, <4>1 DEF Save, Stored
        <5>2. 0 \in 0 .. MaxUpdates /\ 0 <= updates
          BY SessionsAssumption, <1>0
        <5> QED BY <2>1, <5>1, <5>2 DEF GoodRow, Row
      <4> QED BY <1>6, <4>1 DEF SaveFails
    <3>2. CASE row # NULL
      BY <1>0, <1>6, <2>1, <3>2 DEF Save, SaveFails, Stored, GoodRow, Row
    <3> QED BY <3>1, <3>2
  <2>3. UNCHANGED <<cache, updates, jobs>> /\ (Quiet \/ \E k : Occurs(k)) /\ AfterSave(w)
    BY <1>6 DEF Save, SaveFails
  <2>4. \E t : (t = NULL \/ GoodTask(t)) /\ task' = [task EXCEPT ![w] = t]
    BY <1>3, <2>1, <2>3 DEF AfterSave
  <2> HIDE DEF GoodTask
  <2> QED BY <2>2, <2>3, <2>4, TaskReplaced
<1>7. CASE SaveCache(w)
  <2>1. task[w].copy \in Data /\ task[w].copy.asked <= updates
    BY <1>0, <1>7 DEF SaveCache, At
  <2>2. /\ cache' = cache \/ (cache' \in Data /\ cache'.asked <= updates)
        /\ UNCHANGED <<row, updates, jobs>> /\ (Quiet \/ \E k : Occurs(k))
        /\ task' = [task EXCEPT ![w] = NULL]
    BY <1>7, <2>1 DEF SaveCache
  <2> HIDE DEF GoodTask
  <2> QED BY <2>2, TaskReplaced
<1> QED BY <1>1, <1>4, <1>5, <1>6, <1>7 DEF Work

\* The jobs and the clock keep the types when what they write is typed.
LEMMA JobsTyped ==
    ASSUME Typed, UNCHANGED <<cache, task, updates>>, row' = row \/ GoodRow(row'),
           due' \in 0 .. updates, planned' \in 0 .. MaxPlanned,
           followUp' \in FollowUp \cup {NULL}, tick' \in [Ticks -> Tick \cup {NULL}],
           followUp' # NULL \/ (\E t \in Ticks : tick'[t] # NULL) => row # NULL,
           reminded' \in [Updates -> 0 .. 2], nudges' \in [Updates -> 0 .. 2],
           Quiet \/ \E k : Occurs(k)
    PROVE  Typed'
<1>1. troubles' \in Seq(Troubles) /\ Len(troubles') <= MaxTroubles
  BY OccursTyped, QuietTyped DEF Typed
<1>2. /\ row' \in Row \cup {NULL}
      /\ row' # NULL => /\ row'.data.asked <= updates /\ row'.step <= updates
                        /\ row'.quiet => row'.step # 0
      /\ row # NULL => row' # NULL
  BY NullAssumption DEF Typed, TypeOK, Counts, GoodRow
<1> QED BY <1>1, <1>2 DEF Typed, TypeOK, Counts

\* Every step keeps the types.
LEMMA NextTyped ==
    ASSUME Typed, [Next]_vars
    PROVE  Typed'
<1>0. /\ row # NULL => GoodRow(row) /\ row \in Row /\ row.data \in Data
      /\ updates \in Nat /\ updates \in 0 .. MaxUpdates
      /\ NULL \notin FollowUp /\ NULL \notin Tick /\ NULL \notin Task
      /\ MaxUpdates \in Nat /\ MaxPlanned \in Nat
  BY TypedGives, SessionsAssumption, NullAssumption DEF GoodRow, Row
<1>t. /\ due \in 0 .. updates /\ planned \in 0 .. MaxPlanned
      /\ followUp \in FollowUp \cup {NULL} /\ tick \in [Ticks -> Tick \cup {NULL}]
      /\ followUp # NULL \/ (\E t \in Ticks : tick[t] # NULL) => row # NULL
      /\ reminded \in [Updates -> 0 .. 2] /\ nudges \in [Updates -> 0 .. 2]
  BY DEF Typed, TypeOK
<1>b. Begins => Quiet \/ \E k : Occurs(k)
  BY DEF Begins
<1>d. ASSUME NEW r PROVE Deliver(r) => reminded' \in [Updates -> 0 .. 2]
  <2>1. CASE r \in Updates
    BY <1>t, <2>1 DEF Deliver
  <2>2. CASE r \notin Updates
    BY <1>t, <2>2 DEF Deliver
  <2> QED BY <2>1, <2>2
<1>1. ASSUME NEW w \in Workers, NEW kind \in {"plain", "step", "subscribe"}, Receive(w, kind)
      PROVE  Typed'
  <2> DEFINE t == [n |-> updates', kind |-> kind, copy |-> cache, phase |-> "load",
                   degraded |-> FALSE, threw |-> FALSE]
  <2>1. updates' = updates + 1 /\ updates' \in Updates /\ updates' \in 0 .. MaxUpdates
    BY <1>0, <1>1 DEF Receive, Updates
  <2>2. t \in Task
    BY <2>1 DEF Task, Typed, TypeOK
  <2>3. /\ task' = [task EXCEPT ![w] = t] /\ UNCHANGED <<row, cache, jobs>>
        /\ (Quiet \/ \E k : Occurs(k))
    BY <1>1, <1>b DEF Receive
  <2>4. troubles' \in Seq(Troubles) /\ Len(troubles') <= MaxTroubles
    BY <2>3, OccursTyped, QuietTyped DEF Typed
  <2>5. task' \in [Workers -> Task \cup {NULL}]
    BY <2>2, <2>3 DEF Typed, TypeOK
  <2>6. \A v \in Workers : task'[v] # NULL =>
           /\ task'[v].n <= updates'
           /\ task'[v].copy # NULL => task'[v].copy.asked <= updates'
           /\ task'[v].phase = "save" => ~task'[v].degraded
           /\ task'[v].phase # "load" => task'[v].copy # NULL
    <3> SUFFICES ASSUME NEW v \in Workers, task'[v] # NULL
                 PROVE  /\ task'[v].n <= updates'
                        /\ task'[v].copy # NULL => task'[v].copy.asked <= updates'
                        /\ task'[v].phase = "save" => ~task'[v].degraded
                        /\ task'[v].phase # "load" => task'[v].copy # NULL
      OBVIOUS
    <3>1. CASE v = w
      <4>1. task'[v] = t
        BY <2>3, <3>1 DEF Typed, TypeOK
      <4>2. cache # NULL => cache \in Data /\ cache.asked <= updates'
        BY <1>0, <2>1, TypedGives DEF Data
      <4> QED BY <2>1, <4>1, <4>2
    <3>2. CASE v # w
      <4>1. task'[v] = task[v] /\ GoodTask(task[v])
        BY <2>3, <3>2, TypedGives DEF Typed, TypeOK
      <4>2. task[v].copy # NULL => task[v].copy \in Data
        BY <4>1 DEF GoodTask, Task
      <4> QED BY <1>0, <2>1, <4>1, <4>2 DEF GoodTask, Task, Data, Updates
    <3> QED BY <3>1, <3>2
  <2>7. row # NULL => /\ row.data.asked <= updates' /\ row.step <= updates'
                      /\ row.quiet => row.step # 0
    BY <1>0, <2>1 DEF GoodRow, Row, Data
  <2>8. cache # NULL => cache.asked <= updates'
    BY <1>0, <2>1, TypedGives DEF Data
  <2>9. due' \in 0 .. updates'
    BY <1>0, <1>t, <2>1, <2>3 DEF jobs
  <2> HIDE DEF t
  <2> QED BY <2>1, <2>3, <2>4, <2>5, <2>6, <2>7, <2>8, <2>9 DEF Typed, TypeOK, Counts, jobs
<1>2. CASE CacheExpires
  <2>1. UNCHANGED <<row, task, updates, jobs, troubles>> /\ cache' = NULL
    BY <1>2 DEF CacheExpires, Quiet
  <2> QED BY <2>1 DEF Typed, TypeOK, Counts, jobs
<1>3. CASE BecomesDue
  BY <1>0, <1>t, <1>3, JobsTyped DEF BecomesDue
<1>4. CASE fetchPendingSubscriptions
  BY <1>t, <1>0, <1>4, <1>b, JobsTyped DEF fetchPendingSubscriptions, FollowUp
<1>5. CASE planReminder
  <2>1. followUp \in FollowUp /\ row # NULL /\ row \in Row /\ row.data \in Data /\ Quiet
    BY <1>0, <1>t, <1>5 DEF planReminder, Planning
  <2>2. CASE shouldSendReminder(row.data)
    <3>1. planned' \in 0 .. MaxPlanned /\ planned' # 0
      BY <1>0, <1>t, <1>5, <2>2 DEF planReminder
    <3>2. GoodRow(row')
      BY <1>0, <1>5, <2>1, <2>2, <3>1 DEF planReminder, GoodRow, Row, Data
    <3>3. followUp' \in FollowUp
      BY <1>5, <2>1, <2>2, <3>1 DEF planReminder, FollowUp, Data
    <3> QED BY <1>t, <1>5, <2>1, <3>1, <3>2, <3>3, JobsTyped DEF planReminder
  <2>3. CASE ~shouldSendReminder(row.data)
    BY <1>t, <1>5, <2>1, <2>3, JobsTyped DEF planReminder
  <2> QED BY <2>2, <2>3
<1>6. CASE PlanFails
  BY <1>t, <1>6, JobsTyped DEF PlanFails
<1>7. CASE SendReminder
  <2>1. followUp' \in FollowUp \cup {NULL} /\ row # NULL /\ reminded' \in [Updates -> 0 .. 2]
    BY <1>t, <1>7, <1>d DEF SendReminder, FollowUp
  <2> QED BY <1>t, <1>7, <2>1, JobsTyped DEF SendReminder
<1>8. CASE revertReminderFlag
  <2>1. row # NULL /\ row \in Row /\ row.data \in Data /\ GoodRow(row)
    BY <1>0, <1>t, <1>8 DEF revertReminderFlag
  <2>2. row' = row \/ GoodRow(row')
    BY <1>0, <1>8, <2>1 DEF revertReminderFlag, GoodRow, Row, Data
  <2> QED BY <1>t, <1>8, <2>1, <2>2, JobsTyped DEF revertReminderFlag
<1>9. CASE GoesQuiet
  <2>1. GoodRow(row')
    BY <1>0, <1>9 DEF GoesQuiet, GoodRow, Row
  <2> QED BY <1>t, <1>9, <2>1, JobsTyped DEF GoesQuiet, jobs
<1>10. ASSUME NEW t \in Ticks, fetchPendingSessions(t)
       PROVE  Typed'
  <2>1. row # NULL /\ row.step \in Updates
    BY <1>0, <1>10 DEF fetchPendingSessions, GoodRow, Row, Updates
  <2>2. tick' \in [Ticks -> Tick \cup {NULL}]
    BY <1>t, <1>10, <2>1 DEF fetchPendingSessions, Tick
  <2> QED BY <1>t, <1>10, <1>b, <2>1, <2>2, JobsTyped DEF fetchPendingSessions
<1>11. ASSUME NEW t \in Ticks, deliverNudge(t)
       PROVE  Typed'
  <2>1. tick' \in [Ticks -> Tick \cup {NULL}] /\ nudges' \in [Updates -> 0 .. 2] /\ row # NULL
    BY <1>t, <1>11 DEF deliverNudge, Tick
  <2> QED BY <1>t, <1>11, <2>1, JobsTyped DEF deliverNudge
<1>12. ASSUME NEW t \in Ticks, markNudged(t)
       PROVE  Typed'
  <2>1. tick' \in [Ticks -> Tick \cup {NULL}] /\ row # NULL
    BY <1>t, <1>12 DEF markNudged
  <2>2. row' = row \/ GoodRow(row')
    BY <1>0, <1>12, <2>1 DEF markNudged, GoodRow, Row
  <2> QED BY <1>t, <1>12, <2>1, <2>2, JobsTyped DEF markNudged
<1>13. CASE Crash
  <2>1. /\ task' = [w \in Workers |-> NULL] /\ followUp' = NULL /\ tick' = [t \in Ticks |-> NULL]
        /\ UNCHANGED <<row, cache, updates, due, planned, reminded, nudges>>
        /\ troubles' \in Seq(Troubles) /\ Len(troubles') <= MaxTroubles
    BY <1>13, OccursTyped DEF Crash, Typed
  <2> QED BY <2>1 DEF Typed, TypeOK, Counts
<1>14. CASE UNCHANGED vars
  BY <1>14 DEF Typed, TypeOK, Counts, vars, jobs
<1> QED
  BY <1>1, <1>2, <1>3, <1>4, <1>5, <1>6, <1>7, <1>8, <1>9, <1>10, <1>11, <1>12, <1>13, <1>14,
     WorkTyped DEF Next, FollowUpStep, TickStep

\* One update, one run of the payment job or one tick is in flight, and an update in
\* flight is the last received.
Alone ==
    /\ \A v, w \in Workers : task[v] # NULL /\ task[w] # NULL => v = w
    /\ \A t, u \in Ticks : tick[t] # NULL /\ tick[u] # NULL => t = u
    /\ \A w \in Workers : task[w] # NULL =>
         followUp = NULL /\ \A t \in Ticks : tick[t] = NULL
    /\ followUp # NULL => \A t \in Ticks : tick[t] = NULL
    /\ \A w \in Workers : task[w] # NULL => task[w].n = updates

\* A chat without a row has been told nothing, in any copy.
NoRow == row = NULL =>
    /\ cache # NULL => cache.told = 0
    /\ \A w \in Workers : task[w] # NULL /\ task[w].copy # NULL => task[w].copy.told = 0

\* The copy of a loaded update has what the row has, or asks for a payment since.
Follows ==
    \A w \in Workers :
      task[w] # NULL /\ task[w].phase # "load" /\ ~task[w].degraded /\ row # NULL =>
         /\ task[w].copy.told = row.data.told
         /\ task[w].copy.asked >= row.data.asked

\* All this without an overlap.
Calm == ~Met({"overlap"}) => Alone /\ NoRow /\ Follows

\* No reminder was delivered as long as the row has none noted, or one on its way.
Unsent == row = NULL \/ row.data.told = 0 \/ (followUp # NULL /\ followUp.phase = "send")
           => \A r \in Updates : reminded[r] = 0

\* The payment job, without a failed call: the row says whether a reminder was sent.
RemindInv == ~Met({"telegram", "overlap"}) =>
    /\ Unsent
    /\ followUp # NULL /\ followUp.phase = "send" => row.data.told # 0
    /\ followUp # NULL => followUp.phase # "revert"

\* The nudger, when nothing excuses it: an update comes after the step of the row; what was
\* nudged is a step of the past or is marked, or a tick is about to mark it; a tick is of
\* the step of the row.
NudgeInv == ~Met({"telegram", "db", "crash", "overlap"}) =>
    /\ \A w \in Workers : task[w] # NULL /\ task[w].phase \in {"load", "handle", "send", "track"}
         /\ row # NULL =>
          row.step < task[w].n
    /\ \A s \in Updates : nudges[s] # 0 =>
          /\ row # NULL /\ s <= row.step
          /\ s = row.step => row.nudged \/ \E t \in Ticks : tick[t] # NULL /\ tick[t].phase = "mark"
    /\ \A t \in Ticks : tick[t] # NULL =>
          /\ tick[t].step = row.step /\ ~row.nudged
          /\ tick[t].phase = "send" => nudges[row.step] = 0

\* Sessions, when nothing excuses them: copies have their list, and a row without one (ui.ts
\* made it) is about to be saved by the update that made it.
ServeInv == ~Met({"connect", "crash", "save", "overlap"}) =>
    /\ cache # NULL => cache.list
    /\ \A w \in Workers : task[w] # NULL => ~task[w].degraded
    /\ \A w \in Workers : task[w] # NULL /\ task[w].copy # NULL => task[w].copy.list
    /\ row # NULL /\ ~row.data.list => \E w \in Workers : At(w, "save")

\* A step notes one trouble or none.
LEMMA StepNotes ==
    ASSUME [Next]_vars
    PROVE  Quiet \/ \E k : Occurs(k)
BY Zenon DEF Next, Work, Load, LoadFails, Throw, Handle, Send, Track, TrackFails, Save, SaveFails,
   SaveCache, Receive, Begins, CacheExpires, BecomesDue, fetchPendingSubscriptions, FollowUpStep,
   planReminder, PlanFails, SendReminder, revertReminderFlag, GoesQuiet, fetchPendingSessions,
   TickStep, deliverNudge, markNudged, Crash, vars, Quiet

\* What went wrong stays on record.
LEMMA MetStays ==
    ASSUME TypeOK, [Next]_vars, NEW S, ~Met(S)'
    PROVE  ~Met(S)
BY StepNotes, MetAfter, MetQuiet

\* Without an overlap, what begins begins alone.
LEMMA BeginsAlone ==
    ASSUME TypeOK, Begins, NEW S, "overlap" \in S, ~Met(S)'
    PROVE  Idle /\ Quiet
BY MetAfter DEF Begins

\* What was not met among more was not met among fewer.
LEMMA MetMore ==
    ASSUME NEW S, NEW T, S \subseteq T, ~Met(T)
    PROVE  ~Met(S)
BY DEF Met

\* A step of a handler leaves the others and the jobs alone.
LEMMA WorkAlone ==
    ASSUME Typed, NEW w \in Workers, Work(w)
    PROVE  /\ task[w] # NULL /\ GoodTask(task[w])
           /\ UNCHANGED <<updates, jobs>>
           /\ \A v \in Workers \ {w} : task'[v] = task[v]
           /\ task'[w] # NULL => task'[w].n = task[w].n
<1>1. task[w] # NULL
  BY DEF Work, Load, LoadFails, Throw, Handle, Send, Track, TrackFails, Save, SaveFails,
     SaveCache, At
<1>2. GoodTask(task[w]) /\ task \in [Workers -> Task \cup {NULL}] /\ task[w] \in Task
  BY <1>1, TypedGives DEF Typed, TypeOK, GoodTask
<1>3. ASSUME NEW t, task' = [task EXCEPT ![w] = t], t = NULL \/ t.n = task[w].n
      PROVE  /\ \A v \in Workers \ {w} : task'[v] = task[v]
             /\ task'[w] # NULL => task'[w].n = task[w].n
  BY <1>2, <1>3
<1>4. \E t : task' = [task EXCEPT ![w] = t] /\ (t = NULL \/ t.n = task[w].n)
  <2>1. ASSUME NEW p, To(w, p)
        PROVE  \E t : task' = [task EXCEPT ![w] = t] /\ (t = NULL \/ t.n = task[w].n)
    <3> DEFINE t == [task[w] EXCEPT !.phase = p]
    <3>1. task' = [task EXCEPT ![w] = t]
      BY <2>1 DEF To
    <3>2. t.n = task[w].n
      BY <1>2 DEF Task
    <3> HIDE DEF t
    <3> QED BY <3>1, <3>2
  <2>2. ASSUME NEW b, AfterHandler(w, b)
        PROVE  \E t : task' = [task EXCEPT ![w] = t] /\ (t = NULL \/ t.n = task[w].n)
    <3> DEFINE t == [task[w] EXCEPT !.threw = b,
                                     !.phase = IF task[w].degraded THEN "cache" ELSE "save"]
    <3>1. task' = [task EXCEPT ![w] = t]
      BY <2>2 DEF AfterHandler
    <3>2. t.n = task[w].n
      BY <1>2 DEF Task
    <3> HIDE DEF t
    <3> QED BY <3>1, <3>2
  <2>3. CASE Load(w)
    <3> DEFINE c == IF row # NULL THEN row.data ELSE Cached(w)
    <3> DEFINE t == [task[w] EXCEPT !.phase = "handle", !.copy = c]
    <3>1. task' = [task EXCEPT ![w] = t]
      BY <2>3 DEF Load
    <3>2. t.n = task[w].n
      BY <1>2 DEF Task
    <3> HIDE DEF t
    <3> QED BY <3>1, <3>2
  <2>4. CASE LoadFails(w)
    <3> DEFINE t == [task[w] EXCEPT !.phase = "handle", !.copy = Cached(w), !.degraded = TRUE]
    <3>1. task' = [task EXCEPT ![w] = t]
      BY <2>4 DEF LoadFails
    <3>2. t.n = task[w].n
      BY <1>2 DEF Task
    <3> HIDE DEF t
    <3> QED BY <3>1, <3>2
  <2>5. CASE Handle(w)
    <3>1. CASE task' = [task EXCEPT ![w].copy.asked = task[w].n, ![w].phase = "send"]
      <4> DEFINE c == [task[w].copy EXCEPT !.asked = task[w].n]
      <4> DEFINE t == [task[w] EXCEPT !.copy = c, !.phase = "send"]
      <4>1. task' = [task EXCEPT ![w] = t]
        BY <3>1, <1>2
      <4>2. t.n = task[w].n
        BY <1>2 DEF Task
      <4> HIDE DEF t
      <4> QED BY <4>1, <4>2
    <3> QED BY <2>1, <2>2, <2>5, <3>1 DEF Handle
  <2>6. CASE Throw(w) \/ Send(w) \/ Track(w) \/ TrackFails(w)
    BY <2>1, <2>2, <2>6 DEF Throw, Send, Track, TrackFails
  <2>7. CASE Save(w) \/ SaveFails(w) \/ SaveCache(w)
    BY <2>1, <2>7 DEF Save, SaveFails, SaveCache, AfterSave
  <2> QED BY <2>3, <2>4, <2>5, <2>6, <2>7 DEF Work
<1>5. UNCHANGED <<updates, jobs>>
  BY DEF Work, Load, LoadFails, Throw, Handle, Send, Track, TrackFails, Save, SaveFails, SaveCache
<1> QED BY <1>1, <1>2, <1>3, <1>4, <1>5

\* The steps of a handler, told apart by what they do to the row, the cache and its copy.
\* It takes its copy,
Loads(w) ==
    /\ At(w, "load") /\ task'[w] # NULL /\ task'[w].phase = "handle" /\ UNCHANGED <<row, cache>>
    /\ \/ /\ task'[w].copy = IF row # NULL THEN row.data ELSE Cached(w)
          /\ task'[w].degraded = task[w].degraded
       \/ task'[w].copy = Cached(w) /\ task'[w].degraded /\ Occurs("connect")

\* goes on with it, or with a payment asked for,
Goes(w) ==
    /\ task[w].phase \in {"handle", "send", "track"} /\ task'[w] # NULL
    /\ task'[w].phase \in {"send", "track", "save", "cache"}
    /\ task'[w].degraded = task[w].degraded
    /\ \/ task'[w].copy = task[w].copy
       \/ At(w, "handle") /\ task'[w].copy = [task[w].copy EXCEPT !.asked = task[w].n]
    /\ UNCHANGED <<row, cache>>

\* notes the step in the row,
Tracks(w) ==
    /\ At(w, "track") /\ task'[w] # NULL
    /\ task'[w].phase = IF task[w].degraded THEN "cache" ELSE "save"
    /\ task'[w].degraded = task[w].degraded /\ task'[w].copy = task[w].copy
    /\ row' = [data |-> IF row = NULL THEN Empty ELSE row.data,
               step |-> task[w].n, quiet |-> FALSE, nudged |-> FALSE]
    /\ UNCHANGED cache

\* saves its copy into the row,
Saves(w) ==
    /\ At(w, "save")
    /\ \/ row' = Stored(task[w].copy)
       \/ row' = row /\ Occurs("save")
    /\ \/ task'[w] = NULL
       \/ /\ task'[w] # NULL /\ task'[w].phase = "cache"
          /\ task'[w].degraded = task[w].degraded /\ task'[w].copy = task[w].copy
    /\ UNCHANGED cache

\* and into the cache.
Caches(w) ==
    /\ At(w, "cache") /\ task'[w] = NULL
    /\ UNCHANGED row /\ (cache' = cache \/ cache' = task[w].copy)

\* There are no others.
LEMMA WorkGives ==
    ASSUME Typed, NEW w \in Workers, Work(w)
    PROVE  Loads(w) \/ Goes(w) \/ Tracks(w) \/ Saves(w) \/ Caches(w)
<1>1. /\ task \in [Workers -> Task \cup {NULL}] /\ task[w] \in Task /\ task[w] # NULL
      /\ NULL \notin Task
      /\ task' \in [Workers -> Task \cup {NULL}]
  BY WorkAlone, WorkTyped, TypedGives DEF Typed, TypeOK, GoodTask
<1>2. ASSUME NEW p \in {"send", "track", "cache"}, To(w, p)
      PROVE  /\ task'[w] # NULL /\ task'[w].phase = p
             /\ task'[w].degraded = task[w].degraded /\ task'[w].copy = task[w].copy
  <2>1. task' = [task EXCEPT ![w] = [task[w] EXCEPT !.phase = p]]
    BY <1>2 DEF To
  <2>2. task'[w] = [task[w] EXCEPT !.phase = p]
    BY <1>1, <2>1
  <2>3. task'[w] \in Task
    BY <1>1, <2>2 DEF Task
  <2> QED BY <1>1, <2>2, <2>3 DEF Task
<1>3. ASSUME NEW b \in BOOLEAN, AfterHandler(w, b)
      PROVE  /\ task'[w] # NULL /\ task'[w].phase = IF task[w].degraded THEN "cache" ELSE "save"
             /\ task'[w].degraded = task[w].degraded /\ task'[w].copy = task[w].copy
  <2> DEFINE p == IF task[w].degraded THEN "cache" ELSE "save"
  <2>2. task'[w] = [task[w] EXCEPT !.threw = b, !.phase = p]
    BY <1>1, <1>3 DEF AfterHandler
  <2>3. task'[w] \in Task
    BY <1>1, <2>2 DEF Task
  <2> QED BY <1>1, <2>2, <2>3 DEF Task
<1>4. CASE Load(w) \/ LoadFails(w)
  <2>1. task'[w].phase = "handle" /\ UNCHANGED <<row, cache>> /\ At(w, "load")
    BY <1>1, <1>4 DEF Load, LoadFails, Task
  <2>2. \/ /\ task'[w].copy = IF row # NULL THEN row.data ELSE Cached(w)
           /\ task'[w].degraded = task[w].degraded
        \/ task'[w].copy = Cached(w) /\ task'[w].degraded /\ Occurs("connect")
    BY <1>1, <1>4 DEF Load, LoadFails, Task
  <2>3. task'[w] # NULL
    BY <1>1, <1>4 DEF Load, LoadFails, Task
  <2> QED BY <2>1, <2>2, <2>3 DEF Loads
<1>5. CASE Throw(w) \/ Send(w) \/ TrackFails(w)
  BY <1>2, <1>3, <1>5 DEF Throw, Send, TrackFails, Goes, At
<1>6. CASE Handle(w)
  <2>1. CASE task' = [task EXCEPT ![w].copy.asked = task[w].n, ![w].phase = "send"]
    <3> DEFINE c == [task[w].copy EXCEPT !.asked = task[w].n]
    <3>1. task'[w] = [task[w] EXCEPT !.copy = c, !.phase = "send"]
      BY <1>1, <2>1
    <3>2. task'[w].copy = c /\ task'[w].phase = "send" /\ task'[w].degraded = task[w].degraded
      <4> HIDE DEF c
      <4> QED BY <1>1, <3>1 DEF Task
    <3>5. c \in Data
      BY <1>1, <1>6, TypedGives DEF Handle, At, GoodTask, Task, Data, Updates
    <3>3. task'[w] # NULL
      <4> HIDE DEF c
      <4>1. task'[w] \in Task
        BY <1>1, <3>1, <3>5 DEF Task
      <4> QED BY <1>1, <4>1
    <3>4. UNCHANGED <<row, cache>> /\ At(w, "handle")
      BY <1>6 DEF Handle
    <3> QED BY <3>2, <3>3, <3>4 DEF Goes, At
  <2> QED BY <1>2, <1>3, <1>6, <2>1 DEF Handle, Goes, At
<1>7. CASE Track(w)
  BY <1>3, <1>7 DEF Track, Tracks
<1>8. CASE Save(w) \/ SaveFails(w)
  <2>1. \/ task'[w] = NULL
        \/ /\ task'[w] # NULL /\ task'[w].phase = "cache"
           /\ task'[w].degraded = task[w].degraded /\ task'[w].copy = task[w].copy
    BY <1>1, <1>2, <1>8 DEF Save, SaveFails, AfterSave
  <2> QED BY <1>8, <2>1 DEF Save, SaveFails, Saves
<1>9. CASE SaveCache(w)
  BY <1>1, <1>9 DEF SaveCache, Caches
<1> QED BY <1>4, <1>5, <1>6, <1>7, <1>8, <1>9 DEF Work

\* The row and the runs of the jobs, by their parts.
LEMMA RecordsTyped ==
    ASSUME Typed
    PROVE  /\ row # NULL => row \in Row /\ row.data \in Data
           /\ followUp # NULL => followUp \in FollowUp /\ row # NULL
           /\ \A t \in Ticks : tick[t] # NULL => tick[t] \in Tick /\ row # NULL
           /\ tick \in [Ticks -> Tick \cup {NULL}] /\ task \in [Workers -> Task \cup {NULL}]
           /\ MaxUpdates \in Nat /\ MaxPlanned \in Nat /\ updates \in Nat /\ planned \in Nat
           /\ \A w \in Workers : task[w] # NULL => /\ task[w] \in Task /\ task[w].n \in Nat
                                                   /\ task[w].copy # NULL => task[w].copy \in Data
           /\ NULL \notin Task /\ NULL \notin Data /\ NULL \notin Row /\ NULL \notin FollowUp
           /\ NULL \notin Tick
           /\ createDefaultState \in Data /\ Empty \in Data
BY NullAssumption, SessionsAssumption DEF Typed, TypeOK, Row, Task, Updates, Data,
   createDefaultState, Empty

\* The row is never deleted.
LEMMA RowKept ==
    ASSUME Typed, [Next]_vars, row # NULL
    PROVE  row' # NULL
<1>1. /\ row \in Row /\ row.data \in Data /\ NULL \notin Row
      /\ planned \in Nat /\ MaxPlanned \in Nat
      /\ \A w \in Workers : task[w] # NULL => /\ task[w] \in Task /\ task[w].n \in Updates
                                              /\ task[w].copy # NULL => task[w].copy \in Data
  BY RecordsTyped DEF Task
<1>2. CASE row' = row
  BY <1>2
<1>3. ASSUME NEW d \in Data, row' = [row EXCEPT !.data = d]
      PROVE  row' # NULL
  <2>1. row' \in Row
    BY <1>1, <1>3 DEF Row
  <2> QED BY <1>1, <2>1
<1>4. ASSUME NEW w \in Workers, Track(w)
      PROVE  row' # NULL
  <2>1. row' \in Row
    BY <1>1, <1>4 DEF Track, At, Row, Updates
  <2> QED BY <1>1, <2>1
<1>5. ASSUME NEW w \in Workers, Save(w)
      PROVE  row' # NULL
  <2>1. task[w].copy \in Data
    BY <1>5, TypedGives DEF Save, At, GoodTask, Task
  <2>2. row' = [row EXCEPT !.data = task[w].copy]
    BY <1>5 DEF Save, Stored
  <2> QED BY <1>3, <2>1, <2>2
<1>6. ASSUME NEW p \in 0 .. MaxPlanned, row' = [row EXCEPT !.data.told = p]
      PROVE  row' # NULL
  <2> DEFINE d == [row.data EXCEPT !.told = p]
  <2>1. d \in Data
    BY <1>1 DEF Data
  <2>2. row' = [row EXCEPT !.data = d]
    BY <1>1, <1>6
  <2> HIDE DEF d
  <2> QED BY <1>3, <2>1, <2>2
<1>7. CASE planReminder
  <2>1. CASE shouldSendReminder(row.data)
    <3>1. planned' \in 0 .. MaxPlanned
      BY <1>1, <1>7, <2>1 DEF planReminder
    <3>2. row' = [row EXCEPT !.data.told = planned']
      BY <1>7, <2>1 DEF planReminder
    <3> QED BY <1>6, <3>1, <3>2
  <2> QED BY <1>2, <1>7, <2>1 DEF planReminder
<1>8. CASE revertReminderFlag
  <2>1. 0 \in 0 .. MaxPlanned
    BY <1>1
  <2> QED BY <1>2, <1>6, <1>8, <2>1 DEF revertReminderFlag
<1>9. CASE GoesQuiet \/ \E t \in Ticks : markNudged(t)
  <2>1. row' \in Row
    BY <1>1, <1>9 DEF GoesQuiet, markNudged, Row
  <2> QED BY <1>1, <2>1
<1>10. \/ row' = row \/ planReminder \/ revertReminderFlag \/ GoesQuiet
       \/ \E t \in Ticks : markNudged(t)
       \/ \E w \in Workers : Track(w) \/ Save(w)
  BY Zenon DEF Next, Work, Load, LoadFails, Throw, Handle, Send, TrackFails, SaveFails,
     SaveCache, Receive, CacheExpires, BecomesDue, fetchPendingSubscriptions, FollowUpStep,
     PlanFails, SendReminder, fetchPendingSessions, TickStep, deliverNudge, Crash, vars
<1> QED BY <1>2, <1>4, <1>5, <1>7, <1>8, <1>9, <1>10

\* Without an overlap, what begins begins when nothing else is in flight.
LEMMA AloneStep ==
    ASSUME Typed, Alone, Next, ~Met({"overlap"})'
    PROVE  Alone'
<1>0. /\ tick \in [Ticks -> Tick \cup {NULL}] /\ task \in [Workers -> Task \cup {NULL}]
      /\ updates \in Nat /\ TypeOK
  BY RecordsTyped DEF Typed
<1>b. Begins => Idle
  BY <1>0, BeginsAlone, "overlap" \in {"overlap"}
<1>1. ASSUME NEW w \in Workers, Work(w)
      PROVE  Alone'
  <2>1. /\ task[w] # NULL /\ UNCHANGED <<updates, followUp, tick>>
        /\ \A v \in Workers \ {w} : task'[v] = task[v]
        /\ task'[w] # NULL => task'[w].n = task[w].n
    BY <1>1, WorkAlone DEF jobs
  <2> QED BY <2>1 DEF Alone
<1>2. ASSUME NEW w \in Workers, NEW kind \in {"plain", "step", "subscribe"}, Receive(w, kind)
      PROVE  Alone'
  <2>1. /\ \A v \in Workers : task[v] = NULL
        /\ followUp = NULL /\ \A t \in Ticks : tick[t] = NULL
    BY <1>2, <1>b DEF Receive, Idle
  <2>2. UNCHANGED <<followUp, tick>> /\ task'[w].n = updates'
          /\ \A v \in Workers \ {w} : task'[v] = task[v]
    BY <1>0, <1>2 DEF Receive, jobs
  <2> QED BY <2>1, <2>2 DEF Alone
<1>3. CASE fetchPendingSubscriptions
  BY <1>3, <1>b DEF fetchPendingSubscriptions, Alone, Idle
<1>4. ASSUME NEW t \in Ticks, fetchPendingSessions(t)
      PROVE  Alone'
  BY <1>0, <1>4, <1>b DEF fetchPendingSessions, Alone, Idle
<1>5. CASE FollowUpStep
  BY <1>5 DEF FollowUpStep, planReminder, Planning, PlanFails, SendReminder, revertReminderFlag,
     Alone
<1>6. ASSUME NEW t \in Ticks, TickStep(t)
      PROVE  Alone'
  <2>1. /\ tick[t] # NULL /\ \A u \in Ticks \ {t} : tick'[u] = tick[u]
        /\ UNCHANGED <<task, updates, followUp>>
    BY <1>0, <1>6 DEF TickStep, deliverNudge, markNudged
  <2> QED BY <2>1 DEF Alone
<1>7. CASE CacheExpires \/ BecomesDue \/ GoesQuiet
  BY <1>7 DEF CacheExpires, BecomesDue, GoesQuiet, jobs, Alone
<1>8. CASE Crash
  BY <1>8 DEF Crash, Alone
<1> QED BY <1>1, <1>2, <1>3, <1>4, <1>5, <1>6, <1>7, <1>8 DEF Next

\* Without an overlap, nobody writes the row while an update has its copy.
LEMMA FollowsStep ==
    ASSUME Typed, Alone, NoRow, Follows, Next, ~Met({"overlap"})'
    PROVE  NoRow' /\ Follows'
<1>0. /\ tick \in [Ticks -> Tick \cup {NULL}] /\ task \in [Workers -> Task \cup {NULL}]
      /\ updates \in Nat /\ TypeOK
  BY RecordsTyped DEF Typed
<1>t. /\ row' # NULL => row' \in Row /\ row'.data \in Data
      /\ NULL \notin Row
      /\ row # NULL => row \in Row /\ row.data \in Data
  <2>1. Typed'
    BY NextTyped
  <2> QED BY <2>1, RecordsTyped DEF Typed, TypeOK, Row
<1>b. Begins => Idle
  BY <1>0, BeginsAlone, "overlap" \in {"overlap"}
<1>1. ASSUME NEW w \in Workers, Work(w)
      PROVE  NoRow' /\ Follows'
  <2>0. /\ task[w] # NULL /\ GoodTask(task[w]) /\ task[w].n = updates /\ task[w] \in Task
        /\ \A v \in Workers \ {w} : task[v] = NULL /\ task'[v] = NULL
    BY <1>1, WorkAlone DEF Alone, GoodTask
  <2>1. /\ row # NULL => row \in Row /\ row.data \in Data /\ row.data.asked <= updates
        /\ task[w].copy # NULL => task[w].copy \in Data /\ task[w].copy.asked <= updates
        /\ NULL \notin Row
    BY <2>0, RecordsTyped, TypedGives DEF GoodRow, GoodTask
  <2> DEFINE Good == /\ row' = NULL => /\ cache' # NULL => cache'.told = 0
                                       /\ task'[w] # NULL /\ task'[w].copy # NULL =>
                                            task'[w].copy.told = 0
                     /\ task'[w] # NULL /\ task'[w].phase # "load" /\ ~task'[w].degraded
                          /\ row' # NULL =>
                          /\ task'[w].copy.told = row'.data.told
                          /\ task'[w].copy.asked >= row'.data.asked
  <2>2. row = NULL => /\ cache # NULL => cache.told = 0
                      /\ task[w].copy # NULL => task[w].copy.told = 0
    BY <2>0 DEF NoRow
  <2>3. task[w].phase # "load" /\ ~task[w].degraded /\ row # NULL =>
             /\ task[w].copy.told = row.data.told
             /\ task[w].copy.asked >= row.data.asked
    BY <2>0 DEF Follows
  <2>4. ASSUME Loads(w) PROVE Good
    <3>1. row = NULL => Cached(w).told = 0
      BY <2>2 DEF Cached, createDefaultState
    <3>2. row # NULL => row.data.asked >= row.data.asked
      BY <2>1 DEF Data
    <3>3. UNCHANGED <<row, cache>> /\ task'[w].phase = "handle"
          /\ \/ /\ task'[w].copy = IF row # NULL THEN row.data ELSE Cached(w)
             \/ task'[w].copy = Cached(w) /\ task'[w].degraded
      BY <2>4 DEF Loads
    <3> QED BY <2>2, <3>1, <3>2, <3>3
  <2>5. ASSUME Goes(w) PROVE Good
    <3>1. task[w].copy \in Data /\ task[w].phase # "load"
      BY <2>0, <2>1, <2>5 DEF Goes, GoodTask
    <3>2. \/ task'[w].copy = task[w].copy
          \/ /\ task'[w].copy.told = task[w].copy.told /\ task'[w].copy.asked = task[w].n
      BY <2>5, <3>1 DEF Goes, Data
    <3>3. UNCHANGED <<row, cache>> /\ task'[w].degraded = task[w].degraded
      BY <2>5 DEF Goes
    <3>4. row # NULL => task[w].n >= row.data.asked
      BY <2>0, <2>1, <1>0 DEF Data
    <3>5. task[w].copy # NULL /\ task[w].copy.asked \in Nat
      BY <3>1, RecordsTyped DEF Data
    <3>6. row' = NULL => cache' = cache /\ row = NULL
      BY <3>3
    <3>7. row' # NULL /\ ~task'[w].degraded =>
            task'[w].copy.told = row'.data.told /\ task'[w].copy.asked >= row'.data.asked
      BY <2>3, <3>1, <3>2, <3>3, <3>4
    <3> QED BY <2>2, <3>2, <3>5, <3>6, <3>7
  <2>6. ASSUME Tracks(w) PROVE Good
    <3>1. task[w].copy \in Data /\ task[w].phase # "load"
      BY <2>0, <2>1, <2>6 DEF Tracks, At, GoodTask
    <3>2. /\ row'.data = IF row = NULL THEN Empty ELSE row.data
          /\ task'[w].copy = task[w].copy /\ task'[w].degraded = task[w].degraded
      BY <2>6 DEF Tracks
    <3>3. row' # NULL
      <4>1. row' \in Row
        BY <1>0, <2>0, <2>1, <2>6, RecordsTyped DEF Tracks, Row, Task, Updates
      <4> QED BY <1>t, <4>1
    <3>4. row = NULL => task[w].copy.told = 0 /\ task[w].copy.asked >= 0
      BY <2>2, <2>1, <3>1, RecordsTyped DEF Data
    <3> QED BY <2>3, <3>1, <3>2, <3>3, <3>4 DEF Empty
  <2>7. ASSUME Saves(w) PROVE Good
    <3>1. task[w].copy \in Data /\ task[w].phase # "load" /\ ~task[w].degraded
      BY <2>0, <2>1, <2>7 DEF Saves, At, GoodTask
    <3>2. \/ row' = row
          \/ row'.data = task[w].copy
      BY <1>t, <2>7 DEF Saves, Stored, Row
    <3>3. task'[w] # NULL => task'[w].copy = task[w].copy /\ task'[w].degraded = task[w].degraded
      BY <2>7 DEF Saves
    <3>4. cache' = cache
      BY <2>7 DEF Saves
    <3>5. task[w].copy.asked >= task[w].copy.asked
      BY <3>1 DEF Data
    <3>6. task[w].copy # NULL /\ (row' = NULL => row = NULL)
      <4>1. row # NULL => Stored(task[w].copy) \in Row
        BY <1>t, <3>1 DEF Stored, Row
      <4> QED BY <1>t, <3>1, <4>1, <2>7, RecordsTyped DEF Saves
    <3> QED BY <2>2, <2>3, <3>1, <3>2, <3>3, <3>4, <3>5, <3>6
  <2>8. ASSUME Caches(w) PROVE Good
    BY <2>0, <2>2, <2>8 DEF Caches, At, GoodTask
  <2>9. Good
    BY <1>1, WorkGives, <2>4, <2>5, <2>6, <2>7, <2>8
  <2> QED BY <2>0, <2>9 DEF NoRow, Follows
<1>2. ASSUME NEW w \in Workers, NEW kind \in {"plain", "step", "subscribe"}, Receive(w, kind)
      PROVE  NoRow' /\ Follows'
  <2>1. \A v \in Workers : task[v] = NULL
    BY <1>2, <1>b DEF Receive, Idle
  <2>2. /\ UNCHANGED <<row, cache>> /\ task'[w].phase = "load" /\ task'[w].copy = cache
        /\ \A v \in Workers \ {w} : task'[v] = NULL
    BY <1>0, <1>2, <2>1 DEF Receive
  <2> QED BY <2>2 DEF NoRow, Follows
<1>3. CASE fetchPendingSubscriptions \/ \E t \in Ticks : fetchPendingSessions(t)
  BY <1>3 DEF fetchPendingSubscriptions, fetchPendingSessions, NoRow, Follows
<1>5. CASE FollowUpStep
  <2>1. followUp # NULL /\ UNCHANGED <<task, cache>>
    BY <1>5 DEF FollowUpStep, planReminder, Planning, PlanFails, SendReminder, revertReminderFlag
  <2>2. row # NULL /\ row \in Row /\ \A w \in Workers : task[w] = NULL
    BY <2>1, RecordsTyped DEF Alone
  <2>3. row' # NULL
    BY <2>2, RowKept
  <2> QED BY <2>1, <2>2, <2>3 DEF NoRow, Follows
<1>6. CASE GoesQuiet \/ \E t \in Ticks : TickStep(t)
  <2>1. row # NULL /\ row \in Row
    BY <1>0, <1>6, RecordsTyped DEF GoesQuiet, TickStep, deliverNudge, markNudged
  <2>2. row'.data = row.data /\ UNCHANGED <<task, cache>>
    BY <1>6, <2>1 DEF GoesQuiet, TickStep, deliverNudge, markNudged, Row
  <2>3. row' # NULL
    BY <2>1, RowKept
  <2> QED BY <2>1, <2>2, <2>3 DEF NoRow, Follows
<1>7. CASE CacheExpires \/ BecomesDue
  BY <1>7 DEF CacheExpires, BecomesDue, jobs, NoRow, Follows
<1>8. CASE Crash
  BY <1>8 DEF Crash, NoRow, Follows
<1> QED BY <1>1, <1>2, <1>3, <1>5, <1>6, <1>7, <1>8 DEF Next

\* What a step of a handler leaves of the stored subscription.
LEMMA WorkKeeps ==
    ASSUME Typed, Alone, Follows, NEW w \in Workers, Work(w), row # NULL
    PROVE  row'.data.told = row.data.told /\ row'.data.asked >= row.data.asked
<1>1. row.data \in Data /\ row \in Row
  BY RecordsTyped
<1>2. row.data.asked >= row.data.asked
  BY <1>1 DEF Data
<1>3. CASE UNCHANGED row
  BY <1>2, <1>3
<1>4. CASE Tracks(w)
  BY <1>2, <1>4 DEF Tracks
<1>5. CASE Saves(w)
  <2>1. /\ task[w].copy.told = row.data.told /\ task[w].copy.asked >= row.data.asked
    BY <1>5, WorkAlone DEF Saves, At, GoodTask, Follows
  <2>2. row' = row \/ row'.data = task[w].copy
    BY <1>1, <1>5 DEF Saves, Stored, Row
  <2> QED BY <1>2, <2>1, <2>2
<1> QED BY WorkGives, <1>3, <1>4, <1>5 DEF Loads, Goes, Caches

\* What the payment job leaves of the row.
LEMMA FollowUpKeeps ==
    ASSUME Typed, FollowUpStep
    PROVE  /\ row # NULL /\ row' # NULL /\ followUp # NULL
           /\ UNCHANGED <<task, cache, updates, tick, nudges>>
           /\ row'.data.list = row.data.list /\ row'.data.asked = row.data.asked
           /\ row'.step = row.step /\ row'.nudged = row.nudged
<1>1. followUp # NULL /\ row # NULL /\ row \in Row /\ row.data \in Data
  <2>1. followUp # NULL
    BY DEF FollowUpStep, planReminder, Planning, PlanFails, SendReminder, revertReminderFlag
  <2> QED BY <2>1, RecordsTyped
<1>2. row' # NULL
  BY <1>1, RowKept DEF Next
<1>3. ASSUME NEW p, row' = [row EXCEPT !.data.told = p]
      PROVE  /\ row'.data.list = row.data.list /\ row'.data.asked = row.data.asked
             /\ row'.step = row.step /\ row'.nudged = row.nudged
  <2> DEFINE d == [row.data EXCEPT !.told = p]
  <2>1. d.list = row.data.list /\ d.asked = row.data.asked
    BY <1>1 DEF Data
  <2>2. row' = [row EXCEPT !.data = d]
    BY <1>1, <1>3
  <2> HIDE DEF d
  <2>3. row'.data = d /\ row'.step = row.step /\ row'.nudged = row.nudged
    BY <1>1, <2>2 DEF Row
  <2> QED BY <2>1, <2>3
<1>4. /\ UNCHANGED <<task, cache, updates, tick, nudges>>
      /\ row' = row \/ \E p : row' = [row EXCEPT !.data.told = p]
  BY DEF FollowUpStep, planReminder, PlanFails, SendReminder, revertReminderFlag
<1> QED BY <1>1, <1>2, <1>3, <1>4

\* What the nudger and the clock leave of it.
LEMMA TicksKeep ==
    ASSUME Typed, GoesQuiet \/ \E t \in Ticks : TickStep(t)
    PROVE  /\ row # NULL /\ row' # NULL /\ UNCHANGED <<task, cache, updates, followUp, reminded>>
           /\ row'.data = row.data /\ row'.step = row.step
           /\ GoesQuiet => row'.nudged = row.nudged /\ UNCHANGED <<tick, nudges>>
<1>1. row # NULL /\ row \in Row /\ row.data \in Data
  <2>1. row # NULL
    BY RecordsTyped DEF GoesQuiet, TickStep, deliverNudge, markNudged
  <2> QED BY <2>1, RecordsTyped
<1>2. row' # NULL
  BY <1>1, RowKept DEF Next
<1>3. CASE GoesQuiet
  BY <1>1, <1>2, <1>3 DEF GoesQuiet, jobs, Row
<1>4. ASSUME NEW t \in Ticks, TickStep(t), ~GoesQuiet
      PROVE  /\ UNCHANGED <<task, cache, updates, followUp, reminded>>
             /\ row'.data = row.data /\ row'.step = row.step
  BY <1>1, <1>4 DEF TickStep, deliverNudge, markNudged, Row
<1> QED BY <1>1, <1>2, <1>3, <1>4

\* A reminder is noted before it is sent, and only when none was noted: one for each payment.
LEMMA RemindStep ==
    ASSUME Typed, Calm, RemindInv, RemindedOnce, Next, ~Met({"telegram", "overlap"})'
    PROVE  RemindInv' /\ RemindedOnce'
<1>0. /\ TypeOK /\ ~Met({"telegram", "overlap"}) /\ ~Met({"overlap"})
      /\ ~Occurs("telegram")
  BY MetStays, MetMore, MetAfter DEF Typed
<1>1. /\ Alone /\ NoRow /\ Follows /\ Unsent
      /\ followUp # NULL /\ followUp.phase = "send" => row.data.told # 0
      /\ followUp # NULL => followUp.phase # "revert"
      /\ \A r \in Updates : reminded[r] <= 1
  BY <1>0 DEF Calm, RemindInv, RemindedOnce
<1> DEFINE Goal == /\ Unsent'
                   /\ followUp' # NULL /\ followUp'.phase = "send" => row'.data.told # 0
                   /\ followUp' # NULL => followUp'.phase # "revert"
                   /\ \A r \in Updates : reminded'[r] <= 1
<1>2. SUFFICES Goal
  BY DEF RemindInv, RemindedOnce
<1>3. ASSUME NEW w \in Workers, Work(w)
      PROVE  Goal
  <2>1. UNCHANGED jobs /\ followUp = NULL
    BY <1>1, <1>3, WorkAlone DEF Alone
  <2>2. row # NULL => row'.data.told = row.data.told
    BY <1>1, <1>3, WorkKeeps
  <2>3. followUp' = NULL /\ reminded' = reminded
    BY <2>1 DEF jobs
  <2>4. row' = NULL \/ row'.data.told = 0 => row = NULL \/ row.data.told = 0
    BY <1>3, <2>2, RowKept DEF Next
  <2> QED BY <1>1, <2>3, <2>4 DEF Unsent
<1>4. CASE \E w \in Workers : \E kind \in {"plain", "step", "subscribe"} : Receive(w, kind)
  BY <1>1, <1>4 DEF Receive, Unsent, jobs
<1>5. CASE CacheExpires \/ BecomesDue \/ \E t \in Ticks : fetchPendingSessions(t)
  BY <1>1, <1>5 DEF CacheExpires, BecomesDue, fetchPendingSessions, Unsent, jobs
<1>6. CASE fetchPendingSubscriptions
  BY <1>1, <1>6 DEF fetchPendingSubscriptions, Unsent
<1>7. CASE planReminder
  <2>1. followUp # NULL /\ followUp.phase = "plan" /\ reminded' = reminded
    BY <1>7 DEF planReminder, Planning
  <2>2. row # NULL /\ row \in Row /\ row.data \in Data
    BY <2>1, RecordsTyped
  <2>3. CASE shouldSendReminder(row.data)
    <3>1. planned' # 0 /\ row' = [row EXCEPT !.data.told = planned'] /\ followUp'.phase = "send"
      BY <1>7, <2>3, RecordsTyped DEF planReminder
    <3>2. row'.data.told = planned'
      <4> DEFINE d == [row.data EXCEPT !.told = planned']
      <4>1. d.told = planned'
        BY <2>2 DEF Data
      <4>2. row' = [row EXCEPT !.data = d]
        BY <2>2, <3>1
      <4> HIDE DEF d
      <4>3. row'.data = d
        BY <2>2, <4>2 DEF Row
      <4> QED BY <4>1, <4>3
    <3>3. \A r \in Updates : reminded[r] = 0
      BY <1>1, <2>3 DEF Unsent, shouldSendReminder
    <3> QED BY <2>1, <3>1, <3>2, <3>3 DEF Unsent
  <2>4. CASE ~shouldSendReminder(row.data)
    <3>1. followUp' = NULL /\ row' = row
      BY <1>7, <2>4 DEF planReminder
    <3> QED BY <1>1, <2>1, <3>1 DEF Unsent
  <2> QED BY <2>3, <2>4
<1>8. CASE PlanFails
  BY <1>1, <1>8 DEF PlanFails, Unsent
<1>9. CASE SendReminder
  <2>1. /\ followUp # NULL /\ followUp.phase = "send" /\ row' = row
        /\ Deliver(followUp.asked) /\ followUp' = NULL
    BY <1>0, <1>9 DEF SendReminder
  <2>2. row # NULL /\ row.data.told # 0 /\ reminded \in [Updates -> 0 .. 2]
        /\ \A r \in Updates : reminded[r] = 0
    BY <1>1, <2>1, RecordsTyped DEF Typed, TypeOK, Unsent
  <2>3. \A r \in Updates : reminded'[r] <= 1
    BY <2>1, <2>2 DEF Deliver
  <2> QED BY <2>1, <2>2, <2>3 DEF Unsent
<1>10. CASE revertReminderFlag
  BY <1>1, <1>10 DEF revertReminderFlag
<1>11. CASE GoesQuiet \/ \E t \in Ticks : TickStep(t)
  BY <1>1, <1>11, TicksKeep DEF Unsent
<1>12. CASE Crash
  BY <1>1, <1>12 DEF Crash, Unsent
<1> QED BY <1>3, <1>4, <1>5, <1>6, <1>7, <1>8, <1>9, <1>10, <1>11, <1>12 DEF Next, FollowUpStep

\* A nudge is marked before the next tick looks: one for each step.
LEMMA NudgeStep ==
    ASSUME Typed, Calm, NudgeInv, NudgedOnce, Next, ~Met({"telegram", "db", "crash", "overlap"})'
    PROVE  NudgeInv' /\ NudgedOnce'
<1>0. /\ TypeOK /\ ~Met({"telegram", "db", "crash", "overlap"}) /\ ~Met({"overlap"})
      /\ ~Occurs("telegram") /\ ~Occurs("db") /\ ~Occurs("crash")
      /\ Begins => Idle
  BY MetStays, MetMore, MetAfter, BeginsAlone DEF Typed
<1> DEFINE Fresh == \A w \in Workers :
                      task[w] # NULL /\ task[w].phase \in {"load", "handle", "send", "track"}
                        /\ row # NULL =>
                        row.step < task[w].n
           Marked == \A s \in Updates : nudges[s] # 0 =>
                        /\ row # NULL /\ s <= row.step
                        /\ s = row.step =>
                             row.nudged \/ \E t \in Ticks : tick[t] # NULL /\ tick[t].phase = "mark"
           Ticking == \A t \in Ticks : tick[t] # NULL =>
                        /\ tick[t].step = row.step /\ ~row.nudged
                        /\ tick[t].phase = "send" => nudges[row.step] = 0
           Once == \A s \in Updates : nudges[s] <= 1
<1>1. Alone /\ NoRow /\ Follows /\ Fresh /\ Marked /\ Ticking /\ Once
  BY <1>0 DEF Calm, NudgeInv, NudgedOnce
<1>2. SUFFICES Fresh' /\ Marked' /\ Ticking' /\ Once'
  BY DEF NudgeInv, NudgedOnce
<1>t. /\ tick \in [Ticks -> Tick \cup {NULL}] /\ task \in [Workers -> Task \cup {NULL}]
      /\ nudges \in [Updates -> 0 .. 2] /\ updates \in Nat
      /\ row # NULL => row \in Row /\ row.step \in Nat /\ row.step <= updates
      /\ \A w \in Workers : task[w] # NULL => task[w] \in Task /\ task[w].n \in Nat
      /\ \A s \in Updates : s \in Nat
  BY TypedGives, RecordsTyped DEF Typed, TypeOK, GoodRow, Row, Updates
<1>3. ASSUME NEW w \in Workers, Work(w)
      PROVE  Fresh' /\ Marked' /\ Ticking' /\ Once'
  <2>1. /\ task[w] # NULL /\ UNCHANGED <<tick, nudges>> /\ \A t \in Ticks : tick[t] = NULL
        /\ task[w].n = updates
    BY <1>1, <1>3, WorkAlone DEF Alone, jobs
  <2>2. /\ \A v \in Workers \ {w} : task'[v] = NULL
        /\ task'[w] # NULL => task'[w].n = task[w].n
    BY <1>1, <1>3, WorkAlone DEF Alone
  <2>3. CASE Loads(w) \/ Goes(w) \/ Caches(w)
    <3>1. /\ UNCHANGED row
          /\ task'[w] # NULL => task[w].phase \in {"load", "handle", "send", "track"}
      BY <2>3 DEF Loads, Goes, Caches, At
    <3> QED BY <1>1, <2>1, <2>2, <3>1
  <2>4. CASE Tracks(w)
    <3>1. row' = [data |-> IF row = NULL THEN Empty ELSE row.data,
                  step |-> task[w].n, quiet |-> FALSE, nudged |-> FALSE]
      BY <2>4 DEF Tracks
    <3>2. row'.step = task[w].n /\ row' # NULL
      <4>1. row' \in Row
        BY <2>1, <3>1, RecordsTyped DEF Row, Task, Updates
      <4>2. row'.step = task[w].n
        BY <3>1
      <4> QED BY <4>1, <4>2, RecordsTyped
    <3>3. task'[w] # NULL => task'[w].phase \in {"cache", "save"}
      BY <2>4 DEF Tracks
    <3>4. row # NULL => row.step < task[w].n
      BY <1>1, <2>1, <2>4 DEF Tracks, At
    <3>5. \A s \in Updates : nudges'[s] # 0 => row' # NULL /\ s < row'.step
      BY <1>1, <1>t, <2>1, <3>2, <3>4
    <3>6. Fresh'
      BY <2>2, <3>3
    <3>7. Marked'
      BY <1>t, <2>1, <3>2, <3>5
    <3> QED BY <1>1, <2>1, <3>6, <3>7
  <2>5. CASE Saves(w)
    <3>1. task'[w] # NULL => task'[w].phase = "cache"
      BY <2>5 DEF Saves
    <3>2. row # NULL => row' # NULL /\ row'.step = row.step /\ row'.nudged = row.nudged
      BY <1>3, <1>t, <2>5, RowKept DEF Saves, Stored, Row, Next
    <3>3. Fresh'
      BY <2>2, <3>1
    <3>4. Marked'
      BY <1>1, <2>1, <3>2
    <3> QED BY <1>1, <2>1, <3>3, <3>4
  <2> QED BY <1>3, WorkGives, <2>3, <2>4, <2>5
<1>4. ASSUME NEW w \in Workers, NEW kind \in {"plain", "step", "subscribe"}, Receive(w, kind)
      PROVE  Fresh' /\ Marked' /\ Ticking' /\ Once'
  <2>1. \A v \in Workers : task[v] = NULL
    BY <1>0, <1>4 DEF Receive, Idle
  <2>2. UNCHANGED <<row, tick, nudges>> /\ task'[w].n = updates + 1
          /\ \A v \in Workers \ {w} : task'[v] = NULL
    BY <1>t, <1>4, <2>1 DEF Receive, jobs
  <2>3. row # NULL => row.step < updates + 1
    BY <1>t
  <2> QED BY <1>1, <2>2, <2>3
<1>5. CASE CacheExpires \/ BecomesDue \/ fetchPendingSubscriptions
  BY <1>1, <1>5 DEF CacheExpires, BecomesDue, fetchPendingSubscriptions, jobs
<1>6. CASE FollowUpStep
  <2>1. \A t \in Ticks : tick[t] = NULL
    BY <1>1, <1>6, FollowUpKeeps DEF Alone
  <2>2. /\ row # NULL /\ row' # NULL /\ UNCHANGED <<task, tick, nudges>>
        /\ row'.step = row.step /\ row'.nudged = row.nudged
    BY <1>6, FollowUpKeeps
  <2> QED BY <1>1, <2>1, <2>2
<1>7. CASE GoesQuiet
  <2>1. /\ row # NULL /\ row' # NULL /\ UNCHANGED <<task, tick, nudges>>
        /\ row'.step = row.step /\ row'.nudged = row.nudged
    BY <1>7, TicksKeep
  <2> QED BY <1>1, <2>1
<1>8. ASSUME NEW t \in Ticks, fetchPendingSessions(t)
      PROVE  Fresh' /\ Marked' /\ Ticking' /\ Once'
  <2>1. \A u \in Ticks : tick[u] = NULL
    BY <1>0, <1>8 DEF fetchPendingSessions, Idle
  <2>2. /\ UNCHANGED <<row, task, nudges>> /\ row # NULL /\ ~row.nudged
        /\ tick'[t].step = row.step /\ tick'[t].phase = "send"
        /\ \A u \in Ticks \ {t} : tick'[u] = NULL
    BY <1>t, <1>8, <2>1 DEF fetchPendingSessions
  <2>3. row.step \in Updates
    BY <1>8, TypedGives, RecordsTyped DEF fetchPendingSessions, GoodRow, Row, Updates
  <2>4. nudges[row.step] = 0
    BY <1>1, <2>1, <2>2, <2>3
  <2> QED BY <1>1, <2>1, <2>2, <2>4
<1>9. ASSUME NEW t \in Ticks, deliverNudge(t)
      PROVE  Fresh' /\ Marked' /\ Ticking' /\ Once'
  <2>1. /\ tick[t] # NULL /\ tick[t].phase = "send" /\ UNCHANGED <<row, task>>
        /\ nudges' = [nudges EXCEPT ![tick[t].step] = IF @ < 2 THEN @ + 1 ELSE @]
        /\ tick' = [tick EXCEPT ![t].phase = "mark"]
    BY <1>0, <1>9 DEF deliverNudge
  <2>2. tick[t] \in Tick /\ row # NULL /\ \A u \in Ticks \ {t} : tick[u] = NULL
    BY <1>1, <2>1, RecordsTyped DEF Alone
  <2>3. /\ tick'[t].phase = "mark" /\ tick'[t].step = tick[t].step /\ tick'[t] \in Tick
        /\ \A u \in Ticks \ {t} : tick'[u] = NULL
    BY <1>t, <2>1, <2>2 DEF Tick
  <2>4. tick[t].step = row.step /\ ~row.nudged /\ nudges[row.step] = 0 /\ row.step \in Updates
    BY <1>1, <2>1, <2>2 DEF Tick
  <2>5. nudges'[row.step] = 1 /\ \A s \in Updates \ {row.step} : nudges'[s] = nudges[s]
    BY <1>t, <2>1, <2>4
  <2>6. tick'[t] # NULL
    BY <2>3, RecordsTyped
  <2> QED BY <1>1, <1>t, <2>1, <2>2, <2>3, <2>4, <2>5, <2>6
<1>10. ASSUME NEW t \in Ticks, markNudged(t)
       PROVE  Fresh' /\ Marked' /\ Ticking' /\ Once'
  <2>1. /\ tick[t] # NULL /\ row' = [row EXCEPT !.nudged = TRUE] /\ UNCHANGED <<task, nudges>>
        /\ tick' = [tick EXCEPT ![t] = NULL]
    BY <1>0, <1>10 DEF markNudged
  <2>2. /\ row # NULL /\ row' # NULL /\ row'.step = row.step
        /\ \A u \in Ticks \ {t} : tick[u] = NULL
    BY <1>1, <1>10, <2>1, TicksKeep DEF Alone, TickStep
  <2>3. row'.nudged /\ \A u \in Ticks : tick'[u] = NULL
    BY <1>t, <2>1, <2>2 DEF Row
  <2> QED BY <1>1, <2>1, <2>2, <2>3
<1>11. ~Crash
  BY <1>0 DEF Crash
<1> QED BY <1>3, <1>4, <1>5, <1>6, <1>7, <1>8, <1>9, <1>10, <1>11 DEF Next, TickStep

\* The empty session that a step makes is overwritten by the update that made it.
LEMMA ServeStep ==
    ASSUME Typed, Calm, ServeInv, Next, ~Met({"connect", "crash", "save", "overlap"})'
    PROVE  ServeInv'
<1>0. /\ TypeOK /\ ~Met({"connect", "crash", "save", "overlap"}) /\ ~Met({"overlap"})
      /\ ~Occurs("connect") /\ ~Occurs("crash") /\ ~Occurs("save")
      /\ Begins => Idle
  BY MetStays, MetMore, MetAfter, BeginsAlone DEF Typed
<1> DEFINE Goal == /\ cache' # NULL => cache'.list
                   /\ \A w \in Workers : task'[w] # NULL => ~task'[w].degraded
                   /\ \A w \in Workers : task'[w] # NULL /\ task'[w].copy # NULL =>
                        task'[w].copy.list
                   /\ row' # NULL /\ ~row'.data.list => \E w \in Workers : At(w, "save")'
<1>1. /\ Alone /\ NoRow /\ Follows
      /\ cache # NULL => cache.list
      /\ \A w \in Workers : task[w] # NULL => ~task[w].degraded
      /\ \A w \in Workers : task[w] # NULL /\ task[w].copy # NULL => task[w].copy.list
      /\ row # NULL /\ ~row.data.list => \E w \in Workers : At(w, "save")
  BY <1>0 DEF Calm, ServeInv
<1>2. SUFFICES Goal
  BY DEF ServeInv
<1>t. task \in [Workers -> Task \cup {NULL}]
  BY RecordsTyped
<1>3. ASSUME NEW w \in Workers, Work(w)
      PROVE  Goal
  <2>1. task[w] # NULL /\ task[w] \in Task /\ ~task[w].degraded /\ GoodTask(task[w])
    BY <1>1, <1>3, WorkAlone DEF GoodTask
  <2>2. \A v \in Workers \ {w} : task[v] = NULL /\ task'[v] = NULL
    BY <1>1, <1>3, WorkAlone DEF Alone
  <2>3. ~At(w, "save") /\ row # NULL => row.data.list
    BY <1>1, <2>2 DEF At
  <2>4. task[w].copy # NULL => task[w].copy \in Data /\ task[w].copy.list
    BY <1>1, <2>1, RecordsTyped
  <2> DEFINE Here == /\ cache' # NULL => cache'.list
                     /\ task'[w] # NULL => ~task'[w].degraded
                     /\ task'[w] # NULL /\ task'[w].copy # NULL => task'[w].copy.list
                     /\ row' # NULL /\ ~row'.data.list => At(w, "save")'
  <2>5. ASSUME Loads(w)
        PROVE  Here
    <3>1. /\ UNCHANGED <<row, cache>> /\ task'[w].copy = IF row # NULL THEN row.data ELSE Cached(w)
          /\ ~task'[w].degraded /\ ~At(w, "save")
      BY <1>0, <2>1, <2>5 DEF Loads, At
    <3>2. Cached(w).list
      BY <2>4 DEF Cached, createDefaultState
    <3> QED BY <1>1, <2>3, <3>1, <3>2
  <2>6. ASSUME Goes(w)
        PROVE  Here
    <3>1. task[w].copy # NULL /\ ~At(w, "save")
      BY <2>1, <2>6 DEF Goes, GoodTask, At
    <3>2. task'[w].copy.list
      BY <2>4, <2>6, <3>1 DEF Goes, Data
    <3> QED BY <1>1, <2>1, <2>3, <2>6, <3>1, <3>2 DEF Goes
  <2>7. ASSUME Tracks(w)
        PROVE  Here
    <3>1. /\ task'[w] # NULL /\ task'[w].phase = "save" /\ ~task'[w].degraded
          /\ task'[w].copy = task[w].copy
          /\ cache' = cache
      BY <2>1, <2>7 DEF Tracks
    <3> QED BY <1>1, <2>4, <3>1 DEF At
  <2>8. ASSUME Saves(w)
        PROVE  Here
    <3>1. task[w].copy # NULL /\ row' = Stored(task[w].copy)
      BY <1>0, <2>1, <2>8 DEF Saves, At, GoodTask
    <3>2. row'.data = task[w].copy
      BY <3>1, RecordsTyped DEF Stored, Row
    <3> QED BY <1>1, <2>1, <2>4, <2>8, <3>1, <3>2 DEF Saves
  <2>9. ASSUME Caches(w)
        PROVE  Here
    <3>1. task[w].copy # NULL /\ ~At(w, "save")
      BY <2>1, <2>9 DEF Caches, GoodTask, At
    <3> QED BY <1>1, <2>3, <2>4, <2>9, <3>1 DEF Caches
  <2>10. Here
    BY <1>3, WorkGives, <2>5, <2>6, <2>7, <2>8, <2>9
  <2> QED BY <2>2, <2>10
<1>4. ASSUME NEW w \in Workers, NEW kind \in {"plain", "step", "subscribe"}, Receive(w, kind)
      PROVE  Goal
  <2>1. \A v \in Workers : task[v] = NULL
    BY <1>0, <1>4 DEF Receive, Idle
  <2>2. /\ UNCHANGED <<row, cache>> /\ task'[w].copy = cache /\ ~task'[w].degraded
        /\ \A v \in Workers \ {w} : task'[v] = NULL
    BY <1>t, <1>4, <2>1 DEF Receive
  <2>3. row # NULL => row.data.list
    BY <1>1, <2>1 DEF At
  <2> QED BY <1>1, <2>2, <2>3
<1>5. CASE CacheExpires \/ BecomesDue \/ fetchPendingSubscriptions
             \/ \E t \in Ticks : fetchPendingSessions(t)
  <2>1. UNCHANGED <<row, task>> /\ (cache' = cache \/ cache' = NULL)
    BY <1>5 DEF CacheExpires, BecomesDue, fetchPendingSubscriptions, fetchPendingSessions
  <2> QED BY <1>1, <2>1 DEF At
<1>6. CASE FollowUpStep \/ GoesQuiet \/ \E t \in Ticks : TickStep(t)
  <2>1. row # NULL /\ UNCHANGED <<task, cache>> /\ row'.data.list = row.data.list
    BY <1>6, FollowUpKeeps, TicksKeep
  <2> QED BY <1>1, <2>1 DEF At
<1>7. ~Crash
  BY <1>0 DEF Crash
<1> QED BY <1>3, <1>4, <1>5, <1>6, <1>7 DEF Next

-----------------------------------------------------------------------------
\* The inductive invariant: what holds of the types, of one thing in flight, and of
\* each of the three promises as long as none of its excuses was met.
IInv == Typed /\ Calm /\ RemindInv /\ RemindedOnce /\ NudgeInv /\ NudgedOnce /\ ServeInv

\* The first state has the invariant,
LEMMA InitGives == ASSUME Init PROVE IInv
<1>1. Typed
  BY SessionsAssumption DEF Init, Typed, TypeOK, Counts, Updates
<1>2. Calm
  BY DEF Init, Calm, Alone, NoRow, Follows
<1>3. RemindInv /\ RemindedOnce
  BY DEF Init, RemindInv, RemindedOnce, Unsent
<1>4. NudgeInv /\ NudgedOnce
  BY DEF Init, NudgeInv, NudgedOnce
<1>5. ServeInv
  BY DEF Init, ServeInv
<1> QED BY <1>1, <1>2, <1>3, <1>4, <1>5 DEF IInv

\* every step keeps it,
LEMMA NextKeeps == ASSUME IInv, [Next]_vars PROVE IInv'
<1>1. Typed' /\ TypeOK /\ TypeOK'
  BY NextTyped DEF IInv, Typed
<1>2. CASE Next
  <2>1. Calm'
    <3> SUFFICES ASSUME ~Met({"overlap"})'
                 PROVE  Alone' /\ NoRow' /\ Follows'
      BY DEF Calm
    <3>1. Alone /\ NoRow /\ Follows
      BY <1>1, MetStays DEF IInv, Calm
    <3> QED BY <1>2, <3>1, AloneStep, FollowsStep DEF IInv
  <2>2. RemindInv' /\ RemindedOnce'
    <3>1. CASE Met({"telegram", "overlap"})'
      BY <3>1 DEF RemindInv, RemindedOnce
    <3> QED BY <1>2, <3>1, RemindStep DEF IInv
  <2>3. NudgeInv' /\ NudgedOnce'
    <3>1. CASE Met({"telegram", "db", "crash", "overlap"})'
      BY <3>1 DEF NudgeInv, NudgedOnce
    <3> QED BY <1>2, <3>1, NudgeStep DEF IInv
  <2>4. ServeInv'
    <3>1. CASE Met({"connect", "crash", "save", "overlap"})'
      BY <3>1 DEF ServeInv
    <3> QED BY <1>2, <3>1, ServeStep DEF IInv
  <2> QED BY <1>1, <2>1, <2>2, <2>3, <2>4 DEF IInv
<1>3. CASE UNCHANGED vars
  <2>1. Quiet
    BY <1>3 DEF vars, Quiet
  <2>2. /\ Met({"overlap"})' <=> Met({"overlap"})
        /\ Met({"telegram", "overlap"})' <=> Met({"telegram", "overlap"})
        /\ Met({"telegram", "db", "crash", "overlap"})' <=>
             Met({"telegram", "db", "crash", "overlap"})
        /\ Met({"connect", "crash", "save", "overlap"})' <=>
             Met({"connect", "crash", "save", "overlap"})
    BY <2>1, MetQuiet
  <2>3. UNCHANGED <<row, cache, task, updates, due, followUp, planned, tick, reminded, nudges>>
    BY <1>3 DEF vars, jobs
  <2>4. Calm'
    BY <2>2, <2>3 DEF IInv, Calm, Alone, NoRow, Follows
  <2>5. RemindInv' /\ RemindedOnce'
    BY <2>2, <2>3 DEF IInv, RemindInv, RemindedOnce, Unsent
  <2>6. NudgeInv' /\ NudgedOnce'
    BY <2>2, <2>3 DEF IInv, NudgeInv, NudgedOnce
  <2>7. ServeInv'
    BY <2>2, <2>3 DEF IInv, ServeInv, At
  <2> QED BY <1>1, <2>4, <2>5, <2>6, <2>7 DEF IInv
<1> QED BY <1>2, <1>3

\* and it is enough: a copy that reaches its handler has its list.
LEMMA IInvGives == ASSUME IInv PROVE SessionsSound
<1>1. ServedAgain
  <2> SUFFICES ASSUME ~Met({"connect", "crash", "save", "overlap"}), NEW w \in Workers,
                      At(w, "handle")
               PROVE  task[w].copy.list
    BY DEF ServedAgain
  <2>1. task[w] # NULL /\ task[w].copy # NULL
    BY TypedGives DEF IInv, At, GoodTask
  <2> QED BY <2>1 DEF IInv, ServeInv
<1> QED BY <1>1 DEF IInv, Typed, SessionsSound

\* Without an overlap only the undoing of a reminder takes anything back.
LEMMA KeptStep ==
    ASSUME IInv, Next, row # NULL, ~Met({"overlap"}), ~revertReminderFlag
    PROVE  row'.data.asked >= row.data.asked /\ row'.data.told >= row.data.told
<1>1. Typed /\ Alone /\ NoRow /\ Follows
  BY DEF IInv, Calm
<1>2. /\ row \in Row /\ row.data \in Data /\ row.data.asked >= row.data.asked
      /\ row.data.told >= row.data.told
  <2>1. row \in Row /\ row.data \in Data
    BY <1>1, RecordsTyped
  <2> QED BY <2>1 DEF Data
<1>3. ASSUME NEW w \in Workers, Work(w)
      PROVE  row'.data.asked >= row.data.asked /\ row'.data.told >= row.data.told
  BY <1>1, <1>2, <1>3, WorkKeeps
<1>4. CASE planReminder
  <2>1. CASE shouldSendReminder(row.data)
    <3> DEFINE d == [row.data EXCEPT !.told = planned']
    <3>1. planned' \in Nat /\ row.data.told = 0 /\ row' = [row EXCEPT !.data.told = planned']
      BY <1>1, <1>4, <2>1, RecordsTyped DEF planReminder, shouldSendReminder
    <3>2. d.told = planned' /\ d.asked = row.data.asked
      BY <1>2 DEF Data
    <3>3. row' = [row EXCEPT !.data = d]
      BY <1>2, <3>1
    <3>4. row'.data = d
      <4> HIDE DEF d
      <4> QED BY <1>2, <3>3 DEF Row
    <3> HIDE DEF d
    <3> QED BY <1>2, <3>1, <3>2, <3>4
  <2> QED BY <1>2, <1>4, <2>1 DEF planReminder
<1>5. CASE PlanFails \/ SendReminder
  BY <1>2, <1>5 DEF PlanFails, SendReminder
<1>6. CASE GoesQuiet \/ \E t \in Ticks : TickStep(t)
  BY <1>1, <1>2, <1>6, TicksKeep
<1>7. CASE \/ CacheExpires \/ BecomesDue \/ fetchPendingSubscriptions \/ Crash
           \/ \E t \in Ticks : fetchPendingSessions(t)
           \/ \E w \in Workers : \E kind \in {"plain", "step", "subscribe"} : Receive(w, kind)
  <2>1. UNCHANGED row
    BY <1>7 DEF CacheExpires, BecomesDue, fetchPendingSubscriptions, Crash, fetchPendingSessions,
       Receive
  <2> QED BY <1>2, <2>1
<1> QED BY <1>3, <1>4, <1>5, <1>6, <1>7 DEF Next, FollowUpStep

\* The jobs and the screen leave sessions that can be served, and notify once, whatever the
\* numbers of workers and ticks and whatever goes wrong (middlewares/session.ts,
\* jobs/paymentFollowUp.ts, jobs/nudger.ts).
THEOREM SessionsSoundHolds == Spec => []SessionsSound
<1>1. Init => IInv
  BY InitGives
<1>2. IInv /\ [Next]_vars => IInv'
  BY NextKeeps
<1>3. IInv => SessionsSound
  BY IInvGives
<1> QED BY <1>1, <1>2, <1>3, PTL DEF Spec

\* The stored subscription never goes back: no step but the undoing of a reminder that failed
\* forgets a payment asked for or a reminder noted, unless something overlapped.
THEOREM StoredKeptHolds == Spec => StoredKept
<1>1. Init => IInv
  BY InitGives
<1>2. IInv /\ [Next]_vars => IInv'
  BY NextKeeps
<1>3. IInv /\ [Next]_vars =>
        [row # NULL /\ row.data.list => LET d == row'.data IN
           \/ d.asked >= row.data.asked /\ (d.told >= row.data.told \/ revertReminderFlag)
           \/ Met({"overlap"})]_vars
  <2> SUFFICES ASSUME IInv, Next, row # NULL, ~Met({"overlap"})
               PROVE  LET d == row'.data IN
                        d.asked >= row.data.asked /\ (d.told >= row.data.told \/ revertReminderFlag)
    OBVIOUS
  <2>1. CASE revertReminderFlag
    <3>1. row'.data.asked = row.data.asked /\ row.data \in Data
      BY <2>1, FollowUpKeeps, RecordsTyped DEF IInv, FollowUpStep
    <3> QED BY <2>1, <3>1 DEF Data
  <2> QED BY <2>1, KeptStep
<1> QED BY <1>1, <1>2, <1>3, PTL DEF Spec, StoredKept

-----------------------------------------------------------------------------
(* PlanForm                                                                  *)

\* A form has the answers of its step, and a phone that was answered in its thread.
GoodForm(f, t, s) ==
    f # NULL => f \in Form /\ Fits(f) /\ (f.phone # NULL => f.phone \in s[t])

\* A session with such forms,
GoodSession(c, s) == c \in Session /\ \A t \in Threads : GoodForm(c.forms[t], t, s)

\* and a mutation, of a phone that was answered in its thread when it creates a plan.
GoodMut(m, s) == m \in Mutation /\ (m.type = "create" => m.phone \in s[m.thread])

\* An update in a phase that works on a mutation has one of the right kind.
FormGoodTask(x, s) ==
    /\ x \in FormTask /\ GoodSession(x.copy, s)
    /\ x.phase \in {"edit", "find", "flush", "own", "reply", "enqueue"} => GoodMut(x.mut, s)
    /\ x.phase = "edit" => x.mut.type = "edit"
    /\ x.phase = "find" => x.mut.type = "create"
    /\ x.phase \in {"reply", "enqueue"} => x.mut.type # "edit"

\* The session, its copies, the plans and the mutations are typed and good.
Good ==
    /\ FormTypeOK /\ GoodSession(session, said)
    /\ \A p \in 1 .. Len(plans) : plans[p].phone \in said[plans[p].thread]
    /\ \A i \in 1 .. Len(queue) : GoodMut(queue[i], said)
    /\ \A w \in Workers : Busy(w) => FormGoodTask(task[w], said)

\* One update at a time
Single == \A v, w \in Workers : Busy(v) /\ Busy(w) => v = w

\* What excuses a second plan of a phone.
Excuses == {"overlap", "telegram", "db", "redis"}

\* An update past its check, whose mutation is still to be applied.
Working(w) == At(w, "flush") \/ At(w, "own")

\* Without an overlap and a failure that queues a create, a create on its way is the only
\* one of its phone.
Straight ==
    ~Met({"overlap", "telegram", "db", "redis"}) =>
      /\ Single /\ queue = <<>>
      /\ \A w \in Workers : ~At(w, "enqueue")
      /\ \A w \in Workers : Working(w) /\ task[w].mut.type = "create" => ~HasPlan(task[w].mut.phone)

\* While nothing went wrong an edit is asked for in every thread that waits for a comment:
\* by the session when nothing is in flight, by the copy of the update in flight.
Asked ==
    troubles = <<>> =>
      /\ (\A w \in Workers : ~Busy(w)) => \A t \in Threads : session.edits[t] # NULL => t \in open
      /\ \A w \in Workers : Busy(w) =>
           /\ \A t \in Threads : task[w].copy.edits[t] # NULL =>
                t \in open \/ (t = task[w].thread /\ At(w, "reply") /\ task[w].mut.type = "comment")
           /\ Working(w) /\ task[w].mut.type = "comment" => task[w].thread \in open

-----------------------------------------------------------------------------
\* What was met after a trouble is what was met before, or the trouble.
LEMMA FormMetAfter ==
    ASSUME FormTypeOK, NEW k, Fails(k), NEW S
    PROVE  Met(S)' <=> Met(S) \/ k \in S
<1>1. troubles \in Seq(Troubles) /\ troubles' = Append(troubles, k) /\ k \in Troubles
  BY DEF FormTypeOK, Fails, Occurs
<1>2. /\ Len(troubles') = Len(troubles) + 1 /\ troubles'[Len(troubles) + 1] = k
      /\ \A i \in 1 .. Len(troubles) : troubles'[i] = troubles[i]
  BY <1>1
<1>3. Len(troubles) \in Nat
  BY <1>1
<1> QED BY <1>2, <1>3 DEF Met

\* What a step notes is a list of troubles.
Notes == Quiet \/ \E k : Fails(k)

\* What was noted stays a list of troubles.
LEMMA NotesTyped ==
    ASSUME FormTypeOK, Notes
    PROVE  troubles' \in Seq(Troubles) /\ Len(troubles') <= MaxTroubles
<1>1. troubles \in Seq(Troubles) /\ Len(troubles) <= MaxTroubles /\ MaxTroubles \in Nat
  BY FormAssumption DEF FormTypeOK
<1>2. CASE Quiet
  BY <1>1, <1>2 DEF Quiet
<1>3. ASSUME NEW k, Fails(k)
      PROVE  troubles' \in Seq(Troubles) /\ Len(troubles') <= MaxTroubles
  <2>1. /\ k \in Troubles /\ Len(troubles) < MaxTroubles
        /\ troubles' = Append(troubles, k)
    BY <1>3 DEF Fails, Occurs
  <2> QED BY <1>1, <2>1
<1> QED BY <1>2, <1>3 DEF Notes

\* Nothing is taken back of what was said.
Grows(s) == s \in [Threads -> SUBSET Phones] /\ \A t \in Threads : said[t] \subseteq s[t]

\* What is good stays good when more was said.
LEMMA GrowsKeeps ==
    ASSUME Good, NEW s, Grows(s)
    PROVE  /\ GoodSession(session, s)
           /\ \A p \in 1 .. Len(plans) : plans[p].phone \in s[plans[p].thread]
           /\ \A i \in 1 .. Len(queue) : GoodMut(queue[i], s)
           /\ \A w \in Workers : Busy(w) => FormGoodTask(task[w], s)
<1>1. ASSUME NEW c, GoodSession(c, said)
      PROVE  GoodSession(c, s)
  BY <1>1 DEF GoodSession, GoodForm, Grows
<1>2. ASSUME NEW m, GoodMut(m, said)
      PROVE  GoodMut(m, s)
  BY <1>2 DEF GoodMut, Mutation, Grows
<1>3. ASSUME NEW x, FormGoodTask(x, said)
      PROVE  FormGoodTask(x, s)
  BY <1>1, <1>2, <1>3 DEF FormGoodTask
<1>4. \A p \in 1 .. Len(plans) : plans[p] \in Plan
  BY DEF Good, FormTypeOK
<1>5. \A p \in 1 .. Len(plans) : plans[p].phone \in s[plans[p].thread]
  BY <1>4 DEF Good, Plan, Grows
<1> QED BY <1>1, <1>2, <1>3, <1>5 DEF Good

\* A step of one worker: it has another good record, or is free.
Moves(w, s) ==
    /\ task' \in [Workers -> FormTask \cup {NULL}]
    /\ \A v \in Workers \ {w} : task'[v] = task[v]
    /\ task'[w] # NULL => FormGoodTask(task'[w], s)

\* Such a step keeps all good when what it writes besides is good.
LEMMA MovesGood ==
    ASSUME Good, NEW w \in Workers, Grows(said'), Moves(w, said'), Notes,
           GoodSession(session', said'),
           plans' \in Seq(Plan), Len(plans') <= MaxPlans,
           \A p \in 1 .. Len(plans') : plans'[p].phone \in said'[plans'[p].thread],
           queue' \in Seq(Mutation), Len(queue') <= MaxQueue,
           \A i \in 1 .. Len(queue') : GoodMut(queue'[i], said'),
           shown' \in [Threads -> SUBSET {"plan", "summary"}], open' \subseteq Threads
    PROVE  Good'
<1>1. \A v \in Workers : task'[v] # NULL => FormGoodTask(task'[v], said')
  <2> SUFFICES ASSUME NEW v \in Workers, task'[v] # NULL PROVE FormGoodTask(task'[v], said')
    OBVIOUS
  <2>1. CASE v = w
    BY <2>1 DEF Moves
  <2>2. CASE v # w
    <3>1. task'[v] = task[v]
      BY <2>2 DEF Moves
    <3> QED BY <3>1, GrowsKeeps DEF Busy
  <2> QED BY <2>1, <2>2
<1>2. FormTypeOK'
  BY NotesTyped DEF Good, FormTypeOK, Grows, Moves, GoodSession
<1>3. GoodSession(session, said)'
  BY DEF GoodSession, GoodForm, Fits
<1>4. \A i \in 1 .. Len(queue') : GoodMut(queue[i], said)'
  BY DEF GoodMut
<1>5. \A v \in Workers : Busy(v)' => FormGoodTask(task[v], said)'
  BY <1>1 DEF Busy, FormGoodTask, GoodSession, GoodForm, GoodMut, Fits
<1> QED BY <1>2, <1>3, <1>4, <1>5 DEF Good

\* The same when nothing but the worker's record changes.
LEMMA MovesAlone ==
    ASSUME Good, NEW w \in Workers, Grows(said'), Moves(w, said'), Notes,
           UNCHANGED <<session, plans, queue>>,
           shown' \in [Threads -> SUBSET {"plan", "summary"}], open' \subseteq Threads
    PROVE  Good'
BY MovesGood, GrowsKeeps DEF Good, FormTypeOK

\* The record of a busy worker is good, and so are its parts.
LEMMA BusyGives ==
    ASSUME Good, NEW w \in Workers, Busy(w)
    PROVE  /\ FormGoodTask(task[w], said) /\ task[w] \in FormTask /\ task[w].thread \in Threads
           /\ task[w].copy \in Session /\ task \in [Workers -> FormTask \cup {NULL}]
           /\ GoodForm(FormOf(w), task[w].thread, said) /\ FormOf(w) \in Form \cup {NULL}
           /\ EditOf(w) \in PlanIds \cup {NULL} /\ Grows(said)
BY DEF Good, FormGoodTask, GoodSession, FormTask, Session, FormOf, EditOf, FormTypeOK, Grows

\* What To leaves of the record,
LEMMA ToGives ==
    ASSUME Good, NEW w \in Workers, Busy(w), NEW p, To(w, p),
           FormGoodTask([task[w] EXCEPT !.phase = p], said)
    PROVE  /\ Moves(w, said) /\ task'[w] # NULL /\ task'[w].phase = p
           /\ task'[w].thread = task[w].thread /\ task'[w].copy = task[w].copy
           /\ task'[w].mut = task[w].mut
<1> DEFINE x == [task[w] EXCEPT !.phase = p]
<1>1. task' = [task EXCEPT ![w] = x] /\ task \in [Workers -> FormTask \cup {NULL}] /\ x \in FormTask
  BY BusyGives DEF To, FormGoodTask
<1>2. x.phase = p /\ x.thread = task[w].thread /\ x.copy = task[w].copy /\ x.mut = task[w].mut
  BY BusyGives DEF FormTask
<1> HIDE DEF x
<1> QED BY <1>1, <1>2, FormGoodTask(x, said), FormNullAssumption DEF Moves, x

\* what Done does,
LEMMA DoneGives ==
    ASSUME Good, NEW w \in Workers, Busy(w), Done(w)
    PROVE  /\ Moves(w, said) /\ task'[w] # NULL /\ task'[w].phase = "save"
           /\ task'[w].thread = task[w].thread /\ task'[w].copy = task[w].copy
<1> DEFINE x == [task[w] EXCEPT !.mut = NULL, !.phase = "save"]
<1>1. /\ x.phase = "save" /\ x.thread = task[w].thread /\ x.copy = task[w].copy /\ x.mut = NULL
      /\ x \in FormTask
  BY BusyGives DEF FormTask
<1>2. FormGoodTask(x, said)
  <2> HIDE DEF x
  <2> QED BY <1>1, BusyGives DEF FormGoodTask
<1>3. task' = [task EXCEPT ![w] = x] /\ task \in [Workers -> FormTask \cup {NULL}]
  BY BusyGives DEF Done
<1> HIDE DEF x
<1> QED BY <1>1, <1>2, <1>3, FormNullAssumption DEF Moves

\* and what Put does.
LEMMA PutGives ==
    ASSUME Good, NEW w \in Workers, Busy(w), NEW f, Put(w, f), NEW s, Grows(s),
           f = NULL \/ GoodForm(f, task[w].thread, s), f \in Form \cup {NULL}
    PROVE  /\ Moves(w, s) /\ task'[w] # NULL /\ task'[w].phase = "save"
           /\ task'[w].thread = task[w].thread /\ task'[w].copy.edits = task[w].copy.edits
<1>0. /\ task[w] \in FormTask /\ task[w].thread \in Threads /\ task[w].copy \in Session
      /\ GoodSession(task[w].copy, s) /\ task \in [Workers -> FormTask \cup {NULL}]
  BY BusyGives, GrowsKeeps DEF FormGoodTask
<1> DEFINE g == [task[w].copy.forms EXCEPT ![task[w].thread] = f]
           c == [task[w].copy EXCEPT !.forms = g]
           x == [task[w] EXCEPT !.copy = c, !.mut = NULL, !.phase = "save"]
<1>1. task' = [task EXCEPT ![w] = x]
  BY DEF Put
<1>2. /\ g \in [Threads -> Form \cup {NULL}] /\ g[task[w].thread] = f
      /\ \A t \in Threads \ {task[w].thread} : g[t] = task[w].copy.forms[t]
  BY <1>0 DEF Session
<1>3. c \in Session /\ c.forms = g /\ c.edits = task[w].copy.edits
  <2> HIDE DEF g
  <2> QED BY <1>0, <1>2 DEF Session
<1>4. \A t \in Threads : GoodForm(c.forms[t], t, s)
  <2> SUFFICES ASSUME NEW t \in Threads PROVE GoodForm(c.forms[t], t, s)
    OBVIOUS
  <2>1. CASE t = task[w].thread
    BY <1>2, <1>3, <2>1 DEF GoodForm
  <2>2. CASE t # task[w].thread
    <3>1. c.forms[t] = task[w].copy.forms[t]
      BY <1>2, <1>3, <2>2
    <3> QED BY <1>0, <3>1 DEF GoodSession
  <2> QED BY <2>1, <2>2
<1>5. x \in FormTask /\ x.phase = "save" /\ x.thread = task[w].thread /\ x.copy = c
  <2> HIDE DEF c
  <2> QED BY <1>0, <1>3 DEF FormTask
<1>6. FormGoodTask(x, s)
  <2> HIDE DEF x, c
  <2> QED BY <1>3, <1>4, <1>5 DEF FormGoodTask, GoodSession
<1>7. task'[w] = x /\ \A v \in Workers \ {w} : task'[v] = task[v]
  <2> HIDE DEF x
  <2> QED BY <1>0, <1>1
<1> HIDE DEF x, c
<1> QED BY <1>0, <1>1, <1>3, <1>5, <1>6, <1>7, FormNullAssumption DEF Moves

-----------------------------------------------------------------------------
\* A handler that is done and has not touched the edits.
Ends(w) ==
    /\ Busy(w) /\ task'[w] # NULL /\ task'[w].phase = "save" /\ task'[w].thread = task[w].thread
    /\ task'[w].copy.edits = task[w].copy.edits

\* A handler that is done with the form as it was.
LEMMA DoneStep ==
    ASSUME Good, NEW w \in Workers, Busy(w), Done(w), Notes,
           UNCHANGED <<session, plans, queue, history>>
    PROVE  Good' /\ Ends(w)
<1>1. said' = said /\ shown' = shown /\ open' = open
  BY DEF history
<1>2. Moves(w, said') /\ Grows(said') /\ Ends(w)
  BY <1>1, DoneGives, BusyGives DEF Ends
<1> QED BY <1>1, <1>2, MovesAlone DEF Good, FormTypeOK

\* A handler that is done and has put another form.
LEMMA PutStep ==
    ASSUME Good, NEW w \in Workers, Busy(w), NEW f \in Form \cup {NULL}, Put(w, f), Notes,
           Grows(said'), f = NULL \/ GoodForm(f, task[w].thread, said'),
           UNCHANGED <<session, plans, queue, open>>,
           shown' \in [Threads -> SUBSET {"plan", "summary"}]
    PROVE  Good' /\ Ends(w)
<1>1. Moves(w, said') /\ Ends(w)
  BY PutGives DEF Ends
<1> QED BY <1>1, MovesAlone DEF Good, FormTypeOK

\* The thread and the edits of an update stay.
Same(w) ==
    /\ task'[w] # NULL /\ task'[w].thread = task[w].thread
    /\ task'[w].copy.edits = task[w].copy.edits

\* A handler that goes on to another phase.
LEMMA ToStep ==
    ASSUME Good, NEW w \in Workers, Busy(w), NEW p, To(w, p), Notes,
           UNCHANGED <<session, plans, queue, said, shown>>, open' \subseteq Threads,
           FormGoodTask([task[w] EXCEPT !.phase = p], said)
    PROVE  Good' /\ task'[w].phase = p /\ Same(w) /\ task'[w].mut = task[w].mut
<1>1. Moves(w, said') /\ Grows(said')
  BY ToGives, BusyGives
<1>2. task'[w].phase = p /\ Same(w) /\ task'[w].mut = task[w].mut
  BY ToGives DEF Same
<1> QED BY <1>1, <1>2, MovesAlone DEF Good, FormTypeOK

\* Every step of the wizard puts a form that has the answers of its step.
LEMMA WizardGood ==
    ASSUME Good, NEW w \in Workers,
           \/ HandleForm(w) \/ IgnoreText(w) \/ AnswerPhone(w) \/ AnswerNickname(w)
           \/ AnswerDetails(w) \/ Select(w) \/ Cancel(w) \/ ConfirmRefused(w)
    PROVE  Good' /\ Ends(w) /\ UNCHANGED <<session, plans, queue, open>>
<1>0. /\ Busy(w)
      /\ UNCHANGED <<session, plans, queue, open>>
  BY DEF HandleForm, IgnoreText, AnswerPhone, AnswerNickname, AnswerDetails, Select, Cancel,
     ConfirmRefused, HandlesText, AtStep, At, Show, history, Busy
<1>1. /\ task[w].thread \in Threads /\ FormOf(w) \in Form \cup {NULL}
      /\ FormOf(w) # NULL => FormOf(w) \in Form /\ Fits(FormOf(w))
                             /\ (FormOf(w).phone # NULL => FormOf(w).phone \in said[task[w].thread])
      /\ Grows(said) /\ said \in [Threads -> SUBSET Phones]
      /\ shown \in [Threads -> SUBSET {"plan", "summary"}]
  BY <1>0, BusyGives DEF GoodForm, Good, FormTypeOK
<1>2. Quiet => Notes
  BY DEF Notes
<1>3. CASE Done(w) /\ Quiet /\ UNCHANGED <<session, plans, queue, history>>
  BY <1>0, <1>2, <1>3, DoneStep
<1>4. CASE HandleForm(w)
  <2>1. Blank \in Form /\ GoodForm(Blank, task[w].thread, said)
    BY DEF Blank, Form, Steps, GoodForm, Fits
  <2> QED BY <1>0, <1>1, <1>2, <1>4, <2>1, PutStep DEF HandleForm, history
<1>5. CASE AnswerPhone(w)
  <2>1. PICK phone \in Phones :
          /\ Put(w, [FormOf(w) EXCEPT !.phone = phone, !.step = "nickname"])
          /\ said' = [said EXCEPT ![task[w].thread] = @ \cup {phone}]
    BY <1>5 DEF AnswerPhone
  <2> DEFINE f == [FormOf(w) EXCEPT !.phone = phone, !.step = "nickname"]
  <2>2. f \in Form /\ f.phone = phone /\ f.step = "nickname" /\ phone # NULL
    BY <1>1, <1>5, FormAssumption DEF AnswerPhone, AtStep, Form, Steps
  <2>3. Grows(said') /\ phone \in said'[task[w].thread]
    BY <1>1, <2>1 DEF Grows
  <2> HIDE DEF f
  <2>4. GoodForm(f, task[w].thread, said')
    BY <2>2, <2>3 DEF GoodForm, Fits
  <2>5. Put(w, f)
    BY <2>1 DEF f
  <2> QED BY <1>0, <1>1, <1>2, <1>5, <2>2, <2>3, <2>4, <2>5, PutStep DEF AnswerPhone
<1>6. ASSUME NEW card \in {"plan", "summary"}, Show(task[w].thread, card)
      PROVE  shown' \in [Threads -> SUBSET {"plan", "summary"}]
  BY <1>1, <1>6 DEF Show
<1>7. CASE AnswerNickname(w)
  <2> DEFINE f == [FormOf(w) EXCEPT !.step = "plan"]
  <2>1. f \in Form /\ f.phone = FormOf(w).phone /\ f.step = "plan" /\ FormOf(w).phone # NULL
    BY <1>1, <1>7 DEF AnswerNickname, AtStep, Form, Steps, Fits
  <2>2. Put(w, f)
    BY <1>7 DEF AnswerNickname
  <2> HIDE DEF f
  <2>3. GoodForm(f, task[w].thread, said)
    BY <1>1, <1>7, <2>1 DEF GoodForm, Fits, AnswerNickname, AtStep
  <2>4. Quiet /\ UNCHANGED <<said, open>> /\ shown' \in [Threads -> SUBSET {"plan", "summary"}]
    BY <1>6, <1>7 DEF AnswerNickname
  <2> QED BY <1>0, <1>1, <1>2, <2>1, <2>2, <2>3, <2>4, PutStep
<1>8. CASE AnswerDetails(w)
  <2>1. /\ FormOf(w) \in Form /\ FormOf(w).phone # NULL /\ FormOf(w).choice # NULL
        /\ FormOf(w).phone \in said[task[w].thread]
    BY <1>1, <1>8 DEF AnswerDetails, AtStep, Fits
  <2>2. PICK f \in Form : /\ f.phone = FormOf(w).phone /\ f.choice = FormOf(w).choice
                          /\ Put(w, f)
                          /\ \/ Show(task[w].thread, "summary") /\ Quiet
                             \/ UNCHANGED shown /\ Notes
    <3>1. PICK text \in {"skip", "date", "remark"} : LET f == Detailed(FormOf(w), text) IN
            \/ /\ f.start # "text"
               /\ Put(w, [f EXCEPT !.start = "date"])
               /\ Show(task[w].thread, "summary") /\ Quiet
            \/ /\ IF f.start = "text" THEN Quiet ELSE Fails("telegram")
               /\ Put(w, f) /\ UNCHANGED shown
      BY <1>8 DEF AnswerDetails
    <3> DEFINE d == Detailed(FormOf(w), text)
    <3>2. d \in Form /\ d.phone = FormOf(w).phone /\ d.choice = FormOf(w).choice
      BY <2>1, <3>1 DEF Detailed, Form, Steps
    <3> HIDE DEF d
    <3> DEFINE e == [d EXCEPT !.start = "date"]
    <3>3. e \in Form /\ e.phone = FormOf(w).phone /\ e.choice = FormOf(w).choice
      BY <3>2 DEF Form, Steps
    <3>4. \/ Put(w, e) /\ Show(task[w].thread, "summary") /\ Quiet
          \/ Put(w, d) /\ UNCHANGED shown /\ Notes
      BY <3>1 DEF d, Notes
    <3> HIDE DEF e
    <3>5. CASE Put(w, e) /\ Show(task[w].thread, "summary") /\ Quiet
      BY <3>3, <3>5
    <3>6. CASE Put(w, d) /\ UNCHANGED shown /\ Notes
      BY <3>2, <3>6
    <3> QED BY <3>4, <3>5, <3>6
  <2>3. GoodForm(f, task[w].thread, said)
    BY <2>1, <2>2 DEF GoodForm, Fits
  <2>4. UNCHANGED <<said, open>> /\ Notes /\ shown' \in [Threads -> SUBSET {"plan", "summary"}]
    BY <1>1, <1>2, <1>6, <1>8, <2>2 DEF AnswerDetails
  <2> QED BY <1>0, <1>1, <2>2, <2>3, <2>4, PutStep
<1>9. CASE Select(w) /\ ~Done(w)
  <2>1. PICK c \in Choices : Put(w, [FormOf(w) EXCEPT !.choice = c, !.step = "details"])
    BY <1>9 DEF Select
  <2>2. /\ FormOf(w) \in Form /\ FormOf(w).phone # NULL
        /\ FormOf(w).phone \in said[task[w].thread] /\ c # NULL
    BY <1>1, <1>9, FormAssumption DEF Select
  <2> DEFINE f == [FormOf(w) EXCEPT !.choice = c, !.step = "details"]
  <2>3. f \in Form /\ f.phone = FormOf(w).phone /\ f.choice = c
    BY <2>2 DEF Form, Steps
  <2>5. Put(w, f)
    BY <2>1
  <2> HIDE DEF f
  <2>4. GoodForm(f, task[w].thread, said)
    BY <2>2, <2>3 DEF GoodForm, Fits
  <2>6. UNCHANGED history /\ Quiet
    BY <1>9 DEF Select
  <2> QED BY <1>0, <1>1, <1>2, <2>3, <2>4, <2>5, <2>6, PutStep DEF history
<1>10. CASE Cancel(w)
  BY <1>0, <1>1, <1>2, <1>10, PutStep DEF Cancel, history
<1>11. CASE IgnoreText(w) \/ ConfirmRefused(w) \/ (Select(w) /\ Done(w))
  BY <1>3, <1>11 DEF IgnoreText, ConfirmRefused, Select
<1> QED BY <1>0, <1>4, <1>5, <1>7, <1>8, <1>9, <1>10, <1>11

-----------------------------------------------------------------------------
\* Going on with the same mutation.
LEMMA PhaseGood ==
    ASSUME Good, NEW w \in Workers, Busy(w),
           NEW p \in {"flush", "own", "reply", "enqueue"},
           GoodMut(task[w].mut, said), p \in {"reply", "enqueue"} => task[w].mut.type # "edit"
    PROVE  FormGoodTask([task[w] EXCEPT !.phase = p], said)
<1> DEFINE x == [task[w] EXCEPT !.phase = p]
<1>1. x \in FormTask /\ x.phase = p /\ x.copy = task[w].copy /\ x.mut = task[w].mut
  BY BusyGives DEF FormTask
<1>2. GoodSession(task[w].copy, said)
  BY BusyGives DEF FormGoodTask
<1> HIDE DEF x
<1>3. FormGoodTask(x, said)
  BY <1>1, <1>2 DEF FormGoodTask
<1> QED BY <1>3 DEF x

\* The form is complete: its mutation is made.
Confirms(w) ==
    /\ At(w, "confirm") /\ task'[w].phase = "find" /\ Same(w)
    /\ UNCHANGED <<session, plans, queue, open>>

\* There is no plan of the phone.
Finds(w) ==
    /\ At(w, "find") /\ task'[w].phase = "flush" /\ Same(w)
    /\ task'[w].mut = task[w].mut /\ ~HasPlan(task[w].mut.phone)
    /\ UNCHANGED <<session, plans, queue, open>>

\* A press or a text about an edit.
Edits(w) ==
    /\ task[w].phase \in {"edit", "text"} /\ Busy(w) /\ task'[w].phase = "flush" /\ Same(w)
    /\ \/ task'[w].mut.type = "edit"
       \/ task'[w].mut.type = "comment" /\ task[w].copy.edits[task[w].thread] # NULL
    /\ UNCHANGED <<session, plans, queue, open>>

\* A confirmed form gives a mutation of the phone that was answered in the thread.
LEMMA ConfirmGood ==
    ASSUME Good, NEW w \in Workers, Confirm(w)
    PROVE  Good' /\ UNCHANGED <<session, plans, queue, open>> /\ (Ends(w) \/ Confirms(w))
<1>0. Busy(w) /\ Quiet /\ UNCHANGED <<session, plans, queue, history>> /\ At(w, "confirm") /\ Notes
  BY DEF Confirm, At, Notes, Busy
<1>1. CASE Done(w)
  BY <1>0, <1>1, DoneStep DEF history
<1>2. CASE ~Done(w)
  <2> DEFINE m == [type |-> "create", thread |-> task[w].thread,
                   phone |-> FormOf(w).phone, choice |-> FormOf(w).choice]
             f == [FormOf(w) EXCEPT !.start = "date"]
             g == [task[w].copy.forms EXCEPT ![task[w].thread] = f]
             c == [task[w].copy EXCEPT !.forms = g]
             x == [task[w] EXCEPT !.phase = "find", !.copy = c, !.mut = m]
  <2>0. /\ task[w] \in FormTask /\ task[w].thread \in Threads /\ task[w].copy \in Session
        /\ GoodSession(task[w].copy, said) /\ task \in [Workers -> FormTask \cup {NULL}]
        /\ Grows(said) /\ FormOf(w) \in Form /\ FormOf(w).phone \in Phones
        /\ FormOf(w).choice \in Choices
        /\ GoodForm(FormOf(w), task[w].thread, said) /\ FormOf(w) # NULL /\ FormOf(w).phone # NULL
    BY <1>0, <1>2, BusyGives DEF FormGoodTask, Confirm, Complete, Form
  <2>1. task' = [task EXCEPT ![w] = x]
    <3>1. task' = [task EXCEPT ![w].phase = "find",
                               ![w].copy.forms[task[w].thread].start = "date",
                               ![w].mut = m]
      BY <1>2 DEF Confirm
    <3> QED BY <2>0, <3>1 DEF FormOf
  <2>2. /\ f \in Form /\ f.phone = FormOf(w).phone /\ f.choice = FormOf(w).choice
        /\ f.step = FormOf(w).step
    BY <2>0 DEF Form
  <2>3. m \in Mutation /\ m.type = "create" /\ GoodMut(m, said)
    BY <2>0 DEF Mutation, GoodMut, GoodForm
  <2> HIDE DEF f, m
  <2>4. GoodForm(f, task[w].thread, said)
    BY <2>0, <2>2 DEF GoodForm, Fits
  <2>5. /\ g \in [Threads -> Form \cup {NULL}] /\ g[task[w].thread] = f
        /\ \A t \in Threads \ {task[w].thread} : g[t] = task[w].copy.forms[t]
    BY <2>0, <2>2 DEF Session
  <2> HIDE DEF g
  <2>6. c \in Session /\ c.forms = g /\ c.edits = task[w].copy.edits
    BY <2>0, <2>5 DEF Session
  <2> HIDE DEF c
  <2>7. GoodSession(c, said)
    BY <2>0, <2>4, <2>5, <2>6 DEF GoodSession
  <2>8. x \in FormTask /\ x.phase = "find" /\ x.thread = task[w].thread /\ x.copy = c /\ x.mut = m
    BY <2>0, <2>3, <2>6 DEF FormTask
  <2> HIDE DEF x
  <2>9. FormGoodTask(x, said)
    BY <2>3, <2>7, <2>8 DEF FormGoodTask
  <2>10. task'[w] = x /\ Moves(w, said)
    BY <2>0, <2>1, <2>8, <2>9 DEF Moves
  <2>11. Good'
    BY <1>0, <2>0, <2>10, MovesAlone DEF history, Good, FormTypeOK
  <2>12. Confirms(w)
    BY <1>0, <2>6, <2>8, <2>10, FormNullAssumption DEF Confirms, Same, history
  <2> QED BY <1>0, <2>11, <2>12 DEF history
<1> QED BY <1>1, <1>2

\* The look for a plan ends the handler, or finds none.
LEMMA FindGood ==
    ASSUME Good, NEW w \in Workers, FindExisting(w) \/ FindFails(w)
    PROVE  Good' /\ UNCHANGED <<session, plans, queue, open>> /\ (Ends(w) \/ Finds(w))
<1>0. /\ Busy(w) /\ Notes /\ UNCHANGED <<session, plans, queue, history>> /\ At(w, "find")
      /\ GoodMut(task[w].mut, said) /\ open' = open
  BY BusyGives DEF FindExisting, FindFails, At, Notes, FormGoodTask, history, Busy
<1>1. CASE Done(w)
  BY <1>0, <1>1, DoneStep DEF history
<1>2. CASE ~Done(w)
  <2>1. To(w, "flush") /\ ~HasPlan(task[w].mut.phone)
    BY <1>2 DEF FindExisting, FindFails
  <2>2. FormGoodTask([task[w] EXCEPT !.phase = "flush"], said)
    BY <1>0, PhaseGood
  <2>3. Good' /\ task'[w].phase = "flush" /\ Same(w) /\ task'[w].mut = task[w].mut
    BY <1>0, <2>1, <2>2, ToStep DEF history, Good, FormTypeOK
  <2> QED BY <1>0, <2>1, <2>3 DEF Finds, history
<1> QED BY <1>1, <1>2

\* An edit and the text for it go on to the flush.
LEMMA EditGood ==
    ASSUME Good, NEW w \in Workers, HandleEdit(w)
    PROVE  Good' /\ UNCHANGED <<session, plans, queue, open>> /\ Edits(w)
<1>0. /\ Busy(w) /\ Notes /\ UNCHANGED <<session, plans, queue, history>> /\ open' = open
  BY DEF HandleEdit, At, Notes, history, Busy
<1>1. CASE At(w, "edit") /\ To(w, "flush")
  <2>1. GoodMut(task[w].mut, said) /\ task[w].mut.type = "edit"
    BY <1>0, <1>1, BusyGives DEF At, FormGoodTask
  <2>2. FormGoodTask([task[w] EXCEPT !.phase = "flush"], said)
    BY <1>0, <2>1, PhaseGood
  <2>3. Good' /\ task'[w].phase = "flush" /\ Same(w) /\ task'[w].mut = task[w].mut
    BY <1>0, <1>1, <2>2, ToStep DEF history, Good, FormTypeOK
  <2> QED BY <1>0, <1>1, <2>1, <2>3 DEF Edits, At, history
<1>2. CASE /\ At(w, "text") /\ EditOf(w) # NULL
           /\ task' = [task EXCEPT ![w].phase = "flush",
                                   ![w].mut = [type |-> "comment", plan |-> EditOf(w)]]
  <2> DEFINE m == [type |-> "comment", plan |-> EditOf(w)]
             x == [task[w] EXCEPT !.phase = "flush", !.mut = m]
  <2>1. /\ task[w] \in FormTask /\ EditOf(w) \in PlanIds /\ GoodSession(task[w].copy, said)
        /\ Grows(said)
        /\ task \in [Workers -> FormTask \cup {NULL}]
    BY <1>0, <1>2, BusyGives DEF FormGoodTask
  <2>2. m \in Mutation /\ m.type = "comment"
    BY <2>1 DEF Mutation
  <2>3. task' = [task EXCEPT ![w] = x]
    BY <1>2
  <2> HIDE DEF m
  <2>4. /\ x \in FormTask /\ x.phase = "flush" /\ x.thread = task[w].thread
        /\ x.copy = task[w].copy /\ x.mut = m
    BY <2>1, <2>2 DEF FormTask
  <2> HIDE DEF x
  <2>5. FormGoodTask(x, said)
    BY <2>1, <2>2, <2>4 DEF FormGoodTask, GoodMut
  <2>6. task'[w] = x /\ Moves(w, said)
    BY <2>1, <2>3, <2>4, <2>5 DEF Moves
  <2>7. Good'
    BY <1>0, <2>1, <2>6, MovesAlone DEF history, Good, FormTypeOK
  <2> QED BY <1>0, <1>2, <2>2, <2>4, <2>6, <2>7, FormNullAssumption DEF Edits, Same, At, EditOf,
      history
<1> QED BY <1>1, <1>2 DEF HandleEdit

-----------------------------------------------------------------------------
\* An edit is opened in the thread of the update.
Opens(w) ==
    /\ At(w, "own") /\ task'[w] # NULL /\ task'[w].phase = "save"
    /\ task'[w].thread = task[w].thread
    /\ \A t \in Threads \ {task[w].thread} : task'[w].copy.edits[t] = task[w].copy.edits[t]
    /\ open' = open \cup {task[w].thread} /\ UNCHANGED <<session, plans, queue>>

\* The flush applies a mutation of the list, or ends.
Flushes(w) ==
    /\ At(w, "flush") /\ task'[w].phase \in {"flush", "own"} /\ task'[w].mut = task[w].mut
    /\ Same(w)
    /\ queue = <<>> => UNCHANGED <<plans, queue>>
    /\ UNCHANGED <<session, open>>

\* The mutation of the update is applied.
Owns(w) ==
    /\ At(w, "own") /\ task'[w].phase = "reply" /\ task'[w].mut = task[w].mut /\ Same(w)
    /\ \/ task[w].mut.type = "create" /\ plans' = Append(plans, Created(task[w].mut))
         /\ open' = open
       \/ task[w].mut.type = "comment" /\ plans' = plans /\ open' = open \ {task[w].thread}
    /\ UNCHANGED <<session, queue>>

\* It failed, or its answer did: it goes to the list.
Queues(w) ==
    /\ Busy(w) /\ task'[w].phase = "enqueue" /\ \E k \in Excuses : Fails(k)
    /\ UNCHANGED <<session, queue, open>>

\* An edit is opened, or the handler ends.
LEMMA OpenGood ==
    ASSUME Good, NEW w \in Workers, OpenEdit(w) \/ OpenEditFails(w)
    PROVE  Good' /\ UNCHANGED <<session, plans, queue>> /\ ((Ends(w) /\ open' = open) \/ Opens(w))
<1>0. /\ Busy(w) /\ Notes /\ UNCHANGED <<session, plans, queue, said, shown>> /\ At(w, "own")
      /\ GoodMut(task[w].mut, said) /\ task[w].mut.type = "edit"
  BY BusyGives DEF OpenEdit, OpenEditFails, At, Notes, FormGoodTask, history, Busy
<1>1. CASE Done(w) /\ open' = open
  BY <1>0, <1>1, DoneStep DEF history
<1>2. CASE ~(Done(w) /\ open' = open)
  <2> DEFINE p == task[w].mut.plan
             e == [task[w].copy.edits EXCEPT ![task[w].thread] = p]
             c == [task[w].copy EXCEPT !.edits = e]
             x == [task[w] EXCEPT !.copy = c, !.mut = NULL, !.phase = "save"]
  <2>1. task' = [task EXCEPT ![w] = x] /\ open' = open \cup {task[w].thread}
    BY <1>2 DEF OpenEdit, OpenEditFails, history
  <2>2. /\ task[w] \in FormTask /\ task[w].thread \in Threads /\ task[w].copy \in Session
        /\ GoodSession(task[w].copy, said) /\ task \in [Workers -> FormTask \cup {NULL}]
        /\ Grows(said)
    BY <1>0, BusyGives DEF FormGoodTask
  <2>3. p \in PlanIds
    BY <1>0 DEF GoodMut, Mutation
  <2> HIDE DEF p
  <2>4. /\ e \in [Threads -> PlanIds \cup {NULL}]
        /\ \A t \in Threads \ {task[w].thread} : e[t] = task[w].copy.edits[t]
    BY <2>2, <2>3 DEF Session
  <2> HIDE DEF e
  <2>5. c \in Session /\ c.forms = task[w].copy.forms /\ c.edits = e
    BY <2>2, <2>4 DEF Session
  <2> HIDE DEF c
  <2>6. GoodSession(c, said)
    BY <2>2, <2>5 DEF GoodSession
  <2>7. x \in FormTask /\ x.phase = "save" /\ x.thread = task[w].thread /\ x.copy = c
    BY <2>2, <2>5 DEF FormTask
  <2> HIDE DEF x
  <2>8. FormGoodTask(x, said)
    BY <2>6, <2>7 DEF FormGoodTask
  <2>9. task'[w] = x /\ Moves(w, said)
    BY <2>1, <2>2, <2>7, <2>8 DEF Moves
  <2>10. Good'
    BY <1>0, <2>1, <2>2, <2>9, MovesAlone DEF Good, FormTypeOK
  <2>11. Opens(w)
    BY <1>0, <2>1, <2>4, <2>5, <2>7, <2>9, FormNullAssumption DEF Opens
  <2> QED BY <1>0, <2>10, <2>11
<1> QED BY <1>1, <1>2

\* A good mutation that is applied leaves plans of phones that were answered.
LEMMA ApplyGood ==
    ASSUME Good, NEW m, GoodMut(m, said), Apply(m)
    PROVE  /\ plans' \in Seq(Plan) /\ Len(plans') <= MaxPlans
           /\ \A p \in 1 .. Len(plans') : plans'[p].phone \in said[plans'[p].thread]
<1>0. plans \in Seq(Plan) /\ Len(plans) <= MaxPlans /\ Len(plans) \in Nat
  BY DEF Good, FormTypeOK
<1>1. CASE m.type = "create"
  <2>1. /\ m.thread \in Threads /\ m.phone \in Phones /\ m.choice \in Choices
        /\ m.phone \in said[m.thread]
    BY <1>1 DEF GoodMut, Mutation
  <2>2. Created(m) \in Plan /\ Created(m).phone = m.phone /\ Created(m).thread = m.thread
    BY <2>1 DEF Created, Plan
  <2>3. plans' = Append(plans, Created(m)) /\ Len(plans) < MaxPlans
    BY <1>1 DEF Apply
  <2>4. /\ plans' \in Seq(Plan) /\ Len(plans') = Len(plans) + 1
        /\ plans'[Len(plans) + 1] = Created(m)
        /\ \A p \in 1 .. Len(plans) : plans'[p] = plans[p]
    BY <1>0, <2>2, <2>3
  <2> QED BY <1>0, <2>1, <2>2, <2>3, <2>4, FormAssumption DEF Good
<1>2. CASE m.type # "create"
  BY <1>0, <1>2 DEF Apply, Good
<1> QED BY <1>1, <1>2

\* What the flush applies is good, for the list was.
LEMMA FlushGood ==
    ASSUME Good, NEW w \in Workers, Flush(w) \/ FlushFails(w)
    PROVE  Good' /\ Flushes(w)
<1>0. /\ Busy(w) /\ Notes /\ At(w, "flush") /\ GoodMut(task[w].mut, said) /\ task[w] \in FormTask
      /\ UNCHANGED <<session, said, shown, open>>
      /\ task \in [Workers -> FormTask \cup {NULL}] /\ FormGoodTask(task[w], said) /\ Grows(said)
  BY BusyGives DEF Flush, FlushFails, At, Notes, FormGoodTask, history, Busy
<1>1. CASE To(w, "own") /\ UNCHANGED <<plans, queue>>
  <2>1. FormGoodTask([task[w] EXCEPT !.phase = "own"], said)
    BY <1>0, PhaseGood
  <2>2. Good' /\ task'[w].phase = "own" /\ Same(w) /\ task'[w].mut = task[w].mut
    BY <1>0, <1>1, <2>1, ToStep DEF Good, FormTypeOK
  <2> QED BY <1>0, <1>1, <2>2 DEF Flushes
<1>2. CASE queue # <<>> /\ Apply(Head(queue)) /\ queue' = Tail(queue) /\ UNCHANGED task
  <2>1. queue \in Seq(Mutation) /\ Len(queue) \in Nat /\ Len(queue) <= MaxQueue
        /\ \A i \in 1 .. Len(queue) : GoodMut(queue[i], said)
    BY DEF Good, FormTypeOK
  <2>2. /\ Head(queue) = queue[1] /\ 1 \in 1 .. Len(queue)
        /\ queue' \in Seq(Mutation) /\ Len(queue') = Len(queue) - 1
        /\ \A i \in 1 .. Len(queue') : queue'[i] = queue[i + 1] /\ i + 1 \in 1 .. Len(queue)
    BY <1>2, <2>1
  <2>3. /\ plans' \in Seq(Plan) /\ Len(plans') <= MaxPlans
        /\ \A p \in 1 .. Len(plans') : plans'[p].phone \in said[plans'[p].thread]
    BY <1>2, <2>1, <2>2, ApplyGood
  <2>4. Len(queue') <= MaxQueue /\ \A i \in 1 .. Len(queue') : GoodMut(queue'[i], said)
    <3>1. Len(queue') <= MaxQueue
      BY <2>1, <2>2, FormAssumption
    <3>2. ASSUME NEW i \in 1 .. Len(queue') PROVE GoodMut(queue'[i], said)
      <4>1. queue'[i] = queue[i + 1] /\ i + 1 \in 1 .. Len(queue)
        BY <2>2
      <4>2. GoodMut(queue[i + 1], said)
        BY <2>1, <4>1
      <4> QED BY <4>1, <4>2
    <3> QED BY <3>1, <3>2
  <2>5. Moves(w, said)
    BY <1>0, <1>2 DEF Moves
  <2>6. Good'
    BY <1>0, <2>2, <2>3, <2>4, <2>5, MovesGood DEF Good, FormTypeOK
  <2> QED BY <1>0, <1>2, <2>6 DEF Flushes, Same, At, Busy
<1> QED BY <1>1, <1>2 DEF Flush, FlushFails, history

\* The own mutation makes a plan of the phone answered in its thread.
LEMMA OwnGood ==
    ASSUME Good, NEW w \in Workers, Own(w)
    PROVE  /\ Good' /\ UNCHANGED <<session, queue>>
           /\ Owns(w) \/ (Ends(w) /\ UNCHANGED <<plans, open>>)
<1>0. /\ Busy(w) /\ Notes /\ At(w, "own") /\ GoodMut(task[w].mut, said) /\ task[w] \in FormTask
      /\ UNCHANGED <<session, queue, said, shown>> /\ task[w].mut.type # "edit"
      /\ Apply(task[w].mut)
      /\ task \in [Workers -> FormTask \cup {NULL}] /\ FormGoodTask(task[w], said) /\ Grows(said)
  BY BusyGives DEF Own, At, Notes, FormGoodTask, Busy
<1>1. CASE To(w, "reply")
  <2>1. FormGoodTask([task[w] EXCEPT !.phase = "reply"], said)
    BY <1>0, PhaseGood
  <2>2. /\ Moves(w, said) /\ task'[w].phase = "reply" /\ Same(w) /\ task'[w].mut = task[w].mut
    BY <1>0, <1>1, <2>1, ToGives DEF Same
  <2>3. open' \subseteq Threads
    BY DEF Own, Good, FormTypeOK
  <2>4. Good'
    BY <1>0, <2>2, <2>3, ApplyGood, MovesGood DEF Good, FormTypeOK
  <2>5. \/ task[w].mut.type = "create" /\ plans' = Append(plans, Created(task[w].mut))
             /\ open' = open
        \/ task[w].mut.type = "comment" /\ plans' = plans /\ open' = open \ {task[w].thread}
        \/ Done(w) /\ UNCHANGED <<plans, open>>
    BY <1>0 DEF Own, Apply, GoodMut, Mutation
  <2>6. ~Done(w)
    BY <1>0, <2>2, DoneGives
  <2> QED BY <1>0, <2>2, <2>4, <2>5, <2>6 DEF Owns
<1>2. CASE Done(w) /\ UNCHANGED <<plans, open>>
  BY <1>0, <1>2, DoneStep DEF history
<1> QED BY <1>0, <1>1, <1>2 DEF Own, Apply

\* A failure leaves everything but the phase.
LEMMA QueuesGood ==
    ASSUME Good, NEW w \in Workers, OwnFails(w) \/ ReplyFails(w)
    PROVE  Good' /\ Queues(w)
<1>0. /\ Busy(w) /\ Notes /\ GoodMut(task[w].mut, said) /\ task[w].mut.type # "edit"
      /\ UNCHANGED <<session, plans, queue, history>> /\ To(w, "enqueue")
      /\ \E k \in Excuses : Fails(k)
  BY BusyGives DEF OwnFails, ReplyFails, At, Notes, FormGoodTask, Busy, Excuses
<1>1. FormGoodTask([task[w] EXCEPT !.phase = "enqueue"], said)
  BY <1>0, PhaseGood
<1>2. Good' /\ task'[w].phase = "enqueue"
  BY <1>0, <1>1, ToStep DEF history, Good, FormTypeOK
<1> QED BY <1>0, <1>2 DEF Queues, history

-----------------------------------------------------------------------------
\* The answer closes the form or the edit, and notes the card of the plan.
Replies(w) ==
    /\ At(w, "reply") /\ task'[w] # NULL /\ task'[w].phase = "save"
    /\ task'[w].thread = task[w].thread
    /\ \/ /\ task[w].mut.type = "comment" /\ plans' = plans
          /\ task'[w].copy.edits[task[w].thread] = NULL
          /\ \A t \in Threads \ {task[w].thread} : task'[w].copy.edits[t] = task[w].copy.edits[t]
       \/ /\ task[w].mut.type # "comment" /\ task'[w].copy.edits = task[w].copy.edits
          /\ \E p : \E card \in {"none", "unknown", "known"} :
               plans' = [plans EXCEPT ![p].card = card]
    /\ UNCHANGED <<session, queue, open>>

\* The mutation is in the list, or lost.
Enqueues(w) == At(w, "enqueue") /\ Busy(w)

\* The update is over, its copy saved or not.
Leaves(w) ==
    /\ At(w, "save") /\ task'[w] = NULL
    /\ session' = StoredForms(task[w].copy) \/ (session' = session /\ Fails("save"))
    /\ UNCHANGED <<plans, queue, open>>

\* A card noted in the table changes nothing else of it.
LEMMA PlanReplaced ==
    ASSUME Good, NEW n \in 1 .. Len(plans), NEW x \in Plan, plans' = [plans EXCEPT ![n] = x],
           x.phone = plans[n].phone, x.thread = plans[n].thread,
           x.status = "live" => plans[n].status = "live" /\ x.beside = plans[n].beside
    PROVE  /\ Len(plans') = Len(plans) /\ plans' \in Seq(Plan)
           /\ \A p \in 1 .. Len(plans) : /\ plans'[p].phone = plans[p].phone
                                         /\ plans'[p].thread = plans[p].thread
                                         /\ plans'[p].status = "live" =>
                                              /\ plans[p].status = "live"
                                              /\ plans'[p].beside = plans[p].beside
BY DEF Good, FormTypeOK

\* A card is noted,
LEMMA CardGood ==
    ASSUME Good, NEW n, NEW card \in {"none", "unknown", "known"},
           plans' = [plans EXCEPT ![n].card = card]
    PROVE  /\ Len(plans') = Len(plans) /\ plans' \in Seq(Plan)
           /\ \A p \in 1 .. Len(plans) : /\ plans'[p].phone = plans[p].phone
                                         /\ plans'[p].thread = plans[p].thread
                                         /\ plans'[p].status = "live" =>
                                              /\ plans[p].status = "live"
                                              /\ plans'[p].beside = plans[p].beside
<1>1. plans \in Seq(Plan) /\ Len(plans) \in Nat /\ \A p \in 1 .. Len(plans) : plans[p] \in Plan
  BY DEF Good, FormTypeOK
<1>2. CASE n \in 1 .. Len(plans)
  <2> DEFINE x == [plans[n] EXCEPT !.card = card]
  <2>1. /\ x \in Plan /\ x.phone = plans[n].phone /\ x.thread = plans[n].thread
        /\ x.status = plans[n].status /\ x.beside = plans[n].beside
    BY <1>1, <1>2 DEF Plan
  <2>2. plans' = [plans EXCEPT ![n] = x]
    OBVIOUS
  <2> HIDE DEF x
  <2> QED BY <1>2, <2>1, <2>2, PlanReplaced
<1>3. CASE n \notin 1 .. Len(plans)
  <2>1. plans' = plans
    BY <1>1, <1>3
  <2> QED BY <1>1, <2>1
<1> QED BY <1>2, <1>3

\* and so is the end of a plan.
LEMMA DeleteGood ==
    ASSUME Good, NEW n \in 1 .. Len(plans), NEW end \in {"completed", "deleted"},
           plans' = [plans EXCEPT ![n].status = end, ![n].beside = FALSE]
    PROVE  /\ Len(plans') = Len(plans) /\ plans' \in Seq(Plan)
           /\ \A p \in 1 .. Len(plans) : /\ plans'[p].phone = plans[p].phone
                                         /\ plans'[p].thread = plans[p].thread
                                         /\ plans'[p].status = "live" =>
                                              /\ plans[p].status = "live"
                                              /\ plans'[p].beside = plans[p].beside
<1>1. plans[n] \in Plan
  BY DEF Good, FormTypeOK
<1> DEFINE x == [plans[n] EXCEPT !.status = end, !.beside = FALSE]
<1>2. x \in Plan /\ x.phone = plans[n].phone /\ x.thread = plans[n].thread /\ x.status = end
  BY <1>1 DEF Plan
<1>3. plans' = [plans EXCEPT ![n] = x]
  OBVIOUS
<1> HIDE DEF x
<1> QED BY <1>2, <1>3, PlanReplaced

\* A plan that is live again is marked when it is beside another.
LEMMA ReviveGood ==
    ASSUME Good, NEW n \in 1 .. Len(plans), NEW b \in BOOLEAN,
           plans' = [plans EXCEPT ![n].status = "live", ![n].beside = b]
    PROVE  /\ Len(plans') = Len(plans) /\ plans' \in Seq(Plan)
           /\ \A p \in 1 .. Len(plans) : /\ plans'[p].phone = plans[p].phone
                                         /\ plans'[p].thread = plans[p].thread
           /\ plans'[n].beside = b /\ \A p \in (1 .. Len(plans)) \ {n} : plans'[p] = plans[p]
<1>1. plans[n] \in Plan /\ plans \in Seq(Plan)
  BY DEF Good, FormTypeOK
<1> DEFINE x == [plans[n] EXCEPT !.status = "live", !.beside = b]
<1>2. x \in Plan /\ x.phone = plans[n].phone /\ x.thread = plans[n].thread /\ x.beside = b
  BY <1>1 DEF Plan
<1>3. plans' = [plans EXCEPT ![n] = x]
  OBVIOUS
<1> HIDE DEF x
<1> QED BY <1>1, <1>2, <1>3

\* The answer keeps all good.
LEMMA ReplyGood ==
    ASSUME Good, NEW w \in Workers, Reply(w)
    PROVE  Good' /\ Replies(w)
<1>0. /\ Busy(w) /\ Notes /\ At(w, "reply") /\ GoodMut(task[w].mut, said)
      /\ task[w].mut.type # "edit"
      /\ UNCHANGED <<session, queue, history>> /\ task[w] \in FormTask /\ task[w].thread \in Threads
      /\ task[w].copy \in Session /\ GoodSession(task[w].copy, said)
      /\ task \in [Workers -> FormTask \cup {NULL}] /\ Grows(said)
  BY BusyGives DEF Reply, At, Notes, FormGoodTask, Busy
<1>1. CASE task[w].mut.type = "comment"
  <2> DEFINE e == [task[w].copy.edits EXCEPT ![task[w].thread] = NULL]
             c == [task[w].copy EXCEPT !.edits = e]
             x == [task[w] EXCEPT !.copy = c, !.mut = NULL, !.phase = "save"]
  <2>1. task' = [task EXCEPT ![w] = x] /\ plans' = plans
    BY <1>1 DEF Reply
  <2>4. /\ e \in [Threads -> PlanIds \cup {NULL}] /\ e[task[w].thread] = NULL
        /\ \A t \in Threads \ {task[w].thread} : e[t] = task[w].copy.edits[t]
    BY <1>0 DEF Session
  <2> HIDE DEF e
  <2>5. c \in Session /\ c.forms = task[w].copy.forms /\ c.edits = e
    BY <1>0, <2>4 DEF Session
  <2> HIDE DEF c
  <2>6. GoodSession(c, said)
    BY <1>0, <2>5 DEF GoodSession
  <2>7. x \in FormTask /\ x.phase = "save" /\ x.thread = task[w].thread /\ x.copy = c
    BY <1>0, <2>5 DEF FormTask
  <2> HIDE DEF x
  <2>8. FormGoodTask(x, said)
    BY <2>6, <2>7 DEF FormGoodTask
  <2>9. task'[w] = x /\ Moves(w, said)
    BY <1>0, <2>1, <2>7, <2>8 DEF Moves
  <2>10. Good'
    BY <1>0, <2>1, <2>9, MovesAlone DEF Good, FormTypeOK, history
  <2> QED BY <1>0, <1>1, <2>1, <2>4, <2>5, <2>7, <2>9, <2>10, FormNullAssumption DEF Replies,
      history
<1>2. CASE task[w].mut.type # "comment"
  <2>1. PICK card \in {"none", "unknown", "known"} :
          Put(w, NULL) /\ plans' = [plans EXCEPT ![Newest(task[w].mut)].card = card]
    BY <1>2 DEF Reply, PostCard
  <2>2. Moves(w, said) /\ Ends(w)
    BY <1>0, <2>1, PutGives DEF Ends
  <2>3. /\ plans' \in Seq(Plan) /\ Len(plans') = Len(plans)
        /\ \A p \in 1 .. Len(plans) : plans'[p].phone = plans[p].phone
             /\ plans'[p].thread = plans[p].thread
    BY <2>1, CardGood
  <2>4. Good'
    BY <1>0, <2>2, <2>3, MovesGood DEF Good, FormTypeOK, history
  <2>5. \E p : \E k \in {"none", "unknown", "known"} : plans' = [plans EXCEPT ![p].card = k]
    BY <2>1
  <2> QED BY <1>0, <1>2, <2>2, <2>4, <2>5 DEF Replies, Ends, history
<1> QED BY <1>1, <1>2

\* A reminder that cannot be scheduled closes the form, and its mutation is queued.
LEMMA ReminderGood ==
    ASSUME Good, NEW w \in Workers, ReminderFails(w)
    PROVE  Good' /\ Queues(w)
<1>0. /\ Busy(w) /\ Notes /\ At(w, "reply") /\ GoodMut(task[w].mut, said)
      /\ task[w].mut.type # "edit" /\ Fails("redis")
      /\ UNCHANGED <<session, queue, history>> /\ task[w] \in FormTask /\ task[w].thread \in Threads
      /\ task[w].copy \in Session /\ GoodSession(task[w].copy, said)
      /\ task \in [Workers -> FormTask \cup {NULL}] /\ Grows(said)
  BY BusyGives DEF ReminderFails, At, Notes, FormGoodTask, Busy
<1> DEFINE g == [task[w].copy.forms EXCEPT ![task[w].thread] = NULL]
           c == [task[w].copy EXCEPT !.forms = g]
           x == [task[w] EXCEPT !.copy = c, !.phase = "enqueue"]
<1>1. task' = [task EXCEPT ![w] = x]
  BY DEF ReminderFails
<1>2. /\ g \in [Threads -> Form \cup {NULL}] /\ g[task[w].thread] = NULL
      /\ \A t \in Threads \ {task[w].thread} : g[t] = task[w].copy.forms[t]
  BY <1>0 DEF Session
<1> HIDE DEF g
<1>3. c \in Session /\ c.forms = g
  BY <1>0, <1>2 DEF Session
<1> HIDE DEF c
<1>4. GoodSession(c, said)
  BY <1>0, <1>2, <1>3 DEF GoodSession, GoodForm
<1>5. x \in FormTask /\ x.phase = "enqueue" /\ x.copy = c /\ x.mut = task[w].mut
  BY <1>0, <1>3 DEF FormTask
<1> HIDE DEF x
<1>6. FormGoodTask(x, said)
  BY <1>0, <1>4, <1>5 DEF FormGoodTask
<1>7. task'[w] = x /\ Moves(w, said)
  BY <1>0, <1>1, <1>5, <1>6 DEF Moves
<1>8. /\ plans' \in Seq(Plan) /\ Len(plans') = Len(plans)
      /\ \A p \in 1 .. Len(plans) : plans'[p].phone = plans[p].phone
           /\ plans'[p].thread = plans[p].thread
  BY CardGood DEF ReminderFails, PostCard
<1>9. Good'
  BY <1>0, <1>7, <1>8, MovesGood DEF Good, FormTypeOK, history
<1> QED BY <1>0, <1>5, <1>7, <1>9 DEF Queues, Excuses, history

\* The list gets a good mutation.
LEMMA EnqueueGood ==
    ASSUME Good, NEW w \in Workers, Enqueue(w) \/ EnqueueFails(w)
    PROVE  Good' /\ Enqueues(w)
<1>0. /\ Busy(w) /\ Notes /\ At(w, "enqueue") /\ GoodMut(task[w].mut, said)
      /\ UNCHANGED <<session, plans, history>> /\ Done(w) /\ Moves(w, said) /\ Grows(said)
  BY BusyGives, DoneGives DEF Enqueue, EnqueueFails, At, Notes, FormGoodTask, Busy
<1>1. CASE queue' = queue
  BY <1>0, <1>1, DoneStep DEF history, Enqueues
<1>2. CASE Len(queue) < MaxQueue /\ queue' = Append(queue, task[w].mut)
  <2>1. queue \in Seq(Mutation) /\ Len(queue) \in Nat /\ task[w].mut \in Mutation
        /\ \A i \in 1 .. Len(queue) : GoodMut(queue[i], said)
    BY <1>0 DEF Good, FormTypeOK, GoodMut
  <2>2. /\ queue' \in Seq(Mutation) /\ Len(queue') = Len(queue) + 1
        /\ queue'[Len(queue) + 1] = task[w].mut
        /\ \A i \in 1 .. Len(queue) : queue'[i] = queue[i]
    BY <1>2, <2>1
  <2>3. \A i \in 1 .. Len(queue') : GoodMut(queue'[i], said)
    BY <1>0, <2>1, <2>2
  <2>4. Len(queue') <= MaxQueue
    BY <1>2, <2>1, <2>2, FormAssumption
  <2>5. Good'
    BY <1>0, <2>2, <2>3, <2>4, MovesGood DEF Good, FormTypeOK, history
  <2> QED BY <1>0, <2>5 DEF Enqueues
<1> QED BY <1>1, <1>2 DEF Enqueue, EnqueueFails

\* What is stored of a good session is good: only dates change.
LEMMA StoredGood ==
    ASSUME NEW c, NEW s, GoodSession(c, s)
    PROVE  GoodSession(StoredForms(c), s) /\ StoredForms(c).edits = c.edits
<1> DEFINE x(t) == IF c.forms[t] = NULL THEN NULL
                   ELSE [c.forms[t] EXCEPT !.start = IF @ = "date" THEN "text" ELSE @]
           g == [t \in Threads |-> x(t)]
<1>1. c \in Session /\ \A t \in Threads : GoodForm(c.forms[t], t, s)
  BY DEF GoodSession
<1>2. ASSUME NEW t \in Threads
      PROVE  x(t) \in Form \cup {NULL} /\ GoodForm(x(t), t, s)
  <2>1. CASE c.forms[t] = NULL
    BY <2>1 DEF GoodForm
  <2>2. CASE c.forms[t] # NULL
    <3>1. c.forms[t] \in Form /\ Fits(c.forms[t])
          /\ (c.forms[t].phone # NULL => c.forms[t].phone \in s[t])
      BY <1>1, <2>2 DEF GoodForm
    <3>2. /\ x(t) \in Form /\ x(t).phone = c.forms[t].phone /\ x(t).step = c.forms[t].step
          /\ x(t).choice = c.forms[t].choice
      BY <2>2, <3>1 DEF Form
    <3> HIDE DEF x
    <3> QED BY <2>2, <3>1, <3>2 DEF GoodForm, Fits
  <2> QED BY <2>1, <2>2
<1>3. StoredForms(c) = [c EXCEPT !.forms = g]
  BY DEF StoredForms
<1> HIDE DEF x
<1>4. g \in [Threads -> Form \cup {NULL}] /\ \A t \in Threads : g[t] = x(t)
  BY <1>2
<1> HIDE DEF g
<1>5. StoredForms(c) \in Session /\ StoredForms(c).forms = g /\ StoredForms(c).edits = c.edits
  BY <1>1, <1>3, <1>4 DEF Session
<1> QED BY <1>2, <1>4, <1>5 DEF GoodSession

\* So is the session that an update leaves.
LEMMA LeaveGood ==
    ASSUME Good, NEW w \in Workers, SaveForms(w) \/ SaveFormsFails(w)
    PROVE  Good' /\ Leaves(w)
<1>0. /\ Busy(w) /\ Notes /\ At(w, "save") /\ GoodSession(task[w].copy, said)
      /\ UNCHANGED <<plans, queue, history>> /\ task' = [task EXCEPT ![w] = NULL]
      /\ task \in [Workers -> FormTask \cup {NULL}] /\ Grows(said)
      /\ session' = StoredForms(task[w].copy) \/ (session' = session /\ Fails("save"))
  BY BusyGives DEF SaveForms, SaveFormsFails, At, Notes, FormGoodTask, Busy
<1>1. Moves(w, said) /\ task'[w] = NULL
  BY <1>0 DEF Moves
<1>2. GoodSession(session', said)
  BY <1>0, StoredGood DEF Good
<1>3. Good'
  BY <1>0, <1>1, <1>2, MovesGood DEF Good, FormTypeOK, history
<1> QED BY <1>0, <1>1, <1>3 DEF Leaves, history

\* An update begins over a copy of the session; when others are handled it overlaps.
FormBegins(w) ==
    /\ ~Busy(w) /\ (Quiet => \A v \in Workers : ~Busy(v)) /\ (~Quiet => Fails("overlap"))
    /\ task'[w].copy = session
    /\ task'[w].phase \in {"form", "text", "select", "confirm", "cancel", "edit"}
    /\ UNCHANGED <<session, plans, queue, open>>

\* It begins with a good copy and, from a card, with a good mutation.
LEMMA ReceiveGood ==
    ASSUME Good, NEW w \in Workers, ReceiveUpdate(w)
    PROVE  Good' /\ FormBegins(w)
<1>1. PICK kind \in Kinds, t \in Threads, m \in Mutation \cup {NULL} :
        /\ Begin(w, kind, t, m)
        /\ kind = "edit" => m \in Mutation /\ m.type = "edit" /\ GoodMut(m, said)
  <2>1. PICK t \in Threads :
          \/ \E kind \in {"form", "text", "select", "confirm", "cancel"} : Begin(w, kind, t, NULL)
          \/ \E p \in 1 .. Len(plans) : Begin(w, "edit", t, [type |-> "edit", plan |-> p])
    BY DEF ReceiveUpdate
  <2>2. CASE \E kind \in {"form", "text", "select", "confirm", "cancel"} : Begin(w, kind, t, NULL)
    BY <2>2 DEF Kinds
  <2>3. CASE \E p \in 1 .. Len(plans) : Begin(w, "edit", t, [type |-> "edit", plan |-> p])
    <3>1. PICK p \in 1 .. Len(plans) : Begin(w, "edit", t, [type |-> "edit", plan |-> p])
      BY <2>3
    <3>2. p \in PlanIds
      BY FormAssumption DEF PlanIds, Good, FormTypeOK
    <3> DEFINE m == [type |-> "edit", plan |-> p]
    <3>3. m \in Mutation /\ m.type = "edit" /\ GoodMut(m, said)
      BY <3>2 DEF Mutation, GoodMut
    <3> HIDE DEF m
    <3>4. Begin(w, "edit", t, m)
      BY <3>1 DEF m
    <3> QED BY <3>3, <3>4 DEF Kinds
  <2> QED BY <2>1, <2>2, <2>3
<1> DEFINE x == [thread |-> t, copy |-> session, mut |-> m, phase |-> kind]
<1>2. /\ ~Busy(w) /\ task' = [task EXCEPT ![w] = x] /\ UNCHANGED <<session, plans, queue, history>>
      /\ IF \E v \in Workers : Busy(v) THEN Fails("overlap") ELSE Quiet
  BY <1>1 DEF Begin, Overlapping
<1>3. /\ session \in Session /\ GoodSession(session, said) /\ Grows(said)
      /\ task \in [Workers -> FormTask \cup {NULL}] /\ troubles \in Seq(Troubles)
  BY DEF Good, FormTypeOK, Grows
<1>4. x \in FormTask /\ x.phase = kind /\ x.copy = session /\ x.mut = m
  BY <1>1, <1>3 DEF FormTask
<1> HIDE DEF x
<1>5. FormGoodTask(x, said)
  BY <1>1, <1>3, <1>4 DEF FormGoodTask, Kinds
<1>6. task'[w] = x /\ Moves(w, said) /\ Notes
  BY <1>2, <1>3, <1>4, <1>5 DEF Moves, Notes
<1>7. Good'
  BY <1>2, <1>3, <1>6, MovesAlone DEF Good, FormTypeOK, history
<1>8. Fails("overlap") => ~Quiet
  <2> SUFFICES ASSUME Fails("overlap"), Quiet PROVE FALSE
    OBVIOUS
  <2>1. Len(Append(troubles, "overlap")) = Len(troubles) + 1 /\ Len(troubles) \in Nat
    BY <1>3
  <2> QED BY <2>1 DEF Fails, Occurs, Quiet
<1> QED BY <1>2, <1>4, <1>6, <1>7, <1>8 DEF FormBegins, Kinds, history

-----------------------------------------------------------------------------
\* A handler's step leaves the other updates alone.
LEMMA OthersStay ==
    ASSUME Good, NEW w \in Workers, ReceiveUpdate(w) \/ HandleUpdate(w)
    PROVE  \A v \in Workers \ {w} : task'[v] = task[v]
<1>1. task \in [Workers -> FormTask \cup {NULL}]
  BY DEF Good, FormTypeOK
<1>2. task' = task \/ \E x : task' = [task EXCEPT ![w] = x]
  <2>1. ASSUME NEW p, To(w, p) PROVE \E x : task' = [task EXCEPT ![w] = x]
    BY <2>1 DEF To
  <2>2. ASSUME Done(w) PROVE \E x : task' = [task EXCEPT ![w] = x]
    BY <2>2 DEF Done
  <2>3. ASSUME NEW f, Put(w, f) PROVE \E x : task' = [task EXCEPT ![w] = x]
    BY <2>3 DEF Put
  <2>4. CASE ReceiveUpdate(w)
    BY <2>4 DEF ReceiveUpdate, Begin
  <2>5. CASE HandleForm(w) \/ IgnoreText(w) \/ AnswerPhone(w) \/ AnswerNickname(w)
               \/ AnswerDetails(w)
             \/ Select(w) \/ Cancel(w) \/ ConfirmRefused(w)
    BY <2>2, <2>3, <2>5 DEF HandleForm, IgnoreText, AnswerPhone, AnswerNickname, AnswerDetails,
       Select, Cancel, ConfirmRefused
  <2>6. CASE FindExisting(w) \/ FindFails(w) \/ OpenEditFails(w) \/ Flush(w) \/ FlushFails(w)
             \/ Own(w) \/ OwnFails(w) \/ ReplyFails(w) \/ Enqueue(w) \/ EnqueueFails(w)
    BY <2>1, <2>2, <2>6 DEF FindExisting, FindFails, OpenEditFails, Flush, FlushFails,
       Own, OwnFails, ReplyFails, Enqueue, EnqueueFails
  <2>7. CASE Confirm(w)
    BY <2>2, <2>7 DEF Confirm
  <2>8. CASE HandleEdit(w)
    BY <2>1, <2>8 DEF HandleEdit
  <2>9. CASE OpenEdit(w)
    BY <2>2, <2>9 DEF OpenEdit
  <2>10. CASE Reply(w) \/ ReminderFails(w)
    BY <2>3, <2>10 DEF Reply, ReminderFails
  <2>11. CASE SaveForms(w) \/ SaveFormsFails(w)
    BY <2>11 DEF SaveForms, SaveFormsFails
  <2> QED BY <2>4, <2>5, <2>6, <2>7, <2>8, <2>9, <2>10, <2>11 DEF HandleUpdate
<1>3. ASSUME NEW x, task' = [task EXCEPT ![w] = x] PROVE \A v \in Workers \ {w} : task'[v] = task[v]
  BY <1>1, <1>3
<1> QED BY <1>2, <1>3

\* What a step of a handler does.
LEMMA HandleGives ==
    ASSUME Good, NEW w \in Workers, HandleUpdate(w)
    PROVE  /\ Good' /\ Busy(w)
           /\ \/ Ends(w) /\ ~At(w, "reply") /\ UNCHANGED <<session, plans, queue, open>>
              \/ Confirms(w) \/ Finds(w) \/ Edits(w) \/ Opens(w) \/ Flushes(w) \/ Owns(w)
              \/ Queues(w) \/ Replies(w) \/ Enqueues(w) \/ Leaves(w)
<1>1. CASE \/ HandleForm(w) \/ IgnoreText(w) \/ AnswerPhone(w) \/ AnswerNickname(w)
           \/ AnswerDetails(w) \/ Select(w) \/ Cancel(w) \/ ConfirmRefused(w)
  <2>1. ~At(w, "reply")
    BY <1>1 DEF HandleForm, IgnoreText, AnswerPhone, AnswerNickname, AnswerDetails, Select, Cancel,
       ConfirmRefused, HandlesText, AtStep, At
  <2> QED BY <1>1, <2>1, WizardGood DEF Ends
<1>2. CASE Confirm(w)
  <2>1. ~At(w, "reply") /\ Busy(w)
    BY <1>2 DEF Confirm, At, Busy
  <2> QED BY <1>2, <2>1, ConfirmGood
<1>3. CASE FindExisting(w) \/ FindFails(w)
  <2>1. ~At(w, "reply") /\ Busy(w)
    BY <1>3 DEF FindExisting, FindFails, At, Busy
  <2> QED BY <1>3, <2>1, FindGood
<1>4. CASE HandleEdit(w)
  BY <1>4, EditGood DEF Edits
<1>5. CASE OpenEdit(w) \/ OpenEditFails(w)
  <2>1. ~At(w, "reply") /\ Busy(w)
    BY <1>5 DEF OpenEdit, OpenEditFails, At, Busy
  <2> QED BY <1>5, <2>1, OpenGood
<1>6. CASE Flush(w) \/ FlushFails(w)
  BY <1>6, FlushGood DEF Flushes, At, Busy
<1>7. CASE Own(w)
  <2>1. ~At(w, "reply") /\ Busy(w)
    BY <1>7 DEF Own, At, Busy
  <2> QED BY <1>7, <2>1, OwnGood
<1>8. CASE OwnFails(w) \/ ReplyFails(w)
  BY <1>8, QueuesGood DEF Queues
<1>12. CASE ReminderFails(w)
  BY <1>12, ReminderGood DEF Queues
<1>9. CASE Reply(w)
  BY <1>9, ReplyGood DEF Replies, At, Busy
<1>10. CASE Enqueue(w) \/ EnqueueFails(w)
  BY <1>10, EnqueueGood DEF Enqueues
<1>11. CASE SaveForms(w) \/ SaveFormsFails(w)
  BY <1>11, LeaveGood DEF Leaves, At, Busy
<1> QED BY <1>1, <1>2, <1>3, <1>4, <1>5, <1>6, <1>7, <1>8, <1>9, <1>10, <1>11, <1>12
    DEF HandleUpdate

\* A crash and another command keep all good.
LEMMA OtherGood ==
    ASSUME Good, FormCrash \/ Delete \/ Finish \/ Revive \/ UNCHANGED formVars
    PROVE  Good'
<1>0. /\ Grows(said) /\ shown \in [Threads -> SUBSET {"plan", "summary"}] /\ open \subseteq Threads
      /\ session \in Session /\ plans \in Seq(Plan) /\ queue \in Seq(Mutation)
      /\ task \in [Workers -> FormTask \cup {NULL}]
  BY DEF Good, FormTypeOK, Grows
<1>1. ASSUME Notes, UNCHANGED <<session, queue, history>>,
             plans' \in Seq(Plan), Len(plans') = Len(plans),
             \A p \in 1 .. Len(plans) : plans'[p].phone = plans[p].phone
               /\ plans'[p].thread = plans[p].thread,
             task' = task \/ task' = [w \in Workers |-> NULL]
      PROVE  Good'
  <2>1. said' = said /\ shown' = shown /\ open' = open /\ session' = session /\ queue' = queue
    BY <1>1 DEF history
  <2>2. FormTypeOK'
    BY <1>0, <1>1, <2>1, NotesTyped DEF Good, FormTypeOK
  <2>3. GoodSession(session, said)' /\ \A i \in 1 .. Len(queue') : GoodMut(queue[i], said)'
    BY <2>1 DEF Good, GoodSession, GoodForm, Fits, GoodMut
  <2>4. \A p \in 1 .. Len(plans') : plans'[p].phone \in said'[plans'[p].thread]
    BY <1>1, <2>1 DEF Good
  <2>5. \A w \in Workers : Busy(w)' => FormGoodTask(task[w], said)'
    <3>1. CASE task' = task
      BY <2>1, <3>1 DEF Good, Busy, FormGoodTask, GoodSession, GoodForm, Fits, GoodMut
    <3>2. CASE task' = [w \in Workers |-> NULL]
      BY <3>2 DEF Busy
    <3> QED BY <1>1, <3>1, <3>2
  <2> QED BY <2>2, <2>3, <2>4, <2>5 DEF Good
<1>2. CASE FormCrash
  BY <1>0, <1>1, <1>2 DEF FormCrash, Notes
<1>3. CASE Delete \/ Finish
  <2>1. PICK n \in 1 .. Len(plans), end \in {"completed", "deleted"} :
          plans' = [plans EXCEPT ![n].status = end, ![n].beside = FALSE]
    BY <1>3 DEF Delete, Finish
  <2> QED BY <1>1, <1>3, <2>1, DeleteGood DEF Delete, Finish, Notes
<1>5. CASE Revive
  <2>1. PICK n \in 1 .. Len(plans), b \in BOOLEAN :
          plans' = [plans EXCEPT ![n].status = "live", ![n].beside = b]
    BY <1>5 DEF Revive, HasPlan
  <2> QED BY <1>1, <1>5, <2>1, ReviveGood DEF Revive, Overlapping, Notes
<1>4. CASE UNCHANGED formVars
  BY <1>0, <1>1, <1>4 DEF formVars, history, Notes, Quiet
<1> QED BY <1>2, <1>3, <1>4, <1>5

\* Every step keeps all good.
LEMMA NextGood ==
    ASSUME Good, [FormNext]_formVars
    PROVE  Good' /\ Notes
<1>1. Good'
  BY HandleGives, ReceiveGood, OtherGood DEF FormNext
<1>2. Notes
  BY Zenon DEF Notes, Quiet, FormNext, formVars, ReceiveUpdate, Begin, FormCrash, Delete,
     Finish, Revive, Overlapping, HandleUpdate, HandleForm, IgnoreText,
     AnswerPhone, AnswerNickname, AnswerDetails, Select, Cancel, ConfirmRefused, Confirm,
     FindExisting,
     FindFails, HandleEdit, OpenEdit, OpenEditFails, Flush, FlushFails, Own, OwnFails, Reply,
     ReplyFails, ReminderFails, Enqueue, EnqueueFails, SaveForms, SaveFormsFails
<1> QED BY <1>1, <1>2

-----------------------------------------------------------------------------
\* What went wrong stays on record.
LEMMA FormMetStays ==
    ASSUME FormTypeOK, Notes, NEW S, ~Met(S)'
    PROVE  ~Met(S)
BY FormMetAfter, MetQuiet DEF Notes

\* The check of the form and the statement that follows it have the table to themselves.
LEMMA StraightStep ==
    ASSUME Good, Straight, OnePlanPerPhone, FormNext, ~Met(Excuses)'
    PROVE  Straight' /\ OnePlanPerPhone'
<1>0. ~Met(Excuses) /\ (\A k \in Excuses : ~Fails(k)) /\ Good'
  BY NextGood, FormMetStays, FormMetAfter DEF Good, Excuses
<1> DEFINE Clear == \A w \in Workers : Working(w) /\ task[w].mut.type = "create" =>
             ~HasPlan(task[w].mut.phone)
           One == \A p, q \in 1 .. Len(plans) :
                    Live(p) /\ Live(q) /\ plans[p].phone = plans[q].phone =>
                      p = q \/ plans[p].beside \/ plans[q].beside
           Nothing == \A w \in Workers : ~At(w, "enqueue")
<1>1. Single /\ queue = <<>> /\ Nothing /\ Clear /\ One
  BY <1>0 DEF Straight, OnePlanPerPhone, Excuses
<1>2. SUFFICES Single' /\ queue' = <<>> /\ Nothing' /\ Clear' /\ One'
  BY DEF Straight, OnePlanPerPhone
<1>p. plans \in Seq(Plan) /\ Len(plans) \in Nat
  BY DEF Good, FormTypeOK
<1>3. ASSUME NEW w \in Workers, HandleUpdate(w)
      PROVE  Single' /\ queue' = <<>> /\ Nothing' /\ Clear' /\ One'
  <2>1. /\ Busy(w) /\ \A v \in Workers \ {w} : ~Busy(v) /\ ~Busy(v)'
        /\ FormGoodTask(task[w], said)
    BY <1>1, <1>3, HandleGives, OthersStay, BusyGives DEF Single, Busy
  <2>2. Single'
    BY <2>1 DEF Single
  <2>3. SUFFICES queue' = <<>> /\ ~At(w, "enqueue")' /\ One'
                 /\ (Working(w) /\ task[w].mut.type = "create" => ~HasPlan(task[w].mut.phone))'
    BY <2>1, <2>2 DEF At, Working, Busy
  <2>4. UNCHANGED plans => (One' <=> One) /\ \A phone : HasPlan(phone)' <=> HasPlan(phone)
    BY DEF HasPlan, Live
  <2>5. CASE (Ends(w) /\ UNCHANGED <<session, plans, queue, open>>) \/ Confirms(w) \/ Opens(w)
               \/ Leaves(w)
    <3>1. UNCHANGED <<plans, queue>> /\ (task'[w] # NULL => task'[w].phase \in {"save", "find"})
      BY <2>5 DEF Ends, Confirms, Opens, Leaves
    <3> QED BY <1>1, <2>4, <3>1 DEF At, Busy, Working
  <2>6. CASE Finds(w)
    BY <1>1, <2>4, <2>6 DEF Finds, At, Busy, Working
  <2>7. CASE Edits(w)
    <3>1. UNCHANGED <<plans, queue>> /\ task'[w].phase = "flush" /\ task'[w].mut.type # "create"
      BY <2>7 DEF Edits
    <3> QED BY <1>1, <2>4, <3>1 DEF At, Busy, Working
  <2>8. CASE Flushes(w)
    <3>1. /\ UNCHANGED <<plans, queue>> /\ task'[w].phase \in {"flush", "own"}
          /\ task'[w].mut = task[w].mut /\ Working(w)
      BY <1>1, <2>8 DEF Flushes, Working
    <3> QED BY <1>1, <2>4, <3>1 DEF At, Busy, Working
  <2>9. CASE Owns(w)
    <3>1. queue' = queue /\ task'[w].phase = "reply"
      BY <2>9 DEF Owns
    <3>2. One'
      <4>1. CASE plans' = plans
        BY <1>1, <2>4, <4>1
      <4>2. CASE task[w].mut.type = "create" /\ plans' = Append(plans, Created(task[w].mut))
        <5>1. ~HasPlan(task[w].mut.phone)
          BY <1>1, <2>9, <4>2 DEF Owns, Working
        <5>2. /\ Len(plans') = Len(plans) + 1 /\ plans'[Len(plans) + 1].phone = task[w].mut.phone
              /\ \A p \in 1 .. Len(plans) : plans'[p] = plans[p]
          BY <1>p, <4>2 DEF Created
        <5>3. \A p \in 1 .. Len(plans) : Live(p) => plans[p].phone # task[w].mut.phone
          BY <5>1 DEF HasPlan
        <5> QED BY <1>1, <1>p, <5>2, <5>3 DEF Live
      <4> QED BY <2>9, <4>1, <4>2 DEF Owns
    <3> QED BY <1>1, <3>1, <3>2 DEF At, Busy, Working
  <2>10. CASE Replies(w)
    <3>1. queue' = queue /\ task'[w].phase = "save"
      BY <2>10 DEF Replies
    <3>2. One'
      <4>1. CASE plans' = plans
        BY <1>1, <2>4, <4>1
      <4>2. CASE plans' # plans
        <5>1. PICK p : \E card \in {"none", "unknown", "known"} :
                plans' = [plans EXCEPT ![p].card = card]
          BY <2>10, <4>2 DEF Replies
        <5>2. PICK card \in {"none", "unknown", "known"} : plans' = [plans EXCEPT ![p].card = card]
          BY <5>1
        <5> QED BY <1>1, <5>2, CardGood DEF Live
      <4> QED BY <4>1, <4>2
    <3> QED BY <1>1, <3>1, <3>2 DEF At, Busy, Working
  <2>11. ~Queues(w) /\ ~Enqueues(w)
    BY <1>0, <1>1 DEF Queues, Enqueues
  <2> QED BY <1>3, HandleGives, <2>5, <2>6, <2>7, <2>8, <2>9, <2>10, <2>11
<1>4. ASSUME NEW w \in Workers, ReceiveUpdate(w)
      PROVE  Single' /\ queue' = <<>> /\ Nothing' /\ Clear' /\ One'
  <2>1. /\ \A v \in Workers : ~Busy(v)
        /\ UNCHANGED <<plans, queue>>
        /\ task'[w].phase \in {"form", "text", "select", "confirm", "cancel", "edit"}
    BY <1>0, <1>4, ReceiveGood DEF FormBegins, Excuses
  <2>2. \A v \in Workers \ {w} : ~Busy(v)'
    BY <1>4, <2>1, OthersStay DEF Busy
  <2>3. \A v \in Workers : ~At(v, "enqueue")' /\ ~Working(v)'
    BY <2>1, <2>2 DEF At, Working, Busy
  <2> QED BY <1>1, <2>1, <2>2, <2>3 DEF Single, Live
<1>5. CASE FormCrash
  <2>1. \A w \in Workers : ~Busy(w)'
    BY <1>5 DEF FormCrash, Busy
  <2>2. UNCHANGED <<plans, queue>>
    BY <1>5 DEF FormCrash
  <2> QED BY <1>1, <2>1, <2>2 DEF Single, At, Working, Busy, Live
<1>6. CASE Delete \/ Finish
  <2>1. PICK n \in 1 .. Len(plans), end \in {"completed", "deleted"} :
          plans' = [plans EXCEPT ![n].status = end, ![n].beside = FALSE]
    BY <1>6 DEF Delete, Finish
  <2>2. UNCHANGED <<task, queue>>
    BY <1>6 DEF Delete, Finish
  <2>3. /\ Len(plans') = Len(plans)
        /\ \A p \in 1 .. Len(plans) : /\ plans'[p].phone = plans[p].phone
                                      /\ plans'[p].status = "live" =>
                                           /\ plans[p].status = "live"
                                           /\ plans'[p].beside = plans[p].beside
    BY <2>1, DeleteGood
  <2>4. One'
    BY <1>1, <2>3 DEF Live
  <2>5. \A phone : ~HasPlan(phone) => ~HasPlan(phone)'
    BY <2>3 DEF HasPlan, Live
  <2> QED BY <1>1, <2>2, <2>4, <2>5 DEF Single, At, Busy, Working
<1>7. CASE Revive
  <2>1. PICK n \in 1 .. Len(plans) :
          plans' = [plans EXCEPT ![n].status = "live", ![n].beside = HasPlan(plans[n].phone)]
    BY <1>7 DEF Revive
  <2>2. UNCHANGED <<task, queue>> /\ \A w \in Workers : ~Busy(w)
    BY <1>0, <1>7 DEF Revive, Overlapping, Excuses
  <2>3. /\ Len(plans') = Len(plans) /\ plans'[n].beside = HasPlan(plans[n].phone)
        /\ \A p \in 1 .. Len(plans) : plans'[p].phone = plans[p].phone
        /\ \A p \in (1 .. Len(plans)) \ {n} : plans'[p] = plans[p]
    <3>1. HasPlan(plans[n].phone) \in BOOLEAN
      BY DEF HasPlan
    <3> QED BY <2>1, <3>1, ReviveGood
  <2>4. One'
    <3> SUFFICES ASSUME NEW p \in 1 .. Len(plans), NEW q \in 1 .. Len(plans), Live(p)', Live(q)',
                        plans'[p].phone = plans'[q].phone, p # q
                 PROVE  plans'[p].beside \/ plans'[q].beside
      BY <2>3
    <3>1. CASE p # n /\ q # n
      BY <1>1, <2>3, <3>1 DEF Live
    <3>2. CASE p = n
      <4>1. HasPlan(plans[n].phone)
        BY <2>3, <3>2 DEF HasPlan, Live
      <4> QED BY <2>3, <3>2, <4>1
    <3>3. CASE q = n
      <4>1. HasPlan(plans[n].phone)
        BY <2>3, <3>3 DEF HasPlan, Live
      <4> QED BY <2>3, <3>3, <4>1
    <3> QED BY <3>1, <3>2, <3>3
  <2> QED BY <1>1, <2>2, <2>4 DEF Single, At, Busy, Working
<1> QED BY <1>3, <1>4, <1>5, <1>6, <1>7 DEF FormNext

\* While nothing went wrong, an edit that waits was asked for.
LEMMA AskedStep ==
    ASSUME Good, Straight, Asked, FormNext, troubles' = <<>>
    PROVE  Asked'
<1>0. /\ Quiet /\ troubles = <<>> /\ ~Met(Excuses) /\ Single /\ queue = <<>>
      /\ \A k : ~Fails(k)
      /\ \A w \in Workers : ~At(w, "enqueue")
  <2>1. troubles \in Seq(Troubles) /\ \A k : ~Fails(k)
    <3>1. troubles \in Seq(Troubles) /\ Len(troubles) \in Nat
      BY DEF Good, FormTypeOK
    <3>2. ASSUME NEW k, Fails(k) PROVE FALSE
      <4>1. k \in Troubles /\ troubles' = Append(troubles, k)
        BY <3>2 DEF Fails, Occurs
      <4>2. Len(troubles') = Len(troubles) + 1
        BY <3>1, <4>1
      <4> QED BY <3>1, <4>2
    <3> QED BY <3>1, <3>2
  <2>2. Quiet /\ troubles = <<>>
    BY <2>1, NextGood DEF Notes, Quiet
  <2>3. ~Met(Excuses)
    BY <2>2 DEF Met
  <2> QED BY <2>1, <2>2, <2>3 DEF Straight, Excuses
<1> DEFINE Rest == (\A w \in Workers : ~Busy(w)) => \A t \in Threads : session.edits[t] # NULL =>
             t \in open
           Mine(w) == /\ \A t \in Threads : task[w].copy.edits[t] # NULL =>
                           t \in open
                             \/ (t = task[w].thread /\ At(w, "reply")
                                  /\ task[w].mut.type = "comment")
                      /\ Working(w) /\ task[w].mut.type = "comment" => task[w].thread \in open
<1>1. Rest /\ \A w \in Workers : Busy(w) => Mine(w)
  BY <1>0 DEF Asked
<1>2. SUFFICES Rest' /\ \A w \in Workers : Busy(w)' => Mine(w)'
  BY DEF Asked
<1>3. ASSUME NEW w \in Workers, HandleUpdate(w)
      PROVE  Rest' /\ \A v \in Workers : Busy(v)' => Mine(v)'
  <2>1. /\ Busy(w) /\ Mine(w) /\ \A v \in Workers \ {w} : ~Busy(v)'
        /\ FormGoodTask(task[w], said) /\ task[w].thread \in Threads
    BY <1>0, <1>1, <1>3, HandleGives, OthersStay, BusyGives DEF Single, Busy
  <2>2. ASSUME task'[w] # NULL, Mine(w)'
        PROVE  Rest' /\ \A v \in Workers : Busy(v)' => Mine(v)'
    <3>1. Rest'
      BY <2>2 DEF Busy
    <3> QED BY <2>1, <2>2, <3>1
  <2> HIDE DEF Rest
  <2>3. CASE Ends(w) /\ ~At(w, "reply") /\ UNCHANGED <<session, plans, queue, open>>
    BY <2>1, <2>2, <2>3 DEF Ends, At, Working, Busy
  <2>4. CASE Confirms(w)
    BY <2>1, <2>2, <2>4 DEF Confirms, Same, At, Working, Busy
  <2>5. CASE Finds(w)
    <3>1. task[w].mut.type = "create"
      BY <2>1, <2>5 DEF Finds, At, FormGoodTask
    <3> QED BY <2>1, <2>2, <2>5, <3>1 DEF Finds, Same, At, Working, Busy
  <2>6. CASE Edits(w)
    BY <2>1, <2>2, <2>6 DEF Edits, Same, At, Working, Busy
  <2>7. CASE Opens(w)
    BY <2>1, <2>2, <2>7 DEF Opens, At, Working, Busy
  <2>8. CASE Flushes(w)
    BY <2>1, <2>2, <2>8 DEF Flushes, Same, At, Working, Busy
  <2>9. CASE Owns(w)
    BY <2>1, <2>2, <2>9 DEF Owns, Same, At, Working, Busy
  <2>10. CASE Replies(w)
    BY <2>1, <2>2, <2>10 DEF Replies, At, Working, Busy
  <2>11. CASE Leaves(w)
    <3>1. session' = StoredForms(task[w].copy) /\ open' = open /\ task'[w] = NULL /\ At(w, "save")
      BY <1>0, <2>11 DEF Leaves
    <3>2. session'.edits = task[w].copy.edits
      BY <2>1, <3>1, StoredGood DEF FormGoodTask
    <3>3. Rest'
      BY <2>1, <3>1, <3>2 DEF Rest, At
    <3> QED BY <2>1, <3>1, <3>3 DEF Busy
  <2>12. ~Queues(w) /\ ~Enqueues(w)
    BY <1>0 DEF Queues, Enqueues
  <2> QED BY <1>3, HandleGives, <2>3, <2>4, <2>5, <2>6, <2>7, <2>8, <2>9, <2>10, <2>11, <2>12
<1>4. ASSUME NEW w \in Workers, ReceiveUpdate(w)
      PROVE  Rest' /\ \A v \in Workers : Busy(v)' => Mine(v)'
  <2>1. /\ \A v \in Workers : ~Busy(v)
        /\ UNCHANGED <<session, open>> /\ task'[w].copy = session
        /\ task'[w].phase \in {"form", "text", "select", "confirm", "cancel", "edit"}
    BY <1>0, <1>4, ReceiveGood DEF FormBegins
  <2>2. \A v \in Workers \ {w} : ~Busy(v)'
    BY <1>4, <2>1, OthersStay DEF Busy
  <2>3. Rest' /\ Mine(w)'
    BY <1>1, <2>1 DEF At, Working
  <2> QED BY <2>2, <2>3
<1>5. ~FormCrash
  BY <1>0 DEF FormCrash
<1>6. CASE Delete \/ Finish \/ Revive
  <2>1. UNCHANGED <<session, open, task>>
    BY <1>6 DEF Delete, Finish, Revive, history
  <2> QED BY <1>1, <2>1 DEF Busy, At, Working
<1> QED BY <1>3, <1>4, <1>5, <1>6 DEF FormNext

\* The inductive invariant.
FormIInv == Good /\ Straight /\ OnePlanPerPhone /\ Asked

\* The first state has the invariant,
LEMMA FormInitGives == ASSUME FormInit PROVE FormIInv
<1>1. Good
  BY FormAssumption DEF FormInit, Good, FormTypeOK, Session, GoodSession, GoodForm, Busy
<1>2. Straight /\ OnePlanPerPhone
  BY DEF FormInit, Straight, OnePlanPerPhone, Single, Busy, At, Working
<1>3. Asked
  BY DEF FormInit, Asked, Busy
<1> QED BY <1>1, <1>2, <1>3 DEF FormIInv

\* every step keeps it,
LEMMA FormNextKeeps == ASSUME FormIInv, [FormNext]_formVars PROVE FormIInv'
<1>1. Good'
  BY NextGood DEF FormIInv
<1>2. CASE FormNext
  <2>1. Straight' /\ OnePlanPerPhone'
    <3>1. CASE Met(Excuses)'
      BY <3>1 DEF Straight, OnePlanPerPhone, Excuses
    <3> QED BY <1>2, <3>1, StraightStep DEF FormIInv
  <2>2. Asked'
    <3>1. CASE troubles' # <<>>
      BY <3>1 DEF Asked
    <3> QED BY <1>2, <3>1, AskedStep DEF FormIInv
  <2> QED BY <1>1, <2>1, <2>2 DEF FormIInv
<1>3. CASE UNCHANGED formVars
  <2>1. UNCHANGED <<session, plans, queue, task, said, shown, open, troubles>>
    BY <1>3 DEF formVars, history
  <2>2. Straight' /\ OnePlanPerPhone'
    BY <2>1 DEF FormIInv, Straight, OnePlanPerPhone, Met, Single, Busy, At, Working, HasPlan, Live
  <2>3. Asked'
    BY <2>1 DEF FormIInv, Asked, Busy, At, Working
  <2> QED BY <1>1, <2>2, <2>3 DEF FormIInv
<1> QED BY <1>2, <1>3

\* and it is enough.
LEMMA FormIInvGives == ASSUME FormIInv PROVE FormsSound /\ PlansAsAnswered
<1>1. FormTypeOK /\ FormFits
  BY DEF FormIInv, Good, FormFits, GoodSession, GoodForm, FormGoodTask, Fits
<1>2. CommentsAsked
  BY DEF FormIInv, Asked, CommentsAsked, At, Working, Busy
<1>3. PlansAsAnswered
  BY DEF FormIInv, Good, PlansAsAnswered, GoodMut
<1> QED BY <1>1, <1>2, <1>3 DEF FormsSound

\* A text or a press finds the form and the edit it belongs to, for any threads, workers and
\* plans and whatever goes wrong (bot/channels/commands/form.ts).
THEOREM FormsSoundHolds == FormSpec => []FormsSound
<1>1. FormInit => FormIInv
  BY FormInitGives
<1>2. FormIInv /\ [FormNext]_formVars => FormIInv'
  BY FormNextKeeps
<1>3. FormIInv => FormsSound
  BY FormIInvGives
<1> QED BY <1>1, <1>2, <1>3, PTL DEF FormSpec

\* Every plan, created or waiting in the list, is of a phone that was answered in its own
\* thread: the forms of two threads never mix.
THEOREM PlansAsAnsweredHolds == FormSpec => []PlansAsAnswered
<1>1. FormInit => FormIInv
  BY FormInitGives
<1>2. FormIInv /\ [FormNext]_formVars => FormIInv'
  BY FormNextKeeps
<1>3. FormIInv => PlansAsAnswered
  BY FormIInvGives
<1> QED BY <1>1, <1>2, <1>3, PTL DEF FormSpec

\* A phone has one live plan unless a completed one was made live again beside it, updates
\* overlapped, or Telegram, the database or Redis failed: the check of the form is enough when
\* nothing comes between it and the INSERT.
THEOREM OnePlanPerPhoneHolds == FormSpec => []OnePlanPerPhone
<1>1. FormInit => FormIInv
  BY FormInitGives
<1>2. FormIInv /\ [FormNext]_formVars => FormIInv'
  BY FormNextKeeps
<1>3. FormIInv => OnePlanPerPhone
  BY DEF FormIInv
<1> QED BY <1>1, <1>2, <1>3, PTL DEF FormSpec
=============================================================================
