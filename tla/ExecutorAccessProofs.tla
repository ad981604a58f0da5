------------------------ MODULE ExecutorAccessProofs ------------------------
(***************************************************************************)
(* ExecutorAccess, for any number of phones, updates, handlers, runs of    *)
(* the job and failures: no phone disappears on its way to the row, the    *)
(* one shared last stays there unless the list and the handlers overtook   *)
(* each other, and an order that nothing ran or failed beside is decided   *)
(* by the row.                                                             *)
(***************************************************************************)
EXTENDS ExecutorAccess, SequenceTheorems, TLAPS

\* The handler has the contact of its update and has not yet handed it on.
Carries(w) == Busy(w) /\ task[w].phone # NULL /\ task[w].phase # "primePhone"

\* The run of the job has a phone that it took from the list.
Has(f) == FlushAt(f, "persist") \/ FlushAt(f, "putback")

\* Only the handler of a contact has a phone, up to the phases of savePhone.
TaskFits(t) ==
    /\ t.kind = "share" <=> t.phone # NULL
    /\ t.phase \in {"persist", "enqueue", "primePhone"} => t.phone # NULL
    /\ t.phase \notin {"auth", "prime", "persist", "enqueue", "primePhone"} => t.phone = NULL

RowFits ==
    /\ row \in Access /\ cache \in Access \cup {NULL} /\ backup \in Access \cup {NULL}
    /\ queue \in Seq(Phones) /\ applied \subseteq Phones /\ lost \subseteq Phones
TasksFit ==
    /\ task \in [Workers -> Task \cup {NULL}]
    /\ \A w \in Workers : Busy(w) => TaskFits(task[w])
FlushesFit ==
    /\ flush \in [Flushers -> Flush \cup {NULL}]
    /\ \A f \in Flushers : Has(f) => flush[f].phone # NULL
CountsFit ==
    /\ updates \in 0 .. MaxUpdates /\ shared \in 0 .. MaxShares /\ verified \in BOOLEAN
    /\ overtaken \in BOOLEAN /\ calm \subseteq Workers /\ faults \in 0 .. MaxFaults

Fit == RowFits /\ TasksFit /\ FlushesFit /\ CountsFit

-----------------------------------------------------------------------------
(* The steps of a handler, by what they do to its task *)

\* The handler goes on in another phase; the others stay where they are.
Moves(w, phase) ==
    /\ task' \in [Workers -> Task \cup {NULL}]
    /\ task[w] \in Task /\ task'[w] \in Task
    /\ task'[w].kind = task[w].kind /\ task'[w].phone = task[w].phone
    /\ task'[w].phase = phase
    /\ \A v \in Workers : v # w => task'[v] = task[v]

\* The handler is done.
Ends(w) ==
    /\ task' \in [Workers -> Task \cup {NULL}] /\ task'[w] = NULL
    /\ \A v \in Workers : v # w => task'[v] = task[v]

\* A failure that happens is counted, and disturbs everybody.
LEMMA Counted ==
    ASSUME Fit, Quiet \/ \E k \in Faults : Occurs(k)
    PROVE  calm' \subseteq calm /\ calm' \subseteq Workers /\ faults' \in 0 .. MaxFaults
  BY AccessAssumption DEF Fit, CountsFit, Quiet, Occurs

\* A handler that is at a phase is busy with a task.
LEMMA Here ==
    ASSUME Fit, NEW w \in Workers, NEW phase, At(w, phase)
    PROVE  /\ task[w] \in Task /\ TaskFits(task[w]) /\ task[w].phase = phase
           /\ task \in [Workers -> Task \cup {NULL}]
  BY DEF Fit, TasksFit, At, Busy

\* A task is no absence of one.
LEMMA IsBusy == \A t \in Task \cup {NULL} : t \in Task <=> t # NULL
  BY NullAssumption

Phases == {"auth", "prime", "persist", "enqueue", "primePhone", "get", "read",
           "remember", "decided", "ensure", "ask", "block"}

\* The next phase is written, and perhaps what was seen.
LEMMA Goes ==
    ASSUME Fit, NEW w \in Workers, NEW here, At(w, here), NEW phase \in Phases,
           NEW seen \in Access \cup {NULL}, NEW known \in BOOLEAN,
           task' = [task EXCEPT ![w] = [task[w] EXCEPT !.phase = phase, !.seen = seen,
                                                       !.verified = known]]
    PROVE  Moves(w, phase) /\ task'[w].seen = seen
<1>1. task[w] \in Task /\ task \in [Workers -> Task \cup {NULL}] BY Here
<1>2. PICK u : u = [task[w] EXCEPT !.phase = phase, !.seen = seen, !.verified = known] OBVIOUS
<1>3. /\ u \in Task /\ u.kind = task[w].kind /\ u.phone = task[w].phone
      /\ u.phase = phase /\ u.seen = seen
  BY <1>1, <1>2 DEF Task, Phases
<1>4. task' = [task EXCEPT ![w] = u] BY <1>2
<1> QED BY <1>1, <1>3, <1>4 DEF Moves

\* Only the phase is written.
LEMMA GoesTo ==
    ASSUME Fit, NEW w \in Workers, NEW here, At(w, here), NEW phase \in Phases, To(w, phase)
    PROVE  Moves(w, phase) /\ task'[w].seen = task[w].seen
<1>1. /\ task[w] \in Task /\ task \in [Workers -> Task \cup {NULL}]
      /\ task[w].seen \in Access \cup {NULL} /\ task[w].verified \in BOOLEAN
  BY Here DEF Task
<1>2. PICK u : u = [task[w] EXCEPT !.phase = phase] OBVIOUS
<1>3. /\ u \in Task /\ u.kind = task[w].kind /\ u.phone = task[w].phone
      /\ u.phase = phase /\ u.seen = task[w].seen
  BY <1>1, <1>2 DEF Task, Phases
<1>4. task' = [task EXCEPT ![w] = u] BY <1>2 DEF To
<1> QED BY <1>1, <1>3, <1>4 DEF Moves

\* The task is put away.
LEMMA Stops ==
    ASSUME Fit, NEW w \in Workers, NEW known, End(w, known)
    PROVE  Ends(w)
  BY DEF Fit, TasksFit, End, Ends

\* After the check-in a contact goes to savePhone, and nothing else does.
LEMMA After ==
    ASSUME NEW t \in Task, TaskFits(t)
    PROVE  /\ AfterAuth(t.kind) \in {"persist", "get", "ensure"}
           /\ AfterAuth(t.kind) = "persist" <=> t.phone # NULL
           /\ AfterAuth(t.kind) = "get" => t.kind = "order"
  BY DEF AfterAuth, Task, TaskFits

\* The row or the list takes the contact, or both refuse it.
HandsOn(w) == Persist(w) \/ Enqueue(w) \/ EnqueueFails(w)
GoesOn(w, phase) ==
    /\ Moves(w, phase) /\ TaskFits(task'[w])
    /\ phase = "primePhone" <=> HandsOn(w)

\* A handler ends without a contact in hand, or goes on to a phase that suits its task.
LEMMA HandlerSteps ==
    ASSUME Fit, NEW w \in Workers, Handle(w)
    PROVE  \/ Ends(w) /\ ~Carries(w) /\ ~HandsOn(w)
           \/ \E phase \in Phases : GoesOn(w, phase)
<1>0. \A here : At(w, here) => task[w] \in Task /\ TaskFits(task[w]) /\ task[w].phase = here
  BY Here
<1>1. CASE Authenticate(w)
  <2>1. PICK known \in BOOLEAN, seen \in Access :
          task' = [task EXCEPT ![w] = [task[w] EXCEPT !.phase = "prime", !.seen = seen,
                                                      !.verified = known]]
    <3>1. row' \in Access BY <1>1 DEF Authenticate, Fit, RowFits, Access
    <3>2. QED BY <1>1, <3>1 DEF Authenticate
  <2>2. At(w, "auth") BY <1>1 DEF Authenticate
  <2>3. Moves(w, "prime") BY <2>1, <2>2, Goes DEF Phases
  <2>4. TaskFits(task'[w]) BY <1>0, <2>2, <2>3 DEF Moves, TaskFits
  <2>5. ~HandsOn(w) BY <1>0, <2>2 DEF HandsOn, Persist, Enqueue, EnqueueFails
  <2>6. QED BY <2>3, <2>4, <2>5 DEF GoesOn, Phases
<1>2. CASE AuthenticationFails(w) \/ Prime(w)
  <2>1. PICK here \in {"auth", "prime"} : At(w, here) /\ To(w, AfterAuth(task[w].kind))
    BY <1>2 DEF AuthenticationFails, Prime
  <2>2. /\ AfterAuth(task[w].kind) \in {"persist", "get", "ensure"}
        /\ AfterAuth(task[w].kind) = "persist" <=> task[w].phone # NULL
    BY <1>0, <2>1, After
  <2>3. PICK phase \in {"persist", "get", "ensure"} :
          To(w, phase) /\ (phase = "persist" <=> task[w].phone # NULL)
    BY <2>1, <2>2
  <2>4. Moves(w, phase) BY <2>1, <2>3, GoesTo DEF Phases
  <2>5. TaskFits(task'[w]) BY <1>0, <2>1, <2>3, <2>4 DEF Moves, TaskFits
  <2>6. ~HandsOn(w) BY <1>0, <2>1 DEF HandsOn, Persist, Enqueue, EnqueueFails
  <2>7. QED BY <2>3, <2>4, <2>5, <2>6 DEF GoesOn, Phases
<1>3. CASE PersistFails(w)
  <2>1. At(w, "persist") /\ To(w, "enqueue") BY <1>3 DEF PersistFails
  <2>2. Moves(w, "enqueue") BY <2>1, GoesTo DEF Phases
  <2>3. TaskFits(task'[w]) BY <1>0, <2>1, <2>2 DEF Moves, TaskFits
  <2>4. ~HandsOn(w)
    <3>1. faults \in Nat BY AccessAssumption DEF Fit, CountsFit
    <3>2. ~Persist(w) BY <1>3, <3>1 DEF Persist, PersistFails, NotPersisted, Occurs, Quiet
    <3>3. QED BY <1>0, <2>1, <3>2 DEF HandsOn, Enqueue, EnqueueFails
  <2>5. QED BY <2>2, <2>3, <2>4 DEF GoesOn, Phases
<1>4. CASE HandsOn(w)
  <2>1. PICK here \in {"persist", "enqueue"} : At(w, here) /\ To(w, "primePhone")
    BY <1>4 DEF HandsOn, Persist, Enqueue, EnqueueFails
  <2>2. Moves(w, "primePhone") BY <2>1, GoesTo DEF Phases
  <2>3. TaskFits(task'[w]) BY <1>0, <2>1, <2>2 DEF Moves, TaskFits
  <2>4. QED BY <1>4, <2>2, <2>3 DEF GoesOn, Phases
<1>5. CASE PrimePhone(w) \/ Decided(w) \/ SetBlocked(w) \/ SetBlockedFails(w)
  <2>1. PICK here \in {"primePhone", "decided", "block"} : At(w, here)
    BY <1>5 DEF PrimePhone, Decided, SetBlocked, SetBlockedFails
  <2>2. Ends(w) BY <1>5, Stops DEF PrimePhone, Decided, SetBlocked, SetBlockedFails
  <2>3. ~Carries(w) BY <1>0, <2>1 DEF Carries, TaskFits
  <2>4. ~HandsOn(w) BY <1>0, <2>1 DEF HandsOn, Persist, Enqueue, EnqueueFails
  <2>5. QED BY <2>2, <2>3, <2>4
<1>6. CASE Get(w) \/ Read(w) \/ ReadFails(w) \/ RememberRead(w)
  <2>1. PICK here \in {"get", "read", "remember"} : At(w, here)
    BY <1>6 DEF Get, Read, ReadFails, RememberRead
  <2>2. PICK phase \in {"decided", "read", "remember"} : Moves(w, phase)
    <3>1. CASE \E phase \in {"decided", "read"} : To(w, phase)
      BY <2>1, <3>1, GoesTo DEF Phases
    <3>2. CASE ~ \E phase \in {"decided", "read"} : To(w, phase)
      <4>1. PICK phase \in {"decided", "remember"}, seen \in Access \cup {NULL} :
              task' = [task EXCEPT ![w].phase = phase, ![w].seen = seen]
        BY <1>6, <3>2 DEF Get, Read, ReadFails, RememberRead, Fit, RowFits
      <4>2. PICK known \in BOOLEAN : known = task[w].verified BY <1>0, <2>1 DEF Task
      <4>3. task[w] \in Task /\ task \in [Workers -> Task \cup {NULL}] BY <2>1, Here
      <4>4. task' = [task EXCEPT ![w] = [task[w] EXCEPT !.phase = phase, !.seen = seen,
                                                        !.verified = known]]
        BY <4>1, <4>2, <4>3 DEF Task
      <4>5. QED BY <2>1, <4>4, Goes DEF Phases
    <3>3. QED BY <3>1, <3>2
  <2>3. TaskFits(task'[w]) BY <1>0, <2>1, <2>2 DEF Moves, TaskFits
  <2>4. ~HandsOn(w) BY <1>0, <2>1 DEF HandsOn, Persist, Enqueue, EnqueueFails
  <2>5. QED BY <2>2, <2>3, <2>4 DEF GoesOn, Phases
<1>7. CASE Ensure(w) \/ EnsureFails(w) \/ Ask(w)
  <2>1. PICK here \in {"ensure", "ask"} : At(w, here) BY <1>7 DEF Ensure, EnsureFails, Ask
  <2>2. ~HandsOn(w) BY <1>0, <2>1 DEF HandsOn, Persist, Enqueue, EnqueueFails
  <2>3. CASE \E known : End(w, known)
    <3>1. Ends(w) BY <2>3, Stops
    <3>2. ~Carries(w) BY <1>0, <2>1 DEF Carries, TaskFits
    <3>3. QED BY <2>2, <3>1, <3>2
  <2>4. CASE \E phase \in {"ask", "block"} : To(w, phase)
    <3>1. PICK phase \in {"ask", "block"} : Moves(w, phase) BY <2>1, <2>4, GoesTo DEF Phases
    <3>2. TaskFits(task'[w]) BY <1>0, <2>1, <3>1 DEF Moves, TaskFits
    <3>3. QED BY <2>2, <3>1, <3>2 DEF GoesOn, Phases
  <2>5. QED BY <1>7, <2>3, <2>4 DEF Ensure, EnsureFails, Ask
<1> QED BY <1>1, <1>2, <1>3, <1>4, <1>5, <1>6, <1>7 DEF Handle, HandsOn

-----------------------------------------------------------------------------
(* The steps of a run of the job, by what they do to it *)

\* The run goes on in another phase, with a phone or none; the others stay.
RunMoves(f, phase, phone) ==
    /\ flush' \in [Flushers -> Flush \cup {NULL}]
    /\ flush'[f] \in Flush /\ flush'[f].phase = phase /\ flush'[f].phone = phone
    /\ \A g \in Flushers : g # f => flush'[g] = flush[g]

RunEnds(f) ==
    /\ flush' \in [Flushers -> Flush \cup {NULL}] /\ flush'[f] = NULL
    /\ \A g \in Flushers : g # f => flush'[g] = flush[g]

\* A run is no absence of one.
LEMMA IsRun == \A r \in Flush \cup {NULL} : r \in Flush <=> r # NULL
  BY NullAssumption

\* A run that is at a phase is one.
LEMMA RunHere ==
    ASSUME Fit, NEW f \in Flushers, NEW phase, FlushAt(f, phase)
    PROVE  /\ flush[f] \in Flush /\ flush[f].phase = phase
           /\ phase \in {"persist", "putback"} => flush[f].phone \in Phones
           /\ flush \in [Flushers -> Flush \cup {NULL}]
  BY DEF Fit, FlushesFit, FlushAt, Flush, Has

\* The merged record is an access (mergeExecutorAccessSnapshot).
LEMMA MergedFits ==
    ASSUME Fit, NEW phone \in Phones \cup {NULL}
    PROVE  Merged(phone) \in Access
<1>1. PICK r \in Access : Merged(phone) = [r EXCEPT !.phone = phone]
  <2>1. cache # NULL => cache \in Access BY DEF Fit, RowFits
  <2>2. backup # NULL => backup \in Access BY DEF Fit, RowFits
  <2>3. [phone |-> NULL, blocked |-> FALSE] \in Access BY DEF Access
  <2>4. QED BY <2>1, <2>2, <2>3 DEF Merged
<1> QED BY <1>1 DEF Access

\* One lemma per kind of step: the head is taken, the phone kept, or the run is over.
LEMMA RunTakes ==
    ASSUME Fit, NEW f \in Flushers, Pop(f)
    PROVE  \/ RunEnds(f) /\ UNCHANGED queue
           \/ /\ queue # <<>> /\ queue' = Tail(queue) /\ Head(queue) \in Phones
              /\ RunMoves(f, "persist", Head(queue))
<1>0. /\ queue \in Seq(Phones) /\ flush[f] \in Flush
      /\ flush \in [Flushers -> Flush \cup {NULL}] /\ FlushAt(f, "pop")
  BY RunHere DEF Pop, Fit, RowFits
<1>1. CASE queue = <<>> BY <1>0, <1>1 DEF Pop, RunEnds
<1>2. CASE queue # <<>>
  <2>1. Head(queue) \in Phones /\ queue' = Tail(queue)
    BY <1>0, <1>2, EmptySeq, HeadTailProperties DEF Pop
  <2>2. PICK r : r = [flush[f] EXCEPT !.phase = "persist", !.phone = Head(queue)] OBVIOUS
  <2>3. r \in Flush /\ r.phase = "persist" /\ r.phone = Head(queue)
    BY <1>0, <2>1, <2>2 DEF Flush
  <2>4. flush' = [flush EXCEPT ![f] = r] BY <1>0, <1>2, <2>2 DEF Pop
  <2>5. QED BY <1>0, <1>2, <2>1, <2>3, <2>4 DEF RunMoves
<1> QED BY <1>1, <1>2

\* It goes on with the phone it has, if any.
LEMMA RunGoes ==
    ASSUME Fit, NEW f \in Flushers,
           \/ FlushPersist(f) \/ FlushPersistFails(f) \/ Merge(f) \/ Clear(f) \/ Write(f)
    PROVE  /\ flush[f] \in Flush
           /\ FlushPersist(f) => RunMoves(f, "merge", flush[f].phone)
           /\ FlushPersistFails(f) => RunMoves(f, "putback", flush[f].phone)
           /\ Merge(f) \/ Clear(f) \/ Write(f) =>
                \E phase \in {"clear", "write", "pop"} :
                    RunMoves(f, phase, flush[f].phone) /\ ~Has(f)
<1>0. /\ flush \in [Flushers -> Flush \cup {NULL}] /\ flush[f] \in Flush
      /\ flush[f].phone \in Phones \cup {NULL} /\ flush[f].record \in Access \cup {NULL}
  <2>1. \E phase : FlushAt(f, phase)
    BY DEF FlushPersist, FlushPersistFails, Merge, Clear, Write
  <2>2. QED BY <2>1, RunHere DEF Flush
<1>1. ASSUME NEW phase \in {"merge", "putback", "write", "pop"}, FlushTo(f, phase)
      PROVE  RunMoves(f, phase, flush[f].phone)
  <2>1. PICK r : r = [flush[f] EXCEPT !.phase = phase] OBVIOUS
  <2>2. r \in Flush /\ r.phase = phase /\ r.phone = flush[f].phone BY <1>0, <2>1 DEF Flush
  <2>3. flush' = [flush EXCEPT ![f] = r] BY <1>0, <1>1, <2>1 DEF FlushTo
  <2>4. QED BY <1>0, <2>2, <2>3 DEF RunMoves
<1>2. ASSUME Merge(f) PROVE RunMoves(f, "clear", flush[f].phone)
  <2>1. PICK record \in Access : record = Merged(flush[f].phone) BY <1>0, MergedFits
  <2>2. PICK r : r = [flush[f] EXCEPT !.phase = "clear", !.record = record] OBVIOUS
  <2>3. r \in Flush /\ r.phase = "clear" /\ r.phone = flush[f].phone
    BY <1>0, <2>1, <2>2 DEF Flush
  <2>4. flush' = [flush EXCEPT ![f] = r] BY <1>0, <1>2, <2>1, <2>2 DEF Merge
  <2>5. QED BY <1>0, <2>3, <2>4 DEF RunMoves
<1>3. Merge(f) \/ Clear(f) \/ Write(f) => ~Has(f) BY DEF Merge, Clear, Write, Has, FlushAt
<1>4. FlushPersist(f) => RunMoves(f, "merge", flush[f].phone) BY <1>1 DEF FlushPersist
<1>5. FlushPersistFails(f) => RunMoves(f, "putback", flush[f].phone)
  BY <1>1 DEF FlushPersistFails
<1>6. Clear(f) => RunMoves(f, "write", flush[f].phone) BY <1>1 DEF Clear
<1>7. Write(f) => RunMoves(f, "pop", flush[f].phone) BY <1>1 DEF Write
<1> QED BY <1>0, <1>2, <1>3, <1>4, <1>5, <1>6, <1>7

\* It is over.
LEMMA RunStops ==
    ASSUME Fit, NEW f \in Flushers, PopFails(f) \/ PutBack(f) \/ PutBackFails(f)
    PROVE  RunEnds(f)
  BY DEF Fit, FlushesFit, PopFails, PutBack, PutBackFails, RunEnds

\* It begins.
LEMMA RunStarts ==
    ASSUME Fit, NEW f \in Flushers, StartFlush(f)
    PROVE  RunMoves(f, "pop", NULL)
<1>1. PICK r : r = [phase |-> "pop", phone |-> NULL, record |-> NULL] OBVIOUS
<1>2. r \in Flush /\ r.phase = "pop" /\ r.phone = NULL BY <1>1 DEF Flush
<1>3. flush' = [flush EXCEPT ![f] = r] BY <1>1 DEF StartFlush
<1> QED BY <1>2, <1>3 DEF RunMoves, Fit, FlushesFit

\* An update begins.
LEMMA TaskStarts ==
    ASSUME Fit, NEW w \in Workers, NEW kind \in {"share", "order", "other"}, Begin(w, kind)
    PROVE  /\ task' \in [Workers -> Task \cup {NULL}]
           /\ task'[w] \in Task /\ TaskFits(task'[w]) /\ task'[w].phase = "auth"
           /\ task'[w].phone = IF kind = "share" THEN shared + 1 ELSE NULL
           /\ kind = "share" => shared + 1 \in Phones
           /\ \A v \in Workers : v # w => task'[v] = task[v]
<1>0. shared \in Nat /\ verified \in BOOLEAN /\ task \in [Workers -> Task \cup {NULL}]
      /\ (kind = "share" => shared + 1 \in Phones)
  BY AccessAssumption DEF Fit, CountsFit, TasksFit, Begin, Phones
<1>1. PICK phone : phone = IF kind = "share" THEN shared + 1 ELSE NULL OBVIOUS
<1>2. phone \in Phones \cup {NULL} /\ (kind = "share" <=> phone # NULL)
  BY <1>0, <1>1, NullAssumption
<1>3. PICK t : t = [kind |-> kind, phase |-> "auth", phone |-> phone, seen |-> NULL,
                    verified |-> verified]
  OBVIOUS
<1>4. t \in Task /\ t.phase = "auth" /\ t.phone = phone /\ t.kind = kind
  BY <1>0, <1>2, <1>3 DEF Task
<1>5. TaskFits(t) BY <1>2, <1>4 DEF TaskFits
<1>6. task' = [task EXCEPT ![w] = t] BY <1>1, <1>3 DEF Begin
<1> QED BY <1>0, <1>1, <1>4, <1>5, <1>6

-----------------------------------------------------------------------------
(* The shapes *)

\* Every handler but w stays where it is, and w does something that suits its task.
LEMMA TasksGo ==
    ASSUME Fit, NEW w \in Workers, task' \in [Workers -> Task \cup {NULL}],
           \A v \in Workers : v # w => task'[v] = task[v],
           task'[w] # NULL => TaskFits(task'[w])
    PROVE  TasksFit'
  BY DEF Fit, TasksFit, Busy, TaskFits

\* The same of the runs.
LEMMA RunsGo ==
    ASSUME Fit, NEW f \in Flushers,
           \/ RunEnds(f)
           \/ \E phase, phone : /\ RunMoves(f, phase, phone)
                                /\ phase \in {"persist", "putback"} => phone # NULL
    PROVE  FlushesFit'
  BY DEF Fit, FlushesFit, RunEnds, RunMoves, Has, FlushAt

\* The copies that are remembered are accesses.
LEMMA CopiesFit ==
    ASSUME Fit, NEW r \in Access \cup {NULL}, Remember(r)
    PROVE  /\ cache' \in Access \cup {NULL} /\ backup' \in Access \cup {NULL}
           /\ Quiet \/ \E k \in Faults : Occurs(k)
  BY DEF Fit, RowFits, Remember, Occurs

\* A phone at an end of the list, or the list without its head.
LEMMA QueueFits ==
    ASSUME Fit, \/ UNCHANGED queue
                \/ queue # <<>> /\ queue' = Tail(queue)
                \/ \E n \in Phones : queue' \in {<<n>> \o queue, Append(queue, n)}
    PROVE  queue' \in Seq(Phones)
<1>0. queue \in Seq(Phones) BY DEF Fit, RowFits
<1>1. ASSUME NEW n \in Phones PROVE <<n>> \o queue \in Seq(Phones)
                                    /\ Append(queue, n) \in Seq(Phones)
  BY <1>0, ConcatProperties
<1>2. queue # <<>> => Tail(queue) \in Seq(Phones) BY <1>0, HeadTailProperties
<1> QED BY <1>0, <1>1, <1>2

\* A handler's step (middlewares/auth.ts, phoneCollect.ts, executorAccess.ts).
LEMMA HandleFits == ASSUME Fit, NEW w \in Workers, Handle(w) PROVE Fit'
<1>0. \A here : At(w, here) => task[w] \in Task /\ TaskFits(task[w]) /\ task[w].phase = here
  BY Here
<1>1. TasksFit'
  <2>1. CASE Ends(w) BY <2>1, TasksGo DEF Ends
  <2>2. CASE \E phase \in Phases : GoesOn(w, phase) BY <2>2, TasksGo DEF GoesOn, Moves
  <2>3. QED BY <2>1, <2>2, HandlerSteps
<1>2. UNCHANGED <<flush, updates, shared>> /\ overtaken' \in BOOLEAN
  BY DEF Fit, CountsFit, Handle, Authenticate, AuthenticationFails, Prime, Persist, PersistFails,
         Enqueue, EnqueueFails, PrimePhone, Get, Read, ReadFails, RememberRead, Decided, Ensure,
         EnsureFails, Ask, SetBlocked, SetBlockedFails, history
<1>3. FlushesFit' BY <1>2 DEF Fit, FlushesFit, Has, FlushAt
<1>4. /\ row' \in Access /\ cache' \in Access \cup {NULL} /\ backup' \in Access \cup {NULL}
      /\ queue' \in Seq(Phones) /\ applied' \subseteq Phones /\ lost' \subseteq Phones
      /\ verified' \in BOOLEAN
      /\ Quiet \/ \E k \in Faults : Occurs(k)
  <2>0. /\ row \in Access /\ cache \in Access \cup {NULL} /\ backup \in Access \cup {NULL}
        /\ queue \in Seq(Phones) /\ applied \subseteq Phones /\ lost \subseteq Phones
        /\ verified \in BOOLEAN
    BY DEF Fit, RowFits, CountsFit
  <2>1. CASE Prime(w) \/ RememberRead(w)
    <3>1. task[w].seen \in Access \cup {NULL} BY <1>0, <2>1 DEF Prime, RememberRead, Task
    <3>2. QED BY <2>0, <2>1, <3>1, CopiesFit DEF Prime, RememberRead, history
  <2>2. CASE PrimePhone(w)
    <3>1. [phone |-> task[w].phone, blocked |-> FALSE] \in Access
      BY <1>0, <2>2 DEF PrimePhone, Task, Access
    <3>2. QED BY <2>0, <2>2, <3>1, CopiesFit DEF PrimePhone, End, history
  <2>3. CASE HandsOn(w)
    <3>1. task[w].phone \in Phones
      BY <1>0, <2>3 DEF HandsOn, Persist, Enqueue, EnqueueFails, Task, TaskFits
    <3>2. queue' \in Seq(Phones)
      BY <2>3, <3>1, QueueFits DEF HandsOn, Persist, Enqueue, EnqueueFails, stored
    <3>3. QED BY <2>0, <2>3, <3>1, <3>2
              DEF HandsOn, Persist, Enqueue, EnqueueFails, stored, history, Access, Occurs
  <2>4. CASE Authenticate(w) \/ SetBlocked(w)
    <3>1. row' \in Access BY <2>0, <2>4 DEF Authenticate, SetBlocked, Access
    <3>2. verified' \in BOOLEAN
      BY <1>0, <2>0, <2>4 DEF Authenticate, SetBlocked, End, Task
    <3>3. QED BY <2>0, <2>4, <3>1, <3>2 DEF Authenticate, SetBlocked, history
  <2>5. CASE AuthenticationFails(w) \/ PersistFails(w) \/ Get(w) \/ Read(w) \/ ReadFails(w)
             \/ EnsureFails(w)
    BY <2>0, <2>5 DEF AuthenticationFails, PersistFails, NotPersisted, Get, Read, ReadFails,
                      EnsureFails, stored, history, Occurs
  <2>6. CASE Decided(w) \/ Ensure(w) \/ Ask(w) \/ SetBlockedFails(w)
    <3>1. verified' \in BOOLEAN
      BY <1>0, <2>0, <2>6 DEF Decided, Ensure, Ask, SetBlockedFails, End, Task
    <3>2. QED BY <2>0, <2>6, <3>1 DEF Decided, Ensure, Ask, SetBlockedFails, stored, history, Occurs
  <2>7. QED BY <2>1, <2>2, <2>3, <2>4, <2>5, <2>6 DEF Handle, HandsOn
<1>5. RowFits' BY <1>4 DEF RowFits
<1>6. CountsFit' BY <1>2, <1>4, Counted DEF Fit, CountsFit
<1> QED BY <1>1, <1>3, <1>5, <1>6 DEF Fit

\* A step of a run of the job (flushUserPhoneUpdates).
LEMMA FlushFits == ASSUME Fit, NEW f \in Flushers, FlushStep(f) \/ StartFlush(f) PROVE Fit'
<1>0. /\ row \in Access /\ cache \in Access \cup {NULL} /\ backup \in Access \cup {NULL}
      /\ queue \in Seq(Phones) /\ applied \subseteq Phones /\ lost \subseteq Phones
      /\ overtaken \in BOOLEAN
  BY DEF Fit, RowFits, CountsFit
<1>a. \A here : FlushAt(f, here) =>
         flush[f] \in Flush /\ (here \in {"persist", "putback"} => flush[f].phone \in Phones)
  BY RunHere
<1>1. FlushesFit'
  <2>1. CASE Pop(f)
    <3>1. \A n \in Phones : n # NULL BY NullAssumption DEF Phones
    <3>2. QED BY <2>1, <3>1, RunTakes, RunsGo
  <2>2. CASE FlushPersist(f) BY <2>2, RunGoes, RunsGo
  <2>3. CASE FlushPersistFails(f)
    <3>1. flush[f].phone # NULL
      BY <1>a, <2>3, NullAssumption DEF FlushPersistFails, Phones
    <3>2. QED BY <2>3, <3>1, RunGoes, RunsGo
  <2>4. CASE Merge(f) \/ Clear(f) \/ Write(f) BY <2>4, RunGoes, RunsGo
  <2>5. CASE PopFails(f) \/ PutBack(f) \/ PutBackFails(f) BY <2>5, RunStops, RunsGo
  <2>6. CASE StartFlush(f) BY <2>6, RunStarts, RunsGo
  <2>7. QED BY <2>1, <2>2, <2>3, <2>4, <2>5, <2>6 DEF FlushStep
<1>2. UNCHANGED <<task, updates, shared, verified>>
  BY DEF FlushStep, StartFlush, Pop, PopFails, FlushPersist, FlushPersistFails, PutBack,
         PutBackFails, Merge, Clear, Write, history
<1>3. TasksFit' BY <1>2 DEF Fit, TasksFit, Busy, TaskFits
<1>4. queue' \in Seq(Phones)
  BY <1>a, QueueFits, RunTakes
     DEF FlushStep, StartFlush, PopFails, FlushPersist, FlushPersistFails, PutBack,
         PutBackFails, Merge, Clear, Write, stored
<1>5. RowFits' /\ (StartFlush(f) \/ Quiet \/ \E k \in Faults : Occurs(k))
  <2>1. CASE Write(f)
    <3>1. flush[f].record \in Access \cup {NULL} BY <1>a, <2>1 DEF Write, Flush
    <3>2. QED BY <1>0, <1>4, <2>1, <3>1, CopiesFit DEF Write, RowFits, history
  <2>2. CASE FlushPersist(f) BY <1>0, <1>a, <1>4, <2>2 DEF FlushPersist, RowFits, Access
  <2>3. CASE PutBackFails(f)
    BY <1>0, <1>a, <1>4, <2>3 DEF PutBackFails, RowFits, Occurs, stored
  <2>4. CASE \/ StartFlush(f) \/ Pop(f) \/ PopFails(f) \/ FlushPersistFails(f) \/ PutBack(f)
             \/ Merge(f) \/ Clear(f)
    BY <1>0, <1>4, <2>4
       DEF StartFlush, Pop, PopFails, FlushPersistFails, PutBack, Merge, Clear, RowFits, stored,
           history, NotPersisted, Occurs
  <2>5. QED BY <2>1, <2>2, <2>3, <2>4 DEF FlushStep
<1>6. overtaken' \in BOOLEAN
  BY <1>0 DEF FlushStep, StartFlush, Pop, PopFails, FlushPersist, FlushPersistFails, PutBack,
              PutBackFails, Merge, Clear, Write, history
<1>7. CountsFit'
  <2>1. CASE StartFlush(f) BY <1>2, <1>6, <2>1 DEF StartFlush, Fit, CountsFit
  <2>2. CASE Quiet \/ \E k \in Faults : Occurs(k)
    BY <1>2, <1>6, <2>2, Counted DEF Fit, CountsFit
  <2>3. QED BY <1>5, <2>1, <2>2
<1> QED BY <1>1, <1>3, <1>5, <1>7 DEF Fit

\* What is on its way are phones.
LEMMA OnTheirWay ==
    ASSUME Fit
    PROVE  /\ \A n : n \in Shared <=> \E w \in Workers : Carries(w) /\ task[w].phone = n
           /\ \A n : n \in Flushed <=> \E f \in Flushers : Has(f) /\ flush[f].phone = n
           /\ \A n : n \in Queued <=> \E i \in 1 .. Len(queue) : queue[i] = n
           /\ InFlight \subseteq Phones /\ Queued \subseteq Phones
           /\ InFlight = Shared \cup Flushed
<1>1. \A n : n \in Shared <=> \E w \in Workers : Carries(w) /\ task[w].phone = n
  BY DEF Shared, Carries
<1>2. \A n : n \in Flushed <=> \E f \in Flushers : Has(f) /\ flush[f].phone = n
  BY DEF Flushed, Has
<1>3. \A n : n \in Queued <=> \E i \in 1 .. Len(queue) : queue[i] = n BY DEF Queued
<1>4. \A w \in Workers : Carries(w) => task[w].phone \in Phones
  BY DEF Carries, Busy, Fit, TasksFit, Task
<1>5. \A f \in Flushers : Has(f) => flush[f].phone \in Phones
  BY RunHere DEF Has
<1>6. \A i \in 1 .. Len(queue) : queue[i] \in Phones BY ElementOfSeq DEF Fit, RowFits
<1> QED BY <1>1, <1>2, <1>3, <1>4, <1>5, <1>6 DEF InFlight

\* Every step keeps the shapes.
LEMMA FitStep == ASSUME Fit, [Next]_vars PROVE Fit'
<1>1. ASSUME NEW w \in Workers, Handle(w) PROVE Fit' BY <1>1, HandleFits
<1>2. ASSUME NEW f \in Flushers, StartFlush(f) \/ FlushStep(f) PROVE Fit' BY <1>2, FlushFits
<1>3. ASSUME NEW w \in Workers, NEW kind \in {"share", "order", "other"}, Begin(w, kind)
      PROVE  Fit'
  <2>1. TasksFit' BY <1>3, TaskStarts, TasksGo
  <2>2. FlushesFit' BY <1>3 DEF Begin, Fit, FlushesFit, Has, FlushAt
  <2>3. RowFits' BY <1>3 DEF Begin, Fit, RowFits, stored
  <2>4. CountsFit'
    BY <1>3, AccessAssumption DEF Begin, Fit, CountsFit
  <2>5. QED BY <2>1, <2>2, <2>3, <2>4 DEF Fit
<1>4. CASE Expire
  <2>1. RowFits' BY <1>4 DEF Expire, Fit, RowFits, history
  <2>2. TasksFit' /\ FlushesFit' /\ CountsFit'
    BY <1>4 DEF Expire, Fit, TasksFit, TaskFits, FlushesFit, CountsFit, Has, FlushAt, Busy,
                Quiet, history
  <2>3. QED BY <2>1, <2>2 DEF Fit
<1>5. CASE Crash
  <2>1. lost' \subseteq Phones BY <1>5, OnTheirWay DEF Crash, Fit, RowFits
  <2>2. RowFits' BY <1>5, <2>1 DEF Crash, Fit, RowFits, stored
  <2>3. /\ task' \in [Workers -> Task \cup {NULL}] /\ \A w \in Workers : task'[w] = NULL
        /\ flush' \in [Flushers -> Flush \cup {NULL}] /\ \A f \in Flushers : flush'[f] = NULL
    BY <1>5 DEF Crash
  <2>4. TasksFit' /\ FlushesFit' BY <2>3 DEF TasksFit, FlushesFit, Busy, Has, FlushAt
  <2>5. CountsFit'
    <3>1. \E k \in Faults : Occurs(k) BY <1>5 DEF Crash, Occurs
    <3>2. QED BY <1>5, <3>1, Counted DEF Crash, Fit, CountsFit
  <2>6. QED BY <2>2, <2>4, <2>5 DEF Fit
<1>6. CASE UNCHANGED vars
  BY <1>6 DEF vars, stored, history, Fit, RowFits, TasksFit, TaskFits, FlushesFit, CountsFit,
              Has, FlushAt, Busy
<1> QED BY <1>1, <1>2, <1>3, <1>4, <1>5, <1>6 DEF Next

\* The shapes hold at first.
LEMMA FitInit == Init => Fit
<1>1. Init => TasksFit BY DEF Init, TasksFit, Busy
<1>2. Init => FlushesFit BY DEF Init, FlushesFit, Has, FlushAt
<1>3. Init => RowFits
  <2>1. [phone |-> NULL, blocked |-> FALSE] \in Access BY DEF Access
  <2>2. <<>> \in Seq(Phones) OBVIOUS
  <2>3. ASSUME Init
        PROVE  /\ row = [phone |-> NULL, blocked |-> FALSE] /\ cache = NULL /\ backup = NULL
               /\ queue = <<>> /\ applied = {} /\ lost = {}
    BY <2>3 DEF Init
  <2>4. QED BY <2>1, <2>2, <2>3 DEF RowFits
<1>4. Init => CountsFit
  <2>1. 0 \in 0 .. MaxUpdates /\ 0 \in 0 .. MaxShares /\ 0 \in 0 .. MaxFaults
    BY AccessAssumption
  <2>2. QED BY <2>1 DEF Init, CountsFit
<1> QED BY <1>1, <1>2, <1>3, <1>4 DEF Fit

-----------------------------------------------------------------------------
(* The phones *)

RowApplied == row.phone # NULL => row.phone \in applied

Sorted == \A i, j \in 1 .. Len(queue) : i < j => queue[i] <= queue[j]
TakenFirst == \A f \in Flushers : Has(f) => \A i \in 1 .. Len(queue) : flush[f].phone <= queue[i]
OneRun == \A f, g \in Flushers : flush[f] # NULL /\ flush[g] # NULL => f = g
CarriedLast == \A w \in Workers : Carries(w) => task[w].phone = shared
LatestSomewhere == shared > 0 => shared \in Queued \cup InFlight \cup {row.phone}
NothingOlder == row.phone = shared => Queued \cup InFlight \subseteq {shared}
LatestApplied == shared \in applied => row.phone = shared

\* Unless phones were lost or overtook each other: the list is in the order in which they
\* were shared, after the one that a run took from it and before the one that a handler
\* carries; the one shared last is on its way or in the row, and then no older one is on
\* its way.
Order ==
    /\ Sorted /\ TakenFirst /\ OneRun /\ CarriedLast
    /\ LatestSomewhere /\ NothingOlder /\ LatestApplied
InOrder == ~overtaken /\ lost = {} => Order

PhoneInv == PhonesKept /\ RowApplied /\ InOrder

\* The numbers of the phones.
LEMMA Numbers ==
    ASSUME Fit, PhoneInv
    PROVE  /\ shared \in Nat /\ MaxShares \in Nat
           /\ \A n \in Queued \cup InFlight \cup applied : n \in 1 .. shared /\ n \in Nat
           /\ \A i \in 1 .. Len(queue) : queue[i] \in Nat /\ queue[i] \in 1 .. shared
           /\ Len(queue) \in Nat /\ queue \in Seq(Phones)
           /\ \A n \in 1 .. shared : n # NULL
           /\ row.phone # NULL => row.phone \in 1 .. shared
<1>1. shared \in Nat /\ MaxShares \in Nat BY AccessAssumption DEF Fit, CountsFit
<1>2. \A n \in Queued \cup InFlight \cup applied : n \in 1 .. shared /\ n \in Nat
  <2>1. \A n \in Queued \cup InFlight \cup applied : n \in 1 .. shared
    BY DEF PhoneInv, PhonesKept
  <2>2. \A n \in 1 .. shared : n \in Nat BY <1>1
  <2>3. QED BY <2>1, <2>2
<1>3. \A i \in 1 .. Len(queue) : queue[i] \in Queued BY DEF Queued
<1>4. \A n \in 1 .. shared : n # NULL BY <1>1, NullAssumption
<1>5. row.phone # NULL => row.phone \in 1 .. shared BY <1>2 DEF PhoneInv, RowApplied
<1> QED BY <1>1, <1>2, <1>3, <1>4, <1>5, LenProperties DEF Fit, RowFits

\* The hands that hold phones are as before.
SameCarriers ==
    \A w \in Workers : (Carries(w)' <=> Carries(w)) /\ (Carries(w) => task'[w].phone = task[w].phone)
SameTakers ==
    \A f \in Flushers : (Has(f)' <=> Has(f)) /\ (Has(f) => flush'[f].phone = flush[f].phone)

\* Then the phones in the hands of the handlers are the same...
LEMMA SharedStays == ASSUME Fit, Fit', SameCarriers PROVE Shared' = Shared
<1>1. \A n : n \in Shared <=> \E w \in Workers : Carries(w) /\ task[w].phone = n
  BY DEF Shared, Carries
<1>2. \A n : n \in Shared' <=> \E w \in Workers : Carries(w)' /\ task'[w].phone = n
  BY DEF Shared, Carries
<1>3. \A n : n \in Shared' <=> n \in Shared BY <1>1, <1>2 DEF SameCarriers
<1> QED BY <1>3

\* ...and those in the hands of the job.
LEMMA FlushedStays == ASSUME Fit, Fit', SameTakers PROVE Flushed' = Flushed
<1>1. \A n : n \in Flushed <=> \E f \in Flushers : Has(f) /\ flush[f].phone = n
  BY DEF Flushed, Has
<1>2. \A n : n \in Flushed' <=> \E f \in Flushers : Has(f)' /\ flush'[f].phone = n
  BY DEF Flushed, Has
<1>3. \A n : n \in Flushed' <=> n \in Flushed BY <1>1, <1>2 DEF SameTakers
<1> QED BY <1>3

\* A step that neither takes a phone nor hands one on.
LEMMA QuietPhones ==
    ASSUME Fit, Fit', PhoneInv, UNCHANGED <<queue, applied, lost, shared>>,
           row'.phone = row.phone, overtaken => overtaken', SameCarriers, SameTakers,
           ~overtaken' /\ lost = {} => OneRun'
    PROVE  PhoneInv'
<1>1. Shared' = Shared /\ Flushed' = Flushed BY SharedStays, FlushedStays
<1>2. InFlight' = InFlight /\ Queued' = Queued BY <1>1 DEF InFlight, Queued
<1>3. PhonesKept' BY <1>2 DEF PhoneInv, PhonesKept
<1>4. RowApplied' BY DEF PhoneInv, RowApplied
<1>5. ASSUME ~overtaken', lost' = {} PROVE Order'
  <2>1. Order BY <1>5 DEF PhoneInv, InOrder
  <2>2. Sorted' /\ TakenFirst' /\ CarriedLast'
    BY <2>1 DEF Order, Sorted, TakenFirst, CarriedLast, SameTakers, SameCarriers
  <2>3. LatestSomewhere' /\ NothingOlder' /\ LatestApplied'
    BY <1>2, <2>1 DEF Order, LatestSomewhere, NothingOlder, LatestApplied
  <2>4. QED BY <1>5, <2>2, <2>3 DEF Order
<1> QED BY <1>3, <1>4, <1>5 DEF PhoneInv, InOrder

\* Runs that neither start nor end leave one at most.
LEMMA OneStays ==
    ASSUME PhoneInv, ~overtaken, lost = {},
           \A f \in Flushers : flush'[f] # NULL => flush[f] # NULL
    PROVE  OneRun'
  BY DEF PhoneInv, InOrder, Order, OneRun

\* A person shares a contact.
LEMMA SharePhones ==
    ASSUME Fit, Fit', PhoneInv, NEW w \in Workers, Begin(w, "share")
    PROVE  PhoneInv'
<1>0. /\ task'[w] \in Task /\ task'[w].phase = "auth" /\ task'[w].phone = shared + 1
      /\ \A v \in Workers : v # w => task'[v] = task[v]
      /\ UNCHANGED <<queue, applied, lost, row, flush>> /\ shared' = shared + 1
      /\ task[w] = NULL
      /\ shared \in Nat
      /\ overtaken' = (overtaken \/ Shared # {})
  BY TaskStarts, Numbers DEF Begin, stored, Busy
<1>1. /\ Carries(w)' /\ ~Carries(w)
      /\ \A v \in Workers : v # w => (Carries(v)' <=> Carries(v))
  BY <1>0, IsBusy, NullAssumption DEF Carries, Busy
<1>2. \A n : n \in Shared' <=> n \in Shared \/ n = shared + 1
  <2>1. \A n : n \in Shared <=> \E v \in Workers : Carries(v) /\ task[v].phone = n
    BY DEF Shared, Carries
  <2>2. \A n : n \in Shared' <=> \E v \in Workers : Carries(v)' /\ task'[v].phone = n
    BY DEF Shared, Carries
  <2>3. QED BY <1>0, <1>1, <2>1, <2>2
<1>3. SameTakers BY <1>0 DEF SameTakers, Has, FlushAt
<1>4. /\ Queued' = Queued /\ Flushed' = Flushed
      /\ \A n : n \in InFlight' <=> n \in InFlight \/ n = shared + 1
  BY <1>0, <1>2, <1>3, FlushedStays DEF Queued, InFlight
<1>5. PhonesKept'
  <2>1. \A n : n \in 1 .. shared + 1 <=> n \in 1 .. shared \/ n = shared + 1 BY <1>0
  <2>2. \A n : n \in 1 .. shared <=> n \in applied \cup lost \cup Queued \cup InFlight
    BY DEF PhoneInv, PhonesKept
  <2>3. \A n : n \in 1 .. shared' <=> n \in applied' \cup lost' \cup Queued' \cup InFlight'
    BY <1>0, <1>4, <2>1, <2>2
  <2>4. 1 .. shared' = applied' \cup lost' \cup Queued' \cup InFlight' BY <2>3
  <2>5. QED BY <2>4 DEF PhonesKept
<1>6. RowApplied' BY <1>0 DEF PhoneInv, RowApplied
<1>7. ASSUME ~overtaken', lost' = {} PROVE Order'
  <2>1. Order /\ Shared = {} BY <1>0, <1>7 DEF PhoneInv, InOrder
  <2>2. Sorted' /\ TakenFirst' /\ OneRun'
    BY <1>0, <1>3, <2>1 DEF Order, Sorted, TakenFirst, OneRun, SameTakers
  <2>3. CarriedLast'
    <3>1. \A v \in Workers : v # w => ~Carries(v) BY <2>1, OnTheirWay
    <3>2. QED BY <1>0, <1>1, <3>1 DEF CarriedLast
  <2>4. row'.phone # shared' /\ shared' \notin applied'
    <3>1. shared + 1 # NULL BY <1>0, NullAssumption
    <3>2. QED BY <1>0, <3>1, Numbers
  <2>5. shared' \in InFlight' BY <1>0, <1>4
  <2>6. QED
    BY <2>2, <2>3, <2>4, <2>5 DEF Order, LatestSomewhere, NothingOlder, LatestApplied
<1> QED BY <1>5, <1>6, <1>7 DEF PhoneInv, InOrder

\* What the row, the list or nobody took is in its handler's hands no longer.
LEMMA HandedOn ==
    ASSUME Fit, Fit', PhoneInv, NEW w \in Workers, HandsOn(w)
    PROVE  /\ task[w].phone \in 1 .. shared /\ Carries(w) /\ ~Carries(w)'
           /\ \A v \in Workers : Carries(v)' => Carries(v) /\ task'[v].phone = task[v].phone
           /\ \A n : n \in Shared <=> n \in Shared' \/ n = task[w].phone
           /\ Flushed' = Flushed /\ SameTakers /\ UNCHANGED <<flush, shared>>
<1>1. Handle(w) BY DEF HandsOn, Handle
<1>2. PICK phase \in Phases : GoesOn(w, phase) BY <1>1, HandlerSteps
<1>3. phase = "primePhone" BY <1>2 DEF GoesOn
<1>4. /\ task'[w].phase = "primePhone" /\ task'[w].phone = task[w].phone
      /\ \A v \in Workers : v # w => task'[v] = task[v]
  BY <1>2, <1>3 DEF GoesOn, Moves
<1>5. /\ task[w] \in Task /\ TaskFits(task[w]) /\ task[w].phase \in {"persist", "enqueue"}
  BY Here DEF HandsOn, Persist, Enqueue, EnqueueFails
<1>6. Carries(w) /\ ~Carries(w)' BY <1>4, <1>5, IsBusy DEF Carries, Busy, TaskFits
<1>7. \A v \in Workers : v # w => (Carries(v)' <=> Carries(v)) BY <1>4 DEF Carries, Busy
<1>8. UNCHANGED <<flush, shared>>
  BY DEF HandsOn, Persist, Enqueue, EnqueueFails, history
<1>9. SameTakers BY <1>8 DEF SameTakers, Has, FlushAt
<1>10. task[w].phone \in 1 .. shared BY <1>6, OnTheirWay, Numbers
<1>11. \A n : n \in Shared <=> n \in Shared' \/ n = task[w].phone
  <2>1. \A n : n \in Shared <=> \E v \in Workers : Carries(v) /\ task[v].phone = n
    BY DEF Shared, Carries
  <2>2. \A n : n \in Shared' <=> \E v \in Workers : Carries(v)' /\ task'[v].phone = n
    BY DEF Shared, Carries
  <2>3. QED BY <1>4, <1>6, <1>7, <2>1, <2>2
<1> QED BY <1>4, <1>6, <1>7, <1>8, <1>9, <1>10, <1>11, FlushedStays

\* The row takes the contact (persistPhoneVerification).
LEMMA PersistPhones ==
    ASSUME Fit, Fit', PhoneInv, NEW w \in Workers, Persist(w)
    PROVE  PhoneInv'
<1>0. /\ row' = [row EXCEPT !.phone = task[w].phone] /\ UNCHANGED <<queue, lost, shared, flush>>
      /\ applied' = applied \cup {task[w].phone}
      /\ overtaken' = (overtaken \/ \E n \in Queued \cup InFlight : n < task[w].phone)
  BY DEF Persist
<1>1. row'.phone = task[w].phone BY <1>0 DEF Fit, RowFits, Access
<1>2. /\ task[w].phone \in 1 .. shared /\ Carries(w)
      /\ \A v \in Workers : Carries(v)' => Carries(v) /\ task'[v].phone = task[v].phone
      /\ \A n : n \in Shared <=> n \in Shared' \/ n = task[w].phone
      /\ Flushed' = Flushed /\ SameTakers
  BY HandedOn DEF HandsOn
<1>3. /\ Queued' = Queued
      /\ \A n : n \in InFlight <=> n \in InFlight' \/ n = task[w].phone
    <2>1. \A n : n \in InFlight => n \in InFlight' \/ n = task[w].phone BY <1>2 DEF InFlight
    <2>2. \A n : n \in InFlight' \/ n = task[w].phone => n \in InFlight BY <1>2 DEF InFlight
    <2>3. QED BY <1>0, <2>1, <2>2 DEF Queued
<1>4. PhonesKept'
  <2>1. \A n : n \in 1 .. shared <=> n \in applied \cup lost \cup Queued \cup InFlight
    BY DEF PhoneInv, PhonesKept
  <2>2. \A n : n \in 1 .. shared' <=> n \in applied' \cup lost' \cup Queued' \cup InFlight'
    BY <1>0, <1>3, <2>1
  <2>3. QED BY <2>2 DEF PhonesKept
<1>5. RowApplied' BY <1>0, <1>1 DEF RowApplied
<1>6. ASSUME ~overtaken', lost' = {} PROVE Order'
  <2>1. Order BY <1>0, <1>6 DEF PhoneInv, InOrder
  <2>2. task[w].phone = shared BY <1>2, <2>1 DEF Order, CarriedLast
  <2>3. \A n \in Queued \cup InFlight : n = shared
    <3>1. \A n \in Queued \cup InFlight : n \in 1 .. shared /\ ~(n < shared)
      BY <1>0, <1>6, <2>2, Numbers
    <3>2. shared \in Nat BY Numbers
    <3>3. QED BY <3>1, <3>2
  <2>4. Sorted' /\ TakenFirst' /\ OneRun' /\ CarriedLast'
    BY <1>0, <1>2, <2>1 DEF Order, Sorted, TakenFirst, OneRun, CarriedLast, SameTakers
  <2>5. LatestSomewhere' /\ NothingOlder' /\ LatestApplied'
    BY <1>0, <1>1, <1>3, <2>2, <2>3 DEF LatestSomewhere, NothingOlder, LatestApplied
  <2>6. QED BY <2>4, <2>5 DEF Order
<1> QED BY <1>4, <1>5, <1>6 DEF PhoneInv, InOrder

\* The list takes the contact, behind the others (enqueueUserPhoneUpdate).
LEMMA EnqueuePhones ==
    ASSUME Fit, Fit', PhoneInv, NEW w \in Workers, Enqueue(w)
    PROVE  PhoneInv'
<1>0. /\ queue' = Append(queue, task[w].phone)
      /\ UNCHANGED <<row, shared, applied, lost, overtaken, flush>>
  BY DEF Enqueue, history
<1>2. /\ task[w].phone \in 1 .. shared /\ Carries(w)
      /\ \A v \in Workers : Carries(v)' => Carries(v) /\ task'[v].phone = task[v].phone
      /\ \A n : n \in Shared <=> n \in Shared' \/ n = task[w].phone
      /\ Flushed' = Flushed /\ SameTakers
  BY HandedOn DEF HandsOn
<1>3. /\ queue \in Seq(Phones) /\ Len(queue) \in Nat /\ task[w].phone \in Phones
      /\ shared \in Nat /\ MaxShares \in Nat
  BY <1>2, Numbers, OnTheirWay DEF InFlight
<1>4. /\ Len(queue') = Len(queue) + 1 /\ queue'[Len(queue) + 1] = task[w].phone
      /\ \A i \in 1 .. Len(queue) : queue'[i] = queue[i]
  BY <1>0, <1>3, AppendProperties
<1>5. \A i \in 1 .. Len(queue') : i \in 1 .. Len(queue) \/ i = Len(queue) + 1 BY <1>3, <1>4
<1>6. \A n : n \in Queued' <=> n \in Queued \/ n = task[w].phone
  <2>1. \A n : n \in Queued' => n \in Queued \/ n = task[w].phone BY <1>4, <1>5 DEF Queued
  <2>2. \A i \in 1 .. Len(queue) : i \in 1 .. Len(queue') BY <1>3, <1>4
  <2>3. Len(queue) + 1 \in 1 .. Len(queue') BY <1>3, <1>4
  <2>4. \A n : n \in Queued => n \in Queued' BY <1>4, <2>2 DEF Queued
  <2>5. task[w].phone \in Queued' BY <1>4, <2>3 DEF Queued
  <2>6. QED BY <2>1, <2>4, <2>5
<1>7. \A n : n \in Queued' \cup InFlight' <=> n \in Queued \cup InFlight
  <2>1. \A n : n \in InFlight <=> n \in Shared \/ n \in Flushed BY DEF InFlight
  <2>2. \A n : n \in InFlight' <=> n \in Shared' \/ n \in Flushed' BY DEF InFlight
  <2>3. QED BY <1>2, <1>6, <2>1, <2>2
<1>8. PhonesKept'
  <2>1. \A n : n \in 1 .. shared <=> n \in applied \cup lost \cup Queued \cup InFlight
    BY DEF PhoneInv, PhonesKept
  <2>2. \A n : n \in 1 .. shared' <=> n \in applied' \cup lost' \cup Queued' \cup InFlight'
    BY <1>0, <1>7, <2>1
  <2>3. QED BY <2>2 DEF PhonesKept
<1>9. RowApplied' BY <1>0 DEF PhoneInv, RowApplied
<1>10. ASSUME ~overtaken', lost' = {} PROVE Order'
  <2>1. Order /\ task[w].phone = shared
    BY <1>0, <1>2, <1>10 DEF PhoneInv, InOrder, Order, CarriedLast
  <2>2. \A i \in 1 .. Len(queue) : queue[i] \in Nat /\ queue[i] <= shared BY Numbers
  <2>3. Sorted'
    <3>1. SUFFICES ASSUME NEW i \in 1 .. Len(queue'), NEW j \in 1 .. Len(queue'), i < j
                   PROVE  queue'[i] <= queue'[j]
      BY DEF Sorted
    <3>2. i \in 1 .. Len(queue) BY <1>3, <1>4, <3>1
    <3>3. CASE j \in 1 .. Len(queue)
      BY <1>4, <2>1, <3>1, <3>2, <3>3 DEF Order, Sorted
    <3>4. CASE j = Len(queue) + 1 BY <1>4, <2>1, <2>2, <3>2, <3>4
    <3>5. QED BY <1>5, <3>3, <3>4
  <2>4. TakenFirst'
    <3>1. SUFFICES ASSUME NEW f \in Flushers, Has(f)', NEW i \in 1 .. Len(queue')
                   PROVE  flush'[f].phone <= queue'[i]
      BY DEF TakenFirst
    <3>2. Has(f) /\ flush'[f].phone = flush[f].phone BY <1>2, <3>1 DEF SameTakers
    <3>3. flush[f].phone \in 1 .. shared BY <3>2, Numbers, OnTheirWay
    <3>4. CASE i \in 1 .. Len(queue) BY <1>4, <2>1, <3>2, <3>4 DEF Order, TakenFirst
    <3>5. CASE i = Len(queue) + 1 BY <1>3, <1>4, <2>1, <3>2, <3>3, <3>5
    <3>6. QED BY <1>5, <3>4, <3>5
  <2>5. OneRun' /\ CarriedLast' BY <1>0, <1>2, <2>1 DEF Order, OneRun, CarriedLast
  <2>6. LatestSomewhere' /\ NothingOlder' /\ LatestApplied'
    <3>1. \A n : n \in Queued' \cup InFlight' => n \in Queued \cup InFlight BY <1>7
    <3>2. NothingOlder' BY <1>0, <2>1, <3>1 DEF Order, NothingOlder
    <3>3. LatestSomewhere' BY <1>0, <1>7, <2>1 DEF Order, LatestSomewhere
    <3>4. QED BY <1>0, <2>1, <3>2, <3>3 DEF Order, LatestApplied
  <2>7. QED BY <2>3, <2>4, <2>5, <2>6 DEF Order
<1> QED BY <1>8, <1>9, <1>10 DEF PhoneInv, InOrder

\* Both refuse it.
LEMMA EnqueueFailsPhones ==
    ASSUME Fit, Fit', PhoneInv, NEW w \in Workers, EnqueueFails(w)
    PROVE  PhoneInv'
<1>0. /\ lost' = lost \cup {task[w].phone}
      /\ UNCHANGED <<row, queue, shared, applied, overtaken, flush>>
  BY DEF EnqueueFails, stored
<1>1. /\ \A n : n \in Shared <=> n \in Shared' \/ n = task[w].phone
      /\ Flushed' = Flushed
  BY HandedOn DEF HandsOn
<1>2. \A n : n \in InFlight <=> n \in InFlight' \/ n = task[w].phone
  <2>1. \A n : n \in InFlight <=> n \in Shared \/ n \in Flushed BY DEF InFlight
  <2>2. \A n : n \in InFlight' <=> n \in Shared' \/ n \in Flushed' BY DEF InFlight
  <2>3. QED BY <1>1, <2>1, <2>2
<1>3. PhonesKept'
  <2>1. \A n : n \in 1 .. shared <=> n \in applied \cup lost \cup Queued \cup InFlight
    BY DEF PhoneInv, PhonesKept
  <2>2. Queued' = Queued BY <1>0 DEF Queued
  <2>3. \A n : n \in 1 .. shared' <=> n \in applied' \cup lost' \cup Queued' \cup InFlight'
    BY <1>0, <1>2, <2>1, <2>2
  <2>4. QED BY <2>3 DEF PhonesKept
<1>4. RowApplied' BY <1>0 DEF PhoneInv, RowApplied
<1>5. lost' # {} BY <1>0
<1> QED BY <1>3, <1>4, <1>5 DEF PhoneInv, InOrder

\* A handler's step.
LEMMA HandlePhones ==
    ASSUME Fit, Fit', PhoneInv, NEW w \in Workers, Handle(w)
    PROVE  PhoneInv'
<1>1. CASE HandsOn(w)
  BY <1>1, PersistPhones, EnqueuePhones, EnqueueFailsPhones DEF HandsOn
<1>2. CASE ~HandsOn(w)
  <2>0. \/ Authenticate(w) \/ AuthenticationFails(w) \/ Prime(w) \/ PersistFails(w)
        \/ PrimePhone(w) \/ Get(w) \/ Read(w) \/ ReadFails(w) \/ RememberRead(w) \/ Decided(w)
        \/ Ensure(w) \/ EnsureFails(w) \/ Ask(w) \/ SetBlocked(w) \/ SetBlockedFails(w)
    BY <1>2 DEF Handle, HandsOn
  <2>1. UNCHANGED <<queue, flush, shared, applied, lost, overtaken>>
    BY <2>0 DEF Authenticate, AuthenticationFails, Prime, PersistFails, PrimePhone, Get, Read,
                ReadFails, RememberRead, Decided, Ensure, EnsureFails, Ask, SetBlocked,
                SetBlockedFails, stored, history
  <2>2. row'.phone = row.phone
    <3>1. row \in Access BY DEF Fit, RowFits
    <3>2. row' = row \/ row' = [row EXCEPT !.blocked = FALSE]
          \/ row' = [row EXCEPT !.blocked = TRUE]
      BY <2>0 DEF Authenticate, AuthenticationFails, Prime, PersistFails, PrimePhone, Get, Read,
                  ReadFails, RememberRead, Decided, Ensure, EnsureFails, Ask, SetBlocked,
                  SetBlockedFails, stored
    <3>3. QED BY <3>1, <3>2 DEF Access
  <2>3. SameCarriers
    <3>1. CASE Ends(w) /\ ~Carries(w) BY <3>1 DEF Ends, SameCarriers, Carries, Busy
    <3>2. CASE \E phase \in Phases : GoesOn(w, phase)
      <4>1. PICK phase \in Phases : GoesOn(w, phase) BY <3>2
      <4>2. /\ task[w] \in Task /\ task'[w] \in Task /\ task'[w].phone = task[w].phone
            /\ task'[w].phase # "primePhone"
            /\ \A v \in Workers : v # w => task'[v] = task[v]
        BY <1>2, <4>1 DEF GoesOn, Moves
      <4>3. task[w].phase # "primePhone"
        <5>1. CASE At(w, "primePhone")
          <6>1. PrimePhone(w)
            BY <2>0, <5>1 DEF At, Authenticate, AuthenticationFails, Prime, PersistFails, Get,
                              Read, ReadFails, RememberRead, Decided, Ensure, EnsureFails, Ask,
                              SetBlocked, SetBlockedFails
          <6>2. task'[w] = NULL BY <6>1, Stops DEF PrimePhone, Ends
          <6>3. QED BY <4>2, <6>2, IsBusy
        <5>2. QED BY <4>2, <5>1, IsBusy DEF At, Busy
      <4>4. QED BY <4>2, <4>3, IsBusy DEF SameCarriers, Carries, Busy
    <3>3. QED BY <3>1, <3>2, HandlerSteps
  <2>4. SameTakers BY <2>1 DEF SameTakers, Has, FlushAt
  <2>5. ~overtaken' /\ lost = {} => OneRun'
    BY <2>1, OneStays
  <2>6. QED BY <2>1, <2>2, <2>3, <2>4, <2>5, QuietPhones
<1> QED BY <1>1, <1>2

\* Handlers that do not move carry what they carried.
LEMMA CarriersRest == UNCHANGED task => SameCarriers
  BY DEF SameCarriers, Carries, Busy

\* What a run applies, puts back or drops is in its hands no longer.
LEMMA RunHandsOn ==
    ASSUME Fit, Fit', PhoneInv, NEW f \in Flushers, Has(f), ~Has(f)', UNCHANGED <<task, shared>>,
           \A g \in Flushers : g # f => flush'[g] = flush[g]
    PROVE  /\ flush[f].phone \in 1 .. shared /\ flush[f].phone \in Phones
           /\ Shared' = Shared
           /\ \A g \in Flushers : Has(g)' => Has(g) /\ flush'[g].phone = flush[g].phone
           /\ \A n : n \in InFlight <=> n \in InFlight' \/ n = flush[f].phone
           /\ \A n \in Flushed' : \E g \in Flushers : g # f /\ Has(g)
<1>1. flush[f].phone \in 1 .. shared /\ flush[f].phone \in Phones BY OnTheirWay, Numbers
<1>2. \A g \in Flushers : Has(g)' => g # f /\ Has(g) /\ flush'[g].phone = flush[g].phone
  BY DEF Has, FlushAt
<1>3. \A g \in Flushers : g # f /\ Has(g) => Has(g)' /\ flush'[g].phone = flush[g].phone
  BY DEF Has, FlushAt
<1>4. Shared' = Shared BY CarriersRest, SharedStays
<1>5. \A n : n \in Flushed <=> \E g \in Flushers : Has(g) /\ flush[g].phone = n
  BY DEF Flushed, Has
<1>6. \A n : n \in Flushed' <=> \E g \in Flushers : Has(g)' /\ flush'[g].phone = n
  BY DEF Flushed, Has
<1>7. \A n : n \in Flushed <=> n \in Flushed' \/ n = flush[f].phone
  BY <1>2, <1>3, <1>5, <1>6
<1>8. \A n : n \in InFlight <=> n \in InFlight' \/ n = flush[f].phone
  <2>1. \A n : n \in InFlight <=> n \in Shared \/ n \in Flushed BY DEF InFlight
  <2>2. \A n : n \in InFlight' <=> n \in Shared' \/ n \in Flushed' BY DEF InFlight
  <2>3. QED BY <1>4, <1>7, <2>1, <2>2
<1> QED BY <1>1, <1>2, <1>4, <1>6, <1>8

\* The head of the list is taken (LPOP).
LEMMA PopPhones ==
    ASSUME Fit, Fit', PhoneInv, NEW f \in Flushers, Pop(f)
    PROVE  PhoneInv'
<1>0. /\ UNCHANGED <<row, task, shared, applied, lost, overtaken>> /\ FlushAt(f, "pop")
      /\ SameCarriers /\ Shared' = Shared /\ ~Has(f)
  BY CarriersRest, SharedStays DEF Pop, history, Has, FlushAt
<1>1. CASE RunEnds(f) /\ UNCHANGED queue
  <2>1. SameTakers BY <1>0, <1>1, NullAssumption DEF RunEnds, SameTakers, Has, FlushAt
  <2>2. ~overtaken' /\ lost = {} => OneRun' BY <1>0, <1>1, OneStays DEF RunEnds
  <2>3. QED BY <1>0, <1>1, <2>1, <2>2, QuietPhones
<1>2. CASE /\ queue # <<>> /\ queue' = Tail(queue) /\ Head(queue) \in Phones
           /\ RunMoves(f, "persist", Head(queue))
  <2>0. /\ Len(queue) \in Nat /\ Len(queue) >= 1 /\ Len(queue') = Len(queue) - 1
        /\ Head(queue) = queue[1] /\ \A i \in 1 .. Len(queue') : queue'[i] = queue[i + 1]
    <3>1. queue \in Seq(Phones) BY Numbers
    <3>2. Len(queue) \in Nat /\ Len(queue) >= 1 BY <1>2, <3>1, EmptySeq, LenProperties
    <3>3. QED BY <1>2, <3>1, <3>2, HeadTailProperties
  <2>1. /\ Has(f)' /\ flush'[f].phone = queue[1]
        /\ \A g \in Flushers : g # f => (Has(g)' <=> Has(g)) /\ flush'[g] = flush[g]
    BY <1>2, <2>0, IsRun DEF RunMoves, Has, FlushAt
  <2>2. \A i \in 1 .. Len(queue') : i + 1 \in 1 .. Len(queue) BY <2>0
  <2>3. \A i \in 1 .. Len(queue) : i = 1 \/ \E j \in 1 .. Len(queue') : i = j + 1
    <3>1. SUFFICES ASSUME NEW i \in 1 .. Len(queue), i # 1
                   PROVE  \E j \in 1 .. Len(queue') : i = j + 1
      OBVIOUS
    <3>2. i - 1 \in 1 .. Len(queue') /\ i = (i - 1) + 1 BY <2>0, <3>1
    <3>3. QED BY <3>2
  <2>4. \A n : n \in Queued <=> n \in Queued' \/ n = queue[1]
    <3>0. \A i \in 1 .. Len(queue) : i = 1 \/ \E j \in 1 .. Len(queue') : queue[i] = queue'[j]
      BY <2>0, <2>3
    <3>1. \A n : n \in Queued => n \in Queued' \/ n = queue[1] BY <3>0 DEF Queued
    <3>2. \A n : n \in Queued' => n \in Queued BY <2>0, <2>2 DEF Queued
    <3>3. queue[1] \in Queued BY <2>0 DEF Queued
    <3>4. QED BY <3>1, <3>2, <3>3
  <2>5. \A n : n \in Flushed' <=> n \in Flushed \/ n = queue[1]
    <3>1. \A n : n \in Flushed <=> \E g \in Flushers : Has(g) /\ flush[g].phone = n
      BY DEF Flushed, Has
    <3>2. \A n : n \in Flushed' <=> \E g \in Flushers : Has(g)' /\ flush'[g].phone = n
      BY DEF Flushed, Has
    <3>3. QED BY <1>0, <2>1, <3>1, <3>2
  <2>6. \A n : n \in Queued' \cup InFlight' <=> n \in Queued \cup InFlight
    <3>1. \A n : n \in InFlight <=> n \in Shared \/ n \in Flushed BY DEF InFlight
    <3>2. \A n : n \in InFlight' <=> n \in Shared' \/ n \in Flushed' BY DEF InFlight
    <3>3. QED BY <1>0, <2>4, <2>5, <3>1, <3>2
  <2>7. PhonesKept'
    <3>1. \A n : n \in 1 .. shared <=> n \in applied \cup lost \cup Queued \cup InFlight
      BY DEF PhoneInv, PhonesKept
    <3>2. \A n : n \in 1 .. shared' <=> n \in applied' \cup lost' \cup Queued' \cup InFlight'
      BY <1>0, <2>6, <3>1
    <3>3. QED BY <3>2 DEF PhonesKept
  <2>8. RowApplied' BY <1>0 DEF PhoneInv, RowApplied
  <2>9. ASSUME ~overtaken', lost' = {} PROVE Order'
    <3>1. Order BY <1>0, <2>9 DEF PhoneInv, InOrder
    <3>2. Sorted'
      <4>1. SUFFICES ASSUME NEW i \in 1 .. Len(queue'), NEW j \in 1 .. Len(queue'), i < j
                     PROVE  queue'[i] <= queue'[j]
        BY DEF Sorted
      <4>2. i + 1 \in 1 .. Len(queue) /\ j + 1 \in 1 .. Len(queue) /\ i + 1 < j + 1
        BY <2>0, <4>1
      <4>3. QED BY <2>0, <3>1, <4>2 DEF Order, Sorted
    <3>3. TakenFirst'
      <4>1. SUFFICES ASSUME NEW g \in Flushers, Has(g)', NEW i \in 1 .. Len(queue')
                     PROVE  flush'[g].phone <= queue'[i]
        BY DEF TakenFirst
      <4>2. g = f
        <5>1. flush[f] # NULL BY <1>0 DEF FlushAt
        <5>2. g # f => flush[g] # NULL BY <2>1, <4>1 DEF Has, FlushAt
        <5>3. QED BY <3>1, <5>1, <5>2 DEF Order, OneRun
      <4>3. 1 \in 1 .. Len(queue) /\ i + 1 \in 1 .. Len(queue) /\ 1 < i + 1 BY <2>0
      <4>4. queue[1] <= queue[i + 1] BY <3>1, <4>3 DEF Order, Sorted
      <4>5. QED BY <2>0, <2>1, <4>2, <4>4
    <3>4. OneRun'
      <4>1. \A g \in Flushers : flush'[g] # NULL => flush[g] # NULL
        BY <1>0, <2>1 DEF FlushAt
      <4>2. QED BY <3>1, <4>1 DEF Order, OneRun
    <3>5. CarriedLast' BY <1>0, <3>1 DEF Order, CarriedLast, SameCarriers
    <3>6. LatestSomewhere' /\ NothingOlder' /\ LatestApplied'
      BY <1>0, <2>6, <3>1 DEF Order, LatestSomewhere, NothingOlder, LatestApplied
    <3>7. QED BY <3>2, <3>3, <3>4, <3>5, <3>6 DEF Order
  <2>10. QED BY <2>7, <2>8, <2>9 DEF PhoneInv, InOrder
<1> QED BY <1>1, <1>2, RunTakes

\* The row takes the phone of the list (persistPhoneVerification in the job).
LEMMA FlushPersistPhones ==
    ASSUME Fit, Fit', PhoneInv, NEW f \in Flushers, FlushPersist(f)
    PROVE  PhoneInv'
<1>0. /\ UNCHANGED <<queue, task, shared, lost, overtaken>> /\ Has(f)
      /\ row' = [row EXCEPT !.phone = flush[f].phone] /\ applied' = applied \cup {flush[f].phone}
      /\ SameCarriers
  BY CarriersRest DEF FlushPersist, Has
<1>1. row'.phone = flush[f].phone BY <1>0 DEF Fit, RowFits, Access
<1>2. ~Has(f)' /\ \A g \in Flushers : g # f => flush'[g] = flush[g]
  BY RunGoes DEF RunMoves, Has, FlushAt
<1>3. /\ flush[f].phone \in 1 .. shared
      /\ Shared' = Shared
      /\ \A g \in Flushers : Has(g)' => Has(g) /\ flush'[g].phone = flush[g].phone
      /\ \A n : n \in InFlight <=> n \in InFlight' \/ n = flush[f].phone
      /\ \A n \in Flushed' : \E g \in Flushers : g # f /\ Has(g)
  BY <1>0, <1>2, RunHandsOn
<1>4. Queued' = Queued BY <1>0 DEF Queued
<1>5. PhonesKept'
  <2>1. \A n : n \in 1 .. shared <=> n \in applied \cup lost \cup Queued \cup InFlight
    BY DEF PhoneInv, PhonesKept
  <2>2. \A n : n \in 1 .. shared' <=> n \in applied' \cup lost' \cup Queued' \cup InFlight'
    BY <1>0, <1>3, <1>4, <2>1
  <2>3. QED BY <2>2 DEF PhonesKept
<1>6. RowApplied' BY <1>0, <1>1 DEF RowApplied
<1>7. ASSUME ~overtaken', lost' = {} PROVE Order'
  <2>1. Order BY <1>0, <1>7 DEF PhoneInv, InOrder
  <2>2. flush[f].phone \in InFlight BY <1>3
  <2>3. Sorted' /\ TakenFirst' /\ CarriedLast'
    BY <1>0, <1>3, <2>1 DEF Order, Sorted, TakenFirst, CarriedLast, SameCarriers
  <2>4. OneRun'
    <3>1. \A g \in Flushers : flush'[g] # NULL => flush[g] # NULL
      BY <1>0, <1>2 DEF Has, FlushAt
    <3>2. QED BY <2>1, <3>1 DEF Order, OneRun
  <2>5. row.phone = shared => flush[f].phone = shared BY <2>1, <2>2 DEF Order, NothingOlder
  <2>6. LatestSomewhere'
    BY <1>0, <1>1, <1>3, <1>4, <2>1, <2>5 DEF Order, LatestSomewhere
  <2>7. LatestApplied' BY <1>0, <1>1, <2>1, <2>5 DEF Order, LatestApplied
  <2>8. NothingOlder'
    <3>1. SUFFICES ASSUME flush[f].phone = shared, NEW n \in Queued \cup InFlight'
                   PROVE  n = shared
      BY <1>0, <1>1, <1>4 DEF NothingOlder
    <3>2. CASE n \in Queued
      <4>1. PICK i \in 1 .. Len(queue) : queue[i] = n BY <3>2 DEF Queued
      <4>2. shared <= queue[i] BY <1>0, <2>1, <3>1 DEF Order, TakenFirst
      <4>3. queue[i] \in 1 .. shared /\ shared \in Nat BY Numbers
      <4>4. QED BY <4>1, <4>2, <4>3
    <3>3. CASE n \in Shared BY <2>1, <3>3, OnTheirWay DEF Order, CarriedLast
    <3>4. CASE n \in Flushed'
      <4>1. PICK g \in Flushers : g # f /\ Has(g) BY <1>3, <3>4
      <4>2. flush[g] # NULL /\ flush[f] # NULL BY <1>0, <4>1 DEF Has, FlushAt
      <4>3. QED BY <2>1, <4>1, <4>2 DEF Order, OneRun
    <3>5. QED BY <1>3, <3>1, <3>2, <3>3, <3>4 DEF InFlight
  <2>9. QED BY <2>3, <2>4, <2>6, <2>7, <2>8 DEF Order
<1> QED BY <1>5, <1>6, <1>7 DEF PhoneInv, InOrder

\* The phone goes back to the head of the list (LPUSH).
LEMMA PutBackPhones ==
    ASSUME Fit, Fit', PhoneInv, NEW f \in Flushers, PutBack(f)
    PROVE  PhoneInv'
<1>0. /\ UNCHANGED <<row, task, shared, applied, lost, overtaken>> /\ Has(f)
      /\ queue' = <<flush[f].phone>> \o queue /\ SameCarriers
  BY CarriersRest DEF PutBack, Has, history
<1>1. flush'[f] = NULL /\ \A g \in Flushers : g # f => flush'[g] = flush[g]
  BY RunStops DEF RunEnds
<1>2. /\ flush[f].phone \in 1 .. shared /\ flush[f].phone \in Phones
      /\ \A g \in Flushers : Has(g)' => Has(g) /\ flush'[g].phone = flush[g].phone
      /\ \A n : n \in InFlight <=> n \in InFlight' \/ n = flush[f].phone
  BY <1>0, <1>1, RunHandsOn DEF Has, FlushAt
<1>3. /\ queue \in Seq(Phones) /\ Len(queue) \in Nat /\ Len(queue') = Len(queue) + 1
      /\ \A i \in 1 .. Len(queue') : queue'[i] = IF i = 1 THEN flush[f].phone ELSE queue[i - 1]
  <2>1. queue \in Seq(Phones) /\ Len(queue) \in Nat BY Numbers
  <2>2. PICK one : one = <<flush[f].phone>> OBVIOUS
  <2>3. one \in Seq(Phones) /\ Len(one) = 1 /\ one[1] = flush[f].phone BY <1>2, <2>2
  <2>4. /\ Len(one \o queue) = Len(one) + Len(queue)
        /\ \A i \in 1 .. Len(one) + Len(queue) :
             (one \o queue)[i] = IF i <= Len(one) THEN one[i] ELSE queue[i - Len(one)]
    BY <2>1, <2>3, ConcatProperties
  <2>5. queue' = one \o queue BY <1>0, <2>2
  <2>6. /\ Len(queue') = 1 + Len(queue)
        /\ \A i \in 1 .. 1 + Len(queue) : queue'[i] = IF i <= 1 THEN one[i] ELSE queue[i - 1]
    BY <2>3, <2>4, <2>5
  <2>7. QED BY <2>1, <2>3, <2>6
<1>4. /\ \A i \in 1 .. Len(queue') : i = 1 \/ i - 1 \in 1 .. Len(queue)
      /\ \A i \in 1 .. Len(queue) : /\ i + 1 \in 1 .. Len(queue') /\ i + 1 # 1
                                    /\ (i + 1) - 1 = i
      /\ 1 \in 1 .. Len(queue')
  BY <1>3
<1>5. \A n : n \in Queued' <=> n \in Queued \/ n = flush[f].phone
  <2>1. \A n : n \in Queued' => n \in Queued \/ n = flush[f].phone BY <1>3, <1>4 DEF Queued
  <2>2. \A i \in 1 .. Len(queue) : \E j \in 1 .. Len(queue') : queue'[j] = queue[i]
    <3>1. SUFFICES ASSUME NEW i \in 1 .. Len(queue) PROVE queue'[i + 1] = queue[i]
      BY <1>4
    <3>2. i + 1 \in 1 .. Len(queue') /\ i + 1 # 1 /\ (i + 1) - 1 = i BY <1>4
    <3>3. QED BY <1>3, <3>2
  <2>3. \A n : n \in Queued => n \in Queued' BY <2>2 DEF Queued
  <2>4. flush[f].phone \in Queued' BY <1>3, <1>4 DEF Queued
  <2>5. QED BY <2>1, <2>3, <2>4
<1>6. \A n : n \in Queued' \cup InFlight' <=> n \in Queued \cup InFlight BY <1>2, <1>5
<1>7. PhonesKept'
  <2>1. \A n : n \in 1 .. shared <=> n \in applied \cup lost \cup Queued \cup InFlight
    BY DEF PhoneInv, PhonesKept
  <2>2. \A n : n \in 1 .. shared' <=> n \in applied' \cup lost' \cup Queued' \cup InFlight'
    BY <1>0, <1>6, <2>1
  <2>3. QED BY <2>2 DEF PhonesKept
<1>8. RowApplied' BY <1>0 DEF PhoneInv, RowApplied
<1>9. ASSUME ~overtaken', lost' = {} PROVE Order'
  <2>1. Order BY <1>0, <1>9 DEF PhoneInv, InOrder
  <2>2. Sorted'
    <3>1. SUFFICES ASSUME NEW i \in 1 .. Len(queue'), NEW j \in 1 .. Len(queue'), i < j
                   PROVE  queue'[i] <= queue'[j]
      BY DEF Sorted
    <3>2. j # 1 /\ j - 1 \in 1 .. Len(queue) /\ queue'[j] = queue[j - 1]
      BY <1>3, <1>4, <3>1
    <3>3. CASE i = 1
      BY <1>0, <1>3, <2>1, <3>2, <3>3 DEF Order, TakenFirst
    <3>4. CASE i # 1
      <4>1. /\ i - 1 \in 1 .. Len(queue) /\ i - 1 < j - 1 /\ queue'[i] = queue[i - 1]
        BY <1>3, <1>4, <3>1, <3>4
      <4>2. QED BY <2>1, <3>2, <4>1 DEF Order, Sorted
    <3>5. QED BY <3>3, <3>4
  <2>3. TakenFirst'
    <3>1. \A g \in Flushers : ~Has(g)'
      <4>1. SUFFICES ASSUME NEW g \in Flushers, Has(g)' PROVE FALSE OBVIOUS
      <4>2. g # f BY <1>1, <4>1 DEF Has, FlushAt
      <4>3. flush[g] # NULL /\ flush[f] # NULL BY <1>0, <1>2, <4>1 DEF Has, FlushAt
      <4>4. QED BY <2>1, <4>2, <4>3 DEF Order, OneRun
    <3>2. QED BY <3>1 DEF TakenFirst
  <2>4. OneRun'
    <3>1. \A g \in Flushers : flush'[g] # NULL => flush[g] # NULL BY <1>1
    <3>2. QED BY <2>1, <3>1 DEF Order, OneRun
  <2>5. CarriedLast' BY <1>0, <2>1 DEF Order, CarriedLast, SameCarriers
  <2>6. LatestSomewhere' /\ NothingOlder' /\ LatestApplied'
    BY <1>0, <1>6, <2>1 DEF Order, LatestSomewhere, NothingOlder, LatestApplied
  <2>7. QED BY <2>2, <2>3, <2>4, <2>5, <2>6 DEF Order
<1> QED BY <1>7, <1>8, <1>9 DEF PhoneInv, InOrder

\* The list refuses it.
LEMMA PutBackFailsPhones ==
    ASSUME Fit, Fit', PhoneInv, NEW f \in Flushers, PutBackFails(f)
    PROVE  PhoneInv'
<1>0. /\ UNCHANGED <<row, queue, task, shared, applied, overtaken>> /\ Has(f)
      /\ lost' = lost \cup {flush[f].phone}
  BY DEF PutBackFails, Has, stored
<1>1. flush'[f] = NULL /\ \A g \in Flushers : g # f => flush'[g] = flush[g]
  BY RunStops DEF RunEnds
<1>2. \A n : n \in InFlight <=> n \in InFlight' \/ n = flush[f].phone
  BY <1>0, <1>1, RunHandsOn DEF Has, FlushAt
<1>3. PhonesKept'
  <2>1. \A n : n \in 1 .. shared <=> n \in applied \cup lost \cup Queued \cup InFlight
    BY DEF PhoneInv, PhonesKept
  <2>2. Queued' = Queued BY <1>0 DEF Queued
  <2>3. \A n : n \in 1 .. shared' <=> n \in applied' \cup lost' \cup Queued' \cup InFlight'
    BY <1>0, <1>2, <2>1, <2>2
  <2>4. QED BY <2>3 DEF PhonesKept
<1>4. RowApplied' BY <1>0 DEF PhoneInv, RowApplied
<1>5. lost' # {} BY <1>0
<1> QED BY <1>3, <1>4, <1>5 DEF PhoneInv, InOrder

\* A step of a run of the job.
LEMMA FlushPhones ==
    ASSUME Fit, Fit', PhoneInv, NEW f \in Flushers, StartFlush(f) \/ FlushStep(f)
    PROVE  PhoneInv'
<1>1. CASE Pop(f) \/ FlushPersist(f) \/ PutBack(f) \/ PutBackFails(f)
  BY <1>1, PopPhones, FlushPersistPhones, PutBackPhones, PutBackFailsPhones
<1>2. CASE StartFlush(f)
  <2>1. /\ UNCHANGED <<row, queue, task, shared, applied, lost>> /\ flush[f] = NULL
        /\ overtaken' = (overtaken \/ \E g \in Flushers : flush[g] # NULL)
        /\ flush'[f].phase = "pop" /\ \A g \in Flushers : g # f => flush'[g] = flush[g]
    BY <1>2, RunStarts DEF StartFlush, stored, RunMoves
  <2>2. SameTakers BY <2>1 DEF SameTakers, Has, FlushAt
  <2>3. ~overtaken' => OneRun' BY <2>1 DEF OneRun
  <2>4. QED BY <2>1, <2>2, <2>3, CarriersRest, QuietPhones
<1>3. CASE PopFails(f) \/ FlushPersistFails(f) \/ Merge(f) \/ Clear(f) \/ Write(f)
  <2>1. UNCHANGED <<row, queue, task, shared, applied, lost, overtaken>> /\ flush[f] # NULL
    BY <1>3 DEF PopFails, FlushPersistFails, Merge, Clear, Write, stored, history, FlushAt
  <2>2. \A g \in Flushers : g # f => flush'[g] = flush[g]
    BY <1>3, RunStops, RunGoes DEF RunEnds, RunMoves
  <2>3. (Has(f)' <=> Has(f)) /\ (Has(f) => flush'[f].phone = flush[f].phone)
    <3>1. CASE PopFails(f) BY <3>1, RunStops DEF PopFails, RunEnds, Has, FlushAt
    <3>2. CASE FlushPersistFails(f)
      BY <3>2, RunGoes, IsRun DEF FlushPersistFails, RunMoves, Has, FlushAt
    <3>3. CASE Merge(f) \/ Clear(f) \/ Write(f) BY <3>3, RunGoes DEF RunMoves, Has, FlushAt
    <3>4. QED BY <1>3, <3>1, <3>2, <3>3
  <2>4. SameTakers BY <2>2, <2>3 DEF SameTakers, Has, FlushAt
  <2>5. ~overtaken' /\ lost = {} => OneRun' BY <2>1, <2>2, OneStays
  <2>6. QED BY <2>1, <2>4, <2>5, CarriersRest, QuietPhones
<1> QED BY <1>1, <1>2, <1>3 DEF FlushStep

\* The process dies: what neither the row nor the list has is lost.
LEMMA CrashPhones == ASSUME Fit, Fit', PhoneInv, Crash PROVE PhoneInv'
<1>0. /\ UNCHANGED <<row, queue, shared, applied, overtaken>>
      /\ lost' = lost \cup (InFlight \ (applied \cup Queued))
      /\ \A w \in Workers : task'[w] = NULL
      /\ \A f \in Flushers : flush'[f] = NULL
  BY DEF Crash, stored
<1>1. (\A w \in Workers : ~Carries(w)') /\ (\A f \in Flushers : ~Has(f)')
  BY <1>0 DEF Carries, Busy, Has, FlushAt
<1>2. InFlight' = {} /\ Queued' = Queued
  <2>1. Shared' = {} BY <1>1 DEF Shared, Carries
  <2>2. Flushed' = {} BY <1>1 DEF Flushed, Has
  <2>3. QED BY <1>0, <2>1, <2>2 DEF InFlight, Queued
<1>3. PhonesKept'
  <2>1. 1 .. shared = applied \cup lost \cup Queued \cup InFlight BY DEF PhoneInv, PhonesKept
  <2>2. applied \cup lost \cup Queued \cup InFlight = applied' \cup lost' \cup Queued' \cup InFlight'
    BY <1>0, <1>2
  <2>3. QED BY <1>0, <2>1, <2>2 DEF PhonesKept
<1>4. RowApplied' BY <1>0 DEF PhoneInv, RowApplied
<1>5. ASSUME ~overtaken', lost' = {} PROVE Order'
  <2>1. Order /\ InFlight \subseteq applied \cup Queued
    BY <1>0, <1>5 DEF PhoneInv, InOrder
  <2>2. Sorted' /\ TakenFirst' /\ OneRun' /\ CarriedLast'
    BY <1>0, <1>1, <2>1 DEF Order, Sorted, TakenFirst, OneRun, CarriedLast
  <2>3. LatestSomewhere' /\ NothingOlder' /\ LatestApplied'
    BY <1>0, <1>2, <2>1 DEF Order, LatestSomewhere, NothingOlder, LatestApplied
  <2>4. QED BY <2>2, <2>3 DEF Order
<1> QED BY <1>3, <1>4, <1>5 DEF PhoneInv, InOrder

\* An update that brings no contact.
LEMMA BeginPhones ==
    ASSUME Fit, Fit', PhoneInv, NEW w \in Workers, NEW kind \in {"order", "other"},
           Begin(w, kind)
    PROVE  PhoneInv'
<1>1. /\ UNCHANGED <<queue, applied, lost, row, flush, shared>> /\ task[w] = NULL
      /\ overtaken' = overtaken
  BY DEF Begin, stored, Busy, Fit, CountsFit
<1>2. task'[w].phone = NULL /\ \A v \in Workers : v # w => task'[v] = task[v]
  BY TaskStarts
<1>3. SameCarriers BY <1>1, <1>2 DEF SameCarriers, Carries, Busy
<1>4. SameTakers BY <1>1 DEF SameTakers, Has, FlushAt
<1>5. ~overtaken' /\ lost = {} => OneRun' BY <1>1, OneStays
<1> QED BY <1>1, <1>3, <1>4, <1>5, QuietPhones

\* Every step keeps the phones and their order.
LEMMA PhoneStep == ASSUME Fit, PhoneInv, [Next]_vars PROVE PhoneInv'
<1>0. Fit' BY FitStep
<1>1. ASSUME NEW w \in Workers, Handle(w) PROVE PhoneInv' BY <1>0, <1>1, HandlePhones
<1>2. ASSUME NEW f \in Flushers, StartFlush(f) \/ FlushStep(f) PROVE PhoneInv'
  BY <1>0, <1>2, FlushPhones
<1>3. ASSUME NEW w \in Workers, NEW kind \in {"share", "order", "other"}, Begin(w, kind)
      PROVE  PhoneInv'
  BY <1>0, <1>3, SharePhones, BeginPhones
<1>4. CASE Expire \/ UNCHANGED vars
  <2>1. UNCHANGED <<queue, applied, lost, row, flush, shared, task, overtaken>>
    BY <1>4 DEF Expire, vars, stored, history
  <2>2. SameTakers BY <2>1 DEF SameTakers, Has, FlushAt
  <2>3. ~overtaken' /\ lost = {} => OneRun' BY <2>1, OneStays
  <2>4. QED BY <1>0, <2>1, <2>2, <2>3, CarriersRest, QuietPhones
<1>5. CASE Crash BY <1>0, <1>5, CrashPhones
<1> QED BY <1>1, <1>2, <1>3, <1>4, <1>5 DEF Next

\* At first nobody shared a phone.
LEMMA PhoneInit == Init => PhoneInv
<1>1. SUFFICES ASSUME Init PROVE PhoneInv OBVIOUS
<1>2. /\ row.phone = NULL /\ queue = <<>> /\ shared = 0 /\ applied = {} /\ lost = {}
      /\ \A w \in Workers : task[w] = NULL
      /\ \A f \in Flushers : flush[f] = NULL
  BY <1>1 DEF Init
<1>3. (\A w \in Workers : ~Carries(w)) /\ (\A f \in Flushers : ~Has(f))
  BY <1>2 DEF Carries, Busy, Has, FlushAt
<1>4. Len(queue) = 0 BY <1>2
<1>5. InFlight = {} /\ Queued = {}
  <2>1. Shared = {} BY <1>3 DEF Shared, Carries
  <2>2. Flushed = {} BY <1>3 DEF Flushed, Has
  <2>3. QED BY <1>4, <2>1, <2>2 DEF InFlight, Queued
<1>6. PhonesKept BY <1>2, <1>5 DEF PhonesKept
<1>7. RowApplied BY <1>2 DEF RowApplied
<1>8. Sorted /\ TakenFirst /\ OneRun /\ CarriedLast
  BY <1>2, <1>3, <1>4 DEF Sorted, TakenFirst, OneRun, CarriedLast
<1>9. LatestSomewhere /\ NothingOlder /\ LatestApplied
  BY <1>2, <1>5 DEF LatestSomewhere, NothingOlder, LatestApplied
<1> QED BY <1>6, <1>7, <1>8, <1>9 DEF PhoneInv, InOrder, Order

\* The invariant says what PhonesSound promises: what is not on its way any more is the
\* row's, when nothing was lost or overtaken.
LEMMA PhonesSoundFollows == Fit /\ PhoneInv => PhonesSound
<1>1. SUFFICES ASSUME Fit, PhoneInv PROVE PhonesSound OBVIOUS
<1>2. TypeOK BY <1>1 DEF Fit, RowFits, TasksFit, FlushesFit, CountsFit, TypeOK
<1>3. PhonesKept BY <1>1 DEF PhoneInv
<1>4. LatestPhoneStays
  BY <1>1 DEF PhoneInv, InOrder, Order, LatestSomewhere, LatestPhoneStays
<1> QED BY <1>2, <1>3, <1>4 DEF PhonesSound

\* No phone a person shared disappears on its way to the row, whatever fails, and the one
\* shared last stays in it unless one was dropped or overtaken: savePhone, the list and
\* flushUserPhoneUpdates, with the types of everything they touch.
THEOREM PhonesSoundHolds == Spec => []PhonesSound
<1>1. Init => Fit /\ PhoneInv BY FitInit, PhoneInit
<1>2. (Fit /\ PhoneInv) /\ [Next]_vars => (Fit /\ PhoneInv)' BY FitStep, PhoneStep
<1>3. QED BY <1>1, <1>2, PhonesSoundFollows, PTL DEF Spec

-----------------------------------------------------------------------------
(* The order that nothing ran or failed beside *)

\* Its handler is alone.
OnItsOwn(w) ==
    /\ \A v \in Workers : Busy(v) => v = w
    /\ \A f \in Flushers : flush[f] = NULL

\* What it read and what it left in the cache is the row.
SeesRow(w) ==
    /\ At(w, "prime") \/ At(w, "remember") \/ At(w, "decided") => task[w].seen = row
    /\ At(w, "get") => cache \in {NULL, row}

CalmAlone == \A w \in calm : OnItsOwn(w) /\ SeesRow(w)

\* The steps of a handler that is alone leave it with what the row says.
LEMMA CalmHandler ==
    ASSUME Fit, NEW w \in Workers, Handle(w), Quiet, SeesRow(w)
    PROVE  SeesRow(w)'
<1>0. \A here : At(w, here) => task[w] \in Task /\ TaskFits(task[w]) /\ task[w].phase = here
  BY Here
<1>1. CASE Authenticate(w)
  <2>1. task'[w].phase = "prime" /\ task'[w].seen = row'
    BY <1>1 DEF Authenticate, Fit, TasksFit
  <2>2. QED BY <2>1 DEF SeesRow, At
<1>2. CASE Prime(w)
  <2>1. At(w, "prime") /\ To(w, AfterAuth(task[w].kind)) /\ row' = row BY <1>2 DEF Prime
  <2>2. cache' = row
    <3>1. faults \in Nat BY AccessAssumption DEF Fit, CountsFit
    <3>2. cache' = task[w].seen BY <1>2, <3>1 DEF Prime, Remember, Occurs, Quiet
    <3>3. QED BY <2>1, <3>2 DEF SeesRow
  <2>3. PICK phase \in {"persist", "get", "ensure"} : To(w, phase)
    BY <1>0, <2>1, After
  <2>4. task'[w].phase = phase BY <2>1, <2>3, GoesTo DEF Phases, Moves
  <2>5. QED BY <2>1, <2>2, <2>4 DEF SeesRow, At
<1>3. CASE Ends(w)
  BY <1>3 DEF Ends, SeesRow, At, Busy
<1>4. CASE Persist(w) \/ PersistFails(w) \/ Enqueue(w)
  <2>1. PICK phase \in {"primePhone", "enqueue"} : (\E here : At(w, here)) /\ To(w, phase)
    BY <1>4 DEF Persist, PersistFails, Enqueue
  <2>2. task'[w].phase = phase BY <2>1, GoesTo DEF Phases, Moves
  <2>3. QED BY <2>2 DEF SeesRow, At
<1>5. CASE Get(w)
  <2>1. At(w, "get") /\ row' = row /\ task \in [Workers -> Task \cup {NULL}]
    BY <1>5, Here DEF Get, stored
  <2>2. CASE cache # NULL
    <3>1. task'[w].phase = "decided" /\ task'[w].seen = cache
      <4>1. task' = [task EXCEPT ![w].phase = "decided", ![w].seen = cache]
        BY <1>5, <2>2 DEF Get
      <4>2. PICK t : t = [task[w] EXCEPT !.phase = "decided", !.seen = cache] OBVIOUS
      <4>3. t.phase = "decided" /\ t.seen = cache BY <1>0, <2>1, <4>2 DEF Task
      <4>4. task' = [task EXCEPT ![w] = t] BY <4>1, <4>2
      <4>5. QED BY <2>1, <4>3, <4>4
    <3>2. cache = row BY <2>1, <2>2 DEF SeesRow
    <3>3. QED BY <2>1, <3>1, <3>2 DEF SeesRow, At
  <2>3. CASE cache = NULL
    <3>1. task'[w].phase = "read" BY <1>5, <2>1, <2>3, GoesTo DEF Get, Phases, Moves
    <3>2. QED BY <3>1 DEF SeesRow, At
  <2>4. QED BY <2>2, <2>3
<1>6. CASE Read(w)
  <2>1. task'[w].phase = "remember" /\ task'[w].seen = row /\ row' = row
    BY <1>0, <1>6, Here DEF Read, stored
  <2>2. QED BY <2>1 DEF SeesRow, At
<1>7. CASE RememberRead(w)
  <2>1. At(w, "remember") /\ To(w, "decided") /\ row' = row BY <1>7 DEF RememberRead
  <2>2. task'[w].phase = "decided" /\ task'[w].seen = task[w].seen
    BY <2>1, GoesTo DEF Phases, Moves
  <2>3. QED BY <2>1, <2>2 DEF SeesRow, At
<1>8. CASE Ensure(w) \/ Ask(w)
  <2>1. PICK here \in {"ensure", "ask"} : At(w, here) BY <1>8 DEF Ensure, Ask
  <2>2. CASE \E known : End(w, known) BY <1>3, <2>2, Stops
  <2>3. CASE \E phase \in {"ask", "block"} : To(w, phase)
    <3>1. PICK phase \in {"ask", "block"} : task'[w].phase = phase
      BY <2>1, <2>3, GoesTo DEF Phases, Moves
    <3>2. QED BY <3>1 DEF SeesRow, At
  <2>4. QED BY <1>8, <2>2, <2>3 DEF Ensure, Ask
<1>9. CASE PrimePhone(w) \/ Decided(w) \/ SetBlocked(w) \/ SetBlockedFails(w)
  BY <1>3, <1>9, Stops DEF PrimePhone, Decided, SetBlocked, SetBlockedFails
<1>10. CASE AuthenticationFails(w) \/ EnqueueFails(w) \/ ReadFails(w) \/ EnsureFails(w)
  <2>1. faults' = faults + 1 /\ faults \in Nat
    BY <1>10, AccessAssumption DEF AuthenticationFails, EnqueueFails, ReadFails, EnsureFails,
                                   Occurs, Fit, CountsFit
  <2>2. QED BY <2>1 DEF Quiet
<1> QED BY <1>1, <1>2, <1>4, <1>5, <1>6, <1>7, <1>8, <1>9, <1>10 DEF Handle

\* Every step leaves a calm handler alone with what the row says, or is no longer calm.
LEMMA CalmStep == ASSUME Fit, CalmAlone, [Next]_vars PROVE CalmAlone'
<1>0. \A v \in calm : v \in Workers BY DEF Fit, CountsFit
<1>1. CASE calm' = {} BY <1>1 DEF CalmAlone
<1>2. CASE \E k \in Faults : Occurs(k) BY <1>1, <1>2 DEF Occurs
<1>3. ASSUME NEW w \in Workers, Handle(w), Quiet PROVE CalmAlone'
  <2>1. SUFFICES ASSUME NEW v \in calm PROVE OnItsOwn(v)' /\ SeesRow(v)'
    BY <1>3 DEF CalmAlone, Quiet
  <2>2. OnItsOwn(v) /\ SeesRow(v) /\ v \in Workers BY <1>0, <2>1 DEF CalmAlone
  <2>3. UNCHANGED flush
    BY <1>3 DEF Handle, Authenticate, AuthenticationFails, Prime, Persist, PersistFails,
           Enqueue, EnqueueFails, PrimePhone, Get, Read, ReadFails, RememberRead, Decided, Ensure,
           EnsureFails, Ask, SetBlocked, SetBlockedFails
  <2>4. /\ Busy(w)
        /\ \A u \in Workers : u # w => task'[u] = task[u]
    <3>1. Busy(w)
      BY <1>3 DEF Handle, Authenticate, AuthenticationFails, Prime, Persist, PersistFails,
             Enqueue, EnqueueFails, PrimePhone, Get, Read, ReadFails, RememberRead, Decided,
             Ensure, EnsureFails, Ask, SetBlocked, SetBlockedFails, At
    <3>2. QED BY <1>3, <3>1, HandlerSteps DEF Ends, GoesOn, Moves
  <2>5. v = w BY <2>2, <2>4 DEF OnItsOwn
  <2>6. OnItsOwn(v)' BY <2>2, <2>3, <2>4, <2>5 DEF OnItsOwn, Busy
  <2>7. SeesRow(w)' BY <1>3, <2>2, <2>5, CalmHandler
  <2>8. QED BY <2>5, <2>6, <2>7
<1>4. ASSUME NEW w \in Workers, Handle(w) PROVE CalmAlone'
  <2>1. Quiet \/ \E k \in Faults : Occurs(k)
    BY <1>4 DEF Handle, Authenticate, AuthenticationFails, Prime, Persist, PersistFails,
           Enqueue, EnqueueFails, PrimePhone, Get, Read, ReadFails, RememberRead, Decided, Ensure,
           EnsureFails, Ask, SetBlocked, SetBlockedFails, Remember, NotPersisted, Occurs
  <2>2. QED BY <1>2, <1>3, <1>4, <2>1
<1>5. ASSUME NEW f \in Flushers, StartFlush(f) PROVE CalmAlone' BY <1>1, <1>5 DEF StartFlush
<1>6. ASSUME NEW f \in Flushers, FlushStep(f) PROVE CalmAlone'
  <2>1. Quiet \/ \E k \in Faults : Occurs(k)
    BY <1>6 DEF FlushStep, Pop, PopFails, FlushPersist, FlushPersistFails, PutBack, PutBackFails,
           Merge, Clear, Write, Remember, NotPersisted, Occurs
  <2>2. flush[f] # NULL
    BY <1>6 DEF FlushStep, Pop, PopFails, FlushPersist, FlushPersistFails, PutBack, PutBackFails,
           Merge, Clear, Write, FlushAt
  <2>3. calm = {} BY <2>2 DEF CalmAlone, OnItsOwn
  <2>4. QED BY <1>1, <1>2, <2>1, <2>3 DEF Quiet
<1>7. ASSUME NEW w \in Workers, NEW kind \in {"share", "order", "other"}, Begin(w, kind)
      PROVE  CalmAlone'
  <2>1. CASE (\E v \in Workers : Busy(v)) \/ \E f \in Flushers : flush[f] # NULL
    BY <1>1, <1>7, <2>1 DEF Begin
  <2>2. CASE (\A v \in Workers : ~Busy(v)) /\ \A f \in Flushers : flush[f] = NULL
    <3>1. calm' = {w} /\ UNCHANGED flush BY <1>7, <2>2 DEF Begin
    <3>2. task'[w].phase = "auth" /\ \A v \in Workers : v # w => task'[v] = task[v]
      BY <1>7, TaskStarts
    <3>3. OnItsOwn(w)' BY <2>2, <3>1, <3>2 DEF OnItsOwn, Busy
    <3>4. SeesRow(w)' BY <3>2 DEF SeesRow, At
    <3>5. QED BY <3>1, <3>3, <3>4 DEF CalmAlone
  <2>3. QED BY <2>1, <2>2
<1>8. CASE Expire
  <2>1. UNCHANGED <<row, task, flush, calm>> /\ cache' = NULL
    BY <1>8 DEF Expire, Quiet
  <2>2. QED BY <2>1 DEF CalmAlone, OnItsOwn, SeesRow, At, Busy
<1>9. CASE Crash BY <1>1, <1>9 DEF Crash, Occurs
<1>10. CASE UNCHANGED vars
  BY <1>10 DEF vars, stored, history, CalmAlone, OnItsOwn, SeesRow, At, Busy
<1> QED BY <1>4, <1>5, <1>6, <1>7, <1>8, <1>9, <1>10 DEF Next

\* Whatever stale access earlier races and failures left in the cache, an order that
\* nothing else ran or failed beside is decided by the row, as the check-in of its own
\* update renewed the copies (mapAuthRow, getExecutorOrderAccess).
THEOREM CalmOrderSeesRowHolds == Spec => []CalmOrderSeesRow
<1>1. Init => Fit /\ CalmAlone BY FitInit DEF Init, CalmAlone
<1>2. (Fit /\ CalmAlone) /\ [Next]_vars => (Fit /\ CalmAlone)' BY FitStep, CalmStep
<1>3. CalmAlone => CalmOrderSeesRow BY DEF CalmAlone, SeesRow, CalmOrderSeesRow
<1>4. QED BY <1>1, <1>2, <1>3, PTL DEF Spec
=============================================================================
