---------------------------- MODULE SupportProofs ----------------------------
(***************************************************************************)
(* Proofs about Support, for every set of users, moderators and workers    *)
(* and every bound.                                                        *)
(***************************************************************************)
EXTENDS Support, TLAPS

\* What a handler's fields hold by the phase it is in.
Fits(k) ==
    /\ k.phase \in {"find", "resolve", "copy", "insert", "save"} => k.user \in Users
    /\ k.phase \in {"prompt", "answer"} => k.moderator \in Moderators
    /\ k.phase \in {"prompt", "answer", "keyboard", "update", "notify"} => k.user = NULL
    /\ k.phase \in {"copy", "insert", "prompt", "answer", "keyboard", "update", "notify"} =>
         k.thread \in Threads

TasksFit == \A w \in Workers : Busy(w) => Fits(task[w])

Typed == TypeOK /\ TasksFit

-----------------------------------------------------------------------------
(* Types *)

\* NULL is no value of the maps, and numbers that are given out have a next one.
LEMMA ConstantsTyped ==
    /\ NULL \notin Moderators /\ NULL \notin Users /\ NULL \notin Threads /\ NULL \notin PromptIds
    /\ NULL \notin Prompt /\ NULL \notin Task
    /\ \A n \in Threads : n \in Nat /\ n + 1 \in 1 .. MaxThreads + 1
    /\ \A n \in PromptIds : n \in Nat /\ n + 1 \in 1 .. MaxPrompts + 1
    /\ MaxFaults \in Nat
<1>1. Threads \subseteq Nat /\ PromptIds \subseteq Nat
  BY SupportAssumption DEF Threads, PromptIds
<1>3. /\ \A n \in Threads : n + 1 \in 1 .. MaxThreads + 1
      /\ \A n \in PromptIds : n + 1 \in 1 .. MaxPrompts + 1
  BY SupportAssumption DEF Threads, PromptIds
<1>4. QED BY <1>1, <1>3, SupportAssumption, NullAssumption

\* The count of failures stays within its bound.
LEMMA FaultsTyped ==
    ASSUME TypeOK, NEW k, Occurs(k)
    PROVE  faults' \in 0 .. MaxFaults
  BY ConstantsTyped DEF TypeOK, Occurs

\* Dropping prompts keeps the three maps typed.
LEMMA ClearTyped ==
    ASSUME TypeOK, NEW P \in SUBSET PromptIds, ClearPrompts(P)
    PROVE  /\ prompts' \in [PromptIds -> Prompt \cup {NULL}]
           /\ index' \in [Moderators -> PromptIds \cup {NULL}]
           /\ byThread' \in [Threads -> SUBSET PromptIds]
           /\ newest' = newest /\ nextPrompt' = nextPrompt
  BY DEF TypeOK, ClearPrompts

\* A worker takes a typed task.
LEMMA TaskTyped ==
    ASSUME Typed, NEW w \in Workers, NEW k \in Task, Fits(k), task' = [task EXCEPT ![w] = k]
    PROVE  task' \in [Workers -> Task \cup {NULL}] /\ TasksFit'
  BY DEF Typed, TypeOK, TasksFit, Busy

\* A handler that ends leaves its worker free.
LEMMA EndTyped ==
    ASSUME Typed, NEW w \in Workers, End(w)
    PROVE  task' \in [Workers -> Task \cup {NULL}] /\ TasksFit'
  BY DEF Typed, TypeOK, TasksFit, Busy, End

\* A worker moves on to a phase that its fields fit.
LEMMA ToTyped ==
    ASSUME Typed, NEW w \in Workers, Busy(w),
           NEW ph \in {"find", "resolve", "copy", "insert", "save", "prompt", "answer",
                       "keyboard", "update", "notify"},
           Fits([task[w] EXCEPT !.phase = ph]), To(w, ph)
    PROVE  task' \in [Workers -> Task \cup {NULL}] /\ TasksFit'
<1> DEFINE k == [task[w] EXCEPT !.phase = ph]
<1>1. task[w] \in Task BY DEF Typed, TypeOK, Busy
<1>2. k \in Task BY <1>1 DEF Task
<1>3. task' = [task EXCEPT ![w] = k] BY <1>1 DEF To, Typed, TypeOK
<1> HIDE DEF k
<1>4. Fits(k) BY DEF k
<1>5. QED BY <1>2, <1>3, <1>4, TaskTyped

\* A user's handler keeps the types, and a task the fields its phase uses.
LEMMA UserStepTyped ==
    ASSUME Typed, NEW w \in Workers, UserStep(w)
    PROVE  Typed'
<1> USE DEF disk, memory, replies, history, asked
<1>1. /\ Busy(w) => task[w] \in Task /\ Fits(task[w])
      /\ TypeOK
  BY DEF Typed, TypeOK, TasksFit, Busy
<1>2. CASE FindOpenSupportThread(w)
  <2> DEFINE k == [task[w] EXCEPT !.phase = "save",
                                  !.status = IF OpenOf(task[w].user) # {} THEN "idle" ELSE @]
  <2>1. k \in Task /\ Fits(k)
    BY <1>1, <1>2 DEF FindOpenSupportThread, At, Task, Fits, SupportStatus
  <2>2. task' = [task EXCEPT ![w] = k]
    BY <1>1, <1>2 DEF FindOpenSupportThread, At, Task, TypeOK
  <2> HIDE DEF k
  <2>3. QED BY <1>1, <1>2, <2>1, <2>2, TaskTyped DEF FindOpenSupportThread, TypeOK, Typed
<1>3. CASE FindFails(w)
  <2>1. Fits([task[w] EXCEPT !.phase = "save"]) /\ Busy(w)
    BY <1>1, <1>3 DEF FindFails, At, Fits, Task
  <2>2. task[w].user \in Users BY <1>1, <1>3 DEF FindFails, At, Fits
  <2>3. QED BY <1>1, <1>3, <2>1, <2>2, ToTyped, FaultsTyped DEF FindFails, Doubt, TypeOK, Typed
<1>4. ASSUME NEW chat \in BOOLEAN, Resolved(w, chat)
      PROVE  /\ task' \in [Workers -> Task \cup {NULL}] /\ TasksFit'
             /\ owner' \in [Threads -> Users \cup {NULL}]
             /\ nextThread' \in 1 .. MaxThreads + 1
             /\ unsearched' \subseteq Threads
             /\ lastKnown' \in BOOLEAN
  <2>1. lastKnown' \in BOOLEAN /\ task[w].user \in Users /\ task[w] \in Task
    BY <1>1, <1>4 DEF Resolved, At, Fits, TypeOK
  <2>2. CASE lastKnown'
    <3> DEFINE k == [task[w] EXCEPT !.phase = "copy", !.thread = nextThread]
    <3>1. nextThread \in Threads BY <1>4, <2>2 DEF Resolved
    <3>2. k \in Task /\ Fits(k) BY <2>1, <3>1 DEF Task, Fits
    <3>3. task' = [task EXCEPT ![w] = k]
      BY <1>1, <1>4, <2>1, <2>2 DEF Resolved, TypeOK, Task
    <3>4. nextThread' \in 1 .. MaxThreads + 1
      BY <1>4, <2>2, <3>1, ConstantsTyped DEF Resolved
    <3>5. owner' \in [Threads -> Users \cup {NULL}] BY <1>1, <1>4, <2>1, <2>2 DEF Resolved, TypeOK
    <3>6. unsearched' \subseteq Threads BY <1>1, <1>4, <2>2, <3>1 DEF Resolved, TypeOK
    <3> HIDE DEF k
    <3>7. QED BY <2>1, <3>2, <3>3, <3>4, <3>5, <3>6, TaskTyped
  <2>3. CASE ~lastKnown'
    <3> DEFINE k == [task[w] EXCEPT !.phase = "save", !.status = "idle"]
    <3>1. k \in Task /\ Fits(k) BY <2>1 DEF Task, Fits, SupportStatus
    <3>2. task' = [task EXCEPT ![w] = k]
      BY <1>1, <1>4, <2>1, <2>3 DEF Resolved, TypeOK, Task
    <3>3. UNCHANGED <<owner, nextThread, unsearched>> BY <1>4, <2>3 DEF Resolved
    <3> HIDE DEF k
    <3>4. QED BY <1>1, <2>1, <3>1, <3>2, <3>3, TaskTyped DEF TypeOK
  <2>4. QED BY <2>2, <2>3
<1>5. CASE Resolve(w)
  <2>1. Resolved(w, TRUE) /\ UNCHANGED faults BY <1>5 DEF Resolve
  <2>2. /\ task' \in [Workers -> Task \cup {NULL}] /\ TasksFit'
        /\ owner' \in [Threads -> Users \cup {NULL}]
        /\ nextThread' \in 1 .. MaxThreads + 1
        /\ unsearched' \subseteq Threads
        /\ lastKnown' \in BOOLEAN
    BY <2>1, <1>4
  <2>3. QED BY <1>1, <2>1, <2>2 DEF Resolved, TypeOK, Typed
<1>6. CASE ResolveFails(w)
  <2>1. Resolved(w, FALSE) /\ faults' \in 0 .. MaxFaults
    BY <1>1, <1>6, FaultsTyped DEF ResolveFails
  <2>2. /\ task' \in [Workers -> Task \cup {NULL}] /\ TasksFit'
        /\ owner' \in [Threads -> Users \cup {NULL}]
        /\ nextThread' \in 1 .. MaxThreads + 1
        /\ unsearched' \subseteq Threads
        /\ lastKnown' \in BOOLEAN
    BY <2>1, <1>4
  <2>3. QED BY <1>1, <2>1, <2>2 DEF Resolved, TypeOK, Typed
<1>7. CASE Copy(w)
  <2>1. Fits([task[w] EXCEPT !.phase = "insert"]) /\ Busy(w) /\ task[w].thread \in Threads
    BY <1>1, <1>7 DEF Copy, At, Fits, Task
  <2>2. task' \in [Workers -> Task \cup {NULL}] /\ TasksFit'
    BY <1>7, <2>1, ToTyped DEF Copy
  <2>3. QED BY <1>1, <1>7, <2>1, <2>2 DEF Copy, TypeOK, Typed, Statuses
<1>8. CASE CopyFails(w)
  <2>1. Fits([task[w] EXCEPT !.phase = "save"]) /\ Busy(w)
    BY <1>1, <1>8 DEF CopyFails, At, Fits, Task
  <2>2. QED BY <1>1, <1>8, <2>1, ToTyped, FaultsTyped DEF CopyFails, TypeOK, Typed
<1>9. ASSUME Busy(w), task[w].phase = "insert",
             task' = [task EXCEPT ![w].phase = "save", ![w].status = "idle"]
      PROVE  /\ task' \in [Workers -> Task \cup {NULL}] /\ TasksFit'
             /\ task[w].thread \in Threads /\ task[w].user \in Users
  <2> DEFINE k == [task[w] EXCEPT !.phase = "save", !.status = "idle"]
  <2>1. /\ k \in Task /\ Fits(k)
        /\ task[w].thread \in Threads /\ task[w].user \in Users
    BY <1>1, <1>9 DEF Task, Fits, SupportStatus
  <2>2. task' = [task EXCEPT ![w] = k] BY <1>1, <1>9 DEF Task, TypeOK
  <2> HIDE DEF k
  <2>3. QED BY <2>1, <2>2, TaskTyped
<1>10. CASE Insert(w)
  <2>1. /\ task' \in [Workers -> Task \cup {NULL}] /\ TasksFit'
        /\ task[w].thread \in Threads
    BY <1>9, <1>10 DEF Insert, At
  <2>2. rows' \in [Threads -> Statuses] /\ spoiled' \subseteq Threads
    BY <1>1, <1>10, <2>1 DEF Insert, TypeOK, Statuses
  <2>3. QED BY <1>1, <1>10, <2>1, <2>2 DEF Insert, TypeOK, Typed
<1>11. CASE InsertFails(w)
  <2>1. /\ task' \in [Workers -> Task \cup {NULL}] /\ TasksFit'
        /\ task[w].thread \in Threads /\ task[w].user \in Users
    BY <1>9, <1>11 DEF InsertFails, At
  <2>2. QED BY <1>1, <1>11, <2>1, FaultsTyped DEF InsertFails, Doubt, TypeOK, Typed
<1>12. CASE Save(w)
  <2>1. task[w].user \in Users /\ task[w].status \in SupportStatus
    BY <1>1, <1>12 DEF Save, At, Fits, Task
  <2>2. blind' \subseteq Users BY <1>1, <1>12 DEF Save, Over, TypeOK
  <2>3. QED BY <1>1, <1>12, <2>1, <2>2, EndTyped DEF Save, TypeOK, Typed
<1>13. CASE SaveFails(w)
  <2>1. task[w].user \in Users BY <1>1, <1>13 DEF SaveFails, At, Fits
  <2>2. QED BY <1>1, <1>13, <2>1, EndTyped, FaultsTyped DEF SaveFails, Doubt, TypeOK, Typed
<1>14. QED
  BY <1>2, <1>3, <1>5, <1>6, <1>7, <1>8, <1>10, <1>11, <1>12, <1>13 DEF UserStep
\* A moderator's handler keeps the types.
LEMMA ModeratorStepTyped ==
    ASSUME Typed, NEW w \in Workers, ModeratorStep(w)
    PROVE  Typed'
<1> USE DEF disk, memory, replies, history, asked
<1>1. /\ Busy(w) => task[w] \in Task /\ Fits(task[w])
      /\ TypeOK
  BY DEF Typed, TypeOK, TasksFit, Busy
<1>2. CASE PromptSent(w)
  <2>1. /\ task[w].thread \in Threads /\ task[w].moderator \in Moderators
        /\ nextPrompt \in PromptIds
    BY <1>1, <1>2 DEF PromptSent, At, Fits, RegisterPrompt
  <2>2. [thread |-> task[w].thread, moderator |-> task[w].moderator] \in Prompt
    BY <2>1 DEF Prompt
  <2>3. /\ prompts' \in [PromptIds -> Prompt \cup {NULL}]
        /\ index' \in [Moderators -> PromptIds \cup {NULL}]
        /\ byThread' \in [Threads -> SUBSET PromptIds]
        /\ newest' \in [Moderators -> PromptIds \cup {NULL}]
        /\ nextPrompt' \in 1 .. MaxPrompts + 1
    BY <1>1, <1>2, <2>1, <2>2, ConstantsTyped DEF PromptSent, RegisterPrompt, TypeOK
  <2>4. QED BY <1>1, <1>2, <2>1, <2>3, EndTyped DEF PromptSent, TypeOK, Typed
<1>3. CASE PromptFails(w)
  BY <1>1, <1>3, EndTyped, FaultsTyped DEF PromptFails, TypeOK, Typed
<1>4. CASE Answered(w)
  <2>1. task[w].prompt \in PromptIds \cup {NULL} BY <1>1, <1>4 DEF Answered, At, Task
  <2>2. CASE task[w].prompt = NULL
    BY <1>1, <1>4, <2>2, EndTyped DEF Answered, TypeOK, Typed
  <2>3. CASE task[w].prompt # NULL
    BY <1>1, <1>4, <2>1, <2>3, EndTyped, ClearTyped DEF Answered, TypeOK, Typed
  <2>4. QED BY <2>2, <2>3
<1>5. CASE ClearKeyboard(w)
  <2>1. Fits([task[w] EXCEPT !.phase = "update"]) /\ Busy(w)
    BY <1>1, <1>5 DEF ClearKeyboard, At, Fits, Task
  <2>2. faults' \in 0 .. MaxFaults
    BY <1>1, <1>5, FaultsTyped DEF ClearKeyboard, TypeOK
  <2>3. buttons' \subseteq Threads BY <1>1, <1>5 DEF ClearKeyboard, TypeOK
  <2>4. QED BY <1>1, <1>5, <2>1, <2>2, <2>3, ToTyped DEF ClearKeyboard, TypeOK, Typed
<1>6. CASE MarkSupportThreadClosed(w)
  <2>1. Fits([task[w] EXCEPT !.phase = "notify"]) /\ Busy(w) /\ task[w].thread \in Threads
    BY <1>1, <1>6 DEF MarkSupportThreadClosed, At, Fits, Task
  <2>2. rows' \in [Threads -> Statuses]
    BY <1>1, <1>6 DEF MarkSupportThreadClosed, TypeOK, Statuses
  <2>3. QED BY <1>1, <1>6, <2>1, <2>2, ToTyped DEF MarkSupportThreadClosed, TypeOK, Typed
<1>7. CASE MarkFails(w)
  <2>1. Fits([task[w] EXCEPT !.phase = "notify"]) /\ Busy(w) /\ task[w].thread \in Threads
    BY <1>1, <1>7 DEF MarkFails, At, Fits, Task
  <2>2. QED BY <1>1, <1>7, <2>1, ToTyped, FaultsTyped DEF MarkFails, TypeOK, Typed
<1>8. CASE DeleteThreadState(w)
  <2>1. task[w].thread \in Threads BY <1>1, <1>8 DEF DeleteThreadState, At, Fits
  <2>2. byThread[task[w].thread] \in SUBSET PromptIds BY <1>1, <2>1 DEF TypeOK
  <2>3. /\ state' \in [Threads -> Statuses] /\ cards' \subseteq Threads
        /\ ClearPrompts(byThread[task[w].thread]) /\ End(w)
    BY <1>1, <1>8, <2>1 DEF DeleteThreadState, TypeOK, Statuses
  <2>4. /\ prompts' \in [PromptIds -> Prompt \cup {NULL}]
        /\ index' \in [Moderators -> PromptIds \cup {NULL}]
        /\ byThread' \in [Threads -> SUBSET PromptIds]
        /\ newest' = newest /\ nextPrompt' = nextPrompt
    BY <1>1, <2>2, <2>3, ClearTyped
  <2>5. QED
    BY <1>1, <1>8, <2>3, <2>4, EndTyped DEF DeleteThreadState, TypeOK, Typed
<1>9. QED BY <1>2, <1>3, <1>4, <1>5, <1>6, <1>7, <1>8 DEF ModeratorStep

\* An update that arrives begins a task that fits its phase.
LEMMA UpdateTyped ==
    ASSUME Typed, NEW w \in Workers, Update(w)
    PROVE  Typed'
<1> USE DEF disk, memory, replies, history, asked
<1>1. TypeOK /\ TasksFit BY DEF Typed
<1>2. ASSUME NEW u \in Users, NEW ph \in {"find", "resolve", "save"}, NEW st \in SupportStatus,
             Begin(w, u, ph, st), blind' \subseteq Users
      PROVE  Typed'
  <2> DEFINE k == [Blank EXCEPT !.user = u, !.phase = ph, !.status = st]
  <2>1. k \in Task /\ Fits(k) BY DEF Blank, Task, Fits
  <2>2. task' = [task EXCEPT ![w] = k] BY <1>2 DEF Begin
  <2>3. doubted' \subseteq Users BY <1>1, <1>2 DEF Begin, TypeOK
  <2> HIDE DEF k
  <2>4. QED BY <1>1, <1>2, <2>1, <2>2, <2>3, TaskTyped DEF Begin, TypeOK, Typed
<1>3. ASSUME NEW u \in Users, Ask(w, u) \/ AskAsClient(w, u) \/ Write(w, u) \/ Leave(w, u)
      PROVE  Typed'
  <2>1. blind' \subseteq Users BY <1>1, <1>3 DEF Ask, AskAsClient, Write, Leave, TypeOK
  <2>2. QED BY <1>2, <1>3, <2>1 DEF Ask, AskAsClient, Write, Leave, SupportStatus
<1>4. ASSUME NEW m \in Moderators, NEW t \in Threads, PressReply(w, m, t)
      PROVE  Typed'
  <2> DEFINE k == [Blank EXCEPT !.moderator = m, !.thread = t, !.phase = "prompt"]
  <2>1. k \in Task /\ Fits(k) BY DEF Blank, Task, Fits, SupportStatus
  <2>2. task' = [task EXCEPT ![w] = k] BY <1>4 DEF PressReply
  <2> HIDE DEF k
  <2>3. QED BY <1>1, <1>4, <2>1, <2>2, TaskTyped DEF PressReply, TypeOK, Typed
<1>5. ASSUME NEW t \in Threads, PressClose(w, t)
      PROVE  Typed'
  <2> DEFINE k == [Blank EXCEPT !.thread = t, !.phase = "keyboard"]
  <2>1. k \in Task /\ Fits(k) BY DEF Blank, Task, Fits, SupportStatus
  <2>2. task' = [task EXCEPT ![w] = k] BY <1>5 DEF PressClose
  <2>3. state' \in [Threads -> Statuses] BY <1>1, <1>5 DEF PressClose, TypeOK, Statuses
  <2> HIDE DEF k
  <2>4. QED BY <1>1, <1>5, <2>1, <2>2, <2>3, TaskTyped DEF PressClose, TypeOK, Typed
<1>6. ASSUME NEW m \in Moderators, NEW p \in PromptIds \cup {NULL},
             NEW c \in Threads \cup {NULL}, Reply(w, m, p, c)
      PROVE  Typed'
  <2> DEFINE q == PromptFor(m, p)
             t == IF q # NULL THEN prompts[q].thread ELSE c
             k == [Blank EXCEPT !.moderator = m, !.thread = t, !.phase = "answer", !.prompt = q]
  <2>1. q \in PromptIds \cup {NULL} /\ (q # NULL => prompts[q] \in Prompt)
    BY <1>1, ConstantsTyped DEF PromptFor, TypeOK
  <2>2. t \in Threads
    BY <1>1, <1>6, <2>1 DEF Reply, TypeOK, Prompt
  <2>3. k \in Task /\ Fits(k) BY <2>1, <2>2 DEF Blank, Task, Fits, SupportStatus
  <2>4. CASE state[t] = "open"
    <3>1. task' = [task EXCEPT ![w] = k] /\ UNCHANGED <<cards, replies>>
      BY <1>6, <2>4 DEF Reply
    <3> HIDE DEF k
    <3>2. QED BY <1>1, <1>6, <2>3, <3>1, TaskTyped DEF Reply, TypeOK, Typed
  <2>5. CASE state[t] # "open"
    <3>1. /\ IF q # NULL THEN ClearPrompts({q}) /\ UNCHANGED cards
             ELSE cards' = cards \ {t} /\ UNCHANGED replies
          /\ UNCHANGED task
      BY <1>6, <2>5 DEF Reply
    <3>2. TasksFit' BY <1>1, <3>1 DEF TasksFit, Busy
    <3> HIDE DEF q
    <3>3. CASE q # NULL
      <4>1. ClearPrompts({q}) /\ UNCHANGED cards /\ {q} \in SUBSET PromptIds
        BY <2>1, <3>1, <3>3
      <4>2. QED BY <1>1, <1>6, <3>1, <3>2, <4>1, ClearTyped DEF Reply, TypeOK, Typed
    <3>4. CASE q = NULL
      BY <1>1, <1>6, <3>1, <3>2, <3>4 DEF Reply, TypeOK, Typed
    <3>5. QED BY <3>3, <3>4
  <2>6. QED BY <2>4, <2>5
<1>7. QED BY <1>3, <1>4, <1>5, <1>6 DEF Update

\* A crash and the restoring of the threads keep the types.
LEMMA ProcessTyped ==
    ASSUME Typed, Crash \/ RestoreSupportThreads
    PROVE  Typed'
<1> USE DEF disk, memory, replies, history, asked
<1>1. TypeOK /\ TasksFit BY DEF Typed
<1>2. CASE Crash
  <2>1. task' \in [Workers -> Task \cup {NULL}] /\ TasksFit'
    BY <1>2 DEF Crash, TasksFit, Busy
  <2>2. /\ prompts' \in [PromptIds -> Prompt \cup {NULL}]
        /\ index' \in [Moderators -> PromptIds \cup {NULL}]
        /\ byThread' \in [Threads -> SUBSET PromptIds]
        /\ newest' \in [Moderators -> PromptIds \cup {NULL}] /\ nextPrompt' = nextPrompt
    BY <1>2 DEF Crash, NoPrompts
  <2>3. doubted' \subseteq Users /\ spoiled' \subseteq Threads /\ faults' \in 0 .. MaxFaults
    BY <1>1, <1>2, FaultsTyped DEF Crash, TypeOK
  <2>4. QED BY <1>1, <1>2, <2>1, <2>2, <2>3 DEF Crash, TypeOK, Typed, Statuses
<1>3. CASE RestoreSupportThreads
  BY <1>1, <1>3 DEF RestoreSupportThreads, TypeOK, Typed, TasksFit, Busy, Statuses
<1>4. QED BY <1>2, <1>3

\* Every step keeps the types.
LEMMA StepTyped == Typed /\ [Next]_vars => Typed'
<1> SUFFICES ASSUME Typed, [Next]_vars PROVE Typed'
  OBVIOUS
<1>1. CASE UNCHANGED vars
  BY <1>1 DEF vars, disk, memory, replies, history, asked, Typed, TypeOK, TasksFit, Busy
<1>2. CASE Next
  BY <1>2, UserStepTyped, ModeratorStepTyped, UpdateTyped, ProcessTyped DEF Next
<1>3. QED BY <1>1, <1>2

\* The types hold at the start.
LEMMA InitTyped == Init => Typed
<1> SUFFICES ASSUME Init PROVE Typed
  OBVIOUS
<1>1. 1 \in 1 .. MaxThreads + 1 /\ 1 \in 1 .. MaxPrompts + 1 /\ 0 \in 0 .. MaxFaults
  BY SupportAssumption
<1>2. /\ rows \in [Threads -> Statuses] /\ owner \in [Threads -> Users \cup {NULL}]
      /\ session \in [Users -> SupportStatus] /\ state \in [Threads -> Statuses]
      /\ prompts \in [PromptIds -> Prompt \cup {NULL}]
      /\ index \in [Moderators -> PromptIds \cup {NULL}]
      /\ newest \in [Moderators -> PromptIds \cup {NULL}]
      /\ byThread \in [Threads -> SUBSET PromptIds]
      /\ task \in [Workers -> Task \cup {NULL}]
  BY DEF Init, Statuses, SupportStatus
<1>3. QED BY <1>1, <1>2 DEF Init, Typed, TypeOK, TasksFit, Busy

\* Every variable of the support keeps its type, whatever fails and interleaves.
THEOREM TypeCorrect == Spec => []TypeOK
<1>1. Typed => TypeOK BY DEF Typed
<1>2. QED BY <1>1, InitTyped, StepTyped, PTL DEF Spec

-----------------------------------------------------------------------------
(* The maps of prompts *)

\* The maps agree, and a prompt's number is below the next one: the number about to be
\* given is nobody's latest.
Shown ==
    /\ PromptsIndexed
    /\ \A p \in PromptIds : prompts[p] # NULL => p < nextPrompt
    /\ \A m \in Moderators : newest[m] # NULL => newest[m] < nextPrompt

\* Registering a prompt keeps the three maps images of each other.
LEMMA ShownRegistered ==
    ASSUME TypeOK, Shown, NEW t \in Threads, NEW m \in Moderators, RegisterPrompt(t, m)
    PROVE  Shown'
<1> DEFINE n == nextPrompt
           r == [thread |-> t, moderator |-> m]
<1>1. /\ n \in PromptIds /\ n \in Nat /\ r \in Prompt /\ r # NULL
      /\ n # NULL /\ nextPrompt' = n + 1
  BY ConstantsTyped DEF RegisterPrompt, Prompt
<1>2. /\ \A p \in PromptIds : prompts'[p] = IF p = n THEN r ELSE prompts[p]
      /\ \A k \in Moderators : index'[k] = IF k = m THEN n ELSE index[k]
      /\ \A k \in Moderators : newest'[k] = IF k = m THEN n ELSE newest[k]
      /\ \A x \in Threads : byThread'[x] = IF x = t THEN byThread[x] \cup {n} ELSE byThread[x]
  BY DEF RegisterPrompt, TypeOK
<1>3. \A p \in PromptIds : p \in Nat BY ConstantsTyped
<1>4. \A k \in Moderators : newest[k] \in PromptIds \cup {NULL} /\ index[k] \in PromptIds \cup {NULL}
  BY DEF TypeOK
<1>5. prompts[n] = NULL BY <1>1, <1>3 DEF Shown
<1>6. r.thread = t /\ r.moderator = m OBVIOUS
<1> HIDE DEF r
<1>7. ASSUME NEW k \in Moderators
      PROVE  /\ index'[k] # NULL =>
                  prompts'[index'[k]] # NULL /\ prompts'[index'[k]].moderator = k
             /\ newest'[k] # NULL /\ prompts'[newest'[k]] # NULL => index'[k] = newest'[k]
             /\ newest'[k] # NULL => newest'[k] < nextPrompt'
  <2>1. CASE k = m
    <3>1. index'[k] = n /\ newest'[k] = n /\ prompts'[n] = r BY <1>1, <1>2, <2>1
    <3>2. n < nextPrompt' BY <1>1
    <3>3. QED BY <1>1, <1>6, <2>1, <3>1, <3>2
  <2>2. CASE k # m
    <3>1. index'[k] = index[k] /\ newest'[k] = newest[k] BY <1>2, <2>2
    <3>2. index[k] # NULL => index[k] \in PromptIds /\ index[k] # n /\ prompts'[index[k]] = prompts[index[k]]
      BY <1>2, <1>4, <1>5 DEF Shown, PromptsIndexed
    <3>3. newest[k] # NULL =>
            newest[k] \in PromptIds /\ newest[k] < n /\ newest[k] \in Nat
      BY <1>3, <1>4 DEF Shown
    <3>4. newest[k] # NULL => newest[k] # n /\ newest[k] < nextPrompt' BY <1>1, <3>3
    <3>5. newest[k] # NULL => prompts'[newest[k]] = prompts[newest[k]] BY <1>2, <3>3, <3>4
    <3>6. /\ index[k] # NULL => prompts[index[k]] # NULL /\ prompts[index[k]].moderator = k
          /\ newest[k] # NULL /\ prompts[newest[k]] # NULL => index[k] = newest[k]
      BY DEF Shown, PromptsIndexed
    <3>7. QED BY <3>1, <3>2, <3>4, <3>5, <3>6
  <2>3. QED BY <2>1, <2>2
<1>8. ASSUME NEW x \in Threads
      PROVE  byThread'[x] = {p \in PromptIds : prompts'[p] # NULL /\ prompts'[p].thread = x}
  <2>1. byThread[x] = {p \in PromptIds : prompts[p] # NULL /\ prompts[p].thread = x}
    BY DEF Shown, PromptsIndexed
  <2>2. CASE x = t
    <3>1. byThread'[x] = byThread[x] \cup {n} BY <1>2, <2>2
    <3>2. \A p \in PromptIds : p # n => prompts'[p] = prompts[p] BY <1>2
    <3>3. prompts'[n] # NULL /\ prompts'[n].thread = x BY <1>1, <1>2, <1>6, <2>2
    <3>4. QED BY <1>1, <2>1, <3>1, <3>2, <3>3
  <2>3. CASE x # t
    <3>1. byThread'[x] = byThread[x] BY <1>2, <2>3
    <3>2. \A p \in PromptIds : p # n => prompts'[p] = prompts[p] BY <1>2
    <3>3. prompts'[n].thread # x BY <1>1, <1>2, <1>6, <2>3
    <3>4. QED BY <1>1, <1>5, <2>1, <3>1, <3>2, <3>3
  <2>4. QED BY <2>2, <2>3
<1>9. \A p \in PromptIds : prompts'[p] # NULL => p < nextPrompt'
  BY <1>1, <1>2, <1>3 DEF Shown
<1>10. QED BY <1>7, <1>8, <1>9 DEF Shown, PromptsIndexed

\* Clearing prompts keeps the three maps images of each other (clearPrompt).
LEMMA ShownCleared ==
    ASSUME TypeOK, Shown, NEW P \in SUBSET PromptIds, ClearPrompts(P)
    PROVE  Shown'
<1>1. /\ \A p \in PromptIds : prompts'[p] = IF p \in P THEN NULL ELSE prompts[p]
      /\ \A k \in Moderators : index'[k] = IF index[k] \in P THEN NULL ELSE index[k]
      /\ \A x \in Threads : byThread'[x] = byThread[x] \ P
      /\ UNCHANGED <<nextPrompt, newest>>
  BY DEF ClearPrompts
<1>2. \A k \in Moderators : newest[k] \in PromptIds \cup {NULL} /\ index[k] \in PromptIds \cup {NULL}
  BY DEF TypeOK
<1>3. \A k \in Moderators : index'[k] # NULL =>
        prompts'[index'[k]] # NULL /\ prompts'[index'[k]].moderator = k
  BY <1>1, <1>2 DEF Shown, PromptsIndexed
<1>4. \A x \in Threads :
        byThread'[x] = {p \in PromptIds : prompts'[p] # NULL /\ prompts'[p].thread = x}
  <2> SUFFICES ASSUME NEW x \in Threads
               PROVE  byThread'[x] = {p \in PromptIds : prompts'[p] # NULL /\ prompts'[p].thread = x}
    OBVIOUS
  <2>1. byThread[x] = {p \in PromptIds : prompts[p] # NULL /\ prompts[p].thread = x}
    BY DEF Shown, PromptsIndexed
  <2>2. QED BY <2>1, <1>1
<1>5. \A k \in Moderators :
        newest'[k] # NULL /\ prompts'[newest'[k]] # NULL => index'[k] = newest'[k]
  BY <1>1, <1>2 DEF Shown, PromptsIndexed
<1>6. QED BY <1>1, <1>3, <1>4, <1>5 DEF Shown, PromptsIndexed

\* A step that touches no map keeps them images of each other.
LEMMA ShownKept == ASSUME Shown, UNCHANGED replies PROVE Shown'
  BY DEF Shown, PromptsIndexed, replies

\* Every step keeps the maps images of each other.
LEMMA StepShown == Typed /\ Shown /\ [Next]_vars => Shown'
<1> SUFFICES ASSUME Typed, Shown, [Next]_vars PROVE Shown'
  OBVIOUS
<1>1. TypeOK /\ TasksFit BY DEF Typed
<1>2. ASSUME NEW w \in Workers, UserStep(w) PROVE Shown'
  <2>1. UNCHANGED replies
    BY <1>2 DEF UserStep, FindOpenSupportThread, FindFails, Resolve, ResolveFails, Resolved,
                Copy, CopyFails, Insert, InsertFails, Save, SaveFails
  <2>2. QED BY <2>1, ShownKept
<1>3. ASSUME NEW w \in Workers, ModeratorStep(w) PROVE Shown'
  <2>1. CASE PromptSent(w)
    BY <1>1, <2>1, ShownRegistered DEF PromptSent, At, TasksFit, Fits
  <2>2. CASE Answered(w)
    <3>1. task[w].prompt \in PromptIds \cup {NULL} BY <1>1, <2>2 DEF Answered, At, Busy, TypeOK, Task
    <3>2. CASE task[w].prompt = NULL BY <2>2, <3>2, ShownKept DEF Answered
    <3>3. CASE task[w].prompt # NULL
      <4>1. ClearPrompts({task[w].prompt}) /\ {task[w].prompt} \in SUBSET PromptIds
        BY <2>2, <3>1, <3>3 DEF Answered
      <4>2. QED BY <1>1, <4>1, ShownCleared
    <3>4. QED BY <3>2, <3>3
  <2>3. CASE DeleteThreadState(w)
    <3>1. task[w].thread \in Threads BY <1>1, <2>3 DEF DeleteThreadState, At, TasksFit, Fits
    <3>2. byThread[task[w].thread] \in SUBSET PromptIds BY <1>1, <3>1 DEF TypeOK
    <3>3. ClearPrompts(byThread[task[w].thread]) BY <2>3 DEF DeleteThreadState
    <3>4. QED BY <1>1, <3>2, <3>3, ShownCleared
  <2>4. CASE \/ PromptFails(w) \/ ClearKeyboard(w) \/ MarkSupportThreadClosed(w) \/ MarkFails(w)
    <3>1. UNCHANGED replies
      BY <2>4 DEF PromptFails, ClearKeyboard, MarkSupportThreadClosed, MarkFails, memory
    <3>2. QED BY <3>1, ShownKept
  <2>5. QED BY <1>3, <2>1, <2>2, <2>3, <2>4 DEF ModeratorStep
<1>4. ASSUME NEW w \in Workers, Update(w) PROVE Shown'
  <2>1. ASSUME NEW m \in Moderators, NEW p \in PromptIds \cup {NULL},
               NEW c \in Threads \cup {NULL}, Reply(w, m, p, c)
        PROVE  Shown'
    <3> DEFINE q == PromptFor(m, p)
    <3>1. q \in PromptIds \cup {NULL} BY <1>1 DEF PromptFor, TypeOK
    <3>2. UNCHANGED replies \/ (q # NULL /\ ClearPrompts({q})) BY <2>1 DEF Reply
    <3> HIDE DEF q
    <3>3. CASE q # NULL /\ ClearPrompts({q})
      <4>1. {q} \in SUBSET PromptIds BY <3>1, <3>3
      <4>2. QED BY <1>1, <3>3, <4>1, ShownCleared
    <3>4. QED BY <3>2, <3>3, ShownKept
  <2>2. ASSUME NEW u \in Users, Ask(w, u) \/ AskAsClient(w, u) \/ Write(w, u) \/ Leave(w, u)
        PROVE  Shown'
    BY <2>2, ShownKept DEF Ask, AskAsClient, Write, Leave, Begin
  <2>3. ASSUME NEW m \in Moderators, NEW t \in Threads, PressReply(w, m, t) PROVE Shown'
    BY <2>3, ShownKept DEF PressReply
  <2>4. ASSUME NEW t \in Threads, PressClose(w, t) PROVE Shown'
    BY <2>4, ShownKept DEF PressClose
  <2>5. QED BY <1>4, <2>1, <2>2, <2>3, <2>4 DEF Update
<1>5. CASE Crash
  BY <1>5 DEF Crash, NoPrompts, Shown, PromptsIndexed
<1>6. CASE RestoreSupportThreads
  BY <1>6, ShownKept DEF RestoreSupportThreads
<1>7. CASE UNCHANGED vars BY <1>7, ShownKept DEF vars
<1>8. QED BY <1>2, <1>3, <1>4, <1>5, <1>6, <1>7 DEF Next

\* A moderator's entry and a request's entries name exactly pending prompts of theirs,
\* in whatever order prompts are shown, answered and dropped with their request.
THEOREM PromptsIndexedHolds == Spec => []PromptsIndexed
<1>1. Init => Shown BY DEF Init, Shown, PromptsIndexed
<1>2. Shown => PromptsIndexed BY DEF Shown
<1>3. QED BY <1>1, <1>2, InitTyped, StepTyped, StepShown, PTL DEF Spec

-----------------------------------------------------------------------------
(* Requests *)

Closing(w) == Busy(w) /\ task[w].phase \in {"keyboard", "update", "notify"}
Sending(w) == Busy(w) /\ task[w].phase \in {"copy", "insert"}

\* A process that died remembers nothing.
Stopped ==
    ~running => /\ \A w \in Workers : task[w] = NULL
                /\ \A t \in Threads : state[t] = "none"
                /\ \A t \in Threads \ spoiled : rows[t] # "open"

\* One handler at a time closes a request, and one sends it, under a number of its own.
OneHandler ==
    /\ \A w \in Workers : Closing(w) => state[task[w].thread] = "closed"
    /\ \A v, w \in Workers : Closing(v) /\ Closing(w) /\ task[v].thread = task[w].thread => v = w
    /\ \A v, w \in Workers : Sending(v) /\ Sending(w) /\ task[v].thread = task[w].thread => v = w
    /\ \A w \in Workers : Sending(w) => task[w].thread < nextThread

\* Where a request stands before it is sent and before it has a row.
NotYet ==
    /\ \A w \in Workers : At(w, "copy") => state[task[w].thread] = "none"
    /\ \A w \in Workers : Sending(w) =>
         rows[task[w].thread] = "none" /\ owner[task[w].thread] = task[w].user
    /\ \A t \in Threads : t >= nextThread => rows[t] = "none" /\ state[t] = "none"

\* What the moderators see of an open request that nothing spoiled.
OpenShown ==
    running => \A t \in Threads \ spoiled : state[t] = "open" => t \in cards /\ t \in buttons

\* What handler k of user u may rely on, `open` being u's open requests, B the users whose
\* dialogue began without a search and U the requests made in such dialogues.
Known(k, u, open, B, U) ==
    /\ u \notin B /\ k.phase \in {"resolve", "copy", "insert"} => open = {}
    /\ u \notin B /\ k.phase = "save" /\ k.status = "awaiting_message" => open = {}
    /\ k.phase \in {"copy", "insert"} => /\ u \in B => k.thread \in U
                                         /\ \A t \in open : t < k.thread

\* Of two open requests the later is one of U.
InOrder(open, U) == \A t1, t2 \in open : t1 < t2 => t2 \in U

\* The search, the row and the dialogue of a user who met no trouble.
OneDialogue ==
    \A u \in Users \ doubted :
      /\ \A v, w \in Workers :
           Busy(v) /\ Busy(w) /\ task[v].user = u /\ task[w].user = u => v = w
      /\ session[u] = "awaiting_message" /\ u \notin blind
           /\ (\A w \in Workers : Busy(w) => task[w].user # u) => OpenOf(u) = {}
      /\ \A w \in Workers : Busy(w) /\ task[w].user = u =>
           Known(task[w], u, OpenOf(u), blind, unsearched)
      /\ InOrder(OpenOf(u), unsearched)

Requests ==
    /\ Stopped /\ OneHandler /\ NotYet /\ OpenShown
    /\ ClosedIsForgotten /\ OpenRowsAnswerable

\* A handler goes on, begins or ends without touching a request: it does not close one,
\* and does not take one on.
LEMMA QuietStep ==
    ASSUME Typed, Requests, running, NEW w \in Workers, NEW k,
           task' = [task EXCEPT ![w] = k],
           k = NULL \/ k.phase \notin {"copy", "insert", "keyboard", "update", "notify"},
           ~Closing(w),
           At(w, "insert") => task[w].thread \in spoiled',
           spoiled \subseteq spoiled', late \subseteq late',
           UNCHANGED <<rows, owner, state, buttons, nextThread, running>>,
           cards' \subseteq cards,
           \A t \in Threads : state[t] = "open" /\ t \in cards => t \in cards',
           \A t \in Threads \ late' : state[t] = "none" => byThread'[t] \subseteq byThread[t]
    PROVE  Requests'
<1>1. \A v \in Workers : task'[v] = IF v = w THEN k ELSE task[v]
  BY DEF Typed, TypeOK
<1>2. ~Closing(w)' /\ ~Sending(w)' /\ ~At(w, "copy")'
  BY <1>1 DEF Closing, Sending, At, Busy
<1>3. \A v \in Workers : v # w => /\ Closing(v)' <=> Closing(v)
                                  /\ Sending(v)' <=> Sending(v)
                                  /\ At(v, "copy")' <=> At(v, "copy")
                                  /\ At(v, "insert")' <=> At(v, "insert")
                                  /\ task'[v] = task[v]
  BY <1>1 DEF Closing, Sending, At, Busy
<1>4. Stopped' BY DEF Stopped
<1>5. OneHandler' BY <1>2, <1>3 DEF Requests, OneHandler
<1>6. NotYet' BY <1>2, <1>3 DEF Requests, NotYet
<1>7. OpenShown' BY DEF Requests, OpenShown
<1>8. ClosedIsForgotten'
  <2>1. \A t \in Threads : state'[t] = "closed" => \E v \in Workers :
          Busy(v)' /\ task'[v].thread = t /\ task'[v].phase \in {"keyboard", "update", "notify"}
    BY <1>1 DEF Requests, ClosedIsForgotten, Closing, Busy
  <2>2. \A t \in Threads \ late' : state'[t] = "none" => t \notin cards' /\ byThread'[t] = {}
    BY DEF Requests, ClosedIsForgotten
  <2>3. QED BY <2>1, <2>2 DEF ClosedIsForgotten
<1>9. OpenRowsAnswerable'
  <2>1. \A v \in Workers, t \in Threads : Closes(v, t) => Closes(v, t)'
    BY <1>1 DEF Closes, Closing, Busy
  <2>2. \A v \in Workers, t \in Threads :
          t \notin spoiled' /\ At(v, "insert") /\ task[v].thread = t => At(v, "insert")' /\ task'[v].thread = t
    BY <1>1, <1>3
  <2>3. QED BY <2>1, <2>2 DEF Requests, OpenRowsAnswerable
<1>10. QED BY <1>4, <1>5, <1>6, <1>7, <1>8, <1>9 DEF Requests

\* A busy worker has a task that fits its phase.
LEMMA TaskIs ==
    ASSUME Typed, NEW w \in Workers, Busy(w)
    PROVE  task[w] \in Task /\ Fits(task[w]) /\ task \in [Workers -> Task \cup {NULL}]
  BY DEF Typed, TypeOK, TasksFit, Busy

\* A failed search, a copy or a statement that fails, and the saving of the session.
LEMMA UserQuiet ==
    ASSUME Typed, Requests, NEW w \in Workers,
           \/ FindOpenSupportThread(w) \/ FindFails(w) \/ CopyFails(w)
           \/ InsertFails(w) \/ Save(w) \/ SaveFails(w)
    PROVE  Requests'
<1> DEFINE k == task'[w]
<1>1. /\ Busy(w) /\ task[w].phase \in {"find", "copy", "insert", "save"} /\ task[w] \in Task
      /\ task \in [Workers -> Task \cup {NULL}]
  BY TaskIs DEF FindOpenSupportThread, FindFails, CopyFails, InsertFails, Save, SaveFails, At
<1>2. running BY <1>1 DEF Requests, Stopped, Busy
<1>3. task' = [task EXCEPT ![w] = k] /\ (k = NULL \/ k.phase = "save")
  BY <1>1 DEF FindOpenSupportThread, FindFails, CopyFails, InsertFails, Save, SaveFails, To, End, Task
<1>4. ~Closing(w) BY <1>1 DEF Closing
<1>5. /\ At(w, "insert") => task[w].thread \in spoiled'
      /\ spoiled \subseteq spoiled' /\ late \subseteq late'
      /\ UNCHANGED <<rows, owner, state, buttons, nextThread, running, cards, byThread>>
  BY <1>1 DEF FindOpenSupportThread, FindFails, CopyFails, InsertFails, Save, SaveFails, At,
              disk, memory, replies, history
<1> HIDE DEF k
<1>6. QED BY <1>2, <1>3, <1>4, <1>5, QuietStep

\* The request gets its number.
LEMMA ResolvedRequests ==
    ASSUME Typed, Requests, NEW w \in Workers, NEW chat \in BOOLEAN, Resolved(w, chat)
    PROVE  Requests'
<1> USE DEF disk, memory, replies, history, asked
<1>1. /\ Busy(w) /\ task[w].phase = "resolve" /\ task[w] \in Task /\ task[w].user \in Users
      /\ task \in [Workers -> Task \cup {NULL}]
      /\ UNCHANGED <<rows, buttons, state, cards, byThread, running, late, spoiled>>
  BY TaskIs DEF Resolved, At, Fits
<1>2. running BY <1>1 DEF Requests, Stopped, Busy
<1>3. ~Closing(w) /\ ~Sending(w) /\ ~At(w, "insert") BY <1>1 DEF Closing, Sending, At
<1>4. CASE ~lastKnown'
  <2> DEFINE k == [task[w] EXCEPT !.phase = "save", !.status = "idle"]
  <2>1. task' = [task EXCEPT ![w] = k] /\ k.phase = "save" /\ UNCHANGED <<nextThread, owner>>
    BY <1>1, <1>4 DEF Resolved, Task
  <2> HIDE DEF k
  <2>2. QED BY <1>1, <1>2, <1>3, <2>1, QuietStep
<1>5. CASE lastKnown'
  <2> DEFINE n == nextThread
             k == [task[w] EXCEPT !.phase = "copy", !.thread = n]
  <2>1. /\ task' = [task EXCEPT ![w] = k] /\ k \in Task /\ k # NULL
        /\ k.phase = "copy" /\ k.thread = n /\ k.user = task[w].user
        /\ n \in Threads /\ n \in Nat /\ nextThread' = n + 1
        /\ owner' = [owner EXCEPT ![n] = task[w].user]
    <3>1. k.thread = n /\ k.phase = "copy" /\ k.user = task[w].user BY <1>1 DEF Task
    <3>2. n \in Threads /\ n \in Nat /\ n # NULL
      BY <1>5, ConstantsTyped DEF Resolved
    <3>3. k \in Task BY <1>1, <3>2 DEF Task
    <3>4. QED BY <1>1, <1>5, <3>1, <3>2, <3>3, ConstantsTyped DEF Resolved
  <2>2. owner \in [Threads -> Users \cup {NULL}] /\ Threads \subseteq Nat
    BY SupportAssumption DEF Typed, TypeOK, Threads
  <2> HIDE DEF k
  <2>3. \A v \in Workers : task'[v] = IF v = w THEN k ELSE task[v]
    BY <1>1, <2>1
  <2>4. k # NULL => /\ Sending(w)' /\ At(w, "copy")' /\ ~Closing(w)'
    BY <2>1, <2>3 DEF Sending, At, Closing, Busy
  <2>5. \A v \in Workers : v # w => /\ Closing(v)' <=> Closing(v)
                                    /\ Sending(v)' <=> Sending(v)
                                    /\ At(v, "copy")' <=> At(v, "copy")
                                    /\ At(v, "insert")' <=> At(v, "insert")
                                    /\ task'[v] = task[v]
    BY <2>3 DEF Closing, Sending, At, Busy
  <2>6. \A v \in Workers : Sending(v) =>
          task[v].thread \in Threads /\ task[v].thread \in Nat /\ task[v].thread < n
    BY <2>2 DEF Sending, Typed, TasksFit, Fits, Requests, OneHandler
  <2>7. Stopped' BY <1>1, <1>2 DEF Stopped
  <2>8. OneHandler'
    <3>1. \A v \in Workers : Closing(v)' => state'[task'[v].thread] = "closed"
      BY <1>1, <2>1, <2>4, <2>5 DEF Requests, OneHandler
    <3>2. \A v, x \in Workers :
            Closing(v)' /\ Closing(x)' /\ task'[v].thread = task'[x].thread => v = x
      BY <2>1, <2>4, <2>5 DEF Requests, OneHandler
    <3>3. \A v \in Workers : Sending(v)' => task'[v].thread < nextThread'
      BY <2>1, <2>3, <2>5, <2>6
    <3>4. \A v \in Workers : v # w /\ Sending(v)' => task'[v].thread # task'[w].thread
      BY <2>1, <2>3, <2>5, <2>6
    <3>5. \A v, x \in Workers :
            Sending(v)' /\ Sending(x)' /\ task'[v].thread = task'[x].thread => v = x
      BY <2>5, <3>4 DEF Requests, OneHandler
    <3>6. QED BY <3>1, <3>2, <3>3, <3>5 DEF OneHandler
  <2>9. NotYet'
    <3>1. n >= nextThread BY <2>1
    <3>2. rows[n] = "none" /\ state[n] = "none" BY <2>1, <3>1 DEF Requests, NotYet
    <3>3. \A v \in Workers : At(v, "copy")' => state'[task'[v].thread] = "none"
      BY <1>1, <2>1, <2>3, <2>5, <3>2 DEF Requests, NotYet
    <3>4. \A v \in Workers : Sending(v)' =>
            rows'[task'[v].thread] = "none" /\ owner'[task'[v].thread] = task'[v].user
      <4> SUFFICES ASSUME NEW v \in Workers, Sending(v)'
                   PROVE  rows'[task'[v].thread] = "none" /\ owner'[task'[v].thread] = task'[v].user
        OBVIOUS
      <4>1. CASE v = w BY <1>1, <2>1, <2>2, <2>3, <3>2, <4>1
      <4>2. CASE v # w
        <5>1. Sending(v) /\ task'[v] = task[v] BY <2>5, <4>2
        <5>2. task[v].thread \in Threads /\ task[v].thread # n BY <2>1, <2>6, <5>1
        <5>3. owner'[task[v].thread] = owner[task[v].thread] BY <2>1, <2>2, <5>2
        <5>4. QED BY <1>1, <5>1, <5>3 DEF Requests, NotYet
      <4>3. QED BY <4>1, <4>2
    <3>5. \A t \in Threads : t >= nextThread' => rows'[t] = "none" /\ state'[t] = "none"
      BY <1>1, <2>1, <2>2 DEF Requests, NotYet
    <3>6. QED BY <3>3, <3>4, <3>5 DEF NotYet
  <2>10. OpenShown' BY <1>1 DEF Requests, OpenShown
  <2>11. ClosedIsForgotten'
    <3>1. \A v \in Workers : v = w => ~Closing(v) BY <1>3
    <3>2. \A t \in Threads : state[t] = "closed" =>
            \E v \in Workers : Closing(v) /\ task[v].thread = t
      BY DEF Requests, ClosedIsForgotten, Closing
    <3>3. \A t \in Threads : state'[t] = "closed" =>
            \E v \in Workers : Closing(v)' /\ task'[v].thread = t
      BY <1>1, <2>5, <3>1, <3>2
    <3>4. QED BY <1>1, <3>3 DEF Requests, ClosedIsForgotten, Closing
  <2>12. OpenRowsAnswerable'
    <3>1. \A v \in Workers, t \in Threads : Closes(v, t) => Closes(v, t)'
      BY <1>3, <2>3 DEF Closes, Closing, Busy
    <3>2. \A v \in Workers, t \in Threads :
            At(v, "insert") /\ task[v].thread = t => At(v, "insert")' /\ task'[v].thread = t
      BY <1>3, <2>5
    <3>3. QED BY <1>1, <3>1, <3>2 DEF Requests, OpenRowsAnswerable
  <2>13. QED BY <2>7, <2>8, <2>9, <2>10, <2>11, <2>12 DEF Requests
<1>6. QED BY <1>4, <1>5

\* A handler moves on with its request: what the others do to theirs does not change.
LEMMA Moves ==
    ASSUME Typed, NEW w \in Workers, Busy(w), NEW ph, To(w, ph)
    PROVE  /\ \A v \in Workers : v # w => task'[v] = task[v]
           /\ task'[w].phase = ph /\ task'[w].thread = task[w].thread
           /\ task'[w].user = task[w].user
           /\ ph \in {"save", "insert", "update", "notify"} => task'[w] # NULL
<1>1. task[w] \in Task /\ task \in [Workers -> Task \cup {NULL}] BY TaskIs
<1>2. task'[w] = [task[w] EXCEPT !.phase = ph] BY <1>1 DEF To
<1>3. ph \in {"save", "insert", "update", "notify"} => task'[w] \in Task BY <1>1, <1>2 DEF Task
<1>4. QED BY <1>1, <1>2, <1>3, ConstantsTyped DEF To, Task

\* The message copied to the channel makes the request known to this process
\* (forwardSupportMessage).
LEMMA CopyRequests ==
    ASSUME Typed, Requests, NEW w \in Workers, Copy(w)
    PROVE  Requests'
<1> USE DEF disk, memory, replies, history, asked
<1> DEFINE t == task[w].thread
<1>1. /\ Busy(w) /\ task[w].phase = "copy" /\ t \in Threads /\ t \in Nat
      /\ buttons' = buttons \cup {t} /\ cards' = cards \cup {t}
      /\ state' = [state EXCEPT ![t] = "open"] /\ state \in [Threads -> Statuses]
      /\ UNCHANGED <<rows, owner, byThread, nextThread, running, late, spoiled>>
  BY TaskIs, ConstantsTyped DEF Copy, At, Fits, Typed, TypeOK
<1>2. /\ \A v \in Workers : v # w => task'[v] = task[v]
      /\ task'[w].phase = "insert" /\ task'[w].thread = t /\ task'[w].user = task[w].user
      /\ task'[w] # NULL
  BY <1>1, Moves DEF Copy
<1>3. /\ state[t] = "none" /\ t < nextThread /\ running
      /\ \A x \in Threads : state'[x] = IF x = t THEN "open" ELSE state[x]
  BY <1>1 DEF Requests, NotYet, OneHandler, Stopped, At, Sending, Busy
<1> HIDE DEF t
<1>4. \A v \in Workers : v # w => /\ Closing(v)' <=> Closing(v)
                                  /\ Sending(v)' <=> Sending(v)
                                  /\ At(v, "copy")' <=> At(v, "copy")
                                  /\ At(v, "insert")' <=> At(v, "insert")
                                  /\ Sending(v) => task[v].thread # t
                                  /\ Closing(v) => task[v].thread # t
                                  /\ At(v, "copy") => task[v].thread # t
                                  /\ At(v, "insert") => task[v].thread # t
  BY <1>1, <1>2, <1>3 DEF Requests, OneHandler, Closing, Sending, At, Busy, t
<1>5. Sending(w) /\ Sending(w)' /\ ~Closing(w) /\ ~Closing(w)' /\ ~At(w, "copy")' /\ At(w, "insert")'
      /\ ~At(w, "insert")
  BY <1>1, <1>2 DEF Closing, Sending, At, Busy
<1>6. \A v \in Workers : Closing(v) \/ Sending(v) \/ At(v, "copy") \/ At(v, "insert") =>
        task[v].thread \in Threads
  BY DEF Closing, Sending, At, Typed, TasksFit, Fits
<1>7. Stopped' BY <1>1, <1>3 DEF Stopped
<1>8. OneHandler'
  BY <1>1, <1>2, <1>3, <1>4, <1>5, <1>6 DEF Requests, OneHandler, t
<1>9. NotYet'
  <2>1. \A v \in Workers : At(v, "copy")' => state'[task'[v].thread] = "none"
    BY <1>2, <1>3, <1>4, <1>5, <1>6 DEF Requests, NotYet
  <2>2. \A v \in Workers : Sending(v)' =>
          rows'[task'[v].thread] = "none" /\ owner'[task'[v].thread] = task'[v].user
    BY <1>1, <1>2, <1>4, <1>5 DEF Requests, NotYet, t
  <2>3. \A x \in Threads : x >= nextThread' => rows'[x] = "none" /\ state'[x] = "none"
    <3>1. \A x \in Threads : x >= nextThread => x # t BY <1>1, <1>3 DEF Typed, TypeOK
    <3>2. QED BY <1>1, <1>3, <3>1 DEF Requests, NotYet
  <2>4. QED BY <2>1, <2>2, <2>3 DEF NotYet
<1>10. OpenShown' BY <1>1, <1>3 DEF Requests, OpenShown
<1>11. ClosedIsForgotten'
  <2>1. \A x \in Threads : state[x] = "closed" =>
          \E v \in Workers : Closing(v) /\ task[v].thread = x
    BY DEF Requests, ClosedIsForgotten, Closing
  <2>2. \A x \in Threads : state'[x] = "closed" =>
          \E v \in Workers : Closing(v)' /\ task'[v].thread = x
    BY <1>2, <1>3, <1>4, <1>5, <2>1
  <2>3. \A x \in Threads \ late' : state'[x] = "none" => x \notin cards' /\ byThread'[x] = {}
    BY <1>1, <1>3 DEF Requests, ClosedIsForgotten
  <2>4. QED BY <2>2, <2>3 DEF ClosedIsForgotten, Closing
<1>12. OpenRowsAnswerable'
  <2>1. \A v \in Workers, x \in Threads : Closes(v, x) => Closes(v, x)'
    BY <1>1, <1>2 DEF Closes, Busy
  <2>2. \A v \in Workers, x \in Threads :
          At(v, "insert") /\ task[v].thread = x => At(v, "insert")' /\ task'[v].thread = x
    BY <1>2, <1>4, <1>5
  <2>3. At(w, "insert")' /\ task'[w].thread = t BY <1>2, <1>5
  <2>4. rows[t] = "none" BY <1>5 DEF Requests, NotYet, t
  <2>5. QED BY <1>1, <1>3, <2>1, <2>2, <2>3, <2>4 DEF Requests, OpenRowsAnswerable
<1>13. QED BY <1>7, <1>8, <1>9, <1>10, <1>11, <1>12 DEF Requests

\* The row inserted is the request's only one.
LEMMA InsertRequests ==
    ASSUME Typed, Requests, NEW w \in Workers, Insert(w)
    PROVE  Requests'
<1> USE DEF disk, memory, replies, history, asked
<1> DEFINE t == task[w].thread
           k == [task[w] EXCEPT !.phase = "save", !.status = "idle"]
<1>1. /\ Busy(w) /\ task[w].phase = "insert" /\ t \in Threads /\ t \in Nat
      /\ task[w] \in Task /\ task \in [Workers -> Task \cup {NULL}]
      /\ rows' = [rows EXCEPT ![t] = "open"] /\ rows \in [Threads -> Statuses]
      /\ spoiled' = IF state[t] = "open" \/ \E v \in Workers : Closes(v, t)
                    THEN spoiled ELSE spoiled \cup {t}
      /\ UNCHANGED <<owner, buttons, state, cards, byThread, nextThread, running, late>>
  BY TaskIs, ConstantsTyped DEF Insert, At, Fits, Typed, TypeOK
<1>2. task' = [task EXCEPT ![w] = k] /\ k.phase = "save" BY <1>1 DEF Insert, Task
<1> HIDE DEF k
<1>3. \A v \in Workers : task'[v] = IF v = w THEN k ELSE task[v] BY <1>1, <1>2
<1>4. /\ t < nextThread /\ running
      /\ \A x \in Threads : rows'[x] = IF x = t THEN "open" ELSE rows[x]
  BY <1>1 DEF Requests, OneHandler, Stopped, Sending, Busy
<1>5. \A v \in Workers : v # w => /\ task'[v] = task[v]
                                  /\ Closing(v)' <=> Closing(v)
                                  /\ Sending(v)' <=> Sending(v)
                                  /\ At(v, "copy")' <=> At(v, "copy")
                                  /\ At(v, "insert")' <=> At(v, "insert")
                                  /\ Sending(v) => task[v].thread # t /\ task[v].thread \in Threads
  BY <1>1, <1>3 DEF Requests, OneHandler, Closing, Sending, At, Busy, Typed, TasksFit, Fits
<1>6. ~Closing(w) /\ ~Closing(w)' /\ ~Sending(w)' /\ ~At(w, "copy")'
  BY <1>1, <1>2, <1>3 DEF Closing, Sending, At, Busy
<1>7. Stopped' BY <1>1, <1>4 DEF Stopped
<1>8. OneHandler' BY <1>1, <1>5, <1>6 DEF Requests, OneHandler
<1>9. NotYet'
  <2>1. \A x \in Threads : x >= nextThread => x # t BY <1>1, <1>4 DEF Typed, TypeOK
  <2>2. QED BY <1>1, <1>4, <1>5, <1>6, <2>1 DEF Requests, NotYet
<1>10. OpenShown' BY <1>1 DEF Requests, OpenShown
<1>11. ClosedIsForgotten'
  <2>1. \A x \in Threads : state[x] = "closed" =>
          \E v \in Workers : Closing(v) /\ task[v].thread = x
    BY DEF Requests, ClosedIsForgotten, Closing
  <2>2. \A x \in Threads : state'[x] = "closed" =>
          \E v \in Workers : Closing(v)' /\ task'[v].thread = x
    BY <1>1, <1>5, <1>6, <2>1
  <2>3. QED BY <1>1, <2>2 DEF Requests, ClosedIsForgotten, Closing
<1>12. OpenRowsAnswerable'
  <2>1. \A v \in Workers, x \in Threads : Closes(v, x) => Closes(v, x)'
    BY <1>1, <1>3 DEF Closes, Busy
  <2>2. \A v \in Workers, x \in Threads : x # t /\ At(v, "insert") /\ task[v].thread = x =>
          At(v, "insert")' /\ task'[v].thread = x
    BY <1>5
  <2>3. t \notin spoiled' => \/ state[t] = "open" /\ t \in cards /\ t \in buttons
                             \/ \E v \in Workers : Closes(v, t)
    BY <1>1, <1>4 DEF Requests, OpenShown
  <2>4. QED BY <1>1, <1>4, <2>1, <2>2, <2>3 DEF Requests, OpenRowsAnswerable
<1>13. QED BY <1>7, <1>8, <1>9, <1>10, <1>11, <1>12 DEF Requests

\* No row but that of t changes, and that one from open to closed.
OnlyCloses(t) ==
    \A x \in Threads : rows'[x] = rows[x] \/ (x = t /\ rows[x] = "open" /\ rows'[x] = "closed")

\* A closing goes on: it takes the buttons, and closes the row or leaves it spoiled.
LEMMA ClosingStep ==
    ASSUME Typed, Requests, NEW w \in Workers, Closing(w), NEW k \in Task,
           k.phase \in {"update", "notify"}, k.thread = task[w].thread,
           task' = [task EXCEPT ![w] = k],
           UNCHANGED <<owner, state, cards, byThread, nextThread, running, late>>,
           buttons \ {task[w].thread} \subseteq buttons', spoiled \subseteq spoiled',
           OnlyCloses(task[w].thread),
           k.phase = "notify" => rows'[task[w].thread] # "open" \/ task[w].thread \in spoiled'
    PROVE  Requests'
<1>0. PICK t \in Threads : t = task[w].thread
  BY DEF Closing, Busy, Typed, TasksFit, Fits
<1>1. Busy(w) /\ t \in Threads /\ state[t] = "closed" /\ running
  BY <1>0 DEF Closing, Busy, Requests, OneHandler, Stopped
<1>2. /\ \A v \in Workers : v # w => task'[v] = task[v]
      /\ task'[w].phase = k.phase /\ task'[w].thread = t /\ task'[w] # NULL
  BY <1>0, <1>1, ConstantsTyped DEF Typed, TypeOK
<1>3. \A v \in Workers : /\ Closing(v)' <=> Closing(v)
                         /\ Sending(v)' <=> Sending(v)
                         /\ At(v, "copy")' <=> At(v, "copy")
                         /\ At(v, "insert")' <=> At(v, "insert")
                         /\ task'[v].thread = task[v].thread
                         /\ Sending(v) => task'[v] = task[v] /\ task[v].thread \in Threads
                         /\ Closing(v) /\ v # w => task[v].thread # t
  BY <1>0, <1>1, <1>2 DEF Closing, Sending, At, Busy, Typed, TasksFit, Fits, Requests, OneHandler
<1>4. Stopped' BY <1>1 DEF Stopped
<1>5. OneHandler' BY <1>3 DEF Requests, OneHandler
<1>6. NotYet' BY <1>3 DEF Requests, NotYet, OnlyCloses
<1>7. OpenShown' BY <1>0, <1>1 DEF Requests, OpenShown
<1>8. ClosedIsForgotten'
  <2>1. \A x \in Threads : state[x] = "closed" =>
          \E v \in Workers : Closing(v) /\ task[v].thread = x
    BY DEF Requests, ClosedIsForgotten, Closing
  <2>2. \A x \in Threads : state'[x] = "closed" =>
          \E v \in Workers : Closing(v)' /\ task'[v].thread = x
    BY <1>3, <2>1
  <2>3. QED BY <2>2 DEF Requests, ClosedIsForgotten, Closing
<1>9. OpenRowsAnswerable'
  <2>1. \A v \in Workers, x \in Threads : x # t /\ Closes(v, x) => Closes(v, x)'
    BY <1>0, <1>1, <1>2 DEF Closes, Busy
  <2>2. \A v \in Workers, x \in Threads : At(v, "insert") /\ task[v].thread = x =>
          At(v, "insert")' /\ task'[v].thread = x
    BY <1>3
  <2>3. k.phase = "update" => Closes(w, t)' BY <1>2 DEF Closes, Busy
  <2>4. k.phase = "notify" => rows'[t] # "open" \/ t \in spoiled' BY <1>0
  <2>5. \A x \in Threads : rows'[x] = "open" => rows[x] = "open" BY DEF OnlyCloses
  <2>6. \A x \in Threads : x # t /\ x \in buttons => x \in buttons' BY <1>0
  <2>7. \A x \in Threads \ spoiled' :
          rows'[x] = "open" => \/ state'[x] = "open" /\ x \in cards' /\ x \in buttons'
                               \/ \E v \in Workers : Closes(v, x)'
    BY <1>1, <2>1, <2>3, <2>4, <2>5, <2>6 DEF Requests, OpenRowsAnswerable
  <2>8. \A x \in Threads : x # t => rows'[x] = rows[x] BY <1>0 DEF OnlyCloses
  <2>9. QED BY <1>1, <2>2, <2>7, <2>8 DEF Requests, OpenRowsAnswerable
<1>10. QED BY <1>4, <1>5, <1>6, <1>7, <1>8, <1>9 DEF Requests

\* Dropping prompts takes entries from requests, never adds one.
LEMMA ClearShrinks ==
    ASSUME Typed, NEW P \in SUBSET PromptIds, ClearPrompts(P)
    PROVE  \A t \in Threads : byThread'[t] \subseteq byThread[t]
  BY DEF ClearPrompts

\* The request leaves the memory with all its entries.
LEMMA DeletedRequests ==
    ASSUME Typed, Requests, NEW w \in Workers, DeleteThreadState(w)
    PROVE  Requests'
<1> USE DEF disk, memory, replies, history, asked
<1>1. PICK t \in Threads : t = task[w].thread
  BY DEF DeleteThreadState, At, Typed, TasksFit, Fits
<1>2. /\ Busy(w) /\ task[w].phase = "notify" /\ End(w)
      /\ state' = [state EXCEPT ![t] = "none"] /\ cards' = cards \ {t}
      /\ ClearPrompts(byThread[t])
      /\ UNCHANGED <<rows, owner, buttons, nextThread, running, late, spoiled>>
  BY <1>1 DEF DeleteThreadState, At
<1>3. /\ running /\ state[t] = "closed"
      /\ \A x \in Threads : state'[x] = IF x = t THEN "none" ELSE state[x]
  BY <1>1, <1>2 DEF Requests, Stopped, OneHandler, Busy, Closing, Typed, TypeOK
<1>4. \A v \in Workers : task'[v] = IF v = w THEN NULL ELSE task[v]
  BY <1>2 DEF End, Typed, TypeOK
<1>5. \A v \in Workers : /\ Closing(v)' => Closing(v) /\ v # w
                         /\ Closing(v) /\ v # w => Closing(v)' /\ task[v].thread # t
                         /\ Sending(v)' <=> Sending(v)
                         /\ At(v, "copy")' <=> At(v, "copy")
                         /\ At(v, "insert")' <=> At(v, "insert")
                         /\ v # w => task'[v] = task[v]
                         /\ Closing(v) \/ Sending(v) \/ At(v, "copy") => task[v].thread \in Threads
                         /\ Sending(v) \/ At(v, "copy") \/ At(v, "insert") => v # w
  BY <1>1, <1>2, <1>4
  DEF Closing, Sending, At, Busy, Typed, TasksFit, Fits, Requests, OneHandler
<1>6. /\ byThread[t] \in SUBSET PromptIds
      /\ \A x \in Threads : byThread'[x] = byThread[x] \ byThread[t]
  BY <1>2 DEF ClearPrompts, Typed, TypeOK
<1>7. Stopped' BY <1>2, <1>3 DEF Stopped
<1>8. OneHandler' BY <1>2, <1>3, <1>5 DEF Requests, OneHandler
<1>9. NotYet' BY <1>2, <1>3, <1>5 DEF Requests, NotYet
<1>10. OpenShown' BY <1>2, <1>3 DEF Requests, OpenShown
<1>11. ClosedIsForgotten'
  <2>1. \A x \in Threads : state[x] = "closed" =>
          \E v \in Workers : Closing(v) /\ task[v].thread = x
    BY DEF Requests, ClosedIsForgotten, Closing
  <2>2. \A x \in Threads : state'[x] = "closed" =>
          \E v \in Workers : Closing(v)' /\ task'[v].thread = x
    BY <1>1, <1>3, <1>5, <2>1
  <2>3. \A x \in Threads \ late' : state'[x] = "none" => x \notin cards' /\ byThread'[x] = {}
    BY <1>2, <1>3, <1>6 DEF Requests, ClosedIsForgotten
  <2>4. QED BY <2>2, <2>3 DEF ClosedIsForgotten, Closing
<1>12. OpenRowsAnswerable'
  <2>1. \A v \in Workers, x \in Threads : Closes(v, x) => Closes(v, x)' /\ x # t
    <3>1. \A v \in Workers, x \in Threads : Closes(v, x) => v # w /\ Closing(v) /\ task[v].thread = x
      BY <1>2 DEF Closes, Closing
    <3>2. \A v \in Workers, x \in Threads : v # w /\ Closes(v, x) => Closes(v, x)'
      BY <1>5 DEF Closes, Busy
    <3>3. QED BY <1>5, <3>1, <3>2
  <2>2. \A v \in Workers, x \in Threads : At(v, "insert") /\ task[v].thread = x =>
          At(v, "insert")' /\ task'[v].thread = x
    BY <1>5
  <2>3. QED BY <1>2, <1>3, <2>1, <2>2 DEF Requests, OpenRowsAnswerable
<1>13. QED BY <1>7, <1>8, <1>9, <1>10, <1>11, <1>12 DEF Requests

\* A moderator's handler keeps the account of the requests' lives.
LEMMA ModeratorRequests ==
    ASSUME Typed, Requests, NEW w \in Workers, ModeratorStep(w)
    PROVE  Requests'
<1> USE DEF disk, memory, replies, history, asked
<1>1. CASE DeleteThreadState(w) BY <1>1, DeletedRequests
<1>2. ASSUME NEW ph \in {"update", "notify"}, Closing(w), To(w, ph)
      PROVE  /\ [task[w] EXCEPT !.phase = ph] \in Task
             /\ [task[w] EXCEPT !.phase = ph].phase = ph
             /\ [task[w] EXCEPT !.phase = ph].thread = task[w].thread
             /\ task' = [task EXCEPT ![w] = [task[w] EXCEPT !.phase = ph]]
             /\ task[w].thread \in Threads
  <2>1. task[w] \in Task /\ Fits(task[w]) BY <1>2, TaskIs DEF Closing
  <2>2. QED BY <1>2, <2>1 DEF To, Task, Closing, Fits
<1>3. CASE ClearKeyboard(w)
  <2>1. /\ Closing(w) /\ To(w, "update")
        /\ UNCHANGED <<rows, owner, state, cards, byThread, nextThread, running, late, spoiled>>
        /\ buttons \ {task[w].thread} \subseteq buttons'
    BY <1>3 DEF ClearKeyboard, Closing, At
  <2> DEFINE k == [task[w] EXCEPT !.phase = "update"]
  <2>2. /\ k \in Task /\ k.phase = "update" /\ k.thread = task[w].thread
        /\ task' = [task EXCEPT ![w] = k]
    BY <1>2, <2>1
  <2> HIDE DEF k
  <2>3. /\ OnlyCloses(task[w].thread)
        /\ spoiled \subseteq spoiled' /\ k.phase # "notify"
    BY <2>1, <2>2 DEF OnlyCloses
  <2>4. QED BY <2>1, <2>2, <2>3, ClosingStep
<1>4. CASE MarkSupportThreadClosed(w) \/ MarkFails(w)
  <2>1. /\ Closing(w) /\ To(w, "notify")
        /\ UNCHANGED <<owner, buttons, state, cards, byThread, nextThread, running, late>>
        /\ \/ /\ rows' = [rows EXCEPT ![task[w].thread] = IF @ = "open" THEN "closed" ELSE @]
              /\ UNCHANGED spoiled
           \/ UNCHANGED rows /\ spoiled' = spoiled \cup {task[w].thread}
    BY <1>4 DEF MarkSupportThreadClosed, MarkFails, Closing, At
  <2> DEFINE k == [task[w] EXCEPT !.phase = "notify"]
  <2>2. /\ k \in Task /\ k.phase = "notify" /\ k.thread = task[w].thread
        /\ task' = [task EXCEPT ![w] = k]
        /\ task[w].thread \in Threads
    BY <1>2, <2>1
  <2>3. /\ OnlyCloses(task[w].thread)
        /\ rows'[task[w].thread] # "open" \/ task[w].thread \in spoiled'
        /\ spoiled \subseteq spoiled'
    BY <2>1, <2>2 DEF OnlyCloses, Typed, TypeOK
  <2> HIDE DEF k
  <2>4. QED BY <2>1, <2>2, <2>3, ClosingStep
<1>5. CASE PromptSent(w) \/ PromptFails(w) \/ Answered(w)
  <2>1. /\ Busy(w) /\ task[w].phase \in {"prompt", "answer"} /\ task' = [task EXCEPT ![w] = NULL]
        /\ UNCHANGED <<rows, owner, state, buttons, nextThread, running, cards, spoiled>>
        /\ late \subseteq late'
        /\ task[w].thread \in Threads
    BY <1>5 DEF PromptSent, PromptFails, Answered, At, End, Typed, TasksFit, Fits
  <2>2. running BY <2>1 DEF Requests, Stopped, Busy
  <2>3. ~Closing(w) /\ ~At(w, "insert") BY <2>1 DEF Closing, At
  <2>4. \A t \in Threads \ late' : state[t] = "none" => byThread'[t] \subseteq byThread[t]
    <3>1. CASE PromptSent(w)
      BY <2>1, <3>1 DEF PromptSent, RegisterPrompt, Typed, TypeOK
    <3>2. CASE PromptFails(w) BY <3>2 DEF PromptFails
    <3>3. CASE Answered(w)
      <4>1. task[w].prompt \in PromptIds \cup {NULL} BY <2>1, TaskIs DEF Task
      <4>2. CASE task[w].prompt = NULL BY <3>3, <4>2 DEF Answered
      <4>3. CASE task[w].prompt # NULL
        <5>1. ClearPrompts({task[w].prompt}) BY <3>3, <4>3 DEF Answered
        <5>2. {task[w].prompt} \in SUBSET PromptIds BY <4>1, <4>3
        <5>3. QED BY <5>1, <5>2, ClearShrinks
      <4>4. QED BY <4>2, <4>3
    <3>4. QED BY <1>5, <3>1, <3>2, <3>3
  <2>5. QED BY <2>1, <2>2, <2>3, <2>4, QuietStep
<1>6. QED BY <1>1, <1>2, <1>3, <1>4, <1>5 DEF ModeratorStep

\* The request is marked closed and its closing begins.
LEMMA PressedClose ==
    ASSUME Typed, Requests, NEW w \in Workers, NEW t \in Threads, PressClose(w, t)
    PROVE  Requests'
<1> USE DEF disk, memory, replies, history, asked
<1> DEFINE k == [Blank EXCEPT !.thread = t, !.phase = "keyboard"]
<1>1. /\ running /\ ~Busy(w) /\ state[t] = "open"
      /\ state' = [state EXCEPT ![t] = "closed"] /\ task' = [task EXCEPT ![w] = k]
      /\ UNCHANGED <<rows, owner, buttons, cards, byThread, nextThread, running, late, spoiled>>
  BY DEF PressClose
<1>2. k \in Task /\ k.phase = "keyboard" /\ k.thread = t BY DEF Blank, Task, SupportStatus
<1>3. k # NULL BY <1>2, ConstantsTyped
<1> HIDE DEF k
<1>4. /\ \A v \in Workers : task'[v] = IF v = w THEN k ELSE task[v]
      /\ \A x \in Threads : state'[x] = IF x = t THEN "closed" ELSE state[x]
  BY <1>1 DEF Typed, TypeOK
<1>5. /\ Closing(w)' /\ task'[w].thread = t /\ ~Sending(w)' /\ ~At(w, "copy")'
      /\ ~Closing(w) /\ ~Sending(w) /\ ~At(w, "copy") /\ ~At(w, "insert") /\ Closes(w, t)'
  BY <1>1, <1>2, <1>3, <1>4 DEF Closing, Sending, At, Busy, Closes
<1>6. \A v \in Workers : v # w => /\ task'[v] = task[v]
                                  /\ Closing(v)' <=> Closing(v)
                                  /\ Sending(v)' <=> Sending(v)
                                  /\ At(v, "copy")' <=> At(v, "copy")
                                  /\ At(v, "insert")' <=> At(v, "insert")
                                  /\ Closing(v) => task[v].thread # t /\ task[v].thread \in Threads
                                  /\ At(v, "copy") => task[v].thread # t /\ task[v].thread \in Threads
  BY <1>1, <1>4 DEF Closing, Sending, At, Busy, Typed, TasksFit, Fits, Requests, OneHandler, NotYet
<1>7. Stopped' BY <1>1 DEF Stopped
<1>8. OneHandler' BY <1>1, <1>4, <1>5, <1>6 DEF Requests, OneHandler
<1>9. NotYet'
  <2>1. \A v \in Workers : Sending(v)' =>
          rows'[task'[v].thread] = "none" /\ owner'[task'[v].thread] = task'[v].user
    BY <1>1, <1>5, <1>6 DEF Requests, NotYet
  <2>2. QED BY <1>1, <1>4, <1>5, <1>6, <2>1 DEF Requests, NotYet
<1>10. OpenShown' BY <1>1, <1>4 DEF Requests, OpenShown
<1>11. ClosedIsForgotten'
  <2>1. \A x \in Threads : state[x] = "closed" =>
          \E v \in Workers : Closing(v) /\ task[v].thread = x
    BY DEF Requests, ClosedIsForgotten, Closing
  <2>2. \A x \in Threads : state'[x] = "closed" =>
          \E v \in Workers : Closing(v)' /\ task'[v].thread = x
    BY <1>4, <1>5, <1>6, <2>1
  <2>3. QED BY <1>1, <1>4, <2>2 DEF Requests, ClosedIsForgotten, Closing
<1>12. OpenRowsAnswerable'
  <2>1. \A v \in Workers, x \in Threads : Closes(v, x) => Closes(v, x)'
    BY <1>1, <1>4 DEF Closes, Busy
  <2>2. \A v \in Workers, x \in Threads : At(v, "insert") /\ task[v].thread = x =>
          At(v, "insert")' /\ task'[v].thread = x
    BY <1>5, <1>6
  <2>3. QED BY <1>1, <1>4, <1>5, <2>1, <2>2 DEF Requests, OpenRowsAnswerable
<1>13. QED BY <1>7, <1>8, <1>9, <1>10, <1>11, <1>12 DEF Requests

\* An update that arrives keeps the account of the requests' lives.
LEMMA UpdateRequests ==
    ASSUME Typed, Requests, NEW w \in Workers, Update(w)
    PROVE  Requests'
<1> USE DEF disk, memory, replies, history, asked
<1>1. ASSUME NEW u \in Users, Ask(w, u) \/ AskAsClient(w, u) \/ Write(w, u) \/ Leave(w, u)
      PROVE  Requests'
  <2>1. PICK ph \in {"find", "save", "resolve"}, st \in SupportStatus : Begin(w, u, ph, st)
    BY <1>1 DEF Ask, AskAsClient, Write, Leave, SupportStatus
  <2> DEFINE k == [Blank EXCEPT !.user = u, !.phase = ph, !.status = st]
  <2>2. k.phase = ph BY DEF Blank
  <2>3. /\ running /\ ~Busy(w) /\ task' = [task EXCEPT ![w] = k]
        /\ UNCHANGED <<rows, owner, state, buttons, nextThread, running, cards, byThread, late, spoiled>>
    BY <2>1 DEF Begin
  <2>4. ~Closing(w) /\ ~At(w, "insert") BY <2>3 DEF Closing, At
  <2> HIDE DEF k
  <2>5. QED BY <2>2, <2>3, <2>4, QuietStep
<1>2. ASSUME NEW m \in Moderators, NEW t \in Threads, PressReply(w, m, t)
      PROVE  Requests'
  <2> DEFINE k == [Blank EXCEPT !.moderator = m, !.thread = t, !.phase = "prompt"]
  <2>1. k.phase = "prompt" BY DEF Blank
  <2>2. /\ running /\ ~Busy(w) /\ task' = [task EXCEPT ![w] = k]
        /\ UNCHANGED <<rows, owner, state, buttons, nextThread, running, cards, byThread, late, spoiled>>
    BY <1>2 DEF PressReply
  <2>3. ~Closing(w) /\ ~At(w, "insert") BY <2>2 DEF Closing, At
  <2> HIDE DEF k
  <2>4. QED BY <2>1, <2>2, <2>3, QuietStep
<1>3. ASSUME NEW m \in Moderators, NEW p \in PromptIds \cup {NULL},
             NEW c \in Threads \cup {NULL}, Reply(w, m, p, c)
      PROVE  Requests'
  <2> DEFINE q == PromptFor(m, p)
             t == IF q # NULL THEN prompts[q].thread ELSE c
             k == IF state[t] = "open"
                  THEN [Blank EXCEPT !.moderator = m, !.thread = t, !.phase = "answer", !.prompt = q]
                  ELSE task[w]
  <2>1. /\ running /\ ~Busy(w)
        /\ UNCHANGED <<rows, owner, state, buttons, nextThread, running, late, spoiled>>
    BY <1>3 DEF Reply
  <2>2. ~Closing(w) /\ ~At(w, "insert") /\ task[w] = NULL BY <2>1 DEF Closing, At, Busy
  <2>3. q \in PromptIds \cup {NULL} BY DEF PromptFor, Typed, TypeOK
  <2>4. /\ task' = [task EXCEPT ![w] = k] /\ (k = NULL \/ k.phase = "answer")
    BY <1>3, <2>2 DEF Reply, Blank, Typed, TypeOK
  <2>5. /\ cards' \subseteq cards
        /\ \A x \in Threads : state[x] = "open" /\ x \in cards => x \in cards'
    <3>1. cards' = cards \/ (cards' = cards \ {t} /\ state[t] # "open") BY <1>3 DEF Reply
    <3> HIDE DEF t
    <3>2. QED BY <3>1
  <2>6. \A x \in Threads : byThread'[x] \subseteq byThread[x]
    <3>1. byThread' = byThread \/ (q # NULL /\ ClearPrompts({q})) BY <1>3 DEF Reply
    <3> HIDE DEF q
    <3>2. CASE q # NULL /\ ClearPrompts({q})
      <4>1. {q} \in SUBSET PromptIds BY <2>3, <3>2
      <4>2. QED BY <3>2, <4>1, ClearShrinks
    <3>3. QED BY <3>1, <3>2
  <2> HIDE DEF k
  <2>7. QED BY <2>1, <2>2, <2>4, <2>5, <2>6, QuietStep
<1>4. ASSUME NEW t \in Threads, PressClose(w, t) PROVE Requests'
  BY <1>4, PressedClose
<1>5. QED BY <1>1, <1>2, <1>3, <1>4 DEF Update

\* With the tasks gone nothing is half sent or half closed but what is spoiled.
LEMMA CrashRequests == ASSUME Typed, Requests, Crash PROVE Requests'
<1> USE DEF disk, memory, replies, history, asked
<1>1. /\ running /\ ~running' /\ cards' = {}
      /\ \A t \in Threads : state'[t] = "none" /\ byThread'[t] = {}
      /\ \A w \in Workers : task'[w] = NULL
      /\ UNCHANGED <<rows, owner, buttons, nextThread, late>>
      /\ spoiled' = spoiled \cup {t \in Threads : rows[t] = "open"}
                          \cup {t \in Threads : \E w \in Workers : Closes(w, t)}
  BY DEF Crash, NoPrompts
<1>2. \A w \in Workers : ~Closing(w)' /\ ~Sending(w)' /\ ~At(w, "copy")'
  BY <1>1 DEF Closing, Sending, At, Busy
<1>3. Stopped'
  <2>1. \A t \in Threads \ spoiled' : rows'[t] # "open" BY <1>1
  <2>2. QED BY <1>1, <2>1 DEF Stopped
<1>4. OneHandler' /\ OpenShown' /\ OpenRowsAnswerable' /\ ClosedIsForgotten'
  BY <1>1, <1>2 DEF OneHandler, OpenShown, OpenRowsAnswerable, ClosedIsForgotten
<1>5. NotYet' BY <1>1, <1>2 DEF Requests, NotYet
<1>6. QED BY <1>3, <1>4, <1>5 DEF Requests

\* A start, which brings no request back, keeps the account of the requests' lives
\* (restoreSupportThreads).
LEMMA RestoreRequests ==
    ASSUME Typed, Requests, RestoreSupportThreads PROVE Requests'
<1> USE DEF disk, memory, replies, history, asked
<1>1. /\ ~running /\ running'
      /\ UNCHANGED <<rows, owner, buttons, nextThread, late, byThread, task, state, cards, spoiled>>
      /\ \A w \in Workers : task[w] = NULL
      /\ \A t \in Threads : state[t] = "none"
      /\ \A t \in Threads \ spoiled : rows[t] # "open"
  BY DEF RestoreSupportThreads, Requests, Stopped
<1>2. \A w \in Workers : ~Closing(w)' /\ ~Sending(w)' /\ ~At(w, "copy")'
  BY <1>1 DEF Closing, Sending, At, Busy
<1>3. Stopped' /\ OneHandler' BY <1>1, <1>2 DEF Stopped, OneHandler
<1>4. NotYet' BY <1>1, <1>2 DEF Requests, NotYet
<1>5. OpenShown' /\ OpenRowsAnswerable' BY <1>1 DEF OpenShown, OpenRowsAnswerable
<1>6. ClosedIsForgotten' BY <1>1 DEF Requests, ClosedIsForgotten
<1>7. QED BY <1>3, <1>4, <1>5, <1>6 DEF Requests

\* A stutter keeps the account of the requests' lives.
LEMMA RequestsKept == ASSUME Requests, UNCHANGED vars PROVE Requests'
<1>1. UNCHANGED <<rows, owner, buttons, state, cards, byThread, nextThread, running, task, late, spoiled>>
  BY DEF vars, disk, memory, replies, history
<1>2. \A w \in Workers : /\ Closing(w)' <=> Closing(w)
                         /\ Sending(w)' <=> Sending(w)
                         /\ At(w, "copy")' <=> At(w, "copy")
                         /\ At(w, "insert")' <=> At(w, "insert")
                         /\ \A t \in Threads : Closes(w, t)' <=> Closes(w, t)
  BY <1>1 DEF Closing, Sending, At, Busy, Closes
<1>3. Stopped' /\ OneHandler' /\ NotYet' /\ OpenShown'
  BY <1>1, <1>2 DEF Requests, Stopped, OneHandler, NotYet, OpenShown
<1>4. ClosedIsForgotten' BY <1>1 DEF Requests, ClosedIsForgotten, Busy
<1>5. OpenRowsAnswerable' BY <1>1, <1>2 DEF Requests, OpenRowsAnswerable
<1>6. QED BY <1>3, <1>4, <1>5 DEF Requests

\* Every step keeps the account of the requests' lives.
LEMMA StepRequests == Typed /\ Requests /\ [Next]_vars => Requests'
<1> SUFFICES ASSUME Typed, Requests, [Next]_vars PROVE Requests'
  OBVIOUS
<1>1. ASSUME NEW w \in Workers, UserStep(w) PROVE Requests'
  <2>1. CASE Resolve(w) \/ ResolveFails(w)
    BY <2>1, ResolvedRequests DEF Resolve, ResolveFails
  <2>2. QED BY <1>1, <2>1, UserQuiet, CopyRequests, InsertRequests DEF UserStep
<1>2. QED
  BY <1>1, ModeratorRequests, UpdateRequests, CrashRequests, RestoreRequests, RequestsKept DEF Next

\* The account of the requests' lives holds at the start.
LEMMA InitRequests == Init => Requests
<1> SUFFICES ASSUME Init PROVE Requests
  OBVIOUS
<1>1. /\ \A w \in Workers : task[w] = NULL
      /\ \A t \in Threads : rows[t] = "none" /\ state[t] = "none" /\ byThread[t] = {}
      /\ running /\ cards = {}
  BY DEF Init
<1>2. \A w \in Workers : ~Busy(w) BY <1>1 DEF Busy
<1>3. QED
  BY <1>1, <1>2
  DEF Requests, Stopped, OneHandler, NotYet, OpenShown, ClosedIsForgotten, OpenRowsAnswerable,
      Closing, Sending, At

\* A closed request is being forgotten or has left neither a card nor a prompt, whatever
\* order handlers, failures and deaths of the process come in.
THEOREM ClosedIsForgottenHolds == Spec => []ClosedIsForgotten
<1>1. Requests => ClosedIsForgotten BY DEF Requests
<1>2. QED BY <1>1, InitTyped, StepTyped, InitRequests, StepRequests, PTL DEF Spec

\* An open row has moderators who can answer it, and an open request its row, unless a
\* statement or the order of UPDATE and INSERT spoiled it or the process has died since.
THEOREM OpenRowsAnswerableHolds == Spec => []OpenRowsAnswerable
<1>1. Requests => OpenRowsAnswerable BY DEF Requests
<1>2. QED BY <1>1, InitTyped, StepTyped, InitRequests, StepRequests, PTL DEF Spec

-----------------------------------------------------------------------------
(* One request of a user *)

\* A step of the moderators or of nobody: it may close requests, and leaves the dialogues.
LEMMA ElsewhereStep ==
    ASSUME Typed, OneDialogue, NEW w \in Workers, NEW k,
           task' = [task EXCEPT ![w] = k],
           Busy(w) => task[w].user = NULL, k = NULL \/ k.user = NULL,
           doubted \subseteq doubted', UNCHANGED <<session, owner, blind, unsearched>>,
           \A t \in Threads : rows'[t] = "open" => rows[t] = "open"
    PROVE  OneDialogue'
<1>1. \A v \in Workers : task'[v] = IF v = w THEN k ELSE task[v] BY DEF Typed, TypeOK
<1>2. \A u \in Users : u # NULL BY SupportAssumption
<1>3. SUFFICES ASSUME NEW u \in Users, u \notin doubted'
      PROVE  /\ \A v, x \in Workers :
                  Busy(v)' /\ Busy(x)' /\ task'[v].user = u /\ task'[x].user = u => v = x
             /\ session'[u] = "awaiting_message" /\ u \notin blind'
                  /\ (\A v \in Workers : Busy(v)' => task'[v].user # u) => OpenOf(u)' = {}
             /\ \A v \in Workers : Busy(v)' /\ task'[v].user = u =>
                  Known(task'[v], u, OpenOf(u)', blind', unsearched')
             /\ InOrder(OpenOf(u)', unsearched')
  BY DEF OneDialogue, Known, InOrder
<1>4. \A v \in Workers : (Busy(v)' /\ task'[v].user = u) <=> (Busy(v) /\ task[v].user = u)
  BY <1>1, <1>2 DEF Busy
<1>5. \A v \in Workers : Busy(v) /\ task[v].user = u => task'[v] = task[v]
  BY <1>1, <1>2
<1>6. OpenOf(u)' \subseteq OpenOf(u) BY DEF OpenOf
<1>7. /\ \A v, x \in Workers :
           Busy(v) /\ Busy(x) /\ task[v].user = u /\ task[x].user = u => v = x
      /\ session[u] = "awaiting_message" /\ u \notin blind
           /\ (\A v \in Workers : Busy(v) => task[v].user # u) => OpenOf(u) = {}
      /\ \A v \in Workers : Busy(v) /\ task[v].user = u =>
           Known(task[v], u, OpenOf(u), blind, unsearched)
      /\ InOrder(OpenOf(u), unsearched)
  BY <1>3 DEF OneDialogue
<1>8. session'[u] = "awaiting_message" /\ u \notin blind'
        /\ (\A v \in Workers : Busy(v)' => task'[v].user # u) => OpenOf(u)' = {}
  BY <1>4, <1>6, <1>7
<1>9. InOrder(OpenOf(u)', unsearched') BY <1>6, <1>7 DEF InOrder
<1>10. \A v \in Workers : Busy(v)' /\ task'[v].user = u =>
         Known(task'[v], u, OpenOf(u)', blind', unsearched')
  <2> SUFFICES ASSUME NEW v \in Workers, Busy(v)', task'[v].user = u
               PROVE  Known(task'[v], u, OpenOf(u)', blind', unsearched')
    OBVIOUS
  <2>1. task'[v] = task[v] /\ Known(task[v], u, OpenOf(u), blind, unsearched)
    BY <1>4, <1>5, <1>7
  <2>2. QED BY <1>6, <2>1 DEF Known
<1>11. QED BY <1>4, <1>7, <1>8, <1>9, <1>10

\* Only rows of u change, and none that was open.
OnlyOf(u) ==
    \A t \in Threads : \/ rows'[t] = rows[t] /\ owner'[t] = owner[t]
                       \/ rows[t] # "open" /\ owner'[t] = u

\* The other users' dialogues stand, and no request stops counting as unsearched.
OthersWait(u) ==
    /\ \A x \in Users : x # u => session'[x] = session[x] /\ (x \in blind' <=> x \in blind)
    /\ unsearched \subseteq unsearched'

\* What the only handler of u, which becomes k, leaves.
Settled(w, k, u) ==
    /\ \A v \in Workers : v # w /\ Busy(v) => task[v].user # u
    /\ k = NULL /\ session'[u] = "awaiting_message" /\ u \notin blind' => OpenOf(u)' = {}
    /\ k # NULL => Known(k, u, OpenOf(u)', blind', unsearched')
    /\ InOrder(OpenOf(u)', unsearched')

\* A step of user u0's handler.  If u0 stays in no doubt, this was his only handler, and
\* what it leaves is right for him; nobody else's rows, session or handler change.
LEMMA DialogueStep ==
    ASSUME Typed, OneDialogue, NEW w \in Workers, NEW k, NEW u0 \in Users,
           task' = [task EXCEPT ![w] = k],
           Busy(w) => task[w].user = u0, k = NULL \/ k.user = u0,
           doubted \subseteq doubted',
           OthersWait(u0),
           OnlyOf(u0), u0 \notin doubted' => Settled(w, k, u0)
    PROVE  OneDialogue'
<1>1. \A v \in Workers : task'[v] = IF v = w THEN k ELSE task[v] BY DEF Typed, TypeOK
<1>2. SUFFICES ASSUME NEW u \in Users, u \notin doubted'
      PROVE  /\ \A v, x \in Workers :
                  Busy(v)' /\ Busy(x)' /\ task'[v].user = u /\ task'[x].user = u => v = x
             /\ session'[u] = "awaiting_message" /\ u \notin blind'
                  /\ (\A v \in Workers : Busy(v)' => task'[v].user # u) => OpenOf(u)' = {}
             /\ \A v \in Workers : Busy(v)' /\ task'[v].user = u =>
                  Known(task'[v], u, OpenOf(u)', blind', unsearched')
             /\ InOrder(OpenOf(u)', unsearched')
  BY DEF OneDialogue, Known, InOrder
<1>3. /\ \A v, x \in Workers :
           Busy(v) /\ Busy(x) /\ task[v].user = u /\ task[x].user = u => v = x
      /\ session[u] = "awaiting_message" /\ u \notin blind
           /\ (\A v \in Workers : Busy(v) => task[v].user # u) => OpenOf(u) = {}
      /\ \A v \in Workers : Busy(v) /\ task[v].user = u =>
           Known(task[v], u, OpenOf(u), blind, unsearched)
      /\ InOrder(OpenOf(u), unsearched)
  BY <1>2 DEF OneDialogue
<1>4. CASE u # u0
  <2>1. /\ OpenOf(u)' = OpenOf(u) /\ session'[u] = session[u] /\ (u \in blind' <=> u \in blind)
        /\ unsearched \subseteq unsearched'
    BY <1>4 DEF OpenOf, OnlyOf, OthersWait
  <2>2. \A v \in Workers : (Busy(v)' /\ task'[v].user = u) <=> (Busy(v) /\ task[v].user = u)
    BY <1>1, <1>4 DEF Busy
  <2>3. \A v \in Workers : Busy(v) /\ task[v].user = u => task'[v] = task[v]
    BY <1>1, <1>4
  <2>4. session'[u] = "awaiting_message" /\ u \notin blind'
          /\ (\A v \in Workers : Busy(v)' => task'[v].user # u) => OpenOf(u)' = {}
    BY <1>3, <2>1, <2>2
  <2>5. InOrder(OpenOf(u)', unsearched') BY <1>3, <2>1 DEF InOrder
  <2>6. \A v \in Workers : Busy(v)' /\ task'[v].user = u =>
          Known(task'[v], u, OpenOf(u)', blind', unsearched')
    <3> SUFFICES ASSUME NEW v \in Workers, Busy(v)', task'[v].user = u
                 PROVE  Known(task'[v], u, OpenOf(u)', blind', unsearched')
      OBVIOUS
    <3>1. task'[v] = task[v] /\ Known(task[v], u, OpenOf(u), blind, unsearched)
      BY <1>3, <2>2, <2>3
    <3>2. QED BY <2>1, <3>1 DEF Known
  <2>7. QED BY <1>3, <2>2, <2>4, <2>5, <2>6
<1>5. CASE u = u0
  <2>1. \A v \in Workers : Busy(v)' /\ task'[v].user = u => v = w
    BY <1>1, <1>2, <1>5 DEF Busy, Settled
  <2>2. Busy(w)' <=> k # NULL BY <1>1 DEF Busy
  <2>3. task'[w] = k BY <1>1
  <2>4. session'[u] = "awaiting_message" /\ u \notin blind'
          /\ (\A v \in Workers : Busy(v)' => task'[v].user # u) => OpenOf(u)' = {}
    BY <1>2, <1>5, <2>2, <2>3 DEF Settled
  <2>5. \A v \in Workers : Busy(v)' /\ task'[v].user = u =>
          Known(task'[v], u, OpenOf(u)', blind', unsearched')
    BY <1>2, <1>5, <2>1, <2>2, <2>3 DEF Settled
  <2>6. QED BY <1>2, <1>5, <2>1, <2>4, <2>5 DEF Settled
<1>6. QED BY <1>4, <1>5

\* What is known of the only handler of a user in no doubt.
LEMMA Alone ==
    ASSUME Typed, OneDialogue, NEW w \in Workers, Busy(w),
           NEW u \in Users \ doubted, task[w].user = u
    PROVE  /\ \A v \in Workers : v # w /\ Busy(v) => task[v].user # u
           /\ Known(task[w], u, OpenOf(u), blind, unsearched)
           /\ InOrder(OpenOf(u), unsearched)
  BY DEF OneDialogue

\* A user's handler keeps an untouched user to one request.
LEMMA UserDialogue ==
    ASSUME Typed, Requests, OneDialogue, NEW w \in Workers, UserStep(w)
    PROVE  OneDialogue'
<1> USE DEF disk, memory, replies, history, asked
<1>0. /\ Busy(w) /\ task[w] \in Task /\ task[w].user \in Users
      /\ task \in [Workers -> Task \cup {NULL}]
  BY TaskIs DEF UserStep, FindOpenSupportThread, FindFails, Resolve, ResolveFails, Resolved,
                Copy, CopyFails, Insert, InsertFails, Save, SaveFails, At, Fits
<1>1. PICK u \in Users : u = task[w].user BY <1>0
<1>2. u \notin doubted =>
        /\ \A v \in Workers : v # w /\ Busy(v) => task[v].user # u
        /\ Known(task[w], u, OpenOf(u), blind, unsearched)
        /\ InOrder(OpenOf(u), unsearched)
  BY <1>0, <1>1, Alone
<1> DEFINE k == task'[w]
<1>3. CASE FindOpenSupportThread(w)
  <2>1. /\ task' = [task EXCEPT ![w] = k] /\ k.user = u /\ k.phase = "save"
        /\ k.status = IF OpenOf(u) # {} THEN "idle" ELSE task[w].status
        /\ UNCHANGED <<rows, owner, session, doubted, blind, unsearched>>
    BY <1>0, <1>1, <1>3 DEF FindOpenSupportThread, Task
  <2>2. OpenOf(u)' = OpenOf(u) BY <2>1 DEF OpenOf
  <2>0. k \in Task BY <1>0, <1>1, <1>3 DEF FindOpenSupportThread, Task, SupportStatus
  <2>7. k # NULL BY <2>0, ConstantsTyped
  <2>3. k.status = "awaiting_message" => OpenOf(u)' = {} BY <2>1, <2>2
  <2> HIDE DEF k
  <2>4. u \notin doubted' => Settled(w, k, u)
    BY <1>2, <2>1, <2>2, <2>3, <2>7 DEF Settled, Known
  <2>5. OnlyOf(u) /\ OthersWait(u) BY <2>1 DEF OnlyOf, OthersWait
  <2>6. QED BY <1>1, <2>1, <2>4, <2>5, DialogueStep
<1>4. CASE FindFails(w) \/ InsertFails(w) \/ SaveFails(w)
  <2>1. /\ task' = [task EXCEPT ![w] = k] /\ (k = NULL \/ k.user = u)
        /\ doubted' = doubted \cup {u} /\ UNCHANGED <<rows, owner, session, blind, unsearched>>
    BY <1>0, <1>1, <1>4 DEF FindFails, InsertFails, SaveFails, Doubt, To, End, Task
  <2> HIDE DEF k
  <2>2. OnlyOf(u) /\ OthersWait(u) /\ u \in doubted' BY <2>1 DEF OnlyOf, OthersWait
  <2>3. QED BY <1>1, <2>1, <2>2, DialogueStep
<1>5. CASE Resolve(w) \/ ResolveFails(w)
  <2>1. /\ task' = [task EXCEPT ![w] = k] /\ k.user = u
        /\ task[w].phase = "resolve"
        /\ UNCHANGED <<rows, session, doubted, blind>>
    BY <1>0, <1>1, <1>5 DEF Resolve, ResolveFails, Resolved, Task, At
  <2>2. \/ /\ k.phase = "save" /\ k.status = "idle" /\ UNCHANGED <<owner, unsearched>>
        \/ /\ k.phase = "copy" /\ k.thread = nextThread
           /\ nextThread \in Threads /\ owner' = [owner EXCEPT ![nextThread] = u]
           /\ unsearched' = IF u \in blind THEN unsearched \cup {nextThread} ELSE unsearched
    BY <1>0, <1>1, <1>5 DEF Resolve, ResolveFails, Resolved, Task
  <2>3. nextThread \in Threads => rows[nextThread] = "none"
    <3>1. nextThread \in Threads => nextThread >= nextThread BY ConstantsTyped
    <3>2. QED BY <3>1 DEF Requests, NotYet
  <2>4. OnlyOf(u) /\ OthersWait(u)
    BY <2>1, <2>2, <2>3 DEF OnlyOf, OthersWait, Typed, TypeOK
  <2>5. OpenOf(u)' = OpenOf(u)
    BY <2>1, <2>2, <2>3 DEF OpenOf, Typed, TypeOK
  <2>6. nextThread \in Threads => \A t \in OpenOf(u) : t < nextThread
    <3>1. \A t \in Threads : t \in Nat BY ConstantsTyped
    <3>2. QED BY <3>1 DEF OpenOf, Requests, NotYet
  <2>7. u \notin doubted => /\ u \notin blind => OpenOf(u) = {}
                            /\ \A v \in Workers : v # w /\ Busy(v) => task[v].user # u
                            /\ InOrder(OpenOf(u), unsearched)
    BY <1>2, <2>1 DEF Known
  <2>8. k # NULL
    <3>1. k \in Task
      BY <1>0, <1>1, <1>5, <2>1 DEF Resolve, ResolveFails, Resolved, Task, SupportStatus
    <3>2. QED BY <3>1, ConstantsTyped
  <2> HIDE DEF k
  <2>9. InOrder(OpenOf(u), unsearched) => InOrder(OpenOf(u)', unsearched')
    BY <2>2, <2>5 DEF InOrder
  <2>10. u \notin doubted => Known(k, u, OpenOf(u)', blind', unsearched')
    BY <2>1, <2>2, <2>5, <2>6, <2>7 DEF Known
  <2>11. u \notin doubted' => Settled(w, k, u)
    BY <2>1, <2>7, <2>8, <2>9, <2>10 DEF Settled
  <2>12. QED BY <1>1, <2>1, <2>4, <2>11, DialogueStep
<1>6. CASE Copy(w) \/ CopyFails(w)
  <2>1. /\ task' = [task EXCEPT ![w] = k] /\ k.user = u /\ k.phase \in {"insert", "save"}
        /\ task[w].phase = "copy" /\ k.thread = task[w].thread
        /\ UNCHANGED <<rows, owner, session, doubted, blind, unsearched>>
    BY <1>0, <1>1, <1>6 DEF Copy, CopyFails, To, Task, At
  <2>2. OpenOf(u)' = OpenOf(u) /\ OnlyOf(u) /\ OthersWait(u)
    BY <2>1 DEF OpenOf, OnlyOf, OthersWait
  <2>0. k \in Task BY <1>0, <1>6 DEF Copy, CopyFails, To, Task
  <2>5. k # NULL BY <2>0, ConstantsTyped
  <2> HIDE DEF k
  <2>3. u \notin doubted' => Settled(w, k, u)
    BY <1>2, <2>1, <2>2, <2>5 DEF Settled, Known
  <2>4. QED BY <1>1, <2>1, <2>2, <2>3, DialogueStep
<1>7. CASE Insert(w)
  <2>1. /\ task' = [task EXCEPT ![w] = k] /\ k.user = u /\ k.phase = "save" /\ k.status = "idle"
        /\ task[w].phase = "insert"
        /\ rows' = [rows EXCEPT ![task[w].thread] = "open"]
        /\ UNCHANGED <<owner, session, doubted, blind, unsearched>>
    BY <1>0, <1>1, <1>7 DEF Insert, Task, At
  <2>2. PICK t \in Threads : t = task[w].thread
    BY <1>0, <2>1, TaskIs DEF Fits
  <2>3. rows[t] = "none" /\ owner[t] = u
    BY <1>0, <1>1, <2>1, <2>2 DEF Requests, NotYet, Sending
  <2>4. OnlyOf(u) /\ OthersWait(u)
    BY <2>1, <2>2, <2>3 DEF OnlyOf, OthersWait, Typed, TypeOK
  <2>5. OpenOf(u)' = OpenOf(u) \cup {t}
    BY <2>1, <2>2, <2>3 DEF OpenOf, Typed, TypeOK
  <2>6. u \notin doubted => InOrder(OpenOf(u)', unsearched')
    <3> SUFFICES ASSUME u \notin doubted, NEW t1 \in OpenOf(u)', NEW t2 \in OpenOf(u)', t1 < t2
                 PROVE  t2 \in unsearched
      BY <2>1 DEF InOrder
    <3>1. /\ u \notin blind => OpenOf(u) = {}
          /\ u \in blind => t \in unsearched
          /\ \A x \in OpenOf(u) : x < t
          /\ InOrder(OpenOf(u), unsearched)
      BY <1>2, <2>1, <2>2 DEF Known
    <3>2. t \in Nat /\ t1 \in Nat /\ t2 \in Nat BY ConstantsTyped, <2>5 DEF OpenOf
    <3>3. CASE t2 = t
      <4>1. t1 # t BY <3>2, <3>3
      <4>2. QED BY <2>5, <3>1, <3>3, <4>1
    <3>4. CASE t2 # t
      <4>1. t2 \in OpenOf(u) /\ t2 < t BY <2>5, <3>1, <3>4
      <4>2. t1 # t BY <3>2, <4>1
      <4>3. QED BY <2>5, <3>1, <4>1, <4>2 DEF InOrder
    <3>5. QED BY <3>3, <3>4
  <2>0. k \in Task BY <1>0, <1>7 DEF Insert, Task, SupportStatus
  <2>8. k # NULL BY <2>0, ConstantsTyped
  <2> HIDE DEF k
  <2>7. u \notin doubted' => Settled(w, k, u)
    BY <1>2, <2>1, <2>6, <2>8 DEF Settled, Known
  <2>9. QED BY <1>1, <2>1, <2>4, <2>7, DialogueStep
<1>8. CASE Save(w)
  <2>1. /\ task' = [task EXCEPT ![w] = k] /\ k = NULL
        /\ session' = [session EXCEPT ![u] = task[w].status]
        /\ blind' = IF task[w].status = "idle" THEN blind \ {u} ELSE blind
        /\ task[w].phase = "save"
        /\ UNCHANGED <<rows, owner, doubted, unsearched>>
    BY <1>0, <1>1, <1>8 DEF Save, Over, End, At
  <2>2. /\ OpenOf(u)' = OpenOf(u) /\ session'[u] = task[w].status
        /\ OnlyOf(u) /\ OthersWait(u)
        /\ task[w].status = "awaiting_message" => blind' = blind
    BY <2>1 DEF OpenOf, OnlyOf, OthersWait, Typed, TypeOK
  <2> HIDE DEF k
  <2>3. u \notin doubted' => Settled(w, k, u)
    BY <1>2, <2>1, <2>2 DEF Settled, Known
  <2>4. QED BY <1>1, <2>1, <2>2, <2>3, DialogueStep
<1>9. QED BY <1>3, <1>4, <1>5, <1>6, <1>7, <1>8 DEF UserStep

\* An update that arrives keeps an untouched user to one request.
LEMMA UpdateDialogue ==
    ASSUME Typed, OneDialogue, NEW w \in Workers, Update(w)
    PROVE  OneDialogue'
<1> USE DEF disk, memory, replies, history, asked
<1>1. ASSUME NEW u \in Users, NEW ph \in {"find", "resolve", "save"}, NEW st \in SupportStatus,
             Begin(w, u, ph, st), blind \subseteq blind', blind' \subseteq blind \cup {u},
             \/ ph = "find" \/ (ph = "save" /\ st = "idle")
             \/ session[u] = "awaiting_message" \/ (ph = "save" /\ u \in blind')
      PROVE  OneDialogue'
  <2> DEFINE k == [Blank EXCEPT !.user = u, !.phase = ph, !.status = st]
  <2>1. k.user = u /\ k.phase = ph /\ k.status = st /\ k \in Task BY DEF Blank, Task
  <2>2. k # NULL BY <2>1, ConstantsTyped
  <2>3. /\ ~Busy(w) /\ task' = [task EXCEPT ![w] = k]
        /\ UNCHANGED <<rows, owner, session, unsearched>>
        /\ doubted' = IF \E v \in Workers : Busy(v) /\ task[v].user = u
                      THEN doubted \cup {u} ELSE doubted
    BY <1>1 DEF Begin
  <2> HIDE DEF k
  <2>4. OpenOf(u)' = OpenOf(u) /\ OnlyOf(u) /\ OthersWait(u)
    BY <1>1, <2>3 DEF OpenOf, OnlyOf, OthersWait
  <2>5. ASSUME u \notin doubted'
        PROVE  Settled(w, k, u)
    <3>1. u \notin doubted /\ \A v \in Workers : Busy(v) => task[v].user # u
      BY <2>3, <2>5
    <3>2. /\ session[u] = "awaiting_message" /\ u \notin blind => OpenOf(u) = {}
          /\ InOrder(OpenOf(u), unsearched)
      BY <3>1 DEF OneDialogue
    <3>3. Known(k, u, OpenOf(u)', blind', unsearched')
      BY <1>1, <2>1, <2>4, <3>2 DEF Known
    <3>4. QED BY <2>2, <2>3, <2>4, <3>1, <3>2, <3>3 DEF Settled
  <2>6. doubted \subseteq doubted' BY <2>3
  <2>7. QED BY <2>1, <2>2, <2>3, <2>4, <2>5, <2>6, DialogueStep
<1>2. ASSUME NEW u \in Users, Ask(w, u) \/ AskAsClient(w, u) \/ Write(w, u) \/ Leave(w, u)
      PROVE  OneDialogue'
  <2>1. session[u] \in SupportStatus BY DEF Typed, TypeOK
  <2>2. CASE Ask(w, u)
    <3>1. /\ Begin(w, u, IF session[u] = "idle" THEN "find" ELSE "save", "awaiting_message")
          /\ blind' = blind
      BY <2>2 DEF Ask
    <3>2. CASE session[u] = "idle"
      <4>1. Begin(w, u, "find", "awaiting_message") BY <3>1, <3>2
      <4>2. QED BY <1>1, <3>1, <4>1 DEF SupportStatus
    <3>3. CASE session[u] # "idle"
      <4>1. Begin(w, u, "save", "awaiting_message") BY <3>1, <3>3
      <4>2. session[u] = "awaiting_message" BY <2>1, <3>3 DEF SupportStatus
      <4>3. QED BY <1>1, <3>1, <4>1, <4>2 DEF SupportStatus
    <3>4. QED BY <3>2, <3>3
  <2>3. CASE AskAsClient(w, u)
    <3>1. /\ Begin(w, u, "save", "awaiting_message")
          /\ blind' = IF session[u] = "idle" THEN blind \cup {u} ELSE blind
      BY <2>3 DEF AskAsClient
    <3>2. u \in blind' \/ session[u] = "awaiting_message" BY <2>1, <3>1 DEF SupportStatus
    <3>3. blind \subseteq blind' /\ blind' \subseteq blind \cup {u} BY <3>1
    <3>4. QED BY <1>1, <3>1, <3>2, <3>3 DEF SupportStatus
  <2>4. CASE Write(w, u)
    <3>1. /\ Begin(w, u, "resolve", "awaiting_message") /\ session[u] = "awaiting_message"
          /\ blind' = blind
      BY <2>4 DEF Write
    <3>2. QED BY <1>1, <3>1 DEF SupportStatus
  <2>5. CASE Leave(w, u)
    <3>1. Begin(w, u, "save", "idle") /\ blind' = blind BY <2>5 DEF Leave
    <3>2. QED BY <1>1, <3>1 DEF SupportStatus
  <2>6. QED BY <1>2, <2>2, <2>3, <2>4, <2>5
<1>3. ASSUME NEW m \in Moderators, NEW t \in Threads, PressReply(w, m, t)
      PROVE  OneDialogue'
  <2> DEFINE k == task'[w]
  <2>1. /\ ~Busy(w) /\ task' = [task EXCEPT ![w] = k] /\ k.user = NULL
        /\ UNCHANGED <<rows, owner, session, doubted, blind, unsearched>>
    BY <1>3 DEF PressReply, Blank, Typed, TypeOK
  <2> HIDE DEF k
  <2>2. QED BY <2>1, ElsewhereStep
<1>4. ASSUME NEW m \in Moderators, NEW p \in PromptIds \cup {NULL},
             NEW c \in Threads \cup {NULL}, Reply(w, m, p, c)
      PROVE  OneDialogue'
  <2> DEFINE k == task'[w]
  <2>1. /\ ~Busy(w) /\ task' = [task EXCEPT ![w] = k] /\ (k = NULL \/ k.user = NULL)
        /\ UNCHANGED <<rows, owner, session, doubted, blind, unsearched>>
    BY <1>4 DEF Reply, Blank, Busy, Typed, TypeOK
  <2> HIDE DEF k
  <2>2. QED BY <2>1, ElsewhereStep
<1>5. ASSUME NEW t \in Threads, PressClose(w, t) PROVE OneDialogue'
  <2> DEFINE k == task'[w]
  <2>1. /\ ~Busy(w) /\ task' = [task EXCEPT ![w] = k] /\ k.user = NULL
        /\ UNCHANGED <<rows, owner, session, doubted, blind, unsearched>>
    BY <1>5 DEF PressClose, Blank, Typed, TypeOK
  <2> HIDE DEF k
  <2>2. QED BY <2>1, ElsewhereStep
<1>6. QED BY <1>2, <1>3, <1>4, <1>5 DEF Update

\* A moderator's handler keeps an untouched user to one request.
LEMMA ModeratorDialogue ==
    ASSUME Typed, OneDialogue, NEW w \in Workers, ModeratorStep(w)
    PROVE  OneDialogue'
<1> USE DEF disk, memory, replies, history, asked
<1> DEFINE k == task'[w]
<1>1. /\ Busy(w) /\ task[w] \in Task /\ task[w].user = NULL
      /\ task \in [Workers -> Task \cup {NULL}]
  BY TaskIs DEF ModeratorStep, PromptSent, PromptFails, Answered, ClearKeyboard,
                MarkSupportThreadClosed, MarkFails, DeleteThreadState, At, Fits
<1>2. /\ task' = [task EXCEPT ![w] = k] /\ (k = NULL \/ k.user = NULL)
      /\ UNCHANGED <<owner, session, doubted, blind, unsearched>>
  BY <1>1 DEF ModeratorStep, PromptSent, PromptFails, Answered, ClearKeyboard, To, End, Task,
              MarkSupportThreadClosed, MarkFails, DeleteThreadState
<1>3. \A t \in Threads : rows'[t] = "open" => rows[t] = "open"
  <2>1. UNCHANGED rows \/ MarkSupportThreadClosed(w)
    BY DEF ModeratorStep, PromptSent, PromptFails, Answered, ClearKeyboard, MarkFails, DeleteThreadState
  <2>2. CASE MarkSupportThreadClosed(w)
    BY <2>2 DEF MarkSupportThreadClosed, Typed, TypeOK
  <2>3. QED BY <2>1, <2>2
<1> HIDE DEF k
<1>4. QED BY <1>1, <1>2, <1>3, ElsewhereStep

\* Every step keeps an untouched user to one request.
LEMMA StepDialogue == Typed /\ Requests /\ OneDialogue /\ [Next]_vars => OneDialogue'
<1> SUFFICES ASSUME Typed, Requests, OneDialogue, [Next]_vars PROVE OneDialogue'
  OBVIOUS
<1>1. CASE Crash
  <2>1. /\ \A w \in Workers : task'[w] = NULL
        /\ UNCHANGED <<rows, owner, session, blind, unsearched>>
        /\ doubted' = doubted \cup {u \in Users : \E w \in Workers : Busy(w) /\ task[w].user = u}
    BY <1>1 DEF Crash, disk, asked
  <2>2. SUFFICES ASSUME NEW u \in Users, u \notin doubted'
        PROVE  /\ session'[u] = "awaiting_message" /\ u \notin blind' => OpenOf(u)' = {}
               /\ InOrder(OpenOf(u)', unsearched')
    BY <2>1 DEF OneDialogue, Busy, InOrder
  <2>3. OpenOf(u)' = OpenOf(u) BY <2>1 DEF OpenOf
  <2>4. u \notin doubted /\ \A w \in Workers : Busy(w) => task[w].user # u BY <2>1, <2>2
  <2>5. /\ session[u] = "awaiting_message" /\ u \notin blind => OpenOf(u) = {}
        /\ InOrder(OpenOf(u), unsearched)
    BY <2>4 DEF OneDialogue
  <2>6. QED BY <2>1, <2>3, <2>5
<1>2. CASE RestoreSupportThreads \/ UNCHANGED vars
  <2>1. UNCHANGED <<rows, owner, session, task, doubted, blind, unsearched>>
    BY <1>2 DEF RestoreSupportThreads, vars, disk, history, asked
  <2>2. \A u \in Users : OpenOf(u)' = OpenOf(u) BY <2>1 DEF OpenOf
  <2>3. QED BY <2>1, <2>2 DEF OneDialogue, Busy, OpenOf, Known, InOrder
<1>3. QED BY <1>1, <1>2, UserDialogue, UpdateDialogue, ModeratorDialogue DEF Next

\* Of two open requests of one user the later was made in the client's dialogue, which
\* looks for none, unless updates of his overlapped or the search, the INSERT or the
\* session failed him: the row, the number and the dialogue agree through every order of
\* handlers and every change of role.
THEOREM OneOpenRequestHolds == Spec => []OneOpenRequest
<1>1. Init => OneDialogue
  BY DEF Init, OneDialogue, OpenOf, Busy, InOrder
<1>2. OneDialogue => OneOpenRequest BY DEF OneDialogue, OneOpenRequest, InOrder
<1>3. QED
  BY <1>1, <1>2, InitTyped, StepTyped, InitRequests, StepRequests, StepDialogue, PTL DEF Spec

\* Types and maps of prompts together, as the run checks them.
THEOREM MapsFitHolds == Spec => []MapsFit
<1>1. TypeOK /\ PromptsIndexed => MapsFit BY DEF MapsFit
<1>2. QED BY <1>1, TypeCorrect, PromptsIndexedHolds, PTL
=============================================================================
