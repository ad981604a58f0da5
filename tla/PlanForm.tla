------------------------------ MODULE PlanForm ------------------------------
(***************************************************************************)
(* The forms of bot/channels/commands/form.ts in the moderators' chat: the *)
(* wizard that collects a new plan, one per thread of the chat, and the    *)
(* editing of a comment, which takes the next text of its thread.  Both    *)
(* are kept in the one session of the chat.                                *)
(*                                                                         *)
(* An update loads the session (`copy` in its task), its handler changes   *)
(* the copy, and the copy is saved, whatever was saved meanwhile; the      *)
(* confirmation and the comment await the table and the list of mutations  *)
(* in between.  A date survives the way through storage only as a text.    *)
(*                                                                         *)
(* Abstractions: what a text says is what its step makes of it; nicknames  *)
(* and comments are not kept; a card once shown can be pressed for good,   *)
(* as its deletion may fail and an overlapping update may forget it;       *)
(* the other commands end a plan or make it live again in one step; their  *)
(* failures, the reminders and the list in detail are in ExecutorPlans.    *)
(* `said`, `shown`, `open`, `troubles` and the mark `beside` of a plan are *)
(* history.                                                                *)
(***************************************************************************)
EXTENDS ChatUpdates

CONSTANTS
    Threads,      \* threads of the moderators' chat
    Phones, Choices,
    MaxPlans,     \* bound: plans ever created
    MaxQueue,     \* bound: mutations in the list
    Again         \* bound: what may go wrong again, after one of the same

ASSUME FormAssumption ==
    /\ MaxPlans \in Nat /\ MaxQueue \in Nat /\ MaxTroubles \in Nat
    /\ Troubles \subseteq {"overlap", "telegram", "db", "redis", "save", "crash"}
    /\ Again \subseteq Troubles
    /\ NULL \notin Phones \cup Choices \cup Nat

VARIABLES
    session,      \* moderationPlans of the chat's session
    plans,        \* executor_plans, in the order of their ids
    queue,        \* the list of mutations
    said,         \* the phones answered in a thread
    shown,        \* the cards with buttons ever shown in a thread
    open          \* threads with an edit asked for and not answered

history == <<said, shown, open>>
formVars == <<session, plans, queue, task, history, troubles>>

PlanIds == 1 .. MaxPlans
Steps == {"phone", "nickname", "plan", "details", "summary"}
Form == [step : Steps, phone : Phones \cup {NULL}, choice : Choices \cup {NULL},
         start : {"none", "date", "text"}]
Session == [forms : [Threads -> Form \cup {NULL}], edits : [Threads -> PlanIds \cup {NULL}]]

Mutation == [type : {"create"}, thread : Threads, phone : Phones, choice : Choices]
              \cup [type : {"comment", "edit"}, plan : PlanIds]
\* A live plan is active or blocked; `beside`: it was made live again beside a live plan of
\* its phone.
Plan == [thread : Threads, phone : Phones, choice : Choices,
         status : {"live", "completed", "deleted"}, card : {"none", "unknown", "known"},
         beside : BOOLEAN]

\* An update that was just loaded is in the phase of its kind.
Kinds == {"form", "text", "select", "confirm", "cancel", "edit"}
FormTask == [thread : Threads, copy : Session, mut : Mutation \cup {NULL},
             phase : Kinds \cup {"find", "flush", "own", "reply", "enqueue", "save"}]

\* "No update" is none of the updates.
ASSUME FormNullAssumption == NULL \notin FormTask

Busy(w) == task[w] # NULL
Live(p) == plans[p].status = "live"
Exists(p) == plans[p].status # "deleted"
FormOf(w) == task[w].copy.forms[task[w].thread]
EditOf(w) == task[w].copy.edits[task[w].thread]

\* The handler is done; its copy may have a new form in the thread.
Done(w) == task' = [task EXCEPT ![w].mut = NULL, ![w].phase = "save"]
Put(w, f) ==
    task' = [task EXCEPT ![w].copy.forms[task[w].thread] = f, ![w].mut = NULL, ![w].phase = "save"]

\* A trouble as far as the bounds let it happen.
Fails(k) == Occurs(k) /\ (troubles # <<>> => k \in Again /\ Met(Again))

-----------------------------------------------------------------------------
(* The wizard: startWizard, handleWizardTextMessage, handlePlanSelection    *)

Blank == [step |-> "phone", phone |-> NULL, choice |-> NULL, start |-> "none"]

HandleForm(w) ==
    /\ At(w, "form")
    /\ Put(w, Blank)
    /\ Quiet /\ UNCHANGED <<session, plans, queue, history>>

\* The wizard gets the texts that no edit takes.
HandlesText(w) == At(w, "text") /\ EditOf(w) = NULL
AtStep(w, steps) == HandlesText(w) /\ FormOf(w) # NULL /\ FormOf(w).step \in steps

\* A text without a form, a phone that is none, or a text where a button is expected.
IgnoreText(w) ==
    /\ HandlesText(w) /\ (FormOf(w) # NULL => FormOf(w).step \in {"phone", "plan"})
    /\ Done(w)
    /\ Quiet /\ UNCHANGED <<session, plans, queue, history>>

AnswerPhone(w) ==
    /\ AtStep(w, {"phone"})
    /\ \E phone \in Phones :
         /\ Put(w, [FormOf(w) EXCEPT !.phone = phone, !.step = "nickname"])
         /\ said' = [said EXCEPT ![task[w].thread] = @ \cup {phone}]
    /\ Quiet /\ UNCHANGED <<session, plans, queue, shown, open>>

Show(t, card) == shown' = [shown EXCEPT ![t] = @ \cup {card}]

AnswerNickname(w) ==
    /\ AtStep(w, {"nickname"})
    /\ Put(w, [FormOf(w) EXCEPT !.step = "plan"])
    /\ Show(task[w].thread, "plan")
    /\ Quiet /\ UNCHANGED <<session, plans, queue, said, open>>

\* parseWizardDetailsInput: a text without a date leaves the date alone.
Detailed(f, text) ==
    [f EXCEPT !.step = "summary",
              !.start = CASE text = "skip" -> "none" [] text = "date" -> "date" [] OTHER -> @]

\* The summary takes the present for a start that is missing, and remembers it.  A start
\* that came back from storage as a text cannot be formatted, nor is there a summary when
\* Telegram refuses the step before it: the handler throws, the session is saved.
AnswerDetails(w) ==
    /\ AtStep(w, {"details", "summary"})
    /\ \E text \in {"skip", "date", "remark"} : LET f == Detailed(FormOf(w), text) IN
         \/ /\ f.start # "text"
            /\ Put(w, [f EXCEPT !.start = "date"])
            /\ Show(task[w].thread, "summary") /\ Quiet
         \/ /\ IF f.start = "text" THEN Quiet ELSE Fails("telegram")
            /\ Put(w, f) /\ UNCHANGED shown
    /\ UNCHANGED <<session, plans, queue, said, open>>

\* Slip: the phone is not asked for.
SlipSelect(w) ==
    /\ At(w, "select")
    /\ IF FormOf(w) = NULL THEN Done(w)
       ELSE \E c \in Choices : Put(w, [FormOf(w) EXCEPT !.choice = c, !.step = "details"])
    /\ Quiet /\ UNCHANGED <<session, plans, queue, history>>

\* Whether the details can be shown afterwards makes no difference to the form.
Select(w) ==
    /\ At(w, "select")
    /\ IF FormOf(w) = NULL THEN Done(w)
       ELSE IF FormOf(w).phone = NULL THEN Done(w)
       ELSE \E c \in Choices : Put(w, [FormOf(w) EXCEPT !.choice = c, !.step = "details"])
    /\ Quiet /\ UNCHANGED <<session, plans, queue, history>>

-----------------------------------------------------------------------------
(* handleSummaryDecision                                                     *)

Cancel(w) ==
    /\ At(w, "cancel")
    /\ Put(w, NULL)
    /\ Quiet /\ UNCHANGED <<session, plans, queue, history>>

Complete(f) == f # NULL /\ f.phone # NULL /\ f.choice # NULL

ConfirmRefused(w) ==
    /\ At(w, "confirm") /\ ~Complete(FormOf(w))
    /\ Done(w)
    /\ Quiet /\ UNCHANGED <<session, plans, queue, history>>

\* The end of the plan is computed from the start: a text has no getTime, and the handler
\* throws.
Confirm(w) ==
    LET f == FormOf(w) IN
    /\ At(w, "confirm") /\ Complete(f)
    /\ IF f.start = "text"
       THEN Done(w)
       ELSE task' = [task EXCEPT ![w].phase = "find",
                                 ![w].copy.forms[task[w].thread].start = "date",
                                 ![w].mut = [type |-> "create", thread |-> task[w].thread,
                                             phone |-> f.phone, choice |-> f.choice]]
    /\ Quiet /\ UNCHANGED <<session, plans, queue, history>>

HasPlan(phone) == \E p \in 1 .. Len(plans) : Live(p) /\ plans[p].phone = phone

\* Slip: the plan is created whether there is one or not.
SlipFindExisting(w) ==
    /\ At(w, "find")
    /\ To(w, "flush")
    /\ Quiet /\ UNCHANGED <<session, plans, queue, history>>

\* findActiveExecutorPlanByPhone: the form stays when there is a plan.
FindExisting(w) ==
    /\ At(w, "find")
    /\ IF HasPlan(task[w].mut.phone) THEN Done(w) ELSE To(w, "flush")
    /\ Quiet /\ UNCHANGED <<session, plans, queue, history>>

FindFails(w) ==
    /\ At(w, "find") /\ Fails("db")
    /\ Done(w)
    /\ UNCHANGED <<session, plans, queue, history>>

-----------------------------------------------------------------------------
(* handleEditCallback and handlePlanEditTextMessage                          *)

\* Both flush the list first.
HandleEdit(w) ==
    /\ \/ At(w, "edit") /\ To(w, "flush")
       \/ /\ At(w, "text") /\ EditOf(w) # NULL
          /\ task' = [task EXCEPT ![w].phase = "flush",
                                  ![w].mut = [type |-> "comment", plan |-> EditOf(w)]]
    /\ Quiet /\ UNCHANGED <<session, plans, queue, history>>

\* The row must exist, and know its card.
OpenEdit(w) ==
    LET p == task[w].mut.plan IN
    /\ At(w, "own") /\ task[w].mut.type = "edit"
    /\ IF Exists(p) /\ plans[p].card = "known"
       THEN /\ task' = [task EXCEPT ![w].copy.edits[task[w].thread] = p,
                                    ![w].mut = NULL, ![w].phase = "save"]
            /\ open' = open \cup {task[w].thread}
       ELSE Done(w) /\ UNCHANGED open
    /\ Quiet /\ UNCHANGED <<session, plans, queue, said, shown>>

OpenEditFails(w) ==
    /\ At(w, "own") /\ task[w].mut.type = "edit" /\ Fails("db")
    /\ Done(w)
    /\ UNCHANGED <<session, plans, queue, history>>

-----------------------------------------------------------------------------
(* handleMutationWithFallback                                                *)

Created(m) == [thread |-> m.thread, phone |-> m.phone, choice |-> m.choice,
               status |-> "live", card |-> "none", beside |-> FALSE]

Apply(m) ==
    IF m.type = "create" THEN Len(plans) < MaxPlans /\ plans' = Append(plans, Created(m))
    ELSE UNCHANGED plans

\* A mutation of the list that is applied is gone; the first that is not ends the flush.
Flush(w) ==
    /\ At(w, "flush")
    /\ IF queue = <<>> THEN To(w, "own") /\ UNCHANGED <<plans, queue>>
       ELSE Apply(Head(queue)) /\ queue' = Tail(queue) /\ UNCHANGED task
    /\ Quiet /\ UNCHANGED <<session, history>>

FlushFails(w) ==
    /\ At(w, "flush") /\ queue # <<>> /\ Fails("db")
    /\ To(w, "own")
    /\ UNCHANGED <<session, plans, queue, history>>

\* A comment of a plan that is gone changes nothing and leaves the edit as it is.
Own(w) ==
    LET m == task[w].mut IN
    /\ At(w, "own") /\ m.type # "edit"
    /\ Apply(m)
    /\ IF m.type = "create" THEN To(w, "reply") /\ UNCHANGED open
       ELSE /\ IF Exists(m.plan) THEN To(w, "reply") ELSE Done(w)
            /\ open' = IF Exists(m.plan) THEN open \ {task[w].thread} ELSE open
    /\ Quiet /\ UNCHANGED <<session, queue, said, shown>>

OwnFails(w) ==
    /\ At(w, "own") /\ task[w].mut.type # "edit" /\ Fails("db")
    /\ To(w, "enqueue")
    /\ UNCHANGED <<session, plans, queue, history>>

\* The last plan of the phone without a card is the one just created.
Uncarded(m) == {p \in 1 .. Len(plans) : plans[p].card = "none" /\ plans[p].phone = m.phone}
Newest(m) == CHOOSE p \in Uncarded(m) : \A q \in Uncarded(m) : q <= p

\* The card of a new plan is posted and, if the second statement succeeds, stored.
PostCard(m) ==
    \E card \in {"none", "unknown", "known"} : plans' = [plans EXCEPT ![Newest(m)].card = card]

\* The form or the edit is closed, the card posted and the reminder scheduled.
Reply(w) ==
    LET t == task[w].thread
        m == task[w].mut IN
    /\ At(w, "reply")
    /\ IF m.type = "comment"
       THEN /\ task' = [task EXCEPT ![w].copy.edits[t] = NULL,
                                    ![w].mut = NULL, ![w].phase = "save"]
            /\ UNCHANGED plans
       ELSE Put(w, NULL) /\ PostCard(m)
    /\ Quiet /\ UNCHANGED <<session, queue, history>>

\* The answer is given inside the try of the statement: when Telegram refuses it the
\* applied mutation is queued, and the form or the edit stays.
ReplyFails(w) ==
    /\ At(w, "reply") /\ Fails("telegram")
    /\ To(w, "enqueue")
    /\ UNCHANGED <<session, plans, queue, history>>

\* The reminder of a new plan cannot be scheduled: the form is closed and the card posted, and
\* the applied mutation is queued.
ReminderFails(w) ==
    /\ At(w, "reply") /\ task[w].mut.type = "create" /\ Fails("redis")
    /\ task' = [task EXCEPT ![w].copy.forms[task[w].thread] = NULL, ![w].phase = "enqueue"]
    /\ PostCard(task[w].mut)
    /\ UNCHANGED <<session, queue, history>>

Enqueue(w) ==
    /\ At(w, "enqueue") /\ Len(queue) < MaxQueue
    /\ queue' = Append(queue, task[w].mut)
    /\ Done(w)
    /\ Quiet /\ UNCHANGED <<session, plans, history>>

EnqueueFails(w) ==
    /\ At(w, "enqueue") /\ Fails("redis")
    /\ Done(w)
    /\ UNCHANGED <<session, plans, queue, history>>

-----------------------------------------------------------------------------
(* The update around its handler: middlewares/session.ts                     *)

\* What begins while an update is handled overlaps with it.
Overlapping == IF \E v \in Workers : Busy(v) THEN Fails("overlap") ELSE Quiet

\* getThreadKey: the forms of a chat are kept apart by their threads.
Begin(w, kind, t, m) ==
    /\ ~Busy(w)
    /\ task' = [task EXCEPT ![w] = [thread |-> t, copy |-> session, mut |-> m, phase |-> kind]]
    /\ Overlapping
    /\ UNCHANGED <<session, plans, queue, history>>

\* A moderator's text or press: of a button that was shown, or of a card's.
ReceiveUpdate(w) ==
    \E t \in Threads :
      \/ \E kind \in {"form", "text"} : Begin(w, kind, t, NULL)
      \/ "plan" \in shown[t] /\ Begin(w, "select", t, NULL)
      \/ "summary" \in shown[t] /\ \E kind \in {"confirm", "cancel"} : Begin(w, kind, t, NULL)
      \/ \E p \in 1 .. Len(plans) :
           /\ plans[p].card # "none" /\ plans[p].thread = t
           /\ Begin(w, "edit", t, [type |-> "edit", plan |-> p])

\* JSON.stringify: a date becomes a text, and stays one.
StoredForms(s) ==
    [s EXCEPT !.forms = [t \in Threads |->
       IF s.forms[t] = NULL THEN NULL
       ELSE [s.forms[t] EXCEPT !.start = IF @ = "date" THEN "text" ELSE @]]]

\* Slip: the forms of the chat's threads are one.
SlipSave(w) ==
    /\ At(w, "save")
    /\ session' = [StoredForms(task[w].copy) EXCEPT
                     !.forms = [t \in Threads |->
                                  StoredForms(task[w].copy).forms[task[w].thread]]]
    /\ task' = [task EXCEPT ![w] = NULL]
    /\ Quiet /\ UNCHANGED <<plans, queue, history>>

SaveForms(w) ==
    /\ At(w, "save")
    /\ session' = StoredForms(task[w].copy)
    /\ task' = [task EXCEPT ![w] = NULL]
    /\ Quiet /\ UNCHANGED <<plans, queue, history>>

SaveFormsFails(w) ==
    /\ At(w, "save") /\ Fails("save")
    /\ task' = [task EXCEPT ![w] = NULL]
    /\ UNCHANGED <<session, plans, queue, history>>

FormCrash ==
    /\ \E w \in Workers : Busy(w)
    /\ Fails("crash")
    /\ task' = [w \in Workers |-> NULL]
    /\ UNCHANGED <<session, plans, queue, history>>

-----------------------------------------------------------------------------
(* The other commands and the reminders                                      *)

\* A deletion, and the completion after the last reminder.
Delete ==
    \E p \in 1 .. Len(plans) :
      /\ Exists(p) /\ plans' = [plans EXCEPT ![p].status = "deleted", ![p].beside = FALSE]
      /\ Quiet /\ UNCHANGED <<session, queue, task, history>>

Finish ==
    \E p \in 1 .. Len(plans) :
      /\ Live(p) /\ plans' = [plans EXCEPT ![p].status = "completed", ![p].beside = FALSE]
      /\ Quiet /\ UNCHANGED <<session, queue, task, history>>

\* An extension, a blocking or an unblocking makes any plan live, and looks for no other of the
\* phone.
Revive ==
    \E p \in 1 .. Len(plans) :
      /\ plans[p].status = "completed"
      /\ plans' = [plans EXCEPT ![p].status = "live", ![p].beside = HasPlan(plans[p].phone)]
      /\ Overlapping /\ UNCHANGED <<session, queue, task, history>>

FormInit ==
    /\ session = [forms |-> [t \in Threads |-> NULL], edits |-> [t \in Threads |-> NULL]]
    /\ plans = <<>> /\ queue = <<>> /\ task = [w \in Workers |-> NULL]
    /\ said = [t \in Threads |-> {}] /\ shown = [t \in Threads |-> {}]
    /\ open = {} /\ troubles = <<>>

HandleUpdate(w) ==
    \/ HandleForm(w) \/ IgnoreText(w) \/ AnswerPhone(w) \/ AnswerNickname(w) \/ AnswerDetails(w)
    \/ Select(w) \/ Cancel(w) \/ ConfirmRefused(w) \/ Confirm(w) \/ FindExisting(w) \/ FindFails(w)
    \/ HandleEdit(w) \/ OpenEdit(w) \/ OpenEditFails(w) \/ Flush(w) \/ FlushFails(w)
    \/ Own(w) \/ OwnFails(w) \/ Reply(w) \/ ReplyFails(w) \/ ReminderFails(w)
    \/ Enqueue(w) \/ EnqueueFails(w) \/ SaveForms(w) \/ SaveFormsFails(w)

FormNext ==
    \/ \E w \in Workers : ReceiveUpdate(w) \/ HandleUpdate(w)
    \/ FormCrash \/ Delete \/ Finish \/ Revive

FormSpec == FormInit /\ [][FormNext]_formVars

-----------------------------------------------------------------------------
(* Properties *)

\* The variables keep their types.
FormTypeOK ==
    /\ session \in Session
    /\ plans \in Seq(Plan) /\ Len(plans) <= MaxPlans
    /\ queue \in Seq(Mutation) /\ Len(queue) <= MaxQueue
    /\ task \in [Workers -> FormTask \cup {NULL}]
    /\ said \in [Threads -> SUBSET Phones] /\ shown \in [Threads -> SUBSET {"plan", "summary"}]
    /\ open \subseteq Threads
    /\ troubles \in Seq(Troubles) /\ Len(troubles) <= MaxTroubles

\* Texts, buttons of old cards and updates that overwrite each other never bring a form to
\* a step whose answers it has not got, in the session or in a copy.
Fits(f) ==
    f # NULL => /\ f.step # "phone" => f.phone # NULL
                /\ f.step \in {"details", "summary"} => f.choice # NULL
FormFits ==
    /\ \A t \in Threads : Fits(session.forms[t])
    /\ \A w \in Workers : Busy(w) => \A t \in Threads : Fits(task[w].copy.forms[t])

\* The forms of two threads never mix: a plan, created or still in the list, has the phone
\* that was answered in its own thread, where its card is posted.
PlansAsAnswered ==
    /\ \A p \in 1 .. Len(plans) : plans[p].phone \in said[plans[p].thread]
    /\ \A i \in 1 .. Len(queue) :
         queue[i].type = "create" => queue[i].phone \in said[queue[i].thread]

\* A phone has one live plan (the form refuses «вместо создания дубликата»), unless one of two
\* was completed and made live again beside the other, two updates were handled together, or a
\* create went through the list or met a failure of Telegram or of its reminder on its way: the
\* check is not repeated when it is applied.
OnePlanPerPhone ==
    Met({"overlap", "telegram", "db", "redis"}) \/
    \A p, q \in 1 .. Len(plans) :
       Live(p) /\ Live(q) /\ plans[p].phone = plans[q].phone =>
         p = q \/ plans[p].beside \/ plans[q].beside

\* The text after a comment is not taken for another comment, unless the comment's answer,
\* its statement or the saving of the session failed, or updates overlapped.
CommentsAsked ==
    \A w \in Workers :
       At(w, "own") /\ task[w].mut.type = "comment" /\ troubles = <<>> => task[w].thread \in open

\* A text or a press finds the form and the edit it belongs to.
FormsSound == FormTypeOK /\ FormFits /\ CommentsAsked
=============================================================================
