------------------------------- MODULE Support -------------------------------
(***************************************************************************)
(* The users' requests to the support (bot/services/support.ts and the     *)
(* two dialogues flows/executor/support.ts and flows/client/support.ts).   *)
(*                                                                         *)
(* A request, or thread, is a row of support_threads, a card with two      *)
(* buttons in the moderators' chat, and an entry in the memory of the      *)
(* process: `state` (threadsById) and `cards` (threadsByModeratorMessage). *)
(* The Reply button sends a prompt and remembers it in three maps:         *)
(* `prompts` (pendingReplyPrompts), `index` (promptsByModerator) and       *)
(* `byThread` (promptsByThread).  A card and its thread share a name.      *)
(*                                                                         *)
(* A handler is split where it awaits Telegram or the database.            *)
(* Abstractions: the moderators' channel is bound, so that its resolver     *)
(* answers or fails; the header, texts, media and the second way to send an    *)
(* answer are not told apart from the first; the prompt's chat is the      *)
(* card's, so that the aliases of a prompt are empty; a prompt is numbered *)
(* when it is registered.  `newest`, `blind`, `unsearched`, `doubted`,     *)
(* `late`, `spoiled` and `faults` are history variables.                   *)
(***************************************************************************)
EXTENDS Naturals

CONSTANTS
    Users,        \* who writes to the support
    Moderators,
    MaxThreads,   \* bound: requests ever made
    MaxPrompts,   \* bound: prompts ever registered
    Workers,      \* bound: updates handled at the same time
    Faults,       \* what may fail
    MaxFaults,    \* bound: how many failures
    NULL

ASSUME SupportAssumption ==
    /\ MaxThreads \in Nat /\ MaxPrompts \in Nat /\ MaxFaults \in Nat
    /\ Faults \subseteq {"channel", "search", "copy", "insert", "prompt", "keyboard",
                         "update", "session", "crash"}
    /\ NULL \notin Moderators \cup Users \cup Nat

VARIABLES
    rows,         \* support_threads: "none" where there is no row
    owner,        \* user_chat_id of a thread, and in the memory userChatId
    session,     \* session.support.status
    lastKnown,    \* lastKnownModerationChatId is set
    buttons,      \* the cards that have their buttons
    state, cards, prompts, index, byThread,
    nextThread, nextPrompt, running, task,
    newest,       \* the prompt a moderator was shown last
    blind,        \* users whose dialogue began with no look for an open request
    unsearched,   \* requests that were made in such a dialogue
    doubted,      \* users whose updates overlapped or met a failure
    late,         \* requests that were closed while a prompt of theirs was sent
    spoiled,      \* threads whose row a failure, a race or a restart left behind
    faults

disk == <<rows, owner, session, buttons>>
memory == <<lastKnown, state, cards>>
replies == <<prompts, index, byThread, nextPrompt, newest>>
asked == <<blind, unsearched>>
history == <<asked, doubted, spoiled, late, faults>>
vars == <<disk, memory, replies, history, nextThread, running, task>>

Threads == 1 .. MaxThreads
PromptIds == 1 .. MaxPrompts
Statuses == {"none", "open", "closed"}
SupportStatus == {"idle", "awaiting_message"}

Prompt == [thread : Threads, moderator : Moderators]

Task == [phase : {"find", "resolve", "copy", "insert", "save", "prompt", "answer",
                  "keyboard", "update", "notify"},
         user : Users \cup {NULL}, moderator : Moderators \cup {NULL},
         thread : Threads \cup {NULL},   \* the request a handler works on
         prompt : PromptIds \cup {NULL}, \* the prompt an answer goes through
         status : SupportStatus]         \* the handler's copy of the user's session

ASSUME NullAssumption == NULL \notin Prompt \cup Task

Occurs(k) == k \in Faults /\ faults < MaxFaults /\ faults' = faults + 1

Blank == [phase |-> "find", user |-> NULL, moderator |-> NULL, thread |-> NULL,
          prompt |-> NULL, status |-> "idle"]

Busy(w) == task[w] # NULL
To(w, phase) == task' = [task EXCEPT ![w].phase = phase]
End(w) == task' = [task EXCEPT ![w] = NULL]
At(w, phase) == Busy(w) /\ task[w].phase = phase

-----------------------------------------------------------------------------
(* The prompts *)

RegisterPrompt(t, m) ==
    /\ nextPrompt \in PromptIds
    /\ prompts' = [prompts EXCEPT ![nextPrompt] = [thread |-> t, moderator |-> m]]
    /\ index' = [index EXCEPT ![m] = nextPrompt]
    /\ byThread' = [byThread EXCEPT ![t] = @ \cup {nextPrompt}]
    /\ newest' = [newest EXCEPT ![m] = nextPrompt]
    /\ nextPrompt' = nextPrompt + 1

\* Slip: the moderator's entry goes with any prompt of hers.
SlipClearPrompts(P) ==
    /\ prompts' = [p \in PromptIds |-> IF p \in P THEN NULL ELSE prompts[p]]
    /\ index' = [m \in Moderators |->
         IF \E p \in P : prompts[p] # NULL /\ prompts[p].moderator = m THEN NULL ELSE index[m]]
    /\ byThread' = [t \in Threads |-> byThread[t] \ P]
    /\ UNCHANGED <<nextPrompt, newest>>

\* The moderator's entry goes only if it names a prompt that goes.
ClearPrompts(P) ==
    /\ prompts' = [p \in PromptIds |-> IF p \in P THEN NULL ELSE prompts[p]]
    /\ index' = [m \in Moderators |-> IF index[m] \in P THEN NULL ELSE index[m]]
    /\ byThread' = [t \in Threads |-> byThread[t] \ P]
    /\ UNCHANGED <<nextPrompt, newest>>

\* The prompt a message answers: the one it replies to, or the moderator's latest.
PromptFor(m, p) ==
    IF p \in PromptIds /\ prompts[p] # NULL THEN p
    ELSE IF index[m] # NULL /\ prompts[index[m]] # NULL THEN index[m]
    ELSE NULL

-----------------------------------------------------------------------------
(* The users' dialogues.  The session is loaded when a handler begins and   *)
(* saved when it ends.                                                      *)

Begin(w, u, phase, status) ==
    /\ running /\ ~Busy(w)
    /\ task' = [task EXCEPT ![w] = [Blank EXCEPT !.user = u, !.phase = phase,
                                                 !.status = status]]
    /\ doubted' = IF \E v \in Workers : Busy(v) /\ task[v].user = u
                  THEN doubted \cup {u} ELSE doubted
    /\ UNCHANGED <<disk, memory, replies, nextThread, running, unsearched, spoiled, late, faults>>

Doubt(w) == doubted' = doubted \cup {task[w].user}

\* handleSupportPrompt: the executor's dialogue begins with a look for an open request.
Ask(w, u) ==
    /\ Begin(w, u, IF session[u] = "idle" THEN "find" ELSE "save", "awaiting_message")
    /\ UNCHANGED blind

\* promptClientSupport: the client's begins with none.  One user has both dialogues, as
\* he changes between the roles of his private chat.
AskAsClient(w, u) ==
    /\ Begin(w, u, "save", "awaiting_message")
    /\ blind' = IF session[u] = "idle" THEN blind \cup {u} ELSE blind

\* handleSupportMessage, of either dialogue; any command leaves it.
Write(w, u) ==
    /\ session[u] = "awaiting_message"
    /\ Begin(w, u, "resolve", "awaiting_message")
    /\ UNCHANGED blind

Leave(w, u) ==
    /\ session[u] = "awaiting_message"
    /\ Begin(w, u, "save", "idle")
    /\ UNCHANGED blind

OpenOf(u) == {t \in Threads : rows[t] = "open" /\ owner[t] = u}

FindOpenSupportThread(w) ==
    /\ At(w, "find")
    /\ task' = [task EXCEPT ![w].phase = "save",
                            ![w].status = IF OpenOf(task[w].user) # {} THEN "idle" ELSE @]
    /\ UNCHANGED <<disk, memory, replies, history, nextThread, running>>

\* A failed search is taken for "none".
FindFails(w) ==
    /\ At(w, "find") /\ Occurs("search")
    /\ To(w, "save") /\ Doubt(w)
    /\ UNCHANGED <<disk, memory, replies, nextThread, running, spoiled, late, asked>>

\* resolveModerationChannel, or the chat that was used before.
Resolved(w, chat) ==
    /\ At(w, "resolve")
    /\ lastKnown' = (chat \/ lastKnown)
    /\ IF lastKnown'
       THEN /\ nextThread \in Threads
            /\ nextThread' = nextThread + 1
            /\ owner' = [owner EXCEPT ![nextThread] = task[w].user]
            /\ unsearched' = IF task[w].user \in blind THEN unsearched \cup {nextThread}
                             ELSE unsearched
            /\ task' = [task EXCEPT ![w].phase = "copy", ![w].thread = nextThread]
       ELSE /\ task' = [task EXCEPT ![w].phase = "save", ![w].status = "idle"]
            /\ UNCHANGED <<nextThread, owner, unsearched>>
    /\ UNCHANGED <<rows, session, buttons, state, cards, replies, running,
                   blind, doubted, spoiled, late>>

Resolve(w) == Resolved(w, TRUE) /\ UNCHANGED faults
ResolveFails(w) == Resolved(w, FALSE) /\ Occurs("channel")

\* copyMessage and trackThreadState: the card stands in the chat before its row does.
Copy(w) ==
    /\ At(w, "copy")
    /\ LET t == task[w].thread IN
       /\ buttons' = buttons \cup {t}
       /\ state' = [state EXCEPT ![t] = "open"]
       /\ cards' = cards \cup {t}
    /\ To(w, "insert")
    /\ UNCHANGED <<rows, owner, session, lastKnown, replies, history, nextThread, running>>

\* 'skipped': the dialogue goes on waiting for a message.
CopyFails(w) ==
    /\ At(w, "copy") /\ Occurs("copy")
    /\ To(w, "save")
    /\ UNCHANGED <<disk, memory, replies, doubted, spoiled, late, nextThread, running, asked>>

Closes(w, t) == Busy(w) /\ task[w].phase \in {"keyboard", "update"} /\ task[w].thread = t

\* A request that was closed meanwhile, its UPDATE having found no row, stays open.
Insert(w) ==
    /\ At(w, "insert")
    /\ LET t == task[w].thread IN
       /\ rows' = [rows EXCEPT ![t] = "open"]
       /\ spoiled' = IF state[t] = "open" \/ \E v \in Workers : Closes(v, t)
                     THEN spoiled ELSE spoiled \cup {t}
    /\ task' = [task EXCEPT ![w].phase = "save", ![w].status = "idle"]
    /\ UNCHANGED <<owner, session, buttons, memory, replies, doubted, late, faults,
                   nextThread, running, asked>>

InsertFails(w) ==
    /\ At(w, "insert") /\ Occurs("insert")
    /\ spoiled' = spoiled \cup {task[w].thread} /\ Doubt(w)
    /\ task' = [task EXCEPT ![w].phase = "save", ![w].status = "idle"]
    /\ UNCHANGED <<disk, memory, replies, late, nextThread, running, asked>>

\* A dialogue that is over is forgotten.
Over(w) == blind' = IF task[w].status = "idle" THEN blind \ {task[w].user} ELSE blind

\* Slip: the dialogue goes on after a request that was sent.
SlipSave(w) ==
    /\ At(w, "save")
    /\ session' = [session EXCEPT ![task[w].user] =
         IF task[w].thread # NULL THEN "awaiting_message" ELSE task[w].status]
    /\ Over(w) /\ End(w)
    /\ UNCHANGED <<rows, owner, buttons, memory, replies, unsearched, doubted, spoiled, late,
                   faults, nextThread, running>>

Save(w) ==
    /\ At(w, "save")
    /\ session' = [session EXCEPT ![task[w].user] = task[w].status]
    /\ Over(w) /\ End(w)
    /\ UNCHANGED <<rows, owner, buttons, memory, replies, unsearched, doubted, spoiled, late,
                   faults, nextThread, running>>

SaveFails(w) ==
    /\ At(w, "save") /\ Occurs("session")
    /\ End(w) /\ Doubt(w)
    /\ UNCHANGED <<disk, memory, replies, spoiled, late, nextThread, running, asked>>

-----------------------------------------------------------------------------
(* The moderators *)

\* handleReplyAction: the request is looked at before the prompt is sent, not after.
PressReply(w, m, t) ==
    /\ running /\ ~Busy(w) /\ t \in buttons /\ state[t] = "open"
    /\ task' = [task EXCEPT ![w] = [Blank EXCEPT !.moderator = m, !.thread = t,
                                                 !.phase = "prompt"]]
    /\ UNCHANGED <<disk, memory, replies, history, nextThread, running>>

PromptSent(w) ==
    /\ At(w, "prompt")
    /\ RegisterPrompt(task[w].thread, task[w].moderator)
    /\ late' = IF state[task[w].thread] = "open" THEN late ELSE late \cup {task[w].thread}
    /\ End(w)
    /\ UNCHANGED <<disk, memory, doubted, spoiled, faults, nextThread, running, asked>>

\* With a forced reply and without one.
PromptFails(w) ==
    /\ At(w, "prompt") /\ Occurs("prompt")
    /\ End(w)
    /\ UNCHANGED <<disk, memory, replies, doubted, spoiled, late, nextThread, running, asked>>

\* handleModeratorReplyMessage: a message in reply to prompt p, to card c or to neither.
\* A prompt of another moderator leaves the message to the next handlers.
Reply(w, m, p, c) ==
    /\ running /\ ~Busy(w)
    /\ LET q == PromptFor(m, p)
           t == IF q # NULL THEN prompts[q].thread ELSE c IN
       /\ q # NULL => prompts[q].moderator = m
       /\ q = NULL => c \in cards
       /\ IF state[t] = "open"
          THEN /\ task' = [task EXCEPT ![w] =
                    [Blank EXCEPT !.moderator = m, !.thread = t, !.phase = "answer",
                                  !.prompt = q]]
               /\ UNCHANGED <<cards, replies>>
          ELSE /\ IF q # NULL THEN ClearPrompts({q}) /\ UNCHANGED cards
                  ELSE cards' = cards \ {t} /\ UNCHANGED replies
               /\ UNCHANGED task
    /\ UNCHANGED <<disk, lastKnown, state, history, nextThread, running>>

\* copyModeratorReplyToUser: delivered or not, the prompt goes.
Answered(w) ==
    /\ At(w, "answer")
    /\ IF task[w].prompt # NULL THEN ClearPrompts({task[w].prompt}) ELSE UNCHANGED replies
    /\ End(w)
    /\ UNCHANGED <<disk, memory, history, nextThread, running>>

\* handleCloseAction
PressClose(w, t) ==
    /\ running /\ ~Busy(w) /\ t \in buttons /\ state[t] = "open"
    /\ state' = [state EXCEPT ![t] = "closed"]
    /\ task' = [task EXCEPT ![w] = [Blank EXCEPT !.thread = t, !.phase = "keyboard"]]
    /\ UNCHANGED <<disk, lastKnown, cards, replies, history, nextThread, running>>

ClearKeyboard(w) ==
    /\ At(w, "keyboard")
    /\ \/ buttons' = buttons \ {task[w].thread} /\ UNCHANGED faults
       \/ Occurs("keyboard") /\ UNCHANGED buttons
    /\ To(w, "update")
    /\ UNCHANGED <<rows, owner, session, memory, replies, doubted, spoiled, late,
                   nextThread, running, asked>>

\* Slip: the row is left to the memory.
SlipMarkSupportThreadClosed(w) ==
    /\ At(w, "update") /\ To(w, "notify")
    /\ UNCHANGED <<disk, memory, replies, history, nextThread, running>>

\* An UPDATE: it does nothing when the row is not there yet.
MarkSupportThreadClosed(w) ==
    /\ At(w, "update")
    /\ rows' = [rows EXCEPT ![task[w].thread] = IF @ = "open" THEN "closed" ELSE @]
    /\ To(w, "notify")
    /\ UNCHANGED <<owner, session, buttons, memory, replies, history, nextThread, running>>

MarkFails(w) ==
    /\ At(w, "update") /\ Occurs("update")
    /\ spoiled' = spoiled \cup {task[w].thread}
    /\ To(w, "notify")
    /\ UNCHANGED <<disk, memory, replies, doubted, late, nextThread, running, asked>>

\* Slip: the prompts of the request are left to the moderators.
SlipDeleteThreadState(w) ==
    /\ At(w, "notify")
    /\ state' = [state EXCEPT ![task[w].thread] = "none"]
    /\ End(w)
    /\ UNCHANGED <<disk, lastKnown, cards, replies, history, nextThread, running>>

\* notifyUserClosed and deleteThreadState
DeleteThreadState(w) ==
    /\ At(w, "notify")
    /\ LET t == task[w].thread IN
       /\ state' = [state EXCEPT ![t] = "none"]
       /\ cards' = cards \ {t}
       /\ ClearPrompts(byThread[t])
    /\ End(w)
    /\ UNCHANGED <<disk, lastKnown, history, nextThread, running>>

-----------------------------------------------------------------------------
(* The process *)

NoPrompts ==
    /\ prompts' = [p \in PromptIds |-> NULL] /\ index' = [m \in Moderators |-> NULL]
    /\ byThread' = [t \in Threads |-> {}] /\ newest' = [m \in Moderators |-> NULL]
    /\ UNCHANGED nextPrompt

\* What was in flight is half done, and no open request is brought back.
Crash ==
    /\ running /\ Occurs("crash") /\ running' = FALSE
    /\ lastKnown' = FALSE /\ cards' = {} /\ state' = [t \in Threads |-> "none"]
    /\ NoPrompts
    /\ task' = [w \in Workers |-> NULL]
    /\ doubted' = doubted \cup {u \in Users : \E w \in Workers : Busy(w) /\ task[w].user = u}
    /\ spoiled' = spoiled \cup {t \in Threads : rows[t] = "open"}
                        \cup {t \in Threads : \E w \in Workers : Closes(w, t)}
    /\ UNCHANGED <<disk, late, nextThread, asked>>

\* The two message numbers of a row are bigint, which the driver gives as text: the
\* check for typeof number skips every row as malformed, and nothing is restored.
RestoreSupportThreads ==
    /\ ~running /\ running' = TRUE
    /\ UNCHANGED <<disk, memory, replies, history, nextThread, task>>

-----------------------------------------------------------------------------

Init ==
    /\ rows = [t \in Threads |-> "none"] /\ owner = [t \in Threads |-> NULL]
    /\ session = [u \in Users |-> "idle"]
    /\ buttons = {} /\ cards = {} /\ lastKnown = FALSE
    /\ state = [t \in Threads |-> "none"]
    /\ prompts = [p \in PromptIds |-> NULL] /\ index = [m \in Moderators |-> NULL]
    /\ byThread = [t \in Threads |-> {}] /\ newest = [m \in Moderators |-> NULL]
    /\ nextThread = 1 /\ nextPrompt = 1 /\ running = TRUE
    /\ task = [w \in Workers |-> NULL]
    /\ blind = {} /\ unsearched = {}
    /\ doubted = {} /\ spoiled = {} /\ late = {} /\ faults = 0

UserStep(w) ==
    \/ FindOpenSupportThread(w) \/ FindFails(w) \/ Resolve(w) \/ ResolveFails(w)
    \/ Copy(w) \/ CopyFails(w) \/ Insert(w) \/ InsertFails(w) \/ Save(w) \/ SaveFails(w)

ModeratorStep(w) ==
    \/ PromptSent(w) \/ PromptFails(w) \/ Answered(w) \/ ClearKeyboard(w)
    \/ MarkSupportThreadClosed(w) \/ MarkFails(w) \/ DeleteThreadState(w)

Update(w) ==
    \/ \E u \in Users : Ask(w, u) \/ AskAsClient(w, u) \/ Write(w, u) \/ Leave(w, u)
    \/ \E m \in Moderators, t \in Threads : PressReply(w, m, t)
    \/ \E m \in Moderators, p \in PromptIds : Reply(w, m, p, NULL)
    \/ \E m \in Moderators, c \in Threads \cup {NULL} : Reply(w, m, NULL, c)
    \/ \E t \in Threads : PressClose(w, t)

Next ==
    \/ \E w \in Workers : UserStep(w) \/ ModeratorStep(w) \/ Update(w)
    \/ Crash \/ RestoreSupportThreads

Spec == Init /\ [][Next]_vars

-----------------------------------------------------------------------------
(* Properties *)

\* The variables keep their types: among them, an entry of the three maps of prompts
\* always names a prompt, a moderator or a request that exists.
TypeOK ==
    /\ rows \in [Threads -> Statuses] /\ owner \in [Threads -> Users \cup {NULL}]
    /\ session \in [Users -> SupportStatus] /\ lastKnown \in BOOLEAN
    /\ buttons \subseteq Threads /\ cards \subseteq Threads
    /\ state \in [Threads -> Statuses]
    /\ prompts \in [PromptIds -> Prompt \cup {NULL}]
    /\ index \in [Moderators -> PromptIds \cup {NULL}]
    /\ newest \in [Moderators -> PromptIds \cup {NULL}]
    /\ byThread \in [Threads -> SUBSET PromptIds]
    /\ nextThread \in 1 .. MaxThreads + 1 /\ nextPrompt \in 1 .. MaxPrompts + 1
    /\ running \in BOOLEAN /\ task \in [Workers -> Task \cup {NULL}]
    /\ blind \subseteq Users /\ unsearched \subseteq Threads
    /\ doubted \subseteq Users /\ spoiled \subseteq Threads
    /\ late \subseteq Threads /\ faults \in 0 .. MaxFaults

\* The maps of prompts agree with each other whatever order prompts are sent, answered
\* and dropped with their request in: a moderator's entry names a pending prompt of
\* hers, a request's entry exactly its pending prompts, and the prompt a moderator was
\* shown last is hers to answer for as long as it is pending (registerPrompt,
\* clearPrompt).
PromptsIndexed ==
    /\ \A m \in Moderators : index[m] # NULL =>
         prompts[index[m]] # NULL /\ prompts[index[m]].moderator = m
    /\ \A t \in Threads :
         byThread[t] = {p \in PromptIds : prompts[p] # NULL /\ prompts[p].thread = t}
    /\ \A m \in Moderators :
         newest[m] # NULL /\ prompts[newest[m]] # NULL => index[m] = newest[m]

\* Whoever has an open request makes no other through the executor's dialogue, in
\* whatever order he changes roles, asks, writes and is closed: the search, the row and the
\* session keep him to one, unless two updates of his overlapped or the search, the INSERT
\* or the session failed him (handleSupportPrompt).  A later request beside an open one
\* was made in a dialogue of the client's (promptClientSupport).
OneOpenRequest ==
    \A u \in Users \ doubted : \A t1, t2 \in OpenOf(u) : t1 < t2 => t2 \in unsearched

\* An open row, for which the executor is refused a new request, belongs to a request
\* the moderators can still answer and close, and an open request has its row, except
\* where a statement failed, the closing died half-way, the UPDATE came before the INSERT,
\* or the process has stopped since: no restart brings a request back.
OpenRowsAnswerable ==
    running => \A t \in Threads \ spoiled :
      /\ rows[t] = "open" => \/ state[t] = "open" /\ t \in cards /\ t \in buttons
                             \/ \E w \in Workers : Closes(w, t)
      /\ state[t] = "open" => rows[t] = "open" \/ \E w \in Workers :
                                                    At(w, "insert") /\ task[w].thread = t

\* A request is never left half closed: as long as it is marked closed its closing goes
\* on, and after that neither its card nor a prompt leads to it, unless the prompt was
\* being sent while the request was closed (handleCloseAction, deleteThreadState).
ClosedIsForgotten ==
    /\ \A t \in Threads : state[t] = "closed" =>
         \E w \in Workers : /\ Busy(w) /\ task[w].thread = t
                            /\ task[w].phase \in {"keyboard", "update", "notify"}
    /\ \A t \in Threads \ late : state[t] = "none" => t \notin cards /\ byThread[t] = {}

\* The memory of the process is well-formed.
MapsFit == TypeOK /\ PromptsIndexed
=============================================================================
