# 7kyz-bot: a verification project in TLA+

The program is a Telegram bot (TypeScript, PostgreSQL, Redis) through which clients
order taxis and deliveries, executors take the orders in a channel, and moderators
keep the paid plans of the executors; a web application creates and cancels orders
over HTTP. This directory holds TLA+ modules of its core logic, the TLC runs that
check them on small instances, and proofs checked by TLAPS.

Paths below are relative to the repository's `src/` directory.

## The system and its parts

| Part | State | Operations | Talks to |
| --- | --- | --- | --- |
| Order repository `db/orders.ts` | `orders`, `users.has_active_order`, the gauge | create, publish, claim, release, reclaim, start, complete, restore, cancel (three ways), expire | called by everything that touches an order; emits status events |
| Drivers' channel `bot/channels/ordersChannel.ts` | the cards in Telegram; in memory `orderStates`, `orderDismissals`, two maps of undo entries | publish, accept, decline, release, complete, two undo buttons, clean-up after a cancellation | repository (a transaction per press), Telegram |
| Web application `http/spaOrders.ts`, `services/orderEvents.ts` | listeners of an event emitter | create, cancel, read, stream | repository, channel |
| Client's orders `bot/flows/client/*` | the session's wizard state | collect, confirm, list, cancel | session, repository, channel |
| Executor's menu `bot/flows/executor/orders.ts` | none of its own | list, two-step completion | repository |
| Executor plans: commands `bot/channels/commands/form.ts` | `executor_plans`, `executor_blocks`; wizard state | create, extend, block, unblock, mute, comment, delete | mutation queue, reminders |
| Mutation queue `infra/executorPlanQueue.ts` | a Redis list | flush, enqueue, apply | plans, listener of the reminders |
| Reminders `jobs/executorPlanReminders.ts` | BullMQ jobs; `reminder_index` | schedule, run, list at start | plans, queue, Telegram |
| Session `bot/middlewares/session.ts`, jobs `paymentFollowUp`, `nudger` | a row per chat, its copy in Redis | load, save, safe mode, background writes | every handler |
| Phones and access `bot/services/executorAccess.ts`, `middlewares/auth.ts`, `infra/userPhoneQueue.ts` | `users.phone`, a cache and its backup in Redis, a list of phones | check in, share a phone, read through, flush | channel, every update |
| Button guards `middlewares/idempotency.ts`, `services/callbackTokens.ts`, ... | `recent_actions`, tokens | register, reject duplicates | every button |
| Moderation queues `bot/moderation/*` | the memory of the process, `callback_map` | submit, decide, load, restore | subscriptions, moderators |
| Subscriptions `db/subscriptions.ts`, `jobs/scheduler.ts`, `bot/channels/membership.ts`, `joinRequests.ts` | `subscriptions`, `payments`, `users`; who is in the channel | activate, warn, end, admit, expel | queue of payments, Telegram |
| Support `bot/services/support.ts`, `flows/*/support.ts` | `support_threads`; in memory the requests and three maps of prompts | open, reply, close, restore | users, moderators, session |

What is hard in it: updates are handled concurrently and each handler awaits the
database, Redis and Telegram many times; transactions lock with SKIP LOCKED and run at
READ COMMITTED; effects in Telegram cannot be rolled back; part of the state is in the
memory of the process and lost with it; failed commands are queued and replayed;
listeners are started and not awaited. `PROJECT.json` lists the hazards at their lines.

## The modules

| Module | Models | Role |
| --- | --- | --- |
| `OrderLifecycle` | what an order promises: its statuses and the moves between them | abstract specification |
| `Orders` | `db/orders.ts` | one action per statement or transaction; implements `OrderLifecycle` |
| `OrdersProofs` | | theorems about `Orders` |
| `OrdersChannel` | `ordersChannel.ts` and the handlers that cancel and complete | composes with `Orders` (`DB == INSTANCE Orders`), whose operations are its only way to the tables |
| `OrdersChannelProofs` | | theorems about `OrdersChannel` (uses those of `OrdersProofs` by `INSTANCE`) |
| `ExecutorPlans` | `form.ts`, `executorPlanQueue.ts`, `executorPlanReminders.ts`, `db/executorPlans.ts` | commands, list, listener, worker |
| `ExecutorPlansProofs` | | theorems about `ExecutorPlans` |
| `ClientOrders` | `taxiOrderFlow.ts`, `deliveryOrderFlow.ts`, `citySelect.ts`, `session.ts`, `db/sessions.ts`, `sessionCache.ts`, `auth.ts` (the city) | a client's chat: wizards over a session that concurrent updates copy |
| `ClientOrdersProofs` | | theorems about `ClientOrders` |
| `ChatUpdates` | what `PlanForm` and `Sessions` share: workers with an update each, at a phase, and the troubles met | extended by both |
| `PlanForm` | the wizard and the edits of `form.ts`, with `session.ts` and the list of mutations | the moderators' chat: the forms of several threads in one session |
| `Support` | `support.ts`, `flows/executor/support.ts`, `flows/client/support.ts` | requests to the moderators |
| `SupportProofs` | | theorems about `Support` |
| `ExecutorAccess` | `auth.ts`, `phoneCollect.ts`, `executorAccess.ts`, `userPhoneQueue.ts`, `userPhoneSync.ts` | a phone on its way to its row, and the cached access |
| `ExecutorAccessProofs` | | theorems about `ExecutorAccess` |
| `Sessions` | `session.ts`, `db/sessions.ts`, `sessionCache.ts`, `ui.ts`, `paymentFollowUp.ts`, `nudger.ts` | one row that updates, screens and jobs write |
| `ChatUpdatesProofs` | | theorems about `Sessions` and `PlanForm` |
| `Subscriptions` | `queue.ts`, `paymentQueue.ts`, `db/subscriptions.ts`, `callbackMap.ts`, `scheduler.ts`, `membership.ts`, `joinRequests.ts` | payments, the days they buy, and the channel |
| `SubscriptionsProofs` | | theorems about `Subscriptions` |
| `MCOrders`, `MCOrdersChannel`, `MCExecutorPlans`, `MCClientOrders`, `MCPlanForm`, `MCSupport`, `MCExecutorAccess`, `MCSessions`, `MCSubscriptions` | | instances for TLC |

Operators whose comment begins with *Slip* are mistaken forms of the definition that
follows them. They are used by no specification; they exist to check that each property
fails when the code is wrong in that way. The type invariant of a module is a conjunct
of one of the invariants its run checks (`CompletionsFit`, `MemoryAgrees`, `MapsFit`, ...),
whose other conjuncts are named beside it.

### Orders

`orders[o]` is the row (status, owner, whether completed_at is set, the channel message,
whether it is stale enough to expire), `hasActive[e]` the flag in `users`, `gauge` the
Prometheus gauge, `tx` the completions that have read and not committed. A transaction
that takes the row's lock first and writes only that row is one action. The exception
is `completeOrderByExecutor`: it reads the executor's *other* orders at READ COMMITTED,
so it is split into `CompleteBegin` and `CompleteCommit`, and `Free(o)` says that the row
is not locked (SKIP LOCKED makes the others give up rather than wait).

### OrdersChannel

`cards[m]` is a message in the channel (live, without buttons, deleted), `states` the
in-memory `orderStates`. The map is keyed by the order's id; a `bigint` comes from the
driver as text, a button's payload is parsed to a number, and a JavaScript `Map` keeps the
two apart, so `states` has a text side and a number side and each handler uses the one
the code uses. `tasks` are handlers between two awaits; the map is written and an undo entry
consumed before the commit or the transaction that follows (`PublishRemember`, `UndoRelease`,
`UndoComplete`). The transactions of the channel are serializable: one that finds its row locked
waits with the snapshot it has (`Wait`), and is refused when the holder of the lock has changed
the row (`Refused`, PostgreSQL's 40001). The kind of an executor is no constant: role choice
changes it at any time, so each press carries the kind its presser has by then. `Faults` turns on
refused Telegram calls, failed or unanswered commits, crashes, an unbound channel and presses of
buttons already withdrawn.

### ExecutorPlans

`plans` is the table, `queue` the Redis list, `jobs` the BullMQ jobs with the id
`plan:stage`, `running` the job in the worker (concurrency 1, its job is locked),
`schedules` the reschedulings that `void handleMutationOutcome(...)` starts, `tasks` the
command handlers, each of which flushes the list (`FlushPop`, `FlushApplies`, `FlushFails`),
runs its own statement, replies, and reschedules. A failure anywhere after the flush,
the reply included, queues the command. A statement whose answer is lost has taken effect, but its
listener is not told (`StatementFails`). `applied`, `sent`, `faults` and the field
`period` are history.

### ClientOrders

`row` and `cache` are the saved session and its copy in Redis, `userCity` the city in
`users`, `tasks[w]` an update between two middlewares, with its own copy `s` of the
session. `index.ts` answers the webhook without awaiting the handler, so the updates of
one chat overlap; `session.ts` copies the session whole at the start and saves it whole at
the end. The phases of a task follow the middlewares: `Load` or `LoadFallback`,
`Authenticate` or `AuthenticationFails` (after which `stateGate` lets no handler run), one
handler, `Save` and its alternatives, `StoreCache` and its alternatives. A handler's
changes of its copy are one action, because no other update sees the copy; what it changes
outside (an order, the user's city) changes in that action too. The handlers' effects are
operators from session to session, `Started`, `WithPickup`, ..., each named after the step
of the wizard it is.

A place is the city its 2GIS link names, `Unnamed` when the link names none; the price is
set with the dropoff; a text is only given or not. Buttons can be pressed at any stage,
also those of cards that are gone. A press that stops at a check, an unexpected text and
everything that only reads is `ChangesNothing`, which also covers the refusal to change the
city while an order is active. `id` in a draft and `drafts` are history: they number the
wizards' runs. So is `troubles`, the kinds of trouble met so far (an overlap counts as one),
at most `MaxTroubles` of them, each at its first occurrence; `Outdating` names those after
which an update may work on a session that is not the latest.

Not in it: the executor's part of the session, the job of the payment reminder (see
`Sessions`), the connection pool, and `clearSession`, which has no caller.

### PlanForm

`session` is the moderators' chat's row, with one form per thread of the chat and one edit
that waits for a text; `plans`, `queue` are the table and the list as far as the form
touches them. A reply posts the card and schedules the reminder; when the scheduling fails, the
mutation, though applied, is queued (`ReminderFails`). The other commands and the reminders are
three steps: `Delete`, `Finish` (a plan is completed after its last reminder), and `Revive` (an
extension, a blocking or an unblocking makes it live again, whatever other plan the phone has by
then; `beside` marks that). A task loads the session into its `copy`, one handler changes the copy and
goes through the phases of the command (`FindExisting`, `Flush`, `Own`, `Reply`, `Enqueue`),
and `SaveForms` stores the copy whole, with every date turned to text (`StoredForms`: JSON has
no dates). Cards once shown can be pressed for good. `said`, `shown`, `open`, `troubles` are
history. `ExecutorPlans` has the other commands and the list in full.

`PlanForm` and `Sessions` extend `ChatUpdates`, and a definition that both need has another name
in `PlanForm` (`FormNext`, `FormTypeOK`, `SaveForms`, ...), so that one module can extend both.

### Support

`rows`, `owner`, `buttons` outlive the process; `state` (`threadsById`), `cards`
(`threadsByModeratorMessage`), `prompts`, `index`, `byThread` do not. `RestoreSupportThreads`
brings none of them back: it wants the message numbers of a row to be numbers, they are `bigint`
and arrive as text, and every row is skipped as malformed. One user has both dialogues, since the
role of a private chat can be changed at any time: `Ask` is the executor's, which looks for an
open request (`find`), `AskAsClient` the client's, which does not. The handler of a message is
`resolve` the channel, `copy` the message, `insert` the row, and
`save` the session; a moderator's are the prompt, the answer, and the three awaits of a
closing. A message of a moderator is an answer by the prompt it replies to, by the card, or
by the moderator's own pending prompt, in the code's order. `blind` and `unsearched` (history) are
the users whose dialogue began with no search, and the requests made in one; `doubted`,
`spoiled`, `late` name whom a failure, an overlap, a restart, or a race the code does not exclude
has touched.

### ExecutorAccess

`row` is the person in `users`; `cache` and `backup` its two copies in Redis, the first of
which expires; `queue` the list of phones whose statement failed. A phone in `Taken` stands in the
row of another user, and `users.phone` is UNIQUE: its statement fails whenever it is tried, without
a fault, and it goes back to the head of the list. `task` are updates
(a shared contact, an order, anything else), each beginning with the check-in that renews the
copies; `flush` are runs of the minute job, which takes one phone at a time and stops at the
first that fails. `shared`, `applied`, `lost`, `overtaken`, `calm` are history.

### Sessions

The row is written by three hands: an update saves what it loaded (`Save`), the screen notes
its step at once (`Track`), and the jobs write from outside (`planReminder`,
`revertReminderFlag`, `markNudged`). `Load` prefers the row, falls back to the cache, then to
the default; a session whose `ephemeralMessages` list is missing makes the handler throw
(`Throw`), and the middleware saves it all the same. The nudger's ticks overlap, the payment
job's do not (`running`).

### Subscriptions

`entry` is the queue's memory, an object per application, `store` the rows of
`callback_map`, `sub`, `user`, `periods` the rows of `subscriptions`, `users`, `payments`.
The role and `users.status` are not in `user`: the menus, the
phone, and the choice of a role write them too. `Press` runs the callback through `Activate`
(one transaction), `Close`, `RemovePersistedEntry`; `Load` makes an entry from its row, with the date as text. The
maintenance (`job`) lists who is to be warned and ended, sends, records, marks, rewrites the
users and removes the members, one await at a time. `links`, `member` and `events` are the
channel as Telegram keeps it; `RequestJoin` ... `ApproveChatJoinRequest` and `MemberUpdate` ...
`DemoteLeaver` are the two handlers. The sets `lost`, `unsaved`, `raced`, `slipped`, ... record
the exceptions the properties name. `Submit` is `submitSubscriptionPaymentReview`, which the
code exports and no handler of this commit calls: applications reach the queue from
`callback_map` at a start, and the module has both ways.

## The runs

| Run | Question | Bounds |
| --- | --- | --- |
| `orders` | Do ownership, stamps, flags and the life cycle hold in every interleaving of the statements, and does the maintenance job leave no order open or claimed? | 2 orders, 2 executors |
| `channel` | Do the memory of the channel and the undo entries agree with the rows, through failures, refused transactions and crashes? | 1 order, 1 executor of either kind, 2 handlers, all faults, presses on withdrawn cards |
| `channel_two` | Do the undo entries follow an order from one executor to another? Does an open order get a card and keep it? | 2 orders, one a taxi, 2 executors of either kind, handlers one at a time |
| `plans` | Is a command ever lost or applied twice, can a plan lose its reminder? | 1 plan, 2 handlers, 3 commands, 2 failing statements |
| `plans_faults` | Are reminders in order and sent once, whatever fails? | 1 plan, every kind of command, any 2 failures, 2 reminders |
| `client_orders` | Do the wizards, the orders they make and the city stay consistent when updates overlap, calls fail and the process dies? | 2 updates at a time, 2 cities, 3 wizards or orders, 1 trouble |
| `form` | Do the forms of two threads keep to their questions, and does a plan carry the answers of its own form? | 2 threads, 2 updates at a time, 1 plan, 1 trouble, or 2 failures of a statement or of the list |
| `form_plans` | Has a phone one live plan, when plans are completed, made live again and deleted beside the form? | 1 thread, 3 plans, 2 in the list, updates in turn, 1 trouble, or 2 failures of a statement or of the list |
| `support` | Do the maps of prompts agree, does the executor's dialogue make no second request, can open rows be answered, are closed ones forgotten? | 1 user of both dialogues, 2 moderators, 2 requests, 2 prompts, 2 handlers, 2 failures |
| `access` | Does a phone reach its row, in the right order, and does an order see the row? Does a phone get past one that can never be written? (It waits behind it, and only behind it.) | 3 phones, the first in another user's row, 3 updates, 2 at a time, 2 overlapping runs of the job, 2 failures |
| `sessions` | Is what the session stores kept, do the jobs write once and in time, does the chat stay usable? | 3 updates, 2 at a time, 2 ticks, 1 trouble |
| `subscriptions` | Is a payment worth its days once, do users, channel and warnings follow, does a member leave when the days end? | 1 user, 1 payment, 2 updates at a time, 2 days, 3 presses, moves or failures |

The bounds are the smallest at which the interesting case happens: a hand-over needs two
executors; the busy flag needs a second order to hide the first; two live cards of one
order need a release, its undo and another release, for which the instance has enough
messages; a publication that waits needs a second handler; a double order needs a wizard, its
order and a second one; a place of the wrong
city needs two cities, and a lost update two updates; a replayed command needs a command
before it that failed and one after it that flushes. Two reminders stand for five: the
worker tells apart only the last one and the others. Forms mix between two threads; the maps
of prompts disagree with two prompts or two moderators; a stale phone needs a newer one, and
two runs of the job one behind the other. A renewal races the maintenance with one old
period, one payment and the job; users meet nowhere but in the order of the job's list,
hence one of them. Two handlers of different executors beside all the faults are beyond TLC's
time: `channel` has two handlers of one, `channel_two` two executors in turn, and the proofs have
both. Likewise `plans` has the overlaps and `plans_faults` the failures, `form` the overlaps and
`form_plans` the plans. Deadlock is not checked, since every instance stops at its bounds.

`Troubles`, `Faults` and the budgets beside them bound how much goes wrong, never what. Where
a property excepts a trouble, the code gives way to it: TLC finds a counterexample without
the exception in `Sessions` and in `PlanForm`. `Taken` is not of that kind: a statement refused by
a constraint costs no fault, so nothing bounds it.

**Fairness.** `Orders` assumes it of the maintenance job (a cron job of the process) and of
time passing, and of commits in flight. `OrdersChannel` assumes it of handlers in flight
(an awaited promise settles), never of a press of a button, of time or of the maintenance
job. `ExecutorAccess` assumes it of handlers, of the job's steps and of the timer that starts
it; `Sessions` of updates in flight, of both cron jobs, their steps and the passing of time;
`Subscriptions` of the maintenance only. Nowhere must a user or a moderator do anything.
`ExecutorPlans` states no liveness: its reminders depend on calls that may fail for good.
Neither do `ClientOrders`, `PlanForm` and `Support`, which wait for people.

## The proofs

`OrdersProofs` proves, for every set of orders, executors, clients, cities and messages:

- `TypeCorrect`, `OwnershipHolds`, `CompletionStampHolds`, `CompletionStillValidHolds`
  (invariants; `CompletionsFitHolds` is their conjunction) and `NoHandOverHolds` (an action
  property);
- `Refinement`: `Orders` implements `OrderLifecycle`.
- `GainingSetsFlagHolds`: whoever gains an order is flagged as busy by the same transaction. Only
  a claim and two undos turn a row into a claimed one (a commit writes what its transaction chose,
  by the types), and each looks through the table it leaves.

The argument: `Ownership`, `CompletionStamp` and `CompletionStillValid` are not inductive
one by one. A completion that commits writes what it decided when it read, so ownership
after the commit needs that the row has not changed since: `CompletionStillValid`, which
in turn holds because every other action requires `Free(o)` or leaves the row alone. The
conjunction with `TypeOK` is inductive; each action has one step in the proof. The
assumptions are those of the constants in `Orders`. Liveness is model-checked only.

`ClientOrdersProofs` proves, for every set of workers and cities and every bound:
`TypeCorrect`, `StagesFitHolds`, `OneWizardHolds`, `WizardsFitHolds` (the three together),
`OneOrderPerDraftHolds` and `CitiesFitHolds`: every invariant of the run
`client_orders`.

The argument: a session is only ever copied whole, so it is enough that every handler makes
a good session of a good one, whichever copy it got. `Good` says that a session is typed,
has at most one wizard in progress, and that each draft fits its stage. That a draft at
rest is blank (`DraftFits`) is what makes this inductive: without it the confirm button of
an old card could meet data no stage vouches for. There is one lemma per handler
(`GoodPickup`, ..., `GoodRefused`) and one on each way a task moves on (`TaskStep`,
`HandledStep`, ...). `KnownCity` adds that an update which read a city in `users` has one in
its session, as a wizard is begun on either. What overlapping updates may break,
`OneOrderPerDraft` and `CitiesFit`, holds as long as no trouble of `Outdating` happened
(`Straight`; `Steady` also excepts a choice of a city whose answer was lost), and rests on
following where the latest session is. While `Straight`, one update runs at a time, none fell
back on the cache, and what it saved is the row (`OneAtATime`); the copy in hand, and else the
row, has only wizards whose number no order has (`CopiesFresh`), and orders have different
numbers (`OrdersDistinct`). Without `CopiesFresh` of the row the next update might confirm a
number again. While `Steady`, the same copy has the user's city and only places in it
(`CopiesLocal`), so that an order made of it has (`OrdersLocal`). Each trouble in those conditions
is needed, TLC finds a counterexample without it. The assumptions are that no city is taken for
`NoCity`, `Unnamed` or `NoPlace`, and no session for `NoSession`.

`SupportProofs` proves, for every set of users, executors, moderators, handlers and faults and
every bound: `TypeCorrect`, `PromptsIndexedHolds`, `MapsFitHolds`, `ClosedIsForgottenHolds`,
`OpenRowsAnswerableHolds` and `OneOpenRequestHolds`, every property of the run `support`.

The argument is in four layers, each inductive given those before it. `Typed` adds to the
types that a task has the fields its phase uses. `Shown` is that the three maps of prompts are
images of each other; a moderator's entry may only go together with its prompt, which is what
`ClearPrompts` looks at. `Requests` follows a request through its life: at most one handler
makes it known, only one closes it, no later number exists in row, memory or prompt
(`NotYet`), and nothing runs while the process is down (`Stopped`); closing leaves something
behind only for a prompt already on its way, and the row and the memory part only where
`spoiled` says so. `OneDialogue` is about a user no trouble has touched: he has one handler, and
wherever his handler, or in between his session, expects a new request there is no open row
of his, so that an insertion makes the only one, unless the dialogue is `blind`; then the request
is `unsearched`. It needs that a row belongs to one user for
good, which `Requests` gives.

The assumptions are those of the constants, and `NullAssumption`: `NULL` is no prompt and no task.

`OrdersChannelProofs` proves, for every finite set of orders, every set of executors, clients
and messages, all faults and any number of handlers in flight: `KnownHolds` (types),
`MemoryAgreesHolds`, `CacheAgreesHolds`, and, with `MaxTasks = 1` as its hypothesis (handlers
one at a time, the condition the run `channel_two` checks it under), `OpenOrderKeepsCardHolds`.

The argument: each step is a step of `Orders` or leaves the tables alone, so the inductive
invariant of `Orders` (`Rows`) holds beside the types (`Known`). Each statement is described
once by what it makes of the row (`Becomes`: `Claims`, `Releases`, ...). `Agreed` adds what makes
the memory agree: of two publications of an order in flight one holds the row's lock, and what it
has remembered is what it will commit (`Publications`); and a completion whose undo is to be
offered, is on offer or was pressed is the only one of its order and stands (`CompletionsStand`).
`Alone` adds, for handlers one at a time, what each phase of
a handler knows of the row and of the card it will edit (`Facts`), and that the card of an open
row is shown and only its own order's handlers withdraw it (`Shown`).
The theorems about `Orders` are used through an instance of `OrdersProofs` in which nobody
follows an order (`Repository`); when there is no order to follow, `NoOrdersStep` stands in.

`ExecutorPlansProofs` proves, for every set of phones and durations, any number of plans,
commands, handlers, stages and failures: `CommandsKeptHolds`, `AppliedOnceHolds`,
`RemindersSoundHolds` and the action property `KeepsReminderHolds`: every property of the runs
`plans` and `plans_faults`.

The argument: `Fit` types the state and says which commands can be where. A command lives in a
handler, in the list, or in the count `applied`; `CommandsKept` is inductive once a handler that
replies is known to have applied its own (`Answered`), for the reply's failure queues it without
looking. `AppliedOnce` needs that a number is in one place at most (`OnePlace`) and that what
still waits has not been applied unless an answer was lost (`NotYet`). For the reminders,
`SentInv` relates what went out to the row's index and to the job in hand: whatever was sent in
this period is not beyond the job being run (`PostsInOrder`), and, unless a job failed after its
message or the process died, is below the row's index or is being recorded (`SentOnce`). Job and
row of one plan are compared within a period, because an extension begins a new one under the
worker's hands. `KeepsReminder` is about single steps: `Covered` names who may owe a plan its job
(a job, the worker, a rescheduling, a handler about to add, a start), and each action either
leaves that one alone or hands over to another.

`ExecutorAccessProofs` proves, for any number of phones, updates, handlers, runs of the job and
failures: `PhonesSoundHolds` and `CalmOrderSeesRowHolds`, both invariants of the run `access`.

The argument: a phone that was shared is in the list, with a handler or a run of the job,
applied, or lost with a failure the property names (`PhonesKept`); each step of `savePhone` and of
the flush moves it. That the one shared last stays in the row needs an order (`Order`): the list
is sorted by time, behind what a run has taken and before what a handler carries, one run at a
time, and once the last one is in the row none older is on its way. It is inductive only as a
whole, and only while nothing `overtook` anything and nothing was `lost`. For the access,
`CalmAlone`: the handler of an order that is still calm is alone, and what it has read, and what
its own check-in left in the cache, is the row.

`SubscriptionsProofs` proves, for every set of users, payments, handlers and durations and all
faults: `PaymentsSoundHolds`, `AccountsAgreeHolds` and the action property `DaysLeftStayHolds`,
every safety property of the run `subscriptions`.

The argument: `Fit` types the state. `PaymentInv` follows an application: before it is
submitted nobody knows of it (`NoneBefore`); two handlers decide it only if their presses
overlapped (`OneDecides`), each over the object it read (`Objects`); what was paid is not paid
again, because its object is about to be marked approved, or comes back from its row with
a text date that the approval refuses (`NotAgain`); nobody waits for the row of a decided
application (`NotLoaded`); and the subscription ends with the latest period (`PeriodsBefore`). `AccountInv` says who
owes an account what: the user's row agrees, or the job or the leaver's handler is about to
write it (`UsersFollow`), who ends a subscription works on the end it has unless the user paid
meanwhile (`EndsKnown`), who was kicked has ended (`KickedEnded`), who left is out (`LeaversOut`).
`WarningInv`: a recorded warning counts for the end it was written for (`WarningsKnown`), and
whoever the job is about to warn was not warned (`ToWarn`).

The proof found two mistakes in the module, now corrected: a bound on the dates that only the
checked instance met, and a conjunct of `PaymentsSound` (`PaidOnce`) that was false once two
users had subscriptions from before.

The second part of `ChatUpdatesProofs` is about `PlanForm`, for every set of threads, phones,
choices and workers, every bound and all troubles: `FormsSoundHolds`, `PlansAsAnsweredHolds` and
`OnePlanPerPhoneHolds`, every property of the runs `form` and `form_plans`.

The argument: `Good` is the types, and that every form, wherever it is (the saved session, the
copy of an update), has the answers of its step and a phone that was answered in its own thread,
and every mutation (of an update, in the list) such a phone. It is inductive because forms are
copied whole and a mutation is made only of a complete form of the same thread; what was answered
only grows (`Grows`). There is a lemma for each way a handler goes on (`ConfirmGood`,
`FindGood`, ..., `LeaveGood`), which also says what it leaves alone. `Straight` gives
`OnePlanPerPhone`: with none of its excuses one update is handled at a time, the list is empty,
and a create that has passed its look for a plan still finds none; the overlap, a revival, and the
list that a refused answer, a failed rescheduling or a failed statement fills, are the only ways
around it. `Asked` gives the
last part of `FormsSound`: while nothing went wrong a thread that waits for a comment was asked
for one, by the session when nothing is in flight, else by the copy in hand. Here the saved
session is not enough: the copy is ahead of it between the reply and the save.

The first part of `ChatUpdatesProofs` is about `Sessions`, for any number of workers, ticks,
updates and reminders and all troubles: `SessionsSoundHolds` and the action property
`StoredKeptHolds`, every safety property
of the run `sessions`.

The argument: `Typed` adds to the types that nothing refers to an update that was not received
and that an update in safe mode does not save (`Counts`). `Calm` is what the absence of an
overlap means: one update, run or tick is in flight at a time (`Alone`), a chat without a row has
nowhere been reminded (`NoRow`), and the copy of a loaded update has what the row has, or a
payment asked for since (`Follows`), so that saving it forgets nothing. Each promise has its own
invariant on top, while none of its excuses was met. `RemindInv`: the row says that a reminder
went out, because it is noted before it is sent. `NudgeInv`: a step that was nudged is a past
one, or is marked, or the tick that is about to mark it is in flight, and an update in flight
comes after the step of the row. `ServeInv`: only the empty session that a step creates
(`ui.ts`) lacks its list, and the update that created it is about to save its own copy over it.
An update in safe mode would leave it unsaved, which is why its troubles are excuses.

For `PlanForm` and `Sessions` the inductive invariants were first model-checked on the instances
of their runs.

The assumptions of these six are those of the constants. They include that the sentinel values
are apart from the data: `NULL` is no executor and no message (`ChannelAssumption`), no row,
mutation or job in hand (`ExecutorPlans`), no phone, access, task or run (`ExecutorAccess`), no
entry, handler or job (`Subscriptions`), no answer and no update (`PlanForm`), no session, update
or run (`Sessions`).

Every invariant and every action property of the passing runs is proved. What is model-checked only is
liveness: the prover has neither `ENABLED` nor fairness.

## Differences met

Where the code and its texts, or two parts of the code, disagree. Found while modelling, most
of them as counterexamples to a property that was then stated with the exception.

*Orders.*
- `db/orders.ts:635` (`markOrderAsCancelled`, `cancelClientOrder`, and the expiry, whose
  `typeof` test meets a text) leaves `has_active_order` of the executor raised;
  `citySelect.ts:165` then tells somebody without an order «Сменить город можно после
  завершения активного заказа.».
- `ordersChannel.ts:392`: cards are remembered under the text id of the row and looked up under
  the number of the button, so that a release that was undone leaves a second live card, against
  `docs/spa-bot-integration.md:27`.
- `ordersChannel.ts:658`: a publication does not look at the status and offers a cancelled order;
  `spaOrders.ts:520`: a repeated cancellation overwrites a finished order, where
  `docs/spa-backend-bridge.md:24` promises `updated: false`.
- An order whose publication never happened stays `new`, which the expiry does not list.
- `docs/spa-bot-integration.md:33` says that the executor's press finishes an order; the menu's
  first press starts it. The gauge's help text (`metrics/business.ts:17`) and the statuses it
  counts differ. `bot/commands/help.ts:19` tells the client of a delivery that /cancel cancels
  it, but the text listener of the taxi wizard is registered first, takes the command at every
  stage and resets the taxi's draft only (`Escape` of `ClientOrders`).

- `docs/spa-backend-bridge.md:28` has the stream send every event of its order, and line 33
  has the browser see so what executors do in Telegram. `subscribeToOrder`
  (`services/orderEvents.ts:56`) compares the id of the row with the number of the request
  (`spaOrders.ts:410`); `orders.id` is a `bigint`, `db/client.ts` registers no type parser, and
  `mapOrderRow` (`db/orders.ts:110`) passes the text on. The listener is never called, and after
  its snapshot a stream sends heartbeats only. Should the ids be made equal:
  every plain read is announced as well (`db/orders.ts:354`, `:375`, `:937`), and a stream answers
  an event by such a read (`spaOrders.ts:594`), so that it would read and send without end.
- `docs/bot-workflow.md:24` wants no filter by role on the button «Беру заказ»;
  `ordersChannel.ts:811` refuses a taxi to whoever is not a driver (`AcceptRefused`, `KindFits`). Nor is
  that filter kept up: the kind is a matter of choice at any time (`roleSelect.ts:22`), and the
  undo buttons look at neither kind nor limit nor city (`ordersChannel.ts:1293`), so that a
  courier may hold a taxi and a driver two orders.
- After a death of the process between the withdrawal of a released order's card
  (`ordersChannel.ts:1158`) and its new publication nothing publishes the order again.

*Plans.*
- `db/executorPlans.ts:300`: both sides of the UPDATE see the old row, so «План продлён ✅»
  (`form.ts:1258`) may shorten a plan: its end is counted from the old start.
- `form.ts`: a start date typed into the wizard is a text after the next save (`types.ts:249`
  declares a `Date`), so that the summary's `startAt.getTime` throws and «Нажмите «Сохранить»,
  чтобы создать запись» cannot be followed.
- The form refuses a second active plan of a phone «вместо создания дубликата», but
  `executorPlans.ts:303` (an extension) and the unblock button (`form.ts:1641`) make a completed plan
  active beside a newer one (`beside`), and the reply and the rescheduling of the reminder
  stand inside the try of the statement (`form.ts:1154`, `:1171`): when they fail, a create that
  was applied is queued and applied again.
- A statement that always fails stays at the head of the mutation list and holds back every
  command behind it; `set-start` is such a statement, because PostgreSQL types the parameter of
  `$2 + (ends_at - start_at)` as an interval. Should the installed BullMQ refuse a job id of the
  form `a:b`, every addition of a reminder fails, which is the fault `redis` of `ExecutorPlans`.

*Sessions.*
- The row that `ui.ts` makes holds `{}`, so that `autoDelete.ts:8` throws at every later update
  of the chat when the update that made it does not save (`ServedAgain`), although
  `types.ts:274` declares the list it reads as always there.
- `lastReminderAt` is never cleared: a second payment asked for is not reminded of. The second
  disjunct of the nudger's query can never be true.

*Payments and subscriptions.*
- `users.status` and the role, which activation and expiry write, are written by others too
  (`db/users.ts:79`, `:134`, `:176`, `db/phoneVerification.ts:18`): an expired member who chooses
  her role again is `active_executor` (`roleSelect.ts:36`), and a client's menu makes a subscriber
  `active_client` (`menu.ts:119`). The status says nothing of the subscription; `UsersAgree`
  compares `sub_status` and `sub_expires_at`.
- `revivePaymentReviewItem` (`paymentQueue.ts:550`) does not turn `submittedAt` back into a date,
  so that the activation of a restored application throws; the throw is swallowed
  (`paymentQueue.ts:397`), and the application is closed as approved without its days. An
  unbound channel (`:335`) does the same (`lost`).
- The reject buttons' pattern is built with `\d` in a template string, which is `d`
  (`queue.ts:756`): no reject button matches.
- The status of an application is set after its callback was awaited (`queue.ts:597`): two
  presses that overlap pay twice (`overlapped`); the row written at the publication may land
  after the one that deletes it (`unsaved`).
- `scheduler.ts:242` ends what it listed without a second look at the date (`raced`), and
  `:257` then overwrites the user's new row (`doubted`). A kick that failed, or a death
  before it, is never made up for; an unused link admits after the subscription ended early;
  the bot's own kick, reported late, ends a renewed subscription (`slipped`, `raced`).
- `scheduler.ts:214` records a warning that was not sent.

*Support.*
- `restoreSupportThreads` wants numbers of columns that arrive as text
  (`bot/services/support.ts:202`, `:433`) and skips every row as malformed. After a restart no open
  request can be answered or closed, and its executor is refused a new one (`spoiled`).
- The client's dialogue does not look for an open request (`flows/client/support.ts:94`), and a
  user changes roles within one chat: who opened a request as an executor opens another as a
  client (`unsearched`).
- The Close button's UPDATE may come before the INSERT and match nothing; the executor
  is then refused a new request for a row nobody can close (`spoiled`). A pending prompt of a
  moderator takes her next message even when that message replies to another card.

*Phones.* `users.phone` is UNIQUE (`schema.sql:1042`). A phone that stands in another user's row is
refused at every flush (`db/phoneVerification.ts:12`), goes back to the head of the list and holds up
all behind it for ever (`HeldUp` in `PhonesArrive`).

## Plan

1. The executor's part of the session (verification); roles and statuses of users.
2. The connection pool that updates hold while they wait for it; the duplicate guard of buttons
   (`idempotency.ts`).

## Not modelled

- *The verification queue* (`verifyQueue.ts`, `db/verifications.ts`) and *the rejection of a
  payment*: no code of this commit publishes a verification, and no button reaches a rejection.
- *The connection pool*: an update holds a connection while its handlers wait for others. The
  wait ends with the connect timeout, as the failed loads that `ClientOrders` and `Sessions` have.
- *The event stream* (`spaOrders.ts:552`, `services/orderEvents.ts`): the listener is never called
  (Differences met), so that a stream sends its first row and heartbeats.
- *Button guards*: the modules admit every press.
- *Geocoding, prices, formatting, reports, screens, menus*: calls of services and text.
- *Roles and statuses of users*: written by menus, phones, role choice and subscriptions without
  regard for each other. Where a role decides something, the modules leave it open at each step.
- *`executor_blocks`*: written with the plan's status, read by nobody.
