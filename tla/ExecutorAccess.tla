--------------------------- MODULE ExecutorAccess ---------------------------
(***************************************************************************)
(* One person's phone on its way to the users table, and the cached        *)
(* access that is asked when the person takes an order: the check-in of    *)
(* every update (middlewares/auth.ts), savePhone, ensurePhone and askPhone *)
(* (flows/common/phoneCollect.ts), the two Redis copies of the access      *)
(* (services/executorAccess.ts), and the list that keeps the phones the    *)
(* database did not take (infra/userPhoneQueue.ts, jobs/userPhoneSync.ts). *)
(*                                                                         *)
(* Handlers of updates (`task`) and runs of the job (`flush`) are split    *)
(* where they await the database or Redis.  The phones a person shares     *)
(* are numbered in the order they are shared; those another user's row     *)
(* holds are refused at every try.                                         *)
(*                                                                         *)
(* Abstractions: phone_verified is "there is a phone", as all statements   *)
(* set the two together; the two keys of a copy are sent in one go; a      *)
(* plan's refresh of the cache is left out, as its key is the moderators'  *)
(* chat (plan.chatId) and no person's.  `shared`, `applied`, `lost`,       *)
(* `overtaken`, `calm` and `faults` are history variables.                 *)
(***************************************************************************)
EXTENDS Integers, Sequences, FiniteSets

CONSTANTS
    MaxShares,    \* bound: phones ever shared
    Taken,        \* the phones that stand in the row of another user (users_phone_key)
    MaxUpdates,   \* bound: updates of the person
    Workers,      \* bound: updates handled at the same time
    Flushers,     \* bound: runs of the job at the same time
    Faults,       \* what may fail
    MaxFaults,    \* bound: how many failures
    NULL

ASSUME AccessAssumption ==
    /\ Taken \subseteq Nat
    /\ MaxShares \in Nat /\ MaxUpdates \in Nat /\ MaxFaults \in Nat
    /\ Faults \subseteq {"auth", "persist", "enqueue", "pop", "putback", "redis", "read",
                         "block", "crash"}
    /\ Workers \cap Flushers = {}

VARIABLES
    row,          \* phone and is_blocked of the person in users
    cache,        \* executor-access:<id>, which expires
    backup,       \* executor-access:backup:<id>, which does not
    queue,        \* the Redis list of phones
    verified,     \* session.user.phoneVerified
    task, flush,
    updates,      \* how many updates the person sent
    shared,       \* how many phones the person shared
    applied,      \* phones that reached the row
    lost,         \* phones dropped by a second failure or a crash
    overtaken,    \* a phone was saved, shared or flushed beside an older one on its way
    calm,         \* handlers that nothing else ran or failed beside
    faults

stored == <<row, cache, backup, queue>>
history == <<shared, applied, lost, overtaken>>
vars == <<stored, verified, task, flush, updates, history, calm, faults>>

Phones == 1 .. MaxShares
Access == [phone : Phones \cup {NULL}, blocked : BOOLEAN]

Task == [kind : {"share", "order", "other"},
         phase : {"auth", "prime", "persist", "enqueue", "primePhone", "get", "read",
                  "remember", "decided", "ensure", "ask", "block"},
         phone : Phones \cup {NULL},    \* the contact of the update
         seen : Access \cup {NULL},     \* what the handler read, and what it decides by
         verified : BOOLEAN]

Flush == [phase : {"pop", "persist", "putback", "merge", "clear", "write"},
          phone : Phones \cup {NULL}, record : Access \cup {NULL}]

ASSUME NullAssumption == NULL \notin Nat \cup Access \cup Task \cup Flush

Busy(w) == task[w] # NULL
At(w, phase) == Busy(w) /\ task[w].phase = phase
FlushAt(f, phase) == flush[f] # NULL /\ flush[f].phase = phase

To(w, phase) == task' = [task EXCEPT ![w].phase = phase]
FlushTo(f, phase) == flush' = [flush EXCEPT ![f].phase = phase]

Occurs(k) == /\ k \in Faults /\ faults < MaxFaults
             /\ faults' = faults + 1 /\ calm' = {}
Quiet == UNCHANGED <<calm, faults>>

\* Phones on their way to the row: in the hands of a handler or of the job, or in the list.
Shared ==
    {task[w].phone : w \in {v \in Workers : /\ Busy(v) /\ task[v].phone # NULL
                                            /\ task[v].phase # "primePhone"}}
Flushed ==
    {flush[f].phone : f \in {g \in Flushers : FlushAt(g, "persist") \/ FlushAt(g, "putback")}}
InFlight == Shared \cup Flushed
Queued == {queue[i] : i \in 1 .. Len(queue)}
HeldUp == {queue[i] : i \in {j \in 1 .. Len(queue) : \E h \in 1 .. j - 1 : queue[h] \in Taken}}

-----------------------------------------------------------------------------
(* services/executorAccess.ts *)

\* rememberExecutorAccessSnapshot: a copy Redis does not take keeps its old value.
Remember(r) ==
    \/ cache' = r /\ backup' = r /\ Quiet
    \/ /\ Occurs("redis")
       /\ \/ cache' = r /\ UNCHANGED backup
          \/ backup' = r /\ UNCHANGED cache

\* mergeExecutorAccessSnapshot with a patch of the phone.
Merged(phone) ==
    LET existing == IF cache # NULL THEN cache
                    ELSE IF backup # NULL THEN backup ELSE [phone |-> NULL, blocked |-> FALSE]
    IN [existing EXCEPT !.phone = phone]

-----------------------------------------------------------------------------
(* An update of the person *)

Begin(w, kind) ==
    /\ ~Busy(w) /\ updates < MaxUpdates
    /\ updates' = updates + 1
    /\ kind = "share" => shared < MaxShares
    /\ shared' = IF kind = "share" THEN shared + 1 ELSE shared
    /\ task' = [task EXCEPT ![w] =
         [kind |-> kind, phase |-> "auth", phone |-> IF kind = "share" THEN shared + 1 ELSE NULL,
          seen |-> NULL, verified |-> verified]]
    /\ calm' = IF \E v \in Workers : Busy(v) THEN {}
               ELSE IF \E f \in Flushers : flush[f] # NULL THEN {} ELSE {w}
    /\ overtaken' = (overtaken \/ (kind = "share" /\ Shared # {}))
    /\ UNCHANGED <<stored, verified, flush, applied, lost, faults>>

\* The phase after the check-in; the guard of the phone is for private chats, and an
\* order is taken in the channel.
AfterAuth(kind) ==
    CASE kind = "share" -> "persist" [] kind = "order" -> "get" [] kind = "other" -> "ensure"

\* loadAuthState: the upsert lifts is_blocked and returns the row.
Authenticate(w) ==
    /\ At(w, "auth")
    /\ row' = [row EXCEPT !.blocked = FALSE]
    /\ task' = [task EXCEPT ![w].phase = "prime", ![w].seen = row',
                            ![w].verified = (row'.phone # NULL)]
    /\ Quiet /\ UNCHANGED <<cache, backup, queue, verified, flush, updates, history>>

\* The snapshot of the session is used instead, and the cache is left alone.
AuthenticationFails(w) ==
    /\ At(w, "auth") /\ Occurs("auth")
    /\ To(w, AfterAuth(task[w].kind))
    /\ UNCHANGED <<stored, verified, flush, updates, history>>

\* Slip: a copy that is still there is not renewed.
SlipPrime(w) ==
    /\ At(w, "prime")
    /\ IF cache = NULL THEN Remember(task[w].seen)
       ELSE Quiet /\ UNCHANGED <<cache, backup>>
    /\ To(w, AfterAuth(task[w].kind))
    /\ UNCHANGED <<row, queue, verified, flush, updates, history>>

\* mapAuthRow primes the cache from the row it read.
Prime(w) ==
    /\ At(w, "prime")
    /\ Remember(task[w].seen)
    /\ To(w, AfterAuth(task[w].kind))
    /\ UNCHANGED <<row, queue, verified, flush, updates, history>>

\* The handler ends and the session of the private chat is saved.
End(w, known) == task' = [task EXCEPT ![w] = NULL] /\ verified' = known

\* savePhone: persistPhoneVerification, or else the list, or else nothing.
Persist(w) ==
    /\ At(w, "persist") /\ task[w].phone \notin Taken
    /\ row' = [row EXCEPT !.phone = task[w].phone]
    /\ applied' = applied \cup {task[w].phone}
    /\ overtaken' = (overtaken \/ \E n \in Queued \cup InFlight : n < task[w].phone)
    /\ To(w, "primePhone")
    /\ Quiet /\ UNCHANGED <<cache, backup, queue, verified, flush, updates, shared, lost>>

\* The statement fails, or the row of the other user refuses it: users.phone is UNIQUE.
NotPersisted(phone) == Occurs("persist") \/ (phone \in Taken /\ Quiet)

PersistFails(w) ==
    /\ At(w, "persist") /\ NotPersisted(task[w].phone)
    /\ To(w, "enqueue")
    /\ UNCHANGED <<stored, verified, flush, updates, history>>

Enqueue(w) ==
    /\ At(w, "enqueue")
    /\ queue' = Append(queue, task[w].phone)
    /\ To(w, "primePhone")
    /\ Quiet /\ UNCHANGED <<row, cache, backup, verified, flush, updates, history>>

EnqueueFails(w) ==
    /\ At(w, "enqueue") /\ Occurs("enqueue")
    /\ lost' = lost \cup {task[w].phone}
    /\ To(w, "primePhone")
    /\ UNCHANGED <<stored, verified, flush, updates, shared, applied, overtaken>>

\* Wherever the phone went, the session and the cache take it for saved.
PrimePhone(w) ==
    /\ At(w, "primePhone")
    /\ Remember([phone |-> task[w].phone, blocked |-> FALSE])
    /\ End(w, TRUE)
    /\ UNCHANGED <<row, queue, flush, updates, history>>

\* getExecutorOrderAccess
Get(w) ==
    /\ At(w, "get")
    /\ IF cache # NULL
       THEN task' = [task EXCEPT ![w].phase = "decided", ![w].seen = cache]
       ELSE To(w, "read")
    /\ Quiet /\ UNCHANGED <<stored, verified, flush, updates, history>>

Read(w) ==
    /\ At(w, "read")
    /\ task' = [task EXCEPT ![w].phase = "remember", ![w].seen = row]
    /\ Quiet /\ UNCHANGED <<stored, verified, flush, updates, history>>

ReadFails(w) ==
    /\ At(w, "read") /\ Occurs("read")
    /\ task' = [task EXCEPT ![w].phase = "decided", ![w].seen = backup]
    /\ UNCHANGED <<stored, verified, flush, updates, history>>

\* The row may have changed since it was read.
RememberRead(w) ==
    /\ At(w, "remember")
    /\ Remember(task[w].seen)
    /\ To(w, "decided")
    /\ UNCHANGED <<row, queue, verified, flush, updates, history>>

\* The session of the channel's chat is another one.
Decided(w) ==
    /\ At(w, "decided") /\ End(w, verified)
    /\ Quiet /\ UNCHANGED <<stored, flush, updates, history>>

\* ensurePhone: known to the session or the check-in, or read once more.
Ensure(w) ==
    /\ At(w, "ensure")
    /\ IF task[w].verified \/ row.phone # NULL
       THEN End(w, TRUE)
       ELSE To(w, "ask") /\ UNCHANGED verified
    /\ Quiet /\ UNCHANGED <<stored, flush, updates, history>>

EnsureFails(w) ==
    /\ At(w, "ensure") /\ ~task[w].verified /\ Occurs("read")
    /\ To(w, "ask")
    /\ UNCHANGED <<stored, verified, flush, updates, history>>

\* askPhone: the question, or Telegram says that the person blocked the bot.
Ask(w) ==
    /\ At(w, "ask")
    /\ \/ End(w, task[w].verified)
       \/ To(w, "block") /\ UNCHANGED verified
    /\ Quiet /\ UNCHANGED <<stored, flush, updates, history>>

\* setUserBlockedStatus does not touch the cache.
SetBlocked(w) ==
    /\ At(w, "block") /\ End(w, task[w].verified)
    /\ row' = [row EXCEPT !.blocked = TRUE]
    /\ Quiet /\ UNCHANGED <<cache, backup, queue, flush, updates, history>>

SetBlockedFails(w) ==
    /\ At(w, "block") /\ Occurs("block") /\ End(w, task[w].verified)
    /\ UNCHANGED <<stored, flush, updates, history>>

-----------------------------------------------------------------------------
(* flushUserPhoneUpdates, started by a timer that does not wait for the     *)
(* run before                                                               *)

\* Slip: the list is flushed when the process starts, before any update, and not later.
SlipStartFlush(f) ==
    /\ flush[f] = NULL /\ queue # <<>> /\ updates = 0
    /\ flush' = [flush EXCEPT ![f] = [phase |-> "pop", phone |-> NULL, record |-> NULL]]
    /\ overtaken' = (overtaken \/ \E g \in Flushers : flush[g] # NULL)
    /\ calm' = {}
    /\ UNCHANGED <<stored, verified, task, updates, shared, applied, lost, faults>>

StartFlush(f) ==
    /\ flush[f] = NULL /\ queue # <<>>
    /\ flush' = [flush EXCEPT ![f] = [phase |-> "pop", phone |-> NULL, record |-> NULL]]
    /\ overtaken' = (overtaken \/ \E g \in Flushers : flush[g] # NULL)
    /\ calm' = {}
    /\ UNCHANGED <<stored, verified, task, updates, shared, applied, lost, faults>>

Pop(f) ==
    /\ FlushAt(f, "pop")
    /\ IF queue = <<>>
       THEN flush' = [flush EXCEPT ![f] = NULL] /\ UNCHANGED queue
       ELSE /\ flush' = [flush EXCEPT ![f].phase = "persist", ![f].phone = Head(queue)]
            /\ queue' = Tail(queue)
    /\ Quiet /\ UNCHANGED <<row, cache, backup, verified, task, updates, history>>

PopFails(f) ==
    /\ FlushAt(f, "pop") /\ Occurs("pop")
    /\ flush' = [flush EXCEPT ![f] = NULL]
    /\ UNCHANGED <<stored, verified, task, updates, history>>

FlushPersist(f) ==
    /\ FlushAt(f, "persist") /\ flush[f].phone \notin Taken
    /\ row' = [row EXCEPT !.phone = flush[f].phone]
    /\ applied' = applied \cup {flush[f].phone}
    /\ FlushTo(f, "merge")
    /\ Quiet /\ UNCHANGED <<cache, backup, queue, verified, task, updates, shared, lost, overtaken>>

FlushPersistFails(f) ==
    /\ FlushAt(f, "persist") /\ NotPersisted(flush[f].phone)
    /\ FlushTo(f, "putback")
    /\ UNCHANGED <<stored, verified, task, updates, history>>

\* Slip: the run ends without putting the phone back.
SlipPutBack(f) ==
    /\ FlushAt(f, "putback")
    /\ flush' = [flush EXCEPT ![f] = NULL]
    /\ Quiet /\ UNCHANGED <<stored, verified, task, updates, history>>

\* At the head of the list, and this run ends.
PutBack(f) ==
    /\ FlushAt(f, "putback")
    /\ queue' = <<flush[f].phone>> \o queue
    /\ flush' = [flush EXCEPT ![f] = NULL]
    /\ Quiet /\ UNCHANGED <<row, cache, backup, verified, task, updates, history>>

PutBackFails(f) ==
    /\ FlushAt(f, "putback") /\ Occurs("putback")
    /\ lost' = lost \cup {flush[f].phone}
    /\ flush' = [flush EXCEPT ![f] = NULL]
    /\ UNCHANGED <<stored, verified, task, updates, shared, applied, overtaken>>

\* updateCachedExecutorAccess: read and merge, delete both copies, write both.
Merge(f) ==
    /\ FlushAt(f, "merge")
    /\ flush' = [flush EXCEPT ![f].phase = "clear", ![f].record = Merged(flush[f].phone)]
    /\ Quiet /\ UNCHANGED <<stored, verified, task, updates, history>>

\* A key that Redis does not delete stays.
Clear(f) ==
    /\ FlushAt(f, "clear")
    /\ \/ cache' = NULL /\ backup' = NULL /\ Quiet
       \/ /\ Occurs("redis")
          /\ \/ cache' = NULL /\ UNCHANGED backup
             \/ backup' = NULL /\ UNCHANGED cache
    /\ FlushTo(f, "write")
    /\ UNCHANGED <<row, queue, verified, task, updates, history>>

Write(f) ==
    /\ FlushAt(f, "write")
    /\ Remember(flush[f].record)
    /\ FlushTo(f, "pop")
    /\ UNCHANGED <<row, queue, verified, task, updates, history>>

-----------------------------------------------------------------------------

\* The copy with a time to live; the other has none.
Expire ==
    /\ cache # NULL /\ cache' = NULL
    /\ Quiet /\ UNCHANGED <<row, backup, queue, verified, task, flush, updates, history>>

Crash ==
    /\ Occurs("crash")
    /\ task # [w \in Workers |-> NULL] \/ flush # [f \in Flushers |-> NULL]
    /\ lost' = lost \cup (InFlight \ (applied \cup Queued))
    /\ task' = [w \in Workers |-> NULL] /\ flush' = [f \in Flushers |-> NULL]
    /\ UNCHANGED <<stored, verified, updates, shared, applied, overtaken>>

Init ==
    /\ row = [phone |-> NULL, blocked |-> FALSE]
    /\ cache = NULL /\ backup = NULL /\ queue = <<>> /\ verified = FALSE
    /\ task = [w \in Workers |-> NULL] /\ flush = [f \in Flushers |-> NULL]
    /\ updates = 0 /\ shared = 0 /\ applied = {} /\ lost = {}
    /\ overtaken = FALSE /\ calm = {} /\ faults = 0

Handle(w) ==
    \/ Authenticate(w) \/ AuthenticationFails(w) \/ Prime(w) \/ Persist(w) \/ PersistFails(w)
    \/ Enqueue(w) \/ EnqueueFails(w) \/ PrimePhone(w) \/ Get(w) \/ Read(w) \/ ReadFails(w)
    \/ RememberRead(w) \/ Decided(w) \/ Ensure(w) \/ EnsureFails(w) \/ Ask(w)
    \/ SetBlocked(w) \/ SetBlockedFails(w)

FlushStep(f) ==
    \/ Pop(f) \/ PopFails(f) \/ FlushPersist(f) \/ FlushPersistFails(f) \/ PutBack(f) \/ PutBackFails(f)
    \/ Merge(f) \/ Clear(f) \/ Write(f)

Next ==
    \/ \E w \in Workers : Handle(w)
    \/ \E w \in Workers, kind \in {"share", "order", "other"} : Begin(w, kind)
    \/ \E f \in Flushers : StartFlush(f) \/ FlushStep(f)
    \/ Expire \/ Crash

\* The timer goes on ticking, and what began goes on.
Spec == /\ Init /\ [][Next]_vars
        /\ \A w \in Workers : WF_vars(Handle(w))
        /\ \A f \in Flushers : WF_vars(FlushStep(f)) /\ WF_vars(StartFlush(f))

-----------------------------------------------------------------------------
(* Properties *)

\* The variables keep their types.
TypeOK ==
    /\ row \in Access
    /\ cache \in Access \cup {NULL} /\ backup \in Access \cup {NULL}
    /\ queue \in Seq(Phones) /\ verified \in BOOLEAN
    /\ task \in [Workers -> Task \cup {NULL}] /\ flush \in [Flushers -> Flush \cup {NULL}]
    /\ updates \in 0 .. MaxUpdates /\ shared \in 0 .. MaxShares
    /\ applied \subseteq Phones /\ lost \subseteq Phones
    /\ overtaken \in BOOLEAN /\ calm \subseteq Workers /\ faults \in 0 .. MaxFaults

\* No phone a person shared disappears on its way: it reached the row, waits in the list
\* or is being handled, unless the list refused it too or the process died with it.
PhonesKept == 1 .. shared = applied \cup lost \cup Queued \cup InFlight

\* When nothing is on its way the row has the phone shared last, unless a phone was
\* dropped, or was saved, shared or flushed beside an older one (the list is applied
\* without a look at what the row has meanwhile).  What failed and was put back any
\* number of times, or waits behind others in the list, is applied in order.
LatestPhoneStays ==
    /\ Queued \cup InFlight = {} /\ lost = {} /\ ~overtaken /\ shared > 0
    => row.phone = shared

\* Whatever stale access earlier races and failures left in the cache, an order is
\* decided by the person's row when nothing failed or ran beside the update: its own
\* check-in has renewed the copies (mapAuthRow, getExecutorOrderAccess).
CalmOrderSeesRow ==
    \A w \in calm : At(w, "decided") => task[w].seen = row

\* A phone in the list reaches the row, through any failures there are, or is lost by a
\* putting back that failed, or waits behind a phone of another user's row: that one is
\* refused at every flush, goes back to the head and holds the list up, for ever if no
\* one gives it up (flushUserPhoneUpdates, persistPhoneVerification).
PhonesArrive ==
    \A n \in Phones \ Taken : n \in Queued ~> n \in applied \cup lost \cup HeldUp

\* No phone disappears, and the one shared last stays.
PhonesSound == TypeOK /\ PhonesKept /\ LatestPhoneStays
=============================================================================
