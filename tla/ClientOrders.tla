---------------------------- MODULE ClientOrders ----------------------------
(***************************************************************************)
(* One client's private chat: the wizards that collect a taxi or delivery  *)
(* order (taxiOrderFlow.ts, deliveryOrderFlow.ts), the choice of the city  *)
(* (citySelect.ts), and the session in which the wizards keep their state  *)
(* (session.ts, db/sessions.ts, sessionCache.ts).                          *)
(*                                                                         *)
(* The webhook answers at once and does not await the handler, so updates  *)
(* of one chat are handled concurrently.  Each loads a copy of the whole   *)
(* session, is authenticated, runs one handler on its copy, saves the copy *)
(* into the row and then into the cache.  Nothing locks the row and it has *)
(* no version.  An update is an entry of `tasks`, split at these steps;    *)
(* what it changes for good on the way (the order, the user's city) is     *)
(* changed at once.                                                        *)
(*                                                                         *)
(* Abstractions: a place is the city its 2GIS link names; a price is there *)
(* when the dropoff is; texts are only given or not; cards are not         *)
(* modelled, so a button may be pressed at any stage, as one of a card     *)
(* whose removal failed.                                                   *)
(***************************************************************************)
EXTENDS Naturals, Sequences, FiniteSets

CONSTANTS
    Workers,      \* updates handled at a time
    Cities,
    NoCity,
    Unnamed,      \* the city of a link that names none
    NoPlace,
    NoSession,
    MaxWork,          \* wizards started and orders created
    MaxTroubles       \* kinds of trouble that happen, each once

ASSUME ClientOrdersAssumption ==
    /\ NoCity \notin Cities
    /\ Unnamed \notin Cities
    /\ NoPlace \notin Cities \cup {Unnamed}
    /\ {MaxWork, MaxTroubles} \subseteq Nat

VARIABLES
    row,        \* the sessions table: the saved session, or NoSession
    cache,      \* its copy in Redis, or NoSession
    userCity,   \* users.city_selected
    tasks,      \* tasks[w]: the update that worker w handles
    orders,     \* the orders created, oldest first
    drafts,     \* how many wizards were started; numbers them (history)
    troubles    \* the troubles so far (history)

vars == <<row, cache, userCity, tasks, orders, drafts, troubles>>

-----------------------------------------------------------------------------
(* The session *)

Kinds == {"taxi", "delivery"}
Other(k) == IF k = "taxi" THEN "delivery" ELSE "taxi"

FlatDetails == {"apartment", "entrance", "floor"}
Details == FlatDetails \cup {"phone", "notes"}

TaxiStages == {"idle", "collectingPickup", "collectingDropoff", "awaitingConfirmation"}
AfterDropoff == {"selectingAddressType", "collectingApartment", "collectingEntrance",
                 "collectingFloor", "collectingRecipientPhone", "collectingComment",
                 "awaitingConfirmation"}
\* "creatingOrder" is left before the handler ends and never saved.
Stages == TaxiStages \cup AfterDropoff

Places == Cities \cup {Unnamed}

Draft == [id : Nat, stage : Stages,
          pickup : Places \cup {NoPlace}, dropoff : Places \cup {NoPlace},
          house : {"unknown", "private", "flat"}, has : SUBSET Details]

Session == [city : Cities \cup {NoCity}, draft : [Kinds -> Draft]]

ASSUME NoSessionAssumption == NoSession \notin Session

Blank == [id |-> 0, stage |-> "idle", pickup |-> NoPlace, dropoff |-> NoPlace,
          house |-> "unknown", has |-> {}]

DefaultSession == [city |-> NoCity, draft |-> [k \in Kinds |-> Blank]]

With(s, k, d) == [s EXCEPT !.draft[k] = d]

\* resetClientOrderDraft
ResetDraft(s, k) == With(s, k, Blank)

-----------------------------------------------------------------------------
(* What the handlers make of the session *)

\* Slip: the draft of the other wizard is left alone.
SlipStarted(s, k, n) == With(s, k, [Blank EXCEPT !.id = n, !.stage = "collectingPickup"])

\* handleStart and the commands /taxi and /delivery: one wizard is begun, the other dropped.
Started(s, k, n) ==
    ResetDraft(With(s, k, [Blank EXCEPT !.id = n, !.stage = "collectingPickup"]), Other(k))

\* doesLocationMatchCity: a link that names no city fits every city.
Matches(s, p) == s.city \in {NoCity, p} \/ p = Unnamed

\* applyPickupDetails, the same in both wizards
WithPickup(s, k, p) ==
    With(s, k, [s.draft[k] EXCEPT
        !.pickup = p,
        !.stage = IF s.city = NoCity THEN "idle" ELSE "collectingDropoff"])

\* A dropoff more than MAX_REASONABLE_DISTANCE_KM away
TooFar(s, k) ==
    With(s, k, [s.draft[k] EXCEPT !.dropoff = NoPlace, !.stage = "collectingDropoff"])

\* applyDropoffDetails of the taxi
TaxiDropoff(s, p, far) ==
    LET d == s.draft["taxi"]
    IN  IF d.pickup = NoPlace THEN With(s, "taxi", [d EXCEPT !.stage = "idle"])
        ELSE IF far THEN TooFar(s, "taxi")
        ELSE With(s, "taxi", [d EXCEPT
                !.dropoff = p,
                !.stage = IF s.city = NoCity THEN "idle" ELSE "awaitingConfirmation"])

\* applyDropoffDetails of the delivery forgets the details of an earlier address.
DeliveryDropoff(s, p, far) ==
    LET d == s.draft["delivery"]
    IN  IF d.pickup = NoPlace THEN With(s, "delivery", [d EXCEPT !.stage = "idle"])
        ELSE IF far THEN TooFar(s, "delivery")
        ELSE With(s, "delivery", [d EXCEPT
                !.dropoff = p, !.house = "unknown", !.has = @ \cap {"notes"},
                !.stage = "selectingAddressType"])

WithDropoff(s, k, p, far) ==
    IF k = "taxi" THEN TaxiDropoff(s, p, far) ELSE DeliveryDropoff(s, p, far)

\* Both wizards listen to every text, the taxi's first; it passes on what it does not expect.
Listener(s) == IF s.draft["taxi"].stage = "idle" THEN "delivery" ELSE "taxi"

\* applyAddressTypeSelection
WithAddressType(s, house) ==
    LET d == s.draft["delivery"]
    IN  With(s, "delivery",
             IF house = "private"
             THEN [d EXCEPT !.house = house, !.has = @ \ FlatDetails,
                            !.stage = "collectingRecipientPhone"]
             ELSE [d EXCEPT !.house = house, !.stage = "collectingApartment"])

\* The detail each stage of the delivery asks for, and the stage after it
Questions == {"collectingApartment", "collectingEntrance", "collectingFloor",
              "collectingRecipientPhone", "collectingComment"}
Asks(stage) ==
    CASE stage = "collectingApartment" -> "apartment"
      [] stage = "collectingEntrance" -> "entrance"
      [] stage = "collectingFloor" -> "floor"
      [] stage = "collectingRecipientPhone" -> "phone"
      [] stage = "collectingComment" -> "notes"
After(stage) ==
    CASE stage = "collectingApartment" -> "collectingEntrance"
      [] stage = "collectingEntrance" -> "collectingFloor"
      [] stage = "collectingFloor" -> "collectingRecipientPhone"
      [] stage = "collectingRecipientPhone" -> "collectingComment"
      [] stage = "collectingComment" -> "awaitingConfirmation"

\* isTaxiOrderDraftReady
HasPlaces(d) == d.pickup # NoPlace /\ d.dropoff # NoPlace

\* isOrderDraftComplete
Complete(d) ==
    /\ HasPlaces(d)
    /\ d.house # "unknown"
    /\ "phone" \in d.has
    /\ d.house = "flat" => FlatDetails \subseteq d.has

\* applyApartmentDetails ... applyDeliveryComment: the answer is kept and the next stage
\* asked for; after the comment an incomplete draft is dropped to idle.
WithAnswer(s) ==
    LET d == s.draft["delivery"]
        e == [d EXCEPT !.has = @ \cup {Asks(d.stage)}, !.stage = After(d.stage)]
    IN  With(s, "delivery",
             IF d.stage = "collectingComment" /\ ~Complete(e) THEN [e EXCEPT !.stage = "idle"]
             ELSE e)

\* Slip: the drafts are dropped, but the session keeps its city.
SlipCityKept(s, known, c) ==
    IF known \notin {NoCity, c} THEN [s EXCEPT !.draft = [k \in Kinds |-> Blank]] ELSE s

\* applyCitySelection; `known` is the city the authentication has read.
CityChosen(s, known, c) ==
    IF known \notin {NoCity, c} THEN [city |-> c, draft |-> [k \in Kinds |-> Blank]]
    ELSE [s EXCEPT !.city = c]

\* The checks of confirmOrder before it creates the order: TRUE lets it go on.
Ready(s, k) == IF k = "taxi" THEN HasPlaces(s.draft[k]) ELSE Complete(s.draft[k])
Confirmable(s, k) ==
    /\ Ready(s, k)
    /\ k = "delivery" => "notes" \in s.draft[k].has
    /\ s.city # NoCity

\* What confirmOrder does instead of creating an order
Refused(s, k) ==
    CASE ~Ready(s, k) -> ResetDraft(s, k)
      [] Ready(s, k) /\ k = "delivery" /\ "notes" \notin s.draft[k].has ->
            With(s, k, [s.draft[k] EXCEPT !.stage = "collectingComment"])
      [] OTHER -> With(s, k, [s.draft[k] EXCEPT !.stage = "idle"])

\* Slip: the draft is kept after the order was created.
SlipOrdered(s, k) == s

\* The `finally` of confirmOrder, whatever became of the order
Ordered(s, k) == ResetDraft(s, k)

\* The order as createOrder stores it; `live` until it is cancelled, because its
\* publication failed.
NewOrder(s, k, live) ==
    [kind |-> k, city |-> s.city, draft |-> s.draft[k], live |-> live]

Order == [kind : Kinds, city : Cities, draft : Draft, live : BOOLEAN]

-----------------------------------------------------------------------------
(* An update on its way through the middlewares *)

Idle == [phase |-> "none", s |-> DefaultSession, known |-> NoCity, fallback |-> FALSE]
Task == [phase : {"none", "loaded", "authed", "handled", "saved"}, s : Session,
         known : Cities \cup {NoCity}, fallback : BOOLEAN]

\* An update that arrives while another one is handled, and what may fail
Troubles == {"overlap", "load", "auth", "publish", "create", "city", "save", "cache", "crash"}

Happens(T) ==
    /\ T \cap troubles = {}
    /\ Cardinality(troubles \cup T) <= MaxTroubles
    /\ troubles' = troubles \cup T

Overlap == IF \E w \in Workers : tasks[w].phase # "none" THEN {"overlap"} ELSE {}

\* The cached copy, else createDefaultState
CachedSession == IF cache = NoSession THEN DefaultSession ELSE cache

\* session(): the row, else the cached copy, else the default state
Load(w) ==
    /\ tasks[w].phase = "none"
    /\ Happens(Overlap)
    /\ tasks' = [tasks EXCEPT ![w] = [Idle EXCEPT
            !.phase = "loaded", !.s = IF row = NoSession THEN CachedSession ELSE row]]
    /\ UNCHANGED <<row, cache, userCity, orders, drafts>>

\* No connection, or the query fails: the cached copy is handed on (prepareFallbackSession).
LoadFallback(w) ==
    /\ tasks[w].phase = "none"
    /\ Happens({"load"} \cup Overlap)
    /\ tasks' = [tasks EXCEPT ![w] = [Idle EXCEPT
            !.phase = "loaded", !.s = CachedSession, !.fallback = TRUE]]
    /\ UNCHANGED <<row, cache, userCity, orders, drafts>>

\* loadAuthState and applyAuthState: a session without a city takes the user's.  This
\* also ends the safe mode of a fallback session.
Authenticate(w) ==
    /\ tasks[w].phase = "loaded"
    /\ tasks' = [tasks EXCEPT
            ![w].phase = "authed", ![w].known = userCity,
            ![w].s.city = IF @ = NoCity THEN userCity ELSE @]
    /\ UNCHANGED <<row, cache, userCity, orders, drafts, troubles>>

\* The query fails: safe mode, in which stateGate answers the update and runs no handler.
\* The snapshot used instead has no city that the session lacks.
AuthenticationFails(w) ==
    /\ tasks[w].phase = "loaded"
    /\ Happens({"auth"})
    /\ tasks' = [tasks EXCEPT ![w].phase = "handled"]
    /\ UNCHANGED <<row, cache, userCity, orders, drafts>>

\* The handler ran and left the session s.
Handled(w, s) ==
    tasks' = [tasks EXCEPT ![w].phase = "handled", ![w].s = s]

\* A handler that changes neither drafts nor city, or that stopped at a check, a text
\* that does not fit the stage, an unknown link or a failing call
ChangesNothing(w) ==
    /\ tasks[w].phase = "authed"
    /\ Handled(w, tasks[w].s)
    /\ UNCHANGED <<row, cache, userCity, orders, drafts, troubles>>

\* handleStart; ensureCitySelected takes the user's city, or the session's.
Start(w, k) ==
    /\ tasks[w].phase = "authed"
    /\ drafts + Len(orders) < MaxWork
    /\ tasks[w].known # NoCity \/ tasks[w].s.city # NoCity
    /\ drafts' = drafts + 1
    /\ Handled(w, Started(tasks[w].s, k, drafts + 1))
    /\ UNCHANGED <<row, cache, userCity, orders, troubles>>

\* A 2GIS link, as a text or as one of the recent places (applyPickupAddress,
\* handleRecentPickup)
Pickup(w, p) ==
    LET s == tasks[w].s
        k == Listener(s)
    IN  /\ tasks[w].phase = "authed"
        /\ s.draft[k].stage = "collectingPickup"
        /\ Matches(s, p)
        /\ Handled(w, WithPickup(s, k, p))
        /\ UNCHANGED <<row, cache, userCity, orders, drafts, troubles>>

\* The same for the destination (applyDropoffAddress, handleRecentDropoff)
Dropoff(w, p, far) ==
    LET s == tasks[w].s
        k == Listener(s)
    IN  /\ tasks[w].phase = "authed"
        /\ s.draft[k].stage = "collectingDropoff"
        /\ Matches(s, p)
        /\ Handled(w, WithDropoff(s, k, p, far))
        /\ UNCHANGED <<row, cache, userCity, orders, drafts, troubles>>

\* The two buttons of the address type
AddressType(w, house) ==
    /\ tasks[w].phase = "authed"
    /\ tasks[w].s.draft["delivery"].stage = "selectingAddressType"
    /\ Handled(w, WithAddressType(tasks[w].s, house))
    /\ UNCHANGED <<row, cache, userCity, orders, drafts, troubles>>

\* A text that answers the stage of the delivery
Answer(w) ==
    /\ tasks[w].phase = "authed"
    /\ Listener(tasks[w].s) = "delivery"
    /\ tasks[w].s.draft["delivery"].stage \in Questions
    /\ Handled(w, WithAnswer(tasks[w].s))
    /\ UNCHANGED <<row, cache, userCity, orders, drafts, troubles>>

\* The cancel button of a wizard (cancelOrderDraft).
Cancel(w, k) ==
    /\ tasks[w].phase = "authed"
    /\ Handled(w, ResetDraft(tasks[w].s, k))
    /\ UNCHANGED <<row, cache, userCity, orders, drafts, troubles>>

\* /cancel or a word of the menu: the taxi's listener takes the text whatever the stage
\* and resets its own draft; the branch of the delivery never sees such a text.
Escape(w) ==
    /\ tasks[w].phase = "authed"
    /\ Handled(w, ResetDraft(tasks[w].s, "taxi"))
    /\ UNCHANGED <<row, cache, userCity, orders, drafts, troubles>>

\* The confirm button, when confirmOrder stops before the order is created
ConfirmRefused(w, k) ==
    /\ tasks[w].phase = "authed"
    /\ ~Confirmable(tasks[w].s, k)
    /\ Handled(w, Refused(tasks[w].s, k))
    /\ UNCHANGED <<row, cache, userCity, orders, drafts, troubles>>

\* confirmOrder creates the order, publishes it and resets the draft.
ConfirmCreates(w, k) ==
    /\ tasks[w].phase = "authed"
    /\ Confirmable(tasks[w].s, k)
    /\ drafts + Len(orders) < MaxWork
    /\ orders' = Append(orders, NewOrder(tasks[w].s, k, TRUE))
    /\ Handled(w, Ordered(tasks[w].s, k))
    /\ UNCHANGED <<row, cache, userCity, drafts, troubles>>

\* The publication fails: the order is cancelled, unless that fails too.
ConfirmPublishFails(w, k) ==
    /\ tasks[w].phase = "authed"
    /\ Confirmable(tasks[w].s, k)
    /\ drafts + Len(orders) < MaxWork
    /\ Happens({"publish"})
    /\ \E live \in BOOLEAN : orders' = Append(orders, NewOrder(tasks[w].s, k, live))
    /\ Handled(w, Ordered(tasks[w].s, k))
    /\ UNCHANGED <<row, cache, userCity, drafts>>

\* createOrder fails, with or without the row: the client is told to try again, and the
\* draft is reset all the same.
ConfirmCreateFails(w, k) ==
    /\ tasks[w].phase = "authed"
    /\ Confirmable(tasks[w].s, k)
    /\ Happens({"create"})
    /\ \/ UNCHANGED orders
       \/ drafts + Len(orders) < MaxWork /\ orders' = Append(orders, NewOrder(tasks[w].s, k, TRUE))
    /\ Handled(w, Ordered(tasks[w].s, k))
    /\ UNCHANGED <<row, cache, userCity, drafts>>

\* registerCityAction: the statement on users, then the session
ChooseCity(w, c) ==
    /\ tasks[w].phase = "authed"
    /\ userCity' = c
    /\ Handled(w, CityChosen(tasks[w].s, tasks[w].known, c))
    /\ UNCHANGED <<row, cache, orders, drafts, troubles>>

\* The statement is applied but its answer lost: the handler gives up before the session.
ChooseCityUnanswered(w, c) ==
    /\ tasks[w].phase = "authed"
    /\ Happens({"city"})
    /\ userCity' = c
    /\ Handled(w, tasks[w].s)
    /\ UNCHANGED <<row, cache, orders, drafts>>

\* saveSessionState, also after a handler that threw
Save(w) ==
    /\ tasks[w].phase = "handled" /\ ~tasks[w].fallback
    /\ row' = tasks[w].s
    /\ tasks' = [tasks EXCEPT ![w].phase = "saved"]
    /\ UNCHANGED <<cache, userCity, orders, drafts, troubles>>

SaveFails(w) ==
    /\ tasks[w].phase = "handled" /\ ~tasks[w].fallback
    /\ Happens({"save"})
    /\ tasks' = [tasks EXCEPT ![w].phase = "saved"]
    /\ UNCHANGED <<row, cache, userCity, orders, drafts>>

\* A fallback session is not written to the row.
SkipSave(w) ==
    /\ tasks[w].phase = "handled" /\ tasks[w].fallback
    /\ tasks' = [tasks EXCEPT ![w].phase = "saved"]
    /\ UNCHANGED <<row, cache, userCity, orders, drafts, troubles>>

\* saveSessionCache ends the update.
StoreCache(w) ==
    /\ tasks[w].phase = "saved"
    /\ cache' = tasks[w].s
    /\ tasks' = [tasks EXCEPT ![w] = Idle]
    /\ UNCHANGED <<row, userCity, orders, drafts, troubles>>

\* The handler threw, or Redis did not answer: the older copy stays.
SkipCache(w) ==
    /\ tasks[w].phase = "saved"
    /\ Happens({"cache"})
    /\ tasks' = [tasks EXCEPT ![w] = Idle]
    /\ UNCHANGED <<row, cache, userCity, orders, drafts>>

\* The copy in Redis reaches its time to live.
CacheExpires ==
    /\ cache # NoSession
    /\ cache' = NoSession
    /\ UNCHANGED <<row, userCity, tasks, orders, drafts, troubles>>

\* The process dies; the updates are not delivered again, the webhook has answered them.
Crash ==
    /\ Happens({"crash"})
    /\ tasks' = [w \in Workers |-> Idle]
    /\ UNCHANGED <<row, cache, userCity, orders, drafts>>

-----------------------------------------------------------------------------
Init ==
    /\ row = NoSession
    /\ cache = NoSession
    /\ userCity = NoCity
    /\ tasks = [w \in Workers |-> Idle]
    /\ orders = <<>>
    /\ drafts = 0
    /\ troubles = {}

Wizard(w) ==
    \/ ChangesNothing(w) \/ Answer(w) \/ Escape(w)
    \/ \E k \in Kinds : Start(w, k) \/ Cancel(w, k)
    \/ \E p \in Places : Pickup(w, p) \/ \E far \in BOOLEAN : Dropoff(w, p, far)
    \/ \E h \in {"private", "flat"} : AddressType(w, h)
    \/ \E k \in Kinds : ConfirmRefused(w, k) \/ ConfirmCreates(w, k)
                           \/ ConfirmPublishFails(w, k) \/ ConfirmCreateFails(w, k)
    \/ \E c \in Cities : ChooseCity(w, c) \/ ChooseCityUnanswered(w, c)

Middlewares(w) ==
    \/ Load(w) \/ LoadFallback(w) \/ Authenticate(w) \/ AuthenticationFails(w)
    \/ Save(w) \/ SaveFails(w) \/ SkipSave(w) \/ StoreCache(w) \/ SkipCache(w)

Next ==
    \/ \E w \in Workers : Wizard(w) \/ Middlewares(w)
    \/ CacheExpires
    \/ Crash

Spec == Init /\ [][Next]_vars

-----------------------------------------------------------------------------
(* Properties *)

\* Types of all variables.
TypeOK ==
    /\ row \in Session \cup {NoSession}
    /\ cache \in Session \cup {NoSession}
    /\ userCity \in Cities \cup {NoCity}
    /\ tasks \in [Workers -> Task]
    /\ orders \in Seq(Order)
    /\ drafts \in Nat
    /\ troubles \subseteq Troubles

\* Every copy of the session: the row, the cached one, and those of updates in flight
Copies == {tasks[w].s : w \in Workers} \cup ({row, cache} \ {NoSession})

\* The draft holds all that the questions before its stage have asked for.
DraftFits(k, d) ==
    /\ d.stage = "idle" => d = Blank
    /\ k = "taxi" => d.stage \in TaxiStages
    /\ d.stage \in {"collectingDropoff"} \cup AfterDropoff => d.pickup # NoPlace
    /\ d.stage \in AfterDropoff => HasPlaces(d)
    /\ d.stage = "collectingEntrance" => "apartment" \in d.has
    /\ d.stage = "collectingFloor" => {"apartment", "entrance"} \subseteq d.has
    /\ d.stage \in {"collectingApartment", "collectingEntrance", "collectingFloor"}
          => d.house = "flat"
    /\ k = "delivery" /\ d.stage \in {"collectingRecipientPhone", "collectingComment",
                                      "awaitingConfirmation"}
          => /\ d.house # "unknown"
             /\ d.house = "flat" => FlatDetails \subseteq d.has
    /\ k = "delivery" /\ d.stage \in {"collectingComment", "awaitingConfirmation"}
          => "phone" \in d.has
    /\ k = "delivery" /\ d.stage = "awaitingConfirmation" => "notes" \in d.has

SessionFits(s) ==
    \A k \in Kinds :
        /\ DraftFits(k, s.draft[k])
        /\ s.draft[k].stage # "idle" => s.city # NoCity

\* In every copy of the session, however updates interleave and whatever fails, a wizard
\* at a stage has the answers to all earlier questions and a city, and one at rest holds
\* nothing: the branches of the flows that drop a draft for missing data
\* (requestAddressType, applyDeliveryComment, confirmOrder without a city) are never
\* needed.
StagesFit == \A s \in Copies : SessionFits(s)

OneAtMost(s) == \E k \in Kinds : s.draft[k].stage = "idle"

\* In every copy at most one of the two wizards is in progress (handleStart drops the
\* other), so that a text has one listener.
OneWizard == \A s \in Copies : OneAtMost(s)

\* What can make an update work on a copy of the session that is not the latest
Outdating == {"overlap", "load", "save", "crash"}

\* One run of a wizard gives at most one order that is not cancelled, however often its
\* card is pressed, as long as no update worked on an outdated copy: a publication, an
\* order or an authentication that fails does not make a second one.
OneOrderPerDraft ==
    troubles \cap Outdating = {} =>
        \A i, j \in DOMAIN orders :
            orders[i].live /\ orders[j].live /\ orders[i].draft.id = orders[j].draft.id => i = j

\* The places of an order are in the city it is offered in, also when the client changes
\* the city on the way, as long as no update worked on an outdated copy and no choice of
\* a city went unanswered (applyCitySelection drops the drafts by what the authentication
\* read, not by the city of the session).
OrderCityFits ==
    troubles \cap (Outdating \cup {"city"}) = {} =>
        \A i \in DOMAIN orders :
            {orders[i].draft.pickup, orders[i].draft.dropoff} \subseteq {orders[i].city, Unnamed}

\* Between updates the saved session and the row of the user name the same city, under
\* the same conditions (applyCitySelection, applyAuthState).
CitiesAgree ==
    /\ troubles \cap (Outdating \cup {"city"}) = {}
    /\ row # NoSession
    /\ \A w \in Workers : tasks[w].phase = "none"
    => row.city = userCity

\* The city follows the client: in the orders, the session and the user's row.
CitiesFit == OrderCityFits /\ CitiesAgree

\* Whatever an update finds in its copy, the flows can go on from it.
WizardsFit == TypeOK /\ StagesFit /\ OneWizard
=============================================================================
