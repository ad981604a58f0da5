------------------------- MODULE ClientOrdersProofs -------------------------
(*************************************************************************)
(* Proofs about ClientOrders, for every set of workers, cities and every *)
(* bound. Whatever interleaves or fails: each copy of the session fits   *)
(* its wizards' stages and at most one wizard is in progress. As long as *)
(* no update works on an outdated session: one run of a wizard gives one *)
(* order, and its places are in the city it is offered in.               *)
(*                                                                       *)
(* The argument: the session is only ever copied whole, so it is enough  *)
(* that each handler makes a good session of a good one (the lemmas),    *)
(* and that an update which knows the user's city has one in its session *)
(* (KnownCity), for Start looks at either. For the last two, that        *)
(* updates run one at a time while no trouble excepts them, so that the  *)
(* newest copy is the one in hand, or the row (StraightInv, SteadyInv).  *)
(*************************************************************************)
EXTENDS ClientOrders, TLAPS

Good(s) == s \in Session /\ SessionFits(s) /\ OneAtMost(s)

KnownCity ==
    \A w \in Workers :
        tasks[w].phase = "authed" /\ tasks[w].known # NoCity => tasks[w].s.city # NoCity

CopiesGood ==
    /\ tasks \in [Workers -> Task]
    /\ \A w \in Workers : Good(tasks[w].s)
    /\ row = NoSession \/ Good(row)
    /\ cache = NoSession \/ Good(cache)

OrdersGood == orders \in Seq(Order)

RestTyped ==
    /\ userCity \in Cities \cup {NoCity}
    /\ drafts \in Nat
    /\ troubles \subseteq Troubles

IInv == CopiesGood /\ KnownCity /\ OrdersGood /\ RestTyped

-----------------------------------------------------------------------------
(* What the handlers make of a good session *)

\* Replacing one draft changes nothing else of the session.
LEMMA WithDraft ==
    ASSUME NEW s \in Session, NEW k \in Kinds, NEW d \in Draft
    PROVE  /\ With(s, k, d) \in Session
           /\ With(s, k, d).city = s.city
           /\ With(s, k, d).draft[k] = d
           /\ With(s, k, d).draft[Other(k)] = s.draft[Other(k)]
           /\ Other(k) \in Kinds /\ Other(k) # k
           /\ Kinds = {k, Other(k)}
  BY DEF With, Session, Other, Kinds

\* A good session stays good when one draft is replaced by one that fits.
LEMMA GoodWith ==
    ASSUME NEW s, Good(s), NEW k \in Kinds, NEW d \in Draft,
           DraftFits(k, d),
           d.stage # "idle" => s.city # NoCity,
           d.stage = "idle" \/ s.draft[Other(k)].stage = "idle"
    PROVE  Good(With(s, k, d))
<1> DEFINE t == With(s, k, d)
<1>0. s \in Session /\ SessionFits(s) BY DEF Good
<1>1. /\ t \in Session /\ t.city = s.city /\ t.draft[k] = d
      /\ t.draft[Other(k)] = s.draft[Other(k)]
      /\ Other(k) \in Kinds /\ Kinds = {k, Other(k)}
  BY <1>0, WithDraft
<1>2. SessionFits(t)
  <2>1. DraftFits(k, t.draft[k]) /\ (t.draft[k].stage # "idle" => t.city # NoCity)
    BY <1>1
  <2>2. /\ DraftFits(Other(k), t.draft[Other(k)])
        /\ t.draft[Other(k)].stage # "idle" => t.city # NoCity
    BY <1>0, <1>1 DEF SessionFits
  <2> HIDE DEF t
  <2>3. QED BY <1>1, <2>1, <2>2 DEF SessionFits
<1>3. OneAtMost(t)
  <2> HIDE DEF t
  <2>1. QED BY <1>1 DEF OneAtMost
<1>4. QED BY <1>1, <1>2, <1>3 DEF Good

\* The reset draft fits every session.
LEMMA BlankFits == Blank \in Draft /\ Blank.stage = "idle" /\ \A k \in Kinds : DraftFits(k, Blank)
  BY DEF Blank, Draft, Stages, TaxiStages, AfterDropoff, DraftFits, HasPlaces

\* The session of a chat that has none yet is good (createDefaultState).
LEMMA GoodDefault == Good(DefaultSession)
<1>1. DefaultSession \in Session BY BlankFits DEF DefaultSession, Session
<1>2. \A k \in Kinds : DefaultSession.draft[k] = Blank BY DEF DefaultSession
<1>3. "taxi" \in Kinds BY DEF Kinds
<1>4. QED BY <1>1, <1>2, <1>3, BlankFits DEF Good, SessionFits, OneAtMost

\* Dropping one draft keeps a session good (resetClientOrderDraft).
LEMMA GoodReset ==
    ASSUME NEW s, Good(s), NEW k \in Kinds
    PROVE  Good(ResetDraft(s, k))
  BY GoodWith, BlankFits DEF ResetDraft

\* A wizard that is not at rest is the only one.
LEMMA OtherIdle ==
    ASSUME NEW s, Good(s), NEW k \in Kinds, s.draft[k].stage # "idle"
    PROVE  s.draft[Other(k)].stage = "idle" /\ s.city # NoCity
  BY DEF Good, OneAtMost, SessionFits, Kinds, Other

\* Beginning a wizard drops the other draft, so that one is in progress
\* (handleStart).
LEMMA GoodStarted ==
    ASSUME NEW s, Good(s), NEW k \in Kinds, NEW n \in Nat, s.city # NoCity
    PROVE  Good(Started(s, k, n))
<1> DEFINE d == [Blank EXCEPT !.id = n, !.stage = "collectingPickup"]
           r == ResetDraft(s, Other(k))
<1>1. /\ d \in Draft /\ d.stage = "collectingPickup" /\ DraftFits(k, d)
  BY DEF Blank, Draft, Stages, TaxiStages, AfterDropoff, DraftFits, HasPlaces
<1>2. Other(k) \in Kinds /\ Other(k) # k /\ Other(Other(k)) = k BY DEF Kinds, Other
<1>3. Good(r) /\ r.city = s.city /\ r.draft[Other(k)] = Blank
  BY <1>2, GoodReset, WithDraft, BlankFits DEF Good, ResetDraft
<1>4. Good(With(r, k, d))
  <2> HIDE DEF d, r
  <2>1. QED BY <1>1, <1>2, <1>3, GoodWith, BlankFits
<1>5. Started(s, k, n) = With(r, k, d)
  BY <1>2 DEF Started, ResetDraft, With, Good, Session, Kinds, Other
<1>6. QED BY <1>4, <1>5

\* A good session's drafts are drafts.
LEMMA GoodDraft ==
    ASSUME NEW s, Good(s), NEW k \in Kinds
    PROVE  s \in Session /\ s.draft[k] \in Draft /\ DraftFits(k, s.draft[k])
  BY DEF Good, SessionFits, Session

\* An accepted pickup makes the draft wait for the dropoff (applyPickupDetails).
LEMMA GoodPickup ==
    ASSUME NEW s, Good(s), NEW k \in Kinds, NEW p \in Places,
           s.draft[k].stage = "collectingPickup"
    PROVE  Good(WithPickup(s, k, p))
<1> DEFINE d == [s.draft[k] EXCEPT !.pickup = p, !.stage = "collectingDropoff"]
<1>1. s.city # NoCity /\ s.draft[Other(k)].stage = "idle" BY OtherIdle
<1>2. d \in Draft /\ d.stage = "collectingDropoff" /\ d.pickup = p
  BY GoodDraft DEF Draft, Stages, TaxiStages
<1>3. DraftFits(k, d)
  <2> HIDE DEF d
  <2>1. p # NoPlace BY ClientOrdersAssumption DEF Places
  <2>2. QED BY <1>2, <2>1 DEF DraftFits, TaxiStages, AfterDropoff
<1>4. WithPickup(s, k, p) = With(s, k, d) BY <1>1 DEF WithPickup
<1> HIDE DEF d
<1>5. QED BY <1>1, <1>2, <1>3, <1>4, GoodWith

\* A dropoff that is too far is forgotten and asked for again (applyDropoffDetails).
LEMMA GoodTooFar ==
    ASSUME NEW s, Good(s), NEW k \in Kinds, s.draft[k].stage = "collectingDropoff"
    PROVE  Good(TooFar(s, k))
<1> DEFINE d == [s.draft[k] EXCEPT !.dropoff = NoPlace, !.stage = "collectingDropoff"]
<1>1. s.city # NoCity /\ s.draft[Other(k)].stage = "idle" BY OtherIdle
<1>2. /\ d \in Draft /\ d.stage = "collectingDropoff"
      /\ d.pickup = s.draft[k].pickup /\ s.draft[k].pickup # NoPlace
  BY GoodDraft DEF Draft, Stages, TaxiStages, DraftFits
<1>3. DraftFits(k, d)
  <2> HIDE DEF d
  <2>1. QED BY <1>2 DEF DraftFits, TaxiStages, AfterDropoff
<1> HIDE DEF d
<1>4. Good(With(s, k, d)) BY <1>1, <1>2, <1>3, GoodWith
<1>5. QED BY <1>4 DEF TooFar, d

\* An accepted dropoff comes with its price, and the next question (applyDropoffDetails).
LEMMA GoodDropoff ==
    ASSUME NEW s, Good(s), NEW k \in Kinds, NEW p \in Places, NEW far \in BOOLEAN,
           s.draft[k].stage = "collectingDropoff"
    PROVE  Good(WithDropoff(s, k, p, far))
<1>1. /\ s.city # NoCity /\ s.draft[Other(k)].stage = "idle"
      /\ s.draft[k] \in Draft /\ s.draft[k].pickup # NoPlace
      /\ p # NoPlace /\ p \in Places \cup {NoPlace}
  BY OtherIdle, GoodDraft, ClientOrdersAssumption DEF DraftFits, Places
<1>2. CASE far
  <2>1. WithDropoff(s, k, p, far) = TooFar(s, k)
    BY <1>1, <1>2 DEF WithDropoff, TaxiDropoff, DeliveryDropoff, Kinds
  <2>2. QED BY <2>1, GoodTooFar
<1>3. CASE ~far /\ k = "taxi"
  <2> DEFINE d == [s.draft[k] EXCEPT !.dropoff = p, !.stage = "awaitingConfirmation"]
  <2>1. /\ d \in Draft /\ d.stage = "awaitingConfirmation"
        /\ d.pickup # NoPlace /\ d.dropoff # NoPlace
    BY <1>1 DEF Draft, Stages, TaxiStages
  <2>2. WithDropoff(s, k, p, far) = With(s, k, d)
    BY <1>1, <1>3 DEF WithDropoff, TaxiDropoff
  <2> HIDE DEF d
  <2>3. DraftFits(k, d)
    BY <1>3, <2>1 DEF DraftFits, TaxiStages, AfterDropoff, HasPlaces
  <2>4. QED BY <1>1, <2>1, <2>2, <2>3, GoodWith
<1>4. CASE ~far /\ k = "delivery"
  <2> DEFINE d == [s.draft[k] EXCEPT !.dropoff = p, !.house = "unknown",
                                     !.has = @ \cap {"notes"}, !.stage = "selectingAddressType"]
  <2>1. s.draft[k].has \cap {"notes"} \in SUBSET Details BY <1>1 DEF Draft
  <2>2. /\ d \in Draft /\ d.stage = "selectingAddressType"
        /\ d.pickup # NoPlace /\ d.dropoff # NoPlace
    BY <1>1, <2>1 DEF Draft, Stages, AfterDropoff
  <2>3. WithDropoff(s, k, p, far) = With(s, k, d)
    BY <1>1, <1>4 DEF WithDropoff, DeliveryDropoff
  <2> HIDE DEF d
  <2>4. DraftFits(k, d)
    BY <1>4, <2>2 DEF DraftFits, AfterDropoff, HasPlaces
  <2>5. QED BY <1>1, <2>2, <2>3, <2>4, GoodWith
<1>5. QED BY <1>2, <1>3, <1>4 DEF Kinds

\* The kind of the house decides which question comes next (applyAddressTypeSelection).
LEMMA GoodAddressType ==
    ASSUME NEW s, Good(s), NEW house \in {"private", "flat"},
           s.draft["delivery"].stage = "selectingAddressType"
    PROVE  Good(WithAddressType(s, house))
<1> DEFINE o == s.draft["delivery"]
           d == IF house = "private"
                THEN [o EXCEPT !.house = house, !.has = @ \ FlatDetails,
                               !.stage = "collectingRecipientPhone"]
                ELSE [o EXCEPT !.house = house, !.stage = "collectingApartment"]
<1>1. "delivery" \in Kinds BY DEF Kinds
<1>2. /\ s.city # NoCity /\ s.draft[Other("delivery")].stage = "idle"
      /\ o \in Draft /\ HasPlaces(o)
  BY <1>1, OtherIdle, GoodDraft DEF DraftFits, AfterDropoff
<1>3. o.has \ FlatDetails \in SUBSET Details BY <1>2 DEF Draft
<1>4. /\ d \in Draft /\ d.house = house /\ HasPlaces(d)
      /\ d.stage = IF house = "private" THEN "collectingRecipientPhone"
                   ELSE "collectingApartment"
  BY <1>2, <1>3 DEF Draft, Stages, AfterDropoff, HasPlaces
<1>5. WithAddressType(s, house) = With(s, "delivery", d) BY DEF WithAddressType
<1> HIDE DEF d
<1>6. DraftFits("delivery", d)
  BY <1>4 DEF DraftFits, AfterDropoff, HasPlaces
<1>7. QED BY <1>1, <1>2, <1>4, <1>5, <1>6, GoodWith

\* An answer is kept, and the question after it asked (the text stages of the delivery).
LEMMA GoodAnswer ==
    ASSUME NEW s, Good(s), s.draft["delivery"].stage \in Questions
    PROVE  Good(WithAnswer(s))
<1> DEFINE o == s.draft["delivery"]
           d == [o EXCEPT !.has = @ \cup {Asks(o.stage)}, !.stage = After(o.stage)]
<1>1. "delivery" \in Kinds BY DEF Kinds
<1>2. /\ s.city # NoCity /\ s.draft[Other("delivery")].stage = "idle"
      /\ o \in Draft /\ HasPlaces(o) /\ DraftFits("delivery", o)
  BY <1>1, OtherIdle, GoodDraft DEF DraftFits, AfterDropoff, Questions
<1>3. Asks(o.stage) \in Details /\ After(o.stage) \in AfterDropoff
  BY DEF Questions, Asks, After, Details, FlatDetails, AfterDropoff
<1>4. o.has \cup {Asks(o.stage)} \in SUBSET Details BY <1>2, <1>3 DEF Draft
<1>5. /\ d \in Draft /\ d.stage = After(o.stage) /\ d.has = o.has \cup {Asks(o.stage)}
      /\ d.house = o.house /\ HasPlaces(d)
  BY <1>2, <1>3, <1>4 DEF Draft, Stages, HasPlaces
<1> HIDE DEF d
<1>6. DraftFits("delivery", d)
  <2> USE DEF DraftFits, AfterDropoff, FlatDetails, Asks, After, HasPlaces
  <2>1. CASE o.stage = "collectingApartment" BY <1>2, <1>5, <2>1
  <2>2. CASE o.stage = "collectingEntrance" BY <1>2, <1>5, <2>2
  <2>3. CASE o.stage = "collectingFloor" BY <1>2, <1>5, <2>3
  <2>4. CASE o.stage = "collectingRecipientPhone" BY <1>2, <1>5, <2>4
  <2>5. CASE o.stage = "collectingComment" BY <1>2, <1>5, <2>5
  <2>6. QED BY <2>1, <2>2, <2>3, <2>4, <2>5 DEF Questions
<1>7. ~(o.stage = "collectingComment" /\ ~Complete(d))
  BY <1>2, <1>5 DEF Complete, DraftFits, FlatDetails
<1>8. WithAnswer(s) = With(s, "delivery", d) BY <1>7 DEF WithAnswer, d
<1>9. Good(With(s, "delivery", d)) BY <1>1, <1>2, <1>5, <1>6, GoodWith
<1>10. QED BY <1>8, <1>9

\* Choosing a city drops what was drafted in another (applyCitySelection).
LEMMA GoodCityChosen ==
    ASSUME NEW s, Good(s), NEW known, NEW c \in Cities
    PROVE  Good(CityChosen(s, known, c))
<1>1. c # NoCity BY ClientOrdersAssumption
<1>2. CASE known \notin {NoCity, c}
  <2>1. CityChosen(s, known, c) = [DefaultSession EXCEPT !.city = c]
    BY <1>2 DEF CityChosen, DefaultSession
  <2>2. QED BY <1>1, <2>1, GoodDefault
            DEF Good, SessionFits, OneAtMost, Session, DefaultSession
<1>3. CASE ~(known \notin {NoCity, c})
  <2>1. CityChosen(s, known, c) = [s EXCEPT !.city = c] BY <1>3 DEF CityChosen
  <2>2. QED BY <1>1, <2>1 DEF Good, SessionFits, OneAtMost, Session
<1>4. QED BY <1>2, <1>3

\* The confirm button never meets a wizard that lacks data, so it drops one only at rest.
LEMMA GoodRefused ==
    ASSUME NEW s, Good(s), NEW k \in Kinds, ~Confirmable(s, k)
    PROVE  Good(Refused(s, k))
<1>1. CASE ~Ready(s, k) BY <1>1, GoodReset DEF Refused
<1>2. CASE Ready(s, k)
  <2>1. /\ s.draft[k] \in Draft /\ DraftFits(k, s.draft[k])
        /\ s.draft[k].stage # "idle" => s.city # NoCity
        /\ HasPlaces(s.draft[k])
    BY <1>2, GoodDraft DEF Ready, Complete, Good, SessionFits
  <2>2. s.draft[k].stage # "idle"
    BY <2>1 DEF DraftFits, HasPlaces, Blank
  <2>3. k = "delivery" /\ "notes" \notin s.draft[k].has
    BY <1>2, <2>1, <2>2 DEF Confirmable
  <2> DEFINE d == [s.draft[k] EXCEPT !.stage = "collectingComment"]
  <2>4. Refused(s, k) = With(s, k, d) BY <1>2, <2>3 DEF Refused
  <2>5. d \in Draft /\ d.stage = "collectingComment" /\ d.has = s.draft[k].has
        /\ d.house = s.draft[k].house /\ HasPlaces(d)
    BY <2>1 DEF Draft, Stages, AfterDropoff, HasPlaces
  <2>6. Complete(s.draft[k]) BY <1>2, <2>3 DEF Ready
  <2>7. s.city # NoCity /\ s.draft[Other(k)].stage = "idle" BY <2>2, OtherIdle
  <2> HIDE DEF d
  <2>8. DraftFits(k, d)
    BY <2>1, <2>3, <2>5, <2>6 DEF DraftFits, Complete, FlatDetails, AfterDropoff, HasPlaces
  <2>9. QED BY <2>4, <2>5, <2>7, <2>8, GoodWith
<1>3. QED BY <1>1, <1>2

-----------------------------------------------------------------------------
(* One step *)

\* An update moves on and takes a good session along; row and cache get good ones.
LEMMA TaskStep ==
    ASSUME IInv, NEW w \in Workers, NEW t \in Task, Good(t.s),
           t.phase = "authed" /\ t.known # NoCity => t.s.city # NoCity,
           tasks' = [tasks EXCEPT ![w] = t],
           row' = row \/ Good(row'),
           cache' = cache \/ Good(cache')
    PROVE  CopiesGood' /\ KnownCity'
<1>1. /\ tasks \in [Workers -> Task]
      /\ \A v \in Workers : Good(tasks[v].s)
      /\ row = NoSession \/ Good(row)
      /\ cache = NoSession \/ Good(cache)
      /\ KnownCity
  BY DEF IInv, CopiesGood
<1>2. /\ tasks' \in [Workers -> Task]
      /\ \A v \in Workers : tasks'[v] = IF v = w THEN t ELSE tasks[v]
  BY <1>1
<1>3. \A v \in Workers : Good(tasks'[v].s) BY <1>1, <1>2
<1>4. row' = NoSession \/ Good(row') BY <1>1
<1>5. cache' = NoSession \/ Good(cache') BY <1>1
<1>6. KnownCity' BY <1>1, <1>2 DEF KnownCity
<1>7. QED BY <1>2, <1>3, <1>4, <1>5, <1>6 DEF CopiesGood

\* An update changes its phase only.
LEMMA PhaseStep ==
    ASSUME IInv, NEW w \in Workers, NEW ph \in {"handled", "saved"},
           tasks' = [tasks EXCEPT ![w].phase = ph],
           row' = row \/ row' = tasks[w].s, UNCHANGED cache
    PROVE  CopiesGood' /\ KnownCity'
<1> DEFINE t == [tasks[w] EXCEPT !.phase = ph]
<1>1. tasks \in [Workers -> Task] /\ Good(tasks[w].s) BY DEF IInv, CopiesGood
<1>2. /\ t \in Task /\ t.s = tasks[w].s /\ t.phase # "authed"
      /\ tasks' = [tasks EXCEPT ![w] = t]
  BY <1>1 DEF Task
<1> HIDE DEF t
<1>3. QED BY <1>1, <1>2, TaskStep

\* The update leaves its worker.
LEMMA IdleStep ==
    ASSUME IInv, NEW w \in Workers,
           tasks' = [tasks EXCEPT ![w] = Idle], UNCHANGED row,
           cache' = cache \/ cache' = tasks[w].s
    PROVE  CopiesGood' /\ KnownCity'
<1>1. Good(tasks[w].s) BY DEF IInv, CopiesGood
<1>2. Idle \in Task /\ Good(Idle.s) /\ Idle.phase # "authed"
  BY GoodDefault DEF Idle, Task, Good
<1>3. QED BY <1>1, <1>2, TaskStep

\* A handler leaves a good session.
LEMMA HandledStep ==
    ASSUME IInv, NEW w \in Workers, NEW s, Good(s), Handled(w, s), UNCHANGED <<row, cache>>
    PROVE  CopiesGood' /\ KnownCity'
<1> DEFINE t == [tasks[w] EXCEPT !.phase = "handled", !.s = s]
<1>1. tasks \in [Workers -> Task] /\ s \in Session BY DEF IInv, CopiesGood, Good
<1>2. /\ t \in Task /\ t.s = s /\ t.phase # "authed"
      /\ tasks' = [tasks EXCEPT ![w] = t]
  BY <1>1 DEF Task, Handled
<1> HIDE DEF t
<1>3. QED BY <1>2, TaskStep

\* A trouble that happens is one of those named.
LEMMA HappensTyped ==
    ASSUME IInv, NEW T \in SUBSET Troubles, Happens(T)
    PROVE  troubles' \subseteq Troubles
  BY DEF IInv, RestTyped, Happens

\* Each handler started on a good session leaves a good one.
LEMMA WizardCopies ==
    ASSUME IInv, NEW w \in Workers, Wizard(w)
    PROVE  CopiesGood' /\ KnownCity'
<1> DEFINE s == tasks[w].s
<1>1. Good(s) /\ drafts + 1 \in Nat BY DEF IInv, CopiesGood, RestTyped
<1>2. "delivery" \in Kinds /\ "taxi" \in Kinds /\ Listener(s) \in Kinds
  BY DEF Kinds, Listener
<1>3. CASE ChangesNothing(w) BY <1>1, <1>3, HandledStep DEF ChangesNothing
<1>4. CASE Answer(w) BY <1>1, <1>4, GoodAnswer, HandledStep DEF Answer
<1>5. CASE Escape(w) BY <1>1, <1>2, <1>5, GoodReset, HandledStep DEF Escape
<1>6. ASSUME NEW k \in Kinds, Start(w, k) PROVE CopiesGood' /\ KnownCity'
  <2>1. s.city # NoCity BY <1>6 DEF Start, IInv, KnownCity
  <2>2. QED BY <1>1, <1>6, <2>1, GoodStarted, HandledStep DEF Start
<1>7. ASSUME NEW k \in Kinds, Cancel(w, k) PROVE CopiesGood' /\ KnownCity'
  BY <1>1, <1>7, GoodReset, HandledStep DEF Cancel
<1>8. ASSUME NEW p \in Places, Pickup(w, p) PROVE CopiesGood' /\ KnownCity'
  BY <1>1, <1>2, <1>8, GoodPickup, HandledStep DEF Pickup
<1>9. ASSUME NEW p \in Places, NEW far \in BOOLEAN, Dropoff(w, p, far)
      PROVE CopiesGood' /\ KnownCity'
  BY <1>1, <1>2, <1>9, GoodDropoff, HandledStep DEF Dropoff
<1>10. ASSUME NEW h \in {"private", "flat"}, AddressType(w, h) PROVE CopiesGood' /\ KnownCity'
  BY <1>1, <1>10, GoodAddressType, HandledStep DEF AddressType
<1>11. ASSUME NEW k \in Kinds, ConfirmRefused(w, k) PROVE CopiesGood' /\ KnownCity'
  BY <1>1, <1>11, GoodRefused, HandledStep DEF ConfirmRefused
<1>12. ASSUME NEW k \in Kinds,
              ConfirmCreates(w, k) \/ ConfirmPublishFails(w, k) \/ ConfirmCreateFails(w, k)
       PROVE CopiesGood' /\ KnownCity'
  <2>1. Handled(w, ResetDraft(s, k)) /\ UNCHANGED <<row, cache>>
    BY <1>12 DEF ConfirmCreates, ConfirmPublishFails, ConfirmCreateFails, Ordered
  <2>2. QED BY <1>1, <2>1, GoodReset, HandledStep
<1>13. ASSUME NEW c \in Cities, ChooseCity(w, c) PROVE CopiesGood' /\ KnownCity'
  BY <1>1, <1>13, GoodCityChosen, HandledStep DEF ChooseCity
<1>14. ASSUME NEW c \in Cities, ChooseCityUnanswered(w, c) PROVE CopiesGood' /\ KnownCity'
  BY <1>1, <1>14, HandledStep DEF ChooseCityUnanswered
<1> HIDE DEF s
<1>15. QED
  BY <1>3, <1>4, <1>5, <1>6, <1>7, <1>8, <1>9, <1>10, <1>11, <1>12, <1>13, <1>14 DEF Wizard

\* confirmOrder lets a complete draft with a city through.
LEMMA NewOrderGood ==
    ASSUME NEW s, Good(s), NEW k \in Kinds, NEW live \in BOOLEAN, Confirmable(s, k), OrdersGood,
           orders' = Append(orders, NewOrder(s, k, live))
    PROVE  OrdersGood'
<1> DEFINE o == NewOrder(s, k, live)
<1>1. s.draft[k] \in Draft /\ s.city \in Cities /\ Ready(s, k)
  BY GoodDraft DEF Confirmable, Session
<1>2. o \in Order BY <1>1 DEF NewOrder, Order
<1> HIDE DEF o
<1>3. orders \in Seq(Order) /\ orders' = Append(orders, o) BY DEF OrdersGood, o
<1>4. QED BY <1>2, <1>3 DEF OrdersGood

\* An order a handler makes is one (confirmOrder).
LEMMA WizardOrders ==
    ASSUME IInv, NEW w \in Workers, Wizard(w)
    PROVE  OrdersGood'
<1>1. Good(tasks[w].s) /\ OrdersGood BY DEF IInv, CopiesGood
<1>2. CASE UNCHANGED orders BY <1>1, <1>2 DEF OrdersGood
<1>3. CASE \E k \in Kinds, live \in BOOLEAN :
              /\ Confirmable(tasks[w].s, k)
              /\ orders' = Append(orders, NewOrder(tasks[w].s, k, live))
  <2>1. PICK k \in Kinds, live \in BOOLEAN :
              /\ Confirmable(tasks[w].s, k)
              /\ orders' = Append(orders, NewOrder(tasks[w].s, k, live))
    BY <1>3
  <2>2. QED BY <1>1, <2>1, NewOrderGood
<1>4. UNCHANGED orders \/ \E k \in Kinds, live \in BOOLEAN :
              /\ Confirmable(tasks[w].s, k)
              /\ orders' = Append(orders, NewOrder(tasks[w].s, k, live))
  BY DEF Wizard, ChangesNothing, Answer, Escape, Start, Cancel, Pickup, Dropoff,
         AddressType, ConfirmRefused, ConfirmCreates, ConfirmPublishFails,
         ConfirmCreateFails, ChooseCity, ChooseCityUnanswered
<1>5. QED BY <1>2, <1>3, <1>4

\* What a handler changes outside the session stays typed.
LEMMA WizardRest ==
    ASSUME IInv, NEW w \in Workers, Wizard(w)
    PROVE  RestTyped'
<1> DEFINE Same == UNCHANGED userCity /\ UNCHANGED drafts
<1>0. /\ \/ Same
         \/ UNCHANGED userCity /\ drafts' = drafts + 1
         \/ userCity' \in Cities /\ UNCHANGED drafts
      /\ userCity \in Cities \cup {NoCity} /\ drafts \in Nat
  BY DEF IInv, RestTyped, Wizard, ChangesNothing, Answer, Escape, Start, Cancel, Pickup,
         Dropoff, AddressType, ConfirmRefused, ConfirmCreates, ConfirmPublishFails,
         ConfirmCreateFails, ChooseCity, ChooseCityUnanswered
<1>1. userCity' \in Cities \cup {NoCity} /\ drafts' \in Nat BY <1>0
<1>2. \/ UNCHANGED troubles
      \/ Happens({"publish"}) \/ Happens({"create"}) \/ Happens({"city"})
  BY DEF Wizard, ChangesNothing, Answer, Escape, Start, Cancel, Pickup,
         Dropoff, AddressType, ConfirmRefused, ConfirmCreates, ConfirmPublishFails,
         ConfirmCreateFails, ChooseCity, ChooseCityUnanswered
<1>3. {"publish"} \subseteq Troubles /\ {"create"} \subseteq Troubles /\ {"city"} \subseteq Troubles
  BY DEF Troubles
<1>4. troubles' \subseteq Troubles BY <1>2, <1>3, HappensTyped DEF IInv, RestTyped
<1>5. QED BY <1>1, <1>4 DEF RestTyped

\* The check-in gives a session without a city the one of the row (applyAuthState).
LEMMA AuthenticateStep ==
    ASSUME IInv, NEW w \in Workers, Authenticate(w)
    PROVE  CopiesGood' /\ KnownCity'
<1> DEFINE o == tasks[w]
           c == IF o.s.city = NoCity THEN userCity ELSE o.s.city
           s == [o.s EXCEPT !.city = c]
           t == [o EXCEPT !.phase = "authed", !.known = userCity, !.s = s]
<1>1. /\ tasks \in [Workers -> Task] /\ o \in Task /\ Good(o.s)
      /\ userCity \in Cities \cup {NoCity}
  BY DEF IInv, CopiesGood, RestTyped
<1>2. /\ c \in Cities \cup {NoCity}
      /\ o.s.city # NoCity => c # NoCity
      /\ userCity # NoCity => c # NoCity
  BY <1>1 DEF Good, Session
<1>3. s \in Session /\ s.city = c /\ s.draft = o.s.draft
  BY <1>1, <1>2 DEF Good, Session
<1>4. Good(s)
  <2> HIDE DEF s, c
  <2>1. QED BY <1>1, <1>2, <1>3 DEF Good, SessionFits, OneAtMost
<1>5. /\ t \in Task /\ t.s = s /\ t.known = userCity
      /\ tasks' = [tasks EXCEPT ![w] = t]
  BY <1>1, <1>3 DEF Task, Authenticate
<1>6. UNCHANGED <<row, cache>> BY DEF Authenticate
<1> HIDE DEF s, t, c
<1>7. QED BY <1>2, <1>3, <1>4, <1>5, <1>6, TaskStep

\* Loading, saving and caching copy a good session whole (session.ts).
LEMMA MiddlewaresCopies ==
    ASSUME IInv, NEW w \in Workers, Middlewares(w)
    PROVE  CopiesGood' /\ KnownCity'
<1>1. Good(CachedSession) BY GoodDefault DEF IInv, CopiesGood, CachedSession
<1>2. CASE Load(w)
  <2> DEFINE s == IF row = NoSession THEN CachedSession ELSE row
             t == [Idle EXCEPT !.phase = "loaded", !.s = s]
  <2>1. Good(s) BY <1>1 DEF IInv, CopiesGood
  <2>2. t \in Task /\ t.s = s /\ t.phase # "authed" BY <2>1 DEF Task, Idle, Good
  <2>3. tasks' = [tasks EXCEPT ![w] = t] /\ UNCHANGED <<row, cache>> BY <1>2 DEF Load
  <2> HIDE DEF s, t
  <2>4. QED BY <2>1, <2>2, <2>3, TaskStep
<1>3. CASE LoadFallback(w)
  <2> DEFINE t == [Idle EXCEPT !.phase = "loaded", !.s = CachedSession, !.fallback = TRUE]
  <2>1. t \in Task /\ t.s = CachedSession /\ t.phase # "authed"
    BY <1>1 DEF Task, Idle, Good
  <2>2. tasks' = [tasks EXCEPT ![w] = t] /\ UNCHANGED <<row, cache>> BY <1>3 DEF LoadFallback
  <2> HIDE DEF t
  <2>3. QED BY <1>1, <2>1, <2>2, TaskStep
<1>4. CASE Authenticate(w) BY <1>4, AuthenticateStep
<1>5. CASE AuthenticationFails(w) BY <1>5, PhaseStep DEF AuthenticationFails
<1>6. CASE Save(w) \/ SaveFails(w) \/ SkipSave(w)
  BY <1>6, PhaseStep DEF Save, SaveFails, SkipSave
<1>7. CASE StoreCache(w) \/ SkipCache(w) BY <1>7, IdleStep DEF StoreCache, SkipCache
<1>8. QED BY <1>2, <1>3, <1>4, <1>5, <1>6, <1>7 DEF Middlewares

\* Loading, saving and caching touch no order and no row of a user.
LEMMA MiddlewaresRest ==
    ASSUME IInv, NEW w \in Workers, Middlewares(w)
    PROVE  OrdersGood' /\ RestTyped'
<1>1. UNCHANGED <<userCity, orders, drafts>>
  BY DEF Middlewares, Load, LoadFallback, Authenticate, AuthenticationFails, Save,
         SaveFails, SkipSave, StoreCache, SkipCache
<1>2. UNCHANGED troubles \/ \E T \in SUBSET Troubles : Happens(T)
  <2>1. /\ Overlap \in SUBSET Troubles /\ {"load"} \cup Overlap \in SUBSET Troubles
        /\ {"auth"} \in SUBSET Troubles /\ {"save"} \in SUBSET Troubles
        /\ {"cache"} \in SUBSET Troubles
    BY DEF Troubles, Overlap
  <2>2. \/ UNCHANGED troubles \/ Happens(Overlap) \/ Happens({"load"} \cup Overlap)
        \/ Happens({"auth"}) \/ Happens({"save"}) \/ Happens({"cache"})
    BY DEF Middlewares, Load, LoadFallback, Authenticate, AuthenticationFails, Save,
           SaveFails, SkipSave, StoreCache, SkipCache
  <2>3. QED BY <2>1, <2>2
<1>3. troubles' \subseteq Troubles BY <1>2, HappensTyped DEF IInv, RestTyped
<1>4. QED BY <1>1, <1>3 DEF IInv, OrdersGood, RestTyped

-----------------------------------------------------------------------------
(* The invariant *)

\* The invariant holds at the start.
LEMMA InitIInv == Init => IInv
<1> SUFFICES ASSUME Init PROVE IInv OBVIOUS
<1>1. Idle \in Task /\ Good(Idle.s) /\ Idle.phase # "authed"
  BY GoodDefault DEF Idle, Task, Good
<1>2. CopiesGood /\ KnownCity BY <1>1 DEF Init, CopiesGood, KnownCity
<1>3. OrdersGood
  <2>1. orders = <<>> BY DEF Init
  <2>2. QED BY <2>1 DEF OrdersGood
<1>4. RestTyped BY DEF Init, RestTyped
<1>5. QED BY <1>2, <1>3, <1>4 DEF IInv

\* Every step keeps the invariant.
LEMMA NextIInv == IInv /\ [Next]_vars => IInv'
<1> SUFFICES ASSUME IInv, [Next]_vars PROVE IInv' OBVIOUS
<1>1. ASSUME NEW w \in Workers, Wizard(w) PROVE IInv'
  BY <1>1, WizardCopies, WizardOrders, WizardRest DEF IInv
<1>2. ASSUME NEW w \in Workers, Middlewares(w) PROVE IInv'
  BY <1>2, MiddlewaresCopies, MiddlewaresRest DEF IInv
<1>3. CASE CacheExpires
  BY <1>3 DEF CacheExpires, IInv, CopiesGood, KnownCity, OrdersGood, RestTyped
<1>4. CASE Crash
  <2>1. Idle \in Task /\ Good(Idle.s) /\ Idle.phase # "authed"
    BY GoodDefault DEF Idle, Task, Good
  <2>2. tasks' = [w \in Workers |-> Idle] /\ UNCHANGED <<row, cache, userCity, orders, drafts>>
    BY <1>4 DEF Crash
  <2>3. tasks' \in [Workers -> Task] /\ \A w \in Workers : tasks'[w] = Idle BY <2>1, <2>2
  <2>4. CopiesGood' /\ KnownCity'
    BY <2>1, <2>2, <2>3 DEF IInv, CopiesGood, KnownCity
  <2>5. {"crash"} \in SUBSET Troubles BY DEF Troubles
  <2>6. troubles' \subseteq Troubles BY <1>4, <2>5, HappensTyped DEF Crash
  <2>7. OrdersGood' /\ RestTyped' BY <2>2, <2>6 DEF IInv, OrdersGood, RestTyped
  <2>8. QED BY <2>4, <2>7 DEF IInv
<1>5. CASE UNCHANGED vars
  BY <1>5 DEF vars, IInv, CopiesGood, KnownCity, OrdersGood, RestTyped
<1>6. QED BY <1>1, <1>2, <1>3, <1>4, <1>5 DEF Next

\* The invariant holds in every state.
LEMMA IInvHolds == Spec => []IInv
  BY InitIInv, NextIInv, PTL DEF Spec

-----------------------------------------------------------------------------
(* Theorems *)

\* All variables keep their types: what is loaded, cached and saved is always a session.
THEOREM TypeCorrect == Spec => []TypeOK
<1>1. IInv => TypeOK
  BY DEF IInv, CopiesGood, Good, OrdersGood, RestTyped, TypeOK
<1>2. QED BY <1>1, IInvHolds, PTL

\* However updates interleave, and whatever is lost or fails, a wizard at a stage has the
\* answers to all earlier questions (applyPickupDetails ... applyDeliveryComment).
THEOREM StagesFitHolds == Spec => []StagesFit
<1>1. IInv => StagesFit BY DEF IInv, CopiesGood, Good, StagesFit, Copies
<1>2. QED BY <1>1, IInvHolds, PTL

\* Likewise, no copy of the session has both wizards in progress (handleStart).
THEOREM OneWizardHolds == Spec => []OneWizard
<1>1. IInv => OneWizard BY DEF IInv, CopiesGood, Good, OneWizard, Copies
<1>2. QED BY <1>1, IInvHolds, PTL

\* Types, stages and wizards together, as the run checks them.
THEOREM WizardsFitHolds == Spec => []WizardsFit
<1>1. TypeOK /\ StagesFit /\ OneWizard => WizardsFit BY DEF WizardsFit
<1>2. QED BY <1>1, TypeCorrect, StagesFitHolds, OneWizardHolds, PTL

-----------------------------------------------------------------------------
(* What no second order and no wrong city rest on *)

\* No update worked on an outdated copy; also no choice of a city went unanswered.
Straight == troubles \cap Outdating = {}
Steady == troubles \cap (Outdating \cup {"city"}) = {}

\* The session's new state is written down.
NobodyHandled == \A w \in Workers : tasks[w].phase # "handled"

\* The wizards in progress have numbers that no order has.
OrderIds == {orders[i].draft.id : i \in DOMAIN orders}
Fresh(s) ==
    \A k \in Kinds :
        s.draft[k].stage # "idle" => s.draft[k].id <= drafts /\ s.draft[k].id \notin OrderIds

\* The places of the drafts are in the city of the session.
Local(s) ==
    \A k \in Kinds : {s.draft[k].pickup, s.draft[k].dropoff} \subseteq {s.city, Unnamed, NoPlace}

\* One update at a time, which hands on what it has loaded, and the row gets what it saves.
OneAtATime ==
    /\ \A v, w \in Workers : tasks[v].phase # "none" /\ tasks[w].phase # "none" => v = w
    /\ \A w \in Workers : tasks[w].phase # "none" => ~tasks[w].fallback
    /\ \A w \in Workers : tasks[w].phase = "saved" => row = tasks[w].s
    /\ row = NoSession => cache = NoSession

\* The update under way, and else the row, has the latest wizards.
CopiesFresh ==
    /\ \A w \in Workers : tasks[w].phase # "none" => Fresh(tasks[w].s)
    /\ NobodyHandled /\ row # NoSession => Fresh(row)
OrdersDistinct ==
    /\ \A i \in DOMAIN orders : orders[i].draft.id <= drafts
    /\ \A i, j \in DOMAIN orders : orders[i].draft.id = orders[j].draft.id => i = j

\* The update under way, and else the row, has the user's city and places in it.
CopiesLocal ==
    /\ \A w \in Workers : tasks[w].phase # "none" => Local(tasks[w].s) /\ tasks[w].s.city = userCity
    /\ \A w \in Workers : tasks[w].phase = "authed" => tasks[w].known = userCity
    /\ NobodyHandled => /\ row = NoSession => userCity = NoCity
                        /\ row # NoSession => Local(row) /\ row.city = userCity
OrdersLocal ==
    \A i \in DOMAIN orders :
        {orders[i].draft.pickup, orders[i].draft.dropoff} \subseteq {orders[i].city, Unnamed}

StraightInv == Straight => OneAtATime /\ CopiesFresh /\ OrdersDistinct
SteadyInv == Steady => CopiesLocal /\ OrdersLocal

-----------------------------------------------------------------------------
(* What the handlers make of numbers and places *)

\* The wizards of t are those of s, as far as they go on, ...
Keeps(s, t) ==
    \A k \in Kinds : t.draft[k].stage # "idle" =>
        s.draft[k].stage # "idle" /\ t.draft[k].id = s.draft[k].id

\* ... in the same city and with places in it.
Follows(s, t) ==
    /\ Keeps(s, t) /\ t.city = s.city /\ (Local(s) => Local(t))

\* It is enough to look at the draft that is replaced.
LEMMA FollowsWith ==
    ASSUME NEW s, Good(s), NEW k \in Kinds, NEW d \in Draft,
           d.stage # "idle" => s.draft[k].stage # "idle" /\ d.id = s.draft[k].id,
           {d.pickup, d.dropoff} \subseteq
               {s.draft[k].pickup, s.draft[k].dropoff, s.city, Unnamed, NoPlace}
    PROVE  Follows(s, With(s, k, d))
<1> DEFINE t == With(s, k, d)
<1>1. /\ t \in Session /\ t.city = s.city /\ t.draft[k] = d
      /\ t.draft[Other(k)] = s.draft[Other(k)]
      /\ Other(k) \in Kinds /\ Kinds = {k, Other(k)}
  BY WithDraft DEF Good
<1> HIDE DEF t
<1>2. Keeps(s, t) BY <1>1 DEF Keeps
<1>3. ASSUME Local(s) PROVE Local(t)
  <2>1. {s.draft[k].pickup, s.draft[k].dropoff} \subseteq {s.city, Unnamed, NoPlace}
    BY <1>3 DEF Local
  <2>2. {d.pickup, d.dropoff} \subseteq {s.city, Unnamed, NoPlace} BY <2>1
  <2>3. {s.draft[Other(k)].pickup, s.draft[Other(k)].dropoff} \subseteq {s.city, Unnamed, NoPlace}
    BY <1>1, <1>3 DEF Local
  <2>4. QED BY <1>1, <2>2, <2>3 DEF Local
<1>4. Follows(s, t) BY <1>1, <1>2, <1>3 DEF Follows
<1>5. QED BY <1>4 DEF t

\* A reset draft is no wizard and has no places.
LEMMA FollowsReset ==
    ASSUME NEW s, Good(s), NEW k \in Kinds
    PROVE  Follows(s, ResetDraft(s, k))
<1>1. Blank.pickup = NoPlace /\ Blank.dropoff = NoPlace BY DEF Blank
<1>2. QED BY <1>1, BlankFits, FollowsWith DEF ResetDraft

\* The pickup that fits the city (applyPickupDetails).
LEMMA FollowsPickup ==
    ASSUME NEW s, Good(s), NEW k \in Kinds, NEW p \in Places,
           s.draft[k].stage = "collectingPickup", Matches(s, p)
    PROVE  Follows(s, WithPickup(s, k, p))
<1>1. s.city # NoCity /\ s.draft[k] \in Draft BY OtherIdle, GoodDraft
<1>2. p = s.city \/ p = Unnamed BY <1>1 DEF Matches
<1>3. PICK d : d = [s.draft[k] EXCEPT !.pickup = p, !.stage = "collectingDropoff"] OBVIOUS
<1>4. /\ d \in Draft /\ d.id = s.draft[k].id
      /\ d.pickup = p /\ d.dropoff = s.draft[k].dropoff
  BY <1>1, <1>3 DEF Draft, Stages, TaxiStages
<1>5. WithPickup(s, k, p) = With(s, k, d) BY <1>1, <1>3 DEF WithPickup
<1>6. QED BY <1>2, <1>4, <1>5, FollowsWith

\* The dropoff likewise, or none that is too far away (applyDropoffDetails).
LEMMA FollowsDropoff ==
    ASSUME NEW s, Good(s), NEW k \in Kinds, NEW p \in Places, NEW far \in BOOLEAN,
           s.draft[k].stage = "collectingDropoff", Matches(s, p)
    PROVE  Follows(s, WithDropoff(s, k, p, far))
<1>1. /\ s.city # NoCity /\ s.draft[k] \in Draft /\ s.draft[k].pickup # NoPlace
  BY OtherIdle, GoodDraft DEF DraftFits
<1>2. p = s.city \/ p = Unnamed BY <1>1 DEF Matches
<1>3. CASE far
  <2>1. PICK d : d = [s.draft[k] EXCEPT !.dropoff = NoPlace, !.stage = "collectingDropoff"]
    OBVIOUS
  <2>2. /\ d \in Draft /\ d.id = s.draft[k].id
        /\ d.pickup = s.draft[k].pickup /\ d.dropoff = NoPlace
    BY <1>1, <2>1 DEF Draft, Stages, TaxiStages
  <2>3. WithDropoff(s, k, p, far) = With(s, k, d)
    BY <1>1, <1>3, <2>1 DEF WithDropoff, TaxiDropoff, DeliveryDropoff, TooFar, Kinds
  <2>4. QED BY <2>2, <2>3, FollowsWith
<1>4. CASE ~far /\ k = "taxi"
  <2>1. PICK d : d = [s.draft[k] EXCEPT !.dropoff = p, !.stage = "awaitingConfirmation"] OBVIOUS
  <2>2. /\ d \in Draft /\ d.id = s.draft[k].id
        /\ d.pickup = s.draft[k].pickup /\ d.dropoff = p
    BY <1>1, <2>1 DEF Draft, Stages, TaxiStages
  <2>3. WithDropoff(s, k, p, far) = With(s, k, d)
    BY <1>1, <1>4, <2>1 DEF WithDropoff, TaxiDropoff
  <2>4. QED BY <1>2, <2>2, <2>3, FollowsWith
<1>5. CASE ~far /\ k = "delivery"
  <2>0. s.draft[k].has \cap {"notes"} \in SUBSET Details BY <1>1 DEF Draft
  <2>1. PICK d : d = [s.draft[k] EXCEPT !.dropoff = p, !.house = "unknown",
                                        !.has = @ \cap {"notes"}, !.stage = "selectingAddressType"]
    OBVIOUS
  <2>2. /\ d \in Draft /\ d.id = s.draft[k].id
        /\ d.pickup = s.draft[k].pickup /\ d.dropoff = p
    BY <1>1, <2>0, <2>1 DEF Draft, Stages, AfterDropoff
  <2>3. WithDropoff(s, k, p, far) = With(s, k, d)
    BY <1>1, <1>5, <2>1 DEF WithDropoff, DeliveryDropoff
  <2>4. QED BY <1>2, <2>2, <2>3, FollowsWith
<1>6. QED BY <1>3, <1>4, <1>5 DEF Kinds

\* The type of the address (applyAddressTypeSelection).
LEMMA FollowsAddressType ==
    ASSUME NEW s, Good(s), NEW house \in {"private", "flat"},
           s.draft["delivery"].stage = "selectingAddressType"
    PROVE  Follows(s, WithAddressType(s, house))
<1>1. "delivery" \in Kinds /\ s.draft["delivery"] \in Draft BY GoodDraft DEF Kinds
<1>2. s.draft["delivery"].has \ FlatDetails \in SUBSET Details BY <1>1 DEF Draft
<1>3. PICK d : d = IF house = "private"
                   THEN [s.draft["delivery"] EXCEPT !.house = house, !.has = @ \ FlatDetails,
                                                    !.stage = "collectingRecipientPhone"]
                   ELSE [s.draft["delivery"] EXCEPT !.house = house,
                                                    !.stage = "collectingApartment"]
  OBVIOUS
<1>4. /\ d \in Draft /\ d.id = s.draft["delivery"].id
      /\ d.pickup = s.draft["delivery"].pickup /\ d.dropoff = s.draft["delivery"].dropoff
  BY <1>1, <1>2, <1>3 DEF Draft, Stages, AfterDropoff
<1>5. WithAddressType(s, house) = With(s, "delivery", d) BY <1>3 DEF WithAddressType
<1>6. QED BY <1>1, <1>4, <1>5, FollowsWith

\* An answer (applyApartmentDetails ... applyDeliveryComment).
LEMMA FollowsAnswer ==
    ASSUME NEW s, Good(s), s.draft["delivery"].stage \in Questions
    PROVE  Follows(s, WithAnswer(s))
<1>1. "delivery" \in Kinds /\ s.draft["delivery"] \in Draft BY GoodDraft DEF Kinds
<1>2. PICK o : o = s.draft["delivery"] OBVIOUS
<1>3. /\ Asks(o.stage) \in Details /\ After(o.stage) \in AfterDropoff /\ o \in Draft
      /\ o.stage # "idle"
  BY <1>1, <1>2 DEF Questions, Asks, After, Details, FlatDetails, AfterDropoff
<1>4. o.has \cup {Asks(o.stage)} \in SUBSET Details BY <1>3 DEF Draft
<1>5. PICK stage \in {"idle", After(o.stage)} :
        WithAnswer(s) = With(s, "delivery",
            [o EXCEPT !.has = @ \cup {Asks(o.stage)}, !.stage = stage])
  <2>1. PICK e : e = [o EXCEPT !.has = @ \cup {Asks(o.stage)}, !.stage = After(o.stage)] OBVIOUS
  <2>2. [e EXCEPT !.stage = "idle"]
           = [o EXCEPT !.has = @ \cup {Asks(o.stage)}, !.stage = "idle"]
    BY <1>3, <2>1 DEF Draft
  <2>3. WithAnswer(s) \in {With(s, "delivery", e), With(s, "delivery", [e EXCEPT !.stage = "idle"])}
    BY <1>2, <2>1 DEF WithAnswer
  <2>4. QED BY <2>1, <2>2, <2>3
<1>6. PICK d : d = [o EXCEPT !.has = @ \cup {Asks(o.stage)}, !.stage = stage] OBVIOUS
<1>7. d \in Draft /\ d.id = o.id /\ d.pickup = o.pickup /\ d.dropoff = o.dropoff
  BY <1>3, <1>4, <1>6 DEF Draft, Stages, TaxiStages
<1>8. QED BY <1>1, <1>2, <1>3, <1>5, <1>6, <1>7, FollowsWith

\* A confirmation that is refused (confirmOrder).
LEMMA FollowsRefused ==
    ASSUME NEW s, Good(s), NEW k \in Kinds
    PROVE  Follows(s, Refused(s, k))
<1>1. CASE ~Ready(s, k) BY <1>1, FollowsReset DEF Refused
<1>2. CASE Ready(s, k)
  <2>1. /\ s.draft[k] \in Draft /\ DraftFits(k, s.draft[k]) /\ HasPlaces(s.draft[k])
    BY <1>2, GoodDraft DEF Ready, Complete
  <2>2. s.draft[k].stage # "idle" BY <2>1 DEF DraftFits, HasPlaces, Blank
  <2>3. PICK stage \in {"collectingComment", "idle"} :
          Refused(s, k) = With(s, k, [s.draft[k] EXCEPT !.stage = stage])
    BY <1>2 DEF Refused
  <2>4. PICK d : d = [s.draft[k] EXCEPT !.stage = stage] OBVIOUS
  <2>5. /\ d \in Draft /\ d.id = s.draft[k].id
        /\ d.pickup = s.draft[k].pickup /\ d.dropoff = s.draft[k].dropoff
    BY <2>1, <2>4 DEF Draft, Stages, TaxiStages, AfterDropoff
  <2>6. QED BY <2>2, <2>3, <2>4, <2>5, FollowsWith
<1>3. QED BY <1>1, <1>2

\* A wizard that is started is the only one, with the next number (handleStart).
LEMMA StartedAlone ==
    ASSUME NEW s, Good(s), NEW k \in Kinds, NEW n \in Nat
    PROVE  /\ \A j \in Kinds : Started(s, k, n).draft[j].stage # "idle" =>
                  Started(s, k, n).draft[j].id = n
           /\ Started(s, k, n).city = s.city /\ Local(Started(s, k, n))
<1>1. PICK d : d = [Blank EXCEPT !.id = n, !.stage = "collectingPickup"] OBVIOUS
<1>2. /\ d \in Draft /\ d.id = n /\ d.pickup = NoPlace /\ d.dropoff = NoPlace
  BY <1>1 DEF Blank, Draft, Stages, TaxiStages
<1>3. s \in Session BY DEF Good
<1>4. PICK t : t = With(s, k, d) OBVIOUS
<1>5. /\ t \in Session /\ t.city = s.city /\ t.draft[k] = d
      /\ Other(k) \in Kinds /\ Other(k) # k /\ Kinds = {k, Other(k)}
  BY <1>2, <1>3, <1>4, WithDraft
<1>6. PICK u : u = With(t, Other(k), Blank) OBVIOUS
<1>7. u.city = t.city /\ u.draft[Other(k)] = Blank /\ u.draft[k] = d
  <2>1. Other(Other(k)) = k BY DEF Kinds, Other
  <2>2. QED BY <1>5, <1>6, <2>1, BlankFits, WithDraft
<1>8. Started(s, k, n) = u BY <1>1, <1>4, <1>6 DEF Started, ResetDraft
<1>9. Blank.stage = "idle" /\ Blank.pickup = NoPlace /\ Blank.dropoff = NoPlace BY DEF Blank
<1>10. Local(u)
  <2>1. \A j \in Kinds : u.draft[j].pickup = NoPlace /\ u.draft[j].dropoff = NoPlace
    BY <1>2, <1>5, <1>7, <1>9
  <2>2. QED BY <2>1 DEF Local
<1>11. \A j \in Kinds : u.draft[j].stage # "idle" => u.draft[j].id = n BY <1>2, <1>5, <1>7, <1>9
<1>12. QED BY <1>5, <1>7, <1>8, <1>10, <1>11

\* A chosen city goes into the session, which keeps only wizards of this city.
LEMMA CityKept ==
    ASSUME NEW s, Good(s), NEW known, NEW c \in Cities
    PROVE  /\ CityChosen(s, known, c).city = c
           /\ Keeps(s, CityChosen(s, known, c))
           /\ s.city = known /\ Local(s) => Local(CityChosen(s, known, c))
<1>1. PICK t : t = CityChosen(s, known, c) OBVIOUS
<1>2. /\ s \in Session /\ SessionFits(s) BY DEF Good
<1>3. Blank.stage = "idle" /\ Blank.pickup = NoPlace /\ Blank.dropoff = NoPlace BY DEF Blank
<1>4. CASE known \notin {NoCity, c}
  <2>1. t = [city |-> c, draft |-> [k \in Kinds |-> Blank]] BY <1>1, <1>4 DEF CityChosen
  <2>2. t.city = c /\ \A k \in Kinds : t.draft[k] = Blank BY <2>1
  <2>3. Local(t) /\ Keeps(s, t) BY <1>3, <2>2 DEF Local, Keeps
  <2>4. QED BY <1>1, <2>2, <2>3
<1>5. CASE known \in {NoCity, c}
  <2>1. t = [s EXCEPT !.city = c] BY <1>1, <1>5 DEF CityChosen
  <2>2. t.city = c /\ t.draft = s.draft BY <1>2, <2>1 DEF Session
  <2>3. Keeps(s, t) BY <2>2 DEF Keeps
  <2>4. ASSUME s.city = known, Local(s) PROVE Local(t)
    <3>1. CASE s.city = c BY <2>2, <2>4, <3>1 DEF Local
    <3>2. CASE s.city = NoCity
      <4>1. \A k \in Kinds : s.draft[k] = Blank BY <1>2, <3>2 DEF SessionFits, DraftFits
      <4>2. QED BY <1>3, <2>2, <4>1 DEF Local
    <3>3. QED BY <1>5, <2>4, <3>1, <3>2
  <2>5. QED BY <1>1, <2>2, <2>3, <2>4
<1>6. QED BY <1>4, <1>5

\* What an update did that reached its handler: it went on with the wizards of its session,
\* started one, turned one into an order, or changed the city.
WentOn(w, t) ==
    /\ Follows(tasks[w].s, t) /\ UNCHANGED <<orders, drafts, userCity>>
Began(w, t) ==
    /\ drafts' = drafts + 1 /\ UNCHANGED <<orders, userCity>>
    /\ \A k \in Kinds : t.draft[k].stage # "idle" => t.draft[k].id = drafts'
    /\ t.city = tasks[w].s.city /\ Local(t)
Sent(w, t) ==
    /\ \E k \in Kinds, live \in BOOLEAN :
          /\ Confirmable(tasks[w].s, k) /\ t = ResetDraft(tasks[w].s, k)
          /\ orders' = Append(orders, NewOrder(tasks[w].s, k, live))
    /\ UNCHANGED <<drafts, userCity>>
Moved(w, t) ==
    /\ UNCHANGED <<orders, drafts>> /\ Keeps(tasks[w].s, t)
    /\ \/ "city" \in troubles'
       \/ /\ t.city = userCity'
          /\ tasks[w].s.city = tasks[w].known /\ Local(tasks[w].s) => Local(t)

\* These are all the handlers.
LEMMA WizardMoves ==
    ASSUME IInv, NEW w \in Workers, Wizard(w)
    PROVE  /\ tasks[w].phase = "authed" /\ UNCHANGED <<row, cache>>
           /\ \E t : /\ Handled(w, t)
                     /\ WentOn(w, t) \/ Began(w, t) \/ Sent(w, t) \/ Moved(w, t)
<1>1. PICK s : s = tasks[w].s OBVIOUS
<1>2. Good(s) /\ drafts + 1 \in Nat BY <1>1 DEF IInv, CopiesGood, RestTyped
<1>3. "delivery" \in Kinds /\ "taxi" \in Kinds /\ Listener(s) \in Kinds BY DEF Kinds, Listener
<1>4. tasks[w].phase = "authed" /\ UNCHANGED <<row, cache>>
  BY DEF Wizard, ChangesNothing, Answer, Escape, Start, Cancel, Pickup, Dropoff, AddressType,
         ConfirmRefused, ConfirmCreates, ConfirmPublishFails, ConfirmCreateFails, ChooseCity,
         ChooseCityUnanswered
<1> DEFINE Some == \E t : /\ Handled(w, t)
                          /\ WentOn(w, t) \/ Began(w, t) \/ Sent(w, t) \/ Moved(w, t)
<1>5. ASSUME ChangesNothing(w) PROVE Some
  <2>1. Follows(s, s) BY DEF Follows, Keeps
  <2>2. Handled(w, s) /\ WentOn(w, s) BY <1>1, <1>5, <2>1 DEF ChangesNothing, WentOn
  <2>3. QED BY <2>2
<1>6. ASSUME Answer(w) PROVE Some
  <2>1. Handled(w, WithAnswer(s)) /\ WentOn(w, WithAnswer(s))
    BY <1>1, <1>2, <1>6, FollowsAnswer DEF Answer, WentOn
  <2>2. QED BY <2>1
<1>7. ASSUME NEW k \in Kinds,
             \/ Cancel(w, k)
             \/ k = "taxi" /\ Escape(w)
             \/ UNCHANGED orders /\ ConfirmCreateFails(w, k)
      PROVE  Some
  <2>1. Handled(w, ResetDraft(s, k)) /\ WentOn(w, ResetDraft(s, k))
    BY <1>1, <1>2, <1>7, FollowsReset DEF Cancel, Escape, ConfirmCreateFails, Ordered, WentOn
  <2>2. QED BY <2>1
<1>8. ASSUME NEW k \in Kinds, Start(w, k) PROVE Some
  <2>1. Handled(w, Started(s, k, drafts + 1)) /\ Began(w, Started(s, k, drafts + 1))
    BY <1>1, <1>2, <1>8, StartedAlone DEF Start, Began
  <2>2. QED BY <2>1
<1>9. ASSUME NEW p \in Places, Pickup(w, p) PROVE Some
  <2>1. Handled(w, WithPickup(s, Listener(s), p)) /\ WentOn(w, WithPickup(s, Listener(s), p))
    BY <1>1, <1>2, <1>3, <1>9, FollowsPickup DEF Pickup, WentOn
  <2>2. QED BY <2>1
<1>10. ASSUME NEW p \in Places, NEW far \in BOOLEAN, Dropoff(w, p, far) PROVE Some
  <2>1. /\ Handled(w, WithDropoff(s, Listener(s), p, far))
        /\ WentOn(w, WithDropoff(s, Listener(s), p, far))
    BY <1>1, <1>2, <1>3, <1>10, FollowsDropoff DEF Dropoff, WentOn
  <2>2. QED BY <2>1
<1>11. ASSUME NEW h \in {"private", "flat"}, AddressType(w, h) PROVE Some
  <2>1. Handled(w, WithAddressType(s, h)) /\ WentOn(w, WithAddressType(s, h))
    BY <1>1, <1>2, <1>11, FollowsAddressType DEF AddressType, WentOn
  <2>2. QED BY <2>1
<1>12. ASSUME NEW k \in Kinds, ConfirmRefused(w, k) PROVE Some
  <2>1. Handled(w, Refused(s, k)) /\ WentOn(w, Refused(s, k))
    BY <1>1, <1>2, <1>12, FollowsRefused DEF ConfirmRefused, WentOn
  <2>2. QED BY <2>1
<1>13. ASSUME NEW k \in Kinds,
              \/ ConfirmCreates(w, k)
              \/ ConfirmPublishFails(w, k)
              \/ ConfirmCreateFails(w, k) /\ orders' # orders
       PROVE  Some
  <2>1. Handled(w, ResetDraft(s, k)) /\ Sent(w, ResetDraft(s, k))
    BY <1>1, <1>13 DEF ConfirmCreates, ConfirmPublishFails, ConfirmCreateFails, Ordered, Sent
  <2>2. QED BY <2>1
<1>14. ASSUME NEW c \in Cities, ChooseCity(w, c) PROVE Some
  <2>1. PICK t : t = CityChosen(s, tasks[w].known, c) OBVIOUS
  <2>2. Handled(w, t) /\ Moved(w, t)
    BY <1>1, <1>2, <1>14, <2>1, CityKept DEF ChooseCity, Moved
  <2>3. QED BY <2>2
<1>15. ASSUME NEW c \in Cities, ChooseCityUnanswered(w, c) PROVE Some
  <2>1. Handled(w, s) /\ Moved(w, s)
    BY <1>1, <1>15 DEF ChooseCityUnanswered, Moved, Happens, Keeps
  <2>2. QED BY <2>1
<1> HIDE DEF Some
<1>16. Some
  <2>1. CASE Escape(w) BY <1>3, <1>7, <2>1
  <2>2. ASSUME NEW k \in Kinds, ConfirmCreateFails(w, k) PROVE Some BY <1>7, <1>13, <2>2
  <2>3. QED
    BY <1>5, <1>6, <1>7, <1>8, <1>9, <1>10, <1>11, <1>12, <1>13, <1>14, <1>15, <2>1, <2>2
       DEF Wizard
<1>17. QED BY <1>4, <1>16 DEF Some

\* What happened has happened.
LEMMA TroublesStay ==
    ASSUME [Next]_vars
    PROVE  /\ troubles \subseteq troubles'
           /\ Straight' => Straight
           /\ Steady' => Steady /\ Straight /\ "city" \notin troubles'
<1>1. troubles \subseteq troubles'
  <2>1. ASSUME NEW w \in Workers, Wizard(w) PROVE troubles \subseteq troubles'
    BY <2>1 DEF Wizard, ChangesNothing, Answer, Escape, Start, Cancel, Pickup, Dropoff, AddressType,
           ConfirmRefused, ConfirmCreates, ConfirmPublishFails, ConfirmCreateFails, ChooseCity,
           ChooseCityUnanswered, Happens
  <2>2. ASSUME NEW w \in Workers, Middlewares(w) PROVE troubles \subseteq troubles'
    BY <2>2 DEF Middlewares, Load, LoadFallback, Authenticate, AuthenticationFails, Save,
           SaveFails, SkipSave, StoreCache, SkipCache, Happens
  <2>3. QED BY <2>1, <2>2 DEF Next, CacheExpires, Crash, Happens, vars
<1>2. QED BY <1>1 DEF Straight, Steady

\* A handler's step, seen from the tasks.
LEMMA HandledTasks ==
    ASSUME IInv, NEW w \in Workers, NEW t, Handled(w, t)
    PROVE  /\ tasks'[w].phase = "handled" /\ tasks'[w].s = t
           /\ tasks'[w].fallback = tasks[w].fallback
           /\ \A v \in Workers : v # w => tasks'[v] = tasks[v]
           /\ ~NobodyHandled'
<1>1. tasks \in [Workers -> Task] /\ tasks[w] \in Task BY DEF IInv, CopiesGood
<1>2. PICK u : u = [tasks[w] EXCEPT !.phase = "handled", !.s = t] OBVIOUS
<1>3. u.phase = "handled" /\ u.s = t /\ u.fallback = tasks[w].fallback
  BY <1>1, <1>2 DEF Task
<1>4. tasks' = [tasks EXCEPT ![w] = u] BY <1>1, <1>2 DEF Handled
<1>5. QED BY <1>1, <1>3, <1>4 DEF NobodyHandled

\* The orders' numbers are natural.
LEMMA OrdersTyped ==
    ASSUME IInv
    PROVE  /\ orders \in Seq(Order) /\ Len(orders) \in Nat /\ DOMAIN orders = 1 .. Len(orders)
           /\ \A i \in DOMAIN orders : orders[i] \in Order /\ orders[i].draft.id \in Nat
           /\ drafts \in Nat
<1>1. orders \in Seq(Order) /\ drafts \in Nat BY DEF IInv, OrdersGood, RestTyped
<1>2. \A i \in DOMAIN orders : orders[i] \in Order BY <1>1
<1>3. \A o \in Order : o.draft.id \in Nat BY DEF Order, Draft
<1>4. QED BY <1>1, <1>2, <1>3

\* The order that is sent comes last; its wizard is over, and there is no other.
LEMMA SentLast ==
    ASSUME IInv, NEW w \in Workers, NEW t, Sent(w, t)
    PROVE  \E k \in Kinds, o \in Order :
              /\ o.draft = tasks[w].s.draft[k] /\ o.city = tasks[w].s.city
              /\ tasks[w].s.draft[k].stage # "idle" /\ HasPlaces(o.draft)
              /\ DOMAIN orders' = 1 .. Len(orders) + 1
              /\ \A i \in DOMAIN orders' :
                    orders'[i] = IF i = Len(orders) + 1 THEN o ELSE orders[i]
              /\ \A i \in DOMAIN orders' : i = Len(orders) + 1 \/ i \in DOMAIN orders
              /\ Follows(tasks[w].s, t) /\ \A j \in Kinds : t.draft[j].stage = "idle"
<1>1. PICK s : s = tasks[w].s OBVIOUS
<1>2. PICK k \in Kinds, live \in BOOLEAN :
        /\ Confirmable(s, k) /\ t = ResetDraft(s, k)
        /\ orders' = Append(orders, NewOrder(s, k, live))
  BY <1>1 DEF Sent
<1>3. Good(s) BY <1>1 DEF IInv, CopiesGood
<1>4. s \in Session /\ s.draft[k] \in Draft /\ DraftFits(k, s.draft[k]) BY <1>3, GoodDraft
<1>5. HasPlaces(s.draft[k]) BY <1>2 DEF Confirmable, Ready, Complete
<1>6. s.draft[k].stage # "idle" BY <1>4, <1>5 DEF DraftFits, HasPlaces, Blank
<1>7. PICK o : o = NewOrder(s, k, live) OBVIOUS
<1>8. o \in Order /\ o.draft = s.draft[k] /\ o.city = s.city
  BY <1>2, <1>4, <1>7 DEF NewOrder, Order, Confirmable, Session
<1>9. /\ DOMAIN orders' = 1 .. Len(orders) + 1
      /\ \A i \in DOMAIN orders' : orders'[i] = IF i = Len(orders) + 1 THEN o ELSE orders[i]
      /\ \A i \in DOMAIN orders' : i = Len(orders) + 1 \/ i \in DOMAIN orders
  <2>1. orders' = Append(orders, o) BY <1>2, <1>7
  <2>2. QED BY <1>8, <2>1, OrdersTyped
<1>10. \A j \in Kinds : t.draft[j].stage = "idle"
  <2>1. s.draft[Other(k)].stage = "idle" BY <1>3, <1>6, OtherIdle
  <2>2. /\ t.draft[k] = Blank /\ t.draft[Other(k)] = s.draft[Other(k)]
        /\ Kinds = {k, Other(k)}
    BY <1>2, <1>4, BlankFits, WithDraft DEF ResetDraft
  <2>3. QED BY <2>1, <2>2, BlankFits
<1>11. Follows(s, t) BY <1>2, <1>3, FollowsReset
<1>12. QED BY <1>1, <1>5, <1>6, <1>8, <1>9, <1>10, <1>11

\* While no order and no wizard is added, fresh sessions stay fresh.
LEMMA FreshStays ==
    ASSUME UNCHANGED <<orders, drafts>>
    PROVE  /\ OrderIds' = OrderIds
           /\ \A s : Fresh(s)' <=> Fresh(s)
           /\ OrdersDistinct => OrdersDistinct'
           /\ OrdersLocal => OrdersLocal'
<1>1. OrderIds' = OrderIds BY DEF OrderIds
<1>2. \A s : Fresh(s)' <=> Fresh(s) BY <1>1 DEF Fresh
<1>3. QED BY <1>1, <1>2 DEF OrdersDistinct, OrdersLocal

\* The wizards of a handler's session are fresh again, and the orders distinct.
LEMMA WizardFresh ==
    ASSUME IInv, NEW w \in Workers, NEW t, Fresh(tasks[w].s), OrdersDistinct,
           WentOn(w, t) \/ Began(w, t) \/ Sent(w, t) \/ Moved(w, t)
    PROVE  Fresh(t)' /\ OrdersDistinct'
<1>1. CASE WentOn(w, t) \/ Moved(w, t)
  <2>1. Keeps(tasks[w].s, t) /\ UNCHANGED <<orders, drafts>>
    BY <1>1 DEF WentOn, Moved, Follows
  <2>2. Fresh(t) BY <2>1 DEF Fresh, Keeps
  <2>3. QED BY <2>1, <2>2, FreshStays
<1>2. CASE Began(w, t)
  <2>1. /\ drafts' = drafts + 1 /\ UNCHANGED orders /\ drafts \in Nat
        /\ \A k \in Kinds : t.draft[k].stage # "idle" => t.draft[k].id = drafts'
        /\ \A i \in DOMAIN orders : orders[i].draft.id \in Nat /\ orders[i].draft.id <= drafts
    BY <1>2, OrdersTyped DEF Began, OrdersDistinct
  <2>2. \A i \in DOMAIN orders : orders[i].draft.id < drafts' /\ orders[i].draft.id # drafts'
    BY <2>1
  <2>3. drafts' \notin OrderIds' BY <2>1, <2>2 DEF OrderIds
  <2>4. Fresh(t)' BY <2>1, <2>3 DEF Fresh
  <2>5. QED BY <2>1, <2>2, <2>4 DEF OrdersDistinct
<1>3. CASE Sent(w, t)
  <2>1. PICK k \in Kinds, o \in Order :
          /\ o.draft = tasks[w].s.draft[k] /\ tasks[w].s.draft[k].stage # "idle"
          /\ DOMAIN orders' = 1 .. Len(orders) + 1
          /\ \A i \in DOMAIN orders' : orders'[i] = IF i = Len(orders) + 1 THEN o ELSE orders[i]
          /\ \A i \in DOMAIN orders' : i = Len(orders) + 1 \/ i \in DOMAIN orders
          /\ \A j \in Kinds : t.draft[j].stage = "idle"
    BY <1>3, SentLast
  <2>2. drafts' = drafts BY <1>3 DEF Sent
  <2>3. o.draft.id <= drafts /\ o.draft.id \notin OrderIds BY <2>1 DEF Fresh
  <2>4. \A i \in DOMAIN orders : /\ i # Len(orders) + 1
                                 /\ orders[i].draft.id <= drafts
                                 /\ orders[i].draft.id # o.draft.id
    BY <2>3, OrdersTyped DEF OrdersDistinct, OrderIds
  <2>5. \A i, j \in DOMAIN orders : orders[i].draft.id = orders[j].draft.id => i = j
    BY DEF OrdersDistinct
  <2>6. \A i, j \in DOMAIN orders' : orders'[i].draft.id = orders'[j].draft.id => i = j
    BY <2>1, <2>4, <2>5
  <2>7. \A i \in DOMAIN orders' : orders'[i].draft.id <= drafts' BY <2>1, <2>2, <2>3, <2>4
  <2>8. Fresh(t)' BY <2>1 DEF Fresh
  <2>9. QED BY <2>6, <2>7, <2>8 DEF OrdersDistinct
<1>4. QED BY <1>1, <1>2, <1>3

\* A handler's step keeps the numbers.
LEMMA WizardStraight ==
    ASSUME IInv, StraightInv, Straight, NEW w \in Workers, Wizard(w)
    PROVE  OneAtATime' /\ CopiesFresh' /\ OrdersDistinct'
<1>1. OneAtATime /\ CopiesFresh /\ OrdersDistinct BY DEF StraightInv
<1>2. tasks[w].phase = "authed" /\ UNCHANGED <<row, cache>> BY WizardMoves
<1>3. PICK t : Handled(w, t) /\ (WentOn(w, t) \/ Began(w, t) \/ Sent(w, t) \/ Moved(w, t))
  BY WizardMoves
<1>4. /\ tasks'[w].phase = "handled" /\ tasks'[w].s = t
      /\ tasks'[w].fallback = tasks[w].fallback
      /\ \A v \in Workers : v # w => tasks'[v] = tasks[v]
      /\ ~NobodyHandled'
  BY <1>3, HandledTasks
<1>5. \A v \in Workers : v # w => tasks[v].phase = "none" BY <1>1, <1>2 DEF OneAtATime
<1>6. Fresh(t)' /\ OrdersDistinct' BY <1>1, <1>2, <1>3, WizardFresh DEF CopiesFresh
<1>7. OneAtATime' BY <1>1, <1>2, <1>4, <1>5 DEF OneAtATime
<1>8. CopiesFresh' BY <1>4, <1>5, <1>6 DEF CopiesFresh
<1>9. QED BY <1>6, <1>7, <1>8

\* A step of the middlewares, seen from the tasks: w takes u, and the others stay.
LEMMA MiddleTasks ==
    ASSUME IInv, NEW w \in Workers, Middlewares(w)
    PROVE  /\ UNCHANGED <<orders, drafts, userCity>>
           /\ \A v \in Workers : v # w => tasks'[v] = tasks[v]
           /\ Load(w) \/ LoadFallback(w) =>
                /\ tasks[w].phase = "none" /\ tasks'[w].phase = "loaded"
                /\ Load(w) => /\ ~tasks'[w].fallback
                              /\ tasks'[w].s = IF row = NoSession THEN CachedSession ELSE row
           /\ Authenticate(w) =>
                /\ tasks[w].phase = "loaded" /\ tasks'[w].phase = "authed"
                /\ tasks'[w].s.draft = tasks[w].s.draft
                /\ tasks'[w].s.city =
                      IF tasks[w].s.city = NoCity THEN userCity ELSE tasks[w].s.city
                /\ tasks'[w].known = userCity /\ tasks'[w].fallback = tasks[w].fallback
           /\ AuthenticationFails(w) => tasks[w].phase = "loaded" /\ tasks'[w].phase = "handled"
           /\ Save(w) \/ SaveFails(w) \/ SkipSave(w) =>
                tasks[w].phase = "handled" /\ tasks'[w].phase = "saved"
           /\ AuthenticationFails(w) \/ Save(w) \/ SaveFails(w) \/ SkipSave(w) =>
                tasks'[w].s = tasks[w].s /\ tasks'[w].fallback = tasks[w].fallback
           /\ StoreCache(w) \/ SkipCache(w) =>
                tasks[w].phase = "saved" /\ tasks'[w].phase = "none"
<1>1. /\ tasks \in [Workers -> Task] /\ tasks[w] \in Task /\ tasks[w].s \in Session
      /\ userCity \in Cities \cup {NoCity}
  BY DEF IInv, CopiesGood, RestTyped, Good
<1>2. UNCHANGED <<orders, drafts, userCity>> /\ \A v \in Workers : v # w => tasks'[v] = tasks[v]
  BY <1>1 DEF Middlewares, Load, LoadFallback, Authenticate, AuthenticationFails, Save,
              SaveFails, SkipSave, StoreCache, SkipCache
<1>3. ASSUME Load(w) \/ LoadFallback(w)
      PROVE  /\ tasks[w].phase = "none" /\ tasks'[w].phase = "loaded"
             /\ Load(w) => /\ ~tasks'[w].fallback
                           /\ tasks'[w].s = IF row = NoSession THEN CachedSession ELSE row
  BY <1>1, <1>3 DEF Load, LoadFallback, Idle
<1>4. ASSUME Authenticate(w)
      PROVE  /\ tasks[w].phase = "loaded" /\ tasks'[w].phase = "authed"
             /\ tasks'[w].s.draft = tasks[w].s.draft
             /\ tasks'[w].s.city = IF tasks[w].s.city = NoCity THEN userCity ELSE tasks[w].s.city
             /\ tasks'[w].known = userCity /\ tasks'[w].fallback = tasks[w].fallback
  <2>1. PICK c : c = IF tasks[w].s.city = NoCity THEN userCity ELSE tasks[w].s.city OBVIOUS
  <2>2. PICK s : s = [tasks[w].s EXCEPT !.city = c] OBVIOUS
  <2>3. s.city = c /\ s.draft = tasks[w].s.draft BY <1>1, <2>2 DEF Session
  <2>4. PICK u : u = [tasks[w] EXCEPT !.phase = "authed", !.known = userCity, !.s = s] OBVIOUS
  <2>5. /\ u.phase = "authed" /\ u.known = userCity /\ u.s = s
        /\ u.fallback = tasks[w].fallback
    BY <1>1, <2>4 DEF Task
  <2>6. tasks' = [tasks EXCEPT ![w] = u]
    BY <1>1, <1>4, <2>1, <2>2, <2>4 DEF Authenticate, Task
  <2>7. QED BY <1>1, <1>4, <2>1, <2>3, <2>5, <2>6 DEF Authenticate
<1>5. ASSUME NEW phase, tasks' = [tasks EXCEPT ![w].phase = phase]
      PROVE  /\ tasks'[w].phase = phase /\ tasks'[w].s = tasks[w].s
             /\ tasks'[w].fallback = tasks[w].fallback
  BY <1>1, <1>5 DEF Task
<1>6. AuthenticationFails(w) => /\ tasks[w].phase = "loaded" /\ tasks'[w].phase = "handled"
                                /\ tasks'[w].s = tasks[w].s
                                /\ tasks'[w].fallback = tasks[w].fallback
  BY <1>5 DEF AuthenticationFails
<1>7. Save(w) \/ SaveFails(w) \/ SkipSave(w) =>
         /\ tasks[w].phase = "handled" /\ tasks'[w].phase = "saved"
         /\ tasks'[w].s = tasks[w].s /\ tasks'[w].fallback = tasks[w].fallback
  BY <1>5 DEF Save, SaveFails, SkipSave
<1>8. StoreCache(w) \/ SkipCache(w) => tasks[w].phase = "saved" /\ tasks'[w].phase = "none"
  BY <1>1 DEF StoreCache, SkipCache, Idle
<1>9. QED BY <1>2, <1>3, <1>4, <1>6, <1>7, <1>8

\* A step of the middlewares on which nothing happened keeps the numbers.
LEMMA MiddleStraight ==
    ASSUME IInv, StraightInv, Straight, Straight', NEW w \in Workers, Middlewares(w)
    PROVE  OneAtATime' /\ CopiesFresh' /\ OrdersDistinct'
<1>1. OneAtATime /\ CopiesFresh /\ OrdersDistinct BY DEF StraightInv
<1>2. /\ UNCHANGED <<orders, drafts>>
      /\ \A v \in Workers : v # w => tasks'[v] = tasks[v]
  BY MiddleTasks
<1>3. OrdersDistinct' /\ OrderIds' = OrderIds /\ UNCHANGED drafts BY <1>1, <1>2, FreshStays
<1>4. CASE Load(w)
  <2>1. \A v \in Workers : tasks[v].phase = "none"
    <3>1. Overlap \subseteq troubles' BY <1>4 DEF Load, Happens
    <3>2. "overlap" \notin Overlap BY <3>1 DEF Straight, Outdating
    <3>3. QED BY <3>2 DEF Overlap
  <2>2. /\ tasks'[w].phase = "loaded" /\ ~tasks'[w].fallback /\ UNCHANGED <<row, cache>>
        /\ tasks'[w].s = IF row = NoSession THEN DefaultSession ELSE row
    BY <1>1, <1>4, MiddleTasks DEF Load, CachedSession, OneAtATime
  <2>3. Fresh(tasks'[w].s)
    <3>1. NobodyHandled BY <2>1 DEF NobodyHandled
    <3>2. Fresh(DefaultSession) BY DEF Fresh, DefaultSession, Blank
    <3>3. QED BY <1>1, <2>2, <3>1, <3>2 DEF CopiesFresh
  <2>4. OneAtATime' BY <1>1, <1>2, <2>1, <2>2 DEF OneAtATime
  <2>5. NobodyHandled' => NobodyHandled BY <2>1 DEF NobodyHandled
  <2>6. CopiesFresh'
    <3>1. \A v \in Workers : tasks'[v].phase # "none" => Fresh(tasks[v].s)'
      BY <1>2, <1>3, <2>1, <2>3 DEF Fresh
    <3>2. NobodyHandled' /\ row' # NoSession => Fresh(row)'
      BY <1>1, <1>3, <2>2, <2>5 DEF CopiesFresh, Fresh
    <3>3. QED BY <3>1, <3>2 DEF CopiesFresh
  <2>7. QED BY <1>3, <2>4, <2>6
<1>5. CASE Authenticate(w)
  <2>1. /\ tasks[w].phase = "loaded" /\ tasks'[w].phase = "authed"
        /\ tasks'[w].s.draft = tasks[w].s.draft /\ tasks'[w].fallback = tasks[w].fallback
        /\ UNCHANGED <<row, cache>>
    BY <1>5, MiddleTasks DEF Authenticate
  <2>2. Fresh(tasks'[w].s) BY <1>1, <2>1 DEF CopiesFresh, Fresh
  <2>3. OneAtATime' BY <1>1, <1>2, <2>1 DEF OneAtATime
  <2>4. NobodyHandled' => NobodyHandled BY <1>2, <2>1 DEF NobodyHandled
  <2>5. CopiesFresh'
    <3>1. \A v \in Workers : tasks'[v].phase # "none" => Fresh(tasks[v].s)'
      BY <1>1, <1>2, <1>3, <2>2 DEF CopiesFresh, Fresh
    <3>2. NobodyHandled' /\ row' # NoSession => Fresh(row)'
      BY <1>1, <1>3, <2>1, <2>4 DEF CopiesFresh, Fresh
    <3>3. QED BY <3>1, <3>2 DEF CopiesFresh
  <2>6. QED BY <1>3, <2>3, <2>5
<1>6. CASE AuthenticationFails(w)
  <2>1. /\ tasks[w].phase = "loaded" /\ tasks'[w].phase = "handled"
        /\ tasks'[w].s = tasks[w].s /\ tasks'[w].fallback = tasks[w].fallback
        /\ UNCHANGED <<row, cache>>
    BY <1>6, MiddleTasks DEF AuthenticationFails
  <2>2. OneAtATime' BY <1>1, <1>2, <2>1 DEF OneAtATime
  <2>3. ~NobodyHandled' BY <2>1 DEF NobodyHandled
  <2>4. \A v \in Workers : tasks'[v].phase # "none" => Fresh(tasks[v].s)'
    BY <1>1, <1>2, <1>3, <2>1 DEF CopiesFresh, Fresh
  <2>5. QED BY <1>3, <2>2, <2>3, <2>4 DEF CopiesFresh
<1>7. CASE Save(w)
  <2>1. /\ tasks[w].phase = "handled" /\ tasks'[w].phase = "saved"
        /\ tasks'[w].s = tasks[w].s /\ tasks'[w].fallback = tasks[w].fallback
        /\ row' = tasks[w].s /\ UNCHANGED cache
    BY <1>7, MiddleTasks DEF Save
  <2>2. row' # NoSession BY <2>1, NoSessionAssumption DEF IInv, CopiesGood, Good
  <2>3. \A v \in Workers : v # w => tasks[v].phase = "none" BY <1>1, <2>1 DEF OneAtATime
  <2>4. OneAtATime' BY <1>1, <1>2, <2>1, <2>2, <2>3 DEF OneAtATime
  <2>5. Fresh(tasks[w].s) BY <1>1, <2>1 DEF CopiesFresh
  <2>6. CopiesFresh'
    <3>1. \A v \in Workers : tasks'[v].phase # "none" => Fresh(tasks[v].s)'
      BY <1>2, <1>3, <2>1, <2>3, <2>5 DEF Fresh
    <3>2. Fresh(row)' BY <1>3, <2>1, <2>5 DEF Fresh
    <3>3. QED BY <3>1, <3>2 DEF CopiesFresh
  <2>7. QED BY <1>3, <2>4, <2>6
<1>8. CASE StoreCache(w) \/ SkipCache(w)
  <2>1. /\ tasks[w].phase = "saved" /\ tasks'[w].phase = "none" /\ UNCHANGED row
        /\ cache' = cache \/ cache' = tasks[w].s
    BY <1>8, MiddleTasks DEF StoreCache, SkipCache
  <2>2. row = tasks[w].s /\ row # NoSession
    BY <1>1, <2>1, NoSessionAssumption DEF OneAtATime, IInv, CopiesGood, Good
  <2>3. OneAtATime' BY <1>1, <1>2, <2>1, <2>2 DEF OneAtATime
  <2>4. NobodyHandled' => NobodyHandled BY <1>2, <2>1 DEF NobodyHandled
  <2>5. CopiesFresh'
    <3>1. \A v \in Workers : tasks'[v].phase # "none" => Fresh(tasks[v].s)'
      BY <1>1, <1>2, <1>3, <2>1 DEF CopiesFresh, Fresh
    <3>2. NobodyHandled' /\ row' # NoSession => Fresh(row)'
      BY <1>1, <1>3, <2>1, <2>4 DEF CopiesFresh, Fresh
    <3>3. QED BY <3>1, <3>2 DEF CopiesFresh
  <2>6. QED BY <1>3, <2>3, <2>5
<1>9. CASE LoadFallback(w) BY <1>9 DEF LoadFallback, Happens, Straight, Outdating
<1>10. CASE SaveFails(w) BY <1>10 DEF SaveFails, Happens, Straight, Outdating
<1>11. CASE SkipSave(w) BY <1>1, <1>11 DEF SkipSave, OneAtATime
<1>12. QED BY <1>4, <1>5, <1>6, <1>7, <1>8, <1>9, <1>10, <1>11 DEF Middlewares

\* Every step keeps the numbers.
LEMMA StraightStep == ASSUME IInv, StraightInv, [Next]_vars PROVE StraightInv'
<1>1. SUFFICES ASSUME Straight' PROVE OneAtATime' /\ CopiesFresh' /\ OrdersDistinct'
  BY DEF StraightInv
<1>2. Straight BY <1>1, TroublesStay
<1>3. OneAtATime /\ CopiesFresh /\ OrdersDistinct BY <1>2 DEF StraightInv
<1>4. ASSUME NEW w \in Workers, Wizard(w) PROVE OneAtATime' /\ CopiesFresh' /\ OrdersDistinct'
  BY <1>2, <1>4, WizardStraight
<1>5. ASSUME NEW w \in Workers, Middlewares(w)
      PROVE  OneAtATime' /\ CopiesFresh' /\ OrdersDistinct'
  BY <1>1, <1>2, <1>5, MiddleStraight
<1>6. CASE CacheExpires \/ UNCHANGED vars
  <2>1. UNCHANGED <<row, tasks, orders, drafts>> /\ (cache' = cache \/ cache' = NoSession)
    BY <1>6 DEF CacheExpires, vars
  <2>2. OneAtATime' BY <1>3, <2>1 DEF OneAtATime
  <2>3. OrdersDistinct' /\ OrderIds' = OrderIds BY <1>3, <2>1, FreshStays
  <2>4. CopiesFresh' BY <1>3, <2>1, <2>3 DEF CopiesFresh, NobodyHandled, Fresh
  <2>5. QED BY <2>2, <2>3, <2>4
<1>7. CASE Crash BY <1>1, <1>7 DEF Crash, Happens, Straight, Outdating
<1>8. QED BY <1>4, <1>5, <1>6, <1>7 DEF Next

\* At first nobody does anything.
LEMMA StraightInit == Init => StraightInv
<1>1. SUFFICES ASSUME Init PROVE StraightInv OBVIOUS
<1>2. /\ row = NoSession /\ cache = NoSession /\ orders = <<>> /\ drafts = 0
      /\ \A w \in Workers : tasks[w].phase = "none"
  BY <1>1 DEF Init, Idle
<1>3. QED BY <1>2 DEF StraightInv, OneAtATime, CopiesFresh, OrdersDistinct

\* A handler's step keeps the places in the city.
LEMMA WizardSteady ==
    ASSUME IInv, StraightInv, Straight, SteadyInv, Steady, "city" \notin troubles',
           NEW w \in Workers, Wizard(w)
    PROVE  CopiesLocal' /\ OrdersLocal'
<1>1. OneAtATime /\ CopiesLocal /\ OrdersLocal BY DEF StraightInv, SteadyInv
<1>2. tasks[w].phase = "authed" /\ UNCHANGED <<row, cache>> BY WizardMoves
<1>3. PICK t : Handled(w, t) /\ (WentOn(w, t) \/ Began(w, t) \/ Sent(w, t) \/ Moved(w, t))
  BY WizardMoves
<1>4. /\ tasks'[w].phase = "handled" /\ tasks'[w].s = t
      /\ \A v \in Workers : v # w => tasks'[v] = tasks[v]
      /\ ~NobodyHandled'
  BY <1>3, HandledTasks
<1>5. \A v \in Workers : v # w => tasks[v].phase = "none" BY <1>1, <1>2 DEF OneAtATime
<1>6. /\ Local(tasks[w].s) /\ tasks[w].s.city = userCity /\ tasks[w].known = userCity
  BY <1>1, <1>2 DEF CopiesLocal
<1>7. Local(t) /\ t.city = userCity' /\ OrdersLocal'
  <2>1. CASE WentOn(w, t) BY <1>1, <1>6, <2>1 DEF WentOn, Follows, OrdersLocal
  <2>2. CASE Began(w, t) BY <1>1, <1>6, <2>2 DEF Began, OrdersLocal
  <2>3. CASE Moved(w, t) BY <1>1, <1>6, <2>3 DEF Moved, OrdersLocal
  <2>4. CASE Sent(w, t)
    <3>1. PICK k \in Kinds, o \in Order :
            /\ o.draft = tasks[w].s.draft[k] /\ o.city = tasks[w].s.city /\ HasPlaces(o.draft)
            /\ DOMAIN orders' = 1 .. Len(orders) + 1
            /\ \A i \in DOMAIN orders' : orders'[i] = IF i = Len(orders) + 1 THEN o ELSE orders[i]
            /\ \A i \in DOMAIN orders' : i = Len(orders) + 1 \/ i \in DOMAIN orders
            /\ Follows(tasks[w].s, t)
      BY <2>4, SentLast
    <3>2. {o.draft.pickup, o.draft.dropoff} \subseteq {o.city, Unnamed}
      BY <1>6, <3>1 DEF Local, HasPlaces
    <3>3. \A i \in DOMAIN orders : i # Len(orders) + 1 BY OrdersTyped
    <3>4. OrdersLocal' BY <1>1, <3>1, <3>2, <3>3 DEF OrdersLocal
    <3>5. userCity' = userCity BY <2>4 DEF Sent
    <3>6. QED BY <1>6, <3>1, <3>4, <3>5 DEF Follows
  <2>5. QED BY <1>3, <2>1, <2>2, <2>3, <2>4
<1>8. CopiesLocal' BY <1>4, <1>5, <1>7 DEF CopiesLocal
<1>9. QED BY <1>7, <1>8

\* A step of the middlewares on which nothing happened keeps them there.
LEMMA MiddleSteady ==
    ASSUME IInv, StraightInv, Straight, Straight', SteadyInv, Steady,
           NEW w \in Workers, Middlewares(w)
    PROVE  CopiesLocal' /\ OrdersLocal'
<1>1. OneAtATime /\ CopiesLocal /\ OrdersLocal BY DEF StraightInv, SteadyInv
<1>2. /\ UNCHANGED <<orders, drafts, userCity>>
      /\ \A v \in Workers : v # w => tasks'[v] = tasks[v]
  BY MiddleTasks
<1>3. OrdersLocal' BY <1>1, <1>2, FreshStays
<1>4. OneAtATime' BY MiddleStraight
<1>5. CASE Load(w)
  <2>1. /\ tasks[w].phase = "none" /\ tasks'[w].phase = "loaded" /\ UNCHANGED <<row, cache>>
        /\ tasks'[w].s = IF row = NoSession THEN DefaultSession ELSE row
    BY <1>1, <1>5, MiddleTasks DEF Load, CachedSession, OneAtATime
  <2>2. \A v \in Workers : v # w => tasks[v].phase = "none"
    BY <1>2, <1>4, <2>1 DEF OneAtATime
  <2>3. NobodyHandled BY <2>1, <2>2 DEF NobodyHandled
  <2>4. Local(tasks'[w].s) /\ tasks'[w].s.city = userCity
    <3>1. Local(DefaultSession) /\ DefaultSession.city = NoCity
      BY DEF Local, DefaultSession, Blank
    <3>2. QED BY <1>1, <2>1, <2>3, <3>1 DEF CopiesLocal
  <2>5. QED BY <1>1, <1>2, <1>3, <2>1, <2>2, <2>3, <2>4 DEF CopiesLocal
<1>6. CASE Authenticate(w)
  <2>1. /\ tasks[w].phase = "loaded" /\ tasks'[w].phase = "authed"
        /\ tasks'[w].s.draft = tasks[w].s.draft
        /\ tasks'[w].s.city = IF tasks[w].s.city = NoCity THEN userCity ELSE tasks[w].s.city
        /\ tasks'[w].known = userCity /\ UNCHANGED row
    BY <1>6, MiddleTasks DEF Authenticate
  <2>2. Local(tasks'[w].s) /\ tasks'[w].s.city = userCity
    <3>1. Local(tasks[w].s) /\ tasks[w].s.city = userCity BY <1>1, <2>1 DEF CopiesLocal
    <3>2. tasks'[w].s.city = userCity BY <2>1, <3>1
    <3>3. QED BY <2>1, <3>1, <3>2 DEF Local
  <2>3. NobodyHandled' => NobodyHandled BY <1>2, <2>1 DEF NobodyHandled
  <2>4. QED BY <1>1, <1>2, <1>3, <2>1, <2>2, <2>3 DEF CopiesLocal
<1>7. CASE AuthenticationFails(w)
  <2>1. /\ tasks[w].phase = "loaded" /\ tasks'[w].phase = "handled"
        /\ tasks'[w].s = tasks[w].s /\ ~NobodyHandled'
    BY <1>7, MiddleTasks DEF NobodyHandled
  <2>2. QED BY <1>1, <1>2, <1>3, <2>1 DEF CopiesLocal
<1>8. CASE Save(w)
  <2>1. /\ tasks[w].phase = "handled" /\ tasks'[w].phase = "saved"
        /\ tasks'[w].s = tasks[w].s /\ row' = tasks[w].s
    BY <1>8, MiddleTasks DEF Save
  <2>2. row' # NoSession BY <2>1, NoSessionAssumption DEF IInv, CopiesGood, Good
  <2>3. QED BY <1>1, <1>2, <1>3, <2>1, <2>2 DEF CopiesLocal
<1>9. CASE StoreCache(w) \/ SkipCache(w)
  <2>1. tasks[w].phase = "saved" /\ tasks'[w].phase = "none" /\ UNCHANGED row
    BY <1>9, MiddleTasks DEF StoreCache, SkipCache
  <2>2. NobodyHandled' => NobodyHandled BY <1>2, <2>1 DEF NobodyHandled
  <2>3. QED BY <1>1, <1>2, <1>3, <2>1, <2>2 DEF CopiesLocal
<1>10. CASE LoadFallback(w) BY <1>10 DEF LoadFallback, Happens, Straight, Outdating
<1>11. CASE SaveFails(w) BY <1>11 DEF SaveFails, Happens, Straight, Outdating
<1>12. CASE SkipSave(w) BY <1>1, <1>12 DEF SkipSave, OneAtATime
<1>13. QED BY <1>5, <1>6, <1>7, <1>8, <1>9, <1>10, <1>11, <1>12 DEF Middlewares

\* Every step keeps the places in the city.
LEMMA SteadyStep == ASSUME IInv, StraightInv, SteadyInv, [Next]_vars PROVE SteadyInv'
<1>1. SUFFICES ASSUME Steady' PROVE CopiesLocal' /\ OrdersLocal' BY DEF SteadyInv
<1>2. Steady /\ Straight /\ Straight' /\ "city" \notin troubles'
  BY <1>1, TroublesStay DEF Straight, Steady
<1>3. CopiesLocal /\ OrdersLocal BY <1>2 DEF SteadyInv
<1>4. ASSUME NEW w \in Workers, Wizard(w) PROVE CopiesLocal' /\ OrdersLocal'
  BY <1>2, <1>4, WizardSteady
<1>5. ASSUME NEW w \in Workers, Middlewares(w) PROVE CopiesLocal' /\ OrdersLocal'
  BY <1>2, <1>5, MiddleSteady
<1>6. CASE CacheExpires \/ UNCHANGED vars
  <2>1. UNCHANGED <<row, tasks, orders, drafts, userCity>> BY <1>6 DEF CacheExpires, vars
  <2>2. QED BY <1>3, <2>1 DEF CopiesLocal, OrdersLocal, NobodyHandled
<1>7. CASE Crash BY <1>2, <1>7 DEF Crash, Happens, Straight, Outdating
<1>8. QED BY <1>4, <1>5, <1>6, <1>7 DEF Next

\* At first there is no city.
LEMMA SteadyInit == Init => SteadyInv
<1>1. SUFFICES ASSUME Init PROVE SteadyInv OBVIOUS
<1>2. /\ row = NoSession /\ userCity = NoCity /\ orders = <<>>
      /\ \A w \in Workers : tasks[w].phase = "none"
  BY <1>1 DEF Init, Idle
<1>3. QED BY <1>2 DEF SteadyInv, CopiesLocal, OrdersLocal

\* All of it holds always.
LEMMA NumbersAndPlacesHold == Spec => [](IInv /\ StraightInv /\ SteadyInv)
<1>1. Init => IInv /\ StraightInv /\ SteadyInv BY InitIInv, StraightInit, SteadyInit
<1>2. (IInv /\ StraightInv /\ SteadyInv) /\ [Next]_vars => (IInv /\ StraightInv /\ SteadyInv)'
  BY NextIInv, StraightStep, SteadyStep
<1>3. QED BY <1>1, <1>2, PTL DEF Spec

\* One run of a wizard gives at most one order that is not cancelled, as long as no update
\* worked on an outdated copy of the session, however often its card is pressed and
\* whatever becomes of the order and its publication (confirmOrder).
THEOREM OneOrderPerDraftHolds == Spec => []OneOrderPerDraft
<1>1. StraightInv => OneOrderPerDraft
  BY DEF StraightInv, Straight, OrdersDistinct, OneOrderPerDraft
<1>2. QED BY <1>1, NumbersAndPlacesHold, PTL

\* The city follows the client: the places of an order are in the city it is offered in,
\* and between updates the saved session and the user's row name the same city, as long
\* as also no choice of a city went unanswered (applyCitySelection, applyAuthState).
THEOREM CitiesFitHolds == Spec => []CitiesFit
<1>1. SteadyInv => OrderCityFits BY DEF SteadyInv, Steady, OrdersLocal, OrderCityFits
<1>2. SteadyInv => CitiesAgree
  <2>1. SUFFICES ASSUME SteadyInv, Steady, row # NoSession,
                        \A w \in Workers : tasks[w].phase = "none"
                 PROVE  row.city = userCity
    BY DEF CitiesAgree, Steady
  <2>2. NobodyHandled BY <2>1 DEF NobodyHandled
  <2>3. QED BY <2>1, <2>2 DEF SteadyInv, CopiesLocal
<1>3. QED BY <1>1, <1>2, NumbersAndPlacesHold, PTL DEF CitiesFit
=============================================================================
