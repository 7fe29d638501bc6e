--------------------------- MODULE SalesTurnProofs ---------------------------
(* What one turn of the sales persona may do, for any days, hours, messages    *)
(* and handlers. Every branch of the turn yields outcomes that are sound for   *)
(* the row it has read and the message it answers; what the talk promises      *)
(* follows from that and from one handler working on the row at a time.        *)
EXTENDS SalesTurn, TLAPS

SlotOrNone == Slot \cup {NoSlot}
TalkRow == [stage : Stage \cup {"none"}, when : When, count : BOOLEAN, offer : SlotOrNone]
Fresh == [NewRow EXCEPT !.stage = "scoping"]

\* A row that is stored: an offer waits in a stage that expects its answer.
WellPlaced(r) == r.offer # NoSlot => r.stage \in {"pitching", "proposing"}

\* What the row allows a turn: to forget the number of vehicles, to answer and
\* save nothing, to confirm a slot.
MustKeep(r) == r.stage \in {"scoping", "awaiting_time", "pitching"} /\ r.count
MayAside(r, m) == r.offer = NoSlot \/ m.kind \in AsideKind
Agrees(r, m, S) == r.offer # NoSlot /\ S = {r.offer} /\ ~Declines(m, r)

Outcomes == [save : SUBSET Row, say : Saying, about : SUBSET Slot, person : BOOLEAN,
             follow : BOOLEAN]

Answers(r) == {i \in TalkRow : MustKeep(r) => i.count}

SoundRow(r, o, new) ==
  /\ new \in Row /\ WellPlaced(new)
  /\ new.offer # NoSlot => o.say = "offer"
  /\ o.say = "offer" => o.about = {new.offer} /\ new.offer \in Slot
  /\ new.stage = "closing" => o.person
  /\ MustKeep(r) => new.count \/ new = Fresh

\* What is true of an outcome whatever the calendar shows since.
Kept(r, o) ==
  /\ o.save = {} \/ \E new : o.save = {new} /\ SoundRow(r, o, new)
  /\ o \in Outcomes
  /\ o.say \in {"nothing", "cancelled"} => ~o.follow
  /\ o.say \in {"confirm", "offer"} => o.save # {}

Sound(r, m, o) ==
  /\ Kept(r, o)
  /\ o.say = "free" => o.about \cap busy = {}
  /\ o.say = "confirm" => Agrees(r, m, o.about)
  /\ o.save = {} /\ o.say # "nothing" => MayAside(r, m)

AllSound(r, m, S) == \A o \in S : Sound(r, m, o)

\* The message may also be passed on.
OrPassed(r, m, S) == \A o \in S : o = None \/ Sound(r, m, o)

-----------------------------------------------------------------------------
(* Days, hours and rows. *)

LEMMA DaysAndHours ==
  /\ NoSlot \in When /\ Unclear \in When /\ NoSlot # Unclear /\ NoSlot \notin Slot
  /\ \A w \in When : /\ w[1] \in {0} \cup Day /\ w[2] \in {0} \cup Hour
                     /\ Concrete(w) => w \in Slot
  /\ \A d \in {0} \cup Day, h \in {0} \cup Hour : <<d, h>> \in When
  /\ Slot \subseteq When
<1>1. Day \subseteq Nat \ {0} /\ Hour \subseteq Nat \ {0} BY SlotAssumption
<1>2. NoSlot \in When /\ Unclear \in When BY DEF When, NoSlot
<1>3. NoSlot # Unclear BY DEF NoSlot, Unclear
<1>4. NoSlot \notin Slot BY <1>1 DEF NoSlot, Slot
<1>5. ASSUME NEW w \in When
      PROVE  /\ w[1] \in {0} \cup Day /\ w[2] \in {0} \cup Hour
             /\ Concrete(w) => w \in Slot
  <2>1. CASE w = Unclear BY <2>1 DEF Unclear, Concrete, HasDay
  <2>2. CASE w \in ({0} \cup Day) \X ({0} \cup Hour)
    BY <2>2 DEF Concrete, HasDay, HasTime, Slot
  <2> QED BY <2>1, <2>2 DEF When
<1>6. \A d \in {0} \cup Day, h \in {0} \cup Hour : <<d, h>> \in When BY DEF When
<1>7. Slot \subseteq When BY DEF Slot, When
<1> QED BY <1>2, <1>3, <1>4, <1>5, <1>6, <1>7

LEMMA Readings ==
  ASSUME NEW m \in Reading
  PROVE  /\ m.when \in When /\ m.count \in BOOLEAN /\ m.window \in BOOLEAN
         /\ m.when[2] \in {0} \cup Hour /\ m.also \in When
         /\ [m EXCEPT !.window = FALSE] \in Reading
<1>1. /\ m.when \in When /\ m.also \in When
      /\ m.count \in BOOLEAN /\ m.window \in BOOLEAN
  BY DEF Reading
<1>2. [m EXCEPT !.window = FALSE] \in Reading BY DEF Reading
<1> QED BY <1>1, <1>2, DaysAndHours

LEMMA NewRows ==
  /\ NewRow \in TalkRow /\ NewRow \in Row /\ NoRow \in TalkRow /\ Row \subseteq TalkRow
  /\ NewRow.when = NoSlot /\ ~NewRow.count
  /\ Fresh \in Row /\ Fresh.offer = NoSlot /\ Fresh.stage = "scoping"
<1>1. NoSlot \in When /\ NoSlot \in SlotOrNone BY DaysAndHours DEF SlotOrNone
<1>2. NewRow \in Row BY <1>1, Zenon DEF NewRow, Row, Stage, SlotOrNone
<1>3. NewRow \in TalkRow BY <1>1, Zenon DEF NewRow, TalkRow, Stage
<1>4. NoRow \in TalkRow BY <1>3 DEF NoRow, TalkRow
<1>5. Row \subseteq TalkRow BY DEF Row, TalkRow, SlotOrNone
<1>6. Fresh \in Row /\ Fresh.stage = "scoping" BY <1>2 DEF Fresh, Row, Stage
<1>7. NewRow.when = NoSlot /\ ~NewRow.count /\ Fresh.offer = NoSlot BY DEF NewRow, Fresh
<1> QED BY <1>2, <1>3, <1>4, <1>5, <1>6, <1>7

LEMMA AnswersChange ==
  ASSUME NEW r, NEW i \in Answers(r)
  PROVE  /\ \A w \in When : [i EXCEPT !.when = w] \in Answers(r)
         /\ [i EXCEPT !.count = TRUE] \in Answers(r)
         /\ i.when \in When
BY DEF Answers, TalkRow

LEMMA RowsAreAnswers == \A r \in TalkRow : r \in Answers(r)
BY DEF Answers, TalkRow, MustKeep

\* What is written from answers is a row with them.
LEMMA PersistWrites ==
  ASSUME NEW r, NEW i \in Answers(r), NEW stage \in Stage, NEW offer \in SlotOrNone, NEW o,
         offer # NoSlot => stage \in {"pitching", "proposing"} /\ o.say = "offer",
         o.say = "offer" => o.about = {offer} /\ offer \in Slot,
         stage = "closing" => o.person
  PROVE  \E new : Persist(stage, i, offer) = {new} /\ SoundRow(r, o, new)
<1> DEFINE new == [stage |-> stage, when |-> i.when, count |-> i.count, offer |-> offer]
<1>1. i.when \in When /\ i.count \in BOOLEAN /\ (MustKeep(r) => i.count)
  BY DEF Answers, TalkRow
<1>2. new \in Row BY <1>1 DEF Row, SlotOrNone
<1>3. SoundRow(r, o, new) BY <1>1, <1>2 DEF SoundRow, WellPlaced
<1> QED BY <1>3 DEF Persist

-----------------------------------------------------------------------------
(* Outcomes. *)

LEMMA ElseIsSound ==
  ASSUME NEW r, NEW m, NEW S, NEW T, OrPassed(r, m, S)
  PROVE  /\ AllSound(r, m, T) => AllSound(r, m, OrElse(S, T))
         /\ OrPassed(r, m, T) => OrPassed(r, m, OrElse(S, T))
BY DEF AllSound, OrPassed, OrElse

LEMMA BothAreSound ==
  ASSUME NEW r, NEW m, NEW S, NEW T, AllSound(r, m, S), AllSound(r, m, T)
  PROVE  AllSound(r, m, S \cup T)
BY DEF AllSound

LEMMA SoundMayPass ==
  ASSUME NEW r, NEW m, NEW S, AllSound(r, m, S)
  PROVE  OrPassed(r, m, S) /\ OrPassed(r, m, Pass) /\ \A p : OrPassed(r, m, When_(p, S))
BY DEF AllSound, OrPassed, Pass, When_

LEMMA PassMayPass ==
  ASSUME NEW r, NEW m, NEW p, NEW S, p => OrPassed(r, m, S)
  PROVE  OrPassed(r, m, When_(p, S)) /\ OrPassed(r, m, Pass)
BY DEF OrPassed, Pass, When_

LEMMA OutcomeIsSound ==
  ASSUME NEW r, NEW m, NEW save, NEW say \in Saying, NEW about \in SUBSET Slot,
         NEW person \in BOOLEAN, NEW follow \in BOOLEAN, NEW o,
         o = [save |-> save, say |-> say, about |-> about, person |-> person, follow |-> follow],
         save = {} \/ \E new : save = {new} /\ SoundRow(r, o, new),
         say \in {"nothing", "cancelled"} => ~follow,
         say = "free" => about \cap busy = {},
         say = "confirm" => Agrees(r, m, about),
         say \in {"confirm", "offer"} => save # {},
         save = {} /\ say # "nothing" => MayAside(r, m)
  PROVE  AllSound(r, m, Outcome(save, say, about, person, follow))
<1>1. /\ o.save = save /\ o.say = say /\ o.about = about /\ o.person = person
      /\ o.follow = follow
  OBVIOUS
<1>2. save \in SUBSET Row BY DEF SoundRow
<1>3. o \in Outcomes BY <1>2 DEF Outcomes
<1>4. Kept(r, o) BY <1>1, <1>3 DEF Kept
<1>5. Sound(r, m, o) BY <1>1, <1>4 DEF Sound
<1> QED BY <1>5 DEF AllSound, Outcome

\* A reply that saves nothing.
LEMMA PlainIsSound ==
  ASSUME NEW r, NEW m, NEW say \in Saying, NEW about \in SUBSET Slot, NEW person \in BOOLEAN,
         NEW follow \in BOOLEAN,
         say \in {"nothing", "cancelled"} => ~follow,
         say = "free" => about \cap busy = {},
         say \notin {"confirm", "offer"},
         say # "nothing" => MayAside(r, m)
  PROVE  AllSound(r, m, Outcome({}, say, about, person, follow))
<1>1. PICK o : o = [save |-> {}, say |-> say, about |-> about, person |-> person,
                    follow |-> follow]
  OBVIOUS
<1> QED BY <1>1, OutcomeIsSound

\* A reply that stores a row with the answers and offers nothing.
LEMMA SavedIsSound ==
  ASSUME NEW r, NEW m, NEW i \in Answers(r), NEW stage \in Stage,
         NEW say \in Saying, NEW about \in SUBSET Slot, NEW person \in BOOLEAN,
         NEW follow \in BOOLEAN,
         say \in {"nothing", "cancelled"} => ~follow,
         say = "free" => about \cap busy = {},
         say = "confirm" => Agrees(r, m, about),
         say # "offer",
         stage = "closing" => person
  PROVE  AllSound(r, m, Outcome(Persist(stage, i, NoSlot), say, about, person, follow))
<1>1. PICK o : o = [save |-> Persist(stage, i, NoSlot), say |-> say, about |-> about,
                    person |-> person, follow |-> follow]
  OBVIOUS
<1>2. o.say = say /\ o.person = person BY <1>1
<1>3. NoSlot \in SlotOrNone BY DEF SlotOrNone
<1>4. \E new : Persist(stage, i, NoSlot) = {new} /\ SoundRow(r, o, new)
  BY <1>2, <1>3, PersistWrites
<1>5. Persist(stage, i, NoSlot) # {} BY <1>4
<1> QED BY <1>1, <1>4, <1>5, OutcomeIsSound

\* A slot on offer is remembered with the answers.
LEMMA OfferIsSound ==
  ASSUME NEW r, NEW m, NEW i \in Answers(r), NEW s \in Slot,
         NEW stage \in {"pitching", "proposing"}
  PROVE  AllSound(r, m, Outcome(Persist(stage, i, s), "offer", {s}, FALSE, TRUE))
<1>1. PICK o : o = [save |-> Persist(stage, i, s), say |-> "offer", about |-> {s},
                    person |-> FALSE, follow |-> TRUE]
  OBVIOUS
<1>2. o.say = "offer" /\ o.about = {s} BY <1>1
<1>3. s \in SlotOrNone /\ stage \in Stage /\ stage # "closing" BY DEF SlotOrNone, Stage
<1>4. \E new : Persist(stage, i, s) = {new} /\ SoundRow(r, o, new)
  BY <1>2, <1>3, PersistWrites
<1>5. Persist(stage, i, s) # {} /\ "offer" \in Saying /\ {s} \in SUBSET Slot
  BY <1>4 DEF Saying
<1> QED BY <1>1, <1>4, <1>5, OutcomeIsSound

-----------------------------------------------------------------------------
(* The replies on the way. *)

LEMMA SkipIsSound == \A r, m : AllSound(r, m, Skip)
<1>1. "nothing" \in Saying /\ {} \in SUBSET Slot BY DEF Saying
<1> QED BY <1>1, PlainIsSound DEF Skip

LEMMA QuestionsAreSound ==
  ASSUME NEW r, NEW m, NEW i \in Answers(r), NEW stage \in Stage
  PROVE  /\ stage # "closing" => AllSound(r, m, Ask(stage, i))
         /\ AllSound(r, m, HandOver(stage, i))
         /\ AllSound(r, m, ask_for_date(i)) /\ AllSound(r, m, ask_for_time(i))
         /\ AllSound(r, m, Ask("scoping", i))
<1>1. "text" \in Saying /\ {} \in SUBSET Slot BY DEF Saying
<1>2. ASSUME NEW st \in Stage, NEW person \in BOOLEAN, st = "closing" => person
      PROVE  AllSound(r, m, Outcome(Persist(st, i, NoSlot), "text", {}, person, TRUE))
  BY <1>1, <1>2, SavedIsSound
<1>3. \A st \in Stage \ {"closing"} : AllSound(r, m, Ask(st, i)) BY <1>2 DEF Ask
<1>4. AllSound(r, m, HandOver(stage, i)) BY <1>2 DEF HandOver
<1>5. "scoping" \in Stage \ {"closing"} /\ "awaiting_time" \in Stage \ {"closing"} BY DEF Stage
<1> QED BY <1>3, <1>4, <1>5 DEF ask_for_date, ask_for_time

LEMMA CancellationIsSound ==
  ASSUME NEW r, NEW m, NEW i \in Answers(r)
  PROVE  AllSound(r, m, handle_cancellation(i))
<1>1. /\ "cancelled" \in Saying /\ {} \in SUBSET Slot /\ "closing" \in Stage
  BY DEF Saying, Stage
<1> QED BY <1>1, SavedIsSound DEF handle_cancellation

\* Replies that do not look at the answers.
LEMMA AsidesAreSound ==
  ASSUME NEW r, NEW m, MayAside(r, m)
  PROVE  /\ AllSound(r, m, handle_human_request) /\ AllSound(r, m, handle_out_of_scope)
         /\ AllSound(r, m, handle_small_talk) /\ AllSound(r, m, handle_gibberish)
         /\ AllSound(r, m, handle_faq_defer) /\ AllSound(r, m, handle_working_hours)
         /\ AllSound(r, m, handle_capacity_question)
         /\ AllSound(r, m, handle_mixed_service) /\ AllSound(r, m, handle_count_mismatch)
         /\ AllSound(r, m, handle_catalog_ask) /\ AllSound(r, m, answer_concept)
         /\ AllSound(r, m, Answer)
<1>1. "text" \in Saying /\ {} \in SUBSET Slot BY DEF Saying
<1>2. \A person, follow \in BOOLEAN : AllSound(r, m, Outcome({}, "text", {}, person, follow))
  BY <1>1, PlainIsSound
<1>3. AllSound(r, m, Answer) /\ AllSound(r, m, CallPerson) /\ AllSound(r, m, Skip)
  BY <1>2, SkipIsSound DEF Answer, CallPerson
<1>4. /\ AllSound(r, m, Outcome({}, "text", {}, TRUE, TRUE))
      /\ AllSound(r, m, Outcome({}, "text", {}, FALSE, TRUE))
  BY <1>2
<1>5. AllSound(r, m, {}) BY DEF AllSound
<1> HIDE DEF Skip, Answer, CallPerson
<1> QED
  BY <1>3, <1>4, <1>5 DEF AllSound, handle_human_request, handle_out_of_scope,
     handle_small_talk, handle_gibberish, handle_faq_defer, handle_working_hours,
     handle_capacity_question, handle_mixed_service, handle_count_mismatch,
     handle_catalog_ask, answer_concept

LEMMA PricingIsSound ==
  ASSUME NEW r, NEW m, NEW i \in Answers(r)
  PROVE  AllSound(r, m, handle_pricing(i))
<1>1. "pricing" \in Stage /\ "awaiting_operator_price" \in Stage BY DEF Stage
<1>2. /\ AllSound(r, m, Ask("pricing", i))
      /\ AllSound(r, m, HandOver("awaiting_operator_price", i))
  BY <1>1, QuestionsAreSound
<1>3. AllSound(r, m, Skip) BY SkipIsSound
<1> QED BY <1>2, <1>3 DEF AllSound, handle_pricing, render_price_hit, escalate_price_unknown

\* An available slot is not taken; an alternative is a slot.
LEMMA Verdicts ==
  ASSUME NEW w, NEW v \in Verdict(w)
  PROVE  /\ v.status = "available" => w \notin busy
         /\ v.alternative \in SlotOrNone
         /\ v.status \in {"available", "unavailable", "unverified"}
<1>1. CASE v = [status |-> "unverified", alternative |-> NoSlot] BY <1>1 DEF SlotOrNone
<1>2. CASE w \in busy /\ \E s \in (Slot \ busy) \cup {NoSlot} :
             v = [status |-> "unavailable", alternative |-> s]
  BY <1>2 DEF SlotOrNone
<1>3. CASE w \notin busy /\ v = [status |-> "available", alternative |-> NoSlot]
  BY <1>3 DEF SlotOrNone
<1> QED BY <1>1, <1>2, <1>3 DEF Verdict

\* The verdict joins the price that was found.
LEMMA PriceWithSlotIsSound ==
  ASSUME NEW r, NEW m, NEW i \in Answers(r), NEW n \in Reading
  PROVE  OrPassed(r, m, maybe_answer_price_and_availability(n, i))
<1>1. ASSUME NEW v \in Verdict(n.when), Concrete(n.when), NEW o \in handle_pricing(i), o \notin Skip
      PROVE  Sound(r, m, [o EXCEPT !.say = IF v.status = "available" THEN "free" ELSE "text",
                                   !.about = IF v.status = "available" THEN {n.when} ELSE {}])
  <2>1. Sound(r, m, o) BY PricingIsSound DEF AllSound
  <2>2. \E st \in Stage, person \in BOOLEAN : o \in Outcome(Persist(st, i, NoSlot), "text", {}, person, TRUE)
    BY <1>1 DEF handle_pricing, render_price_hit, escalate_price_unknown, Ask, HandOver, Stage
  <2>3. PICK save, person :
          /\ o = [save |-> save, say |-> "text", about |-> {}, person |-> person, follow |-> TRUE]
          /\ save # {}
    BY <2>2 DEF Outcome, Persist
  <2>4. PICK said : said = IF v.status = "available" THEN "free" ELSE "text"
    OBVIOUS
  <2>5. PICK about : about = IF v.status = "available" THEN {n.when} ELSE {}
    OBVIOUS
  <2>6. said \in {"free", "text"} BY <2>4
  <2>7. PICK p : p = [o EXCEPT !.say = said, !.about = about]
    OBVIOUS
  <2>8. /\ o.say = "text" /\ o.save # {} /\ o.follow
        /\ p.save = o.save /\ p.say = said /\ p.about = about /\ p.person = o.person
        /\ p.follow = o.follow
    BY <2>3, <2>7
  <2>9. (said = "free" => about \cap busy = {}) /\ about \in SUBSET Slot /\ said \in Saying
    BY <1>1, <2>4, <2>5, Verdicts, Readings, DaysAndHours DEF Saying
  <2>10. \A new : SoundRow(r, o, new) => SoundRow(r, p, new) BY <2>6, <2>8 DEF SoundRow
  <2>11. p \in Outcomes BY <2>1, <2>7, <2>9 DEF Sound, Kept, Outcomes
  <2>12. Kept(r, p) BY <2>1, <2>6, <2>8, <2>10, <2>11 DEF Sound, Kept
  <2>13. Sound(r, m, p) BY <2>1, <2>6, <2>8, <2>9, <2>12 DEF Sound
  <2> QED BY <2>4, <2>5, <2>7, <2>13
<1>2. ASSUME NEW o \in maybe_answer_price_and_availability(n, i), o # None
      PROVE  Sound(r, m, o)
  <2>0. o \notin Pass BY <1>2 DEF Pass
  <2>1. /\ Concrete(n.when)
        /\ o \in UNION {IF v.status = "unverified" THEN Pass
                        ELSE {IF p \in Skip THEN None
                              ELSE [p EXCEPT !.say = IF v.status = "available" THEN "free" ELSE "text",
                                             !.about = IF v.status = "available" THEN {n.when} ELSE {}] :
                                p \in handle_pricing(i)} :
                          v \in Verdict(n.when)}
    BY <1>2, <2>0, Zenon DEF maybe_answer_price_and_availability, When_
  <2>2. PICK v \in Verdict(n.when) :
          o \in {IF p \in Skip THEN None
                ELSE [p EXCEPT !.say = IF v.status = "available" THEN "free" ELSE "text",
                               !.about = IF v.status = "available" THEN {n.when} ELSE {}] :
                  p \in handle_pricing(i)}
    BY <2>0, <2>1, Zenon
  <2>3. PICK p \in handle_pricing(i) :
          /\ p \notin Skip
          /\ o = [p EXCEPT !.say = IF v.status = "available" THEN "free" ELSE "text",
                          !.about = IF v.status = "available" THEN {n.when} ELSE {}]
    BY <1>2, <2>2
  <2> QED BY <1>1, <2>1, <2>3
<1> QED BY <1>2 DEF OrPassed

LEMMA PriceInterceptIsSound ==
  ASSUME NEW r, NEW m, NEW i \in Answers(r), NEW n
  PROVE  OrPassed(r, m, maybe_intercept_price_ask(n, i))
BY PricingIsSound, SoundMayPass DEF maybe_intercept_price_ask

-----------------------------------------------------------------------------
(* Slots. *)

LEMMA AlternativeIsSound ==
  ASSUME NEW r, NEW m, NEW i \in Answers(r), NEW a \in SlotOrNone
  PROVE  AllSound(r, m, propose_alternative_or_handoff(i, a))
<1>1. "pitching" \in Stage BY DEF Stage
<1>2. CASE a = NoSlot
  BY <1>1, <1>2, QuestionsAreSound DEF propose_alternative_or_handoff
<1>3. CASE a # NoSlot
  <2>1. a \in Slot BY <1>3 DEF SlotOrNone
  <2> QED BY <1>3, <2>1, OfferIsSound DEF propose_alternative_or_handoff
<1> QED BY <1>2, <1>3

LEMMA WindowIsSound ==
  ASSUME NEW r, NEW m, NEW i \in Answers(r), NEW n
  PROVE  OrPassed(r, m, maybe_answer_vague_window(n, i))
<1>1. \A s \in Slot \ busy :
        AllSound(r, m, Outcome(Persist("pitching", i, s), "offer", {s}, FALSE, TRUE))
  BY OfferIsSound
<1>2. OrPassed(r, m, Pass \cup UNION {Outcome(Persist("pitching", i, s), "offer", {s}, FALSE, TRUE) :
                                        s \in Slot \ busy})
  BY <1>1, Zenon DEF AllSound, OrPassed, Pass
<1> QED BY <1>2, PassMayPass, Zenon DEF maybe_answer_vague_window

LEMMA PairIsSound ==
  ASSUME NEW r, NEW m, MayAside(r, m), NEW n \in Reading
  PROVE  OrPassed(r, m, maybe_answer_two_slots(n))
<1>1. PICK unbooked : unbooked = {n.when, n.also} \ busy
  OBVIOUS
<1>2. PICK say : say = IF unbooked = {} THEN "text" ELSE "free"
  OBVIOUS
<1>3. n.when \in When /\ n.also \in When BY Readings
<1>4. Concrete(n.when) /\ Concrete(n.also) => unbooked \in SUBSET Slot
  BY <1>1, <1>3, DaysAndHours
<1>5. say \in Saying /\ say \in {"text", "free"} BY <1>2 DEF Saying
<1>6. unbooked \cap busy = {} BY <1>1
<1>7. Concrete(n.when) /\ Concrete(n.also) =>
        AllSound(r, m, Outcome({}, say, unbooked, FALSE, FALSE))
  BY <1>4, <1>5, <1>6, PlainIsSound
<1>8. Concrete(n.when) /\ Concrete(n.also) =>
        OrPassed(r, m, Pass \cup Outcome({}, say, unbooked, FALSE, FALSE))
  BY <1>7 DEF AllSound, OrPassed, Pass
<1>9. maybe_answer_two_slots(n) =
        When_(/\ n.kind = "pair" /\ connected
              /\ Concrete(n.when) /\ Concrete(n.also) /\ n.when # n.also,
              Pass \cup Outcome({}, say, unbooked, FALSE, FALSE))
  BY <1>1, <1>2, Zenon DEF maybe_answer_two_slots
<1> QED BY <1>8, <1>9, PassMayPass, Zenon

LEMMA InquiryIsSound ==
  ASSUME NEW r, NEW m, MayAside(r, m), NEW i \in Answers(r), NEW n \in Reading
  PROVE  OrPassed(r, m, maybe_answer_availability_inquiry(n, i))
<1>1. PICK w \in When : w = IF Concrete(i.when) THEN i.when ELSE n.when
  BY AnswersChange, Readings
<1>2. Concrete(w) => w \in Slot BY DaysAndHours
<1>3. ASSUME NEW v \in Verdict(w), v.status = "available", Concrete(w)
      PROVE  AllSound(r, m, Outcome({}, "free", {w}, FALSE, FALSE))
  <2>1. {w} \cap busy = {} /\ {w} \in SUBSET Slot /\ "free" \in Saying
    BY <1>2, <1>3, Verdicts DEF Saying
  <2> QED BY <2>1, PlainIsSound
<1>4. AllSound(r, m, Answer) BY AsidesAreSound
<1>5. ASSUME NEW v \in Verdict(w), Concrete(w)
      PROVE  OrPassed(r, m, CASE v.status = "available" -> Outcome({}, "free", {w}, FALSE, FALSE)
                              [] v.status = "unavailable" -> Answer
                              [] OTHER -> Pass)
  BY <1>3, <1>4, <1>5, SoundMayPass
<1>6. Concrete(w) =>
        OrPassed(r, m, UNION {CASE v.status = "available" -> Outcome({}, "free", {w}, FALSE, FALSE)
                                [] v.status = "unavailable" -> Answer
                                [] OTHER -> Pass : v \in Verdict(w)})
  BY <1>5, Zenon DEF OrPassed
<1>7. maybe_answer_availability_inquiry(n, i) =
        When_(n.kind = "inquiry" /\ connected /\ Concrete(w),
              UNION {CASE v.status = "available" -> Outcome({}, "free", {w}, FALSE, FALSE)
                       [] v.status = "unavailable" -> Answer
                       [] OTHER -> Pass : v \in Verdict(w)})
  BY <1>1, ZenonT(60) DEF maybe_answer_availability_inquiry
<1> QED BY <1>6, <1>7, PassMayPass, ZenonT(60)

LEMMA BusySlotIsSound ==
  ASSUME NEW r, NEW m, NEW i \in Answers(r), NEW old
  PROVE  OrPassed(r, m, maybe_intercept_busy_slot(old, i))
<1>1. ASSUME NEW v \in Verdict(i.when)
      PROVE  OrPassed(r, m, IF v.status = "unavailable"
                              THEN propose_alternative_or_handoff(i, v.alternative) ELSE Pass)
  BY AlternativeIsSound, Verdicts, SoundMayPass
<1>2. OrPassed(r, m, UNION {IF v.status = "unavailable"
                              THEN propose_alternative_or_handoff(i, v.alternative) ELSE Pass :
                              v \in Verdict(i.when)})
  BY <1>1, Zenon DEF OrPassed
<1> QED BY <1>2, PassMayPass, Zenon DEF maybe_intercept_busy_slot

LEMMA TimeFoldsIn ==
  ASSUME NEW r, NEW i \in Answers(r), NEW n \in Reading
  PROVE  fold_raw_time_into_intent(n, i) \in Answers(r)
<1>1. <<0, n.when[2]>> \in When BY Readings, DaysAndHours
<1> QED BY <1>1, AnswersChange DEF fold_raw_time_into_intent

\* The word that the slot is free follows an answer of the calendar that says so.
LEMMA HandoffIsSound ==
  ASSUME NEW r, NEW m, NEW i \in Answers(r), NEW free \in BOOLEAN,
         free => i.when \notin busy /\ i.when \in Slot
  PROVE  AllSound(r, m, handoff_after_scoping(i, free))
<1>1. PICK say, about : /\ say = IF free THEN "free" ELSE "text"
                        /\ about = IF free THEN {i.when} ELSE {}
  OBVIOUS
<1>2. /\ say \in Saying /\ say \notin {"nothing", "cancelled", "confirm", "offer"}
      /\ about \in SUBSET Slot /\ (say = "free" => about \cap busy = {})
  BY <1>1 DEF Saying
<1>3. "pitching" \in Stage BY DEF Stage
<1>4. AllSound(r, m, Outcome(Persist("pitching", i, NoSlot), say, about, TRUE, TRUE))
  BY <1>2, <1>3, SavedIsSound
<1> QED BY <1>1, <1>4 DEF handoff_after_scoping

LEMMA BookingIsSound ==
  ASSUME NEW r, NEW m, NEW i \in Answers(r), NEW n \in Reading, n.kind = m.kind, NEW stage
  PROVE  AllSound(r, m, complete_booking(n, i, stage))
<1>1. n.kind = "mismatch" => AllSound(r, m, handle_count_mismatch)
  BY AsidesAreSound DEF MayAside, AsideKind
<1>2. OrPassed(r, m, maybe_answer_vague_window(n, i)) BY WindowIsSound
<1>3. "scoping" \in Stage BY DEF Stage
<1>4. AllSound(r, m, ask_for_date(fold_raw_time_into_intent(n, i)))
  BY <1>3, TimeFoldsIn, QuestionsAreSound
<1>5. AllSound(r, m, ask_for_time(i)) BY <1>3, QuestionsAreSound
<1>6. ASSUME NEW v \in check_requested_slot(i)
      PROVE  AllSound(r, m, CASE v.status = "unavailable" ->
                                   propose_alternative_or_handoff(i, v.alternative)
                              [] v.status = "unverified" -> handoff_unverified_slot(i)
                              [] OTHER -> handoff_after_scoping(i, v.status = "available"))
  <2>1. /\ v.status = "available" => i.when \notin busy /\ i.when \in Slot
        /\ v.alternative \in SlotOrNone
    <3>1. CASE Concrete(i.when) /\ v \in Verdict(i.when)
      BY <3>1, Verdicts, AnswersChange, DaysAndHours
    <3>2. CASE v = [status |-> "unchecked", alternative |-> NoSlot]
      BY <3>2 DEF SlotOrNone
    <3> QED BY <1>6, <3>1, <3>2 DEF check_requested_slot
  <2>2. AllSound(r, m, propose_alternative_or_handoff(i, v.alternative))
    BY <2>1, AlternativeIsSound
  <2>3. AllSound(r, m, handoff_unverified_slot(i))
    <3>1. "pitching" \in Stage BY DEF Stage
    <3> QED BY <3>1, QuestionsAreSound DEF handoff_unverified_slot
  <2>4. AllSound(r, m, handoff_after_scoping(i, v.status = "available"))
    <3>1. PICK free \in BOOLEAN : free = (v.status = "available")
      OBVIOUS
    <3>2. AllSound(r, m, handoff_after_scoping(i, free)) BY <2>1, <3>1, HandoffIsSound
    <3> QED BY <3>1, <3>2
  <2> QED BY <2>2, <2>3, <2>4
<1>7. PICK booked : booked = UNION {CASE v.status = "unavailable" ->
                                            propose_alternative_or_handoff(i, v.alternative)
                                       [] v.status = "unverified" -> handoff_unverified_slot(i)
                                       [] OTHER -> handoff_after_scoping(i, v.status = "available") :
                                       v \in check_requested_slot(i)}
  OBVIOUS
<1>8. AllSound(r, m, booked) BY <1>6, <1>7, Zenon DEF AllSound
<1>9. PICK dated : dated = IF has_time_without_date(n, i)
                           THEN ask_for_date(fold_raw_time_into_intent(n, i))
                           ELSE IF stage # "awaiting_time" /\ should_ask_for_time(i)
                           THEN ask_for_time(i) ELSE booked
  OBVIOUS
<1>10. complete_booking(n, i, stage) =
         IF n.kind = "mismatch" THEN handle_count_mismatch
         ELSE OrElse(maybe_answer_vague_window(n, i), dated)
  BY <1>7, <1>9 DEF complete_booking
<1>11. AllSound(r, m, dated) BY <1>4, <1>5, <1>8, <1>9
<1>12. AllSound(r, m, OrElse(maybe_answer_vague_window(n, i), dated))
  BY <1>2, <1>11, ElseIsSound
<1> QED BY <1>1, <1>10, <1>12

-----------------------------------------------------------------------------
(* Reading the answers. *)

LEMMA MergeKeeps ==
  ASSUME NEW r, NEW i \in Answers(r), NEW n \in Reading
  PROVE  extract_and_merge(n, i) \subseteq Answers(r)
<1>1. ASSUME NEW x \in Extracted(n) PROVE Merge(n, i, x) \in Answers(r)
  <2>1. x[1] \in When /\ x[2] \in BOOLEAN BY Readings, DaysAndHours DEF Extracted
  <2>2. PICK w \in When, b \in BOOLEAN : /\ w = IF x[1] = NoSlot THEN i.when ELSE x[1]
                                         /\ b = (i.count \/ x[2])
    BY <2>1, AnswersChange
  <2>3. i \in TalkRow /\ (MustKeep(r) => i.count) BY DEF Answers
  <2>4. [i EXCEPT !.when = w, !.count = b] \in Answers(r)
    <3>1. MustKeep(r) => b BY <2>2, <2>3
    <3>2. [i EXCEPT !.when = w, !.count = b] \in TalkRow BY <2>3 DEF TalkRow
    <3>3. [i EXCEPT !.when = w, !.count = b].count = b BY <2>3 DEF TalkRow
    <3> QED BY <3>1, <3>2, <3>3 DEF Answers
  <2>5. [i EXCEPT !.when = IF x[1] = NoSlot THEN @ ELSE x[1], !.count = @ \/ x[2]]
          = [i EXCEPT !.when = w, !.count = b]
    BY <2>2
  <2> QED BY <2>4, <2>5, Readings, AnswersChange DEF Merge, dates_with_raw_fallback
<1> QED BY <1>1 DEF extract_and_merge

LEMMA PriorDateKeeps ==
  ASSUME NEW r, NEW i \in Answers(r), NEW old \in TalkRow
  PROVE  preserve_prior_date(i, old) \in Answers(r)
<1>1. i.when \in When /\ old.when \in When BY AnswersChange DEF TalkRow
<1>2. <<old.when[1], i.when[2]>> \in When /\ <<i.when[1], old.when[2]>> \in When
  BY <1>1, DaysAndHours
<1> QED BY <1>2, AnswersChange DEF preserve_prior_date

LEMMA TemporalReplyIsSound ==
  ASSUME NEW r \in TalkRow, NEW m \in Reading
  PROVE  AllSound(r, m, handle_temporal_reply(m, r))
<1>1. PICK said : said = IF HasDay(m.when) THEN [r EXCEPT !.when = m.when]
                         ELSE fold_raw_time_into_intent(m, r)
  OBVIOUS
<1>2. said \in Answers(r) BY <1>1, Readings, AnswersChange, TimeFoldsIn, RowsAreAnswers
<1>3. PICK i \in Answers(r) : i = preserve_prior_date(said, r)
  BY <1>2, PriorDateKeeps
<1>4. "scoping" \in Stage BY DEF Stage
<1>5. /\ AllSound(r, m, ask_for_date(i)) /\ AllSound(r, m, complete_booking(m, i, r.stage))
      /\ AllSound(r, m, OrElse(maybe_answer_vague_window(m, i), Ask("scoping", i)))
  BY <1>4, QuestionsAreSound, BookingIsSound, WindowIsSound, ElseIsSound
<1>6. handle_temporal_reply(m, r) =
        IF HasTime(m.when) /\ ~HasDay(i.when) THEN ask_for_date(i)
        ELSE IF ~is_complete(i)
        THEN OrElse(maybe_answer_vague_window(m, i), Ask("scoping", i))
        ELSE complete_booking(m, i, r.stage)
  BY <1>1, <1>3 DEF handle_temporal_reply
<1> QED BY <1>5, <1>6

LEMMA NumericReplyIsSound ==
  ASSUME NEW r \in TalkRow, NEW m \in Reading
  PROVE  AllSound(r, m, handle_deterministic_numeric_reply(m, r))
<1>1. PICK i : i = [r EXCEPT !.count = TRUE]
  OBVIOUS
<1>2. i \in Answers(r)
  <2>1. [r EXCEPT !.count = TRUE] \in Answers(r) BY AnswersChange, RowsAreAnswers
  <2> QED BY <1>1, <2>1
<1>3. "scoping" \in Stage BY DEF Stage
<1>4. AllSound(r, m, complete_booking(m, i, r.stage)) /\ AllSound(r, m, Ask("scoping", i))
  BY <1>2, <1>3, BookingIsSound, QuestionsAreSound
<1> QED BY <1>1, <1>4 DEF handle_deterministic_numeric_reply

-----------------------------------------------------------------------------
(* The stages. *)

\* A new talk starts from an empty row, where no answer is to be kept.
LEMMA GreetingIsSound ==
  ASSUME NEW r \in TalkRow, NEW m \in Reading, ~MustKeep(r), MayAside(r, m)
  PROVE  AllSound(r, m, handle_greeting(m))
<1>1. NewRow \in Answers(r) BY NewRows DEF Answers
<1>2. "scoping" \in Stage BY DEF Stage
<1>3. ASSUME NEW i \in extract_and_merge(m, NewRow)
      PROVE  AllSound(r, m,
        OrElse(maybe_answer_two_slots(m),
        IF m.kind = "mixed" THEN handle_mixed_service
        ELSE IF m.kind = "mismatch" THEN handle_count_mismatch
        ELSE OrElse(maybe_answer_availability_inquiry(m, i),
        OrElse(maybe_answer_vague_window(m, i),
        IF has_time_without_date(m, NewRow)
        THEN ask_for_date(fold_raw_time_into_intent(m, NewRow))
        ELSE OrElse(maybe_intercept_busy_slot(NewRow, i),
        OrElse(maybe_intercept_price_ask(m, i),
        IF is_complete(i) THEN complete_booking(m, i, "new") ELSE Ask("scoping", i)))))))
  <2> DEFINE booking == IF is_complete(i) THEN complete_booking(m, i, "new") ELSE Ask("scoping", i)
             priced == OrElse(maybe_intercept_price_ask(m, i), booking)
             unless_busy == OrElse(maybe_intercept_busy_slot(NewRow, i), priced)
             dated == IF has_time_without_date(m, NewRow)
                      THEN ask_for_date(fold_raw_time_into_intent(m, NewRow)) ELSE unless_busy
             windowed == OrElse(maybe_answer_vague_window(m, i), dated)
             asked == OrElse(maybe_answer_availability_inquiry(m, i), windowed)
             single == IF m.kind = "mixed" THEN handle_mixed_service
                       ELSE IF m.kind = "mismatch" THEN handle_count_mismatch ELSE asked
  <2>1. i \in Answers(r) BY <1>1, <1>3, MergeKeeps
  <2>2. AllSound(r, m, booking) BY <1>2, <2>1, BookingIsSound, QuestionsAreSound
  <2>3. AllSound(r, m, priced) BY <2>1, <2>2, PriceInterceptIsSound, ElseIsSound
  <2>4. AllSound(r, m, unless_busy) BY <2>1, <2>3, BusySlotIsSound, ElseIsSound
  <2>5. AllSound(r, m, dated) BY <1>1, <1>2, <2>4, TimeFoldsIn, QuestionsAreSound
  <2>6. AllSound(r, m, windowed) BY <2>1, <2>5, WindowIsSound, ElseIsSound
  <2>7. AllSound(r, m, asked) BY <2>1, <2>6, InquiryIsSound, ElseIsSound
  <2>8. AllSound(r, m, single) BY <2>7, AsidesAreSound
  <2>9. AllSound(r, m, OrElse(maybe_answer_two_slots(m), single))
    BY <2>8, PairIsSound, ElseIsSound
  <2> QED BY <2>9
<1>4. AllSound(r, m, Skip) BY SkipIsSound
<1> QED BY <1>3, <1>4, Zenon DEF AllSound, handle_greeting

\* A service is picked: the answers are kept, or the talk begins anew.
LEMMA ServiceIsSound ==
  ASSUME NEW r \in TalkRow, NEW m
  PROVE  AllSound(r, m, handle_service_selection(r))
<1>1. "scoping" \in Stage BY DEF Stage
<1>2. AllSound(r, m, Skip) /\ AllSound(r, m, Ask("scoping", r))
  BY <1>1, SkipIsSound, QuestionsAreSound, RowsAreAnswers
<1>3. AllSound(r, m, Ask("scoping", NewRow))
  <2>1. Persist("scoping", NewRow, NoSlot) = {Fresh}
    <3>1. NewRow.when = NoSlot /\ NewRow.count = FALSE BY Zenon DEF NewRow
    <3>2. Fresh = [stage |-> "scoping", when |-> NoSlot, count |-> FALSE, offer |-> NoSlot]
      <4>1. \A b : [[stage |-> "new", when |-> NoSlot, count |-> b, offer |-> NoSlot]
                     EXCEPT !.stage = "scoping"]
                   = [stage |-> "scoping", when |-> NoSlot, count |-> b, offer |-> NoSlot]
        OBVIOUS
      <4> QED BY <4>1, Zenon DEF Fresh, NewRow
    <3> QED BY <3>1, <3>2, Zenon DEF Persist
  <2>2. PICK o : o = [save |-> {Fresh}, say |-> "text", about |-> {},
                      person |-> FALSE, follow |-> TRUE]
    OBVIOUS
  <2>3. o.say = "text" BY <2>2
  <2>4. SoundRow(r, o, Fresh) BY <2>3, NewRows DEF SoundRow, WellPlaced
  <2>5. "text" \in Saying /\ {} \in SUBSET Slot BY DEF Saying
  <2>6. AllSound(r, m, Outcome({Fresh}, "text", {}, FALSE, TRUE))
    BY <2>2, <2>4, <2>5, OutcomeIsSound
  <2> QED BY <2>1, <2>6 DEF Ask
<1> QED BY <1>2, <1>3 DEF AllSound, handle_service_selection

LEMMA RecoveredKeeps ==
  ASSUME NEW r, NEW i \in Answers(r), NEW n, NEW old
  PROVE  Recovered(n, old, i) \in Answers(r)
<1>1. [i EXCEPT !.count = TRUE] \in Answers(r) BY AnswersChange
<1>2. [i EXCEPT !.when = Unclear] \in Answers(r) BY AnswersChange, DaysAndHours
<1> QED BY <1>1, <1>2 DEF Recovered

LEMMA ScopingIsSound ==
  ASSUME NEW r \in TalkRow, NEW m \in Reading, MayAside(r, m)
  PROVE  AllSound(r, m, handle_scoping(m, r))
<1>1. AllSound(r, m, ScopingUnread(m, r))
  BY NumericReplyIsSound, TemporalReplyIsSound, SkipIsSound DEF ScopingUnread
<1>2. ASSUME NEW x \in extract_and_merge(m, r)
      PROVE  AllSound(r, m,
        LET i == Recovered(m, r, x) IN
        IF is_complete(i) THEN complete_booking(m, i, "scoping")
        ELSE OrElse(maybe_answer_two_slots(m),
        IF m.kind = "mixed" THEN handle_mixed_service
        ELSE IF m.kind = "mismatch" THEN handle_count_mismatch
        ELSE OrElse(maybe_answer_availability_inquiry(m, i),
        OrElse(maybe_answer_vague_window(m, i),
        OrElse(maybe_intercept_busy_slot(r, i), Ask("scoping", i))))))
  <2>1. PICK i \in Answers(r) : i = Recovered(m, r, x)
    BY <1>2, MergeKeeps, RecoveredKeeps, RowsAreAnswers
  <2> DEFINE unless_busy == OrElse(maybe_intercept_busy_slot(r, i), Ask("scoping", i))
             windowed == OrElse(maybe_answer_vague_window(m, i), unless_busy)
             asked == OrElse(maybe_answer_availability_inquiry(m, i), windowed)
             single == IF m.kind = "mixed" THEN handle_mixed_service
                       ELSE IF m.kind = "mismatch" THEN handle_count_mismatch ELSE asked
  <2>2. "scoping" \in Stage BY DEF Stage
  <2>3. AllSound(r, m, complete_booking(m, i, "scoping")) BY BookingIsSound
  <2>4. AllSound(r, m, unless_busy) BY <2>2, BusySlotIsSound, QuestionsAreSound, ElseIsSound
  <2>5. AllSound(r, m, windowed) BY <2>4, WindowIsSound, ElseIsSound
  <2>6. AllSound(r, m, asked) BY <2>5, InquiryIsSound, ElseIsSound
  <2>7. AllSound(r, m, single) BY <2>6, AsidesAreSound
  <2>8. AllSound(r, m, OrElse(maybe_answer_two_slots(m), single))
    BY <2>7, PairIsSound, ElseIsSound
  <2> QED BY <2>1, <2>3, <2>8
<1> QED BY <1>1, <1>2, Zenon DEF AllSound, handle_scoping

LEMMA AwaitingTimeIsSound ==
  ASSUME NEW r \in TalkRow, NEW m \in Reading
  PROVE  AllSound(r, m, handle_awaiting_time(m, r))
<1>1. AllSound(r, m, IF IsShortTemporal(m) THEN handle_temporal_reply(m, r) ELSE Skip)
  BY TemporalReplyIsSound, SkipIsSound
<1>2. ASSUME NEW i \in extract_and_merge(m, r)
      PROVE  AllSound(r, m, complete_booking(m, preserve_prior_date(i, r), "awaiting_time"))
  BY <1>2, MergeKeeps, PriorDateKeeps, BookingIsSound, RowsAreAnswers
<1> QED BY <1>1, <1>2, Zenon DEF AllSound, handle_awaiting_time

LEMMA ClosingIsSound ==
  ASSUME NEW r \in TalkRow, NEW m
  PROVE  AllSound(r, m, HandOver("closing", r))
<1>1. "closing" \in Stage BY DEF Stage
<1> QED BY <1>1, QuestionsAreSound, RowsAreAnswers

\* A confirmed slot is told to a person.
LEMMA ConfirmationIsSound ==
  ASSUME NEW r \in TalkRow, NEW m, r.offer # NoSlot => Agrees(r, m, {r.offer})
  PROVE  AllSound(r, m, confirm_slot(r, r.offer))
<1>1. /\ r.offer # NoSlot => {r.offer} \in SUBSET Slot
      /\ "closing" \in Stage /\ "confirm" \in Saying
  BY DEF TalkRow, SlotOrNone, Stage, Saying
<1>2. r.offer # NoSlot =>
        AllSound(r, m, Outcome(Persist("closing", r, NoSlot), "confirm", {r.offer}, TRUE, TRUE))
  BY <1>1, SavedIsSound, RowsAreAnswers
<1> QED BY <1>2, ClosingIsSound DEF confirm_slot

\* Another clock time than the one at hand moves a slot within its day.
LEMMA NewClock ==
  ASSUME NEW m, NEW hour, \E h \in Hour : NewClocks(m, hour) = {h}
  PROVE  (CHOOSE h \in NewClocks(m, hour) : TRUE) \in Hour
<1>1. PICK h \in Hour : NewClocks(m, hour) = {h}
  OBVIOUS
<1> QED BY <1>1

LEMMA MovedSlots ==
  ASSUME NEW r \in TalkRow, NEW m
  PROVE  /\ timeonly_counteroffer_start(m, r) \in When /\ new_time_for_prior(m, r) \in When
         /\ r.offer # NoSlot /\ timeonly_counteroffer_start(m, r) = NoSlot
              => ~\E h \in Hour : NewClocks(m, r.offer[2]) = {h}
<1>1. r.offer \in SlotOrNone /\ r.when \in When BY DEF TalkRow
<1>2. r.offer # NoSlot => r.offer[1] \in Day BY <1>1 DEF SlotOrNone, Slot
<1>3. r.when[1] \in {0} \cup Day BY <1>1, DaysAndHours
<1>4. NoSlot \in When BY DaysAndHours
<1>5. timeonly_counteroffer_start(m, r) \in When
  BY <1>2, <1>4, NewClock, DaysAndHours DEF timeonly_counteroffer_start
<1>6. new_time_for_prior(m, r) \in When
  BY <1>3, <1>4, NewClock, DaysAndHours DEF new_time_for_prior
<1>7. ASSUME r.offer # NoSlot, \E h \in Hour : NewClocks(m, r.offer[2]) = {h}
      PROVE  timeonly_counteroffer_start(m, r) # NoSlot
  <2>1. \A h : <<r.offer[1], h>> # NoSlot BY <1>2, <1>7, SlotAssumption DEF NoSlot
  <2> QED BY <1>7, <2>1 DEF timeonly_counteroffer_start
<1> QED BY <1>5, <1>6, <1>7

\* The offer is confirmed when the message restates it, or agrees and names no one
\* other slot.
LEMMA PitchingIsSound ==
  ASSUME NEW r \in TalkRow, NEW m \in Reading,
         m.kind \notin {"cancel", "service", "fresh"}
  PROVE  AllSound(r, m, handle_pitching(m, r))
<1>1. \A n \in Reading, w \in When : n.kind = m.kind =>
        AllSound(r, m, complete_booking(n, [r EXCEPT !.when = w], "pitching"))
  BY AnswersChange, RowsAreAnswers, BookingIsSound
<1>2. ASSUME HasDay(m.when) PROVE AllSound(r, m, PitchNewDay(m, r))
  <2>1. m.when = r.offer /\ r.offer # NoSlot => Agrees(r, m, {r.offer})
    BY <1>2 DEF Agrees, Declines
  <2> QED BY <1>1, <2>1, Readings, ConfirmationIsSound DEF PitchNewDay
<1>3. ASSUME ~HasDay(m.when) \/ m.when = r.when
      PROVE  AllSound(r, m, PitchNoNewDay(m, r))
  <2>1. PICK counter \in When : counter = timeonly_counteroffer_start(m, r) BY MovedSlots
  <2>2. PICK moved \in When : moved = new_time_for_prior(m, r) BY MovedSlots
  <2>3. PICK bare \in Reading : bare = [m EXCEPT !.window = FALSE] BY Readings
  <2>4. bare.kind = m.kind BY <2>3 DEF Reading
  <2>5. /\ AllSound(r, m, complete_booking(bare, [r EXCEPT !.when = counter], "pitching"))
        /\ AllSound(r, m, complete_booking(bare, [r EXCEPT !.when = moved], "pitching"))
    BY <1>1, <2>4
  <2>6. counter = NoSlot /\ r.offer # NoSlot => AllSound(r, m, confirm_slot(r, r.offer))
    <3>1. counter = NoSlot /\ r.offer # NoSlot => Agrees(r, m, {r.offer})
      BY <1>3, <2>1, MovedSlots DEF Agrees, Declines
    <3> QED BY <3>1, ConfirmationIsSound
  <2>7. AllSound(r, m, handoff_after_pitching_followup(r))
    BY ClosingIsSound DEF handoff_after_pitching_followup
  <2> QED BY <2>1, <2>2, <2>3, <2>5, <2>6, <2>7 DEF PitchNoNewDay
<1>4. m.kind = "mixed" => AllSound(r, m, handle_mixed_service)
  BY AsidesAreSound DEF MayAside, AsideKind
<1> QED BY <1>2, <1>3, <1>4 DEF AllSound, handle_pitching

LEMMA ProposingIsSound ==
  ASSUME NEW r \in TalkRow, NEW m \in Reading
  PROVE  AllSound(r, m, handle_proposing(m, r))
<1>1. ASSUME NEW i \in Answers(r)
      PROVE  AllSound(r, m, render_and_persist_proposal(i) \cup handle_no_proposal(i))
  <2>1. \A s \in Slot \ busy :
          AllSound(r, m, Outcome(Persist("proposing", i, s), "offer", {s}, FALSE, TRUE))
    BY OfferIsSound
  <2>2. "proposing" \in Stage BY DEF Stage
  <2>3. AllSound(r, m, HandOver("proposing", i)) /\ AllSound(r, m, Ask("proposing", i))
    BY <2>2, QuestionsAreSound
  <2>4. AllSound(r, m, UNION {Outcome(Persist("proposing", i, s), "offer", {s}, FALSE, TRUE) :
                                s \in Slot \ busy})
    BY <2>1, Zenon DEF AllSound
  <2>5. AllSound(r, m, render_and_persist_proposal(i)) /\ AllSound(r, m, handle_no_proposal(i))
    BY <2>3, <2>4, BothAreSound, Zenon DEF render_and_persist_proposal, handle_no_proposal
  <2> QED BY <2>5, BothAreSound
<1>2. PICK i \in Answers(r) : i = IF HasDay(m.when) THEN [r EXCEPT !.when = m.when] ELSE r
  BY Readings, AnswersChange, RowsAreAnswers
<1>3. AllSound(r, m, HandOver("closing", r)) BY ClosingIsSound
<1>4. AllSound(r, m, render_and_persist_proposal(i) \cup handle_no_proposal(i)) BY <1>1
<1> QED BY <1>2, <1>3, <1>4 DEF handle_proposing

LEMMA SideQuestionIsSound ==
  ASSUME NEW r \in TalkRow, NEW m \in Reading
  PROVE  OrPassed(r, m, When_(r.stage \in {"scoping", "pitching"}, maybe_handle_aside(m, r)))
<1>1. r.stage \in {"scoping", "pitching"} => AllSound(r, m, handle_equipment_ask(r))
  <2>1. r.stage \in {"scoping", "pitching"} => r.stage \in Stage /\ r.stage # "closing"
    BY DEF Stage
  <2> QED BY <2>1, QuestionsAreSound, RowsAreAnswers DEF handle_equipment_ask
<1>2. AllSound(r, m, handle_pricing(r)) BY PricingIsSound, RowsAreAnswers
<1>3. m.kind = "concept" => AllSound(r, m, answer_concept)
  BY AsidesAreSound DEF MayAside, AsideKind
<1>4. r.stage \in {"scoping", "pitching"} => OrPassed(r, m, maybe_handle_aside(m, r))
  BY <1>1, <1>2, <1>3, SoundMayPass DEF maybe_handle_aside
<1> QED BY <1>4, PassMayPass

LEMMA StageIsSound ==
  ASSUME NEW r \in TalkRow, WellPlaced(r), NEW m \in Reading,
         r.stage = "pitching" => m.kind \notin {"cancel", "service", "fresh"}
  PROVE  AllSound(r, m, HandleStage(m, r))
<1>1. r.stage \notin {"pitching", "proposing"} => MayAside(r, m)
  BY DEF WellPlaced, MayAside
<1>2. r.stage \notin {"scoping", "awaiting_time", "pitching"} => ~MustKeep(r)
  BY DEF MustKeep
<1>3. /\ AllSound(r, m, handle_awaiting_time(m, r)) /\ AllSound(r, m, handle_proposing(m, r))
      /\ AllSound(r, m, handle_closing(r)) /\ AllSound(r, m, Skip)
      /\ AllSound(r, m, handle_temporal_reply(m, r)) /\ AllSound(r, m, handle_pricing(r))
  BY AwaitingTimeIsSound, ProposingIsSound, ClosingIsSound, SkipIsSound,
     TemporalReplyIsSound, PricingIsSound, RowsAreAnswers DEF handle_closing
<1>4. r.stage = "pitching" => AllSound(r, m, handle_pitching(m, r)) BY PitchingIsSound
<1>5. r.stage \notin {"pitching", "proposing"} => AllSound(r, m, handle_scoping(m, r))
  BY <1>1, ScopingIsSound
<1>6. r.stage \notin {"scoping", "awaiting_time", "pitching", "proposing"} =>
        AllSound(r, m, handle_greeting(m))
  BY <1>1, <1>2, GreetingIsSound
<1>7. r.stage \notin {"scoping", "awaiting_time", "pitching", "proposing"} =>
        AllSound(r, m, handle_after_price(m, r))
  BY <1>3, <1>5, <1>6 DEF AllSound, handle_after_price
<1> QED BY <1>3, <1>4, <1>5, <1>6, <1>7 DEF HandleStage

LEMMA OnwardIsSound ==
  ASSUME NEW r \in TalkRow, WellPlaced(r), NEW m \in Reading,
         r.stage = "pitching" => m.kind \notin {"cancel", "service", "fresh"}
  PROVE  AllSound(r, m, Onward(m, r))
<1>1. /\ OrPassed(r, m, maybe_answer_price_and_availability(m, r))
      /\ OrPassed(r, m, When_(r.stage \in {"scoping", "pitching"}, maybe_handle_aside(m, r)))
      /\ AllSound(r, m, HandleStage(m, r))
  BY PriceWithSlotIsSound, SideQuestionIsSound, StageIsSound, RowsAreAnswers
<1>2. AllSound(r, m, OrElse(When_(r.stage \in {"scoping", "pitching"}, maybe_handle_aside(m, r)),
                            HandleStage(m, r)))
  BY <1>1, ElseIsSound
<1> QED BY <1>1, <1>2, ElseIsSound DEF Onward

\* Whatever a message is taken to say, what the turn does about it is sound.
LEMMA DispatchIsSound ==
  ASSUME NEW r \in TalkRow, WellPlaced(r), NEW m \in Message
  PROVE  AllSound(r, m, Dispatch(m, r))
<1>1. m \in Reading BY MessageAssumption
<1>2. /\ AllSound(r, m, handle_cancellation(r)) /\ AllSound(r, m, handle_service_selection(r))
      /\ AllSound(r, m, handle_temporal_reply(m, r))
  BY <1>1, CancellationIsSound, ServiceIsSound, TemporalReplyIsSound, RowsAreAnswers
<1>3. m.kind \in AsideKind =>
        /\ AllSound(r, m, handle_human_request) /\ AllSound(r, m, handle_out_of_scope)
        /\ AllSound(r, m, handle_capacity_question) /\ AllSound(r, m, handle_small_talk)
        /\ AllSound(r, m, handle_catalog_ask) /\ AllSound(r, m, answer_concept)
        /\ AllSound(r, m, handle_gibberish) /\ AllSound(r, m, handle_working_hours)
        /\ AllSound(r, m, handle_faq_defer)
  BY AsidesAreSound DEF MayAside
<1>4. /\ r.stage = "pitching" => m.kind \notin {"cancel", "service", "fresh"}
      => AllSound(r, m, Onward(m, r))
  BY <1>1, OnwardIsSound
<1>5. CASE m.kind \in {"cancel", "service"} \/ (m.kind = "fresh" /\ r.stage \in {"pitching", "closing"})
  BY <1>2, <1>5 DEF Dispatch, SmallTalk, IsShortTemporal
<1>6. CASE m.kind \in AsideKind \ {"mixed", "mismatch", "concept"}
  BY <1>3, <1>6 DEF Dispatch, AsideKind, SmallTalk, FaqKind, IsShortTemporal
<1>7. CASE /\ ~(m.kind \in {"cancel", "service"} \/ (m.kind = "fresh" /\ r.stage \in {"pitching", "closing"}))
           /\ m.kind \notin AsideKind \ {"mixed", "mismatch", "concept"}
  <2>1. AllSound(r, m, Onward(m, r)) BY <1>4, <1>7
  <2>2. AllSound(r, m, handle_temporal_reply(m, r)
                         \cup (IF HasTime(m.when) \/ m.window THEN Onward(m, r) ELSE {}))
    BY <1>2, <2>1 DEF AllSound
  <2>3. Dispatch(m, r) = IF IsShortTemporal(m) /\ r.stage \in {"scoping", "awaiting_time"}
          THEN handle_temporal_reply(m, r)
                 \cup (IF HasTime(m.when) \/ m.window THEN Onward(m, r) ELSE {})
          ELSE Onward(m, r)
    BY <1>7 DEF Dispatch, AsideKind, SmallTalk, FaqKind
  <2> QED BY <2>1, <2>2, <2>3
<1> QED BY <1>5, <1>6, <1>7
-----------------------------------------------------------------------------
(* The talk. *)

Rows == {r \in Row \cup {NoRow} : WellPlaced(r)}

SalesTypeOK ==
  /\ row \in Rows
  /\ step \in [Turn -> Step]
  /\ open \in [Turn -> SUBSET Rows] /\ answer \in [Turn -> SUBSET Outcomes]
  /\ nudge \in SUBSET Rows
  /\ due \in BOOLEAN /\ connected \in BOOLEAN /\ handed \in BOOLEAN /\ overlapped \in BOOLEAN
  /\ busy \in SUBSET Slot /\ live \in SUBSET Slot
  /\ agreed \in [Turn -> SUBSET Slot] /\ vacant \in [Turn -> SUBSET Slot]
  /\ reply \in [say : Saying, about : SUBSET Slot]
  /\ cut \in {"no", "unseen", "untold"}

Decided == {"writes", "answers"}

\* What a turn holds: the row it has read, then an outcome that is sound for it;
\* and it has seen the slots that are free now.
TurnHolds(t) ==
  /\ step[t] = "idle" => open[t] = {} /\ answer[t] = {}
  /\ step[t] = "reads" => answer[t] = {} /\ \E r \in Rows : open[t] = {r}
  /\ step[t] \in Decided =>
       \E r \in Rows, o \in Outcomes :
         /\ open[t] = {r} /\ answer[t] = {o} /\ Kept(r, o)
         /\ step[t] = "writes" => o.save # {}
         /\ o.say = "free" => o.about \subseteq vacant[t]
  /\ step[t] = "late" =>
       \E r \in Rows, o \in Outcomes :
         /\ open[t] = {r} /\ answer[t] = {o}
         /\ o.save = {} \/ \E p, new : o.save = {new} /\ SoundRow(r, p, new)
  /\ step[t] # "idle" => Slot \ busy \subseteq vacant[t]

\* A turn that has the talk for itself: no follow-up is scheduled, the row is as
\* it has read it, or, once it has stored it, as it has decided.
HasTheTalk(t) ==
  /\ nudge = {} /\ ~due /\ reply.say # "cancelled"
  /\ \A u \in Turn \ {t} : step[u] = "idle"
  /\ step[t] \in {"reads", "writes"} => open[t] = {row}
  /\ step[t] = "late" => \A o \in answer[t] : o.save # {} => open[t] = {row} /\ (o.person => handed)
  /\ step[t] = "answers" => \A o \in answer[t] :
       /\ o.save # {} => row \in o.save
       /\ o.save = {} /\ row.offer # NoSlot /\ cut = "no" => agreed[t] # {}
  /\ step[t] \in Decided => \A o \in answer[t] : o.say = "confirm" => o.about \subseteq agreed[t]

\* Until two handlers have overlapped, whoever works on the row has it alone.
OneAtATime ==
  ~overlapped =>
    /\ \A t \in Turn : step[t] # "idle" => HasTheTalk(t)
    /\ nudge \subseteq {row}

\* The offer that the row remembers is the one the customer may say yes to.
LiveOffer ==
  ~overlapped /\ row.offer # NoSlot /\ cut = "no" /\ (\A t \in Turn : ~Stored(t))
    => live = {row.offer}

SalesInv ==
  /\ SalesTypeOK /\ (\A t \in Turn : TurnHolds(t)) /\ OneAtATime
  /\ StageIsTrue /\ NoNudgeAfterCancelling /\ LiveOffer

LEMMA RowsOfTheTalk ==
  /\ Rows \subseteq TalkRow /\ \A r \in Rows : WellPlaced(r)
  /\ NoRow \in Rows /\ NoRow.offer = NoSlot /\ NoRow.stage = "none"
  /\ [NewRow EXCEPT !.stage = "proposing"] \in Rows
  /\ [NewRow EXCEPT !.stage = "proposing"].stage = "proposing"
<1>1. [NewRow EXCEPT !.stage = "proposing"] \in Row
      /\ [NewRow EXCEPT !.stage = "proposing"].stage = "proposing"
  BY NewRows DEF Row, Stage
<1>2. NoRow.offer = NoSlot /\ NoRow.stage = "none" BY DEF NoRow, NewRow
<1>3. Rows \subseteq TalkRow BY NewRows DEF Rows
<1> QED BY <1>1, <1>2, <1>3 DEF Rows, WellPlaced

\* A row that a turn stores is a row of the talk.
LEMMA StoredRows == \A r, o, new : SoundRow(r, o, new) => new \in Rows
BY DEF SoundRow, Rows

LEMMA InitTalk == Init => SalesInv
<1> SUFFICES ASSUME Init PROVE SalesInv
  OBVIOUS
<1>1. /\ row \in Rows /\ row.offer = NoSlot /\ row.stage \in {"none", "proposing"}
  BY RowsOfTheTalk, NewRows DEF Init, NewRow
<1>2. /\ reply \in [say : Saying, about : SUBSET Slot] /\ live \in SUBSET Slot
      /\ reply.say = "nothing"
  BY DEF Init, Silence, Saying
<1>3. /\ open = [t \in Turn |-> {}] /\ answer = [t \in Turn |-> {}]
      /\ step = [t \in Turn |-> "idle"] /\ agreed = [t \in Turn |-> {}]
      /\ vacant = [t \in Turn |-> {}] /\ nudge = {} /\ due = FALSE /\ connected \in BOOLEAN
      /\ handed = FALSE /\ overlapped = FALSE /\ busy \in SUBSET Slot /\ cut = "no"
  BY SlotAssumption DEF Init
<1>4. SalesTypeOK BY <1>1, <1>2, <1>3 DEF SalesTypeOK, Step
<1>5. \A t \in Turn : TurnHolds(t) BY <1>3 DEF TurnHolds, Decided
<1>6. OneAtATime BY <1>3 DEF OneAtATime
<1>7. StageIsTrue /\ LiveOffer BY <1>1 DEF StageIsTrue, LiveOffer
<1>8. NoNudgeAfterCancelling BY <1>2 DEF NoNudgeAfterCancelling
<1> QED BY <1>4, <1>5, <1>6, <1>7, <1>8 DEF SalesInv

-----------------------------------------------------------------------------
(* Steps of a turn. *)

\* Only the turn t moves, in a calendar that stays.
OnlyTurn(t) ==
  /\ busy' = busy
  /\ \A u \in Turn \ {t} : UNCHANGED <<step[u], open[u], answer[u], agreed[u], vacant[u]>>

LEMMA OthersHold ==
  ASSUME NEW t \in Turn, OnlyTurn(t), \A u \in Turn : TurnHolds(u)
  PROVE  \A u \in Turn \ {t} : TurnHolds(u)' /\ (Stored(u)' <=> Stored(u))
BY DEF OnlyTurn, TurnHolds, Stored

LEMMA LeaveIsIdle ==
  ASSUME SalesTypeOK, NEW t \in Turn, Leave(t), busy' = busy
  PROVE  /\ OnlyTurn(t) /\ step' \in [Turn -> Step] /\ step'[t] = "idle" /\ TurnHolds(t)'
         /\ open' \in [Turn -> SUBSET Rows] /\ answer' \in [Turn -> SUBSET Outcomes]
         /\ agreed' \in [Turn -> SUBSET Slot] /\ vacant' \in [Turn -> SUBSET Slot]
         /\ ~Stored(t)'
<1>1. /\ step' \in [Turn -> Step] /\ step'[t] = "idle"
      /\ \A u \in Turn \ {t} : step'[u] = step[u]
  BY DEF Leave, SalesTypeOK, Step
<1>2. /\ open' \in [Turn -> SUBSET Rows] /\ open'[t] = {}
      /\ \A u \in Turn \ {t} : open'[u] = open[u]
  BY DEF Leave, SalesTypeOK
<1>3. /\ answer' \in [Turn -> SUBSET Outcomes] /\ answer'[t] = {}
      /\ \A u \in Turn \ {t} : answer'[u] = answer[u]
  BY DEF Leave, SalesTypeOK
<1>4. /\ agreed' \in [Turn -> SUBSET Slot]
      /\ \A u \in Turn \ {t} : agreed'[u] = agreed[u]
  BY DEF Leave, SalesTypeOK
<1>5. /\ vacant' \in [Turn -> SUBSET Slot]
      /\ \A u \in Turn \ {t} : vacant'[u] = vacant[u]
  BY DEF Leave, SalesTypeOK
<1>6. TurnHolds(t)' /\ ~Stored(t)' BY <1>1, <1>2, <1>3 DEF TurnHolds, Decided, Stored
<1> QED BY <1>1, <1>2, <1>3, <1>4, <1>5, <1>6 DEF OnlyTurn

\* A turn that works alone and leaves: nobody works on the row.
LEMMA AloneThenIdle ==
  ASSUME SalesTypeOK, OneAtATime, NEW t \in Turn, step[t] # "idle", ~overlapped
  PROVE  /\ HasTheTalk(t) /\ \A u \in Turn \ {t} : step[u] = "idle" /\ ~Stored(u)
         /\ nudge = {} /\ ~due
BY DEF OneAtATime, HasTheTalk, Stored

LEMMA LeavesNobody ==
  ASSUME SalesTypeOK, OneAtATime, NEW t \in Turn, step[t] # "idle", Leave(t), busy' = busy,
         overlapped' = overlapped, nudge' = nudge
  PROVE  OneAtATime'
<1>1. ASSUME ~overlapped'
      PROVE  (\A u \in Turn : step'[u] = "idle") /\ nudge' = {}
  BY <1>1, AloneThenIdle, LeaveIsIdle DEF OnlyTurn
<1> QED BY <1>1 DEF OneAtATime

\* The outcome of a turn that has decided, and the row it has read.
LEMMA OneOutcome ==
  ASSUME NEW t \in Turn, TurnHolds(t), step[t] \in Decided \cup {"late"}, NEW o \in answer[t]
  PROVE  /\ answer[t] = {o} /\ o \in Outcomes
         /\ \E r \in Rows :
              /\ open[t] = {r}
              /\ o.save = {} \/ \E p, new : o.save = {new} /\ SoundRow(r, p, new)
              /\ step[t] \in Decided => /\ Kept(r, o)
                                        /\ step[t] = "writes" => o.save # {}
                                        /\ o.say = "free" => o.about \subseteq vacant[t]
         /\ Stored(t) <=> step[t] = "answers" /\ o.save # {}
BY DEF TurnHolds, Stored, Kept, Decided

LEMMA BeginTurnKeeps == ASSUME SalesInv, NEW t \in Turn, BeginTurn(t) PROVE SalesInv'
<1> USE DEF SalesInv
<1>1. /\ step[t] = "idle" /\ due' = FALSE /\ reply' = Silence
      /\ step' = [step EXCEPT ![t] = "reads"] /\ open' = [open EXCEPT ![t] = {row}]
      /\ vacant' = [vacant EXCEPT ![t] = Slot \ busy]
      /\ overlapped' = (overlapped \/ Busy(t))
      /\ UNCHANGED <<row, answer, nudge, busy, connected, live, agreed, cut, handed>>
  BY DEF BeginTurn
<1>2. /\ step'[t] = "reads" /\ open'[t] = {row} /\ answer'[t] = {} /\ vacant'[t] = Slot \ busy
      /\ OnlyTurn(t)
  BY <1>1 DEF SalesTypeOK, TurnHolds, OnlyTurn
<1>3. overlapped' \in BOOLEAN /\ (~overlapped' => ~overlapped /\ ~Busy(t))
  <2>1. Busy(t) \in BOOLEAN BY DEF Busy
  <2> QED BY <1>1, <2>1, Zenon DEF SalesTypeOK
<1>4. SalesTypeOK'
  <2>1. reply' \in [say : Saying, about : SUBSET Slot] BY <1>1 DEF Silence, Saying
  <2>2. /\ step' \in [Turn -> Step] /\ open' \in [Turn -> SUBSET Rows]
        /\ vacant' \in [Turn -> SUBSET Slot]
    BY <1>1 DEF SalesTypeOK, Step
  <2> QED BY <1>1, <1>3, <2>1, <2>2 DEF SalesTypeOK
<1>5. ASSUME NEW u \in Turn PROVE TurnHolds(u)'
  <2>1. TurnHolds(t)' BY <1>1, <1>2 DEF TurnHolds, Decided, SalesTypeOK
  <2> QED BY <1>2, <2>1, OthersHold
<1>6. ASSUME ~overlapped' PROVE nudge = {} /\ \A u \in Turn \ {t} : step[u] = "idle"
  BY <1>3, <1>6 DEF Busy
<1>7. OneAtATime'
  <2>1. ASSUME ~overlapped' PROVE HasTheTalk(t)'
    <3>1. reply'.say = "nothing" BY <1>1 DEF Silence
    <3>2. \A u \in Turn \ {t} : step'[u] = "idle" BY <1>2, <1>6, <2>1 DEF OnlyTurn
    <3> QED BY <1>1, <1>2, <1>6, <2>1, <3>1, <3>2 DEF HasTheTalk, Decided
  <2>2. ASSUME ~overlapped', NEW u \in Turn \ {t} PROVE step'[u] = "idle"
    BY <1>2, <1>6, <2>2 DEF OnlyTurn
  <2> QED BY <1>1, <1>6, <2>1, <2>2 DEF OneAtATime
<1>8. \A u \in Turn : Stored(u)' <=> Stored(u)
  BY <1>1, <1>2, OthersHold DEF Stored
<1>9. StageIsTrue' BY <1>1, <1>3, <1>8 DEF StageIsTrue
<1>10. NoNudgeAfterCancelling' BY <1>1 DEF NoNudgeAfterCancelling, Silence
<1>11. LiveOffer' BY <1>1, <1>3, <1>8 DEF LiveOffer
<1> QED BY <1>4, <1>5, <1>7, <1>9, <1>10, <1>11

\* What the turn decides is sound for the row it has read.
LEMMA DecidesSoundly ==
  ASSUME SalesInv, NEW t \in Turn, NEW m \in Message, Decide(t, m)
  PROVE  \E r \in Rows : \E o \in Dispatch(m, r) :
           /\ open[t] = {r} /\ Sound(r, m, o) /\ o \in Outcomes
           /\ answer' = [answer EXCEPT ![t] = {o}]
           /\ step' = [step EXCEPT ![t] = IF o.save = {} THEN "answers" ELSE "writes"]
           /\ agreed' = [agreed EXCEPT ![t] = Agreed(m, r, o)]
<1>1. PICK r \in Rows : open[t] = {r} BY DEF Decide, SalesInv, TurnHolds
<1>2. PICK o \in Dispatch(m, r) :
        /\ answer' = [answer EXCEPT ![t] = {o}]
        /\ step' = [step EXCEPT ![t] = IF o.save = {} THEN "answers" ELSE "writes"]
        /\ agreed' = [agreed EXCEPT ![t] = Agreed(m, r, o)]
  BY <1>1 DEF Decide
<1>3. Sound(r, m, o) BY RowsOfTheTalk, DispatchIsSound DEF AllSound
<1> QED BY <1>1, <1>2, <1>3 DEF Sound, Kept

\* A message answered as an aside gives nothing up.
LEMMA AsidesGiveNothingUp == \A r, m : m.kind \in AsideKind => ~Declines(m, r)
BY DEF Declines, AsideKind, SmallTalk, FaqKind

LEMMA DecideKeeps == ASSUME SalesInv, NEW t \in Turn, NEW m \in Message, Decide(t, m) PROVE SalesInv'
<1> USE DEF SalesInv
<1>1. /\ step[t] = "reads"
      /\ UNCHANGED <<row, open, nudge, due, busy, connected, reply, live, vacant, cut, handed,
                     overlapped>>
  BY DEF Decide
<1>0. PICK r \in Rows : \E o \in Dispatch(m, r) :
        /\ open[t] = {r} /\ Sound(r, m, o) /\ o \in Outcomes
        /\ answer' = [answer EXCEPT ![t] = {o}]
        /\ step' = [step EXCEPT ![t] = IF o.save = {} THEN "answers" ELSE "writes"]
        /\ agreed' = [agreed EXCEPT ![t] = Agreed(m, r, o)]
  BY DecidesSoundly
<1>2. PICK o \in Dispatch(m, r) :
        /\ open[t] = {r} /\ Sound(r, m, o) /\ o \in Outcomes
        /\ answer' = [answer EXCEPT ![t] = {o}]
        /\ step' = [step EXCEPT ![t] = IF o.save = {} THEN "answers" ELSE "writes"]
        /\ agreed' = [agreed EXCEPT ![t] = Agreed(m, r, o)]
  BY <1>0
<1>3. Kept(r, o) /\ (o.say = "free" => o.about \cap busy = {}) BY <1>2 DEF Sound
<1>4. /\ step'[t] = IF o.save = {} THEN "answers" ELSE "writes"
      /\ answer'[t] = {o} /\ agreed'[t] = Agreed(m, r, o)
      /\ OnlyTurn(t)
  BY <1>1, <1>2 DEF SalesTypeOK, OnlyTurn
<1>5. SalesTypeOK'
  <2>1. Agreed(m, r, o) \in SUBSET Slot
    <3>1. r.offer \in SlotOrNone BY RowsOfTheTalk DEF TalkRow
    <3> QED BY <3>1 DEF Agreed, SalesTypeOK, SlotOrNone
  <2>2. /\ step' \in [Turn -> Step] /\ answer' \in [Turn -> SUBSET Outcomes]
        /\ agreed' \in [Turn -> SUBSET Slot]
    BY <1>2, <2>1 DEF SalesTypeOK, Step
  <2> QED BY <1>1, <2>2 DEF SalesTypeOK
<1>6. ASSUME NEW u \in Turn PROVE TurnHolds(u)'
  <2>1. o.say = "free" => o.about \subseteq vacant[t]
    BY <1>1, <1>2, <1>3 DEF TurnHolds, Outcomes
  <2>2. TurnHolds(t)' BY <1>1, <1>2, <1>3, <1>4, <2>1 DEF TurnHolds, Decided
  <2> QED BY <1>4, <2>2, OthersHold
<1>7. \A u \in Turn : ~Stored(t) /\ (Stored(u)' <=> Stored(u))
  BY <1>1, <1>4, OthersHold DEF Stored
<1>8. OneAtATime'
  <2> SUFFICES ASSUME ~overlapped' PROVE OneAtATime'
    BY DEF OneAtATime
  <2>1. HasTheTalk(t) /\ r = row BY <1>1, <1>2 DEF OneAtATime, HasTheTalk
  <2>2. ASSUME o.say = "confirm" PROVE o.about \subseteq Agreed(m, r, o)
    <3>1. Agrees(r, m, o.about) BY <1>2, <2>2 DEF Sound
    <3>2. \A u \in Turn : ~Stored(u) BY <1>1, <2>1 DEF HasTheTalk, Stored
    <3>3. cut = "no" => live = {row.offer} BY <1>1, <2>1, <3>1, <3>2 DEF LiveOffer, Agrees
    <3> QED BY <2>1, <3>1, <3>3 DEF Agrees, Agreed
  <2>3. ASSUME o.save = {}, row.offer # NoSlot, cut = "no" PROVE Agreed(m, r, o) # {}
    <3>1. o.say # "nothing" => ~Declines(m, r)
      BY <1>2, <2>1, <2>3, AsidesGiveNothingUp DEF Sound, MayAside
    <3>2. \A u \in Turn : ~Stored(u) BY <1>1, <2>1 DEF HasTheTalk, Stored
    <3>3. live = {row.offer} BY <1>1, <2>3, <3>2 DEF LiveOffer
    <3> QED BY <3>1, <3>3 DEF Agreed
  <2>4. HasTheTalk(t)'
    <3>1. \A u \in Turn \ {t} : step'[u] = "idle" BY <1>4, <2>1 DEF HasTheTalk, OnlyTurn
    <3>2. step'[t] \in {"answers", "writes"} /\ (step'[t] = "answers" => o.save = {})
      BY <1>4
    <3> QED BY <1>1, <1>2, <1>4, <2>1, <2>2, <2>3, <3>1, <3>2 DEF HasTheTalk, Decided
  <2>5. \A u \in Turn \ {t} : step'[u] = "idle" BY <2>4 DEF HasTheTalk
  <2> QED BY <1>1, <2>4, <2>5 DEF OneAtATime
<1>9. StageIsTrue' BY <1>1, <1>7 DEF StageIsTrue
<1>10. NoNudgeAfterCancelling' BY <1>1 DEF NoNudgeAfterCancelling
<1>11. LiveOffer' BY <1>1, <1>7 DEF LiveOffer
<1> QED BY <1>5, <1>6, <1>8, <1>9, <1>10, <1>11

LEMMA SaveRowKeeps == ASSUME SalesInv, NEW t \in Turn, SaveRow(t) PROVE SalesInv'
<1> USE DEF SalesInv
<1>1. /\ step[t] = "writes" /\ step' = [step EXCEPT ![t] = "answers"] /\ cut' = "no"
      /\ UNCHANGED <<open, answer, nudge, due, busy, connected, reply, live, agreed, vacant,
                     overlapped>>
  BY DEF SaveRow
<1>2. PICK o \in answer[t] :
        /\ row' \in o.save
        /\ handed' = (handed /\ o.say # "offer" /\ row'.stage \notin {"scoping", "awaiting_time"})
  BY DEF SaveRow
<1>3. PICK r \in Rows : /\ open[t] = {r} /\ answer[t] = {o} /\ Kept(r, o)
                        /\ SoundRow(r, o, row')
                        /\ o.say = "free" => o.about \subseteq vacant[t]
  BY <1>1, <1>2, OneOutcome DEF Decided, Kept
<1>4. step'[t] = "answers" /\ OnlyTurn(t) BY <1>1 DEF SalesTypeOK, OnlyTurn
<1>5. SalesTypeOK'
  <2>1. row' \in Rows /\ step' \in [Turn -> Step]
    BY <1>1, <1>3, StoredRows DEF SalesTypeOK, Step
  <2>2. handed' \in BOOLEAN BY <1>2, Zenon DEF SalesTypeOK
  <2> QED BY <1>1, <2>1, <2>2 DEF SalesTypeOK
<1>6. ASSUME NEW u \in Turn PROVE TurnHolds(u)'
  <2>1. TurnHolds(t)' BY <1>1, <1>2, <1>3, <1>4 DEF TurnHolds, Decided, SalesTypeOK, Kept
  <2> QED BY <1>4, <2>1, OthersHold
<1>7. Stored(t)' BY <1>1, <1>2, <1>4 DEF Stored
<1>8. OneAtATime'
  <2> SUFFICES ASSUME ~overlapped' PROVE OneAtATime'
    BY DEF OneAtATime
  <2>1. HasTheTalk(t) BY <1>1 DEF OneAtATime
  <2>2. \A u \in Turn \ {t} : step'[u] = "idle" BY <1>4, <2>1 DEF HasTheTalk, OnlyTurn
  <2>3. HasTheTalk(t)' BY <1>1, <1>2, <1>3, <1>4, <2>1, <2>2 DEF HasTheTalk, Decided
  <2>4. nudge = {} BY <2>1 DEF HasTheTalk
  <2> QED BY <1>1, <2>2, <2>3, <2>4 DEF OneAtATime
<1>9. StageIsTrue' BY <1>3, <1>7 DEF StageIsTrue, SoundRow, WellPlaced
<1>10. NoNudgeAfterCancelling' BY <1>1 DEF NoNudgeAfterCancelling
<1>11. LiveOffer' BY <1>7 DEF LiveOffer
<1> QED BY <1>5, <1>6, <1>8, <1>9, <1>10, <1>11

LEMMA EndTurnKeeps == ASSUME SalesInv, NEW t \in Turn, EndTurn(t) PROVE SalesInv'
<1> USE DEF SalesInv
<1>1. /\ step[t] = "answers" /\ Leave(t) /\ UNCHANGED <<row, nudge, busy, connected, overlapped>>
  BY DEF EndTurn
<1>2. PICK o \in answer[t], told \in BOOLEAN :
        /\ due' = (due \/ o.follow)
        /\ reply' = [say |-> o.say, about |-> o.about]
        /\ live' = IF o.say = "offer" THEN o.about
                   ELSE IF o.say = "confirm" \/ agreed[t] = {} THEN {} ELSE live
        /\ handed' = (handed \/ (o.person /\ told))
        /\ cut' = IF Stored(t) /\ o.person /\ ~told THEN "untold" ELSE cut
  BY Zenon DEF EndTurn
<1>3. PICK r \in Rows : open[t] = {r} /\ Kept(r, o) BY <1>1, OneOutcome DEF Decided
<1>4. o \in Outcomes /\ answer[t] = {o} /\ (Stored(t) <=> o.save # {})
  BY <1>1, OneOutcome DEF Decided
<1>5. /\ OnlyTurn(t) /\ ~Stored(t)' /\ TurnHolds(t)'
      /\ \A u \in Turn \ {t} : TurnHolds(u)' /\ (Stored(u)' <=> Stored(u))
  BY <1>1, LeaveIsIdle, OthersHold
<1>6. SalesTypeOK'
  <2>1. /\ reply' \in [say : Saying, about : SUBSET Slot] /\ live' \in SUBSET Slot
        /\ cut' \in {"no", "unseen", "untold"}
    BY <1>2, <1>4 DEF SalesTypeOK, Outcomes
  <2>2. o.follow \in BOOLEAN /\ o.person \in BOOLEAN BY <1>4 DEF Outcomes
  <2>3. due' \in BOOLEAN BY <1>2, <2>2, Zenon DEF SalesTypeOK
  <2>4. handed' \in BOOLEAN BY <1>2, <2>2, Zenon DEF SalesTypeOK
  <2> QED BY <1>1, <2>1, <2>3, <2>4, LeaveIsIdle DEF SalesTypeOK
<1>7. OneAtATime' BY <1>1, LeavesNobody
<1>8. ASSUME ~overlapped
      PROVE  /\ HasTheTalk(t) /\ nudge = {} /\ ~due
             /\ \A u \in Turn \ {t} : ~Stored(u)
  BY <1>1, <1>8, AloneThenIdle
<1>9. StageIsTrue'
  <2>1. row.offer # NoSlot => row.stage \in {"pitching", "proposing"} BY DEF StageIsTrue
  <2>2. ASSUME row.stage = "closing", ~overlapped, cut' # "untold" PROVE handed'
    <3>1. CASE o.save = {}
      <4>1. handed BY <1>2, <1>4, <1>8, <2>2, <3>1 DEF StageIsTrue
      <4> QED BY <1>2, <4>1
    <3>2. CASE o.save # {}
      <4>1. SoundRow(r, o, row) BY <1>1, <1>3, <1>4, <1>8, <2>2, <3>2 DEF Kept, HasTheTalk
      <4>2. o.person BY <2>2, <4>1 DEF SoundRow
      <4> QED BY <1>2, <1>4, <2>2, <3>2, <4>2
    <3> QED BY <3>1, <3>2
  <2> QED BY <1>1, <2>1, <2>2 DEF StageIsTrue
<1>10. NoNudgeAfterCancelling'
  <2>1. reply'.say = "cancelled" => ~o.follow BY <1>2, <1>3 DEF Kept
  <2> QED BY <1>1, <1>2, <1>8, <2>1 DEF NoNudgeAfterCancelling
<1>11. LiveOffer'
  <2> SUFFICES ASSUME ~overlapped, row.offer # NoSlot, cut' = "no" PROVE live' = {row.offer}
    BY <1>1 DEF LiveOffer
  <2>1. CASE o.save = {}
    <3>1. o.say \notin {"offer", "confirm"} BY <1>3, <2>1 DEF Kept
    <3>2. cut = "no" /\ \A u \in Turn : ~Stored(u) BY <1>2, <1>4, <1>8, <2>1
    <3>3. agreed[t] # {} BY <1>1, <1>4, <1>8, <2>1, <3>2 DEF HasTheTalk
    <3> QED BY <1>2, <3>1, <3>2, <3>3 DEF LiveOffer
  <2>2. CASE o.save # {}
    <3>1. SoundRow(r, o, row) BY <1>1, <1>3, <1>4, <1>8, <2>2 DEF Kept, HasTheTalk
    <3> QED BY <1>2, <3>1 DEF SoundRow
  <2> QED BY <2>1, <2>2
<1> QED BY <1>5, <1>6, <1>7, <1>9, <1>10, <1>11

LEMMA ReplyIsLostKeeps == ASSUME SalesInv, NEW t \in Turn, ReplyIsLost(t) PROVE SalesInv'
<1> USE DEF SalesInv
<1>1. /\ step[t] = "answers" /\ Leave(t)
      /\ UNCHANGED <<row, nudge, busy, connected, reply, live, overlapped>>
  BY DEF ReplyIsLost
<1>2. PICK o \in answer[t], told \in BOOLEAN :
        /\ due' = (due \/ o.follow)
        /\ handed' = (handed \/ (o.person /\ told))
        /\ cut' = IF ~Stored(t) THEN cut
                  ELSE IF o.person /\ ~told THEN "untold" ELSE "unseen"
  BY Zenon DEF ReplyIsLost
<1>3. PICK r \in Rows : open[t] = {r} /\ Kept(r, o) BY <1>1, OneOutcome DEF Decided
<1>4. o \in Outcomes /\ answer[t] = {o} /\ (Stored(t) <=> o.save # {})
  BY <1>1, OneOutcome DEF Decided
<1>5. /\ OnlyTurn(t) /\ ~Stored(t)' /\ TurnHolds(t)'
      /\ \A u \in Turn \ {t} : TurnHolds(u)' /\ (Stored(u)' <=> Stored(u))
  BY <1>1, LeaveIsIdle, OthersHold
<1>6. SalesTypeOK'
  <2>1. o.follow \in BOOLEAN /\ o.person \in BOOLEAN BY <1>4 DEF Outcomes
  <2>2. due' \in BOOLEAN BY <1>2, <2>1, Zenon DEF SalesTypeOK
  <2>3. handed' \in BOOLEAN BY <1>2, <2>1, Zenon DEF SalesTypeOK
  <2>4. cut' \in {"no", "unseen", "untold"} BY <1>2 DEF SalesTypeOK
  <2> QED BY <1>1, <2>2, <2>3, <2>4, LeaveIsIdle DEF SalesTypeOK
<1>7. OneAtATime' BY <1>1, LeavesNobody
<1>8. ASSUME ~overlapped
      PROVE  HasTheTalk(t) /\ \A u \in Turn \ {t} : ~Stored(u)
  BY <1>1, <1>8, AloneThenIdle
<1>9. StageIsTrue'
  <2>1. row.offer # NoSlot => row.stage \in {"pitching", "proposing"} BY DEF StageIsTrue
  <2>2. ASSUME row.stage = "closing", ~overlapped, cut' # "untold" PROVE handed'
    <3>1. CASE o.save = {}
      <4>1. handed BY <1>1, <1>2, <1>4, <1>8, <2>2, <3>1 DEF StageIsTrue
      <4> QED BY <1>2, <4>1
    <3>2. CASE o.save # {}
      <4>1. SoundRow(r, o, row) BY <1>1, <1>3, <1>4, <1>8, <2>2, <3>2 DEF Kept, HasTheTalk
      <4>2. o.person BY <2>2, <4>1 DEF SoundRow
      <4> QED BY <1>2, <1>4, <2>2, <3>2, <4>2
    <3> QED BY <3>1, <3>2
  <2> QED BY <1>1, <2>1, <2>2 DEF StageIsTrue
<1>10. NoNudgeAfterCancelling' BY <1>1, <1>8 DEF NoNudgeAfterCancelling, HasTheTalk
<1>11. LiveOffer' BY <1>1, <1>2, <1>4, <1>8 DEF LiveOffer
<1> QED BY <1>5, <1>6, <1>7, <1>9, <1>10, <1>11

\* A turn that is out of time may go on writing what it had begun to write.
LEMMA TimesOutKeeps == ASSUME SalesInv, NEW t \in Turn, TimesOut(t) PROVE SalesInv'
<1> USE DEF SalesInv
<1>1. /\ step[t] \in {"reads", "writes", "answers"}
      /\ reply' = [say |-> "text", about |-> {}]
      /\ UNCHANGED <<row, nudge, due, busy, connected, live, overlapped>>
  BY DEF TimesOut
<1>2. PICK told \in BOOLEAN :
        /\ handed' = (handed \/ told)
        /\ cut' = IF ~Stored(t) THEN cut ELSE IF told THEN "unseen" ELSE "untold"
        /\ \/ Leave(t)
           \/ /\ \E o \in answer[t] :
                   \/ /\ step[t] = "writes"
                      /\ answer' = [answer EXCEPT ![t] =
                                      {[o EXCEPT !.person = told, !.follow = FALSE]}]
                   \/ /\ step[t] = "answers" /\ o.follow
                      /\ answer' = [answer EXCEPT ![t] =
                                      {[o EXCEPT !.person = told, !.save = {}]}]
              /\ step' = [step EXCEPT ![t] = "late"]
              /\ UNCHANGED <<open, agreed, vacant>>
  BY Zenon DEF TimesOut
<1>3. /\ reply' \in [say : Saying, about : SUBSET Slot] /\ reply'.say = "text"
      /\ cut' \in {"no", "unseen", "untold"}
  BY <1>1, <1>2 DEF Saying, SalesTypeOK
<1>4. handed' \in BOOLEAN BY <1>2, Zenon DEF SalesTypeOK
<1>5. NoNudgeAfterCancelling' BY <1>3 DEF NoNudgeAfterCancelling
<1>6. ASSUME \A u \in Turn \ {t} : Stored(u)' <=> Stored(u)
      PROVE  StageIsTrue' /\ LiveOffer'
  <2>1. CASE Stored(t) BY <1>1, <1>2, <1>6, <2>1 DEF StageIsTrue, LiveOffer
  <2>2. CASE ~Stored(t)
    <3>1. cut' = cut /\ (handed => handed') BY <1>2, <2>2
    <3> QED BY <1>1, <1>6, <2>2, <3>1 DEF StageIsTrue, LiveOffer
  <2> QED BY <2>1, <2>2
<1>7. CASE Leave(t)
  <2>1. /\ OnlyTurn(t) /\ TurnHolds(t)'
        /\ \A u \in Turn \ {t} : TurnHolds(u)' /\ (Stored(u)' <=> Stored(u))
    BY <1>1, <1>7, LeaveIsIdle, OthersHold
  <2>2. SalesTypeOK' BY <1>1, <1>3, <1>4, <1>7, LeaveIsIdle DEF SalesTypeOK
  <2>3. OneAtATime' BY <1>1, <1>7, LeavesNobody
  <2> QED BY <1>5, <1>6, <2>1, <2>2, <2>3
<1>8. CASE ~Leave(t)
  <2>1. PICK o \in answer[t] :
          /\ \/ /\ step[t] = "writes"
                /\ answer' = [answer EXCEPT ![t] =
                                {[o EXCEPT !.person = told, !.follow = FALSE]}]
             \/ /\ step[t] = "answers"
                /\ answer' = [answer EXCEPT ![t] =
                                {[o EXCEPT !.person = told, !.save = {}]}]
          /\ step' = [step EXCEPT ![t] = "late"]
          /\ UNCHANGED <<open, agreed, vacant>>
    BY <1>2, <1>8
  <2>2. PICK p : /\ answer' = [answer EXCEPT ![t] = {p}]
                 /\ \/ step[t] = "writes" /\ p = [o EXCEPT !.person = told, !.follow = FALSE]
                    \/ step[t] = "answers" /\ p = [o EXCEPT !.person = told, !.save = {}]
    BY <2>1
  <2>3. step[t] \in Decided BY <2>1 DEF Decided
  <2>4. PICK r \in Rows : /\ open[t] = {r} /\ Kept(r, o) BY <2>3, OneOutcome
  <2>5. p \in Outcomes BY <2>2, <2>4 DEF Kept, Outcomes
  <2>6. /\ p.person = told
        /\ step[t] = "writes" => p.save = o.save
        /\ step[t] = "answers" => p.save = {}
    BY <2>2, <2>4 DEF Kept, Outcomes
  <2>7. step'[t] = "late" /\ answer'[t] = {p} /\ OnlyTurn(t)
    BY <1>1, <2>1, <2>2 DEF SalesTypeOK, OnlyTurn
  <2>8. p.save = {} \/ \E q, new : p.save = {new} /\ SoundRow(r, q, new)
    BY <2>3, <2>4, <2>6 DEF Kept, Decided
  <2>9. TurnHolds(t)' BY <1>1, <2>1, <2>3, <2>4, <2>5, <2>7, <2>8 DEF TurnHolds, Decided
  <2>10. \A u \in Turn \ {t} : TurnHolds(u)' /\ (Stored(u)' <=> Stored(u))
    BY <2>7, OthersHold
  <2>11. SalesTypeOK'
    <3>1. step' \in [Turn -> Step] /\ answer' \in [Turn -> SUBSET Outcomes]
      BY <2>1, <2>2, <2>5 DEF SalesTypeOK, Step
    <3> QED BY <1>1, <1>3, <1>4, <2>1, <3>1 DEF SalesTypeOK
  <2>12. OneAtATime'
    <3> SUFFICES ASSUME ~overlapped PROVE OneAtATime'
      BY <1>1 DEF OneAtATime
    <3>1. HasTheTalk(t) /\ nudge = {} BY <1>1, AloneThenIdle
    <3>2. \A u \in Turn \ {t} : step'[u] = "idle" BY <2>7, <3>1 DEF HasTheTalk, OnlyTurn
    <3>3. p.save # {} => open'[t] = {row'} /\ (p.person => handed')
      BY <1>1, <1>2, <2>1, <2>6, <3>1 DEF HasTheTalk, Decided
    <3>4. HasTheTalk(t)'
      BY <1>1, <1>3, <2>7, <3>1, <3>2, <3>3 DEF HasTheTalk, Decided
    <3> QED BY <1>1, <3>1, <3>2, <3>4 DEF OneAtATime
  <2> QED BY <1>5, <1>6, <2>9, <2>10, <2>11, <2>12
<1> QED BY <1>7, <1>8

LEMMA LateWriteKeeps == ASSUME SalesInv, NEW t \in Turn, LateWrite(t) PROVE SalesInv'
<1> USE DEF SalesInv
<1>1. /\ step[t] = "late" /\ Leave(t)
      /\ UNCHANGED <<nudge, busy, connected, reply, live, handed, overlapped>>
  BY DEF LateWrite
<1>2. PICK o \in answer[t] : /\ row' \in IF o.save = {} THEN {row} ELSE o.save
                             /\ due' = (due \/ o.follow)
                             /\ cut' = IF o.save = {} THEN cut
                                       ELSE IF o.person THEN "unseen" ELSE "untold"
  BY DEF LateWrite
<1>3. /\ o \in Outcomes /\ answer[t] = {o}
      /\ \E r \in Rows : o.save = {} \/ \E p, new : o.save = {new} /\ SoundRow(r, p, new)
  BY <1>1, OneOutcome
<1>4. /\ OnlyTurn(t) /\ ~Stored(t)' /\ ~Stored(t) /\ TurnHolds(t)'
      /\ \A u \in Turn \ {t} : TurnHolds(u)' /\ (Stored(u)' <=> Stored(u))
  BY <1>1, LeaveIsIdle, OthersHold DEF Stored
<1>5. row' \in Rows BY <1>2, <1>3, StoredRows DEF SalesTypeOK
<1>6. SalesTypeOK'
  <2>1. o.follow \in BOOLEAN BY <1>3 DEF Outcomes
  <2>2. due' \in BOOLEAN BY <1>2, <2>1, Zenon DEF SalesTypeOK
  <2>3. cut' \in {"no", "unseen", "untold"} BY <1>2 DEF SalesTypeOK
  <2> QED BY <1>1, <1>5, <2>2, <2>3, LeaveIsIdle DEF SalesTypeOK
<1>7. OneAtATime' BY <1>1, LeavesNobody
<1>8. ~overlapped => HasTheTalk(t) BY <1>1, AloneThenIdle
<1>9. StageIsTrue'
  <2>1. row'.offer # NoSlot => row'.stage \in {"pitching", "proposing"}
    BY <1>5 DEF Rows, WellPlaced
  <2>2. CASE o.save = {} BY <1>1, <1>2, <1>4, <2>2 DEF StageIsTrue
  <2>3. CASE o.save # {}
    <3>1. ~overlapped /\ o.person => handed BY <1>1, <1>3, <1>8, <2>3 DEF HasTheTalk
    <3> QED BY <1>1, <1>2, <2>1, <2>3, <3>1 DEF StageIsTrue
  <2> QED BY <2>2, <2>3
<1>10. NoNudgeAfterCancelling' BY <1>1, <1>8 DEF NoNudgeAfterCancelling, HasTheTalk
<1>11. LiveOffer' BY <1>1, <1>2, <1>4 DEF LiveOffer
<1> QED BY <1>4, <1>6, <1>7, <1>9, <1>10, <1>11

-----------------------------------------------------------------------------
(* The other steps. *)

LEMMA CrashKeeps == ASSUME SalesInv, Crash PROVE SalesInv'
<1> USE DEF SalesInv
<1>1. /\ cut' = IF \E t \in Turn : Stored(t) THEN "untold" ELSE cut
      /\ step' = Idle /\ open' = [t \in Turn |-> {}] /\ answer' = [t \in Turn |-> {}]
      /\ agreed' = [t \in Turn |-> {}] /\ vacant' = [t \in Turn |-> {}] /\ nudge' = {}
      /\ UNCHANGED <<row, busy, connected, reply, live, handed, overlapped>>
  BY DEF Crash
<1>2. \/ UNCHANGED due
      \/ due' = TRUE /\ \E t \in Turn : step[t] = "answers"
  BY DEF Crash
<1>3. \A t \in Turn : step'[t] = "idle" /\ ~Stored(t)' BY <1>1 DEF Idle, Stored
<1>4. SalesTypeOK' BY <1>1, <1>2 DEF SalesTypeOK, Idle, Step
<1>5. \A t \in Turn : TurnHolds(t)' BY <1>1, <1>3 DEF TurnHolds, Decided
<1>6. OneAtATime' BY <1>1, <1>3 DEF OneAtATime
<1>7. StageIsTrue' BY <1>1 DEF StageIsTrue
<1>8. NoNudgeAfterCancelling'
  <2>1. ~overlapped /\ (\E t \in Turn : step[t] = "answers") => reply.say # "cancelled"
    BY DEF OneAtATime, HasTheTalk
  <2> QED BY <1>1, <1>2, <2>1 DEF NoNudgeAfterCancelling
<1>9. LiveOffer' BY <1>1 DEF LiveOffer
<1> QED BY <1>4, <1>5, <1>6, <1>7, <1>8, <1>9

LEMMA StartNudgeKeeps == ASSUME SalesInv, StartNudge PROVE SalesInv'
<1> USE DEF SalesInv
<1>1. /\ due /\ nudge = {} /\ nudge' = {row} /\ due' = FALSE
      /\ overlapped' = (overlapped \/ step # Idle)
      /\ UNCHANGED <<row, step, open, answer, busy, connected, reply, live, agreed, vacant, cut,
                     handed>>
  BY DEF StartNudge, turns
<1>2. overlapped' \in BOOLEAN /\ (~overlapped' => ~overlapped /\ step = Idle)
  BY <1>1, Zenon DEF SalesTypeOK
<1>3. SalesTypeOK' BY <1>1, <1>2 DEF SalesTypeOK
<1>4. \A t \in Turn : TurnHolds(t)' /\ (Stored(t)' <=> Stored(t)) BY <1>1 DEF TurnHolds, Stored
<1>5. OneAtATime' BY <1>1, <1>2 DEF OneAtATime, Idle
<1>6. StageIsTrue' BY <1>1, <1>2, <1>4 DEF StageIsTrue
<1>7. NoNudgeAfterCancelling' BY <1>1, <1>2 DEF NoNudgeAfterCancelling
<1>8. LiveOffer' BY <1>1, <1>2, <1>4 DEF LiveOffer
<1> QED BY <1>3, <1>4, <1>5, <1>6, <1>7, <1>8

\* A nudge saves the row it has read, without the offer.
LEMMA EndNudgeSaves ==
  ASSUME SalesInv, EndNudge
  PROVE  \E r \in nudge :
           /\ row' \in Rows /\ row'.offer = NoSlot /\ row'.count = r.count
           /\ row'.stage = "closing" => r.stage = "closing"
<1>1. PICK r \in nudge : row' = [r EXCEPT !.offer = NoSlot,
                                         !.stage = IF @ = "none" THEN "scoping" ELSE @]
  BY DEF EndNudge
<1>2. r \in Rows /\ r \in TalkRow BY RowsOfTheTalk DEF SalesInv, SalesTypeOK
<1>3. PICK stage : stage = IF r.stage = "none" THEN "scoping" ELSE r.stage
  OBVIOUS
<1>4. row' = [r EXCEPT !.offer = NoSlot, !.stage = stage] BY <1>1, <1>3
<1>5. stage \in Stage /\ (stage = "closing" => r.stage = "closing")
  BY <1>2, <1>3 DEF TalkRow, Stage
<1>6. row' \in Row /\ row'.stage = stage /\ row'.offer = NoSlot /\ row'.count = r.count
  BY <1>2, <1>4, <1>5 DEF TalkRow, Row
<1> QED BY <1>5, <1>6 DEF Rows, WellPlaced

LEMMA EndNudgeKeeps == ASSUME SalesInv, EndNudge PROVE SalesInv'
<1> USE DEF SalesInv
<1>1. PICK r \in nudge : /\ row' \in Rows /\ row'.offer = NoSlot
                         /\ row'.stage = "closing" => r.stage = "closing"
  BY EndNudgeSaves
<1>2. /\ nudge' = {} /\ reply' = [say |-> "text", about |-> {}]
      /\ UNCHANGED <<step, open, answer, due, busy, connected, vacant, live, agreed, cut, handed,
                     overlapped>>
  BY DEF EndNudge, turns, ghosts
<1>3. ~overlapped => r = row /\ \A t \in Turn : step[t] = "idle"
  BY DEF OneAtATime, HasTheTalk
<1>4. SalesTypeOK' BY <1>1, <1>2 DEF SalesTypeOK, Saying
<1>5. \A t \in Turn : TurnHolds(t)' /\ (Stored(t)' <=> Stored(t)) BY <1>2 DEF TurnHolds, Stored
<1>6. OneAtATime' BY <1>2, <1>3 DEF OneAtATime
<1>7. StageIsTrue' BY <1>1, <1>2, <1>3, <1>5 DEF StageIsTrue
<1>8. NoNudgeAfterCancelling' BY <1>2 DEF NoNudgeAfterCancelling
<1>9. LiveOffer' BY <1>1 DEF LiveOffer
<1> QED BY <1>4, <1>5, <1>6, <1>7, <1>8, <1>9

LEMMA NudgeFailsKeeps == ASSUME SalesInv, NudgeFails PROVE SalesInv'
<1> USE DEF SalesInv
<1>1. /\ nudge' = {}
      /\ UNCHANGED <<row, step, open, answer, due, busy, connected, reply, vacant, live, agreed,
                     cut, handed, overlapped>>
  BY DEF NudgeFails, turns, ghosts
<1>2. SalesTypeOK' BY <1>1 DEF SalesTypeOK
<1>3. \A t \in Turn : TurnHolds(t)' /\ (Stored(t)' <=> Stored(t)) BY <1>1 DEF TurnHolds, Stored
<1>4. OneAtATime' BY <1>1 DEF OneAtATime, HasTheTalk
<1>5. StageIsTrue' /\ LiveOffer' BY <1>1, <1>3 DEF StageIsTrue, LiveOffer
<1>6. NoNudgeAfterCancelling' BY <1>1 DEF NoNudgeAfterCancelling
<1> QED BY <1>2, <1>3, <1>4, <1>5, <1>6

LEMMA CalendarKeeps == ASSUME SalesInv, CalendarChanges PROVE SalesInv'
<1> USE DEF SalesInv
<1>1. /\ busy' \in SUBSET Slot
      /\ vacant' = [t \in Turn |-> IF step[t] = "idle" THEN {} ELSE vacant[t] \cup (Slot \ busy')]
      /\ UNCHANGED <<row, step, open, answer, nudge, due, connected, reply, live, agreed, cut,
                     handed, overlapped>>
  BY SlotAssumption DEF CalendarChanges, turns, ghosts, SalesTypeOK
<1>2. vacant' \in [Turn -> SUBSET Slot]
  <2>1. \A t \in Turn : vacant[t] \in SUBSET Slot BY DEF SalesTypeOK
  <2> QED BY <1>1, <2>1
<1>3. SalesTypeOK' BY <1>1, <1>2 DEF SalesTypeOK
<1>4. ASSUME NEW t \in Turn PROVE TurnHolds(t)' /\ (Stored(t)' <=> Stored(t))
  <2>1. step[t] # "idle" => vacant[t] \subseteq vacant'[t] /\ Slot \ busy' \subseteq vacant'[t]
    BY <1>1
  <2>2. TurnHolds(t)
    OBVIOUS
  <2> QED BY <1>1, <2>1, <2>2 DEF TurnHolds, Stored, Decided
<1>5. OneAtATime' BY <1>1 DEF OneAtATime, HasTheTalk
<1>6. StageIsTrue' /\ LiveOffer' BY <1>1, <1>4 DEF StageIsTrue, LiveOffer
<1>7. NoNudgeAfterCancelling' BY <1>1 DEF NoNudgeAfterCancelling
<1> QED BY <1>3, <1>4, <1>5, <1>6, <1>7

LEMMA TalkMoves == ASSUME SalesInv, Next PROVE SalesInv'
BY BeginTurnKeeps, DecideKeeps, SaveRowKeeps, EndTurnKeeps, ReplyIsLostKeeps, TimesOutKeeps,
   LateWriteKeeps, CrashKeeps, StartNudgeKeeps, EndNudgeKeeps, NudgeFailsKeeps, CalendarKeeps
   DEF Next

LEMMA TalkStutters == ASSUME SalesInv, UNCHANGED vars PROVE SalesInv'
<1>1. UNCHANGED <<row, step, open, answer, nudge, due, busy, connected, reply, live, agreed,
                  vacant, cut, handed, overlapped>>
  BY DEF vars
<1>2. SalesTypeOK' BY <1>1 DEF SalesInv, SalesTypeOK
<1>3. \A t \in Turn : TurnHolds(t)' /\ (Stored(t)' <=> Stored(t))
  BY <1>1 DEF SalesInv, TurnHolds, Stored
<1>4. OneAtATime' BY <1>1 DEF SalesInv, OneAtATime, HasTheTalk
<1>5. StageIsTrue' /\ LiveOffer' BY <1>1, <1>3 DEF SalesInv, StageIsTrue, LiveOffer
<1>6. NoNudgeAfterCancelling' BY <1>1 DEF SalesInv, NoNudgeAfterCancelling
<1> QED BY <1>2, <1>3, <1>4, <1>5, <1>6 DEF SalesInv

-----------------------------------------------------------------------------
(* What the talk promises. *)

\* Every row that the persona has stored, and every outcome it has decided on, is
\* sound for the row it was decided from, whatever the customer writes and the
\* model and the calendar answer, and wherever a turn is cut off.
THEOREM TalkInvariant == Spec => []SalesInv
BY InitTalk, TalkMoves, TalkStutters, PTL DEF Spec

\* Once no turn is between storing its row and answering, a talk that is closed has
\* a person who knows of it, unless the api died or the ticket was lost in between;
\* an offer is only remembered where its answer is awaited: _persist of the sales
\* persona, the tickets that follow it and the timeout of the pipeline.
THEOREM StageStaysTrue == Spec => []StageIsTrue
<1>1. SalesInv => StageIsTrue BY DEF SalesInv
<1> QED BY <1>1, TalkInvariant, PTL

\* Nobody who has cancelled is nudged: _handle_cancellation schedules nothing and
\* the turn dropped what was scheduled.
THEOREM CancelledIsLeftAlone == Spec => []NoNudgeAfterCancelling
<1>1. SalesInv => NoNudgeAfterCancelling BY DEF SalesInv
<1> QED BY <1>1, TalkInvariant, PTL

\* The outcome that a turn answers with.
LEMMA AnswersSoundly ==
  ASSUME SalesInv, NEW t \in Turn, EndTurn(t)
  PROVE  \E o \in answer[t] :
           /\ reply' = [say |-> o.say, about |-> o.about]
           /\ o.say = "free" => o.about \subseteq vacant[t]
           /\ o.say = "confirm" /\ ~overlapped => o.about \subseteq agreed[t]
<1>1. PICK o \in answer[t] : reply' = [say |-> o.say, about |-> o.about] BY DEF EndTurn
<1>2. step[t] = "answers" BY DEF EndTurn
<1>3. o.say = "free" => o.about \subseteq vacant[t] BY <1>2, OneOutcome DEF SalesInv, Decided
<1>4. o.say = "confirm" /\ ~overlapped => o.about \subseteq agreed[t]
  BY <1>2 DEF SalesInv, OneAtATime, HasTheTalk, Decided
<1> QED BY <1>1, <1>3, <1>4

\* A slot that is said to be free, alone or as one of two, was free in the calendar
\* at some moment of the turn, and no answer of the calendar is not taken for a
\* yes: check_requested_slot, _maybe_answer_two_slots and the other callers.
THEOREM FreeIsFree == Spec => FreeMeansFree
<1>1. ASSUME SalesInv, NEW t \in Turn, EndTurn(t), reply'.say = "free"
      PROVE  reply'.about \subseteq vacant[t]
  BY <1>1, AnswersSoundly
<1>2. SalesInv /\ [Next]_vars =>
        [\A t \in Turn : EndTurn(t) /\ reply'.say = "free" => reply'.about \subseteq vacant[t]]_vars
  BY <1>1
<1> QED BY <1>2, TalkInvariant, PTL DEF Spec, FreeMeansFree

\* Only a slot that the customer was shown and has not given up is confirmed, or
\* one that a turn stored and was cut off before showing: _handle_pitching,
\* confirm_slot and all that erases or replaces the remembered offer.
THEOREM OfferIsConfirmed == Spec => ConfirmsTheLiveOffer
<1>1. ASSUME SalesInv, NEW t \in Turn, EndTurn(t), reply'.say = "confirm", ~overlapped
      PROVE  reply'.about \subseteq agreed[t]
  BY <1>1, AnswersSoundly
<1>2. SalesInv /\ [Next]_vars =>
        [\A t \in Turn : EndTurn(t) /\ reply'.say = "confirm" /\ ~overlapped =>
           reply'.about \subseteq agreed[t]]_vars
  BY <1>1
<1> QED BY <1>2, TalkInvariant, PTL DEF Spec, ConfirmsTheLiveOffer

\* The number of vehicles that a customer has given is not asked again, unless a
\* new booking starts from an empty row: intent_merge, _persist and
\* handle_temporal_reply, also when the row lands after its turn is out of time.
THEOREM AnswersStay == Spec => AnswersAreKept
<1>1. ASSUME SalesInv, Next, row.stage \in {"scoping", "awaiting_time", "pitching"}, row.count,
             ~overlapped'
      PROVE  row'.count \/ row' = [NewRow EXCEPT !.stage = "scoping"]
  <2>1. MustKeep(row) BY <1>1 DEF MustKeep
  <2>2. ASSUME NEW r, NEW o, r = row, SoundRow(r, o, row')
        PROVE  row'.count \/ row' = [NewRow EXCEPT !.stage = "scoping"]
    BY <2>1, <2>2 DEF SoundRow, Fresh
  <2>3. ASSUME NEW t \in Turn, SaveRow(t)
        PROVE  \E r, o : r = row /\ SoundRow(r, o, row')
    <3>1. step[t] = "writes" /\ ~overlapped BY <1>1, <2>3 DEF SaveRow
    <3>2. PICK o \in answer[t] : row' \in o.save BY <2>3 DEF SaveRow
    <3>3. open[t] = {row} BY <1>1, <3>1 DEF SalesInv, OneAtATime, HasTheTalk
    <3> QED BY <1>1, <3>1, <3>2, <3>3, OneOutcome DEF SalesInv, Decided
  <2>4. ASSUME NEW t \in Turn, LateWrite(t)
        PROVE  row' = row \/ \E r, o : r = row /\ SoundRow(r, o, row')
    <3>1. step[t] = "late" /\ ~overlapped BY <1>1, <2>4 DEF LateWrite
    <3>2. PICK o \in answer[t] : row' \in IF o.save = {} THEN {row} ELSE o.save
      BY <2>4 DEF LateWrite
    <3>3. o.save # {} => open[t] = {row} BY <1>1, <3>1 DEF SalesInv, OneAtATime, HasTheTalk
    <3> QED BY <1>1, <3>1, <3>2, <3>3, OneOutcome DEF SalesInv
  <2>5. CASE EndNudge
    <3>1. ~overlapped BY <1>1, <2>5 DEF EndNudge, ghosts
    <3>2. row'.count = row.count BY <1>1, <2>5, <3>1, EndNudgeSaves DEF SalesInv, OneAtATime
    <3> QED BY <1>1, <3>2
  <2>6. ASSUME NEW t \in Turn,
               \/ BeginTurn(t) \/ (\E m \in Message : Decide(t, m)) \/ EndTurn(t)
               \/ ReplyIsLost(t) \/ TimesOut(t)
        PROVE  row' = row
    BY <2>6 DEF BeginTurn, Decide, EndTurn, ReplyIsLost, TimesOut
  <2>7. CASE Crash \/ StartNudge \/ NudgeFails \/ CalendarChanges
    BY <1>1, <2>7 DEF Crash, StartNudge, NudgeFails, CalendarChanges
  <2> QED BY <1>1, <2>2, <2>3, <2>4, <2>5, <2>6, <2>7 DEF Next
<1>2. SalesInv /\ [Next]_vars =>
        [/\ row.stage \in {"scoping", "awaiting_time", "pitching"}
         /\ row.count
         /\ ~overlapped'
         => row'.count \/ row' = [NewRow EXCEPT !.stage = "scoping"]]_vars
  BY <1>1
<1> QED BY <1>2, TalkInvariant, PTL DEF Spec, AnswersAreKept
=============================================================================
