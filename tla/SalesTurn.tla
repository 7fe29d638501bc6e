------------------------------ MODULE SalesTurn ------------------------------
(***************************************************************************)
(* The sales persona: what one customer message does to the booking talk   *)
(* of its chat.                                                            *)
(*                                                                         *)
(* The talk is one SQLite row: a stage of the funnel, the answers gathered *)
(* so far and the slot offered last.  A turn reads the row, waits for the  *)
(* language model and the calendar, decides, writes the row back whole and *)
(* without a condition, and only then answers.  It may run out of time, or *)
(* die with the api, between any two of these steps; a write that is under *)
(* way then may land later.  The follow-up that nudges a silent customer   *)
(* writes the row too.  Turns of one chat may overlap, and other customers *)
(* take slots.                                                             *)
(*                                                                         *)
(* What a turn decides is one of a set of outcomes: the row it saves, if   *)
(* any, what it tells the customer, whether a person is called in and      *)
(* whether a follow-up is scheduled.  They differ by what the language     *)
(* model and the calendar answer.                                          *)
(***************************************************************************)
EXTENDS Naturals, FiniteSets

CONSTANTS
  Turn,       \* handlers of the chat's messages
  Day, Hour,  \* days and times a customer may name
  Message,    \* the messages customers write
  Rival       \* slots that other customers book and cancel

NoSlot == <<0, 0>>

\* The "dates" answer: a day, a time, both or neither (0: not given).
Unclear == <<0, 0, 0>>   \* an answer that names no day and no time, or a refusal
When == (({0} \cup Day) \X ({0} \cup Hour)) \cup {Unclear}
Slot == Day \X Hour

ASSUME SlotAssumption == /\ Rival \subseteq Slot
                         /\ Day \subseteq Nat \ {0}
                         /\ Hour \subseteq Nat \ {0}

HasDay(w) == w[1] # 0
HasTime(w) == w[2] # 0
Concrete(w) == HasDay(w) /\ HasTime(w)

Stage == {"new", "scoping", "awaiting_time", "pitching", "proposing", "closing",
          "pricing", "awaiting_operator_price"}

\* A row of sales_conversation_state: dates, the other required answers (as
\* one), and last_proposal.
Row == [stage : Stage, when : When, count : BOOLEAN, offer : Slot \cup {NoSlot}]
NewRow == [stage |-> "new", when |-> NoSlot, count |-> FALSE, offer |-> NoSlot]
NoRow == [NewRow EXCEPT !.stage = "none"]

\* What the classifiers read in a message.  It may name a day, a time or both,
\* another one besides ("also"), a time of day ("window") and a number ("count"),
\* and have a word of agreement in it ("accept").
SmallTalk == {"offTopic", "badDate", "thanks", "hello"}
FaqKind == {"workingTime", "faq"}
PlainKind == SmallTalk \cup FaqKind \cup
  {"cancel", "human", "capacity", "catalog", "eligibility", "service", "fresh",
   "gibberish", "concept", "equipment", "noMore", "decline", "pair",
   "mixed", "mismatch", "other"}
Reading == [kind : PlainKind \cup {"booking", "temporal", "inquiry", "price", "number"},
            when : When, also : When, window : BOOLEAN, count : BOOLEAN, accept : BOOLEAN]

ASSUME MessageAssumption == Message \subseteq Reading

\* Messages that sound like a wish to buy.
is_sales_intent(m) ==
  m.kind \in {"booking", "inquiry", "price", "pair", "mixed", "mismatch", "fresh"}

IsShortTemporal(m) == m.kind = "temporal"

\* The clock times of a message, but for the one at hand.
extract_all_clocks(m) == {m.when[2], m.also[2]} \ {0}
NewClocks(m, hour) == extract_all_clocks(m) \ {hour}

VARIABLES
  row,        \* the chat's row, or NoRow
  step,       \* step[t]: how far the turn t has got
  open,       \* open[t]: the row that the turn t has read; {} when it is idle
  answer,     \* answer[t]: the outcome it has decided on; {} before that
  nudge,      \* the row that a running follow-up has read; {} when none runs
  due,        \* a follow-up of the chat is scheduled
  busy,       \* slots that are taken
  connected,  \* the project books by calendar, for one service
  reply,      \* what was said last, in a turn or a nudge, and the slots in it
  live,       \* the offer that was shown and not given up since: one or none
  agreed,     \* agreed[t]: the slots that may be confirmed after its message
  vacant,     \* vacant[t]: the slots that were free at some moment of the turn t
  cut,        \* whether the turn that wrote the row was cut off: its answer was not
              \* shown ("unseen"), or no person has learnt of it ("untold")
  handed,     \* a person has been called in since the talk began anew
  overlapped  \* two handlers have worked on the row at once

turns == <<step, open, answer>>
ghosts == <<live, agreed, cut, handed, overlapped>>
vars == <<row, step, open, answer, nudge, due, busy, connected, reply, live, agreed,
          vacant, cut, handed, overlapped>>

Step == {"idle", "reads", "writes", "answers", "late"}
Saying == {"nothing", "text", "free", "offer", "confirm", "cancelled"}
Silence == [say |-> "nothing", about |-> {}]

\* The row is missing, or was left by an older release that still proposed.
Init ==
  /\ row \in {NoRow, [NewRow EXCEPT !.stage = "proposing"]}
  /\ step = [t \in Turn |-> "idle"]
  /\ open = [t \in Turn |-> {}]
  /\ answer = [t \in Turn |-> {}]
  /\ nudge = {}
  /\ due = FALSE
  /\ busy \in SUBSET Rival
  /\ connected \in BOOLEAN
  /\ reply = Silence
  /\ live = {}
  /\ agreed = [t \in Turn |-> {}]
  /\ vacant = [t \in Turn |-> {}]
  /\ cut = "no"
  /\ handed = FALSE
  /\ overlapped = FALSE

-----------------------------------------------------------------------------
(* Outcomes. *)

\* A handler that does not apply passes the message on: None.
None == [save |-> {}, say |-> "none", about |-> {}, person |-> FALSE, follow |-> FALSE]
Outcome(save, say, about, person, follow) ==
  {[save |-> save, say |-> say, about |-> about, person |-> person, follow |-> follow]}

Pass == {None}
OrElse(S, T) == (S \ {None}) \cup (IF None \in S THEN T ELSE {})
When_(p, S) == IF p THEN S ELSE Pass

\* handled=False: the next answerer of the pipeline takes the message.
Skip == Outcome({}, "nothing", {}, FALSE, FALSE)

\* _persist writes the whole row; an offer not passed is erased.
Persist(stage, i, offer) ==
  {[stage |-> stage, when |-> i.when, count |-> i.count, offer |-> offer]}

\* A reply that saves nothing; one that moves the talk to a stage; one that
\* also calls a person in.
Answer == Outcome({}, "text", {}, FALSE, FALSE)
Ask(stage, i) == Outcome(Persist(stage, i, NoSlot), "text", {}, FALSE, TRUE)
HandOver(stage, i) == Outcome(Persist(stage, i, NoSlot), "text", {}, TRUE, TRUE)
CallPerson == Outcome({}, "text", {}, TRUE, FALSE)

-----------------------------------------------------------------------------
(* The calendar.  It is asked about a slot; it may fail to answer.  With a  *)
(* refusal comes an alternative, if it finds one.                          *)

Verdict(w) ==
  {[status |-> "unverified", alternative |-> NoSlot]} \cup
  IF w \in busy
  THEN {[status |-> "unavailable", alternative |-> s] : s \in (Slot \ busy) \cup {NoSlot}}
  ELSE {[status |-> "available", alternative |-> NoSlot]}

\* Mutant of check_requested_slot: a calendar that does not answer counts as free.
optimistic_slot(i) ==
  IF connected /\ Concrete(i.when)
  THEN {IF v.status = "unverified" THEN [v EXCEPT !.status = "available"] ELSE v :
          v \in Verdict(i.when)}
  ELSE {[status |-> "unchecked", alternative |-> NoSlot]}

check_requested_slot(i) ==
  IF connected /\ Concrete(i.when) THEN Verdict(i.when)
  ELSE {[status |-> "unchecked", alternative |-> NoSlot]}

-----------------------------------------------------------------------------
(* Replies that need no booking talk. *)

\* Mutant of handle_cancellation: the customer who left is to be nudged.
handle_cancellation_nudging(r) ==
  Outcome(Persist("closing", r, NoSlot), "cancelled", {}, TRUE, TRUE)

\* The talk closes with its answers kept, and a person is called in.
handle_cancellation(r) ==
  Outcome(Persist("closing", r, NoSlot), "cancelled", {}, TRUE, FALSE)

handle_human_request == CallPerson
handle_out_of_scope == Answer
handle_small_talk == Answer
handle_gibberish == Answer
handle_faq_defer == CallPerson
handle_working_hours == (IF connected THEN Answer ELSE {}) \cup handle_faq_defer

\* The number of vehicles follows from the number of riders, or a person says.
handle_capacity_question == Answer \cup Outcome({}, "text", {}, TRUE, TRUE)

handle_mixed_service == Answer
handle_count_mismatch == Answer

\* The active services, or, when there are none, the knowledge base or a person.
handle_catalog_ask ==
  Outcome({}, "text", {}, FALSE, TRUE) \cup Skip
    \cup Outcome({}, "text", {}, TRUE, TRUE)

\* A description, an answer from a chunk of the knowledge base, or nothing.
answer_concept == Outcome({}, "text", {}, FALSE, TRUE) \cup Skip

\* The row is written, for its time of the last reply.
handle_equipment_ask(r) == Ask(r.stage, r)

-----------------------------------------------------------------------------
(* Prices.  The lookup finds one, finds none or fails; a quote that the     *)
(* model garbles is left to a person.                                      *)

render_price_hit(i) == Ask("pricing", i) \cup HandOver("awaiting_operator_price", i)
escalate_price_unknown(i) == HandOver("awaiting_operator_price", i)
handle_pricing(i) == Skip \cup render_price_hit(i) \cup escalate_price_unknown(i)

\* A price asked with a slot: the verdict goes before the price.
maybe_answer_price_and_availability(m, r) ==
  When_(m.kind = "price" /\ connected /\ Concrete(m.when),
        UNION {IF v.status = "unverified" THEN Pass
               ELSE {IF o \in Skip THEN None
                     ELSE [o EXCEPT !.say = IF v.status = "available" THEN "free" ELSE "text",
                                    !.about = IF v.status = "available" THEN {m.when} ELSE {}] :
                       o \in handle_pricing(r)} :
                 v \in Verdict(m.when)})

maybe_intercept_price_ask(m, i) == When_(m.kind = "price", handle_pricing(i))

-----------------------------------------------------------------------------
(* Slots. *)

\* An alternative is offered and remembered; without one a person is called in.
propose_alternative_or_handoff(i, alternative) ==
  IF alternative = NoSlot THEN HandOver("pitching", i)
  ELSE Outcome(Persist("pitching", i, alternative), "offer", {alternative}, FALSE, TRUE)

\* A time of day, for a day that is known: the first free hour of it is offered,
\* or the alternative to a taken one.
maybe_answer_vague_window(m, i) ==
  When_(m.window /\ connected /\ ~Concrete(i.when) /\ ~Concrete(m.when)
          /\ (HasDay(i.when) \/ HasDay(m.when)),
        Pass \cup UNION {Outcome(Persist("pitching", i, s), "offer", {s}, FALSE, TRUE) :
                           s \in Slot \ busy})

\* Two days, two times or two bookings at once: a verdict on each, if both are known.
maybe_answer_two_slots(m) ==
  LET unbooked == {m.when, m.also} \ busy IN
  When_(/\ m.kind = "pair" /\ connected
        /\ Concrete(m.when) /\ Concrete(m.also) /\ m.when # m.also,
        Pass \cup Outcome({}, IF unbooked = {} THEN "text" ELSE "free", unbooked, FALSE, FALSE))

\* "Is it free?" gets a verdict on the slot that is on the table.
maybe_answer_availability_inquiry(m, i) ==
  LET w == IF Concrete(i.when) THEN i.when ELSE m.when IN
  When_(m.kind = "inquiry" /\ connected /\ Concrete(w),
        UNION {CASE v.status = "available" -> Outcome({}, "free", {w}, FALSE, FALSE)
                 [] v.status = "unavailable" -> Answer
                 [] OTHER -> Pass : v \in Verdict(w)})

\* A slot that is new in this turn and taken is refused at once.
maybe_intercept_busy_slot(old, i) ==
  When_(connected /\ Concrete(i.when) /\ i.when # old.when,
        UNION {IF v.status = "unavailable"
               THEN propose_alternative_or_handoff(i, v.alternative) ELSE Pass :
                 v \in Verdict(i.when)})

has_time_without_date(m, i) ==
  connected /\ (HasTime(i.when) \/ HasTime(m.when))
            /\ ~HasDay(i.when) /\ ~HasDay(m.when)

fold_raw_time_into_intent(m, i) ==
  IF ~HasTime(i.when) /\ HasTime(m.when)
  THEN [i EXCEPT !.when = <<0, m.when[2]>>] ELSE i

ask_for_date(i) == Ask("awaiting_time", i)
ask_for_time(i) == Ask("awaiting_time", i)

should_ask_for_time(i) == connected /\ ~Concrete(i.when)

\* The booking goes to a person, with the word that the slot is free if it is.
handoff_after_scoping(i, free) ==
  Outcome(Persist("pitching", i, NoSlot), IF free THEN "free" ELSE "text",
          IF free THEN {i.when} ELSE {}, TRUE, TRUE)

handoff_unverified_slot(i) == HandOver("pitching", i)

\* The answers are in, or the customer has named a slot: what becomes of it.
complete_booking(m, i, stage) ==
  IF m.kind = "mismatch" THEN handle_count_mismatch
  ELSE OrElse(maybe_answer_vague_window(m, i),
    IF has_time_without_date(m, i) THEN ask_for_date(fold_raw_time_into_intent(m, i))
    ELSE IF stage # "awaiting_time" /\ should_ask_for_time(i) THEN ask_for_time(i)
    ELSE UNION {CASE v.status = "unavailable" ->
                       propose_alternative_or_handoff(i, v.alternative)
                  [] v.status = "unverified" -> handoff_unverified_slot(i)
                  [] OTHER -> handoff_after_scoping(i, v.status = "available") :
                  v \in check_requested_slot(i)})

-----------------------------------------------------------------------------
(* Reading the answers. *)

\* What the model extracts: the day and time, the number, either or neither.
Extracted(m) == {NoSlot, m.when} \X {FALSE, m.count}

\* intent_merge, then the slot of the raw message if the answers have none.
dates_with_raw_fallback(m, i) ==
  IF ~Concrete(i.when) /\ Concrete(m.when) THEN [i EXCEPT !.when = m.when] ELSE i

Merge(m, i, x) ==
  dates_with_raw_fallback(m,
    [i EXCEPT !.when = IF x[1] = NoSlot THEN @ ELSE x[1], !.count = @ \/ x[2]])

extract_and_merge(m, i) == {Merge(m, i, x) : x \in Extracted(m)}

is_complete(i) == i.when # NoSlot /\ i.count

\* A time joins the day that is known, a day the time that is known.
preserve_prior_date(i, old) ==
  IF HasTime(i.when) /\ ~HasDay(i.when) /\ HasDay(old.when)
  THEN [i EXCEPT !.when = <<old.when[1], i.when[2]>>]
  ELSE IF HasDay(i.when) /\ ~HasTime(i.when) /\ HasTime(old.when)
  THEN [i EXCEPT !.when = <<i.when[1], old.when[2]>>]
  ELSE i

\* Mutants of handle_temporal_reply: the other answers are forgotten.
forgetful_temporal_reply(m, r) ==
  LET i == [NewRow EXCEPT !.when = m.when] IN
  IF HasTime(m.when) /\ ~HasDay(i.when) THEN ask_for_date(i)
  ELSE IF ~is_complete(i) THEN OrElse(maybe_answer_vague_window(m, i), Ask("scoping", i))
  ELSE complete_booking(m, i, r.stage)

\* A day, a time or both, read without the model.
handle_temporal_reply(m, r) ==
  LET said == IF HasDay(m.when) THEN [r EXCEPT !.when = m.when]
              ELSE fold_raw_time_into_intent(m, r)
      i == preserve_prior_date(said, r)
  IN IF HasTime(m.when) /\ ~HasDay(i.when) THEN ask_for_date(i)
     ELSE IF ~is_complete(i)
     THEN OrElse(maybe_answer_vague_window(m, i), Ask("scoping", i))
     ELSE complete_booking(m, i, r.stage)

\* A bare number answers the question that was put, read without the model.
handle_deterministic_numeric_reply(m, r) ==
  LET i == [r EXCEPT !.count = TRUE] IN
  IF is_complete(i) THEN complete_booking(m, i, r.stage) ELSE Ask("scoping", i)
-----------------------------------------------------------------------------
(* The stages. *)

\* A talk begins, or begins anew: the old answers are dropped.
handle_greeting(m) ==
  Skip \cup UNION {
    OrElse(maybe_answer_two_slots(m),
    IF m.kind = "mixed" THEN handle_mixed_service
    ELSE IF m.kind = "mismatch" THEN handle_count_mismatch
    ELSE OrElse(maybe_answer_availability_inquiry(m, i),
    OrElse(maybe_answer_vague_window(m, i),
    IF has_time_without_date(m, NewRow)
    THEN ask_for_date(fold_raw_time_into_intent(m, NewRow))
    ELSE OrElse(maybe_intercept_busy_slot(NewRow, i),
    OrElse(maybe_intercept_price_ask(m, i),
    IF is_complete(i) THEN complete_booking(m, i, "new") ELSE Ask("scoping", i)))))) :
      i \in extract_and_merge(m, NewRow)}

\* A service is picked: a new booking of it, or the next question of this one.
handle_service_selection(r) ==
  Ask("scoping", NewRow) \cup
  (IF is_complete(r) THEN Skip ELSE Ask("scoping", r))

\* The model fails: a number or a day and time are read without it.
ScopingUnread(m, r) ==
  IF m.count /\ ~r.count /\ r.when # NoSlot THEN handle_deterministic_numeric_reply(m, r)
  ELSE IF IsShortTemporal(m) THEN handle_temporal_reply(m, r)
  ELSE Skip

\* "No" and a bare number answer the question that was put.
Recovered(m, r, i) ==
  IF \/ m.kind = "decline" /\ i.when # NoSlot
     \/ m.count /\ r.when # NoSlot
  THEN [i EXCEPT !.count = TRUE]
  ELSE IF m.kind = "decline" /\ ~is_complete(i) THEN [i EXCEPT !.when = Unclear] ELSE i

handle_scoping(m, r) ==
  ScopingUnread(m, r) \cup UNION {
    LET i == Recovered(m, r, x) IN
    IF is_complete(i) THEN complete_booking(m, i, "scoping")
    ELSE OrElse(maybe_answer_two_slots(m),
    IF m.kind = "mixed" THEN handle_mixed_service
    ELSE IF m.kind = "mismatch" THEN handle_count_mismatch
    ELSE OrElse(maybe_answer_availability_inquiry(m, i),
    OrElse(maybe_answer_vague_window(m, i),
    OrElse(maybe_intercept_busy_slot(r, i), Ask("scoping", i))))) :
      x \in extract_and_merge(m, r)}

handle_awaiting_time(m, r) ==
  (IF IsShortTemporal(m) THEN handle_temporal_reply(m, r) ELSE Skip) \cup
  UNION {complete_booking(m, preserve_prior_date(i, r), "awaiting_time") :
           i \in extract_and_merge(m, r)}

\* Mutant of confirm_slot: nobody is told of the booking.
confirm_slot_alone(r, s) ==
  Outcome(Persist("closing", r, NoSlot), "confirm", {s}, FALSE, TRUE)

\* The offered slot is taken as agreed, without asking the calendar again.
confirm_slot(r, s) ==
  IF s = NoSlot THEN HandOver("closing", r)
  ELSE Outcome(Persist("closing", r, NoSlot), "confirm", {s}, TRUE, TRUE)

handoff_after_pitching_followup(r) == HandOver("closing", r)

\* A time alone moves the offer within its day; two times are no counter-offer.
timeonly_counteroffer_start(m, r) ==
  IF r.offer # NoSlot /\ \E h \in Hour : NewClocks(m, r.offer[2]) = {h}
  THEN <<r.offer[1], CHOOSE h \in NewClocks(m, r.offer[2]) : TRUE>> ELSE NoSlot

\* A new time for the slot that was asked for, when nothing is on offer.
new_time_for_prior(m, r) ==
  IF r.offer = NoSlot /\ Concrete(r.when) /\ \E h \in Hour : NewClocks(m, r.when[2]) = {h}
  THEN <<r.when[1], CHOOSE h \in NewClocks(m, r.when[2]) : TRUE>> ELSE NoSlot

\* Mutant of PitchNewDay: a customer who names a slot takes what is on offer.
PitchAnyDay(m, r) ==
  IF r.offer # NoSlot /\ Concrete(m.when) THEN confirm_slot(r, r.offer)
  ELSE complete_booking(m, [r EXCEPT !.when = m.when], "pitching")

\* A day in other words than the stored ones: the offer restated, or a new wish.
PitchNewDay(m, r) ==
  IF m.when = r.offer THEN confirm_slot(r, r.offer)
  ELSE complete_booking(m, [r EXCEPT !.when = m.when], "pitching")

\* A word of agreement is looked for last: it takes the offer, whatever time of
\* day, or two times, the message names besides.
PitchNoNewDay(m, r) ==
  LET counter == timeonly_counteroffer_start(m, r)
      moved == new_time_for_prior(m, r)
      bare == [m EXCEPT !.window = FALSE]
  IN IF counter # NoSlot
     THEN complete_booking(bare, [r EXCEPT !.when = counter], "pitching")
     ELSE IF moved # NoSlot
     THEN complete_booking(bare, [r EXCEPT !.when = moved], "pitching")
     ELSE IF r.offer # NoSlot /\ m.accept THEN confirm_slot(r, r.offer)
     ELSE handoff_after_pitching_followup(r)

handle_pitching(m, r) ==
  IF m.kind = "mixed" THEN handle_mixed_service
  ELSE (IF HasDay(m.when) THEN PitchNewDay(m, r) ELSE {})
       \cup (IF ~HasDay(m.when) \/ m.when = r.when THEN PitchNoNewDay(m, r) ELSE {})

\* A row of an older release: the calendar proposes a date for the answers, the
\* model words it, and a wording that strays from it is left to a person.
render_and_persist_proposal(i) ==
  HandOver("proposing", i) \cup
  UNION {Outcome(Persist("proposing", i, s), "offer", {s}, FALSE, TRUE) : s \in Slot \ busy}
handle_no_proposal(i) == Ask("proposing", i) \cup HandOver("proposing", i)

handle_proposing(m, r) ==
  LET i == IF HasDay(m.when) THEN [r EXCEPT !.when = m.when] ELSE r IN
  IF i.when = r.when /\ r.offer # NoSlot /\ m.accept THEN HandOver("closing", r)
  ELSE render_and_persist_proposal(i) \cup handle_no_proposal(i)

handle_closing(r) == HandOver("closing", r)

\* Questions on the side, in the two stages that expect an answer.
maybe_handle_aside(m, r) ==
  CASE m.kind = "concept" -> answer_concept
    [] m.kind = "price" -> handle_pricing(r)
    [] m.kind = "equipment" -> handle_equipment_ask(r)
    [] OTHER -> Pass

\* After a price: an answer to the funnel goes on, a new wish begins anew.
is_pricing_funnel_continuation(m, r) ==
  /\ r.stage = "pricing"
  /\ r.when # NoSlot \/ r.count
  /\ m.kind \notin {"price", "concept"}
  /\ m.count \/ IsShortTemporal(m)

handle_after_price(m, r) ==
  IF is_pricing_funnel_continuation(m, r)
  THEN IF IsShortTemporal(m) THEN handle_temporal_reply(m, r) ELSE handle_scoping(m, r)
  ELSE IF Concrete(m.when) THEN handle_greeting(m)
  ELSE handle_pricing(r) \cup (IF m.kind = "booking" THEN handle_greeting(m) ELSE {})

HandleStage(m, r) ==
  CASE r.stage = "none" -> IF is_sales_intent(m) THEN handle_greeting(m) ELSE Skip
    [] r.stage = "new" -> handle_greeting(m)
    [] r.stage = "scoping" -> handle_scoping(m, r)
    [] r.stage = "awaiting_time" -> handle_awaiting_time(m, r)
    [] r.stage = "pitching" -> handle_pitching(m, r)
    [] r.stage = "proposing" -> handle_proposing(m, r)
    [] r.stage = "closing" -> IF is_sales_intent(m) THEN handle_greeting(m)
                              ELSE handle_closing(r)
    [] OTHER -> handle_after_price(m, r)

\* A price with a slot, then a question on the side, then the stage.
Onward(m, r) ==
  OrElse(maybe_answer_price_and_availability(m, r),
  OrElse(When_(r.stage \in {"scoping", "pitching"}, maybe_handle_aside(m, r)),
         HandleStage(m, r)))

\* The first reading of the message that applies, in this order.
Dispatch(m, r) ==
  CASE m.kind = "cancel" -> handle_cancellation(r)
    [] m.kind = "human" -> handle_human_request
    [] m.kind = "offTopic" -> handle_out_of_scope
    [] m.kind = "capacity" -> handle_capacity_question
    [] m.kind \in SmallTalk -> handle_small_talk
    [] m.kind = "catalog" -> handle_catalog_ask
    [] m.kind = "eligibility" -> answer_concept
    [] \/ m.kind = "service"
       \/ m.kind = "fresh" /\ r.stage \in {"pitching", "closing"} ->
         handle_service_selection(r)
    [] /\ IsShortTemporal(m)
       /\ r.stage \in {"scoping", "awaiting_time"} ->
         handle_temporal_reply(m, r)
           \cup (IF HasTime(m.when) \/ m.window THEN Onward(m, r) ELSE {})
    [] m.kind = "gibberish" -> handle_gibberish
    [] m.kind = "workingTime" -> handle_working_hours
    [] m.kind = "faq" -> handle_faq_defer
    [] OTHER -> Onward(m, r)

-----------------------------------------------------------------------------
(* Steps. *)

Idle == [t \in Turn |-> "idle"]
Busy(t) == nudge # {} \/ \E u \in Turn \ {t} : step[u] # "idle"

\* A message arrives: a scheduled follow-up is dropped and the row is read.
BeginTurn(t) ==
  /\ step[t] = "idle"
  /\ step' = [step EXCEPT ![t] = "reads"]
  /\ open' = [open EXCEPT ![t] = {row}]
  /\ due' = FALSE
  /\ reply' = Silence
  /\ vacant' = [vacant EXCEPT ![t] = Slot \ busy]
  /\ overlapped' = (overlapped \/ Busy(t))
  /\ UNCHANGED <<row, answer, nudge, busy, connected, live, agreed, cut, handed>>

\* Messages answered as what they are, whatever day they name besides.
AsideKind == SmallTalk \cup FaqKind \cup
  {"human", "capacity", "catalog", "eligibility", "gibberish", "mixed", "mismatch", "concept"}

\* The message gives up the offer of the row: it wants something else, or names
\* one other time of its day, or another day than the wish that the offer answers.
Declines(m, r) ==
  \/ m.kind \in {"cancel", "service", "fresh"}
  \/ /\ m.kind \notin AsideKind
     /\ \/ ~HasDay(m.when) /\ \E h \in Hour : NewClocks(m, r.offer[2]) = {h}
        \/ HasDay(m.when) /\ m.also = NoSlot /\ m.when \notin {r.offer, r.when}

\* What may be confirmed once the message is read: the offer shown and not given
\* up, or one that a turn has stored and was cut off before it could show it.
Agreed(m, r, o) ==
  IF o.say # "nothing" /\ Declines(m, r) THEN {}
  ELSE live \cup (IF cut = "no" THEN {} ELSE {r.offer} \ {NoSlot})

\* The model and the calendar have answered, and the turn knows what to do.
Decide(t, m) ==
  /\ step[t] = "reads"
  /\ \E r \in open[t] : \E o \in Dispatch(m, r) :
       /\ answer' = [answer EXCEPT ![t] = {o}]
       /\ step' = [step EXCEPT ![t] = IF o.save = {} THEN "answers" ELSE "writes"]
       /\ agreed' = [agreed EXCEPT ![t] = Agreed(m, r, o)]
  /\ UNCHANGED <<row, open, nudge, due, busy, connected, reply, live, vacant, cut, handed,
                 overlapped>>

\* A turn that is through, or given up, forgets what it held.
Leave(t) ==
  /\ step' = [step EXCEPT ![t] = "idle"]
  /\ open' = [open EXCEPT ![t] = {}]
  /\ answer' = [answer EXCEPT ![t] = {}]
  /\ agreed' = [agreed EXCEPT ![t] = {}]
  /\ vacant' = [vacant EXCEPT ![t] = {}]

\* The row is written over whatever is stored by now.
SaveRow(t) ==
  /\ step[t] = "writes"
  /\ \E o \in answer[t] :
       /\ row' \in o.save
       /\ handed' = (handed /\ o.say # "offer" /\ row'.stage \notin {"scoping", "awaiting_time"})
  /\ cut' = "no"
  /\ step' = [step EXCEPT ![t] = "answers"]
  /\ UNCHANGED <<open, answer, nudge, due, busy, connected, reply, live, agreed, vacant,
                 overlapped>>

\* The turn has stored a row and not yet answered.
Stored(t) == step[t] = "answers" /\ \E o \in answer[t] : o.save # {}

\* The turn answers: it schedules the follow-up, the reply goes out, and then a
\* person is called in, if it takes one; the call may fail, or the api die before.
EndTurn(t) ==
  /\ step[t] = "answers"
  /\ \E o \in answer[t] :
       /\ due' = (due \/ o.follow)
       /\ reply' = [say |-> o.say, about |-> o.about]
       /\ live' = IF o.say = "offer" THEN o.about
                  ELSE IF o.say = "confirm" \/ agreed[t] = {} THEN {} ELSE live
       /\ \E told \in BOOLEAN :
            /\ handed' = (handed \/ (o.person /\ told))
            /\ cut' = IF Stored(t) /\ o.person /\ ~told THEN "untold" ELSE cut
  /\ Leave(t)
  /\ UNCHANGED <<row, nudge, busy, connected, overlapped>>

\* The reply does not get through: a person is called in nevertheless, if it takes
\* one, and what was to be shown was not.  That call may fail as well.
ReplyIsLost(t) ==
  /\ step[t] = "answers"
  /\ \E o \in answer[t] :
       /\ o.say # "nothing"
       /\ due' = (due \/ o.follow)
       /\ \E told \in BOOLEAN :
            /\ handed' = (handed \/ (o.person /\ told))
            /\ cut' = IF ~Stored(t) THEN cut
                      ELSE IF o.person /\ ~told THEN "untold" ELSE "unseen"
  /\ Leave(t)
  /\ UNCHANGED <<row, nudge, busy, connected, reply, live, overlapped>>

\* The turn fails or is out of time: the customer is told to wait and a person is
\* called in, if the ticket can be written and the api lives to do it.  What is
\* stored stays, and a write that is under way is not stopped.
TimesOut(t) ==
  /\ step[t] \in {"reads", "writes", "answers"}
  /\ reply' = [say |-> "text", about |-> {}]
  /\ \E told \in BOOLEAN :
       /\ handed' = (handed \/ told)
       /\ cut' = IF ~Stored(t) THEN cut ELSE IF told THEN "unseen" ELSE "untold"
       /\ \/ Leave(t)
          \/ /\ \E o \in answer[t] :
                  \/ /\ step[t] = "writes"
                     /\ answer' = [answer EXCEPT ![t] =
                                     {[o EXCEPT !.person = told, !.follow = FALSE]}]
                  \/ /\ step[t] = "answers" /\ o.follow
                     /\ answer' = [answer EXCEPT ![t] =
                                     {[o EXCEPT !.person = told, !.save = {}]}]
             /\ step' = [step EXCEPT ![t] = "late"]
             /\ UNCHANGED <<open, agreed, vacant>>
  /\ UNCHANGED <<row, nudge, due, busy, connected, live, overlapped>>

\* The thread of a turn that is out of time writes its row, or its follow-up.
LateWrite(t) ==
  /\ step[t] = "late"
  /\ \E o \in answer[t] :
       /\ row' \in IF o.save = {} THEN {row} ELSE o.save
       /\ due' = (due \/ o.follow)
       /\ cut' = IF o.save = {} THEN cut ELSE IF o.person THEN "unseen" ELSE "untold"
  /\ Leave(t)
  /\ UNCHANGED <<nudge, busy, connected, reply, live, handed, overlapped>>

\* The api dies: its turns and its follow-up end where they are, and what they
\* have stored stays.
Crash ==
  /\ step # Idle \/ nudge # {}
  /\ cut' = IF \E t \in Turn : Stored(t) THEN "untold" ELSE cut
  /\ \/ UNCHANGED due
     \/ /\ \E t \in Turn : step[t] = "answers" /\ \E o \in answer[t] : o.follow
        /\ due' = TRUE
  /\ step' = Idle
  /\ open' = [t \in Turn |-> {}]
  /\ answer' = [t \in Turn |-> {}]
  /\ agreed' = [t \in Turn |-> {}]
  /\ vacant' = [t \in Turn |-> {}]
  /\ nudge' = {}
  /\ UNCHANGED <<row, busy, connected, reply, live, handed, overlapped>>

\* The follow-up of a silent customer: it reads the row, has the model write a
\* nudge, sends it, and saves the row it has read, without the offer.
StartNudge ==
  /\ due /\ nudge = {}
  /\ nudge' = {row}
  /\ due' = FALSE
  /\ overlapped' = (overlapped \/ step # Idle)
  /\ UNCHANGED <<row, turns, busy, connected, reply, live, agreed, vacant, cut, handed>>

EndNudge ==
  /\ \E r \in nudge :
       row' = [r EXCEPT !.offer = NoSlot,
                        !.stage = IF @ = "none" THEN "scoping" ELSE @]
  /\ nudge' = {}
  /\ reply' = [say |-> "text", about |-> {}]
  /\ UNCHANGED <<turns, due, busy, connected, vacant, ghosts>>

\* The nudge cannot be sent, or it is sent and the row cannot be written.
NudgeFails ==
  /\ nudge # {}
  /\ nudge' = {}
  /\ UNCHANGED <<row, turns, due, busy, connected, reply, vacant, ghosts>>

\* Other people book and cancel.
CalendarChanges ==
  /\ \E s \in Rival : busy' \in {busy \ {s}, busy \cup {s}}
  /\ vacant' = [t \in Turn |-> IF step[t] = "idle" THEN {} ELSE vacant[t] \cup (Slot \ busy')]
  /\ UNCHANGED <<row, turns, nudge, due, connected, reply, ghosts>>

Next ==
  \/ \E t \in Turn :
       \/ BeginTurn(t) \/ (\E m \in Message : Decide(t, m)) \/ SaveRow(t) \/ EndTurn(t)
       \/ ReplyIsLost(t) \/ TimesOut(t) \/ LateWrite(t)
  \/ Crash
  \/ StartNudge \/ EndNudge \/ NudgeFails
  \/ CalendarChanges

Spec == Init /\ [][Next]_vars

-----------------------------------------------------------------------------
(* Properties. *)

\* The only slot ever confirmed is the one that was shown last to this customer
\* and is still on offer: not one that they have given up for another, nor one of
\* a talk they cancelled, and never in answer to a message that asks for something
\* else. _handle_pitching trusts the row for it: so a slot that a turn has stored
\* may be confirmed too when that turn was cut off before it could show it, and a
\* message whose turn is cut off before it stores anything gives nothing up.
ConfirmsTheLiveOffer ==
  [][\A t \in Turn :
       EndTurn(t) /\ reply'.say = "confirm" /\ ~overlapped => reply'.about \subseteq agreed[t]]_vars

\* A slot that the customer hears is free was free in the calendar at some moment
\* of the turn that says so, also where a reply speaks of two; a calendar that does
\* not answer never counts as a yes.
FreeMeansFree ==
  [][\A t \in Turn : EndTurn(t) /\ reply'.say = "free" => reply'.about \subseteq vacant[t]]_vars

\* The stored stage is true of the talk. Once no turn is between storing its row
\* and answering, the last stage has a person who knows of it, also when the turn
\* ran out of time or its reply was lost; only an api that dies, or a ticket that
\* cannot be written, before a person is told leaves the row without one. An offer is remembered
\* only in a stage that waits for the answer to it.
StageIsTrue ==
  /\ row.stage = "closing" /\ ~overlapped /\ cut # "untold" /\ (\A t \in Turn : ~Stored(t))
       => handed
  /\ row.offer # NoSlot => row.stage \in {"pitching", "proposing"}

\* What the customer has answered is not asked again: an answer leaves the row
\* only when a new booking starts from an empty one.
AnswersAreKept ==
  [][/\ row.stage \in {"scoping", "awaiting_time", "pitching"}
     /\ row.count
     /\ ~overlapped'
     => row'.count \/ row' = [NewRow EXCEPT !.stage = "scoping"]]_vars

\* Who cancels is left alone: no follow-up is scheduled or on its way.
NoNudgeAfterCancelling ==
  reply.say = "cancelled" /\ ~overlapped => ~due /\ nudge = {}

\* The comment of _maybe_handle_aside: a question on the side does not change
\* the state of the funnel.
AsidesKeepTheFunnel ==
  [][\A t \in Turn, m \in Message :
       m.kind \in {"concept", "equipment", "price"} /\ row.stage = "pitching"
         /\ open[t] = {row} /\ Decide(t, m)
       => \A o \in answer'[t] : o.save \subseteq {row}]_vars
=============================================================================
