----------------------------- MODULE SlotSearch -----------------------------
(* The api's calendar arithmetic: is a requested start bookable under a       *)
(* service's rule and the operator's busy times, and which slot is offered    *)
(* instead. Time is counted in units of a day of DayLength units, day d being *)
(* units d * DayLength and up, in the project's time zone without a shift.    *)
(* The module answers one question per behaviour: Init picks the question.    *)
EXTENDS Integers, Sequences, FiniteSetsExt

CONSTANTS DayLength,   \* units of a day
          LastDay,     \* bound: days considered
          WeekLength,  \* weekday of day d is d % WeekLength
          Duration,    \* durations a rule may give, 0 for none given
          Lookahead,   \* the project's lookahead_days
          Cap,         \* _REQUESTED_LOOKAHEAD_CAP_DAYS
          Timetable,   \* working windows of a weekday a rule may give
          Closed,      \* sets of date exceptions a rule may give
          Events       \* sets of events the operator's calendar may hold

\* No period that is looked at goes beyond the days considered; windows lie in
\* their day, and an event ends after it begins.
ASSUME SlotBounds ==
  /\ DayLength \in Nat \ {0} /\ WeekLength \in Nat \ {0}
  /\ LastDay \in Nat /\ Cap \in 0..LastDay /\ Lookahead \subseteq 0..LastDay
  /\ Duration \subseteq Nat
  /\ \A hours \in Timetable : hours \in Seq((0..DayLength) \X (0..DayLength))
  /\ \A events \in Events : \A e \in events : e \in Int \X Int /\ e[1] < e[2]

VARIABLES inquiry, slotAnswer

slotVars == <<inquiry, slotAnswer>>

Day == 0..LastDay
Weekday == 0..(WeekLength - 1)
Units == 0..((LastDay + 1) * DayLength - 1)
DayOf(t) == t \div DayLength
WeekdayOf(d) == d % WeekLength
DefaultDuration == 1

(* A rule as the services table stores it; a window is a pair of units of the *)
(* day, an event a pair of units. The calendar answers only for the period it *)
(* is asked about.                                                            *)
RawRule == [duration : Duration, working_hours : [Weekday -> Timetable],
            service_days : SUBSET Weekday, date_exceptions : Closed]

parse_service_rule(raw, lookahead) ==
  [duration |-> IF raw.duration = 0 THEN DefaultDuration ELSE raw.duration,
   working_hours |-> raw.working_hours, service_days |-> raw.service_days,
   date_exceptions |-> raw.date_exceptions, lookahead |-> lookahead]

query_busy_window(events, from, to) == {e \in events : e[1] < to /\ from < e[2]}

overlaps(start, end, busy) == start < busy[2] /\ busy[1] < end

fits_in_a_window(start, end, windows) ==
  LET midnight == DayOf(start) * DayLength IN
  \E i \in DOMAIN windows :
    midnight + windows[i][1] <= start /\ end <= midnight + windows[i][2]

\* The first check that fails names the reason.
compute_availability(now, start, busy, rule) ==
  LET end == start + rule.duration
      day == DayOf(start)
  IN IF start < now THEN "in_past"
     ELSE IF start >= now + rule.lookahead * DayLength THEN "outside_lookahead"
     ELSE IF day \in rule.date_exceptions THEN "date_exception"
     ELSE IF WeekdayOf(day) \notin rule.service_days THEN "wrong_service_day"
     ELSE IF ~fits_in_a_window(start, end, rule.working_hours[WeekdayOf(day)])
     THEN "outside_working_hours"
     ELSE IF \E b \in busy : overlaps(start, end, b) THEN "busy"
     ELSE "available"

(* Mutant: only the opening of each window is tried. *)
OpeningOnly(day, window, rule) ==
  {t \in {day * DayLength + window[1]} : t + rule.duration <= day * DayLength + window[2]}

\* The starts tried in a window of a day: from its opening on, in steps of the
\* duration.
Candidates(day, window, rule) ==
  LET opening == day * DayLength + window[1]
      closing == day * DayLength + window[2]
  IN {t \in opening..(closing - rule.duration) : (t - opening) % rule.duration = 0}

\* The first day, the first window that the rule lists for it, the first start.
find_earliest_slot(now, first, last, busy, rule) ==
  LET hours(d) == rule.working_hours[WeekdayOf(d)]
      free(d, i) == {t \in Candidates(d, hours(d)[i], rule) :
                       compute_availability(now, t, busy, rule) = "available"}
      days == {d \in first..last : \E i \in DOMAIN hours(d) : free(d, i) # {}}
      day == Min(days)
      window == Min({i \in DOMAIN hours(day) : free(day, i) # {}})
  IN IF days = {} THEN -1 ELSE Min(free(day, window))

\* A request beyond the project's lookahead widens it, up to the cap.
effective_lookahead(q) ==
  Max({q.lookahead, Min({DayOf(q.start) - DayOf(q.now) + 1, Cap})})

requested_availability(q) ==
  LET lookahead == effective_lookahead(q)
      rule == parse_service_rule(q.rule, lookahead)
      busy == query_busy_window(q.events, q.now, q.now + lookahead * DayLength)
      result == compute_availability(q.now, q.start, busy, rule)
  IN IF result = "available" THEN [status |-> result, alternative |-> -1]
     ELSE [status |-> result,
           alternative |-> find_earliest_slot(q.now, DayOf(q.start),
                             DayOf(q.now) + lookahead, busy, rule)]

-----------------------------------------------------------------------------
NoAnswer == [status |-> "asked", alternative |-> -1]

SlotInit ==
  /\ inquiry \in [now : 0..(DayLength - 1), start : Units, lookahead : Lookahead,
                  rule : RawRule, events : Events]
  /\ slotAnswer = NoAnswer

AnswerInquiry ==
  /\ slotAnswer = NoAnswer
  /\ slotAnswer' = requested_availability(inquiry)
  /\ UNCHANGED inquiry

SlotSpec == SlotInit /\ [][AnswerInquiry]_slotVars

-----------------------------------------------------------------------------
(* What the answer should have been, said of times and not of checks. *)

DurationOf(q) == IF q.rule.duration = 0 THEN DefaultDuration ELSE q.rule.duration
HorizonOf(q) == q.now + effective_lookahead(q) * DayLength

\* Every unit of the block is worked and free of events; what lies beyond the
\* period the calendar was asked about is not known to be busy.
Bookable(q, t) ==
  LET day == DayOf(t)
      block == t..(t + DurationOf(q) - 1)
      hours == q.rule.working_hours[WeekdayOf(day)]
  IN /\ t >= q.now /\ t < HorizonOf(q)
     /\ WeekdayOf(day) \in q.rule.service_days /\ day \notin q.rule.date_exceptions
     /\ \E i \in DOMAIN hours :
          block \subseteq day * DayLength + hours[i][1]
                            .. day * DayLength + hours[i][2] - 1
     /\ \A e \in q.events : e[1] < HorizonOf(q) => block \cap (e[1]..(e[2] - 1)) = {}

\* A visit that starts at t fits a window of its day, a whole number of durations
\* after the opening.
OnGrid(q, t) ==
  LET midnight == DayOf(t) * DayLength
      hours == q.rule.working_hours[WeekdayOf(DayOf(t))]
  IN \E i \in DOMAIN hours :
       /\ midnight + hours[i][1] <= t /\ t + DurationOf(q) <= midnight + hours[i][2]
       /\ (t - midnight - hours[i][1]) % DurationOf(q) = 0

\* The starts that the search may offer instead.
Grid(q) == {t \in Units : /\ OnGrid(q, t) /\ Bookable(q, t)
                          /\ DayOf(t) >= DayOf(q.start)
                          /\ DayOf(t) <= DayOf(HorizonOf(q))}

\* The customer is told "free" exactly when the whole visit is worked, within the
\* period and overlapped by no event of it; otherwise the slot offered instead is
\* such a start of the first day that has one from the requested day on (the
\* first of that day when the rule lists its windows in order), and none is
\* offered only when there is none.
SlotAnswersAreRight ==
  slotAnswer # NoAnswer =>
    LET q == inquiry
        grid == Grid(q)
        offer == slotAnswer.alternative
        hours == q.rule.working_hours[WeekdayOf(DayOf(offer))]
    IN IF slotAnswer.status = "available" THEN Bookable(q, q.start)
       ELSE /\ ~Bookable(q, q.start)
            /\ IF grid = {} THEN offer = -1
               ELSE /\ offer \in grid
                    /\ \A t \in grid : DayOf(t) >= DayOf(offer)
                    /\ (\A i, j \in DOMAIN hours : i < j => hours[i][2] <= hours[j][1])
                         => \A t \in grid : offer <= t
=============================================================================
