---------------------------- MODULE UsageMetering ----------------------------
(* Usage of one project: calls of the language model, messages and events of  *)
(* operator tickets are queued in the api, written by its consumer, summed up *)
(* per day by the scheduler's rollup and deleted by its retention. The api    *)
(* and the scheduler share one database and are restarted independently.      *)
EXTENDS Integers, Sequences, FiniteSets

CONSTANTS Model,       \* models of the language model whose calls are recorded
          MaxDay,      \* bound: days
          Lookback,    \* _LOOKBACK_DAYS and the retention, in days
          QueueSize,   \* the recorder's queue
          MaxUse       \* bound: items recorded

ASSUME UsageBounds == /\ Model \cap {"messages", "hitl"} = {}
                      /\ MaxDay \in Nat \ {0} /\ Lookback \in Nat \ {0}
                      /\ QueueSize \in Nat \ {0} /\ MaxUse \in Nat \ {0}

VARIABLES today,
          meter,       \* the recorder: its queue and the item being written
          usageRow,    \* usage_llm_calls by model, usage_messages, usage_hitl_events
          summary,     \* usage_daily_summary: -1 where there is no row
          rollup,      \* the run of the rollup; "read" are counts yet to be written
          ranOn,       \* scheduler_runs.json: last dates of the two jobs
          usageLog     \* ghost: what a day's summary has to count

usageVars == <<today, meter, usageRow, summary, rollup, ranOn, usageLog>>

\* A day's summary has a row per model and one for each of the other trackers.
Tracker == Model \cup {"messages", "hitl"}
UsageDay == 1..MaxDay
NoItem == [tracker |-> "none", day |-> 0]
NothingRead == [m \in Model |-> 0]
NoRollup == [at |-> 0, on |-> 0, day |-> 0, upto |-> 0, read |-> NothingRead]

UsageInit ==
  /\ today = 1
  /\ meter = [queue |-> <<>>, item |-> NoItem, closed |-> FALSE]
  /\ usageRow = [t \in Tracker |-> [d \in UsageDay |-> 0]]
  /\ summary = [t \in Tracker |-> [d \in UsageDay |-> -1]]
  /\ rollup = NoRollup
  /\ ranOn = [rollup |-> 0, retention |-> 0]
  /\ usageLog = [onTime |-> usageRow, excused |-> {}, items |-> 0]

Midnight ==
  /\ today < MaxDay
  /\ today' = today + 1
  /\ UNCHANGED <<meter, usageRow, summary, rollup, ranOn, usageLog>>

\* The item carries the time of the call. A full queue loses its oldest item.
record(t) ==
  /\ ~meter.closed /\ usageLog.items < MaxUse
  /\ usageLog' = [usageLog EXCEPT !.items = @ + 1]
  /\ meter' = [meter EXCEPT !.queue =
       Append(IF Len(@) = QueueSize THEN Tail(@) ELSE @, [tracker |-> t, day |-> today])]
  /\ UNCHANGED <<today, usageRow, summary, rollup, ranOn>>

TakeItem ==
  /\ meter.item = NoItem /\ meter.queue # <<>>
  /\ meter' = [meter EXCEPT !.item = Head(meter.queue), !.queue = Tail(@)]
  /\ UNCHANGED <<today, usageRow, summary, rollup, ranOn, usageLog>>

\* A write that fails loses the item. Rows may land after their day is over.
dispatch ==
  /\ meter.item # NoItem
  /\ meter' = [meter EXCEPT !.item = NoItem]
  /\ LET t == meter.item.tracker
         d == meter.item.day IN
       \/ UNCHANGED <<usageRow, usageLog>>
       \/ /\ usageRow' = [usageRow EXCEPT ![t][d] = @ + 1]
          /\ usageLog' = IF d = today
                           THEN [usageLog EXCEPT !.onTime[t][d] = @ + 1] ELSE usageLog
  /\ UNCHANGED <<today, summary, rollup, ranOn>>

\* A shutdown refuses new items and waits for the queue.
aclose ==
  /\ ~meter.closed
  /\ meter' = [meter EXCEPT !.closed = TRUE]
  /\ UNCHANGED <<today, usageRow, summary, rollup, ranOn, usageLog>>

\* After a shutdown, or a crash, the queue starts empty.
RestartMeter ==
  /\ meter' = [queue |-> <<>>, item |-> NoItem, closed |-> FALSE]
  /\ UNCHANGED <<today, usageRow, summary, rollup, ranOn, usageLog>>

-----------------------------------------------------------------------------
LastSummaryDay ==
  LET days == {d \in UsageDay : \E t \in Tracker : summary[t][d] >= 0}
  IN  IF days = {} THEN 0 ELSE CHOOSE d \in days : \A e \in days : e <= d

Later(a, b) == IF a > b THEN a ELSE b

HasUsage == \E t \in Tracker, d \in UsageDay : usageRow[t][d] > 0

(* Mutant: today is summed up as well. *)
run_rollup_today ==
  /\ rollup.at = 0 /\ ranOn.rollup < today
  /\ LET first == Later(LastSummaryDay + 1, Later(today - Lookback, 1)) IN
       /\ rollup' = [at |-> 1, on |-> today, upto |-> today, read |-> NothingRead,
                    day |-> IF HasUsage THEN first ELSE today + 1]
       /\ usageLog' = [usageLog EXCEPT !.excused =
                         @ \cup {d \in UsageDay : LastSummaryDay < d /\ d <= today - Lookback}]
  /\ UNCHANGED <<today, meter, usageRow, summary, ranOn>>

\* Once per date, a project that has rows is summed up from the day after its
\* last summary of any kind, at most Lookback days back, to yesterday.
run_rollup ==
  /\ rollup.at = 0 /\ ranOn.rollup < today
  /\ LET first == Later(LastSummaryDay + 1, Later(today - Lookback, 1)) IN
       /\ rollup' = [at |-> 1, on |-> today, upto |-> today - 1, read |-> NothingRead,
                    day |-> IF HasUsage THEN first ELSE today]
       /\ usageLog' = [usageLog EXCEPT !.excused =
                         @ \cup {d \in UsageDay : LastSummaryDay < d /\ d <= today - Lookback}]
  /\ UNCHANGED <<today, meter, usageRow, summary, ranOn>>

\* The calls of a day are counted by one statement, for all of the models.
AggregateLlm ==
  /\ rollup.at = 1 /\ rollup.day <= rollup.upto
  /\ rollup' = [rollup EXCEPT !.at = 2, !.read = [m \in Model |-> usageRow[m][rollup.day]]]
  /\ UNCHANGED <<today, meter, usageRow, summary, ranOn, usageLog>>

\* A tracker's row of the day is committed by itself; no usage, no row.
Upsert(t, n) == summary' = IF n > 0 THEN [summary EXCEPT ![t][rollup.day] = n] ELSE summary

UpsertModel(m) ==
  /\ rollup.at = 2 /\ rollup.read[m] > 0
  /\ Upsert(m, rollup.read[m])
  /\ rollup' = [rollup EXCEPT !.read[m] = 0]
  /\ UNCHANGED <<today, meter, usageRow, ranOn, usageLog>>

SumUpMessages ==
  /\ rollup.at = 2 /\ rollup.read = NothingRead
  /\ Upsert("messages", usageRow["messages"][rollup.day])
  /\ rollup' = [rollup EXCEPT !.at = 3]
  /\ UNCHANGED <<today, meter, usageRow, ranOn, usageLog>>

SumUpHitl ==
  /\ rollup.at = 3
  /\ Upsert("hitl", usageRow["hitl"][rollup.day])
  /\ rollup' = [rollup EXCEPT !.at = 1, !.day = @ + 1]
  /\ UNCHANGED <<today, meter, usageRow, ranOn, usageLog>>

SaveState ==
  /\ rollup.at = 1 /\ rollup.day > rollup.upto
  /\ rollup' = NoRollup
  /\ ranOn' = [ranOn EXCEPT !.rollup = rollup.on]
  /\ UNCHANGED <<today, meter, usageRow, summary, usageLog>>

\* A statement fails, which the runner survives, or the scheduler dies: the next
\* run resumes after the day of the last summary row, be it the row of one model.
RollupStops ==
  /\ rollup.at > 0
  /\ rollup' = NoRollup
  /\ usageLog' = [usageLog EXCEPT !.excused = @ \cup
                    {d \in UsageDay : d = rollup.day /\ \E t \in Tracker : summary[t][d] >= 0}]
  /\ UNCHANGED <<today, meter, usageRow, summary, ranOn>>

\* Within the same tick, after the rollup or its failure: rows older than the
\* cutoff go, of the day of the cutoff those before the time of day. A failure
\* after the first tables leaves the rest to the next tick.
Tables == <<Model, {"messages"}, {"hitl"}>>

run_retention ==
  /\ rollup.at = 0 /\ ranOn.retention < today /\ today > Lookback
  /\ \E last \in 1..3, partly \in BOOLEAN :
       /\ usageRow' = [t \in Tracker |-> [d \in UsageDay |->
            IF /\ \E i \in 1..last : t \in Tables[i]
               /\ d < today - Lookback \/ (d = today - Lookback /\ partly)
              THEN 0 ELSE usageRow[t][d]]]
       /\ ranOn' = IF last = 3 THEN [ranOn EXCEPT !.retention = today] ELSE ranOn
  /\ UNCHANGED <<today, meter, summary, rollup, usageLog>>

UsageNext ==
  \/ Midnight \/ TakeItem \/ dispatch \/ aclose \/ RestartMeter
  \/ \E t \in Tracker : record(t)
  \/ run_rollup \/ AggregateLlm \/ (\E m \in Model : UpsertModel(m))
  \/ SumUpMessages \/ SumUpHitl \/ SaveState \/ RollupStops \/ run_retention

UsageSpec == UsageInit /\ [][UsageNext]_usageVars

-----------------------------------------------------------------------------
\* Once the scheduler has saved a run, every earlier day's summary counts, for
\* each model and each other tracker, at least the rows that were written on that
\* day. Excused are days whose summing-up was interrupted after one of their rows
\* was committed, also between the rows of two models, which are never summed up
\* again, and days that no run reached within the lookback.
SummariesAreComplete ==
  \A t \in Tracker, d \in UsageDay :
    d < ranOn.rollup /\ d \notin usageLog.excused /\ usageLog.onTime[t][d] > 0
      => summary[t][d] >= usageLog.onTime[t][d]
=============================================================================
