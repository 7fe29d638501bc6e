--------------------------- MODULE IncidentAlerts ---------------------------
(* Incidents of one critical fingerprint: reports collapse into the open one, *)
(* and an alert goes to the operators' chat unless one went out lately. An    *)
(* alerting report runs on the event loop up to its DM; reports from worker   *)
(* threads and the operators' buttons interleave with it everywhere.          *)
EXTENDS Integers, FiniteSets

CONSTANTS Reporter,     \* requests that may report at a time
          DedupWindow, Debounce,
          MaxMoment,    \* bound: the clock
          MaxIncident   \* bound: incidents

ASSUME AlertBounds == /\ DedupWindow \in Nat /\ Debounce \in Nat \ {0}
                      /\ MaxMoment \in Nat /\ MaxIncident \in Nat \ {0}

VARIABLES moment,
          incident,     \* incidents, and of incident_events the last sent alert
          report,
          alertLog      \* ghost: the DMs, and the answers without one

alertVars == <<moment, incident, report, alertLog>>

Incident == 1..MaxIncident
Never == -1
NoReport == [pc |-> "idle", alerts |-> FALSE, incident |-> 0, overlapped |-> FALSE]

AlertInit ==
  /\ moment = 0
  /\ incident = [i \in Incident |-> [status |-> "none", seen |-> 0, sent |-> Never]]
  /\ report = [r \in Reporter |-> NoReport]
  /\ alertLog = [dms |-> {}, debounced |-> {}]

TimePasses ==
  /\ moment < MaxMoment
  /\ moment' = moment + 1
  /\ UNCHANGED <<incident, report, alertLog>>

OpenIncident == {i \in Incident : incident[i].status = "open"}
FreshIncident == {i \in Incident : incident[i].status = "none"
                                   /\ \A j \in 1..(i - 1) : incident[j].status # "none"}

\* The loop is between the ingest of an alerting report and its DM.
LoopBusy == \E r \in Reporter : report[r].pc = "ingest" /\ report[r].alerts

\* ingest looks for the open incident outside the transaction that follows.
StartReport(r, alerts) ==
  /\ report[r].pc = "idle"
  /\ alerts => ~LoopBusy
  /\ \E i \in IF OpenIncident = {} THEN {0} ELSE OpenIncident :
       report' = [report EXCEPT ![r] = [NoReport EXCEPT !.pc = "ingest", !.alerts = alerts,
                                                        !.incident = i]]
  /\ UNCHANGED <<moment, incident, alertLog>>

EndReport(r) == report' = [report EXCEPT ![r] = NoReport]

\* An incident alerted within the debounce is not alerted again; only the loop
\* writes sent alerts, so nothing comes between this and the ingest.
AlertOn(r, i) ==
  IF ~report[r].alerts
    THEN EndReport(r) /\ UNCHANGED alertLog
    ELSE IF incident[i].sent # Never /\ moment - incident[i].sent < Debounce
      THEN /\ EndReport(r)
           /\ alertLog' = [alertLog EXCEPT !.debounced = @ \cup
                             {[incident |-> i, at |-> moment]}]
      ELSE LET overlap == \E q \in Reporter \ {r} :
                            report[q].pc = "sending" /\ report[q].incident = i IN
           /\ report' = [q \in Reporter |->
                IF q = r THEN [NoReport EXCEPT !.pc = "sending", !.incident = i,
                                               !.overlapped = overlap]
                ELSE IF report[q].pc = "sending" /\ report[q].incident = i
                  THEN [report[q] EXCEPT !.overlapped = TRUE] ELSE report[q]]
           /\ UNCHANGED alertLog

\* A repeat within the window counts in the incident that was read, whatever
\* has become of it.
Collapse(r) ==
  LET i == report[r].incident IN
  /\ report[r].pc = "ingest" /\ i # 0
  /\ moment - incident[i].seen <= DedupWindow
  /\ incident' = [incident EXCEPT ![i].seen = moment]
  /\ AlertOn(r, i)
  /\ UNCHANGED moment

\* The index allows one open incident: when another report has opened one since
\* the read, the insert fails, the transaction undoes the resolution of the
\* expired incident, and the request ends with an error.
OpenNew(r) ==
  LET old == report[r].incident IN
  /\ report[r].pc = "ingest"
  /\ old # 0 => moment - incident[old].seen > DedupWindow
  /\ \E i \in FreshIncident :
       IF OpenIncident \subseteq {old}
         THEN /\ incident' = [j \in Incident |->
                   IF j = i THEN [status |-> "open", seen |-> moment, sent |-> Never]
                   ELSE IF j = old THEN [incident[j] EXCEPT !.status = "resolved"]
                   ELSE incident[j]]
              /\ AlertOn(r, i)
         ELSE /\ EndReport(r)
              /\ UNCHANGED <<incident, alertLog>>
  /\ UNCHANGED moment

DmReaches(r) ==
  alertLog' = [alertLog EXCEPT !.dms = @ \cup
    {[incident |-> report[r].incident, at |-> moment, excused |-> report[r].overlapped]}]

(* Mutant: the alert that went out is not recorded. *)
Deliver_unrecorded(r) ==
  /\ report[r].pc = "sending" /\ ~LoopBusy
  /\ DmReaches(r)
  /\ EndReport(r)
  /\ UNCHANGED <<moment, incident>>

\* The event of the sent alert carries the time after the call.
Deliver(r) ==
  /\ report[r].pc = "sending" /\ ~LoopBusy
  /\ DmReaches(r)
  /\ incident' = [incident EXCEPT ![report[r].incident].sent = moment]
  /\ EndReport(r)
  /\ UNCHANGED moment

\* The call fails, having reached Telegram or not: no event, and the request
\* ends with an error. A DM of such a call is not in the log.
DeliveryFails(r) ==
  /\ report[r].pc = "sending" /\ ~LoopBusy
  /\ EndReport(r)
  /\ UNCHANGED <<moment, incident, alertLog>>

\* The flag of read incidents, which only lists read, is left out.
resolve(i) ==
  /\ incident[i].status # "none"
  /\ incident' = [incident EXCEPT ![i].status = "resolved"]
  /\ UNCHANGED <<moment, report, alertLog>>

AlertNext ==
  \/ TimePasses
  \/ \E r \in Reporter : \/ \E alerts \in BOOLEAN : StartReport(r, alerts)
                         \/ Collapse(r) \/ OpenNew(r) \/ Deliver(r) \/ DeliveryFails(r)
  \/ \E i \in Incident : resolve(i)

AlertSpec == AlertInit /\ [][AlertNext]_alertVars

-----------------------------------------------------------------------------
\* Two alerts of one incident are at least the debounce apart, unless they were
\* under way at the same time or one was sent without its call returning; and
\* who is answered "debounced" had an alert of that incident go out within the
\* debounce. One incident of the fingerprint is open at most.
AlertsAreDebounced ==
  /\ \A a, b \in alertLog.dms :
       a.incident = b.incident /\ a.at < b.at /\ ~a.excused /\ ~b.excused
         => b.at - a.at >= Debounce
  /\ \A d \in alertLog.debounced : \E a \in alertLog.dms :
       a.incident = d.incident /\ a.at <= d.at /\ d.at - a.at < Debounce
  /\ Cardinality(OpenIncident) <= 1
=============================================================================
