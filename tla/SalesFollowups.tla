--------------------------- MODULE SalesFollowups ---------------------------
(***************************************************************************)
(* The proactive nudge of the sales persona.                               *)
(*                                                                         *)
(* A customer turn (POST /conversations/inbound) cancels the chat's        *)
(* scheduled follow-up, reads the conversation state, runs the sales       *)
(* answerer on that copy, saves the state it arrived at and queues a       *)
(* follow-up for the next day.  The scheduler, a process of its own, asks  *)
(* the api every minute for the rows that are due and handles them one     *)
(* after the other: skip, reschedule, or fire.  The fire handler of the    *)
(* api also reads the state, renders a text with the LLM, sends it, marks  *)
(* the row and saves the state.  Turns and fires run side by side; queue   *)
(* and state are SQLite tables and survive a crash.                        *)
(***************************************************************************)
EXTENDS Naturals, Sequences, FiniteSets

CONSTANTS
  Turn,       \* customer messages: one inbound handler each
  Chat,       \* chat_ids
  chatOf,     \* the chat of a turn
  Call,       \* fire requests the api may be working on at a time
  NoCall,     \* the scheduler waits for none
  Faults      \* how often each kind of fault may strike: bounds the model

\* A store fails a fire handler; the scheduler's call for a row fails, its
\* client times out, or it dies; the api dies; a row that is due is met in the
\* quiet hours.
FaultKind == {"fireRaises", "abandoned", "apiCrash", "quietHours"}

ASSUME ChatAssumption == chatOf \in [Turn -> Chat]
ASSUME CallAssumption == NoCall \notin Call
ASSUME FaultsAssumption == Faults \in [FaultKind -> Nat]

VARIABLES
  queue,      \* sales_followup_queue, in the order of the ids
  due,        \* rows whose fire_at has passed
  saved,      \* saved[c]: the turns that c's stored state derives from
  turn,       \* turn[t]: where the handler of t stands
  copy,       \* copy[t]: the state t has read
  fire,       \* fire[k]: the stage, row and state copy of a fire handler
  batch,      \* rows the scheduler has listed and not handled yet
  calling,    \* the fire request the scheduler waits for
  nudges,     \* nudges[r]: how many times the customer got the nudge of row r
  raced,      \* chats whose state two handlers have held at the same time
  budget      \* faults that may still strike

scheduler == <<batch, calling>>
turns == <<turn, copy>>
vars == <<queue, due, saved, turn, copy, fire, batch, calling, nudges, raced, budget>>

Status == {"scheduled", "sent", "skipped_stale", "cancelled_replied", "cancelled_replaced"}
Row == [chat : Chat, status : Status]
IdleFire == [stage |-> "idle", row |-> 0, copy |-> {}]

TypeOK ==
  /\ queue \in Seq(Row)
  /\ due \subseteq DOMAIN queue
  /\ saved \in [Chat -> SUBSET Turn]
  /\ turn \in [Turn -> {"new", "reading", "thinking", "saved", "aside", "kept", "skipped"}]
  /\ copy \in [Turn -> SUBSET Turn]
  /\ fire \in [Call -> [stage : {"idle", "reading", "rendering", "marking", "saving"},
                        row : 0..Len(queue), copy : SUBSET Turn]]
  /\ batch \subseteq DOMAIN queue
  /\ calling \in Call \cup {NoCall}
  /\ nudges \in Seq(Nat)
  /\ Len(nudges) = Len(queue)
  /\ raced \subseteq Chat
  /\ budget \in [FaultKind -> Nat]

Init ==
  /\ queue = << >>
  /\ due = {}
  /\ saved = [c \in Chat |-> {}]
  /\ turn = [t \in Turn |-> "new"]
  /\ copy = [t \in Turn |-> {}]
  /\ fire = [k \in Call |-> IdleFire]
  /\ batch = {}
  /\ calling = NoCall
  /\ nudges = << >>
  /\ raced = {}
  /\ budget = Faults

Spend(f) ==
  /\ budget[f] > 0
  /\ budget' = [budget EXCEPT ![f] = @ - 1]

\* The queue with every scheduled row of c put in another status.
Cancelled(c, status) ==
  [r \in DOMAIN queue |->
     IF queue[r].chat = c /\ queue[r].status = "scheduled"
       THEN [queue[r] EXCEPT !.status = status] ELSE queue[r]]

Marked(r, status) == [queue EXCEPT ![r].status = status]

\* The handlers that hold a copy of c's state and may yet save it.
HoldsCopy(c) ==
  \/ \E t \in Turn : chatOf[t] = c /\ turn[t] = "thinking"
  \/ \E k \in Call : /\ fire[k].stage \in {"rendering", "marking", "saving"}
                     /\ queue[fire[k].row].chat = c

CopyTaken(c) == raced' = IF HoldsCopy(c) THEN raced \cup {c} ELSE raced

-----------------------------------------------------------------------------
(* A customer turn. *)

\* The message is in: its chat's scheduled rows are cancelled.
CancelOnReply(t) ==
  /\ turn[t] = "new"
  /\ queue' = Cancelled(chatOf[t], "cancelled_replied")
  /\ turn' = [turn EXCEPT ![t] = "reading"]
  /\ UNCHANGED <<due, saved, copy, fire, scheduler, nudges, raced, budget>>

ReadState(t) ==
  /\ turn[t] = "reading"
  /\ copy' = [copy EXCEPT ![t] = saved[chatOf[t]]]
  /\ turn' = [turn EXCEPT ![t] = "thinking"]
  /\ CopyTaken(chatOf[t])
  /\ UNCHANGED <<queue, due, saved, fire, scheduler, nudges, budget>>

\* The answerer saves the copy with what this message added to it.
SaveState(t) ==
  /\ turn[t] = "thinking"
  /\ saved' = [saved EXCEPT ![chatOf[t]] = copy[t] \cup {t}]
  /\ copy' = [copy EXCEPT ![t] = {}]
  /\ turn' = [turn EXCEPT ![t] = "saved"]
  /\ UNCHANGED <<queue, due, fire, scheduler, nudges, raced, budget>>

\* A question about the catalogue or a term is answered without a save, and
\* still queues a nudge.
AnswerAside(t) ==
  /\ turn[t] = "thinking"
  /\ copy' = [copy EXCEPT ![t] = {}]
  /\ turn' = [turn EXCEPT ![t] = "aside"]
  /\ UNCHANGED <<queue, due, saved, fire, scheduler, nudges, raced, budget>>

\* Or it answers with neither, passes the message on, fails, or is cancelled by
\* the time limit.
PassOn(t) ==
  /\ turn[t] = "thinking"
  /\ copy' = [copy EXCEPT ![t] = {}]
  /\ turn' = [turn EXCEPT ![t] = "skipped"]
  /\ UNCHANGED <<queue, due, saved, fire, scheduler, nudges, raced, budget>>

\* Mutant of Enqueue: the prior scheduled rows stay.
EnqueueBeside(t) ==
  /\ turn[t] \in {"saved", "aside"}
  /\ queue' = Append(queue, [chat |-> chatOf[t], status |-> "scheduled"])
  /\ nudges' = Append(nudges, 0)
  /\ turn' = [turn EXCEPT ![t] = IF @ = "saved" THEN "kept" ELSE "skipped"]
  /\ UNCHANGED <<due, saved, copy, fire, scheduler, raced, budget>>

\* A handled turn queues one nudge in place of any scheduled one.
Enqueue(t) ==
  /\ turn[t] \in {"saved", "aside"}
  /\ queue' = Append(Cancelled(chatOf[t], "cancelled_replaced"),
                     [chat |-> chatOf[t], status |-> "scheduled"])
  /\ nudges' = Append(nudges, 0)
  /\ turn' = [turn EXCEPT ![t] = IF @ = "saved" THEN "kept" ELSE "skipped"]
  /\ UNCHANGED <<due, saved, copy, fire, scheduler, raced, budget>>

\* No nudge after a cancellation or the like, or when the queue fails.
SuppressFollowup(t) ==
  /\ turn[t] = "saved"
  /\ turn' = [turn EXCEPT ![t] = "kept"]
  /\ UNCHANGED <<queue, due, saved, copy, fire, scheduler, nudges, raced, budget>>

-----------------------------------------------------------------------------
(* The scheduler. *)

\* A day has passed, or the quiet hours have.
FallDue(r) ==
  /\ r \notin due
  /\ due' = due \cup {r}
  /\ UNCHANGED <<queue, saved, turns, fire, scheduler, nudges, raced, budget>>

\* Mutant of DueRows: the status is not part of the query.
DueWhatever == due

DueRows == {r \in due : queue[r].status = "scheduled"}

\* One tick: the due rows are listed, and then handled one after the other.
ListDue ==
  /\ batch = {}
  /\ calling = NoCall
  /\ DueRows # {}
  /\ batch' = DueRows
  /\ UNCHANGED <<queue, due, saved, turns, fire, calling, nudges, raced, budget>>

\* The tour date has passed: the row is closed, whatever its status is by now.
SkipStale(r) ==
  /\ calling = NoCall
  /\ r \in batch
  /\ batch' = batch \ {r}
  /\ queue' = Marked(r, "skipped_stale")
  /\ UNCHANGED <<due, saved, turns, fire, calling, nudges, raced, budget>>

\* Quiet hours: a row that is still scheduled waits until the morning.
Reschedule(r) ==
  /\ calling = NoCall
  /\ r \in batch
  /\ Spend("quietHours")
  /\ batch' = batch \ {r}
  /\ due' = IF queue[r].status = "scheduled" THEN due \ {r} ELSE due
  /\ UNCHANGED <<queue, saved, turns, fire, calling, nudges, raced>>

\* Otherwise the api is asked to fire it; it does not look at the status.
StartFire(r, k) ==
  /\ calling = NoCall
  /\ r \in batch
  /\ fire[k].stage = "idle"
  /\ batch' = batch \ {r}
  /\ calling' = k
  /\ fire' = [fire EXCEPT ![k] = [stage |-> "reading", row |-> r, copy |-> {}]]
  /\ UNCHANGED <<queue, due, saved, turns, nudges, raced, budget>>

\* The call for a row fails: the row is left for a later tick.
DispatchFails(r) ==
  /\ calling = NoCall
  /\ r \in batch
  /\ Spend("abandoned")
  /\ batch' = batch \ {r}
  /\ UNCHANGED <<queue, due, saved, turns, fire, calling, nudges, raced>>

\* The scheduler's client gives up; the api goes on.
FireTimesOut ==
  /\ calling # NoCall
  /\ Spend("abandoned")
  /\ calling' = NoCall
  /\ UNCHANGED <<queue, due, saved, turns, fire, batch, nudges, raced>>

RestartScheduler ==
  /\ Spend("abandoned")
  /\ batch' = {}
  /\ calling' = NoCall
  /\ UNCHANGED <<queue, due, saved, turns, fire, nudges, raced>>

-----------------------------------------------------------------------------
(* The fire handler. *)

EndFire(k) ==
  /\ fire' = [fire EXCEPT ![k] = IdleFire]
  /\ calling' = IF calling = k THEN NoCall ELSE calling

\* Mutant of ReadForNudge: the handler works without the stored state.
RenderBlind(k) ==
  /\ fire[k].stage = "reading"
  /\ fire' = [fire EXCEPT ![k].stage = "rendering"]
  /\ CopyTaken(queue[fire[k].row].chat)
  /\ UNCHANGED <<queue, due, saved, turns, scheduler, nudges, budget>>

ReadForNudge(k) ==
  /\ fire[k].stage = "reading"
  /\ LET c == queue[fire[k].row].chat
     IN /\ fire' = [fire EXCEPT ![k].stage = "rendering", ![k].copy = saved[c]]
        /\ CopyTaken(c)
  /\ UNCHANGED <<queue, due, saved, turns, scheduler, nudges, budget>>

SendNudge(k) ==
  /\ fire[k].stage = "rendering"
  /\ nudges' = [nudges EXCEPT ![fire[k].row] = @ + 1]
  /\ fire' = [fire EXCEPT ![k].stage = "marking"]
  /\ UNCHANGED <<queue, due, saved, turns, scheduler, raced, budget>>

\* Mutants of NudgeFails: the row stays scheduled for the next tick; it gets a
\* status that the queue does not know.
NudgeRetried(k) ==
  /\ fire[k].stage = "rendering"
  /\ EndFire(k)
  /\ UNCHANGED <<queue, due, saved, turns, batch, nudges, raced, budget>>

NudgeFailsUnknown(k) ==
  /\ fire[k].stage = "rendering"
  /\ queue' = Marked(fire[k].row, "failed")
  /\ EndFire(k)
  /\ UNCHANGED <<due, saved, turns, batch, nudges, raced, budget>>

\* The queue is single-shot: a nudge that Telegram refuses, or that it takes
\* without a confirmation, is not retried.
NudgeFails(k) ==
  /\ fire[k].stage = "rendering"
  /\ nudges' \in {nudges, [nudges EXCEPT ![fire[k].row] = @ + 1]}
  /\ queue' = Marked(fire[k].row, "skipped_stale")
  /\ EndFire(k)
  /\ UNCHANGED <<due, saved, turns, batch, raced, budget>>

\* Mutant of MarkSent: the mark is forgotten.
MarkNothing(k) ==
  /\ fire[k].stage = "marking"
  /\ fire' = [fire EXCEPT ![k].stage = "saving"]
  /\ UNCHANGED <<queue, due, saved, turns, scheduler, nudges, raced, budget>>

MarkSent(k) ==
  /\ fire[k].stage = "marking"
  /\ queue' = Marked(fire[k].row, "sent")
  /\ fire' = [fire EXCEPT ![k].stage = "saving"]
  /\ UNCHANGED <<due, saved, turns, scheduler, nudges, raced, budget>>

\* A store raises when it is read or when the row is marked, as sent or as
\* skipped: 500, and the row is as it was.
FireRaises(k) ==
  /\ fire[k].stage \in {"reading", "rendering", "marking"}
  /\ Spend("fireRaises")
  /\ EndFire(k)
  /\ UNCHANGED <<queue, due, saved, turns, batch, nudges, raced>>

\* The state is stamped with the time of the nudge: the copy is saved whole.
SaveNudge(k) ==
  /\ fire[k].stage = "saving"
  /\ saved' = [saved EXCEPT ![queue[fire[k].row].chat] = fire[k].copy]
  /\ EndFire(k)
  /\ UNCHANGED <<queue, due, turns, batch, nudges, raced, budget>>

\* The api dies: its handlers are gone and the scheduler's call fails.
CrashApi ==
  /\ Spend("apiCrash")
  /\ turn' = [t \in Turn |-> CASE turn[t] \in {"reading", "thinking", "aside"} -> "skipped"
                               [] turn[t] = "saved" -> "kept"
                               [] OTHER -> turn[t]]
  /\ copy' = [t \in Turn |-> {}]
  /\ fire' = [k \in Call |-> IdleFire]
  /\ calling' = NoCall
  /\ UNCHANGED <<queue, due, saved, batch, nudges, raced>>

-----------------------------------------------------------------------------
Reply(t) ==
  \/ CancelOnReply(t) \/ ReadState(t) \/ SaveState(t) \/ AnswerAside(t)
  \/ PassOn(t) \/ Enqueue(t) \/ SuppressFollowup(t)

Dispatch(r) == SkipStale(r) \/ Reschedule(r) \/ \E k \in Call : StartFire(r, k)

Fire(k) == ReadForNudge(k) \/ SendNudge(k) \/ MarkSent(k) \/ SaveNudge(k)

Next ==
  \/ \E t \in Turn : Reply(t)
  \/ \E r \in DOMAIN queue : FallDue(r) \/ Dispatch(r) \/ DispatchFails(r)
  \/ \E k \in Call : Fire(k) \/ NudgeFails(k) \/ FireRaises(k)
  \/ ListDue \/ FireTimesOut \/ RestartScheduler \/ CrashApi

Spec == Init /\ [][Next]_vars

\* Time passes, the scheduler ticks and works through its list, and the api
\* answers; customers owe nothing.
Fairness ==
  /\ \A r \in 1..Cardinality(Turn) :
       /\ WF_vars(r \in DOMAIN queue /\ FallDue(r))
       /\ WF_vars(r \in DOMAIN queue /\ Dispatch(r))
  /\ \A k \in Call : WF_vars(Fire(k))
  /\ WF_vars(ListDue)

FairSpec == Spec /\ Fairness

-----------------------------------------------------------------------------
(* Properties. *)

NoFault(F) == \A f \in F : budget[f] = Faults[f]

\* A silent customer has at most one outstanding nudge, the one of the latest
\* turn that queued any, in whatever order turns, ticks and replies come.
OutstandingIsLatest ==
  \A r \in DOMAIN queue : queue[r].status = "scheduled" =>
    \A s \in DOMAIN queue : queue[s].chat = queue[r].chat => s <= r

\* A row is nudged at most once as long as no call of the scheduler times out,
\* no process dies and no store fails a fire handler.
OneNudgePerRow ==
  NoFault({"fireRaises", "abandoned", "apiCrash"})
    => \A r \in DOMAIN queue : nudges[r] <= 1

\* The rows a tick has listed, and those whose fire is under way.
InHand == batch \cup {fire[k].row : k \in {j \in Call : fire[j].stage # "idle"}}

\* A reply that is in before a tick lists the row, or after the row is done
\* with, is final: a row that is not scheduled then is never nudged again.
CancelledStaysQuiet ==
  [][\A r \in DOMAIN queue :
       queue[r].status # "scheduled" /\ r \notin InHand
         => r \notin InHand' /\ nudges'[r] = nudges[r]]_vars

\* Handlers of a chat that never held its state at the same time lose nothing:
\* the stored state derives from every turn that saved it, and nudges in
\* between change nothing.
SerialTurnsAreKept ==
  \A c \in Chat \ raced :
    saved[c] = {t \in Turn : chatOf[t] = c /\ turn[t] \in {"saved", "kept"}}

Scheduled(r) == r \in DOMAIN queue /\ queue[r].status = "scheduled"

\* A scheduled row is settled in the end: sent, skipped or cancelled.
ScheduledIsSettled ==
  \A r \in 1..Cardinality(Turn) : Scheduled(r) ~> ~Scheduled(r)

\* What followup_cancel_hook.py promises: a reply that arrives at the instant
\* the queue fires does not get the nudge on top.
NoNudgeAfterReply ==
  [][\A r \in DOMAIN queue :
       nudges'[r] # nudges[r] => queue[r].status # "cancelled_replied"]_vars
=============================================================================
