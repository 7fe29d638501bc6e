------------------------ MODULE SalesFollowupsProofs ------------------------
(* Theorems about SalesFollowups, for any turns, chats and fire requests   *)
(* and any number of faults.                                               *)
EXTENDS SalesFollowups, SequenceTheorems, TLAPS

USE ChatAssumption, CallAssumption, FaultsAssumption

-----------------------------------------------------------------------------
(* The writes of the queue. *)

\* The table is a function of the ids given out so far.
LEMMA RowIds ==
  ASSUME TypeOK
  PROVE  /\ Len(queue) \in Nat
         /\ DOMAIN queue = 1..Len(queue)
         /\ DOMAIN nudges = 1..Len(queue)
         /\ \A r \in DOMAIN queue : queue[r] \in Row /\ nudges[r] \in Nat
<1>1. queue \in Seq(Row) /\ nudges \in Seq(Nat) /\ Len(nudges) = Len(queue)
  BY DEF TypeOK
<1> QED
  BY <1>1, LenProperties, ElementOfSeq

\* Cancelling touches the scheduled rows of the one chat.
LEMMA CancelWrites ==
  ASSUME TypeOK, NEW c \in Chat, NEW s \in Status, s # "scheduled"
  PROVE  /\ Cancelled(c, s) \in Seq(Row)
         /\ Len(Cancelled(c, s)) = Len(queue)
         /\ \A r \in DOMAIN queue :
              /\ Cancelled(c, s)[r].chat = queue[r].chat
              /\ Cancelled(c, s)[r].status = "scheduled" <=>
                   queue[r].status = "scheduled" /\ queue[r].chat # c
<1>1. /\ Len(queue) \in Nat /\ DOMAIN queue = 1..Len(queue)
      /\ \A r \in DOMAIN queue : queue[r] \in Row
  BY RowIds
<1>2. \A r \in DOMAIN queue :
        /\ Cancelled(c, s)[r] \in Row
        /\ Cancelled(c, s)[r].chat = queue[r].chat
        /\ Cancelled(c, s)[r].status = "scheduled" <=>
             queue[r].status = "scheduled" /\ queue[r].chat # c
  BY <1>1 DEF Cancelled, Row
<1>3. Cancelled(c, s) \in [1..Len(queue) -> Row]
  BY <1>1, <1>2 DEF Cancelled
<1>4. Cancelled(c, s) \in Seq(Row)
  BY <1>1, <1>3, SeqDef
<1>5. Len(Cancelled(c, s)) = Len(queue)
  BY <1>1, <1>3, <1>4, LenProperties
<1> QED
  BY <1>2, <1>4, <1>5

\* A mark touches the one row it names.
LEMMA MarkWrites ==
  ASSUME TypeOK, NEW r \in DOMAIN queue, NEW s \in Status, s # "scheduled"
  PROVE  /\ Marked(r, s) \in Seq(Row)
         /\ Len(Marked(r, s)) = Len(queue)
         /\ Marked(r, s)[r].status # "scheduled"
         /\ \A q \in DOMAIN queue :
              /\ Marked(r, s)[q].chat = queue[q].chat
              /\ q # r => Marked(r, s)[q] = queue[q]
<1> DEFINE row == [queue[r] EXCEPT !.status = s]
<1>1. queue \in Seq(Row) /\ r \in 1..Len(queue) /\ DOMAIN queue = 1..Len(queue)
  BY RowIds DEF TypeOK
<1>2. queue[r] \in Row
  BY RowIds
<1>3. row \in Row /\ row.status = s /\ row.chat = queue[r].chat
  BY <1>2 DEF Row
<1>4. Marked(r, s) = [queue EXCEPT ![r] = row]
  BY DEF Marked
<1> HIDE DEF row
<1>5. /\ Marked(r, s) \in Seq(Row)
      /\ Len(Marked(r, s)) = Len(queue)
      /\ \A q \in 1..Len(queue) : Marked(r, s)[q] = IF q = r THEN row ELSE queue[q]
  BY <1>1, <1>3, <1>4, ExceptSeq
<1> QED
  BY <1>1, <1>3, <1>5

\* A nudge is counted for the one row it names.
LEMMA CountWrites ==
  ASSUME TypeOK, NEW r \in DOMAIN queue,
         nudges' = [nudges EXCEPT ![r] = @ + 1]
  PROVE  /\ nudges' \in Seq(Nat)
         /\ Len(nudges') = Len(nudges)
         /\ nudges'[r] = nudges[r] + 1
         /\ \A q \in DOMAIN queue : q # r => nudges'[q] = nudges[q]
<1>1. nudges \in Seq(Nat) /\ Len(nudges) = Len(queue) /\ nudges[r] + 1 \in Nat
  BY RowIds DEF TypeOK
<1>2. DOMAIN queue = 1..Len(nudges)
  BY <1>1, RowIds
<1>3. /\ nudges' \in Seq(Nat) /\ Len(nudges') = Len(nudges)
      /\ \A q \in 1..Len(nudges) : nudges'[q] = IF q = r THEN nudges[r] + 1 ELSE nudges[q]
  BY <1>1, <1>2, ExceptSeq
<1> QED
  BY <1>2, <1>3

\* A turn's nudge gets the next id, and leaves no other row of its chat
\* scheduled.
LEMMA EnqueueWrites ==
  ASSUME TypeOK, NEW t \in Turn, Enqueue(t)
  PROVE  /\ queue' \in Seq(Row) /\ nudges' \in Seq(Nat)
         /\ Len(queue') = Len(queue) + 1 /\ Len(nudges') = Len(queue')
         /\ queue'[Len(queue) + 1] = [chat |-> chatOf[t], status |-> "scheduled"]
         /\ nudges'[Len(queue) + 1] = 0
         /\ \A r \in DOMAIN queue :
              /\ queue'[r].chat = queue[r].chat
              /\ queue'[r].status = "scheduled" <=>
                   queue[r].status = "scheduled" /\ queue[r].chat # chatOf[t]
              /\ nudges'[r] = nudges[r]
<1> DEFINE rest == Cancelled(chatOf[t], "cancelled_replaced")
           row == [chat |-> chatOf[t], status |-> "scheduled"]
<1>0. DOMAIN queue = 1..Len(queue)
  BY RowIds
<1>1. row \in Row
  BY DEF Row, Status
<1>2. /\ rest \in Seq(Row) /\ Len(rest) = Len(queue)
      /\ \A r \in DOMAIN queue :
           /\ rest[r].chat = queue[r].chat
           /\ rest[r].status = "scheduled" <=>
                queue[r].status = "scheduled" /\ queue[r].chat # chatOf[t]
  BY CancelWrites DEF Status
<1>3. queue' = Append(rest, row) /\ nudges' = Append(nudges, 0)
  BY DEF Enqueue
<1>4. nudges \in Seq(Nat) /\ Len(nudges) = Len(queue) /\ 0 \in Nat
  BY DEF TypeOK
<1> HIDE DEF rest, row
<1>5. /\ queue' \in Seq(Row) /\ Len(queue') = Len(queue) + 1
      /\ queue'[Len(queue) + 1] = row
      /\ \A r \in 1..Len(queue) : queue'[r] = rest[r]
  BY <1>1, <1>2, <1>3, AppendProperties
<1>6. /\ nudges' \in Seq(Nat) /\ Len(nudges') = Len(queue) + 1
      /\ nudges'[Len(queue) + 1] = 0
      /\ \A r \in 1..Len(queue) : nudges'[r] = nudges[r]
  BY <1>3, <1>4, AppendProperties
<1> QED
  BY <1>0, <1>2, <1>5, <1>6 DEF row


-----------------------------------------------------------------------------
(* The invariant that makes the types inductive. *)

\* Steps of a turn that leave the queue alone.
Talk(t) ==
  \/ ReadState(t) \/ SaveState(t) \/ AnswerAside(t) \/ PassOn(t)
  \/ SuppressFollowup(t)

\* Steps of the scheduler that write no status.
Tick ==
  \/ ListDue \/ FireTimesOut \/ RestartScheduler
  \/ \E r \in DOMAIN queue :
       \/ FallDue(r) \/ Reschedule(r) \/ DispatchFails(r)
       \/ \E k \in Call : StartFire(r, k)

LEMMA NextCases ==
  ASSUME Next
  PROVE  \/ \E t \in Turn : Talk(t)
         \/ \E t \in Turn : CancelOnReply(t)
         \/ \E t \in Turn : Enqueue(t)
         \/ Tick
         \/ \E r \in DOMAIN queue : SkipStale(r)
         \/ \E k \in Call : ReadForNudge(k)
         \/ \E k \in Call : SendNudge(k)
         \/ \E k \in Call : NudgeFails(k)
         \/ \E k \in Call : MarkSent(k)
         \/ \E k \in Call : SaveNudge(k)
         \/ \E k \in Call : FireRaises(k)
         \/ CrashApi
  BY DEF Next, Reply, Dispatch, Fire, Talk, Tick

\* A fire that is under way names a row of the table.
HandInv == \A k \in Call : fire[k].stage # "idle" => fire[k].row \in 1..Len(queue)

BudgetInv == /\ budget \in [FaultKind -> Nat]
             /\ \A f \in FaultKind : budget[f] <= Faults[f]

TypeInv == TypeOK /\ HandInv /\ BudgetInv

LEMMA InitTypes == Init => TypeInv
<1> SUFFICES ASSUME Init PROVE TypeInv
  OBVIOUS
<1>1. /\ queue \in Seq(Row) /\ Len(queue) = 0
      /\ nudges \in Seq(Nat) /\ Len(nudges) = 0
  BY EmptySeq DEF Init
<1> QED
  BY <1>1 DEF Init, TypeInv, TypeOK, HandInv, BudgetInv, IdleFire

\* A fault that strikes stays within its budget; a step that is none, too.
LEMMA SpendTypes ==
  ASSUME BudgetInv, NEW f \in FaultKind, Spend(f)
  PROVE  BudgetInv' /\ budget'[f] < Faults[f]
BY DEF BudgetInv, Spend

LEMMA KeepTypes ==
  ASSUME BudgetInv, UNCHANGED budget PROVE BudgetInv'
BY DEF BudgetInv

LEMMA TalkTypes ==
  ASSUME TypeInv, NEW t \in Turn, Talk(t) PROVE TypeInv'
<1>1. BudgetInv'
  BY KeepTypes
  DEF TypeInv, Talk, ReadState, SaveState, AnswerAside, PassOn, SuppressFollowup
<1> USE <1>1 DEF TypeInv, TypeOK, HandInv, scheduler
<1>2. CASE ReadState(t) BY <1>2 DEF ReadState, CopyTaken
<1>3. CASE SaveState(t) BY <1>3 DEF SaveState
<1>4. CASE AnswerAside(t) BY <1>4 DEF AnswerAside
<1>5. CASE PassOn(t) BY <1>5 DEF PassOn
<1>6. CASE SuppressFollowup(t) BY <1>6 DEF SuppressFollowup
<1> QED
  BY <1>2, <1>3, <1>4, <1>5, <1>6 DEF Talk

LEMMA TickTypes ==
  ASSUME TypeInv, Tick PROVE TypeInv'
<1>0. BudgetInv /\ DOMAIN queue = 1..Len(queue) /\ Len(queue) \in Nat
  BY RowIds DEF TypeInv
<1> USE <1>0 DEF TypeInv, TypeOK, HandInv, turns
<1>1. CASE ListDue
  BY <1>1, KeepTypes DEF ListDue, DueRows
<1>2. CASE FireTimesOut
  BY <1>2, SpendTypes DEF FireTimesOut, FaultKind, BudgetInv
<1>3. CASE RestartScheduler
  BY <1>3, SpendTypes DEF RestartScheduler, FaultKind, BudgetInv
<1>4. ASSUME NEW r \in DOMAIN queue, FallDue(r) PROVE TypeInv'
  BY <1>4, KeepTypes DEF FallDue, scheduler
<1>5. ASSUME NEW r \in DOMAIN queue, Reschedule(r) PROVE TypeInv'
  BY <1>5, SpendTypes DEF Reschedule, FaultKind, BudgetInv
<1>6. ASSUME NEW r \in DOMAIN queue, DispatchFails(r) PROVE TypeInv'
  BY <1>6, SpendTypes DEF DispatchFails, FaultKind, BudgetInv
<1>7. ASSUME NEW r \in DOMAIN queue, NEW k \in Call, StartFire(r, k) PROVE TypeInv'
  BY <1>7, KeepTypes DEF StartFire
<1> QED
  BY <1>1, <1>2, <1>3, <1>4, <1>5, <1>6, <1>7 DEF Tick

\* What a fire handler may hold.
Work == [stage : {"idle", "reading", "rendering", "marking", "saving"},
         row : 0..Len(queue), copy : SUBSET Turn]

\* Statuses are written; no row comes or goes.
LEMMA RowWritten ==
  ASSUME TypeInv, queue' \in Seq(Row), Len(queue') = Len(queue),
         nudges' \in Seq(Nat), Len(nudges') = Len(nudges),
         UNCHANGED <<due, saved, raced, budget>>, batch' \subseteq batch,
         turn' \in [Turn -> {"new", "reading", "thinking", "saved", "aside", "kept", "skipped"}],
         copy' \in [Turn -> SUBSET Turn],
         calling' \in Call \cup {NoCall},
         fire' \in [Call -> Work],
         \A k \in Call : fire'[k].stage = "idle" \/ (/\ fire[k].stage # "idle"
                                                     /\ fire'[k].row = fire[k].row)
  PROVE  TypeInv'
<1>1. DOMAIN queue' = DOMAIN queue
  BY LenProperties DEF TypeInv, TypeOK
<1> QED
  BY <1>1 DEF TypeInv, TypeOK, HandInv, BudgetInv, Work

\* The handler of k is done, or goes on with its row.
LEMMA FireMoves ==
  ASSUME TypeInv, NEW k \in Call, fire[k].stage # "idle",
         \/ EndFire(k)
         \/ \E s \in {"rendering", "marking", "saving"} :
              fire' = [fire EXCEPT ![k].stage = s] /\ UNCHANGED calling
  PROVE  /\ calling' \in Call \cup {NoCall}
         /\ fire' \in [Call -> Work]
         /\ \A j \in Call : \/ fire'[j].stage = "idle"
                            \/ fire[j].stage # "idle" /\ fire'[j].row = fire[j].row
<1>0. /\ Len(queue) \in Nat /\ fire \in [Call -> Work]
      /\ calling \in Call \cup {NoCall}
  BY RowIds DEF TypeInv, TypeOK, Work
<1>1. CASE EndFire(k)
  BY <1>0, <1>1 DEF EndFire, IdleFire, Work
<1>2. ASSUME NEW s \in {"rendering", "marking", "saving"},
             fire' = [fire EXCEPT ![k].stage = s], UNCHANGED calling
      PROVE  /\ calling' \in Call \cup {NoCall}
             /\ fire' \in [Call -> Work]
             /\ \A j \in Call : \/ fire'[j].stage = "idle"
                                \/ fire[j].stage # "idle" /\ fire'[j].row = fire[j].row
  <2> DEFINE moved == [fire[k] EXCEPT !.stage = s]
  <2>1. moved \in Work /\ moved.row = fire[k].row
    BY <1>0, SMTT(30) DEF Work
  <2>2. fire' = [fire EXCEPT ![k] = moved]
    BY <1>2
  <2> HIDE DEF moved
  <2> QED BY <1>0, <1>2, <2>1, <2>2
<1> QED
  BY <1>1, <1>2

LEMMA StepTypes == TypeInv /\ [Next]_vars => TypeInv'
<1> SUFFICES ASSUME TypeInv, [Next]_vars PROVE TypeInv'
  OBVIOUS
<1>0. /\ TypeOK /\ BudgetInv /\ HandInv
      /\ DOMAIN queue = 1..Len(queue) /\ Len(queue) \in Nat
  BY RowIds DEF TypeInv
<1>1. ASSUME NEW t \in Turn, Talk(t) PROVE TypeInv'
  BY <1>1, TalkTypes
<1>2. ASSUME NEW t \in Turn, CancelOnReply(t) PROVE TypeInv'
  <2>1. queue' \in Seq(Row) /\ Len(queue') = Len(queue)
    BY <1>0, <1>2, CancelWrites DEF CancelOnReply, Status
  <2> QED BY <1>0, <1>2, <2>1, RowWritten DEF CancelOnReply, scheduler, TypeOK, Work
<1>3. ASSUME NEW t \in Turn, Enqueue(t) PROVE TypeInv'
  <2>1. /\ queue' \in Seq(Row) /\ nudges' \in Seq(Nat)
        /\ Len(queue') = Len(queue) + 1 /\ Len(nudges') = Len(queue')
    BY <1>0, <1>3, EnqueueWrites
  <2>2. DOMAIN queue' = 1..(Len(queue) + 1)
    BY <2>1, LenProperties
  <2> QED
    BY <1>0, <1>3, <2>1, <2>2, KeepTypes
    DEF Enqueue, TypeInv, TypeOK, HandInv, scheduler
<1>4. CASE Tick
  BY <1>4, TickTypes
<1>5. ASSUME NEW r \in DOMAIN queue, SkipStale(r) PROVE TypeInv'
  <2>1. queue' \in Seq(Row) /\ Len(queue') = Len(queue)
    BY <1>0, <1>5, MarkWrites DEF SkipStale, Status
  <2> QED BY <1>0, <1>5, <2>1, RowWritten DEF SkipStale, turns, TypeOK, Work
<1>6. ASSUME NEW k \in Call, ReadForNudge(k) PROVE TypeInv'
  <2>1. fire[k].row \in DOMAIN queue
    BY <1>0, <1>6 DEF ReadForNudge, HandInv
  <2>2. queue[fire[k].row].chat \in Chat
    BY <1>0, <2>1, RowIds DEF Row
  <2>3. raced' \subseteq Chat
    BY <1>0, <1>6, <2>2 DEF ReadForNudge, CopyTaken, TypeOK
  <2>4. saved[queue[fire[k].row].chat] \subseteq Turn
    BY <1>0, <2>2 DEF TypeOK
  <2>5. fire'[k] \in Work
    <3>1. fire[k] \in Work
      BY <1>0 DEF TypeOK, Work
    <3>2. fire'[k] = [fire[k] EXCEPT !.stage = "rendering",
                                     !.copy = saved[queue[fire[k].row].chat]]
      BY <1>0, <1>6 DEF ReadForNudge, TypeOK
    <3> QED BY <2>4, <3>1, <3>2 DEF Work
  <2>6. TypeOK'
    BY <1>0, <1>6, <2>3, <2>5 DEF ReadForNudge, TypeOK, Work, turns, scheduler
  <2>7. HandInv'
    BY <1>0, <1>6, <2>1 DEF ReadForNudge, TypeOK, HandInv
  <2> QED
    BY <1>0, <1>6, <2>6, <2>7, KeepTypes DEF ReadForNudge, TypeInv
<1>7. ASSUME NEW k \in Call, SendNudge(k) PROVE TypeInv'
  <2>1. fire[k].row \in DOMAIN queue /\ fire[k].stage # "idle"
    BY <1>0, <1>7 DEF SendNudge, HandInv
  <2>2. nudges' \in Seq(Nat) /\ Len(nudges') = Len(nudges)
    BY <1>0, <1>7, <2>1, CountWrites DEF SendNudge
  <2> QED
    BY <1>0, <1>7, <2>1, <2>2, FireMoves, RowWritten
    DEF SendNudge, TypeOK, turns, scheduler
<1>8. ASSUME NEW k \in Call, NudgeFails(k) PROVE TypeInv'
  <2>1. fire[k].row \in DOMAIN queue /\ fire[k].stage # "idle"
    BY <1>0, <1>8 DEF NudgeFails, HandInv
  <2>2. nudges' \in Seq(Nat) /\ Len(nudges') = Len(nudges)
    BY <1>0, <1>8, <2>1, CountWrites DEF NudgeFails, TypeOK
  <2>3. queue' \in Seq(Row) /\ Len(queue') = Len(queue)
    BY <1>0, <1>8, <2>1, MarkWrites DEF NudgeFails, Status
  <2> QED
    BY <1>0, <1>8, <2>1, <2>2, <2>3, FireMoves, RowWritten
    DEF NudgeFails, TypeOK, turns
<1>9. ASSUME NEW k \in Call, MarkSent(k) PROVE TypeInv'
  <2>1. fire[k].row \in DOMAIN queue /\ fire[k].stage # "idle"
    BY <1>0, <1>9 DEF MarkSent, HandInv
  <2>2. queue' \in Seq(Row) /\ Len(queue') = Len(queue)
    BY <1>0, <1>9, <2>1, MarkWrites DEF MarkSent, Status
  <2> QED
    BY <1>0, <1>9, <2>1, <2>2, FireMoves, RowWritten
    DEF MarkSent, TypeOK, turns, scheduler
<1>10. ASSUME NEW k \in Call, SaveNudge(k) PROVE TypeInv'
  <2>1. /\ fire[k].row \in DOMAIN queue /\ fire[k].stage # "idle"
        /\ fire[k].copy \subseteq Turn
    BY <1>0, <1>10 DEF SaveNudge, HandInv, TypeOK
  <2>2. saved' \in [Chat -> SUBSET Turn]
    BY <1>0, <1>10, <2>1, RowIds DEF SaveNudge, TypeOK, Row
  <2> QED
    BY <1>0, <1>10, <2>1, <2>2, FireMoves, KeepTypes
    DEF SaveNudge, TypeInv, TypeOK, HandInv, Work, turns
<1>11. ASSUME NEW k \in Call, FireRaises(k) PROVE TypeInv'
  <2>1. fire[k].stage # "idle" /\ BudgetInv'
    BY <1>0, <1>11, SpendTypes DEF FireRaises, FaultKind
  <2>2. /\ calling' \in Call \cup {NoCall} /\ fire' \in [Call -> Work]
        /\ \A j \in Call : \/ fire'[j].stage = "idle"
                           \/ fire[j].stage # "idle" /\ fire'[j].row = fire[j].row
    BY <1>11, <2>1, FireMoves DEF FireRaises
  <2> QED
    BY <1>0, <1>11, <2>1, <2>2
    DEF FireRaises, TypeInv, TypeOK, HandInv, Work, turns, BudgetInv
<1>12. CASE CrashApi
  <2>1. BudgetInv'
    BY <1>0, <1>12, SpendTypes DEF CrashApi, FaultKind
  <2> QED
    BY <1>0, <1>12, <2>1
    DEF CrashApi, IdleFire, TypeInv, TypeOK, HandInv, BudgetInv
<1>13. CASE UNCHANGED vars
  BY <1>13 DEF vars, scheduler, turns, TypeInv, TypeOK, HandInv, BudgetInv
<1> QED
  BY <1>1, <1>2, <1>3, <1>4, <1>5, <1>6, <1>7, <1>8, <1>9, <1>10, <1>11, <1>12,
     <1>13, NextCases

\* Every value stays within its type: what the scheduler lists and the api
\* fires are rows that exist.
THEOREM TypeCorrect == Spec => []TypeOK
<1>1. TypeInv => TypeOK
  BY DEF TypeInv
<1> QED
  BY <1>1, InitTypes, StepTypes, PTL DEF Spec

-----------------------------------------------------------------------------
(* What every step leaves alone. *)

\* No step but an enqueue adds a row, no step but an enqueue schedules one, and
\* none gives a row to another chat.
LEMMA StatusStep ==
  ASSUME TypeInv, [Next]_vars, \A t \in Turn : ~Enqueue(t)
  PROVE  /\ DOMAIN queue' = DOMAIN queue
         /\ \A r \in DOMAIN queue :
              /\ queue'[r].chat = queue[r].chat
              /\ queue'[r].status = "scheduled" => queue[r].status = "scheduled"
<1> DEFINE Goal == /\ DOMAIN queue' = DOMAIN queue
                   /\ \A r \in DOMAIN queue :
                        /\ queue'[r].chat = queue[r].chat
                        /\ queue'[r].status = "scheduled" =>
                             queue[r].status = "scheduled"
<1>0. TypeOK /\ HandInv /\ DOMAIN queue = 1..Len(queue)
  BY RowIds DEF TypeInv
<1>1. ASSUME UNCHANGED queue PROVE Goal
  BY <1>1
<1>2. ASSUME NEW c \in Chat, NEW s \in Status, s # "scheduled",
             queue' = Cancelled(c, s)
      PROVE  Goal
  BY <1>0, <1>2, CancelWrites, LenProperties
<1>3. ASSUME NEW r \in DOMAIN queue, NEW s \in Status, s # "scheduled",
             queue' = Marked(r, s)
      PROVE  Goal
  BY <1>0, <1>3, MarkWrites, LenProperties
<1> HIDE DEF Goal
<1>4. ASSUME NEW t \in Turn, Talk(t) PROVE Goal
  BY <1>1, <1>4
  DEF Talk, ReadState, SaveState, AnswerAside, PassOn, SuppressFollowup
<1>5. ASSUME NEW t \in Turn, CancelOnReply(t) PROVE Goal
  BY <1>2, <1>5 DEF CancelOnReply, Status
<1>6. CASE Tick
  BY <1>1, <1>6
  DEF Tick, ListDue, FireTimesOut, RestartScheduler, FallDue, Reschedule,
      DispatchFails, StartFire
<1>7. ASSUME NEW r \in DOMAIN queue, SkipStale(r) PROVE Goal
  BY <1>3, <1>7 DEF SkipStale, Status
<1>8. ASSUME NEW k \in Call, NudgeFails(k) PROVE Goal
  BY <1>0, <1>3, <1>8 DEF NudgeFails, HandInv, Status
<1>9. ASSUME NEW k \in Call, MarkSent(k) PROVE Goal
  BY <1>0, <1>3, <1>9 DEF MarkSent, HandInv, Status
<1>10. ASSUME NEW k \in Call,
              ReadForNudge(k) \/ SendNudge(k) \/ SaveNudge(k) \/ FireRaises(k)
       PROVE  Goal
  BY <1>1, <1>10 DEF ReadForNudge, SendNudge, SaveNudge, FireRaises
<1>11. CASE CrashApi
  BY <1>1, <1>11 DEF CrashApi
<1>12. CASE UNCHANGED vars
  BY <1>1, <1>12 DEF vars
<1> QED
  BY <1>4, <1>5, <1>6, <1>7, <1>8, <1>9, <1>10, <1>11, <1>12, NextCases DEF Goal

\* A budget is never given back: what has not struck by now had not before.
LEMMA NoFaultYet ==
  ASSUME TypeInv, [Next]_vars, NEW F \in SUBSET FaultKind, NoFault(F)'
  PROVE  /\ NoFault(F)
         /\ \A f \in F : ~Spend(f)
<1>1. BudgetInv
  BY DEF TypeInv
<1> DEFINE Struck == \E f \in FaultKind : Spend(f)
<1>2. UNCHANGED budget \/ Struck
  <2>1. ASSUME NEW t \in Turn, Talk(t) \/ CancelOnReply(t) \/ Enqueue(t)
        PROVE  UNCHANGED budget
    BY <2>1 DEF Talk, ReadState, SaveState, AnswerAside, PassOn,
                SuppressFollowup, CancelOnReply, Enqueue
  <2>2. CASE Tick
    BY <2>2 DEF Tick, ListDue, FireTimesOut, RestartScheduler, FallDue,
                Reschedule, DispatchFails, StartFire, FaultKind
  <2>3. ASSUME NEW r \in DOMAIN queue, SkipStale(r) PROVE UNCHANGED budget
    BY <2>3 DEF SkipStale
  <2>4. ASSUME NEW k \in Call, \/ ReadForNudge(k) \/ SendNudge(k) \/ NudgeFails(k)
                               \/ MarkSent(k) \/ SaveNudge(k)
        PROVE  UNCHANGED budget
    BY <2>4 DEF ReadForNudge, SendNudge, NudgeFails, MarkSent, SaveNudge
  <2>5. ASSUME NEW k \in Call, FireRaises(k) PROVE Struck
    BY <2>5 DEF FireRaises, FaultKind
  <2>6. CASE CrashApi
    BY <2>6 DEF CrashApi, FaultKind
  <2>7. CASE UNCHANGED vars
    BY <2>7 DEF vars
  <2> QED
    BY <2>1, <2>2, <2>3, <2>4, <2>5, <2>6, <2>7, NextCases
<1>3. \A f \in F : ~Spend(f)
  BY <1>1, SpendTypes DEF NoFault
<1>4. NoFault(F)
  BY <1>1, <1>2, <1>3 DEF NoFault, Spend, BudgetInv
<1> QED
  BY <1>3, <1>4

-----------------------------------------------------------------------------
(* One outstanding nudge. *)

\* A chat never has two nudges outstanding, and the one it has is that of the
\* latest turn that queued any: followup_queue_repository.enqueue.
THEOREM OneOutstanding == Spec => []OutstandingIsLatest
<1>1. Init => TypeInv /\ OutstandingIsLatest
  BY InitTypes DEF Init, OutstandingIsLatest
<1>2. TypeInv /\ OutstandingIsLatest /\ [Next]_vars
        => (TypeInv /\ OutstandingIsLatest)'
  <2> SUFFICES ASSUME TypeInv, OutstandingIsLatest, [Next]_vars
               PROVE  OutstandingIsLatest'
    BY StepTypes
  <2>0. TypeOK /\ DOMAIN queue = 1..Len(queue) /\ Len(queue) \in Nat
    BY RowIds DEF TypeInv
  <2>1. ASSUME NEW t \in Turn, Enqueue(t) PROVE OutstandingIsLatest'
    <3>1. /\ queue' \in Seq(Row) /\ Len(queue') = Len(queue) + 1
          /\ queue'[Len(queue) + 1] = [chat |-> chatOf[t], status |-> "scheduled"]
          /\ \A r \in DOMAIN queue :
               /\ queue'[r].chat = queue[r].chat
               /\ queue'[r].status = "scheduled" <=>
                    queue[r].status = "scheduled" /\ queue[r].chat # chatOf[t]
      BY <2>0, <2>1, EnqueueWrites
    <3>2. DOMAIN queue' = 1..(Len(queue) + 1)
      BY <3>1, LenProperties
    <3> SUFFICES ASSUME NEW r \in DOMAIN queue', queue'[r].status = "scheduled",
                        NEW s \in DOMAIN queue', queue'[s].chat = queue'[r].chat
                 PROVE  s <= r
      BY DEF OutstandingIsLatest
    <3>3. CASE r = Len(queue) + 1
      BY <2>0, <3>2, <3>3
    <3>4. CASE r \in DOMAIN queue
      <4>1. s # Len(queue) + 1
        BY <3>1, <3>4
      <4>2. s \in DOMAIN queue
        BY <2>0, <3>2, <4>1
      <4> QED BY <3>1, <3>4, <4>2 DEF OutstandingIsLatest
    <3> QED BY <2>0, <3>2, <3>3, <3>4
  <2>2. CASE \A t \in Turn : ~Enqueue(t)
    BY <2>2, StatusStep DEF OutstandingIsLatest
  <2> QED BY <2>1, <2>2
<1> QED
  BY <1>1, <1>2, PTL DEF Spec

-----------------------------------------------------------------------------
(* Who may still send a nudge. *)

\* What is neither scheduled nor in hand is listed by no tick and fired by no
\* call, so it is never nudged again.
THEOREM CancelledIsQuiet == Spec => CancelledStaysQuiet
<1> DEFINE Quiet == \A r \in DOMAIN queue :
                      queue[r].status # "scheduled" /\ r \notin InHand
                        => r \notin InHand' /\ nudges'[r] = nudges[r]
<1>1. TypeInv /\ [Next]_vars => [Quiet]_vars
  <2> SUFFICES ASSUME TypeInv, Next,
                      NEW r \in DOMAIN queue, queue[r].status # "scheduled",
                      r \notin InHand
               PROVE  r \notin InHand' /\ nudges'[r] = nudges[r]
    OBVIOUS
  <2>0. /\ TypeOK /\ HandInv /\ r \notin batch
        /\ \A k \in Call : fire[k].stage # "idle" => fire[k].row # r
        /\ fire \in [Call -> Work]
    BY DEF TypeInv, TypeOK, InHand, Work
  <2>1. ASSUME r \notin batch',
               \A k \in Call : fire'[k].stage # "idle" => fire'[k].row # r
        PROVE  r \notin InHand'
    BY <2>1 DEF InHand
  <2>2. ASSUME UNCHANGED fire, batch' \subseteq batch PROVE r \notin InHand'
    BY <2>0, <2>1, <2>2
  <2>3. ASSUME NEW k \in Call, fire[k].stage # "idle", batch' \subseteq batch,
               \/ EndFire(k)
               \/ \E s \in {"rendering", "marking", "saving"} :
                    fire' = [fire EXCEPT ![k].stage = s] /\ UNCHANGED calling
        PROVE  r \notin InHand'
    <3>1. \A j \in Call : \/ fire'[j].stage = "idle"
                          \/ fire[j].stage # "idle" /\ fire'[j].row = fire[j].row
      BY <2>3, FireMoves
    <3> QED BY <2>0, <2>1, <2>3, <3>1
  <2>4. ASSUME NEW t \in Turn, Talk(t) \/ CancelOnReply(t)
        PROVE  r \notin InHand' /\ nudges'[r] = nudges[r]
    BY <2>2, <2>4
    DEF Talk, ReadState, SaveState, AnswerAside, PassOn, SuppressFollowup,
        CancelOnReply, scheduler
  <2>5. ASSUME NEW t \in Turn, Enqueue(t)
        PROVE  r \notin InHand' /\ nudges'[r] = nudges[r]
    BY <2>0, <2>2, <2>5, EnqueueWrites DEF Enqueue, scheduler
  <2>6. CASE Tick
    <3>1. CASE ListDue
      BY <2>0, <2>1, <3>1 DEF ListDue, DueRows
    <3>2. ASSUME NEW q \in DOMAIN queue, NEW k \in Call, StartFire(q, k)
          PROVE  r \notin InHand' /\ nudges'[r] = nudges[r]
      BY <2>0, <2>1, <3>2 DEF StartFire
    <3>3. ASSUME \/ FireTimesOut \/ RestartScheduler
                 \/ \E q \in DOMAIN queue :
                      FallDue(q) \/ Reschedule(q) \/ DispatchFails(q)
          PROVE  r \notin InHand' /\ nudges'[r] = nudges[r]
      BY <2>2, <3>3
      DEF FireTimesOut, RestartScheduler, FallDue, Reschedule, DispatchFails, scheduler
    <3> QED BY <2>6, <3>1, <3>2, <3>3 DEF Tick
  <2>7. ASSUME NEW q \in DOMAIN queue, SkipStale(q)
        PROVE  r \notin InHand' /\ nudges'[r] = nudges[r]
    BY <2>2, <2>7 DEF SkipStale
  <2>8. ASSUME NEW k \in Call, ReadForNudge(k)
        PROVE  r \notin InHand' /\ nudges'[r] = nudges[r]
    BY <2>0, <2>1, <2>8 DEF ReadForNudge, scheduler, Work
  <2>9. ASSUME NEW k \in Call, SendNudge(k) \/ NudgeFails(k)
        PROVE  r \notin InHand' /\ nudges'[r] = nudges[r]
    <3>1. fire[k].stage # "idle" /\ fire[k].row \in DOMAIN queue /\ fire[k].row # r
      BY <2>0, <2>9, RowIds DEF SendNudge, NudgeFails, HandInv
    <3>2. nudges'[r] = nudges[r]
      BY <2>0, <2>9, <3>1, CountWrites DEF SendNudge, NudgeFails
    <3>3. r \notin InHand'
      BY <2>3, <2>9, <3>1 DEF SendNudge, NudgeFails, scheduler
    <3> QED BY <3>2, <3>3
  <2>10. ASSUME NEW k \in Call, MarkSent(k) \/ SaveNudge(k) \/ FireRaises(k)
         PROVE  r \notin InHand' /\ nudges'[r] = nudges[r]
    BY <2>3, <2>10 DEF MarkSent, SaveNudge, FireRaises, scheduler
  <2>11. CASE CrashApi
    BY <2>0, <2>1, <2>11 DEF CrashApi, IdleFire
  <2> QED
    BY <2>4, <2>5, <2>6, <2>7, <2>8, <2>9, <2>10, <2>11, NextCases
<1> QED
  BY <1>1, InitTypes, StepTypes, PTL DEF Spec, CancelledStaysQuiet

\* Who may send the nudge of a row.  While every call of the scheduler is
\* answered the api fires one row at a time, and a row that is listed, or that
\* is being rendered, or that is scheduled again, has not been nudged.
Once == {"fireRaises", "abandoned", "apiCrash"}

AloneInv == \A k \in Call :
  fire[k].stage # "idle" => calling = k /\ fire[k].row \notin batch

FreshInv ==
  /\ \A r \in DOMAIN queue : r \in batch => nudges[r] = 0
  /\ \A k \in Call :
       fire[k].stage \in {"reading", "rendering"} => nudges[fire[k].row] = 0
  /\ \A r \in DOMAIN queue : queue[r].status = "scheduled" /\ nudges[r] # 0 =>
       \E k \in Call : fire[k].stage = "marking" /\ fire[k].row = r
  /\ \A r \in DOMAIN queue : nudges[r] <= 1

OnceInv == NoFault(Once) => AloneInv /\ FreshInv

LEMMA OnceStep ==
  ASSUME TypeInv, OnceInv, [Next]_vars, NoFault(Once)' PROVE AloneInv' /\ FreshInv'
<1>0. /\ TypeOK /\ HandInv /\ AloneInv /\ FreshInv
      /\ DOMAIN queue = 1..Len(queue) /\ Len(queue) \in Nat
      /\ \A f \in Once : ~Spend(f)
      /\ fire \in [Call -> Work]
      /\ \A r \in DOMAIN queue : nudges[r] \in Nat
  BY NoFaultYet, RowIds DEF TypeInv, TypeOK, OnceInv, Once, FaultKind, Work
<1>1. CASE \E t \in Turn : Enqueue(t)
  <2>1. PICK t \in Turn : Enqueue(t)
    BY <1>1
  <2>2. /\ queue' \in Seq(Row) /\ Len(queue') = Len(queue) + 1
        /\ nudges'[Len(queue) + 1] = 0
        /\ \A r \in DOMAIN queue :
             /\ queue'[r].status = "scheduled" => queue[r].status = "scheduled"
             /\ nudges'[r] = nudges[r]
    BY <1>0, <2>1, EnqueueWrites
  <2>3. DOMAIN queue' = 1..(Len(queue) + 1)
    BY <2>2, LenProperties
  <2>4. UNCHANGED <<fire, batch, calling>>
    BY <2>1 DEF Enqueue, scheduler
  <2>5. \A k \in Call : fire[k].stage # "idle" => fire[k].row \in DOMAIN queue
    BY <1>0 DEF HandInv
  <2>6. FreshInv'
    <3>1. \A r \in batch' : r \in DOMAIN queue /\ nudges'[r] = 0
      BY <1>0, <2>2, <2>4 DEF FreshInv, TypeOK
    <3>2. \A k \in Call :
            fire'[k].stage \in {"reading", "rendering"} => nudges'[fire'[k].row] = 0
      BY <1>0, <2>2, <2>4, <2>5 DEF FreshInv
    <3>3. \A r \in DOMAIN queue' : queue'[r].status = "scheduled" /\ nudges'[r] # 0 =>
            \E k \in Call : fire'[k].stage = "marking" /\ fire'[k].row = r
      BY <1>0, <2>2, <2>3, <2>4 DEF FreshInv
    <3>4. \A r \in DOMAIN queue' : nudges'[r] <= 1
      BY <1>0, <2>2, <2>3 DEF FreshInv
    <3> QED BY <3>1, <3>2, <3>3, <3>4 DEF FreshInv
  <2> QED BY <1>0, <2>4, <2>6 DEF AloneInv
<1>2. CASE \A t \in Turn : ~Enqueue(t)
  <2>0. /\ DOMAIN queue' = DOMAIN queue
        /\ \A r \in DOMAIN queue :
             queue'[r].status = "scheduled" => queue[r].status = "scheduled"
    BY <1>2, StatusStep
  <2>1. ASSUME UNCHANGED <<fire, nudges, calling>>, batch' \subseteq batch
        PROVE  AloneInv' /\ FreshInv'
    BY <1>0, <2>0, <2>1 DEF AloneInv, FreshInv
  <2>2. ASSUME NEW t \in Turn, Talk(t) \/ CancelOnReply(t)
        PROVE  AloneInv' /\ FreshInv'
    BY <2>1, <2>2
    DEF Talk, ReadState, SaveState, AnswerAside, PassOn, SuppressFollowup,
        CancelOnReply, scheduler
  <2>3. CASE Tick
    <3>1. CASE ListDue
      <4>1. \A k \in Call : fire[k].stage = "idle"
        BY <1>0, <3>1 DEF ListDue, AloneInv
      <4>2. \A r \in batch' : nudges[r] = 0
        BY <1>0, <3>1, <4>1 DEF ListDue, DueRows, FreshInv, TypeOK
      <4> QED BY <1>0, <2>0, <3>1, <4>1, <4>2 DEF ListDue, AloneInv, FreshInv
    <3>2. ASSUME NEW r \in DOMAIN queue, NEW k \in Call, StartFire(r, k)
          PROVE  AloneInv' /\ FreshInv'
      <4>1. /\ fire'[k].stage = "reading" /\ fire'[k].row = r
            /\ \A j \in Call : j # k => fire'[j] = fire[j]
            /\ calling = NoCall /\ calling' = k
            /\ r \in batch /\ batch' = batch \ {r}
            /\ UNCHANGED <<queue, nudges>>
        BY <1>0, <3>2 DEF StartFire
      <4>2. \A j \in Call : fire[j].stage = "idle"
        BY <1>0, <4>1 DEF AloneInv
      <4>3. AloneInv'
        BY <4>1, <4>2 DEF AloneInv
      <4>4. FreshInv'
        BY <1>0, <4>1, <4>2 DEF FreshInv
      <4> QED BY <4>3, <4>4
    <3>3. ASSUME \E r \in DOMAIN queue : FallDue(r) \/ Reschedule(r)
          PROVE  AloneInv' /\ FreshInv'
      BY <2>1, <3>3 DEF FallDue, Reschedule, scheduler
    <3>4. ~FireTimesOut /\ ~RestartScheduler /\ \A r \in DOMAIN queue : ~DispatchFails(r)
      BY <1>0 DEF FireTimesOut, RestartScheduler, DispatchFails, Once
    <3> QED BY <2>3, <3>1, <3>2, <3>3, <3>4 DEF Tick
  <2>4. ASSUME NEW r \in DOMAIN queue, SkipStale(r) PROVE AloneInv' /\ FreshInv'
    BY <2>1, <2>4 DEF SkipStale
  <2>5. ASSUME NEW k \in Call, ReadForNudge(k) PROVE AloneInv' /\ FreshInv'
    <3>1. /\ fire[k].stage = "reading" /\ fire'[k].stage = "rendering"
          /\ fire'[k].row = fire[k].row
          /\ \A j \in Call : j # k => fire'[j] = fire[j]
          /\ UNCHANGED <<queue, nudges, batch, calling>>
      BY <1>0, <2>5 DEF ReadForNudge, scheduler, Work
    <3>2. AloneInv'
      BY <1>0, <3>1 DEF AloneInv
    <3>3. FreshInv'
      BY <1>0, <3>1 DEF FreshInv
    <3> QED BY <3>2, <3>3
  <2>6. ASSUME NEW k \in Call, SendNudge(k) PROVE AloneInv' /\ FreshInv'
    <3>1. /\ fire[k].stage = "rendering" /\ fire'[k].stage = "marking"
          /\ fire'[k].row = fire[k].row
          /\ \A j \in Call : j # k => fire'[j] = fire[j]
          /\ UNCHANGED <<queue, batch, calling>>
      BY <1>0, <2>6 DEF SendNudge, scheduler, Work
    <3>2. fire[k].row \in DOMAIN queue /\ nudges[fire[k].row] = 0
      BY <1>0, <3>1 DEF HandInv, FreshInv
    <3>3. /\ nudges'[fire[k].row] = nudges[fire[k].row] + 1
          /\ \A q \in DOMAIN queue : q # fire[k].row => nudges'[q] = nudges[q]
      BY <1>0, <2>6, <3>2, CountWrites DEF SendNudge
    <3>4. \A j \in Call : j # k => fire[j].stage = "idle"
      BY <1>0, <3>1 DEF AloneInv
    <3>5. AloneInv'
      BY <1>0, <3>1 DEF AloneInv
    <3>6. FreshInv'
      BY <1>0, <3>1, <3>2, <3>3, <3>4, SMTT(30) DEF FreshInv, AloneInv
    <3> QED BY <3>5, <3>6
  <2>7. ASSUME NEW k \in Call, NudgeFails(k) PROVE AloneInv' /\ FreshInv'
    <3>1. fire[k].stage = "rendering" /\ fire[k].row \in DOMAIN queue
      BY <1>0, <2>7 DEF NudgeFails, HandInv
    <3>2. nudges[fire[k].row] = 0 /\ fire[k].row \notin batch
      BY <1>0, <3>1 DEF FreshInv, AloneInv
    <3>3. /\ nudges'[fire[k].row] <= 1
          /\ \A q \in DOMAIN queue : q # fire[k].row => nudges'[q] = nudges[q]
      BY <1>0, <2>7, <3>1, <3>2, CountWrites DEF NudgeFails
    <3>4. \A j \in Call : fire'[j].stage = "idle"
      BY <1>0, <2>7, <3>1 DEF NudgeFails, EndFire, IdleFire, AloneInv
    <3>5. queue'[fire[k].row].status # "scheduled" /\ batch' = batch
      BY <1>0, <2>7, <3>1, MarkWrites DEF NudgeFails, Status
    <3>6. \A j \in Call : j # k => fire[j].stage = "idle"
      BY <1>0, <3>1 DEF AloneInv
    <3>7. FreshInv'
      BY <1>0, <2>0, <3>1, <3>2, <3>3, <3>4, <3>5, <3>6 DEF FreshInv
    <3> QED BY <3>4, <3>7 DEF AloneInv
  <2>8. ASSUME NEW k \in Call, MarkSent(k) PROVE AloneInv' /\ FreshInv'
    <3>1. /\ fire[k].stage = "marking" /\ fire'[k].stage = "saving"
          /\ fire'[k].row = fire[k].row /\ fire[k].row \in DOMAIN queue
          /\ \A j \in Call : j # k => fire'[j] = fire[j]
          /\ UNCHANGED <<nudges, batch, calling>>
      BY <1>0, <2>8 DEF MarkSent, scheduler, Work, HandInv
    <3>2. queue'[fire[k].row].status # "scheduled"
      BY <1>0, <2>8, <3>1, MarkWrites DEF MarkSent, Status
    <3>3. AloneInv'
      BY <1>0, <3>1 DEF AloneInv
    <3>4. \A r \in DOMAIN queue : queue'[r].status = "scheduled" /\ nudges'[r] # 0 =>
            \E j \in Call : fire'[j].stage = "marking" /\ fire'[j].row = r
      <4> SUFFICES ASSUME NEW r \in DOMAIN queue, queue'[r].status = "scheduled",
                          nudges'[r] # 0
                   PROVE  \E j \in Call : fire'[j].stage = "marking" /\ fire'[j].row = r
        OBVIOUS
      <4>1. PICK j \in Call : fire[j].stage = "marking" /\ fire[j].row = r
        BY <1>0, <2>0, <3>1 DEF FreshInv
      <4>2. j # k
        BY <3>2, <4>1
      <4> QED BY <3>1, <4>1, <4>2
    <3>5. \A j \in Call :
            fire'[j].stage \in {"reading", "rendering"} => nudges'[fire'[j].row] = 0
      BY <1>0, <3>1 DEF FreshInv
    <3>6. FreshInv'
      BY <1>0, <2>0, <3>1, <3>4, <3>5 DEF FreshInv
    <3> QED BY <3>3, <3>6
  <2>9. ASSUME NEW k \in Call, SaveNudge(k) PROVE AloneInv' /\ FreshInv'
    <3>1. /\ fire[k].stage = "saving" /\ fire'[k].stage = "idle"
          /\ \A j \in Call : j # k => fire'[j] = fire[j]
          /\ UNCHANGED <<queue, nudges, batch>>
      BY <1>0, <2>9 DEF SaveNudge, EndFire, IdleFire
    <3>2. \A j \in Call : fire'[j].stage = "idle"
      BY <1>0, <3>1 DEF AloneInv
    <3>3. FreshInv'
      BY <1>0, <3>1 DEF FreshInv
    <3> QED BY <3>2, <3>3 DEF AloneInv
  <2>10. CASE UNCHANGED vars
    BY <2>1, <2>10 DEF vars, scheduler
  <2>11. ~CrashApi /\ \A k \in Call : ~FireRaises(k)
    BY <1>0 DEF CrashApi, FireRaises, Once
  <2> QED
    BY <1>2, <2>2, <2>3, <2>4, <2>5, <2>6, <2>7, <2>8, <2>9, <2>10, <2>11, NextCases
<1> QED
  BY <1>1, <1>2

\* No row is nudged twice as long as no call is given up, no process dies and
\* no store fails a fire: the queue is single-shot.
THEOREM OneNudge == Spec => []OneNudgePerRow
<1>1. Init => TypeInv /\ OnceInv
  BY InitTypes DEF Init, OnceInv, AloneInv, FreshInv, IdleFire
<1>2. TypeInv /\ OnceInv /\ [Next]_vars => (TypeInv /\ OnceInv)'
  BY StepTypes, OnceStep DEF OnceInv
<1>3. OnceInv => OneNudgePerRow
  BY DEF OnceInv, FreshInv, OneNudgePerRow, Once
<1> QED
  BY <1>1, <1>2, <1>3, PTL DEF Spec

-----------------------------------------------------------------------------
(* Handlers that do not overlap lose nothing. *)

TurnHolds(t, c) == turn[t] = "thinking" /\ chatOf[t] = c

FireHolds(k, c) == /\ fire[k].stage \in {"rendering", "marking", "saving"}
                   /\ queue[fire[k].row].chat = c

KeptOf(c) == {t \in Turn : chatOf[t] = c /\ turn[t] \in {"saved", "kept"}}

\* In a chat that never raced the state derives from the turns that saved it,
\* and at most one handler holds a copy, which is the state as it is stored.
SerialFor(c) ==
  /\ saved[c] = KeptOf(c)
  /\ \A t \in Turn : TurnHolds(t, c) => copy[t] = saved[c]
  /\ \A k \in Call : FireHolds(k, c) => fire[k].copy = saved[c]
  /\ \A t, s \in Turn : TurnHolds(t, c) /\ TurnHolds(s, c) => t = s
  /\ \A k, j \in Call : FireHolds(k, c) /\ FireHolds(j, c) => k = j
  /\ \A t \in Turn, k \in Call : ~(TurnHolds(t, c) /\ FireHolds(k, c))

SerialInv == \A c \in Chat \ raced : SerialFor(c)

\* A step of another chat, or one after which no one new holds a copy.
LEMMA FewerHold ==
  ASSUME NEW c, SerialFor(c), saved'[c] = saved[c], KeptOf(c)' = KeptOf(c),
         \A t \in Turn : TurnHolds(t, c)' => TurnHolds(t, c) /\ copy'[t] = copy[t],
         \A k \in Call : FireHolds(k, c)' =>
                           FireHolds(k, c) /\ fire'[k].copy = fire[k].copy
  PROVE  SerialFor(c)'
<1>1. /\ saved[c] = KeptOf(c)
      /\ \A t \in Turn : TurnHolds(t, c) => copy[t] = saved[c]
      /\ \A k \in Call : FireHolds(k, c) => fire[k].copy = saved[c]
      /\ \A t, s \in Turn : TurnHolds(t, c) /\ TurnHolds(s, c) => t = s
      /\ \A k, j \in Call : FireHolds(k, c) /\ FireHolds(j, c) => k = j
      /\ \A t \in Turn, k \in Call : ~(TurnHolds(t, c) /\ FireHolds(k, c))
  BY DEF SerialFor
<1>2. /\ saved'[c] = KeptOf(c)'
      /\ \A t \in Turn : TurnHolds(t, c)' => copy'[t] = saved'[c]
      /\ \A k \in Call : FireHolds(k, c)' => fire'[k].copy = saved'[c]
      /\ \A t, s \in Turn : TurnHolds(t, c)' /\ TurnHolds(s, c)' => t = s
      /\ \A k, j \in Call : FireHolds(k, c)' /\ FireHolds(j, c)' => k = j
      /\ \A t \in Turn, k \in Call : ~(TurnHolds(t, c)' /\ FireHolds(k, c)')
  BY <1>1
<1> QED
  BY <1>2 DEF SerialFor

\* A row's chat never changes.
LEMMA ChatsStay ==
  ASSUME TypeInv, [Next]_vars
  PROVE  \A r \in DOMAIN queue : queue'[r].chat = queue[r].chat
<1>1. CASE \E t \in Turn : Enqueue(t)
  BY <1>1, EnqueueWrites DEF TypeInv
<1>2. CASE \A t \in Turn : ~Enqueue(t)
  BY <1>2, StatusStep
<1> QED
  BY <1>1, <1>2

LEMMA SerialStep ==
  ASSUME TypeInv, SerialInv, [Next]_vars PROVE SerialInv'
<1>0. /\ TypeOK /\ HandInv /\ DOMAIN queue = 1..Len(queue)
      /\ fire \in [Call -> Work]
      /\ \A r \in DOMAIN queue : queue'[r].chat = queue[r].chat
      /\ \A r \in DOMAIN queue : queue[r].chat \in Chat
  BY ChatsStay, RowIds DEF TypeInv, TypeOK, Work, Row
<1>1. ASSUME raced \subseteq raced', \A c \in Chat \ raced' : SerialFor(c) => SerialFor(c)'
      PROVE  SerialInv'
  BY <1>1 DEF SerialInv
<1> DEFINE
  \* The fires after the step work on what they worked on before it.
  SameFires == \A k \in Call :
    fire'[k].stage \in {"rendering", "marking", "saving"} =>
      /\ fire[k].stage \in {"rendering", "marking", "saving"}
      /\ fire'[k].row = fire[k].row /\ fire'[k].copy = fire[k].copy
  SameTurns == \A t \in Turn :
    /\ turn'[t] = "thinking" => turn[t] = "thinking" /\ copy'[t] = copy[t]
    /\ turn'[t] \in {"saved", "kept"} <=> turn[t] \in {"saved", "kept"}
<1>2. ASSUME SameFires
      PROVE  \A c \in Chat, k \in Call :
               FireHolds(k, c)' => FireHolds(k, c) /\ fire'[k].copy = fire[k].copy
  BY <1>0, <1>2 DEF FireHolds, HandInv
<1>3. ASSUME SameTurns
      PROVE  \A c \in Chat :
               /\ KeptOf(c)' = KeptOf(c)
               /\ \A t \in Turn : TurnHolds(t, c)' => TurnHolds(t, c) /\ copy'[t] = copy[t]
  BY <1>3 DEF KeptOf, TurnHolds
<1>4. ASSUME SameFires, SameTurns, UNCHANGED <<saved, raced>> PROVE SerialInv'
  BY <1>1, <1>2, <1>3, <1>4, FewerHold
<1>5. ASSUME UNCHANGED fire PROVE SameFires
  BY <1>5
<1>6. ASSUME UNCHANGED turns PROVE SameTurns
  BY <1>6 DEF turns
<1>7. ASSUME NEW k \in Call, fire[k].stage \in {"rendering", "marking", "saving"},
             \/ EndFire(k)
             \/ \E s \in {"rendering", "marking", "saving"} :
                  fire' = [fire EXCEPT ![k].stage = s]
      PROVE  SameFires
  <2>1. CASE EndFire(k)
    BY <1>0, <2>1 DEF EndFire, IdleFire
  <2>2. ASSUME NEW s \in {"rendering", "marking", "saving"},
               fire' = [fire EXCEPT ![k].stage = s]
        PROVE  SameFires
    <3>1. /\ fire'[k].row = fire[k].row /\ fire'[k].copy = fire[k].copy
          /\ \A j \in Call : j # k => fire'[j] = fire[j]
      BY <1>0, <2>2 DEF Work
    <3> QED BY <1>7, <3>1
  <2> QED BY <1>7, <2>1, <2>2
<1> HIDE DEF SameFires, SameTurns
<1>8. ASSUME NEW t \in Turn, ReadState(t) PROVE SerialInv'
  <2>1. /\ copy' = [copy EXCEPT ![t] = saved[chatOf[t]]]
        /\ turn[t] = "reading" /\ turn' = [turn EXCEPT ![t] = "thinking"]
        /\ UNCHANGED <<queue, saved, fire>>
        /\ raced' = IF HoldsCopy(chatOf[t]) THEN raced \cup {chatOf[t]} ELSE raced
    BY <1>8 DEF ReadState, CopyTaken
  <2>2. ASSUME NEW c \in Chat \ raced', SerialFor(c) PROVE SerialFor(c)'
    <3>1. KeptOf(c)' = KeptOf(c)
      BY <1>0, <2>1 DEF KeptOf, TypeOK
    <3>2. CASE chatOf[t] # c
      <4>1. \A s \in Turn : TurnHolds(s, c)' => TurnHolds(s, c) /\ copy'[s] = copy[s]
        BY <1>0, <2>1, <3>2 DEF TurnHolds, TypeOK
      <4> QED BY <1>2, <1>5, <2>1, <2>2, <3>1, <4>1, FewerHold
    <3>3. CASE chatOf[t] = c
      <4>1. ~HoldsCopy(c)
        BY <2>1, <2>2, <3>3
      <4>2. /\ \A s \in Turn : ~TurnHolds(s, c)
            /\ \A k \in Call : ~FireHolds(k, c)
        BY <4>1 DEF HoldsCopy, TurnHolds, FireHolds
      <4>3. \A s \in Turn : TurnHolds(s, c)' => s = t
        BY <1>0, <2>1, <4>2 DEF TurnHolds, TypeOK
      <4>4. \A k \in Call : ~FireHolds(k, c)'
        BY <2>1, <4>2 DEF FireHolds
      <4>5. copy'[t] = saved'[c] /\ saved'[c] = KeptOf(c)'
        BY <1>0, <2>1, <2>2, <3>1, <3>3 DEF SerialFor, TypeOK
      <4> QED BY <4>3, <4>4, <4>5 DEF SerialFor
    <3> QED BY <3>2, <3>3
  <2> QED BY <1>1, <2>1, <2>2
<1>9. ASSUME NEW t \in Turn, SaveState(t) PROVE SerialInv'
  <2>1. /\ saved' = [saved EXCEPT ![chatOf[t]] = copy[t] \cup {t}]
        /\ copy' = [copy EXCEPT ![t] = {}]
        /\ turn[t] = "thinking" /\ turn' = [turn EXCEPT ![t] = "saved"]
        /\ UNCHANGED <<queue, fire, raced>>
    BY <1>9 DEF SaveState
  <2>2. ASSUME NEW c \in Chat \ raced', SerialFor(c) PROVE SerialFor(c)'
    <3>1. \A s \in Turn : TurnHolds(s, c)' => TurnHolds(s, c) /\ copy'[s] = copy[s] /\ s # t
      BY <1>0, <2>1 DEF TurnHolds, TypeOK
    <3>2. CASE chatOf[t] # c
      <4>1. KeptOf(c)' = KeptOf(c) /\ saved'[c] = saved[c]
        BY <1>0, <2>1, <3>2 DEF KeptOf, TypeOK
      <4> QED BY <1>2, <1>5, <2>1, <2>2, <3>1, <4>1, FewerHold
    <3>3. CASE chatOf[t] = c
      <4>1. TurnHolds(t, c)
        BY <2>1, <3>3 DEF TurnHolds
      <4>2. \A s \in Turn : ~TurnHolds(s, c)'
        BY <2>2, <3>1, <4>1 DEF SerialFor
      <4>3. \A k \in Call : ~FireHolds(k, c)'
        BY <2>1, <2>2, <4>1 DEF SerialFor, FireHolds
      <4>4. KeptOf(c)' = KeptOf(c) \cup {t}
        BY <1>0, <2>1, <3>3 DEF KeptOf, TypeOK
      <4>5. saved'[c] = KeptOf(c)'
        BY <1>0, <2>1, <2>2, <3>3, <4>1, <4>4 DEF SerialFor, TypeOK
      <4> QED BY <4>2, <4>3, <4>5 DEF SerialFor
    <3> QED BY <3>2, <3>3
  <2> QED BY <1>1, <2>1, <2>2
<1>10. ASSUME NEW t \in Turn,
              \/ AnswerAside(t) \/ PassOn(t) \/ SuppressFollowup(t)
              \/ CancelOnReply(t) \/ Enqueue(t)
       PROVE  SerialInv'
  <2>1. SameTurns
    BY <1>0, <1>10
    DEF AnswerAside, PassOn, SuppressFollowup, CancelOnReply, Enqueue, SameTurns, TypeOK
  <2>2. UNCHANGED <<fire, saved, raced>>
    BY <1>10 DEF AnswerAside, PassOn, SuppressFollowup, CancelOnReply, Enqueue
  <2> QED BY <1>4, <1>5, <2>1, <2>2
<1>11. ASSUME NEW r \in DOMAIN queue, NEW k \in Call, StartFire(r, k) PROVE SerialInv'
  <2>1. SameFires
    BY <1>0, <1>11 DEF StartFire, SameFires
  <2> QED BY <1>4, <1>6, <1>11, <2>1 DEF StartFire
<1>12. ASSUME \/ ListDue \/ FireTimesOut \/ RestartScheduler
              \/ \E r \in DOMAIN queue :
                   FallDue(r) \/ Reschedule(r) \/ DispatchFails(r) \/ SkipStale(r)
       PROVE  SerialInv'
  BY <1>4, <1>5, <1>6, <1>12
  DEF ListDue, FireTimesOut, RestartScheduler, FallDue, Reschedule, DispatchFails,
      SkipStale
<1>13. ASSUME NEW k \in Call, ReadForNudge(k) PROVE SerialInv'
  <2> DEFINE d == queue[fire[k].row].chat
  <2>1. /\ fire[k].stage = "reading" /\ fire[k].row \in DOMAIN queue
        /\ fire'[k].row = fire[k].row /\ fire'[k].copy = saved[d]
        /\ \A j \in Call : j # k => fire'[j] = fire[j]
        /\ UNCHANGED <<queue, saved, turn, copy>>
        /\ raced' = IF HoldsCopy(d) THEN raced \cup {d} ELSE raced
    BY <1>0, <1>13 DEF ReadForNudge, CopyTaken, HandInv, Work, turns
  <2>2. ASSUME NEW c \in Chat \ raced', SerialFor(c) PROVE SerialFor(c)'
    <3>1. /\ KeptOf(c)' = KeptOf(c)
          /\ \A t \in Turn : TurnHolds(t, c)' => TurnHolds(t, c) /\ copy'[t] = copy[t]
      BY <2>1 DEF KeptOf, TurnHolds
    <3>2. \A j \in Call : j # k => (FireHolds(j, c)' <=> FireHolds(j, c))
      BY <2>1 DEF FireHolds
    <3>3. CASE d # c
      <4>1. ~FireHolds(k, c)'
        BY <2>1, <3>3 DEF FireHolds
      <4> QED BY <2>1, <2>2, <3>1, <3>2, <4>1, FewerHold
    <3>4. CASE d = c
      <4>1. ~HoldsCopy(c)
        BY <2>1, <2>2, <3>4
      <4>2. /\ \A t \in Turn : ~TurnHolds(t, c)
            /\ \A j \in Call : ~FireHolds(j, c)
        BY <4>1 DEF HoldsCopy, TurnHolds, FireHolds
      <4>3. \A j \in Call : FireHolds(j, c)' => j = k
        BY <3>2, <4>2
      <4>4. fire'[k].copy = saved'[c] /\ saved'[c] = KeptOf(c)'
        BY <2>1, <2>2, <3>1, <3>4 DEF SerialFor
      <4> QED BY <3>1, <4>2, <4>3, <4>4 DEF SerialFor
    <3> QED BY <3>3, <3>4
  <2> QED BY <1>1, <2>1, <2>2
<1>14. ASSUME NEW k \in Call, SaveNudge(k) PROVE SerialInv'
  <2>1. /\ fire[k].stage = "saving" /\ EndFire(k) /\ UNCHANGED <<turns, raced>>
        /\ saved' = [saved EXCEPT ![queue[fire[k].row].chat] = fire[k].copy]
    BY <1>14 DEF SaveNudge
  <2>2. SameFires
    BY <1>7, <2>1
  <2>3. ASSUME NEW c \in Chat \ raced', SerialFor(c) PROVE SerialFor(c)'
    <3>1. saved'[c] = saved[c]
      BY <1>0, <2>1, <2>3 DEF SerialFor, FireHolds, TypeOK
    <3> QED BY <1>2, <1>3, <1>6, <2>1, <2>2, <2>3, <3>1, FewerHold
  <2> QED BY <1>1, <2>1, <2>3
<1>15. ASSUME NEW k \in Call, SendNudge(k) \/ NudgeFails(k) \/ MarkSent(k)
       PROVE  SerialInv'
  <2>1. SameFires
    BY <1>7, <1>15 DEF SendNudge, NudgeFails, MarkSent
  <2> QED BY <1>4, <1>6, <1>15, <2>1 DEF SendNudge, NudgeFails, MarkSent
<1>16. ASSUME NEW k \in Call, FireRaises(k) PROVE SerialInv'
  <2>1. SameFires
    BY <1>0, <1>16 DEF FireRaises, EndFire, IdleFire, SameFires
  <2> QED BY <1>4, <1>6, <1>16, <2>1 DEF FireRaises
<1>17. CASE CrashApi
  <2>1. SameFires
    BY <1>17 DEF CrashApi, IdleFire, SameFires
  <2>2. SameTurns
    BY <1>0, <1>17 DEF CrashApi, SameTurns, TypeOK
  <2> QED BY <1>4, <1>17, <2>1, <2>2 DEF CrashApi
<1>18. CASE UNCHANGED vars
  BY <1>4, <1>5, <1>6, <1>18 DEF vars, turns
<1> QED
  BY <1>8, <1>9, <1>10, <1>11, <1>12, <1>13, <1>14, <1>15, <1>16, <1>17, <1>18,
     NextCases DEF Talk, Tick

\* The stored state of a chat whose handlers never overlapped derives from every
\* turn that saved it: only a race loses a customer's turn.
THEOREM SerialIsKept == Spec => []SerialTurnsAreKept
<1>1. Init => TypeInv /\ SerialInv
  BY InitTypes
  DEF Init, SerialInv, SerialFor, KeptOf, TurnHolds, FireHolds, IdleFire
<1>2. TypeInv /\ SerialInv /\ [Next]_vars => (TypeInv /\ SerialInv)'
  BY StepTypes, SerialStep
<1>3. SerialInv => SerialTurnsAreKept
  BY DEF SerialInv, SerialFor, KeptOf, SerialTurnsAreKept
<1> QED
  BY <1>1, <1>2, <1>3, PTL DEF Spec
=============================================================================
