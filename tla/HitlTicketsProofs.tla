------------------------- MODULE HitlTicketsProofs -------------------------
(* Theorems about HitlTickets, for any messages, chats, operators and      *)
(* replies and any number of faults.                                       *)
EXTENDS HitlTickets, SequenceTheorems, TLAPS

USE ChatAssumption, OperatorAssumption, FaultsAssumption

-----------------------------------------------------------------------------
(* The three writes of the table of tickets. *)

\* The table is a function of the ids given out so far.
LEMMA TicketIds ==
  ASSUME TypeOK
  PROVE  /\ Len(tickets) \in Nat
         /\ DOMAIN tickets = 1..Len(tickets)
         /\ \A t \in DOMAIN tickets : tickets[t] \in Ticket
<1>1. tickets \in Seq(Ticket)
  BY DEF TypeOK
<1> QED
  BY <1>1, LenProperties, ElementOfSeq

\* An insert gives the next id and leaves the rows there are.
LEMMA CreateWrites ==
  ASSUME TypeOK, NEW m \in Message, CreateTicket(m)
  PROVE  /\ tickets' \in Seq(Ticket)
         /\ Len(tickets') = Len(tickets) + 1
         /\ DOMAIN tickets' = 1..(Len(tickets) + 1)
         /\ \A t \in DOMAIN tickets : tickets'[t] = tickets[t]
         /\ tickets'[Len(tickets) + 1] =
              [chat |-> chatOf[m], status |-> "open", operator |-> NoOne]
<1> DEFINE row == [chat |-> chatOf[m], status |-> "open", operator |-> NoOne]
<1>1. tickets \in Seq(Ticket)
  BY DEF TypeOK
<1>2. row \in Ticket
  BY DEF Ticket
<1>3. tickets' = Append(tickets, row)
  BY DEF CreateTicket
<1> HIDE DEF row
<1>4. /\ tickets' \in Seq(Ticket)
      /\ Len(tickets') = Len(tickets) + 1
      /\ \A t \in 1..Len(tickets) : tickets'[t] = tickets[t]
      /\ tickets'[Len(tickets) + 1] = row
  BY <1>1, <1>2, <1>3, AppendProperties
<1>5. DOMAIN tickets' = 1..(Len(tickets) + 1)
  BY <1>4, LenProperties
<1> QED
  BY <1>4, <1>5, TicketIds DEF row

\* An update changes the one row it names.
LEMMA UpdateWrites ==
  ASSUME TypeOK, NEW t \in DOMAIN tickets, NEW row \in Ticket,
         tickets' = [tickets EXCEPT ![t] = row]
  PROVE  /\ tickets' \in Seq(Ticket)
         /\ Len(tickets') = Len(tickets)
         /\ DOMAIN tickets' = DOMAIN tickets
         /\ tickets'[t] = row
         /\ \A s \in DOMAIN tickets : s # t => tickets'[s] = tickets[s]
<1>1. tickets \in Seq(Ticket) /\ t \in 1..Len(tickets)
  BY TicketIds DEF TypeOK
<1>2. /\ tickets' \in Seq(Ticket)
      /\ Len(tickets') = Len(tickets)
      /\ \A s \in 1..Len(tickets) :
           tickets'[s] = IF s = t THEN row ELSE tickets[s]
  BY <1>1, ExceptSeq
<1>3. DOMAIN tickets' = 1..Len(tickets')
  BY <1>2, LenProperties
<1> QED
  BY <1>1, <1>2, <1>3, TicketIds

LEMMA AssignWrites ==
  ASSUME TypeOK, NEW t \in DOMAIN tickets, NEW o \in Operator, Assigned(t, o)
  PROVE  /\ tickets' \in Seq(Ticket)
         /\ Len(tickets') = Len(tickets)
         /\ DOMAIN tickets' = DOMAIN tickets
         /\ tickets'[t].operator = o /\ tickets'[t].status = "assigned"
         /\ \A s \in DOMAIN tickets : s # t => tickets'[s] = tickets[s]
<1> DEFINE row == [tickets[t] EXCEPT !.operator = o, !.status = "assigned"]
<1>1. tickets[t] \in Ticket
  BY TicketIds
<1>2. row \in Ticket /\ row.operator = o /\ row.status = "assigned"
  BY <1>1 DEF Ticket
<1>3. tickets' = [tickets EXCEPT ![t] = row]
  BY DEF Assigned
<1> HIDE DEF row
<1> QED
  BY <1>2, <1>3, UpdateWrites

LEMMA ResolveWrites ==
  ASSUME TypeOK, NEW t \in DOMAIN tickets, Resolved(t)
  PROVE  /\ tickets' \in Seq(Ticket)
         /\ Len(tickets') = Len(tickets)
         /\ DOMAIN tickets' = DOMAIN tickets
         /\ tickets'[t].status = "resolved"
         /\ tickets'[t].operator = tickets[t].operator
         /\ tickets[t].status = "resolved" => tickets'[t] = tickets[t]
         /\ \A s \in DOMAIN tickets : s # t => tickets'[s] = tickets[s]
<1> DEFINE row == [tickets[t] EXCEPT !.status = "resolved"]
<1>1. tickets[t] \in Ticket
  BY TicketIds
<1>2. /\ row \in Ticket /\ row.status = "resolved"
      /\ row.operator = tickets[t].operator
      /\ tickets[t].status = "resolved" => row = tickets[t]
  BY <1>1 DEF Ticket
<1>3. tickets' = [tickets EXCEPT ![t] = row]
  BY DEF Resolved
<1> HIDE DEF row
<1> QED
  BY <1>2, <1>3, UpdateWrites

-----------------------------------------------------------------------------
(* The invariant that makes the types inductive. *)

\* Steps of a handler, and of replies, that write no ticket.
Turn(m) ==
  \/ Escalate(m) \/ PipelineFails(m) \/ JoinTicket(m) \/ FindNoTicket(m)
  \/ PickAssignee(m) \/ NotifyOperator(m) \/ NotifyFails(m) \/ HandlerRaises(m)

Talk ==
  \/ \E r \in Reply : \/ AnswerPost(r) \/ CustomerHears(r) \/ ReplyFails(r)
                      \/ \E o \in Operator : QuoteTicket(r, o) \/ ReplyToOnly(r, o)
  \/ \E o \in Operator : Disambiguate(o)

LEMMA NextCases ==
  ASSUME Next
  PROVE  \/ \E m \in Message : Turn(m)
         \/ \E m \in Message : CreateTicket(m)
         \/ \E m \in Message : AssignTicket(m)
         \/ Talk
         \/ \E r \in Reply : ResolveAnswered(r)
         \/ \E t \in DOMAIN tickets : CloseTicket(t)
         \/ \E t \in DOMAIN tickets, o \in Operator : RouteTicket(t, o)
         \/ CrashApi
  BY DEF Next, Handle, Deliver, Turn, Talk

\* A handler that holds a ticket holds one of the table, a picked operator is
\* an operator, and so is it with replies under way.
HandInv ==
  /\ \A m \in Message :
       /\ stage[m] \in {"picking", "assigning", "notifying"} =>
            ticketOf[m] \in 1..Len(tickets)
       /\ stage[m] = "assigning" => assignee[m] \in Operator
  /\ \A r \in Reply : reply[r].stage \in {"posted", "sending", "delivered"} =>
       reply[r].ticket \in 1..Len(tickets)

BudgetInv == /\ budget \in [FaultKind -> Nat]
             /\ \A f \in FaultKind : budget[f] <= Faults[f]

TypeInv == TypeOK /\ HandInv /\ BudgetInv

LEMMA InitTypes == Init => TypeInv
<1> SUFFICES ASSUME Init PROVE TypeInv
  OBVIOUS
<1>1. tickets \in Seq(Ticket) /\ Len(tickets) = 0
  BY EmptySeq DEF Init
<1> QED
  BY <1>1 DEF Init, TypeInv, TypeOK, HandInv, BudgetInv, Stage, FaultKind

\* A fault that strikes stays within its budget; a step that is none, too.
LEMMA SpendTypes ==
  ASSUME BudgetInv, NEW f \in FaultKind, Spend(f)
  PROVE  BudgetInv' /\ budget'[f] < Faults[f]
BY DEF BudgetInv, Spend

LEMMA KeepTypes ==
  ASSUME BudgetInv, UNCHANGED budget PROVE BudgetInv'
BY DEF BudgetInv

LEMMA TurnTypes ==
  ASSUME TypeInv, NEW m \in Message, Turn(m) PROVE TypeInv'
<1>1. BudgetInv'
  <2>1. BudgetInv BY DEF TypeInv
  <2>2. \/ UNCHANGED budget
        \/ Spend("pipeline") \/ Spend("dmFails") \/ Spend("raise")
    BY DEF Turn, Escalate, PipelineFails, JoinTicket, FindNoTicket, PickAssignee,
           NotifyOperator, NotifyFails, HandlerRaises
  <2> QED BY <2>1, <2>2, SpendTypes, KeepTypes DEF FaultKind
<1> USE <1>1 DEF TypeInv, TypeOK, HandInv, Stage, desk, BudgetInv
<1>2. CASE Escalate(m) BY <1>2 DEF Escalate
<1>3. CASE PipelineFails(m) BY <1>3 DEF PipelineFails
<1>4. CASE JoinTicket(m)
  <2>1. \E t \in 1..Len(tickets) : ticketOf' = [ticketOf EXCEPT ![m] = t]
    BY <1>4, TicketIds DEF JoinTicket
  <2> QED BY <1>4, <2>1 DEF JoinTicket
<1>5. CASE FindNoTicket(m) BY <1>5 DEF FindNoTicket
<1>6. CASE PickAssignee(m)
  <2>1. PickedFor(m) \in Operator
    BY DEF PickedFor, ActiveOr
  <2> QED BY <1>6, <2>1 DEF PickAssignee
<1>7. CASE NotifyOperator(m) BY <1>7 DEF NotifyOperator
<1>8. CASE NotifyFails(m) BY <1>8 DEF NotifyFails
<1>9. CASE HandlerRaises(m) BY <1>9 DEF HandlerRaises
<1> QED
  BY <1>2, <1>3, <1>4, <1>5, <1>6, <1>7, <1>8, <1>9 DEF Turn

\* A reply moves on, keeping its author and ticket, or is posted anew.
LEMMA ReplyMoves ==
  ASSUME TypeInv, NEW r \in Reply, NEW s \in {"sending", "delivered", "refused", "failed"},
         reply[r].stage \in {"posted", "sending"},
         reply' = [reply EXCEPT ![r].stage = s],
         UNCHANGED <<tickets, handlers, shown, listed>>, heard' \subseteq Reply,
         BudgetInv'
  PROVE  TypeInv'
<1>1. reply[r].ticket \in 1..Len(tickets)
  BY DEF TypeInv, HandInv
<1> QED
  BY <1>1, ZenonT(30) DEF TypeInv, TypeOK, HandInv, BudgetInv, handlers

LEMMA ReplyPosted ==
  ASSUME TypeInv, NEW r \in Reply, NEW o \in Operator, NEW t \in DOMAIN tickets,
         Post(r, o, t),
         UNCHANGED <<tickets, handlers, shown, listed, heard, budget>>
  PROVE  TypeInv'
<1>1. t \in 1..Len(tickets)
  BY TicketIds DEF TypeInv
<1> QED
  BY <1>1 DEF TypeInv, TypeOK, HandInv, BudgetInv, handlers, Post

LEMMA TalkTypes ==
  ASSUME TypeInv, Talk PROVE TypeInv'
<1>0. BudgetInv /\ heard \subseteq Reply
  BY DEF TypeInv, TypeOK
<1>1. ASSUME NEW r \in Reply, AnswerPost(r) PROVE TypeInv'
  <2>1. BudgetInv'
    BY <1>0, <1>1, KeepTypes DEF AnswerPost
  <2> QED BY <1>0, <1>1, <2>1, ReplyMoves DEF AnswerPost
<1>2. ASSUME NEW r \in Reply, CustomerHears(r) PROVE TypeInv'
  BY <1>2 DEF CustomerHears, TypeInv, TypeOK, HandInv, BudgetInv, handlers
<1>3. ASSUME NEW r \in Reply, ReplyFails(r) PROVE TypeInv'
  <2>1. BudgetInv'
    BY <1>0, <1>3, SpendTypes DEF ReplyFails, FaultKind
  <2> QED BY <1>0, <1>3, <2>1, ReplyMoves DEF ReplyFails
<1>4. ASSUME NEW r \in Reply, NEW o \in Operator, QuoteTicket(r, o) PROVE TypeInv'
  BY <1>4, ReplyPosted DEF QuoteTicket, Quotable
<1>5. ASSUME NEW r \in Reply, NEW o \in Operator, ReplyToOnly(r, o) PROVE TypeInv'
  BY <1>5, ReplyPosted DEF ReplyToOnly, AssignedTo
<1>6. ASSUME NEW o \in Operator, Disambiguate(o) PROVE TypeInv'
  <2>1. PICK t \in DOMAIN tickets : listed' = listed \cup {<<o, t>>}
    BY <1>6 DEF Disambiguate, AssignedTo
  <2>2. t \in 1..Len(tickets)
    BY TicketIds DEF TypeInv
  <2> QED
    BY <1>6, <2>1, <2>2
    DEF Disambiguate, TypeInv, TypeOK, HandInv, BudgetInv, handlers
<1> QED
  BY <1>1, <1>2, <1>3, <1>4, <1>5, <1>6 DEF Talk

\* An update of a row, with no reference changed.
LEMMA RowWritten ==
  ASSUME TypeInv, tickets' \in Seq(Ticket), Len(tickets') = Len(tickets),
         UNCHANGED <<handlers, shown, heard>>,
         listed' \subseteq Operator \X (1..Len(tickets)), BudgetInv',
         \/ UNCHANGED reply
         \/ \E r \in Reply : /\ reply[r].stage = "sending"
                             /\ reply' = [reply EXCEPT ![r].stage = "delivered"]
  PROVE  TypeInv'
<1> USE DEF TypeInv, TypeOK, HandInv, BudgetInv, handlers
<1>1. CASE UNCHANGED reply
  BY <1>1
<1>2. ASSUME NEW r \in Reply, reply[r].stage = "sending",
             reply' = [reply EXCEPT ![r].stage = "delivered"]
      PROVE  TypeInv'
  <2>1. reply[r].ticket \in 1..Len(tickets)
    BY <1>2
  <2> QED BY <1>2, <2>1, ZenonT(30)
<1> QED
  BY <1>1, <1>2

LEMMA StepTypes == TypeInv /\ [Next]_vars => TypeInv'
<1> SUFFICES ASSUME TypeInv, [Next]_vars PROVE TypeInv'
  OBVIOUS
<1>0. TypeOK /\ BudgetInv /\ HandInv /\ DOMAIN tickets = 1..Len(tickets)
  BY TicketIds DEF TypeInv
<1>1. ASSUME NEW m \in Message, Turn(m) PROVE TypeInv'
  BY <1>1, TurnTypes
<1>2. ASSUME NEW m \in Message, CreateTicket(m) PROVE TypeInv'
  <2>1. /\ tickets' \in Seq(Ticket)
        /\ Len(tickets') = Len(tickets) + 1
    BY <1>0, <1>2, CreateWrites
  <2>2. Len(tickets) \in Nat
    BY <1>0, TicketIds
  <2>3. /\ stage[m] = "creating"
        /\ ticketOf' = [ticketOf EXCEPT ![m] = Len(tickets) + 1]
        /\ stage' = [stage EXCEPT ![m] = "picking"]
        /\ UNCHANGED <<assignee, desk, budget>>
    BY <1>2 DEF CreateTicket
  <2>4. TypeOK'
    BY <1>0, <2>1, <2>2, <2>3 DEF TypeOK, Stage, desk
  <2>5. HandInv'
    BY <1>0, <2>1, <2>2, <2>3 DEF TypeOK, HandInv, desk
  <2> QED BY <1>0, <2>3, <2>4, <2>5, KeepTypes DEF TypeInv
<1>3. ASSUME NEW m \in Message, AssignTicket(m) PROVE TypeInv'
  <2>1. /\ ticketOf[m] \in DOMAIN tickets /\ assignee[m] \in Operator
        /\ Assigned(ticketOf[m], assignee[m])
    BY <1>0, <1>3 DEF AssignTicket, HandInv
  <2>2. tickets' \in Seq(Ticket) /\ Len(tickets') = Len(tickets)
    BY <1>0, <2>1, AssignWrites
  <2>3. /\ stage[m] = "assigning"
        /\ stage' = [stage EXCEPT ![m] = "notifying"]
        /\ UNCHANGED <<ticketOf, assignee, desk, budget>>
    BY <1>3 DEF AssignTicket
  <2> QED
    BY <1>0, <2>2, <2>3 DEF TypeInv, TypeOK, HandInv, BudgetInv, Stage, desk
<1>4. CASE Talk
  BY <1>4, TalkTypes
<1>5. ASSUME NEW r \in Reply, ResolveAnswered(r) PROVE TypeInv'
  <2>1. reply[r].ticket \in DOMAIN tickets /\ Resolved(reply[r].ticket)
    BY <1>0, <1>5 DEF ResolveAnswered, HandInv
  <2>2. tickets' \in Seq(Ticket) /\ Len(tickets') = Len(tickets)
    BY <1>0, <2>1, ResolveWrites
  <2>3. BudgetInv' /\ listed' \subseteq Operator \X (1..Len(tickets))
    BY <1>0, <1>5, KeepTypes DEF ResolveAnswered, TypeOK
  <2> QED BY <1>5, <2>2, <2>3, RowWritten DEF ResolveAnswered
<1>6. ASSUME NEW t \in DOMAIN tickets, CloseTicket(t) PROVE TypeInv'
  <2>1. Resolved(t) /\ Spend("close") /\ UNCHANGED <<handlers, desk>>
    BY <1>6 DEF CloseTicket
  <2>2. tickets' \in Seq(Ticket) /\ Len(tickets') = Len(tickets)
    BY <1>0, <2>1, ResolveWrites
  <2>3. BudgetInv' /\ listed' \subseteq Operator \X (1..Len(tickets))
    BY <1>0, <2>1, SpendTypes DEF FaultKind, desk, TypeOK
  <2> QED BY <2>1, <2>2, <2>3, RowWritten DEF desk
<1>7. ASSUME NEW t \in DOMAIN tickets, NEW o \in Operator, RouteTicket(t, o)
      PROVE TypeInv'
  <2>1. /\ Assigned(t, o) /\ Spend("route")
        /\ listed' = listed \cup {<<Primary, t>>}
        /\ UNCHANGED <<handlers, shown, reply, heard>>
    BY <1>7 DEF RouteTicket
  <2>2. tickets' \in Seq(Ticket) /\ Len(tickets') = Len(tickets)
    BY <1>0, <2>1, AssignWrites
  <2>3. BudgetInv'
    BY <1>0, <2>1, SpendTypes DEF FaultKind
  <2>4. listed' \subseteq Operator \X (1..Len(tickets))
    BY <1>0, <2>1 DEF TypeOK
  <2> QED BY <2>1, <2>2, <2>3, <2>4, RowWritten
<1>8. CASE CrashApi
  <2>1. BudgetInv'
    BY <1>0, <1>8, SpendTypes DEF CrashApi, FaultKind
  <2>2. \A r \in Reply : reply'[r].ticket = reply[r].ticket
    BY <1>0, <1>8 DEF CrashApi, TypeOK
  <2>3. \A r \in Reply : reply'[r] = reply[r] \/ reply'[r].stage = "failed"
    BY <1>0, <1>8 DEF CrashApi, TypeOK
  <2>4. HandInv'
    BY <1>0, <1>8, <2>2, <2>3 DEF CrashApi, TypeOK, HandInv
  <2>5. \A r \in Reply : reply'[r] \in
          [stage : {"unwritten", "posted", "sending", "delivered", "refused", "failed"},
           by : Operator \cup {NoOne}, ticket : 0..Len(tickets)]
    BY <1>0, <1>8, ZenonT(30) DEF CrashApi, TypeOK
  <2>6. TypeOK'
    BY <1>0, <1>8, <2>1, <2>5 DEF CrashApi, TypeOK, Stage, BudgetInv
  <2> QED BY <2>1, <2>4, <2>6 DEF TypeInv
<1>9. CASE UNCHANGED vars
  BY <1>9 DEF vars, TypeInv, TypeOK, HandInv, BudgetInv
<1> QED
  BY <1>1, <1>2, <1>3, <1>4, <1>5, <1>6, <1>7, <1>8, <1>9, NextCases

\* Every value stays within its type: what a handler, a question or a reply
\* refers to is a ticket that exists.
THEOREM TypeCorrect == Spec => []TypeOK
<1>1. TypeInv => TypeOK
  BY DEF TypeInv
<1> QED
  BY <1>1, InitTypes, StepTypes, PTL DEF Spec

-----------------------------------------------------------------------------
(* Who holds a ticket, and what the operators see. *)

\* A budget is never given back: what has not struck by now had not before.
LEMMA NoFaultYet ==
  ASSUME TypeInv, [Next]_vars, NEW F \in SUBSET FaultKind, NoFault(F)'
  PROVE  /\ NoFault(F)
         /\ \A f \in F : ~Spend(f)
<1>1. BudgetInv
  BY DEF TypeInv
<1> DEFINE Struck == \E f \in FaultKind : Spend(f)
<1>2. UNCHANGED budget \/ Struck
  <2>1. ASSUME NEW m \in Message, Turn(m) PROVE UNCHANGED budget \/ Struck
    BY <2>1 DEF Turn, Escalate, PipelineFails, JoinTicket, FindNoTicket,
       PickAssignee, NotifyOperator, NotifyFails, HandlerRaises, FaultKind
  <2>2. CASE Talk
    BY <2>2 DEF Talk, AnswerPost, CustomerHears, ReplyFails, QuoteTicket,
       ReplyToOnly, Disambiguate, FaultKind
  <2>3. ASSUME NEW m \in Message, CreateTicket(m) \/ AssignTicket(m) PROVE UNCHANGED budget \/ Struck
    BY <2>3 DEF CreateTicket, AssignTicket
  <2>4. ASSUME NEW r \in Reply, ResolveAnswered(r) PROVE UNCHANGED budget \/ Struck
    BY <2>4 DEF ResolveAnswered
  <2>5. ASSUME NEW t \in DOMAIN tickets, CloseTicket(t) PROVE Struck
    BY <2>5 DEF CloseTicket, FaultKind
  <2>6. ASSUME NEW t \in DOMAIN tickets, NEW o \in Operator, RouteTicket(t, o)
        PROVE  Struck
    BY <2>6 DEF RouteTicket, FaultKind
  <2>7. CASE CrashApi
    BY <2>7 DEF CrashApi, FaultKind
  <2>8. CASE UNCHANGED vars
    BY <2>8 DEF vars
  <2> QED
    BY <2>1, <2>2, <2>3, <2>4, <2>5, <2>6, <2>7, <2>8, NextCases
<1>3. \A f \in F : ~Spend(f)
  BY <1>1, SpendTypes DEF NoFault
<1>4. NoFault(F)
  BY <1>1, <1>2, <1>3 DEF NoFault, Spend, BudgetInv
<1> QED
  BY <1>3, <1>4

Holds(m, t) == ticketOf[m] = t /\ stage[m] \in {"picking", "assigning"}

\* A ticket without an operator is held by a handler that will assign it: this
\* also covers one that an admin closed or that others joined in the meantime.
HeldInv ==
  NoFault({"crash", "raise"}) =>
    \A t \in DOMAIN tickets :
      tickets[t].operator = NoOne => \E m \in Message : Holds(m, t)

\* Only an assignment takes a ticket out of "open".
OpenInv ==
  \A t \in DOMAIN tickets : tickets[t].status = "open" => tickets[t].operator = NoOne

ShownInv ==
  NoFault({"dmFails"}) =>
    \A m \in Message : stage[m] = "done" => <<ticketOf[m], m>> \in shown

DeskInv == TypeInv /\ HeldInv /\ OpenInv /\ ShownInv

LEMMA InitDesk == Init => DeskInv
<1> SUFFICES ASSUME Init PROVE DeskInv
  OBVIOUS
<1>1. TypeInv /\ DOMAIN tickets = {}
  BY InitTypes DEF Init
<1> QED
  BY <1>1 DEF Init, DeskInv, HeldInv, OpenInv, ShownInv

LEMMA OpenStep ==
  ASSUME TypeInv, OpenInv, [Next]_vars PROVE OpenInv'
<1>0. TypeOK /\ HandInv /\ DOMAIN tickets = 1..Len(tickets) /\ Len(tickets) \in Nat
  BY TicketIds DEF TypeInv
<1> USE DEF OpenInv
<1>1. ASSUME NEW m \in Message, Turn(m) PROVE OpenInv'
  BY <1>1 DEF Turn, Escalate, PipelineFails, JoinTicket, FindNoTicket,
     PickAssignee, NotifyOperator, NotifyFails, HandlerRaises
<1>2. ASSUME NEW m \in Message, CreateTicket(m) PROVE OpenInv'
  <2>1. /\ DOMAIN tickets' = 1..(Len(tickets) + 1)
        /\ \A t \in DOMAIN tickets : tickets'[t] = tickets[t]
        /\ tickets'[Len(tickets) + 1] =
             [chat |-> chatOf[m], status |-> "open", operator |-> NoOne]
    BY <1>0, <1>2, CreateWrites
  <2>2. \A t \in DOMAIN tickets' : t \in DOMAIN tickets \/ t = Len(tickets) + 1
    BY <1>0, <2>1
  <2> QED BY <2>1, <2>2
<1>3. ASSUME NEW m \in Message, AssignTicket(m) PROVE OpenInv'
  <2>1. /\ ticketOf[m] \in DOMAIN tickets /\ assignee[m] \in Operator
        /\ Assigned(ticketOf[m], assignee[m])
    BY <1>0, <1>3 DEF AssignTicket, HandInv
  <2> QED BY <1>0, <2>1, AssignWrites
<1>4. CASE Talk
  BY <1>4 DEF Talk, AnswerPost, CustomerHears, ReplyFails, QuoteTicket,
     ReplyToOnly, Disambiguate
<1>5. ASSUME NEW r \in Reply, ResolveAnswered(r) PROVE OpenInv'
  <2>1. reply[r].ticket \in DOMAIN tickets /\ Resolved(reply[r].ticket)
    BY <1>0, <1>5 DEF ResolveAnswered, HandInv
  <2> QED BY <1>0, <2>1, ResolveWrites
<1>6. ASSUME NEW t \in DOMAIN tickets, CloseTicket(t) PROVE OpenInv'
  BY <1>0, <1>6, ResolveWrites DEF CloseTicket
<1>7. ASSUME NEW t \in DOMAIN tickets, NEW o \in Operator, RouteTicket(t, o)
      PROVE  OpenInv'
  BY <1>0, <1>7, AssignWrites DEF RouteTicket
<1>8. CASE CrashApi BY <1>8 DEF CrashApi
<1>9. CASE UNCHANGED vars BY <1>9 DEF vars
<1> QED
  BY <1>1, <1>2, <1>3, <1>4, <1>5, <1>6, <1>7, <1>8, <1>9, NextCases

LEMMA HeldStep ==
  ASSUME TypeInv, HeldInv, [Next]_vars PROVE HeldInv'
<1> SUFFICES ASSUME NoFault({"crash", "raise"})',
                    NEW t \in DOMAIN tickets', tickets'[t].operator = NoOne
             PROVE  \E m \in Message : Holds(m, t)'
  BY DEF HeldInv
<1>0. /\ TypeOK /\ HandInv
      /\ DOMAIN tickets = 1..Len(tickets) /\ Len(tickets) \in Nat
  BY TicketIds DEF TypeInv
<1>n. ~Spend("crash") /\ ~Spend("raise") /\ NoFault({"crash", "raise"})
  BY NoFaultYet DEF FaultKind
<1>h. ASSUME t \in DOMAIN tickets, tickets[t].operator = NoOne
      PROVE  \E m \in Message : Holds(m, t)
  BY <1>n, <1>h DEF HeldInv
<1> USE DEF Holds
<1>1. ASSUME NEW n \in Message, Turn(n) PROVE \E m \in Message : Holds(m, t)'
  <2>1. tickets' = tickets
    BY <1>1 DEF Turn, Escalate, PipelineFails, JoinTicket, FindNoTicket,
       PickAssignee, NotifyOperator, NotifyFails, HandlerRaises
  <2>2. PICK m \in Message : Holds(m, t)
    BY <1>h, <2>1
  <2>3. Holds(m, t)'
    BY <1>0, <1>1, <1>n, <2>2 DEF Turn, Escalate, PipelineFails, JoinTicket,
       FindNoTicket, PickAssignee, NotifyOperator, NotifyFails, HandlerRaises, TypeOK
  <2> QED BY <2>3
<1>2. ASSUME NEW n \in Message, CreateTicket(n) PROVE \E m \in Message : Holds(m, t)'
  <2>1. /\ DOMAIN tickets' = 1..(Len(tickets) + 1)
        /\ \A s \in DOMAIN tickets : tickets'[s] = tickets[s]
    BY <1>0, <1>2, CreateWrites
  <2>2. CASE t = Len(tickets) + 1
    <3>1. Holds(n, t)'
      BY <1>0, <1>2, <2>2 DEF CreateTicket, TypeOK
    <3> QED BY <3>1
  <2>3. CASE t \in DOMAIN tickets
    <3>1. PICK m \in Message : Holds(m, t)
      BY <1>h, <2>1, <2>3
    <3>2. Holds(m, t)'
      BY <1>0, <1>2, <3>1 DEF CreateTicket, TypeOK
    <3> QED BY <3>2
  <2> QED BY <1>0, <2>1, <2>2, <2>3
<1>3. ASSUME NEW n \in Message, AssignTicket(n) PROVE \E m \in Message : Holds(m, t)'
  <2>1. /\ ticketOf[n] \in DOMAIN tickets /\ assignee[n] \in Operator
        /\ Assigned(ticketOf[n], assignee[n])
    BY <1>0, <1>3 DEF AssignTicket, HandInv
  <2>2. t \in DOMAIN tickets /\ t # ticketOf[n] /\ tickets[t].operator = NoOne
    BY <1>0, <2>1, AssignWrites
  <2>3. PICK m \in Message : Holds(m, t)
    BY <1>h, <2>2
  <2>4. Holds(m, t)'
    BY <1>0, <1>3, <2>2, <2>3 DEF AssignTicket, TypeOK
  <2> QED BY <2>4
<1>4. ASSUME UNCHANGED handlers, t \in DOMAIN tickets, tickets[t].operator = NoOne
      PROVE  \E m \in Message : Holds(m, t)'
  BY <1>h, <1>4 DEF handlers
<1>5. CASE Talk
  <2>1. UNCHANGED <<tickets, handlers>>
    BY <1>5 DEF Talk, AnswerPost, CustomerHears, ReplyFails, QuoteTicket,
       ReplyToOnly, Disambiguate
  <2> QED BY <1>4, <2>1
<1>6. ASSUME NEW r \in Reply, ResolveAnswered(r) PROVE \E m \in Message : Holds(m, t)'
  <2>1. /\ reply[r].ticket \in DOMAIN tickets /\ Resolved(reply[r].ticket)
        /\ UNCHANGED handlers
    BY <1>0, <1>6 DEF ResolveAnswered, HandInv
  <2> QED BY <1>0, <1>4, <2>1, ResolveWrites
<1>7. ASSUME NEW s \in DOMAIN tickets, CloseTicket(s)
      PROVE  \E m \in Message : Holds(m, t)'
  BY <1>0, <1>4, <1>7, ResolveWrites DEF CloseTicket
<1>8. ASSUME NEW s \in DOMAIN tickets, NEW o \in Operator, RouteTicket(s, o)
      PROVE  \E m \in Message : Holds(m, t)'
  BY <1>0, <1>4, <1>8, AssignWrites DEF RouteTicket
<1>9. CASE CrashApi
  BY <1>n, <1>9 DEF CrashApi
<1>10. CASE UNCHANGED vars
  BY <1>4, <1>10 DEF vars, handlers
<1> QED
  BY <1>1, <1>2, <1>3, <1>5, <1>6, <1>7, <1>8, <1>9, <1>10, NextCases

LEMMA ShownStep ==
  ASSUME TypeInv, ShownInv, [Next]_vars PROVE ShownInv'
<1> SUFFICES ASSUME NoFault({"dmFails"})', NEW m \in Message, stage'[m] = "done"
             PROVE  <<ticketOf[m], m>>' \in shown'
  BY DEF ShownInv
<1>0. TypeOK
  BY DEF TypeInv
<1>n. ~Spend("dmFails") /\ NoFault({"dmFails"})
  BY NoFaultYet DEF FaultKind
<1>h. stage[m] = "done" => <<ticketOf[m], m>> \in shown
  BY <1>n DEF ShownInv
<1>t. stage \in [Message -> Stage] /\ ticketOf \in [Message -> 0..Len(tickets)]
  BY <1>0 DEF TypeOK
<1> USE <1>t, <1>h
<1>1. ASSUME NEW n \in Message, Turn(n) PROVE <<ticketOf[m], m>>' \in shown'
  <2>1. CASE NotifyOperator(n) BY <2>1 DEF NotifyOperator
  <2>2. CASE JoinTicket(n) BY <2>2 DEF JoinTicket, desk
  <2>3. CASE NotifyFails(n) BY <2>3, <1>n DEF NotifyFails
  <2>4. CASE Escalate(n) BY <2>4 DEF Escalate, desk
  <2>5. CASE PipelineFails(n) BY <2>5 DEF PipelineFails, desk
  <2>6. CASE FindNoTicket(n) BY <2>6 DEF FindNoTicket, desk
  <2>7. CASE PickAssignee(n) BY <2>7 DEF PickAssignee, desk
  <2>8. CASE HandlerRaises(n) BY <2>8 DEF HandlerRaises, desk
  <2> QED
    BY <1>1, <2>1, <2>2, <2>3, <2>4, <2>5, <2>6, <2>7, <2>8 DEF Turn
<1>2. ASSUME NEW n \in Message, CreateTicket(n) \/ AssignTicket(n)
      PROVE  <<ticketOf[m], m>>' \in shown'
  <2>1. CASE CreateTicket(n) BY <2>1 DEF CreateTicket, desk
  <2>2. CASE AssignTicket(n) BY <2>2 DEF AssignTicket, desk
  <2> QED BY <1>2, <2>1, <2>2
<1>3. CASE Talk
  <2>1. UNCHANGED <<stage, ticketOf, shown>>
    BY <1>3 DEF Talk, AnswerPost, CustomerHears, ReplyFails, QuoteTicket,
       ReplyToOnly, Disambiguate, handlers
  <2> QED BY <2>1
<1>4. ASSUME NEW r \in Reply, ResolveAnswered(r) PROVE <<ticketOf[m], m>>' \in shown'
  BY <1>4 DEF ResolveAnswered, handlers
<1>5. ASSUME NEW t \in DOMAIN tickets, CloseTicket(t)
      PROVE  <<ticketOf[m], m>>' \in shown'
  BY <1>5 DEF CloseTicket, handlers, desk
<1>6. ASSUME NEW t \in DOMAIN tickets, NEW o \in Operator, RouteTicket(t, o)
      PROVE  <<ticketOf[m], m>>' \in shown'
  BY <1>6 DEF RouteTicket, handlers
<1>7. CASE CrashApi BY <1>7 DEF CrashApi
<1>8. CASE UNCHANGED vars BY <1>8 DEF vars
<1> QED
  BY <1>1, <1>2, <1>3, <1>4, <1>5, <1>6, <1>7, <1>8, NextCases

LEMMA StepDesk == DeskInv /\ [Next]_vars => DeskInv'
BY StepTypes, OpenStep, HeldStep, ShownStep DEF DeskInv

\* While no handler is cut short, a ticket that no reply would be accepted for
\* has a handler about to assign it.
THEOREM OpenIsHeld == Spec => []OpenIsInHand
<1>1. DeskInv => OpenIsInHand
  BY DEF DeskInv, HeldInv, OpenInv, OpenIsInHand, Holds
<1> QED
  BY <1>1, InitDesk, StepDesk, PTL DEF Spec

\* When nothing failed, the question of every escalated message is in the
\* alert chat and its ticket has an operator or is about to get one.
THEOREM QuestionsReachDesk == Spec => []EscalationOnDesk
<1>1. DeskInv => EscalationOnDesk
  <2> SUFFICES ASSUME DeskInv, NoFault({"crash", "raise", "dmFails"}),
                      NEW m \in Message, stage[m] = "done"
               PROVE  /\ <<ticketOf[m], m>> \in shown
                      /\ \/ tickets[ticketOf[m]].operator # NoOne
                         \/ \E n \in Message \ {m} :
                              /\ ticketOf[n] = ticketOf[m]
                              /\ stage[n] \in {"picking", "assigning"}
    BY DEF EscalationOnDesk
  <2>1. NoFault({"crash", "raise"}) /\ NoFault({"dmFails"})
    BY DEF NoFault
  <2>2. <<ticketOf[m], m>> \in shown
    BY <2>1 DEF DeskInv, ShownInv
  <2>3. ticketOf[m] \in DOMAIN tickets
    <3>1. TypeOK /\ DOMAIN tickets = 1..Len(tickets)
      BY TicketIds DEF DeskInv, TypeInv
    <3>2. shown \subseteq (1..Len(tickets)) \X Message
      BY <3>1 DEF TypeOK
    <3> QED BY <2>2, <3>1, <3>2
  <2>4. tickets[ticketOf[m]].operator = NoOne =>
          \E n \in Message : Holds(n, ticketOf[m])
    BY <2>1, <2>3 DEF DeskInv, HeldInv
  <2> QED BY <2>2, <2>4 DEF Holds
<1> QED
  BY <1>1, InitDesk, StepDesk, PTL DEF Spec

-----------------------------------------------------------------------------
(* What a resolved ticket stands for. *)

\* A reply the customer received was posted for a ticket, which it keeps.
AnswerInv ==
  /\ \A r \in heard : reply[r].stage # "unwritten"
  /\ ResolvedIsAnswered

LEMMA AnswerStep ==
  ASSUME TypeInv, AnswerInv, [Next]_vars PROVE AnswerInv'
<1>0. /\ TypeOK /\ HandInv
      /\ DOMAIN tickets = 1..Len(tickets) /\ Len(tickets) \in Nat
  BY TicketIds DEF TypeInv
<1>f. NoFault({"close"})' => NoFault({"close"}) /\ ~Spend("close")
  BY NoFaultYet DEF FaultKind
<1>1. \A r \in heard : /\ r \in heard' /\ reply'[r].stage # "unwritten"
                       /\ reply'[r].ticket = reply[r].ticket
  <2> SUFFICES ASSUME NEW r \in heard
               PROVE  /\ r \in heard' /\ reply'[r].stage # "unwritten"
                      /\ reply'[r].ticket = reply[r].ticket
    OBVIOUS
  <2> DEFINE Kept == /\ r \in heard' /\ reply'[r].stage # "unwritten"
                     /\ reply'[r].ticket = reply[r].ticket
  <2>0. r \in Reply /\ reply[r].stage # "unwritten"
    BY <1>0 DEF AnswerInv, TypeOK
  <2> USE <1>0, <2>0 DEF TypeOK
  <2>1. ASSUME NEW m \in Message, Turn(m) \/ CreateTicket(m) \/ AssignTicket(m)
        PROVE  UNCHANGED <<reply, heard>>
    BY <2>1 DEF Turn, Escalate, PipelineFails, JoinTicket, FindNoTicket,
       PickAssignee, NotifyOperator, NotifyFails, HandlerRaises, CreateTicket,
       AssignTicket, desk
  <2>2. CASE Talk
    <3>1. ASSUME NEW q \in Reply, AnswerPost(q) \/ ReplyFails(q) PROVE Kept
      <4>1. PICK s \in {"sending", "refused", "failed"} :
              /\ reply' = [reply EXCEPT ![q].stage = s]
              /\ heard' = heard
        BY <3>1 DEF AnswerPost, ReplyFails
      <4>2. CASE q = r BY <4>1, <4>2
      <4>3. CASE q # r BY <4>1, <4>3
      <4> QED BY <4>2, <4>3
    <3>2. ASSUME NEW q \in Reply, CustomerHears(q) PROVE Kept
      BY <3>2 DEF CustomerHears
    <3>3. ASSUME NEW q \in Reply, NEW o \in Operator,
                 QuoteTicket(q, o) \/ ReplyToOnly(q, o)
          PROVE  Kept
      BY <3>3 DEF QuoteTicket, ReplyToOnly, Post
    <3>4. ASSUME NEW o \in Operator, Disambiguate(o) PROVE Kept
      BY <3>4 DEF Disambiguate
    <3> QED BY <2>2, <3>1, <3>2, <3>3, <3>4 DEF Talk
  <2>3. ASSUME NEW q \in Reply, ResolveAnswered(q) PROVE Kept
    BY <2>3 DEF ResolveAnswered
  <2>4. CASE \/ \E t \in DOMAIN tickets : CloseTicket(t)
             \/ \E t \in DOMAIN tickets, o \in Operator : RouteTicket(t, o)
             \/ UNCHANGED vars
    BY <2>4 DEF CloseTicket, RouteTicket, desk, vars
  <2>5. CASE CrashApi
    BY <2>5 DEF CrashApi
  <2> QED BY <2>1, <2>2, <2>3, <2>4, <2>5, NextCases
<1>2. \A r \in heard' : reply'[r].stage # "unwritten"
  <2>1. ASSUME NEW r \in Reply, CustomerHears(r)
        PROVE  heard' = heard \cup {r} /\ reply'[r].stage = "sending"
    BY <2>1 DEF CustomerHears
  <2>2. heard' = heard \/ \E r \in Reply : CustomerHears(r)
    <3>1. ASSUME NEW m \in Message, Turn(m) PROVE heard' = heard
      BY <3>1 DEF Turn, Escalate, PipelineFails, JoinTicket, FindNoTicket,
         PickAssignee, NotifyOperator, NotifyFails, HandlerRaises, desk
    <3>2. CASE Talk
      BY <3>2 DEF Talk, AnswerPost, ReplyFails, QuoteTicket, ReplyToOnly,
         Disambiguate
    <3>3. ASSUME NEW m \in Message, CreateTicket(m) \/ AssignTicket(m)
          PROVE  heard' = heard
      BY <3>3 DEF CreateTicket, AssignTicket, desk
    <3>4. ASSUME NEW r \in Reply, ResolveAnswered(r) PROVE heard' = heard
      BY <3>4 DEF ResolveAnswered
    <3>5. ASSUME NEW t \in DOMAIN tickets, CloseTicket(t) PROVE heard' = heard
      BY <3>5 DEF CloseTicket, desk
    <3>6. ASSUME NEW t \in DOMAIN tickets, NEW o \in Operator, RouteTicket(t, o)
          PROVE  heard' = heard
      BY <3>6 DEF RouteTicket
    <3>7. ASSUME CrashApi \/ UNCHANGED vars PROVE heard' = heard
      BY <3>7 DEF CrashApi, vars
    <3> QED BY <3>1, <3>2, <3>3, <3>4, <3>5, <3>6, <3>7, NextCases
  <2> QED BY <1>1, <2>1, <2>2
<1>3. ResolvedIsAnswered'
  <2> SUFFICES ASSUME NoFault({"close"})', NEW t \in DOMAIN tickets',
                      tickets'[t].status = "resolved"
               PROVE  \E r \in heard' : reply'[r].ticket = t
    BY DEF ResolvedIsAnswered
  <2>1. ASSUME t \in DOMAIN tickets, tickets[t].status = "resolved"
        PROVE  \E r \in heard' : reply'[r].ticket = t
    BY <1>1, <1>f, <2>1 DEF AnswerInv, ResolvedIsAnswered
  <2>2. ASSUME UNCHANGED tickets PROVE \E r \in heard' : reply'[r].ticket = t
    BY <2>1, <2>2
  <2>3. ASSUME NEW m \in Message, Turn(m) PROVE UNCHANGED tickets
    BY <2>3 DEF Turn, Escalate, PipelineFails, JoinTicket, FindNoTicket,
       PickAssignee, NotifyOperator, NotifyFails, HandlerRaises
  <2>4. ASSUME Talk PROVE UNCHANGED tickets
    BY <2>4 DEF Talk, AnswerPost, CustomerHears, ReplyFails, QuoteTicket,
       ReplyToOnly, Disambiguate
  <2>5. ASSUME NEW m \in Message, CreateTicket(m)
        PROVE  t \in DOMAIN tickets /\ tickets[t].status = "resolved"
    <3>1. /\ DOMAIN tickets' = 1..(Len(tickets) + 1)
          /\ \A s \in DOMAIN tickets : tickets'[s] = tickets[s]
          /\ tickets'[Len(tickets) + 1] =
               [chat |-> chatOf[m], status |-> "open", operator |-> NoOne]
      BY <1>0, <2>5, CreateWrites
    <3>2. t # Len(tickets) + 1
      BY <3>1
    <3> QED BY <1>0, <3>1, <3>2
  <2>6. ASSUME NEW m \in Message, AssignTicket(m)
        PROVE  t \in DOMAIN tickets /\ tickets[t].status = "resolved"
    <3>1. /\ ticketOf[m] \in DOMAIN tickets /\ assignee[m] \in Operator
          /\ Assigned(ticketOf[m], assignee[m])
      BY <1>0, <2>6 DEF AssignTicket, HandInv
    <3> QED BY <1>0, <3>1, AssignWrites
  <2>7. ASSUME NEW r \in Reply, ResolveAnswered(r)
        PROVE  \E q \in heard' : reply'[q].ticket = t
    <3>1. /\ reply[r].ticket \in DOMAIN tickets /\ Resolved(reply[r].ticket)
          /\ r \in heard
      BY <1>0, <2>7 DEF ResolveAnswered, HandInv
    <3>2. CASE t = reply[r].ticket
      BY <1>1, <3>1, <3>2
    <3>3. CASE t # reply[r].ticket
      BY <1>0, <2>1, <3>1, <3>3, ResolveWrites
    <3> QED BY <3>2, <3>3
  <2>8. ASSUME NEW s \in DOMAIN tickets, NEW o \in Operator, RouteTicket(s, o)
        PROVE  t \in DOMAIN tickets /\ tickets[t].status = "resolved"
    BY <1>0, <2>8, AssignWrites DEF RouteTicket
  <2>9. ASSUME NEW s \in DOMAIN tickets, CloseTicket(s) PROVE FALSE
    BY <1>f, <2>9 DEF CloseTicket
  <2>10. ASSUME CrashApi \/ UNCHANGED vars PROVE UNCHANGED tickets
    BY <2>10 DEF CrashApi, vars
  <2> QED
    BY <2>1, <2>2, <2>3, <2>4, <2>5, <2>6, <2>7, <2>8, <2>9, <2>10, NextCases
<1> QED
  BY <1>2, <1>3 DEF AnswerInv

\* Unless an admin closes tickets, one is resolved only after its customer has
\* received a reply of the operator it was assigned to.
THEOREM ResolvedMeansAnswered == Spec => []ResolvedIsAnswered
<1>1. Init => TypeInv /\ AnswerInv
  <2> SUFFICES ASSUME Init PROVE TypeInv /\ AnswerInv
    OBVIOUS
  <2>1. DOMAIN tickets = {}
    BY DEF Init
  <2> QED BY <2>1, InitTypes DEF Init, AnswerInv, ResolvedIsAnswered
<1>2. TypeInv /\ AnswerInv /\ [Next]_vars => (TypeInv /\ AnswerInv)'
  BY StepTypes, AnswerStep
<1>3. AnswerInv => ResolvedIsAnswered
  BY DEF AnswerInv
<1> QED
  BY <1>1, <1>2, <1>3, PTL DEF Spec

-----------------------------------------------------------------------------
(* Why a resolved ticket stays resolved. *)

Holding(m) == stage[m] \in {"picking", "assigning"}

\* A handler that will assign a ticket is the only one to hold it, the ticket
\* is still open, and a reply is on its way only for a ticket that is not.
SoleInv ==
  NoFault({"route", "close"}) =>
    /\ \A m \in Message : Holding(m) => tickets[ticketOf[m]].status = "open"
    /\ \A m, n \in Message :
         Holding(m) /\ Holding(n) /\ ticketOf[m] = ticketOf[n] => m = n
    /\ \A r \in Reply : reply[r].stage = "sending" =>
         tickets[reply[r].ticket].operator # NoOne

AuthorInv == \A r \in Reply : reply[r].stage = "posted" => reply[r].by \in Operator

FinalInv == TypeInv /\ OpenInv /\ AuthorInv /\ SoleInv

LEMMA AuthorStep ==
  ASSUME TypeInv, AuthorInv, [Next]_vars PROVE AuthorInv'
<1> USE DEF AuthorInv
<1>0. TypeOK
  BY DEF TypeInv
<1>1. ASSUME NEW m \in Message, Turn(m) \/ CreateTicket(m) \/ AssignTicket(m)
      PROVE  AuthorInv'
  <2>1. UNCHANGED reply
    BY <1>1 DEF Turn, Escalate, PipelineFails, JoinTicket, FindNoTicket,
       PickAssignee, NotifyOperator, NotifyFails, HandlerRaises, CreateTicket,
       AssignTicket, desk
  <2> QED BY <2>1
<1>2. ASSUME NEW q \in Reply, AnswerPost(q) \/ ReplyFails(q) \/ ResolveAnswered(q)
      PROVE  AuthorInv'
  <2>1. PICK s \in {"sending", "refused", "failed", "delivered"} :
          reply' = [reply EXCEPT ![q].stage = s]
    BY <1>2 DEF AnswerPost, ReplyFails, ResolveAnswered
  <2> QED BY <1>0, <2>1 DEF TypeOK
<1>3. ASSUME NEW q \in Reply, NEW o \in Operator,
             QuoteTicket(q, o) \/ ReplyToOnly(q, o)
      PROVE  AuthorInv'
  <2>1. \E t \in DOMAIN tickets : Post(q, o, t)
    BY <1>3 DEF QuoteTicket, ReplyToOnly, Quotable, AssignedTo
  <2> QED BY <1>0, <2>1 DEF Post, TypeOK
<1>4. CASE Talk
  <2>1. ASSUME NEW q \in Reply, CustomerHears(q) PROVE AuthorInv'
    BY <2>1 DEF CustomerHears
  <2>2. ASSUME NEW o \in Operator, Disambiguate(o) PROVE AuthorInv'
    BY <2>2 DEF Disambiguate
  <2> QED BY <1>2, <1>3, <1>4, <2>1, <2>2 DEF Talk
<1>5. ASSUME NEW t \in DOMAIN tickets,
             CloseTicket(t) \/ \E o \in Operator : RouteTicket(t, o)
      PROVE  AuthorInv'
  BY <1>5 DEF CloseTicket, RouteTicket, desk
<1>6. CASE CrashApi
  BY <1>0, <1>6 DEF CrashApi, TypeOK
<1>7. CASE UNCHANGED vars
  BY <1>7 DEF vars
<1> QED
  BY <1>1, <1>2, <1>4, <1>5, <1>6, <1>7, NextCases

\* In a step that is neither a routing nor a closing, an assignment is the first
\* of its ticket and a resolution is not of an open one.
LEMMA SoleStep ==
  ASSUME FinalInv, [Next]_vars, NoFault({"route", "close"})'
  PROVE  /\ SoleInv'
         /\ \A t \in DOMAIN tickets :
              tickets[t].status = "resolved" => tickets'[t] = tickets[t]
<1> DEFINE Final == \A t \in DOMAIN tickets :
                      tickets[t].status = "resolved" => tickets'[t] = tickets[t]
<1>0. /\ TypeOK /\ HandInv /\ DOMAIN tickets = 1..Len(tickets)
      /\ Len(tickets) \in Nat
  BY TicketIds DEF FinalInv, TypeInv
<1>t. /\ stage \in [Message -> Stage] /\ ticketOf \in [Message -> 0..Len(tickets)]
      /\ \A r \in Reply : reply[r].stage \in {"posted", "sending"} =>
           reply[r].ticket \in DOMAIN tickets
      /\ \A m \in Message : Holding(m) => ticketOf[m] \in DOMAIN tickets
  BY <1>0 DEF TypeOK, HandInv, Holding
<1>n. ~Spend("route") /\ ~Spend("close") /\ NoFault({"route", "close"})
  <2>1. TypeInv BY DEF FinalInv
  <2> QED BY <2>1, NoFaultYet DEF FaultKind
<1>s. /\ \A m \in Message : Holding(m) => tickets[ticketOf[m]].status = "open"
      /\ \A m, n \in Message :
           Holding(m) /\ Holding(n) /\ ticketOf[m] = ticketOf[n] => m = n
      /\ \A r \in Reply : reply[r].stage = "sending" =>
           tickets[reply[r].ticket].operator # NoOne
  BY <1>n DEF FinalInv, SoleInv
<1>1. ASSUME NEW m \in Message, Turn(m) PROVE SoleInv' /\ Final
  <2>1. UNCHANGED <<tickets, reply>>
    BY <1>1 DEF Turn, Escalate, PipelineFails, JoinTicket, FindNoTicket,
       PickAssignee, NotifyOperator, NotifyFails, HandlerRaises, desk
  <2>2. \A n \in Message :
          Holding(n)' => Holding(n) /\ ticketOf'[n] = ticketOf[n]
    <3> USE <1>t DEF Holding
    <3>1. CASE Escalate(m) BY <3>1 DEF Escalate
    <3>2. CASE PipelineFails(m) BY <3>2 DEF PipelineFails
    <3>3. CASE JoinTicket(m) BY <3>3 DEF JoinTicket
    <3>4. CASE FindNoTicket(m) BY <3>4 DEF FindNoTicket
    <3>5. CASE PickAssignee(m) BY <3>5 DEF PickAssignee
    <3>6. CASE NotifyOperator(m) BY <3>6 DEF NotifyOperator
    <3>7. CASE NotifyFails(m) BY <3>7 DEF NotifyFails
    <3>8. CASE HandlerRaises(m) BY <3>8 DEF HandlerRaises
    <3> QED
      BY <1>1, <3>1, <3>2, <3>3, <3>4, <3>5, <3>6, <3>7, <3>8 DEF Turn
  <2> QED BY <1>s, <2>1, <2>2 DEF SoleInv
<1>2. ASSUME NEW m \in Message, CreateTicket(m) PROVE SoleInv' /\ Final
  <2>1. /\ DOMAIN tickets' = 1..(Len(tickets) + 1)
        /\ \A t \in DOMAIN tickets : tickets'[t] = tickets[t]
        /\ tickets'[Len(tickets) + 1] =
             [chat |-> chatOf[m], status |-> "open", operator |-> NoOne]
    BY <1>0, <1>2, CreateWrites
  <2>2. /\ Holding(m)' /\ ~Holding(m) /\ ticketOf'[m] = Len(tickets) + 1
        /\ \A n \in Message \ {m} : /\ Holding(n)' <=> Holding(n)
                                    /\ ticketOf'[n] = ticketOf[n]
        /\ UNCHANGED reply
    BY <1>2, <1>t DEF CreateTicket, Holding, desk
  <2>3. Len(tickets) + 1 \notin DOMAIN tickets
    BY <1>0
  <2>4. \A n \in Message : Holding(n)' =>
          \/ n = m /\ tickets'[ticketOf'[n]].status = "open"
          \/ /\ n # m /\ Holding(n) /\ ticketOf[n] \in DOMAIN tickets
             /\ tickets'[ticketOf'[n]] = tickets[ticketOf[n]]
    BY <1>t, <2>1, <2>2
  <2>5. \A r \in Reply : reply'[r].stage = "sending" =>
          tickets'[reply'[r].ticket].operator # NoOne
    BY <1>s, <1>t, <2>1, <2>2
  <2>6. \A n, k \in Message :
          Holding(n)' /\ Holding(k)' /\ ticketOf'[n] = ticketOf'[k] => n = k
    BY <1>s, <2>2, <2>3, <2>4
  <2>7. \A n \in Message : Holding(n)' => tickets'[ticketOf'[n]].status = "open"
    BY <1>s, <2>4
  <2> QED BY <2>1, <2>5, <2>6, <2>7 DEF SoleInv
<1>3. ASSUME NEW m \in Message, AssignTicket(m) PROVE SoleInv' /\ Final
  <2>1. /\ ticketOf[m] \in DOMAIN tickets /\ assignee[m] \in Operator
        /\ Assigned(ticketOf[m], assignee[m])
    BY <1>0, <1>3 DEF AssignTicket, HandInv
  <2>2. /\ tickets'[ticketOf[m]].operator = assignee[m]
        /\ \A s \in DOMAIN tickets : s # ticketOf[m] => tickets'[s] = tickets[s]
    BY <1>0, <2>1, AssignWrites
  <2>3. /\ Holding(m) /\ ~Holding(m)' /\ UNCHANGED <<ticketOf, reply>>
        /\ \A n \in Message \ {m} : Holding(n)' <=> Holding(n)
    BY <1>3, <1>t DEF AssignTicket, Holding, desk
  <2>4. tickets[ticketOf[m]].status = "open"
    BY <1>s, <2>3
  <2>5. Final
    BY <2>2, <2>4
  <2>6. assignee[m] # NoOne
    BY <2>1
  <2>7. \A n \in Message : Holding(n)' => /\ Holding(n)
                                          /\ ticketOf[n] \in DOMAIN tickets
                                          /\ ticketOf[n] # ticketOf[m]
    BY <1>s, <1>t, <2>3
  <2>8. \A r \in Reply : reply'[r].stage = "sending" =>
          tickets'[reply'[r].ticket].operator # NoOne
    BY <1>s, <1>t, <2>2, <2>3, <2>6
  <2> QED BY <1>s, <2>2, <2>3, <2>5, <2>7, <2>8 DEF SoleInv
<1>4. ASSUME UNCHANGED <<tickets, handlers>>,
             \A r \in Reply : reply'[r].stage = "sending" =>
               /\ reply'[r].ticket = reply[r].ticket
               /\ tickets[reply[r].ticket].operator # NoOne
      PROVE  SoleInv' /\ Final
  BY <1>s, <1>4 DEF SoleInv, Holding, handlers
<1>5. CASE Talk
  <2>0. reply \in [Reply -> [stage : {"unwritten", "posted", "sending", "delivered",
                                      "refused", "failed"},
                             by : Operator \cup {NoOne}, ticket : 0..Len(tickets)]]
    BY <1>0 DEF TypeOK
  <2>1. ASSUME NEW q \in Reply, AnswerPost(q) PROVE SoleInv' /\ Final
    <3>1. reply[q].by # NoOne
      BY <2>1 DEF AnswerPost, FinalInv, AuthorInv
    <3>2. UNCHANGED <<tickets, handlers>>
      BY <2>1 DEF AnswerPost
    <3>3. \A r \in Reply : reply'[r].ticket = reply[r].ticket
      BY <2>0, <2>1 DEF AnswerPost
    <3>4. reply'[q].stage = "sending" => tickets[reply[q].ticket].operator = reply[q].by
      BY <2>0, <2>1 DEF AnswerPost
    <3>5. \A r \in Reply \ {q} : reply'[r] = reply[r]
      BY <2>0, <2>1 DEF AnswerPost
    <3> QED BY <1>4, <1>s, <3>1, <3>2, <3>3, <3>4, <3>5
  <2>2. ASSUME NEW q \in Reply, ReplyFails(q) PROVE SoleInv' /\ Final
    <3>1. UNCHANGED <<tickets, handlers>>
      BY <2>2 DEF ReplyFails
    <3>2. reply'[q].stage = "failed" /\ \A r \in Reply \ {q} : reply'[r] = reply[r]
      BY <2>0, <2>2 DEF ReplyFails
    <3> QED BY <1>4, <1>s, <3>1, <3>2
  <2>3. ASSUME NEW q \in Reply, NEW o \in Operator,
               QuoteTicket(q, o) \/ ReplyToOnly(q, o)
        PROVE  SoleInv' /\ Final
    <3>1. UNCHANGED <<tickets, handlers>>
      BY <2>3 DEF QuoteTicket, ReplyToOnly
    <3>2. reply'[q].stage = "posted" /\ \A r \in Reply \ {q} : reply'[r] = reply[r]
      BY <2>0, <2>3 DEF QuoteTicket, ReplyToOnly, Post
    <3> QED BY <1>4, <1>s, <3>1, <3>2
  <2>4. ASSUME UNCHANGED <<tickets, handlers, reply>> PROVE SoleInv' /\ Final
    BY <1>4, <1>s, <2>4
  <2> QED
    BY <1>5, <2>1, <2>2, <2>3, <2>4 DEF Talk, CustomerHears, Disambiguate
<1>6. ASSUME NEW q \in Reply, ResolveAnswered(q) PROVE SoleInv' /\ Final
  <2>1. /\ reply[q].ticket \in DOMAIN tickets /\ Resolved(reply[q].ticket)
        /\ UNCHANGED handlers
    BY <1>0, <1>6 DEF ResolveAnswered, HandInv
  <2>2. /\ \A t \in DOMAIN tickets : tickets'[t].operator = tickets[t].operator
        /\ \A t \in DOMAIN tickets : t # reply[q].ticket => tickets'[t] = tickets[t]
        /\ Final
    BY <1>0, <2>1, ResolveWrites
  <2>3. tickets[reply[q].ticket].status # "open"
    <3>1. tickets[reply[q].ticket].operator # NoOne
      BY <1>6, <1>s DEF ResolveAnswered
    <3> QED BY <2>1, <3>1 DEF FinalInv, OpenInv
  <2>4. \A m \in Message : Holding(m) => tickets'[ticketOf[m]].status = "open"
    BY <1>s, <1>t, <2>2, <2>3
  <2>5. \A r \in Reply : reply'[r].stage = "sending" => reply'[r] = reply[r]
    <3>1. reply \in [Reply -> [stage : {"unwritten", "posted", "sending", "delivered",
                                        "refused", "failed"},
                               by : Operator \cup {NoOne}, ticket : 0..Len(tickets)]]
      BY <1>0 DEF TypeOK
    <3> QED BY <1>6, <3>1 DEF ResolveAnswered
  <2>6. \A r \in Reply : reply'[r].stage = "sending" =>
          tickets'[reply'[r].ticket].operator # NoOne
    BY <1>s, <1>t, <2>2, <2>5
  <2> QED BY <1>s, <2>1, <2>2, <2>4, <2>6 DEF SoleInv, Holding, handlers
<1>7. ASSUME NEW t \in DOMAIN tickets,
             CloseTicket(t) \/ \E o \in Operator : RouteTicket(t, o)
      PROVE  FALSE
  BY <1>7, <1>n DEF CloseTicket, RouteTicket
<1>8. CASE CrashApi
  <2>1. UNCHANGED <<tickets, ticketOf>>
    BY <1>8 DEF CrashApi
  <2>2. \A m \in Message : ~Holding(m)'
    BY <1>8, <1>t DEF CrashApi, Holding
  <2>3. ASSUME NEW r \in Reply PROVE reply'[r].stage # "sending"
    <3>1. reply'[r] = IF reply[r].stage = "sending"
                        THEN [reply[r] EXCEPT !.stage = "failed"] ELSE reply[r]
      BY <1>8 DEF CrashApi
    <3>2. CASE reply[r].stage = "sending"
      BY <1>0, <3>1, <3>2 DEF TypeOK
    <3>3. CASE reply[r].stage # "sending"
      BY <3>1, <3>3
    <3> QED BY <3>2, <3>3
  <2> QED BY <2>1, <2>2, <2>3 DEF SoleInv
<1>9. CASE UNCHANGED vars
  BY <1>4, <1>s, <1>9 DEF vars, handlers
<1> QED
  BY <1>1, <1>2, <1>3, <1>5, <1>6, <1>7, <1>8, <1>9, NextCases

\* While no admin routes or closes tickets, a resolved ticket is never written
\* again.
THEOREM ResolvedStays == Spec => ResolvedIsFinal
<1>1. Init => FinalInv
  <2> SUFFICES ASSUME Init PROVE FinalInv
    OBVIOUS
  <2>1. DOMAIN tickets = {}
    BY DEF Init
  <2> QED
    BY <2>1, InitTypes DEF Init, FinalInv, OpenInv, AuthorInv, SoleInv, Holding
<1>2. FinalInv /\ [Next]_vars => FinalInv'
  <2> SUFFICES ASSUME FinalInv, [Next]_vars PROVE FinalInv'
    OBVIOUS
  <2>1. TypeInv' /\ OpenInv' /\ AuthorInv'
    BY StepTypes, OpenStep, AuthorStep DEF FinalInv
  <2>2. SoleInv'
    <3>1. CASE NoFault({"route", "close"})' BY <3>1, SoleStep
    <3>2. CASE ~NoFault({"route", "close"})' BY <3>2 DEF SoleInv
    <3> QED BY <3>1, <3>2
  <2> QED BY <2>1, <2>2 DEF FinalInv
<1>3. FinalInv /\ [Next]_vars =>
        [NoFault({"route", "close"})' =>
           \A t \in DOMAIN tickets :
             tickets[t].status = "resolved" => tickets'[t] = tickets[t]]_vars
  BY SoleStep
<1> QED
  BY <1>1, <1>2, <1>3, PTL DEF Spec, ResolvedIsFinal
=============================================================================
