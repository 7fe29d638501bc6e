---------------------------- MODULE HitlTickets ----------------------------
(***************************************************************************)
(* The hand-over from the bot to a person, and the person's reply.         *)
(*                                                                         *)
(* An inbound handler of the api that escalates looks for an active ticket *)
(* of the chat and joins it, or creates one, picks an operator and assigns *)
(* it; then it shows the question in the operators' alert chat.  Each of   *)
(* these steps is a call of its own, on a worker thread or to Telegram,    *)
(* and handlers of several messages run side by side.  An operator replies *)
(* through the gateway, which reads the ticket from the message they quote *)
(* or from the list of their assigned tickets; the api checks that they    *)
(* are the assignee, sends the reply and resolves the ticket.  Tickets     *)
(* live in SQLite and survive a restart of the api; handlers do not.       *)
(***************************************************************************)
EXTENDS Naturals, Sequences

CONSTANTS
  Message,      \* customer messages that the api hands to a person
  Chat,         \* chat_ids
  chatOf,       \* the chat of a message
  specialist,   \* the calendar operator a message is for, or NoOne
  Operator,     \* operator usernames
  Staff,        \* those registered and active
  Primary,      \* the first of them; the alert chat is theirs
  NoOne,        \* operator_username NULL
  Reply,        \* replies that operators write
  Faults        \* how often a fault or an admin may strike: bounds the model

\* The pipeline raises or runs out of time; Telegram refuses a DM or a reply, or
\* the call for it fails; a store raises; the api dies; an admin routes or
\* resolves a ticket.
FaultKind == {"pipeline", "dmFails", "replyFails", "raise", "crash", "route",
              "close"}

ASSUME ChatAssumption == chatOf \in [Message -> Chat]
ASSUME OperatorAssumption ==
  /\ NoOne \notin Operator
  /\ Staff \subseteq Operator
  /\ Primary \in Staff
  /\ specialist \in [Message -> Operator \cup {NoOne}]
ASSUME FaultsAssumption == Faults \in [FaultKind -> Nat]

VARIABLES
  tickets,    \* hitl_tickets, in the order of their ids
  stage,      \* stage[m]: where the handler of m stands
  ticketOf,   \* ticketOf[m]: the ticket it created or joined, or 0
  assignee,   \* assignee[m]: the operator it has picked
  shown,      \* <<t, m>>: the question of m is in the alert chat, under t
  listed,     \* <<o, t>>: another bot message to o that refers to t
  reply,      \* reply[r]: its stage, its author and the ticket it is for
  heard,      \* replies the customer has received
  budget      \* faults that may still strike

handlers == <<stage, ticketOf, assignee>>
desk == <<shown, listed, reply, heard>>
vars == <<tickets, stage, ticketOf, assignee, shown, listed, reply, heard, budget>>

Ticket == [chat : Chat, status : {"open", "assigned", "resolved"},
           operator : Operator \cup {NoOne}]
Stage == {"new", "looking", "creating", "picking", "assigning", "notifying",
          "done", "cut"}

TypeOK ==
  /\ tickets \in Seq(Ticket)
  /\ stage \in [Message -> Stage]
  /\ ticketOf \in [Message -> 0..Len(tickets)]
  /\ assignee \in [Message -> Operator \cup {NoOne}]
  /\ shown \subseteq (1..Len(tickets)) \X Message
  /\ listed \subseteq Operator \X (1..Len(tickets))
  /\ reply \in [Reply -> [stage : {"unwritten", "posted", "sending", "delivered",
                                   "refused", "failed"},
                          by : Operator \cup {NoOne}, ticket : 0..Len(tickets)]]
  /\ heard \subseteq Reply
  /\ budget \in [FaultKind -> Nat]

Init ==
  /\ tickets = << >>
  /\ stage = [m \in Message |-> "new"]
  /\ ticketOf = [m \in Message |-> 0]
  /\ assignee = [m \in Message |-> NoOne]
  /\ shown = {}
  /\ listed = {}
  /\ reply = [r \in Reply |-> [stage |-> "unwritten", by |-> NoOne, ticket |-> 0]]
  /\ heard = {}
  /\ budget = Faults

Spend(f) ==
  /\ budget[f] > 0
  /\ budget' = [budget EXCEPT ![f] = @ - 1]

\* Queries order by id, descending, and take the first.
IsNewest(t, S) == t \in S /\ \A s \in S : s <= t

TicketsOf(c) == {t \in DOMAIN tickets : tickets[t].chat = c}
ActiveOf(c) == {t \in TicketsOf(c) : tickets[t].status \in {"open", "assigned"}}
AssignedTo(o) == {t \in DOMAIN tickets : /\ tickets[t].operator = o
                                         /\ tickets[t].status = "assigned"}

-----------------------------------------------------------------------------
(* The inbound handler. *)

\* The pipeline wants a person: the handler looks for an active ticket.
Escalate(m) ==
  /\ stage[m] = "new"
  /\ stage' = [stage EXCEPT ![m] = "looking"]
  /\ UNCHANGED <<tickets, ticketOf, assignee, desk, budget>>

\* The pipeline raised or ran out of time: a ticket is created without a look.
PipelineFails(m) ==
  /\ stage[m] = "new"
  /\ Spend("pipeline")
  /\ stage' = [stage EXCEPT ![m] = "creating"]
  /\ UNCHANGED <<tickets, ticketOf, assignee, desk>>

\* Mutant of JoinTicket: the follow-up is not passed on to the operators.
JoinSilently(m) ==
  /\ stage[m] = "looking"
  /\ \E t \in DOMAIN tickets :
       /\ IsNewest(t, ActiveOf(chatOf[m]))
       /\ ticketOf' = [ticketOf EXCEPT ![m] = t]
  /\ stage' = [stage EXCEPT ![m] = "done"]
  /\ UNCHANGED <<tickets, assignee, desk, budget>>

\* The chat has an active ticket: the message becomes a follow-up of it.
JoinTicket(m) ==
  /\ stage[m] = "looking"
  /\ \E t \in DOMAIN tickets :
       /\ IsNewest(t, ActiveOf(chatOf[m]))
       /\ ticketOf' = [ticketOf EXCEPT ![m] = t]
  /\ stage' = [stage EXCEPT ![m] = "notifying"]
  /\ UNCHANGED <<tickets, assignee, desk, budget>>

\* It has none: the customer is sent the acknowledgement.
FindNoTicket(m) ==
  /\ stage[m] = "looking"
  /\ ActiveOf(chatOf[m]) = {}
  /\ stage' = [stage EXCEPT ![m] = "creating"]
  /\ UNCHANGED <<tickets, ticketOf, assignee, desk, budget>>

\* Mutants of CreateTicket: the new ticket is shown but never assigned; the
\* handler works with an id one too high.
CreateUnassigned(m) ==
  /\ stage[m] = "creating"
  /\ tickets' = Append(tickets, [chat |-> chatOf[m], status |-> "open",
                                 operator |-> NoOne])
  /\ ticketOf' = [ticketOf EXCEPT ![m] = Len(tickets) + 1]
  /\ stage' = [stage EXCEPT ![m] = "notifying"]
  /\ UNCHANGED <<assignee, desk, budget>>

CreateMisnumbered(m) ==
  /\ stage[m] = "creating"
  /\ tickets' = Append(tickets, [chat |-> chatOf[m], status |-> "open",
                                 operator |-> NoOne])
  /\ ticketOf' = [ticketOf EXCEPT ![m] = Len(tickets) + 2]
  /\ stage' = [stage EXCEPT ![m] = "picking"]
  /\ UNCHANGED <<assignee, desk, budget>>

CreateTicket(m) ==
  /\ stage[m] = "creating"
  /\ tickets' = Append(tickets, [chat |-> chatOf[m], status |-> "open",
                                 operator |-> NoOne])
  /\ ticketOf' = [ticketOf EXCEPT ![m] = Len(tickets) + 1]
  /\ stage' = [stage EXCEPT ![m] = "picking"]
  /\ UNCHANGED <<assignee, desk, budget>>

ActiveOr(o, default) == IF o \in Staff THEN o ELSE default

\* Mutant of PickedFor: the operator of the latest ticket, whoever that is.
LatestOperator(m) ==
  LET latest == CHOOSE t \in TicketsOf(chatOf[m]) :
                  IsNewest(t, TicketsOf(chatOf[m]))
  IN tickets[latest].operator

\* The operator of the chat's latest ticket, if active; else the primary.  The
\* calendar's own escalations go to the calendar operator instead.
PickedFor(m) ==
  IF specialist[m] # NoOne
    THEN ActiveOr(specialist[m], Primary)
    ELSE LET latest == CHOOSE t \in TicketsOf(chatOf[m]) :
                         IsNewest(t, TicketsOf(chatOf[m]))
         IN ActiveOr(tickets[latest].operator, Primary)

PickAssignee(m) ==
  /\ stage[m] = "picking"
  /\ assignee' = [assignee EXCEPT ![m] = PickedFor(m)]
  /\ stage' = [stage EXCEPT ![m] = "assigning"]
  /\ UNCHANGED <<tickets, ticketOf, desk, budget>>

Assigned(t, o) ==
  tickets' = [tickets EXCEPT ![t] = [@ EXCEPT !.operator = o, !.status = "assigned"]]

AssignTicket(m) ==
  /\ stage[m] = "assigning"
  /\ Assigned(ticketOf[m], assignee[m])
  /\ stage' = [stage EXCEPT ![m] = "notifying"]
  /\ UNCHANGED <<ticketOf, assignee, desk, budget>>

\* The question goes to the alert chat, whoever the assignee is.
NotifyOperator(m) ==
  /\ stage[m] = "notifying"
  /\ shown' = shown \cup {<<ticketOf[m], m>>}
  /\ stage' = [stage EXCEPT ![m] = "done"]
  /\ UNCHANGED <<tickets, ticketOf, assignee, listed, reply, heard, budget>>

\* Telegram does not take it: the failure is recorded, the handler goes on.
NotifyFails(m) ==
  /\ stage[m] = "notifying"
  /\ Spend("dmFails")
  /\ stage' = [stage EXCEPT ![m] = "done"]
  /\ UNCHANGED <<tickets, ticketOf, assignee, desk>>

\* A store raises: 500, and the permanent claim turns away the retry.
HandlerRaises(m) ==
  /\ stage[m] \in {"looking", "creating", "picking", "assigning"}
  /\ Spend("raise")
  /\ stage' = [stage EXCEPT ![m] = "cut"]
  /\ UNCHANGED <<tickets, ticketOf, assignee, desk>>

-----------------------------------------------------------------------------
(* The operator's reply. *)

\* The references o can quote: the questions in the alert chat, if it is
\* theirs, and the other messages the bot sent them.
Quotable(o) == {t \in DOMAIN tickets : \/ <<o, t>> \in listed
                                       \/ o = Primary /\ \E m \in Message : <<t, m>> \in shown}

Post(r, o, t) ==
  reply' = [reply EXCEPT ![r] = [stage |-> "posted", by |-> o, ticket |-> t]]

\* The reply quotes a message that refers to a ticket.
QuoteTicket(r, o) ==
  /\ reply[r].stage = "unwritten"
  /\ \E t \in Quotable(o) : Post(r, o, t)
  /\ UNCHANGED <<tickets, handlers, shown, listed, heard, budget>>

\* It quotes nothing, and the operator has exactly one assigned ticket.
ReplyToOnly(r, o) ==
  /\ reply[r].stage = "unwritten"
  /\ \E t \in AssignedTo(o) : AssignedTo(o) = {t} /\ Post(r, o, t)
  /\ UNCHANGED <<tickets, handlers, shown, listed, heard, budget>>

\* It quotes nothing and there are several: the bot lists them and drops the
\* reply.  The list is itself a message with references, the newest first,
\* and the first is what a quote of it is read as.
Disambiguate(o) ==
  /\ \E s, t \in AssignedTo(o) :
       /\ s # t
       /\ IsNewest(t, AssignedTo(o))
       /\ listed' = listed \cup {<<o, t>>}
  /\ UNCHANGED <<tickets, handlers, shown, reply, heard, budget>>

\* Mutant of AnswerPost: a ticket without an operator takes anyone's reply.
AnswerUnassigned(r) ==
  /\ reply[r].stage = "posted"
  /\ reply' = [reply EXCEPT ![r].stage =
                 IF tickets[reply[r].ticket].operator \in {reply[r].by, NoOne}
                   THEN "sending" ELSE "refused"]
  /\ UNCHANGED <<tickets, handlers, shown, listed, heard, budget>>

\* The api's check, 403 or the send.
AnswerPost(r) ==
  /\ reply[r].stage = "posted"
  /\ reply' = [reply EXCEPT ![r].stage =
                 IF tickets[reply[r].ticket].operator = reply[r].by
                   THEN "sending" ELSE "refused"]
  /\ UNCHANGED <<tickets, handlers, shown, listed, heard, budget>>

CustomerHears(r) ==
  /\ reply[r].stage = "sending"
  /\ r \notin heard
  /\ heard' = heard \cup {r}
  /\ UNCHANGED <<tickets, handlers, shown, listed, reply, budget>>

Resolved(t) ==
  tickets' = [tickets EXCEPT ![t] = [@ EXCEPT !.status = "resolved"]]

\* Mutant of ResolveAnswered: the ticket is resolved before the send is over.
ResolveUnheard(r) ==
  /\ reply[r].stage = "sending"
  /\ Resolved(reply[r].ticket)
  /\ reply' = [reply EXCEPT ![r].stage = "delivered"]
  /\ UNCHANGED <<handlers, shown, listed, heard, budget>>

\* Telegram confirmed the send: the ticket is resolved.
ResolveAnswered(r) ==
  /\ reply[r].stage = "sending"
  /\ r \in heard
  /\ Resolved(reply[r].ticket)
  /\ reply' = [reply EXCEPT ![r].stage = "delivered"]
  /\ UNCHANGED <<handlers, shown, listed, heard, budget>>

\* The call or the send fails, or its confirmation is lost: the ticket stays
\* as it is and the operator is not told.
ReplyFails(r) ==
  /\ reply[r].stage \in {"posted", "sending"}
  /\ Spend("replyFails")
  /\ reply' = [reply EXCEPT ![r].stage = "failed"]
  /\ UNCHANGED <<tickets, handlers, shown, listed, heard>>

-----------------------------------------------------------------------------
(* The admin's endpoints, and the process. *)

\* Whatever the status of the ticket; the alert chat gets a summary.
RouteTicket(t, o) ==
  /\ Spend("route")
  /\ Assigned(t, o)
  /\ listed' = listed \cup {<<Primary, t>>}
  /\ UNCHANGED <<handlers, shown, reply, heard>>

CloseTicket(t) ==
  /\ Spend("close")
  /\ Resolved(t)
  /\ UNCHANGED <<handlers, desk>>

CrashApi ==
  /\ Spend("crash")
  /\ stage' = [m \in Message |-> IF stage[m] \in {"new", "done"} THEN stage[m]
                                                               ELSE "cut"]
  /\ reply' = [r \in Reply |->
                 IF reply[r].stage = "sending"
                   THEN [reply[r] EXCEPT !.stage = "failed"] ELSE reply[r]]
  /\ UNCHANGED <<tickets, ticketOf, assignee, shown, listed, heard>>

-----------------------------------------------------------------------------
Handle(m) ==
  \/ JoinTicket(m) \/ FindNoTicket(m) \/ CreateTicket(m)
  \/ PickAssignee(m) \/ AssignTicket(m) \/ NotifyOperator(m)

Deliver(r) == AnswerPost(r) \/ CustomerHears(r) \/ ResolveAnswered(r)

Next ==
  \/ \E m \in Message : \/ Escalate(m) \/ PipelineFails(m) \/ Handle(m)
                        \/ NotifyFails(m) \/ HandlerRaises(m)
  \/ \E r \in Reply : \/ Deliver(r) \/ ReplyFails(r)
                      \/ \E o \in Operator : QuoteTicket(r, o) \/ ReplyToOnly(r, o)
  \/ \E o \in Operator : Disambiguate(o)
  \/ \E t \in DOMAIN tickets : \/ CloseTicket(t)
                               \/ \E o \in Operator : RouteTicket(t, o)
  \/ CrashApi

Spec == Init /\ [][Next]_vars

\* A handler runs to its end; customers, operators and admins owe nothing.
FairSpec == Spec /\ \A m \in Message : WF_vars(Handle(m))

-----------------------------------------------------------------------------
(* Properties. *)

NoFault(F) == \A f \in F : budget[f] = Faults[f]

\* A ticket without an operator, which no reply is accepted for and no
\* operator's list shows, has a handler that is about to assign it, while no
\* handler is cut short between the two calls.
OpenIsInHand ==
  NoFault({"crash", "raise"}) =>
    \A t \in DOMAIN tickets : tickets[t].status = "open" =>
      \E m \in Message : ticketOf[m] = t /\ stage[m] \in {"picking", "assigning"}

\* Unless an admin closed it, a ticket is resolved only after its customer
\* received a reply of the operator it was assigned to: a refused or failed
\* reply closes nothing.
ResolvedIsAnswered ==
  NoFault({"close"}) =>
    \A t \in DOMAIN tickets : tickets[t].status = "resolved" =>
      \E r \in heard : reply[r].ticket = t

\* While no admin routes or closes tickets, a resolved ticket is never touched
\* again: the handler that created it cannot assign it a second time.
ResolvedIsFinal ==
  [][NoFault({"route", "close"})' =>
       \A t \in DOMAIN tickets :
         tickets[t].status = "resolved" => tickets'[t] = tickets[t]]_vars

\* When nothing failed, the operators have the question of every message whose
\* handler ended, and somebody may reply to its ticket or is about to.
EscalationOnDesk ==
  NoFault({"crash", "raise", "dmFails"}) =>
    \A m \in Message : stage[m] = "done" =>
      /\ <<ticketOf[m], m>> \in shown
      /\ \/ tickets[ticketOf[m]].operator # NoOne
         \/ \E n \in Message \ {m} : /\ ticketOf[n] = ticketOf[m]
                                     /\ stage[n] \in {"picking", "assigning"}

\* While no handler is cut short, the ticket of an escalated message, created
\* or joined, gets an operator.
GetsOperator ==
  [](NoFault({"crash", "raise"})) =>
    \A m \in Message : stage[m] = "looking" ~>
      ticketOf[m] # 0 /\ tickets[ticketOf[m]].operator # NoOne

\* What find_active_for_chat is for (hitl.py): rapid questions of a customer
\* end up on one ticket.
OneActivePerChat == \A c \in Chat : \A s, t \in ActiveOf(c) : s = t

\* What _pick_assignee_for_chat says: if the customer's most recent ticket has
\* an active operator, the new ticket goes to them.
StickyRouting ==
  [][\A m \in Message, t \in DOMAIN tickets :
       PickAssignee(m) /\ specialist[m] = NoOne
       /\ IsNewest(t, TicketsOf(chatOf[m]) \ {ticketOf[m]})
       /\ tickets[t].operator \in Staff
         => assignee'[m] = tickets[t].operator]_vars
=============================================================================
