----------------------- MODULE InboundDeliveryProofs -----------------------
(* Theorems about InboundDelivery, for any set of updates and chats, any   *)
(* number of attempts and any number of faults.                            *)
EXTENDS InboundDelivery, TLAPS

USE UpdateAssumption, ChatAssumption, AttemptsAssumption, RateAssumption,
    FaultsAssumption

\* The handlers of the gateway and the api, in the cases the proofs split on.
LEMMA NextCases ==
  ASSUME Next
  PROVE  \/ \E u \in Update : Send(u)
         \/ \E u \in Update : Webhook(u)
         \/ \E u \in Update : FlushBacklog(u)
         \/ \E u \in Update : Inbound(u)
         \/ \E u \in Update : Fault(u)
         \/ \E c \in Chat : FlushRaises(c)
         \/ RestartGateway
         \/ CrashApi
  BY DEF Next

\* Every value stays within its type: a counter is never driven below zero or
\* over the limit, a task never has an attempt too many.
THEOREM TypeCorrect == Spec => []TypeOK
<1>1. Init => TypeOK
  BY DEF Init, TypeOK, Kind, Stage
<1>2. TypeOK /\ [Next]_vars => TypeOK'
  <2> SUFFICES ASSUME TypeOK, [Next]_vars PROVE TypeOK'
    OBVIOUS
  <2> USE DEF TypeOK, gatewayStores, tasks, api, Kind, Stage, Spend, FaultKind
  <2>1. ASSUME NEW u \in Update, Send(u) PROVE TypeOK'
    BY <2>1 DEF Send
  <2>2. ASSUME NEW u \in Update, Webhook(u) PROVE TypeOK'
    <3>1. CASE ClaimUpdate(u) BY <3>1 DEF ClaimUpdate
    <3>2. CASE DropRedelivery(u) BY <3>2 DEF DropRedelivery
    <3>3. CASE PersistMessage(u) BY <3>3 DEF PersistMessage
    <3>4. CASE IgnoreDuplicateMessage(u) BY <3>4 DEF IgnoreDuplicateMessage
    <3>5. CASE BufferStale(u) BY <3>5 DEF BufferStale
    <3>6. CASE AcceptLive(u) BY <3>6 DEF AcceptLive, CountAfter
    <3>7. CASE RateLimit(u) BY <3>7 DEF RateLimit
    <3> QED BY <2>2, <3>1, <3>2, <3>3, <3>4, <3>5, <3>6, <3>7 DEF Webhook
  <2>3. ASSUME NEW u \in Update, FlushBacklog(u) PROVE TypeOK'
    <3>1. backlog' \subseteq Update
      BY <2>3 DEF FlushBacklog
    <3>2. flushers' \subseteq Chat
      BY <2>3 DEF FlushBacklog
    <3> QED BY <2>3, <3>1, <3>2 DEF FlushBacklog
  <2>4. ASSUME NEW u \in Update, Inbound(u) PROVE TypeOK'
    <3> USE DEF ForwardConfirmed, EndTask
    <3>1. CASE TakeInbound(u) BY <3>1 DEF TakeInbound
    <3>2. CASE Deduplicate(u)
      <4>1. outbox' \subseteq Update BY <3>2 DEF Deduplicate
      <4> QED BY <3>2, <4>1 DEF Deduplicate
    <3>3. CASE PipelineAnswers(u) BY <3>3 DEF PipelineAnswers
    <3>4. CASE PipelineEscalates(u) BY <3>4 DEF PipelineEscalates
    <3>5. CASE SendAnswer(u) BY <3>5 DEF SendAnswer
    <3>6. CASE JoinTicket(u) BY <3>6 DEF JoinTicket
    <3>7. CASE Acknowledge(u) BY <3>7 DEF Acknowledge
    <3>8. CASE OpenTicket(u) BY <3>8 DEF OpenTicket
    <3>9. CASE FinishInbound(u)
      <4>1. outbox' \subseteq Update BY <3>9 DEF FinishInbound
      <4>2. CASE call[u] = "accepted" BY <3>9, <4>1, <4>2 DEF FinishInbound
      <4>3. CASE call[u] # "accepted" BY <3>9, <4>3 DEF FinishInbound
      <4> QED BY <4>2, <4>3
    <3> QED BY <2>4, <3>1, <3>2, <3>3, <3>4, <3>5, <3>6, <3>7, <3>8, <3>9
            DEF Inbound
  <2>5. ASSUME NEW u \in Update, Fault(u) PROVE TypeOK'
    <3> USE DEF AttemptFailed, EndTask
    <3>1. CASE HookRaises(u) BY <3>1 DEF HookRaises
    <3>2. CASE CallFails(u) BY <3>2 DEF CallFails
    <3>3. CASE SendFails(u) BY <3>3 DEF SendFails
    <3>4. CASE ApiRaises(u) BY <3>4 DEF ApiRaises
    <3> QED BY <2>5, <3>1, <3>2, <3>3, <3>4 DEF Fault
  <2>6. ASSUME NEW c \in Chat, FlushRaises(c) PROVE TypeOK'
    BY <2>6 DEF FlushRaises
  <2>7. CASE RestartGateway
    BY <2>7 DEF RestartGateway
  <2>8. CASE CrashApi
    BY <2>8 DEF CrashApi
  <2>9. CASE UNCHANGED vars
    BY <2>9 DEF vars
  <2> QED
    BY <2>1, <2>2, <2>3, <2>4, <2>5, <2>6, <2>7, <2>8, <2>9, NextCases
<1> QED
  BY <1>1, <1>2, PTL DEF Spec

-----------------------------------------------------------------------------
(* The inductive invariant behind the safety theorems. *)

Sent == {u \in Update : telegram[u] # "unsent"}

\* Whatever the gateway and the api work on was sent by a customer.
SourceInv ==
  /\ claimed \subseteq Sent
  /\ outbox \subseteq Sent
  /\ backlog \subseteq Sent
  /\ taken \subseteq Sent
  /\ \A u \in Update : hook[u] # "idle" \/ call[u] # "idle" => u \in Sent

\* The api works on nothing it has not claimed, and a gateway task waits for
\* an answer only under a claimed trace.
TakenInv ==
  \A u \in Update : proc[u] # "idle" \/ call[u] = "accepted" => u \in taken

\* Until its handler has spoken, a message is untold; it speaks once.
Unspoken == {"pipeline", "answering", "escalating"}
ToldInv ==
  \A u \in Update : /\ told[u] <= 1
                    /\ u \notin taken \/ proc[u] \in Unspoken => told[u] = 0

DeliveryInv == TypeOK /\ SourceInv /\ TakenInv /\ ToldInv

LEMMA InitDelivery == Init => DeliveryInv
BY DEF Init, DeliveryInv, TypeOK, Kind, Stage, SourceInv, TakenInv, ToldInv,
       Sent, Unspoken

LEMMA SourceStep ==
  ASSUME DeliveryInv, [Next]_vars PROVE SourceInv'
<1> USE DEF DeliveryInv, SourceInv, Sent, TypeOK, gatewayStores, tasks, api
<1>1. ASSUME NEW u \in Update, Send(u) PROVE SourceInv'
  BY <1>1 DEF Send
<1>2. ASSUME NEW u \in Update, Webhook(u) PROVE SourceInv'
  <2>1. CASE ClaimUpdate(u) BY <2>1 DEF ClaimUpdate
  <2>2. CASE DropRedelivery(u) BY <2>2 DEF DropRedelivery
  <2>3. CASE PersistMessage(u) BY <2>3 DEF PersistMessage
  <2>4. CASE IgnoreDuplicateMessage(u) BY <2>4 DEF IgnoreDuplicateMessage
  <2>5. CASE BufferStale(u) BY <2>5 DEF BufferStale
  <2>6. CASE AcceptLive(u) BY <2>6 DEF AcceptLive
  <2>7. CASE RateLimit(u) BY <2>7 DEF RateLimit
  <2> QED BY <1>2, <2>1, <2>2, <2>3, <2>4, <2>5, <2>6, <2>7 DEF Webhook
<1>3. ASSUME NEW u \in Update, FlushBacklog(u) PROVE SourceInv'
  <2>1. u \in Sent BY <1>3 DEF FlushBacklog, IsLatest
  <2> QED BY <1>3, <2>1 DEF FlushBacklog
<1>4. ASSUME NEW u \in Update, Inbound(u) PROVE SourceInv'
  <2> USE DEF ForwardConfirmed, EndTask
  <2>1. CASE TakeInbound(u) BY <2>1 DEF TakeInbound
  <2>2. CASE Deduplicate(u) BY <2>2 DEF Deduplicate
  <2>3. CASE PipelineAnswers(u) BY <2>3 DEF PipelineAnswers
  <2>4. CASE PipelineEscalates(u) BY <2>4 DEF PipelineEscalates
  <2>5. CASE SendAnswer(u) BY <2>5 DEF SendAnswer
  <2>6. CASE JoinTicket(u) BY <2>6 DEF JoinTicket
  <2>7. CASE Acknowledge(u) BY <2>7 DEF Acknowledge
  <2>8. CASE OpenTicket(u) BY <2>8 DEF OpenTicket
  <2>9. CASE FinishInbound(u) BY <2>9 DEF FinishInbound
  <2> QED BY <1>4, <2>1, <2>2, <2>3, <2>4, <2>5, <2>6, <2>7, <2>8, <2>9
          DEF Inbound
<1>5. ASSUME NEW u \in Update, Fault(u) PROVE SourceInv'
  <2> USE DEF AttemptFailed, EndTask
  <2>1. CASE HookRaises(u) BY <2>1 DEF HookRaises
  <2>2. CASE CallFails(u) BY <2>2 DEF CallFails
  <2>3. CASE SendFails(u) BY <2>3 DEF SendFails
  <2>4. CASE ApiRaises(u) BY <2>4 DEF ApiRaises
  <2> QED BY <1>5, <2>1, <2>2, <2>3, <2>4 DEF Fault
<1>6. ASSUME NEW c \in Chat, FlushRaises(c) PROVE SourceInv'
  BY <1>6 DEF FlushRaises
<1>7. CASE RestartGateway BY <1>7 DEF RestartGateway, IsLatest
<1>8. CASE CrashApi BY <1>8 DEF CrashApi
<1>9. CASE UNCHANGED vars BY <1>9 DEF vars
<1> QED
  BY <1>1, <1>2, <1>3, <1>4, <1>5, <1>6, <1>7, <1>8, <1>9, NextCases

LEMMA ToldStep ==
  ASSUME DeliveryInv, [Next]_vars PROVE TakenInv' /\ ToldInv'
<1> USE DEF DeliveryInv, TakenInv, ToldInv, Unspoken, TypeOK, Stage,
            gatewayStores, tasks, api
<1>1. ASSUME NEW u \in Update, Send(u) PROVE TakenInv' /\ ToldInv'
  BY <1>1 DEF Send
<1>2. ASSUME NEW u \in Update, Webhook(u) PROVE TakenInv' /\ ToldInv'
  <2>0. UNCHANGED api
    BY <1>2 DEF Webhook, ClaimUpdate, DropRedelivery, PersistMessage,
       IgnoreDuplicateMessage, BufferStale, AcceptLive, RateLimit
  <2>1. call' = call \/ call' = [call EXCEPT ![u] = "trying"]
    BY <1>2 DEF Webhook, ClaimUpdate, DropRedelivery, PersistMessage,
       IgnoreDuplicateMessage, BufferStale, AcceptLive, RateLimit
  <2> QED BY <2>0, <2>1
<1>3. ASSUME NEW u \in Update, FlushBacklog(u) PROVE TakenInv' /\ ToldInv'
  BY <1>3 DEF FlushBacklog
<1>4. ASSUME NEW u \in Update, Inbound(u) PROVE TakenInv' /\ ToldInv'
  <2> USE DEF ForwardConfirmed, EndTask
  <2>1. CASE TakeInbound(u)
    <3>1. u \notin taken /\ told[u] = 0 /\ told' = told
      BY <2>1 DEF TakeInbound
    <3>2. TakenInv' BY <2>1 DEF TakeInbound
    <3>3. ToldInv' BY <2>1, <3>1 DEF TakeInbound
    <3> QED BY <3>2, <3>3
  <2>2. CASE Deduplicate(u) BY <2>2 DEF Deduplicate
  <2>3. CASE PipelineAnswers(u) BY <2>3 DEF PipelineAnswers
  <2>4. CASE PipelineEscalates(u) BY <2>4 DEF PipelineEscalates
  <2>5. CASE SendAnswer(u) BY <2>5 DEF SendAnswer
  <2>6. CASE JoinTicket(u) BY <2>6 DEF JoinTicket
  <2>7. CASE Acknowledge(u) BY <2>7 DEF Acknowledge
  <2>8. CASE OpenTicket(u) BY <2>8 DEF OpenTicket
  <2>9. CASE FinishInbound(u) BY <2>9 DEF FinishInbound
  <2> QED BY <1>4, <2>1, <2>2, <2>3, <2>4, <2>5, <2>6, <2>7, <2>8, <2>9
          DEF Inbound
<1>5. ASSUME NEW u \in Update, Fault(u) PROVE TakenInv' /\ ToldInv'
  <2> USE DEF AttemptFailed, EndTask
  <2>1. CASE HookRaises(u) BY <2>1 DEF HookRaises
  <2>2. CASE CallFails(u) BY <2>2 DEF CallFails
  <2>3. CASE SendFails(u) BY <2>3 DEF SendFails
  <2>4. CASE ApiRaises(u) BY <2>4 DEF ApiRaises
  <2> QED BY <1>5, <2>1, <2>2, <2>3, <2>4 DEF Fault
<1>6. ASSUME NEW c \in Chat, FlushRaises(c) PROVE TakenInv' /\ ToldInv'
  BY <1>6 DEF FlushRaises
<1>7. CASE RestartGateway BY <1>7 DEF RestartGateway
<1>8. CASE CrashApi BY <1>8 DEF CrashApi
<1>9. CASE UNCHANGED vars BY <1>9 DEF vars
<1> QED
  BY <1>1, <1>2, <1>3, <1>4, <1>5, <1>6, <1>7, <1>8, <1>9, NextCases

LEMMA DeliveryInvariant == Spec => []DeliveryInv
<1>1. TypeOK /\ DeliveryInv /\ TypeOK' /\ [Next]_vars => DeliveryInv'
  <2> SUFFICES ASSUME TypeOK, DeliveryInv, TypeOK', [Next]_vars
               PROVE DeliveryInv'
    OBVIOUS
  <2>1. SourceInv' BY SourceStep
  <2>2. TakenInv' /\ ToldInv' BY ToldStep
  <2> QED BY <2>1, <2>2 DEF DeliveryInv
<1> QED
  BY <1>1, InitDelivery, TypeCorrect, PTL DEF Spec

\* A customer is answered or acknowledged at most once per message, whatever
\* is redelivered, retried, replayed or restarted.
THEOREM AtMostOnce == Spec => []ToldAtMostOnce
<1>1. DeliveryInv => ToldAtMostOnce
  BY DEF DeliveryInv, TypeOK, ToldInv, ToldAtMostOnce
<1> QED
  BY <1>1, DeliveryInvariant, PTL

-----------------------------------------------------------------------------
(* Refinement: each step sends, takes or tells one message, or is a stutter *)
(* of the promise.                                                          *)

LEMMA PromiseStep ==
  ASSUME DeliveryInv, [Next]_vars
  PROVE  [Promise!Next]_(Promise!vars)
<1> DEFINE Stutter == UNCHANGED <<telegram, taken, told>>
           Kept == [Promise!Next]_(Promise!vars)
<1> USE DEF DeliveryInv, TypeOK, gatewayStores, tasks, api
<1>0. Stutter => Kept
  BY DEF Promise!vars
<1>01. ASSUME NEW u \in Update, UNCHANGED <<taken, told>>,
              telegram[u] # "unsent",
              telegram' = [telegram EXCEPT ![u] = "acked"]
       PROVE  Kept
  BY <1>01 DEF Promise!vars
<1> SUFFICES Kept
  OBVIOUS
<1> HIDE DEF Kept
<1>1. ASSUME NEW u \in Update, Send(u) PROVE Kept
  <2>1. u \notin Sent /\ Sent' = Sent \cup {u}
    BY <1>1 DEF Send, Sent
  <2>2. Promise!Send(u)
    BY <1>1, <2>1 DEF Send, Promise!Send, Sent
  <2> QED BY <2>2 DEF Promise!Next, Kept
<1>2. ASSUME NEW u \in Update, Webhook(u) PROVE Kept
  <2> USE DEF SourceInv, Sent
  <2>1. CASE ClaimUpdate(u) BY <2>1, <1>0 DEF ClaimUpdate
  <2>2. CASE DropRedelivery(u) BY <2>2, <1>01 DEF DropRedelivery
  <2>3. CASE PersistMessage(u) BY <2>3, <1>0 DEF PersistMessage
  <2>4. CASE IgnoreDuplicateMessage(u)
    BY <2>4, <1>01 DEF IgnoreDuplicateMessage
  <2>5. CASE BufferStale(u) BY <2>5, <1>01 DEF BufferStale
  <2>6. CASE AcceptLive(u) BY <2>6, <1>01 DEF AcceptLive
  <2>7. CASE RateLimit(u) BY <2>7, <1>01 DEF RateLimit
  <2> QED BY <1>2, <2>1, <2>2, <2>3, <2>4, <2>5, <2>6, <2>7 DEF Webhook
<1>3. ASSUME NEW u \in Update, FlushBacklog(u) PROVE Kept
  BY <1>3, <1>0 DEF FlushBacklog
<1>4. ASSUME NEW u \in Update, Inbound(u) PROVE Kept
  <2>1. CASE TakeInbound(u)
    <3>1. u \in Sent BY <2>1 DEF TakeInbound, SourceInv
    <3>2. UNCHANGED Sent BY <2>1 DEF TakeInbound, Sent
    <3>3. Promise!Take(u)
      BY <2>1, <3>1, <3>2 DEF TakeInbound, Promise!Take, Sent
    <3> QED BY <3>3 DEF Promise!Next, Kept
  <2>2. ASSUME proc[u] \in {"answering", "escalating"},
               told' = [told EXCEPT ![u] = told[u] + 1],
               UNCHANGED <<telegram, taken>>
        PROVE  Kept
    <3>1. u \in taken /\ told[u] = 0
      BY <2>2 DEF TakenInv, ToldInv, Unspoken
    <3>2. Promise!Tell(u)
      BY <2>2, <3>1 DEF Promise!Tell
    <3> QED BY <3>2 DEF Promise!Next, Kept
  <2>3. CASE SendAnswer(u) BY <2>3, <2>2 DEF SendAnswer
  <2>4. CASE JoinTicket(u) BY <2>4, <2>2 DEF JoinTicket
  <2>5. CASE Acknowledge(u) BY <2>5, <2>2 DEF Acknowledge
  <2>6. CASE Deduplicate(u) BY <2>6, <1>0 DEF Deduplicate
  <2>7. CASE PipelineAnswers(u) BY <2>7, <1>0 DEF PipelineAnswers
  <2>8. CASE PipelineEscalates(u) BY <2>8, <1>0 DEF PipelineEscalates
  <2>9. CASE OpenTicket(u) BY <2>9, <1>0 DEF OpenTicket
  <2>10. CASE FinishInbound(u) BY <2>10, <1>0 DEF FinishInbound
  <2> QED BY <1>4, <2>1, <2>3, <2>4, <2>5, <2>6, <2>7, <2>8, <2>9, <2>10
          DEF Inbound
<1>5. ASSUME NEW u \in Update, Fault(u) PROVE Kept
  <2>1. CASE HookRaises(u) BY <2>1, <1>01 DEF HookRaises, SourceInv, Sent
  <2>2. CASE CallFails(u) BY <2>2, <1>0 DEF CallFails
  <2>3. CASE SendFails(u) BY <2>3, <1>0 DEF SendFails
  <2>4. CASE ApiRaises(u) BY <2>4, <1>0 DEF ApiRaises
  <2> QED BY <1>5, <2>1, <2>2, <2>3, <2>4 DEF Fault
<1>6. ASSUME NEW c \in Chat, FlushRaises(c) PROVE Kept
  BY <1>6, <1>0 DEF FlushRaises
<1>7. CASE RestartGateway BY <1>7, <1>0 DEF RestartGateway
<1>8. CASE CrashApi BY <1>8, <1>0 DEF CrashApi
<1>9. CASE UNCHANGED vars BY <1>9, <1>0 DEF vars
<1> QED
  BY <1>1, <1>2, <1>3, <1>4, <1>5, <1>6, <1>7, <1>8, <1>9, NextCases

\* The inbound path implements what is promised to a customer: only messages
\* that were sent are taken up, each once, and told about after that, once.
THEOREM KeepsPromise == Spec => PromiseKept
<1>1. Init => Promise!Init
  BY DEF Init, Promise!Init
<1>2. DeliveryInv /\ [Next]_vars => [Promise!Next]_(Promise!vars)
  BY PromiseStep
<1> QED
  BY <1>1, <1>2, DeliveryInvariant, PTL DEF Spec, PromiseKept, Promise!Spec

-----------------------------------------------------------------------------
(* What holds as long as certain faults stay away.  A fault that strikes    *)
(* leaves its budget below where it started, for good.                      *)

FaultInv == \A f \in FaultKind : budget[f] <= Faults[f]

LEMMA SpendShows ==
  ASSUME TypeOK, FaultInv, NEW f \in FaultKind, Spend(f)
  PROVE  FaultInv' /\ budget'[f] # Faults[f]
BY DEF TypeOK, FaultInv, Spend

LEMMA FaultStep ==
  ASSUME TypeOK, FaultInv, [Next]_vars
  PROVE  /\ FaultInv'
         /\ \A F \in SUBSET FaultKind : NoFault(F)' => NoFault(F)
<1>1. CASE UNCHANGED budget
  BY <1>1 DEF FaultInv, NoFault
<1>2. CASE \E f \in FaultKind : Spend(f)
  BY <1>2 DEF TypeOK, FaultInv, Spend, NoFault
<1>3. UNCHANGED budget \/ \E f \in FaultKind : Spend(f)
  <2>1. ASSUME NEW u \in Update, Send(u) \/ Webhook(u) \/ FlushBacklog(u)
        PROVE  UNCHANGED budget
    BY <2>1 DEF Send, FlushBacklog, Webhook, ClaimUpdate, DropRedelivery,
       PersistMessage, IgnoreDuplicateMessage, BufferStale, AcceptLive, RateLimit
  <2>2. ASSUME NEW u \in Update, Inbound(u) PROVE UNCHANGED budget
    BY <2>2 DEF Inbound, TakeInbound, Deduplicate, PipelineAnswers,
       PipelineEscalates, SendAnswer, JoinTicket, Acknowledge, OpenTicket,
       FinishInbound
  <2>3. ASSUME NEW u \in Update, Fault(u) PROVE \E f \in FaultKind : Spend(f)
    BY <2>3 DEF Fault, HookRaises, CallFails, SendFails, ApiRaises, FaultKind
  <2>4. ASSUME NEW c \in Chat, FlushRaises(c)
        PROVE  \E f \in FaultKind : Spend(f)
    BY <2>4 DEF FlushRaises, FaultKind
  <2>5. CASE RestartGateway \/ CrashApi
    BY <2>5 DEF RestartGateway, CrashApi, FaultKind
  <2> QED BY <2>1, <2>2, <2>3, <2>4, <2>5, NextCases DEF vars
<1> QED BY <1>1, <1>2, <1>3

\* With a healthy api, a handler past its sending point has told the customer.
SpokenInv ==
  NoFault({"apiCrash", "apiRaises", "sendFails"})
    => \A u \in taken : proc[u] \notin Unspoken => told[u] = 1

LEMMA SpokenStep ==
  ASSUME DeliveryInv, FaultInv, SpokenInv, [Next]_vars
  PROVE  SpokenInv'
<1> DEFINE H == {"apiCrash", "apiRaises", "sendFails"}
<1> SUFFICES ASSUME NoFault(H)', NEW v \in taken', proc'[v] \notin Unspoken
             PROVE  told'[v] = 1
  BY DEF SpokenInv
<1>1. H \in SUBSET FaultKind
  BY DEF FaultKind
<1>2. NoFault(H)
  BY <1>1, FaultStep DEF DeliveryInv
<1> HIDE DEF H
<1>3. \A u \in taken : proc[u] \notin Unspoken => told[u] = 1
  BY <1>2 DEF SpokenInv, H
<1>4. ASSUME NEW f \in H PROVE ~Spend(f)
  BY <1>1, <1>4, SpendShows DEF NoFault, DeliveryInv
<1> USE DEF DeliveryInv, TypeOK, tasks, api, gatewayStores, Unspoken
<1>5. CASE UNCHANGED api
  BY <1>5, <1>3
<1>6. ASSUME NEW u \in Update, Send(u) \/ Webhook(u) \/ FlushBacklog(u)
      PROVE  UNCHANGED api
  BY <1>6 DEF Send, FlushBacklog, Webhook, ClaimUpdate, DropRedelivery,
     PersistMessage, IgnoreDuplicateMessage, BufferStale, AcceptLive, RateLimit
<1>7. ASSUME NEW u \in Update, Inbound(u) PROVE told'[v] = 1
  <2>1. CASE TakeInbound(u) BY <2>1, <1>3 DEF TakeInbound
  <2>2. CASE Deduplicate(u) BY <2>2, <1>3 DEF Deduplicate
  <2>3. CASE PipelineAnswers(u) BY <2>3, <1>3 DEF PipelineAnswers
  <2>4. CASE PipelineEscalates(u) BY <2>4, <1>3 DEF PipelineEscalates
  <2>5. ASSUME told' = [told EXCEPT ![u] = @ + 1], UNCHANGED taken,
               proc[u] \in {"answering", "escalating"},
               \A w \in Update : w # u => proc'[w] = proc[w]
        PROVE  told'[v] = 1
    <3>1. told[u] = 0
      BY <2>5 DEF ToldInv
    <3> QED BY <3>1, <2>5, <1>3
  <2>6. CASE SendAnswer(u) BY <2>6, <2>5 DEF SendAnswer
  <2>7. CASE JoinTicket(u) BY <2>7, <2>5 DEF JoinTicket
  <2>8. CASE Acknowledge(u) BY <2>8, <2>5 DEF Acknowledge
  <2>9. CASE OpenTicket(u) BY <2>9, <1>3 DEF OpenTicket
  <2>10. CASE FinishInbound(u) BY <2>10, <1>3 DEF FinishInbound
  <2> QED BY <1>7, <2>1, <2>2, <2>3, <2>4, <2>6, <2>7, <2>8, <2>9, <2>10
          DEF Inbound
<1>8. ASSUME NEW u \in Update, Fault(u) PROVE UNCHANGED api
  <2>1. ~SendFails(u) /\ ~ApiRaises(u)
    BY <1>4 DEF SendFails, ApiRaises, H
  <2> QED BY <1>8, <2>1 DEF Fault, HookRaises, CallFails
<1>9. ASSUME NEW c \in Chat, FlushRaises(c) PROVE UNCHANGED api
  BY <1>9 DEF FlushRaises
<1>10. CASE RestartGateway
  BY <1>10, <1>5 DEF RestartGateway
<1>11. ~CrashApi
  BY <1>4 DEF CrashApi, H
<1>12. CASE UNCHANGED vars
  BY <1>12, <1>5 DEF vars
<1> QED
  BY <1>5, <1>6, <1>7, <1>8, <1>9, <1>10, <1>11, <1>12, NextCases

\* A claimed message is never met with silence while the api neither dies, nor
\* fails to send, nor raises outside its try.
THEOREM ClaimIsNotSilence == Spec => []ClaimedIsTold
<1>1. Init => FaultInv /\ SpokenInv
  BY DEF Init, FaultInv, SpokenInv
<1>2. DeliveryInv /\ FaultInv /\ SpokenInv /\ [Next]_vars
        => FaultInv' /\ SpokenInv'
  BY FaultStep, SpokenStep DEF DeliveryInv
<1>3. SpokenInv => ClaimedIsTold
  BY DEF SpokenInv, ClaimedIsTold, Unspoken
<1> QED
  BY <1>1, <1>2, <1>3, DeliveryInvariant, PTL DEF Spec

\* A row leaves the outbox only when the api has taken a message of its chat:
\* a task that gives up, and a gateway that restarts, leave it in place.
THEOREM RowsStayUnconfirmed == Spec => RowsLeaveOnConfirmation
<1>1. DeliveryInv /\ [Next]_vars
        => [\A u \in outbox \ outbox' :
              \E v \in taken : chatOf[v] = chatOf[u]]_vars
  <2> DEFINE Left == \A u \in outbox \ outbox' :
                       \E v \in taken : chatOf[v] = chatOf[u]
  <2> SUFFICES ASSUME DeliveryInv, [Next]_vars PROVE Left
    OBVIOUS
  <2>1. ASSUME outbox \subseteq outbox' PROVE Left
    BY <2>1
  <2>2. ASSUME NEW u \in taken, ForwardConfirmed(u) PROVE Left
    BY <2>2 DEF ForwardConfirmed, RowsConfirmed
  <2> HIDE DEF Left
  <2>3. ASSUME NEW u \in Update, Send(u) \/ Webhook(u) \/ FlushBacklog(u)
        PROVE  Left
    <3>1. outbox \subseteq outbox'
      BY <2>3 DEF Send, FlushBacklog, Webhook, ClaimUpdate, DropRedelivery,
         PersistMessage, IgnoreDuplicateMessage, BufferStale, AcceptLive,
         RateLimit, gatewayStores
    <3> QED BY <2>1, <3>1
  <2>4. ASSUME NEW u \in Update, Inbound(u) PROVE Left
    <3>1. CASE Deduplicate(u) BY <3>1, <2>2 DEF Deduplicate
    <3>2. CASE FinishInbound(u)
      <4>1. u \in taken
        BY <3>2 DEF FinishInbound, DeliveryInv, TakenInv
      <4> QED BY <3>2, <4>1, <2>1, <2>2 DEF FinishInbound
    <3>3. CASE UNCHANGED gatewayStores BY <3>3, <2>1 DEF gatewayStores
    <3> QED BY <2>4, <3>1, <3>2, <3>3
            DEF Inbound, TakeInbound, PipelineAnswers, PipelineEscalates,
                SendAnswer, JoinTicket, Acknowledge, OpenTicket
  <2>5. CASE UNCHANGED gatewayStores
    BY <2>5, <2>1 DEF gatewayStores
  <2>6. ASSUME NEW u \in Update, Fault(u) PROVE Left
    BY <2>5, <2>6 DEF Fault, HookRaises, CallFails, SendFails, ApiRaises
  <2>7. ASSUME NEW c \in Chat, FlushRaises(c) PROVE Left
    BY <2>5, <2>7 DEF FlushRaises
  <2>8. CASE RestartGateway \/ CrashApi
    BY <2>5, <2>8 DEF RestartGateway, CrashApi
  <2>9. CASE UNCHANGED vars
    BY <2>5, <2>9 DEF vars, gatewayStores
  <2> QED
    BY <2>3, <2>4, <2>6, <2>7, <2>8, <2>9, NextCases
<1> QED
  BY <1>1, DeliveryInvariant, PTL DEF Spec, RowsLeaveOnConfirmation

\* What no step of the webhook, and no step of the api, ever does.
LEMMA WebhookCases ==
  ASSUME NEW u \in Update, Webhook(u)
  PROVE  /\ UNCHANGED <<taken, proc, traced, told, budget>>
         /\ \/ UNCHANGED <<backlog, flushers>>
            \/ BufferStale(u)
         /\ \/ UNCHANGED <<outbox, kind>>
            \/ AcceptLive(u)
BY DEF Webhook, ClaimUpdate, DropRedelivery, PersistMessage,
   IgnoreDuplicateMessage, BufferStale, AcceptLive, RateLimit, gatewayStores,
   tasks, api

LEMMA InboundCases ==
  ASSUME DeliveryInv, NEW u \in Update, Inbound(u)
  PROVE  /\ UNCHANGED <<telegram, hook, claimed, persisted, refused, backlog,
                        flushers, budget>>
         /\ taken \subseteq taken'
         /\ \/ UNCHANGED <<outbox, kind>>
            \/ u \in taken /\ ForwardConfirmed(u)
<1> USE DEF DeliveryInv, TakenInv, gatewayStores, tasks, api
<1>1. CASE TakeInbound(u) BY <1>1 DEF TakeInbound
<1>2. CASE Deduplicate(u) BY <1>2 DEF Deduplicate
<1>3. CASE FinishInbound(u) BY <1>3 DEF FinishInbound
<1> QED
  BY <1>1, <1>2, <1>3
     DEF Inbound, PipelineAnswers, PipelineEscalates, SendAnswer, JoinTicket,
         Acknowledge, OpenTicket

-----------------------------------------------------------------------------
\* Buffered rows keep a flush: it is scheduled with the first row of a chat,
\* taken with the last one, and again at every start of the gateway.
LEMMA BacklogStep ==
  ASSUME DeliveryInv, FaultInv, BacklogWatched, [Next]_vars
  PROVE  BacklogWatched'
<1> SUFFICES ASSUME NoFault({"flushRaises"})', NEW v \in backlog'
             PROVE  chatOf[v] \in flushers'
  BY DEF BacklogWatched
<1>1. NoFault({"flushRaises"})
  BY FaultStep DEF DeliveryInv, FaultKind
<1>2. \A u \in backlog : chatOf[u] \in flushers
  BY <1>1 DEF BacklogWatched
<1>3. ~Spend("flushRaises")
  BY SpendShows DEF NoFault, DeliveryInv, FaultKind
<1> USE DEF DeliveryInv, TypeOK
<1>4. CASE UNCHANGED <<backlog, flushers>>
  BY <1>2, <1>4
<1>5. ASSUME NEW u \in Update, Webhook(u) PROVE chatOf[v] \in flushers'
  <2>1. CASE BufferStale(u)
    <3>1. CASE v = u
      BY <2>1, <3>1, <1>2 DEF BufferStale, RowsOf
    <3>2. CASE v # u
      BY <2>1, <3>2, <1>2 DEF BufferStale
    <3> QED BY <3>1, <3>2
  <2> QED BY <1>5, <2>1, <1>4, WebhookCases
<1>6. ASSUME NEW u \in Update, FlushBacklog(u) PROVE chatOf[v] \in flushers'
  BY <1>6, <1>2 DEF FlushBacklog, RowsOf
<1>7. ASSUME NEW u \in Update, Inbound(u) PROVE chatOf[v] \in flushers'
  BY <1>7, <1>4, InboundCases
<1>8. ASSUME NEW u \in Update, Send(u) \/ Fault(u) PROVE chatOf[v] \in flushers'
  BY <1>8, <1>4 DEF Send, Fault, HookRaises, CallFails, SendFails, ApiRaises,
     gatewayStores
<1>9. ASSUME NEW c \in Chat, FlushRaises(c) PROVE chatOf[v] \in flushers'
  BY <1>9, <1>3 DEF FlushRaises
<1>10. CASE RestartGateway
  BY <1>10 DEF RestartGateway, gatewayStores
<1>11. CASE CrashApi \/ UNCHANGED vars
  BY <1>11, <1>4 DEF CrashApi, vars, gatewayStores
<1> QED
  BY <1>5, <1>6, <1>7, <1>8, <1>9, <1>10, <1>11, NextCases

LEMMA FaultInvariant == Spec => []FaultInv
<1>1. Init => FaultInv
  BY DEF Init, FaultInv
<1>2. DeliveryInv /\ FaultInv /\ [Next]_vars => FaultInv'
  BY FaultStep DEF DeliveryInv
<1> QED BY <1>1, <1>2, DeliveryInvariant, PTL DEF Spec

\* A buffered row always has a flush that will drain it, also after a restart
\* of the gateway, unless a flush has died of an error.
THEOREM BacklogHasFlush == Spec => []BacklogWatched
<1>1. Init => BacklogWatched
  BY DEF Init, BacklogWatched
<1> QED
  BY <1>1, BacklogStep, DeliveryInvariant, FaultInvariant, PTL DEF Spec

-----------------------------------------------------------------------------
\* As long as the gateway lives there is no replay, which alone clears the rows
\* of messages other than its own.
RecordInv ==
  NoFault({"gatewayCrash"})
    => \A u \in Update : /\ kind[u] # "replay"
                         /\ kind[u] = "live" /\ u \notin taken => u \in outbox

LEMMA RecordStep ==
  ASSUME DeliveryInv, FaultInv, RecordInv, [Next]_vars
  PROVE  RecordInv'
<1> SUFFICES ASSUME NoFault({"gatewayCrash"})', NEW v \in Update
             PROVE  /\ kind'[v] # "replay"
                    /\ kind'[v] = "live" /\ v \notin taken' => v \in outbox'
  BY DEF RecordInv
<1> DEFINE Kept == /\ kind'[v] # "replay"
                   /\ kind'[v] = "live" /\ v \notin taken' => v \in outbox'
<1>1. NoFault({"gatewayCrash"})
  BY FaultStep DEF DeliveryInv, FaultKind
<1>2. \A u \in Update : /\ kind[u] # "replay"
                        /\ kind[u] = "live" /\ u \notin taken => u \in outbox
  BY <1>1 DEF RecordInv
<1>3. ~Spend("gatewayCrash")
  BY SpendShows DEF NoFault, DeliveryInv, FaultKind
<1> USE DEF DeliveryInv, TypeOK
<1>4. ASSUME taken \subseteq taken', UNCHANGED outbox,
             kind'[v] \in {kind[v], "none", "flush"}
      PROVE  Kept
  BY <1>2, <1>4
<1>5. ASSUME NEW u \in Update, Webhook(u) PROVE Kept
  <2>1. CASE AcceptLive(u) BY <2>1, <1>2 DEF AcceptLive, api
  <2> QED BY <1>5, <2>1, <1>4, WebhookCases
<1>6. ASSUME NEW u \in Update, FlushBacklog(u) PROVE Kept
  BY <1>6, <1>4 DEF FlushBacklog, api
<1>7. ASSUME NEW u \in Update, Inbound(u) PROVE Kept
  <2>1. CASE ForwardConfirmed(u)
    BY <1>7, <2>1, <1>2, InboundCases DEF ForwardConfirmed, RowsConfirmed, EndTask
  <2> QED BY <1>7, <2>1, <1>4, InboundCases
<1>8. ASSUME NEW u \in Update, Send(u) \/ Fault(u) PROVE Kept
  BY <1>8, <1>4 DEF Send, Fault, HookRaises, CallFails, SendFails, ApiRaises,
     AttemptFailed, EndTask, gatewayStores, tasks, api
<1>9. ASSUME NEW c \in Chat, FlushRaises(c) PROVE Kept
  BY <1>9, <1>4 DEF FlushRaises, gatewayStores, tasks, api
<1>10. ~RestartGateway
  BY <1>3 DEF RestartGateway
<1>11. CASE CrashApi
  BY <1>11, <1>4 DEF CrashApi, gatewayStores
<1>12. CASE UNCHANGED vars
  BY <1>12, <1>4 DEF vars
<1> QED
  BY <1>5, <1>6, <1>7, <1>8, <1>9, <1>10, <1>11, <1>12, NextCases

LEMMA RecordInvariant == Spec => []RecordInv
<1>1. Init => RecordInv
  BY DEF Init, RecordInv
<1> QED
  BY <1>1, RecordStep, DeliveryInvariant, FaultInvariant, PTL DEF Spec

\* Until the gateway restarts, a message that is being forwarded and that the
\* api has not taken has its row in the outbox: a crash would find it there.
THEOREM ForwardKeepsRow == Spec => []ForwardOnRecord
<1>1. RecordInv => ForwardOnRecord
  BY DEF RecordInv, ForwardOnRecord
<1> QED BY <1>1, RecordInvariant, PTL

-----------------------------------------------------------------------------
\* The webhook works on claimed updates, stores none before its turn, and
\* Telegram hears of none that is not claimed.
ClaimInv ==
  /\ persisted \subseteq claimed
  /\ \A u \in Update : /\ hook[u] # "idle" => u \in claimed
                       /\ hook[u] = "claimed" => u \notin persisted
                       /\ telegram[u] = "acked" => u \in claimed

LEMMA ClaimStep ==
  ASSUME TypeOK, ClaimInv, [Next]_vars
  PROVE  ClaimInv'
<1> USE DEF TypeOK, ClaimInv, gatewayStores, tasks, api
<1>1. CASE UNCHANGED <<claimed, persisted, hook, telegram>>
  BY <1>1
<1>2. ASSUME NEW u \in Update, Send(u) PROVE ClaimInv'
  BY <1>2 DEF Send
<1>3. ASSUME NEW u \in Update, Webhook(u) PROVE ClaimInv'
  <2>1. CASE ClaimUpdate(u) BY <2>1 DEF ClaimUpdate
  <2>2. CASE DropRedelivery(u) BY <2>2 DEF DropRedelivery
  <2>3. CASE PersistMessage(u) BY <2>3 DEF PersistMessage
  <2>4. CASE IgnoreDuplicateMessage(u) BY <2>4 DEF IgnoreDuplicateMessage
  <2>5. CASE BufferStale(u) BY <2>5 DEF BufferStale
  <2>6. CASE AcceptLive(u) BY <2>6 DEF AcceptLive
  <2>7. CASE RateLimit(u) BY <2>7 DEF RateLimit
  <2> QED BY <1>3, <2>1, <2>2, <2>3, <2>4, <2>5, <2>6, <2>7 DEF Webhook
<1>4. ASSUME NEW u \in Update, FlushBacklog(u) PROVE ClaimInv'
  BY <1>4, <1>1 DEF FlushBacklog
<1>5. ASSUME NEW u \in Update, Inbound(u) PROVE ClaimInv'
  BY <1>5, <1>1 DEF Inbound, TakeInbound, Deduplicate, PipelineAnswers,
     PipelineEscalates, SendAnswer, JoinTicket, Acknowledge, OpenTicket,
     FinishInbound
<1>6. ASSUME NEW u \in Update, Fault(u) PROVE ClaimInv'
  <2>1. CASE HookRaises(u) BY <2>1 DEF HookRaises
  <2> QED BY <1>6, <1>1, <2>1 DEF Fault, CallFails, SendFails, ApiRaises
<1>7. ASSUME NEW c \in Chat, FlushRaises(c) PROVE ClaimInv'
  BY <1>7, <1>1 DEF FlushRaises
<1>8. CASE RestartGateway
  BY <1>8 DEF RestartGateway
<1>9. CASE CrashApi \/ UNCHANGED vars
  BY <1>9, <1>1 DEF CrashApi, vars
<1> QED
  BY <1>2, <1>3, <1>4, <1>5, <1>6, <1>7, <1>8, <1>9, NextCases

\* Where a message that was claimed may be, as long as nothing failed.
Somewhere(u) ==
  \/ hook[u] # "idle"
  \/ u \in outbox \cup backlog \cup taken \cup refused
  \/ kind[u] # "none"
  \/ Superseded(u)
  \/ \E v \in persisted \ {u} : messageId[v] = messageId[u]

LossInv == NoFault(FaultKind) => \A u \in claimed : Somewhere(u)

LEMMA LossStep ==
  ASSUME DeliveryInv, FaultInv, RecordInv, ClaimInv, LossInv, [Next]_vars
  PROVE  LossInv'
<1> SUFFICES ASSUME NoFault(FaultKind)', NEW v \in claimed'
             PROVE  Somewhere(v)'
  BY DEF LossInv
<1>1. NoFault(FaultKind) /\ NoFault({"gatewayCrash"})
  BY FaultStep DEF DeliveryInv, FaultKind, NoFault
<1>2. \A u \in claimed : Somewhere(u)
  BY <1>1 DEF LossInv
<1>3. \A u \in Update : kind[u] # "replay"
  BY <1>1 DEF RecordInv
<1>4. ASSUME NEW f \in FaultKind PROVE ~Spend(f)
  BY <1>4, SpendShows DEF NoFault, DeliveryInv
<1> USE DEF DeliveryInv, TypeOK
\* A task ends only under a claimed trace, so that what stood for a message
\* goes on standing for it.
<1>5. ASSUME taken \subseteq taken',
             \A w \in Update : kind[w] # "none" => kind'[w] # "none" \/ w \in taken'
      PROVE  \A w \in Update : Superseded(w) => Superseded(w)'
  BY <1>5 DEF Superseded
<1>6. ASSUME v \in claimed, taken \subseteq taken', UNCHANGED hook,
             outbox \cup backlog \cup refused
               \subseteq outbox' \cup backlog' \cup refused' \cup taken',
             persisted \subseteq persisted',
             \A w \in Update : kind[w] # "none" => kind'[w] # "none" \/ w \in taken'
      PROVE  Somewhere(v)'
  <2>1. v \in Update /\ Somewhere(v) BY <1>2, <1>6
  <2>2. Superseded(v) => Superseded(v)' BY <1>5, <1>6, <2>1
  <2> QED BY <2>1, <2>2, <1>6 DEF Somewhere
<1>7. ASSUME NEW u \in Update, v # u, Webhook(u) PROVE Somewhere(v)'
  <2>0. taken' = taken
        /\ \A w \in Update : kind[w] # "none" => kind'[w] # "none"
    BY <1>7, WebhookCases DEF AcceptLive
  <2>1. /\ v \in claimed /\ hook'[v] = hook[v] /\ kind'[v] = kind[v]
        /\ outbox \subseteq outbox' /\ backlog \subseteq backlog'
        /\ refused \subseteq refused' /\ persisted \subseteq persisted'
    BY <1>7 DEF Webhook, ClaimUpdate, DropRedelivery, PersistMessage,
       IgnoreDuplicateMessage, BufferStale, AcceptLive, RateLimit, tasks, api,
       gatewayStores
  <2>2. Superseded(v) => Superseded(v)' BY <1>5, <2>0, <2>1
  <2> QED BY <1>2, <2>0, <2>1, <2>2 DEF Somewhere
<1>8. ASSUME v \in Update, Webhook(v) PROVE Somewhere(v)'
  <2> USE DEF Somewhere, gatewayStores, tasks, api
  <2>1. CASE ClaimUpdate(v) BY <1>8, <2>1 DEF ClaimUpdate
  <2>2. CASE DropRedelivery(v) BY <2>2, <1>6 DEF DropRedelivery
  <2>3. CASE PersistMessage(v) BY <2>3 DEF PersistMessage
  <2>4. CASE IgnoreDuplicateMessage(v)
    BY <2>4 DEF IgnoreDuplicateMessage, IsNewMessage, ClaimInv
  <2>5. CASE BufferStale(v) BY <2>5 DEF BufferStale
  <2>6. CASE AcceptLive(v) BY <2>6 DEF AcceptLive
  <2>7. CASE RateLimit(v) BY <2>7 DEF RateLimit
  <2> QED BY <1>8, <2>1, <2>2, <2>3, <2>4, <2>5, <2>6, <2>7 DEF Webhook
<1>9. ASSUME NEW u \in Update, FlushBacklog(u) PROVE Somewhere(v)'
  <2>1. /\ UNCHANGED <<taken, hook, outbox, refused, persisted, claimed>>
        /\ kind' = [kind EXCEPT ![u] = "flush"]
        /\ backlog' = backlog \ RowsOf(backlog, chatOf[u])
        /\ IsLatest(u, backlog)
    BY <1>9 DEF FlushBacklog, api
  <2>2. CASE v \in RowsOf(backlog, chatOf[u])
    <3>1. CASE v = u
      BY <2>1, <3>1 DEF Somewhere
    <3>2. CASE v # u
      <4>1. v < u /\ chatOf[v] = chatOf[u]
        BY <2>1, <2>2, <3>2 DEF IsLatest, RowsOf
      <4>2. Superseded(v)'
        BY <2>1, <4>1 DEF Superseded
      <4> QED BY <4>2 DEF Somewhere
    <3> QED BY <3>1, <3>2
  <2>3. CASE v \notin RowsOf(backlog, chatOf[u])
    <3>1. v \in claimed /\ Somewhere(v) BY <1>2, <2>1
    <3>2. Superseded(v) => Superseded(v)' BY <1>5, <2>1, <3>1
    <3> QED BY <2>1, <2>3, <3>1, <3>2 DEF Somewhere
  <2> QED BY <2>2, <2>3
<1>10. ASSUME NEW u \in Update, Inbound(u) PROVE Somewhere(v)'
  <2>1. CASE u \in taken /\ ForwardConfirmed(u)
    BY <1>10, <2>1, <1>3, <1>6, InboundCases
       DEF ForwardConfirmed, RowsConfirmed, EndTask
  <2> QED BY <1>10, <2>1, <1>6, InboundCases
<1>11. ASSUME NEW u \in Update, Send(u) PROVE Somewhere(v)'
  BY <1>11, <1>6 DEF Send, gatewayStores, tasks, api
<1>12. ASSUME NEW u \in Update PROVE ~Fault(u)
  BY <1>4 DEF Fault, HookRaises, CallFails, SendFails, ApiRaises, FaultKind
<1>13. ASSUME NEW c \in Chat PROVE ~FlushRaises(c)
  BY <1>4 DEF FlushRaises, FaultKind
<1>14. ~RestartGateway /\ ~CrashApi
  BY <1>4 DEF RestartGateway, CrashApi, FaultKind
<1>15. CASE UNCHANGED vars
  BY <1>15, <1>6 DEF vars
<1> QED
  BY <1>7, <1>8, <1>9, <1>10, <1>11, <1>12, <1>13, <1>14, <1>15, NextCases

\* As long as nothing failed, a message that Telegram was given a 200 for is in
\* a handler, a store or a task, taken by the api, stood for by a later one of
\* its chat, refused by the rate limit or a duplicate of a stored one.
THEOREM NothingLost == Spec => []NothingLostWithoutFault
<1>1. Init => ClaimInv /\ LossInv
  BY DEF Init, ClaimInv, LossInv
<1>2. DeliveryInv /\ ClaimInv /\ [Next]_vars => ClaimInv'
  BY ClaimStep DEF DeliveryInv
<1>3. ClaimInv /\ LossInv => NothingLostWithoutFault
  BY DEF ClaimInv, LossInv, Somewhere, NothingLostWithoutFault
<1> QED
  BY <1>1, <1>2, <1>3, LossStep, DeliveryInvariant, FaultInvariant,
     RecordInvariant, PTL DEF Spec
=============================================================================
