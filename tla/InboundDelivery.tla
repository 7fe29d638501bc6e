-------------------------- MODULE InboundDelivery --------------------------
(***************************************************************************)
(* The path of a customer message from Telegram to an answer:              *)
(*                                                                         *)
(*   Telegram --webhook--> bot_gateway --POST /conversations/inbound--> api*)
(*                                                                         *)
(* The gateway claims the update_id, persists the message, and then either *)
(* buffers it (offline backlog), rejects it (rate limit) or records it in  *)
(* the pending-forward outbox and forwards it from a background task that  *)
(* runs after Telegram has had its 200.  The api claims the trace_id, runs *)
(* the answer pipeline, tells the customer something and writes a trace.   *)
(* The stores (claims, transcript, outbox, backlog, counters, api claims,  *)
(* traces) are SQLite files and survive a crash; handlers and background   *)
(* tasks do not.                                                           *)
(*                                                                         *)
(* One update stands for one customer message.  The trace_id is derived    *)
(* from the update_id, so an update also names its trace.                  *)
(***************************************************************************)
EXTENDS Naturals

CONSTANTS
  Update,        \* update_ids: Telegram numbers them in the order of sending
  Chat,          \* chat_ids
  chatOf,        \* the chat an update comes from
  messageId,     \* the message_id of an update, unique only inside its chat
  Attempts,      \* forwards a live task makes: the first plus the retry delays
  MaxMessages,   \* messages one chat may send per rate-limit window
  Faults         \* how often each kind of fault may strike: bounds the model

FaultKind == {"callFails", "hookRaises", "apiRaises", "flushRaises",
              "gatewayCrash", "apiCrash", "sendFails"}

ASSUME UpdateAssumption == Update \subseteq Nat
ASSUME ChatAssumption == chatOf \in [Update -> Chat]
ASSUME MessageIdAssumption ==
  /\ DOMAIN messageId = Update
  /\ \A u, v \in Update :
       chatOf[u] = chatOf[v] /\ messageId[u] = messageId[v] => u = v
ASSUME AttemptsAssumption == Attempts \in Nat \ {0}
ASSUME RateAssumption == MaxMessages \in Nat \ {0}
ASSUME FaultsAssumption == Faults \in [FaultKind -> Nat]

VARIABLES
  telegram,   \* telegram[u]: "unsent", "queued" for the webhook, or "acked"
  claimed,    \* webhook_update_claims
  persisted,  \* messages, the transcript (UNIQUE source_message_id)
  hook,       \* hook[u]: where the webhook handler of u waits, or "idle"
  spent,      \* inbound_request_counts: messages counted in a chat's window
  refused,    \* messages answered with the rate-limit notice
  outbox,     \* pending_forward_outbox
  backlog,    \* offline_backlog_buffer
  flushers,   \* chats with a flush task waiting for its debounce
  kind,       \* kind[u]: the task forwarding under u's trace, or "none"
  call,       \* call[u]: "idle", "trying", or "accepted" by the api
  tries,      \* tries[u]: attempts that task has left
  taken,      \* inbound_claims of the api
  proc,       \* proc[u]: where the api handler of u stands
  traced,     \* answer_traces
  told,       \* told[u]: times u was answered, acknowledged or passed on
  budget      \* faults that may still strike

gatewayStores == <<claimed, persisted, spent, refused, outbox, backlog>>
tasks == <<kind, call, tries>>
api == <<taken, proc, traced, told>>
vars == <<telegram, claimed, persisted, hook, spent, refused, outbox,
          backlog, flushers, kind, call, tries, taken, proc, traced, told, budget>>

Kind == {"none", "live", "flush", "replay"}
Stage == {"idle", "pipeline", "answering", "escalating", "ticketing", "tracing"}

TypeOK ==
  /\ telegram \in [Update -> {"unsent", "queued", "acked"}]
  /\ claimed \subseteq Update
  /\ persisted \subseteq Update
  /\ hook \in [Update -> {"idle", "claimed", "persisted"}]
  /\ spent \in [Chat -> 0..MaxMessages]
  /\ refused \subseteq Update
  /\ outbox \subseteq Update
  /\ backlog \subseteq Update
  /\ flushers \subseteq Chat
  /\ kind \in [Update -> Kind]
  /\ call \in [Update -> {"idle", "trying", "accepted"}]
  /\ tries \in [Update -> 0..Attempts]
  /\ taken \subseteq Update
  /\ proc \in [Update -> Stage]
  /\ traced \subseteq Update
  /\ told \in [Update -> Nat]
  /\ budget \in [FaultKind -> Nat]

Init ==
  /\ telegram = [u \in Update |-> "unsent"]
  /\ claimed = {}
  /\ persisted = {}
  /\ hook = [u \in Update |-> "idle"]
  /\ spent = [c \in Chat |-> 0]
  /\ refused = {}
  /\ outbox = {}
  /\ backlog = {}
  /\ flushers = {}
  /\ kind = [u \in Update |-> "none"]
  /\ call = [u \in Update |-> "idle"]
  /\ tries = [u \in Update |-> 0]
  /\ taken = {}
  /\ proc = [u \in Update |-> "idle"]
  /\ traced = {}
  /\ told = [u \in Update |-> 0]
  /\ budget = Faults

\* The rows of one chat, and the last of them: rows are read by update_id.
RowsOf(S, c) == {u \in S : chatOf[u] = c}
IsLatest(u, S) == u \in S /\ \A v \in RowsOf(S, chatOf[u]) : v <= u

Spend(f) ==
  /\ budget[f] > 0
  /\ budget' = [budget EXCEPT ![f] = @ - 1]

-----------------------------------------------------------------------------
(* Telegram and the customer. *)

\* The customer writes; updates are numbered in the order they are sent.
Send(u) ==
  /\ telegram[u] = "unsent"
  /\ \A v \in Update : v < u => telegram[v] # "unsent"
  /\ telegram' = [telegram EXCEPT ![u] = "queued"]
  /\ UNCHANGED <<gatewayStores, hook, flushers, tasks, api, budget>>

-----------------------------------------------------------------------------
(* The webhook handler.  Telegram repeats a delivery it has no answer to,  *)
(* so an update may reach the handler again at any time until it is acked. *)

\* The entry claim wins: the handler goes on to resolve the sender and to
\* offer the message to each command handler.
ClaimUpdate(u) ==
  /\ telegram[u] = "queued"
  /\ u \notin claimed
  /\ claimed' = claimed \cup {u}
  /\ hook' = [hook EXCEPT ![u] = "claimed"]
  /\ UNCHANGED <<telegram, persisted, spent, refused, outbox, backlog,
                 flushers, tasks, api, budget>>

\* A redelivery loses the claim: it is answered with 200 and dropped.
DropRedelivery(u) ==
  /\ telegram[u] = "queued"
  /\ u \in claimed
  /\ telegram' = [telegram EXCEPT ![u] = "acked"]
  /\ UNCHANGED <<gatewayStores, hook, flushers, tasks, api, budget>>

IsNewMessage(u) == \A v \in persisted : messageId[v] # messageId[u]

\* No command handler wanted the message: store it in the transcript.
PersistMessage(u) ==
  /\ hook[u] = "claimed"
  /\ IsNewMessage(u)
  /\ persisted' = persisted \cup {u}
  /\ hook' = [hook EXCEPT ![u] = "persisted"]
  /\ UNCHANGED <<telegram, claimed, spent, refused, outbox, backlog,
                 flushers, tasks, api, budget>>

\* The transcript holds a message of that message_id: ignored, with a 200.
IgnoreDuplicateMessage(u) ==
  /\ hook[u] = "claimed"
  /\ ~IsNewMessage(u)
  /\ hook' = [hook EXCEPT ![u] = "idle"]
  /\ telegram' = [telegram EXCEPT ![u] = "acked"]
  /\ UNCHANGED <<gatewayStores, flushers, tasks, api, budget>>

\* A stale message joins the offline backlog; the first of its chat
\* schedules the flush.
BufferStale(u) ==
  /\ hook[u] = "persisted"
  /\ flushers' = IF RowsOf(backlog, chatOf[u]) = {}
                   THEN flushers \cup {chatOf[u]} ELSE flushers
  /\ backlog' = backlog \cup {u}
  /\ hook' = [hook EXCEPT ![u] = "idle"]
  /\ telegram' = [telegram EXCEPT ![u] = "acked"]
  /\ UNCHANGED <<claimed, persisted, spent, refused, outbox, tasks, api, budget>>

\* The count of the chat's window after one more message, given whether the
\* window has elapsed (the window starts with its first message).
CountAfter(c, elapsed) == IF elapsed THEN 1 ELSE spent[c] + 1

\* Mutant of AcceptLive: the limit lets one message too many through.
AcceptLiveOverLimit(u) ==
  /\ hook[u] = "persisted"
  /\ spent[chatOf[u]] <= MaxMessages
  /\ spent' = [spent EXCEPT ![chatOf[u]] = CountAfter(chatOf[u], FALSE)]
  /\ outbox' = outbox \cup {u}
  /\ kind' = [kind EXCEPT ![u] = "live"]
  /\ call' = [call EXCEPT ![u] = "trying"]
  /\ tries' = [tries EXCEPT ![u] = Attempts]
  /\ hook' = [hook EXCEPT ![u] = "idle"]
  /\ telegram' = [telegram EXCEPT ![u] = "acked"]
  /\ UNCHANGED <<claimed, persisted, refused, backlog, flushers, api, budget>>

\* A live message within the rate limit is put in the outbox before the 200
\* and is handed to a background task.
AcceptLive(u) ==
  /\ hook[u] = "persisted"
  /\ \E elapsed \in BOOLEAN :
       /\ CountAfter(chatOf[u], elapsed) <= MaxMessages
       /\ spent' = [spent EXCEPT ![chatOf[u]] = CountAfter(chatOf[u], elapsed)]
  /\ outbox' = outbox \cup {u}
  /\ kind' = [kind EXCEPT ![u] = "live"]
  /\ call' = [call EXCEPT ![u] = "trying"]
  /\ tries' = [tries EXCEPT ![u] = Attempts]
  /\ hook' = [hook EXCEPT ![u] = "idle"]
  /\ telegram' = [telegram EXCEPT ![u] = "acked"]
  /\ UNCHANGED <<claimed, persisted, refused, backlog, flushers, api, budget>>

\* A live message over the limit is answered with a notice and dropped.
RateLimit(u) ==
  /\ hook[u] = "persisted"
  /\ spent[chatOf[u]] >= MaxMessages
  /\ refused' = refused \cup {u}
  /\ hook' = [hook EXCEPT ![u] = "idle"]
  /\ telegram' = [telegram EXCEPT ![u] = "acked"]
  /\ UNCHANGED <<claimed, persisted, spent, outbox, backlog, flushers,
                 tasks, api, budget>>

\* Any exception in the handler becomes a 200, so Telegram does not repeat.
HookRaises(u) ==
  /\ hook[u] # "idle"
  /\ Spend("hookRaises")
  /\ hook' = [hook EXCEPT ![u] = "idle"]
  /\ telegram' = [telegram EXCEPT ![u] = "acked"]
  /\ UNCHANGED <<gatewayStores, flushers, tasks, api>>

-----------------------------------------------------------------------------
(* Background tasks of the gateway.  A task forwards under the trace of    *)
(* one update: its own (live), or the latest of a chat (flush, replay).    *)

EndTask(u) ==
  /\ kind' = [kind EXCEPT ![u] = "none"]
  /\ call' = [call EXCEPT ![u] = "idle"]
  /\ tries' = [tries EXCEPT ![u] = 0]

\* Mutant of FlushBacklog: the drain forgets the chat and empties the table.
FlushWholeBacklog(u) ==
  /\ chatOf[u] \in flushers
  /\ IsLatest(u, backlog)
  /\ backlog' = {}
  /\ flushers' = flushers \ {chatOf[u]}
  /\ kind' = [kind EXCEPT ![u] = "flush"]
  /\ call' = [call EXCEPT ![u] = "trying"]
  /\ tries' = [tries EXCEPT ![u] = 1]
  /\ UNCHANGED <<telegram, hook, claimed, persisted, spent, refused, outbox,
                 api, budget>>

\* The debounced flush drains the chat's rows and forwards once, under the
\* trace of the latest row.
FlushBacklog(u) ==
  /\ chatOf[u] \in flushers
  /\ IsLatest(u, backlog)
  /\ backlog' = backlog \ RowsOf(backlog, chatOf[u])
  /\ flushers' = flushers \ {chatOf[u]}
  /\ kind' = [kind EXCEPT ![u] = "flush"]
  /\ call' = [call EXCEPT ![u] = "trying"]
  /\ tries' = [tries EXCEPT ![u] = 1]
  /\ UNCHANGED <<telegram, hook, claimed, persisted, spent, refused, outbox,
                 api, budget>>

\* The flush task ends on an error before it drained anything.
FlushRaises(c) ==
  /\ c \in flushers
  /\ Spend("flushRaises")
  /\ flushers' = flushers \ {c}
  /\ UNCHANGED <<telegram, gatewayStores, hook, tasks, api>>

\* Mutants of RowsConfirmed: a live task clears its whole chat, as a replay
\* does; a replay clears nothing.
RowsOfChatConfirmed(u) ==
  {v \in outbox : kind[u] \in {"live", "replay"} /\ chatOf[v] = chatOf[u]}

RowsOfLiveConfirmed(u) == {v \in outbox : kind[u] = "live" /\ v = u}

\* What a task does once the api has answered 200, whatever the body says.
RowsConfirmed(u) ==
  {v \in outbox : \/ kind[u] = "live" /\ v = u
                  \/ kind[u] = "replay" /\ chatOf[v] = chatOf[u]}

ForwardConfirmed(u) ==
  /\ outbox' = outbox \ RowsConfirmed(u)
  /\ EndTask(u)

\* What a task does with a failed attempt: the next one, or give up and leave
\* the row for the next restart.
AttemptFailed(u) ==
  IF tries[u] > 1
    THEN /\ tries' = [tries EXCEPT ![u] = @ - 1]
         /\ call' = [call EXCEPT ![u] = "trying"]
         /\ UNCHANGED kind
    ELSE EndTask(u)

\* The api cannot be reached, or the call outlasts the gateway's timeout; the
\* api goes on with a request it has accepted.
CallFails(u) ==
  /\ call[u] # "idle"
  /\ Spend("callFails")
  /\ AttemptFailed(u)
  /\ UNCHANGED <<telegram, gatewayStores, hook, flushers, api>>

\* Mutants of RestartGateway: no flush is scheduled for the buffered rows; the
\* replay clears the outbox when it reads it; there is no replay.
RestartWithoutFlush ==
  /\ Spend("gatewayCrash")
  /\ hook' = [u \in Update |-> "idle"]
  /\ flushers' = {}
  /\ kind' = [u \in Update |-> IF IsLatest(u, outbox) THEN "replay" ELSE "none"]
  /\ call' = [u \in Update |-> IF IsLatest(u, outbox) THEN "trying" ELSE "idle"]
  /\ tries' = [u \in Update |-> IF IsLatest(u, outbox) THEN Attempts ELSE 0]
  /\ UNCHANGED <<telegram, gatewayStores, api>>

RestartClearsOutbox ==
  /\ Spend("gatewayCrash")
  /\ hook' = [u \in Update |-> "idle"]
  /\ flushers' = {chatOf[u] : u \in backlog}
  /\ outbox' = {}
  /\ kind' = [u \in Update |-> IF IsLatest(u, outbox) THEN "replay" ELSE "none"]
  /\ call' = [u \in Update |-> IF IsLatest(u, outbox) THEN "trying" ELSE "idle"]
  /\ tries' = [u \in Update |-> IF IsLatest(u, outbox) THEN Attempts ELSE 0]
  /\ UNCHANGED <<telegram, claimed, persisted, spent, refused, backlog, api>>

RestartWithoutReplay ==
  /\ Spend("gatewayCrash")
  /\ hook' = [u \in Update |-> "idle"]
  /\ flushers' = {chatOf[u] : u \in backlog}
  /\ kind' = [u \in Update |-> "none"]
  /\ call' = [u \in Update |-> "idle"]
  /\ tries' = [u \in Update |-> 0]
  /\ UNCHANGED <<telegram, gatewayStores, api>>

\* The gateway process dies and starts again: handlers and tasks are gone.
\* Startup schedules a flush for every chat with buffered rows and a replay
\* for every chat with outbox rows; a replay has read its rows before the
\* webhook is served again.
RestartGateway ==
  /\ Spend("gatewayCrash")
  /\ hook' = [u \in Update |-> "idle"]
  /\ flushers' = {chatOf[u] : u \in backlog}
  /\ kind' = [u \in Update |-> IF IsLatest(u, outbox) THEN "replay" ELSE "none"]
  /\ call' = [u \in Update |-> IF IsLatest(u, outbox) THEN "trying" ELSE "idle"]
  /\ tries' = [u \in Update |-> IF IsLatest(u, outbox) THEN Attempts ELSE 0]
  /\ UNCHANGED <<telegram, gatewayStores, api>>

-----------------------------------------------------------------------------
(* The api: POST /conversations/inbound. *)

\* Mutant of TakeInbound: only a finalized trace stops a second request.
TakeUntraced(u) ==
  /\ call[u] = "trying"
  /\ u \notin traced
  /\ taken' = taken \cup {u}
  /\ proc' = [proc EXCEPT ![u] = "pipeline"]
  /\ call' = [call EXCEPT ![u] = "accepted"]
  /\ UNCHANGED <<telegram, gatewayStores, hook, flushers, kind, tries,
                 traced, told, budget>>

\* First request under this trace: the claim is won and the pipeline runs.
TakeInbound(u) ==
  /\ call[u] = "trying"
  /\ u \notin taken
  /\ taken' = taken \cup {u}
  /\ proc' = [proc EXCEPT ![u] = "pipeline"]
  /\ call' = [call EXCEPT ![u] = "accepted"]
  /\ UNCHANGED <<telegram, gatewayStores, hook, flushers, kind, tries,
                 traced, told, budget>>

\* A finalized trace or an in-flight claim: 200, deduplicated.
Deduplicate(u) ==
  /\ call[u] = "trying"
  /\ u \in taken
  /\ ForwardConfirmed(u)
  /\ UNCHANGED <<telegram, claimed, persisted, spent, refused, backlog, hook,
                 flushers, api, budget>>

\* The pipeline has an answer, or hands over to a person: because it was not
\* handled, asked to escalate, ran out of time or raised.
PipelineAnswers(u) ==
  /\ proc[u] = "pipeline"
  /\ proc' = [proc EXCEPT ![u] = "answering"]
  /\ UNCHANGED <<telegram, gatewayStores, hook, flushers, tasks, taken,
                 traced, told, budget>>

\* Mutant of PipelineEscalates: an exception of the pipeline ends the handler.
PipelineGivesUp(u) ==
  /\ proc[u] = "pipeline"
  /\ proc' = [proc EXCEPT ![u] = "tracing"]
  /\ UNCHANGED <<telegram, gatewayStores, hook, flushers, tasks, taken,
                 traced, told, budget>>

PipelineEscalates(u) ==
  /\ proc[u] = "pipeline"
  /\ proc' = [proc EXCEPT ![u] = "escalating"]
  /\ UNCHANGED <<telegram, gatewayStores, hook, flushers, tasks, taken,
                 traced, told, budget>>

\* The answer is sent to the customer; a sales answer may need a ticket, too.
SendAnswer(u) ==
  /\ proc[u] = "answering"
  /\ told' = [told EXCEPT ![u] = @ + 1]
  /\ \E next \in {"tracing", "ticketing"} : proc' = [proc EXCEPT ![u] = next]
  /\ UNCHANGED <<telegram, gatewayStores, hook, flushers, tasks, taken,
                 traced, budget>>

\* The chat has an active ticket: the operators get the follow-up, and the
\* customer was told on the message that opened it.
JoinTicket(u) ==
  /\ proc[u] = "escalating"
  /\ told' = [told EXCEPT ![u] = @ + 1]
  /\ proc' = [proc EXCEPT ![u] = "tracing"]
  /\ UNCHANGED <<telegram, gatewayStores, hook, flushers, tasks, taken,
                 traced, budget>>

\* It has none: the customer is told that a person will answer...
Acknowledge(u) ==
  /\ proc[u] = "escalating"
  /\ told' = [told EXCEPT ![u] = @ + 1]
  /\ proc' = [proc EXCEPT ![u] = "ticketing"]
  /\ UNCHANGED <<telegram, gatewayStores, hook, flushers, tasks, taken,
                 traced, budget>>

\* Mutant of OpenTicket: the customer is told about the ticket once more.
OpenTicketAndTell(u) ==
  /\ proc[u] = "ticketing"
  /\ told' = [told EXCEPT ![u] = @ + 1]
  /\ proc' = [proc EXCEPT ![u] = "tracing"]
  /\ UNCHANGED <<telegram, gatewayStores, hook, flushers, tasks, taken,
                 traced, budget>>

\* ...and a ticket is created, assigned and shown to the operators.
OpenTicket(u) ==
  /\ proc[u] = "ticketing"
  /\ proc' = [proc EXCEPT ![u] = "tracing"]
  /\ UNCHANGED <<telegram, gatewayStores, hook, flushers, tasks, taken,
                 traced, told, budget>>

\* A send to the customer fails: an incident is recorded, the handler goes on.
SendFails(u) ==
  /\ Spend("sendFails")
  /\ proc[u] \in {"answering", "escalating"}
  /\ \E next \in {"tracing", "ticketing"} :
       /\ proc[u] = "escalating" => next = "ticketing"
       /\ proc' = [proc EXCEPT ![u] = next]
  /\ UNCHANGED <<telegram, gatewayStores, hook, flushers, tasks, taken,
                 traced, told>>

\* The trace is written and the caller, if it still waits, gets its 200.
FinishInbound(u) ==
  /\ proc[u] = "tracing"
  /\ traced' = traced \cup {u}
  /\ proc' = [proc EXCEPT ![u] = "idle"]
  /\ IF call[u] = "accepted" THEN ForwardConfirmed(u)
                             ELSE UNCHANGED <<outbox, tasks>>
  /\ UNCHANGED <<telegram, claimed, persisted, spent, refused, backlog, hook,
                 flushers, taken, told, budget>>

\* A store fails after the pipeline and outside the handler's try: 500 to the
\* caller.
ApiRaises(u) ==
  /\ proc[u] \in {"answering", "escalating", "ticketing", "tracing"}
  /\ Spend("apiRaises")
  /\ proc' = [proc EXCEPT ![u] = "idle"]
  /\ IF call[u] = "accepted" THEN AttemptFailed(u) ELSE UNCHANGED tasks
  /\ UNCHANGED <<telegram, gatewayStores, hook, flushers, taken, traced,
                 told>>

\* The api process dies: the requests it was working on are gone, and every
\* call that waited on it fails.
CrashApi ==
  /\ Spend("apiCrash")
  /\ proc' = [u \in Update |-> "idle"]
  /\ LET Cut == {u \in Update : call[u] = "accepted"}
         Last == {u \in Cut : tries[u] <= 1}
     IN /\ kind' = [u \in Update |-> IF u \in Last THEN "none" ELSE kind[u]]
        /\ call' = [u \in Update |-> IF u \in Last THEN "idle"
                                     ELSE IF u \in Cut THEN "trying"
                                     ELSE call[u]]
        /\ tries' = [u \in Update |-> IF u \in Last THEN 0
                                      ELSE IF u \in Cut THEN tries[u] - 1
                                      ELSE tries[u]]
  /\ UNCHANGED <<telegram, gatewayStores, hook, flushers, taken, traced,
                 told>>

-----------------------------------------------------------------------------
Webhook(u) ==
  \/ ClaimUpdate(u) \/ DropRedelivery(u)
  \/ PersistMessage(u) \/ IgnoreDuplicateMessage(u)
  \/ BufferStale(u) \/ AcceptLive(u) \/ RateLimit(u)

Inbound(u) ==
  \/ TakeInbound(u) \/ Deduplicate(u)
  \/ PipelineAnswers(u) \/ PipelineEscalates(u)
  \/ SendAnswer(u) \/ JoinTicket(u) \/ Acknowledge(u) \/ OpenTicket(u)
  \/ FinishInbound(u)

Fault(u) ==
  \/ HookRaises(u) \/ CallFails(u) \/ SendFails(u) \/ ApiRaises(u)

Next ==
  \/ \E u \in Update : Send(u) \/ Webhook(u) \/ FlushBacklog(u)
                       \/ Inbound(u) \/ Fault(u)
  \/ \E c \in Chat : FlushRaises(c)
  \/ RestartGateway
  \/ CrashApi

Spec == Init /\ [][Next]_vars

\* Telegram repeats an unanswered delivery, and the handlers, tasks and timers
\* of the two processes run to their end; customers and faults owe nothing.
Fairness ==
  \A u \in Update : /\ WF_vars(Webhook(u))
                    /\ WF_vars(FlushBacklog(u))
                    /\ WF_vars(Inbound(u))

FairSpec == Spec /\ Fairness

-----------------------------------------------------------------------------
(* Properties. *)

NoFault(F) == \A f \in F : budget[f] = Faults[f]

\* Whatever is redelivered, retried or replayed, a message is answered,
\* acknowledged or joined to a ticket at most once: the api's claim holds
\* across timeouts of the gateway, restarts of either process and late requests.
ToldAtMostOnce == \A u \in Update : told[u] <= 1

\* The handler of a message that the api claimed never ends in silence while
\* the api neither dies, nor fails to send, nor raises.
ClaimedIsTold ==
  NoFault({"apiCrash", "apiRaises", "sendFails"})
    => \A u \in taken : proc[u] = "idle" => told[u] = 1

\* A later message of the same chat stands for u: a flushed or replayed burst
\* is answered once, under its latest message.
Superseded(u) ==
  \E v \in Update : /\ chatOf[v] = chatOf[u]
                    /\ v > u
                    /\ v \in taken \/ kind[v] # "none"

\* As long as nothing failed, a message Telegram was given a 200 for is
\* somewhere: in a handler, a store or a task of the gateway, taken by the
\* api, stood for by a later one, refused, or ignored as a duplicate.
NothingLostWithoutFault ==
  NoFault(FaultKind) =>
    \A u \in Update : telegram[u] = "acked" =>
      \/ hook[u] # "idle"
      \/ u \in outbox \cup backlog \cup taken \cup refused
      \/ kind[u] # "none"
      \/ Superseded(u)
      \/ \E v \in persisted \ {u} : messageId[v] = messageId[u]

\* Until the gateway restarts, a message that is being forwarded and that the
\* api has not taken has its row in the outbox.
ForwardOnRecord ==
  NoFault({"gatewayCrash"})
    => \A u \in Update : kind[u] = "live" /\ u \notin taken => u \in outbox

\* Buffered rows always have a flush that will drain them, also across a
\* restart, unless a flush died of an error.
BacklogWatched ==
  NoFault({"flushRaises"}) => \A u \in backlog : chatOf[u] \in flushers

\* An outbox row leaves only when the api has taken a message of its chat.
RowsLeaveOnConfirmation ==
  [][\A u \in outbox \ outbox' :
       \E v \in taken : chatOf[v] = chatOf[u]]_vars

Promise == INSTANCE InboundPromise
             WITH sent <- {u \in Update : telegram[u] # "unsent"}

\* The whole path implements the promise made to a customer.
PromiseKept == Promise!Spec

\* With fewer failed calls than attempts, a message put in the outbox is told
\* about, itself or through a later message of the chat, restarts included.
PendingIsTold ==
  \A u \in Update : u \in outbox ~>
    \E v \in Update : chatOf[v] = chatOf[u] /\ v >= u /\ told[v] = 1

\* ... and its row does not stay: the outbox drains.
OutboxDrains == \A u \in Update : u \in outbox ~> u \notin outbox

\* What the outbox is for (pending_forward_outbox.py): a message whose forward
\* is not confirmed keeps its row, after a restart too.
UnconfirmedKeepsRow ==
  \A u \in Update : kind[u] = "live" /\ u \notin taken => u \in outbox

\* What the comment on the inbound handler says: after the claim, a failure
\* never leaves the customer without a word.
FailureIsNotSilence ==
  \A u \in taken : proc[u] = "idle" => told[u] = 1
=============================================================================
