# Semantaix in TLA+

Semantaix answers the customers of small businesses in Telegram. A message comes
in through a bot (or an operator's personal account), an answer pipeline tries to
answer it, and what it cannot answer is handed to a person. This directory holds
specifications of the parts where that can go wrong in ways a test hardly
reaches, the TLC runs that check them on small instances, and TLAPS proofs of
the properties that matter most.

All paths below are relative to `src/`. `PROJECT.json` maps every definition to
the lines it models and lists the runs, hazards, findings and theorems.

## The system

Six FastAPI processes share SQLite files and talk HTTP:

```
 Telegram --webhook--> bot_gateway --POST /conversations/inbound--> api --> Telegram
 Telegram --MTProto--> user_gateway ------------^                    |^
                                        scheduler --/sales/followups-+|
                                          web_ui --/admin, /hitl------+
```

Every process is one asyncio event loop. Blocking stores run on worker threads
(`asyncio.to_thread`), so a handler may be overtaken at every `await`. A SQLite
statement or transaction is atomic; two of them in a row are not. Nothing in
memory survives a restart, and every table does.

| component | state it keeps | operations | talks to | hard because of | correct when |
|---|---|---|---|---|---|
| Inbound delivery (`bot_gateway/app/main.py`, `webhook_dedup`, `persistence`, `pending_forward_outbox`, `offline_backlog_buffer`, `platform_common/inbound_rate_limit`) | update claims, transcript, outbox, backlog, rate counters; background tasks in memory | webhook, flush, live forward with retries, replay and recovery at startup | Telegram, api | redelivery, timeouts, retries, crashes | told at most once; nothing lost without a fault; an outbox row is answered |
| Inbound endpoint (`api/app/main.py` 2562-2991, `answer_trace`) | trace claims, traces | claim, pipeline, answer or escalate, trace | pipeline, HITL tickets, Telegram | a permanent claim before fallible work | a claimed message is not met with silence |
| HITL tickets (`api/app/hitl.py`, `main.py` 1850-2559, 3710-4094; gateway 617-654, 2039-2088) | tickets | find, create, pick, assign, show, reply, resolve, route, close | operators through the gateway | several handlers and people on one ticket | somebody can answer it; resolved means answered; resolved stays |
| Follow-up queue (`api/app/sales/followup_*`) and scheduler (`scheduler/app`) | queue rows; the tick's list in memory | cancel, enqueue, due, skip, reschedule, fire | inbound endpoint, sales state | listed rows go stale; timeouts | one nudge, none after a reply, every row settled |
| Sales persona (`api/app/sales/sales_persona_answerer.py`, `state_repository`) | stage, intent, last proposal per chat | one turn: read, dispatch by stage, save, enqueue | calendar, LLM, queue | concurrent turns on copies | a turn's effect is not lost; stages follow the funnel |
| Answer pipeline (`answerers`, `guardrails`, `openrouter_client`) | none | answer | LLM, RAG | time limits | returns in time or escalates |
| Incidents (`incidents.py`, `main.py` 3529-3576) | incidents, events | ingest, acknowledge, resolve, alert | admin's Telegram | debounce across an await | one open incident per fingerprint, one alert per window |
| User gateway (`user_gateway/app`) | sign-in phases, sessions; clients, queues, drain tasks in memory | start, confirm, connect, stop, forward | Telethon, api | concurrent sign-ins, restart, a full queue | one client per operator; the stored channel flag is true |
| Operator registration (`operator_registration.py`) | requests, operators, events | request, approve, reject | admin | concurrent reviews, cooldown | one pending request; reviewed once |
| Usage metering (`usage/`, `scheduler/app/usage_*`) | raw events, daily rows; a queue in memory | record, roll up, retain | all of the api | late rows, overflow, crash | a day's row is its events' sum |
| Calendar (`api/app/calendar`) | OAuth states, tokens, token cache, settings, services | connect, refresh, find slots | Google | single-flight refresh, reconnect races | no stale verdict on a fresh token |
| Confirm dialogs (`admin_nl_ops`, `services_nl_ops`, `nl_knowledge_ops`) | sessions with a token | propose, confirm, cancel, expire | projects, operators, services | check-then-update, apply after confirm | applied at most once, and only if confirmed |
| Project prompts (`project_prompts.py`) | versions, pending edits | edit, activate, reset | pipeline | pending edit meets other messages | one active version |
| Knowledge uploads (`kb_session`, `media_group_buffer`, `knowledge_moderation`, `rag`) | upload sessions, buffered files, candidates, chunks | collect, flush, moderate, index | operators | several flushers of a group, restart | a group is processed once and whole |
| Service lists (`project_services_repository`, `services_repository`, `operator_service_nl`, `service_commands`, `services_extractor`) | the services the calendar schedules, those the persona sells; a lock per name in memory | add, edit, remove, describe, extract | dialogs, calendar, persona | a list is read in one call and used in the next | a command changes only the service it names |
| Client materials (`client_materials_*`, `material_command_dispatch`, `main.py` 3356-3520) | materials with Telegram's file_id | register, analyse, remove, pick, send | persona, knowledge uploads, Telegram | a row is removed while it is being sent | removed ones are not sent; nothing secret becomes one |
| Web UI, sign-in, backups, corrections, ingest worker | sessions, copies, notes | single-row reads and writes | api | little | - |

All but the answer pipeline and the last row are modelled, wholly or in part;
`PROJECT.json` says for each what is left out. The first four were modelled in
most detail: they are on the way of every customer message, have the most actors,
and are where the code itself spends its comments on retries, double sends and
lost messages.

## Modules

| module | models | |
|---|---|---|
| `InboundPromise` | what a customer is promised about one message | abstract specification |
| `InboundDelivery` | gateway and inbound endpoint, from webhook to trace | implements `InboundPromise` |
| `HitlTickets` | tickets, their handlers, operators and admins | |
| `SalesFollowups` | turns of the sales persona, the queue, the scheduler, fires | |
| `SalesTurn` | what one message does to the booking talk of its chat | |
| `CalendarAccess` | consent, grants, access tokens and reconnection of one calendar | |
| `SlotSearch` | the arithmetic of bookable slots | checked against a definition by units of time |
| `ConfirmSessions` | proposals confirmed by a token, in three stores | |
| `ServiceCatalogue` | the two lists of services | |
| `PromptEdits` | prompts, their versions and armed edits | |
| `UsageMetering` | recorder, daily rollup, retention | |
| `IncidentAlerts` | incidents of one fingerprint and their alerts | |
| `KnowledgeUploads` | files of operators, candidates, moderation, chunks | |
| `OperatorRegistration` | requests, decisions, accounts | |
| `OperatorChannel` | an operator's account as a channel | |
| `ClientMaterials` | materials, their removal and their delivery | |
| `MCInboundDelivery`, `MCHitlTickets`, `MCSalesFollowups`, `MCSalesTurn` | instances for TLC | |
| `MCBackoffice` | the modules from `CalendarAccess` down in one instance | |
| `InboundDeliveryProofs`, `HitlTicketsProofs`, `SalesFollowupsProofs`, `SalesTurnProofs` | theorems about the module of that name | |
| `OperatorProofs` | theorems about `OperatorRegistration` and `OperatorChannel` | |
| `OperatorFilesProofs` | theorems about `ClientMaterials` and `KnowledgeUploads` | |
| `OperationsProofs` | theorems about `CalendarAccess`, `SlotSearch`, `IncidentAlerts` and `UsageMetering` | |
| `EditingProofs` | theorems about `ServiceCatalogue`, `PromptEdits` and `ConfirmSessions` | |

### InboundDelivery

One update is one customer message; its trace_id is derived from the update_id
(`_derive_trace_id`), so an update names its trace as well. Each store is a set
of updates: `claimed` (`webhook_update_claims`), `persisted` (the transcript),
`outbox`, `backlog`, `taken` (`inbound_claims`), `traced` (`answer_traces`);
`spent` is the rate counter. `hook`, `kind`/`call`/`tries` and `proc` are the
webhook handler, the background task that forwards under a trace and the api's
handler: they are memory, and a restart clears them.

The webhook handler is cut where it awaits: `ClaimUpdate`, then
`PersistMessage`, then one of `BufferStale`, `AcceptLive`, `RateLimit`. While an
update is unacknowledged Telegram may deliver it again (`DropRedelivery`), also
while the first delivery is still running. Any exception is a 200 (`HookRaises`,
2566-2575), so the message is not repeated. A restart replays the outbox under
the trace of each chat's latest row and re-arms the flush of buffered chats.

In the api the trace lookup and the claim are one step: between them nothing
but the claim decides. The pipeline answers or escalates; raising and running
out of time escalate as well (2701-2778). `ApiRaises` is an exception after the
pipeline, where the handler has no try. `CrashApi` fails every waiting call.

Left out: the text (a replayed burst is joined into its latest message, so an
earlier one counts as *superseded*), the interim "минуточку", the operators' and
admins' commands that share the webhook, a caller-supplied `X-Trace-Id`, usage
events, and a trace write that fails (it is swallowed and the claim still
deduplicates). A request that reaches the api after the gateway gave up on it
commutes with one that reaches it before the timeout, and is not told apart. A
replay reads its rows at startup, before the webhook is served: the recovery
runs in the startup hook of the same event loop.

`messageId` need only be unique inside a chat, which is all the Bot API
documents, while `persistence.py:39` makes it unique over the whole transcript.

### HitlTickets

`tickets` is the table in id order. A handler goes through `stage`:
`looking` (find), `creating` (the acknowledgement is out), `picking`,
`assigning`, `notifying`, `done`; `cut` is a handler that raised or died. The
calendar (2269-2409) and sales (2412-2559) escalations take the same steps; the
calendar resolves its operator before the ticket is created, which commutes.
Tickets of a failed pipeline are created without a lookup (`PipelineFails`).
`shown` is the operators' alert chat. It is the primary's chat, and every
question goes there, whoever the assignee is. `listed` holds the other messages
of the bot that mention a ticket. A reply quotes a ticket (`QuoteTicket`), goes
to the operator's only ticket (`ReplyToOnly`) or is answered with a list
(`Disambiguate`); the api checks the assignee (`AnswerPost`, 403 otherwise),
sends (`CustomerHears`) and resolves (`ResolveAnswered`). `ReplyFails` covers a
refused send, a lost confirmation and a failed call of the gateway.

Left out: usage events, incidents, the texts.

### SalesFollowups

`queue` is the table in id order. Time is abstract: a row may fall due at any
moment (`FallDue`); quiet hours put it back. `saved[c]` is the set of turns the
stored state of a chat derives from, and a turn saves its own copy plus itself:
that is what a lost update destroys. A fire runs in a request of its own (`Call`),
which the scheduler may stop waiting for while it goes on. `nudges` counts what
the customer got, `raced` remembers the chats whose state two handlers have
held at once; both only serve the properties.

Left out: the stages of the conversation (they are `SalesTurn`'s matter), the
limit of 100 rows per tick, the developers' tick endpoint, a state write that
fails after a nudge (swallowed). A worker thread that ends its write after the
turn was cancelled is the same as
`SaveState` followed by `SuppressFollowup`.

### SalesTurn

`row` is the chat's row of `sales_conversation_state`: the stage, the "dates"
answer, the other answers as one (`count`), the slot on offer. What the
recognisers read in a message is data: a message is a *kind*, with a day, a time,
another day or time, a window, a number or a word of agreement where the kind may
have one. What a handler decides is a set of outcomes (`Outcome`: the row saved, the
reply and the slots in it, a person called in, a follow-up queued), one operator per
handler of `sales_persona_answerer.py` in the order in which `try_answer` consults
them; outcomes differ by what the language model and the calendar answer.

A turn goes through `step`: `BeginTurn` reads the row (`open`), `Decide` picks an
outcome (`answer`), `SaveRow` is the commit of `_persist`, and `EndTurn` queues the
follow-up, replies and calls a person. Between any two of them the pipeline's time
limit may strike (`TimesOut`: the customer hears that a person will answer, what is
stored stays, and a thread that is writing goes on and lands later, `LateWrite`), the
api may die (`Crash`), the reply may not get through (`ReplyIsLost`), and a ticket may
fail (`told`). Two turns, or a turn and a nudge, overlap. `busy` is the operator's
calendar, which rivals change at any time; `connected` says whether it can be asked.
A turn asks the calendar at one moment, `Decide`, and speaks later.

The rest are ghosts, read by the properties only. `live` is the offer that was shown
and not given up; `agreed` what a turn may confirm after its message; `vacant` the
slots that were free at some moment of a turn; `handed` says that a person knows;
`cut` that the turn which stored the row was cut off before its reply was shown
(`unseen`) or before any person was told (`untold`). `Declines` says when a message
gives up the offer: it cancels, asks for another service or a new booking, names one
other time of the offered day, or a day other than that of the offer and of the wish
that the offer answers. Two times, or a time of day, are no other wish by
themselves, and a message of `AsideKind` is answered as what it is and gives nothing
up.

Left out: wording, the media a moment of the talk sends, the LLM renderer, the
catalogue's contents; a follow-up call that is repeated while the first still runs
is `SalesFollowups`' matter.

### The back office

Eleven small modules, each for one operator, project, person or fingerprint, since
the code keys everything by it. Each step ends where the code awaits or where one
SQLite transaction ends and the next begins. Ghost variables are called `...Log`.

- `CalendarAccess`: `calendar_connect_initiate`, the callback cut at each await
  (consume the state, exchange, read the row, upsert, enable, claim the
  notification, DM), questions through the provider's cache and lock
  (`get_access_token`, `ReadGrant`, `refresh`, `MarkDead`, `TellOperator`,
  `query_busy`), disconnection, and a restart. Google is external: it honours
  grants until they are withdrawn.
- `SlotSearch`: `compute_availability`, `find_earliest_slot`, the rule's parsing and
  the period the calendar is asked about, in units of a day. The search is stated by
  the least free day, window and start, which is what its loops return. A behaviour is
  one question, asked at any moment of day 0. `Bookable` and `OnGrid` are the reference: sets of units, without
  the code's order of checks and loops.
- `ConfirmSessions`: one state machine for the three stores, `dialog` saying which.
  A confirmation is a read, a check and an unconditional update; the bot's
  `_TOKEN_CACHE` is `remembered`. What an operation does is `Apply`.
- `ServiceCatalogue`: `project_services` reuses ids, `services` does not, and the
  model keeps that difference. `nameLock` is held where the code holds it, and not
  by `/calendar service ...` nor by the extractor.
- `PromptEdits`: a save reads the version and then writes both tables in one
  transaction that a taken number makes fail.
- `UsageMetering`: the recorder's bounded queue drops its oldest item; the rollup
  goes from the day after the last summary, counts the calls of a day in one
  statement and then commits a row per model (`UpsertModel`) and one for each of the
  other trackers, every one by itself, so that it may stop between any two of them;
  retention may stop halfway.
- `IncidentAlerts`: the lookup is outside of the transaction that follows. An
  alerting report runs on the event loop, without an await, up to its DM.
- `KnowledgeUploads`: session, album buffer with one flush task, dedup by content,
  upload, time limit, deletion; approval and rejection of candidates, which index
  before they write the verdict.
- `OperatorRegistration`: one person; taps may repeat and overlap, and both DMs may
  be asked for again.
- `OperatorChannel`: sign-in tasks, the pool, each client's queue, and stops that are
  clean (the pool disconnects its client and clears the flag) or not (a crash, or a
  disconnect that raises). A client the pool does not know of may still be connected
  (`live` against `registered`). Clients may hear any message again, as Telethon fires
  it after a reconnect or a gap (`message_router.py:87-95`), and forward it again; the
  api's claim on its trace (`claims`) is what makes one of them.
- `ClientMaterials`: rows made by "/material", by the endpoint, or by the model that
  reads new files; delivery looks the row up, sends, then keeps the file_id. Files
  come and go as in `KnowledgeUploads`.

`MCBackoffice` puts them into one instance. They share no state (what one writes
and another reads, such as the services, is a choice in the reader), so that
interleaving them would show nothing: each behaviour picks a `focus`, a module or
a part of one, and the others rest. Its `VIEW` compares the variables in focus only;
all others are constant along the behaviour, so no two different states are merged.

## Runs

| run | instance | shows |
|---|---|---|
| `InboundSafety` | 3 updates, 2 chats (two in one), ids shared across chats, limit 1, 2 attempts, every fault once | safety, action properties, refinement |
| `InboundLiveness` | 2 updates of a chat, 3 attempts, 2 failed calls, 1 restart | `PendingIsTold`, `OutboxDrains` |
| `InboundReplay` | 2 updates, 1 restart | finding 1 |
| `InboundSilence` | 1 update, 1 exception in the api | finding 2 |
| `HitlSafety` | 2 messages of a chat (one for a calendar operator), 2 operators, 1 reply, every fault and admin action once | safety and `GetsOperator` |
| `HitlSticky`, `HitlParallel` | the same, no faults | findings 3, 4 |
| `FollowupSafety` | 2 turns of a chat, 2 fire requests, every fault once | safety and `ScheduledIsSettled` |
| `FollowupReply` | the same, no faults | finding 5 |
| `SalesSafety` | 1 turn beside a nudge, 1 day, 3 hours, every kind of message, timeouts, crashes, lost replies and tickets | a confirmation is of the live offer, "free" is free, answers are kept, stages are true, a cancelled talk is not nudged |
| `SalesAside` | the same | finding 6 |
| `Backoffice` | 18 focuses of 11 modules, two requests of each kind | one property per component, two for the calendar and the dialogs |

**Bounds.** `Faults` says how often each kind of fault may strike, and is the
only bound on a counter of the first three modules. Once each is enough for every
*pair* of different faults and every interleaving around them, for instance a
timeout, then a crash of the api, then a restart of the gateway. Two messages of a
chat are what a race, a burst and a supersession need, a third makes a second chat
whose rows must be left alone. Two attempts give a retry that can and one that
cannot follow. Chats do not interact in `HitlTickets`, `SalesFollowups` and
`SalesTurn` but for operators' lists, so one chat is checked. With two turns there
are two rows: one that is replaced and the one that replaces it. In `SalesTurn` one
turn overlaps with one nudge; of three hours one can be taken, one is asked for in its
stead, and the third makes a message with two times, neither of them the offered one.
In the back
office two requests of each kind are what a race needs; `MaxGrant`, `MaxLife`,
`MaxSession`, `MaxRow`, `MaxOffer`, `MaxVersion`, `MaxDay`, `MaxUse`, `MaxMoment`,
`MaxIncident`, `MaxCandidate`, `MaxAsk`, `MaxWrite` and `MaxMaterial` cap the rows a
behaviour may make, and leave room for an old one, a new one and, where ids are
compared, one in between. The recorder's queue holds one item, so that a second overflows, and a client's two, so
that a message waits there behind itself. `UsageMetering` has two models, since the
row of one can be committed without that of the other.
`SlotSearch` has days of four units, four days, a lookahead of one day under a cap of
two, and every rule over three timetables: no hours, two windows that overlap and are
listed out of order, and two that touch; with a date exception or none. The theorems below do not depend on
these numbers.

**View and constraint of `SalesSafety`.** The view leaves out the text of the last
reply, of which the invariants ask only whether it ended a cancelled talk, and which
guards no action; what a step says is checked on the step. `CONSTRAINT Alone` follows
a talk until a nudge has overlapped a turn. All properties but two are about talks in
which none has; the part of `StageIsTrue` about offers, and `FreeMeansFree`, hold
beyond, which the theorems show.

**Fault-free premises.** Several properties begin with `NoFault(F)`: the faults
in F have not struck *yet*. That is no weakening by convenience: for each of them
the code gives no guarantee once such a fault has struck (the README's list of
observations and the findings say how it fails), and all other faults still may.

**Deadlock** is not checked, but for `SalesTurn`, where messages keep coming: elsewhere
customers stop writing, and then everything is at rest.

**Fairness.** Weak fairness of the handlers and tasks of both processes, of
Telegram's redelivery until it is answered, and of the scheduler's tick: event
loops and timers run on, Telegram repeats an unanswered delivery, and
`run_forever` ticks for ever. `FallDue` is fair because time passes. Customers,
operators, admins and faults are not fair. `InboundLiveness` allows fewer failed
calls than attempts: with as many, the code gives up and leaves the row for the
next restart, which nothing forces. `SalesTurn` and the
back office state no fairness and no liveness: nothing in them waits for a step of
others but an operator's or a customer's. `GetsOperator` has its premise inside the
formula: no handler is ever cut short.

## What the runs found

1. `UnconfirmedKeepsRow`: a replay confirmed after a restart clears the whole
   chat, also the row of a newer message that is still being forwarded
   (`bot_gateway/app/main.py:2442`).
2. `FailureIsNotSilence`: the escalation tail and the answer branches run outside
   the try that the comment promises (`api/app/main.py:2781`).
3. `StickyRouting`: the assignee is looked up after the new ticket was inserted,
   so the chat's latest ticket is always the new one and the primary gets it
   (`api/app/main.py:2945`).
4. `OneActivePerChat`: lookup and creation are separated by a send; two questions
   at a time make two tickets (`api/app/main.py:2856`).
5. `NoNudgeAfterReply`: a listed row is fired although a reply cancelled it
   (`api/app/main.py:3079`).
6. `AsidesKeepTheFunnel`: a question for the price in the middle of a booking stores
   the stage `pricing` and drops the slot on offer
   (`sales/sales_persona_answerer.py:4664`).

Of delivery and tickets, met while modelling, and not stated as properties, because no document of the
code says otherwise: a crash between the entry claim and the outbox row loses the
message (the redelivery is a duplicate); a flush drains before a single forward
without a retry; a calendar operator is assigned tickets whose questions go to
the primary's chat, and the primary's quoted replies to them are refused without
a word to anyone (gateway 2082-2087); quoting a list of tickets addresses the
first of it; a crash between the send of a reply and its resolve leaves the ticket
assigned; route and close of a ticket at the same time may reopen it; the
scheduler's 10 s are shorter than the render's LLM call, so a fire may be
repeated; a nudge saves the state as it was before its LLM call.

Of the rest, likewise; some contradict a comment, and none has a run of its own:

- *Calendar.* After a failed incident or DM, the comment "already DM'd" of the token
  cache is not true of that operator. A callback whose `enable` fails is a 500, and
  its retry announces nothing. Disconnection does not clear the token cache; one
  that overlaps a reconnection may drop the new grant without revoking it. A
  refresh with the old grant can mark a fresh one dead. Windows are searched in the
  order listed, and the end of a slot is not checked against the horizon.
- *Dialogs.* `services_nl_ops.py:684` calls `consume` atomic, but it is a read, a
  check and an unconditional update: two confirmations may both pass, and a
  cancellation can overwrite a confirmation. An application that fails leaves the
  session confirmed. Proposals of the administrator do not supersede each other.
- *Service lists.* An edit erases the fields it does not name. Ids of
  `project_services` are reused, so "/service remove" may remove another service
  that was added between its two calls. A description that fails between its two
  calls loses the service. The extractor, said never to overwrite a row
  (`main.py`, about line 635), does so when one was added after its lookup.
- *Materials.* Rows made by "/material" or by the analyser have no tags, and a moment
  picks by tags, so the persona never sends them. A deleted file's material stays.
  A send whose answer is lost gives the customer the file and the apology.
- *Prompts.* A refused value loses the armed edit.
- *Usage.* A stop between two trackers, or between the rows of two models, leaves the
  rest of that day's summary out for good, since the next run resumes after the last
  day that has any row (`usage_rollup.py` 49-57), though the docstring (3-5) speaks of
  every elapsed day; late rows are never summed.
- *Incidents.* A repeat may collapse into an incident resolved since its lookup; two
  first reports at a time end in a 500 for one; a DM that fails is not recorded.
- *Uploads.* An ingest failure leaves a candidate without chunks, and the retry hears
  that the file is in the base already. Two records of one content share a
  candidate, and deleting one removes the other's chunks; secrecy and project of
  the second are ignored. An album's flush is lost with a restart. A rejection that
  overlaps an approval can leave its chunks.
- *Registration.* A failed onboarding DM is an error to the admin, "already processed"
  on retry, and silence to the person; an account made by hand leaves the request
  pending.
- *Channel.* The phase says `authenticated` before the client runs, and after a failed
  start still. A second `qr_start` resets the phase of the first. No restart starts
  clients again; a new sign-in marks a live channel inactive. A crash leaves the flag
  true, and so does a disconnect that raises on shutdown
  (`operator_client_pool.py` 72-88), without a client. A message that meets a full queue
  (`message_router.py` 75) is dropped after it was counted by the rate limit, and a failed
  forward is not retried: the code accepts both and logs them.
- *Slots.* `find_earliest_slot` promises the "first available start instant"
  (`calendar/availability.py:279`) but follows the order in which a day's windows are
  listed (291), which neither `_parse_windows` nor the validation of a rule makes
  ascending: `SlotAnswersAreRight` promises the first of the day for ordered windows.
- *Persona.* Confirming never asks the calendar again; an inquiry may be answered
  about the stored slot; a greeting with a time but no date drops earlier answers.
  The row is stored before anything is said (`_persist`, 5079): when the turn is cut
  off in between, the next "хорошо" confirms an offer that nobody was shown, and the
  talk may stay `closing` with nobody told, if the api dies or the ticket fails too,
  until the next message hands it over. A message whose turn is cut off before it
  stores anything gives nothing up. "давайте в 12:00 или в 13:00", or "давайте
  вечером", names no single new time and so counts as agreement: the *offered* slot is
  booked, though the comment at `sales_persona_answerer.py` 3237-3241 says that a
  leading "давайте" never books the bot's own time instead of the customer's.

## Proofs

Every safety invariant and action property that a passing run checks is also a
theorem, for every value of the constants that satisfies the named assumptions.
The assumptions are those of the modules
(`UpdateAssumption` and the like; TLC evaluates them on every run): bounds are numbers,
maps have their domains, `Rival` are slots, `Message` are readings, working windows lie in
their day and events end after they begin, no period looked at goes beyond the days
considered, and no author,
service, command, file, text or content is called "none", which the records use for
"there is none" where the code has NULL. Each invariant below is inductive: the
property, and what it needs to know of those who are still under way.

`InboundDeliveryProofs`:

- `TypeCorrect`: `[]TypeOK`, inductive by itself.
- `AtMostOnce`: `[]ToldAtMostOnce`. `told[u] <= 1` says nothing of *who* may still
  speak. `DeliveryInv` adds `TakenInv` (the api works only under a claim) and
  `ToldInv`: a message that is not claimed, or whose handler is still in front of
  its send, is untold. Claims are permanent, so no second handler can start, and
  each handler speaks in one step after which it cannot speak again.
- `KeepsPromise`: `Spec => Promise!Spec`, by the same invariant with `SourceInv`
  (every store, task and handler holds only updates that were sent): each step
  maps to `Send`, `Take`, `Tell` or a stutter.
- `ClaimIsNotSilence`: `[]ClaimedIsTold`, from `SpokenInv`: without the three
  faults, a claimed message past its send is told exactly once. `FaultInv`
  (budgets only fall) turns "has not struck" into "this step is not that fault".
- `RowsStayUnconfirmed`: the action property `RowsLeaveOnConfirmation`.
- `BacklogHasFlush`: `[]BacklogWatched`. Only a flush that drains the chat ends its own
  watch, and a restart sets one for every chat with buffered rows.
- `ForwardKeepsRow`: `[]ForwardOnRecord`, with `RecordInv`: a task forwards what is in
  the outbox or was taken, and, until a restart, no task is a replay, the one step
  that clears rows of other messages. That is why the premise is the restart.
- `NothingLost`: `[]NothingLostWithoutFault`. `ClaimInv` orders the stores (claimed
  before stored before acknowledged); `LossInv` says of each *claimed* message, not
  only the acknowledged one, where it is (`Somewhere`). A chat's task ends
  only under a claimed trace, so a message that was superseded stays so.

`HitlTicketsProofs`:

- `TypeCorrect`: `TypeInv` adds to the types that a handler past creation, and a
  posted reply, name a ticket that exists (`HandInv`): tickets are never deleted.
- `OpenIsHeld` and `QuestionsReachDesk`: `DeskInv`. Open tickets have no operator
  (`OpenInv`), one without an operator has a handler between create and assign
  (`HeldInv`), and what is done is shown (`ShownInv`).
- `ResolvedMeansAnswered`: with `AnswerInv`, a reply that was heard keeps its ticket.
- `ResolvedStays`: the action property `ResolvedIsFinal`. Only the handler that
  created a ticket assigns it: `SoleInv` says that no two handlers hold one ticket
  and that a held ticket is still open, and that no reply is being sent for a
  ticket without an operator (`AuthorInv`: replies have an author). So a ticket
  that can be resolved is no longer held.

`SalesFollowupsProofs`:

- `TypeCorrect`: `TypeInv` adds that a fire under way names a row of the table.
- `OneOutstanding`: inductive with the types. No step but an enqueue schedules a
  row (`StatusStep`), and an enqueue takes every other row of its chat out first.
- `CancelledIsQuiet`: an action property of the types alone. Only a scheduled row is
  listed, only a listed one is fired, only a fire nudges.
- `OneNudge`: `OneNudgePerRow` says nothing of who may still nudge. `AloneInv`: while
  the scheduler's calls are answered the api fires one row at a time, and not a
  listed one. `FreshInv`: a row that is listed, rendered, or still scheduled with
  nobody about to mark it has not been nudged.
- `SerialIsKept`: `SerialInv` says of each chat that never raced that at most one
  handler holds a copy of its state, and that the copy is the state as stored.

`SalesTurnProofs`: `TalkInvariant` is the inductive invariant. A turn is a function
from a row and a message to a set of outcomes, and `Sound(r, m, o)` says what an
outcome may be when it is decided. `Kept(r, o)` is the part of it that no later step
disturbs: what it saves is a stored row with its offer in a stage that awaits the
answer (`WellPlaced`), an offer is saved only if it is made, the last stage comes
with a person, the number is kept. The rest is about that moment: "free" is not
taken, a confirmation agrees with the row's offer and the message (`Agrees`), and who
saves nothing leaves no offer given up (`MayAside`). There is a lemma per handler, and
`DispatchIsSound` puts them together for every message of `Reading` and any days and
hours, where the run has one day.

Of the steps: `TurnHolds` says what a turn has in hand at each `step`, its late write
included, and that what is free now it has seen free. `OneAtATime` says that until two
handlers have overlapped, the one at work has the talk for itself (`HasTheTalk`): the
row is as it read it, or, once stored, as it decided, and what it confirms is agreed.
`LiveOffer` says that the stored offer is the one the customer was shown, unless the
turn that stored it was cut off. `StageStaysTrue`, `CancelledIsLeftAlone`,
`FreeIsFree`, `AnswersStay` and `OfferIsConfirmed` follow. The proof is where the
first version of `Declines` was found too broad: an aside that names a day besides
keeps the offer, as the code does, and the stored wish named once more is the wish
that the offer answers.

`OperatorProofs`:

- `RegistrationInvariant`. A decided request stays as it is (`StatusKeeps`), the account
  is that of the approved request (`AccountIsOfTheApproved`), and a tap that has passed
  the api's check carries the verdict that was stored (`RulingsAreDecided`).
  `OneVerdictIsTold` follows.
- `ChannelInvariant`. `OneStart`: without overlapping starts, one task at most is
  between its check of the pool and its registration, and only while the pool is empty.
  `TakenOnce`: a message has been taken exactly as often as its trace is claimed, so
  that whatever is forwarded again is not taken again. `ActiveHasClient`: only an
  unclean stop takes the client and leaves the flag. `ChannelServes` follows.

`OperatorFilesProofs`:

- `MaterialsInvariant`. `CustomersGetMaterials` speaks of what was sent and of rows that
  exist; `RemovedIsOver` adds that a removed row is never active again and no turn
  carries a look at it from after its removal, `ReadIsOpen` that a file under analysis
  was uploaded openly, whatever became of it since. `AddKeeps`: a new row takes an id
  that no removed row and no delivery has. `RemovedOrSecretIsNotSent` follows.
- `UploadInvariant`. `SecretStaysSecret` follows a file through album, session and
  upload; `UploadsAreKept` says that the candidate of a new upload is decided, is under
  nobody's review and has its chunks; `ReviewsAreKnown` that chunks which no
  interrupted approval left belong to a decision that is over. `IndexFollows` follows.

`OperationsProofs`:

- `CalendarInvariant`: `ReconnectIsTold` is inductive with the types; `ClaimedBeforeTold`
  gives each notice of a connection its claim, and no second callback one of the same
  life of the grant. `DeathIsTold` and `ToldOnce` follow.
- `SlotsAreRight` is about operators, not steps: that the answer is the computed one is a
  lemma. `AcceptedIsBookable` shows the code's ordered checks equal to
  `Bookable`, a visit being in a window, or beside an event, unit by unit;
  `TriedIsOnGrid` and `GridIsTried` show its candidates to be the grid (a visit that
  fits a window of its day starts and ends on that day); `OfferIsFirst` follows the
  three minima of the search. That the first of the day is offered needs
  the windows in order, which the rule's parsing does not enforce: with windows listed
  out of order the code offers the first start of the first *listed* window.
- `AlertsInvariant`: `OneOpen` (every write of an open incident is in the transaction of
  its check, or finds none), `SentIsLast` (the recorded alert is the last) and
  `SendersAreDue` (an alert under way that met no other is alone and due).
  `DebounceHolds` follows.
- `UsageInvariant`: `Good(t, d)` says that the summary of a day, for a model or
  another tracker, is enough, or the day excused. `AccountedUpToLast` says it of the
  days up to the last summary between runs, `AccountedUpToSaved` of the days before a
  saved run. `AccountedUpToRun` says it of the days behind a run and of what the run
  has settled of its day (`Settled`), and that a count which it has read and not
  yet written suffices (`Enough`), so that rows which land meanwhile are no matter.
  `RowsKept`: retention stays away from the lookback. `SummariesComplete` follows.

`EditingProofs`:

- `CatalogueInvariant`: a command about to take a service off the offer holds the id of
  a row of its name, since rows of `services` are never given to another name.
  `OnlyItsService` follows, an action property.
- `PromptsInvariant`. A save holds a version number it read before; `SavesAreReady` says
  it is at most one past the history, and `NoGap` that a number is free exactly when it
  is past it. So a save that finds its number free has the next one, and any other is
  refused. `HistoryIsKept` follows.
- `DialogInvariant`. `DueAlone` and `AppliesAlone`: two requests between check and write,
  or applying, are about different proposals unless one has been noted as overlapped;
  `StillTrue`: then what a request has checked still holds. `SessionsInARow` and
  `NumbersInARow` make new rows and versions new. `NewestPending`: in the services
  dialog a proposal that can be confirmed is its author's newest. `AppliedOnce` and
  the action property `OnlyTheShown` follow.

Model-checked only:

- liveness (`PendingIsTold`, `OutboxDrains`, `GetsOperator`, `ScheduledIsSettled`),
  which the prover does not do under fairness;
- the properties that the code violates.

Check with `tlc -config InboundSafety.cfg MCInboundDelivery` and
`tlapm InboundDeliveryProofs.tla`, and likewise for the others.

## Plan

1. An abstract specification of a confirmed proposal (applied at most once, and only
   what was shown) that `ConfirmSessions` implements for sessions whose checks do not
   overlap, with the proof of the refinement.
2. Re-analysis and reassignment of candidates in `KnowledgeUploads`; how a text is
   resolved to a service in the calendar.

Not modelled, and not planned: the answer pipeline's texts and scores (an LLM decides),
the recognisers of dates and services (data to `SalesTurn`), the pages of the web UI,
sign-in codes, backups, corrections and the ingest worker: nothing in them is
shared between two actors for longer than one statement.
