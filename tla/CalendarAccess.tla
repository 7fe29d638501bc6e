--------------------------- MODULE CalendarAccess ---------------------------
(* The api's access to an operator's Google calendar, for one operator of one *)
(* project: consent links and the OAuth callback, the stored grant, the       *)
(* access-token provider with its cache and its lock, free/busy questions of  *)
(* the availability answerer and of the sales persona, and disconnection.     *)
(* Every step ends where the code awaits.                                     *)
EXTENDS Integers, FiniteSets

CONSTANTS Asker,      \* availability questions that may be in flight
          Callback,   \* OAuth callbacks that may be in flight
          Link,       \* consent links
          MaxGrant,   \* bound: grants Google hands out
          MaxLife     \* bound: disconnections

ASSUME CalendarBounds == MaxGrant \in Nat \ {0} /\ MaxLife \in Nat

VARIABLES grantRow,   \* row of calendar_operator_tokens, grant 0 when absent
          claimed,    \* row of calendar_connect_notifications
          project,    \* calendar_project_settings: enabled, operator recorded
          link,       \* calendar_oauth_pending_state
          tokenCache, \* grant behind the cached fresh access token, 0 when there is none
          tokenLock,  \* the asyncio lock of the key: its holder
          clarifying, \* calendar_clarify_state of the chat
          google,     \* external: grants honoured, number of grants issued
          ask, callback, parting,  \* requests in flight
          calendarLog \* ghosts: connection DMs of each life, and
                        \* whether the last death was told, lost or neither

NoOne == "none"
Grant == 1..MaxGrant
calendarVars == <<grantRow, claimed, project, link, tokenCache, tokenLock,
                  clarifying, google, ask, callback, parting, calendarLog>>

stores == <<grantRow, claimed, project, link>>
provider == <<tokenCache, tokenLock>>
requests == <<ask, callback, parting>>

NoRow == [grant |-> 0, status |-> "none"]
NoQuestion == [pc |-> "idle", grant |-> 0]
NoCallback == [pc |-> "idle", before |-> FALSE, grant |-> 0, life |-> 0]
NoParting == [pc |-> "idle", grant |-> 0]

CalendarInit ==
  /\ grantRow = NoRow /\ claimed = FALSE
  /\ project = [enabled |-> FALSE, operator |-> FALSE]
  /\ link = [l \in Link |-> "none"]
  /\ tokenCache = 0 /\ tokenLock = NoOne
  /\ clarifying = FALSE
  /\ google = [honoured |-> {}, issued |-> 0]
  /\ ask = [a \in Asker |-> NoQuestion]
  /\ callback = [c \in Callback |-> NoCallback]
  /\ parting = NoParting
  /\ calendarLog = [told |-> "no", dms |-> [n \in 0..MaxLife |-> 0], life |-> 0]

-----------------------------------------------------------------------------
(* Consent: the link, and the callback Google redirects the browser to. *)

calendar_connect_initiate(l) ==
  /\ link[l] = "none"
  /\ link' = [link EXCEPT ![l] = "pending"]
  /\ UNCHANGED <<grantRow, claimed, project, provider, clarifying, google,
                 requests, calendarLog>>

LinkExpires(l) ==
  /\ link[l] = "pending"
  /\ link' = [link EXCEPT ![l] = "spent"]
  /\ UNCHANGED <<grantRow, claimed, project, provider, clarifying, google,
                 requests, calendarLog>>

\* A used, expired or unknown link ends the request with 400 and no effect.
Consume(c, l) ==
  /\ callback[c].pc = "idle" /\ link[l] = "pending"
  /\ link' = [link EXCEPT ![l] = "spent"]
  /\ callback' = [callback EXCEPT ![c] = [NoCallback EXCEPT !.pc = "exchange"]]
  /\ UNCHANGED <<grantRow, claimed, project, provider, clarifying, google,
                 ask, parting, calendarLog>>

exchange_code(c) ==
  /\ callback[c].pc = "exchange"
  /\ \/ /\ google.issued < MaxGrant
        /\ LET g == google.issued + 1 IN
           /\ google' = [honoured |-> google.honoured \cup {g}, issued |-> g]
           /\ callback' = [callback EXCEPT ![c].pc = "status", ![c].grant = g]
     \/ callback' = [callback EXCEPT ![c] = NoCallback] /\ UNCHANGED google
  /\ UNCHANGED <<stores, provider, clarifying, ask, parting, calendarLog>>

\* Was there a token, and then: was the project enabled?
ReadBefore(c) ==
  /\ \/ /\ callback[c].pc = "status"
        /\ callback' = [callback EXCEPT ![c].pc = "settings",
                                        ![c].before = grantRow.grant # 0]
     \/ /\ callback[c].pc = "settings"
        /\ callback' = [callback EXCEPT ![c].pc = "upsert",
                                        ![c].before = @ \/ project.enabled]
  /\ UNCHANGED <<stores, provider, clarifying, google, ask, parting, calendarLog>>

upsert(c) ==
  /\ callback[c].pc = "upsert"
  /\ grantRow' = [grant |-> callback[c].grant, status |-> "connected"]
  /\ callback' = [callback EXCEPT ![c].pc = "enable"]
  /\ UNCHANGED <<claimed, project, link, provider, clarifying, google, ask,
                 parting, calendarLog>>

\* A failure to enable renders 500 and leaves the token stored.
enable(c) ==
  /\ callback[c].pc = "enable"
  /\ \/ /\ project' = [enabled |-> TRUE, operator |-> TRUE]
        /\ callback' = [callback EXCEPT ![c].pc = "claim"]
     \/ callback' = [callback EXCEPT ![c] = NoCallback] /\ UNCHANGED project
  /\ UNCHANGED <<grantRow, claimed, link, provider, clarifying, google, ask,
                 parting, calendarLog>>

(* Mutant: the claim is written but its outcome is not asked for. *)
claim_ignored(c) ==
  /\ callback[c].pc = "claim"
  /\ claimed' = TRUE
  /\ callback' = [callback EXCEPT ![c] =
       IF callback[c].before THEN NoCallback
       ELSE [@ EXCEPT !.pc = "dm", !.life = calendarLog.life]]
  /\ UNCHANGED <<grantRow, project, link, provider, clarifying, google, ask,
                 parting, calendarLog>>

claim_connection_notification(c) ==
  /\ callback[c].pc = "claim"
  /\ claimed' = TRUE
  /\ callback' = [callback EXCEPT ![c] =
       IF callback[c].before \/ claimed THEN NoCallback
       ELSE [@ EXCEPT !.pc = "dm", !.life = calendarLog.life]]
  /\ UNCHANGED <<grantRow, project, link, provider, clarifying, google, ask,
                 parting, calendarLog>>

\* No chat to write to, and a failed send, are both swallowed.
SendConnectedDM(c) ==
  /\ callback[c].pc = "dm"
  /\ callback' = [callback EXCEPT ![c] = NoCallback]
  /\ \/ calendarLog' = [calendarLog EXCEPT !.dms[callback[c].life] = @ + 1]
     \/ UNCHANGED calendarLog
  /\ UNCHANGED <<stores, provider, clarifying, google, ask, parting>>

\* Legacy rows get their claim when the api starts; requests in flight die with
\* the process, and so do the cache and the lock.
Restart ==
  /\ ask' = [a \in Asker |-> NoQuestion]
  /\ callback' = [c \in Callback |-> NoCallback]
  /\ parting' = NoParting
  /\ tokenCache' = 0 /\ tokenLock' = NoOne
  /\ claimed' = (claimed \/ grantRow.status = "connected")
  /\ calendarLog' = [calendarLog EXCEPT !.told =
       IF \E a \in Asker : ask[a].pc \in {"incident", "tell"} THEN "lost" ELSE @]
  /\ UNCHANGED <<grantRow, project, link, clarifying, google>>

-----------------------------------------------------------------------------
(* Leaving: the operator disconnects, or switches the project's calendar off. *)

calendar_disconnect ==
  /\ \/ /\ parting.pc = "idle" /\ calendarLog.life < MaxLife
        /\ grantRow.grant # 0
        /\ parting' = [pc |-> "revoke", grant |-> grantRow.grant]
        /\ UNCHANGED <<stores, google, calendarLog>>
     \/ /\ parting.pc = "revoke"
        /\ parting' = [parting EXCEPT !.pc = "delete"]
        /\ \/ google' = [google EXCEPT !.honoured = @ \ {parting.grant}]
           \/ UNCHANGED google
        /\ UNCHANGED <<stores, calendarLog>>
     \/ /\ parting.pc = "delete"
        /\ parting' = NoParting
        /\ grantRow' = NoRow /\ claimed' = FALSE
        /\ calendarLog' = [calendarLog EXCEPT !.life = @ + 1]
        /\ UNCHANGED <<project, link, google>>
  /\ UNCHANGED <<provider, clarifying, ask, callback>>

calendar_project_disable ==
  /\ project.enabled
  /\ project' = [project EXCEPT !.enabled = FALSE]
  /\ UNCHANGED <<grantRow, claimed, link, provider, clarifying, google,
                 requests, calendarLog>>

\* The owner withdraws the consent in the Google account itself.
WithdrawnAtGoogle(g) ==
  /\ g \in google.honoured
  /\ google' = [google EXCEPT !.honoured = @ \ {g}]
  /\ UNCHANGED <<stores, provider, clarifying, requests, calendarLog>>

TokenExpires ==
  /\ tokenCache # 0
  /\ tokenCache' = 0
  /\ UNCHANGED <<stores, tokenLock, clarifying, google, requests, calendarLog>>

-----------------------------------------------------------------------------
(* A question. *)

To(a, pc) == ask' = [ask EXCEPT ![a] = [NoQuestion EXCEPT !.pc = pc]]
Done(a) == ask' = [ask EXCEPT ![a] = NoQuestion]

\* The answerer skips a disabled project; the persona asks whenever it knows the
\* operator. With no operator recorded the question is escalated at once.
try_answer(a, reading) ==
  /\ ask[a].pc = "idle" /\ project.enabled
  /\ IF reading = "clear"
     THEN /\ clarifying' = FALSE
          /\ project.operator
          /\ To(a, "token")
     ELSE \* an armed chat is escalated, any other asked once
          /\ ~clarifying
          /\ To(a, "arm") /\ UNCHANGED clarifying
  /\ UNCHANGED <<stores, provider, google, callback, parting, calendarLog>>

clarify_or_escalate(a) ==
  /\ ask[a].pc = "arm"
  /\ clarifying' = TRUE
  /\ Done(a)
  /\ UNCHANGED <<stores, provider, google, callback, parting, calendarLog>>

check_requested_availability(a) ==
  /\ ask[a].pc = "idle" /\ project.operator
  /\ To(a, "token")
  /\ UNCHANGED <<stores, provider, clarifying, google, callback, parting, calendarLog>>

get_access_token(a) ==
  /\ ask[a].pc = "token"
  /\ IF tokenCache # 0
     THEN To(a, "query") /\ UNCHANGED tokenLock
     ELSE /\ tokenLock = NoOne /\ tokenLock' = a
          /\ To(a, "status")
  /\ UNCHANGED <<stores, tokenCache, clarifying, google, callback, parting, calendarLog>>

\* A known dead grant, or none at all, is not refreshed.
ReadGrant(a) ==
  /\ \/ /\ ask[a].pc = "status"
        /\ IF grantRow.status = "reconnect_needed"
           THEN Done(a) /\ tokenLock' = NoOne
           ELSE To(a, "read") /\ UNCHANGED tokenLock
     \/ /\ ask[a].pc = "read"
        /\ IF grantRow.grant = 0
           THEN Done(a) /\ tokenLock' = NoOne
           ELSE /\ ask' = [ask EXCEPT ![a].pc = "refresh", ![a].grant = grantRow.grant]
                /\ UNCHANGED tokenLock
  /\ UNCHANGED <<stores, tokenCache, clarifying, google, callback, parting, calendarLog>>

\* Google may refuse a grant it honours (an incomplete or failed refresh); a
\* transport error is no TokenRefreshFailed and ends the question.
refresh(a) ==
  /\ ask[a].pc = "refresh"
  /\ \/ /\ ask[a].grant \in google.honoured
        /\ tokenCache' = ask[a].grant
        /\ tokenLock' = NoOne /\ To(a, "query")
     \/ tokenCache' = 0 /\ UNCHANGED tokenLock /\ To(a, "recheck")
     \/ UNCHANGED tokenCache /\ tokenLock' = NoOne /\ Done(a)
  /\ UNCHANGED <<stores, clarifying, google, callback, parting, calendarLog>>

(* Mutant: the row is marked before it is checked for a death already told. *)
MarkDead_first(a) ==
  /\ \/ /\ ask[a].pc = "recheck"
        /\ grantRow' = IF grantRow.grant = 0 THEN grantRow
                       ELSE [grantRow EXCEPT !.status = "reconnect_needed"]
        /\ calendarLog' = [calendarLog EXCEPT !.told = "no"]
        /\ To(a, "mark") /\ UNCHANGED tokenLock
     \/ /\ ask[a].pc = "mark"
        /\ IF grantRow.status = "reconnect_needed"
           THEN Done(a) /\ tokenLock' = NoOne
           ELSE To(a, "incident") /\ UNCHANGED tokenLock
        /\ UNCHANGED <<grantRow, calendarLog>>
  /\ UNCHANGED <<claimed, project, link, tokenCache, clarifying, google, callback, parting>>

\* The dead token: marked, reported, and the operator told, once per death.
MarkDead(a) ==
  /\ \/ /\ ask[a].pc = "recheck"
        /\ IF grantRow.status = "reconnect_needed"
           THEN Done(a) /\ tokenLock' = NoOne
           ELSE To(a, "mark") /\ UNCHANGED tokenLock
        /\ UNCHANGED <<grantRow, calendarLog>>
     \/ /\ ask[a].pc = "mark"
        /\ grantRow' = IF grantRow.grant = 0 THEN grantRow
                       ELSE [grantRow EXCEPT !.status = "reconnect_needed"]
        /\ calendarLog' = [calendarLog EXCEPT !.told = "no"]
        /\ To(a, "incident") /\ UNCHANGED tokenLock
  /\ UNCHANGED <<claimed, project, link, tokenCache, clarifying, google, callback, parting>>

TellOperator(a) ==
  /\ ask[a].pc \in {"incident", "tell"}
  /\ \/ /\ ask[a].pc = "incident" /\ To(a, "tell")
        /\ UNCHANGED <<tokenLock, calendarLog>>
     \/ /\ ask[a].pc = "tell" /\ Done(a) /\ tokenLock' = NoOne
        /\ calendarLog' = [calendarLog EXCEPT !.told = "yes"]
     \/ /\ Done(a) /\ tokenLock' = NoOne   \* the ingest or the send raises
        /\ calendarLog' = [calendarLog EXCEPT !.told = "lost"]
  /\ UNCHANGED <<stores, tokenCache, clarifying, google, callback, parting>>

\* One retry after a timeout, 429 or 5xx; then, as for any other refusal, an
\* incident and an escalation.
query_busy(a) ==
  /\ ask[a].pc \in {"query", "retry"}
  /\ \/ Done(a)
     \/ ask[a].pc = "query" /\ To(a, "retry")
  /\ UNCHANGED <<stores, provider, clarifying, google, callback, parting, calendarLog>>

\* The steps of the questions in A, read as R says, and of the callbacks in C.
CalendarStep(A, R, C) ==
  \/ \E l \in Link : calendar_connect_initiate(l) \/ LinkExpires(l)
  \/ \E c \in C :
       \/ \E l \in Link : Consume(c, l)
       \/ exchange_code(c) \/ ReadBefore(c) \/ upsert(c) \/ enable(c)
       \/ claim_connection_notification(c) \/ SendConnectedDM(c)
  \/ Restart \/ calendar_disconnect \/ calendar_project_disable \/ TokenExpires
  \/ \E g \in Grant : WithdrawnAtGoogle(g)
  \/ \E a \in A :
       \/ \E reading \in R : try_answer(a, reading)
       \/ clarify_or_escalate(a) \/ check_requested_availability(a)
       \/ get_access_token(a) \/ ReadGrant(a) \/ refresh(a)
       \/ MarkDead(a) \/ TellOperator(a) \/ query_busy(a)

CalendarNext == CalendarStep(Asker, {"clear", "unclear"}, Callback)

CalendarSpec == CalendarInit /\ [][CalendarNext]_calendarVars
-----------------------------------------------------------------------------
\* The operator of a calendar marked reconnect_needed has been asked to reconnect
\* it, or is about to be, unless the report itself failed or died with the api:
\* neither the dedup of access_token_cache._handle_dead_token nor a reconnection
\* between two of its steps leaves a death the operator never hears of.
ReconnectIsTold ==
  grantRow.status = "reconnect_needed" =>
    \/ calendarLog.told \in {"yes", "lost"}
    \/ \E a \in Asker : ask[a].pc \in {"incident", "tell"}

\* Between two disconnections the operator reads at most once that the calendar
\* is connected, whatever callbacks overlap, repeat or follow a restart.
ConnectionToldOnce == \A n \in 0..MaxLife : calendarLog.dms[n] <= 1
=============================================================================
