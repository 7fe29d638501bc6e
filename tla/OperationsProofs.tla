-------------------------- MODULE OperationsProofs ---------------------------
(* Proofs about what keeps the service running and watched: the access to a   *)
(* project's calendar, the slots it offers, the alerts of incidents and the   *)
(* count of model calls.                                                      *)
EXTENDS CalendarAccess, SlotSearch, IncidentAlerts, UsageMetering, FiniteSetTheorems,
        SequenceTheorems, WellFoundedInduction, TLAPS

(* The access to a project's calendar. *)

GrantOrNone == 0..MaxGrant
Life == 0..MaxLife
GrantRow == [grant : GrantOrNone, status : {"none", "connected", "reconnect_needed"}]
AskRow == [pc : {"idle", "arm", "token", "status", "read", "refresh", "recheck", "mark",
                 "incident", "tell", "query", "retry"},
           grant : GrantOrNone]
CallbackRow == [pc : {"idle", "exchange", "status", "settings", "upsert", "enable", "claim", "dm"},
                before : BOOLEAN, grant : GrantOrNone, life : Life]
PartingRow == [pc : {"idle", "revoke", "delete"}, grant : GrantOrNone]
CalendarLog == [told : {"no", "yes", "lost"}, dms : [Life -> Nat], life : Life]

CalendarTypeOK ==
  /\ grantRow \in GrantRow /\ claimed \in BOOLEAN
  /\ project \in [enabled : BOOLEAN, operator : BOOLEAN]
  /\ link \in [Link -> {"none", "pending", "spent"}]
  /\ tokenCache \in GrantOrNone /\ tokenLock \in Asker \cup {NoOne}
  /\ clarifying \in BOOLEAN
  /\ google \in [honoured : SUBSET Grant, issued : GrantOrNone]
  /\ ask \in [Asker -> AskRow]
  /\ callback \in [Callback -> CallbackRow]
  /\ parting \in PartingRow
  /\ calendarLog \in CalendarLog
  /\ parting.pc # "idle" => calendarLog.life < MaxLife

\* A DM of a life is sent or about to be sent once; while that life lasts, its
\* claim is on record.
ClaimedBeforeTold ==
  /\ \A n \in Life : /\ calendarLog.dms[n] <= 1
                     /\ calendarLog.dms[n] > 0 => \/ n < calendarLog.life
                                                  \/ n = calendarLog.life /\ claimed
  /\ \A c \in Callback : callback[c].pc = "dm" =>
       /\ \/ callback[c].life < calendarLog.life
          \/ callback[c].life = calendarLog.life /\ claimed
       /\ calendarLog.dms[callback[c].life] = 0
       /\ \A d \in Callback \ {c} :
            ~(callback[d].pc = "dm" /\ callback[d].life = callback[c].life)

CalendarInv == CalendarTypeOK /\ ReconnectIsTold /\ ClaimedBeforeTold

LEMMA ToAsk ==
  ASSUME CalendarTypeOK, NEW a \in Asker, NEW row \in AskRow, ask' = [ask EXCEPT ![a] = row]
  PROVE  /\ ask' \in [Asker -> AskRow]
         /\ \A b \in Asker : ask'[b] = IF b = a THEN row ELSE ask[b]
BY DEF CalendarTypeOK

LEMMA AskRows ==
  /\ NoQuestion \in AskRow /\ NoQuestion.pc = "idle"
  /\ \A pc \in {"idle", "arm", "token", "status", "read", "recheck", "mark",
                "incident", "tell", "query", "retry"} :
       /\ [NoQuestion EXCEPT !.pc = pc] \in AskRow
       /\ [NoQuestion EXCEPT !.pc = pc].pc = pc
BY CalendarBounds DEF NoQuestion, AskRow, GrantOrNone

LEMMA CallbackRows ==
  /\ NoCallback \in CallbackRow /\ NoCallback.pc = "idle"
  /\ [NoCallback EXCEPT !.pc = "exchange"] \in CallbackRow
  /\ [NoCallback EXCEPT !.pc = "exchange"].pc = "exchange"
<1>1. 0 \in GrantOrNone /\ 0 \in Life BY CalendarBounds DEF GrantOrNone, Life
<1> QED BY <1>1 DEF NoCallback, CallbackRow

LEMMA InitCalendar == CalendarInit => CalendarInv
<1> SUFFICES ASSUME CalendarInit PROVE CalendarInv
  OBVIOUS
<1> USE DEF CalendarInit
<1>1. 0 \in GrantOrNone /\ 0 \in Life BY CalendarBounds DEF GrantOrNone, Life
<1>2. /\ \A n \in Life : calendarLog.dms[n] = 0
      /\ calendarLog \in CalendarLog
  BY <1>1 DEF CalendarLog, Life
<1>3. \A c \in Callback : callback[c].pc = "idle" BY CallbackRows
<1>4. ask \in [Asker -> AskRow] /\ callback \in [Callback -> CallbackRow]
  BY AskRows, CallbackRows
<1>5. CalendarTypeOK
  BY <1>1, <1>2, <1>4 DEF CalendarTypeOK, GrantRow, NoRow, PartingRow, NoParting
<1>6. ReconnectIsTold BY DEF ReconnectIsTold, NoRow
<1>7. ClaimedBeforeTold
  <2> HIDE DEF CalendarInit
  <2>1. \A n \in Life : calendarLog.dms[n] <= 1 /\ ~(calendarLog.dms[n] > 0) BY <1>2
  <2>2. \A c \in Callback : callback[c].pc # "dm" BY <1>3
  <2> QED BY <2>1, <2>2, Zenon DEF ClaimedBeforeTold
<1> QED BY <1>5, <1>6, <1>7 DEF CalendarInv

\* What a step of a question does to a death of the token: nothing, find it,
\* pass it on, or end it told or lost.
AskerMove(a) ==
  /\ \E row \in AskRow :
       /\ ask' = [ask EXCEPT ![a] = row]
       /\ \/ /\ ask[a].pc \notin {"incident", "tell"}
             /\ UNCHANGED <<grantRow, calendarLog>>
          \/ /\ row.pc = "incident"
             /\ grantRow' \in {grantRow, [grantRow EXCEPT !.status = "reconnect_needed"]}
             /\ calendarLog' = [calendarLog EXCEPT !.told = "no"]
          \/ /\ row.pc = "tell"
             /\ UNCHANGED <<grantRow, calendarLog>>
          \/ /\ grantRow' = grantRow
             /\ \E t \in {"yes", "lost"} : calendarLog' = [calendarLog EXCEPT !.told = t]
  /\ UNCHANGED <<claimed, project, link, google, callback, parting>>
  /\ tokenCache' \in GrantOrNone /\ tokenLock' \in Asker \cup {NoOne}
  /\ clarifying' \in BOOLEAN

AskerStep(a) ==
  \/ \E reading \in {"clear", "unclear"} : try_answer(a, reading)
  \/ clarify_or_escalate(a) \/ check_requested_availability(a)
  \/ get_access_token(a) \/ ReadGrant(a) \/ refresh(a)
  \/ MarkDead(a) \/ TellOperator(a) \/ query_busy(a)

LEMMA AskerMoves ==
  ASSUME CalendarTypeOK, NEW a \in Asker, AskerStep(a) PROVE AskerMove(a)
<1> USE AskRows DEF To, Done, stores, provider
<1>0. /\ ask[a] \in AskRow /\ 0 \in GrantOrNone /\ grantRow.grant \in GrantOrNone
      /\ ask[a].grant \in GrantOrNone
      /\ tokenCache \in GrantOrNone /\ tokenLock \in Asker \cup {NoOne} /\ clarifying \in BOOLEAN
  BY CalendarBounds DEF CalendarTypeOK, GrantOrNone, AskRow, GrantRow
<1>1. CASE \E reading \in {"clear", "unclear"} : try_answer(a, reading)
  BY <1>0, <1>1 DEF try_answer, AskerMove
<1>2. CASE clarify_or_escalate(a) \/ check_requested_availability(a) \/ query_busy(a)
  BY <1>0, <1>2 DEF clarify_or_escalate, check_requested_availability, query_busy, AskerMove
<1>3. CASE get_access_token(a)
  BY <1>0, <1>3 DEF get_access_token, AskerMove
<1>4. CASE ReadGrant(a)
  <2>1. [ask EXCEPT ![a].pc = "refresh", ![a].grant = grantRow.grant]
          = [ask EXCEPT ![a] = [@ EXCEPT !.pc = "refresh", !.grant = grantRow.grant]]
    OBVIOUS
  <2>2. [ask[a] EXCEPT !.pc = "refresh", !.grant = grantRow.grant] \in AskRow
    BY <1>0 DEF AskRow
  <2> QED BY <1>0, <1>4, <2>1, <2>2 DEF ReadGrant, AskerMove
<1>5. CASE refresh(a)
  BY <1>0, <1>5 DEF refresh, AskerMove
<1>6. CASE MarkDead(a)
  BY <1>0, <1>6 DEF MarkDead, AskerMove
<1>7. CASE TellOperator(a)
  BY <1>0, <1>7 DEF TellOperator, AskerMove
<1> QED BY <1>1, <1>2, <1>3, <1>4, <1>5, <1>6, <1>7 DEF AskerStep

LEMMA AskerKeeps ==
  ASSUME CalendarInv, NEW a \in Asker, AskerStep(a) PROVE CalendarInv'
<1> USE DEF CalendarInv
<1>0. AskerMove(a) BY AskerMoves
<1>1. PICK row \in AskRow :
        /\ ask' = [ask EXCEPT ![a] = row]
        /\ \/ /\ ask[a].pc \notin {"incident", "tell"}
              /\ UNCHANGED <<grantRow, calendarLog>>
           \/ /\ row.pc = "incident"
              /\ grantRow' \in {grantRow, [grantRow EXCEPT !.status = "reconnect_needed"]}
              /\ calendarLog' = [calendarLog EXCEPT !.told = "no"]
           \/ /\ row.pc = "tell"
              /\ UNCHANGED <<grantRow, calendarLog>>
           \/ /\ grantRow' = grantRow
              /\ \E t \in {"yes", "lost"} : calendarLog' = [calendarLog EXCEPT !.told = t]
  BY <1>0 DEF AskerMove
<1>2. UNCHANGED <<claimed, project, link, google, callback, parting>> BY <1>0 DEF AskerMove
<1>3. /\ ask' \in [Asker -> AskRow]
      /\ \A b \in Asker : ask'[b] = IF b = a THEN row ELSE ask[b]
  BY <1>1, ToAsk
<1>4. calendarLog \in CalendarLog /\ grantRow \in GrantRow BY DEF CalendarTypeOK
<1>5. /\ calendarLog' \in CalendarLog /\ calendarLog'.dms = calendarLog.dms
      /\ calendarLog'.life = calendarLog.life
  BY <1>1, <1>4 DEF CalendarLog
<1>6. grantRow' \in GrantRow BY <1>1, <1>4 DEF GrantRow
<1>7. CalendarTypeOK' BY <1>0, <1>2, <1>3, <1>5, <1>6 DEF CalendarTypeOK, AskerMove
<1>8. ReconnectIsTold'
  <2>1. CASE ask[a].pc \notin {"incident", "tell"} /\ UNCHANGED <<grantRow, calendarLog>>
    BY <1>3, <2>1 DEF ReconnectIsTold
  <2>2. CASE row.pc \in {"incident", "tell"} BY <1>3, <2>2 DEF ReconnectIsTold
  <2>3. CASE \E t \in {"yes", "lost"} : calendarLog' = [calendarLog EXCEPT !.told = t]
    BY <1>4, <2>3 DEF ReconnectIsTold, CalendarLog
  <2> QED BY <1>1, <2>1, <2>2, <2>3
<1>9. ClaimedBeforeTold' BY <1>2, <1>5 DEF ClaimedBeforeTold
<1> QED BY <1>7, <1>8, <1>9

CallbackStep(c) ==
  \/ \E l \in Link : Consume(c, l)
  \/ exchange_code(c) \/ ReadBefore(c) \/ upsert(c) \/ enable(c)
  \/ claim_connection_notification(c) \/ SendConnectedDM(c)

\* A callback moves by itself, and neither the stores it writes on the way nor
\* its moves, but for the last two, have to do with the DM.
LEMMA CallbackMove ==
  ASSUME CalendarInv, NEW c \in Callback, NEW row \in CallbackRow,
         callback' = [callback EXCEPT ![c] = row], row.pc # "dm",
         grantRow' = grantRow \/ (grantRow' \in GrantRow /\ grantRow'.status = "connected"),
         project' \in [enabled : BOOLEAN, operator : BOOLEAN],
         link' \in [Link -> {"none", "pending", "spent"}],
         google' \in [honoured : SUBSET Grant, issued : GrantOrNone],
         claimed' = claimed \/ claimed' = TRUE,
         UNCHANGED <<tokenCache, tokenLock, clarifying, ask, parting, calendarLog>>
  PROVE  CalendarInv'
<1> USE DEF CalendarInv
<1>1. /\ callback' \in [Callback -> CallbackRow]
      /\ \A d \in Callback : callback'[d] = IF d = c THEN row ELSE callback[d]
  BY DEF CalendarTypeOK
<1>2. CalendarTypeOK' BY <1>1 DEF CalendarTypeOK
<1>3. ReconnectIsTold' BY DEF ReconnectIsTold
<1>4. ClaimedBeforeTold' BY <1>1 DEF ClaimedBeforeTold
<1> QED BY <1>2, <1>3, <1>4

LEMMA CallbackKeeps ==
  ASSUME CalendarInv, NEW c \in Callback, CallbackStep(c) PROVE CalendarInv'
<1> USE DEF CalendarInv
<1>0. /\ callback[c] \in CallbackRow /\ callback \in [Callback -> CallbackRow]
      /\ project \in [enabled : BOOLEAN, operator : BOOLEAN]
      /\ link \in [Link -> {"none", "pending", "spent"}]
      /\ google \in [honoured : SUBSET Grant, issued : GrantOrNone]
      /\ google.issued \in GrantOrNone /\ google.honoured \subseteq Grant
      /\ grantRow \in GrantRow /\ claimed \in BOOLEAN
  BY DEF CalendarTypeOK
<1>1. ASSUME NEW l \in Link, Consume(c, l) PROVE CalendarInv'
  <2>1. link' \in [Link -> {"none", "pending", "spent"}] BY <1>0, <1>1 DEF Consume
  <2>2. callback' = [callback EXCEPT ![c] = [NoCallback EXCEPT !.pc = "exchange"]]
        /\ UNCHANGED <<grantRow, claimed, project, tokenCache, tokenLock, clarifying, google,
                       ask, parting, calendarLog>>
    BY <1>1 DEF Consume, provider
  <2> QED BY <1>0, <2>1, <2>2, CallbackRows, CallbackMove
<1>2. CASE exchange_code(c)
  <2>1. UNCHANGED <<grantRow, claimed, project, link, tokenCache, tokenLock, clarifying,
                    ask, parting, calendarLog>>
    BY <1>2 DEF exchange_code, stores, provider
  <2>2. CASE callback' = [callback EXCEPT ![c] = NoCallback] /\ google' = google
    BY <1>0, <2>1, <2>2, CallbackRows, CallbackMove
  <2>3. CASE /\ google.issued < MaxGrant
             /\ google' = [honoured |-> google.honoured \cup {google.issued + 1},
                           issued |-> google.issued + 1]
             /\ callback' = [callback EXCEPT ![c].pc = "status", ![c].grant = google.issued + 1]
    <3> DEFINE g == google.issued + 1
               row == [callback[c] EXCEPT !.pc = "status", !.grant = g]
    <3>1. g \in GrantOrNone /\ g \in Grant
      BY <1>0, <2>3, CalendarBounds DEF GrantOrNone, Grant
    <3> HIDE DEF g
    <3>2. row \in CallbackRow /\ row.pc = "status" BY <1>0, <3>1 DEF CallbackRow
    <3>3. callback' = [callback EXCEPT ![c] = row] BY <1>0, <2>3 DEF g, CallbackRow
    <3>4. google' \in [honoured : SUBSET Grant, issued : GrantOrNone] BY <1>0, <2>3, <3>1 DEF g
    <3> HIDE DEF row
    <3> QED BY <1>0, <2>1, <3>2, <3>3, <3>4, CallbackMove
  <2> QED BY <1>2, <2>2, <2>3 DEF exchange_code
<1>3. CASE ReadBefore(c)
  <2>1. UNCHANGED <<grantRow, claimed, project, link, google, tokenCache, tokenLock, clarifying,
                    ask, parting, calendarLog>>
    BY <1>3 DEF ReadBefore, stores, provider
  <2>2. PICK b \in BOOLEAN, pc \in {"settings", "upsert"} :
          callback' = [callback EXCEPT ![c] = [@ EXCEPT !.pc = pc, !.before = b]]
    <3>1. callback[c].before \in BOOLEAN /\ (grantRow.grant # 0) \in BOOLEAN
          /\ (callback[c].before \/ project.enabled) \in BOOLEAN
      BY <1>0 DEF CallbackRow
    <3> QED BY <1>0, <1>3, <3>1 DEF ReadBefore
  <2> DEFINE row == [callback[c] EXCEPT !.pc = pc, !.before = b]
  <2>3. row \in CallbackRow /\ row.pc = pc BY <1>0 DEF CallbackRow
  <2>4. callback' = [callback EXCEPT ![c] = row] BY <2>2
  <2> HIDE DEF row
  <2> QED BY <1>0, <2>1, <2>3, <2>4, CallbackMove
<1>4. CASE upsert(c)
  <2> DEFINE row == [callback[c] EXCEPT !.pc = "enable"]
  <2>1. UNCHANGED <<claimed, project, link, google, tokenCache, tokenLock, clarifying,
                    ask, parting, calendarLog>>
    BY <1>4 DEF upsert, provider
  <2>2. row \in CallbackRow /\ row.pc = "enable" BY <1>0 DEF CallbackRow
  <2>3. callback' = [callback EXCEPT ![c] = row] BY <1>0, <1>4 DEF upsert
  <2>4. grantRow' \in GrantRow /\ grantRow'.status = "connected"
    BY <1>0, <1>4 DEF upsert, GrantRow, CallbackRow
  <2> HIDE DEF row
  <2> QED BY <1>0, <2>1, <2>2, <2>3, <2>4, CallbackMove
<1>5. CASE enable(c)
  <2> DEFINE row == [callback[c] EXCEPT !.pc = "claim"]
  <2>1. UNCHANGED <<grantRow, claimed, link, google, tokenCache, tokenLock, clarifying,
                    ask, parting, calendarLog>>
    BY <1>5 DEF enable, provider
  <2>2. row \in CallbackRow /\ row.pc = "claim" BY <1>0 DEF CallbackRow
  <2>3. /\ callback' = [callback EXCEPT ![c] = row] \/ callback' = [callback EXCEPT ![c] = NoCallback]
        /\ project' \in [enabled : BOOLEAN, operator : BOOLEAN]
    <3>1. [callback EXCEPT ![c].pc = "claim"] = [callback EXCEPT ![c] = row] BY <1>0
    <3> HIDE DEF row
    <3>2. callback' = [callback EXCEPT ![c] = row] \/ callback' = [callback EXCEPT ![c] = NoCallback]
      BY <1>5, <3>1 DEF enable
    <3>3. project' = project \/ project' = [enabled |-> TRUE, operator |-> TRUE]
      BY <1>5 DEF enable
    <3>4. [enabled |-> TRUE, operator |-> TRUE] \in [enabled : BOOLEAN, operator : BOOLEAN]
      OBVIOUS
    <3>5. project' \in [enabled : BOOLEAN, operator : BOOLEAN] BY <1>0, <3>3, <3>4, Zenon
    <3> QED BY <3>2, <3>5
  <2> HIDE DEF row
  <2> QED BY <1>0, <2>1, <2>2, <2>3, CallbackRows, CallbackMove
<1>6. CASE claim_connection_notification(c)
  <2>1. /\ claimed' = TRUE
        /\ UNCHANGED <<grantRow, project, link, google, tokenCache, tokenLock, clarifying,
                       ask, parting, calendarLog>>
    BY <1>6 DEF claim_connection_notification, provider
  <2>2. CASE callback[c].before \/ claimed
    <3>1. callback' = [callback EXCEPT ![c] = NoCallback]
      BY <1>6, <2>2 DEF claim_connection_notification
    <3> QED BY <1>0, <2>1, <3>1, CallbackRows, CallbackMove
  <2>3. CASE ~(callback[c].before \/ claimed)
    <3> DEFINE row == [callback[c] EXCEPT !.pc = "dm", !.life = calendarLog.life]
    <3>1. calendarLog.life \in Life /\ calendarLog \in CalendarLog
      BY DEF CalendarTypeOK, CalendarLog
    <3>2. row \in CallbackRow /\ row.pc = "dm" /\ row.life = calendarLog.life
      BY <1>0, <3>1 DEF CallbackRow
    <3>3. callback' = [callback EXCEPT ![c] = row]
      BY <1>0, <1>6, <2>3 DEF claim_connection_notification
    <3> HIDE DEF row
    <3>4. /\ callback' \in [Callback -> CallbackRow]
          /\ \A d \in Callback : callback'[d] = IF d = c THEN row ELSE callback[d]
      BY <1>0, <3>2, <3>3
    <3>5. CalendarTypeOK' BY <2>1, <3>4 DEF CalendarTypeOK
    <3>6. ReconnectIsTold' BY <2>1 DEF ReconnectIsTold
    <3>7. ClaimedBeforeTold'
      <4>1. calendarLog.dms[calendarLog.life] = 0
        <5>1. ~(calendarLog.life < calendarLog.life) /\ calendarLog.dms[calendarLog.life] \in Nat
          BY <3>1, CalendarBounds DEF CalendarLog, Life
        <5>2. ~(calendarLog.dms[calendarLog.life] > 0) BY <2>3, <3>1, <5>1 DEF ClaimedBeforeTold
        <5> QED BY <5>1, <5>2
      <4>2. \A d \in Callback : callback[d].pc = "dm" => callback[d].life # calendarLog.life
        <5> SUFFICES ASSUME NEW d \in Callback, callback[d].pc = "dm",
                            callback[d].life = calendarLog.life PROVE FALSE
          OBVIOUS
        <5>1. calendarLog.life < calendarLog.life BY <2>3 DEF ClaimedBeforeTold
        <5> QED BY <3>1, <5>1, CalendarBounds DEF Life
      <4> QED BY <2>1, <3>2, <3>4, <4>1, <4>2 DEF ClaimedBeforeTold
    <3> QED BY <3>5, <3>6, <3>7
  <2> QED BY <2>2, <2>3
<1>7. CASE SendConnectedDM(c)
  <2>1. /\ callback[c].pc = "dm" /\ callback' = [callback EXCEPT ![c] = NoCallback]
        /\ UNCHANGED <<grantRow, claimed, project, link, google, tokenCache, tokenLock, clarifying,
                       ask, parting>>
    BY <1>7 DEF SendConnectedDM, stores, provider
  <2>2. CASE calendarLog' = calendarLog BY <1>0, <2>1, <2>2, CallbackRows, CallbackMove
  <2>3. CASE calendarLog' = [calendarLog EXCEPT !.dms[callback[c].life] = @ + 1]
    <3> DEFINE n == callback[c].life
    <3>1. /\ n \in Life /\ calendarLog \in CalendarLog /\ calendarLog.dms \in [Life -> Nat]
      BY <1>0 DEF CalendarTypeOK, CalendarLog, CallbackRow
    <3>2. calendarLog.dms[n] = 0 /\ (n < calendarLog.life \/ (n = calendarLog.life /\ claimed))
      <4>1. \A b \in Callback : callback[b].pc = "dm" =>
               /\ calendarLog.dms[callback[b].life] = 0
               /\ \/ callback[b].life < calendarLog.life
                  \/ callback[b].life = calendarLog.life /\ claimed
        BY DEF ClaimedBeforeTold
      <4> QED BY <2>1, <4>1, Zenon
    <3>3. \A d \in Callback \ {c} : ~(callback[d].pc = "dm" /\ callback[d].life = n)
      BY <2>1 DEF ClaimedBeforeTold
    <3> HIDE DEF n
    <3>4. /\ calendarLog' \in CalendarLog /\ calendarLog'.life = calendarLog.life
          /\ calendarLog'.told = calendarLog.told
          /\ \A m \in Life : calendarLog'.dms[m] = IF m = n THEN 1 ELSE calendarLog.dms[m]
      <4> DEFINE f == [calendarLog.dms EXCEPT ![n] = 1]
      <4>1. f \in [Life -> Nat] /\ \A m \in Life : f[m] = IF m = n THEN 1 ELSE calendarLog.dms[m]
        BY <3>1
      <4>2. calendarLog' = [calendarLog EXCEPT !.dms = f] BY <2>3, <3>1, <3>2 DEF n
      <4> HIDE DEF f
      <4> QED BY <3>1, <4>1, <4>2 DEF CalendarLog
    <3>5. /\ callback' \in [Callback -> CallbackRow]
          /\ \A d \in Callback : callback'[d] = IF d = c THEN NoCallback ELSE callback[d]
      BY <1>0, <2>1, CallbackRows
    <3>6. CalendarTypeOK' BY <2>1, <3>4, <3>5 DEF CalendarTypeOK
    <3>7. ReconnectIsTold' BY <2>1, <3>4 DEF ReconnectIsTold
    <3>8. ClaimedBeforeTold'
      <4>1. \A m \in Life : calendarLog'.dms[m] <= 1
                            /\ (calendarLog'.dms[m] > 0 => \/ m < calendarLog.life
                                                           \/ m = calendarLog.life /\ claimed)
        BY <3>2, <3>4 DEF ClaimedBeforeTold
      <4>2. ASSUME NEW d \in Callback, callback'[d].pc = "dm"
            PROVE  /\ \/ callback'[d].life < calendarLog.life
                      \/ callback'[d].life = calendarLog.life /\ claimed
                   /\ calendarLog'.dms[callback'[d].life] = 0
                   /\ \A e \in Callback \ {d} :
                        ~(callback'[e].pc = "dm" /\ callback'[e].life = callback'[d].life)
        <5>1. d # c /\ callback'[d] = callback[d] BY <3>5, <4>2, CallbackRows
        <5>2. callback[d].life \in Life /\ callback[d].life # n
          BY <1>0, <3>3, <4>2, <5>1 DEF CallbackRow
        <5>3. calendarLog.dms[callback[d].life] = 0 BY <4>2, <5>1 DEF ClaimedBeforeTold
        <5>4. \A e \in Callback \ {d} :
                ~(callback'[e].pc = "dm" /\ callback'[e].life = callback'[d].life)
          BY <3>5, <4>2, <5>1, CallbackRows DEF ClaimedBeforeTold
        <5> QED BY <3>4, <4>2, <5>1, <5>2, <5>3, <5>4 DEF ClaimedBeforeTold
      <4> QED BY <2>1, <3>4, <4>1, <4>2 DEF ClaimedBeforeTold
    <3> QED BY <3>6, <3>7, <3>8
  <2> QED BY <1>7, <2>2, <2>3 DEF SendConnectedDM
<1> QED BY <1>1, <1>2, <1>3, <1>4, <1>5, <1>6, <1>7 DEF CallbackStep

LEMMA RestartCalendarKeeps == ASSUME CalendarInv, Restart PROVE CalendarInv'
<1> USE DEF CalendarInv
<1>1. calendarLog \in CalendarLog /\ 0 \in GrantOrNone /\ grantRow \in GrantRow
  BY CalendarBounds DEF CalendarTypeOK, GrantOrNone
<1>2. /\ UNCHANGED <<grantRow, project, link, clarifying, google>>
      /\ claimed' = (claimed \/ grantRow.status = "connected")
      /\ tokenCache' = 0 /\ tokenLock' = NoOne
      /\ \A a \in Asker : ask'[a] = NoQuestion
      /\ \A c \in Callback : callback'[c] = NoCallback
      /\ ask' \in [Asker -> AskRow] /\ callback' \in [Callback -> CallbackRow]
      /\ parting' = NoParting
      /\ calendarLog' = [calendarLog EXCEPT !.told =
            IF \E a \in Asker : ask[a].pc \in {"incident", "tell"} THEN "lost" ELSE @]
  BY AskRows, CallbackRows DEF Restart
<1>3. /\ calendarLog' \in CalendarLog /\ calendarLog'.dms = calendarLog.dms
      /\ calendarLog'.life = calendarLog.life
      /\ calendarLog'.told = IF \E a \in Asker : ask[a].pc \in {"incident", "tell"}
                               THEN "lost" ELSE calendarLog.told
  BY <1>1, <1>2 DEF CalendarLog
<1>4. parting' \in PartingRow /\ parting'.pc = "idle"
  BY <1>1, <1>2 DEF NoParting, PartingRow
<1>5. claimed' \in BOOLEAN BY <1>2
<1>6. CalendarTypeOK' BY <1>1, <1>2, <1>3, <1>4, <1>5 DEF CalendarTypeOK
<1>7. ReconnectIsTold' BY <1>2, <1>3 DEF ReconnectIsTold
<1>8. ClaimedBeforeTold'
  <2>1. \A c \in Callback : callback'[c].pc # "dm" BY <1>2, CallbackRows
  <2>2. claimed => claimed' BY <1>2
  <2> QED BY <1>3, <2>1, <2>2 DEF ClaimedBeforeTold
<1> QED BY <1>6, <1>7, <1>8

LEMMA DisconnectKeeps == ASSUME CalendarInv, calendar_disconnect PROVE CalendarInv'
<1> USE DEF CalendarInv
<1>0. /\ UNCHANGED <<tokenCache, tokenLock, clarifying, ask, callback>>
      /\ calendarLog \in CalendarLog /\ grantRow \in GrantRow /\ parting \in PartingRow
      /\ google \in [honoured : SUBSET Grant, issued : GrantOrNone]
      /\ 0 \in GrantOrNone
  BY CalendarBounds DEF calendar_disconnect, provider, CalendarTypeOK, GrantOrNone
<1>1. CASE /\ parting.pc = "idle" /\ calendarLog.life < MaxLife
           /\ parting' = [pc |-> "revoke", grant |-> grantRow.grant]
           /\ UNCHANGED <<stores, google, calendarLog>>
  <2>1. parting' \in PartingRow BY <1>0, <1>1 DEF PartingRow, GrantRow
  <2>2. CalendarTypeOK' BY <1>0, <1>1, <2>1 DEF CalendarTypeOK, stores
  <2> QED BY <1>0, <1>1, <2>2 DEF stores, ReconnectIsTold, ClaimedBeforeTold
<1>2. CASE /\ parting.pc = "revoke"
           /\ parting' = [parting EXCEPT !.pc = "delete"]
           /\ \/ google' = [google EXCEPT !.honoured = @ \ {parting.grant}]
              \/ UNCHANGED google
           /\ UNCHANGED <<stores, calendarLog>>
  <2>1. parting' \in PartingRow BY <1>0, <1>2 DEF PartingRow
  <2>2. google' \in [honoured : SUBSET Grant, issued : GrantOrNone] BY <1>0, <1>2
  <2>3. calendarLog.life < MaxLife BY <1>2 DEF CalendarTypeOK
  <2>4. CalendarTypeOK' BY <1>0, <1>2, <2>1, <2>2, <2>3 DEF CalendarTypeOK, stores
  <2> QED BY <1>0, <1>2, <2>4 DEF stores, ReconnectIsTold, ClaimedBeforeTold
<1>3. CASE /\ parting.pc = "delete"
           /\ parting' = NoParting
           /\ grantRow' = NoRow /\ claimed' = FALSE
           /\ calendarLog' = [calendarLog EXCEPT !.life = @ + 1]
           /\ UNCHANGED <<project, link, google>>
  <2>1. calendarLog.life < MaxLife /\ calendarLog.life \in Life
    BY <1>0, <1>3 DEF CalendarTypeOK, CalendarLog
  <2>2. calendarLog.life + 1 \in Life BY <2>1, CalendarBounds DEF Life
  <2>3. /\ calendarLog' \in CalendarLog /\ calendarLog'.life = calendarLog.life + 1
        /\ calendarLog'.dms = calendarLog.dms
    BY <1>0, <1>3, <2>2 DEF CalendarLog
  <2>4. /\ parting' \in PartingRow /\ parting'.pc = "idle"
        /\ grantRow' \in GrantRow /\ grantRow'.status = "none"
    BY <1>0, <1>3 DEF NoParting, PartingRow, NoRow, GrantRow
  <2>5. CalendarTypeOK' BY <1>0, <1>3, <2>3, <2>4 DEF CalendarTypeOK
  <2>6. ReconnectIsTold' BY <2>4 DEF ReconnectIsTold
  <2>7. ClaimedBeforeTold'
    <3>1. \A n \in Life : n \in Nat BY CalendarBounds DEF Life
    <3>2. \A c \in Callback : callback[c].life \in Life
      BY DEF CalendarTypeOK, CallbackRow
    <3> QED BY <1>0, <2>1, <2>3, <3>1, <3>2 DEF ClaimedBeforeTold
  <2> QED BY <2>5, <2>6, <2>7
<1> QED BY <1>1, <1>2, <1>3 DEF calendar_disconnect

LEMMA CalendarStepKeeps == CalendarInv /\ [CalendarNext]_calendarVars => CalendarInv'
<1> SUFFICES ASSUME CalendarInv, [CalendarNext]_calendarVars PROVE CalendarInv'
  OBVIOUS
<1> USE DEF CalendarInv, stores, provider, requests
<1>1. ASSUME NEW l \in Link, calendar_connect_initiate(l) \/ LinkExpires(l) PROVE CalendarInv'
  <2>1. link' \in [Link -> {"none", "pending", "spent"}]
        /\ UNCHANGED <<grantRow, claimed, project, tokenCache, tokenLock, clarifying, google,
                       ask, callback, parting, calendarLog>>
    BY <1>1 DEF CalendarTypeOK, calendar_connect_initiate, LinkExpires
  <2>2. CalendarTypeOK' BY <2>1 DEF CalendarTypeOK
  <2> QED BY <2>1, <2>2 DEF ReconnectIsTold, ClaimedBeforeTold
<1>2. CASE calendar_project_disable \/ TokenExpires \/ \E g \in Grant : WithdrawnAtGoogle(g)
  <2>1. /\ project' \in [enabled : BOOLEAN, operator : BOOLEAN]
        /\ tokenCache' \in GrantOrNone
        /\ google' \in [honoured : SUBSET Grant, issued : GrantOrNone]
        /\ UNCHANGED <<grantRow, claimed, link, tokenLock, clarifying,
                       ask, callback, parting, calendarLog>>
    <3>1. /\ project \in [enabled : BOOLEAN, operator : BOOLEAN] /\ tokenCache \in GrantOrNone
          /\ google \in [honoured : SUBSET Grant, issued : GrantOrNone] /\ 0 \in GrantOrNone
      BY CalendarBounds DEF CalendarTypeOK, GrantOrNone
    <3>2. CASE calendar_project_disable BY <3>1, <3>2 DEF calendar_project_disable
    <3>3. CASE TokenExpires BY <3>1, <3>3 DEF TokenExpires
    <3>4. ASSUME NEW g \in Grant, WithdrawnAtGoogle(g)
          PROVE  /\ project' \in [enabled : BOOLEAN, operator : BOOLEAN]
                 /\ tokenCache' \in GrantOrNone
                 /\ google' \in [honoured : SUBSET Grant, issued : GrantOrNone]
                 /\ UNCHANGED <<grantRow, claimed, link, tokenLock, clarifying,
                                ask, callback, parting, calendarLog>>
      BY <3>1, <3>4 DEF WithdrawnAtGoogle
    <3> QED BY <1>2, <3>2, <3>3, <3>4
  <2>2. CalendarTypeOK' BY <2>1 DEF CalendarTypeOK
  <2> QED BY <2>1, <2>2 DEF ReconnectIsTold, ClaimedBeforeTold
<1>3. CASE UNCHANGED calendarVars
  BY <1>3 DEF calendarVars, CalendarTypeOK, ReconnectIsTold, ClaimedBeforeTold
<1>4. ASSUME NEW c \in Callback,
             \/ \E l \in Link : Consume(c, l)
             \/ exchange_code(c) \/ ReadBefore(c) \/ upsert(c) \/ enable(c)
             \/ claim_connection_notification(c) \/ SendConnectedDM(c)
      PROVE CalendarInv'
  BY <1>4, CallbackKeeps DEF CallbackStep
<1>5. ASSUME NEW a \in Asker,
             \/ \E reading \in {"clear", "unclear"} : try_answer(a, reading)
             \/ clarify_or_escalate(a) \/ check_requested_availability(a)
             \/ get_access_token(a) \/ ReadGrant(a) \/ refresh(a)
             \/ MarkDead(a) \/ TellOperator(a) \/ query_busy(a)
      PROVE CalendarInv'
  BY <1>5, AskerKeeps DEF AskerStep
<1> QED BY <1>1, <1>2, <1>3, <1>4, <1>5, RestartCalendarKeeps, DisconnectKeeps
        DEF CalendarNext, CalendarStep

\* Every mark of a dead token has somebody on the way to tell of it, and a notice
\* of a connection, sent or about to be sent, has its claim to itself, for any
\* consents, askers, disconnections and restarts.
THEOREM CalendarInvariant == CalendarSpec => []CalendarInv
BY CalendarStepKeeps, InitCalendar, PTL DEF CalendarSpec

\* A calendar marked reconnect_needed has its operator told, or about to be, unless
\* the report failed: _handle_dead_token of access_token_cache, whatever reconnects
\* between its steps.
THEOREM DeathIsTold == CalendarSpec => []ReconnectIsTold
<1>1. CalendarInv => ReconnectIsTold BY DEF CalendarInv
<1> QED BY <1>1, CalendarInvariant, PTL

\* Overlapping, repeated and late callbacks of the consent page announce a calendar
\* once: claim_connection_notification, until the operator disconnects it.
THEOREM ToldOnce == CalendarSpec => []ConnectionToldOnce
<1>1. CalendarInv => ConnectionToldOnce
  BY DEF CalendarInv, ClaimedBeforeTold, ConnectionToldOnce, Life
<1> QED BY <1>1, CalendarInvariant, PTL

-----------------------------------------------------------------------------

(* Incidents and alerts. *)

IncidentRow == [status : {"none", "open", "resolved"}, seen : Nat, sent : Nat \cup {Never}]
ReportRow == [pc : {"idle", "ingest", "sending"}, alerts : BOOLEAN,
              incident : Incident \cup {0}, overlapped : BOOLEAN]

AlertTypeOK ==
  /\ moment \in Nat
  /\ incident \in [Incident -> IncidentRow]
  /\ report \in [Reporter -> ReportRow]
  /\ alertLog \in [dms : SUBSET [incident : Incident, at : Nat, excused : BOOLEAN],
                   debounced : SUBSET [incident : Incident, at : Nat]]

\* A report works on an incident that there is.
ReportsName ==
  \A r \in Reporter :
    /\ report[r].incident # 0 => incident[report[r].incident].status # "none"
    /\ report[r].pc = "sending" => report[r].incident # 0

OneOpen == \A i, j \in OpenIncident : i = j

\* The recorded alert of an incident is the last of its alerts.
SentIsLast ==
  \A i \in Incident :
    /\ incident[i].status = "none" => incident[i].sent = Never
    /\ incident[i].sent # Never => \E a \in alertLog.dms : a.incident = i /\ a.at = incident[i].sent
    /\ \A a \in alertLog.dms : a.incident = i => a.at <= incident[i].sent
    /\ incident[i].sent <= moment

\* An alert under way that no other met is the only one, and due.
SendersAreDue ==
  \A r \in Reporter :
    report[r].pc = "sending" /\ ~report[r].overlapped =>
      /\ \A q \in Reporter \ {r} :
           ~(report[q].pc = "sending" /\ report[q].incident = report[r].incident)
      /\ \A a \in alertLog.dms :
           a.incident = report[r].incident => moment - a.at >= Debounce

AlertsApart ==
  \A a, b \in alertLog.dms :
    a.incident = b.incident /\ a.at < b.at /\ ~b.excused => b.at - a.at >= Debounce

DebouncedHadOne ==
  \A d \in alertLog.debounced : \E a \in alertLog.dms :
    a.incident = d.incident /\ a.at <= d.at /\ d.at - a.at < Debounce

AlertInv == /\ AlertTypeOK /\ ReportsName /\ OneOpen /\ SentIsLast
            /\ SendersAreDue /\ AlertsApart /\ DebouncedHadOne

LEMMA InitAlerts == AlertInit => AlertInv
BY AlertBounds DEF AlertInit, AlertInv, AlertTypeOK, IncidentRow, ReportRow, NoReport, Never,
   ReportsName, OneOpen, OpenIncident, SentIsLast, SendersAreDue, AlertsApart,
   DebouncedHadOne, Incident

\* Incidents may be written and reports move on, as long as no alert is decided
\* on or sent and no recorded alert is touched.
LEMMA QuietStep ==
  ASSUME AlertInv, alertLog' = alertLog, moment' \in {moment, moment + 1},
         incident' \in [Incident -> IncidentRow], report' \in [Reporter -> ReportRow],
         \A j \in Incident : incident'[j].sent = incident[j].sent,
         \A j \in Incident : incident'[j].status = "none" => incident[j].status = "none",
         \A r \in Reporter : \/ report'[r] = report[r]
                             \/ /\ report'[r].pc # "sending"
                                /\ report'[r].incident # 0 =>
                                     incident'[report'[r].incident].status # "none"
  PROVE  /\ AlertTypeOK' /\ ReportsName' /\ SentIsLast'
         /\ SendersAreDue' /\ AlertsApart' /\ DebouncedHadOne'
<1> USE AlertBounds DEF AlertInv, Incident
<1>1. AlertTypeOK' BY DEF AlertTypeOK
<1>2. ReportsName'
  <2> SUFFICES ASSUME NEW r \in Reporter
               PROVE  /\ report'[r].incident # 0 => incident'[report'[r].incident].status # "none"
                      /\ report'[r].pc = "sending" => report'[r].incident # 0
    BY DEF ReportsName
  <2>1. CASE report'[r] = report[r]
    <3>1. report[r].incident \in Incident \cup {0} BY DEF AlertTypeOK, ReportRow
    <3> QED BY <2>1, <3>1 DEF ReportsName
  <2>2. CASE report'[r] # report[r] BY <2>2
  <2> QED BY <2>1, <2>2
<1>3. SentIsLast' BY DEF SentIsLast, AlertTypeOK, IncidentRow, Never
<1>4. SendersAreDue'
  <2>1. \A r \in Reporter : report'[r].pc = "sending" => report'[r] = report[r]
    OBVIOUS
  <2>2. \A a \in alertLog.dms : a.at \in Nat /\ moment \in Nat /\ moment' >= moment
    BY DEF AlertTypeOK
  <2> QED BY <2>1, <2>2 DEF SendersAreDue
<1>5. AlertsApart' /\ DebouncedHadOne' BY DEF AlertsApart, DebouncedHadOne
<1> QED BY <1>1, <1>2, <1>3, <1>4, <1>5

LEMMA EndReportKeeps ==
  ASSUME AlertInv, NEW r \in Reporter, EndReport(r)
  PROVE  /\ report' \in [Reporter -> ReportRow]
         /\ \A q \in Reporter : report'[q] = IF q = r THEN NoReport ELSE report[q]
<1>1. NoReport \in ReportRow BY DEF NoReport, ReportRow
<1> QED BY <1>1 DEF EndReport, AlertInv, AlertTypeOK

\* The debounce of an alerting report keeps the alerts apart, for any change of
\* the incidents that leaves the recorded alerts alone.
LEMMA AlertOnKeeps ==
  ASSUME AlertInv, NEW r \in Reporter, NEW i \in Incident, AlertOn(r, i),
         moment' = moment, incident' \in [Incident -> IncidentRow],
         \A j \in Incident : incident'[j].sent = incident[j].sent,
         \A j \in Incident : incident'[j].status = "none" => incident[j].status = "none",
         incident'[i].status # "none"
  PROVE  /\ AlertTypeOK' /\ ReportsName' /\ SentIsLast'
         /\ SendersAreDue' /\ AlertsApart' /\ DebouncedHadOne'
<1> USE AlertBounds DEF AlertInv
<1>0. moment \in Nat /\ \A a \in alertLog.dms : a.at \in Nat /\ a.incident \in Incident
  BY DEF AlertTypeOK
<1>1. CASE ~report[r].alerts
  <2>1. EndReport(r) /\ alertLog' = alertLog BY <1>1 DEF AlertOn
  <2> QED BY <2>1, EndReportKeeps, QuietStep DEF NoReport
<1>2. CASE report[r].alerts /\ incident[i].sent # Never /\ moment - incident[i].sent < Debounce
  <2> DEFINE d == [incident |-> i, at |-> moment]
  <2>1. EndReport(r) /\ alertLog' = [alertLog EXCEPT !.debounced = @ \cup {d}]
    BY <1>2 DEF AlertOn
  <2>2. /\ alertLog'.dms = alertLog.dms
        /\ alertLog'.debounced = alertLog.debounced \cup {d}
        /\ alertLog' \in [dms : SUBSET [incident : Incident, at : Nat, excused : BOOLEAN],
                          debounced : SUBSET [incident : Incident, at : Nat]]
    BY <2>1, <1>0 DEF AlertTypeOK
  <2>3. /\ report' \in [Reporter -> ReportRow]
        /\ \A q \in Reporter : report'[q] = IF q = r THEN NoReport ELSE report[q]
    BY <2>1, EndReportKeeps
  <2>4. AlertTypeOK' BY <2>2, <2>3 DEF AlertTypeOK
  <2>5. ReportsName'
    BY <2>3 DEF NoReport, ReportsName, AlertTypeOK, ReportRow
  <2>6. SentIsLast' BY <2>2 DEF SentIsLast
  <2>7. SendersAreDue' BY <2>2, <2>3 DEF NoReport, SendersAreDue
  <2>8. AlertsApart' BY <2>2 DEF AlertsApart
  <2>9. DebouncedHadOne'
    <3>1. PICK a \in alertLog.dms : a.incident = i /\ a.at = incident[i].sent
      BY <1>2 DEF SentIsLast
    <3>2. a.at <= moment BY <3>1 DEF SentIsLast
    <3> QED BY <1>2, <2>2, <3>1, <3>2 DEF DebouncedHadOne
  <2> QED BY <2>4, <2>5, <2>6, <2>7, <2>8, <2>9
<1>3. CASE report[r].alerts /\ ~(incident[i].sent # Never /\ moment - incident[i].sent < Debounce)
  <2> DEFINE overlap == \E q \in Reporter \ {r} :
                          report[q].pc = "sending" /\ report[q].incident = i
             mine == [NoReport EXCEPT !.pc = "sending", !.incident = i,
                                      !.overlapped = overlap]
             met(q) == report[q].pc = "sending" /\ report[q].incident = i
  <2>1. /\ alertLog' = alertLog
        /\ report' = [q \in Reporter |->
             IF q = r THEN mine
             ELSE IF met(q) THEN [report[q] EXCEPT !.overlapped = TRUE] ELSE report[q]]
    BY <1>3 DEF AlertOn
  <2>2. mine \in ReportRow /\ mine.pc = "sending" /\ mine.incident = i /\ mine.overlapped = overlap
    BY DEF NoReport, ReportRow
  <2>3. ASSUME NEW q \in Reporter
        PROVE  LET o == [report[q] EXCEPT !.overlapped = TRUE] IN
               o \in ReportRow /\ o.pc = report[q].pc /\ o.incident = report[q].incident /\ o.overlapped
    <3>1. report[q] \in ReportRow BY DEF AlertTypeOK
    <3> QED BY <3>1 DEF ReportRow
  <2> HIDE DEF mine, overlap
  <2>4. report' \in [Reporter -> ReportRow]
    BY <2>1, <2>2, <2>3 DEF AlertTypeOK
  <2>5. report'[r].pc = "sending" /\ report'[r].incident = i /\ (report'[r].overlapped = overlap)
    BY <2>1, <2>2
  <2>6. \A q \in Reporter \ {r} :
          /\ report'[q].pc = report[q].pc /\ report'[q].incident = report[q].incident
          /\ ~report'[q].overlapped => ~report[q].overlapped /\ ~met(q)
    BY <2>1, <2>3
  <2>7. AlertTypeOK' BY <2>1, <2>4 DEF AlertTypeOK
  <2>8. ReportsName' BY <2>5, <2>6, <2>4, <1>0 DEF ReportsName, AlertTypeOK, ReportRow, Incident
  <2>9. SentIsLast' BY <2>1 DEF SentIsLast
  <2>10. SendersAreDue'
    <3>1. \A a \in alertLog.dms : a.incident = i => moment - a.at >= Debounce
      <4>1. \A a \in alertLog.dms : a.incident = i => a.at <= incident[i].sent
        BY DEF SentIsLast
      <4>2. incident[i].sent \in Nat \cup {-1} BY DEF AlertTypeOK, IncidentRow, Never
      <4> QED BY <1>0, <1>3, <4>1, <4>2 DEF Never
    <3> SUFFICES ASSUME NEW s \in Reporter, report'[s].pc = "sending", ~report'[s].overlapped
                 PROVE  /\ \A q \in Reporter \ {s} :
                             ~(report'[q].pc = "sending" /\ report'[q].incident = report'[s].incident)
                        /\ \A a \in alertLog.dms :
                             a.incident = report'[s].incident => moment - a.at >= Debounce
      BY <2>1 DEF SendersAreDue
    <3>3. CASE s = r BY <2>5, <2>6, <3>1, <3>3 DEF overlap
    <3>4. CASE s # r BY <2>5, <2>6, <3>4 DEF SendersAreDue
    <3> QED BY <3>3, <3>4
  <2>11. AlertsApart' /\ DebouncedHadOne' BY <2>1 DEF AlertsApart, DebouncedHadOne
  <2> QED BY <2>7, <2>8, <2>9, <2>10, <2>11
<1> QED BY <1>1, <1>2, <1>3

LEMMA StartReportKeeps ==
  ASSUME AlertInv, NEW r \in Reporter, NEW alerts \in BOOLEAN, StartReport(r, alerts)
  PROVE  AlertInv'
<1> USE AlertBounds DEF AlertInv
<1> DEFINE mine(i) == [NoReport EXCEPT !.pc = "ingest", !.alerts = alerts, !.incident = i]
<1>1. PICK i \in IF OpenIncident = {} THEN {0} ELSE OpenIncident :
        report' = [report EXCEPT ![r] = mine(i)]
  BY DEF StartReport
<1>2. i # 0 => i \in Incident /\ incident[i].status = "open"
  BY DEF OpenIncident, Incident
<1>3. mine(i) \in ReportRow /\ mine(i).pc = "ingest" /\ mine(i).incident = i
  BY <1>2 DEF NoReport, ReportRow
<1> HIDE DEF mine
<1>4. report' \in [Reporter -> ReportRow]
      /\ \A q \in Reporter : report'[q] = IF q = r THEN mine(i) ELSE report[q]
  BY <1>1, <1>3 DEF AlertTypeOK
<1>5. UNCHANGED <<moment, incident, alertLog>> BY DEF StartReport
<1>6. incident' \in [Incident -> IncidentRow] BY <1>5 DEF AlertTypeOK
<1>7. OneOpen' BY <1>5 DEF OneOpen, OpenIncident
<1> QED BY <1>2, <1>3, <1>4, <1>5, <1>6, <1>7, QuietStep

LEMMA CollapseKeeps ==
  ASSUME AlertInv, NEW r \in Reporter, Collapse(r) PROVE AlertInv'
<1> USE DEF AlertInv
<1> DEFINE i == report[r].incident
<1>1. /\ i \in Incident /\ moment' = moment /\ AlertOn(r, i)
      /\ incident' = [incident EXCEPT ![i].seen = moment]
  BY DEF Collapse, AlertTypeOK, ReportRow
<1> HIDE DEF i
<1>2. /\ incident' \in [Incident -> IncidentRow]
      /\ \A j \in Incident : /\ incident'[j].sent = incident[j].sent
                             /\ incident'[j].status = incident[j].status
  BY <1>1 DEF AlertTypeOK, IncidentRow
<1>3. incident'[i].status # "none" BY <1>1, <1>2 DEF ReportsName, i, Incident
<1>4. OneOpen' BY <1>2 DEF OneOpen, OpenIncident
<1> QED BY <1>1, <1>2, <1>3, <1>4, AlertOnKeeps

LEMMA OpenNewKeeps ==
  ASSUME AlertInv, NEW r \in Reporter, OpenNew(r) PROVE AlertInv'
<1> USE DEF AlertInv
<1> DEFINE old == report[r].incident
           new(i) == [j \in Incident |->
             IF j = i THEN [status |-> "open", seen |-> moment, sent |-> Never]
             ELSE IF j = old THEN [incident[j] EXCEPT !.status = "resolved"]
             ELSE incident[j]]
<1>1. PICK i \in FreshIncident :
        \/ OpenIncident \subseteq {old} /\ incident' = new(i) /\ AlertOn(r, i)
        \/ EndReport(r) /\ UNCHANGED <<incident, alertLog>>
  BY DEF OpenNew
<1>2. moment' = moment /\ moment \in Nat BY DEF OpenNew, AlertTypeOK
<1>3. i \in Incident /\ incident[i].status = "none" /\ incident[i].sent = Never
  BY DEF FreshIncident, SentIsLast
<1>4. CASE EndReport(r) /\ UNCHANGED <<incident, alertLog>>
  <2>1. OneOpen' BY <1>4 DEF OneOpen, OpenIncident
  <2>2. incident' \in [Incident -> IncidentRow] BY <1>4 DEF AlertTypeOK
  <2> QED BY <1>2, <1>4, <2>1, <2>2, EndReportKeeps, QuietStep DEF NoReport
<1>5. CASE OpenIncident \subseteq {old} /\ incident' = new(i) /\ AlertOn(r, i)
  <2>1. \A j \in Incident : /\ incident[j] \in IncidentRow
                            /\ [incident[j] EXCEPT !.status = "resolved"] \in IncidentRow
    BY DEF AlertTypeOK, IncidentRow
  <2>2. [status |-> "open", seen |-> moment, sent |-> Never] \in IncidentRow
    BY <1>2 DEF IncidentRow
  <2>3. incident' \in [Incident -> IncidentRow] BY <1>5, <2>1, <2>2
  <2>4. \A j \in Incident : /\ incident'[j].sent = incident[j].sent
                            /\ incident'[j].status = IF j = i THEN "open"
                                 ELSE IF j = old THEN "resolved" ELSE incident[j].status
    BY <1>3, <1>5 DEF AlertTypeOK, IncidentRow
  <2>5. OneOpen' BY <1>5, <2>4 DEF OneOpen, OpenIncident
  <2> QED BY <1>2, <1>3, <1>5, <2>3, <2>4, <2>5, AlertOnKeeps
<1> QED BY <1>1, <1>4, <1>5

LEMMA DeliverKeeps ==
  ASSUME AlertInv, NEW r \in Reporter, Deliver(r) PROVE AlertInv'
<1> USE AlertBounds DEF AlertInv
<1> DEFINE i == report[r].incident
           dm == [incident |-> i, at |-> moment, excused |-> report[r].overlapped]
<1>1. /\ report[r].pc = "sending" /\ moment' = moment /\ moment \in Nat
      /\ alertLog' = [alertLog EXCEPT !.dms = @ \cup {dm}]
      /\ incident' = [incident EXCEPT ![i].sent = moment]
      /\ EndReport(r)
  BY DEF Deliver, DmReaches, AlertTypeOK
<1>2. i \in Incident /\ incident[i].status # "none" /\ report[r].overlapped \in BOOLEAN
  BY <1>1 DEF ReportsName, AlertTypeOK, ReportRow
<1>3. /\ report' \in [Reporter -> ReportRow]
      /\ \A q \in Reporter : report'[q] = IF q = r THEN NoReport ELSE report[q]
  BY <1>1, EndReportKeeps
<1> HIDE DEF i
<1>4. /\ incident' \in [Incident -> IncidentRow]
      /\ \A j \in Incident : /\ incident'[j].sent = IF j = i THEN moment ELSE incident[j].sent
                             /\ incident'[j].status = incident[j].status
  BY <1>1, <1>2 DEF AlertTypeOK, IncidentRow
<1>5. /\ alertLog'.dms = alertLog.dms \cup {dm} /\ alertLog'.debounced = alertLog.debounced
      /\ alertLog' \in [dms : SUBSET [incident : Incident, at : Nat, excused : BOOLEAN],
                        debounced : SUBSET [incident : Incident, at : Nat]]
  BY <1>1, <1>2 DEF AlertTypeOK
<1>6. \A a \in alertLog.dms : a.at \in Nat /\ a.at <= moment /\ a.incident \in Incident
  <2> SUFFICES ASSUME NEW a \in alertLog.dms
               PROVE  a.at \in Nat /\ a.at <= moment /\ a.incident \in Incident
    OBVIOUS
  <2>1. a.at \in Nat /\ a.incident \in Incident BY DEF AlertTypeOK
  <2>2. a.at <= incident[a.incident].sent /\ incident[a.incident].sent <= moment
    BY <2>1 DEF SentIsLast
  <2>3. incident[a.incident].sent \in Nat \cup {-1} BY <2>1 DEF AlertTypeOK, IncidentRow, Never
  <2> QED BY <1>1, <2>1, <2>2, <2>3
<1>7. AlertTypeOK' BY <1>1, <1>3, <1>4, <1>5 DEF AlertTypeOK
<1>8. ReportsName'
  BY <1>3, <1>4 DEF NoReport, ReportsName, AlertTypeOK, ReportRow
<1>9. OneOpen' BY <1>4 DEF OneOpen, OpenIncident
<1>10. SentIsLast'
  <2> SUFFICES ASSUME NEW j \in Incident
               PROVE  /\ incident'[j].status = "none" => incident'[j].sent = Never
                      /\ incident'[j].sent # Never =>
                           \E a \in alertLog'.dms : a.incident = j /\ a.at = incident'[j].sent
                      /\ \A a \in alertLog'.dms : a.incident = j => a.at <= incident'[j].sent
                      /\ incident'[j].sent <= moment'
    BY DEF SentIsLast
  <2>1. dm \in alertLog'.dms /\ dm.incident = i /\ dm.at = moment BY <1>5
  <2>2. CASE j = i
    <3>1. incident'[j].sent = moment /\ incident'[j].status # "none" BY <1>2, <1>4, <2>2
    <3>2. \A a \in alertLog'.dms : a.at <= moment BY <1>1, <1>5, <1>6
    <3> QED BY <1>1, <2>1, <2>2, <3>1, <3>2
  <2>3. CASE j # i
    <3>1. incident'[j].sent = incident[j].sent /\ incident'[j].status = incident[j].status
      BY <1>4, <2>3
    <3>2. \A a \in alertLog'.dms : a.incident = j => a \in alertLog.dms BY <1>5, <2>3
    <3>3. \A a \in alertLog.dms : a \in alertLog'.dms BY <1>5
    <3> QED BY <1>1, <3>1, <3>2, <3>3 DEF SentIsLast
  <2> QED BY <2>2, <2>3
<1>11. SendersAreDue'
  <2>1. ASSUME NEW s \in Reporter, s # r, report[s].pc = "sending", ~report[s].overlapped
        PROVE  report[s].incident # i
    BY <1>1, <2>1 DEF SendersAreDue, i
  <2> QED BY <1>1, <1>3, <1>5, <2>1 DEF NoReport, SendersAreDue
<1>12. AlertsApart'
  <2>1. \A a \in alertLog.dms : ~report[r].overlapped /\ a.incident = i => moment - a.at >= Debounce
    BY <1>1 DEF SendersAreDue, i
  <2> QED BY <1>1, <1>5, <1>6, <2>1 DEF AlertsApart
<1>13. DebouncedHadOne' BY <1>5 DEF DebouncedHadOne
<1> QED BY <1>7, <1>8, <1>9, <1>10, <1>11, <1>12, <1>13

\* What a report may do next is in step with what has been sent: at most one
\* incident is open, the alert recorded with an incident is its last, and an
\* alert under way is due or has met another.
THEOREM AlertsInvariant == AlertSpec => []AlertInv
<1>1. AlertInv /\ [AlertNext]_alertVars => AlertInv'
  <2> SUFFICES ASSUME AlertInv, [AlertNext]_alertVars PROVE AlertInv'
    OBVIOUS
  <2> USE DEF AlertInv
  <2>1. CASE TimePasses
    <3>1. UNCHANGED <<incident, report, alertLog>> /\ moment' = moment + 1
      BY <2>1 DEF TimePasses
    <3>2. OneOpen' BY <3>1 DEF OneOpen, OpenIncident
    <3> QED BY <3>1, <3>2, QuietStep DEF AlertTypeOK
  <2>2. ASSUME NEW r \in Reporter, DeliveryFails(r) PROVE AlertInv'
    <3>1. EndReport(r) /\ UNCHANGED <<moment, incident, alertLog>>
      BY <2>2 DEF DeliveryFails
    <3>2. OneOpen' BY <3>1 DEF OneOpen, OpenIncident
    <3> QED BY <3>1, <3>2, EndReportKeeps, QuietStep DEF AlertTypeOK, NoReport
  <2>3. ASSUME NEW i \in Incident, resolve(i) PROVE AlertInv'
    <3>1. incident' = [incident EXCEPT ![i].status = "resolved"]
          /\ UNCHANGED <<moment, report, alertLog>>
      BY <2>3 DEF resolve
    <3>2. /\ incident' \in [Incident -> IncidentRow]
          /\ \A j \in Incident : /\ incident'[j].sent = incident[j].sent
                                 /\ incident'[j].status \in {incident[j].status, "resolved"}
      BY <3>1 DEF AlertTypeOK, IncidentRow
    <3>3. OneOpen' BY <3>2 DEF OneOpen, OpenIncident
    <3> QED BY <3>1, <3>2, <3>3, QuietStep DEF AlertTypeOK
  <2>4. CASE UNCHANGED alertVars
    <3>1. OneOpen' BY <2>4 DEF alertVars, OneOpen, OpenIncident
    <3> QED BY <2>4, <3>1, QuietStep DEF alertVars, AlertTypeOK
  <2> QED
    BY <2>1, <2>2, <2>3, <2>4, StartReportKeeps, CollapseKeeps, OpenNewKeeps, DeliverKeeps
       DEF AlertNext
<1> QED BY <1>1, InitAlerts, PTL DEF AlertSpec

\* The operators are not alerted twice of an incident within the debounce, who
\* is answered "debounced" had an alert go out, and at most one incident of the
\* fingerprint is open, for any reports, windows and times.
THEOREM DebounceHolds == AlertSpec => []AlertsAreDebounced
<1>1. AlertInv => AlertsAreDebounced
  <2> SUFFICES ASSUME AlertInv PROVE AlertsAreDebounced
    OBVIOUS
  <2>1. Cardinality(OpenIncident) <= 1
    <3>1. CASE OpenIncident = {} BY <3>1, FS_EmptySet
    <3>2. CASE OpenIncident # {}
      <4>1. PICK i : OpenIncident = {i} BY <3>2 DEF AlertInv, OneOpen
      <4>2. Cardinality({i}) = 1 BY FS_Singleton
      <4> QED BY <4>1, <4>2
    <3> QED BY <3>1, <3>2
  <2> QED BY <2>1 DEF AlertInv, AlertsApart, DebouncedHadOne, AlertsAreDebounced
<1> QED BY <1>1, AlertsInvariant, PTL

-----------------------------------------------------------------------------

(* The count of model calls. *)

MeterItem == [tracker : Tracker, day : UsageDay]
DayCounts == [Tracker -> [UsageDay -> Nat]]
ModelCounts == [Model -> Nat]
Run == [at : 0..3, on : Nat, day : Nat, upto : Int, read : ModelCounts]
UsageLog == [onTime : DayCounts, excused : SUBSET UsageDay, items : Nat]

UsageTypeOK ==
  /\ today \in UsageDay
  /\ meter \in [queue : Seq(MeterItem), item : MeterItem \cup {NoItem}, closed : BOOLEAN]
  /\ usageRow \in DayCounts
  /\ summary \in [Tracker -> [UsageDay -> Nat \cup {-1}]]
  /\ rollup \in Run
  /\ ranOn \in [rollup : Nat, retention : Nat]
  /\ usageLog \in UsageLog

\* The summary of a day, or the log, accounts for the rows of the day.
Good(t, d) == \/ d \in usageLog.excused
              \/ usageLog.onTime[t][d] = 0
              \/ summary[t][d] >= usageLog.onTime[t][d]

Enough(t, d, n) == d \in usageLog.excused \/ n >= usageLog.onTime[t][d]

RunDate == IF rollup.at > 0 THEN rollup.on ELSE today

\* Retention has not touched a day within the lookback of the run.
RowsKept ==
  \A t \in Tracker, d \in UsageDay :
    d > RunDate - Lookback => usageRow[t][d] >= usageLog.onTime[t][d]

IsLast(last) ==
  /\ last = 0 \/ \E t \in Tracker : summary[t][last] >= 0
  /\ \A t \in Tracker, d \in UsageDay : summary[t][d] >= 0 => d <= last

\* Summaries are of days that are over, and one day has the last of them.
SummariesArePast ==
  /\ \A t \in Tracker, d \in UsageDay : summary[t][d] >= 0 => d < today
  /\ \E last \in 0..MaxDay : IsLast(last)

\* Between runs, days up to the last summary are accounted for.
AccountedUpToLast ==
  rollup.at = 0 =>
    \A t, u \in Tracker, d, e \in UsageDay : summary[u][e] >= 0 /\ d <= e => Good(t, d)

\* What the run has settled of its day.
Settled(t) == \/ rollup.at = 2 /\ t \in Model /\ rollup.read[t] = 0
              \/ rollup.at = 3 /\ t # "hitl"

\* In a run, the days before its day are, and of its day what it has settled; the
\* counts that it has read and not written yet are enough; there is no summary
\* beyond, and a day out of its reach is excused.
AccountedUpToRun ==
  rollup.at > 0 =>
    /\ rollup.on <= today /\ rollup.upto = rollup.on - 1
    /\ rollup.day >= 1 /\ rollup.day <= rollup.upto + 1
    /\ rollup.day <= rollup.upto \/ rollup.at = 1
    /\ \A t \in Tracker, d \in UsageDay : d < rollup.day => Good(t, d)
    /\ \A t \in Tracker, d \in UsageDay : d = rollup.day /\ Settled(t) => Good(t, d)
    /\ \A m \in Model, d \in UsageDay :
         rollup.at = 2 /\ d = rollup.day /\ rollup.read[m] > 0 => Enough(m, d, rollup.read[m])
    /\ \A t \in Tracker, d \in UsageDay :
         summary[t][d] >= 0 => d < rollup.day \/ (d = rollup.day /\ rollup.at > 1)
    /\ \A d \in UsageDay :
         rollup.day <= d /\ d <= rollup.on - Lookback => d \in usageLog.excused

AccountedUpToSaved ==
  /\ ranOn.rollup <= today
  /\ \A t \in Tracker, d \in UsageDay : d < ranOn.rollup => Good(t, d)

UsageInv == /\ UsageTypeOK /\ RowsKept /\ SummariesArePast
            /\ AccountedUpToLast /\ AccountedUpToRun /\ AccountedUpToSaved

LEMMA Put ==
  ASSUME NEW V, NEW F \in [Tracker -> [UsageDay -> V]],
         NEW s \in Tracker, NEW t \in UsageDay, NEW v \in V
  PROVE  /\ [F EXCEPT ![s][t] = v] \in [Tracker -> [UsageDay -> V]]
         /\ \A x \in Tracker, y \in UsageDay :
              [F EXCEPT ![s][t] = v][x][y] = IF x = s /\ y = t THEN v ELSE F[x][y]
<1> DEFINE f == [F[s] EXCEPT ![t] = v]
           G == [F EXCEPT ![s] = f]
<1>1. f \in [UsageDay -> V] /\ \A y \in UsageDay : f[y] = IF y = t THEN v ELSE F[s][y]
  OBVIOUS
<1>2. [F EXCEPT ![s][t] = v] = G OBVIOUS
<1> HIDE DEF f
<1>3. G \in [Tracker -> [UsageDay -> V]] /\ \A x \in Tracker : G[x] = IF x = s THEN f ELSE F[x]
  BY <1>1
<1> HIDE DEF G
<1> QED BY <1>1, <1>2, <1>3

LEMMA CutMoves == \A a, b, l, d \in Nat : a <= b /\ d > b - l => d > a - l
OBVIOUS

LEMMA DayIsNat == \A d \in UsageDay : d \in Nat /\ d >= 1 /\ d <= MaxDay
BY UsageBounds DEF UsageDay

LEMMA InitUsage == UsageInit => UsageInv
<1> SUFFICES ASSUME UsageInit PROVE UsageInv
  OBVIOUS
<1> USE UsageBounds
<1>1. /\ today = 1 /\ rollup = NoRollup /\ ranOn = [rollup |-> 0, retention |-> 0]
      /\ \A t \in Tracker, d \in UsageDay : usageRow[t][d] = 0 /\ summary[t][d] = -1
                                            /\ usageLog.onTime[t][d] = 0
      /\ usageLog.excused = {}
  BY DEF UsageInit
<1>2. meter \in [queue : Seq(MeterItem), item : MeterItem \cup {NoItem}, closed : BOOLEAN]
  BY EmptySeq DEF UsageInit
<1>3. usageRow \in DayCounts /\ summary \in [Tracker -> [UsageDay -> Nat \cup {-1}]]
      /\ usageLog \in UsageLog
  <2>1. usageRow \in DayCounts /\ summary \in [Tracker -> [UsageDay -> Nat \cup {-1}]]
    BY DEF UsageInit, DayCounts
  <2>2. usageLog = [onTime |-> usageRow, excused |-> {}, items |-> 0] BY DEF UsageInit
  <2> QED BY <2>1, <2>2 DEF UsageLog
<1>4. UsageTypeOK BY <1>1, <1>2, <1>3 DEF UsageTypeOK, UsageDay, NoRollup, Run, NothingRead, ModelCounts
<1>5. RowsKept BY <1>1 DEF RowsKept
<1>6. IsLast(0) BY <1>1 DEF IsLast
<1>7. SummariesArePast BY <1>1, <1>6 DEF SummariesArePast
<1>8. AccountedUpToLast /\ AccountedUpToSaved
  BY <1>1 DEF AccountedUpToLast, AccountedUpToSaved, Good
<1>9. AccountedUpToRun BY <1>1 DEF AccountedUpToRun, NoRollup
<1> QED BY <1>4, <1>5, <1>7, <1>8, <1>9 DEF UsageInv

\* A row counted in the log is in the table; a day that is over is not counted.
CountsGrow ==
  \A t \in Tracker, d \in UsageDay :
    /\ usageLog'.onTime[t][d] - usageLog.onTime[t][d] <= usageRow'[t][d] - usageRow[t][d]
    /\ d < today => usageLog'.onTime[t][d] = usageLog.onTime[t][d]

\* Steps of the recorder and of the clock: counts of today may grow, nothing
\* else that summaries are about changes.
LEMMA MeterStep ==
  ASSUME UsageInv, today' \in UsageDay, today <= today',
         meter' \in [queue : Seq(MeterItem), item : MeterItem \cup {NoItem}, closed : BOOLEAN],
         usageRow' \in DayCounts, usageLog' \in UsageLog,
         usageLog'.excused = usageLog.excused, UNCHANGED <<summary, rollup, ranOn>>,
         CountsGrow
  PROVE  UsageInv'
<1> USE DEF UsageInv
<1>0. Lookback \in Nat BY UsageBounds
<1>1. UsageTypeOK' BY DEF UsageTypeOK
<1>2. today \in Nat /\ today' \in Nat /\ rollup.on \in Nat /\ rollup.at \in 0..3 /\ rollup.day \in Nat
      /\ ranOn.rollup \in Nat /\ rollup.upto \in Int
  BY DayIsNat DEF UsageTypeOK, Run
<1>3. \A t \in Tracker, d \in UsageDay :
        /\ usageRow[t][d] \in Nat /\ usageRow'[t][d] \in Nat
        /\ usageLog.onTime[t][d] \in Nat /\ usageLog'.onTime[t][d] \in Nat
  BY DEF UsageTypeOK, UsageLog, DayCounts
<1>4. \A t \in Tracker, d \in UsageDay : d < today /\ Good(t, d) => Good(t, d)'
  BY DEF Good, CountsGrow
<1>5. RowsKept'
  <2> SUFFICES ASSUME NEW t \in Tracker, NEW d \in UsageDay, d > RunDate' - Lookback
               PROVE  usageRow'[t][d] >= usageLog'.onTime[t][d]
    BY DEF RowsKept
  <2>1. d > RunDate - Lookback
    <3>1. CASE rollup.at > 0 BY <1>0, <1>2, <3>1, DayIsNat DEF RunDate
    <3>2. CASE ~(rollup.at > 0)
      <4>1. RunDate = today BY <3>2 DEF RunDate
      <4>2. d > today' - Lookback BY <3>2 DEF RunDate
      <4>3. d \in Nat BY DayIsNat
      <4> QED BY <1>0, <1>2, <4>1, <4>2, <4>3, CutMoves
    <3> QED BY <3>1, <3>2
  <2>2. usageRow[t][d] >= usageLog.onTime[t][d] BY <2>1 DEF RowsKept
  <2>3. usageLog'.onTime[t][d] - usageLog.onTime[t][d] <= usageRow'[t][d] - usageRow[t][d]
    BY DEF CountsGrow
  <2> QED BY <1>3, <2>2, <2>3
<1>6. SummariesArePast' BY <1>2, DayIsNat DEF SummariesArePast, IsLast
<1>7. AccountedUpToLast'
  <2> SUFFICES ASSUME rollup.at = 0, NEW t \in Tracker, NEW u \in Tracker, NEW d \in UsageDay,
                      NEW e \in UsageDay, summary[u][e] >= 0, d <= e
               PROVE  Good(t, d)'
    BY DEF AccountedUpToLast
  <2>1. e < today BY DEF SummariesArePast
  <2>3. d < today BY <1>2, <2>1, DayIsNat
  <2>2. Good(t, d) BY DEF AccountedUpToLast
  <2> QED BY <1>4, <2>2, <2>3
<1>8. AccountedUpToRun'
  <2> SUFFICES ASSUME rollup.at > 0
               PROVE  /\ rollup.on <= today' /\ rollup.upto = rollup.on - 1
                      /\ rollup.day >= 1 /\ rollup.day <= rollup.upto + 1
                      /\ rollup.day <= rollup.upto \/ rollup.at = 1
                      /\ \A t \in Tracker, d \in UsageDay : d < rollup.day => Good(t, d)'
                      /\ \A t \in Tracker, d \in UsageDay :
                           d = rollup.day /\ Settled(t) => Good(t, d)'
                      /\ \A m \in Model, d \in UsageDay :
                           rollup.at = 2 /\ d = rollup.day /\ rollup.read[m] > 0
                             => Enough(m, d, rollup.read[m])'
                      /\ \A t \in Tracker, d \in UsageDay :
                           summary[t][d] >= 0 =>
                             d < rollup.day \/ (d = rollup.day /\ rollup.at > 1)
                      /\ \A d \in UsageDay :
                           rollup.day <= d /\ d <= rollup.on - Lookback
                             => d \in usageLog.excused
    BY DEF AccountedUpToRun, Settled
  <2>1. /\ rollup.on <= today /\ rollup.upto = rollup.on - 1
        /\ rollup.day >= 1 /\ rollup.day <= rollup.upto + 1
        /\ rollup.day <= rollup.upto \/ rollup.at = 1
    BY DEF AccountedUpToRun
  <2>2. ASSUME NEW t \in Tracker, NEW d \in UsageDay, d < rollup.day PROVE Good(t, d)'
    <3>1. Good(t, d) BY <2>2 DEF AccountedUpToRun
    <3>2. d \in Nat BY DayIsNat
    <3>3. d < today BY <1>2, <2>1, <2>2, <3>2
    <3> QED BY <1>4, <3>1, <3>3
  <2>3. ASSUME NEW t \in Tracker, NEW d \in UsageDay, d = rollup.day, Settled(t)
        PROVE  Good(t, d)'
    <3>1. Good(t, d) BY <2>3 DEF AccountedUpToRun
    <3>2. d < today BY <1>2, <2>1, <2>3 DEF Settled
    <3> QED BY <1>4, <3>1, <3>2
  <2>4. /\ \A t \in Tracker, d \in UsageDay :
             summary[t][d] >= 0 => d < rollup.day \/ (d = rollup.day /\ rollup.at > 1)
        /\ \A d \in UsageDay :
             rollup.day <= d /\ d <= rollup.on - Lookback => d \in usageLog.excused
    BY DEF AccountedUpToRun
  <2>5. rollup.on <= today' BY <1>2, <2>1
  <2>6. ASSUME NEW m \in Model, NEW d \in UsageDay,
               rollup.at = 2, d = rollup.day, rollup.read[m] > 0
        PROVE  Enough(m, d, rollup.read[m])'
    <3>1. Enough(m, d, rollup.read[m]) BY <2>6 DEF AccountedUpToRun
    <3>2. d < today BY <1>2, <2>1, <2>6
    <3>3. m \in Tracker BY DEF Tracker
    <3> QED BY <3>1, <3>2, <3>3 DEF Enough, CountsGrow
  <2> QED BY <2>1, <2>2, <2>3, <2>4, <2>5, <2>6
<1>9. AccountedUpToSaved' BY <1>2, <1>4, DayIsNat DEF AccountedUpToSaved
<1> QED BY <1>1, <1>5, <1>6, <1>7, <1>8, <1>9

LEMMA QuietMeterStep ==
  ASSUME UsageInv, today' \in UsageDay, today <= today',
         meter' \in [queue : Seq(MeterItem), item : MeterItem \cup {NoItem}, closed : BOOLEAN],
         usageRow' = usageRow, usageLog' \in UsageLog,
         usageLog'.excused = usageLog.excused, usageLog'.onTime = usageLog.onTime,
         UNCHANGED <<summary, rollup, ranOn>>
  PROVE  UsageInv'
<1>1. usageRow' \in DayCounts BY DEF UsageInv, UsageTypeOK
<1>2. \A t \in Tracker, d \in UsageDay : usageRow[t][d] \in Nat /\ usageLog.onTime[t][d] \in Nat
  BY DEF UsageInv, UsageTypeOK, UsageLog, DayCounts
<1>3. CountsGrow BY <1>2 DEF CountsGrow
<1> QED BY <1>1, <1>3, MeterStep

LEMMA MeterKeeps ==
  ASSUME UsageInv,
         Midnight \/ TakeItem \/ aclose \/ RestartMeter \/ (\E t \in Tracker : record(t))
  PROVE  UsageInv'
<1> DEFINE Meter == [queue : Seq(MeterItem), item : MeterItem \cup {NoItem}, closed : BOOLEAN]
<1>0. /\ today \in UsageDay /\ today \in Nat /\ usageLog \in UsageLog
      /\ meter \in Meter /\ meter.queue \in Seq(MeterItem)
  BY DayIsNat DEF UsageInv, UsageTypeOK
<1>1. CASE Midnight
  <2>1. today' \in UsageDay /\ today <= today'
    BY <1>0, <1>1, UsageBounds DEF Midnight, UsageDay
  <2> QED BY <1>0, <1>1, <2>1, QuietMeterStep DEF Midnight
<1>2. CASE TakeItem
  <2>1. Head(meter.queue) \in MeterItem /\ Tail(meter.queue) \in Seq(MeterItem)
    BY <1>0, <1>2, HeadTailProperties DEF TakeItem
  <2>2. meter' = [meter EXCEPT !.item = Head(meter.queue), !.queue = Tail(meter.queue)]
    BY <1>2 DEF TakeItem
  <2>3. meter' \in Meter BY <1>0, <2>1, <2>2
  <2> QED BY <1>0, <1>2, <2>3, QuietMeterStep DEF TakeItem
<1>3. CASE aclose
  <2>1. meter' \in Meter BY <1>0, <1>3 DEF aclose
  <2> QED BY <1>0, <1>3, <2>1, QuietMeterStep DEF aclose
<1>4. CASE RestartMeter
  <2>1. meter' \in Meter BY <1>4, EmptySeq DEF RestartMeter
  <2> QED BY <1>0, <1>4, <2>1, QuietMeterStep DEF RestartMeter
<1>5. ASSUME NEW t \in Tracker, record(t) PROVE UsageInv'
  <2> DEFINE q == IF Len(meter.queue) = QueueSize THEN Tail(meter.queue) ELSE meter.queue
             i == [tracker |-> t, day |-> today]
  <2>1. q \in Seq(MeterItem)
    <3>1. CASE Len(meter.queue) = QueueSize
      <4>1. meter.queue # <<>> BY <3>1, UsageBounds, EmptySeq
      <4> QED BY <1>0, <3>1, <4>1, HeadTailProperties
    <3> QED BY <1>0, <3>1
  <2>2. i \in MeterItem BY <1>0 DEF MeterItem
  <2> HIDE DEF q, i
  <2>3. Append(q, i) \in Seq(MeterItem) BY <2>1, <2>2, AppendProperties
  <2>4. meter' = [meter EXCEPT !.queue = Append(q, i)] BY <1>5 DEF record, q, i
  <2>5. meter' \in Meter BY <1>0, <2>3, <2>4
  <2>6. usageLog' \in UsageLog /\ usageLog'.excused = usageLog.excused
        /\ usageLog'.onTime = usageLog.onTime
    <3>1. usageLog' = [usageLog EXCEPT !.items = usageLog.items + 1] BY <1>5 DEF record
    <3>2. usageLog.items + 1 \in Nat BY <1>0 DEF UsageLog
    <3> QED BY <1>0, <3>1, <3>2 DEF UsageLog
  <2> QED BY <1>0, <1>5, <2>5, <2>6, QuietMeterStep DEF record
<1> QED BY <1>1, <1>2, <1>3, <1>4, <1>5

LEMMA DispatchKeeps == ASSUME UsageInv, dispatch PROVE UsageInv'
<1> DEFINE Meter == [queue : Seq(MeterItem), item : MeterItem \cup {NoItem}, closed : BOOLEAN]
<1>0. /\ today \in UsageDay /\ today \in Nat /\ usageLog \in UsageLog
      /\ meter \in Meter /\ usageRow \in DayCounts /\ usageLog.onTime \in DayCounts
  BY DayIsNat DEF UsageInv, UsageTypeOK, UsageLog
<1>1. PICK t \in Tracker, d \in UsageDay : t = meter.item.tracker /\ d = meter.item.day
  BY <1>0 DEF dispatch, MeterItem
<1>2. meter' \in Meter BY <1>0 DEF dispatch
<1>3. UNCHANGED <<today, summary, rollup, ranOn>> BY DEF dispatch
<1>4. CASE UNCHANGED <<usageRow, usageLog>> BY <1>0, <1>2, <1>3, <1>4, QuietMeterStep
<1>5. CASE /\ usageRow' = [usageRow EXCEPT ![t][d] = @ + 1]
           /\ usageLog' = IF d = today
                            THEN [usageLog EXCEPT !.onTime[t][d] = @ + 1] ELSE usageLog
  <2>1. \A x \in Tracker, y \in UsageDay : usageRow[x][y] \in Nat /\ usageLog.onTime[x][y] \in Nat
    BY <1>0 DEF DayCounts
  <2>2. /\ usageRow' \in DayCounts
        /\ \A x \in Tracker, y \in UsageDay :
             usageRow'[x][y] = IF x = t /\ y = d THEN usageRow[t][d] + 1 ELSE usageRow[x][y]
    <3> DEFINE n == usageRow[t][d] + 1
    <3>1. usageRow' = [usageRow EXCEPT ![t][d] = n] /\ n = usageRow[t][d] + 1 /\ n \in Nat
      BY <1>1, <1>5, <2>1
    <3> HIDE DEF n
    <3>2. /\ [usageRow EXCEPT ![t][d] = n] \in DayCounts
          /\ \A x \in Tracker, y \in UsageDay : [usageRow EXCEPT ![t][d] = n][x][y]
                = IF x = t /\ y = d THEN usageRow[t][d] + 1 ELSE usageRow[x][y]
      <4>1. usageRow \in [Tracker -> [UsageDay -> Nat]] BY <1>0 DEF DayCounts
      <4>2. /\ [usageRow EXCEPT ![t][d] = n] \in [Tracker -> [UsageDay -> Nat]]
            /\ \A x \in Tracker, y \in UsageDay :
                 [usageRow EXCEPT ![t][d] = n][x][y] = IF x = t /\ y = d THEN n ELSE usageRow[x][y]
        BY <1>1, <3>1, <4>1, Put
      <4> QED BY <3>1, <4>2 DEF DayCounts
    <3> QED BY <3>1, <3>2
  <2>3. CASE d = today
    <3> DEFINE f == [usageLog.onTime EXCEPT ![t][d] = usageLog.onTime[t][d] + 1]
    <3>1. /\ f \in DayCounts
          /\ \A x \in Tracker, y \in UsageDay :
               f[x][y] = IF x = t /\ y = d THEN usageLog.onTime[t][d] + 1 ELSE usageLog.onTime[x][y]
      <4> DEFINE n == usageLog.onTime[t][d] + 1
      <4>1. f = [usageLog.onTime EXCEPT ![t][d] = n] /\ n = usageLog.onTime[t][d] + 1 /\ n \in Nat
        BY <1>1, <2>1
      <4> HIDE DEF n, f
      <4>2. /\ [usageLog.onTime EXCEPT ![t][d] = n] \in DayCounts
            /\ \A x \in Tracker, y \in UsageDay : [usageLog.onTime EXCEPT ![t][d] = n][x][y]
                 = IF x = t /\ y = d THEN usageLog.onTime[t][d] + 1 ELSE usageLog.onTime[x][y]
        <5> DEFINE F == usageLog.onTime
        <5>1. F \in [Tracker -> [UsageDay -> Nat]] BY <1>0 DEF DayCounts
        <5> HIDE DEF F
        <5>2. /\ [F EXCEPT ![t][d] = n] \in [Tracker -> [UsageDay -> Nat]]
              /\ \A x \in Tracker, y \in UsageDay :
                   [F EXCEPT ![t][d] = n][x][y] = IF x = t /\ y = d THEN n ELSE F[x][y]
          BY <1>1, <4>1, <5>1, Put
        <5> QED BY <4>1, <5>2 DEF DayCounts, F
      <4> QED BY <4>1, <4>2
    <3>2. usageLog' = [usageLog EXCEPT !.onTime = f] BY <1>5, <2>3
    <3> HIDE DEF f
    <3>3. usageLog' \in UsageLog /\ usageLog'.excused = usageLog.excused /\ usageLog'.onTime = f
      BY <1>0, <3>1, <3>2 DEF UsageLog
    <3>4. \A x \in Tracker, y \in UsageDay :
            usageLog'.onTime[x][y] - usageLog.onTime[x][y] <= usageRow'[x][y] - usageRow[x][y]
      BY <2>1, <2>2, <3>1, <3>3
    <3>5. \A x \in Tracker, y \in UsageDay :
            y < today => usageLog'.onTime[x][y] = usageLog.onTime[x][y]
      <4>1. \A y \in UsageDay : y < today => y # d BY <2>3, DayIsNat
      <4> QED BY <3>1, <3>3, <4>1
    <3>6. CountsGrow BY <3>4, <3>5 DEF CountsGrow
    <3> QED BY <1>0, <1>2, <1>3, <2>2, <3>3, <3>6, MeterStep
  <2>4. CASE d # today
    <3>1. usageLog' = usageLog BY <1>5, <2>4
    <3>2. CountsGrow BY <1>1, <2>1, <2>2, <3>1 DEF CountsGrow
    <3> QED BY <1>0, <1>2, <1>3, <2>2, <3>1, <3>2, MeterStep
  <2> QED BY <2>3, <2>4
<1> QED BY <1>1, <1>4, <1>5 DEF dispatch

\* Summing up has not begun: the days before the first are accounted for, by
\* earlier runs, as beyond the lookback, or as having no rows.
LEMMA RollupStarts == ASSUME UsageInv, run_rollup PROVE UsageInv'
<1> USE UsageBounds, DayIsNat DEF UsageInv
<1> DEFINE first == Later(LastSummaryDay + 1, Later(today - Lookback, 1))
           lost == {d \in UsageDay : LastSummaryDay < d /\ d <= today - Lookback}
<1>1. /\ rollup.at = 0 /\ UNCHANGED <<today, meter, usageRow, summary, ranOn>>
      /\ rollup' = [at |-> 1, on |-> today, upto |-> today - 1, read |-> NothingRead,
                    day |-> IF HasUsage THEN first ELSE today]
      /\ usageLog' = [usageLog EXCEPT !.excused = @ \cup lost]
  BY DEF run_rollup
<1>2. today \in Nat /\ today \in UsageDay /\ usageLog \in UsageLog
  BY DEF UsageTypeOK
<1>3. \A t \in Tracker, d \in UsageDay :
        /\ usageRow[t][d] \in Nat /\ usageLog.onTime[t][d] \in Nat
        /\ summary[t][d] \in Nat \cup {-1}
  BY DEF UsageTypeOK, UsageLog, DayCounts
<1>4. /\ LastSummaryDay \in Nat /\ LastSummaryDay < today /\ IsLast(LastSummaryDay)
  <2> DEFINE days == {d \in UsageDay : \E t \in Tracker : summary[t][d] >= 0}
  <2>1. PICK last \in 0..MaxDay : IsLast(last) BY DEF SummariesArePast
  <2>2. CASE days = {}
    <3>1. LastSummaryDay = 0 BY <2>2 DEF LastSummaryDay
    <3> QED BY <1>2, <2>2, <3>1 DEF IsLast
  <2>3. CASE days # {}
    <3>1. last \in days /\ \A e \in days : e <= last BY <2>1, <2>3 DEF IsLast, UsageDay
    <3>2. LastSummaryDay = CHOOSE d \in days : \A e \in days : e <= d
      BY <2>3 DEF LastSummaryDay
    <3>3. LastSummaryDay \in days /\ \A e \in days : e <= LastSummaryDay BY <3>1, <3>2
    <3> QED BY <1>2, <3>3 DEF IsLast, SummariesArePast
  <2> QED BY <2>2, <2>3
<1> HIDE DEF LastSummaryDay
<1>5. /\ first \in Nat /\ first >= 1 /\ first <= today /\ first > LastSummaryDay
      /\ first >= today - Lookback
      /\ \A d \in Nat : d < first => d <= LastSummaryDay \/ d < today - Lookback \/ d < 1
  BY <1>2, <1>4 DEF Later
<1> HIDE DEF first
<1>6. /\ usageLog' \in UsageLog /\ usageLog'.onTime = usageLog.onTime
      /\ usageLog'.excused = usageLog.excused \cup lost
  BY <1>1, <1>2 DEF UsageLog
<1>7. /\ rollup'.at = 1 /\ rollup'.on = today /\ rollup'.upto = today - 1
      /\ rollup'.day \in Nat /\ rollup'.day >= 1 /\ rollup'.day <= today
      /\ rollup'.day = IF HasUsage THEN first ELSE today
      /\ rollup' \in Run
  <2> DEFINE day == IF HasUsage THEN first ELSE today
  <2>1. day \in Nat /\ day >= 1 /\ day <= today /\ today - 1 \in Int BY <1>2, <1>5
  <2>2. rollup' = [at |-> 1, on |-> today, upto |-> today - 1, read |-> NothingRead,
                   day |-> day]
    BY <1>1
  <2> HIDE DEF day
  <2>3. NothingRead \in ModelCounts BY DEF NothingRead, ModelCounts
  <2>4. /\ rollup'.at = 1 /\ rollup'.on = today /\ rollup'.upto = today - 1
        /\ rollup'.day = day /\ rollup' \in Run
    BY <1>2, <2>1, <2>2, <2>3 DEF Run
  <2> QED BY <2>1, <2>4 DEF day
<1>8. \A t \in Tracker, d \in UsageDay : Good(t, d) => Good(t, d)'
  BY <1>1, <1>6 DEF Good
<1>9. \A d \in UsageDay : LastSummaryDay < d /\ d <= today - Lookback => d \in usageLog'.excused
  BY <1>6
<1>10. \A t \in Tracker, d \in UsageDay : d <= LastSummaryDay => Good(t, d)
  <2> SUFFICES ASSUME NEW t \in Tracker, NEW d \in UsageDay, d <= LastSummaryDay
               PROVE  Good(t, d)
    OBVIOUS
  <2>1. LastSummaryDay # 0 /\ LastSummaryDay \in UsageDay BY <1>2, <1>4 DEF UsageDay
  <2>2. PICK u \in Tracker : summary[u][LastSummaryDay] >= 0 BY <1>4, <2>1 DEF IsLast
  <2> QED BY <1>1, <2>1, <2>2 DEF AccountedUpToLast
<1>11. UsageTypeOK' BY <1>1, <1>6, <1>7 DEF UsageTypeOK
<1>12. RowsKept' BY <1>1, <1>6, <1>7 DEF RowsKept, RunDate
<1>13. SummariesArePast' BY <1>1 DEF SummariesArePast, IsLast
<1>14. AccountedUpToLast' BY <1>7 DEF AccountedUpToLast
<1>15. AccountedUpToRun'
  <2>1. ASSUME NEW t \in Tracker, NEW d \in UsageDay, d < rollup'.day PROVE Good(t, d)'
    <3>1. CASE d <= LastSummaryDay BY <1>8, <1>10, <3>1
    <3>2. CASE d > LastSummaryDay /\ d <= today - Lookback BY <1>9, <3>2 DEF Good
    <3>3. CASE d > LastSummaryDay /\ d > today - Lookback
      <4>1. ~HasUsage
        <5>1. ~(d < first) BY <1>2, <1>4, <1>5, <3>3
        <5> QED BY <1>7, <2>1, <5>1
      <4>2. usageRow[t][d] = 0 BY <1>3, <4>1 DEF HasUsage
      <4>3. usageRow[t][d] >= usageLog.onTime[t][d] BY <1>1, <3>3 DEF RowsKept, RunDate
      <4> QED BY <1>3, <1>6, <4>2, <4>3 DEF Good
    <3> QED BY <1>2, <1>4, <3>1, <3>2, <3>3
  <2>2. \A t \in Tracker, d \in UsageDay : summary'[t][d] >= 0 => d < rollup'.day
    <3> SUFFICES ASSUME NEW t \in Tracker, NEW d \in UsageDay, summary[t][d] >= 0
                 PROVE  d < rollup'.day
      BY <1>1
    <3>1. d <= LastSummaryDay /\ d < today BY <1>4 DEF IsLast, SummariesArePast
    <3> QED BY <1>2, <1>4, <1>5, <1>7, <3>1
  <2>3. \A d \in UsageDay :
          rollup'.day <= d /\ d <= rollup'.on - Lookback => d \in usageLog'.excused
    BY <1>2, <1>4, <1>5, <1>7, <1>9
  <2>4. /\ rollup'.on <= today' /\ rollup'.upto = rollup'.on - 1
        /\ rollup'.day >= 1 /\ rollup'.day <= rollup'.upto + 1 /\ rollup'.at = 1
    BY <1>1, <1>2, <1>7
  <2>5. \A t \in Tracker : ~Settled(t)' BY <2>4 DEF Settled
  <2> QED BY <2>1, <2>2, <2>3, <2>4, <2>5 DEF AccountedUpToRun
<1>16. AccountedUpToSaved' BY <1>1, <1>8 DEF AccountedUpToSaved
<1> QED BY <1>11, <1>12, <1>13, <1>14, <1>15, <1>16

\* The run turns to the next day, or has read the counts of the day.
LEMMA RunTurns ==
  ASSUME rollup \in Run, rollup' = [rollup EXCEPT !.at = 1, !.day = rollup.day + 1]
  PROVE  /\ rollup' \in Run /\ rollup'.at = 1 /\ rollup'.on = rollup.on
         /\ rollup'.upto = rollup.upto /\ rollup'.day = rollup.day + 1
<1>1. rollup.day + 1 \in Nat /\ 1 \in 0..3 BY DEF Run
<1>2. rollup' \in Run BY <1>1 DEF Run
<1>3. rollup'.at = 1 BY DEF Run
<1>4. rollup'.day = rollup.day + 1 BY DEF Run
<1>5. rollup'.on = rollup.on /\ rollup'.upto = rollup.upto BY DEF Run
<1> QED BY <1>2, <1>3, <1>4, <1>5

LEMMA RunReads ==
  ASSUME rollup \in Run, NEW c \in ModelCounts, rollup' = [rollup EXCEPT !.at = 2, !.read = c]
  PROVE  /\ rollup' \in Run /\ rollup'.at = 2 /\ rollup'.on = rollup.on
         /\ rollup'.upto = rollup.upto /\ rollup'.day = rollup.day /\ rollup'.read = c
<1>1. 2 \in 0..3 OBVIOUS
<1>2. rollup' \in Run BY <1>1 DEF Run
<1>3. rollup'.at = 2 /\ rollup'.read = c BY DEF Run
<1>4. rollup'.on = rollup.on /\ rollup'.upto = rollup.upto /\ rollup'.day = rollup.day BY DEF Run
<1> QED BY <1>2, <1>3, <1>4

LEMMA DayOfRun ==
  ASSUME UsageInv, rollup.at > 0, rollup.day <= rollup.upto
  PROVE  /\ today \in Nat /\ rollup \in Run /\ rollup.at \in 1..3 /\ rollup.on \in Nat
         /\ rollup.day \in Nat /\ rollup.day \in UsageDay /\ rollup.upto \in Int
         /\ rollup.read \in ModelCounts
         /\ rollup.on <= today /\ rollup.upto = rollup.on - 1
         /\ rollup.day < rollup.on /\ rollup.day < today
<1> USE UsageBounds DEF UsageInv
<1>1. /\ today \in UsageDay /\ rollup \in Run /\ rollup.at \in 1..3 /\ rollup.on \in Nat
      /\ rollup.day \in Nat /\ rollup.upto \in Int /\ rollup.read \in ModelCounts
  BY DEF UsageTypeOK, Run
<1>2. rollup.on <= today /\ rollup.upto = rollup.on - 1 /\ rollup.day >= 1
  BY DEF AccountedUpToRun
<1> QED BY <1>1, <1>2 DEF UsageDay

\* What the tables hold of the day is enough, or the day was out of reach.
LEMMA RowsAreEnough ==
  ASSUME UsageInv, rollup.at > 0, rollup.day <= rollup.upto, NEW t \in Tracker
  PROVE  usageRow[t][rollup.day] \in Nat /\ Enough(t, rollup.day, usageRow[t][rollup.day])
<1>1. rollup.day \in UsageDay /\ rollup.day \in Nat /\ rollup.on \in Nat BY DayOfRun
<1>2. usageRow[t][rollup.day] \in Nat BY <1>1 DEF UsageInv, UsageTypeOK, DayCounts
<1>3. CASE rollup.day <= rollup.on - Lookback
  <2>1. \A d \in UsageDay :
          rollup.day <= d /\ d <= rollup.on - Lookback => d \in usageLog.excused
    BY DEF UsageInv, AccountedUpToRun
  <2>2. rollup.day \in usageLog.excused BY <1>1, <1>3, <2>1
  <2> QED BY <1>2, <2>2 DEF Enough
<1>4. CASE rollup.day > rollup.on - Lookback
  <2>1. RunDate = rollup.on BY DEF RunDate
  <2>2. usageRow[t][rollup.day] >= usageLog.onTime[t][rollup.day]
    BY <1>1, <1>4, <2>1 DEF UsageInv, RowsKept
  <2> QED BY <1>2, <2>2 DEF Enough
<1> QED BY <1>1, <1>2, <1>3, <1>4, UsageBounds

\* A row is committed that counts enough: its day and tracker are accounted for,
\* and nothing that was is no more.
LEMMA UpsertKeeps ==
  ASSUME UsageInv, rollup.at > 1, NEW t \in Tracker, NEW n \in Nat, Upsert(t, n),
         Enough(t, rollup.day, n), UNCHANGED <<today, meter, usageRow, ranOn, usageLog>>,
         rollup' \in Run, rollup'.on = rollup.on, rollup'.at > 0
  PROVE  /\ UsageTypeOK' /\ RowsKept' /\ SummariesArePast'
         /\ AccountedUpToLast' /\ AccountedUpToSaved'
         /\ \A y \in UsageDay : y = rollup.day => Good(t, y)'
         /\ \A x \in Tracker, y \in UsageDay : Good(x, y) => Good(x, y)'
         /\ \A x \in Tracker, y \in UsageDay : summary'[x][y] >= 0 => y <= rollup.day
<1> USE UsageBounds DEF UsageInv
<1>0. PICK d \in UsageDay : d = rollup.day
  <2>1. rollup.day <= rollup.upto BY DEF AccountedUpToRun, UsageTypeOK, Run
  <2> QED BY <2>1, DayOfRun DEF UsageTypeOK, Run
<1>1. /\ today \in Nat /\ d \in Nat /\ d < today /\ rollup.at \in 1..3 /\ rollup.on \in Nat
      /\ rollup.upto \in Int
  <2>1. rollup.day <= rollup.upto BY DEF AccountedUpToRun, UsageTypeOK, Run
  <2> QED BY <1>0, <2>1, DayOfRun DEF UsageTypeOK, Run
<1>2. \A x \in Tracker, y \in UsageDay :
        summary[x][y] \in Nat \cup {-1} /\ usageLog.onTime[x][y] \in Nat
  BY DEF UsageTypeOK, UsageLog, DayCounts
<1>3. /\ summary' \in [Tracker -> [UsageDay -> Nat \cup {-1}]]
      /\ \A x \in Tracker, y \in UsageDay :
           summary'[x][y] = IF x = t /\ y = d /\ n > 0 THEN n ELSE summary[x][y]
  <2>1. summary \in [Tracker -> [UsageDay -> Nat \cup {-1}]] BY DEF UsageTypeOK
  <2>2. n \in Nat \cup {-1} OBVIOUS
  <2>3. CASE n > 0
    <3>1. /\ [summary EXCEPT ![t][d] = n] \in [Tracker -> [UsageDay -> Nat \cup {-1}]]
          /\ \A x \in Tracker, y \in UsageDay :
               [summary EXCEPT ![t][d] = n][x][y] = IF x = t /\ y = d THEN n ELSE summary[x][y]
      BY <2>1, <2>2, Put
    <3> QED BY <1>0, <2>3, <3>1 DEF Upsert
  <2>4. CASE ~(n > 0) BY <2>1, <2>4 DEF Upsert
  <2> QED BY <2>3, <2>4
<1>4. Good(t, d)'
  <2>1. CASE d \in usageLog.excused BY <2>1 DEF Good
  <2>2. CASE n >= usageLog.onTime[t][d]
    <3>1. n > 0 => summary'[t][d] = n BY <1>3
    <3> QED BY <1>2, <2>2, <3>1 DEF Good
  <2> QED BY <1>0, <2>1, <2>2 DEF Enough
<1>5. \A x \in Tracker, y \in UsageDay : Good(x, y) => Good(x, y)'
  <2> SUFFICES ASSUME NEW x \in Tracker, NEW y \in UsageDay, Good(x, y) PROVE Good(x, y)'
    OBVIOUS
  <2>1. CASE x = t /\ y = d BY <1>4, <2>1
  <2>2. CASE ~(x = t /\ y = d)
    <3>1. summary'[x][y] = summary[x][y] BY <1>3, <2>2
    <3> QED BY <3>1 DEF Good
  <2> QED BY <2>1, <2>2
<1>6. UsageTypeOK' BY <1>3 DEF UsageTypeOK
<1>7. RowsKept'
  <2>1. RunDate' = RunDate BY <1>1 DEF RunDate
  <2> QED BY <2>1 DEF RowsKept
<1>8. \A x \in Tracker, y \in UsageDay : summary[x][y] >= 0 => y <= d
  BY <1>0, <1>1, DayIsNat DEF AccountedUpToRun
<1>9. \A x \in Tracker, y \in UsageDay : summary'[x][y] >= 0 => y <= d
  <2> SUFFICES ASSUME NEW x \in Tracker, NEW y \in UsageDay, summary'[x][y] >= 0 PROVE y <= d
    OBVIOUS
  <2>1. CASE y = d BY <1>1, <2>1
  <2>2. CASE y # d
    <3>1. summary'[x][y] = summary[x][y] BY <1>3, <2>2
    <3> QED BY <1>8, <3>1
  <2> QED BY <2>1, <2>2
<1>10. SummariesArePast'
  <2>1. \A x \in Tracker, y \in UsageDay : summary'[x][y] >= 0 => y < today'
    BY <1>1, <1>9, DayIsNat
  <2>2. CASE n > 0
    <3>1. summary'[t][d] >= 0 BY <1>3, <2>2
    <3>2. IsLast(d)' BY <1>9, <3>1 DEF IsLast
    <3>3. d \in 0..MaxDay BY DEF UsageDay
    <3> QED BY <2>1, <3>2, <3>3 DEF SummariesArePast, IsLast
  <2>3. CASE ~(n > 0)
    <3>1. summary' = summary BY <2>3 DEF Upsert
    <3> QED BY <3>1 DEF SummariesArePast, IsLast
  <2> QED BY <2>2, <2>3
<1>11. AccountedUpToLast' BY DEF AccountedUpToLast, Run
<1>12. AccountedUpToSaved' BY <1>5 DEF AccountedUpToSaved
<1>13. \A y \in UsageDay : y = rollup.day => Good(t, y)'
  BY <1>0, <1>4
<1>14. \A x \in Tracker, y \in UsageDay : summary'[x][y] >= 0 => y <= rollup.day
  BY <1>0, <1>9
<1> QED BY <1>5, <1>6, <1>7, <1>10, <1>11, <1>12, <1>13, <1>14

\* The calls of the day are counted: the counts are enough, and what has none is
\* settled.
LEMMA AggregateKeeps == ASSUME UsageInv, AggregateLlm PROVE UsageInv'
<1> USE UsageBounds DEF UsageInv
<1> DEFINE counts == [m \in Model |-> usageRow[m][rollup.day]]
<1>1. /\ rollup.at = 1 /\ rollup.day <= rollup.upto
      /\ UNCHANGED <<today, meter, usageRow, summary, ranOn, usageLog>>
      /\ rollup' = [rollup EXCEPT !.at = 2, !.read = counts]
  BY DEF AggregateLlm
<1>2. \A m \in Model : m \in Tracker BY DEF Tracker
<1>3. \A m \in Model : counts[m] \in Nat /\ Enough(m, rollup.day, counts[m])
  BY <1>1, <1>2, RowsAreEnough
<1>4. counts \in ModelCounts BY <1>3 DEF ModelCounts
<1> HIDE DEF counts
<1>5. rollup \in Run BY DEF UsageTypeOK
<1>6. /\ rollup' \in Run /\ rollup'.at = 2 /\ rollup'.on = rollup.on
      /\ rollup'.day = rollup.day /\ rollup'.upto = rollup.upto /\ rollup'.read = counts
  <2>1. rollup.day \in Nat /\ 2 \in 0..3 BY <1>5 DEF Run
  <2>2. /\ rollup' \in Run /\ rollup'.at = 2 /\ rollup'.on = rollup.on
        /\ rollup'.upto = rollup.upto /\ rollup'.day = rollup.day /\ rollup'.read = counts
    BY <1>1, <1>4, <1>5, RunReads
  <2> QED BY <2>2
<1>7. UsageTypeOK' BY <1>1, <1>6 DEF UsageTypeOK
<1>8. RowsKept' /\ SummariesArePast' /\ AccountedUpToLast' /\ AccountedUpToSaved'
  BY <1>1, <1>6 DEF RowsKept, RunDate, SummariesArePast, IsLast, AccountedUpToLast,
                    AccountedUpToSaved, Good
<1>9. AccountedUpToRun'
  <2>1. \A t \in Tracker, d \in UsageDay : Good(t, d)' <=> Good(t, d) BY <1>1 DEF Good
  <2>2. ASSUME NEW t \in Tracker, NEW d \in UsageDay, d = rollup.day, Settled(t)'
        PROVE  Good(t, d)
    <3>1. t \in Model /\ counts[t] = 0 BY <1>6, <2>2 DEF Settled
    <3>2. Enough(t, d, 0) BY <1>3, <2>2, <3>1
    <3>3. usageLog.onTime[t][d] \in Nat BY DEF UsageTypeOK, UsageLog, DayCounts
    <3> QED BY <3>2, <3>3 DEF Enough, Good
  <2>3. \A m \in Model, d \in UsageDay :
          d = rollup.day => Enough(m, d, counts[m])
    BY <1>3
  <2>4. /\ rollup.on <= today /\ rollup.upto = rollup.on - 1
        /\ rollup.day >= 1 /\ rollup.day <= rollup.upto + 1
        /\ \A t \in Tracker, d \in UsageDay : d < rollup.day => Good(t, d)
        /\ \A t \in Tracker, d \in UsageDay : summary[t][d] >= 0 => d < rollup.day
        /\ \A d \in UsageDay :
             rollup.day <= d /\ d <= rollup.on - Lookback => d \in usageLog.excused
    BY <1>1 DEF AccountedUpToRun
  <2> QED BY <1>1, <1>6, <2>1, <2>2, <2>3, <2>4 DEF AccountedUpToRun, Enough
<1> QED BY <1>7, <1>8, <1>9

LEMMA UpsertModelKeeps == ASSUME UsageInv, NEW m \in Model, UpsertModel(m) PROVE UsageInv'
<1> USE UsageBounds DEF UsageInv
<1> DEFINE n == rollup.read[m]
           left == [rollup.read EXCEPT ![m] = 0]
<1>1. /\ rollup.at = 2 /\ n > 0 /\ Upsert(m, n)
      /\ UNCHANGED <<today, meter, usageRow, ranOn, usageLog>>
      /\ rollup' = [rollup EXCEPT !.read = left]
  BY DEF UpsertModel
<1>2. rollup \in Run /\ m \in Tracker /\ n \in Nat BY DEF UsageTypeOK, Run, ModelCounts, Tracker
<1>3. rollup.day <= rollup.upto BY <1>1 DEF AccountedUpToRun
<1>4. rollup.day \in UsageDay BY <1>1, <1>3, DayOfRun
<1>5. Enough(m, rollup.day, n) BY <1>1, <1>4 DEF AccountedUpToRun
<1>6. /\ left \in ModelCounts /\ left[m] = 0
      /\ \A x \in Model : x # m => left[x] = rollup.read[x]
  BY <1>2 DEF Run, ModelCounts
<1> HIDE DEF left
<1>7. /\ rollup' \in Run /\ rollup'.at = 2 /\ rollup'.on = rollup.on
      /\ rollup'.day = rollup.day /\ rollup'.upto = rollup.upto /\ rollup'.read = left
  BY <1>1, <1>2, <1>6 DEF Run
<1> HIDE DEF n
<1>8. /\ UsageTypeOK' /\ RowsKept' /\ SummariesArePast'
      /\ AccountedUpToLast' /\ AccountedUpToSaved'
      /\ \A y \in UsageDay : y = rollup.day => Good(m, y)'
      /\ \A x \in Tracker, y \in UsageDay : Good(x, y) => Good(x, y)'
      /\ \A x \in Tracker, y \in UsageDay : summary'[x][y] >= 0 => y <= rollup.day
  BY <1>1, <1>2, <1>5, <1>7, UpsertKeeps
<1>9. AccountedUpToRun'
  <2>1. ASSUME NEW t \in Tracker, NEW d \in UsageDay, d = rollup.day, Settled(t)'
        PROVE  Good(t, d)'
    <3>1. t = m \/ Settled(t) BY <1>1, <1>6, <1>7, <2>1 DEF Settled
    <3> QED BY <1>1, <1>8, <2>1, <3>1 DEF AccountedUpToRun
  <2>2. ASSUME NEW x \in Model, NEW d \in UsageDay, d = rollup.day, left[x] > 0
        PROVE  Enough(x, d, left[x])
    <3>1. x # m /\ left[x] = rollup.read[x] BY <1>6, <2>2
    <3>2. Enough(x, d, rollup.read[x]) BY <1>1, <2>2, <3>1 DEF AccountedUpToRun
    <3> QED BY <3>1, <3>2
  <2>3. /\ rollup.on <= today /\ rollup.upto = rollup.on - 1
        /\ rollup.day >= 1 /\ rollup.day <= rollup.upto + 1
        /\ \A t \in Tracker, d \in UsageDay : d < rollup.day => Good(t, d)
        /\ \A d \in UsageDay :
             rollup.day <= d /\ d <= rollup.on - Lookback => d \in usageLog.excused
    BY <1>1 DEF AccountedUpToRun
  <2>4. \A t \in Tracker, d \in UsageDay : d < rollup.day => Good(t, d)' BY <1>8, <2>3
  <2>5. \A x \in Tracker, y \in UsageDay : summary'[x][y] >= 0 => y < rollup.day \/ y = rollup.day
    BY <1>2, <1>8, DayIsNat DEF Run
  <2> QED BY <1>1, <1>3, <1>7, <2>1, <2>2, <2>3, <2>4, <2>5 DEF AccountedUpToRun, Enough
<1> QED BY <1>8, <1>9

LEMMA SumUpKeeps == ASSUME UsageInv, SumUpMessages \/ SumUpHitl PROVE UsageInv'
<1> USE UsageBounds DEF UsageInv
<1>1. PICK t \in {"messages", "hitl"} :
        /\ Upsert(t, usageRow[t][rollup.day])
        /\ UNCHANGED <<today, meter, usageRow, ranOn, usageLog>>
        /\ \/ /\ t = "messages" /\ rollup.at = 2 /\ rollup.read = NothingRead
              /\ rollup' = [rollup EXCEPT !.at = 3]
           \/ /\ t = "hitl" /\ rollup.at = 3
              /\ rollup' = [rollup EXCEPT !.at = 1, !.day = rollup.day + 1]
  BY DEF SumUpMessages, SumUpHitl
<1> DEFINE n == usageRow[t][rollup.day]
<1>2. rollup \in Run /\ t \in Tracker BY DEF UsageTypeOK, Tracker
<1>3. rollup.day <= rollup.upto BY <1>1, <1>2 DEF AccountedUpToRun
<1>4. rollup.day \in UsageDay /\ rollup.day \in Nat /\ rollup.day < rollup.on
      /\ rollup.upto = rollup.on - 1 /\ rollup.on \in Nat
  BY <1>1, <1>3, DayOfRun
<1>5. n \in Nat /\ Enough(t, rollup.day, n) BY <1>1, <1>2, <1>3, RowsAreEnough
<1>6. /\ rollup' \in Run /\ rollup'.on = rollup.on /\ rollup'.upto = rollup.upto
      /\ \/ t = "messages" /\ rollup.at = 2 /\ rollup'.at = 3 /\ rollup'.day = rollup.day
         \/ t = "hitl" /\ rollup.at = 3 /\ rollup'.at = 1 /\ rollup'.day = rollup.day + 1
  <2>1. CASE rollup' = [rollup EXCEPT !.at = 3] /\ t = "messages"
    <3>1. rollup.read \in ModelCounts /\ 3 \in 0..3 BY <1>2 DEF Run
    <3>2. /\ rollup' \in Run /\ rollup'.at = 3 /\ rollup'.on = rollup.on
          /\ rollup'.upto = rollup.upto /\ rollup'.day = rollup.day
      BY <1>2, <2>1 DEF Run
    <3> QED BY <1>1, <2>1, <3>2
  <2>2. CASE rollup' = [rollup EXCEPT !.at = 1, !.day = rollup.day + 1] /\ t = "hitl"
    <3>1. rollup.day + 1 \in Nat /\ rollup.read \in ModelCounts /\ 1 \in 0..3
      BY <1>2, <1>4 DEF Run
    <3>2. /\ rollup' \in Run /\ rollup'.at = 1 /\ rollup'.on = rollup.on
          /\ rollup'.upto = rollup.upto /\ rollup'.day = rollup.day + 1
      BY <1>2, <2>2, RunTurns
    <3> QED BY <1>1, <2>2, <3>2
  <2> QED BY <1>1, <2>1, <2>2
<1> HIDE DEF n
<1>7. /\ UsageTypeOK' /\ RowsKept' /\ SummariesArePast'
      /\ AccountedUpToLast' /\ AccountedUpToSaved'
      /\ \A y \in UsageDay : y = rollup.day => Good(t, y)'
      /\ \A x \in Tracker, y \in UsageDay : Good(x, y) => Good(x, y)'
      /\ \A x \in Tracker, y \in UsageDay : summary'[x][y] >= 0 => y <= rollup.day
  <2>1. Upsert(t, n) BY <1>1 DEF n
  <2> QED BY <1>1, <1>2, <1>5, <1>6, <2>1, UpsertKeeps
<1>8. \A x \in Tracker, d \in UsageDay :
        d = rollup.day => x = t \/ Settled(x) \/ (x = "hitl" /\ t = "messages")
  <2>1. CASE t = "messages" BY <1>1, <1>6, <2>1 DEF Settled, Tracker, NothingRead
  <2>2. CASE t = "hitl" BY <1>1, <1>6, <2>2 DEF Settled
  <2> QED BY <2>1, <2>2
<1>9. \A x \in Tracker, d \in UsageDay :
        d = rollup.day /\ ~(x = "hitl" /\ t = "messages") => Good(x, d)'
  BY <1>1, <1>7, <1>8 DEF AccountedUpToRun
<1>10. AccountedUpToRun'
  <2>1. /\ rollup.on <= today /\ rollup.day >= 1
        /\ \A x \in Tracker, d \in UsageDay : d < rollup.day => Good(x, d)
        /\ \A d \in UsageDay :
             rollup.day <= d /\ d <= rollup.on - Lookback => d \in usageLog.excused
    BY <1>1 DEF AccountedUpToRun
  <2>2. ASSUME NEW x \in Tracker, NEW d \in UsageDay, d < rollup'.day PROVE Good(x, d)'
    <3>1. CASE d < rollup.day BY <1>7, <2>1, <3>1
    <3>2. CASE ~(d < rollup.day)
      <4>1. d = rollup.day /\ t = "hitl" BY <1>4, <1>6, <2>2, <3>2, DayIsNat
      <4> QED BY <1>9, <4>1
    <3> QED BY <3>1, <3>2
  <2>3. ASSUME NEW x \in Tracker, NEW d \in UsageDay, d = rollup'.day, Settled(x)'
        PROVE  Good(x, d)'
    <3>1. t = "messages" /\ x # "hitl" /\ d = rollup.day BY <1>6, <2>3 DEF Settled
    <3> QED BY <1>9, <3>1
  <2>4. \A x \in Tracker, y \in UsageDay :
          summary'[x][y] >= 0 => y < rollup'.day \/ (y = rollup'.day /\ rollup'.at > 1)
    BY <1>4, <1>6, <1>7, DayIsNat
  <2>5. \A d \in UsageDay :
          rollup'.day <= d /\ d <= rollup'.on - Lookback => d \in usageLog'.excused
    BY <1>1, <1>4, <1>6, <2>1, DayIsNat
  <2>6. /\ rollup'.on <= today' /\ rollup'.upto = rollup'.on - 1
        /\ rollup'.day >= 1 /\ rollup'.day <= rollup'.upto + 1
        /\ rollup'.day <= rollup'.upto \/ rollup'.at = 1
    BY <1>1, <1>3, <1>4, <1>6, <2>1
  <2>7. rollup'.at # 2 BY <1>6
  <2> QED BY <2>2, <2>3, <2>4, <2>5, <2>6, <2>7 DEF AccountedUpToRun
<1> QED BY <1>7, <1>10

\* The run ends: what it did is saved, or what it interrupted is excused.
LEMMA RollupEnds == ASSUME UsageInv, SaveState \/ RollupStops PROVE UsageInv'
<1> USE UsageBounds, DayIsNat DEF UsageInv
<1> DEFINE cut == {d \in UsageDay : d = rollup.day /\ \E t \in Tracker : summary[t][d] >= 0}
<1>1. /\ rollup.at > 0 /\ rollup' = NoRollup
      /\ UNCHANGED <<today, meter, usageRow, summary>>
      /\ \/ /\ rollup.day > rollup.upto /\ ranOn' = [ranOn EXCEPT !.rollup = rollup.on]
            /\ usageLog' = usageLog
         \/ /\ ranOn' = ranOn
            /\ usageLog' = [usageLog EXCEPT !.excused = @ \cup cut]
  BY DEF SaveState, RollupStops
<1>2. /\ today \in Nat /\ rollup.at \in 0..3 /\ rollup.on \in Nat /\ rollup.day \in Nat
      /\ rollup.upto \in Int /\ usageLog \in UsageLog
      /\ ranOn \in [rollup : Nat, retention : Nat]
  BY DEF UsageTypeOK, Run
<1>3. /\ rollup.on <= today /\ rollup.upto = rollup.on - 1
      /\ rollup.day >= 1 /\ rollup.day <= rollup.upto + 1
      /\ rollup.day <= rollup.upto \/ rollup.at = 1
      /\ \A t \in Tracker, d \in UsageDay : d < rollup.day => Good(t, d)
      /\ \A t \in Tracker, d \in UsageDay :
           summary[t][d] >= 0 => d < rollup.day \/ (d = rollup.day /\ rollup.at > 1)
  BY <1>1 DEF AccountedUpToRun
<1>4. /\ rollup'.at = 0 /\ rollup' \in Run
  BY <1>1 DEF NoRollup, NothingRead, ModelCounts, Run
<1>5. /\ usageLog' \in UsageLog /\ usageLog'.onTime = usageLog.onTime
      /\ usageLog.excused \subseteq usageLog'.excused
      /\ ~(rollup.day > rollup.upto) => cut \subseteq usageLog'.excused
  <2>1. CASE usageLog' = usageLog /\ rollup.day > rollup.upto BY <1>2, <2>1
  <2>2. CASE usageLog' = [usageLog EXCEPT !.excused = @ \cup cut]
    <3>1. usageLog.excused \cup cut \in SUBSET UsageDay BY <1>2 DEF UsageLog
    <3> QED BY <1>2, <2>2, <3>1 DEF UsageLog
  <2> QED BY <1>1, <2>1, <2>2
<1>6. /\ ranOn' \in [rollup : Nat, retention : Nat]
      /\ ranOn'.rollup = ranOn.rollup \/ (ranOn'.rollup = rollup.on /\ rollup.day > rollup.upto)
  BY <1>1, <1>2
<1>7. \A t \in Tracker, d \in UsageDay : Good(t, d) => Good(t, d)'
  BY <1>1, <1>5 DEF Good
<1>8. UsageTypeOK' BY <1>1, <1>4, <1>5, <1>6 DEF UsageTypeOK
<1>9. RowsKept'
  <2>1. RunDate = rollup.on /\ RunDate' = today BY <1>1, <1>4 DEF RunDate
  <2> QED BY <1>1, <1>2, <1>3, <1>5, <2>1 DEF RowsKept
<1>10. SummariesArePast' BY <1>1 DEF SummariesArePast, IsLast
<1>11. AccountedUpToLast'
  <2> SUFFICES ASSUME NEW t \in Tracker, NEW u \in Tracker, NEW d \in UsageDay,
                      NEW e \in UsageDay, summary[u][e] >= 0, d <= e
               PROVE  Good(t, d)'
    BY <1>1 DEF AccountedUpToLast
  <2>1. CASE d < rollup.day BY <1>3, <1>7, <2>1
  <2>2. CASE ~(d < rollup.day)
    <3>1. d = rollup.day /\ e = rollup.day /\ rollup.at > 1 BY <1>2, <1>3, <2>2
    <3>2. ~(rollup.day > rollup.upto) BY <1>2, <1>3, <3>1
    <3>3. d \in cut BY <3>1
    <3> QED BY <1>5, <3>2, <3>3 DEF Good
  <2> QED BY <2>1, <2>2
<1>12. AccountedUpToRun' BY <1>4 DEF AccountedUpToRun
<1>13. AccountedUpToSaved'
  <2>1. CASE ranOn'.rollup = ranOn.rollup BY <1>1, <1>7, <2>1 DEF AccountedUpToSaved
  <2>2. CASE ranOn'.rollup = rollup.on /\ rollup.day > rollup.upto
    <3>1. \A d \in UsageDay : d < rollup.on => d < rollup.day BY <1>2, <1>3, <2>2
    <3> QED BY <1>1, <1>3, <1>7, <2>2, <3>1 DEF AccountedUpToSaved
  <2> QED BY <1>6, <2>1, <2>2
<1> QED BY <1>8, <1>9, <1>10, <1>11, <1>12, <1>13

LEMMA RetentionKeeps == ASSUME UsageInv, run_retention PROVE UsageInv'
<1> USE UsageBounds, DayIsNat DEF UsageInv
<1>1. PICK last \in 1..3, partly \in BOOLEAN :
        /\ usageRow' = [t \in Tracker |-> [d \in UsageDay |->
             IF /\ \E i \in 1..last : t \in Tables[i]
                /\ d < today - Lookback \/ (d = today - Lookback /\ partly)
               THEN 0 ELSE usageRow[t][d]]]
        /\ ranOn' = IF last = 3 THEN [ranOn EXCEPT !.retention = today] ELSE ranOn
  BY DEF run_retention
<1>2. rollup.at = 0 /\ UNCHANGED <<today, meter, summary, rollup, usageLog>> BY DEF run_retention
<1>3. /\ today \in Nat /\ usageRow \in DayCounts /\ ranOn \in [rollup : Nat, retention : Nat]
      /\ \A t \in Tracker, d \in UsageDay : usageRow[t][d] \in Nat
  BY DEF UsageTypeOK, DayCounts
<1>4. \A t \in Tracker, d \in UsageDay :
        d > today - Lookback => usageRow'[t][d] = usageRow[t][d]
  BY <1>1, <1>3
<1>5. usageRow' \in DayCounts BY <1>1, <1>3 DEF DayCounts
<1>6. ranOn' \in [rollup : Nat, retention : Nat] /\ ranOn'.rollup = ranOn.rollup BY <1>1, <1>3
<1>7. UsageTypeOK' BY <1>2, <1>5, <1>6 DEF UsageTypeOK
<1>8. RowsKept' BY <1>2, <1>4 DEF RowsKept, RunDate
<1>9. SummariesArePast' BY <1>2 DEF SummariesArePast, IsLast
<1>10. AccountedUpToLast' BY <1>2 DEF AccountedUpToLast, Good
<1>11. AccountedUpToRun' BY <1>2 DEF AccountedUpToRun
<1>12. AccountedUpToSaved' BY <1>2, <1>6 DEF AccountedUpToSaved, Good
<1> QED BY <1>7, <1>8, <1>9, <1>10, <1>11, <1>12

\* A day that the rollup has passed is summed for each model and tracker, or was
\* interrupted; the counts that it has read and not yet written are enough;
\* rows within its lookback are all there; and summaries are of days that are over:
\* recorder, usage_rollup and usage_retention, for any lookback, days and restarts.
THEOREM UsageInvariant == UsageSpec => []UsageInv
<1>1. UsageInv /\ [UsageNext]_usageVars => UsageInv'
  <2> SUFFICES ASSUME UsageInv, [UsageNext]_usageVars PROVE UsageInv'
    OBVIOUS
  <2>1. CASE UNCHANGED usageVars
    <3>1. UNCHANGED <<today, meter, usageRow, summary, rollup, ranOn, usageLog>>
      BY <2>1 DEF usageVars
    <3>2. today <= today' BY <3>1, DayIsNat DEF UsageInv, UsageTypeOK
    <3> QED BY <3>1, <3>2, QuietMeterStep DEF UsageInv, UsageTypeOK
  <2> QED BY <2>1, MeterKeeps, DispatchKeeps, RollupStarts, AggregateKeeps, UpsertModelKeeps,
          SumUpKeeps, RollupEnds, RetentionKeeps DEF UsageNext
<1> QED BY <1>1, InitUsage, PTL DEF UsageSpec

\* The summary of a day behind a saved rollup counts every row that was written on
\* that day, for any models, unless its summing-up was interrupted after the first
\* of its rows: run_rollup resumes after the last day that has a summary row, and
\* looks back no further than its lookback.
THEOREM SummariesComplete == UsageSpec => []SummariesAreComplete
<1>1. UsageInv => SummariesAreComplete
  <2> SUFFICES ASSUME UsageInv, NEW t \in Tracker, NEW d \in UsageDay,
                      d < ranOn.rollup, d \notin usageLog.excused, usageLog.onTime[t][d] > 0
               PROVE  summary[t][d] >= usageLog.onTime[t][d]
    BY DEF SummariesAreComplete
  <2>1. Good(t, d) BY DEF UsageInv, AccountedUpToSaved
  <2>2. usageLog.onTime[t][d] \in Nat BY DEF UsageInv, UsageTypeOK, UsageLog, DayCounts
  <2> QED BY <2>1, <2>2 DEF Good
<1> QED BY <1>1, UsageInvariant, PTL

-----------------------------------------------------------------------------
(* The slots that a calendar offers. *)

Inquiry == [now : 0..(DayLength - 1), start : Units, lookahead : Lookahead,
            rule : RawRule, events : Events]

\* What the search works on, and what it accepts and tries.
RuleOf(q) == parse_service_rule(q.rule, effective_lookahead(q))
BusyOf(q) == query_busy_window(q.events, q.now, HorizonOf(q))
HoursOf(q, d) == q.rule.working_hours[WeekdayOf(d)]
Accepts(q, t) == compute_availability(q.now, t, BusyOf(q), RuleOf(q)) = "available"
Tried(q, d, i) == Candidates(d, HoursOf(q, d)[i], RuleOf(q))
Free(q, d, i) == {t \in Tried(q, d, i) : Accepts(q, t)}

SlotInv ==
  /\ inquiry \in Inquiry
  /\ slotAnswer = NoAnswer \/ slotAnswer = requested_availability(inquiry)

\* Days do not overlap, and each unit lies in one.
LEMMA DaysApart ==
  ASSUME NEW a \in Nat, NEW b \in Nat, a < b
  PROVE  a * DayLength + DayLength <= b * DayLength
<1>1. PICK c \in Nat : b = a + 1 + c BY b - a - 1 \in Nat
<1>2. b * DayLength = a * DayLength + DayLength + c * DayLength BY <1>1, SlotBounds
<1>3. c * DayLength >= 0 BY SlotBounds
<1>4. a * DayLength \in Int /\ b * DayLength \in Int /\ c * DayLength \in Int BY SlotBounds
<1> QED BY <1>2, <1>3, <1>4, SlotBounds

LEMMA DayHolds ==
  ASSUME NEW t \in Nat
  PROVE  /\ DayOf(t) \in Nat /\ DayOf(t) * DayLength \in Nat
         /\ DayOf(t) * DayLength <= t /\ t < DayOf(t) * DayLength + DayLength
BY SlotBounds DEF DayOf

LEMMA DayIs ==
  ASSUME NEW t \in Nat, NEW d \in Nat, d * DayLength <= t, t < d * DayLength + DayLength
  PROVE  DayOf(t) = d
<1>1. PICK e \in Nat : e = DayOf(t) BY DayHolds
<1>2. e * DayLength <= t /\ t < e * DayLength + DayLength BY <1>1, DayHolds
<1>3. d * DayLength \in Int /\ e * DayLength \in Int BY SlotBounds
<1>4. ~(e < d) BY <1>2, <1>3, DaysApart, SlotBounds
<1>5. ~(d < e) BY <1>2, <1>3, DaysApart, SlotBounds
<1> QED BY <1>1, <1>4, <1>5

\* A set of numbers has its least element for its Min.
LEMMA MinOfNumbers ==
  ASSUME NEW S \in SUBSET Nat, S # {}
  PROVE  Min(S) \in S /\ \A x \in S : Min(S) <= x
<1> DEFINE Less == OpToRel(<, Nat)
<1>1. IsWellFoundedOn(Less, Nat) BY NatLessThanWellFounded
<1>2. \A c, d \in Nat : c < d => <<c, d>> \in Less BY DEF OpToRel
<1> HIDE DEF Less
<1>3. PICK c \in S : \A d \in S : <<d, c>> \notin Less BY <1>1, WFMin
<1>4. \A d \in S : ~(d < c) BY <1>2, <1>3
<1>5. \A d \in S : c <= d BY <1>4
<1> QED BY <1>5 DEF Min

LEMMA OfTwo ==
  ASSUME NEW a \in Int, NEW b \in Int
  PROVE  /\ Min({a, b}) = IF a <= b THEN a ELSE b
         /\ Max({a, b}) = IF a >= b THEN a ELSE b
<1>1. PICK x \in {a, b} : x = (IF a <= b THEN a ELSE b)
  OBVIOUS
<1>2. PICK y \in {a, b} : y = (IF a >= b THEN a ELSE b)
  OBVIOUS
<1>3. \A z \in {a, b} : x <= z /\ y >= z BY <1>1, <1>2
<1>4. Min({a, b}) = x BY <1>3 DEF Min
<1>5. Max({a, b}) = y BY <1>3 DEF Max
<1> QED BY <1>1, <1>2, <1>4, <1>5

\* The period that is looked at ends on one of the days considered.
LEMMA Period ==
  ASSUME NEW q \in Inquiry
  PROVE  /\ effective_lookahead(q) \in 0..LastDay /\ HorizonOf(q) \in Nat
         /\ DayOf(HorizonOf(q)) = effective_lookahead(q) /\ DayOf(q.now) = 0
         /\ DayOf(q.start) \in 0..LastDay /\ q.start \in Nat /\ q.now \in Nat
<1>1. /\ q.now \in 0..(DayLength - 1) /\ q.start \in 0..((LastDay + 1) * DayLength - 1)
      /\ q.lookahead \in 0..LastDay
  BY SlotBounds DEF Inquiry, Units
<1>2. DayOf(q.now) = 0
  <2>1. q.now \in Nat /\ 0 * DayLength <= q.now /\ q.now < 0 * DayLength + DayLength
    BY <1>1, SlotBounds
  <2> QED BY <2>1, DayIs
<1>3. (LastDay + 1) * DayLength = LastDay * DayLength + DayLength /\ LastDay * DayLength \in Nat
  BY SlotBounds
<1>4. q.start \in Nat /\ q.start < LastDay * DayLength + DayLength BY <1>1, <1>3, SlotBounds
<1>5. DayOf(q.start) \in 0..LastDay
  <2>1. PICK d \in Nat : d = DayOf(q.start) BY <1>4, DayHolds
  <2>2. d * DayLength <= q.start /\ d * DayLength \in Nat BY <1>4, <2>1, DayHolds
  <2>3. ~(LastDay < d) BY <1>3, <1>4, <2>2, DaysApart, SlotBounds
  <2> QED BY <2>1, <2>3, SlotBounds
<1>6. effective_lookahead(q) \in 0..LastDay
  <2>1. PICK d \in 0..LastDay : d = DayOf(q.start) BY <1>5
  <2>2. PICK n \in Int : n = Min({d - 0 + 1, Cap}) /\ n <= Cap
    BY OfTwo, SlotBounds
  <2>3. PICK m \in 0..LastDay : m = q.lookahead BY <1>1
  <2>4. Max({m, n}) = IF m >= n THEN m ELSE n BY OfTwo
  <2>5. Max({m, n}) \in 0..LastDay BY <2>2, <2>4, SlotBounds
  <2> QED BY <1>2, <2>1, <2>2, <2>3, <2>5 DEF effective_lookahead
<1>7. PICK l \in 0..LastDay : l = effective_lookahead(q) BY <1>6
<1>8. l * DayLength \in Nat BY SlotBounds
<1>9. HorizonOf(q) = q.now + l * DayLength BY <1>7 DEF HorizonOf
<1>10. HorizonOf(q) \in Nat /\ DayOf(HorizonOf(q)) = l
  BY <1>1, <1>8, <1>9, DayIs, SlotBounds
<1> QED BY <1>1, <1>2, <1>4, <1>5, <1>6, <1>7, <1>10, SlotBounds

\* The parsed rule is the stored one with a duration, and windows lie in their day.
LEMMA RuleIs ==
  ASSUME NEW q \in Inquiry
  PROVE  /\ RuleOf(q).duration = DurationOf(q) /\ DurationOf(q) \in Nat \ {0}
         /\ RuleOf(q).working_hours = q.rule.working_hours
         /\ RuleOf(q).service_days = q.rule.service_days
         /\ RuleOf(q).date_exceptions = q.rule.date_exceptions
         /\ RuleOf(q).lookahead = effective_lookahead(q)
<1>1. q.rule.duration \in Nat BY SlotBounds DEF Inquiry, RawRule
<1> QED BY <1>1 DEF RuleOf, parse_service_rule, DurationOf, DefaultDuration

LEMMA HoursAre ==
  ASSUME NEW q \in Inquiry, NEW d \in Nat
  PROVE  /\ DOMAIN HoursOf(q, d) \subseteq Nat
         /\ \A i \in DOMAIN HoursOf(q, d) : /\ HoursOf(q, d)[i][1] \in 0..DayLength
                                            /\ HoursOf(q, d)[i][2] \in 0..DayLength
<1>1. WeekdayOf(d) \in Weekday BY SlotBounds DEF WeekdayOf, Weekday
<1>2. q.rule.working_hours \in [Weekday -> Timetable] BY DEF Inquiry, RawRule
<1>3. HoursOf(q, d) \in Timetable BY <1>1, <1>2 DEF HoursOf
<1>4. PICK hours \in Seq((0..DayLength) \X (0..DayLength)) : hours = HoursOf(q, d)
  BY <1>3, SlotBounds
<1>5. DOMAIN hours \subseteq Nat /\ \A i \in DOMAIN hours : hours[i] \in (0..DayLength) \X (0..DayLength)
  OBVIOUS
<1> QED BY <1>4, <1>5

\* A visit fits a window when every unit of it does.
LEMMA BlockFits ==
  ASSUME NEW t \in Nat, NEW n \in Nat \ {0}, NEW opening \in Nat, NEW closing \in Nat
  PROVE  (opening <= t /\ t + n <= closing) <=> t..(t + n - 1) \subseteq opening..(closing - 1)
<1>1. t \in t..(t + n - 1) /\ t + n - 1 \in t..(t + n - 1)
  OBVIOUS
<1> QED BY <1>1

\* The checks accept a start exactly when the whole visit is worked and free.
LEMMA AcceptedIsBookable ==
  ASSUME NEW q \in Inquiry, NEW t \in Nat
  PROVE  Accepts(q, t) <=> Bookable(q, t)
<1> DEFINE end == t + DurationOf(q)
           midnight == DayOf(t) * DayLength
           hours == HoursOf(q, DayOf(t))
<1>1. /\ DurationOf(q) \in Nat \ {0} /\ midnight \in Nat /\ DayOf(t) \in Nat
      /\ HorizonOf(q) \in Nat /\ q.now \in Nat
  BY RuleIs, DayHolds, Period
<1>2. Accepts(q, t) <=>
        /\ ~(t < q.now) /\ ~(t >= HorizonOf(q))
        /\ DayOf(t) \notin q.rule.date_exceptions /\ WeekdayOf(DayOf(t)) \in q.rule.service_days
        /\ fits_in_a_window(t, end, hours)
        /\ ~\E b \in BusyOf(q) : overlaps(t, end, b)
  BY RuleIs DEF Accepts, compute_availability, HorizonOf, HoursOf
<1> HIDE DEF midnight
<1>3. fits_in_a_window(t, end, hours) <=>
        \E i \in DOMAIN hours :
          t..(t + DurationOf(q) - 1) \subseteq midnight + hours[i][1] .. midnight + hours[i][2] - 1
  <2>1. ASSUME NEW i \in DOMAIN hours
        PROVE  (midnight + hours[i][1] <= t /\ end <= midnight + hours[i][2]) <=>
                 t..(t + DurationOf(q) - 1)
                   \subseteq midnight + hours[i][1] .. midnight + hours[i][2] - 1
    <3>1. hours[i][1] \in 0..DayLength /\ hours[i][2] \in 0..DayLength
      BY <1>1, <2>1, HoursAre
    <3> DEFINE opening == midnight + hours[i][1]
               closing == midnight + hours[i][2]
    <3>2. opening \in Nat /\ closing \in Nat BY <1>1, <3>1
    <3> HIDE DEF opening, closing
    <3>3. (opening <= t /\ end <= closing)
            <=> t..(t + DurationOf(q) - 1) \subseteq opening..(closing - 1)
      BY <1>1, <3>2, BlockFits
    <3>4. closing - 1 = midnight + hours[i][2] - 1 BY <1>1, <3>1 DEF closing
    <3> QED BY <3>3, <3>4 DEF opening, closing
  <2> QED BY <2>1 DEF fits_in_a_window, midnight
<1>4. (t >= q.now /\ t < HorizonOf(q)) =>
        ((~\E b \in BusyOf(q) : overlaps(t, end, b)) <=>
         \A e \in q.events : e[1] < HorizonOf(q) =>
           t..(t + DurationOf(q) - 1) \cap (e[1]..(e[2] - 1)) = {})
  <2>1. ASSUME t >= q.now, t < HorizonOf(q), NEW e \in q.events
        PROVE  (e \in BusyOf(q) /\ overlaps(t, end, e)) <=>
                 /\ e[1] < HorizonOf(q)
                 /\ t..(t + DurationOf(q) - 1) \cap (e[1]..(e[2] - 1)) # {}
    <3>1. q.events \in Events BY DEF Inquiry
    <3>2. PICK from \in Int, to \in Int, n \in Nat \ {0} :
            from = e[1] /\ to = e[2] /\ from < to /\ n = DurationOf(q)
      BY <1>1, <2>1, <3>1, SlotBounds
    <3>3. (t < to /\ from < t + n) <=> t..(t + n - 1) \cap (from..(to - 1)) # {}
      <4>1. ASSUME t < to, from < t + n PROVE \E x \in t..(t + n - 1) : x \in from..(to - 1)
        <5>1. CASE from <= t BY <3>2, <4>1, <5>1
        <5>2. CASE t < from BY <3>2, <4>1, <5>2
        <5> QED BY <5>1, <5>2
      <4>2. ASSUME NEW x \in t..(t + n - 1), x \in from..(to - 1) PROVE t < to /\ from < t + n
        BY <4>2
      <4> QED BY <4>1, <4>2
    <3>4. e \in BusyOf(q) <=> from < HorizonOf(q) /\ q.now < to
      BY <2>1, <3>2 DEF BusyOf, query_busy_window
    <3>5. t < to => q.now < to BY <1>1, <2>1, <3>2
    <3> QED BY <3>2, <3>3, <3>4, <3>5 DEF overlaps
  <2>2. BusyOf(q) \subseteq q.events BY DEF BusyOf, query_busy_window
  <2> QED BY <2>1, <2>2
<1>5. Bookable(q, t) <=>
        /\ t >= q.now /\ t < HorizonOf(q)
        /\ WeekdayOf(DayOf(t)) \in q.rule.service_days /\ DayOf(t) \notin q.rule.date_exceptions
        /\ \E i \in DOMAIN hours :
             t..(t + DurationOf(q) - 1)
               \subseteq midnight + hours[i][1] .. midnight + hours[i][2] - 1
        /\ \A e \in q.events : e[1] < HorizonOf(q) =>
             t..(t + DurationOf(q) - 1) \cap (e[1]..(e[2] - 1)) = {}
  BY DEF Bookable, HoursOf, midnight
<1>6. (t < q.now <=> ~(t >= q.now)) /\ (t >= HorizonOf(q) <=> ~(t < HorizonOf(q))) BY <1>1
<1> HIDE DEF end, hours
<1> QED BY <1>2, <1>3, <1>4, <1>5, <1>6

\* A start that is tried lies in its window and its day, on the grid.
LEMMA TriedIsOnGrid ==
  ASSUME NEW q \in Inquiry, NEW d \in Nat, NEW i \in DOMAIN HoursOf(q, d), NEW t \in Tried(q, d, i)
  PROVE  /\ t \in Nat /\ DayOf(t) = d /\ OnGrid(q, t)
         /\ d * DayLength + HoursOf(q, d)[i][1] <= t
         /\ t + DurationOf(q) <= d * DayLength + HoursOf(q, d)[i][2]
<1>1. PICK o \in 0..DayLength, c \in 0..DayLength, n \in Nat \ {0}, m \in Nat :
        o = HoursOf(q, d)[i][1] /\ c = HoursOf(q, d)[i][2] /\ n = DurationOf(q)
        /\ m = d * DayLength
  BY HoursAre, RuleIs, SlotBounds
<1>2. t \in (m + o)..((m + c) - n) /\ (t - (m + o)) % n = 0
  BY <1>1, RuleIs DEF Tried, Candidates
<1>3. t \in Nat /\ m + o <= t /\ t + n <= m + c BY <1>2
<1>4. DayOf(t) = d
  <2>1. m <= t /\ t < m + DayLength BY <1>3, SlotBounds
  <2> QED BY <1>1, <1>3, <2>1, DayIs
<1>5. (t - m - o) % n = 0
  <2>1. t - m - o = t - (m + o) BY <1>1, <1>3, SlotBounds
  <2> QED BY <1>2, <2>1
<1>6. OnGrid(q, t) BY <1>1, <1>3, <1>4, <1>5 DEF OnGrid, HoursOf
<1> QED BY <1>1, <1>3, <1>4, <1>6

\* And every start of the grid is tried.
LEMMA GridIsTried ==
  ASSUME NEW q \in Inquiry, NEW t \in Nat, OnGrid(q, t)
  PROVE  \E i \in DOMAIN HoursOf(q, DayOf(t)) : t \in Tried(q, DayOf(t), i)
<1>1. PICK d \in Nat, m \in Nat, n \in Nat \ {0} :
        d = DayOf(t) /\ m = d * DayLength /\ n = DurationOf(q)
  BY DayHolds, RuleIs
<1>2. PICK i \in DOMAIN HoursOf(q, d) :
        /\ m + HoursOf(q, d)[i][1] <= t /\ t + n <= m + HoursOf(q, d)[i][2]
        /\ (t - m - HoursOf(q, d)[i][1]) % n = 0
  BY <1>1 DEF OnGrid, HoursOf
<1>3. PICK o \in 0..DayLength, c \in 0..DayLength :
        o = HoursOf(q, d)[i][1] /\ c = HoursOf(q, d)[i][2]
  BY <1>2, HoursAre
<1>4. t \in (m + o)..((m + c) - n)
  <2>1. m + o <= t /\ t + n <= m + c BY <1>2, <1>3
  <2> QED BY <2>1
<1>5. (t - (m + o)) % n = 0
  <2>1. t - m - o = t - (m + o) BY <1>1, <1>3, SlotBounds
  <2> QED BY <1>2, <1>3, <2>1
<1>6. t \in Tried(q, d, i) BY <1>1, <1>3, <1>4, <1>5, RuleIs DEF Tried, Candidates
<1> QED BY <1>1, <1>6

\* What the search goes through and finds.
FirstDay(q) == DayOf(q.start)
FinalDay(q) == DayOf(q.now) + effective_lookahead(q)
FreeWindows(q, d) == {i \in DOMAIN HoursOf(q, d) : Free(q, d, i) # {}}
FreeDays(q) == {d \in FirstDay(q)..FinalDay(q) : FreeWindows(q, d) # {}}
Offer(q) == find_earliest_slot(q.now, FirstDay(q), FinalDay(q), BusyOf(q), RuleOf(q))
FirstWindow(q, d) == Min(FreeWindows(q, d))

\* The search goes over days considered, to the day its period ends on.
LEMMA SearchDays ==
  ASSUME NEW q \in Inquiry
  PROVE  /\ FirstDay(q) \in Nat /\ FinalDay(q) \in 0..LastDay
         /\ FinalDay(q) = DayOf(HorizonOf(q))
BY Period, SlotBounds DEF FirstDay, FinalDay

\* The starts of the grid are those free in a window of a day searched.
LEMMA GridIsFree ==
  ASSUME NEW q \in Inquiry, NEW t \in Grid(q)
  PROVE  /\ DayOf(t) \in FreeDays(q) /\ t \in Nat
         /\ \E i \in FreeWindows(q, DayOf(t)) : t \in Free(q, DayOf(t), i)
<1>1. t \in Nat /\ OnGrid(q, t) /\ Bookable(q, t) BY SlotBounds DEF Grid, Units
<1>2. DayOf(t) \in FirstDay(q)..FinalDay(q)
  BY <1>1, DayHolds, SearchDays DEF Grid, FirstDay
<1>3. PICK i \in DOMAIN HoursOf(q, DayOf(t)) : t \in Tried(q, DayOf(t), i)
  BY <1>1, GridIsTried
<1>4. t \in Free(q, DayOf(t), i) BY <1>1, <1>3, AcceptedIsBookable DEF Free
<1>5. i \in FreeWindows(q, DayOf(t)) BY <1>4 DEF FreeWindows
<1> QED BY <1>1, <1>2, <1>4, <1>5 DEF FreeDays

LEMMA FreeIsGrid ==
  ASSUME NEW q \in Inquiry, NEW d \in FirstDay(q)..FinalDay(q),
         NEW i \in DOMAIN HoursOf(q, d), NEW t \in Free(q, d, i)
  PROVE  t \in Grid(q)
<1>1. d \in Nat /\ d <= LastDay BY SearchDays, SlotBounds
<1>2. t \in Tried(q, d, i) /\ Accepts(q, t) BY DEF Free
<1>3. t \in Nat /\ DayOf(t) = d /\ OnGrid(q, t) BY <1>1, <1>2, TriedIsOnGrid
<1>4. Bookable(q, t) BY <1>2, <1>3, AcceptedIsBookable
<1>5. t \in Units
  <2>1. t < d * DayLength + DayLength /\ d * DayLength \in Nat BY <1>3, DayHolds
  <2>2. d * DayLength <= LastDay * DayLength
    <3>1. CASE d = LastDay BY <2>1, <3>1
    <3>2. CASE d < LastDay
      <4>1. d * DayLength + DayLength <= LastDay * DayLength BY <1>1, <3>2, DaysApart, SlotBounds
      <4> QED BY <2>1, <4>1, SlotBounds
    <3> QED BY <1>1, <3>1, <3>2, SlotBounds
  <2>3. (LastDay + 1) * DayLength = LastDay * DayLength + DayLength /\ LastDay * DayLength \in Nat
    BY SlotBounds
  <2> QED BY <1>3, <2>1, <2>2, <2>3, SlotBounds DEF Units
<1>6. DayOf(t) >= DayOf(q.start) /\ DayOf(t) <= DayOf(HorizonOf(q))
  BY <1>1, <1>3, SearchDays DEF FirstDay
<1> QED BY <1>3, <1>4, <1>5, <1>6 DEF Grid

\* The search is for the first start of the first window of the first day.
LEMMA OfferIs ==
  ASSUME NEW q \in Inquiry
  PROVE  Offer(q) = IF FreeDays(q) = {} THEN -1
                    ELSE Min(Free(q, Min(FreeDays(q)), FirstWindow(q, Min(FreeDays(q)))))
<1> DEFINE hours(d) == RuleOf(q).working_hours[WeekdayOf(d)]
           free(d, i) == {t \in Candidates(d, hours(d)[i], RuleOf(q)) :
                            compute_availability(q.now, t, BusyOf(q), RuleOf(q)) = "available"}
           days == {d \in FirstDay(q)..FinalDay(q) : \E i \in DOMAIN hours(d) : free(d, i) # {}}
           windows(d) == {i \in DOMAIN hours(d) : free(d, i) # {}}
<1>1. \A d : hours(d) = HoursOf(q, d) BY RuleIs DEF HoursOf
<1>2. \A d, i : free(d, i) = Free(q, d, i)
  BY <1>1 DEF Free, Tried, Accepts
<1>3. \A d : windows(d) = FreeWindows(q, d) BY <1>1, <1>2 DEF FreeWindows
<1>4. days = FreeDays(q)
  <2>1. \A d : (\E i \in DOMAIN hours(d) : free(d, i) # {}) <=> FreeWindows(q, d) # {}
    BY <1>3
  <2> QED BY <2>1 DEF FreeDays
<1>5. Offer(q) = IF days = {} THEN -1 ELSE Min(free(Min(days), Min(windows(Min(days)))))
  BY DEF Offer, find_earliest_slot
<1> HIDE DEF hours, free, days, windows
<1> QED BY <1>2, <1>3, <1>4, <1>5 DEF FirstWindow

\* What is found is a start of the grid, on the first day that has one.
LEMMA OfferIsFirst ==
  ASSUME NEW q \in Inquiry, Grid(q) # {}
  PROVE  /\ Offer(q) \in Grid(q)
         /\ \A t \in Grid(q) : DayOf(t) >= DayOf(Offer(q))
         /\ LET hours == HoursOf(q, DayOf(Offer(q)))
            IN (\A i, j \in DOMAIN hours : i < j => hours[i][2] <= hours[j][1])
                 => \A t \in Grid(q) : Offer(q) <= t
<1>1. FreeDays(q) # {} BY GridIsFree
<1>2. FreeDays(q) \subseteq Nat BY SearchDays DEF FreeDays
<1>3. PICK day \in FreeDays(q) : day = Min(FreeDays(q)) /\ \A d \in FreeDays(q) : day <= d
  BY <1>1, <1>2, MinOfNumbers
<1>4. day \in Nat /\ day \in FirstDay(q)..FinalDay(q) /\ FreeWindows(q, day) # {}
  BY <1>2, <1>3 DEF FreeDays
<1>5. FreeWindows(q, day) \subseteq Nat BY <1>4, HoursAre DEF FreeWindows
<1>6. PICK w \in FreeWindows(q, day) :
        w = FirstWindow(q, day) /\ \A i \in FreeWindows(q, day) : w <= i
  BY <1>4, <1>5, MinOfNumbers DEF FirstWindow
<1>7. w \in DOMAIN HoursOf(q, day) /\ Free(q, day, w) # {} /\ w \in Nat
  BY <1>5, <1>6 DEF FreeWindows
<1>8. Free(q, day, w) \subseteq Nat BY <1>4, <1>7, TriedIsOnGrid DEF Free
<1>9. PICK o \in Free(q, day, w) :
        o = Min(Free(q, day, w)) /\ \A t \in Free(q, day, w) : o <= t
  BY <1>7, <1>8, MinOfNumbers
<1>10. Offer(q) = o BY <1>1, <1>3, <1>6, <1>9, OfferIs
<1>11. o \in Nat /\ DayOf(o) = day
       /\ o + DurationOf(q) <= day * DayLength + HoursOf(q, day)[w][2]
  BY <1>4, <1>7, <1>9, TriedIsOnGrid DEF Free
<1>12. o \in Grid(q) BY <1>4, <1>7, <1>9, FreeIsGrid
<1>13. ASSUME NEW t \in Grid(q) PROVE DayOf(t) >= day
  <2>1. DayOf(t) \in FreeDays(q) BY GridIsFree
  <2> QED BY <1>2, <1>3, <2>1
<1>14. ASSUME NEW t \in Grid(q),
              \A i, j \in DOMAIN HoursOf(q, day) :
                i < j => HoursOf(q, day)[i][2] <= HoursOf(q, day)[j][1]
       PROVE  o <= t
  <2>1. t \in Nat /\ \E i \in FreeWindows(q, DayOf(t)) : t \in Free(q, DayOf(t), i)
    BY GridIsFree
  <2>2. CASE DayOf(t) = day
    <3>1. PICK i \in FreeWindows(q, day) : t \in Free(q, day, i) BY <2>1, <2>2
    <3>2. i \in DOMAIN HoursOf(q, day) /\ i \in Nat /\ w <= i
      BY <1>5, <1>6, <3>1 DEF FreeWindows
    <3>3. CASE i = w BY <1>9, <3>1, <3>3
    <3>4. CASE w < i
      <4>1. day * DayLength + HoursOf(q, day)[i][1] <= t
        BY <1>4, <3>1, <3>2, TriedIsOnGrid DEF Free
      <4>2. HoursOf(q, day)[w][2] <= HoursOf(q, day)[i][1] BY <1>7, <1>14, <3>2, <3>4
      <4>3. PICK m \in Nat, c \in 0..DayLength, p \in 0..DayLength, n \in Nat \ {0} :
              /\ m = day * DayLength /\ n = DurationOf(q)
              /\ c = HoursOf(q, day)[w][2] /\ p = HoursOf(q, day)[i][1]
        <5>1. day * DayLength \in Nat BY <1>4, SlotBounds
        <5>2. HoursOf(q, day)[w][2] \in 0..DayLength /\ HoursOf(q, day)[i][1] \in 0..DayLength
          BY <1>4, <1>7, <3>2, HoursAre
        <5> QED BY <5>1, <5>2, RuleIs
      <4>4. o + n <= m + c /\ c <= p /\ m + p <= t BY <1>11, <4>1, <4>2, <4>3
      <4> QED BY <1>11, <2>1, <4>4
    <3> QED BY <1>7, <3>2, <3>3, <3>4
  <2>3. CASE day < DayOf(t)
    <3>1. o < day * DayLength + DayLength BY <1>11, DayHolds
    <3>2. day * DayLength + DayLength <= DayOf(t) * DayLength
      BY <1>4, <2>1, <2>3, DayHolds, DaysApart
    <3>3. DayOf(t) * DayLength <= t /\ DayOf(t) * DayLength \in Nat BY <2>1, DayHolds
    <3>4. day * DayLength \in Nat BY <1>4, SlotBounds
    <3> QED BY <1>11, <2>1, <3>1, <3>2, <3>3, <3>4, SlotBounds
  <2> QED BY <1>4, <1>13, <2>1, <2>2, <2>3, DayHolds
<1> QED BY <1>10, <1>11, <1>12, <1>13, <1>14

\* Nothing is found only where there is nothing.
LEMMA NoneIsFound ==
  ASSUME NEW q \in Inquiry, Grid(q) = {}
  PROVE  Offer(q) = -1
<1>1. ASSUME NEW d \in FreeDays(q) PROVE FALSE
  <2>1. d \in FirstDay(q)..FinalDay(q) /\ FreeWindows(q, d) # {} BY DEF FreeDays
  <2>2. PICK i \in DOMAIN HoursOf(q, d) : Free(q, d, i) # {} BY <2>1 DEF FreeWindows
  <2>3. PICK t : t \in Free(q, d, i) BY <2>2
  <2> QED BY <2>1, <2>2, <2>3, FreeIsGrid
<1> QED BY <1>1, OfferIs

\* An answer that was computed from the inquiry is right about it.
LEMMA AnswerIsRight ==
  ASSUME inquiry \in Inquiry, slotAnswer = requested_availability(inquiry)
  PROVE  SlotAnswersAreRight
<1> DEFINE q == inquiry
<1>1. slotAnswer = IF Accepts(q, q.start) THEN [status |-> "available", alternative |-> -1]
                   ELSE [status |-> compute_availability(q.now, q.start, BusyOf(q), RuleOf(q)),
                         alternative |-> Offer(q)]
  BY DEF requested_availability, Accepts, Offer, FirstDay, FinalDay, BusyOf, RuleOf, HorizonOf
<1>2. Accepts(q, q.start) <=> Bookable(q, q.start) BY Period, AcceptedIsBookable
<1>3. slotAnswer.status = "available" <=> Accepts(q, q.start) BY <1>1 DEF Accepts
<1>4. ASSUME slotAnswer.status # "available" PROVE slotAnswer.alternative = Offer(q)
  BY <1>1, <1>3, <1>4
<1>5. CASE slotAnswer.status = "available"
  BY <1>2, <1>3, <1>5 DEF SlotAnswersAreRight
<1>6. CASE slotAnswer.status # "available"
  <2>1. CASE Grid(q) = {}
    BY <1>2, <1>3, <1>4, <1>6, <2>1, NoneIsFound DEF SlotAnswersAreRight
  <2>2. CASE Grid(q) # {}
    BY <1>2, <1>3, <1>4, <1>6, <2>2, OfferIsFirst DEF SlotAnswersAreRight, HoursOf
  <2> QED BY <2>1, <2>2
<1> QED BY <1>5, <1>6

\* The invariant of the answers: one that was given is the one computed.
LEMMA SlotInvariant == SlotSpec => []SlotInv
<1>1. SlotInit => SlotInv BY DEF SlotInit, SlotInv, Inquiry
<1>2. SlotInv /\ [AnswerInquiry]_slotVars => SlotInv'
  BY DEF SlotInv, AnswerInquiry, slotVars, requested_availability
<1> QED BY <1>1, <1>2, PTL DEF SlotSpec

\* For any rule whose windows lie in their day, any events and any lengths of day
\* and week: what compute_availability accepts is worked and free to its last unit,
\* and find_earliest_slot offers a start of the first day that has one, the first of
\* the day if the rule lists its windows in order, and none only if there is none.
THEOREM SlotsAreRight == SlotSpec => []SlotAnswersAreRight
<1>1. SlotInv => SlotAnswersAreRight
  BY AnswerIsRight DEF SlotInv, SlotAnswersAreRight
<1> QED BY <1>1, SlotInvariant, PTL
=============================================================================
