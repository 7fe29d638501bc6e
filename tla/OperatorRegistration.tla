------------------------ MODULE OperatorRegistration ------------------------
(* One person asks to become an operator; the platform admin approves or      *)
(* rejects in the bot, or creates the account directly.                       *)
EXTENDS Integers, FiniteSets

CONSTANTS Ruling,      \* taps of the admin that may be under way
          MaxAsk       \* bound: requests of the person

ASSUME RegistrationBounds == MaxAsk \in Nat \ {0}

VARIABLES registration,         \* operator_registration_requests, in the order of ids
          account,     \* the person's row in operators
          ruling,      \* the handling of each tap
          registrationLog  \* ghost: what the person was told of each request

registrationVars == <<registration, account, ruling, registrationLog>>

Ask == 1..MaxAsk
NoRuling == [pc |-> "idle", ask |-> 0, verdict |-> "none"]

RegistrationInit ==
  /\ registration = [a \in Ask |-> [status |-> "none", cooling |-> FALSE]]
  /\ account = [of |-> -1, active |-> FALSE]
  /\ ruling = [r \in Ruling |-> NoRuling]
  /\ registrationLog = [told |-> [a \in Ask |-> {}], unfounded |-> {}]

HasAccount == account.of # -1
Asked == {a \in Ask : registration[a].status # "none"}
Refusing == \E a \in Asked : /\ \A b \in Asked : b <= a
                             /\ \/ registration[a].status = "pending"
                                \/ registration[a].status = "rejected" /\ registration[a].cooling

\* "/register": not for an operator, nor while the latest request is pending or
\* its rejection is recent. The request stays when telling the admin fails.
create_request ==
  /\ ~HasAccount /\ ~Refusing
  /\ \E a \in Ask \ Asked : /\ \A b \in Ask \ Asked : a <= b
                            /\ registration' = [registration EXCEPT ![a].status = "pending"]
  /\ UNCHANGED <<account, ruling, registrationLog>>

CooldownEnds(a) ==
  /\ registration[a].cooling
  /\ registration' = [registration EXCEPT ![a].cooling = FALSE]
  /\ UNCHANGED <<account, ruling, registrationLog>>

\* A tap, or the retry of one: the buttons stay until a decision is confirmed.
Tap(r, a, verdict) ==
  /\ ruling[r].pc = "idle" /\ registration[a].status # "none"
  /\ ruling' = [ruling EXCEPT ![r] = [pc |-> "decide", ask |-> a, verdict |-> verdict]]
  /\ UNCHANGED <<registration, account, registrationLog>>

Ruled(r, pc) == ruling' = [ruling EXCEPT ![r].pc = pc]
EndRuling(r) == ruling' = [ruling EXCEPT ![r] = NoRuling]

\* In one transaction with the check that the request is pending. A person who
\* has an account by now is a conflict and the request stays pending.
approve(r) ==
  LET a == ruling[r].ask IN
  /\ ruling[r].pc = "decide" /\ ruling[r].verdict = "approved"
  /\ IF registration[a].status = "pending" /\ ~HasAccount
       THEN /\ registration' = [registration EXCEPT ![a].status = "approved"]
            /\ account' = [of |-> a, active |-> TRUE]
            /\ Ruled(r, "onboard")
       ELSE /\ EndRuling(r)
            /\ UNCHANGED <<registration, account>>
  /\ UNCHANGED registrationLog

Tell(a, what) == registrationLog' = [registrationLog EXCEPT !.told[a] = @ \cup {what}]

\* The api sends the next steps before it answers; when that fails the bot hears
\* of an error, and the person nothing.
send_onboarding_dm(r) ==
  /\ ruling[r].pc = "onboard"
  /\ \/ Ruled(r, "tell") /\ Tell(ruling[r].ask, "approved")
     \/ EndRuling(r) /\ UNCHANGED registrationLog
  /\ UNCHANGED <<registration, account>>

(* Mutant: reject does not look whether the request is pending. *)
reject_anyway(r) ==
  LET a == ruling[r].ask IN
  /\ ruling[r].pc = "decide" /\ ruling[r].verdict = "rejected"
  /\ registration' = [registration EXCEPT ![a] = [status |-> "rejected", cooling |-> TRUE]]
  /\ Ruled(r, "tell")
  /\ UNCHANGED <<account, registrationLog>>

reject(r) ==
  LET a == ruling[r].ask IN
  /\ ruling[r].pc = "decide" /\ ruling[r].verdict = "rejected"
  /\ IF registration[a].status = "pending"
       THEN /\ registration' = [registration EXCEPT ![a] = [status |-> "rejected", cooling |-> TRUE]]
            /\ Ruled(r, "tell")
       ELSE EndRuling(r) /\ UNCHANGED registration
  /\ UNCHANGED <<account, registrationLog>>

\* The bot's DM to the person; the answer of the api or the DM may get lost.
TellApplicant(r) ==
  /\ ruling[r].pc = "tell"
  /\ \/ Tell(ruling[r].ask, ruling[r].verdict)
     \/ UNCHANGED registrationLog
  /\ EndRuling(r)
  /\ UNCHANGED <<registration, account>>

\* Both DMs can be asked for again; that of a rejection does not look whether
\* the request was rejected.
onboarding_notify(a) ==
  /\ registration[a].status = "approved"
  /\ Tell(a, "approved")
  /\ UNCHANGED <<registration, account, ruling>>

notify_rejected_registration(a) ==
  /\ registration[a].status # "none"
  /\ registrationLog' = [registrationLog EXCEPT
       !.told[a] = @ \cup {"rejected"},
       !.unfounded = IF registration[a].status = "rejected" THEN @ ELSE @ \cup {a}]
  /\ UNCHANGED <<registration, account, ruling>>

create_operator ==
  /\ ~HasAccount
  /\ account' = [of |-> 0, active |-> TRUE]
  /\ UNCHANGED <<registration, ruling, registrationLog>>

\* Accounts are switched off and on, never deleted.
patch_operator ==
  /\ HasAccount
  /\ account' = [account EXCEPT !.active = ~@]
  /\ UNCHANGED <<registration, ruling, registrationLog>>

RegistrationNext ==
  \/ create_request \/ create_operator \/ patch_operator
  \/ \E a \in Ask : \/ CooldownEnds(a) \/ onboarding_notify(a)
                    \/ notify_rejected_registration(a)
  \/ \E r \in Ruling : \/ \E a \in Ask, v \in {"approved", "rejected"} : Tap(r, a, v)
                       \/ approve(r) \/ send_onboarding_dm(r) \/ reject(r)
                       \/ TellApplicant(r)

RegistrationSpec == RegistrationInit /\ [][RegistrationNext]_registrationVars

-----------------------------------------------------------------------------
\* However often and in whatever order the admin taps, a person is not told both
\* verdicts on a request, and is told of an approval only with an account that
\* this request opened and of a rejection only without one. A rejection told
\* through the endpoint that does not check is set aside.
DecisionIsFinal ==
  \A a \in Ask \ registrationLog.unfounded :
    /\ registrationLog.told[a] \subseteq {registration[a].status}
    /\ "approved" \in registrationLog.told[a] => account.of = a
    /\ "rejected" \in registrationLog.told[a] => account.of # a
=============================================================================
