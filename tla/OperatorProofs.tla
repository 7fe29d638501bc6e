--------------------------- MODULE OperatorProofs ----------------------------
(* Proofs about the two ways an operator joins: a person is told one verdict  *)
(* on a request to register, the one that counts, and each Telegram client of *)
(* the operator's own account delivers a message to the queue once.           *)
EXTENDS OperatorRegistration, OperatorChannel, FiniteSetTheorems, SequenceTheorems, TLAPS

(* Requests to register. *)

Verdict == {"approved", "rejected"}
AskRow == [status : Verdict \cup {"none", "pending"}, cooling : BOOLEAN]
RulingRow == [pc : {"idle", "decide", "onboard", "tell"}, ask : Ask \cup {0},
              verdict : Verdict \cup {"none"}]

RegistrationTypeOK ==
  /\ registration \in [Ask -> AskRow]
  /\ account \in [of : Ask \cup {-1, 0}, active : BOOLEAN]
  /\ ruling \in [Ruling -> RulingRow]
  /\ registrationLog \in [told : [Ask -> SUBSET Verdict], unfounded : SUBSET Ask]

\* The account is that of the approved request, if any is approved.
AccountIsOfTheApproved ==
  \A a \in Ask : account.of = a <=> registration[a].status = "approved"

\* A tap that has passed its check announces what the request has become.
RulingsAreDecided ==
  \A r \in Ruling :
    /\ ruling[r].pc # "idle" => ruling[r].ask \in Ask /\ ruling[r].verdict \in Verdict
    /\ ruling[r].pc = "onboard" => /\ ruling[r].verdict = "approved"
                                   /\ registration[ruling[r].ask].status = "approved"
    /\ ruling[r].pc = "tell" => registration[ruling[r].ask].status = ruling[r].verdict

ToldIsDecided ==
  \A a \in Ask \ registrationLog.unfounded :
    registrationLog.told[a] \subseteq {registration[a].status}

RegistrationInv ==
  RegistrationTypeOK /\ AccountIsOfTheApproved /\ RulingsAreDecided /\ ToldIsDecided

LEMMA InitRegistration == RegistrationInit => RegistrationInv
<1> SUFFICES ASSUME RegistrationInit PROVE RegistrationInv
  OBVIOUS
<1>1. RegistrationTypeOK
  BY DEF RegistrationInit, RegistrationTypeOK, AskRow, RulingRow, NoRuling
<1>2. AccountIsOfTheApproved
  BY RegistrationBounds DEF RegistrationInit, AccountIsOfTheApproved, Ask
<1>3. RulingsAreDecided /\ ToldIsDecided
  BY DEF RegistrationInit, RulingsAreDecided, ToldIsDecided, NoRuling
<1> QED
  BY <1>1, <1>2, <1>3 DEF RegistrationInv

\* A tap's handling rests, ends, or goes on with what its request a has become.
TapFits(r, a, row) ==
  \/ ruling'[r] = ruling[r]
  \/ ruling'[r].pc = "idle"
  \/ /\ ruling'[r].ask = a /\ ruling'[r].verdict \in Verdict
     /\ ruling'[r].pc = "onboard" =>
          row.status = "approved" /\ ruling'[r].verdict = "approved"
     /\ ruling'[r].pc = "tell" => row.status = ruling'[r].verdict

\* A request that is not decided may change, to a status that suits the account;
\* decided ones stay, and with them what has been told and is to be told.
LEMMA StatusKeeps ==
  ASSUME RegistrationInv, NEW a \in Ask, NEW row \in AskRow,
         registration' = [registration EXCEPT ![a] = row],
         registration[a].status \in Verdict => row.status = registration[a].status,
         account' \in [of : Ask \cup {-1, 0}, active : BOOLEAN],
         AccountIsOfTheApproved',
         ruling' \in [Ruling -> RulingRow],
         \A r \in Ruling : TapFits(r, a, row),
         UNCHANGED registrationLog
  PROVE  RegistrationInv'
<1>1. RegistrationTypeOK'
  BY DEF RegistrationInv, RegistrationTypeOK
<1>2. \A b \in Ask : registration[b].status \in Verdict =>
                       registration'[b].status = registration[b].status
  BY DEF RegistrationInv, RegistrationTypeOK
<1>3. RulingsAreDecided'
  <2> SUFFICES ASSUME NEW r \in Ruling
               PROVE  /\ ruling'[r].pc # "idle" =>
                           ruling'[r].ask \in Ask /\ ruling'[r].verdict \in Verdict
                      /\ ruling'[r].pc = "onboard" =>
                           /\ ruling'[r].verdict = "approved"
                           /\ registration'[ruling'[r].ask].status = "approved"
                      /\ ruling'[r].pc = "tell" =>
                           registration'[ruling'[r].ask].status = ruling'[r].verdict
    BY DEF RulingsAreDecided
  <2>1. registration'[a] = row
    BY DEF RegistrationInv, RegistrationTypeOK
  <2>2. CASE ruling'[r] = ruling[r]
    BY <1>2, <2>2 DEF RegistrationInv, RulingsAreDecided, Verdict
  <2>3. CASE ruling'[r].pc = "idle"
    BY <2>3
  <2>4. CASE /\ ruling'[r].ask = a /\ ruling'[r].verdict \in Verdict
             /\ ruling'[r].pc = "onboard" =>
                  row.status = "approved" /\ ruling'[r].verdict = "approved"
             /\ ruling'[r].pc = "tell" => row.status = ruling'[r].verdict
    BY <2>1, <2>4
  <2> QED
    BY <2>2, <2>3, <2>4 DEF TapFits
<1>4. ToldIsDecided'
  BY <1>2 DEF RegistrationInv, RegistrationTypeOK, ToldIsDecided
<1> QED
  BY <1>1, <1>3, <1>4 DEF RegistrationInv

\* Telling a verdict is sound if the request is so decided, or set aside.
LEMMA TellingKeeps ==
  ASSUME RegistrationInv, NEW a \in Ask, NEW what \in Verdict,
         registrationLog'.told = [registrationLog.told EXCEPT ![a] = @ \cup {what}],
         registrationLog'.unfounded \in SUBSET Ask,
         registrationLog.unfounded \subseteq registrationLog'.unfounded,
         registration[a].status = what \/ a \in registrationLog'.unfounded,
         registrationLog' \in [told : [Ask -> SUBSET Verdict], unfounded : SUBSET Ask],
         UNCHANGED <<registration, account>>,
         RulingsAreDecided', ruling' \in [Ruling -> RulingRow]
  PROVE  RegistrationInv'
<1>1. RegistrationTypeOK' /\ AccountIsOfTheApproved'
  BY DEF RegistrationInv, RegistrationTypeOK, AccountIsOfTheApproved
<1>2. ToldIsDecided'
  BY DEF RegistrationInv, RegistrationTypeOK, ToldIsDecided
<1> QED
  BY <1>1, <1>2 DEF RegistrationInv

LEMMA TellType ==
  ASSUME RegistrationInv, NEW a \in Ask, NEW what \in Verdict, Tell(a, what)
  PROVE  /\ registrationLog'.told = [registrationLog.told EXCEPT ![a] = @ \cup {what}]
         /\ registrationLog'.unfounded = registrationLog.unfounded
         /\ registrationLog' \in [told : [Ask -> SUBSET Verdict], unfounded : SUBSET Ask]
BY DEF Tell, RegistrationInv, RegistrationTypeOK

\* What becomes of the handling of a tap: a step, or its end.
LEMMA RulingSteps ==
  ASSUME RegistrationInv, NEW r \in Ruling
  PROVE  /\ EndRuling(r) => /\ ruling' \in [Ruling -> RulingRow]
                            /\ \A q \in Ruling : ruling'[q] = ruling[q] \/ ruling'[q].pc = "idle"
         /\ \A pc \in {"onboard", "tell"} :
              Ruled(r, pc) => /\ ruling' \in [Ruling -> RulingRow]
                              /\ \A q \in Ruling : q # r => ruling'[q] = ruling[q]
                              /\ ruling'[r].pc = pc
                              /\ ruling'[r].ask = ruling[r].ask
                              /\ ruling'[r].verdict = ruling[r].verdict
<1>1. NoRuling \in RulingRow /\ NoRuling.pc = "idle"
  BY DEF NoRuling, RulingRow
<1>2. ruling \in [Ruling -> RulingRow] /\ ruling[r] \in RulingRow
  BY DEF RegistrationInv, RegistrationTypeOK
<1>3. ASSUME EndRuling(r)
      PROVE  /\ ruling' \in [Ruling -> RulingRow]
             /\ \A q \in Ruling : ruling'[q] = ruling[q] \/ ruling'[q].pc = "idle"
  BY <1>1, <1>2, <1>3 DEF EndRuling
<1>4. ASSUME NEW pc \in {"onboard", "tell"}, Ruled(r, pc)
      PROVE  /\ ruling' \in [Ruling -> RulingRow]
             /\ \A q \in Ruling : q # r => ruling'[q] = ruling[q]
             /\ ruling'[r].pc = pc
             /\ ruling'[r].ask = ruling[r].ask
             /\ ruling'[r].verdict = ruling[r].verdict
  <2> DEFINE row == [ruling[r] EXCEPT !.pc = pc]
  <2>1. row \in RulingRow /\ row.pc = pc /\ row.ask = ruling[r].ask
        /\ row.verdict = ruling[r].verdict
    BY <1>2 DEF RulingRow
  <2>2. ruling' = [ruling EXCEPT ![r] = row]
    BY <1>4 DEF Ruled
  <2> HIDE DEF row
  <2> QED
    BY <1>2, <2>1, <2>2
<1> QED
  BY <1>3, <1>4

LEMMA RequestsKeep ==
  ASSUME RegistrationInv,
         create_request \/ \E a \in Ask : CooldownEnds(a)
  PROVE  RegistrationInv'
<1>1. CASE create_request
  <2>1. PICK a \in Ask \ Asked : registration' = [registration EXCEPT ![a].status = "pending"]
    BY <1>1 DEF create_request
  <2> DEFINE row == [registration[a] EXCEPT !.status = "pending"]
  <2>2. registration[a] \in AskRow /\ registration[a].status = "none"
    BY DEF Asked, RegistrationInv, RegistrationTypeOK
  <2>3. row \in AskRow /\ row.status = "pending"
    BY <2>2 DEF AskRow
  <2>4. registration' = [registration EXCEPT ![a] = row]
    BY <2>1
  <2>5. UNCHANGED <<account, ruling, registrationLog>>
    BY <1>1 DEF create_request
  <2> HIDE DEF row
  <2>6. AccountIsOfTheApproved'
    BY <2>2, <2>3, <2>4, <2>5 DEF RegistrationInv, RegistrationTypeOK, AccountIsOfTheApproved
  <2>7. registration[a].status \notin Verdict
    BY <2>2 DEF Verdict
  <2> QED
    BY <2>3, <2>4, <2>5, <2>6, <2>7, StatusKeeps DEF RegistrationInv, RegistrationTypeOK, TapFits
<1>2. ASSUME NEW a \in Ask, CooldownEnds(a) PROVE RegistrationInv'
  <2> DEFINE row == [registration[a] EXCEPT !.cooling = FALSE]
  <2>1. row \in AskRow /\ row.status = registration[a].status
    BY DEF AskRow, RegistrationInv, RegistrationTypeOK
  <2>2. /\ registration' = [registration EXCEPT ![a] = row]
        /\ UNCHANGED <<account, ruling, registrationLog>>
    BY <1>2 DEF CooldownEnds
  <2> HIDE DEF row
  <2>3. AccountIsOfTheApproved'
    BY <2>1, <2>2 DEF RegistrationInv, RegistrationTypeOK, AccountIsOfTheApproved
  <2> QED
    BY <2>1, <2>2, <2>3, StatusKeeps DEF RegistrationInv, RegistrationTypeOK, TapFits
<1> QED
  BY <1>1, <1>2

LEMMA DecidingKeeps ==
  ASSUME RegistrationInv, NEW r \in Ruling
  PROVE  /\ \A a \in Ask, verdict \in Verdict : Tap(r, a, verdict) => RegistrationInv'
         /\ approve(r) => RegistrationInv'
         /\ reject(r) => RegistrationInv'
<1> DEFINE a == ruling[r].ask
<1>0. /\ registration \in [Ask -> AskRow]
      /\ ruling \in [Ruling -> RulingRow]
      /\ account \in [of : Ask \cup {-1, 0}, active : BOOLEAN]
  BY DEF RegistrationInv, RegistrationTypeOK
<1>1. ASSUME NEW b \in Ask, NEW verdict \in Verdict, Tap(r, b, verdict)
      PROVE  RegistrationInv'
  <2> DEFINE new == [pc |-> "decide", ask |-> b, verdict |-> verdict]
  <2>1. new \in RulingRow /\ new.pc = "decide" /\ new.ask = b /\ new.verdict = verdict
    BY DEF RulingRow
  <2>2. /\ ruling' = [ruling EXCEPT ![r] = new]
        /\ UNCHANGED <<registration, account, registrationLog>>
    BY <1>1 DEF Tap
  <2> HIDE DEF new
  <2>3. RulingsAreDecided'
    BY <1>0, <2>1, <2>2 DEF RegistrationInv, RulingsAreDecided
  <2> QED
    BY <1>0, <2>1, <2>2, <2>3
       DEF RegistrationInv, RegistrationTypeOK, AccountIsOfTheApproved, ToldIsDecided
<1>2. ASSUME EndRuling(r), UNCHANGED <<registration, account, registrationLog>>
      PROVE  RegistrationInv'
  <2>1. /\ ruling' \in [Ruling -> RulingRow]
        /\ \A q \in Ruling : ruling'[q] = ruling[q] \/ ruling'[q].pc = "idle"
    BY <1>2, RulingSteps
  <2>2. RulingsAreDecided'
    BY <1>2, <2>1 DEF RegistrationInv, RulingsAreDecided
  <2> QED
    BY <1>2, <2>1, <2>2
       DEF RegistrationInv, RegistrationTypeOK, AccountIsOfTheApproved, ToldIsDecided
<1>3. ASSUME approve(r) PROVE RegistrationInv'
  <2>1. a \in Ask
    BY <1>3 DEF approve, RegistrationInv, RulingsAreDecided
  <2>2. CASE registration[a].status = "pending" /\ ~HasAccount
    <3> DEFINE row == [registration[a] EXCEPT !.status = "approved"]
    <3>1. row \in AskRow /\ row.status = "approved"
      BY <1>0, <2>1 DEF AskRow, Verdict
    <3>2. /\ registration' = [registration EXCEPT ![a] = row]
          /\ account' = [of |-> a, active |-> TRUE]
          /\ Ruled(r, "onboard")
          /\ UNCHANGED registrationLog
      BY <1>3, <2>2 DEF approve
    <3> HIDE DEF row
    <3>3. AccountIsOfTheApproved'
      BY <1>0, <2>1, <2>2, <3>1, <3>2, RegistrationBounds
         DEF RegistrationInv, AccountIsOfTheApproved, HasAccount, Ask
    <3>4. account' \in [of : Ask \cup {-1, 0}, active : BOOLEAN]
      BY <2>1, <3>2
    <3>5. registration[a].status \notin Verdict
      BY <2>2 DEF Verdict
    <3>6. /\ ruling' \in [Ruling -> RulingRow]
          /\ \A q \in Ruling : q # r => ruling'[q] = ruling[q]
          /\ ruling'[r].pc = "onboard" /\ ruling'[r].ask = a
          /\ ruling'[r].verdict = "approved" /\ ruling'[r].verdict \in Verdict
      BY <1>3, <3>2, RulingSteps DEF approve, Verdict
    <3> HIDE DEF a
    <3>7. \A q \in Ruling : TapFits(q, a, row)
      BY <3>1, <3>6 DEF TapFits
    <3>8. /\ registration' = [registration EXCEPT ![a] = row]
          /\ UNCHANGED registrationLog
          /\ ruling' \in [Ruling -> RulingRow]
      BY <3>2, <3>6
    <3> QED
      BY <2>1, <3>1, <3>3, <3>4, <3>5, <3>7, <3>8, StatusKeeps
  <2>3. CASE ~(registration[a].status = "pending" /\ ~HasAccount)
    BY <1>2, <1>3, <2>3 DEF approve
  <2> QED
    BY <2>2, <2>3
<1>4. ASSUME reject(r) PROVE RegistrationInv'
  <2>1. a \in Ask
    BY <1>4 DEF reject, RegistrationInv, RulingsAreDecided
  <2>2. CASE registration[a].status = "pending"
    <3> DEFINE row == [status |-> "rejected", cooling |-> TRUE]
    <3>1. row \in AskRow /\ row.status = "rejected"
      BY DEF AskRow, Verdict
    <3>2. /\ registration' = [registration EXCEPT ![a] = row]
          /\ Ruled(r, "tell") /\ ruling[r].verdict = "rejected"
          /\ UNCHANGED <<account, registrationLog>>
      BY <1>4, <2>2 DEF reject
    <3> HIDE DEF row
    <3>3. AccountIsOfTheApproved'
      BY <1>0, <2>1, <2>2, <3>1, <3>2 DEF RegistrationInv, AccountIsOfTheApproved
    <3>4. registration[a].status \notin Verdict
      BY <2>2 DEF Verdict
    <3>5. /\ ruling' \in [Ruling -> RulingRow]
          /\ \A q \in Ruling : q # r => ruling'[q] = ruling[q]
          /\ ruling'[r].pc = "tell" /\ ruling'[r].ask = a /\ ruling'[r].verdict = "rejected"
          /\ ruling'[r].verdict \in Verdict
      BY <3>2, RulingSteps DEF Verdict
    <3>6. account' \in [of : Ask \cup {-1, 0}, active : BOOLEAN]
      BY <1>0, <3>2
    <3> HIDE DEF a
    <3>7. \A q \in Ruling : TapFits(q, a, row)
      BY <3>1, <3>5 DEF TapFits
    <3>8. /\ registration' = [registration EXCEPT ![a] = row]
          /\ UNCHANGED registrationLog
          /\ ruling' \in [Ruling -> RulingRow]
      BY <3>2, <3>5
    <3> QED
      BY <2>1, <3>1, <3>3, <3>4, <3>6, <3>7, <3>8, StatusKeeps
  <2>3. CASE registration[a].status # "pending"
    BY <1>2, <1>4, <2>3 DEF reject
  <2> QED
    BY <2>2, <2>3
<1> QED
  BY <1>1, <1>3, <1>4

LEMMA TellingStepsKeep ==
  ASSUME RegistrationInv, NEW r \in Ruling, send_onboarding_dm(r) \/ TellApplicant(r)
  PROVE  RegistrationInv'
<1> DEFINE a == ruling[r].ask
<1>1. /\ a \in Ask
      /\ UNCHANGED <<registration, account>>
  BY DEF send_onboarding_dm, TellApplicant, RegistrationInv, RulingsAreDecided
<1>2. /\ ruling' \in [Ruling -> RulingRow]
      /\ RulingsAreDecided'
  <2>1. CASE EndRuling(r)
    <3>1. /\ ruling' \in [Ruling -> RulingRow]
          /\ \A q \in Ruling : ruling'[q] = ruling[q] \/ ruling'[q].pc = "idle"
      BY <2>1, RulingSteps
    <3> QED
      BY <1>1, <3>1 DEF RegistrationInv, RulingsAreDecided
  <2>2. CASE send_onboarding_dm(r) /\ Ruled(r, "tell")
    <3>1. /\ ruling' \in [Ruling -> RulingRow]
          /\ \A q \in Ruling : q # r => ruling'[q] = ruling[q]
          /\ ruling'[r].pc = "tell" /\ ruling'[r].ask = a
          /\ ruling'[r].verdict = ruling[r].verdict
      BY <2>2, RulingSteps
    <3>2. /\ registration[a].status = "approved"
          /\ ruling[r].verdict = "approved" /\ ruling[r].verdict \in Verdict
      BY <2>2 DEF send_onboarding_dm, RegistrationInv, RulingsAreDecided
    <3> QED
      BY <1>1, <3>1, <3>2 DEF RegistrationInv, RulingsAreDecided
  <2> QED
    BY <2>1, <2>2 DEF send_onboarding_dm, TellApplicant
<1>3. CASE UNCHANGED registrationLog
  BY <1>1, <1>2, <1>3
     DEF RegistrationInv, RegistrationTypeOK, AccountIsOfTheApproved, ToldIsDecided
<1>4. ASSUME NEW what \in Verdict, Tell(a, what), registration[a].status = what
      PROVE  RegistrationInv'
  <2>1. registrationLog' \in [told : [Ask -> SUBSET Verdict], unfounded : SUBSET Ask]
    BY <1>1, <1>4, TellType
  <2> QED
    BY <1>1, <1>2, <1>4, <2>1, TellType, TellingKeeps DEF RegistrationInv, RegistrationTypeOK
<1>5. CASE send_onboarding_dm(r) /\ Tell(a, "approved")
  BY <1>4, <1>5 DEF send_onboarding_dm, RegistrationInv, RulingsAreDecided, Verdict
<1>6. CASE TellApplicant(r) /\ Tell(a, ruling[r].verdict)
  <2>1. registration[a].status = ruling[r].verdict
    BY <1>6 DEF TellApplicant, RegistrationInv, RulingsAreDecided
  <2>2. ruling[r].verdict \in Verdict
    BY <1>6 DEF TellApplicant, RegistrationInv, RulingsAreDecided
  <2> QED
    BY <1>4, <1>6, <2>1, <2>2
<1> QED
  BY <1>3, <1>5, <1>6 DEF send_onboarding_dm, TellApplicant

LEMMA EndpointsKeep ==
  ASSUME RegistrationInv
  PROVE  /\ \A a \in Ask : onboarding_notify(a) => RegistrationInv'
         /\ \A a \in Ask : notify_rejected_registration(a) => RegistrationInv'
         /\ create_operator => RegistrationInv'
         /\ patch_operator => RegistrationInv'
<1>0. registrationLog \in [told : [Ask -> SUBSET Verdict], unfounded : SUBSET Ask]
  BY DEF RegistrationInv, RegistrationTypeOK
<1>1. ASSUME NEW a \in Ask, onboarding_notify(a) PROVE RegistrationInv'
  <2>1. /\ registration[a].status = "approved" /\ Tell(a, "approved")
        /\ UNCHANGED <<registration, account, ruling>>
    BY <1>1 DEF onboarding_notify
  <2>2. RulingsAreDecided' /\ ruling' \in [Ruling -> RulingRow]
    BY <2>1 DEF RegistrationInv, RegistrationTypeOK, RulingsAreDecided
  <2>3. "approved" \in Verdict
    BY DEF Verdict
  <2>4. registrationLog' \in [told : [Ask -> SUBSET Verdict], unfounded : SUBSET Ask]
    BY <2>1, <2>3, TellType
  <2> QED
    BY <1>0, <2>1, <2>2, <2>3, <2>4, TellType, TellingKeeps
<1>2. ASSUME NEW a \in Ask, notify_rejected_registration(a) PROVE RegistrationInv'
  <2>1. /\ registrationLog' = [registrationLog EXCEPT
             !.told[a] = @ \cup {"rejected"},
             !.unfounded = IF registration[a].status = "rejected" THEN @ ELSE @ \cup {a}]
        /\ UNCHANGED <<registration, account, ruling>>
    BY <1>2 DEF notify_rejected_registration
  <2>2. RulingsAreDecided' /\ ruling' \in [Ruling -> RulingRow]
    BY <2>1 DEF RegistrationInv, RegistrationTypeOK, RulingsAreDecided
  <2>3. "rejected" \in Verdict
    BY DEF Verdict
  <2>4. /\ registrationLog'.told = [registrationLog.told EXCEPT ![a] = @ \cup {"rejected"}]
        /\ registrationLog'.unfounded = IF registration[a].status = "rejected"
                                          THEN registrationLog.unfounded
                                          ELSE registrationLog.unfounded \cup {a}
        /\ registrationLog' = [told |-> registrationLog'.told,
                               unfounded |-> registrationLog'.unfounded]
    BY <1>0, <2>1
  <2>5. /\ registrationLog'.told \in [Ask -> SUBSET Verdict]
        /\ registrationLog'.unfounded \in SUBSET Ask
        /\ registrationLog.unfounded \subseteq registrationLog'.unfounded
        /\ registration[a].status = "rejected" \/ a \in registrationLog'.unfounded
    BY <1>0, <2>3, <2>4
  <2>6. registrationLog' \in [told : [Ask -> SUBSET Verdict], unfounded : SUBSET Ask]
    BY <2>4, <2>5
  <2> QED
    BY <2>1, <2>2, <2>3, <2>4, <2>5, <2>6, TellingKeeps
<1>3. ASSUME create_operator PROVE RegistrationInv'
  <2>1. /\ account' = [of |-> 0, active |-> TRUE] /\ account.of = -1
        /\ UNCHANGED <<registration, ruling, registrationLog>>
    BY <1>3 DEF create_operator, HasAccount
  <2>2. AccountIsOfTheApproved'
    BY <2>1, RegistrationBounds DEF RegistrationInv, AccountIsOfTheApproved, Ask
  <2> QED
    BY <2>1, <2>2 DEF RegistrationInv, RegistrationTypeOK, RulingsAreDecided, ToldIsDecided
<1>4. ASSUME patch_operator PROVE RegistrationInv'
  <2>1. /\ account' = [account EXCEPT !.active = ~@]
        /\ UNCHANGED <<registration, ruling, registrationLog>>
    BY <1>4 DEF patch_operator
  <2>2. account' \in [of : Ask \cup {-1, 0}, active : BOOLEAN] /\ account'.of = account.of
    BY <2>1 DEF RegistrationInv, RegistrationTypeOK
  <2> QED
    BY <2>1, <2>2 DEF RegistrationInv, RegistrationTypeOK, AccountIsOfTheApproved,
                      RulingsAreDecided, ToldIsDecided
<1> QED
  BY <1>1, <1>2, <1>3, <1>4

\* Whatever taps overlap, a request is decided once: the account is that of the
\* approved one, and a tap that goes on announces what was decided.
THEOREM RegistrationInvariant == RegistrationSpec => []RegistrationInv
<1>1. RegistrationInv /\ UNCHANGED registrationVars => RegistrationInv'
  BY DEF registrationVars, RegistrationInv, RegistrationTypeOK, AccountIsOfTheApproved,
         RulingsAreDecided, ToldIsDecided
<1>2. RegistrationInv /\ [RegistrationNext]_registrationVars => RegistrationInv'
  BY <1>1, RequestsKeep, DecidingKeeps, TellingStepsKeep, EndpointsKeep
     DEF RegistrationNext, Verdict
<1> QED
  BY <1>2, InitRegistration, PTL DEF RegistrationSpec

\* A person hears one verdict on a request, that of the api, and of an approval
\* only with the account it opened.
THEOREM OneVerdictIsTold == RegistrationSpec => []DecisionIsFinal
<1>1. RegistrationInv => DecisionIsFinal
  BY DEF RegistrationInv, RegistrationTypeOK, AccountIsOfTheApproved, ToldIsDecided, DecisionIsFinal
<1> QED
  BY <1>1, RegistrationInvariant, PTL

-----------------------------------------------------------------------------

(* The operator's own account. *)

SignInPoint == {"none", "connect", "scan", "password", "mark", "start", "over"}
Phase == {"idle", "qr_pending", "2fa_pending", "authenticated"}

Trace == {_derive_trace_id(w) : w \in Write}
ChannelLog == [written : 0..MaxWrite, taken : [Write -> Nat],
               overlapped : BOOLEAN, unclean : BOOLEAN]

ChannelTypeOK ==
  /\ phase \in Phase
  /\ authRow \in [phase : Phase, active : BOOLEAN]
  /\ signIn \in [SignIn -> SignInPoint]
  /\ clients \in [live : SUBSET SignIn, registered : SUBSET SignIn,
                  queue : [SignIn -> Seq(Write)]]
  /\ claims \subseteq Trace
  /\ channelLog \in ChannelLog

\* Without overlapping starts the pool is started once, when it has no client.
OneStart ==
  ~channelLog.overlapped =>
    /\ \A s, t \in Starting : s = t
    /\ Starting # {} => clients.registered = {}
    /\ clients.live = clients.registered

OneRegistered == \A s, t \in clients.registered : s = t

\* What the api took it has claimed, and it took it once.
TakenOnce ==
  \A w \in Write : channelLog.taken[w] = IF _derive_trace_id(w) \in claims THEN 1 ELSE 0

ActiveHasClient == authRow.active /\ ~channelLog.unclean => clients.registered # {}

ChannelInv == /\ ChannelTypeOK /\ OneStart /\ OneRegistered /\ TakenOnce /\ ActiveHasClient

\* Two messages have two traces.
LEMMA TracesDiffer ==
  \A v, w \in Write : _derive_trace_id(v) = _derive_trace_id(w) => v = w
BY DEF _derive_trace_id

LEMMA InitChannel == ChannelInit => ChannelInv
<1> SUFFICES ASSUME ChannelInit PROVE ChannelInv
  OBVIOUS
<1> USE ChannelBounds DEF ChannelInit, NoClients
<1>1. [s \in SignIn |-> <<>>] \in [SignIn -> Seq(Write)] BY EmptySeq
<1>2. channelLog \in ChannelLog BY DEF ChannelLog
<1>3. ChannelTypeOK BY <1>1, <1>2 DEF ChannelTypeOK, Phase, SignInPoint
<1>4. OneStart /\ OneRegistered /\ ActiveHasClient
  BY DEF OneStart, OneRegistered, ActiveHasClient, Starting
<1>5. TakenOnce BY DEF TakenOnce
<1> QED BY <1>3, <1>4, <1>5 DEF ChannelInv

\* The steps of a sign-in touch no client, and start the pool only when nobody
\* else does and it has no client.
LEMMA SignInStep ==
  ASSUME ChannelInv, clients' = clients, claims' = claims, phase' \in Phase,
         authRow' \in [phase : Phase, active : BOOLEAN], authRow'.active => authRow.active,
         signIn' \in [SignIn -> SignInPoint],
         NEW over \in BOOLEAN, channelLog' = [channelLog EXCEPT !.overlapped = over],
         ~over => ~channelLog.overlapped,
         ~over => \/ Starting' \subseteq Starting
                  \/ /\ Starting = {} /\ clients.registered = {}
                     /\ \A s, t \in Starting' : s = t
  PROVE  ChannelInv'
<1> USE DEF ChannelInv
<1>1. /\ channelLog' \in ChannelLog
      /\ channelLog'.written = channelLog.written /\ channelLog'.taken = channelLog.taken
      /\ channelLog'.unclean = channelLog.unclean /\ channelLog'.overlapped = over
  BY DEF ChannelTypeOK, ChannelLog
<1>2. ChannelTypeOK' BY <1>1 DEF ChannelTypeOK
<1>3. OneStart' BY <1>1 DEF OneStart
<1>4. OneRegistered' /\ TakenOnce' BY <1>1 DEF OneRegistered, TakenOnce
<1>5. ActiveHasClient' BY <1>1 DEF ActiveHasClient
<1> QED BY <1>2, <1>3, <1>4, <1>5

LEMMA SignInSteps ==
  ASSUME ChannelInv, NEW s \in SignIn,
         \/ qr_start(s) \/ ShowCode(s) \/ await_qr_scan(s) \/ verify_2fa(s)
         \/ mark_authenticated(s) \/ SignInFails(s) \/ SignInAgain(s)
  PROVE  ChannelInv'
<1> USE DEF Starting
<1>0. /\ phase \in Phase /\ authRow \in [phase : Phase, active : BOOLEAN]
      /\ signIn \in [SignIn -> SignInPoint]
      /\ channelLog.overlapped \in BOOLEAN
      /\ channelLog = [channelLog EXCEPT !.overlapped = channelLog.overlapped]
  BY DEF ChannelInv, ChannelTypeOK, ChannelLog
<1>1. \A pc \in SignInPoint : At(s, pc) =>
        /\ signIn' \in [SignIn -> SignInPoint]
        /\ Starting' \subseteq IF pc = "start" THEN Starting \cup {s} ELSE Starting
  BY <1>0 DEF At
<1>2. CASE \/ qr_start(s) \/ ShowCode(s) \/ await_qr_scan(s) \/ verify_2fa(s)
           \/ SignInFails(s) \/ SignInAgain(s)
  <2>1. /\ phase' \in Phase /\ UNCHANGED <<clients, claims, channelLog>>
        /\ authRow' \in [phase : Phase, active : BOOLEAN] /\ (authRow'.active => authRow.active)
    <3>1. UNCHANGED <<clients, claims, channelLog>>
      BY <1>2 DEF qr_start, ShowCode, await_qr_scan, verify_2fa, SignInFails, SignInAgain
    <3>2. phase' \in Phase
      BY <1>0, <1>2 DEF qr_start, ShowCode, await_qr_scan, verify_2fa, SignInFails, SignInAgain, Phase
    <3>3. \/ authRow' \in {authRow, [authRow EXCEPT !.phase = "2fa_pending"]}
          \/ authRow' = [phase |-> "qr_pending", active |-> FALSE]
      BY <1>2 DEF qr_start, ShowCode, await_qr_scan, verify_2fa, SignInFails, SignInAgain
    <3>4. authRow' \in [phase : Phase, active : BOOLEAN] /\ (authRow'.active => authRow.active)
      <4>1. CASE authRow' \in {authRow, [authRow EXCEPT !.phase = "2fa_pending"]}
        <5>1. "2fa_pending" \in Phase BY DEF Phase
        <5>2. authRow'.active = authRow.active
              /\ authRow' \in [phase : Phase, active : BOOLEAN] BY <1>0, <4>1, <5>1
        <5> QED BY <5>2
      <4>2. CASE authRow' = [phase |-> "qr_pending", active |-> FALSE] BY <4>2 DEF Phase
      <4> QED BY <3>3, <4>1, <4>2
    <3> QED BY <3>1, <3>2, <3>4
  <2>2. \E pc \in SignInPoint \ {"start"} : At(s, pc)
    BY <1>2 DEF qr_start, ShowCode, await_qr_scan, verify_2fa, SignInFails, SignInAgain, SignInPoint
  <2> QED BY <1>0, <1>1, <2>1, <2>2, SignInStep
<1>3. CASE mark_authenticated(s)
  <2> DEFINE over == channelLog.overlapped \/ Starting # {}
  <2>1. /\ authRow' \in [phase : Phase, active : BOOLEAN] /\ ~authRow'.active
        /\ phase' \in Phase /\ UNCHANGED <<clients, claims>>
        /\ channelLog' = [channelLog EXCEPT !.overlapped = over]
    BY <1>0, <1>3 DEF mark_authenticated, Phase
  <2>2. /\ signIn' \in [SignIn -> SignInPoint]
        /\ \/ Starting' \subseteq Starting
           \/ clients.registered = {} /\ Starting' \subseteq Starting \cup {s}
    BY <1>1, <1>3 DEF mark_authenticated, SignInPoint
  <2>3. over \in BOOLEAN BY <1>0
  <2> QED BY <2>1, <2>2, <2>3, SignInStep
<1> QED BY <1>2, <1>3

LEMMA PoolStartsKeeps == ASSUME ChannelInv, NEW s \in SignIn, PoolStarts(s) PROVE ChannelInv'
<1> USE DEF ChannelInv
<1>1. /\ clients'.live = clients.live \cup {s} /\ clients'.registered = {s}
      /\ clients' \in [live : SUBSET SignIn, registered : SUBSET SignIn,
                       queue : [SignIn -> Seq(Write)]]
      /\ UNCHANGED <<channelLog, claims, phase>>
      /\ authRow' \in [phase : Phase, active : BOOLEAN]
      /\ signIn' \in [SignIn -> SignInPoint]
      /\ s \in Starting /\ Starting' = Starting \ {s}
  BY DEF PoolStarts, ChannelTypeOK, At, SignInPoint, Starting
<1>2. ChannelTypeOK' BY <1>1 DEF ChannelTypeOK
<1>3. OneStart' BY <1>1 DEF OneStart
<1>4. OneRegistered' /\ TakenOnce' /\ ActiveHasClient'
  BY <1>1 DEF OneRegistered, TakenOnce, ActiveHasClient
<1> QED BY <1>2, <1>3, <1>4

\* Queues fill and drain; the clients stay as they are.
LEMMA QueueStep ==
  ASSUME ChannelInv, NEW q \in [SignIn -> Seq(Write)], clients' = [clients EXCEPT !.queue = q],
         UNCHANGED <<phase, authRow, signIn>>, claims' \subseteq Trace, channelLog' \in ChannelLog,
         channelLog'.overlapped = channelLog.overlapped,
         channelLog'.unclean = channelLog.unclean, TakenOnce'
  PROVE  ChannelInv'
<1> USE DEF ChannelInv
<1>1. /\ clients' \in [live : SUBSET SignIn, registered : SUBSET SignIn,
                       queue : [SignIn -> Seq(Write)]]
      /\ clients'.live = clients.live /\ clients'.registered = clients.registered
  BY DEF ChannelTypeOK
<1>2. ChannelTypeOK' BY <1>1 DEF ChannelTypeOK
<1>3. OneStart' BY <1>1 DEF OneStart, Starting
<1>4. OneRegistered' /\ ActiveHasClient' BY <1>1 DEF OneRegistered, ActiveHasClient
<1> QED BY <1>2, <1>3, <1>4

LEMMA HearKeeps == ASSUME ChannelInv, handle_new_message PROVE ChannelInv'
<1>1. PICK w \in Write, heard \in SUBSET clients.live :
        /\ clients' = [clients EXCEPT !.queue = [s \in SignIn |->
             IF s \in heard /\ Len(clients.queue[s]) < QueueLimit
               THEN Append(clients.queue[s], w) ELSE clients.queue[s]]]
        /\ channelLog' = [channelLog EXCEPT !.written = IF w > @ THEN w ELSE @]
  BY DEF handle_new_message
<1> DEFINE q == [s \in SignIn |-> IF s \in heard /\ Len(clients.queue[s]) < QueueLimit
                                   THEN Append(clients.queue[s], w) ELSE clients.queue[s]]
           n == IF w > channelLog.written THEN w ELSE channelLog.written
<1>2. \A s \in SignIn : clients.queue[s] \in Seq(Write) BY DEF ChannelInv, ChannelTypeOK
<1>3. \A s \in SignIn : Append(clients.queue[s], w) \in Seq(Write) BY <1>2, AppendProperties
<1>4. q \in [SignIn -> Seq(Write)] BY <1>2, <1>3
<1>5. clients' = [clients EXCEPT !.queue = q] BY <1>1
<1> HIDE DEF q
<1>6. channelLog \in ChannelLog /\ claims \subseteq Trace BY DEF ChannelInv, ChannelTypeOK
<1>7. n \in 0..MaxWrite BY <1>6, ChannelBounds DEF ChannelLog, Write
<1>8. channelLog' = [channelLog EXCEPT !.written = n] BY <1>1
<1> HIDE DEF n
<1>9. /\ channelLog' \in ChannelLog /\ channelLog'.taken = channelLog.taken
      /\ channelLog'.overlapped = channelLog.overlapped
      /\ channelLog'.unclean = channelLog.unclean
  BY <1>6, <1>7, <1>8 DEF ChannelLog
<1>10. UNCHANGED <<phase, authRow, signIn, claims>> BY DEF handle_new_message
<1>11. TakenOnce' BY <1>9, <1>10 DEF ChannelInv, TakenOnce
<1> QED BY <1>4, <1>5, <1>6, <1>9, <1>10, <1>11, QueueStep

LEMMA ForwardKeeps == ASSUME ChannelInv, NEW s \in SignIn, Forward(s) PROVE ChannelInv'
<1> DEFINE w == Head(clients.queue[s])
           trace == _derive_trace_id(w)
           q == [clients.queue EXCEPT ![s] = Tail(@)]
           f == [channelLog.taken EXCEPT ![w] = @ + 1]
<1>1. /\ clients.queue[s] # <<>> /\ UNCHANGED <<phase, authRow, signIn>>
      /\ clients' = [clients EXCEPT !.queue[s] = Tail(@)]
      /\ \/ UNCHANGED <<claims, channelLog>>
         \/ /\ claims' = claims \cup {trace}
            /\ channelLog' = IF trace \in claims THEN channelLog
                                                ELSE [channelLog EXCEPT !.taken[w] = @ + 1]
  BY DEF Forward
<1>2. /\ clients.queue \in [SignIn -> Seq(Write)] /\ clients.queue[s] \in Seq(Write)
      /\ channelLog \in ChannelLog /\ claims \subseteq Trace
      /\ channelLog.taken \in [Write -> Nat]
  BY DEF ChannelInv, ChannelTypeOK, ChannelLog
<1>3. w \in Write /\ Tail(clients.queue[s]) \in Seq(Write) BY <1>1, <1>2, HeadTailProperties
<1>4. q \in [SignIn -> Seq(Write)] /\ clients' = [clients EXCEPT !.queue = q]
  BY <1>1, <1>2, <1>3
<1>5. trace \in Trace BY <1>3 DEF Trace
<1>6. TakenOnce BY DEF ChannelInv
<1>7. CASE UNCHANGED <<claims, channelLog>>
  <2>1. TakenOnce' BY <1>6, <1>7 DEF TakenOnce
  <2> HIDE DEF q
  <2> QED BY <1>1, <1>2, <1>4, <1>7, <2>1, QueueStep
<1>8. CASE /\ claims' = claims \cup {trace} /\ trace \notin claims
           /\ channelLog' = [channelLog EXCEPT !.taken[w] = @ + 1]
  <2>1. f \in [Write -> Nat] /\ \A v \in Write :
          f[v] = IF v = w THEN channelLog.taken[v] + 1 ELSE channelLog.taken[v]
    <3> DEFINE F == channelLog.taken
    <3>1. F \in [Write -> Nat] /\ \A v \in Write : F[v] \in Nat /\ F[v] + 1 \in Nat BY <1>2
    <3> HIDE DEF F
    <3>2. f = [v \in Write |-> IF v = w THEN F[v] + 1 ELSE F[v]] BY <1>3, <3>1 DEF F
    <3> HIDE DEF w, f
    <3> QED BY <3>1, <3>2 DEF F
  <2>2. channelLog' = [channelLog EXCEPT !.taken = f] BY <1>8
  <2> HIDE DEF f
  <2>3. /\ channelLog' \in ChannelLog /\ channelLog'.taken = f
        /\ channelLog'.overlapped = channelLog.overlapped
        /\ channelLog'.unclean = channelLog.unclean
    BY <1>2, <2>1, <2>2 DEF ChannelLog
  <2>4. TakenOnce'
    <3> SUFFICES ASSUME NEW v \in Write
                 PROVE  f[v] = IF _derive_trace_id(v) \in claims' THEN 1 ELSE 0
      BY <2>3 DEF TakenOnce
    <3>1. channelLog.taken[v] = IF _derive_trace_id(v) \in claims THEN 1 ELSE 0
      BY <1>6 DEF TakenOnce
    <3>2. CASE v = w BY <1>8, <2>1, <3>1, <3>2
    <3>3. CASE v # w
      <4>1. _derive_trace_id(v) # trace BY <1>3, <3>3, TracesDiffer
      <4> HIDE DEF trace
      <4> QED BY <1>8, <2>1, <3>1, <3>3, <4>1
    <3> QED BY <3>2, <3>3
  <2>5. claims' \subseteq Trace BY <1>2, <1>5, <1>8
  <2> HIDE DEF q
  <2> QED BY <1>1, <1>4, <2>3, <2>4, <2>5, QueueStep
<1> QED BY <1>1, <1>7, <1>8

LEMMA RestartKeeps ==
  ASSUME ChannelInv, NEW clean \in BOOLEAN, RestartGateway(clean) PROVE ChannelInv'
<1> USE DEF ChannelInv, RestartGateway, NoClients, clear_stale_on_startup
<1>1. [s \in SignIn |-> <<>>] \in [SignIn -> Seq(Write)] BY EmptySeq
<1>2. /\ clients' \in [live : SUBSET SignIn, registered : SUBSET SignIn,
                       queue : [SignIn -> Seq(Write)]]
      /\ clients'.live = {} /\ clients'.registered = {}
  BY <1>1
<1>3. /\ channelLog' \in ChannelLog /\ channelLog'.taken = channelLog.taken
      /\ channelLog'.unclean = (channelLog.unclean \/ ~clean)
      /\ channelLog'.overlapped = channelLog.overlapped
  BY DEF ChannelTypeOK, ChannelLog
<1>4. /\ authRow' \in [phase : Phase, active : BOOLEAN]
      /\ authRow'.active = (authRow.active /\ ~(clean /\ clients.registered # {}))
  BY DEF ChannelTypeOK, Phase
<1>5. Starting' = {} BY DEF Starting
<1>6. ChannelTypeOK' BY <1>2, <1>3, <1>4 DEF ChannelTypeOK, Phase, SignInPoint
<1>7. OneStart' BY <1>2, <1>5 DEF OneStart
<1>8. OneRegistered' BY <1>2 DEF OneRegistered
<1>9. TakenOnce' BY <1>3 DEF TakenOnce
<1>10. ActiveHasClient' BY <1>3, <1>4 DEF ActiveHasClient
<1> QED BY <1>6, <1>7, <1>8, <1>9, <1>10

\* Unless two starts overlapped, one task at most is starting a client and the pool
\* knows every client that is connected; and what the api took it has claimed, once
\* each, though two clients may forward what Telethon lets them hear any number of
\* times: operator_client_pool and message_router, for any sign-ins, queue limits
\* and messages.
THEOREM ChannelInvariant == ChannelSpec => []ChannelInv
<1>1. ChannelInv /\ [ChannelNext]_channelVars => ChannelInv'
  <2> SUFFICES ASSUME ChannelInv, [ChannelNext]_channelVars PROVE ChannelInv'
    OBVIOUS
  <2>1. CASE UNCHANGED channelVars
    BY <2>1 DEF channelVars, ChannelInv, ChannelTypeOK, OneStart, Starting, OneRegistered,
       TakenOnce, ActiveHasClient
  <2> QED BY <2>1, SignInSteps, PoolStartsKeeps, HearKeeps, ForwardKeeps, RestartKeeps
          DEF ChannelNext
<1> QED BY <1>1, InitChannel, PTL DEF ChannelSpec

\* One client at most is connected unless two starts of the pool overlapped; the api
\* takes a message once, however many clients forward it and however often; and
\* without an unclean stop an active channel has a client: start, stop and restart
\* of operator_client_pool and the traces of message_router.
THEOREM ChannelServes == ChannelSpec => []ChannelServesOnce
<1>1. ChannelInv => ChannelServesOnce
  <2> SUFFICES ASSUME ChannelInv PROVE ChannelServesOnce
    OBVIOUS
  <2>1. ASSUME ~channelLog.overlapped PROVE Cardinality(clients.live) <= 1
    <3>1. CASE clients.live = {} BY <3>1, FS_EmptySet
    <3>2. CASE clients.live # {}
      <4>1. PICK s : clients.live = {s}
        BY <2>1, <3>2 DEF ChannelInv, OneStart, OneRegistered
      <4>2. Cardinality({s}) = 1 BY FS_Singleton
      <4> QED BY <4>1, <4>2
    <3> QED BY <3>1, <3>2
  <2> QED BY <2>1 DEF ChannelInv, OneStart, TakenOnce, ActiveHasClient, ChannelServesOnce
<1> QED BY <1>1, ChannelInvariant, PTL
=============================================================================
