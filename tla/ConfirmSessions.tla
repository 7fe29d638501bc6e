-------------------------- MODULE ConfirmSessions --------------------------
(* Proposals that are applied after a confirmation: the services dialog of    *)
(* the operators, the dialog of the administrator and the knowledge           *)
(* operations of the api. A proposal is a session of its store; the bot shows *)
(* its preview and sends the confirmation on. Every repository opens its own  *)
(* connection, and a check and the write it allows are two statements.        *)
EXTENDS Integers, FiniteSets

CONSTANTS Author,     \* who proposes
          Request,    \* messages the bot, or calls the api, is working on
          MaxSession  \* bound: proposals

\* Someone may propose, and no author is called "none", which marks the row of no
\* proposal.
ASSUME DialogBounds == MaxSession \in Nat \ {0} /\ "none" \notin Author /\ Author # {}

VARIABLES dialog,      \* the store: services, admin or knowledge
          session,     \* its rows
          remembered,  \* _TOKEN_CACHE of the bot: the session last previewed
          request,
          dialogLog    \* ghosts: applications and version numbers of each
                         \* session, cancellations told, sessions whose check
                         \* overlapped another one's

Session == 1..MaxSession
dialogVars == <<dialog, session, remembered, request, dialogLog>>

Unused == [owner |-> "none", status |-> "unused", tokened |-> FALSE, old |-> FALSE]
NoRequest == [pc |-> "idle", does |-> "none", author |-> "none",
              session |-> 0, token |-> 0, number |-> 0]

DialogInit(stores) ==
  /\ dialog \in stores
  /\ session = [s \in Session |-> Unused]
  /\ remembered = [a \in Author |-> 0]
  /\ request = [r \in Request |-> NoRequest]
  /\ dialogLog = [applied |-> [s \in Session |-> 0],
                  numbers |-> [s \in Session |-> {}],
                  told |-> {}, overlapped |-> {}]

-----------------------------------------------------------------------------
Administrator == CHOOSE a \in Author : TRUE
Used == {s \in Session : session[s].status # "unused"}
Pending(a) == {s \in Session : session[s].owner = a /\ session[s].status = "pending"}
Newest(S) == CHOOSE s \in S : \A t \in S : t <= s
TakenNumbers == UNION {dialogLog.numbers[s] : s \in Session}

\* Requests between their check and their write that concern session s.
Deciding(s) ==
  {r \in Request : request[r].pc \in {"write", "expire"}
                   /\ (request[r].session = s \/ dialog = "knowledge")}
Overlap(s) ==
  IF Deciding(s) = {} THEN {} ELSE {s} \cup {request[r].session : r \in Deciding(s)}

Goes(r, pc) == request' = [request EXCEPT ![r].pc = pc]
Ends(r) == request' = [request EXCEPT ![r] = NoRequest]
Starts(r, does, pc, a, s, t) ==
  /\ request[r].pc = "idle"
  /\ request' = [request EXCEPT ![r] =
       [NoRequest EXCEPT !.does = does, !.pc = pc, !.author = a,
                         !.session = s, !.token = t]]

Proposal(a, understood) ==
  [owner |-> a, status |-> IF understood THEN "pending" ELSE "clarify",
   tokened |-> understood, old |-> FALSE]

(* Mutant: the previous proposal stays pending beside the new one. *)
propose_beside(r, a, understood) ==
  LET n == Cardinality(Used) + 1 IN
  /\ dialog = "services" /\ n \in Session
  /\ Starts(r, "propose", "preview", a, n, n)
  /\ session' = [session EXCEPT ![n] = Proposal(a, understood)]
  /\ UNCHANGED <<dialog, remembered, dialogLog>>

\* One transaction: the author's pending proposals give way to the new one.
propose(r, a, understood) ==
  LET n == Cardinality(Used) + 1
      superseded == IF understood THEN Pending(a) ELSE {} IN
  /\ dialog = "services" /\ n \in Session
  /\ Starts(r, "propose", "preview", a, n, n)
  /\ session' = [s \in Session |->
       IF s = n THEN Proposal(a, understood)
       ELSE IF s \in superseded
         THEN [session[s] EXCEPT !.status = "cancelled", !.tokened = FALSE]
         ELSE session[s]]
  /\ dialogLog' = [dialogLog EXCEPT
       !.overlapped = @ \cup {s \in superseded : Deciding(s) # {}},
       !.told = @ \cup superseded]
  /\ UNCHANGED <<dialog, remembered>>

propose_admin(r, understood) ==
  LET n == Cardinality(Used) + 1 IN
  /\ dialog = "admin" /\ n \in Session /\ request[r].pc = "idle"
  /\ session' = [session EXCEPT ![n] = Proposal(Administrator, understood)]
  /\ UNCHANGED <<dialog, remembered, request, dialogLog>>

propose_knowledge(r, understood) ==
  LET n == Cardinality(Used) + 1 IN
  /\ dialog = "knowledge" /\ n \in Session /\ request[r].pc = "idle"
  /\ session' = [session EXCEPT ![n] = Proposal(Administrator, understood)]
  /\ UNCHANGED <<dialog, remembered, request, dialogLog>>

\* The bot shows the preview and keeps its token, unless the answer is lost
\* or asks for clarification.
Preview(r) ==
  /\ request[r].pc = "preview"
  /\ remembered' \in
       {remembered} \cup IF session[request[r].session].status = "clarify" THEN {}
                         ELSE {[remembered EXCEPT ![request[r].author] = request[r].session]}
  /\ Ends(r)
  /\ UNCHANGED <<dialog, session, dialogLog>>

\* The pending lifetime runs out.
Ages(s) ==
  /\ dialog \in {"services", "admin"}
  /\ session[s].status = "pending" /\ ~session[s].old
  /\ session' = [session EXCEPT ![s].old = TRUE]
  /\ UNCHANGED <<dialog, remembered, request, dialogLog>>

-----------------------------------------------------------------------------
(* The bot turns a message into a call. *)

\* An answer finds the newest pending proposal; an expired one is none.
Lookup(r, does, a, explicit) ==
  /\ Pending(a) # {}
  /\ LET s == Newest(Pending(a)) IN
     IF session[s].old
       THEN /\ Starts(r, "lookup", "expire", a, s, 0)
            /\ dialogLog' = [dialogLog EXCEPT !.overlapped = @ \cup Overlap(s)]
       ELSE /\ Starts(r, does, "read", a, s, IF explicit = 0 THEN s ELSE explicit)
            /\ UNCHANGED dialogLog
  /\ UNCHANGED <<dialog, session, remembered>>

\* "da" confirms the remembered preview.
SayYes(r, a) ==
  /\ dialog = "services" /\ remembered[a] # 0
  /\ Starts(r, "confirm", "read", a, remembered[a], remembered[a])
  /\ UNCHANGED <<dialog, session, remembered, dialogLog>>

\* /confirm presents the token it names for the newest pending proposal.
PresentToken(r, a, t) ==
  /\ dialog = "services" /\ session[t].status # "unused"
  /\ Lookup(r, "confirm", a, t)

\* "net" and /cancel
SayNo(r, a) ==
  /\ dialog = "services"
  /\ \/ /\ remembered[a] # 0
        /\ Starts(r, "cancel", "read", a, remembered[a], 0)
        /\ UNCHANGED <<dialog, session, remembered, dialogLog>>
     \/ remembered[a] = 0 /\ Lookup(r, "cancel", a, 0)

\* The administrator's "da" and /confirm take the token from the session they
\* find; a /confirm with another token stops here.
AdminConfirms(r) == dialog = "admin" /\ Lookup(r, "confirm", Administrator, 0)
AdminCancels(r) == dialog = "admin" /\ Lookup(r, "cancel", Administrator, 0)

\* The knowledge operations have no dialog: the client names session and token.
confirm_nl_op(r, s, t) ==
  /\ dialog = "knowledge" /\ {s, t} \subseteq Used
  /\ Starts(r, "confirm", "read", session[s].owner, s, t)
  /\ UNCHANGED <<dialog, session, remembered, dialogLog>>

cancel_nl_op(r, s) ==
  /\ dialog = "knowledge" /\ s \in Used
  /\ Starts(r, "cancel", "read", session[s].owner, s, 0)
  /\ UNCHANGED <<dialog, session, remembered, dialogLog>>

-----------------------------------------------------------------------------
(* The api checks, then writes without a condition, then applies. *)

Decides(r, pc) ==
  /\ Goes(r, pc)
  /\ dialogLog' = [dialogLog EXCEPT !.overlapped = @ \cup Overlap(request[r].session)]
Refuses(r) == Goes(r, "answer") /\ UNCHANGED dialogLog
TokenFits(r) ==
  /\ session[request[r].session].tokened
  /\ request[r].token = request[r].session

(* Mutant: the token is not compared. *)
consume_untokened(r) ==
  LET s == session[request[r].session] IN
  /\ dialog = "services" /\ request[r].pc = "read" /\ request[r].does = "confirm"
  /\ \/ s.status # "pending" /\ Refuses(r)
     \/ s.status = "pending" /\ s.old /\ Decides(r, "expire")
     \/ s.status = "pending" /\ ~s.old /\ s.owner = request[r].author /\ Decides(r, "write")
  /\ UNCHANGED <<dialog, session, remembered>>

consume(r) ==
  LET s == session[request[r].session] IN
  /\ dialog = "services" /\ request[r].pc = "read" /\ request[r].does = "confirm"
  /\ \/ s.status # "pending" /\ Refuses(r)
     \/ s.status = "pending" /\ s.old /\ Decides(r, "expire")
     \/ /\ s.status = "pending" /\ ~s.old
        /\ IF s.owner = request[r].author /\ TokenFits(r)
             THEN Decides(r, "write") ELSE Refuses(r)
  /\ UNCHANGED <<dialog, session, remembered>>

confirm_admin(r) ==
  LET s == session[request[r].session] IN
  /\ dialog = "admin" /\ request[r].pc = "read" /\ request[r].does = "confirm"
  /\ \/ s.status # "pending" /\ Refuses(r)
     \/ s.status = "pending" /\ s.old /\ Decides(r, "expire")
     \/ /\ s.status = "pending" /\ ~s.old
        /\ IF TokenFits(r) THEN Decides(r, "write") ELSE Refuses(r)
  /\ UNCHANGED <<dialog, session, remembered>>

\* The next version number is read with the session, outside the transaction
\* that the first write begins.
confirm_knowledge(r) ==
  LET s == session[request[r].session] IN
  /\ dialog = "knowledge" /\ request[r].pc = "read" /\ request[r].does = "confirm"
  /\ IF s.status = "pending" /\ TokenFits(r)
       THEN /\ request' = [request EXCEPT ![r].pc = "write",
                 ![r].number = Cardinality(TakenNumbers) + 1]
            /\ dialogLog' = [dialogLog EXCEPT
                 !.overlapped = @ \cup Overlap(request[r].session)]
       ELSE Refuses(r)
  /\ UNCHANGED <<dialog, session, remembered>>

cancel(r) ==
  LET s == session[request[r].session] IN
  /\ request[r].pc = "read" /\ request[r].does = "cancel"
  /\ \/ /\ dialog = "admin" /\ s.status = "pending" /\ s.old /\ Decides(r, "expire")
     \/ /\ ~(dialog = "admin" /\ s.status = "pending" /\ s.old)
        /\ IF /\ s.status \in {"pending", "clarify"}
              /\ dialog = "services" => s.owner = request[r].author
             THEN Decides(r, "write") ELSE Refuses(r)
  /\ UNCHANGED <<dialog, session, remembered>>

Expire(r) ==
  /\ request[r].pc = "expire"
  /\ session' = [session EXCEPT ![request[r].session].status = "expired",
                                ![request[r].session].tokened = FALSE]
  /\ IF request[r].does = "lookup" THEN Ends(r) ELSE Goes(r, "answer")
  /\ UNCHANGED <<dialog, remembered, dialogLog>>

(* Mutant: the confirmation is not recorded before it is applied. *)
WriteNothing(r) ==
  /\ request[r].pc = "write" /\ request[r].does = "confirm"
  /\ Goes(r, "apply")
  /\ UNCHANGED <<dialog, session, remembered, dialogLog>>

\* The knowledge store inserts its version in the same transaction, and keeps
\* the token.
WriteConfirmed(r) ==
  LET s == request[r].session IN
  /\ request[r].pc = "write" /\ request[r].does = "confirm"
  /\ session' = [session EXCEPT ![s].status = "confirmed",
                                ![s].tokened = @ /\ dialog = "knowledge"]
  /\ dialogLog' = IF dialog = "knowledge"
       THEN [dialogLog EXCEPT !.numbers[s] = @ \cup {request[r].number}]
       ELSE dialogLog
  /\ Goes(r, "apply")
  /\ UNCHANGED <<dialog, remembered>>

WriteCancelled(r) ==
  LET s == request[r].session IN
  /\ request[r].pc = "write" /\ request[r].does = "cancel"
  /\ session' = [session EXCEPT ![s].status = "cancelled", ![s].tokened = FALSE]
  /\ dialogLog' = [dialogLog EXCEPT !.told = @ \cup {s}]
  /\ Goes(r, "answer")
  /\ UNCHANGED <<dialog, remembered>>

\* The operation takes effect or fails: a service, project, operator or file
\* that is missing or in conflict, an index that does not answer. The session
\* stays confirmed either way.
Apply(r) ==
  /\ request[r].pc = "apply"
  /\ dialogLog' \in {dialogLog, [dialogLog EXCEPT !.applied[request[r].session] = @ + 1]}
  /\ Goes(r, "answer")
  /\ UNCHANGED <<dialog, session, remembered>>

\* The services dialog forgets its token, whatever session it is of by now.
\* It keeps it after a refusal of another kind and when the answer is lost.
Answer(r) ==
  /\ request[r].pc = "answer"
  /\ remembered' \in {remembered} \cup
       IF dialog = "services" THEN {[remembered EXCEPT ![request[r].author] = 0]} ELSE {}
  /\ Ends(r)
  /\ UNCHANGED <<dialog, session, dialogLog>>

\* The bot starts again: it has forgotten the tokens and the answers it awaited.
RestartBot ==
  /\ dialog = "services" /\ \E a \in Author : remembered[a] # 0
  /\ remembered' = [a \in Author |-> 0]
  /\ request' = [r \in Request |->
       IF request[r].pc \in {"preview", "answer"} THEN NoRequest ELSE request[r]]
  /\ UNCHANGED <<dialog, session, dialogLog>>

\* A step of the authors A with the requests R.
DialogStep(A, R) ==
  \/ \E r \in R, a \in A, understood \in BOOLEAN :
       propose(r, a, understood)
  \/ \E r \in R, understood \in BOOLEAN :
       propose_admin(r, understood) \/ propose_knowledge(r, understood)
  \/ \E r \in R, a \in A : SayYes(r, a) \/ SayNo(r, a)
  \/ \E r \in R : AdminConfirms(r) \/ AdminCancels(r)
  \/ \E r \in R, s \in Session :
       \/ \E a \in A : PresentToken(r, a, s)
       \/ \E t \in Session : confirm_nl_op(r, s, t)
       \/ cancel_nl_op(r, s)
  \/ \E r \in R :
       \/ Preview(r) \/ consume(r) \/ confirm_admin(r) \/ confirm_knowledge(r)
       \/ cancel(r) \/ Expire(r) \/ WriteConfirmed(r) \/ WriteCancelled(r)
       \/ Apply(r) \/ Answer(r)
  \/ \E s \in Session : Ages(s)
  \/ RestartBot

DialogNext == DialogStep(Author, Request)

DialogSpec ==
  DialogInit({"services", "admin", "knowledge"}) /\ [][DialogNext]_dialogVars

-----------------------------------------------------------------------------
\* Unless the check of another request fell between its own check and write,
\* a proposal is applied at most once, only while it is recorded as confirmed,
\* never after its author was told that it is cancelled, and a published
\* version has a number of its own.
AppliedOnceUnlessTheyOverlap ==
  \A s \in Session \ dialogLog.overlapped :
    /\ dialogLog.applied[s] <= 1
    /\ dialogLog.applied[s] = 1 => session[s].status = "confirmed"
    /\ s \in dialogLog.told => dialogLog.applied[s] = 0
    /\ Cardinality(dialogLog.numbers[s]) <= 1
    /\ \A t \in Session \ (dialogLog.overlapped \cup {s}) :
         dialogLog.numbers[s] \cap dialogLog.numbers[t] = {}

\* A confirmation passes its check only with the token of the very proposal it
\* applies; in the services dialog it is the author's own and the last one that
\* the dialog previewed to him, so that a stale preview cannot be confirmed.
ConfirmsWhatWasShown ==
  [][\A r \in Request :
       request[r].pc = "read" /\ request[r].does = "confirm" /\ request'[r].pc = "write" =>
         LET s == request[r].session IN
         /\ request[r].token = s
         /\ dialog = "services" =>
              /\ session[s].owner = request[r].author
              /\ \A t \in Session : session[t].owner = request[r].author /\ t > s =>
                   session[t].status = "clarify"]_dialogVars
=============================================================================
