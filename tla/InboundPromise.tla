--------------------------- MODULE InboundPromise ---------------------------
(***************************************************************************)
(* What the inbound path promises a customer, with no gateway, no outbox   *)
(* and no retries in sight.  A message that was sent may be taken up once  *)
(* by the answering service; a message that was taken up may be told once: *)
(* its answer, or the acknowledgement that a person will look at it, goes  *)
(* out at most one time.  A message may also never be taken up, or be      *)
(* taken up and never be told: the promise is one of safety.               *)
(***************************************************************************)
EXTENDS Naturals

CONSTANT Update     \* Telegram updates: one customer message each

VARIABLES
  sent,     \* messages the customer has sent
  taken,    \* messages the answering service has taken up
  told      \* told[u]: how many times u was answered or acknowledged

vars == <<sent, taken, told>>

TypeOK ==
  /\ sent \subseteq Update
  /\ taken \subseteq Update
  /\ told \in [Update -> {0, 1}]

Init ==
  /\ sent = {}
  /\ taken = {}
  /\ told = [u \in Update |-> 0]

Send(u) ==
  /\ u \notin sent
  /\ sent' = sent \cup {u}
  /\ UNCHANGED <<taken, told>>

Take(u) ==
  /\ u \in sent \ taken
  /\ taken' = taken \cup {u}
  /\ UNCHANGED <<sent, told>>

Tell(u) ==
  /\ u \in taken
  /\ told[u] = 0
  /\ told' = [told EXCEPT ![u] = 1]
  /\ UNCHANGED <<sent, taken>>

Next == \E u \in Update : Send(u) \/ Take(u) \/ Tell(u)

Spec == Init /\ [][Next]_vars
=============================================================================
