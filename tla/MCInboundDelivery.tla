------------------------- MODULE MCInboundDelivery -------------------------
(* Instances of InboundDelivery for TLC. *)
EXTENDS InboundDelivery

CONSTANTS a, b      \* two chats

OneChat == [u \in Update |-> a]
LastAlone == [u \in Update |-> IF \E v \in Update : v > u THEN a ELSE b]

\* message_ids that all differ, as a bot sees them in its private chats, and
\* ids that two chats number alike.
DistinctIds == [u \in Update |-> 10 + u]
SharedIds == [u \in Update |-> u % 2]

Only(F) == [f \in FaultKind |-> IF f \in F THEN 1 ELSE 0]
EachOnce == Only(FaultKind)
RaiseOnce == Only({"apiRaises"})
RestartOnce == Only({"gatewayCrash"})
\* A restart and two failed calls, for tasks with three attempts.
RideOut == [Only({"gatewayCrash"}) EXCEPT !["callFails"] = 2]
=============================================================================
