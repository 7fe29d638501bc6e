-------------------------- MODULE MCSalesFollowups --------------------------
(* Instances of SalesFollowups for TLC. *)
EXTENDS SalesFollowups

CONSTANTS a,        \* a chat
          k1, k2    \* fire requests

OneChat == [t \in Turn |-> a]

Only(F) == [f \in FaultKind |-> IF f \in F THEN 1 ELSE 0]
EachOnce == Only(FaultKind)
NoFaults == Only({})
=============================================================================
