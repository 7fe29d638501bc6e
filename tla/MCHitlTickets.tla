--------------------------- MODULE MCHitlTickets ---------------------------
(* Instances of HitlTickets for TLC. *)
EXTENDS HitlTickets

CONSTANTS a,             \* a chat
          ann, bob       \* two operators; ann is the primary one

OneChat == [m \in Message |-> a]

\* Message 1 is for the calendar operator.
BobFirst == [m \in Message |-> IF m = 1 THEN bob ELSE NoOne]
NoSpecialist == [m \in Message |-> NoOne]

Only(F) == [f \in FaultKind |-> IF f \in F THEN 1 ELSE 0]
EachOnce == Only(FaultKind)
NoFaults == Only({})
=============================================================================
