SPECIFICATION FairSpec
CONSTANTS
  a = a
  ann = ann
  bob = bob
  NoOne = NoOne
  Message = {1, 2}
  Chat = {a}
  chatOf <- OneChat
  specialist <- BobFirst
  Operator = {ann, bob}
  Staff = {ann, bob}
  Primary = ann
  Reply = {1}
  Faults <- EachOnce
INVARIANTS
  TypeOK
  OpenIsInHand
  ResolvedIsAnswered
  EscalationOnDesk
PROPERTIES
  ResolvedIsFinal
  GetsOperator
CHECK_DEADLOCK FALSE
