SPECIFICATION Spec
CONSTANTS
  a = a
  k1 = k1
  k2 = k2
  NoCall = NoCall
  Turn = {1, 2}
  Chat = {a}
  chatOf <- OneChat
  Call = {k1, k2}
  Faults <- NoFaults
PROPERTY NoNudgeAfterReply
CHECK_DEADLOCK FALSE
