SPECIFICATION Spec
CONSTANTS
  a = a
  b = b
  Update = {1, 2}
  Chat = {a, b}
  chatOf <- OneChat
  messageId <- DistinctIds
  Attempts = 2
  MaxMessages = 2
  Faults <- RestartOnce
INVARIANT UnconfirmedKeepsRow
CHECK_DEADLOCK FALSE
