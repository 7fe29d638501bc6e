SPECIFICATION Spec
CONSTANTS
  a = a
  b = b
  Update = {1}
  Chat = {a, b}
  chatOf <- OneChat
  messageId <- DistinctIds
  Attempts = 2
  MaxMessages = 2
  Faults <- RaiseOnce
INVARIANT FailureIsNotSilence
CHECK_DEADLOCK FALSE
