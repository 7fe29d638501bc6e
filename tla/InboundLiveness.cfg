SPECIFICATION FairSpec
CONSTANTS
  a = a
  b = b
  Update = {1, 2}
  Chat = {a, b}
  chatOf <- OneChat
  messageId <- DistinctIds
  Attempts = 3
  MaxMessages = 2
  Faults <- RideOut
PROPERTIES
  PendingIsTold
  OutboxDrains
CHECK_DEADLOCK FALSE
