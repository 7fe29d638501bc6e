SPECIFICATION Spec
CONSTANTS
  a = a
  b = b
  Update = {1, 2, 3}
  Chat = {a, b}
  chatOf <- LastAlone
  messageId <- SharedIds
  Attempts = 2
  MaxMessages = 1
  Faults <- EachOnce
INVARIANTS
  TypeOK
  ToldAtMostOnce
  ClaimedIsTold
  NothingLostWithoutFault
  ForwardOnRecord
  BacklogWatched
PROPERTIES
  RowsLeaveOnConfirmation
  PromiseKept
CHECK_DEADLOCK FALSE
