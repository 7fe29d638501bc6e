SPECIFICATION FairSpec
CONSTANTS
  a = a
  k1 = k1
  k2 = k2
  NoCall = NoCall
  Turn = {1, 2}
  Chat = {a}
  chatOf <- OneChat
  Call = {k1, k2}
  Faults <- EachOnce
INVARIANTS
  TypeOK
  OutstandingIsLatest
  OneNudgePerRow
  SerialTurnsAreKept
PROPERTIES
  CancelledStaysQuiet
  ScheduledIsSettled
CHECK_DEADLOCK FALSE
