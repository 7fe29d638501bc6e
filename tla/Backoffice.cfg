SPECIFICATION Spec
CONSTANTS
  Focus = {"consent", "tokens", "clarify", "slots", "services", "authors", "admin", "knowledge",
           "schedule", "offers", "prompts", "usage", "alerts", "uploads", "moderation",
           "registration", "channel", "materials"}
  Asker = {"a1", "a2"}
  Callback = {"c1", "c2"}
  Link = {1, 2}
  MaxGrant = 2
  MaxLife = 1
  DayLength = 4
  LastDay = 3
  WeekLength = 2
  Duration = {0, 2}
  Lookahead = {1}
  Cap = 2
  Timetable <- Timetables
  Closed <- Closings
  Events <- Calendars
  Author = {"@a", "@b"}
  Request = {"r1", "r2"}
  MaxSession = 2
  Job = {"j1", "j2"}
  Name = {"tour", "photo"}
  MaxRow = 2
  MaxOffer = 3
  Editor = {"@a"}
  Prompt = {"scope"}
  Save = {"s1", "s2"}
  Text = {"one", "two", "invalid"}
  MaxVersion = 3
  Model = {"large", "small"}
  MaxDay = 3
  Lookback = 2
  QueueSize = 1
  MaxUse = 2
  Reporter = {"r1", "r2"}
  DedupWindow = 1
  Debounce = 2
  MaxMoment = 2
  MaxIncident = 2
  OpFile = {"f1", "f2"}
  Binary = {"b1"}
  Moderator = {"m1", "m2"}
  MaxCandidate = 2
  Ruling = {"t1", "t2"}
  MaxAsk = 2
  SignIn = {"s1", "s2"}
  QueueLimit = 2
  MaxWrite = 2
  KbFile = {"k1"}
  Delivery = {"d1", "d2"}
  MaxMaterial = 2
INVARIANTS
  ReconnectIsTold
  ConnectionToldOnce
  SlotAnswersAreRight
  AppliedOnceUnlessTheyOverlap
  PromptsHaveTheirHistory
  SummariesAreComplete
  AlertsAreDebounced
  IndexFollowsDecisions
  DecisionIsFinal
  ChannelServesOnce
  CustomersGetMaterials
PROPERTIES
  ConfirmsWhatWasShown
  OnlyItsServiceChanges
CHECK_DEADLOCK FALSE
VIEW View
