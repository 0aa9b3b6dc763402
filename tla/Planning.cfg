SPECIFICATION PlanningSpec
CONSTANTS
  a = a  e1 = e1  e2 = e2  h1 = h1
  Schedule = {a}
  Plan <- Cadences
  Editor = {e1, e2}
  Ticker = {h1}
  EditKinds = {"rename", "edit", "pause", "resume", "remove"}
  Duration = 1
  Ahead = 2
  LongestGap = 3
  MaxTime = 2
  MaxRequests = 2
  TickMax = 3
  MaxBackoff = 4
  StaleAfter = 20
  DrainMax = 8
  DayLength = 10
  LastMoment = 36
  Run = {1, 2, 3}
  ClientOf <- Clients
  PhoneOf <- Phones
  Capacity = 2
  Spacing = 1
  WindowEnd = 6
  IssueTimes = {0, 3}
  Delays = {0, 2}
  Closings = {4, 6}
  Lengths = {1, 3}
  Event = {1, 2, 3}
  PhoneFor <- EventPhones
  Phone = {"p", "q", "r"}
  ImageOf <- Images
  Eligible = {"p", "q", "r"}
  SlotCount = 2
  Past = 0
  Now = 2
  Through = 8
  Startup = 1
  Gap = 1
  DueTimes = {0, 3}
  Runtimes = {1, 2}
  Waits = {0, 3}
  Deadlines = {6, 20}
  Durations <- PhaseDays
  Counts <- FormCounts
  Edits <- FormEdits
  ApiRules <- SentRules
  Needs <- AppNeeds
  Template = {"t1", "t2", "t3"}
  SchemaOf <- Schemas
  VarType = {"string", "number"}
CHECK_DEADLOCK FALSE
INVARIANTS
  PauseLeavesNothing PlanIsComplete LoopKeepsGoing
  WorkloadHolds FleetHolds ProgramHolds
PROPERTIES StartedNeverReplanned
