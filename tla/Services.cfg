SPECIFICATION ServicesSpec
CONSTANTS
  a1 = a1  a2 = a2  a3 = a3  b1 = b1  b2 = b2  d1 = d1  d2 = d2
  r1 = r1  r2 = r2  p1 = p1
  None = None
  Conn = {a1, a2}
  Key = {b1, b2}
  Request = {d1, d2}
  MaxClock = 3
  MaxChanges = 3
  FreshFor = 1
  RateConn = {r1, r2}
  RatePool = {p1}
  NoPool = NoPool
  Caller = {a1, a2, a3}
  MinGap <- TwoGaps
  BaseGap = 1
  StartupSlot = {1, 2, 3}
  Lapsed = {3}
  Malformed = {1}
  PageSize = 2
  MaxPages = 2
  Unit = {a1, a2}
  Isp = {d1, d2}
  NoIsp = NoIsp
  MaxAttempts = 4
  MaxTrouble = 3
CONSTRAINT Bounded
SYMMETRY Symmetry
CHECK_DEADLOCK FALSE
INVARIANTS
  ServicesTypeOK StatusIsEarned PoolsAgree NoWorkWithoutKey
  FetchedIsTrue CapacityNotOvercounted BoughtOnce BindingsHold
PROPERTIES SnapshotNeverRegresses SlotsSpaced
