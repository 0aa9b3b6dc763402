SPECIFICATION FaultsSpec
CONSTANTS
  a = a  b = b  i1 = i1  i2 = i2  ra = ra  rb = rb  s1 = s1  s2 = s2
  NoRun = NoRun  NoRow = NoRow  NoSweeper = NoSweeper
  Row = {a, b}
  Image = {i1}
  ImageOf <- OnePhone
  Run = {ra, rb}
  RowOf <- OwnRow
  Sweeper = {s1, s2}
  Limit = 1
  FaultKinds = {"net", "crash", "late"}
  MaxFaults = 2
INVARIANT OneShutdownPerStart
PROPERTIES SparesWork WakesOnce
CHECK_DEADLOCK FALSE
