SPECIFICATION Spec
CONSTANTS
  a = a  b = b  i1 = i1  i2 = i2  ra = ra  rb = rb  s1 = s1  s2 = s2
  NoRun = NoRun  NoRow = NoRow  NoSweeper = NoSweeper
  Row = {a, b}
  Image = {i1, i2}
  ImageOf <- TwoPhones
  Run = {ra, rb}
  RowOf <- OwnRow
  Sweeper = {s1}
  Limit = 1
  FaultKinds = {"expire"}
  MaxFaults = 0
INVARIANT StartupCeiling
CHECK_DEADLOCK FALSE
