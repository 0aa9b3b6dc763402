SPECIFICATION OnlyCycle
CONSTANTS
  a = a  b = b  i1 = i1  ra = ra  rb = rb  sw = sw  Nobody = Nobody
  warm = warm  base = base  main = main
  s1 = s1  u1 = u1  q1 = q1  c1 = c1  k1 = k1
  Task = {warm, base, main}
  PhaseOf <- Phases
  DayOf <- TaskDays
  Required = {warm, main}
  PhaseStart <- Starts
  MinRuns = 1
  MinDays = 1
  Days = 2
  MaxDay = 3
  MaxTrouble = 1
  MaxRequests = 2
  Item = {s1}
  Unit = {u1}
  Part = {q1}
  Slot = {k1}
  Call = {c1}
  MaxEdits = 2
  MaxLosses = 1
CHECK_DEADLOCK FALSE
PROPERTY ResumeTakesEffect
