SPECIFICATION FairSpec
CONSTANTS
  r1 = r1  r2 = r2  p1 = p1  w1 = w1  w2 = w2
  Run = {r1}
  Worker = {w1}
  Phone = {p1}
  PhoneOf <- OnePhone
  NoRun = NoRun
  NoWorker = NoWorker
  MaxAttempts = 2
  FaultKinds = {"crash"}
  MaxFaults = 1
CHECK_DEADLOCK FALSE
PROPERTIES SubmissionResolves
