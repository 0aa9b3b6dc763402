SPECIFICATION Spec
CONSTANTS
  r1 = r1  r2 = r2  p1 = p1  w1 = w1  w2 = w2
  Run = {r1, r2}
  Worker = {w1, w2}
  Phone = {p1}
  PhoneOf <- OnePhone
  NoRun = NoRun
  NoWorker = NoWorker
  MaxAttempts = 2
  FaultKinds = {"crash", "slow", "net", "lag", "gate", "phone", "user", "deadline", "load"}
  MaxFaults = 2
CHECK_DEADLOCK FALSE
SYMMETRY Symmetry
CONSTRAINT Scope
INVARIANTS TypeOK AtMostOneSubmission SucceededMatchesProvider
           CancelledRunIsOver NoConcurrentFirstTasks PhoneLeaseOwned
PROPERTY SubmitsOnceOnly
