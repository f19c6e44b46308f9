SPECIFICATION Spec
CONSTANTS
  r1 = r1
  r2 = r2
  r3 = r3
  i1 = i1
  i2 = i2
  Reqs = {r1, r2, r3}
  Ids = {i1, i2}
  Scenarios <- MCSafety
  NoId = NoId
  NoReq = NoReq
  Pump = Pump
  Worker = Worker
  Free = Free
  Response = Response
INVARIANTS OwnershipIsExact AnswersAreExact CancellationIsExact ShutdownIsHonest
PROPERTIES CancellationIsFinal
CHECK_DEADLOCK FALSE
