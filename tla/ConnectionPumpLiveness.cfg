SPECIFICATION FairSpec
CONSTANTS
  r1 = r1
  r2 = r2
  r3 = r3
  i1 = i1
  i2 = i2
  Reqs = {r1, r2, r3}
  Ids = {i1, i2}
  Scenarios <- MCEnding
  NoId = NoId
  NoReq = NoReq
  Pump = Pump
  Worker = Worker
  Free = Free
  Response = Response
PROPERTIES ConnectionEnds
CHECK_DEADLOCK FALSE
