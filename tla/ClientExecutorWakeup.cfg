SPECIFICATION FairSpec
CONSTANTS
  e1 = e1  e2 = e2  i1 = i1  i2 = i2  None = None
  Execs = {e1, e2}
  Ids = {i1, i2}
  Scenarios <- MCQuiet
  MaxInFlight = 2
  MaxCorrelations = 4
  MaxActivity = 1
  Retention = 4
  Idle = 2
  Absolute = 2
  Patience = 0
PROPERTIES RoutedWaiterReturns
CHECK_DEADLOCK FALSE
