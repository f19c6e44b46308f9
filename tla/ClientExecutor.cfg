SPECIFICATION Spec
CONSTANTS
  e1 = e1  e2 = e2  i1 = i1  i2 = i2  None = None
  Execs = {e1, e2}
  Ids = {i1, i2}
  Scenarios <- MCScenarios
  MaxInFlight = 2
  MaxCorrelations = 2
  MaxActivity = 1
  Retention = 1
  Idle = 1
  Absolute = 2
  Patience = 0
INVARIANTS IdsAreNeverConfused NoOwnerIsStranded
PROPERTIES OutcomeIsFinal DeadlinesBind
CHECK_DEADLOCK FALSE
