SPECIFICATION PoolFairSpec
CONSTANTS
  r1 = r1  r2 = r2  r3 = r3  i1 = i1  i2 = i2  None = None
  Reqs = {r1, r2, r3}
  Ids = {i1, i2}
  IdOf <- MCIds
  Capacity = 2
  Scenarios <- MCScenarios
INVARIANTS RegistryIsExact NothingIsSwallowed
PROPERTIES ElectionDecides EveryRequestSettles
