SPECIFICATION FairSpec
CONSTANTS
  Tasks = {t1}
  NoTask = NoTask
  Runners = {r1}
  NoRunner = NoRunner
  Clients = {c1}
  Keys = {k1}
  MaxGen = 5
  MaxFence = 2
  MaxTasks = 1
  MaxStops = 1
PROPERTIES WorkMovesOn
CHECK_DEADLOCK FALSE
