SPECIFICATION MCSpec
CONSTANTS
  Tasks = {t1}
  NoTask = NoTask
  Runners = {r1, r2}
  NoRunner = NoRunner
  Clients = {c1, c2}
  Keys = {k1, k2}
  MaxGen = 5
  MaxFence = 2
  MaxTasks = 1
  MaxStops = 0
SYMMETRY Interchangeable
INVARIANTS NothingIsStranded LapsedNeverCommits
PROPERTY RefinesLifecycle
CHECK_DEADLOCK FALSE
