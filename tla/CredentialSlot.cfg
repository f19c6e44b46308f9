SPECIFICATION Spec
CONSTANTS
  Payloads = {p, q}
  Tomb = Tomb
  MaxGen = 3
  MaxSeq = 7
  MaxRestores = 1
INVARIANTS TakeAtMostOnce AnchorIsSound
PROPERTIES NeverGoesBack RefinesCustody
CHECK_DEADLOCK FALSE
