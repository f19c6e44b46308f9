SPECIFICATION FairSpec
CONSTANTS
  s1 = s1
  s2 = s2
  p1 = p1
  p2 = p2
  Server = Server
  Streams = {s1, s2}
  Publishers = {p1, p2}
  Scenarios <- MCScenarios
INVARIANTS OrderIsKept ElectionIsExact EndIsDelivered
PROPERTIES StreamContract StreamsEnd
CHECK_DEADLOCK FALSE
