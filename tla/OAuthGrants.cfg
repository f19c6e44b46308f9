SPECIFICATION MCSpec
CONSTANTS
  Clients = {c1, c2}
  Scopes = {w}
  Flows = {f1}
  MaxClients = 2
  CodeLimit <- MCOne
  AccessLimit <- MCThree
  RefreshLimit <- MCTwo
  TombLimit <- MCSplit
  CodeLife = 1
  AccessLife = 1
  RefreshLife = 2
  Delay = 1
  MaxTime = 3
  MaxGrants = 2
  MaxEpoch = 3
  MaxRotations = 2
SYMMETRY Interchangeable
INVARIANTS RotationIsExact EndedStaysEnded RetainedIsBound
PROPERTIES FamilyNeverGrows
CHECK_DEADLOCK FALSE
