SPECIFICATION Spec
SYMMETRY MCSymmetry
CONSTANTS
  i1 = i1
  i2 = i2
  k1 = k1
  k2 = k2
  r1 = r1
  r2 = r2
  stray = stray
  stateless = stateless
  anonymous = anonymous
  NoOwner = NoOwner
  Unbound = Unbound
  Issues = {i1, i2}
  Retries = {r1, r2}
  Keys = {k1, k2}
  Elicitations = {k2}
  Bindings = {Unbound, stateless, anonymous}
  Stateless = {stateless, anonymous}
  Anonymous = {anonymous}
  BindingOf <- MCMixed
  Answers <- MCAnswers
  MaxStates = 1
  MaxRounds = 2
  MaxInputs = 2
  MaxTotal = 3
  Ttl = 2
  MaxTime = 2
INVARIANTS AcceptanceIsExact ExchangesAreBounded
PROPERTIES StatelessFence NothingIsBurnt
CHECK_DEADLOCK FALSE
