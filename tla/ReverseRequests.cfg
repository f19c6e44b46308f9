SPECIFICATION FairSpec
CONSTANTS
  c1 = c1
  c2 = c2
  r1 = r1
  Calls = {c1, c2}
  Requests = {r1}
  Owner <- MCMixedOwner
  Legacy2024 = TRUE
  Negative = TRUE
  FirstId <- MCFirstNegative
  LastId <- MCLastNegative
  MaxInFlight = 1
  NoCall = NoCall
  NoId = NoId
  NoRequest = NoRequest
  NoOutcome = NoOutcome
INVARIANTS TrackerIsExact WaitersAreServed PeerToldToStop
PROPERTIES TerminalOwnerNeverAnswered CallsAreReleased
CHECK_DEADLOCK FALSE
