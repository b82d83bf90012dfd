SPECIFICATION Spec
CONSTANTS
  Requests = {r1, r2, r3}
  r1 = r1
  r2 = r2
  r3 = r3
  NoRequest = NoRequest
  RefreshPeriod = 1
  CookieExpire = 0
  Second = 2
  LockDuration = 2
  ObtainTimeout = 1
  TokenLife = 0
  RefreshSupported = TRUE
  HasValidateURL = TRUE
  Handlers = {"proxy", "callback"}
  Revocable = {}
  Rotating = {TRUE, FALSE}
  Prompt = TRUE
  MaxTime = 7
  MaxArrive = 4
  MaxFaults = 0
  MaxGrants = 2
  MaxTickets = 2
SYMMETRY RequestSymmetry
INVARIANTS
  CurrentTokenKept
  NoSpuriousInvalidGrant
PROPERTIES
  RefreshMonotone
