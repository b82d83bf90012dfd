SPECIFICATION Spec
CONSTANTS
  Requests = {r1, r2}
  r1 = r1
  r2 = r2
  NoRequest = NoRequest
  RefreshPeriod = 1
  CookieExpire = 3
  Second = 1
  LockDuration = 1
  ObtainTimeout = 2
  TokenLife = 3
  RefreshSupported = TRUE
  HasValidateURL = TRUE
  Handlers = {"proxy", "auth", "signOut", "callback"}
  Revocable = {1}
  Rotating = {TRUE}
  Prompt = FALSE
  MaxTime = 5
  MaxArrive = 2
  MaxFaults = 1
  MaxGrants = 2
  MaxTickets = 3
SYMMETRY RequestSymmetry
INVARIANTS
  LeaseExclusion
  LeaseBacked
  ClearedStaysCleared
  WritersHoldLiveSessions
PROPERTIES
  LockKeptByOwner
  ImplementsLease
