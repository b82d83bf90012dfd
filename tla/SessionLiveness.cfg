SPECIFICATION FairSpec
CONSTANTS
  Requests = {r1, r2}
  r1 = r1
  r2 = r2
  NoRequest = NoRequest
  RefreshPeriod = 1
  CookieExpire = 0
  Second = 1
  LockDuration = 1
  ObtainTimeout = 2
  TokenLife = 0
  RefreshSupported = TRUE
  HasValidateURL = TRUE
  Handlers = {"proxy"}
  Revocable = {}
  Rotating = {TRUE}
  Prompt = FALSE
  MaxTime = 5
  MaxArrive = 2
  MaxFaults = 1
  MaxGrants = 1
  MaxTickets = 1
PROPERTIES
  EveryRequestAnswered
  LockFreed
