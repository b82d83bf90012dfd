SPECIFICATION Spec
CONSTANTS
  Browsers = {b1, b2}
  b1 = b1
  b2 = b2
  Flows = {1, 2, 3}
  Calls = {c1, c2}
  c1 = c1
  c2 = c2
  NoFlow = 0
  CSRFPerRequest = TRUE
  CSRFPerRequestLimit = 1
  CSRFExpire = 2
  StateSubstring <- OneCollision
  PKCE = FALSE
  MaxTime = 2
SYMMETRY LoginSymmetry
INVARIANTS
  SessionFromOwnFlow
  FinishedFlowLeavesNoCookie
  ParallelLoginsKeepCookies
  PushedOutByNewer
CHECK_DEADLOCK FALSE
