SPECIFICATION Spec

CONSTANTS
  Requests = {r1, r2, r3, r4}
  r1 = r1
  r2 = r2
  r3 = r3
  r4 = r4
  MaxSessions = 3
  Sizes = {3, 4, 7, 9}
  NameLens = {2, 5}
  MaxName = 6
  MaxCookie = 10
  Attrs = 2

SYMMETRY RequestSymmetry

INVARIANTS
  LoadsLastSaved
  CookiesFit

PROPERTIES
  ClearLeavesNothing

CHECK_DEADLOCK FALSE
