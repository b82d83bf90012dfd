SPECIFICATION Spec
CONSTANTS
  g = g
  h = h
  e = e
  Groups <- MCGroups
  Extra <- MCExtra
  Org = g
  Team = e
  Options <- MCOptions
  ClaimSets <- MCClaimSets
  NoSession = NoSession
  MaxGrants = 2
  MaxFaults = 1
  MaxChanges = 2
INVARIANTS
  GroupsWereReported
  UnverifiedMailRefused
  RestrictedLoginsOnly
PROPERTIES
  RefreshRechecksGroups
  IdentityFollowsIDToken
  RefreshTokenSaved
CHECK_DEADLOCK FALSE
