SPECIFICATION Spec
CONSTANTS
  g = g
  h = h
  e = e
  Groups <- MCGroups
  Extra <- MCExtra
  Org = g
  Team = e
  Options <- GlobalGroupOptions
  ClaimSets <- MCClaimSets
  NoSession = NoSession
  MaxGrants = 2
  MaxFaults = 1
  MaxChanges = 1
INVARIANT
  AllowedGroupsLimitLogins
