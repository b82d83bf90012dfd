SPECIFICATION FairSpec
CONSTANTS
  Legacies <- MCLegacies
  YAMLs <- MCYAMLs
  Cores <- MCCores
  Visits <- MCVisits
  Hosts <- MCHosts
  MaxLaunches = 2
  MaxVisits = 2
INVARIANTS
  ClosestServes
  ValidUpstreamsRegister
  MigrationKeepsOptions
PROPERTIES
  RedirectsStayHome
  PlainJourneysEnd
CHECK_DEADLOCK FALSE
