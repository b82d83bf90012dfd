SPECIFICATION FairSpec
CONSTANTS
  Legacies = {}
  YAMLs <- MCYAMLs
  Cores <- MCCores
  Visits <- QueryVisits
  Hosts <- MCHosts
  MaxLaunches = 1
  MaxVisits = 1
PROPERTY
  EveryJourneyEnds
CHECK_DEADLOCK FALSE
