SPECIFICATION FairSpec
CONSTANTS
  Servers = {"appServer", "metricsServer", "disabledServer"}
  Listeners = {"http", "https", "metrics"}
  ServerOf <- ThreeListeners
  NoError = "none"
  MaxConns = 2
INVARIANTS
  DrainedBeforeReturn
  ErrorReported
PROPERTIES
  StopsEventually
