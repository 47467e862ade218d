\* a caller names a candidate of its own making
SPECIFICATION Spec
CONSTANTS
  NoId = NoId
  a1 = a1
  a2 = a2
  a3 = a3
  d1 = d1
  Callers <- PairCallers
  Deployments <- MCDeployments
  DeploymentOf <- PairDeploymentOf
  Policy <- RoutePolicy
  Baseline <- RouteBaseline
  Telemetry <- RouteTelemetry
  Faults = {}
  KnowsCandidate = {}
INVARIANT
  RestoredMeansNoTraffic
CHECK_DEADLOCK FALSE
