\* three actions on one deployment; every provider call may reject
SPECIFICATION Spec
SYMMETRY CallerSymmetry
CONSTANTS
  NoId = NoId
  a1 = a1
  a2 = a2
  a3 = a3
  d1 = d1
  Callers <- TrioCallers
  Deployments <- MCDeployments
  DeploymentOf <- TrioDeploymentOf
  Policy <- ShortPolicy
  Baseline <- RouteBaseline
  Telemetry <- RouteTelemetry
  Faults = {"warmup", "traffic_split", "rollback", "throw"}
  KnowsCandidate = {}
INVARIANTS
  OneLiveActionPerDeployment
  LockHeldIffLive
  FailedStartsAreQuiet
PROPERTY
  ImplementsSlot
CHECK_DEADLOCK FALSE
