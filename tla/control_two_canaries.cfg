\* two executes, each with an engine of its own
SPECIFICATION Spec
SYMMETRY RequestSymmetry
CONSTANTS
  a1 = a1
  a2 = a2
  d1 = d1
  r1 = r1
  r2 = r2
  r3 = r3
  r4 = r4
  NoId = NoId
  Global = Global
  Requests <- ThreeRequests
  Actions <- MCActions
  Deployments <- MCDeployments
  TargetOf <- MCTargetOf
  Existing <- MCActions
  Seeded = {}
  Postable <- PlansOnly
  Policy <- RoutePolicy
  Baseline <- RouteBaseline
  Telemetry <- RouteTelemetry
INVARIANT
  OneCanaryPerDeployment
CHECK_DEADLOCK FALSE
