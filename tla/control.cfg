\* four requests in any overlap
SPECIFICATION Spec
SYMMETRY RequestSymmetry
CONSTANTS
  a1 = a1
  a2 = a2
  d1 = d1
  r1 = r1
  r2 = r2
  r3 = r3
  r4 = r4
  NoId = NoId
  Global = Global
  Requests <- FourRequests
  Actions <- MCActions
  Deployments <- MCDeployments
  TargetOf <- MCTargetOf
  Existing <- First
  Seeded <- Second
  Postable <- AllPosts
  Policy <- ShortPolicy
  Baseline <- RouteBaseline
  Telemetry <- RouteTelemetry
INVARIANTS
  RunsBelongToTheirActions
  VersionCountsOutcomes
  EndsHaveWitnesses
CHECK_DEADLOCK FALSE
