\* router and watchdog together
SPECIFICATION Spec
CONSTANTS
  compat = compat
  v100 = v100
  gpu0 = gpu0
  r1 = r1
  r2 = r2
  Requests = {r1, r2}
  Lanes <- SharedLanes
  Rank <- SharedRank
  Gpu <- SharedGpu
  Compat <- SharedCompat
  Managed = {v100}
  Threshold = 2
  OpenTime = 1
  RecoveryTime = 2
  MaxAttempts = 2
INVARIANT BreakerIsHonest
PROPERTIES
  RestartsAreEarned
  RequestsAnswered
  LiveLanesReturn
