SPECIFICATION MCSpec
CONSTANTS
  Fleets <- MCFleets
  WorkloadSets <- MCWorkloadSets
  Catalogue <- MCCatalogue
  Queries <- MCQueries
  Scaling <- MCScaling
  Hardware <- HARDWARE_CATALOG
  Requests <- MCRequests
  Workloads <- MCDeployments
  Asked = {"dynamo", "nim", "vllm", "nvidia", "trt"}
  MaxCommands = 2
  Records <- MCRecords
  Seeds <- SEED_BENCHMARKS
  SeedAge = 1
  PostedAges = {0}
  MaxRecords = 7
  MaxDays = 3
  SizeDistance <- MCSizeDistance
  Windows <- MCWindows
  Expected <- SEED_PRODUCTION_DEPLOYMENT
  MaxWindows = 3
  History <- SEED_TELEMETRY_WINDOWS
  Pending <- SEED_RECOMMENDATION
  PendingId = "rec1"
  RecIds = {"rec1", "rec2"}
  MaxPosts = 2
INVARIANT SyntheticIsNeverVerified
CHECK_DEADLOCK FALSE
