SPECIFICATION MCSpec
CONSTANTS
  v1 = v1
  a1 = a1
  a2 = a2
  c1 = c1
  c2 = c2
  c3 = c3
  nowhere = nowhere
  p1 = p1
  p2 = p2
  h1 = h1
  h2 = h2
  d1 = d1
  d2 = d2
  Initial = v1
  Actions = {a1, a2}
  Splits <- MCSplits
  Clusters = {c1, c2, c3}
  Unknown = nowhere
  Weights = {0, 1, 2, 3}
  Whole = 3
  SeedWeight <- MCSeedWeight
  SeedPrimary = c1
  Backends = {1, 2, 3, 4}
  Prefixes = {p1, p2}
  ModelOf <- MCModelOf
  Capacity <- MCCapacity
  SeedRequests <- MCSeedReq
  SeedWarm <- MCSeedWarm
  PatchIds = {h1, h2}
  Deployments = {d1, d2}
  PatchTypes = {"kv_cache_quantization", "lora_adapter_swap", "concurrency_budget", "prefix_cache_eviction", "other"}
  Runtimes = {"vllm", "xla"}
  MaxApplied = 3
  NoPatch = NoPatch
  Values = {0, 1}
  StartSpec <- MCStart
  DesiredSpecs <- MCDesired
  MaxPlans = 2
  Policies <- MCPolicies
  Measures <- MCMeasures
  MaxSent = 101
  MaxSuppressed = 1
  Challenges = {"chal-1", "chal-2"}
  MinDuration = 1500
  MaxDuration = 10000
  Measured <- MCMeasured
  MaxProofs = 2
  Lifetime = 1
INVARIANTS
  TrafficAddsUp
  KeepsAPrimary
  DrainsMigrate
  RollbacksAreOwn
  AutomaticPlansAreSmall
  OnlyReadsAreReplayed
PROPERTY
  NoTrafficToSick
CHECK_DEADLOCK FALSE
