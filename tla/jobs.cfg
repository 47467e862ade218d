\* two daemons, three jobs, one post and one restart of the server
SPECIFICATION Spec
CONSTANTS
  w1 = w1
  w2 = w2
  jDone = jDone
  jSeed = jSeed
  jNew = jNew
  NoWorker = NoWorker
  NoResult = NoResult
  Workers = {w1, w2}
  OneShot = {w2}
  Tier <- MCTier
  SeedWorkers = {w2}
  Jobs = {jDone, jSeed, jNew}
  Needs = {1, 2}
  SeedOrder <- MCSeedOrder
  SeedJobs <- MCSeedJobs
  MaxPosts = 1
  MaxRestarts = 1
INVARIANTS
  OneRunPerPost
  ResultsAreStored
  ClaimsWithinTier
PROPERTY
  QueuedJobsAreClaimed
