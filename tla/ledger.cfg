\* one job, two status requests at once, a self-heal thread
SPECIFICATION Spec
CONSTANTS
  p1 = p1
  s1 = s1
  s2 = s2
  heal = heal
  Loop = Loop
  Prompts <- OneJob
  Sweeps <- PageRequests
  Threads = {heal}
  MaxWeek = 1
  MaxCrashes = 1
INVARIANTS
  OneRecordPerPrompt
  EndsAreReal
PROPERTY EndedJobsAreShown
