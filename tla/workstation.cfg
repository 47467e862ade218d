SPECIFICATION MCSpec
CONSTANTS
  c1 = c1
  c2 = c2
  Clients = {c1, c2}
  Holders = {c1, c2}
  ServiceCount = 1
  Comfy = 1
  MaxTime = 5
  k1 = k1
  Callers = {k1}
  Calls = {1, 2}
  Limit = 2
  Window = 3
  Lanes = {1, 2}
  Mapped = 1
  ModelTTL = 2
  RouteTTL = 2
  Advice <- MCAdvice
  w1 = w1
  w2 = w2
  Workers = {w1, w2}
  TTL = 2
  Longest = 1
  Interval = 1
  Silence = 2
  Loops = {"push loop"}
  Handlers = {"request"}
  Percents = {60, 90}
  Keep = 2
  Soon = 2
  Spans = {0, 1}
  Slowest = 1
  MaxForecasts = 3
  Drops <- MCDrops
  StartXP = {0, 80, 95}
  MaxActions = 3
INVARIANTS
  HeardIsCurrent
  RefusalsAreEarned
  UnavailableIsEarned
  ReportsAgeBounded
  AlarmsAreReal
  JournalsTellTheStory
  PageComesToRest
CHECK_DEADLOCK FALSE
