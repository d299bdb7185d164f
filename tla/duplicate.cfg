SPECIFICATION Spec
CONSTANTS
  Nil = Nil
  A = A
  B = B
  C = C
  Guilds = {A, B}
  Runs = {r1, r2, r3}
  EnabledGuilds <- TwoGuilds
  StartNumber <- StartAtOne
  MaxAttempts = 1
  RetryInterval = 1
  RefillThreshold = 2
  RunTimeout = 3
  StaleAfter = 6
  TriggerTimes = {0, 12}
  DayLength = 24
  Horizon = 15
  InitialCache = {1, 2, 3}
  FetchLists = {}
  MaxCopies = 1
  Faults = {}
INVARIANTS
  NoDuplicatePosts
CHECK_DEADLOCK FALSE
