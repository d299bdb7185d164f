SPECIFICATION HttpSpec
CONSTANTS
  Nil = Nil
  A = A
  B = B
  Guilds = {A}
  Runs = {r1, r2}
  EnabledGuilds <- OneGuild
  StartNumber <- StartAtOne
  MaxAttempts = 2
  RetryInterval = 1
  RefillThreshold = 2
  RunTimeout = 100
  StaleAfter = 2
  TriggerTimes <- AnyTime
  DayLength = 2
  Horizon = 3
  InitialCache = {1, 2}
  FetchLists = {{1, 2, 4, 5}}
  MaxCopies = 1
  Faults = {"slow"}
SYMMETRY Symmetric
INVARIANTS
  NoDuplicatePosts
CHECK_DEADLOCK FALSE
