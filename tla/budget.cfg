SPECIFICATION Spec
CONSTANTS
  Nil = Nil
  A = A
  B = B
  C = C
  Guilds = {A, B, C}
  Runs = {r1, r2}
  EnabledGuilds <- ThreeGuilds
  StartNumber <- StartAtOne
  MaxAttempts = 3
  RetryInterval = 1
  RefillThreshold = 2
  RunTimeout = 3
  StaleAfter = 6
  TriggerTimes = {0, 12}
  DayLength = 24
  Horizon = 16
  InitialCache = {1, 2, 3}
  FetchLists = {}
  MaxCopies = 1
  Faults = {"discord"}
INVARIANTS
  OthersGoOn
CHECK_DEADLOCK FALSE
