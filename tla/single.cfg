SPECIFICATION Spec
CONSTANTS
  Nil = Nil
  A = A
  B = B
  C = C
  Guilds = {A}
  Runs = {r1, r2, r3}
  EnabledGuilds <- OneGuild
  StartNumber <- StartAtOne
  MaxAttempts = 2
  RetryInterval = 1
  RefillThreshold = 2
  RunTimeout = 3
  StaleAfter = 6
  TriggerTimes = {0, 1, 8}
  DayLength = 8
  Horizon = 10
  InitialCache = {2}
  FetchLists = {{2, 4, 5}}
  MaxCopies = 1
  Faults = {"load", "fetch", "badList", "discord", "notify"}
SYMMETRY Symmetric
INVARIANTS
  RecordNeverConflicts
  NoDuplicatePosts
  NoSilentDay
CHECK_DEADLOCK FALSE
