SPECIFICATION HttpSpec
CONSTANTS
  Nil = Nil
  A = A
  B = B
  Guilds = {A}
  Runs = {r1, r2}
  EnabledGuilds <- OneGuild
  StartNumber <- StartAtOne
  MaxAttempts = 2
  RetryInterval = 1
  RefillThreshold = 2
  RunTimeout = 100
  StaleAfter = 2
  TriggerTimes <- AnyTime
  DayLength = 3
  Horizon = 4
  InitialCache = Nil
  FetchLists = {{2, 4, 5}}
  MaxCopies = 2
  Faults = {"lostSave", "fetch", "discord", "lostThread", "crash", "slow"}
SYMMETRY Symmetric
INVARIANTS
  LedgerMatchesForum
  NoProblemSkipped
CHECK_DEADLOCK FALSE
