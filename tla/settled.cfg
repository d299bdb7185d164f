SPECIFICATION FairSpec
CONSTANTS
  Nil = Nil
  A = A
  B = B
  C = C
  Guilds = {A}
  Runs = {r1, r2}
  EnabledGuilds <- OneGuild
  StartNumber <- StartAtOne
  MaxAttempts = 3
  RetryInterval = 1
  RefillThreshold = 2
  RunTimeout = 3
  StaleAfter = 6
  TriggerTimes = {0, 1, 6}
  DayLength = 12
  Horizon = 9
  InitialCache = {2}
  FetchLists = {{2, 4, 5}}
  MaxCopies = 1
  Faults = {"fetch", "badList", "discord", "lostThread", "crash"}
PROPERTIES
  EveryRunEnds
  DaySettled
  StuckPostingIsSettled
CHECK_DEADLOCK FALSE
