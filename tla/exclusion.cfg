SPECIFICATION Spec
CONSTANTS
  Nil = Nil
  A = A
  B = B
  C = C
  Guilds = {A, B}
  Runs = {r1, r2}
  EnabledGuilds <- TwoGuilds
  StartNumber <- StartAtOne
  MaxAttempts = 2
  RetryInterval = 1
  RefillThreshold = 1
  RunTimeout = 1
  StaleAfter = 2
  TriggerTimes = {0, 2, 4}
  DayLength = 4
  Horizon = 5
  InitialCache = {2, 4}
  FetchLists = {}
  MaxCopies = 1
  Faults = {"save", "discord", "crash", "slow"}
SYMMETRY Symmetric
INVARIANTS
  TypeOK
  PostingExclusion
  AnnouncedInStore
  LedgerMatchesForum
  NoSilentDay
PROPERTIES
  NoThreadAfterPosted
  ProgressIsKept
  ImplementsDailyLedger
CHECK_DEADLOCK FALSE
