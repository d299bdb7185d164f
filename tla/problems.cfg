SPECIFICATION Spec
CONSTANTS
  NoProblem = NoProblem
  Slugs = {"s1", "s2", "s3", "s4", "s5"}
  Categories = {"arrays", "graphs"}
  StartNumbers = {1, 2, 3}
  RefillThreshold = 2
  InitialLists <- StartLists
  FetchedLists <- RefillLists
  Faults = {"fetch", "notify", "save"}
INVARIANTS
  TypeOK
PROPERTIES
  PicksTheNext
  CacheIsUsedUp
  ProgressCountsUp
CHECK_DEADLOCK FALSE
