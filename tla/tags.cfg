SPECIFICATION FairSpec
CONSTANTS
  Runs = {r1, r2}
  Names = {"Easy", "Hard", "easy", "news", "help"}
  Difficulties = {"Easy", "Hard"}
  normalizeTagName <- Lower
  MaxTags = 3
  MaxAttempts = 2
  InitialNames <- Initially
  MaxEdits = 2
  MaxFailures = 2
CHECK_DEADLOCK FALSE
INVARIANTS
  TypeOK
  NoDuplicateDifficulty
PROPERTIES
  DifficultiesStay
  EnsureIsTrue
  Recovers
