SPECIFICATION FairSpec
CONSTANTS
  MaxRetries = 3
  InitialWait = 2
  MaxWait = 5
  Jitter = 2
  Nil = Nil
INVARIANTS
  TypeOK
  WaitsBounded
  FailsOnlyWhenExhausted
PROPERTIES
  ImplementsDiscordCall
  NoNeedlessCopy
  CallEnds
CHECK_DEADLOCK FALSE
