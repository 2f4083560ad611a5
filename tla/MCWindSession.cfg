CONSTANTS
  w1 = w1
  w2 = w2
  c1 = c1
  Workers <- MCWorkers
  Callers <- MCCallers
  NoThread = NoThread
  MaxRetries = 2
  MaxCalls = 4
SPECIFICATION FairSpec
INVARIANTS
  TypeOK
  FailureNotForgotten
  FlagsMatchSdk
PROPERTIES
  ImplementsContract
  WedgedQueryBlocksNobody
CHECK_DEADLOCK FALSE
