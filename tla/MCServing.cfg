CONSTANTS
  a = a
  b = b
  p = p
  Keys <- MCKeys
  Profiles <- MCProfiles
  Ttl <- MCTtl
  Answers <- MCAnswers
  NoAnswer = NoAnswer
  MaxSize = 2
  MaxTime = 4
  MaxCalls = 5
SPECIFICATION Spec
INVARIANTS
  TypeOK
  SizeBounded
PROPERTIES
  ImplementsCacheContract
  LeastRecentlyUsedGoes
CHECK_DEADLOCK FALSE
