CONSTANTS
  c1 = c1
  c2 = c2
  c3 = c3
  k1 = k1
  k2 = k2
  Jobs <- MCCallers
  Keys <- MCKeys
  KeyOf <- MCShared
  NoJob = NoJob
  MaxExecutors = 4
  Loop = Loop
  NoThread = NoThread
SPECIFICATION Spec
INVARIANTS
  NoDuplicateQuery
CHECK_DEADLOCK FALSE
