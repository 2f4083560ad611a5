CONSTANTS
  c1 = c1
  c2 = c2
  c3 = c3
  k1 = k1
  k2 = k2
  Jobs <- MCTwoCallers
  Keys <- MCKeys
  KeyOf <- MCShared
  NoJob = NoJob
  MaxExecutors = 3
  Loop = Loop
  NoThread = NoThread
SPECIFICATION FairSpec
PROPERTIES
  EveryCallEnds
CHECK_DEADLOCK FALSE
