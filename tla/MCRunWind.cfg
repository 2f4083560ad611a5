CONSTANTS
  c1 = c1
  c2 = c2
  c3 = c3
  k1 = k1
  k2 = k2
  Jobs <- MCCallers
  Keys <- MCKeys
  KeyOf <- MCMixed
  NoJob = NoJob
  MaxExecutors = 3
  Loop = Loop
  NoThread = NoThread
SPECIFICATION FairSpec
INVARIANTS
  TypeOK
  CurrentPoolIsClean
  InflightIsLive
PROPERTIES
  QueriesStartOnRebuiltSession
  LosesPoolOnlyToLateTimeout
  OnlyDedupHitsBlock
CHECK_DEADLOCK FALSE
