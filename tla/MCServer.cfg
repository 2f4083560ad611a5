CONSTANTS
  q = q
  p = p
  s = s
  Main = Main
  Worker = Worker
  NoThread = NoThread
  NoJob = NoJob
  NoLimits = NoLimits
  Jobs <- MCJobs
  Keys <- MCKeys
  Profiles <- MCProfiles
  Screens <- MCScreens
  Layerings <- MCLayerings
  MaxSizeName <- MCMaxSizeName
  TtlName <- MCTtlName
  Default <- MCDefault
  Numeral <- MCNumeral
  MaxExecutors = 1
  MaxRetries = 2
  MaxCalls = 10
  MaxRequests = 2
SPECIFICATION FairSpec
INVARIANTS
  TypeOK
  SdkUsedByOneThread
  StoppedWhenGone
  MetricsAddUp
  CacheObeysSettings
PROPERTIES
  MainComesBack
CHECK_DEADLOCK FALSE
