CONSTANTS
  q = q
  p = p
  s = s
  Main = Main
  Worker = Worker
  NoThread = NoThread
  NoJob = NoJob
  NoLimits = NoLimits
  Jobs <- MCJobs
  Keys <- MCKeys
  Profiles <- MCProfiles
  Screens <- MCScreens
  Layerings <- MCDocumented
  MaxSizeName <- MCMaxSizeName
  TtlName <- MCTtlName
  Default <- MCDefault
  Numeral <- MCNumeral
  MaxExecutors = 1
  MaxRetries = 3
  MaxCalls = 10
  MaxRequests = 2
SPECIFICATION Spec
PROPERTIES
  SettingsTakeEffect
CHECK_DEADLOCK FALSE
