CONSTANTS
  c1 = c1
  c2 = c2
  x1 = x1
  x2 = x2
  Jobs <- MCCallers
  Terminators <- MCTerminators
  NoJob = NoJob
  MaxExecutors = 5
  MaxCalls = 5
SPECIFICATION Spec
INVARIANTS
  CallsAreSerialized
CHECK_DEADLOCK FALSE
