CONSTANTS
  CodeLists <- MCCodeLists
  FieldLists <- MCFieldLists
  Options <- MCOptions
  Dates <- MCDates
  Backwards <- MCBackwards
  Words <- MCWords
  DayOptions <- MCDayOptions
  Periods <- MCPeriods
  Offsets <- MCOffsets
  ToWind <- MCToWind
  Lower <- MCLower
  FieldSets <- MCFieldSets
  Days <- MCDays
  Screens <- MCScreens
  Contained <- MCContained
  CodeText <- MCCodeText
  Found <- MCFound
  Cells <- MCCells
  NoReply = NoReply
  NoCall = NoCall
  MaxCalls = 2
SPECIFICATION Spec
INVARIANTS
  EmptyEndIsToday
CHECK_DEADLOCK FALSE
