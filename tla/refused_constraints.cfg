SPECIFICATION QuerySpec
CONSTANTS
  Objects <- SomeObjects
  Contents <- SomeContents
  Topics <- SomeTopics
  Extensions <- SomeExtensions
  Settings <- SomeSettings
  Compared <- SomeCompared
  Related = {}
  Below <- SomeBelow
  Sorted = {}
  Numbers = {1}
  Langs = {0}
  Columns = {}
  MaxOf <- Bounds
  MaxCalls = 4
  None = None
INVARIANT RefusedCallsLeaveNoTrace
CHECK_DEADLOCK FALSE
