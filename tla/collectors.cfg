SPECIFICATION CollectorsSpec
CONSTANTS
  a = a
  b = b
  n1 = n1
  v1 = v1
  v2 = v2
  Session = {a, b}
  Name = {n1}
  Value = {v1, v2}
  Empty = Empty
  NoRow = NoRow
  Gone = Gone
  Unread = Unread
  NoBlob = NoBlob
  Ready = Ready
  MaxRow = 2
  MayFail = TRUE
  MayCrash = TRUE
  Objects <- SomeObjects
  Contents <- SomeContents
  Topics <- SomeTopics
  Extensions <- SomeExtensions
  Settings <- SomeSettings
  Compared <- SomeCompared
  Related <- SomeRelated
  Below <- SomeBelow
  Sorted <- SomeSorted
  Numbers = {1}
  Langs = {0}
  Columns <- SomeColumns
  MaxOf <- Bounds
  MaxCalls = 4
  None = None
SYMMETRY Alike
CHECK_DEADLOCK FALSE
INVARIANTS FreshCacheAgrees NamesPerSession NoStrayFile ListsWhatWasAsked CollectsWhatWasAsked
