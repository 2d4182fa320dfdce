SPECIFICATION Spec
CONSTANTS
  a = a
  b = b
  x0 = x0
  x1 = x1
  Session = {a, b}
  Root = {b}
  SessionSg <- PeersSg
  Sitegroup = {x0, x1}
  Metered = {x0, x1}
  TypeMetered = {x0, x1}
  MaxRecords = 1
  MaxSize = 0
  Size = {1}
  NoRow = NoRow
  NoJob = NoJob
  MaxRow = 3
  MaxUpdates = 1
  MaxRefused = 1
INVARIANTS RecordsCounted OvershootBounded
