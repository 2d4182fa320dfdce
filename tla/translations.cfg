SPECIFICATION Spec
CONSTANTS
  a = a
  b = b
  g1 = g1
  g2 = g2
  n1 = n1
  n2 = n2
  b1 = b1
  b2 = b2
  Session = {a, b}
  Guid = {g1, g2}
  Name = {n1}
  Body = {b1}
  Lang = {0, 1, 2}
  Spoken = {0, 1}
  Default = 2
  Docs <- SomeDocs
  NoRow = NoRow
  Idle = Idle
  MaxRow = 2
  MaxText = 3
  MaxCalls = 3
  MayCrash = TRUE
  MayFail = TRUE
SYMMETRY Alike
INVARIANTS ObjectsAreWhole ImportedIsWhole
PROPERTIES OtherLanguagesStay
CHECK_DEADLOCK FALSE
