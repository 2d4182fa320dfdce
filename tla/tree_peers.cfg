SPECIFICATION Spec
CONSTANTS
  a = a
  b = b
  n1 = n1
  Session = {a, b}
  Name = {n1}
  NoName = NoName
  ParentIds = {0}
  NoRow = NoRow
  Idle = Idle
  MaxRow = 2
  Reader = {b}
  Roots = {0, 1}
  Depths = {0, 2}
  Paths <- SomePaths
  MaxDepth = 3
INVARIANTS UndisturbedReadsAreExact
PROPERTIES NamesAreKept NoMutualParents
