SPECIFICATION Spec
CONSTANTS
  a = a
  b = b
  r = r
  x0 = x0
  x1 = x1
  g1 = g1
  g2 = g2
  Session = {a, b, r}
  Root = {r}
  Anonymous = {}
  SessionSg <- SgOfEach
  Sitegroup = {x0, x1}
  SG0 = x0
  Guid = {g1}
  NoGuid = NoGuid
  NoRow = NoRow
  NoEntry = NoEntry
  MaxRow = 2
  MayCrash = TRUE
  MayFail = TRUE
  Careful = FALSE
SYMMETRY Clients
INVARIANTS TypeOK TombstoneHasNoRow RowIsCatalogued
PROPERTIES OnlyOwnerWrites LifecycleRefined
