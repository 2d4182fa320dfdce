SPECIFICATION FairSpec
CONSTANTS
  m = m
  r = r
  g1 = g1
  g2 = g2
  c1 = c1
  c2 = c2
  Site = {m, r}
  NoRow = NoRow
  NoEntry = NoEntry
  Idle = Idle
  Guid = {g1, g2}
  Content = {c1, c2}
  Needs <- ChildNeedsParent
  Usage <- Usages
  MaxVersion = 3
INVARIANT ImportedIsWhatWasSent
PROPERTIES Converges RevisedNeverGoesBack PurgedStaysPurged
