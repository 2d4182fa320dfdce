SPECIFICATION CopiesSpec
CONSTANTS
  a = a
  b = b
  n = n
  c1 = c1
  c2 = c2
  Session = {a, b}
  LoggedIn = {a, b}
  Nobody = Nobody
  Content = {c1, c2}
  None = None
  Unset = Unset
  MaxRevision = 3
  MayFail = TRUE
  s1 = s1
  s2 = s2
  news = news
  menu = menu
  foot = foot
  www = www
  Client = {a, b}
  Hosts <- TwoHosts
  Page = {1, 2}
  Style = {s1, s2}
  Name = {news, menu}
  HostName = {www}
  Port = {80, 81}
  PageUp <- Up
  PageName <- PName
  PageStyle <- PStyle
  PageActive <- Active
  StyleUp <- SUp
  PageElement = {10, 11}
  StyleElement = {12, 13}
  ElementName <- EName
  Translated <- InOther
  Place <- Where
  Lang = {0, 1}
  Nowhere = Nowhere
  Ready = Ready
  MaxChanges = 1
  MaxLoads = 3
  MayCrash = TRUE
  MayRefuse = TRUE
SYMMETRY Alike
CHECK_DEADLOCK FALSE
INVARIANTS FreshHandleAgrees ApprovalIsSigned LoadIsComplete CacheServesPage
PROPERTIES LockExcludes CurrentWriterLosesNothing
