SPECIFICATION Spec
CONSTANTS
  a = a
  b = b
  su = su
  joe = joe
  u = u
  v = v
  g = g
  n1 = n1
  n2 = n2
  Conn = {a, b}
  Person = {su, joe}
  Login = {u, v}
  Group = {g}
  SgName = {n1, n2}
  MaxSg = 3
  HomeOf <- Home
  LoginOf <- FirstLogin
  GroupsOf <- FirstGroups
  FirstSg <- TwoSitegroups
  RootGroup = RootGroup
  Nobody = Nobody
  NoName = NoName
  NoGroup = NoGroup
  Ready = Ready
  NoSg = NoSg
  MaxLogins = 2
  MaxChanges = 2
SYMMETRY Alike
CHECK_DEADLOCK FALSE
INVARIANTS IdentityAgrees WorksAtHome
