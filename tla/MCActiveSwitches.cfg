CONSTANTS
  a1 = a1  a2 = a2  b1 = b1  task = task
  x = x  y = y  u1 = u1  u2 = u2
  i1 = i1  i2 = i2  g = g  social = social  other = other
  Apps = {a1, b1}
  SystemApps = {b1}
  Services = {task}
  Names = {x, y}
  Users = {u1}
  NameOf <- MCTwoNames
  UserOf <- MCTaskUser
  Compatible = {b1}
  Ids = {i1}
  Unlabelled = {i1}
  Groups = {g}
  SlotTypes = {social}
  DefaultLevel <- MCOneLevel
  Levels = {4}
  Requests <- SwitchRequests
  MaxActive = 2
  MaxPerApp = 2
  MaxPerSecond = 1
  Window = 0
  RecentCounts = {1}
  DefaultCount = 1
SPECIFICATION Spec
CHECK_DEADLOCK FALSE
INVARIANTS QuietWhenOff RecentAgrees ListedIsShown
PROPERTIES  CapsHoldForApps
