CONSTANTS
  a1 = a1  a2 = a2  b1 = b1  task = task
  x = x  y = y  u1 = u1  u2 = u2
  i1 = i1  i2 = i2  g = g  social = social  other = other
  Apps = {a1, a2, b1}
  SystemApps = {}
  Services = {}
  Names = {x, y}
  Users = {u1, u2}
  NameOf <- MCNameOf
  UserOf <- MCUserOf
  Compatible = {a1, a2, b1}
  Ids = {i1, i2}
  Unlabelled = {i1}
  Groups = {g}
  SlotTypes = {social, other}
  DefaultLevel <- MCTwoLevels
  Levels = {}
  Requests <- CapRequests
  MaxActive = 3
  MaxPerApp = 2
  MaxPerSecond = 2
  Window = 1
  RecentCounts = {1}
  DefaultCount = 2
SPECIFICATION CapsSpec
INVARIANTS KeyUnique WithinMaxActive RecentAgrees
PROPERTIES AdmissionIsCounted EvictionIsFair RemovalIsFocused
