CONSTANTS
  s1 = s1  x = x  y = y  nx = nx  ny = ny  date = date
  u1 = u1  u2 = u2  root = root
  NoUser = NoUser  AllUsers = AllUsers  Link = Link
  UserIds = {u1, u2, root}
  SystemUsers = {root}
  Subscribers = {s1}
  UserOf <- MCUserOf
  Notifications = {nx, ny}
  Bundles = {x, y}
  BundleOf <- MCBundleOf
  SenderOf <- MCSenderOf
  ReceiverOf <- MCReceiverOf
  Settings = {date}
  Calls <- MCCalls
  MaxQueue = 2
  MaxInbox = 2
  MaxPosts = 3
  MaxCalls = 3
SPECIFICATION FairSpec
CHECK_DEADLOCK FALSE
INVARIANTS LastWordIsCurrent EventsWithinLink
PROPERTIES PromiseKept ViewsConverge DeadAreForgotten
