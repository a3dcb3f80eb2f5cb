CONSTANTS
  Threads = {t1, t2}
  Busy = {t1}
  FewCalls = {"CancelAllNotifications"}
  Kinds <- SomeRequests
  MaxStart = 2
SPECIFICATION FairSpec
INVARIANT CallIsCarried
INVARIANT ServedIsPublishable
PROPERTY StaleIsDropped
PROPERTY CallReturns
CHECK_DEADLOCK FALSE
