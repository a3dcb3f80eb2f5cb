CONSTANTS
  attentive = attentive
  curt = curt
  Objects = {attentive, curt}
  CallbacksOf <- SomeCallbacks
  Reasons = {"CANCEL"}
  Posted = {"OnCanceled"}
  PoolSize = 2
  MaxInstances = 2
  MaxCalls = 3
  MaxPosts = 2
SPECIFICATION FairSpec
INVARIANT HeardOnce
INVARIANT UnsubscribedByOne
PROPERTY PostedIsHeard
CHECK_DEADLOCK FALSE
