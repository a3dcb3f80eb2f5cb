CONSTANTS
  Second = 1
  Minute = 2
  KVMANAGER_MAXINUM_PER_SECOND = 1
  KVMANAGER_MAXINUM_PER_MINUTE = 3
  KVSTORE_MAXINUM_PER_SECOND = 2
  KVSTORE_MAXINUM_PER_MINUTE = 3
  Holders = {"notifications", "screen", "preferences"}
  Faults = {"watch", "open", "subscribe", "status", "devices"}
  MaxCalls = 5
SPECIFICATION Spec
INVARIANTS HeldIsHeard StatusIsTold StoreMinuteHolds
CHECK_DEADLOCK FALSE
