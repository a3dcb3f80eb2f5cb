CONSTANTS
  owner = owner  notice = notice  ipc = ipc
  EventThread = EventThread  NoThread = NoThread
  NoReminder = NoReminder  NoRow = NoRow
  Apps = {owner}
  Notes = {notice}
  Kinds <- MixedKinds
  DayLength = 3
  MinInterval = 2
  Callers = {ipc}
  Calls = {"publish", "close", "snooze", "setTime", "processDied"}
  Answers = {"sound", "failed", "refused", "silent"}
  MaxSystem = 2
  MaxApp = 2
  RingDuration = 1
  MaxReminders = 2
  MaxWall = 6
  MaxTicks = 2
  MaxEvents = 1
  MaxBusy = 1
SPECIFICATION Spec
CHECK_DEADLOCK FALSE
INVARIANTS RingingEnds RestartLosesNothing 
