CONSTANTS
  owner = owner  notice = notice  ipc = ipc
  EventThread = EventThread  NoThread = NoThread
  NoReminder = NoReminder  NoRow = NoRow
  Apps = {owner}
  Notes = {notice}
  Kinds <- OnlyAlarm
  DayLength = 3
  MinInterval = 2
  Callers = {ipc}
  Calls = {"publish"}
  Answers = {"sound"}
  MaxSystem = 2
  MaxApp = 2
  RingDuration = 1
  MaxReminders = 2
  MaxWall = 6
  MaxTicks = 4
  MaxEvents = 1
  MaxBusy = 1
SPECIFICATION Spec
CHECK_DEADLOCK FALSE
INVARIANTS RecentIsTimed
