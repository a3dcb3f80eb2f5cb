----------------------- MODULE MCReminderDataManager -----------------------
(* Small instances of ReminderDataManager for the model checker.           *)
EXTENDS ReminderDataManager

CONSTANTS owner, notice, ipc

Alarm(hour, repeats, interval, times) ==
  [type |-> "alarm", repeats |-> repeats, interval |-> interval,
   times |-> times, at |-> hour]
CountDown(ticks) ==
  [type |-> "timer", repeats |-> FALSE, interval |-> 0, times |-> 0, at |-> ticks]

(* An alarm that snoozes once, and a timer. *)
SnoozingAlarm == Alarm(1, FALSE, 2, 1)
OnlyAlarm == {SnoozingAlarm}
MixedKinds == {SnoozingAlarm, CountDown(1)}
=============================================================================
