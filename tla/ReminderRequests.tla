-------------------------- MODULE ReminderRequests --------------------------
(***************************************************************************)
(* One reminder: ReminderRequest and its kinds ReminderRequestAlarm and    *)
(* ReminderRequestTimer (frameworks/ans/src/reminder_request*.cpp), and    *)
(* what their handlers make of it.                                         *)
(*                                                                         *)
(* Time counts ticks.  A clock has two hands: the wall time, which the     *)
(* user may set, and the time since boot.  An alarm is due every day at    *)
(* its hour; a timer when the time since boot reaches its end.             *)
(***************************************************************************)
EXTENDS Integers

CONSTANTS
  Apps,         \* applications that own reminders
  Notes,        \* notification ids of reminders
  Kinds,        \* the reminders an application may make
  DayLength,    \* ticks of a day
  MinInterval   \* MIN_TIME_INTERVAL_IN_MILLI, in ticks

(* How a reminder repeats: every day, and times times after the interval. *)
Kind == [type : {"alarm", "timer"}, repeats : BOOLEAN,
         interval : Nat, times : Nat, at : Nat]

ASSUME KindsAssumption ==
  /\ Kinds \subseteq Kind
  /\ DayLength \in Nat \ {0} /\ MinInterval \in Nat
  /\ \A k \in Kinds :
       /\ k.type = "alarm" => k.at < DayLength
       /\ k.interval = 0 \/ k.interval >= MinInterval

INVALID_LONG_LONG_VALUE == 0

Is(r, flag) == flag \in r.state
Set(r, flags) == [r EXCEPT !.state = @ \cup flags]
Unset(r, flags) == [r EXCEPT !.state = @ \ flags]

CanRemove(r) == r.state \cap {"showing", "alerting", "active"} = {}

(* Whether five minutes have passed since it was last shown; the           *)
(* difference is unsigned, so that a time to come is long past.            *)
CanShow(r, clock) ==
  r.reminderTime > clock.wall \/ clock.wall - r.reminderTime >= MinInterval

ShouldShowImmediately(r, clock) == r.trigger <= clock.wall

----------------------------------------------------------------------------
(* The next time                                                           *)

GetNextTriggerTime(r, clock, forceToGetNext) ==
  LET target == (clock.wall \div DayLength) * DayLength + r.due
  IN  IF clock.wall < target THEN target
      ELSE IF r.kind.repeats \/ forceToGetNext THEN target + DayLength
      ELSE INVALID_LONG_LONG_VALUE

(* Called to ignore the repetition, and not to force a next time. *)
PreGetNextTriggerTimeIgnoreSnooze(r, clock) ==
  IF r.kind.type = "timer" THEN INVALID_LONG_LONG_VALUE
  ELSE GetNextTriggerTime(r, clock, FALSE)

IsRepeatReminder(r) ==
  r.kind.repeats \/ (r.kind.interval > 0 /\ r.kind.times > 0)

(* The next time once it was shown: a snooze if any is left, else the next *)
(* day, else none.                                                         *)
UpdateNextReminder(r, clock) ==
  LET renewed == [r EXCEPT !.snoozesLeft = r.kind.times]
  IN  IF r.kind.type = "timer" THEN [r EXCEPT !.expired = TRUE]
      ELSE IF IsRepeatReminder(r) /\ r.snoozesLeft > 0 /\ r.kind.interval > 0
      THEN [r EXCEPT !.trigger = @ + r.kind.interval, !.snoozesLeft = @ - 1]
      ELSE IF r.kind.repeats
      THEN [renewed EXCEPT !.trigger = GetNextTriggerTime(r, clock, TRUE)]
      ELSE [renewed EXCEPT !.expired = TRUE]

----------------------------------------------------------------------------
(* What happens to a reminder                                              *)

(* A reminder as an application makes it: due is the hour of an alarm, and *)
(* of a timer the end in time since boot.                                  *)
NewReminder(app, note, kind, clock) ==
  LET due == IF kind.type = "timer" THEN clock.boot + kind.at ELSE kind.at
      r == [app |-> app, note |-> note, kind |-> kind, due |-> due,
            trigger |-> clock.wall + kind.at, expired |-> FALSE,
            snoozesLeft |-> kind.times, state |-> {},
            reminderTime |-> INVALID_LONG_LONG_VALUE]
  IN  IF kind.type = "timer" THEN r
      ELSE [r EXCEPT !.trigger = GetNextTriggerTime(r, clock, TRUE)]

OnStart(r) == IF r.expired THEN r ELSE Set(r, {"active"})
OnStop(r) == Unset(r, {"active"})

OnShow(r, clock, isPlaySound, isSysTimeChanged, allowToNotify) ==
  LET begun == [Unset(r, {"active", "snooze"}) EXCEPT !.reminderTime =
                  IF isSysTimeChanged THEN clock.wall ELSE r.trigger]
      next == UpdateNextReminder(begun, clock)
  IN  IF ~allowToNotify THEN next
      ELSE Set(next, {"showing"} \cup {f \in {"alerting"} : isPlaySound})

(* A mutant: the notification that was refused counts as shown. *)
OnShowFailIgnored(r) == r

OnShowFail(r) == Unset(r, {"showing"})
OnTerminate(r) == Unset(r, {"alerting"})
OnSameNotificationIdCovered(r) == Unset(r, {"alerting", "showing", "snooze"})

OnClose(r, clock, updateNext) ==
  LET closed == Unset(r, {"showing", "snooze", "alerting"})
      next == PreGetNextTriggerTimeIgnoreSnooze(r, clock)
  IN  IF ~Is(r, "showing") THEN r
      ELSE IF ~updateNext THEN closed
      ELSE IF next = INVALID_LONG_LONG_VALUE
      THEN [closed EXCEPT !.expired = TRUE]
      ELSE [closed EXCEPT !.trigger = next, !.snoozesLeft = r.kind.times]

OnSnooze(r, clock) ==
  LET later == [Unset(r, {"alerting"}) EXCEPT
                  !.trigger = clock.wall + r.kind.interval,
                  !.snoozesLeft = r.kind.times]
  IN  IF Is(r, "snooze") THEN r
      ELSE IF r.kind.interval = 0 THEN later
      ELSE Set([later EXCEPT !.expired = FALSE], {"snooze"})

(* The wall time was set: what becomes of the reminder, and whether it is  *)
(* to be shown at once.                                                    *)
OnDateTimeChange(r, clock) ==
  LET next == PreGetNextTriggerTimeIgnoreSnooze(r, clock)
  IN  IF r.expired THEN [r |-> r, show |-> FALSE]
      ELSE IF r.kind.type = "timer"
      THEN [r |-> [r EXCEPT !.trigger = clock.wall + r.due - clock.boot],
            show |-> FALSE]
      ELSE IF next # INVALID_LONG_LONG_VALUE /\ next <= r.trigger
      THEN [r |-> [r EXCEPT !.trigger = next, !.snoozesLeft = r.kind.times],
            show |-> FALSE]
      ELSE IF r.trigger <= clock.wall
      THEN [r |-> [r EXCEPT !.snoozesLeft = 0], show |-> TRUE]
      ELSE [r |-> r, show |-> FALSE]
=============================================================================
