------------------------ MODULE ReminderDataManager ------------------------
(***************************************************************************)
(* ReminderDataManager (services/ans/src/reminder_data_manager.cpp): the   *)
(* reminders applications have published, the timer of the next one, the   *)
(* one whose sound plays, and the database they are kept in.               *)
(*                                                                         *)
(* Applications call on the threads of the IPC; the common events, among   *)
(* them those of the timers, come one after the other on a thread of their *)
(* own (reminder_event_manager.cpp).  MUTEX covers the containers only, so *)
(* a handler may be preempted wherever it takes a lock: it is a list of    *)
(* steps, todo, each of which runs to the next such place.                 *)
(***************************************************************************)
EXTENDS ReminderRequests, FiniteSets, Sequences

CONSTANTS
  Callers,       \* threads of the IPC
  EventThread,   \* the thread of the common events
  NoThread,      \* nobody holds MUTEX
  NoReminder, NoRow,
  Calls,         \* calls and events that happen
  Answers,       \* what the notification service says of a reminder
  MaxSystem,     \* MAX_NUM_REMINDER_LIMIT_SYSTEM
  MaxApp,        \* MAX_NUM_REMINDER_LIMIT_APP
  RingDuration,  \* ticks a reminder rings
  MaxReminders,  \* bound on the ids given out
  MaxWall,       \* bound on the wall time
  MaxTicks,      \* bound on the time since boot
  MaxEvents,     \* bound on the events under way
  MaxBusy        \* bound on the handlers under way at once

Ids == 1 .. MaxReminders
Threads == Callers \cup {EventThread}
NoTimer == [kind |-> "none"]

ASSUME ThreadsAssumption ==
  EventThread \notin Callers /\ NoThread \notin Threads

ASSUME NothingAssumption ==
  /\ NoReminder \notin Ids
  /\ Answers \subseteq {"refused", "failed", "silent", "sound"}

ASSUME LimitsAssumption ==
  {MaxSystem, MaxApp, RingDuration, MaxReminders, MaxWall, MaxTicks, MaxEvents,
   MaxBusy}
    \subseteq Nat

VARIABLES
  clock,     \* the wall time and the time since boot
  vector,    \* reminderVector_, whose order only time decides
  options,   \* the reminders notificationBundleOptionMap_ has an option for
  totalCount,
  lastId,    \* GLOBAL_ID
  ready,     \* isReminderAgentReady_
  reminder,  \* the reminder each id was given to
  rows,      \* the row of each reminder in the database
  showed,    \* showedReminderVector_
  panel,     \* reminder notifications the notification service lists
  activeReminderId,
  timerId,   \* the timer of the active reminder
  alert,     \* alertingReminderId_, timerIdAlerting_, and whose sound plays
  timers,    \* timers the time service has
  events,    \* common events not yet handled, oldest first
  mutex,     \* the thread that holds MUTEX over several steps
  todo       \* the steps a thread has yet to do

containers == <<vector, options, totalCount, lastId, ready>>
shows == <<reminder, rows, showed, panel, alert, timers>>
trigger == <<activeReminderId, timerId>>
vars == <<clock, containers, shows, trigger, events, mutex, todo>>

----------------------------------------------------------------------------
(* State                                                                   *)

Note(r) == <<r.app, r.note>>

(* A row keeps no state: InitData of the store makes every row inactive. *)
Row(r) == [r EXCEPT !.state = {}]

Quiet == [id |-> NoReminder, sound |-> NoReminder, timer |-> NoTimer]

Init ==
  /\ clock = [wall |-> DayLength, boot |-> 0]
  /\ vector = {} /\ options = {} /\ totalCount = 0 /\ lastId = 0
  /\ ready = TRUE
  /\ reminder = [id \in Ids |-> NoRow]
  /\ rows = [id \in Ids |-> NoRow]
  /\ showed = {} /\ panel = {}
  /\ activeReminderId = NoReminder /\ timerId = NoTimer
  /\ alert = Quiet
  /\ timers = {} /\ events = <<>>
  /\ mutex = NoThread
  /\ todo = [t \in Threads |-> <<>>]

----------------------------------------------------------------------------
(* Steps of a thread                                                       *)

Step(op, id) == [op |-> op, id |-> id]
When(condition, steps) == IF condition THEN steps ELSE <<>>

(* The next step of a thread that needs no MUTEX, or that takes it. *)
At(t, op) == todo[t] # <<>> /\ Head(todo[t]).op = op
AtLocked(t, op) == At(t, op) /\ mutex = NoThread
Then(t, steps) == todo' = [todo EXCEPT ![t] = steps \o Tail(@)]
Stop(t) == todo' = [todo EXCEPT ![t] = <<>>]

Busy == {t \in Threads : todo[t] # <<>>}
MayBegin(t) == todo[t] = <<>> /\ Cardinality(Busy) < MaxBusy
Begin(t, steps) == MayBegin(t) /\ todo' = [todo EXCEPT ![t] = steps]

(* The write that UpdateOrInsert ends in; the option was looked up before, *)
(* and a timer is not persisted.                                           *)
UpdateOrInsert(id, known) ==
  When(id \in known /\ reminder[id].kind.type # "timer",
       <<Step("write", id)>>)

----------------------------------------------------------------------------
(* Sound and alert timer.  The operators take and give what a show changes *)

Shows == [reminder |-> reminder, rows |-> rows, showed |-> showed,
          panel |-> panel, alert |-> alert, timers |-> timers]
BecomeShows(s) ==
  /\ reminder' = s.reminder /\ rows' = s.rows /\ showed' = s.showed
  /\ panel' = s.panel /\ alert' = s.alert /\ timers' = s.timers

On(s, id, r) == [s EXCEPT !.reminder[id] = r]
Keep(s, id) ==
  IF id \in options /\ s.reminder[id].kind.type # "timer"
  THEN [s EXCEPT !.rows[id] = Row(s.reminder[id])] ELSE s
Unlist(s, id) == [s EXCEPT !.showed = @ \ {id}]

StopSoundAndVibration(s, id) ==
  IF s.alert.id # id THEN s
  ELSE [s EXCEPT !.alert.sound = NoReminder, !.alert.id = NoReminder]

(* A mutant: the timer stops, and its id is not reset. *)
StopAlertingTimerKeepsId(s) ==
  IF s.alert.timer = NoTimer THEN s
  ELSE [s EXCEPT !.timers = @ \ {s.alert.timer}, !.alert.id = NoReminder]

StopAlertingTimer(s) ==
  IF s.alert.timer = NoTimer THEN s
  ELSE [s EXCEPT !.timers = @ \ {s.alert.timer}, !.alert.timer = NoTimer,
                 !.alert.id = NoReminder]

StopAlertingReminder(s, id) ==
  IF s.alert.id # id THEN s
  ELSE StopAlertingTimer(StopSoundAndVibration(s, id))

(* Its notification is published again, without the sound. *)
TerminateAlerting(s, id) ==
  LET r == s.reminder[id]
      stopped == StopAlertingReminder(s, id)
      ended == On(stopped, id, OnTerminate(r))
  IN  IF ~Is(r, "alerting") THEN stopped
      ELSE IF id \notin options THEN ended
      ELSE Keep([ended EXCEPT !.panel = @ \cup {Note(r)}], id)

TerminateCurrent(s) ==
  IF s.alert.id = NoReminder THEN s ELSE TerminateAlerting(s, s.alert.id)

(* A mutant: whether a timer has already started is not looked at. *)
StartAnotherTimer(s) ==
  LET new == [kind |-> "timeout", id |-> s.alert.id,
              at |-> clock.wall + RingDuration]
  IN  [s EXCEPT !.alert.timer = new, !.timers = @ \cup {new}]

StartAlertingTimer(s) ==
  LET new == [kind |-> "timeout", id |-> s.alert.id,
              at |-> clock.wall + RingDuration]
  IN  IF s.alert.timer # NoTimer THEN s
      ELSE [s EXCEPT !.alert.timer = new, !.timers = @ \cup {new}]

PlaySoundAndVibration(s, id) ==
  LET ended == TerminateCurrent(s)
  IN  [ended EXCEPT !.alert.sound = id, !.alert.id = id]

(* CancelPreparedNotification refuses a notification without an option. *)
CancelNotification(s, id, known) ==
  IF Is(s.reminder[id], "showing") /\ id \in known
  THEN [s EXCEPT !.panel = @ \ {Note(s.reminder[id])}] ELSE s

(* The other showing reminders of the application with the notification id *)
(* of this one give way to it.                                             *)
HandleSameNotificationIdShowing(s, id) ==
  LET covered == {x \in vector \ {id} : /\ Is(s.reminder[x], "showing")
                                        /\ {x, id} \subseteq options
                                        /\ Note(s.reminder[x]) = Note(s.reminder[id])}
      stopped == IF s.alert.id \in covered /\ Is(s.reminder[s.alert.id], "alerting")
                 THEN StopAlertingReminder(s, s.alert.id) ELSE s
  IN  [stopped EXCEPT
         !.reminder = [x \in Ids |-> IF x \in covered
                         THEN OnSameNotificationIdCovered(@[x]) ELSE @[x]],
         !.showed = @ \ covered,
         !.rows = [x \in Ids |-> IF x \in covered /\ s.reminder[x].kind.type # "timer"
                                 THEN Row(s.reminder[x]) ELSE @[x]]]

----------------------------------------------------------------------------
(* Steps that handlers share                                               *)

(* A mutant: one less for a reminder that another thread has removed. *)
EraseCountsAgain(ids) ==
  /\ vector' = vector \ ids
  /\ options' = options \ ids
  /\ totalCount' = totalCount - Cardinality(ids)
  /\ UNCHANGED <<lastId, ready>>

Erase(ids) ==
  /\ vector' = vector \ ids
  /\ options' = options \ ids
  /\ totalCount' = totalCount - Cardinality(ids \cap vector)
  /\ UNCHANGED <<lastId, ready>>

Write(t) ==
  /\ At(t, "write")
  /\ LET id == Head(todo[t]).id
     IN  rows' = [rows EXCEPT ![id] = Row(reminder[id])]
  /\ Then(t, <<>>)
  /\ UNCHANGED <<clock, containers, reminder, showed, panel, alert, timers,
                 trigger, events, mutex>>

Unlock(t) ==
  /\ At(t, "unlock") /\ mutex = t
  /\ mutex' = NoThread
  /\ Then(t, <<>>)
  /\ UNCHANGED <<clock, containers, shows, trigger, events>>

(* StopTimerLocked(TRIGGER_TIMER) *)
StopTriggerTimer(t) ==
  /\ At(t, "stopTimer")
  /\ IF timerId = NoTimer THEN UNCHANGED <<trigger, timers>>
     ELSE /\ timers' = timers \ {timerId}
          /\ timerId' = NoTimer /\ activeReminderId' = NoReminder
  /\ Then(t, <<>>)
  /\ UNCHANGED <<clock, containers, reminder, rows, showed, panel, alert,
                 events, mutex>>

(* The sound of a reminder stops, and then its timer: two locks. *)
StopSound(t) ==
  /\ At(t, "stopSound")
  /\ LET id == Head(todo[t]).id
     IN  /\ BecomeShows(StopSoundAndVibration(Shows, id))
         /\ Then(t, When(alert.id = id, <<Step("stopAlertTimer", id)>>))
  /\ UNCHANGED <<clock, containers, trigger, events, mutex>>

StopAlertTimer(t) ==
  /\ At(t, "stopAlertTimer")
  /\ BecomeShows(StopAlertingTimer(Shows))
  /\ Then(t, <<>>)
  /\ UNCHANGED <<clock, containers, trigger, events, mutex>>

(* The timer of a reminder that is the active one stops, then its sound. *)
Halt(id) ==
  When(activeReminderId = id, <<Step("stopTimer", id)>>)
    \o <<Step("stopSound", id)>>
OnStopActive(id) ==
  IF id # NoReminder /\ activeReminderId = id
  THEN reminder' = [reminder EXCEPT ![id] = OnStop(@)] ELSE UNCHANGED reminder

----------------------------------------------------------------------------
(* The next reminder                                                       *)

Valid(id) == ~reminder[id].expired
Coming == {id \in vector : Valid(id) /\ reminder[id].trigger >= clock.wall}
Recent == {id \in Coming :
             \A x \in Coming : reminder[id].trigger <= reminder[x].trigger}

(* The search passes the reminders in the order of their time, and removes *)
(* those it passes that have expired and may go.                           *)
MayPass(next, id) ==
  next # NoReminder => reminder[id].trigger <= reminder[next].trigger
MustPass(next, id) ==
  next # NoReminder => reminder[id].trigger < reminder[next].trigger
Removable == {id \in vector : ~Valid(id) /\ CanRemove(reminder[id])}

(* A mutant: what has expired leaves the containers and not the database. *)
GetRecentKeepsRow(t, next, gone) ==
  /\ IF Recent = {} THEN next = NoReminder ELSE next \in Recent
  /\ gone \subseteq {id \in Removable : MayPass(next, id)}
  /\ {id \in Removable : MustPass(next, id)} \subseteq gone
  /\ Erase(gone)
  /\ UNCHANGED rows

GetRecentReminder(t, next, gone) ==
  /\ IF Recent = {} THEN next = NoReminder ELSE next \in Recent
  /\ gone \subseteq {id \in Removable : MayPass(next, id)}
  /\ {id \in Removable : MustPass(next, id)} \subseteq gone
  /\ Erase(gone)
  /\ rows' = [id \in Ids |-> IF id \in gone THEN NoRow ELSE rows[id]]

(* StartRecentReminder up to the next lock. *)
StartRecentReminder(t) ==
  /\ AtLocked(t, "recent")
  /\ \E next \in Recent \cup {NoReminder}, gone \in SUBSET vector :
       /\ GetRecentReminder(t, next, gone)
       /\ activeReminderId' =
            IF next = NoReminder THEN NoReminder ELSE activeReminderId
       /\ IF next \in {NoReminder, activeReminderId}
          THEN Then(t, <<>>) /\ UNCHANGED reminder
          ELSE IF activeReminderId # NoReminder
          THEN /\ OnStopActive(activeReminderId)
               /\ Then(t, UpdateOrInsert(activeReminderId, options')
                            \o <<Step("stopTimer", next), Step("startTimer", next)>>)
          ELSE Then(t, <<Step("startTimer", next)>>) /\ UNCHANGED reminder
  /\ UNCHANGED <<clock, showed, panel, alert, timers, timerId, events, mutex>>

(* Of StartTimerLocked nothing is left when a timer is already there. *)
StartTriggerTimer(t) ==
  /\ At(t, "startTimer")
  /\ LET id == Head(todo[t]).id
         new == [kind |-> "alarm", id |-> id, at |-> reminder[id].trigger]
     IN  /\ IF timerId # NoTimer THEN UNCHANGED <<trigger, timers>>
            ELSE /\ activeReminderId' = id
                 /\ timerId' = new
                 /\ timers' = timers \cup {new}
         /\ reminder' = [reminder EXCEPT ![id] = OnStart(@)]
         /\ Then(t, UpdateOrInsert(id, options))
  /\ UNCHANGED <<clock, containers, rows, showed, panel, alert, events, mutex>>

----------------------------------------------------------------------------
(* Calls of applications                                                   *)

(* Before Init there is no store, and a call that needs one ends the       *)
(* service: that is a Restart.                                             *)
PublishReminder(t, app, note, kind) ==
  /\ "publish" \in Calls /\ ready /\ lastId < MaxReminders
  /\ Begin(t, <<[op |-> "check", new |-> NewReminder(app, note, kind, clock)]>>)
  /\ UNCHANGED <<clock, containers, shows, trigger, events, mutex>>

OfApp(app) == {id \in vector : Valid(id) /\ reminder[id].app = app}

CheckReminderLimitExceeded(app) ==
  totalCount >= MaxSystem \/ Cardinality(OfApp(app)) >= MaxApp

CheckLimit(t) ==
  /\ AtLocked(t, "check")
  /\ LET new == Head(todo[t]).new
     IN  IF CheckReminderLimitExceeded(new.app) THEN Stop(t)
         ELSE Then(t, <<[op |-> "save", new |-> new], Step("recent", NoReminder)>>)
  /\ UNCHANGED <<clock, containers, shows, trigger, events, mutex>>

UpdateAndSaveReminder(t) ==
  /\ AtLocked(t, "save")
  /\ LET new == Head(todo[t]).new
         id == lastId + 1
     IN  /\ id \in Ids
         /\ lastId' = id
         /\ vector' = vector \cup {id} /\ options' = options \cup {id}
         /\ totalCount' = totalCount + 1
         /\ reminder' = [reminder EXCEPT ![id] = new]
         /\ rows' = [rows EXCEPT ![id] =
                       IF new.kind.type = "timer" THEN @ ELSE Row(new)]
  /\ Then(t, <<>>)
  /\ UNCHANGED <<clock, ready, showed, panel, alert, timers, trigger, events,
                 mutex>>

CancelReminder(t, id) ==
  /\ "cancel" \in Calls /\ id <= lastId
  /\ Begin(t, <<Step("cancel", id)>>)
  /\ UNCHANGED <<clock, containers, shows, trigger, events, mutex>>

FindToCancel(t) ==
  /\ AtLocked(t, "cancel")
  /\ LET id == Head(todo[t]).id
     IN  IF id \notin vector \cap options THEN Stop(t) /\ UNCHANGED reminder
         ELSE /\ OnStopActive(id)
              /\ Then(t, Halt(id) \o <<Step("remove", id), Step("recent", NoReminder)>>)
  /\ UNCHANGED <<clock, containers, rows, showed, panel, alert, timers,
                 trigger, events, mutex>>

(* The option goes with the reminder, so that CancelNotification has none. *)
RemoveReminder(t) ==
  /\ AtLocked(t, "remove")
  /\ LET id == Head(todo[t]).id
         removed == IF id \in vector THEN [Shows EXCEPT !.rows[id] = NoRow]
                    ELSE Shows
     IN  /\ Erase({id})
         /\ BecomeShows(CancelNotification(removed, id, options'))
  /\ Then(t, <<>>)
  /\ UNCHANGED <<clock, trigger, events, mutex>>

CancelAllReminders(t, apps) ==
  /\ "cancelAll" \in Calls /\ ready
  /\ Begin(t, <<[op |-> "cancelAll", apps |-> apps], Step("recent", NoReminder)>>)
  /\ UNCHANGED <<clock, containers, shows, trigger, events, mutex>>

(* All of it under MUTEX; a reminder without an option matches every name. *)
CancelRemindersImpl(t) ==
  /\ AtLocked(t, "cancelAll")
  /\ LET apps == Head(todo[t]).apps
         matched == {id \in vector \cap options : reminder[id].app \in apps}
         active == activeReminderId
         stops == active # NoReminder
                    /\ (active \notin options \/ reminder[active].app \in apps)
         rung == alert.id \in matched /\ Is(reminder[alert.id], "alerting")
         quiet == IF rung THEN StopAlertingReminder(Shows, alert.id) ELSE Shows
         off == {Note(reminder[id]) : id \in {x \in matched : Is(reminder[x], "showing")}}
         idle == IF stops THEN [reminder EXCEPT ![active] = OnStop(@)] ELSE reminder
         cleared == [quiet EXCEPT
           !.reminder = idle,
           !.panel = @ \ off,
           !.showed = @ \ matched,
           !.rows = [id \in Ids |-> IF @[id] # NoRow /\ @[id].app \in apps
                                    THEN NoRow ELSE @[id]],
           !.timers = IF stops THEN @ \ {timerId} ELSE @]
     IN  /\ BecomeShows(cleared)
         /\ Erase(matched)
         /\ IF stops /\ timerId # NoTimer
            THEN timerId' = NoTimer /\ activeReminderId' = NoReminder
            ELSE UNCHANGED trigger
  /\ Then(t, <<>>)
  /\ UNCHANGED <<clock, events, mutex>>

----------------------------------------------------------------------------
(* Showing reminders                                                       *)

Orders(S) ==
  {q \in [1 .. Cardinality(S) -> S] :
     \A i, j \in 1 .. Cardinality(S) : q[i] = q[j] => i = j}

(* Why a reminder is shown: its timer, a new wall time, or a late start.   *)
ShowStep(id, sound, why) ==
  [op |-> "show", id |-> id, sound |-> sound, why |-> why]
Silently(order, why) == [i \in DOMAIN order |-> ShowStep(order[i], FALSE, why)]

(* ShowReminder up to the wait for its sound to end, if it waits. *)
ShowReminder(t) ==
  /\ At(t, "show")
  /\ \E answer \in Answers :
       LET step == Head(todo[t])
           id == step.id
           plays == step.sound /\ answer \in {"failed", "sound"}
           shown == On(Shows, id, OnShow(reminder[id], clock, plays,
                                         step.why = "clock", answer # "refused"))
           listed == TerminateCurrent([shown EXCEPT !.showed = @ \cup {id}])
           published == [listed EXCEPT !.panel = @ \cup {Note(reminder[id])}]
           playing == PlaySoundAndVibration(published, id)
       IN  IF id \notin options
           THEN BecomeShows(Shows) /\ Then(t, <<>>)
           ELSE IF answer = "refused"
           THEN BecomeShows(shown) /\ Then(t, UpdateOrInsert(id, options))
           ELSE IF answer = "failed"
           THEN /\ BecomeShows(Unlist(On(listed, id, OnShowFail(listed.reminder[id])), id))
                /\ Then(t, UpdateOrInsert(id, options))
           ELSE IF ~plays
           THEN BecomeShows(published) /\ Then(t, <<Step("cover", id)>>)
           ELSE IF step.why = "timer"
           THEN BecomeShows(StartAlertingTimer(playing)) /\ Then(t, <<Step("cover", id)>>)
           ELSE /\ BecomeShows(playing)
                /\ Then(t, <<Step("terminate", id), Step("cover", id)>>)
  /\ UNCHANGED <<clock, containers, trigger, events, mutex>>

CoverSameNotification(t) ==
  /\ At(t, "cover")
  /\ LET id == Head(todo[t]).id
     IN  /\ BecomeShows(HandleSameNotificationIdShowing(Shows, id))
         /\ Then(t, UpdateOrInsert(id, options))
  /\ UNCHANGED <<clock, containers, trigger, events, mutex>>

(* After a second, or when its timeout is due. *)
Terminate(t) ==
  /\ At(t, "terminate")
  /\ BecomeShows(TerminateAlerting(Shows, Head(todo[t]).id))
  /\ Then(t, <<>>)
  /\ UNCHANGED <<clock, containers, trigger, events, mutex>>

(* ShowActiveReminder: nothing more happens, and no next reminder is       *)
(* started, when the reminder is gone or was shown less than five minutes  *)
(* ago.                                                                    *)
FindToShow(t) ==
  /\ AtLocked(t, "alarm")
  /\ LET id == Head(todo[t]).id
     IN  IF id \in vector /\ CanShow(reminder[id], clock)
         THEN Then(t, <<Step("showAll", id), Step("recent", NoReminder)>>)
         ELSE Stop(t)
  /\ UNCHANGED <<clock, containers, shows, trigger, events, mutex>>

(* All reminders due at the same time; the first plays its sound, and is   *)
(* shown last.  The difference of the times is unsigned, which leaves out  *)
(* the earlier ones.                                                       *)
ShowActiveReminderExtend(t) ==
  /\ AtLocked(t, "showAll")
  /\ LET due == {x \in vector : /\ Valid(x)
                                /\ reminder[x].trigger = reminder[Head(todo[t]).id].trigger}
     IN  \E order \in Orders(due) :
           IF due = {} THEN Then(t, <<>>) /\ UNCHANGED mutex
           ELSE /\ mutex' = t
                /\ Then(t, Silently(Tail(order), "timer")
                             \o <<ShowStep(order[1], TRUE, "timer"),
                                  Step("unlock", NoReminder)>>)
  /\ UNCHANGED <<clock, containers, shows, trigger, events>>

HandleImmediatelyShow(order, why) ==
  IF order = <<>> THEN <<>>
  ELSE <<ShowStep(Head(order), TRUE, why)>> \o Silently(Tail(order), why)

(* OnServiceStart: those overdue, up to the first that is not. *)
ShowOverdue(t) ==
  /\ AtLocked(t, "serviceStart")
  /\ LET due == {id \in vector : ShouldShowImmediately(reminder[id], clock)}
     IN  \E shown \in SUBSET due : \E order \in Orders(shown) :
           /\ due = vector => shown = due
           /\ reminder' = [id \in Ids |->
                IF id \in shown /\ reminder[id].kind.type # "timer"
                THEN [reminder[id] EXCEPT !.snoozesLeft = 0] ELSE reminder[id]]
           /\ Then(t, HandleImmediatelyShow(order, "service")
                        \o <<Step("recent", NoReminder)>>)
  /\ UNCHANGED <<clock, containers, rows, showed, panel, alert, timers,
                 trigger, events, mutex>>

----------------------------------------------------------------------------
(* Common events                                                           *)

(* The next event, on the thread of the events. *)
Receive(type) ==
  /\ events # <<>> /\ Head(events).type = type
  /\ MayBegin(EventThread)
  /\ events' = Tail(events)
Handle(steps) == todo' = [todo EXCEPT ![EventThread] = steps]

(* ResetStates, where the alarm is that of the active reminder. *)
OnAlarm ==
  /\ Receive("alarm")
  /\ LET id == Head(events).id
     IN  /\ IF id = activeReminderId
            THEN timerId' = NoTimer /\ activeReminderId' = NoReminder
            ELSE UNCHANGED trigger
         /\ Handle(<<Step("alarm", id)>>)
  /\ UNCHANGED <<clock, containers, shows, mutex>>

OnTimeout ==
  /\ Receive("timeout")
  /\ Handle(<<Step("timeout", Head(events).id)>>)
  /\ UNCHANGED <<clock, containers, shows, trigger, mutex>>

FindToTerminate(t) ==
  /\ AtLocked(t, "timeout")
  /\ LET id == Head(todo[t]).id
     IN  BecomeShows(IF id \in vector THEN TerminateAlerting(Shows, id) ELSE Shows)
  /\ Then(t, <<>>)
  /\ UNCHANGED <<clock, containers, trigger, events, mutex>>

(* The buttons of a reminder on the panel. *)
OnButton(button) ==
  /\ Receive(button)
  /\ Handle(<<Step(button, Head(events).id)>>)
  /\ UNCHANGED <<clock, containers, shows, trigger, mutex>>

FindToClose(t) ==
  /\ AtLocked(t, "close")
  /\ LET id == Head(todo[t]).id
     IN  IF id \notin vector THEN Stop(t) /\ UNCHANGED reminder
         ELSE /\ OnStopActive(id)
              /\ Then(t, Halt(id) \o <<Step("closeNow", id), Step("recent", NoReminder)>>)
  /\ UNCHANGED <<clock, containers, rows, showed, panel, alert, timers,
                 trigger, events, mutex>>

(* The reminder shows no more once closed: CancelNotification finds none.  *)
CloseReminder(s, id) ==
  CancelNotification(Unlist(On(s, id, OnClose(s.reminder[id], clock, TRUE)), id),
                     id, options)

Close(t) ==
  /\ At(t, "closeNow")
  /\ LET id == Head(todo[t]).id
     IN  /\ BecomeShows(CloseReminder(Shows, id))
         /\ Then(t, UpdateOrInsert(id, options))
  /\ UNCHANGED <<clock, containers, trigger, events, mutex>>

FindToSnooze(t) ==
  /\ AtLocked(t, "snooze")
  /\ LET id == Head(todo[t]).id
     IN  IF id \notin vector THEN Stop(t) /\ UNCHANGED reminder
         ELSE /\ OnStopActive(id)
              /\ Then(t, Halt(id) \o <<Step("snoozeNow", id)>>)
  /\ UNCHANGED <<clock, containers, rows, showed, panel, alert, timers,
                 trigger, events, mutex>>

Snooze(t) ==
  /\ At(t, "snoozeNow")
  /\ LET id == Head(todo[t]).id
         later == On(Shows, id, OnSnooze(reminder[id], clock))
     IN  IF id \notin options THEN BecomeShows(later) /\ Then(t, <<>>)
         ELSE /\ BecomeShows([later EXCEPT !.panel = @ \cup {Note(reminder[id])}])
              /\ Then(t, UpdateOrInsert(id, options) \o <<Step("recent", NoReminder)>>)
  /\ UNCHANGED <<clock, containers, trigger, events, mutex>>

OnPackageRemoved ==
  /\ Receive("packageRemoved")
  /\ Handle(<<[op |-> "cancelAll", apps |-> {Head(events).app}],
              Step("recent", NoReminder)>>)
  /\ UNCHANGED <<clock, containers, shows, trigger, mutex>>

(* OnProcessDiedLocked, which holds SHOW_MUTEX: a reminder that rings ends *)
(* to ring, the others it showed are closed.                               *)
OnProcessDied ==
  /\ Receive("processDied")
  /\ LET app == Head(events).app
         gone == showed \ options
         own == {id \in showed \cap options : reminder[id].app = app}
         ringing == {id \in own : Is(reminder[id], "alerting")}
         closed == own \ ringing
         quiet == IF alert.id \in ringing
                  THEN StopAlertingReminder(Shows, alert.id) ELSE Shows
         off == {Note(reminder[id]) : id \in {x \in closed : Is(reminder[x], "showing")}}
         kept == {id \in own : reminder[id].kind.type # "timer"}
         after == [id \in Ids |->
                     IF id \in ringing THEN OnTerminate(reminder[id])
                     ELSE IF id \in closed THEN OnClose(reminder[id], clock, FALSE)
                     ELSE reminder[id]]
     IN  BecomeShows([quiet EXCEPT
           !.reminder = after,
           !.panel = (@ \ off) \cup {Note(reminder[id]) : id \in ringing},
           !.showed = @ \ (gone \cup closed),
           !.rows = [id \in Ids |-> IF id \in kept THEN Row(after[id]) ELSE @[id]]])
  /\ Handle(<<>>)
  /\ UNCHANGED <<clock, containers, trigger, mutex>>

OnUserSwitch ==
  /\ Receive("userSwitched")
  /\ Handle(<<Step("userSwitched", NoReminder)>>)
  /\ UNCHANGED <<clock, containers, shows, trigger, mutex>>

TerminateForUser(t) ==
  /\ AtLocked(t, "userSwitched")
  /\ BecomeShows(TerminateCurrent(Shows))
  /\ Then(t, <<>>)
  /\ UNCHANGED <<clock, containers, trigger, events, mutex>>

(* RefreshRemindersDueToSysTimeChange: the active reminder stops first. *)
OnTimeChanged ==
  /\ Receive("timeChanged")
  /\ OnStopActive(activeReminderId)
  /\ Handle(When(activeReminderId # NoReminder, <<Step("stopTimer", NoReminder)>>)
              \o <<Step("refresh", NoReminder)>>)
  /\ UNCHANGED <<clock, containers, rows, showed, panel, alert, timers,
                 trigger, mutex>>

(* What HandleRefreshReminder makes of a reminder, and whether it is due;  *)
(* one whose time moved, or that rings, is closed.                         *)
Refreshed(id) ==
  OnDateTimeChange([reminder[id] EXCEPT !.reminderTime = INVALID_LONG_LONG_VALUE], clock)
ClosedByRefresh(id) ==
  /\ ~Refreshed(id).show
  /\ Refreshed(id).r.trigger # reminder[id].trigger \/ id = alert.id

RefreshReminders(t) ==
  /\ AtLocked(t, "refresh")
  /\ LET due == {id \in vector : Refreshed(id).show}
         closed == {id \in vector : ClosedByRefresh(id)}
         after == [id \in Ids |->
                     IF id \in closed
                     THEN Unset(OnClose(Refreshed(id).r, clock, TRUE),
                                {f \in {"active"} : id = activeReminderId})
                     ELSE IF id \in vector THEN Refreshed(id).r ELSE reminder[id]]
         stops == activeReminderId \in closed /\ timerId # NoTimer
         quiet == IF alert.id \in closed
                  THEN StopAlertingReminder(Shows, alert.id) ELSE Shows
         kept == {id \in vector : reminder[id].kind.type # "timer"}
     IN  /\ BecomeShows([quiet EXCEPT
              !.reminder = after,
              !.showed = @ \ closed,
              !.rows = [id \in Ids |-> IF id \in kept THEN Row(after[id]) ELSE @[id]],
              !.timers = IF stops THEN @ \ {timerId} ELSE @])
         /\ IF stops THEN timerId' = NoTimer /\ activeReminderId' = NoReminder
            ELSE UNCHANGED trigger
         /\ \E order \in Orders(due) :
              Then(t, HandleImmediatelyShow(order, "clock")
                        \o <<Step("recent", NoReminder)>>)
  /\ UNCHANGED <<clock, containers, events, mutex>>

----------------------------------------------------------------------------
(* Time, the system, the user                                              *)

Tick ==
  /\ clock.wall < MaxWall /\ clock.boot < MaxTicks
  /\ clock' = [wall |-> clock.wall + 1, boot |-> clock.boot + 1]
  /\ UNCHANGED <<containers, shows, trigger, events, mutex, todo>>

Post(type, id, app) ==
  /\ Len(events) < MaxEvents
  /\ events' = Append(events, [type |-> type, id |-> id, app |-> app])

(* The time service tells of a timer, at its time or later. *)
TimerFires(timer) ==
  /\ timer.at <= clock.wall
  /\ timers' = timers \ {timer}
  /\ \E app \in Apps : Post(timer.kind, timer.id, app)
  /\ UNCHANGED <<clock, containers, reminder, rows, showed, panel, alert,
                 trigger, mutex, todo>>

(* The user sets the wall time, which takes a tick. *)
SetTime(wall) ==
  /\ "setTime" \in Calls /\ wall # clock.wall
  /\ clock.boot < MaxTicks
  /\ clock' = [wall |-> wall, boot |-> clock.boot + 1]
  /\ \E app \in Apps : Post("timeChanged", NoReminder, app)
  /\ UNCHANGED <<containers, shows, trigger, mutex, todo>>

(* Closed or snoozed by the user, where its notification is on the panel. *)
Press(button, id) ==
  /\ button \in Calls
  /\ id \in vector /\ Is(reminder[id], "showing") /\ Note(reminder[id]) \in panel
  /\ Post(button, id, reminder[id].app)
  /\ UNCHANGED <<clock, containers, shows, trigger, mutex, todo>>

Announce(type, app) ==
  /\ type \in Calls
  /\ Post(type, NoReminder, app)
  /\ UNCHANGED <<clock, containers, shows, trigger, mutex, todo>>

(* The service dies and is started again: it hears that the system has     *)
(* booted and, on another thread, that the bundle manager is there.        *)
Restart ==
  /\ "restart" \in Calls
  /\ vector' = {} /\ options' = {} /\ totalCount' = 0 /\ lastId' = 0
  /\ ready' = FALSE
  /\ reminder' = rows /\ UNCHANGED rows
  /\ showed' = {} /\ panel' = {} /\ alert' = Quiet /\ timers' = {}
  /\ activeReminderId' = NoReminder /\ timerId' = NoTimer
  /\ \E app \in Apps :
       events' = <<[type |-> "bootCompleted", id |-> NoReminder, app |-> app]>>
  /\ mutex' = NoThread
  /\ \E t \in Callers :
       todo' = [u \in Threads |-> When(u = t, <<Step("serviceStart", NoReminder)>>)]
  /\ UNCHANGED clock

OnBootCompleted ==
  /\ Receive("bootCompleted")
  /\ Handle(When(~ready, <<Step("load", NoReminder)>>))
  /\ UNCHANGED <<clock, containers, shows, trigger, mutex>>

(* GetMaxId of an empty table: STATE_FAIL. *)
NoMaxId == -1

(* Init loads what the database keeps, and the ids go on from the greatest *)
(* there.  InitData and LoadReminderFromDb compare the text of is_expired  *)
(* with a boolean: the database leaves the expired out, or keeps them.     *)
LoadReminderFromDb(t) ==
  /\ AtLocked(t, "load")
  /\ LET stored == {id \in Ids : rows[id] # NoRow}
     IN  \E kept \in {stored, {id \in stored : ~rows[id].expired}} :
           \E maxId \in kept \cup {NoMaxId} :
             /\ \A id \in kept : id <= maxId
             /\ lastId' = maxId + 1
             /\ rows' = [id \in Ids |-> IF id \in kept THEN rows[id] ELSE NoRow]
             /\ vector' = kept /\ options' = kept
             /\ totalCount' = Cardinality(kept)
  /\ reminder' = rows' /\ ready' = TRUE
  /\ Then(t, <<>>)
  /\ UNCHANGED <<clock, showed, panel, alert, timers, trigger, events, mutex>>

----------------------------------------------------------------------------
Caller(t) ==
  \/ \E app \in Apps, note \in Notes, kind \in Kinds : PublishReminder(t, app, note, kind)
  \/ \E id \in Ids : CancelReminder(t, id)
  \/ \E app \in Apps : CancelAllReminders(t, {app})

OnEvent ==
  \/ OnAlarm \/ OnTimeout \/ OnButton("close") \/ OnButton("snooze")
  \/ OnPackageRemoved \/ OnProcessDied \/ OnUserSwitch \/ OnTimeChanged
  \/ OnBootCompleted

Proceed(t) ==
  \/ CheckLimit(t) \/ UpdateAndSaveReminder(t)
  \/ FindToCancel(t) \/ RemoveReminder(t) \/ CancelRemindersImpl(t)
  \/ StartRecentReminder(t) \/ StartTriggerTimer(t) \/ StopTriggerTimer(t)
  \/ StopSound(t) \/ StopAlertTimer(t) \/ Write(t) \/ Unlock(t)
  \/ FindToShow(t) \/ ShowActiveReminderExtend(t) \/ ShowReminder(t)
  \/ CoverSameNotification(t) \/ Terminate(t) \/ ShowOverdue(t)
  \/ FindToTerminate(t) \/ FindToClose(t) \/ Close(t)
  \/ FindToSnooze(t) \/ Snooze(t) \/ TerminateForUser(t) \/ RefreshReminders(t)
  \/ LoadReminderFromDb(t)

Environment ==
  \/ Tick \/ Restart
  \/ \E timer \in timers : TimerFires(timer)
  \/ \E wall \in DayLength .. MaxWall : SetTime(wall)
  \/ \E id \in Ids : Press("close", id) \/ Press("snooze", id)
  \/ \E app \in Apps :
       \/ Announce("packageRemoved", app) \/ Announce("processDied", app)
       \/ Announce("userSwitched", app)

Next ==
  \/ \E t \in Callers : Caller(t)
  \/ OnEvent
  \/ \E t \in Threads : Proceed(t)
  \/ Environment

Spec == Init /\ [][Next]_vars

----------------------------------------------------------------------------
(* Properties                                                              *)

Idle == Busy = {}

(* The vector, the map of the options and the count agree after every step *)
(* of every thread: what is published, cancelled, removed as expired or    *)
(* loaded again changes all three.                                         *)
ContainersAgree ==
  vector = options /\ totalCount = Cardinality(vector)

(* The time service has no alert timer but the one the manager knows, so   *)
(* that a sound is never ended by the timer of another one.                *)
AlertTimerIsKnown ==
  \A timer \in timers : timer.kind = "timeout" => timer = alert.timer

(* The timer of the sound that plays runs, or its event waits.             *)
Timed(id) ==
  \/ alert.timer \in timers
  \/ \E i \in DOMAIN events : events[i].type = "timeout" /\ events[i].id = id

(* When no handler is under way, a listed reminder whose sound plays is    *)
(* the alerting one, and its timeout is still to come; and a reminder has  *)
(* no more snoozes left than it was given, an unsigned number that counts  *)
(* down (UpdateNextReminder).                                              *)
RingingEnds ==
  /\ Idle /\ alert.sound \in vector => alert.id = alert.sound /\ Timed(alert.sound)
  /\ \A id \in vector : reminder[id].snoozesLeft \in 0 .. reminder[id].kind.times

(* When no handler is under way, the database has the reminders that are   *)
(* listed, but for timers, as they are: a restart loses none and brings    *)
(* back none that was cancelled.                                           *)
RestartLosesNothing ==
  Idle /\ ready => \A id \in Ids :
    rows[id] = IF id \in vector /\ reminder[id].kind.type # "timer"
               THEN Row(reminder[id]) ELSE NoRow

(* When no handler is under way, a listed reminder that shows has its      *)
(* notification on the panel (IsShowing), and one that no more shows has   *)
(* left the list of those OnProcessDied closes.                            *)
ShowingIsOnPanel ==
  Idle => \A id \in vector :
    Is(reminder[id], "showing") => Note(reminder[id]) \in panel /\ id \in showed

----------------------------------------------------------------------------
(* What the interface's documentation says and the code does not do        *)

(* "Terminate the alerting reminder, which is executed when the ring       *)
(* duration is over" (reminder_request.h:390): a sound that plays while no *)
(* handler is under way has its timeout still to come.                     *)
SoundEnds == Idle /\ alert.sound # NoReminder => Timed(alert.sound)

(* "Starts the recent reminder timing" (reminder_data_manager.h:157): when *)
(* nothing is under way and a reminder is to come, a timer runs for one    *)
(* that comes first.                                                       *)
RecentIsTimed ==
  Idle /\ events = <<>> /\ Recent # {} =>
    \/ timerId \in timers /\ timerId.id \in Recent
    \/ \E timer \in timers : timer.at <= clock.wall
=============================================================================
