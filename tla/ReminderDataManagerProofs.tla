--------------------- MODULE ReminderDataManagerProofs ---------------------
(***************************************************************************)
(* Theorems of ReminderDataManager, for any applications, reminders,       *)
(* threads and limits.  What the containers, the alert timer, the types    *)
(* and the panel keep holds whatever steps of other threads come between   *)
(* those of a handler; that a restart loses no reminder and that a sound   *)
(* ends holds with one handler at a time (MaxBusy <= 1).                   *)
(***************************************************************************)
EXTENDS ReminderDataManager, FiniteSetTheorems, TLAPS

----------------------------------------------------------------------------
(* The alert timer.  What helpers make of shows keeps the one alert timer  *)
(* the manager knows the only one.                                         *)

OneAlertTimer(s) ==
  /\ DOMAIN s = {"reminder", "rows", "showed", "panel", "alert", "timers"}
  /\ DOMAIN s.alert = {"id", "sound", "timer"}
  /\ \A timer \in s.timers : timer.kind = "timeout" => timer = s.alert.timer

(* What a helper leaves alone when it touches no timer and not the alert.  *)
SameTimers(s, t) ==
  /\ DOMAIN t = DOMAIN s /\ t.alert = s.alert /\ t.timers = s.timers

LEMMA SameTimersKeep ==
  ASSUME NEW s, NEW t, OneAlertTimer(s), SameTimers(s, t)
  PROVE  OneAlertTimer(t)
  BY DEF OneAlertTimer, SameTimers

LEMMA OnKeeps ==
  ASSUME NEW s, NEW id, NEW r, OneAlertTimer(s)
  PROVE  OneAlertTimer(On(s, id, r))
  BY DEF OneAlertTimer, On

LEMMA KeepKeeps ==
  ASSUME NEW s, NEW id, OneAlertTimer(s)
  PROVE  OneAlertTimer(Keep(s, id))
  BY DEF OneAlertTimer, Keep

LEMMA UnlistKeeps ==
  ASSUME NEW s, NEW id, OneAlertTimer(s)
  PROVE  OneAlertTimer(Unlist(s, id))
  BY DEF OneAlertTimer, Unlist

LEMMA CancelKeeps ==
  ASSUME NEW s, NEW id, NEW known, OneAlertTimer(s)
  PROVE  OneAlertTimer(CancelNotification(s, id, known))
  BY DEF OneAlertTimer, CancelNotification

LEMMA StopSoundKeeps ==
  ASSUME NEW s, NEW id, OneAlertTimer(s)
  PROVE  OneAlertTimer(StopSoundAndVibration(s, id))
  BY DEF OneAlertTimer, StopSoundAndVibration

LEMMA StopTimerKeeps ==
  ASSUME NEW s, OneAlertTimer(s)
  PROVE  OneAlertTimer(StopAlertingTimer(s))
  BY DEF OneAlertTimer, StopAlertingTimer

LEMMA StopAlertingKeeps ==
  ASSUME NEW s, NEW id, OneAlertTimer(s)
  PROVE  OneAlertTimer(StopAlertingReminder(s, id))
  BY StopSoundKeeps, StopTimerKeeps DEF StopAlertingReminder

LEMMA TerminateKeeps ==
  ASSUME NEW s, NEW id, OneAlertTimer(s)
  PROVE  OneAlertTimer(TerminateAlerting(s, id))
<1> DEFINE stopped == StopAlertingReminder(s, id)
           ended == On(stopped, id, OnTerminate(s.reminder[id]))
           shown == [ended EXCEPT !.panel = @ \cup {Note(s.reminder[id])}]
<1>1. OneAlertTimer(stopped)
  BY StopAlertingKeeps
<1>2. OneAlertTimer(ended)
  BY <1>1, OnKeeps
<1>3. OneAlertTimer(shown)
  <2> HIDE DEF ended
  <2> QED BY <1>2 DEF OneAlertTimer
<1>4. OneAlertTimer(Keep(shown, id))
  BY <1>3, KeepKeeps
<1>5. TerminateAlerting(s, id) \in {stopped, ended, Keep(shown, id)}
  BY DEF TerminateAlerting
<1> QED
  BY <1>1, <1>2, <1>4, <1>5

LEMMA TerminateCurrentKeeps ==
  ASSUME NEW s, OneAlertTimer(s)
  PROVE  OneAlertTimer(TerminateCurrent(s))
  BY TerminateKeeps DEF TerminateCurrent

(* A timer starts only where the manager knows of none, so that none runs. *)
LEMMA StartTimerKeeps ==
  ASSUME NEW s, OneAlertTimer(s)
  PROVE  OneAlertTimer(StartAlertingTimer(s))
<1> DEFINE new == [kind |-> "timeout", id |-> s.alert.id,
                   at |-> clock.wall + RingDuration]
<1>1. CASE s.alert.timer # NoTimer
  BY <1>1 DEF StartAlertingTimer
<1>2. CASE s.alert.timer = NoTimer
  <2>1. \A timer \in s.timers : timer.kind # "timeout"
    BY <1>2 DEF OneAlertTimer, NoTimer
  <2> QED
    BY <1>2, <2>1 DEF StartAlertingTimer, OneAlertTimer
<1> QED
  BY <1>1, <1>2

LEMMA PlayKeeps ==
  ASSUME NEW s, NEW id, OneAlertTimer(s)
  PROVE  OneAlertTimer(PlaySoundAndVibration(s, id))
<1>1. OneAlertTimer(TerminateCurrent(s))
  BY TerminateCurrentKeeps
<1> HIDE DEF TerminateCurrent
<1> QED
  BY <1>1 DEF PlaySoundAndVibration, OneAlertTimer

LEMMA SameNotificationKeeps ==
  ASSUME NEW s, NEW id, OneAlertTimer(s)
  PROVE  OneAlertTimer(HandleSameNotificationIdShowing(s, id))
<1>1. OneAlertTimer(StopAlertingReminder(s, s.alert.id))
  BY StopAlertingKeeps
<1> QED
  BY <1>1 DEF HandleSameNotificationIdShowing, OneAlertTimer

(* Shows, alert and timers in the next state. *)
LEMMA BecomeKeeps ==
  ASSUME NEW s, OneAlertTimer(s), BecomeShows(s)
  PROVE  OneAlertTimer(Shows)'
  BY DEF OneAlertTimer, BecomeShows, Shows

(* The alarm of a reminder comes and goes, the alert timer fires. *)
LEMMA AlarmsKeep ==
  ASSUME OneAlertTimer(Shows), alert' = alert,
         \A timer \in timers' : timer \in timers \/ timer.kind = "alarm"
  PROVE  OneAlertTimer(Shows)'
  BY DEF OneAlertTimer, Shows

LEMMA ShowKeeps ==
  ASSUME OneAlertTimer(Shows), NEW t, ShowReminder(t)
  PROVE  OneAlertTimer(Shows)'
<1> DEFINE step == Head(todo[t])
           id == step.id
           plays(answer) == step.sound /\ answer \in {"failed", "sound"}
           shown(answer) ==
             On(Shows, id, OnShow(reminder[id], clock, plays(answer),
                                  step.why = "clock", answer # "refused"))
           added(answer) == [shown(answer) EXCEPT !.showed = @ \cup {id}]
           listed(answer) == TerminateCurrent(added(answer))
           published(answer) ==
             [listed(answer) EXCEPT !.panel = @ \cup {Note(reminder[id])}]
           playing(answer) == PlaySoundAndVibration(published(answer), id)
           failed(answer) ==
             Unlist(On(listed(answer), id, OnShowFail(listed(answer).reminder[id])), id)
<1>1. \A a : OneAlertTimer(shown(a))
  BY OnKeeps
<1>2. \A a : OneAlertTimer(added(a))
  <2> HIDE DEF shown
  <2> QED BY <1>1 DEF OneAlertTimer
<1>3. \A a : OneAlertTimer(listed(a))
  <2> HIDE DEF added
  <2> QED BY <1>2, TerminateCurrentKeeps
<1>4. \A a : OneAlertTimer(published(a))
  <2> HIDE DEF listed
  <2> QED BY <1>3 DEF OneAlertTimer
<1>5. \A a : OneAlertTimer(playing(a))
  <2> HIDE DEF published
  <2> QED BY <1>4, PlayKeeps
<1>6. \A a : OneAlertTimer(StartAlertingTimer(playing(a)))
  <2> HIDE DEF playing
  <2> QED BY <1>5, StartTimerKeeps
<1>7. \A a : OneAlertTimer(failed(a))
  <2> HIDE DEF listed
  <2> QED BY <1>3, OnKeeps, UnlistKeeps
<1>8. \E a \in Answers :
        IF id \notin options THEN BecomeShows(Shows)
        ELSE IF a = "refused" THEN BecomeShows(shown(a))
        ELSE IF a = "failed" THEN BecomeShows(failed(a))
        ELSE IF ~plays(a) THEN BecomeShows(published(a))
        ELSE IF step.why = "timer" THEN BecomeShows(StartAlertingTimer(playing(a)))
        ELSE BecomeShows(playing(a))
  BY Zenon DEF ShowReminder
<1> HIDE DEF id, step, plays, shown, failed, published, playing
<1> QED
  BY <1>1, <1>4, <1>5, <1>6, <1>7, <1>8, BecomeKeeps

LEMMA CancelAllKeeps ==
  ASSUME OneAlertTimer(Shows), NEW t, CancelRemindersImpl(t)
  PROVE  OneAlertTimer(Shows)'
<1> DEFINE apps == Head(todo[t]).apps
           matched == {id \in vector \cap options : reminder[id].app \in apps}
           stops == activeReminderId # NoReminder
                      /\ (activeReminderId \notin options
                            \/ reminder[activeReminderId].app \in apps)
           rung == alert.id \in matched /\ Is(reminder[alert.id], "alerting")
           quiet == IF rung THEN StopAlertingReminder(Shows, alert.id) ELSE Shows
           off == {Note(reminder[id]) : id \in {x \in matched : Is(reminder[x], "showing")}}
           idle == IF stops THEN [reminder EXCEPT ![activeReminderId] = OnStop(@)]
                   ELSE reminder
           cleared == [quiet EXCEPT
             !.reminder = idle,
             !.panel = @ \ off,
             !.showed = @ \ matched,
             !.rows = [id \in Ids |-> IF @[id] # NoRow /\ @[id].app \in apps
                                      THEN NoRow ELSE @[id]],
             !.timers = IF stops THEN @ \ {timerId} ELSE @]
<1>1. OneAlertTimer(quiet)
  BY StopAlertingKeeps
<1>2. OneAlertTimer(cleared)
  <2> HIDE DEF quiet, matched, stops, off
  <2> QED BY <1>1 DEF OneAlertTimer
<1>3. BecomeShows(cleared)
  BY DEF CancelRemindersImpl
<1> HIDE DEF cleared
<1> QED
  BY <1>2, <1>3, BecomeKeeps

LEMMA ProcessDiedKeeps ==
  ASSUME OneAlertTimer(Shows), OnProcessDied
  PROVE  OneAlertTimer(Shows)'
<1>1. OneAlertTimer(StopAlertingReminder(Shows, alert.id))
  BY StopAlertingKeeps
<1>2. \A q, a, b, c, d : OneAlertTimer(q) =>
        OneAlertTimer([q EXCEPT !.reminder = a, !.panel = b, !.showed = c, !.rows = d])
  BY DEF OneAlertTimer
<1>3. PICK q \in {Shows, StopAlertingReminder(Shows, alert.id)} :
        \E a, b, c, d :
          BecomeShows([q EXCEPT !.reminder = a, !.panel = b, !.showed = c, !.rows = d])
  BY DEF OnProcessDied
<1> QED
  BY <1>1, <1>2, <1>3, BecomeKeeps

LEMMA RefreshKeeps ==
  ASSUME OneAlertTimer(Shows), NEW t, RefreshReminders(t)
  PROVE  OneAlertTimer(Shows)'
<1>1. OneAlertTimer(StopAlertingReminder(Shows, alert.id))
  BY StopAlertingKeeps
<1>2. \A q, a, c, d, e : OneAlertTimer(q) /\ e \in SUBSET q.timers =>
        OneAlertTimer([q EXCEPT !.reminder = a, !.showed = c, !.rows = d, !.timers = e])
  BY DEF OneAlertTimer
<1>3. PICK q \in {Shows, StopAlertingReminder(Shows, alert.id)} :
        \E a, c, d : \E e \in SUBSET q.timers :
          BecomeShows([q EXCEPT !.reminder = a, !.showed = c, !.rows = d, !.timers = e])
  BY DEF RefreshReminders
<1> QED
  BY <1>1, <1>2, <1>3, BecomeKeeps

LEMMA ShowStepsKeep ==
  ASSUME OneAlertTimer(Shows), NEW t,
         \/ StopSound(t) \/ StopAlertTimer(t) \/ RemoveReminder(t)
         \/ CoverSameNotification(t) \/ Terminate(t) \/ FindToTerminate(t)
         \/ Close(t) \/ Snooze(t) \/ TerminateForUser(t)
  PROVE  OneAlertTimer(Shows)'
<1> DEFINE id == Head(todo[t]).id
<1>1. CASE StopSound(t)
  <2>1. BecomeShows(StopSoundAndVibration(Shows, id))
    BY <1>1 DEF StopSound
  <2> QED BY <2>1, StopSoundKeeps, BecomeKeeps
<1>2. CASE StopAlertTimer(t)
  <2>1. BecomeShows(StopAlertingTimer(Shows))
    BY <1>2 DEF StopAlertTimer
  <2> QED BY <2>1, StopTimerKeeps, BecomeKeeps
<1>3. CASE RemoveReminder(t)
  <2> DEFINE removed == IF id \in vector THEN [Shows EXCEPT !.rows[id] = NoRow]
                        ELSE Shows
  <2>1. OneAlertTimer(removed)
    BY DEF OneAlertTimer
  <2>2. BecomeShows(CancelNotification(removed, id, options'))
    BY <1>3 DEF RemoveReminder
  <2> HIDE DEF removed
  <2> QED BY <2>1, <2>2, CancelKeeps, BecomeKeeps
<1>4. CASE CoverSameNotification(t)
  <2>1. BecomeShows(HandleSameNotificationIdShowing(Shows, id))
    BY <1>4 DEF CoverSameNotification
  <2> QED BY <2>1, SameNotificationKeeps, BecomeKeeps
<1>5. CASE Terminate(t)
  <2>1. BecomeShows(TerminateAlerting(Shows, id))
    BY <1>5 DEF Terminate
  <2> QED BY <2>1, TerminateKeeps, BecomeKeeps
<1>6. CASE FindToTerminate(t)
  <2>1. BecomeShows(IF id \in vector THEN TerminateAlerting(Shows, id) ELSE Shows)
    BY <1>6 DEF FindToTerminate
  <2> QED BY <2>1, TerminateKeeps, BecomeKeeps
<1>7. CASE Close(t)
  <2> DEFINE closed == Unlist(On(Shows, id, OnClose(Shows.reminder[id], clock, TRUE)), id)
  <2>1. OneAlertTimer(closed)
    BY OnKeeps, UnlistKeeps
  <2>2. BecomeShows(CancelNotification(closed, id, options))
    BY <1>7 DEF Close, CloseReminder
  <2> HIDE DEF closed
  <2> QED BY <2>1, <2>2, CancelKeeps, BecomeKeeps
<1>8. CASE Snooze(t)
  <2> DEFINE later == On(Shows, id, OnSnooze(reminder[id], clock))
             again == [later EXCEPT !.panel = @ \cup {Note(reminder[id])}]
  <2>1. OneAlertTimer(later)
    BY OnKeeps
  <2>2. OneAlertTimer(again)
    <3> HIDE DEF later
    <3> QED BY <2>1 DEF OneAlertTimer
  <2>3. BecomeShows(later) \/ BecomeShows(again)
    BY <1>8 DEF Snooze
  <2> HIDE DEF later, again
  <2> QED BY <2>1, <2>2, <2>3, BecomeKeeps
<1>9. CASE TerminateForUser(t)
  <2>1. BecomeShows(TerminateCurrent(Shows))
    BY <1>9 DEF TerminateForUser
  <2> QED BY <2>1, TerminateCurrentKeeps, BecomeKeeps
<1> QED
  BY <1>1, <1>2, <1>3, <1>4, <1>5, <1>6, <1>7, <1>8, <1>9

(* The steps of a handler that leave the alert alone. *)
LEMMA OtherStepsKeep ==
  ASSUME OneAlertTimer(Shows), NEW t,
         \/ CheckLimit(t) \/ UpdateAndSaveReminder(t) \/ FindToCancel(t)
         \/ StartRecentReminder(t) \/ StartTriggerTimer(t) \/ StopTriggerTimer(t)
         \/ Write(t) \/ Unlock(t) \/ FindToShow(t) \/ ShowActiveReminderExtend(t)
         \/ ShowOverdue(t) \/ FindToClose(t) \/ FindToSnooze(t)
         \/ LoadReminderFromDb(t)
  PROVE  OneAlertTimer(Shows)'
<1>1. alert' = alert
  BY DEF CheckLimit, UpdateAndSaveReminder, FindToCancel, StartRecentReminder,
         StartTriggerTimer, StopTriggerTimer, Write, Unlock, FindToShow,
         ShowActiveReminderExtend, ShowOverdue, FindToClose, FindToSnooze,
         LoadReminderFromDb, shows
<1>2. \A timer \in timers' : timer \in timers \/ timer.kind = "alarm"
  <2>1. CASE StartTriggerTimer(t)
    <3>1. \/ timers' = timers
          \/ \E id, at : timers' = timers \cup {[kind |-> "alarm", id |-> id, at |-> at]}
      BY <2>1 DEF StartTriggerTimer
    <3> QED BY <3>1
  <2>2. CASE ~StartTriggerTimer(t)
    <3>1. timers' \subseteq timers
      BY <2>2 DEF CheckLimit, UpdateAndSaveReminder, FindToCancel,
         StartRecentReminder, StopTriggerTimer, Write, Unlock, FindToShow,
         ShowActiveReminderExtend, ShowOverdue, FindToClose, FindToSnooze,
         LoadReminderFromDb, shows
    <3> QED BY <3>1
  <2> QED BY <2>1, <2>2
<1> QED
  BY <1>1, <1>2, AlarmsKeep

LEMMA CallsKeep ==
  ASSUME OneAlertTimer(Shows), NEW t, Caller(t)
  PROVE  OneAlertTimer(Shows)'
<1>1. alert' = alert /\ timers' = timers
  BY DEF Caller, PublishReminder, CancelReminder, CancelAllReminders, shows
<1> QED
  BY <1>1, AlarmsKeep

LEMMA EventsKeep ==
  ASSUME OneAlertTimer(Shows), OnEvent, ~OnProcessDied
  PROVE  OneAlertTimer(Shows)'
<1>1. alert' = alert /\ timers' = timers
  BY DEF OnEvent, OnAlarm, OnTimeout, OnButton, OnPackageRemoved, OnUserSwitch,
         OnTimeChanged, OnBootCompleted, shows
<1> QED
  BY <1>1, AlarmsKeep

LEMMA EnvironmentKeeps ==
  ASSUME OneAlertTimer(Shows), Environment
  PROVE  OneAlertTimer(Shows)'
<1>1. CASE Restart
  <2>1. alert' = Quiet /\ timers' = {}
    BY <1>1 DEF Restart
  <2> QED BY <2>1 DEF OneAlertTimer, Shows, Quiet
<1>2. CASE ~Restart
  <2>1. alert' = alert
    BY <1>2 DEF Environment, Tick, TimerFires, SetTime, Press, Announce, shows
  <2>2. timers' \subseteq timers
    BY <1>2 DEF Environment, Tick, TimerFires, SetTime, Press, Announce, shows
  <2> QED BY <2>1, <2>2, AlarmsKeep
<1> QED
  BY <1>1, <1>2

LEMMA NextKeepsTimer ==
  ASSUME OneAlertTimer(Shows), [Next]_vars
  PROVE  OneAlertTimer(Shows)'
<1>1. CASE UNCHANGED vars
  BY <1>1, AlarmsKeep DEF vars, shows
<1>2. ASSUME NEW t \in Callers, Caller(t) PROVE OneAlertTimer(Shows)'
  BY <1>2, CallsKeep
<1>3. CASE OnEvent
  BY <1>3, EventsKeep, ProcessDiedKeeps
<1>4. ASSUME NEW t \in Threads, Proceed(t) PROVE OneAlertTimer(Shows)'
  BY <1>4, OtherStepsKeep, ShowStepsKeep, ShowKeeps, CancelAllKeeps, RefreshKeeps
     DEF Proceed
<1>5. CASE Environment
  BY <1>5, EnvironmentKeeps
<1> QED
  BY <1>1, <1>2, <1>3, <1>4, <1>5 DEF Next

(* The time service never has an alert timer the manager does not know, so *)
(* that no sound is ended by the timer of another one.                     *)
THEOREM AlertTimerStaysKnown == Spec => []AlertTimerIsKnown
<1>1. Init => OneAlertTimer(Shows)
  BY DEF Init, Quiet, OneAlertTimer, Shows
<1>2. OneAlertTimer(Shows) /\ [Next]_vars => OneAlertTimer(Shows)'
  BY NextKeepsTimer
<1>3. OneAlertTimer(Shows) => AlertTimerIsKnown
  BY DEF OneAlertTimer, Shows, AlertTimerIsKnown
<1> QED
  BY <1>1, <1>2, <1>3, PTL DEF Spec

----------------------------------------------------------------------------
(* The containers.  A new id is greater than every id that is listed.      *)

Listed ==
  /\ vector \subseteq Ids /\ lastId \in Int
  /\ \A id \in vector : id <= lastId
  /\ vector = options /\ totalCount = Cardinality(vector)

LEMMA IdsAreFinite == IsFiniteSet(Ids) /\ Ids \subseteq Int
  BY FS_Interval, LimitsAssumption DEF Ids

LEMMA EraseKeepsListed ==
  ASSUME Listed, NEW ids, Erase(ids)
  PROVE  Listed'
<1>1. IsFiniteSet(vector)
  BY IdsAreFinite, FS_Subset DEF Listed
<1>2. Cardinality(vector \ ids) = Cardinality(vector) - Cardinality(vector \cap ids)
  BY <1>1, FS_Difference
<1>3. vector \cap ids = ids \cap vector
  OBVIOUS
<1> QED
  BY <1>2, <1>3 DEF Listed, Erase

LEMMA SaveKeepsListed ==
  ASSUME Listed, NEW t, UpdateAndSaveReminder(t)
  PROVE  Listed'
<1> DEFINE id == lastId + 1
<1>1. /\ id \in Ids /\ lastId' = id /\ totalCount' = totalCount + 1
      /\ vector' = vector \cup {id} /\ options' = options \cup {id}
  BY DEF UpdateAndSaveReminder
<1>2. id \notin vector
  BY IdsAreFinite DEF Listed
<1>3. IsFiniteSet(vector)
  BY IdsAreFinite, FS_Subset DEF Listed
<1>4. Cardinality(vector \cup {id}) = Cardinality(vector) + 1
  BY <1>2, <1>3, FS_AddElement
<1>5. \A x \in vector' : x <= lastId'
  BY <1>1, IdsAreFinite DEF Listed
<1> QED
  BY <1>1, <1>4, <1>5 DEF Listed

LEMMA LoadKeepsListed ==
  ASSUME NEW t, LoadReminderFromDb(t)
  PROVE  Listed'
<1>1. PICK kept \in SUBSET Ids : \E maxId \in kept \cup {NoMaxId} :
        /\ \A id \in kept : id <= maxId
        /\ lastId' = maxId + 1
        /\ vector' = kept /\ options' = kept /\ totalCount' = Cardinality(kept)
  BY DEF LoadReminderFromDb
<1> QED
  BY <1>1, IdsAreFinite DEF Listed, NoMaxId

LEMMA RestartKeepsListed ==
  ASSUME Restart
  PROVE  Listed'
<1>1. vector' = {} /\ options' = {} /\ totalCount' = 0 /\ lastId' = 0
  BY DEF Restart
<1> QED
  BY <1>1, FS_EmptySet DEF Listed

LEMMA UnchangedKeepsListed ==
  ASSUME Listed, UNCHANGED containers
  PROVE  Listed'
  BY DEF Listed, containers

LEMMA NextKeepsListed ==
  ASSUME Listed, [Next]_vars
  PROVE  Listed'
<1>1. CASE UNCHANGED vars
  BY <1>1, UnchangedKeepsListed DEF vars
<1>2. ASSUME NEW t \in Callers, Caller(t) PROVE Listed'
  <2>1. UNCHANGED containers
    BY <1>2 DEF Caller, PublishReminder, CancelReminder, CancelAllReminders
  <2> QED BY <2>1, UnchangedKeepsListed
<1>3. CASE OnEvent
  <2>1. UNCHANGED containers
    BY <1>3 DEF OnEvent, OnAlarm, OnTimeout, OnButton, OnPackageRemoved,
       OnProcessDied, OnUserSwitch, OnTimeChanged, OnBootCompleted
  <2> QED BY <2>1, UnchangedKeepsListed
<1>4. ASSUME NEW t \in Threads, Proceed(t) PROVE Listed'
  <2>1. CASE UpdateAndSaveReminder(t)
    BY <2>1, SaveKeepsListed
  <2>2. CASE LoadReminderFromDb(t)
    BY <2>2, LoadKeepsListed
  <2>3. CASE RemoveReminder(t) \/ CancelRemindersImpl(t) \/ StartRecentReminder(t)
    <3>1. \E ids : Erase(ids)
      BY <2>3 DEF RemoveReminder, CancelRemindersImpl, StartRecentReminder,
         GetRecentReminder
    <3> QED BY <3>1, EraseKeepsListed
  <2>4. CASE \/ CheckLimit(t) \/ FindToCancel(t) \/ StartTriggerTimer(t)
             \/ StopTriggerTimer(t) \/ StopSound(t) \/ StopAlertTimer(t)
             \/ Write(t) \/ Unlock(t) \/ FindToShow(t)
             \/ ShowActiveReminderExtend(t) \/ ShowReminder(t)
             \/ CoverSameNotification(t) \/ Terminate(t) \/ ShowOverdue(t)
             \/ FindToTerminate(t) \/ FindToClose(t) \/ Close(t)
             \/ FindToSnooze(t) \/ Snooze(t) \/ TerminateForUser(t)
             \/ RefreshReminders(t)
    <3>1. UNCHANGED containers
      BY <2>4 DEF CheckLimit, FindToCancel, StartTriggerTimer, StopTriggerTimer,
         StopSound, StopAlertTimer, Write, Unlock, FindToShow,
         ShowActiveReminderExtend, ShowReminder, CoverSameNotification,
         Terminate, ShowOverdue, FindToTerminate, FindToClose, Close,
         FindToSnooze, Snooze, TerminateForUser, RefreshReminders
    <3> QED BY <3>1, UnchangedKeepsListed
  <2> QED
    BY <1>4, <2>1, <2>2, <2>3, <2>4 DEF Proceed
<1>5. CASE Environment
  <2>1. CASE Restart
    BY <2>1, RestartKeepsListed
  <2>2. CASE ~Restart
    <3>1. UNCHANGED containers
      BY <1>5, <2>2 DEF Environment, Tick, TimerFires, SetTime, Press, Announce
    <3> QED BY <3>1, UnchangedKeepsListed
  <2> QED BY <2>1, <2>2
<1> QED
  BY <1>1, <1>2, <1>3, <1>4, <1>5 DEF Next

(* The list of reminders, the map of their options and their count agree   *)
(* at every step of every thread, so that the two limits count what there  *)
(* is.                                                                     *)
THEOREM ContainersStayInStep == Spec => []ContainersAgree
<1>1. Init => Listed
  BY FS_EmptySet DEF Init, Listed
<1>2. Listed /\ [Next]_vars => Listed'
  BY NextKeepsListed
<1>3. Listed => ContainersAgree
  BY DEF Listed, ContainersAgree
<1> QED
  BY <1>1, <1>2, <1>3, PTL DEF Spec

----------------------------------------------------------------------------
(* Reminders.  What the handlers make of one is a reminder of the same     *)
(* application, notification and kind, with no more snoozes left than it   *)
(* was given.                                                              *)

Flags == {"active", "showing", "alerting", "snooze"}

Reminders ==
  {r \in [app : Apps, note : Notes, kind : Kinds, due : Int, trigger : Int,
          expired : BOOLEAN, snoozesLeft : Nat, state : SUBSET Flags,
          reminderTime : Int] :
     r.snoozesLeft <= r.kind.times}

(* What the database keeps, and what an application makes. *)
Rows == {r \in Reminders : r.state = {} /\ r.kind.type # "timer"}
News == {r \in Reminders : r.state = {}}

Clocks == [wall : Int, boot : Int]

Same(r, q) == q.app = r.app /\ q.note = r.note /\ q.kind = r.kind

LEMMA KindsAre ==
  /\ DayLength \in Nat \ {0} /\ MinInterval \in Nat
  /\ \A k \in Kinds : /\ k.type \in {"alarm", "timer"} /\ k.repeats \in BOOLEAN
                      /\ k.interval \in Nat /\ k.times \in Nat /\ k.at \in Nat
  BY KindsAssumption DEF Kind

(* A change of the state alone is not seen in the row. *)
LEMMA StateIsNotKept ==
  ASSUME NEW r \in Reminders, NEW S \in SUBSET Flags
  PROVE  LET q == [r EXCEPT !.state = S]
         IN  q \in Reminders /\ Same(r, q) /\ q.state = S /\ Row(q) = Row(r)
  BY DEF Reminders, Same, Row

LEMMA RowIsKept ==
  ASSUME NEW r \in Reminders, r.kind.type # "timer"
  PROVE  Row(r) \in Rows /\ Same(r, Row(r))
  BY DEF Reminders, Rows, Same, Row

LEMMA RowOfRow ==
  ASSUME NEW r \in Rows
  PROVE  Row(r) = r
  BY DEF Reminders, Rows, Row

(* Reminders with the same row are the same but for their state. *)
LEMMA SameRow ==
  ASSUME NEW r \in Reminders, NEW q \in Reminders, Row(q) = Row(r)
  PROVE  Same(r, q)
<1>1. /\ Row(q).app = q.app /\ Row(q).note = q.note /\ Row(q).kind = q.kind
      /\ Row(r).app = r.app /\ Row(r).note = r.note /\ Row(r).kind = r.kind
  BY DEF Reminders, Row
<1> QED
  BY <1>1 DEF Same

LEMMA StateChanges ==
  ASSUME NEW r \in Reminders
  PROVE  /\ \A q \in {OnStart(r), OnStop(r), OnShowFail(r), OnTerminate(r),
                      OnSameNotificationIdCovered(r)} :
              /\ q \in Reminders /\ Same(r, q) /\ Row(q) = Row(r)
              /\ Is(q, "showing") => Is(r, "showing")
         /\ ~Is(OnShowFail(r), "showing") /\ ~Is(OnSameNotificationIdCovered(r), "showing")
<1>1. r.state \in SUBSET Flags
  BY DEF Reminders
<1>2. ASSUME NEW S \in SUBSET Flags, "showing" \in S => "showing" \in r.state,
             NEW q, q = [r EXCEPT !.state = S]
      PROVE  /\ q \in Reminders /\ Same(r, q) /\ Row(q) = Row(r)
             /\ Is(q, "showing") => Is(r, "showing")
             /\ Is(q, "showing") <=> "showing" \in S
  BY <1>2, StateIsNotKept DEF Is
<1>3. \E S \in SUBSET Flags : ("showing" \in S => "showing" \in r.state)
        /\ OnStop(r) = [r EXCEPT !.state = S]
  <2>1. r.state \ {"active"} \in SUBSET Flags
    BY <1>1
  <2> QED BY <2>1 DEF OnStop, Unset
<1>4. \E S \in SUBSET Flags : ("showing" \in S => "showing" \in r.state)
        /\ OnShowFail(r) = [r EXCEPT !.state = S] /\ "showing" \notin S
  <2>1. r.state \ {"showing"} \in SUBSET Flags
    BY <1>1
  <2> QED BY <2>1 DEF OnShowFail, Unset
<1>5. \E S \in SUBSET Flags : ("showing" \in S => "showing" \in r.state)
        /\ OnTerminate(r) = [r EXCEPT !.state = S]
  <2>1. r.state \ {"alerting"} \in SUBSET Flags
    BY <1>1
  <2> QED BY <2>1 DEF OnTerminate, Unset
<1>6. \E S \in SUBSET Flags : ("showing" \in S => "showing" \in r.state)
        /\ OnSameNotificationIdCovered(r) = [r EXCEPT !.state = S] /\ "showing" \notin S
  <2>1. r.state \ {"alerting", "showing", "snooze"} \in SUBSET Flags
    BY <1>1
  <2> QED BY <2>1 DEF OnSameNotificationIdCovered, Unset
<1>7. OnStart(r) = r \/ \E S \in SUBSET Flags : ("showing" \in S => "showing" \in r.state)
        /\ OnStart(r) = [r EXCEPT !.state = S]
  <2>1. r.state \cup {"active"} \in SUBSET Flags
        /\ ("showing" \in r.state \cup {"active"} => "showing" \in r.state)
    BY <1>1 DEF Flags
  <2> QED BY <2>1 DEF OnStart, Set
<1>8. Same(r, r) /\ Row(r) = Row(r)
  BY DEF Same
<1> QED
  BY <1>2, <1>3, <1>4, <1>5, <1>6, <1>7, <1>8

(* Where one field of a reminder changes. *)
LEMMA TriggerIsSet ==
  ASSUME NEW r \in Reminders, NEW time \in Int
  PROVE  LET q == [r EXCEPT !.trigger = time]
         IN  q \in Reminders /\ Same(r, q) /\ q.state = r.state
  BY DEF Reminders, Same

LEMMA ShownAtIsSet ==
  ASSUME NEW r \in Reminders, NEW time \in Int
  PROVE  LET q == [r EXCEPT !.reminderTime = time]
         IN  q \in Reminders /\ Same(r, q) /\ q.state = r.state
  BY DEF Reminders, Same

LEMMA ExpiredIsSet ==
  ASSUME NEW r \in Reminders, NEW gone \in BOOLEAN
  PROVE  LET q == [r EXCEPT !.expired = gone]
         IN  q \in Reminders /\ Same(r, q) /\ q.state = r.state
  BY DEF Reminders, Same

LEMMA SnoozesAreSet ==
  ASSUME NEW r \in Reminders, NEW left \in 0 .. r.kind.times
  PROVE  LET q == [r EXCEPT !.snoozesLeft = left]
         IN  q \in Reminders /\ Same(r, q) /\ q.state = r.state
<1>1. r.kind.times \in Nat /\ left \in Nat /\ left <= r.kind.times
  BY KindsAre DEF Reminders
<1> QED
  BY <1>1 DEF Reminders, Same

LEMMA TimesAreSet ==
  ASSUME NEW r \in Reminders, NEW time \in Int, NEW left \in 0 .. r.kind.times
  PROVE  LET q == [r EXCEPT !.trigger = time, !.snoozesLeft = left]
         IN  q \in Reminders /\ Same(r, q) /\ q.state = r.state
<1>1. r.kind.times \in Nat /\ left \in Nat /\ left <= r.kind.times
  BY KindsAre DEF Reminders
<1> QED
  BY <1>1 DEF Reminders, Same

LEMMA NextTimeIsATime ==
  ASSUME NEW r, r.due \in Int, NEW c \in Clocks, NEW force
  PROVE  GetNextTriggerTime(r, c, force) \in Int
<1>1. \A a \in Int, b \in Nat \ {0} : (a \div b) * b \in Int
  OBVIOUS
<1>2. (c.wall \div DayLength) * DayLength \in Int
  BY <1>1, KindsAre DEF Clocks
<1>3. (c.wall \div DayLength) * DayLength + r.due \in Int
      /\ (c.wall \div DayLength) * DayLength + r.due + DayLength \in Int
  BY <1>2, KindsAre
<1> QED
  BY <1>3 DEF GetNextTriggerTime, INVALID_LONG_LONG_VALUE

LEMMA NextIgnoredIsATime ==
  ASSUME NEW r \in Reminders, NEW c \in Clocks
  PROVE  PreGetNextTriggerTimeIgnoreSnooze(r, c) \in Int
<1>1. r.due \in Int
  BY DEF Reminders
<1>2. GetNextTriggerTime(r, c, FALSE) \in Int
  BY <1>1, NextTimeIsATime
<1>3. INVALID_LONG_LONG_VALUE \in Int
  BY DEF INVALID_LONG_LONG_VALUE
<1> QED
  BY Zenon, <1>2, <1>3 DEF PreGetNextTriggerTimeIgnoreSnooze

LEMMA UpdateNextIsReminder ==
  ASSUME NEW r \in Reminders, NEW c \in Clocks
  PROVE  LET q == UpdateNextReminder(r, c)
         IN  q \in Reminders /\ Same(r, q) /\ q.state = r.state
<1> DEFINE renewed == [r EXCEPT !.snoozesLeft = r.kind.times]
           next == GetNextTriggerTime(r, c, TRUE)
           later == r.trigger + r.kind.interval
<1>1. /\ r.trigger \in Int /\ r.kind \in Kinds /\ r.snoozesLeft \in 0 .. r.kind.times
      /\ r.kind.times \in 0 .. r.kind.times /\ later \in Int /\ r.due \in Int
  BY KindsAre DEF Reminders
<1>2. next \in Int
  BY <1>1, NextTimeIsATime
<1>3. renewed \in Reminders /\ Same(r, renewed) /\ renewed.state = r.state
      /\ renewed.kind = r.kind
  BY <1>1, SnoozesAreSet DEF Same
<1>4. r.snoozesLeft > 0 => r.snoozesLeft - 1 \in 0 .. r.kind.times
  BY <1>1, KindsAre
<1>5. r.snoozesLeft > 0 =>
        LET q == [r EXCEPT !.trigger = later, !.snoozesLeft = r.snoozesLeft - 1]
        IN  q \in Reminders /\ Same(r, q) /\ q.state = r.state
  BY <1>1, <1>4, TimesAreSet
<1>6. LET q == [renewed EXCEPT !.trigger = next]
      IN  q \in Reminders /\ Same(renewed, q) /\ q.state = r.state
  <2> HIDE DEF renewed, next
  <2> QED BY <1>2, <1>3, TriggerIsSet
<1>7. LET q == [renewed EXCEPT !.expired = TRUE]
      IN  q \in Reminders /\ Same(renewed, q) /\ q.state = r.state
  <2> HIDE DEF renewed
  <2> QED BY <1>3, ExpiredIsSet
<1>8. LET q == [r EXCEPT !.expired = TRUE]
      IN  q \in Reminders /\ Same(r, q) /\ q.state = r.state
  BY ExpiredIsSet
<1>9. \/ UpdateNextReminder(r, c) = [r EXCEPT !.expired = TRUE]
      \/ /\ r.snoozesLeft > 0
         /\ UpdateNextReminder(r, c) = [r EXCEPT !.trigger = later, !.snoozesLeft = r.snoozesLeft - 1]
      \/ UpdateNextReminder(r, c) = [renewed EXCEPT !.trigger = next]
      \/ UpdateNextReminder(r, c) = [renewed EXCEPT !.expired = TRUE]
  BY Zenon DEF UpdateNextReminder
<1> HIDE DEF renewed, next, later
<1> QED
  BY <1>3, <1>5, <1>6, <1>7, <1>8, <1>9 DEF Same

LEMMA SameIsTransitive ==
  ASSUME NEW r, NEW q, NEW p, Same(r, q), Same(q, p)
  PROVE  Same(r, p)
  BY DEF Same

(* The state changes, and then the times. *)
LEMMA StateIsSet ==
  ASSUME NEW r \in Reminders, NEW S \in SUBSET Flags
  PROVE  LET q == [r EXCEPT !.state = S]
         IN  /\ q \in Reminders /\ Same(r, q) /\ q.state = S
             /\ q.kind = r.kind /\ q.trigger = r.trigger /\ q.due = r.due
  BY DEF Reminders, Same

LEMMA OnShowIsReminder ==
  ASSUME NEW r \in Reminders, NEW c \in Clocks, NEW plays, NEW changed, NEW allowed
  PROVE  LET q == OnShow(r, c, plays, changed, allowed)
         IN  /\ q \in Reminders /\ Same(r, q)
             /\ ~allowed /\ Is(q, "showing") => Is(r, "showing")
<1> DEFINE unset == Unset(r, {"active", "snooze"})
           time == IF changed THEN c.wall ELSE r.trigger
           begun == [unset EXCEPT !.reminderTime = time]
           next == UpdateNextReminder(begun, c)
           flags == {"showing"} \cup {f \in {"alerting"} : plays}
           shown == Set(next, flags)
<1>1. r.state \in SUBSET Flags /\ r.trigger \in Int /\ c.wall \in Int
  BY DEF Reminders, Clocks
<1>2. unset \in Reminders /\ Same(r, unset) /\ unset.state = r.state \ {"active", "snooze"}
  BY <1>1, StateIsSet DEF Unset
<1>3. time \in Int
  BY <1>1
<1> HIDE DEF unset, time
<1>4. begun \in Reminders /\ Same(unset, begun) /\ begun.state = unset.state
  BY <1>2, <1>3, ShownAtIsSet
<1> HIDE DEF begun
<1>5. next \in Reminders /\ Same(begun, next) /\ next.state = begun.state
  BY <1>4, UpdateNextIsReminder
<1> HIDE DEF next
<1>6. shown \in Reminders /\ Same(next, shown)
  <2>1. next.state \cup flags \in SUBSET Flags
    BY <1>5 DEF Reminders, Flags
  <2> QED BY <1>5, <2>1, StateIsSet DEF Set
<1> HIDE DEF shown
<1>7. Same(r, next) /\ Same(r, shown)
  BY <1>2, <1>4, <1>5, <1>6, SameIsTransitive
<1>8. OnShow(r, c, plays, changed, allowed) = IF ~allowed THEN next ELSE shown
  BY Zenon DEF OnShow, shown, next, begun, time, unset
<1>9. Is(next, "showing") => Is(r, "showing")
  BY <1>2, <1>4, <1>5 DEF Is
<1> QED
  BY <1>5, <1>6, <1>7, <1>8, <1>9

LEMMA OnCloseIsReminder ==
  ASSUME NEW r \in Reminders, NEW c \in Clocks, NEW updates
  PROVE  LET q == OnClose(r, c, updates)
         IN  q \in Reminders /\ Same(r, q) /\ ~Is(q, "showing")
<1> DEFINE closed == Unset(r, {"showing", "snooze", "alerting"})
           next == PreGetNextTriggerTimeIgnoreSnooze(r, c)
           over == [closed EXCEPT !.expired = TRUE]
           again == [closed EXCEPT !.trigger = next, !.snoozesLeft = r.kind.times]
<1>1. r.state \in SUBSET Flags /\ r.kind.times \in 0 .. r.kind.times /\ next \in Int
  BY KindsAre, NextIgnoredIsATime DEF Reminders
<1>2. /\ closed \in Reminders /\ Same(r, closed) /\ closed.kind = r.kind
      /\ closed.state = r.state \ {"showing", "snooze", "alerting"}
  BY <1>1, StateIsSet DEF Unset
<1> HIDE DEF closed, next
<1>3. over \in Reminders /\ Same(closed, over) /\ over.state = closed.state
  BY <1>2, ExpiredIsSet
<1>4. again \in Reminders /\ Same(closed, again) /\ again.state = closed.state
  BY <1>1, <1>2, TimesAreSet
<1>5. OnClose(r, c, updates) \in {r, closed, over, again}
      /\ (OnClose(r, c, updates) = r => ~Is(r, "showing") \/ r \in {closed, over, again})
  BY DEF OnClose, closed, next
<1> HIDE DEF over, again
<1>6. \A q \in {closed, over, again} :
        q \in Reminders /\ Same(r, q) /\ ~Is(q, "showing")
  BY <1>2, <1>3, <1>4, SameIsTransitive DEF Is
<1> QED
  BY <1>5, <1>6 DEF Same

LEMMA OnSnoozeIsReminder ==
  ASSUME NEW r \in Reminders, NEW c \in Clocks
  PROVE  LET q == OnSnooze(r, c)
         IN  q \in Reminders /\ Same(r, q) /\ (Is(q, "showing") => Is(r, "showing"))
<1> DEFINE quiet == Unset(r, {"alerting"})
           time == c.wall + r.kind.interval
           later == [quiet EXCEPT !.trigger = time, !.snoozesLeft = r.kind.times]
           on == [later EXCEPT !.expired = FALSE]
           snoozed == Set(on, {"snooze"})
<1>1. r.state \in SUBSET Flags /\ r.kind.times \in 0 .. r.kind.times /\ time \in Int
  BY KindsAre DEF Reminders, Clocks
<1>2. /\ quiet \in Reminders /\ Same(r, quiet) /\ quiet.kind = r.kind
      /\ quiet.state = r.state \ {"alerting"}
  BY <1>1, StateIsSet DEF Unset
<1> HIDE DEF quiet, time
<1>3. later \in Reminders /\ Same(quiet, later) /\ later.state = quiet.state
  BY <1>1, <1>2, TimesAreSet
<1> HIDE DEF later
<1>4. on \in Reminders /\ Same(later, on) /\ on.state = later.state
  BY <1>3, ExpiredIsSet
<1> HIDE DEF on
<1>5. snoozed \in Reminders /\ Same(on, snoozed) /\ snoozed.state = on.state \cup {"snooze"}
  <2>1. on.state \cup {"snooze"} \in SUBSET Flags
    BY <1>4 DEF Reminders, Flags
  <2> QED BY <1>4, <2>1, StateIsSet DEF Set
<1>6. OnSnooze(r, c) \in {r, later, snoozed}
  BY Zenon DEF OnSnooze, snoozed, on, later, time, quiet
<1> HIDE DEF snoozed
<1>7. Same(r, later) /\ Same(r, snoozed) /\ Same(r, r)
  BY <1>2, <1>3, <1>4, <1>5, SameIsTransitive DEF Same
<1>8. /\ Is(later, "showing") => Is(r, "showing")
      /\ Is(snoozed, "showing") => Is(r, "showing")
  BY <1>2, <1>3, <1>4, <1>5 DEF Is
<1> QED
  BY <1>3, <1>5, <1>6, <1>7, <1>8

LEMMA NewIsReminder ==
  ASSUME NEW app \in Apps, NEW note \in Notes, NEW kind \in Kinds, NEW c \in Clocks
  PROVE  NewReminder(app, note, kind, c) \in News
<1> DEFINE due == IF kind.type = "timer" THEN c.boot + kind.at ELSE kind.at
           r == [app |-> app, note |-> note, kind |-> kind, due |-> due,
                 trigger |-> c.wall + kind.at, expired |-> FALSE,
                 snoozesLeft |-> kind.times, state |-> {},
                 reminderTime |-> INVALID_LONG_LONG_VALUE]
           next == GetNextTriggerTime(r, c, TRUE)
<1>1. kind.times \in Nat /\ kind.at \in Nat /\ c.boot \in Int /\ c.wall \in Int
      /\ INVALID_LONG_LONG_VALUE \in Int
  BY KindsAre DEF Clocks, INVALID_LONG_LONG_VALUE
<1>2. due \in Int /\ c.wall + kind.at \in Int
  BY <1>1
<1> HIDE DEF due
<1>3. r \in Reminders /\ r.state = {} /\ r.due \in Int
  BY <1>1, <1>2 DEF Reminders
<1>4. next \in Int
  BY <1>3, NextTimeIsATime
<1>5. NewReminder(app, note, kind, c) \in {r, [r EXCEPT !.trigger = next]}
  BY DEF NewReminder, due
<1> HIDE DEF r, next
<1>6. [r EXCEPT !.trigger = next] \in Reminders /\ [r EXCEPT !.trigger = next].state = {}
  BY <1>3, <1>4, TriggerIsSet
<1> QED
  BY <1>3, <1>5, <1>6 DEF News

LEMMA DateTimeChangeIsReminder ==
  ASSUME NEW r \in Reminders, NEW c \in Clocks
  PROVE  LET q == OnDateTimeChange([r EXCEPT !.reminderTime = INVALID_LONG_LONG_VALUE], c).r
         IN  q \in Reminders /\ Same(r, q) /\ q.state = r.state
<1> DEFINE p == [r EXCEPT !.reminderTime = INVALID_LONG_LONG_VALUE]
           next == PreGetNextTriggerTimeIgnoreSnooze(p, c)
           moved == c.wall + p.due - c.boot
           q1 == [p EXCEPT !.trigger = moved]
           q2 == [p EXCEPT !.trigger = next, !.snoozesLeft = p.kind.times]
           q3 == [p EXCEPT !.snoozesLeft = 0]
<1>1. p \in Reminders /\ Same(r, p) /\ p.state = r.state
  BY ShownAtIsSet DEF INVALID_LONG_LONG_VALUE
<1> HIDE DEF p
<1>2. moved \in Int /\ next \in Int /\ p.kind.times \in 0 .. p.kind.times /\ 0 \in 0 .. p.kind.times
  BY <1>1, KindsAre, NextIgnoredIsATime DEF Reminders, Clocks
<1> HIDE DEF moved, next
<1>3. /\ q1 \in Reminders /\ Same(p, q1) /\ q1.state = p.state
      /\ Same(p, p)
  BY <1>1, <1>2, TriggerIsSet DEF Same
<1>4. q2 \in Reminders /\ Same(p, q2) /\ q2.state = p.state
  BY <1>1, <1>2, TimesAreSet
<1>5. q3 \in Reminders /\ Same(p, q3) /\ q3.state = p.state
  BY <1>1, <1>2, SnoozesAreSet
<1>6. OnDateTimeChange(p, c).r \in {p, q1, q2, q3}
  BY DEF OnDateTimeChange, moved, next
<1> HIDE DEF q1, q2, q3
<1>7. OnDateTimeChange(p, c).r \in Reminders /\ Same(p, OnDateTimeChange(p, c).r)
      /\ OnDateTimeChange(p, c).r.state = p.state
  BY <1>1, <1>3, <1>4, <1>5, <1>6
<1> QED
  BY <1>1, <1>7, SameIsTransitive DEF p

----------------------------------------------------------------------------
(* What a thread has yet to do.  Some steps are followed by nothing but    *)
(* the search for the next reminder: those that find reminders, and those  *)
(* that remove them.                                                       *)

IsList(s) == \E S : s \in Seq(S)
Elements(s) == {s[i] : i \in DOMAIN s}

Enders ==
  {"check", "save", "cancel", "remove", "cancelAll", "recent", "alarm",
   "timeout", "close", "closeNow", "snooze", "snoozeNow", "userSwitched",
   "refresh", "serviceStart", "load", "showAll"}

Proper(s) ==
  /\ IsList(s)
  /\ \A i, j \in DOMAIN s : i < j /\ s[i].op \in Enders => s[j].op = "recent"

LEMMA NoneIsProper == Proper(<<>>) /\ Elements(<<>>) = {}
<1>1. IsList(<<>>)
  BY DEF IsList
<1> QED
  BY <1>1 DEF Proper, Elements

LEMMA OneIsProper ==
  ASSUME NEW d
  PROVE  Proper(<<d>>) /\ Elements(<<d>>) = {d}
<1>1. <<d>> \in Seq({d}) /\ DOMAIN <<d>> = {1} /\ <<d>>[1] = d
  OBVIOUS
<1>2. IsList(<<d>>)
  BY <1>1 DEF IsList
<1> QED
  BY <1>1, <1>2 DEF Proper, Elements

LEMMA TwoAreProper ==
  ASSUME NEW d, NEW e, d.op \in Enders => e.op = "recent"
  PROVE  Proper(<<d, e>>) /\ Elements(<<d, e>>) = {d, e}
<1>1. /\ <<d, e>> \in Seq({d, e}) /\ DOMAIN <<d, e>> = {1, 2}
      /\ <<d, e>>[1] = d /\ <<d, e>>[2] = e
  OBVIOUS
<1>2. IsList(<<d, e>>)
  BY <1>1 DEF IsList
<1> HIDE DEF Enders
<1> QED
  BY <1>1, <1>2 DEF Proper, Elements

LEMMA BothAreProper ==
  ASSUME NEW s, NEW q, Proper(s), Proper(q),
         (\E d \in Elements(s) : d.op \in Enders) => \A e \in Elements(q) : e.op = "recent"
  PROVE  Proper(s \o q) /\ Elements(s \o q) = Elements(s) \cup Elements(q)
<1>1. PICK S, Q : s \in Seq(S) /\ q \in Seq(Q)
  BY DEF Proper, IsList
<1> DEFINE T == S \cup Q
<1>2. s \in Seq(T) /\ q \in Seq(T)
  BY <1>1
<1> HIDE DEF T
<1>3. /\ s \o q \in Seq(T) /\ Len(s) \in Nat /\ Len(q) \in Nat
      /\ Len(s \o q) = Len(s) + Len(q)
      /\ DOMAIN s = 1 .. Len(s) /\ DOMAIN q = 1 .. Len(q)
      /\ DOMAIN (s \o q) = 1 .. (Len(s) + Len(q))
      /\ \A i \in 1 .. (Len(s) + Len(q)) :
           (s \o q)[i] = IF i <= Len(s) THEN s[i] ELSE q[i - Len(s)]
  BY <1>2
<1> DEFINE r == s \o q
<1> HIDE DEF r
<1>4. /\ \A i \in 1 .. Len(s) : i \in DOMAIN r /\ r[i] = s[i]
      /\ \A i \in 1 .. Len(q) : Len(s) + i \in DOMAIN r /\ r[Len(s) + i] = q[i]
      /\ \A i \in DOMAIN r : \/ i \in 1 .. Len(s) /\ r[i] = s[i]
                             \/ i - Len(s) \in 1 .. Len(q) /\ r[i] = q[i - Len(s)]
  BY <1>3 DEF r
<1>5. Elements(r) = Elements(s) \cup Elements(q)
  BY <1>3, <1>4 DEF Elements
<1>6. IsList(r)
  BY <1>3 DEF IsList, r
<1>7. ASSUME NEW i \in DOMAIN r, NEW j \in DOMAIN r, i < j, r[i].op \in Enders
      PROVE  r[j].op = "recent"
  <2>0. i \in Nat /\ j \in Nat /\ i <= Len(s) + Len(q) /\ j <= Len(s) + Len(q) /\ i >= 1 /\ j >= 1
    BY <1>3 DEF r
  <2>1. CASE i <= Len(s) /\ j <= Len(s)
    <3>1. i \in DOMAIN s /\ j \in DOMAIN s /\ r[i] = s[i] /\ r[j] = s[j]
      BY <1>3, <1>4, <2>0, <2>1
    <3> QED BY <1>7, <3>1 DEF Proper
  <2>2. CASE i <= Len(s) /\ j > Len(s)
    <3>1. i \in DOMAIN s /\ r[i] = s[i]
      BY <1>3, <1>4, <2>0, <2>2
    <3>2. j - Len(s) \in DOMAIN q /\ r[j] = q[j - Len(s)]
      BY <1>3, <1>4, <2>0, <2>2
    <3> QED BY <1>7, <3>1, <3>2 DEF Elements
  <2>3. CASE i > Len(s)
    <3>1. i - Len(s) \in DOMAIN q /\ r[i] = q[i - Len(s)]
      BY <1>3, <1>4, <2>0, <2>3
    <3>2. j - Len(s) \in DOMAIN q /\ r[j] = q[j - Len(s)] /\ i - Len(s) < j - Len(s)
      BY <1>3, <1>4, <1>7, <2>0, <2>3
    <3> QED BY <1>7, <3>1, <3>2 DEF Proper
  <2> QED BY <1>3, <2>0, <2>1, <2>2, <2>3
<1> QED
  BY <1>5, <1>6, <1>7 DEF Proper, r

LEMMA TailIsProper ==
  ASSUME NEW s, Proper(s), s # <<>>
  PROVE  /\ Proper(Tail(s)) /\ Elements(s) = {Head(s)} \cup Elements(Tail(s))
         /\ Head(s).op \in Enders => \A d \in Elements(Tail(s)) : d.op = "recent"
<1>1. PICK S : s \in Seq(S)
  BY DEF Proper, IsList
<1>2. /\ Tail(s) \in Seq(S) /\ Len(s) \in Nat /\ Len(s) > 0
      /\ DOMAIN s = 1 .. Len(s) /\ DOMAIN Tail(s) = 1 .. (Len(s) - 1)
      /\ \A i \in 1 .. (Len(s) - 1) : Tail(s)[i] = s[i + 1]
      /\ Head(s) = s[1]
  BY <1>1
<1> DEFINE r == Tail(s)
<1> HIDE DEF r
<1>3. /\ 1 \in DOMAIN s
      /\ \A i \in DOMAIN r : i + 1 \in DOMAIN s /\ 1 < i + 1 /\ r[i] = s[i + 1]
      /\ \A i \in DOMAIN s : i = 1 \/ (i - 1 \in DOMAIN r /\ r[i - 1] = s[i])
      /\ \A i, j \in DOMAIN r : i < j => i + 1 < j + 1
  BY <1>2 DEF r
<1>4. Elements(s) = {Head(s)} \cup Elements(r)
  BY <1>2, <1>3 DEF Elements
<1>5. IsList(r)
  BY <1>2 DEF IsList, r
<1>6. \A i, j \in DOMAIN r : i < j /\ r[i].op \in Enders => r[j].op = "recent"
  BY <1>3 DEF Proper
<1>7. Head(s).op \in Enders => \A d \in Elements(r) : d.op = "recent"
  BY <1>2, <1>3 DEF Proper, Elements
<1> QED
  BY <1>4, <1>5, <1>6, <1>7 DEF Proper, r

LEMMA WhenIsProper ==
  ASSUME NEW c \in BOOLEAN, NEW s, Proper(s)
  PROVE  Proper(When(c, s)) /\ Elements(When(c, s)) = {d \in Elements(s) : c}
  BY NoneIsProper DEF When

(* The steps all threads have yet to do; those that stay when a thread has *)
(* done its first one; the event thread alone loads the database.          *)
Pending == UNION {Elements(todo[t]) : t \in Threads}
Left(t) == Elements(Tail(todo[t])) \cup UNION {Elements(todo[u]) : u \in Threads \ {t}}

Lists ==
  /\ todo = [t \in Threads |-> todo[t]]
  /\ \A t \in Threads : /\ Proper(todo[t])
                        /\ \A d \in Elements(todo[t]) : d.op = "load" => t = EventThread

(* A thread that does its first step has new ones to do, or none at all.   *)
Pushes(t, new) == Lists' /\ Pending' = Left(t) \cup new
Stops(t) == Lists' /\ Pending' \subseteq Left(t)

LEMMA HeadIsPending ==
  ASSUME Lists, NEW t \in Threads, todo[t] # <<>>
  PROVE  /\ Pending = {Head(todo[t])} \cup Left(t)
         /\ Proper(Tail(todo[t]))
         /\ Head(todo[t]).op \in Enders => \A d \in Elements(Tail(todo[t])) : d.op = "recent"
         /\ Elements(todo[t]) = {Head(todo[t])} \cup Elements(Tail(todo[t]))
<1>1. Proper(todo[t])
  BY DEF Lists
<1>2. /\ Proper(Tail(todo[t])) /\ Elements(todo[t]) = {Head(todo[t])} \cup Elements(Tail(todo[t]))
      /\ Head(todo[t]).op \in Enders => \A d \in Elements(Tail(todo[t])) : d.op = "recent"
  BY <1>1, TailIsProper
<1>3. Pending = Elements(todo[t]) \cup UNION {Elements(todo[u]) : u \in Threads \ {t}}
  BY DEF Pending
<1> QED
  BY <1>2, <1>3 DEF Left

(* A thread takes another list. *)
LEMMA ListIsReplaced ==
  ASSUME Lists, NEW t \in Threads, NEW s, Proper(s), todo' = [todo EXCEPT ![t] = s],
         \A d \in Elements(s) : d.op = "load" => t = EventThread
  PROVE  /\ Lists'
         /\ Pending' = Elements(s) \cup UNION {Elements(todo[u]) : u \in Threads \ {t}}
<1>1. todo' = [u \in Threads |-> IF u = t THEN s ELSE todo[u]]
  BY DEF Lists
<1>2. Lists'
  <2>1. todo' = [u \in Threads |-> todo'[u]]
    BY <1>1
  <2>2. ASSUME NEW u \in Threads
        PROVE  Proper(todo'[u]) /\ \A d \in Elements(todo'[u]) : d.op = "load" => u = EventThread
    BY <1>1, <2>2 DEF Lists
  <2> QED BY <2>1, <2>2 DEF Lists
<1>3. Pending' = UNION {Elements(todo'[u]) : u \in Threads}
  BY DEF Pending
<1>4. todo'[t] = s /\ \A u \in Threads \ {t} : todo'[u] = todo[u]
  BY <1>1
<1> QED
  BY <1>2, <1>3, <1>4

LEMMA ThenPushes ==
  ASSUME Lists, NEW t \in Threads, todo[t] # <<>>, NEW s, Proper(s), Then(t, s),
         (\E d \in Elements(s) : d.op \in Enders) => Head(todo[t]).op \in Enders,
         \A d \in Elements(s) : d.op # "load"
  PROVE  Pushes(t, Elements(s))
<1> DEFINE q == s \o Tail(todo[t])
<1>1. /\ Proper(Tail(todo[t])) /\ Elements(todo[t]) = {Head(todo[t])} \cup Elements(Tail(todo[t]))
      /\ Head(todo[t]).op \in Enders => \A d \in Elements(Tail(todo[t])) : d.op = "recent"
  BY HeadIsPending
<1>2. Proper(q) /\ Elements(q) = Elements(s) \cup Elements(Tail(todo[t]))
  BY <1>1, BothAreProper
<1>3. todo' = [todo EXCEPT ![t] = q]
  BY DEF Then, Lists
<1> HIDE DEF q
<1>4. \A d \in Elements(q) : d.op = "load" => t = EventThread
  BY <1>1, <1>2 DEF Lists
<1> QED
  BY <1>2, <1>3, <1>4, ListIsReplaced DEF Pushes, Left

LEMMA StopStops ==
  ASSUME Lists, NEW t \in Threads, Stop(t)
  PROVE  Stops(t)
<1>1. Lists' /\ Pending' = Elements(<<>>) \cup UNION {Elements(todo[u]) : u \in Threads \ {t}}
  BY NoneIsProper, ListIsReplaced DEF Stop
<1> QED
  BY <1>1, NoneIsProper DEF Stops, Left

LEMMA BeginAdds ==
  ASSUME Lists, NEW t \in Threads, todo[t] = <<>>, NEW s, Proper(s),
         todo' = [todo EXCEPT ![t] = s],
         \A d \in Elements(s) : d.op = "load" => t = EventThread
  PROVE  Lists' /\ Pending' = Pending \cup Elements(s)
<1>1. /\ Lists'
      /\ Pending' = Elements(s) \cup UNION {Elements(todo[u]) : u \in Threads \ {t}}
  BY ListIsReplaced
<1>2. Pending = Elements(todo[t]) \cup UNION {Elements(todo[u]) : u \in Threads \ {t}}
  BY DEF Pending
<1> QED
  BY <1>1, <1>2, NoneIsProper

(* What each step gives its thread to do. *)

Writes(id, known) ==
  {d \in {Step("write", id)} : id \in known /\ reminder[id].kind.type # "timer"}
Halts(id) ==
  {Step("stopSound", id)} \cup {d \in {Step("stopTimer", id)} : activeReminderId = id}

LEMMA UpdateIsProper ==
  ASSUME NEW id, NEW known
  PROVE  /\ Proper(UpdateOrInsert(id, known))
         /\ Elements(UpdateOrInsert(id, known)) = Writes(id, known)
<1> DEFINE c == id \in known /\ reminder[id].kind.type # "timer"
           s == <<Step("write", id)>>
<1>1. Proper(s) /\ Elements(s) = {Step("write", id)}
  BY OneIsProper
<1>2. c \in BOOLEAN
  OBVIOUS
<1>3. UpdateOrInsert(id, known) = When(c, s)
  BY DEF UpdateOrInsert
<1>4. Writes(id, known) = {d \in {Step("write", id)} : c}
  BY DEF Writes
<1> HIDE DEF c, s
<1> QED
  BY <1>1, <1>2, <1>3, <1>4, WhenIsProper

LEMMA WritesAre ==
  ASSUME NEW id, NEW known, NEW d \in Writes(id, known)
  PROVE  d = Step("write", id) /\ d.op = "write" /\ d.op \notin Enders
  BY DEF Step, Writes, Enders

LEMMA HaltIsProper ==
  ASSUME NEW id
  PROVE  /\ Proper(Halt(id)) /\ Elements(Halt(id)) = Halts(id)
         /\ \A d \in Halts(id) : d.op \in {"stopTimer", "stopSound"} /\ d.op \notin Enders
<1> DEFINE s == <<Step("stopTimer", id)>>
           q == <<Step("stopSound", id)>>
           c == activeReminderId = id
<1>1. /\ Proper(s) /\ Elements(s) = {Step("stopTimer", id)}
      /\ Proper(q) /\ Elements(q) = {Step("stopSound", id)}
  BY OneIsProper
<1>2. c \in BOOLEAN
  OBVIOUS
<1>3. Halt(id) = When(c, s) \o q
  BY DEF Halt
<1>4. Halts(id) = Elements(q) \cup {d \in Elements(s) : c}
  BY <1>1 DEF Halts
<1>5. \A d \in Halts(id) : d.op \in {"stopTimer", "stopSound"} /\ d.op \notin Enders
  BY DEF Step, Halts, Enders
<1> HIDE DEF s, q, c
<1>6. Proper(When(c, s)) /\ Elements(When(c, s)) = {d \in Elements(s) : c}
  BY <1>1, <1>2, WhenIsProper
<1>7. ~ \E d \in Elements(When(c, s)) : d.op \in Enders
  BY <1>4, <1>5, <1>6
<1>8. Proper(Halt(id)) /\ Elements(Halt(id)) = Elements(When(c, s)) \cup Elements(q)
  BY <1>1, <1>3, <1>6, <1>7, BothAreProper
<1> QED
  BY <1>4, <1>5, <1>6, <1>8

LEMMA QuietStepsPush ==
  ASSUME Lists, NEW t \in Threads,
         \/ UpdateAndSaveReminder(t) \/ RemoveReminder(t) \/ CancelRemindersImpl(t)
         \/ StopTriggerTimer(t) \/ StopAlertTimer(t) \/ Write(t) \/ Unlock(t)
         \/ Terminate(t) \/ FindToTerminate(t) \/ TerminateForUser(t)
         \/ LoadReminderFromDb(t)
  PROVE  todo[t] # <<>> /\ Pushes(t, {})
<1>1. todo[t] # <<>> /\ Then(t, <<>>)
  BY DEF UpdateAndSaveReminder, RemoveReminder, CancelRemindersImpl, StopTriggerTimer,
     StopAlertTimer, Write, Unlock, Terminate, FindToTerminate, TerminateForUser,
     LoadReminderFromDb, At, AtLocked
<1>2. Proper(<<>>) /\ Elements(<<>>) = {}
  BY NoneIsProper
<1> DEFINE s == <<>>
<1> HIDE DEF s
<1>3. Pushes(t, Elements(s))
  BY <1>1, <1>2, ThenPushes DEF s
<1> QED
  BY <1>1, <1>2, <1>3 DEF s

(* One step, or two, are given. *)
LEMMA OneIsPushed ==
  ASSUME Lists, NEW t \in Threads, todo[t] # <<>>, NEW d, Then(t, <<d>>),
         d.op # "load", d.op \in Enders => Head(todo[t]).op \in Enders
  PROVE  Pushes(t, {d})
<1> DEFINE s == <<d>>
<1>1. Proper(s) /\ Elements(s) = {d}
  BY OneIsProper
<1>2. Then(t, s)
  OBVIOUS
<1> HIDE DEF s
<1> QED
  BY <1>1, <1>2, ThenPushes

LEMMA TwoArePushed ==
  ASSUME Lists, NEW t \in Threads, todo[t] # <<>>, NEW d, NEW e, Then(t, <<d, e>>),
         d.op \in Enders => e.op = "recent", d.op # "load", e.op # "load",
         d.op \in Enders \/ e.op \in Enders => Head(todo[t]).op \in Enders
  PROVE  Pushes(t, {d, e})
<1> DEFINE s == <<d, e>>
<1>1. Proper(s) /\ Elements(s) = {d, e}
  BY TwoAreProper
<1>2. Then(t, s)
  OBVIOUS
<1> HIDE DEF s
<1> QED
  BY <1>1, <1>2, ThenPushes

(* Steps that end nothing come before one or two more. *)
LEMMA MoreArePushed ==
  ASSUME Lists, NEW t \in Threads, todo[t] # <<>>, NEW s, NEW q, Then(t, s \o q),
         Proper(s), Proper(q), \A d \in Elements(s) : d.op \notin Enders /\ d.op # "load",
         \A d \in Elements(q) : d.op # "load",
         (\E d \in Elements(q) : d.op \in Enders) => Head(todo[t]).op \in Enders
  PROVE  Pushes(t, Elements(s) \cup Elements(q))
<1> DEFINE r == s \o q
<1>1. Proper(r) /\ Elements(r) = Elements(s) \cup Elements(q)
  BY BothAreProper
<1>2. Then(t, r)
  OBVIOUS
<1> HIDE DEF r
<1>3. Pushes(t, Elements(r))
  BY <1>1, <1>2, ThenPushes
<1> QED
  BY <1>1, <1>3

LEMMA UpdateIsPushed ==
  ASSUME Lists, NEW t \in Threads, todo[t] # <<>>, NEW id, NEW known,
         Then(t, UpdateOrInsert(id, known))
  PROVE  Pushes(t, Writes(id, known))
<1> DEFINE s == UpdateOrInsert(id, known)
<1>1. /\ Proper(s) /\ Elements(s) = Writes(id, known)
      /\ \A d \in Elements(s) : d.op = "write" /\ d.op \notin Enders
  BY UpdateIsProper, WritesAre
<1>2. Then(t, s)
  OBVIOUS
<1> HIDE DEF s
<1>3. Pushes(t, Elements(s))
  BY <1>1, <1>2, ThenPushes
<1> QED
  BY <1>1, <1>3

LEMMA HaltIsPushed ==
  ASSUME Lists, NEW t \in Threads, todo[t] # <<>>, NEW id, NEW q, Then(t, Halt(id) \o q),
         Proper(q), \A d \in Elements(q) : d.op # "load", Head(todo[t]).op \in Enders
  PROVE  Pushes(t, Halts(id) \cup Elements(q))
<1>1. /\ Proper(Halt(id)) /\ Elements(Halt(id)) = Halts(id)
      /\ \A d \in Elements(Halt(id)) : d.op \notin Enders /\ d.op # "load"
  BY HaltIsProper
<1> QED
  BY <1>1, MoreArePushed

(* The steps that show reminders, in some order. *)
ShowSteps(S, why) == {ShowStep(x, b, why) : x \in S, b \in BOOLEAN}

LEMMA ShowStepsShow ==
  ASSUME NEW S, NEW why, NEW d \in ShowSteps(S, why)
  PROVE  d.op = "show" /\ d.id \in S /\ d.why = why /\ d.op \notin Enders
  BY DEF ShowSteps, ShowStep, Enders

LEMMA ShowStepIsOne ==
  ASSUME NEW S, NEW x \in S, NEW b \in BOOLEAN, NEW why
  PROVE  ShowStep(x, b, why) \in ShowSteps(S, why)
  BY DEF ShowSteps

LEMMA OrdersAre ==
  ASSUME NEW S, IsFiniteSet(S), NEW q \in Orders(S)
  PROVE  /\ Cardinality(S) \in Nat /\ q \in [1 .. Cardinality(S) -> S]
         /\ \A x \in S : \E i \in 1 .. Cardinality(S) : q[i] = x
<1> DEFINE n == Cardinality(S)
<1>1. n \in Nat
  BY FS_CardinalityType
<1>2. q \in [1 .. n -> S] /\ \A i, j \in 1 .. n : q[i] = q[j] => i = j
  BY DEF Orders
<1> HIDE DEF n
<1>3. IsFiniteSet(1 .. n) /\ Cardinality(1 .. n) = n
  BY <1>1, FS_Interval
<1>4. q \in Injection(1 .. n, S)
  BY <1>2 DEF Injection, IsInjective
<1>5. q \in Surjection(1 .. n, S)
  BY <1>3, <1>4, FS_Injection DEF n
<1>6. \A x \in S : \E i \in 1 .. n : q[i] = x
  BY <1>5 DEF Surjection
<1> QED
  BY <1>1, <1>2, <1>6 DEF n

LEMMA SilentlyIsProper ==
  ASSUME NEW S, NEW order \in Seq(S), NEW why
  PROVE  /\ Proper(Silently(order, why))
         /\ \A i \in DOMAIN order : ShowStep(order[i], FALSE, why) \in Elements(Silently(order, why))
         /\ Elements(Silently(order, why)) \subseteq ShowSteps(S, why)
<1> DEFINE s == Silently(order, why)
<1>1. s = [i \in DOMAIN order |-> ShowStep(order[i], FALSE, why)]
  BY DEF Silently
<1>2. DOMAIN order = 1 .. Len(order) /\ Len(order) \in Nat
      /\ \A i \in DOMAIN order : order[i] \in S
  OBVIOUS
<1> HIDE DEF s
<1>3. DOMAIN s = DOMAIN order /\ \A i \in DOMAIN s : s[i] = ShowStep(order[i], FALSE, why)
  BY <1>1
<1>4. \A i \in DOMAIN s : s[i] \in ShowSteps(S, why)
  <2>1. FALSE \in BOOLEAN
    OBVIOUS
  <2> QED BY Zenon, <1>2, <1>3, <2>1, ShowStepIsOne
<1>5. s \in Seq(ShowSteps(S, why))
  <2>1. s \in [1 .. Len(order) -> ShowSteps(S, why)]
    BY <1>1, <1>2, <1>4
  <2> QED BY <1>2, <2>1
<1>6. \A i \in DOMAIN s : s[i].op \notin Enders
  BY <1>4, ShowStepsShow
<1>7. Proper(s)
  BY <1>5, <1>6 DEF Proper, IsList
<1>8. \A i \in DOMAIN order : ShowStep(order[i], FALSE, why) \in Elements(s)
  BY <1>3 DEF Elements
<1>9. Elements(s) \subseteq ShowSteps(S, why)
  BY <1>4 DEF Elements
<1> QED
  BY <1>7, <1>8, <1>9 DEF s

LEMMA ImmediatelyIsProper ==
  ASSUME NEW S, NEW n \in Nat, NEW order \in [1 .. n -> S], NEW why
  PROVE  LET h == HandleImmediatelyShow(order, why)
         IN  /\ Proper(h) /\ Elements(h) \subseteq ShowSteps(S, why)
             /\ \A i \in 1 .. n : \E b \in BOOLEAN : ShowStep(order[i], b, why) \in Elements(h)
<1>1. order \in Seq(S) /\ DOMAIN order = 1 .. n /\ Len(order) = n
  OBVIOUS
<1>2. CASE n = 0
  <2>1. order = <<>> /\ 1 .. n = {}
    BY <1>1, <1>2
  <2>2. HandleImmediatelyShow(order, why) = <<>>
    BY <2>1 DEF HandleImmediatelyShow
  <2> QED
    BY <2>1, <2>2, NoneIsProper
<1>3. CASE n > 0
  <2> DEFINE rest == Tail(order)
             s == <<ShowStep(Head(order), TRUE, why)>>
             q == Silently(rest, why)
  <2>1. /\ order # <<>> /\ rest \in Seq(S) /\ Head(order) = order[1] /\ order[1] \in S
        /\ DOMAIN rest = 1 .. (n - 1)
        /\ \A i \in 1 .. (n - 1) : rest[i] = order[i + 1]
    BY <1>1, <1>3
  <2>2. HandleImmediatelyShow(order, why) = s \o q
    BY <2>1 DEF HandleImmediatelyShow
  <2>3. Proper(s) /\ Elements(s) = {ShowStep(order[1], TRUE, why)}
    BY <2>1, OneIsProper
  <2> HIDE DEF rest
  <2>4. /\ Proper(q)
        /\ \A i \in DOMAIN rest : ShowStep(rest[i], FALSE, why) \in Elements(q)
        /\ Elements(q) \subseteq ShowSteps(S, why)
    <3>1. rest \in Seq(S)
      BY <2>1
    <3> QED BY Zenon, <3>1, SilentlyIsProper
  <2>5. ShowStep(order[1], TRUE, why) \in ShowSteps(S, why)
    <3>1. TRUE \in BOOLEAN
      OBVIOUS
    <3> QED BY Zenon, <2>1, <3>1, ShowStepIsOne
  <2>6. \A d \in Elements(s) : d.op \notin Enders
    <3>1. ShowStep(order[1], TRUE, why).op \notin Enders
      BY Zenon, <2>5, ShowStepsShow
    <3> QED BY Zenon, <2>3, <3>1
  <2> HIDE DEF s, q
  <2>7. Proper(s \o q) /\ Elements(s \o q) = Elements(s) \cup Elements(q)
    BY <2>3, <2>4, <2>6, BothAreProper
  <2>8. ASSUME NEW i \in 1 .. n
        PROVE  \E b \in BOOLEAN : ShowStep(order[i], b, why) \in Elements(s \o q)
    <3>1. CASE i = 1
      BY <2>3, <2>7, <3>1
    <3>2. CASE i # 1
      <4>1. i - 1 \in DOMAIN rest /\ rest[i - 1] = order[i]
        BY <2>1, <3>2
      <4>2. ShowStep(order[i], FALSE, why) \in Elements(s \o q)
        BY <2>4, <2>7, <4>1
      <4> QED BY <4>2
    <3> QED BY <3>1, <3>2
  <2> QED
    BY <2>2, <2>3, <2>4, <2>5, <2>7, <2>8
<1> QED
  BY <1>2, <1>3

(* Each step in turn. *)
LEMMA CheckPushes ==
  ASSUME Lists, NEW t \in Threads, CheckLimit(t)
  PROVE  /\ todo[t] # <<>> /\ Head(todo[t]).op = "check"
         /\ \/ Stops(t)
            \/ Pushes(t, {[op |-> "save", new |-> Head(todo[t]).new], Step("recent", NoReminder)})
<1> DEFINE d == [op |-> "save", new |-> Head(todo[t]).new]
           e == Step("recent", NoReminder)
<1>1. /\ todo[t] # <<>> /\ Head(todo[t]).op = "check"
      /\ Stop(t) \/ Then(t, <<d, e>>)
  BY DEF CheckLimit, AtLocked, At
<1>2. /\ e.op = "recent" /\ d.op # "load" /\ e.op # "load"
      /\ Head(todo[t]).op \in Enders
  BY <1>1 DEF Step, Enders
<1> HIDE DEF d, e
<1>3. CASE Stop(t)
  BY <1>1, <1>3, StopStops
<1>4. ASSUME Then(t, <<d, e>>) PROVE Pushes(t, {d, e})
  BY <1>1, <1>2, <1>4, TwoArePushed
<1> QED
  BY <1>1, <1>3, <1>4 DEF d, e

LEMMA FindToCancelPushes ==
  ASSUME Lists, NEW t \in Threads, FindToCancel(t)
  PROVE  LET id == Head(todo[t]).id
         IN  /\ todo[t] # <<>> /\ Head(todo[t]).op = "cancel"
             /\ \/ Stops(t)
                \/ /\ id \in vector
                   /\ Pushes(t, Halts(id) \cup {Step("remove", id), Step("recent", NoReminder)})
<1> DEFINE id == Head(todo[t]).id
           d == Step("remove", id)
           e == Step("recent", NoReminder)
<1>1. /\ todo[t] # <<>> /\ Head(todo[t]).op = "cancel"
      /\ Stop(t) \/ (id \in vector /\ Then(t, Halt(id) \o <<d, e>>))
  BY DEF FindToCancel, AtLocked, At
<1>2. /\ e.op = "recent" /\ d.op # "load" /\ e.op # "load"
      /\ Head(todo[t]).op \in Enders
  BY <1>1 DEF Step, Enders
<1> HIDE DEF d, e
<1>3. Proper(<<d, e>>) /\ Elements(<<d, e>>) = {d, e}
  BY <1>2, TwoAreProper
<1>4. CASE Stop(t)
  BY <1>1, <1>4, StopStops
<1> DEFINE q == <<d, e>>
<1>5. CASE Then(t, Halt(id) \o q) /\ id \in vector
  <2>1. \A x \in Elements(q) : x.op # "load"
    BY <1>2, <1>3
  <2> HIDE DEF q
  <2>2. Pushes(t, Halts(id) \cup Elements(q))
    BY <1>1, <1>2, <1>3, <1>5, <2>1, HaltIsPushed DEF q
  <2> QED BY <1>1, <1>3, <1>5, <2>2 DEF q, d, e
<1> QED
  BY <1>1, <1>4, <1>5 DEF d, e

LEMMA FindToClosePushes ==
  ASSUME Lists, NEW t \in Threads, FindToClose(t)
  PROVE  LET id == Head(todo[t]).id
         IN  /\ todo[t] # <<>> /\ Head(todo[t]).op = "close"
             /\ \/ Stops(t)
                \/ /\ id \in vector
                   /\ Pushes(t, Halts(id) \cup {Step("closeNow", id), Step("recent", NoReminder)})
<1> DEFINE id == Head(todo[t]).id
           d == Step("closeNow", id)
           e == Step("recent", NoReminder)
<1>1. /\ todo[t] # <<>> /\ Head(todo[t]).op = "close"
      /\ Stop(t) \/ (id \in vector /\ Then(t, Halt(id) \o <<d, e>>))
  BY DEF FindToClose, AtLocked, At
<1>2. /\ e.op = "recent" /\ d.op # "load" /\ e.op # "load"
      /\ Head(todo[t]).op \in Enders
  BY <1>1 DEF Step, Enders
<1> HIDE DEF d, e
<1>3. Proper(<<d, e>>) /\ Elements(<<d, e>>) = {d, e}
  BY <1>2, TwoAreProper
<1>4. CASE Stop(t)
  BY <1>1, <1>4, StopStops
<1> DEFINE q == <<d, e>>
<1>5. CASE Then(t, Halt(id) \o q) /\ id \in vector
  <2>1. \A x \in Elements(q) : x.op # "load"
    BY <1>2, <1>3
  <2> HIDE DEF q
  <2>2. Pushes(t, Halts(id) \cup Elements(q))
    BY <1>1, <1>2, <1>3, <1>5, <2>1, HaltIsPushed DEF q
  <2> QED BY <1>1, <1>3, <1>5, <2>2 DEF q, d, e
<1> QED
  BY <1>1, <1>4, <1>5 DEF d, e

LEMMA FindToSnoozePushes ==
  ASSUME Lists, NEW t \in Threads, FindToSnooze(t)
  PROVE  LET id == Head(todo[t]).id
         IN  /\ todo[t] # <<>> /\ Head(todo[t]).op = "snooze"
             /\ \/ Stops(t)
                \/ id \in vector /\ Pushes(t, Halts(id) \cup {Step("snoozeNow", id)})
<1> DEFINE id == Head(todo[t]).id
           d == Step("snoozeNow", id)
<1>1. /\ todo[t] # <<>> /\ Head(todo[t]).op = "snooze"
      /\ Stop(t) \/ (id \in vector /\ Then(t, Halt(id) \o <<d>>))
  BY DEF FindToSnooze, AtLocked, At
<1>2. d.op # "load" /\ Head(todo[t]).op \in Enders
  BY <1>1 DEF Step, Enders
<1> HIDE DEF d
<1>3. Proper(<<d>>) /\ Elements(<<d>>) = {d}
  BY OneIsProper
<1>4. CASE Stop(t)
  BY <1>1, <1>4, StopStops
<1> DEFINE q == <<d>>
<1>5. CASE Then(t, Halt(id) \o q) /\ id \in vector
  <2>1. \A x \in Elements(q) : x.op # "load"
    BY <1>2, <1>3
  <2> HIDE DEF q
  <2>2. Pushes(t, Halts(id) \cup Elements(q))
    BY <1>1, <1>2, <1>3, <1>5, <2>1, HaltIsPushed DEF q
  <2> QED BY <1>1, <1>3, <1>5, <2>2 DEF q, d
<1> QED
  BY <1>1, <1>4, <1>5 DEF d

LEMMA FindToShowPushes ==
  ASSUME Lists, NEW t \in Threads, FindToShow(t)
  PROVE  LET id == Head(todo[t]).id
         IN  /\ todo[t] # <<>> /\ Head(todo[t]).op = "alarm"
             /\ \/ Stops(t)
                \/ Pushes(t, {Step("showAll", id), Step("recent", NoReminder)})
<1> DEFINE d == Step("showAll", Head(todo[t]).id)
           e == Step("recent", NoReminder)
<1>1. /\ todo[t] # <<>> /\ Head(todo[t]).op = "alarm"
      /\ Stop(t) \/ Then(t, <<d, e>>)
  BY DEF FindToShow, AtLocked, At
<1>2. /\ e.op = "recent" /\ d.op # "load" /\ e.op # "load"
      /\ Head(todo[t]).op \in Enders
  BY <1>1 DEF Step, Enders
<1> HIDE DEF d, e
<1>3. CASE Stop(t)
  BY <1>1, <1>3, StopStops
<1>4. ASSUME Then(t, <<d, e>>) PROVE Pushes(t, {d, e})
  BY <1>1, <1>2, <1>4, TwoArePushed
<1> QED
  BY <1>1, <1>3, <1>4 DEF d, e

LEMMA StopSoundPushes ==
  ASSUME Lists, NEW t \in Threads, StopSound(t)
  PROVE  LET id == Head(todo[t]).id
         IN  /\ todo[t] # <<>> /\ Head(todo[t]).op = "stopSound"
             /\ Pushes(t, {d \in {Step("stopAlertTimer", id)} : alert.id = id})
<1> DEFINE id == Head(todo[t]).id
           d == Step("stopAlertTimer", id)
           c == alert.id = id
<1>1. /\ todo[t] # <<>> /\ Head(todo[t]).op = "stopSound" /\ Then(t, When(c, <<d>>))
  BY DEF StopSound, At
<1>2. d.op = "stopAlertTimer" /\ d.op \notin Enders /\ c \in BOOLEAN
  BY DEF Step, Enders
<1> HIDE DEF d, c
<1>3. Proper(<<d>>) /\ Elements(<<d>>) = {d}
  BY OneIsProper
<1>4. Proper(When(c, <<d>>)) /\ Elements(When(c, <<d>>)) = {x \in {d} : c}
  BY <1>2, <1>3, WhenIsProper
<1> DEFINE s == When(c, <<d>>)
<1> HIDE DEF s
<1>5. Pushes(t, Elements(s))
  BY <1>1, <1>2, <1>4, ThenPushes DEF s
<1>6. Pushes(t, {x \in {d} : c})
  BY <1>4, <1>5 DEF s
<1> QED
  BY <1>1, <1>6 DEF d, c

(* The steps that end in a write. *)
LEMMA WritersPush ==
  ASSUME Lists, NEW t \in Threads, StartTriggerTimer(t) \/ CoverSameNotification(t) \/ Close(t)
  PROVE  todo[t] # <<>> /\ Pushes(t, Writes(Head(todo[t]).id, options))
<1>1. todo[t] # <<>> /\ Then(t, UpdateOrInsert(Head(todo[t]).id, options))
  BY DEF StartTriggerTimer, CoverSameNotification, Close, At
<1> QED
  BY <1>1, UpdateIsPushed

LEMMA SnoozePushes ==
  ASSUME Lists, NEW t \in Threads, Snooze(t)
  PROVE  LET id == Head(todo[t]).id
         IN  /\ todo[t] # <<>> /\ Head(todo[t]).op = "snoozeNow"
             /\ IF id \notin options THEN Pushes(t, {})
                ELSE Pushes(t, Writes(id, options) \cup {Step("recent", NoReminder)})
<1> DEFINE id == Head(todo[t]).id
           e == Step("recent", NoReminder)
           s == UpdateOrInsert(id, options)
<1>1. /\ todo[t] # <<>> /\ Head(todo[t]).op = "snoozeNow"
      /\ IF id \notin options THEN Then(t, <<>>) ELSE Then(t, s \o <<e>>)
  BY DEF Snooze, At
<1>2. e.op = "recent" /\ "snoozeNow" \in Enders
  BY DEF Step, Enders
<1>3. /\ Proper(s) /\ Elements(s) = Writes(id, options)
      /\ \A d \in Elements(s) : d.op = "write" /\ d.op \notin Enders
  BY UpdateIsProper, WritesAre
<1> HIDE DEF e, s
<1>4. Proper(<<e>>) /\ Elements(<<e>>) = {e}
  BY OneIsProper
<1>5. ASSUME id \notin options PROVE Pushes(t, {})
  <2> DEFINE none == <<>>
  <2>1. Proper(none) /\ Elements(none) = {} /\ Then(t, none)
    BY <1>1, <1>5, NoneIsProper
  <2> HIDE DEF none
  <2> QED BY <1>1, <2>1, ThenPushes
<1>6. ASSUME id \in options PROVE Pushes(t, Writes(id, options) \cup {e})
  BY <1>1, <1>2, <1>3, <1>4, <1>6, MoreArePushed
<1> QED
  BY <1>1, <1>5, <1>6 DEF e

LEMMA ShowAllPushes ==
  ASSUME Lists, IsFiniteSet(vector), NEW t \in Threads, ShowActiveReminderExtend(t)
  PROVE  /\ todo[t] # <<>> /\ Head(todo[t]).op = "showAll"
         /\ \E new : /\ Pushes(t, new)
                     /\ new \subseteq ShowSteps(vector, "timer") \cup {Step("unlock", NoReminder)}
<1> DEFINE due == {x \in vector : /\ Valid(x)
                                  /\ reminder[x].trigger = reminder[Head(todo[t]).id].trigger}
<1>1. todo[t] # <<>> /\ Head(todo[t]).op = "showAll"
  BY DEF ShowActiveReminderExtend, AtLocked, At
<1>2. IsFiniteSet(due) /\ due \subseteq vector
  BY FS_Subset
<1>3. PICK order \in Orders(due) :
        IF due = {} THEN Then(t, <<>>)
        ELSE Then(t, Silently(Tail(order), "timer")
                       \o <<ShowStep(order[1], TRUE, "timer"), Step("unlock", NoReminder)>>)
  BY DEF ShowActiveReminderExtend
<1> HIDE DEF due
<1>4. CASE due = {}
  <2> DEFINE none == <<>>
  <2>1. Proper(none) /\ Elements(none) = {} /\ Then(t, none)
    BY <1>3, <1>4, NoneIsProper
  <2> HIDE DEF none
  <2>2. Pushes(t, {})
    BY <1>1, <2>1, ThenPushes
  <2> QED BY <1>1, <2>2
<1>5. CASE due # {}
  <2> DEFINE d == ShowStep(order[1], TRUE, "timer")
             e == Step("unlock", NoReminder)
             rest == Tail(order)
             s == Silently(rest, "timer")
             q == <<d, e>>
  <2>1. /\ Cardinality(due) \in Nat /\ order \in [1 .. Cardinality(due) -> due]
        /\ \A x \in due : \E i \in 1 .. Cardinality(due) : order[i] = x
    BY <1>2, OrdersAre
  <2>2. order[1] \in vector /\ rest \in Seq(vector)
    <3>1. Cardinality(due) > 0 /\ order \in Seq(vector) /\ Len(order) = Cardinality(due)
      BY <1>2, <1>5, <2>1
    <3>2. rest \in Seq(vector) /\ 1 \in DOMAIN order
      BY <3>1
    <3> QED BY <3>1, <3>2
  <2>3. d \in ShowSteps(vector, "timer")
    <3>1. TRUE \in BOOLEAN
      OBVIOUS
    <3> QED BY Zenon, <2>2, <3>1, ShowStepIsOne
  <2>4. d.op = "show" /\ d.op \notin Enders /\ e.op = "unlock" /\ e.op \notin Enders
    BY DEF ShowStep, Step, Enders
  <2> HIDE DEF d, e, rest
  <2>5. Proper(s) /\ Elements(s) \subseteq ShowSteps(vector, "timer")
    <3>1. rest \in Seq(vector)
      BY <2>2
    <3> QED BY Zenon, <3>1, SilentlyIsProper
  <2>6. Proper(q) /\ Elements(q) = {d, e}
    BY <2>4, TwoAreProper
  <2>7. \A x \in Elements(s) : x.op \notin Enders /\ x.op # "load"
    BY <2>5, ShowStepsShow
  <2>8. Then(t, s \o q)
    BY Zenon, <1>3, <1>5 DEF d, e, rest
  <2> HIDE DEF s, q
  <2>9. Pushes(t, Elements(s) \cup Elements(q))
    BY <1>1, <2>4, <2>5, <2>6, <2>7, <2>8, MoreArePushed
  <2>10. Elements(s) \cup Elements(q)
           \subseteq ShowSteps(vector, "timer") \cup {Step("unlock", NoReminder)}
    BY <2>3, <2>5, <2>6 DEF e
  <2> QED BY <1>1, <2>9, <2>10
<1> QED
  BY <1>4, <1>5

LEMMA NothingIsPushed ==
  ASSUME Lists, NEW t \in Threads, todo[t] # <<>>, Then(t, <<>>)
  PROVE  Pushes(t, {})
<1> DEFINE none == <<>>
<1>1. Proper(none) /\ Elements(none) = {} /\ Then(t, none)
  BY NoneIsProper
<1> HIDE DEF none
<1> QED BY <1>1, ThenPushes

LEMMA RecentPushes ==
  ASSUME Lists, NEW t \in Threads, StartRecentReminder(t)
  PROVE  /\ todo[t] # <<>> /\ Head(todo[t]).op = "recent"
         /\ \E next \in Recent \cup {NoReminder}, gone \in SUBSET vector :
              /\ GetRecentReminder(t, next, gone)
              /\ activeReminderId' = IF next = NoReminder THEN NoReminder ELSE activeReminderId
              /\ \/ Pushes(t, {}) /\ UNCHANGED reminder
                 \/ /\ next # NoReminder /\ activeReminderId # NoReminder
                    /\ OnStopActive(activeReminderId)
                    /\ Pushes(t, Writes(activeReminderId, options')
                                   \cup {Step("stopTimer", next), Step("startTimer", next)})
                 \/ /\ next # NoReminder /\ UNCHANGED reminder
                    /\ Pushes(t, {Step("startTimer", next)})
<1>1. todo[t] # <<>> /\ Head(todo[t]).op = "recent"
  BY DEF StartRecentReminder, AtLocked, At
<1>2. PICK next \in Recent \cup {NoReminder}, gone \in SUBSET vector :
        /\ GetRecentReminder(t, next, gone)
        /\ activeReminderId' = IF next = NoReminder THEN NoReminder ELSE activeReminderId
        /\ IF next \in {NoReminder, activeReminderId}
           THEN Then(t, <<>>) /\ UNCHANGED reminder
           ELSE IF activeReminderId # NoReminder
           THEN /\ OnStopActive(activeReminderId)
                /\ Then(t, UpdateOrInsert(activeReminderId, options')
                             \o <<Step("stopTimer", next), Step("startTimer", next)>>)
           ELSE Then(t, <<Step("startTimer", next)>>) /\ UNCHANGED reminder
  BY DEF StartRecentReminder
<1> DEFINE d == Step("stopTimer", next)
           e == Step("startTimer", next)
           s == UpdateOrInsert(activeReminderId, options')
           q == <<d, e>>
<1>3. /\ d.op = "stopTimer" /\ d.op \notin Enders /\ e.op = "startTimer" /\ e.op \notin Enders
      /\ d.op # "load" /\ e.op # "load"
  BY DEF Step, Enders
<1>4. PICK known : known = options'
  OBVIOUS
<1>5. /\ Proper(s) /\ Elements(s) = Writes(activeReminderId, known)
      /\ \A x \in Elements(s) : x.op # "load" /\ x.op \notin Enders
  BY <1>4, UpdateIsProper, WritesAre
<1> HIDE DEF d, e, s
<1>6. Proper(q) /\ Elements(q) = {d, e}
  BY <1>3, TwoAreProper
<1> HIDE DEF q
<1>7. ASSUME Then(t, s \o q) PROVE Pushes(t, Writes(activeReminderId, known) \cup {d, e})
  <2>1. \A x \in Elements(q) : x.op # "load" /\ x.op \notin Enders
    BY <1>3, <1>6
  <2>2. Pushes(t, Elements(s) \cup Elements(q))
    BY <1>1, <1>5, <1>6, <1>7, <2>1, MoreArePushed
  <2> QED BY <1>5, <1>6, <2>2
<1>8. ASSUME Then(t, <<e>>) PROVE Pushes(t, {e})
  BY <1>1, <1>3, <1>8, OneIsPushed
<1>9. ASSUME Then(t, <<>>) PROVE Pushes(t, {})
  BY <1>1, <1>9, NothingIsPushed
<1>10. \/ Pushes(t, {}) /\ UNCHANGED reminder
       \/ /\ next # NoReminder /\ activeReminderId # NoReminder
          /\ OnStopActive(activeReminderId) /\ Pushes(t, Writes(activeReminderId, known) \cup {d, e})
       \/ next # NoReminder /\ UNCHANGED reminder /\ Pushes(t, {e})
  BY <1>2, <1>7, <1>8, <1>9 DEF d, e, s, q
<1> QED
  BY Zenon, <1>1, <1>2, <1>4, <1>10 DEF d, e

LEMMA TerminatesArePushed ==
  ASSUME Lists, NEW t \in Threads, todo[t] # <<>>, NEW id
  PROVE  /\ Then(t, <<Step("cover", id)>>) => Pushes(t, {Step("cover", id)})
         /\ Then(t, <<Step("terminate", id), Step("cover", id)>>)
              => Pushes(t, {Step("terminate", id), Step("cover", id)})
<1> DEFINE d == Step("terminate", id)
           e == Step("cover", id)
<1>1. d.op \notin Enders /\ d.op # "load" /\ e.op \notin Enders /\ e.op # "load"
  BY DEF Step, Enders
<1> HIDE DEF d, e
<1>2. ASSUME Then(t, <<e>>) PROVE Pushes(t, {e})
  BY <1>1, <1>2, OneIsPushed
<1>3. ASSUME Then(t, <<d, e>>) PROVE Pushes(t, {d, e})
  BY <1>1, <1>3, TwoArePushed
<1> QED
  BY <1>2, <1>3 DEF d, e

(* What the step that shows a reminder makes of it. *)
Shown(id, why, plays, answer) ==
  On(Shows, id, OnShow(reminder[id], clock, plays, why = "clock", answer # "refused"))
Told(id, why, plays, answer) ==
  TerminateCurrent([Shown(id, why, plays, answer) EXCEPT !.showed = @ \cup {id}])
Published(id, why, plays, answer) ==
  [Told(id, why, plays, answer) EXCEPT !.panel = @ \cup {Note(reminder[id])}]

LEMMA ShowPushes ==
  ASSUME Lists, NEW t \in Threads, ShowReminder(t)
  PROVE  LET step == Head(todo[t])
             id == step.id
             why == step.why
         IN  /\ todo[t] # <<>> /\ step.op = "show"
             /\ UNCHANGED <<clock, containers, trigger, events, mutex>>
             /\ \E answer \in Answers, plays \in BOOLEAN :
                  \/ id \notin options /\ BecomeShows(Shows) /\ Pushes(t, {})
                  \/ /\ id \in options /\ answer = "refused"
                     /\ BecomeShows(Shown(id, why, plays, answer))
                     /\ Pushes(t, Writes(id, options))
                  \/ /\ id \in options /\ answer = "failed"
                     /\ LET told == Told(id, why, plays, answer)
                        IN  BecomeShows(Unlist(On(told, id, OnShowFail(told.reminder[id])), id))
                     /\ Pushes(t, Writes(id, options))
                  \/ /\ id \in options
                     /\ BecomeShows(Published(id, why, plays, answer))
                     /\ Pushes(t, {Step("cover", id)})
                  \/ /\ id \in options
                     /\ BecomeShows(StartAlertingTimer(
                          PlaySoundAndVibration(Published(id, why, plays, answer), id)))
                     /\ Pushes(t, {Step("cover", id)})
                  \/ /\ id \in options
                     /\ BecomeShows(PlaySoundAndVibration(Published(id, why, plays, answer), id))
                     /\ Pushes(t, {Step("terminate", id), Step("cover", id)})
<1> DEFINE id == Head(todo[t]).id
           why == Head(todo[t]).why
<1>1. todo[t] # <<>> /\ Head(todo[t]).op = "show"
      /\ UNCHANGED <<clock, containers, trigger, events, mutex>>
  BY DEF ShowReminder, At
<1>2. PICK answer \in Answers : \E plays \in BOOLEAN :
        IF id \notin options
        THEN BecomeShows(Shows) /\ Then(t, <<>>)
        ELSE IF answer = "refused"
        THEN /\ BecomeShows(Shown(id, why, plays, answer))
             /\ Then(t, UpdateOrInsert(id, options))
        ELSE IF answer = "failed"
        THEN /\ LET told == Told(id, why, plays, answer)
                IN  BecomeShows(Unlist(On(told, id, OnShowFail(told.reminder[id])), id))
             /\ Then(t, UpdateOrInsert(id, options))
        ELSE IF ~plays
        THEN BecomeShows(Published(id, why, plays, answer)) /\ Then(t, <<Step("cover", id)>>)
        ELSE IF why = "timer"
        THEN /\ BecomeShows(StartAlertingTimer(
                   PlaySoundAndVibration(Published(id, why, plays, answer), id)))
             /\ Then(t, <<Step("cover", id)>>)
        ELSE /\ BecomeShows(PlaySoundAndVibration(Published(id, why, plays, answer), id))
             /\ Then(t, <<Step("terminate", id), Step("cover", id)>>)
  BY ZenonT(60) DEF ShowReminder, Shown, Told, Published
<1>3. /\ Then(t, <<>>) => Pushes(t, {})
      /\ Then(t, UpdateOrInsert(id, options)) => Pushes(t, Writes(id, options))
      /\ Then(t, <<Step("cover", id)>>) => Pushes(t, {Step("cover", id)})
      /\ Then(t, <<Step("terminate", id), Step("cover", id)>>)
           => Pushes(t, {Step("terminate", id), Step("cover", id)})
  BY Zenon, <1>1, NothingIsPushed, UpdateIsPushed, TerminatesArePushed
<1> HIDE DEF id, why
<1> QED
  BY Zenon, <1>1, <1>2, <1>3 DEF id, why

LEMMA ImmediatelyIsPushed ==
  ASSUME Lists, IsFiniteSet(vector), NEW t \in Threads, todo[t] # <<>>,
         Head(todo[t]).op \in Enders, NEW S \in SUBSET vector, NEW order \in Orders(S), NEW why,
         Then(t, HandleImmediatelyShow(order, why) \o <<Step("recent", NoReminder)>>)
  PROVE  \E new \in SUBSET ShowSteps(vector, why) :
           /\ Pushes(t, new \cup {Step("recent", NoReminder)})
           /\ \A x \in S : \E b \in BOOLEAN : ShowStep(x, b, why) \in new
<1> DEFINE h == HandleImmediatelyShow(order, why)
           e == Step("recent", NoReminder)
           q == <<e>>
<1>1. IsFiniteSet(S)
  BY FS_Subset
<1>2. /\ Cardinality(S) \in Nat /\ order \in [1 .. Cardinality(S) -> S]
      /\ \A x \in S : \E i \in 1 .. Cardinality(S) : order[i] = x
  BY <1>1, OrdersAre
<1>3. /\ Cardinality(S) \in Nat /\ order \in [1 .. Cardinality(S) -> vector]
  BY <1>2
<1>4. /\ Proper(h) /\ Elements(h) \subseteq ShowSteps(vector, why)
      /\ \A i \in 1 .. Cardinality(S) : \E b \in BOOLEAN : ShowStep(order[i], b, why) \in Elements(h)
  BY Zenon, <1>3, ImmediatelyIsProper
<1>5. \A x \in S : \E b \in BOOLEAN : ShowStep(x, b, why) \in Elements(h)
  BY Zenon, <1>2, <1>4
<1>6. \A d \in Elements(h) : d.op # "load" /\ d.op \notin Enders
  BY <1>4, ShowStepsShow
<1>7. e.op # "load"
  BY DEF Step
<1> HIDE DEF h, e
<1>8. Proper(q) /\ Elements(q) = {e}
  BY OneIsProper
<1>9. Then(t, h \o q)
  BY DEF h, e
<1> HIDE DEF q
<1>10. Pushes(t, Elements(h) \cup Elements(q))
  BY <1>4, <1>6, <1>7, <1>8, <1>9, MoreArePushed
<1>11. Pushes(t, Elements(h) \cup {e})
  BY <1>8, <1>10
<1> QED
  BY Zenon, <1>4, <1>5, <1>11 DEF e

LEMMA OverduePushes ==
  ASSUME Lists, IsFiniteSet(vector), NEW t \in Threads, ShowOverdue(t)
  PROVE  /\ todo[t] # <<>> /\ Head(todo[t]).op = "serviceStart"
         /\ \E S \in SUBSET vector, new \in SUBSET ShowSteps(vector, "service") :
              /\ reminder' = [id \in Ids |->
                   IF id \in S /\ reminder[id].kind.type # "timer"
                   THEN [reminder[id] EXCEPT !.snoozesLeft = 0] ELSE reminder[id]]
              /\ Pushes(t, new \cup {Step("recent", NoReminder)})
              /\ \A x \in S : \E b \in BOOLEAN : ShowStep(x, b, "service") \in new
<1>1. todo[t] # <<>> /\ Head(todo[t]).op = "serviceStart" /\ Head(todo[t]).op \in Enders
  BY DEF ShowOverdue, AtLocked, At, Enders
<1> DEFINE due == {id \in vector : ShouldShowImmediately(reminder[id], clock)}
<1>2. PICK S \in SUBSET due : \E order \in Orders(S) :
        /\ reminder' = [id \in Ids |->
             IF id \in S /\ reminder[id].kind.type # "timer"
             THEN [reminder[id] EXCEPT !.snoozesLeft = 0] ELSE reminder[id]]
        /\ Then(t, HandleImmediatelyShow(order, "service") \o <<Step("recent", NoReminder)>>)
  BY DEF ShowOverdue
<1>3. S \in SUBSET vector
  BY <1>2
<1>4. \E new \in SUBSET ShowSteps(vector, "service") :
        /\ Pushes(t, new \cup {Step("recent", NoReminder)})
        /\ \A x \in S : \E b \in BOOLEAN : ShowStep(x, b, "service") \in new
  BY <1>1, <1>2, <1>3, ImmediatelyIsPushed
<1> HIDE DEF due
<1> QED
  BY Zenon, <1>1, <1>2, <1>3, <1>4

LEMMA RefreshPushes ==
  ASSUME Lists, IsFiniteSet(vector), NEW t \in Threads, RefreshReminders(t)
  PROVE  /\ todo[t] # <<>> /\ Head(todo[t]).op = "refresh"
         /\ \E new \in SUBSET ShowSteps(vector, "clock") :
              Pushes(t, new \cup {Step("recent", NoReminder)})
<1>1. todo[t] # <<>> /\ Head(todo[t]).op = "refresh" /\ Head(todo[t]).op \in Enders
  BY DEF RefreshReminders, AtLocked, At, Enders
<1> DEFINE due == {id \in vector : Refreshed(id).show}
<1>2. PICK order \in Orders(due) :
        Then(t, HandleImmediatelyShow(order, "clock") \o <<Step("recent", NoReminder)>>)
  BY Zenon DEF RefreshReminders
<1>3. due \in SUBSET vector
  OBVIOUS
<1> HIDE DEF due
<1>4. \E new \in SUBSET ShowSteps(vector, "clock") :
        /\ Pushes(t, new \cup {Step("recent", NoReminder)})
        /\ \A x \in due : \E b \in BOOLEAN : ShowStep(x, b, "clock") \in new
  BY <1>1, <1>2, <1>3, ImmediatelyIsPushed
<1> QED
  BY Zenon, <1>1, <1>4

(* Calls and events add the steps of their handler. *)
Adds(new) == Lists' /\ Pending' = Pending \cup new

LEMMA OneIsAdded ==
  ASSUME Lists, NEW t \in Threads, todo[t] = <<>>, NEW d, todo' = [todo EXCEPT ![t] = <<d>>],
         d.op = "load" => t = EventThread
  PROVE  Adds({d})
<1> DEFINE s == <<d>>
<1>1. Proper(s) /\ Elements(s) = {d} /\ todo' = [todo EXCEPT ![t] = s]
  BY OneIsProper
<1> HIDE DEF s
<1> QED
  BY <1>1, BeginAdds DEF Adds

LEMMA NoneIsAdded ==
  ASSUME Lists, NEW t \in Threads, todo[t] = <<>>, todo' = [todo EXCEPT ![t] = <<>>]
  PROVE  Adds({})
<1> DEFINE s == <<>>
<1>1. Proper(s) /\ Elements(s) = {} /\ todo' = [todo EXCEPT ![t] = s]
  BY NoneIsProper
<1> HIDE DEF s
<1> QED
  BY <1>1, BeginAdds DEF Adds

LEMMA CancelAllIsAdded ==
  ASSUME Lists, NEW t \in Threads, todo[t] = <<>>, NEW apps,
         todo' = [todo EXCEPT ![t] = <<[op |-> "cancelAll", apps |-> apps],
                                       Step("recent", NoReminder)>>]
  PROVE  Adds({[op |-> "cancelAll", apps |-> apps], Step("recent", NoReminder)})
<1> DEFINE d == [op |-> "cancelAll", apps |-> apps]
           e == Step("recent", NoReminder)
           s == <<d, e>>
<1>1. d.op = "cancelAll" /\ e.op = "recent"
  BY DEF Step
<1>2. todo' = [todo EXCEPT ![t] = s]
  OBVIOUS
<1> HIDE DEF d, e
<1>3. Proper(s) /\ Elements(s) = {d, e}
  BY <1>1, TwoAreProper
<1> HIDE DEF s
<1>4. Adds({d, e})
  BY <1>1, <1>2, <1>3, BeginAdds DEF Adds
<1> QED
  BY <1>4 DEF d, e

LEMMA TimeChangedIsAdded ==
  ASSUME Lists, todo[EventThread] = <<>>, NEW c \in BOOLEAN,
         todo' = [todo EXCEPT ![EventThread] =
                    When(c, <<Step("stopTimer", NoReminder)>>) \o <<Step("refresh", NoReminder)>>]
  PROVE  \E new : /\ Adds(new)
                  /\ new \subseteq {Step("stopTimer", NoReminder), Step("refresh", NoReminder)}
<1> DEFINE d == Step("stopTimer", NoReminder)
           e == Step("refresh", NoReminder)
           s == When(c, <<d>>)
           q == <<e>>
           r == s \o q
<1>1. d.op \notin Enders /\ d.op # "load" /\ e.op # "load"
  BY DEF Step, Enders
<1>2. todo' = [todo EXCEPT ![EventThread] = r] /\ EventThread \in Threads
  BY DEF Threads
<1> HIDE DEF d, e
<1>3. Proper(<<d>>) /\ Elements(<<d>>) = {d} /\ Proper(q) /\ Elements(q) = {e}
  BY OneIsProper
<1>4. Proper(s) /\ Elements(s) = {x \in {d} : c}
  BY <1>3, WhenIsProper
<1> HIDE DEF s, q
<1>5. \A x \in Elements(s) : x.op \notin Enders
  BY <1>1, <1>4
<1>6. Proper(r) /\ Elements(r) = Elements(s) \cup Elements(q)
  BY <1>3, <1>4, <1>5, BothAreProper
<1> HIDE DEF r
<1>7. \A x \in Elements(r) : x \in {d, e} /\ x.op # "load"
  BY <1>1, <1>3, <1>4, <1>6
<1>8. Adds(Elements(r))
  BY <1>2, <1>6, <1>7, BeginAdds DEF Adds
<1>9. Elements(r) \subseteq {d, e}
  BY <1>7
<1> QED
  BY <1>8, <1>9 DEF d, e

----------------------------------------------------------------------------
(* What the helpers make of shows.  A reminder stays one, with the same    *)
(* row; it shows only where it did, and then stays among those showed; the *)
(* panel loses nothing; and a row that changes is that of its reminder.    *)

Carried(f, g) ==
  /\ g = [id \in Ids |-> g[id]]
  /\ \A id \in Ids : f[id] \in Reminders => g[id] \in Reminders /\ Same(f[id], g[id])

Quieter(s, t) ==
  /\ Carried(s.reminder, t.reminder)
  /\ t.rows = [id \in Ids |-> t.rows[id]]
  /\ s.panel \subseteq t.panel
  /\ \A id \in Ids : s.reminder[id] \in Reminders =>
       /\ Row(t.reminder[id]) = Row(s.reminder[id])
       /\ Is(t.reminder[id], "showing") =>
            Is(s.reminder[id], "showing") /\ (id \in s.showed => id \in t.showed)
  /\ \A id \in Ids :
       \/ t.rows[id] = s.rows[id]
       \/ /\ t.reminder[id] \in Reminders /\ t.reminder[id].kind.type # "timer"
          /\ id \in options /\ t.rows[id] = Row(t.reminder[id])

Whole(s) ==
  /\ OneAlertTimer(s)
  /\ s.reminder = [id \in Ids |-> s.reminder[id]]
  /\ s.rows = [id \in Ids |-> s.rows[id]]

(* Where only sound and timers change. *)
SameLists(s, t) ==
  /\ t.reminder = s.reminder /\ t.rows = s.rows
  /\ t.showed = s.showed /\ t.panel = s.panel

LEMMA SameListsAreQuieter ==
  ASSUME NEW s, NEW t, Whole(s), SameLists(s, t)
  PROVE  Quieter(s, t)
  BY DEF Whole, SameLists, Quieter, Carried, Same

LEMMA SameListsAreWhole ==
  ASSUME NEW s, NEW t, Whole(s), SameLists(s, t), OneAlertTimer(t)
  PROVE  Whole(t)
  BY DEF Whole, SameLists

LEMMA QuieterIsTransitive ==
  ASSUME NEW s, NEW t, NEW u, Quieter(s, t), Quieter(t, u)
  PROVE  Quieter(s, u)
<1>1. Carried(s.reminder, u.reminder)
  BY SameIsTransitive DEF Quieter, Carried
<1>2. \A id \in Ids : s.reminder[id] \in Reminders =>
        /\ Row(u.reminder[id]) = Row(s.reminder[id])
        /\ Is(u.reminder[id], "showing") =>
             Is(s.reminder[id], "showing") /\ (id \in s.showed => id \in u.showed)
  BY DEF Quieter, Carried
<1>3. \A id \in Ids :
        \/ u.rows[id] = s.rows[id]
        \/ /\ u.reminder[id] \in Reminders /\ u.reminder[id].kind.type # "timer"
           /\ id \in options /\ u.rows[id] = Row(u.reminder[id])
  <2> TAKE id \in Ids
  <2>1. CASE u.rows[id] = t.rows[id] /\ t.rows[id] # s.rows[id]
    <3>1. /\ t.reminder[id] \in Reminders /\ t.reminder[id].kind.type # "timer"
          /\ id \in options /\ u.rows[id] = Row(t.reminder[id])
      BY <2>1 DEF Quieter
    <3>2. u.reminder[id] \in Reminders /\ u.reminder[id].kind = t.reminder[id].kind
          /\ Row(u.reminder[id]) = Row(t.reminder[id])
      BY <3>1 DEF Quieter, Carried, Same
    <3> QED BY <3>1, <3>2
  <2> QED BY <2>1 DEF Quieter
<1> QED
  BY <1>1, <1>2, <1>3 DEF Quieter

LEMMA StopIsQuieter ==
  ASSUME NEW s, NEW id, Whole(s)
  PROVE  LET t == StopAlertingReminder(s, id)
         IN  /\ SameLists(s, t) /\ Whole(t) /\ Quieter(s, t)
             /\ t.alert.id \in {s.alert.id, NoReminder}
<1> DEFINE q == StopSoundAndVibration(s, id)
           t == StopAlertingReminder(s, id)
<1>1. OneAlertTimer(s) /\ OneAlertTimer(q) /\ OneAlertTimer(t)
  BY StopSoundKeeps, StopAlertingKeeps DEF Whole
<1>2. SameLists(s, q) /\ q.alert.id \in {s.alert.id, NoReminder}
  BY <1>1 DEF StopSoundAndVibration, SameLists, OneAlertTimer
<1> HIDE DEF q
<1>3. LET u == StopAlertingTimer(q)
      IN  SameLists(q, u) /\ u.alert.id \in {q.alert.id, NoReminder}
  BY <1>1 DEF StopAlertingTimer, SameLists, OneAlertTimer
<1>4. t = IF s.alert.id # id THEN s ELSE StopAlertingTimer(q)
  BY DEF StopAlertingReminder, q
<1> HIDE DEF t
<1>5. SameLists(s, t) /\ t.alert.id \in {s.alert.id, NoReminder}
  BY <1>2, <1>3, <1>4 DEF SameLists
<1> QED
  BY <1>1, <1>5, SameListsAreQuieter, SameListsAreWhole DEF t

(* The reminder of an id changes its state. *)
LEMMA OnIsQuieter ==
  ASSUME NEW s, NEW id \in Ids, NEW r \in Reminders, Whole(s), s.reminder[id] \in Reminders,
         Same(s.reminder[id], r), Row(r) = Row(s.reminder[id]),
         Is(r, "showing") => Is(s.reminder[id], "showing")
  PROVE  LET t == On(s, id, r)
         IN  /\ Whole(t) /\ Quieter(s, t) /\ t.reminder[id] = r /\ t.alert = s.alert
             /\ t.rows = s.rows /\ t.showed = s.showed
<1> DEFINE t == On(s, id, r)
           f == [s.reminder EXCEPT ![id] = r]
<1>1. /\ DOMAIN s = {"reminder", "rows", "showed", "panel", "alert", "timers"}
      /\ s.reminder = [x \in Ids |-> s.reminder[x]] /\ s.rows = [x \in Ids |-> s.rows[x]]
  BY DEF Whole, OneAlertTimer
<1>2. /\ t.reminder = f /\ t.rows = s.rows /\ t.showed = s.showed /\ t.panel = s.panel
      /\ t.alert = s.alert
  BY <1>1 DEF On
<1>3. OneAlertTimer(t)
  BY OnKeeps DEF Whole
<1> HIDE DEF t
<1>4. /\ f = [x \in Ids |-> f[x]] /\ f[id] = r /\ \A x \in Ids \ {id} : f[x] = s.reminder[x]
  BY <1>1
<1> HIDE DEF f
<1>5. Whole(t)
  BY <1>1, <1>2, <1>3, <1>4 DEF Whole
<1>6. Carried(s.reminder, t.reminder)
  BY <1>2, <1>4 DEF Carried, Same
<1>7. Quieter(s, t)
  BY <1>1, <1>2, <1>4, <1>6 DEF Quieter
<1> QED
  BY <1>2, <1>4, <1>5, <1>7 DEF t

(* Its row is written, where it has one. *)
LEMMA KeepIsQuieter ==
  ASSUME NEW s, NEW id \in Ids, Whole(s), s.reminder[id] \in Reminders
  PROVE  LET t == Keep(s, id)
         IN  Whole(t) /\ Quieter(s, t) /\ t.alert = s.alert
<1> DEFINE g == [s.rows EXCEPT ![id] = Row(s.reminder[id])]
           t == [s EXCEPT !.rows = g]
<1>1. /\ DOMAIN s = {"reminder", "rows", "showed", "panel", "alert", "timers"}
      /\ s.reminder = [x \in Ids |-> s.reminder[x]] /\ s.rows = [x \in Ids |-> s.rows[x]]
  BY DEF Whole, OneAlertTimer
<1>2. /\ t.rows = g /\ t.reminder = s.reminder /\ t.showed = s.showed /\ t.panel = s.panel
      /\ t.alert = s.alert /\ t.timers = s.timers /\ DOMAIN t = DOMAIN s
  BY <1>1
<1>3. Keep(s, id) = IF id \in options /\ s.reminder[id].kind.type # "timer" THEN t ELSE s
  BY DEF Keep
<1> HIDE DEF t
<1>4. g = [x \in Ids |-> g[x]] /\ g[id] = Row(s.reminder[id])
      /\ \A x \in Ids \ {id} : g[x] = s.rows[x]
  BY <1>1
<1> HIDE DEF g
<1>5. Whole(t)
  BY <1>1, <1>2, <1>4 DEF Whole, OneAlertTimer
<1>6. id \in options /\ s.reminder[id].kind.type # "timer" => Quieter(s, t)
  BY <1>1, <1>2, <1>4 DEF Quieter, Carried, Same
<1>7. Quieter(s, s)
  BY SameListsAreQuieter DEF SameLists
<1> QED
  BY <1>2, <1>3, <1>5, <1>6, <1>7

LEMMA PublishIsQuieter ==
  ASSUME NEW s, NEW note, Whole(s)
  PROVE  LET t == [s EXCEPT !.panel = @ \cup {note}]
         IN  /\ Whole(t) /\ Quieter(s, t) /\ t.alert = s.alert /\ t.reminder = s.reminder
             /\ t.rows = s.rows /\ t.showed = s.showed /\ t.panel = s.panel \cup {note}
<1> DEFINE t == [s EXCEPT !.panel = @ \cup {note}]
<1>1. /\ DOMAIN s = {"reminder", "rows", "showed", "panel", "alert", "timers"}
  BY DEF Whole, OneAlertTimer
<1>2. /\ t.rows = s.rows /\ t.reminder = s.reminder /\ t.showed = s.showed
      /\ t.panel = s.panel \cup {note}
      /\ t.alert = s.alert /\ t.timers = s.timers /\ DOMAIN t = DOMAIN s
  BY <1>1
<1> HIDE DEF t
<1>3. Whole(t)
  BY <1>1, <1>2 DEF Whole, OneAlertTimer
<1>4. Quieter(s, t)
  BY <1>2 DEF Quieter, Carried, Same, Whole
<1> QED
  BY <1>2, <1>3, <1>4 DEF t

LEMMA TerminateIsQuieter ==
  ASSUME NEW s, NEW id \in Ids, Whole(s), s.reminder[id] \in Reminders
  PROVE  LET t == TerminateAlerting(s, id)
         IN  Whole(t) /\ Quieter(s, t) /\ t.alert.id \in {s.alert.id, NoReminder}
<1> DEFINE r == s.reminder[id]
           q == OnTerminate(r)
           stopped == StopAlertingReminder(s, id)
           ended == On(stopped, id, q)
           shown == [ended EXCEPT !.panel = @ \cup {Note(r)}]
           kept == Keep(shown, id)
<1>1. /\ SameLists(s, stopped) /\ Whole(stopped) /\ Quieter(s, stopped)
      /\ stopped.alert.id \in {s.alert.id, NoReminder}
  BY StopIsQuieter
<1>2. /\ q \in Reminders /\ Same(r, q) /\ Row(q) = Row(r)
      /\ Is(q, "showing") => Is(r, "showing")
  BY StateChanges
<1>3. TerminateAlerting(s, id) \in {stopped, ended, kept}
  BY Zenon DEF TerminateAlerting
<1> HIDE DEF stopped, q
<1>4. stopped.reminder[id] = r
  BY <1>1 DEF SameLists
<1>5. /\ Whole(ended) /\ Quieter(stopped, ended) /\ ended.alert = stopped.alert
      /\ ended.reminder[id] = q
  BY <1>1, <1>2, <1>4, OnIsQuieter
<1> HIDE DEF ended
<1>6. Whole(shown) /\ Quieter(ended, shown) /\ shown.alert = ended.alert
      /\ shown.reminder = ended.reminder
  BY <1>5, PublishIsQuieter
<1> HIDE DEF shown
<1>7. Whole(kept) /\ Quieter(shown, kept) /\ kept.alert = shown.alert
  BY <1>2, <1>5, <1>6, KeepIsQuieter
<1> HIDE DEF kept, r
<1>8. Quieter(s, ended) /\ Quieter(s, kept)
  BY <1>1, <1>5, <1>6, <1>7, QuieterIsTransitive
<1> QED
  BY <1>1, <1>3, <1>5, <1>6, <1>7, <1>8

LEMMA TerminateCurrentIsQuieter ==
  ASSUME NEW s, Whole(s),
         s.alert.id # NoReminder => s.alert.id \in Ids /\ s.reminder[s.alert.id] \in Reminders
  PROVE  LET t == TerminateCurrent(s)
         IN  Whole(t) /\ Quieter(s, t) /\ t.alert.id \in {s.alert.id, NoReminder}
<1>1. Quieter(s, s)
  BY SameListsAreQuieter DEF SameLists
<1> QED
  BY <1>1, TerminateIsQuieter DEF TerminateCurrent

LEMMA PlayIsQuieter ==
  ASSUME NEW s, NEW id, Whole(s),
         s.alert.id # NoReminder => s.alert.id \in Ids /\ s.reminder[s.alert.id] \in Reminders
  PROVE  LET t == PlaySoundAndVibration(s, id)
         IN  Whole(t) /\ Quieter(s, t) /\ t.alert.id = id
<1> DEFINE ended == TerminateCurrent(s)
           t == PlaySoundAndVibration(s, id)
<1>1. Whole(ended) /\ Quieter(s, ended)
  BY TerminateCurrentIsQuieter
<1>2. t = [ended EXCEPT !.alert.sound = id, !.alert.id = id]
  BY DEF PlaySoundAndVibration
<1> HIDE DEF ended
<1>3. SameLists(ended, t) /\ t.alert.id = id
  BY <1>1, <1>2 DEF SameLists, Whole, OneAlertTimer
<1>4. OneAlertTimer(t)
  BY PlayKeeps DEF Whole
<1> HIDE DEF t
<1>5. Whole(t) /\ Quieter(ended, t)
  BY <1>1, <1>3, <1>4, SameListsAreQuieter, SameListsAreWhole
<1> QED
  BY <1>1, <1>3, <1>5, QuieterIsTransitive DEF t

LEMMA StartTimerIsQuieter ==
  ASSUME NEW s, Whole(s)
  PROVE  LET t == StartAlertingTimer(s)
         IN  Whole(t) /\ Quieter(s, t) /\ t.alert.id = s.alert.id
<1> DEFINE t == StartAlertingTimer(s)
<1>1. SameLists(s, t) /\ t.alert.id = s.alert.id
  BY DEF StartAlertingTimer, SameLists, Whole, OneAlertTimer
<1>2. OneAlertTimer(t)
  BY StartTimerKeeps DEF Whole
<1> HIDE DEF t
<1> QED
  BY <1>1, <1>2, SameListsAreQuieter, SameListsAreWhole DEF t

LEMMA StopSoundIsQuieter ==
  ASSUME NEW s, NEW id, Whole(s)
  PROVE  LET t == StopSoundAndVibration(s, id)
         IN  Whole(t) /\ Quieter(s, t) /\ t.alert.id \in {s.alert.id, NoReminder}
<1> DEFINE t == StopSoundAndVibration(s, id)
<1>1. SameLists(s, t) /\ t.alert.id \in {s.alert.id, NoReminder}
  BY DEF StopSoundAndVibration, SameLists, Whole, OneAlertTimer
<1>2. OneAlertTimer(t)
  BY StopSoundKeeps DEF Whole
<1> HIDE DEF t
<1> QED
  BY <1>1, <1>2, SameListsAreQuieter, SameListsAreWhole DEF t

LEMMA StopTimerIsQuieter ==
  ASSUME NEW s, Whole(s)
  PROVE  LET t == StopAlertingTimer(s)
         IN  Whole(t) /\ Quieter(s, t) /\ t.alert.id \in {s.alert.id, NoReminder}
<1> DEFINE t == StopAlertingTimer(s)
<1>1. SameLists(s, t) /\ t.alert.id \in {s.alert.id, NoReminder}
  BY DEF StopAlertingTimer, SameLists, Whole, OneAlertTimer
<1>2. OneAlertTimer(t)
  BY StopTimerKeeps DEF Whole
<1> HIDE DEF t
<1> QED
  BY <1>1, <1>2, SameListsAreQuieter, SameListsAreWhole DEF t

LEMMA CoverIsQuieter ==
  ASSUME NEW s, NEW id, Whole(s), vector \subseteq Ids,
         \A x \in vector : s.reminder[x] \in Reminders
  PROVE  LET t == HandleSameNotificationIdShowing(s, id)
         IN  Whole(t) /\ Quieter(s, t) /\ t.alert.id \in {s.alert.id, NoReminder}
<1> DEFINE covered == {x \in vector \ {id} : /\ Is(s.reminder[x], "showing")
                                             /\ {x, id} \subseteq options
                                             /\ Note(s.reminder[x]) = Note(s.reminder[id])}
           stopped == IF s.alert.id \in covered /\ Is(s.reminder[s.alert.id], "alerting")
                      THEN StopAlertingReminder(s, s.alert.id) ELSE s
           f == [x \in Ids |-> IF x \in covered
                               THEN OnSameNotificationIdCovered(stopped.reminder[x])
                               ELSE stopped.reminder[x]]
           g == [x \in Ids |-> IF x \in covered /\ s.reminder[x].kind.type # "timer"
                               THEN Row(s.reminder[x]) ELSE stopped.rows[x]]
           t == HandleSameNotificationIdShowing(s, id)
<1>1. /\ SameLists(s, stopped) /\ OneAlertTimer(stopped)
      /\ stopped.alert.id \in {s.alert.id, NoReminder}
  <2>1. LET q == StopAlertingReminder(s, s.alert.id)
        IN  SameLists(s, q) /\ Whole(q) /\ q.alert.id \in {s.alert.id, NoReminder}
    BY StopIsQuieter
  <2>2. SameLists(s, s) /\ OneAlertTimer(s)
    BY DEF SameLists, Whole
  <2> HIDE DEF covered
  <2> QED BY <2>1, <2>2 DEF Whole
<1>2. t = [stopped EXCEPT !.reminder = f, !.showed = @ \ covered, !.rows = g]
  BY DEF HandleSameNotificationIdShowing
<1>3. covered \subseteq vector \cap options
  OBVIOUS
<1> HIDE DEF covered, stopped, f, g, t
<1>4. /\ t.reminder = f /\ t.rows = g /\ t.showed = s.showed \ covered /\ t.panel = s.panel
      /\ t.alert = stopped.alert /\ t.timers = stopped.timers /\ DOMAIN t = DOMAIN stopped
  BY <1>1, <1>2 DEF OneAlertTimer, SameLists
<1>5. /\ f = [x \in Ids |-> f[x]]
      /\ \A x \in Ids : f[x] = IF x \in covered THEN OnSameNotificationIdCovered(s.reminder[x])
                               ELSE s.reminder[x]
  BY <1>1 DEF f, SameLists
<1>6. /\ g = [x \in Ids |-> g[x]]
      /\ \A x \in Ids : g[x] = IF x \in covered /\ s.reminder[x].kind.type # "timer"
                               THEN Row(s.reminder[x]) ELSE s.rows[x]
  BY <1>1 DEF g, SameLists
<1>7. Whole(t)
  BY <1>1, <1>4, <1>5, <1>6 DEF Whole, OneAlertTimer
<1>8. \A x \in covered :
        /\ s.reminder[x] \in Reminders /\ x \in Ids
        /\ f[x] \in Reminders /\ Same(s.reminder[x], f[x]) /\ Row(f[x]) = Row(s.reminder[x])
        /\ ~Is(f[x], "showing")
  <2> TAKE x \in covered
  <2>1. s.reminder[x] \in Reminders /\ x \in Ids
    BY <1>3
  <2> QED BY <1>5, <2>1, StateChanges
<1>9. Carried(s.reminder, t.reminder)
  <2>1. ASSUME NEW x \in Ids, s.reminder[x] \in Reminders
        PROVE  f[x] \in Reminders /\ Same(s.reminder[x], f[x])
    <3>1. CASE x \in covered
      BY <1>8, <3>1
    <3>2. CASE x \notin covered
      BY <1>5, <2>1, <3>2 DEF Same
    <3> QED BY <3>1, <3>2
  <2> QED BY <1>4, <1>5, <2>1 DEF Carried
<1>10. \A x \in Ids : s.reminder[x] \in Reminders =>
         /\ Row(t.reminder[x]) = Row(s.reminder[x])
         /\ Is(t.reminder[x], "showing") =>
              Is(s.reminder[x], "showing") /\ (x \in s.showed => x \in t.showed)
  <2> TAKE x \in Ids
  <2>1. CASE x \in covered
    BY <1>4, <1>8, <2>1
  <2>2. CASE x \notin covered
    BY <1>4, <1>5, <2>2
  <2> QED BY <2>1, <2>2
<1>11. \A x \in Ids :
         \/ t.rows[x] = s.rows[x]
         \/ /\ t.reminder[x] \in Reminders /\ t.reminder[x].kind.type # "timer"
            /\ x \in options /\ t.rows[x] = Row(t.reminder[x])
  <2> TAKE x \in Ids
  <2>1. CASE x \in covered /\ s.reminder[x].kind.type # "timer"
    <3>1. f[x] \in Reminders /\ f[x].kind = s.reminder[x].kind /\ g[x] = Row(f[x])
      BY <1>6, <1>8, <2>1 DEF Same
    <3> QED BY <1>3, <1>4, <2>1, <3>1
  <2>2. CASE ~(x \in covered /\ s.reminder[x].kind.type # "timer")
    BY <1>4, <1>6, <2>2
  <2> QED BY <2>1, <2>2
<1> QED
  BY <1>1, <1>4, <1>6, <1>7, <1>9, <1>10, <1>11 DEF Quieter, t

----------------------------------------------------------------------------
(* Types.  The reminders that were given an id stay reminders of the same  *)
(* application, notification and kind; every step that is to do is about   *)
(* one of them, and the database is loaded before there are any.           *)

Given == {id \in Ids : id <= lastId /\ reminder[id] \in Reminders}

Named == {"write", "startTimer", "show", "cover", "terminate", "closeNow",
          "snoozeNow", "remove"}

Doable(d) ==
  /\ d.op \in Named => d.id \in Given
  /\ d.op = "write" => reminder[d.id].kind.type # "timer"
  /\ d.op \in {"check", "save"} => ready /\ d.new \in News
  /\ d.op = "load" => ~ready

Formed == Listed /\ OneAlertTimer(Shows)

Types ==
  /\ Formed /\ Lists
  /\ clock \in Clocks
  /\ ready \in BOOLEAN /\ (ready \/ lastId = 0)
  /\ reminder = [id \in Ids |-> reminder[id]]
  /\ rows \in [Ids -> Rows \cup {NoRow}]
  /\ vector \subseteq Given
  /\ {activeReminderId, alert.id} \subseteq Given \cup {NoReminder}
  /\ \A d \in Pending : Doable(d)

(* What ShowingIsOnPanel says, while handlers are under way too. *)
OnPanel ==
  \A id \in vector :
    Is(reminder[id], "showing") => Note(reminder[id]) \in panel /\ id \in showed

LEMMA ShowsAre ==
  /\ Shows.reminder = reminder /\ Shows.rows = rows /\ Shows.showed = showed
  /\ Shows.panel = panel /\ Shows.alert = alert /\ Shows.timers = timers
  BY DEF Shows

LEMMA ShowsAreWhole ==
  ASSUME Types
  PROVE  Whole(Shows)
  BY ShowsAre DEF Types, Formed, Whole

LEMMA GivenStay ==
  ASSUME lastId' = lastId, Carried(reminder, reminder')
  PROVE  /\ Given \subseteq Given'
         /\ \A id \in Given : Same(reminder[id], reminder'[id])
  BY DEF Given, Carried

LEMMA DoableStay ==
  ASSUME lastId' = lastId, Carried(reminder, reminder'), ready' = ready,
         NEW d, Doable(d)
  PROVE  Doable(d)'
<1>1. /\ Given \subseteq Given'
      /\ \A id \in Given : reminder'[id].kind = reminder[id].kind
  BY GivenStay DEF Same
<1>2. d.op \in Named => d.id \in Given'
  BY <1>1 DEF Doable
<1>3. d.op = "write" => reminder'[d.id].kind.type # "timer"
  BY <1>1 DEF Doable, Named
<1> QED
  BY <1>2, <1>3 DEF Doable

LEMMA TypesStay ==
  ASSUME Types, Formed', Lists', clock' \in Clocks, ready' = ready, lastId' = lastId,
         Carried(reminder, reminder'), rows' \in [Ids -> Rows \cup {NoRow}],
         vector' \subseteq vector,
         {activeReminderId', alert'.id} \subseteq Given \cup {NoReminder},
         \A d \in Pending' : d \in Pending \/ Doable(d)
  PROVE  Types'
<1>1. Given \subseteq Given'
  BY GivenStay
<1>2. \A d \in Pending' : Doable(d)
  BY DEF Types
<1>3. \A d \in Pending' : Doable(d)'
  BY <1>2, DoableStay
<1>4. vector' \subseteq Given' /\ {activeReminderId', alert'.id} \subseteq Given' \cup {NoReminder}
  BY <1>1 DEF Types
<1>5. reminder' = [id \in Ids |-> reminder'[id]]
  BY DEF Carried
<1>6. ready' \in BOOLEAN /\ (ready' \/ lastId' = 0)
  BY DEF Types
<1> QED
  BY <1>3, <1>4, <1>5, <1>6 DEF Types

(* A step whose shows are quieter. *)
LEMMA QuietStep ==
  ASSUME Types, Formed', Lists', clock' \in Clocks, ready' = ready, lastId' = lastId,
         Quieter(Shows, Shows'), vector' \subseteq vector,
         {activeReminderId', alert'.id} \subseteq Given \cup {NoReminder},
         \A d \in Pending' : d \in Pending \/ Doable(d)
  PROVE  Types' /\ (OnPanel => OnPanel')
<1>1. /\ Carried(reminder, reminder') /\ rows' = [id \in Ids |-> rows'[id]]
      /\ panel \subseteq panel'
      /\ \A id \in Ids : reminder[id] \in Reminders /\ Is(reminder'[id], "showing") =>
           Is(reminder[id], "showing") /\ (id \in showed => id \in showed')
      /\ \A id \in Ids :
           \/ rows'[id] = rows[id]
           \/ /\ reminder'[id] \in Reminders /\ reminder'[id].kind.type # "timer"
              /\ rows'[id] = Row(reminder'[id])
  BY DEF Quieter, Shows
<1>2. rows' \in [Ids -> Rows \cup {NoRow}]
  <2>1. \A id \in Ids : rows'[id] \in Rows \cup {NoRow}
    BY <1>1, RowIsKept DEF Types
  <2> QED BY <1>1, <2>1
<1>3. Types'
  BY <1>1, <1>2, TypesStay
<1>4. OnPanel => OnPanel'
  <2>1. \A id \in vector' : id \in vector /\ id \in Given /\ id \in Ids /\ reminder[id] \in Reminders
    BY DEF Types, Given
  <2>2. \A id \in vector' : Note(reminder'[id]) = Note(reminder[id])
    BY <1>1, <2>1 DEF Carried, Same, Note
  <2> QED BY <1>1, <2>1, <2>2 DEF OnPanel
<1> QED
  BY <1>3, <1>4

LEMMA BecomeIsQuieter ==
  ASSUME NEW s, BecomeShows(s), Quieter(Shows, s)
  PROVE  Quieter(Shows, Shows')
  BY DEF BecomeShows, Quieter, Shows

(* The shows stay, but for timers. *)
LEMMA SameIsQuieter ==
  ASSUME Types, UNCHANGED <<reminder, rows, showed, panel>>
  PROVE  Quieter(Shows, Shows')
  BY DEF Types, Quieter, Shows, Carried, Same

LEMMA PushedAreDoable ==
  ASSUME Lists, NEW t \in Threads, todo[t] # <<>>, NEW new, Stops(t) \/ Pushes(t, new)
  PROVE  Lists' /\ \A d \in Pending' : d \in Pending \/ d \in new
  BY HeadIsPending DEF Stops, Pushes

(* Which steps are doable. *)
Plain == {"recent", "cancel", "cancelAll", "alarm", "timeout", "close", "snooze", "unlock",
          "userSwitched", "refresh", "serviceStart", "showAll", "stopTimer", "stopSound",
          "stopAlertTimer"}

LEMMA PlainAreDoable ==
  ASSUME NEW d, d.op \in Plain
  PROVE  Doable(d)
<1>1. d.op \notin Named /\ d.op # "write" /\ d.op # "check" /\ d.op # "save" /\ d.op # "load"
  BY DEF Plain, Named
<1> QED
  BY <1>1 DEF Doable

LEMMA NamedAreDoable ==
  ASSUME NEW d, d.id \in Given, d.op \in Named \ {"write"}
  PROVE  Doable(d)
<1>1. d.op # "write" /\ d.op # "check" /\ d.op # "save" /\ d.op # "load"
  BY DEF Named
<1> QED
  BY <1>1 DEF Doable

LEMMA WritesAreDoable ==
  ASSUME NEW id \in Given, NEW known, NEW d \in Writes(id, known)
  PROVE  Doable(d)
<1>1. d.id = id /\ d.op = "write" /\ reminder[id].kind.type # "timer"
  BY DEF Writes, Step
<1> QED
  BY <1>1 DEF Doable

LEMMA ShowsAreDoable ==
  ASSUME vector \subseteq Given, NEW why, NEW d \in ShowSteps(vector, why)
  PROVE  Doable(d)
<1>1. d.op = "show" /\ d.id \in Given
  BY ShowStepsShow
<1> QED
  BY <1>1, NamedAreDoable DEF Named

LEMMA HaltsAreDoable ==
  ASSUME NEW id, NEW d \in Halts(id)
  PROVE  Doable(d)
<1>1. d.op \in Plain
  BY DEF Halts, Step, Plain
<1> QED
  BY <1>1, PlainAreDoable

LEMMA HeadIsDoable ==
  ASSUME Types, NEW t \in Threads, todo[t] # <<>>
  PROVE  /\ Doable(Head(todo[t]))
         /\ Head(todo[t]).op \in Named => /\ Head(todo[t]).id \in Given
                                          /\ Head(todo[t]).id \in Ids
                                          /\ reminder[Head(todo[t]).id] \in Reminders
<1>1. Head(todo[t]) \in Pending
  BY HeadIsPending DEF Types
<1>2. Doable(Head(todo[t]))
  BY <1>1 DEF Types
<1> QED
  BY <1>2 DEF Doable, Given

(* One reminder changes its state. *)
LEMMA OneIsQuieter ==
  ASSUME Types, NEW id \in Given, NEW r \in Reminders, Same(reminder[id], r),
         Row(r) = Row(reminder[id]), Is(r, "showing") => Is(reminder[id], "showing"),
         reminder' = [reminder EXCEPT ![id] = r], UNCHANGED <<rows, showed, panel>>
  PROVE  Quieter(Shows, Shows')
<1>1. /\ id \in Ids /\ reminder = [x \in Ids |-> reminder[x]] /\ rows = [x \in Ids |-> rows[x]]
  BY DEF Types, Given
<1>2. reminder' = [x \in Ids |-> IF x = id THEN r ELSE reminder[x]]
  BY <1>1
<1>3. /\ reminder' = [x \in Ids |-> reminder'[x]] /\ reminder'[id] = r
      /\ \A x \in Ids \ {id} : reminder'[x] = reminder[x]
  BY <1>1, <1>2
<1>4. Carried(reminder, reminder')
  BY <1>3 DEF Carried, Same
<1> QED
  BY <1>1, <1>3, <1>4 DEF Quieter, Shows

LEMMA StopActiveIsQuieter ==
  ASSUME Types, NEW id, OnStopActive(id), UNCHANGED <<rows, showed, panel>>
  PROVE  Quieter(Shows, Shows')
<1>1. CASE UNCHANGED reminder
  BY <1>1, SameIsQuieter
<1>2. CASE ~UNCHANGED reminder
  <2>1. id \in Given /\ reminder' = [reminder EXCEPT ![id] = OnStop(reminder[id])]
    BY <1>2 DEF OnStopActive, Types
  <2>2. reminder[id] \in Reminders
    BY <2>1 DEF Given
  <2>3. LET r == OnStop(reminder[id])
        IN  /\ r \in Reminders /\ Same(reminder[id], r) /\ Row(r) = Row(reminder[id])
            /\ Is(r, "showing") => Is(reminder[id], "showing")
    BY <2>2, StateChanges
  <2> QED BY <2>1, <2>3, OneIsQuieter
<1> QED
  BY <1>1, <1>2

(* Steps that change no shows but the timers, steps that end the sound or  *)
(* the showing of a reminder, and steps that change whether one is active. *)
StillStep(t) ==
  \/ CheckLimit(t) \/ StopTriggerTimer(t) \/ Unlock(t) \/ FindToShow(t)
  \/ ShowActiveReminderExtend(t)
HushStep(t) ==
  \/ StopSound(t) \/ StopAlertTimer(t) \/ CoverSameNotification(t) \/ Terminate(t)
  \/ FindToTerminate(t) \/ TerminateForUser(t)
FlagStep(t) ==
  FindToCancel(t) \/ FindToClose(t) \/ FindToSnooze(t) \/ StartTriggerTimer(t)

LEMMA StillIsQuieter ==
  ASSUME Types, NEW t \in Threads, StillStep(t)
  PROVE  /\ Quieter(Shows, Shows') /\ UNCHANGED <<clock, containers, events, alert>>
         /\ activeReminderId' \in {activeReminderId, NoReminder}
<1>1. /\ UNCHANGED <<clock, containers, events, reminder, rows, showed, panel, alert>>
      /\ activeReminderId' \in {activeReminderId, NoReminder}
  BY DEF StillStep, CheckLimit, StopTriggerTimer, Unlock, FindToShow,
     ShowActiveReminderExtend, shows, trigger
<1> QED
  BY <1>1, SameIsQuieter

LEMMA StillStepsKeepTypes ==
  ASSUME Types, Formed', NEW t \in Threads, StillStep(t)
  PROVE  Types' /\ (OnPanel => OnPanel')
<1>1. /\ Quieter(Shows, Shows') /\ UNCHANGED <<clock, ready, lastId, vector, alert>>
      /\ activeReminderId' \in {activeReminderId, NoReminder}
  BY StillIsQuieter DEF containers
<1>2. Lists' /\ \A d \in Pending' : d \in Pending \/ Doable(d)
  <2>1. CASE CheckLimit(t)
    <3> DEFINE d == [op |-> "save", new |-> Head(todo[t]).new]
               e == Step("recent", NoReminder)
    <3>1. todo[t] # <<>> /\ Head(todo[t]).op = "check" /\ (Stops(t) \/ Pushes(t, {d, e}))
      BY <2>1, CheckPushes DEF Types
    <3>2. Doable(e)
      BY PlainAreDoable DEF Step, Plain
    <3>3. ready /\ Head(todo[t]).new \in News
      BY <3>1, HeadIsDoable DEF Doable
    <3>4. Doable(d)
      BY <3>3 DEF Doable, Named
    <3> HIDE DEF d, e
    <3> QED BY <3>1, <3>2, <3>4, PushedAreDoable DEF Types
  <2>2. CASE StopTriggerTimer(t) \/ Unlock(t)
    BY <2>2, QuietStepsPush, PushedAreDoable DEF Types
  <2>3. CASE FindToShow(t)
    <3> DEFINE d == Step("showAll", Head(todo[t]).id)
               e == Step("recent", NoReminder)
    <3>1. todo[t] # <<>> /\ (Stops(t) \/ Pushes(t, {d, e}))
      BY <2>3, FindToShowPushes DEF Types
    <3>2. Doable(d) /\ Doable(e)
      BY PlainAreDoable DEF Step, Plain
    <3> HIDE DEF d, e
    <3> QED BY <3>1, <3>2, PushedAreDoable DEF Types
  <2>4. CASE ShowActiveReminderExtend(t)
    <3>1. IsFiniteSet(vector)
      BY IdsAreFinite, FS_Subset DEF Types, Formed, Listed
    <3>2. todo[t] # <<>> /\ \E new : /\ Pushes(t, new)
                     /\ new \subseteq ShowSteps(vector, "timer") \cup {Step("unlock", NoReminder)}
      BY <2>4, <3>1, ShowAllPushes DEF Types
    <3>3. Doable(Step("unlock", NoReminder)) /\ \A d \in ShowSteps(vector, "timer") : Doable(d)
      BY PlainAreDoable, ShowsAreDoable DEF Step, Plain, Types
    <3> QED BY <3>2, <3>3, PushedAreDoable DEF Types
  <2> QED BY <2>1, <2>2, <2>3, <2>4 DEF StillStep
<1>3. {activeReminderId', alert'.id} \subseteq Given \cup {NoReminder} /\ clock' \in Clocks
  BY <1>1 DEF Types
<1> QED
  BY <1>1, <1>2, <1>3, QuietStep

LEMMA HushIsQuieter ==
  ASSUME Types, NEW t \in Threads, HushStep(t)
  PROVE  /\ Quieter(Shows, Shows') /\ alert'.id \in {alert.id, NoReminder}
         /\ UNCHANGED <<clock, containers, trigger, events>>
<1> DEFINE id == Head(todo[t]).id
<1>1. Whole(Shows)
  BY ShowsAreWhole
<1>2. UNCHANGED <<clock, containers, trigger, events>>
  BY DEF HushStep, StopSound, StopAlertTimer, CoverSameNotification, Terminate,
     FindToTerminate, TerminateForUser
<1>3. ASSUME NEW s, BecomeShows(s), Quieter(Shows, s), s.alert.id \in {alert.id, NoReminder}
      PROVE  Quieter(Shows, Shows') /\ alert'.id \in {alert.id, NoReminder}
  BY <1>3, BecomeIsQuieter DEF BecomeShows
<1>4. Quieter(Shows, Shows)
  BY <1>1, SameListsAreQuieter DEF SameLists
<1>5. CASE StopSound(t)
  <2>1. LET s == StopSoundAndVibration(Shows, id)
        IN  Quieter(Shows, s) /\ s.alert.id \in {alert.id, NoReminder}
    BY <1>1, StopSoundIsQuieter, ShowsAre
  <2>2. BecomeShows(StopSoundAndVibration(Shows, id))
    BY <1>5 DEF StopSound
  <2> QED BY <1>2, <1>3, <2>1, <2>2
<1>6. CASE StopAlertTimer(t)
  <2>1. LET s == StopAlertingTimer(Shows)
        IN  Quieter(Shows, s) /\ s.alert.id \in {alert.id, NoReminder}
    BY <1>1, StopTimerIsQuieter, ShowsAre
  <2>2. BecomeShows(StopAlertingTimer(Shows))
    BY <1>6 DEF StopAlertTimer
  <2> QED BY <1>2, <1>3, <2>1, <2>2
<1>7. CASE CoverSameNotification(t)
  <2>1. vector \subseteq Ids /\ \A x \in vector : Shows.reminder[x] \in Reminders
    BY ShowsAre DEF Types, Given
  <2>2. LET s == HandleSameNotificationIdShowing(Shows, id)
        IN  Quieter(Shows, s) /\ s.alert.id \in {alert.id, NoReminder}
    BY <1>1, <2>1, CoverIsQuieter, ShowsAre
  <2>3. BecomeShows(HandleSameNotificationIdShowing(Shows, id))
    BY <1>7 DEF CoverSameNotification
  <2> QED BY <1>2, <1>3, <2>2, <2>3
<1>8. ASSUME id \in Ids, reminder[id] \in Reminders
      PROVE  LET s == TerminateAlerting(Shows, id)
             IN  Quieter(Shows, s) /\ s.alert.id \in {alert.id, NoReminder}
  BY <1>1, <1>8, TerminateIsQuieter, ShowsAre
<1>9. CASE Terminate(t)
  <2>1. todo[t] # <<>> /\ Head(todo[t]).op = "terminate"
        /\ BecomeShows(TerminateAlerting(Shows, id))
    BY <1>9 DEF Terminate, At
  <2>2. id \in Ids /\ reminder[id] \in Reminders
    BY <2>1, HeadIsDoable DEF Named
  <2> QED BY <1>2, <1>3, <1>8, <2>1, <2>2
<1>10. CASE FindToTerminate(t)
  <2>1. BecomeShows(IF id \in vector THEN TerminateAlerting(Shows, id) ELSE Shows)
    BY <1>10 DEF FindToTerminate
  <2>2. id \in vector => id \in Ids /\ reminder[id] \in Reminders
    BY DEF Types, Given
  <2>3. CASE id \in vector
    BY <1>2, <1>3, <1>8, <2>1, <2>2, <2>3
  <2>4. CASE id \notin vector
    BY <1>2, <1>3, <1>4, <2>1, <2>4, ShowsAre
  <2> QED BY <2>3, <2>4
<1>11. CASE TerminateForUser(t)
  <2>1. alert.id # NoReminder => alert.id \in Ids /\ reminder[alert.id] \in Reminders
    BY DEF Types, Given
  <2>2. LET s == TerminateCurrent(Shows)
        IN  Quieter(Shows, s) /\ s.alert.id \in {alert.id, NoReminder}
    BY <1>1, <2>1, TerminateCurrentIsQuieter, ShowsAre
  <2>3. BecomeShows(TerminateCurrent(Shows))
    BY <1>11 DEF TerminateForUser
  <2> QED BY <1>2, <1>3, <2>2, <2>3
<1> QED
  BY <1>5, <1>6, <1>7, <1>9, <1>10, <1>11 DEF HushStep

LEMMA HushStepsKeepTypes ==
  ASSUME Types, Formed', NEW t \in Threads, HushStep(t)
  PROVE  Types' /\ (OnPanel => OnPanel')
<1>1. /\ Quieter(Shows, Shows') /\ alert'.id \in {alert.id, NoReminder}
      /\ UNCHANGED <<clock, ready, lastId, vector, activeReminderId>>
  BY HushIsQuieter DEF containers, trigger
<1>2. Lists' /\ \A d \in Pending' : d \in Pending \/ Doable(d)
  <2>1. CASE StopSound(t)
    <3> DEFINE d == Step("stopAlertTimer", Head(todo[t]).id)
               new == {x \in {d} : alert.id = Head(todo[t]).id}
    <3>1. todo[t] # <<>> /\ Pushes(t, new)
      BY <2>1, StopSoundPushes DEF Types
    <3>2. Doable(d)
      BY PlainAreDoable DEF Step, Plain
    <3>3. \A x \in new : Doable(x)
      BY <3>2
    <3> HIDE DEF new
    <3> QED BY <3>1, <3>3, PushedAreDoable DEF Types
  <2>2. CASE StopAlertTimer(t) \/ Terminate(t) \/ FindToTerminate(t) \/ TerminateForUser(t)
    BY <2>2, QuietStepsPush, PushedAreDoable DEF Types
  <2>3. CASE CoverSameNotification(t)
    <3> DEFINE id == Head(todo[t]).id
    <3>1. todo[t] # <<>> /\ Head(todo[t]).op = "cover" /\ Pushes(t, Writes(id, options))
      BY <2>3, WritersPush DEF Types, CoverSameNotification, At
    <3>2. id \in Given
      BY <3>1, HeadIsDoable DEF Named
    <3>3. \A x \in Writes(id, options) : Doable(x)
      BY <3>2, WritesAreDoable
    <3> QED BY <3>1, <3>3, PushedAreDoable DEF Types
  <2> QED BY <2>1, <2>2, <2>3 DEF HushStep
<1>3. {activeReminderId', alert'.id} \subseteq Given \cup {NoReminder} /\ clock' \in Clocks
  BY <1>1 DEF Types
<1> QED
  BY <1>1, <1>2, <1>3, QuietStep

LEMMA FlagIsQuieter ==
  ASSUME Types, NEW t \in Threads, FlagStep(t)
  PROVE  /\ Quieter(Shows, Shows') /\ UNCHANGED <<clock, containers, events, alert>>
         /\ activeReminderId' \in Given \cup {NoReminder}
<1> DEFINE id == Head(todo[t]).id
<1>1. UNCHANGED <<clock, containers, events, alert, rows, showed, panel>>
  BY DEF FlagStep, FindToCancel, FindToClose, FindToSnooze, StartTriggerTimer
<1>2. CASE FindToCancel(t) \/ FindToClose(t) \/ FindToSnooze(t)
  <2>1. (UNCHANGED reminder \/ OnStopActive(id)) /\ UNCHANGED activeReminderId
    BY <1>2 DEF FindToCancel, FindToClose, FindToSnooze, trigger
  <2> QED BY <1>1, <2>1, SameIsQuieter, StopActiveIsQuieter DEF Types
<1>3. CASE StartTriggerTimer(t)
  <2>1. /\ todo[t] # <<>> /\ Head(todo[t]).op = "startTimer"
        /\ reminder' = [reminder EXCEPT ![id] = OnStart(reminder[id])]
        /\ activeReminderId' \in {activeReminderId, id}
    BY <1>3 DEF StartTriggerTimer, At, trigger
  <2>2. id \in Given /\ reminder[id] \in Reminders
    BY <2>1, HeadIsDoable DEF Named
  <2>3. LET r == OnStart(reminder[id])
        IN  /\ r \in Reminders /\ Same(reminder[id], r) /\ Row(r) = Row(reminder[id])
            /\ Is(r, "showing") => Is(reminder[id], "showing")
    BY <2>2, StateChanges
  <2>4. Quieter(Shows, Shows')
    BY <1>1, <2>1, <2>2, <2>3, OneIsQuieter
  <2> QED BY <1>1, <2>1, <2>2, <2>4 DEF Types
<1> QED
  BY <1>2, <1>3 DEF FlagStep

LEMMA FlagStepsKeepTypes ==
  ASSUME Types, Formed', NEW t \in Threads, FlagStep(t)
  PROVE  Types' /\ (OnPanel => OnPanel')
<1> DEFINE id == Head(todo[t]).id
<1>1. /\ Quieter(Shows, Shows') /\ UNCHANGED <<clock, ready, lastId, vector, alert>>
      /\ activeReminderId' \in Given \cup {NoReminder}
  BY FlagIsQuieter DEF containers
<1>2. Lists' /\ \A d \in Pending' : d \in Pending \/ Doable(d)
  <2>1. CASE FindToCancel(t) \/ FindToClose(t)
    <3> DEFINE e == Step("recent", NoReminder)
    <3>1. /\ todo[t] # <<>>
          /\ \/ Stops(t)
             \/ /\ id \in vector
                /\ \/ Pushes(t, Halts(id) \cup {Step("remove", id), e})
                   \/ Pushes(t, Halts(id) \cup {Step("closeNow", id), e})
      BY <2>1, FindToCancelPushes, FindToClosePushes DEF Types
    <3>2. Doable(e) /\ \A x \in Halts(id) : Doable(x)
      BY PlainAreDoable, HaltsAreDoable DEF Step, Plain
    <3>3. id \in vector => Doable(Step("remove", id)) /\ Doable(Step("closeNow", id))
      BY NamedAreDoable DEF Types, Step, Named
    <3> HIDE DEF e
    <3> QED BY <3>1, <3>2, <3>3, PushedAreDoable DEF Types
  <2>2. CASE FindToSnooze(t)
    <3>1. /\ todo[t] # <<>>
          /\ Stops(t) \/ (id \in vector /\ Pushes(t, Halts(id) \cup {Step("snoozeNow", id)}))
      BY <2>2, FindToSnoozePushes DEF Types
    <3>2. \A x \in Halts(id) : Doable(x)
      BY HaltsAreDoable
    <3>3. id \in vector => Doable(Step("snoozeNow", id))
      BY NamedAreDoable DEF Types, Step, Named
    <3> QED BY <3>1, <3>2, <3>3, PushedAreDoable DEF Types
  <2>3. CASE StartTriggerTimer(t)
    <3>1. todo[t] # <<>> /\ Head(todo[t]).op = "startTimer" /\ Pushes(t, Writes(id, options))
      BY <2>3, WritersPush DEF Types, StartTriggerTimer, At
    <3>2. id \in Given
      BY <3>1, HeadIsDoable DEF Named
    <3>3. \A x \in Writes(id, options) : Doable(x)
      BY <3>2, WritesAreDoable
    <3> QED BY <3>1, <3>3, PushedAreDoable DEF Types
  <2> QED BY <2>1, <2>2, <2>3 DEF FlagStep
<1>3. {activeReminderId', alert'.id} \subseteq Given \cup {NoReminder} /\ clock' \in Clocks
  BY <1>1 DEF Types
<1> QED
  BY <1>1, <1>2, <1>3, QuietStep

(* The same but for one reminder, whose times change too. *)
QuieterBut(id, s, t) ==
  /\ Carried(s.reminder, t.reminder)
  /\ t.rows = [x \in Ids |-> t.rows[x]]
  /\ s.panel \subseteq t.panel
  /\ \A x \in Ids \ {id} : s.reminder[x] \in Reminders =>
       /\ Row(t.reminder[x]) = Row(s.reminder[x])
       /\ Is(t.reminder[x], "showing") =>
            Is(s.reminder[x], "showing") /\ (x \in s.showed => x \in t.showed)
  /\ \A x \in Ids :
       \/ t.rows[x] = s.rows[x]
       \/ /\ t.reminder[x] \in Reminders /\ t.reminder[x].kind.type # "timer"
          /\ x \in options /\ t.rows[x] = Row(t.reminder[x])

LEMMA OnIsQuieterBut ==
  ASSUME NEW s, NEW id \in Ids, NEW r \in Reminders, Whole(s), s.reminder[id] \in Reminders,
         Same(s.reminder[id], r)
  PROVE  LET t == On(s, id, r)
         IN  /\ Whole(t) /\ QuieterBut(id, s, t) /\ t.reminder[id] = r /\ t.alert = s.alert
             /\ t.rows = s.rows /\ t.showed = s.showed /\ t.panel = s.panel
             /\ \A x \in Ids \ {id} : t.reminder[x] = s.reminder[x]
<1> DEFINE t == On(s, id, r)
           f == [s.reminder EXCEPT ![id] = r]
<1>1. /\ DOMAIN s = {"reminder", "rows", "showed", "panel", "alert", "timers"}
      /\ s.reminder = [x \in Ids |-> s.reminder[x]] /\ s.rows = [x \in Ids |-> s.rows[x]]
  BY DEF Whole, OneAlertTimer
<1>2. /\ t.reminder = f /\ t.rows = s.rows /\ t.showed = s.showed /\ t.panel = s.panel
      /\ t.alert = s.alert
  BY <1>1 DEF On
<1>3. OneAlertTimer(t)
  BY OnKeeps DEF Whole
<1> HIDE DEF t
<1>4. /\ f = [x \in Ids |-> f[x]] /\ f[id] = r /\ \A x \in Ids \ {id} : f[x] = s.reminder[x]
  BY <1>1
<1> HIDE DEF f
<1>5. Whole(t)
  BY <1>1, <1>2, <1>3, <1>4 DEF Whole
<1>6. Carried(s.reminder, t.reminder)
  BY <1>2, <1>4 DEF Carried, Same
<1>7. QuieterBut(id, s, t)
  BY <1>1, <1>2, <1>4, <1>6 DEF QuieterBut
<1> QED
  BY <1>2, <1>4, <1>5, <1>7 DEF t

LEMMA ThenQuieter ==
  ASSUME NEW id, NEW s, NEW t, NEW u, QuieterBut(id, s, t), Quieter(t, u)
  PROVE  QuieterBut(id, s, u)
<1>1. Carried(s.reminder, u.reminder)
  BY SameIsTransitive DEF Quieter, QuieterBut, Carried
<1>2. \A x \in Ids \ {id} : s.reminder[x] \in Reminders =>
        /\ Row(u.reminder[x]) = Row(s.reminder[x])
        /\ Is(u.reminder[x], "showing") =>
             Is(s.reminder[x], "showing") /\ (x \in s.showed => x \in u.showed)
  BY DEF Quieter, QuieterBut, Carried
<1>3. \A x \in Ids :
        \/ u.rows[x] = s.rows[x]
        \/ /\ u.reminder[x] \in Reminders /\ u.reminder[x].kind.type # "timer"
           /\ x \in options /\ u.rows[x] = Row(u.reminder[x])
  <2> TAKE x \in Ids
  <2>1. CASE u.rows[x] = t.rows[x] /\ t.rows[x] # s.rows[x]
    <3>1. /\ t.reminder[x] \in Reminders /\ t.reminder[x].kind.type # "timer"
          /\ x \in options /\ u.rows[x] = Row(t.reminder[x])
      BY <2>1 DEF QuieterBut
    <3>2. u.reminder[x] \in Reminders /\ u.reminder[x].kind = t.reminder[x].kind
          /\ Row(u.reminder[x]) = Row(t.reminder[x])
      BY <3>1 DEF Quieter, Carried, Same
    <3> QED BY <3>1, <3>2
  <2> QED BY <2>1 DEF Quieter, QuieterBut
<1> QED
  BY <1>1, <1>2, <1>3 DEF Quieter, QuieterBut

LEMMA ListIsQuieter ==
  ASSUME NEW s, NEW id, Whole(s)
  PROVE  LET t == [s EXCEPT !.showed = @ \cup {id}]
         IN  /\ Whole(t) /\ Quieter(s, t) /\ t.alert = s.alert /\ t.reminder = s.reminder
             /\ t.showed = s.showed \cup {id}
<1> DEFINE t == [s EXCEPT !.showed = @ \cup {id}]
<1>1. DOMAIN s = {"reminder", "rows", "showed", "panel", "alert", "timers"}
  BY DEF Whole, OneAlertTimer
<1>2. /\ t.rows = s.rows /\ t.reminder = s.reminder /\ t.showed = s.showed \cup {id}
      /\ t.panel = s.panel
      /\ t.alert = s.alert /\ t.timers = s.timers /\ DOMAIN t = DOMAIN s
  BY <1>1
<1> HIDE DEF t
<1>3. Whole(t)
  BY <1>1, <1>2 DEF Whole, OneAlertTimer
<1>4. Quieter(s, t)
  BY <1>2 DEF Quieter, Carried, Same, Whole
<1> QED
  BY <1>2, <1>3, <1>4 DEF t

(* A reminder that shows no more leaves those showed. *)
LEMMA UnlistIsQuieter ==
  ASSUME NEW s, NEW id, Whole(s), ~Is(s.reminder[id], "showing")
  PROVE  LET t == Unlist(s, id)
         IN  /\ Whole(t) /\ Quieter(s, t) /\ t.alert = s.alert /\ t.reminder = s.reminder
             /\ t.rows = s.rows /\ t.panel = s.panel
<1> DEFINE t == Unlist(s, id)
<1>1. DOMAIN s = {"reminder", "rows", "showed", "panel", "alert", "timers"}
  BY DEF Whole, OneAlertTimer
<1>2. /\ t.rows = s.rows /\ t.reminder = s.reminder /\ t.showed = s.showed \ {id}
      /\ t.panel = s.panel
      /\ t.alert = s.alert /\ t.timers = s.timers /\ DOMAIN t = DOMAIN s
  BY <1>1 DEF Unlist
<1> HIDE DEF t
<1>3. Whole(t)
  BY <1>1, <1>2 DEF Whole, OneAlertTimer
<1>4. Quieter(s, t)
  BY <1>2 DEF Quieter, Carried, Same, Whole
<1> QED
  BY <1>2, <1>3, <1>4 DEF t

(* A step whose shows are quieter but for one reminder. *)
LEMMA ButStep ==
  ASSUME Types, Formed', Lists', clock' \in Clocks, ready' = ready, lastId' = lastId,
         vector' \subseteq vector, NEW id \in Given, QuieterBut(id, Shows, Shows'),
         Is(reminder'[id], "showing") =>
           \/ Note(reminder[id]) \in panel' /\ id \in showed'
           \/ Is(reminder[id], "showing") /\ (id \in showed => id \in showed'),
         {activeReminderId', alert'.id} \subseteq Given \cup {NoReminder},
         \A d \in Pending' : d \in Pending \/ Doable(d)
  PROVE  Types' /\ (OnPanel => OnPanel')
<1>1. /\ Carried(reminder, reminder') /\ rows' = [x \in Ids |-> rows'[x]]
      /\ panel \subseteq panel'
      /\ \A x \in Ids \ {id} : reminder[x] \in Reminders /\ Is(reminder'[x], "showing") =>
           Is(reminder[x], "showing") /\ (x \in showed => x \in showed')
      /\ \A x \in Ids :
           \/ rows'[x] = rows[x]
           \/ /\ reminder'[x] \in Reminders /\ reminder'[x].kind.type # "timer"
              /\ rows'[x] = Row(reminder'[x])
  BY DEF QuieterBut, Shows
<1>2. rows' \in [Ids -> Rows \cup {NoRow}]
  <2>1. \A x \in Ids : rows'[x] \in Rows \cup {NoRow}
    BY <1>1, RowIsKept DEF Types
  <2> QED BY <1>1, <2>1
<1>3. Types'
  BY <1>1, <1>2, TypesStay
<1>4. OnPanel => OnPanel'
  <2>1. \A x \in vector' : x \in vector /\ x \in Given /\ x \in Ids /\ reminder[x] \in Reminders
    BY DEF Types, Given
  <2>2. \A x \in vector' : Note(reminder'[x]) = Note(reminder[x])
    BY <1>1, <2>1 DEF Carried, Same, Note
  <2> QED BY <1>1, <2>1, <2>2 DEF OnPanel
<1> QED
  BY <1>3, <1>4

(* The steps that show a reminder. *)
LEMMA ShownIs ==
  ASSUME Types, NEW id \in Given, NEW why, NEW plays, NEW answer
  PROVE  LET s == Shown(id, why, plays, answer)
         IN  /\ Whole(s) /\ QuieterBut(id, Shows, s) /\ s.alert = alert
             /\ s.rows = rows /\ s.showed = showed /\ s.panel = panel
             /\ \A x \in Given : s.reminder[x] \in Reminders
             /\ answer = "refused" /\ Is(s.reminder[id], "showing") => Is(reminder[id], "showing")
<1> DEFINE changed == why = "clock"
           allowed == answer # "refused"
           q == OnShow(reminder[id], clock, plays, changed, allowed)
<1>1. Whole(Shows) /\ id \in Ids /\ reminder[id] \in Reminders /\ clock \in Clocks
  BY ShowsAreWhole DEF Types, Given
<1>2. /\ q \in Reminders /\ Same(reminder[id], q)
      /\ ~allowed /\ Is(q, "showing") => Is(reminder[id], "showing")
  BY <1>1, OnShowIsReminder
<1>3. Shown(id, why, plays, answer) = On(Shows, id, q)
  BY DEF Shown
<1>4. answer = "refused" => ~allowed
  OBVIOUS
<1> HIDE DEF q, allowed, changed
<1>5. LET s == On(Shows, id, q)
      IN  /\ Whole(s) /\ QuieterBut(id, Shows, s) /\ s.reminder[id] = q /\ s.alert = alert
          /\ s.rows = rows /\ s.showed = showed /\ s.panel = panel
          /\ \A x \in Ids \ {id} : s.reminder[x] = reminder[x]
  BY <1>1, <1>2, OnIsQuieterBut, ShowsAre
<1>6. \A x \in Given : x \in Ids /\ reminder[x] \in Reminders
  BY DEF Given
<1> QED
  BY <1>2, <1>3, <1>4, <1>5, <1>6

LEMMA ToldIs ==
  ASSUME Types, NEW id \in Given, NEW why, NEW plays, NEW answer
  PROVE  LET s == Told(id, why, plays, answer)
         IN  /\ Whole(s) /\ QuieterBut(id, Shows, s) /\ s.alert.id \in {alert.id, NoReminder}
             /\ \A x \in Given : s.reminder[x] \in Reminders
             /\ Is(s.reminder[id], "showing") => id \in s.showed
<1> DEFINE shown == Shown(id, why, plays, answer)
           added == [shown EXCEPT !.showed = @ \cup {id}]
           told == TerminateCurrent(added)
<1>1. /\ Whole(shown) /\ QuieterBut(id, Shows, shown) /\ shown.alert = alert
      /\ \A x \in Given : shown.reminder[x] \in Reminders
  BY ShownIs
<1>2. Told(id, why, plays, answer) = told
  BY DEF Told
<1> HIDE DEF shown
<1>3. /\ Whole(added) /\ Quieter(shown, added) /\ added.alert = shown.alert
      /\ added.reminder = shown.reminder /\ added.showed = shown.showed \cup {id}
  BY <1>1, ListIsQuieter
<1>4. id \in added.showed
  BY <1>3
<1> HIDE DEF added
<1>5. added.alert.id # NoReminder => added.alert.id \in Given /\ added.alert.id \in Ids
        /\ added.reminder[added.alert.id] \in Reminders
  BY <1>1, <1>3 DEF Types, Given
<1>6. Whole(told) /\ Quieter(added, told) /\ told.alert.id \in {added.alert.id, NoReminder}
  BY <1>3, <1>5, TerminateCurrentIsQuieter
<1> HIDE DEF told
<1>7. QuieterBut(id, Shows, told)
  BY <1>1, <1>3, <1>6, ThenQuieter
<1>8. \A x \in Given : x \in Ids /\ added.reminder[x] \in Reminders
  BY <1>1, <1>3 DEF Given
<1>9. /\ \A x \in Given : told.reminder[x] \in Reminders
      /\ Is(told.reminder[id], "showing") => id \in told.showed
  BY <1>4, <1>6, <1>8 DEF Quieter, Carried
<1> QED
  BY <1>1, <1>2, <1>3, <1>6, <1>7, <1>9

(* What a step has made that shows a reminder, and notifies of it. *)
Lit(id, s) ==
  /\ Whole(s) /\ QuieterBut(id, Shows, s) /\ s.alert.id \in Given \cup {NoReminder}
  /\ \A x \in Given : s.reminder[x] \in Reminders
  /\ Is(s.reminder[id], "showing") => Note(reminder[id]) \in s.panel /\ id \in s.showed

LEMMA QuieterIsLit ==
  ASSUME NEW id \in Given, NEW s, NEW t, Lit(id, s), Whole(t), Quieter(s, t),
         t.alert.id \in Given \cup {NoReminder}
  PROVE  Lit(id, t)
<1>1. QuieterBut(id, Shows, t)
  BY ThenQuieter DEF Lit
<1>2. \A x \in Given : x \in Ids /\ s.reminder[x] \in Reminders
  BY DEF Lit, Given
<1>3. /\ \A x \in Given : t.reminder[x] \in Reminders
      /\ Is(t.reminder[id], "showing") => Note(reminder[id]) \in t.panel /\ id \in t.showed
  BY <1>2 DEF Lit, Quieter, Carried
<1> QED
  BY <1>1, <1>3 DEF Lit

LEMMA PublishedIsLit ==
  ASSUME Types, NEW id \in Given, NEW why, NEW plays, NEW answer
  PROVE  LET s == Published(id, why, plays, answer)
             p == PlaySoundAndVibration(s, id)
         IN  Lit(id, s) /\ Lit(id, p) /\ Lit(id, StartAlertingTimer(p))
<1> DEFINE told == Told(id, why, plays, answer)
           note == Note(reminder[id])
           s == [told EXCEPT !.panel = @ \cup {note}]
           p == PlaySoundAndVibration(s, id)
           u == StartAlertingTimer(p)
<1>1. /\ Whole(told) /\ QuieterBut(id, Shows, told) /\ told.alert.id \in {alert.id, NoReminder}
      /\ \A x \in Given : told.reminder[x] \in Reminders
      /\ Is(told.reminder[id], "showing") => id \in told.showed
  BY ToldIs
<1>2. Published(id, why, plays, answer) = s
  BY DEF Published
<1> HIDE DEF told
<1>3. /\ Whole(s) /\ Quieter(told, s) /\ s.alert = told.alert /\ s.reminder = told.reminder
      /\ s.showed = told.showed /\ s.panel = told.panel \cup {note}
  BY <1>1, PublishIsQuieter
<1> HIDE DEF s
<1>4. QuieterBut(id, Shows, s)
  BY <1>1, <1>3, ThenQuieter
<1>5. Lit(id, s)
  BY <1>1, <1>3, <1>4 DEF Lit, Types, note
<1>6. s.alert.id # NoReminder => s.alert.id \in Ids /\ s.reminder[s.alert.id] \in Reminders
  BY <1>5 DEF Lit, Given
<1>7. Whole(p) /\ Quieter(s, p) /\ p.alert.id = id
  BY <1>3, <1>6, PlayIsQuieter
<1> HIDE DEF p
<1>8. Lit(id, p)
  BY <1>5, <1>7, QuieterIsLit
<1>9. Whole(u) /\ Quieter(p, u) /\ u.alert.id = p.alert.id
  BY <1>7, StartTimerIsQuieter
<1> HIDE DEF u
<1>10. Lit(id, u)
  BY <1>7, <1>8, <1>9, QuieterIsLit
<1> QED
  BY <1>2, <1>5, <1>8, <1>10 DEF p, u

LEMMA FailedIsQuieter ==
  ASSUME Types, NEW id \in Given, NEW why, NEW plays, NEW answer
  PROVE  LET told == Told(id, why, plays, answer)
             s == Unlist(On(told, id, OnShowFail(told.reminder[id])), id)
         IN  Lit(id, s)
<1> DEFINE told == Told(id, why, plays, answer)
           r == OnShowFail(told.reminder[id])
           off == On(told, id, r)
           s == Unlist(off, id)
<1>1. /\ Whole(told) /\ QuieterBut(id, Shows, told) /\ told.alert.id \in {alert.id, NoReminder}
      /\ \A x \in Given : told.reminder[x] \in Reminders
  BY ToldIs
<1> HIDE DEF told
<1>2. id \in Ids /\ told.reminder[id] \in Reminders
  BY <1>1 DEF Given
<1>3. /\ r \in Reminders /\ Same(told.reminder[id], r) /\ Row(r) = Row(told.reminder[id])
      /\ ~Is(r, "showing")
  BY <1>2, StateChanges
<1> HIDE DEF r
<1>4. Whole(off) /\ Quieter(told, off) /\ off.reminder[id] = r /\ off.alert = told.alert
  BY <1>1, <1>2, <1>3, OnIsQuieter
<1> HIDE DEF off
<1>5. /\ Whole(s) /\ Quieter(off, s) /\ s.alert = off.alert /\ s.reminder = off.reminder
  BY <1>3, <1>4, UnlistIsQuieter
<1> HIDE DEF s
<1>6. QuieterBut(id, Shows, s)
  BY <1>1, <1>4, <1>5, ThenQuieter
<1>7. \A x \in Given : x \in Ids /\ told.reminder[x] \in Reminders
  BY <1>1 DEF Given
<1>8. \A x \in Given : s.reminder[x] \in Reminders
  BY <1>4, <1>5, <1>7 DEF Quieter, Carried
<1>9. Lit(id, s)
  BY <1>1, <1>3, <1>4, <1>5, <1>6, <1>8 DEF Lit, Types
<1> QED
  BY <1>9 DEF s, off, r, told

LEMMA LitStep ==
  ASSUME Types, Formed', Lists', NEW id \in Given, NEW s, Lit(id, s), BecomeShows(s),
         UNCHANGED <<clock, containers, trigger>>,
         \A d \in Pending' : d \in Pending \/ Doable(d)
  PROVE  Types' /\ (OnPanel => OnPanel')
<1>1. /\ UNCHANGED <<clock, ready, lastId, vector, activeReminderId>>
      /\ reminder' = s.reminder /\ rows' = s.rows /\ showed' = s.showed
      /\ panel' = s.panel /\ alert' = s.alert
  BY DEF containers, trigger, BecomeShows
<1>2. QuieterBut(id, Shows, Shows')
  BY <1>1, ShowsAre DEF Lit, QuieterBut, Shows
<1>3. Is(reminder'[id], "showing") => Note(reminder[id]) \in panel' /\ id \in showed'
  BY <1>1 DEF Lit
<1>4. {activeReminderId', alert'.id} \subseteq Given \cup {NoReminder} /\ clock' \in Clocks
  BY <1>1 DEF Lit, Types
<1> QED
  BY <1>1, <1>2, <1>3, <1>4, ButStep

(* One reminder changes, and shows no more than before. *)
LEMMA SoftStep ==
  ASSUME Types, Formed', Lists', NEW id \in Given, NEW s, QuieterBut(id, Shows, s),
         s.alert = alert, s.showed = showed,
         Is(s.reminder[id], "showing") => Is(reminder[id], "showing"),
         BecomeShows(s), UNCHANGED <<clock, containers, trigger>>,
         \A d \in Pending' : d \in Pending \/ Doable(d)
  PROVE  Types' /\ (OnPanel => OnPanel')
<1>1. /\ UNCHANGED <<clock, ready, lastId, vector, activeReminderId>>
      /\ reminder' = s.reminder /\ rows' = s.rows /\ showed' = s.showed
      /\ panel' = s.panel /\ alert' = s.alert
  BY DEF containers, trigger, BecomeShows
<1>2. QuieterBut(id, Shows, Shows')
  BY <1>1, ShowsAre DEF QuieterBut, Shows
<1>3. Is(reminder'[id], "showing") => Is(reminder[id], "showing") /\ (id \in showed => id \in showed')
  BY <1>1
<1>4. {activeReminderId', alert'.id} \subseteq Given \cup {NoReminder} /\ clock' \in Clocks
  BY <1>1 DEF Types
<1> QED
  BY <1>1, <1>2, <1>3, <1>4, ButStep

LEMMA ShowKeepsTypes ==
  ASSUME Types, Formed', NEW t \in Threads, ShowReminder(t)
  PROVE  Types' /\ (OnPanel => OnPanel')
<1> DEFINE id == Head(todo[t]).id
           why == Head(todo[t]).why
           cover == Step("cover", id)
           ends == Step("terminate", id)
<1>1. Lists
  BY DEF Types
<1>2. /\ todo[t] # <<>> /\ Head(todo[t]).op = "show"
      /\ UNCHANGED <<clock, containers, trigger, events, mutex>>
      /\ \E answer \in Answers, plays \in BOOLEAN :
                  \/ BecomeShows(Shows) /\ Pushes(t, {})
                  \/ /\ answer = "refused"
                     /\ BecomeShows(Shown(id, why, plays, answer))
                     /\ Pushes(t, Writes(id, options))
                  \/ /\ LET told == Told(id, why, plays, answer)
                        IN  BecomeShows(Unlist(On(told, id, OnShowFail(told.reminder[id])), id))
                     /\ Pushes(t, Writes(id, options))
                  \/ /\ BecomeShows(Published(id, why, plays, answer))
                     /\ Pushes(t, {cover})
                  \/ /\ BecomeShows(StartAlertingTimer(
                          PlaySoundAndVibration(Published(id, why, plays, answer), id)))
                     /\ Pushes(t, {cover})
                  \/ /\ BecomeShows(PlaySoundAndVibration(Published(id, why, plays, answer), id))
                     /\ Pushes(t, {ends, cover})
  BY Zenon, <1>1, ShowPushes
<1>3. id \in Given /\ id \in Ids /\ reminder[id] \in Reminders
  BY <1>2, HeadIsDoable DEF Named
<1>4. Doable(cover) /\ Doable(ends) /\ \A d \in Writes(id, options) : Doable(d)
  BY <1>3, WritesAreDoable, NamedAreDoable DEF Step, Named
<1>5. UNCHANGED <<clock, containers, trigger>>
  BY <1>2
<1> HIDE DEF cover, ends
<1>6. PICK answer \in Answers, plays \in BOOLEAN :
                  \/ BecomeShows(Shows) /\ Pushes(t, {})
                  \/ /\ answer = "refused"
                     /\ BecomeShows(Shown(id, why, plays, answer))
                     /\ Pushes(t, Writes(id, options))
                  \/ /\ LET told == Told(id, why, plays, answer)
                        IN  BecomeShows(Unlist(On(told, id, OnShowFail(told.reminder[id])), id))
                     /\ Pushes(t, Writes(id, options))
                  \/ /\ BecomeShows(Published(id, why, plays, answer))
                     /\ Pushes(t, {cover})
                  \/ /\ BecomeShows(StartAlertingTimer(
                          PlaySoundAndVibration(Published(id, why, plays, answer), id)))
                     /\ Pushes(t, {cover})
                  \/ /\ BecomeShows(PlaySoundAndVibration(Published(id, why, plays, answer), id))
                     /\ Pushes(t, {ends, cover})
  BY <1>2
<1> HIDE DEF id, why
<1>7. ASSUME NEW new, Pushes(t, new), \A d \in new : Doable(d)
      PROVE  Lists' /\ \A d \in Pending' : d \in Pending \/ Doable(d)
  BY <1>1, <1>2, <1>7, PushedAreDoable
<1>8. CASE BecomeShows(Shows) /\ Pushes(t, {})
  <2>1. Lists' /\ \A d \in Pending' : d \in Pending \/ Doable(d)
    BY <1>7, <1>8
  <2>2. UNCHANGED <<reminder, rows, showed, panel, alert>>
    BY <1>8, ShowsAre DEF BecomeShows
  <2>3. Quieter(Shows, Shows')
    BY <2>2, SameIsQuieter
  <2>4. UNCHANGED <<clock, ready, lastId, vector, activeReminderId, alert>>
    BY <1>5, <2>2 DEF containers, trigger
  <2>5. {activeReminderId', alert'.id} \subseteq Given \cup {NoReminder} /\ clock' \in Clocks
    BY <2>4 DEF Types
  <2> QED BY <2>1, <2>3, <2>4, <2>5, QuietStep
<1>9. CASE /\ answer = "refused"
           /\ BecomeShows(Shown(id, why, plays, answer))
           /\ Pushes(t, Writes(id, options))
  <2>1. Lists' /\ \A d \in Pending' : d \in Pending \/ Doable(d)
    BY <1>4, <1>7, <1>9
  <2>2. LET s == Shown(id, why, plays, answer)
        IN  /\ QuieterBut(id, Shows, s) /\ s.alert = alert /\ s.showed = showed
            /\ Is(s.reminder[id], "showing") => Is(reminder[id], "showing")
    BY <1>3, <1>9, ShownIs
  <2> QED BY <1>3, <1>5, <1>9, <2>1, <2>2, SoftStep
<1>10. ASSUME NEW s, Lit(id, s), BecomeShows(s), NEW new, Pushes(t, new), \A d \in new : Doable(d)
       PROVE  Types' /\ (OnPanel => OnPanel')
  <2>1. Lists' /\ \A d \in Pending' : d \in Pending \/ Doable(d)
    BY <1>7, <1>10
  <2> QED BY <1>3, <1>5, <1>10, <2>1, LitStep
<1>11. LET told == Told(id, why, plays, answer)
       IN  Lit(id, Unlist(On(told, id, OnShowFail(told.reminder[id])), id))
  BY <1>3, FailedIsQuieter
<1>12. LET s == Published(id, why, plays, answer)
           p == PlaySoundAndVibration(s, id)
       IN  Lit(id, s) /\ Lit(id, p) /\ Lit(id, StartAlertingTimer(p))
  BY <1>3, PublishedIsLit
<1>13. (\A d \in {cover} : Doable(d)) /\ (\A d \in {ends, cover} : Doable(d))
  BY <1>4
<1> QED
  BY <1>4, <1>6, <1>8, <1>9, <1>10, <1>11, <1>12, <1>13

LEMMA CloseKeepsTypes ==
  ASSUME Types, Formed', NEW t \in Threads, Close(t)
  PROVE  Types' /\ (OnPanel => OnPanel')
<1> DEFINE id == Head(todo[t]).id
           q(updates) == OnClose(reminder[id], clock, updates)
           r == q(TRUE)
           off == On(Shows, id, r)
           s == Unlist(off, id)
<1>1. /\ todo[t] # <<>> /\ Head(todo[t]).op = "closeNow" /\ Pushes(t, Writes(id, options))
      /\ UNCHANGED <<clock, containers, trigger>>
      /\ BecomeShows(CancelNotification(s, id, options))
  BY WritersPush, ShowsAre DEF Types, Close, At, CloseReminder
<1>2. id \in Given /\ id \in Ids /\ reminder[id] \in Reminders /\ clock \in Clocks
  BY <1>1, HeadIsDoable DEF Named, Types
<1>3. \A updates : /\ q(updates) \in Reminders /\ Same(reminder[id], q(updates))
                   /\ ~Is(q(updates), "showing")
  BY <1>2, OnCloseIsReminder
<1> HIDE DEF q
<1>4. r \in Reminders /\ Same(reminder[id], r) /\ ~Is(r, "showing")
  BY Zenon, <1>3
<1> HIDE DEF r
<1>5. /\ Whole(off) /\ QuieterBut(id, Shows, off) /\ off.reminder[id] = r /\ off.alert = alert
      /\ \A x \in Ids \ {id} : off.reminder[x] = reminder[x]
  BY <1>2, <1>4, OnIsQuieterBut, ShowsAre, ShowsAreWhole
<1>6. ~Is(off.reminder[id], "showing") /\ off.reminder[id] \in Reminders
  BY <1>4, <1>5
<1> HIDE DEF off
<1>7. Whole(s) /\ Quieter(off, s) /\ s.alert = alert /\ s.reminder = off.reminder
  BY <1>5, <1>6, UnlistIsQuieter
<1>8. CancelNotification(s, id, options) = s
  BY <1>6, <1>7 DEF CancelNotification
<1> HIDE DEF s
<1>9. QuieterBut(id, Shows, s)
  BY <1>5, <1>7, ThenQuieter
<1>10. \A x \in Given : x \in Ids /\ reminder[x] \in Reminders
  BY DEF Given
<1>11. Lit(id, s)
  BY <1>5, <1>6, <1>7, <1>9, <1>10 DEF Lit, Types
<1>12. \A d \in Writes(id, options) : Doable(d)
  BY <1>2, WritesAreDoable
<1>13. Lists' /\ \A d \in Pending' : d \in Pending \/ Doable(d)
  BY <1>1, <1>12, PushedAreDoable DEF Types
<1> QED
  BY <1>1, <1>2, <1>8, <1>11, <1>13, LitStep

LEMMA SnoozeKeepsTypes ==
  ASSUME Types, Formed', NEW t \in Threads, Snooze(t)
  PROVE  Types' /\ (OnPanel => OnPanel')
<1> DEFINE id == Head(todo[t]).id
           e == Step("recent", NoReminder)
           q == OnSnooze(reminder[id], clock)
           later == On(Shows, id, q)
           again == [later EXCEPT !.panel = @ \cup {Note(reminder[id])}]
<1>1. /\ todo[t] # <<>> /\ Head(todo[t]).op = "snoozeNow"
      /\ UNCHANGED <<clock, containers, trigger>>
      /\ BecomeShows(later) \/ BecomeShows(again)
  BY DEF Snooze, At
<1>2. id \in Given /\ id \in Ids /\ reminder[id] \in Reminders /\ clock \in Clocks
  BY <1>1, HeadIsDoable DEF Named, Types
<1>3. q \in Reminders /\ Same(reminder[id], q) /\ (Is(q, "showing") => Is(reminder[id], "showing"))
  BY <1>2, OnSnoozeIsReminder
<1> HIDE DEF q
<1>4. /\ Whole(later) /\ QuieterBut(id, Shows, later) /\ later.reminder[id] = q
      /\ later.alert = alert /\ later.showed = showed
  BY <1>2, <1>3, OnIsQuieterBut, ShowsAre, ShowsAreWhole
<1> HIDE DEF later
<1>5. /\ Quieter(later, again) /\ again.alert = alert /\ again.reminder = later.reminder
      /\ again.showed = showed
  BY <1>4, PublishIsQuieter
<1> HIDE DEF again
<1>6. QuieterBut(id, Shows, again)
  BY <1>4, <1>5, ThenQuieter
<1>7. Pushes(t, {}) \/ Pushes(t, Writes(id, options) \cup {e})
  BY Zenon, SnoozePushes DEF Snooze, Types
<1>8. Doable(e) /\ \A d \in Writes(id, options) : Doable(d)
  BY <1>2, WritesAreDoable, PlainAreDoable DEF Step, Plain
<1> HIDE DEF e
<1>9. Lists' /\ \A d \in Pending' : d \in Pending \/ Doable(d)
  BY <1>1, <1>7, <1>8, PushedAreDoable DEF Types
<1>10. BecomeShows(later) => Types' /\ (OnPanel => OnPanel')
  BY <1>1, <1>2, <1>3, <1>4, <1>9, SoftStep
<1>11. BecomeShows(again) => Types' /\ (OnPanel => OnPanel')
  BY <1>1, <1>2, <1>3, <1>4, <1>5, <1>6, <1>9, SoftStep
<1> QED
  BY <1>1, <1>10, <1>11

LEMMA WriteKeepsTypes ==
  ASSUME Types, Formed', NEW t \in Threads, Write(t)
  PROVE  Types' /\ (OnPanel => OnPanel')
<1> DEFINE id == Head(todo[t]).id
           row == Row(reminder[id])
<1>1. /\ todo[t] # <<>> /\ Head(todo[t]).op = "write"
      /\ rows' = [rows EXCEPT ![id] = row]
      /\ UNCHANGED <<clock, vector, ready, lastId, activeReminderId, reminder, showed, panel, alert>>
  BY DEF Write, At, containers, trigger
<1>2. /\ id \in Given /\ id \in Ids /\ reminder[id] \in Reminders
      /\ reminder[id].kind.type # "timer"
  BY <1>1, HeadIsDoable DEF Named, Doable
<1>3. row \in Rows
  BY <1>2, RowIsKept
<1> HIDE DEF row
<1>4. rows' \in [Ids -> Rows \cup {NoRow}]
  BY <1>1, <1>2, <1>3 DEF Types
<1>5. Lists' /\ \A d \in Pending' : d \in Pending \/ Doable(d)
  BY QuietStepsPush, PushedAreDoable DEF Types
<1>6. Carried(reminder, reminder')
  BY <1>1 DEF Types, Carried, Same
<1>7. {activeReminderId', alert'.id} \subseteq Given \cup {NoReminder} /\ clock' \in Clocks
  BY <1>1 DEF Types
<1>8. Types'
  BY <1>1, <1>4, <1>5, <1>6, <1>7, TypesStay
<1> QED
  BY <1>1, <1>8 DEF OnPanel

(* Steps that remove reminders, or change many of them. *)
LEMMA LooseStep ==
  ASSUME Types, Formed', Lists', clock' \in Clocks, ready' = ready, lastId' = lastId,
         Carried(reminder, reminder'), rows' \in [Ids -> Rows \cup {NoRow}],
         vector' \subseteq vector,
         {activeReminderId', alert'.id} \subseteq Given \cup {NoReminder},
         \A d \in Pending' : d \in Pending \/ Doable(d),
         OnPanel => \A id \in vector' : Is(reminder'[id], "showing") =>
                      Note(reminder[id]) \in panel' /\ id \in showed'
  PROVE  Types' /\ (OnPanel => OnPanel')
<1>1. Types'
  BY TypesStay
<1>2. \A id \in vector' : id \in vector /\ id \in Given /\ id \in Ids /\ reminder[id] \in Reminders
  BY DEF Types, Given
<1>3. \A id \in vector' : Note(reminder'[id]) = Note(reminder[id])
  BY <1>2 DEF Carried, Same, Note
<1> QED
  BY <1>1, <1>3 DEF OnPanel

LEMMA StopActiveIsCarried ==
  ASSUME Types, NEW id, OnStopActive(id)
  PROVE  /\ Carried(reminder, reminder')
         /\ \A x \in vector : /\ Is(reminder'[x], "showing") => Is(reminder[x], "showing")
                              /\ Row(reminder'[x]) = Row(reminder[x])
<1>1. CASE UNCHANGED reminder
  BY <1>1 DEF Types, Carried, Same
<1>2. CASE ~UNCHANGED reminder
  <2>1. id \in Given /\ reminder' = [reminder EXCEPT ![id] = OnStop(reminder[id])]
    BY <1>2 DEF OnStopActive, Types
  <2>2. reminder[id] \in Reminders /\ id \in Ids
    BY <2>1 DEF Given
  <2> DEFINE r == OnStop(reminder[id])
  <2>3. /\ r \in Reminders /\ Same(reminder[id], r) /\ Row(r) = Row(reminder[id])
        /\ Is(r, "showing") => Is(reminder[id], "showing")
    BY <2>2, StateChanges
  <2> HIDE DEF r
  <2>4. reminder' = [x \in Ids |-> IF x = id THEN r ELSE reminder[x]]
    BY <2>1, <2>2 DEF Types, r
  <2>5. Carried(reminder, reminder')
    BY <2>3, <2>4 DEF Carried, Same
  <2>6. \A x \in vector : x \in Ids
    BY DEF Types, Given
  <2> QED BY <2>3, <2>4, <2>5, <2>6
<1> QED
  BY <1>1, <1>2

LEMMA RecentKeepsTypes ==
  ASSUME Types, Formed', NEW t \in Threads, StartRecentReminder(t)
  PROVE  Types' /\ (OnPanel => OnPanel')
<1>1. /\ todo[t] # <<>>
      /\ UNCHANGED <<clock, showed, panel, alert, timers, timerId, events, mutex>>
  BY DEF StartRecentReminder, AtLocked, At
<1> DEFINE active == activeReminderId
<1>2. PICK next \in Recent \cup {NoReminder}, gone \in SUBSET vector :
        /\ GetRecentReminder(t, next, gone)
        /\ activeReminderId' \in {NoReminder, active}
        /\ \/ Pushes(t, {}) /\ UNCHANGED reminder
           \/ /\ next # NoReminder /\ active # NoReminder
              /\ OnStopActive(active)
              /\ Pushes(t, Writes(active, options')
                             \cup {Step("stopTimer", next), Step("startTimer", next)})
           \/ /\ next # NoReminder /\ UNCHANGED reminder
              /\ Pushes(t, {Step("startTimer", next)})
  BY RecentPushes DEF Types
<1>3. /\ vector' \subseteq vector /\ UNCHANGED <<lastId, ready>>
      /\ rows' = [id \in Ids |-> IF id \in gone THEN NoRow ELSE rows[id]]
  BY <1>2 DEF GetRecentReminder, Erase
<1>4. rows' \in [Ids -> Rows \cup {NoRow}]
  BY <1>3 DEF Types
<1>5. /\ Carried(reminder, reminder')
      /\ \A x \in vector : Is(reminder'[x], "showing") => Is(reminder[x], "showing")
  <2>1. UNCHANGED reminder \/ OnStopActive(active)
    BY <1>2
  <2>2. UNCHANGED reminder => Carried(reminder, reminder')
    BY DEF Types, Carried, Same
  <2> QED BY <2>1, <2>2, StopActiveIsCarried
<1>6. next # NoReminder => next \in Given
  BY DEF Recent, Coming, Types
<1>7. active # NoReminder => \A known : \A d \in Writes(active, known) : Doable(d)
  BY WritesAreDoable DEF Types
<1>8. Doable(Step("stopTimer", next)) /\ (next # NoReminder => Doable(Step("startTimer", next)))
  BY <1>6, PlainAreDoable, NamedAreDoable DEF Step, Plain, Named
<1>9. Lists' /\ \A d \in Pending' : d \in Pending \/ Doable(d)
  <2> PICK known : known = options'
    OBVIOUS
  <2> DEFINE stop == Step("stopTimer", next)
             start == Step("startTimer", next)
  <2>1. \/ Pushes(t, {})
        \/ active # NoReminder /\ next # NoReminder /\ Pushes(t, Writes(active, known) \cup {stop, start})
        \/ next # NoReminder /\ Pushes(t, {start})
    BY <1>2
  <2>2. Doable(stop) /\ (next # NoReminder => Doable(start))
    BY <1>8
  <2> HIDE DEF stop, start
  <2>3. Lists
    BY DEF Types
  <2> QED BY <1>1, <1>7, <2>1, <2>2, <2>3, PushedAreDoable
<1>10. {activeReminderId', alert'.id} \subseteq Given \cup {NoReminder} /\ clock' \in Clocks
  BY <1>1, <1>2 DEF Types
<1>11. OnPanel => \A id \in vector' : Is(reminder'[id], "showing") =>
                    Note(reminder[id]) \in panel' /\ id \in showed'
  BY <1>1, <1>3, <1>5 DEF OnPanel
<1> QED
  BY <1>3, <1>4, <1>5, <1>9, <1>10, <1>11, LooseStep

LEMMA RemoveKeepsTypes ==
  ASSUME Types, Formed', NEW t \in Threads, RemoveReminder(t)
  PROVE  Types' /\ (OnPanel => OnPanel')
<1> DEFINE id == Head(todo[t]).id
           removed == IF id \in vector THEN [Shows EXCEPT !.rows[id] = NoRow] ELSE Shows
<1> PICK known : known = options'
  OBVIOUS
<1>1. /\ Erase({id}) /\ UNCHANGED <<clock, trigger>>
      /\ BecomeShows(CancelNotification(removed, id, known))
  BY DEF RemoveReminder
<1>2. /\ vector' = vector \ {id} /\ known = options \ {id}
      /\ UNCHANGED <<clock, lastId, ready, activeReminderId>>
  BY <1>1 DEF Erase, trigger
<1>3. CancelNotification(removed, id, known) = removed
  BY <1>2 DEF CancelNotification
<1>4. /\ removed.reminder = reminder /\ removed.showed = showed /\ removed.panel = panel
      /\ removed.alert = alert
      /\ removed.rows = rows \/ removed.rows = [rows EXCEPT ![id] = NoRow]
  BY DEF Shows
<1> HIDE DEF removed
<1>5. /\ UNCHANGED <<reminder, showed, panel, alert>>
      /\ rows' = rows \/ rows' = [rows EXCEPT ![id] = NoRow]
  BY <1>1, <1>3, <1>4 DEF BecomeShows
<1>6. rows' \in [Ids -> Rows \cup {NoRow}]
  BY <1>5 DEF Types
<1>7. Carried(reminder, reminder')
  BY <1>5 DEF Types, Carried, Same
<1>8. Lists' /\ \A d \in Pending' : d \in Pending \/ Doable(d)
  BY QuietStepsPush, PushedAreDoable DEF Types
<1>9. {activeReminderId', alert'.id} \subseteq Given \cup {NoReminder} /\ clock' \in Clocks
  BY <1>2, <1>5 DEF Types
<1>10. OnPanel => \A x \in vector' : Is(reminder'[x], "showing") =>
                    Note(reminder[x]) \in panel' /\ x \in showed'
  BY <1>2, <1>5 DEF OnPanel
<1> QED
  BY <1>2, <1>6, <1>7, <1>8, <1>9, <1>10, LooseStep

(* What it makes of shows when all reminders of applications are cancelled. *)
LEMMA CancelAllMakes ==
  ASSUME Types, NEW t \in Threads, CancelRemindersImpl(t)
  PROVE  LET apps == Head(todo[t]).apps
             matched == {id \in vector \cap options : reminder[id].app \in apps}
         IN  /\ Erase(matched) /\ UNCHANGED clock
             /\ activeReminderId' \in {activeReminderId, NoReminder}
             /\ alert'.id \in {alert.id, NoReminder}
             /\ reminder' = reminder \/ OnStopActive(activeReminderId)
             /\ rows' = [id \in Ids |-> IF rows[id] # NoRow /\ rows[id].app \in apps
                                        THEN NoRow ELSE rows[id]]
             /\ showed' = showed \ matched
             /\ \A x \in vector \ matched : Note(reminder[x]) \in panel => Note(reminder[x]) \in panel'
<1> DEFINE apps == Head(todo[t]).apps
           matched == {id \in vector \cap options : reminder[id].app \in apps}
           active == activeReminderId
           stops == active # NoReminder
                      /\ (active \notin options \/ reminder[active].app \in apps)
           rung == alert.id \in matched /\ Is(reminder[alert.id], "alerting")
           quiet == IF rung THEN StopAlertingReminder(Shows, alert.id) ELSE Shows
           off == {Note(reminder[id]) : id \in {x \in matched : Is(reminder[x], "showing")}}
           f == IF stops THEN [reminder EXCEPT ![active] = OnStop(@)] ELSE reminder
           g == [id \in Ids |-> IF quiet.rows[id] # NoRow /\ quiet.rows[id].app \in apps
                                THEN NoRow ELSE quiet.rows[id]]
           cleared == [quiet EXCEPT
             !.reminder = f,
             !.panel = @ \ off,
             !.showed = @ \ matched,
             !.rows = [id \in Ids |-> IF @[id] # NoRow /\ @[id].app \in apps
                                      THEN NoRow ELSE @[id]],
             !.timers = IF stops THEN @ \ {timerId} ELSE @]
<1>1. /\ BecomeShows(cleared) /\ Erase(matched) /\ UNCHANGED clock
      /\ activeReminderId' \in {active, NoReminder}
  BY DEF CancelRemindersImpl, trigger
<1>2. SameLists(Shows, quiet) /\ Whole(quiet) /\ quiet.alert.id \in {alert.id, NoReminder}
  <2>1. LET q == StopAlertingReminder(Shows, alert.id)
        IN  SameLists(Shows, q) /\ Whole(q) /\ q.alert.id \in {Shows.alert.id, NoReminder}
    BY StopIsQuieter, ShowsAreWhole
  <2>2. SameLists(Shows, Shows) /\ Whole(Shows)
    BY ShowsAreWhole DEF SameLists
  <2> HIDE DEF rung
  <2> QED BY <2>1, <2>2, ShowsAre
<1> HIDE DEF quiet
<1>3. /\ quiet.reminder = reminder /\ quiet.rows = rows /\ quiet.showed = showed
      /\ quiet.panel = panel
      /\ DOMAIN quiet = {"reminder", "rows", "showed", "panel", "alert", "timers"}
  BY <1>2, ShowsAre DEF SameLists, Whole, OneAlertTimer
<1> HIDE DEF matched, off, stops
<1>4. /\ cleared.reminder = f /\ cleared.rows = g /\ cleared.showed = showed \ matched
      /\ cleared.panel = panel \ off /\ cleared.alert = quiet.alert
  <2> HIDE DEF f
  <2> QED BY <1>3
<1> HIDE DEF cleared
<1>5. /\ reminder' = f /\ rows' = g /\ showed' = showed \ matched /\ panel' = panel \ off
      /\ alert' = quiet.alert
  BY <1>1, <1>4 DEF BecomeShows
<1>6. reminder' = reminder \/ OnStopActive(active)
  BY <1>3, <1>5 DEF OnStopActive, f, stops
<1>7. g = [id \in Ids |-> IF rows[id] # NoRow /\ rows[id].app \in apps THEN NoRow ELSE rows[id]]
  BY <1>3
<1>8. \A x \in vector \ matched : Note(reminder[x]) \notin off
  <2>1. \A x \in vector \ matched : reminder[x].app \notin apps
    BY DEF matched, Types, Formed, Listed
  <2>2. \A x \in matched : reminder[x].app \in apps
    BY DEF matched
  <2> HIDE DEF apps
  <2> QED BY <2>1, <2>2 DEF off, Note
<1>9. /\ alert'.id \in {alert.id, NoReminder} /\ showed' = showed \ matched
      /\ \A x \in vector \ matched : Note(reminder[x]) \in panel => Note(reminder[x]) \in panel'
  BY <1>2, <1>5, <1>8
<1> QED
  BY <1>1, <1>5, <1>6, <1>7, <1>9 DEF matched

LEMMA CancelAllKeepsTypes ==
  ASSUME Types, Formed', NEW t \in Threads, CancelRemindersImpl(t)
  PROVE  Types' /\ (OnPanel => OnPanel')
<1> DEFINE apps == Head(todo[t]).apps
           matched == {id \in vector \cap options : reminder[id].app \in apps}
<1>1. /\ Erase(matched) /\ UNCHANGED clock
      /\ activeReminderId' \in {activeReminderId, NoReminder}
      /\ alert'.id \in {alert.id, NoReminder}
      /\ reminder' = reminder \/ OnStopActive(activeReminderId)
      /\ rows' = [id \in Ids |-> IF rows[id] # NoRow /\ rows[id].app \in apps
                                 THEN NoRow ELSE rows[id]]
      /\ showed' = showed \ matched
      /\ \A x \in vector \ matched : Note(reminder[x]) \in panel => Note(reminder[x]) \in panel'
  BY CancelAllMakes
<1> HIDE DEF apps, matched
<1>2. rows' \in [Ids -> Rows \cup {NoRow}]
  BY <1>1 DEF Types
<1>3. /\ Carried(reminder, reminder')
      /\ \A x \in vector : Is(reminder'[x], "showing") => Is(reminder[x], "showing")
  <2>1. UNCHANGED reminder => Carried(reminder, reminder')
    BY DEF Types, Carried, Same
  <2> QED BY <1>1, <2>1, StopActiveIsCarried
<1>4. vector' = vector \ matched /\ UNCHANGED <<lastId, ready>>
  BY <1>1 DEF Erase
<1>5. Lists' /\ \A d \in Pending' : d \in Pending \/ Doable(d)
  BY QuietStepsPush, PushedAreDoable DEF Types
<1>6. {activeReminderId', alert'.id} \subseteq Given \cup {NoReminder} /\ clock' \in Clocks
  BY <1>1 DEF Types
<1>7. OnPanel => \A x \in vector' : Is(reminder'[x], "showing") =>
                    Note(reminder[x]) \in panel' /\ x \in showed'
  BY <1>1, <1>3, <1>4 DEF OnPanel
<1> QED
  BY <1>2, <1>3, <1>4, <1>5, <1>6, <1>7, LooseStep

LEMMA OverdueKeepsTypes ==
  ASSUME Types, Formed', NEW t \in Threads, ShowOverdue(t)
  PROVE  Types' /\ (OnPanel => OnPanel')
<1>1. Lists /\ IsFiniteSet(vector)
  BY IdsAreFinite, FS_Subset DEF Types, Formed, Listed
<1> DEFINE e == Step("recent", NoReminder)
<1>2. todo[t] # <<>> /\ \E S \in SUBSET vector, new \in SUBSET ShowSteps(vector, "service") :
        /\ reminder' = [id \in Ids |->
             IF id \in S /\ reminder[id].kind.type # "timer"
             THEN [reminder[id] EXCEPT !.snoozesLeft = 0] ELSE reminder[id]]
        /\ Pushes(t, new \cup {e})
  BY Zenon, <1>1, OverduePushes
<1>3. PICK S \in SUBSET vector, new \in SUBSET ShowSteps(vector, "service") :
        /\ reminder' = [id \in Ids |->
             IF id \in S /\ reminder[id].kind.type # "timer"
             THEN [reminder[id] EXCEPT !.snoozesLeft = 0] ELSE reminder[id]]
        /\ Pushes(t, new \cup {e})
  BY <1>2
<1>4. UNCHANGED <<clock, vector, ready, lastId, activeReminderId, rows, showed, panel, alert>>
  BY DEF ShowOverdue, containers, trigger
<1>5. Doable(e) /\ \A d \in ShowSteps(vector, "service") : Doable(d)
  BY PlainAreDoable, ShowsAreDoable DEF Step, Plain, Types
<1> HIDE DEF e
<1>6. Lists' /\ \A d \in Pending' : d \in Pending \/ Doable(d)
  BY <1>1, <1>2, <1>3, <1>5, PushedAreDoable
<1>7. ASSUME NEW r \in Reminders
      PROVE  LET q == [r EXCEPT !.snoozesLeft = 0]
             IN  q \in Reminders /\ Same(r, q) /\ q.state = r.state
  <2>1. r.kind.times \in Nat
    BY KindsAre DEF Reminders
  <2>2. 0 \in 0 .. r.kind.times
    BY <2>1
  <2> QED BY <2>2, SnoozesAreSet
<1>8. \A id \in Ids : reminder[id] \in Reminders =>
        /\ reminder'[id] \in Reminders /\ Same(reminder[id], reminder'[id])
        /\ reminder'[id].state = reminder[id].state
  BY <1>3, <1>7 DEF Same
<1>9. Carried(reminder, reminder')
  <2>1. reminder' = [id \in Ids |-> reminder'[id]]
    BY <1>3
  <2> QED BY <1>8, <2>1 DEF Carried
<1>10. rows' \in [Ids -> Rows \cup {NoRow}] /\ clock' \in Clocks
       /\ {activeReminderId', alert'.id} \subseteq Given \cup {NoReminder}
  BY <1>4 DEF Types
<1>11. \A x \in vector : x \in Ids /\ reminder[x] \in Reminders
  BY DEF Types, Given
<1>12. OnPanel => \A x \in vector' : Is(reminder'[x], "showing") =>
                    Note(reminder[x]) \in panel' /\ x \in showed'
  BY <1>4, <1>8, <1>11 DEF OnPanel, Is
<1> QED
  BY <1>4, <1>6, <1>9, <1>10, <1>12, LooseStep

(* What it makes of shows when the wall time was set. *)
LEMMA RefreshMakes ==
  ASSUME Types, NEW t \in Threads, RefreshReminders(t)
  PROVE  LET kept == {id \in vector : reminder[id].kind.type # "timer"}
         IN  /\ UNCHANGED <<clock, containers, panel>>
             /\ activeReminderId' \in {activeReminderId, NoReminder}
             /\ alert'.id \in {alert.id, NoReminder}
             /\ Carried(reminder, reminder')
             /\ rows' = [id \in Ids |-> IF id \in kept THEN Row(reminder'[id]) ELSE rows[id]]
             /\ \A x \in vector : Is(reminder'[x], "showing") =>
                  Is(reminder[x], "showing") /\ (x \in showed => x \in showed')
<1> DEFINE closed == {id \in vector : ClosedByRefresh(id)}
           fresh(id) == Refreshed(id).r
           done(id, updates) == Unset(OnClose(fresh(id), clock, updates),
                                      {x \in {"active"} : id = activeReminderId})
           after == [id \in Ids |->
                       IF id \in closed THEN done(id, TRUE)
                       ELSE IF id \in vector THEN fresh(id) ELSE reminder[id]]
           quiet == IF alert.id \in closed THEN StopAlertingReminder(Shows, alert.id) ELSE Shows
           kept == {id \in vector : reminder[id].kind.type # "timer"}
           g == [id \in Ids |-> IF id \in kept THEN Row(after[id]) ELSE quiet.rows[id]]
<1>1. /\ activeReminderId' \in {activeReminderId, NoReminder}
      /\ UNCHANGED <<clock, containers, events, mutex>>
      /\ \E timersLeft : BecomeShows([quiet EXCEPT !.reminder = after, !.showed = @ \ closed,
           !.rows = [id \in Ids |-> IF id \in kept THEN Row(after[id]) ELSE @[id]],
           !.timers = timersLeft])
  BY DEF RefreshReminders, trigger
<1>2. SameLists(Shows, quiet) /\ Whole(quiet) /\ quiet.alert.id \in {alert.id, NoReminder}
  <2>1. LET q == StopAlertingReminder(Shows, alert.id)
        IN  SameLists(Shows, q) /\ Whole(q) /\ q.alert.id \in {Shows.alert.id, NoReminder}
    BY StopIsQuieter, ShowsAreWhole
  <2>2. SameLists(Shows, Shows) /\ Whole(Shows)
    BY ShowsAreWhole DEF SameLists
  <2> HIDE DEF closed
  <2> QED BY <2>1, <2>2, ShowsAre
<1> HIDE DEF quiet
<1>3. /\ quiet.reminder = reminder /\ quiet.rows = rows /\ quiet.showed = showed
      /\ quiet.panel = panel
      /\ DOMAIN quiet = {"reminder", "rows", "showed", "panel", "alert", "timers"}
  BY <1>2, ShowsAre DEF SameLists, Whole, OneAlertTimer
<1> HIDE DEF after, kept, closed
<1>4. /\ reminder' = after /\ showed' = showed \ closed /\ panel' = panel /\ alert' = quiet.alert
      /\ rows' = [id \in Ids |-> IF id \in kept THEN Row(after[id]) ELSE rows[id]]
  BY <1>1, <1>3 DEF BecomeShows
<1>5. \A x \in vector : x \in Given /\ x \in Ids /\ reminder[x] \in Reminders
  BY DEF Types, Given
<1>6. \A x \in vector : /\ fresh(x) \in Reminders /\ Same(reminder[x], fresh(x))
                        /\ fresh(x).state = reminder[x].state
  BY <1>5, DateTimeChangeIsReminder DEF Refreshed, Types
<1> HIDE DEF fresh
<1>7. \A x \in vector : \A updates :
        /\ done(x, updates) \in Reminders /\ Same(reminder[x], done(x, updates))
        /\ ~Is(done(x, updates), "showing")
  <2> TAKE x \in vector
  <2> TAKE updates
  <2> DEFINE q == OnClose(fresh(x), clock, updates)
             S == q.state \ {y \in {"active"} : x = activeReminderId}
  <2>1. q \in Reminders /\ Same(fresh(x), q) /\ ~Is(q, "showing")
    BY <1>6, OnCloseIsReminder DEF Types
  <2>2. S \in SUBSET Flags /\ "showing" \notin S
    BY <2>1 DEF Reminders, Is
  <2>3. done(x, updates) = [q EXCEPT !.state = S]
    BY DEF Unset
  <2> HIDE DEF q, S
  <2>4. done(x, updates) \in Reminders /\ Same(q, done(x, updates)) /\ done(x, updates).state = S
    BY <2>1, <2>2, <2>3, StateIsNotKept
  <2> QED BY <1>6, <2>1, <2>2, <2>4, SameIsTransitive DEF Is
<1> HIDE DEF done
<1>8. \A x \in vector : /\ after[x] \in Reminders /\ Same(reminder[x], after[x])
                        /\ Is(after[x], "showing") => x \notin closed /\ Is(reminder[x], "showing")
  <2> TAKE x \in vector
  <2>1. CASE x \in closed
    <3>1. after[x] = done(x, TRUE)
      BY Zenon, <1>5, <2>1 DEF after
    <3> PICK q : q = done(x, TRUE)
      OBVIOUS
    <3>2. q \in Reminders /\ Same(reminder[x], q) /\ ~Is(q, "showing")
      BY Zenon, <1>7
    <3> QED BY <2>1, <3>1, <3>2
  <2>2. CASE x \notin closed
    <3>1. after[x] = fresh(x)
      BY Zenon, <1>5, <2>2 DEF after
    <3> QED BY <1>6, <2>2, <3>1 DEF Is
  <2> QED BY <2>1, <2>2
<1>9. after = [x \in Ids |-> after[x]] /\ \A x \in Ids \ vector : after[x] = reminder[x]
  BY Zenon DEF after, closed
<1>10. Carried(reminder, reminder')
  BY <1>4, <1>8, <1>9 DEF Carried, Same
<1>11. \A x \in vector : Is(reminder'[x], "showing") =>
         Is(reminder[x], "showing") /\ (x \in showed => x \in showed')
  BY <1>4, <1>8
<1> QED
  BY <1>1, <1>2, <1>4, <1>10, <1>11 DEF kept

LEMMA RefreshKeepsTypes ==
  ASSUME Types, Formed', NEW t \in Threads, RefreshReminders(t)
  PROVE  Types' /\ (OnPanel => OnPanel')
<1> DEFINE kept == {id \in vector : reminder[id].kind.type # "timer"}
<1>1. /\ UNCHANGED <<clock, containers, panel>>
      /\ activeReminderId' \in {activeReminderId, NoReminder}
      /\ alert'.id \in {alert.id, NoReminder}
      /\ Carried(reminder, reminder')
      /\ rows' = [id \in Ids |-> IF id \in kept THEN Row(reminder'[id]) ELSE rows[id]]
      /\ \A x \in vector : Is(reminder'[x], "showing") =>
           Is(reminder[x], "showing") /\ (x \in showed => x \in showed')
  BY RefreshMakes
<1>2. rows' \in [Ids -> Rows \cup {NoRow}]
  <2>1. \A x \in kept : /\ x \in Ids /\ reminder[x] \in Reminders
                        /\ reminder[x].kind.type # "timer"
    BY DEF Types, Given
  <2>2. \A x \in kept : Row(reminder'[x]) \in Rows
    BY <1>1, <2>1, RowIsKept DEF Carried, Same
  <2> HIDE DEF kept
  <2> QED BY <1>1, <2>2 DEF Types
<1>3. Lists' /\ \A d \in Pending' : d \in Pending \/ Doable(d)
  <2>1. Lists /\ IsFiniteSet(vector)
    BY IdsAreFinite, FS_Subset DEF Types, Formed, Listed
  <2> DEFINE e == Step("recent", NoReminder)
  <2>2. todo[t] # <<>> /\ \E new \in SUBSET ShowSteps(vector, "clock") : Pushes(t, new \cup {e})
    BY <2>1, RefreshPushes
  <2>3. Doable(e) /\ \A d \in ShowSteps(vector, "clock") : Doable(d)
    BY PlainAreDoable, ShowsAreDoable DEF Step, Plain, Types
  <2> HIDE DEF e
  <2> QED BY <2>1, <2>2, <2>3, PushedAreDoable
<1>4. /\ {activeReminderId', alert'.id} \subseteq Given \cup {NoReminder} /\ clock' \in Clocks
      /\ UNCHANGED <<vector, ready, lastId>>
  BY <1>1 DEF Types, containers
<1>5. OnPanel => \A x \in vector' : Is(reminder'[x], "showing") =>
                    Note(reminder[x]) \in panel' /\ x \in showed'
  BY <1>1, <1>4 DEF OnPanel
<1> QED
  BY <1>1, <1>2, <1>3, <1>4, <1>5, LooseStep

(* A reminder that shows is among those its application showed, so that    *)
(* one whose notification goes with that of another is closed too.         *)
LEMMA ProcessDiedMakes ==
  ASSUME Types, OnProcessDied
  PROVE  /\ UNCHANGED <<clock, containers, trigger>>
         /\ alert'.id \in {alert.id, NoReminder}
         /\ Carried(reminder, reminder')
         /\ \E kept \in SUBSET vector :
              /\ \A x \in kept : reminder[x].kind.type # "timer"
              /\ \A x \in vector \ kept :
                   reminder[x].kind.type = "timer" \/ reminder'[x] = reminder[x]
              /\ rows' = [id \in Ids |-> IF id \in kept THEN Row(reminder'[id]) ELSE rows[id]]
         /\ OnPanel => \A x \in vector : Is(reminder'[x], "showing") =>
              Note(reminder[x]) \in panel' /\ x \in showed'
<1> DEFINE app == Head(events).app
           gone == showed \ options
           own == {id \in showed \cap options : reminder[id].app = app}
           ringing == {id \in own : Is(reminder[id], "alerting")}
           closed == own \ ringing
           quiet == IF alert.id \in ringing THEN StopAlertingReminder(Shows, alert.id) ELSE Shows
           off == {Note(reminder[id]) : id \in {x \in closed : Is(reminder[x], "showing")}}
           kept == {id \in own : reminder[id].kind.type # "timer"}
           done(id, updates) == OnClose(reminder[id], clock, updates)
           after == [id \in Ids |->
                       IF id \in ringing THEN OnTerminate(reminder[id])
                       ELSE IF id \in closed THEN done(id, FALSE)
                       ELSE reminder[id]]
           notes == {Note(reminder[id]) : id \in ringing}
<1>1. /\ BecomeShows([quiet EXCEPT
           !.reminder = after,
           !.panel = (@ \ off) \cup notes,
           !.showed = @ \ (gone \cup closed),
           !.rows = [id \in Ids |-> IF id \in kept THEN Row(after[id]) ELSE @[id]]])
      /\ UNCHANGED <<clock, containers, trigger>>
  BY DEF OnProcessDied
<1>2. SameLists(Shows, quiet) /\ Whole(quiet) /\ quiet.alert.id \in {alert.id, NoReminder}
  <2>1. LET q == StopAlertingReminder(Shows, alert.id)
        IN  SameLists(Shows, q) /\ Whole(q) /\ q.alert.id \in {Shows.alert.id, NoReminder}
    BY StopIsQuieter, ShowsAreWhole
  <2>2. SameLists(Shows, Shows) /\ Whole(Shows)
    BY ShowsAreWhole DEF SameLists
  <2> HIDE DEF ringing
  <2> QED BY <2>1, <2>2, ShowsAre
<1> HIDE DEF quiet
<1>3. /\ quiet.reminder = reminder /\ quiet.rows = rows /\ quiet.showed = showed
      /\ quiet.panel = panel
      /\ DOMAIN quiet = {"reminder", "rows", "showed", "panel", "alert", "timers"}
  BY <1>2, ShowsAre DEF SameLists, Whole, OneAlertTimer
<1> HIDE DEF after, kept, closed, gone, off, notes
<1>4. /\ reminder' = after /\ showed' = showed \ (gone \cup closed)
      /\ panel' = (panel \ off) \cup notes /\ alert' = quiet.alert
      /\ rows' = [id \in Ids |-> IF id \in kept THEN Row(after[id]) ELSE rows[id]]
  BY <1>1, <1>3 DEF BecomeShows
<1>5. /\ \A x \in vector : x \in Given /\ x \in Ids /\ reminder[x] \in Reminders
      /\ vector = options
  BY DEF Types, Given, Formed, Listed
<1>6. own \subseteq vector /\ ringing \subseteq vector /\ closed \subseteq vector
  BY <1>5 DEF closed
<1>7. \A x \in vector : \A updates :
        /\ done(x, updates) \in Reminders /\ Same(reminder[x], done(x, updates))
        /\ ~Is(done(x, updates), "showing")
  BY <1>5, OnCloseIsReminder DEF Types
<1> HIDE DEF done
<1>8. \A x \in vector : /\ after[x] \in Reminders /\ Same(reminder[x], after[x])
                        /\ Is(after[x], "showing") => x \notin closed /\ Is(reminder[x], "showing")
  <2> TAKE x \in vector
  <2>1. CASE x \in ringing
    <3> DEFINE q == OnTerminate(reminder[x])
    <3>1. q \in Reminders /\ Same(reminder[x], q) /\ (Is(q, "showing") => Is(reminder[x], "showing"))
      BY <1>5, StateChanges
    <3>2. after[x] = q /\ x \notin closed
      BY <1>5, <2>1 DEF after, closed
    <3> QED BY <3>1, <3>2
  <2>2. CASE x \in closed
    <3>1. after[x] = done(x, FALSE)
      BY Zenon, <1>5, <2>2 DEF after, closed
    <3> PICK q : q = done(x, FALSE)
      OBVIOUS
    <3>2. q \in Reminders /\ Same(reminder[x], q) /\ ~Is(q, "showing")
      BY Zenon, <1>7
    <3> QED BY <2>2, <3>1, <3>2
  <2>3. CASE x \notin ringing /\ x \notin closed
    <3>1. after[x] = reminder[x]
      BY Zenon, <1>5, <2>3 DEF after
    <3> QED BY <1>5, <2>3, <3>1 DEF Same
  <2> QED BY <2>1, <2>2, <2>3
<1>9. after = [x \in Ids |-> after[x]] /\ \A x \in Ids \ vector : after[x] = reminder[x]
  BY Zenon, <1>6 DEF after
<1>10. Carried(reminder, reminder')
  BY <1>4, <1>8, <1>9 DEF Carried, Same
<1>11. \E S \in SUBSET vector :
         /\ \A x \in S : reminder[x].kind.type # "timer"
         /\ \A x \in vector \ S : reminder[x].kind.type = "timer" \/ reminder'[x] = reminder[x]
         /\ rows' = [id \in Ids |-> IF id \in S THEN Row(reminder'[id]) ELSE rows[id]]
  <2>1. kept \subseteq vector /\ \A x \in kept : reminder[x].kind.type # "timer"
    BY <1>6 DEF kept
  <2>2. ASSUME NEW x \in vector \ kept
        PROVE  reminder[x].kind.type = "timer" \/ reminder'[x] = reminder[x]
    <3>1. x \notin own => after[x] = reminder[x]
      BY <1>5 DEF after, closed
    <3> QED BY <1>4, <2>2, <3>1 DEF kept
  <2>3. rows' = [id \in Ids |-> IF id \in kept THEN Row(reminder'[id]) ELSE rows[id]]
    BY <1>4
  <2> QED BY <2>1, <2>2, <2>3
<1>12. OnPanel => \A x \in vector : Is(reminder'[x], "showing") =>
         Note(reminder[x]) \in panel' /\ x \in showed'
  <2> SUFFICES ASSUME OnPanel, NEW x \in vector, Is(after[x], "showing")
               PROVE  Note(reminder[x]) \in panel' /\ x \in showed'
    BY <1>4
  <2>1. x \notin closed /\ Is(reminder[x], "showing") /\ Note(reminder[x]) \in panel /\ x \in showed
    BY <1>8 DEF OnPanel
  <2>2. x \in showed'
    BY <1>4, <1>5, <2>1 DEF gone
  <2>3. CASE reminder[x].app = app
    <3>1. x \in ringing
      BY <1>5, <2>1, <2>3 DEF closed
    <3> QED BY <1>4, <2>2, <3>1 DEF notes
  <2>4. CASE reminder[x].app # app
    <3>1. \A y \in closed : reminder[y].app = app
      BY DEF closed
    <3>2. Note(reminder[x]) \notin off
      BY <2>4, <3>1 DEF off, Note
    <3> QED BY <1>4, <2>1, <2>2, <3>2
  <2> QED BY <2>3, <2>4
<1> QED
  BY <1>1, <1>2, <1>4, <1>10, <1>11, <1>12

LEMMA ProcessDiedKeepsTypes ==
  ASSUME Types, Formed', OnProcessDied
  PROVE  Types' /\ (OnPanel => OnPanel')
<1>1. /\ UNCHANGED <<clock, containers, trigger>>
      /\ alert'.id \in {alert.id, NoReminder}
      /\ Carried(reminder, reminder')
      /\ OnPanel => \A x \in vector : Is(reminder'[x], "showing") =>
           Note(reminder[x]) \in panel' /\ x \in showed'
  BY ProcessDiedMakes
<1>2. rows' \in [Ids -> Rows \cup {NoRow}]
  <2>1. PICK kept \in SUBSET vector :
          /\ \A x \in kept : reminder[x].kind.type # "timer"
          /\ rows' = [id \in Ids |-> IF id \in kept THEN Row(reminder'[id]) ELSE rows[id]]
    BY ProcessDiedMakes
  <2>2. \A x \in kept : x \in Ids /\ reminder[x] \in Reminders
    BY DEF Types, Given
  <2>3. \A x \in kept : Row(reminder'[x]) \in Rows
    BY <1>1, <2>1, <2>2, RowIsKept DEF Carried, Same
  <2> QED BY <2>1, <2>3 DEF Types
<1>3. Adds({})
  <2>1. todo[EventThread] = <<>> /\ todo' = [todo EXCEPT ![EventThread] = <<>>]
    BY DEF OnProcessDied, Receive, MayBegin, Handle
  <2>2. EventThread \in Threads
    BY DEF Threads
  <2> QED BY <2>1, <2>2, NoneIsAdded DEF Types
<1>4. Lists' /\ \A d \in Pending' : d \in Pending \/ Doable(d)
  BY <1>3 DEF Adds
<1>5. /\ {activeReminderId', alert'.id} \subseteq Given \cup {NoReminder} /\ clock' \in Clocks
      /\ UNCHANGED <<vector, ready, lastId>>
  BY <1>1 DEF Types, containers, trigger
<1> QED
  BY <1>1, <1>2, <1>4, <1>5, LooseStep

(* A new id is given to no other reminder. *)
LEMMA SaveKeepsTypes ==
  ASSUME Types, Formed', NEW t \in Threads, UpdateAndSaveReminder(t)
  PROVE  Types' /\ (OnPanel => OnPanel')
<1> DEFINE new == Head(todo[t]).new
           id == lastId + 1
           row == IF new.kind.type = "timer" THEN rows[id] ELSE Row(new)
<1>1. /\ todo[t] # <<>> /\ Head(todo[t]).op = "save"
      /\ id \in Ids /\ lastId' = id /\ vector' = vector \cup {id}
      /\ reminder' = [reminder EXCEPT ![id] = new] /\ rows' = [rows EXCEPT ![id] = row]
      /\ UNCHANGED <<clock, ready, activeReminderId, showed, panel, alert>>
  BY DEF UpdateAndSaveReminder, AtLocked, At, trigger
<1>2. ready /\ new \in News
  BY <1>1, HeadIsDoable DEF Doable
<1>3. /\ lastId \in Int /\ vector \subseteq Given
      /\ reminder = [x \in Ids |-> reminder[x]] /\ rows \in [Ids -> Rows \cup {NoRow}]
  BY DEF Types, Formed, Listed
<1>4. new \in Reminders /\ ~Is(new, "showing") /\ (new.kind.type # "timer" => Row(new) \in Rows)
  BY <1>2, RowIsKept DEF News, Is
<1>5. rows' \in [Ids -> Rows \cup {NoRow}]
  BY <1>1, <1>3, <1>4
<1> HIDE DEF new, row
<1>6. /\ reminder' = [x \in Ids |-> reminder'[x]] /\ reminder'[id] = new
      /\ \A x \in Ids \ {id} : reminder'[x] = reminder[x]
  BY <1>1, <1>3
<1>7. id \notin Given /\ id > lastId /\ id \in Int
  BY <1>3 DEF Given
<1>8. \A x \in Given : x \in Given' /\ reminder'[x] = reminder[x]
  <2>1. \A x \in Given : x \in Ids \ {id} /\ x \in Int /\ x <= lastId /\ reminder[x] \in Reminders
    BY <1>7, IdsAreFinite DEF Given
  <2>2. \A x \in Given : x <= lastId'
    <3>1. lastId' = lastId + 1 /\ lastId \in Int
      BY <1>1, <1>3
    <3>2. \A x \in Given : x <= lastId + 1
      BY <2>1, <3>1
    <3> QED BY <3>1, <3>2
  <2> QED BY <1>6, <2>1, <2>2 DEF Given
<1>9. id \in Given'
  BY <1>1, <1>4, <1>6, <1>7 DEF Given
<1>10. Lists' /\ Pending' \subseteq Pending
  BY QuietStepsPush, PushedAreDoable DEF Types
<1>11. ASSUME NEW d \in Pending'
       PROVE  Doable(d)'
  <2>1. Doable(d)
    BY <1>10 DEF Types
  <2>2. /\ d.op \in Named => d.id \in Given'
        /\ d.op = "write" => reminder'[d.id].kind.type # "timer"
    BY <1>8, <2>1 DEF Doable, Named
  <2> QED BY <1>1, <2>1, <2>2 DEF Doable
<1>12. vector' \subseteq Given' /\ {activeReminderId', alert'.id} \subseteq Given' \cup {NoReminder}
  BY <1>1, <1>3, <1>8, <1>9 DEF Types
<1>13. Types'
  BY <1>1, <1>2, <1>5, <1>6, <1>10, <1>11, <1>12 DEF Types
<1>14. OnPanel => OnPanel'
  BY <1>1, <1>3, <1>4, <1>6, <1>8 DEF OnPanel
<1> QED
  BY <1>13, <1>14

(* Before the database is loaded nothing has an id. *)
LEMMA NothingIsGiven ==
  ASSUME Types, lastId = 0
  PROVE  Given = {} /\ activeReminderId = NoReminder /\ alert.id = NoReminder
<1>1. Given = {}
  BY LimitsAssumption DEF Given, Ids
<1> QED
  BY <1>1 DEF Types

LEMMA LoadKeepsTypes ==
  ASSUME Types, Formed', NEW t \in Threads, LoadReminderFromDb(t)
  PROVE  Types' /\ (OnPanel => OnPanel')
<1> DEFINE stored == {id \in Ids : rows[id] # NoRow}
<1>1. /\ todo[t] # <<>> /\ Head(todo[t]).op = "load" /\ Then(t, <<>>)
      /\ reminder' = rows' /\ ready' = TRUE
      /\ UNCHANGED <<clock, activeReminderId, showed, panel, alert>>
      /\ \E kept \in SUBSET stored : \E maxId \in kept \cup {NoMaxId} :
           /\ \A id \in kept : id <= maxId
           /\ lastId' = maxId + 1 /\ vector' = kept
           /\ rows' = [id \in Ids |-> IF id \in kept THEN rows[id] ELSE NoRow]
  BY DEF LoadReminderFromDb, AtLocked, At, trigger
<1>2. ~ready /\ lastId = 0
  BY <1>1, HeadIsDoable DEF Doable, Types
<1>3. Given = {} /\ activeReminderId = NoReminder /\ alert.id = NoReminder
  BY <1>2, NothingIsGiven
<1>4. PICK kept \in SUBSET stored : \E maxId \in kept \cup {NoMaxId} :
        /\ \A id \in kept : id <= maxId
        /\ lastId' = maxId + 1 /\ vector' = kept
        /\ rows' = [id \in Ids |-> IF id \in kept THEN rows[id] ELSE NoRow]
  BY <1>1
<1>5. PICK maxId \in kept \cup {NoMaxId} :
        /\ \A id \in kept : id <= maxId
        /\ lastId' = maxId + 1 /\ vector' = kept
        /\ rows' = [id \in Ids |-> IF id \in kept THEN rows[id] ELSE NoRow]
  BY <1>4
<1>6. rows' \in [Ids -> Rows \cup {NoRow}]
  BY <1>5 DEF Types
<1>7. kept \subseteq Ids /\ maxId \in Int /\ kept \subseteq Int
  BY <1>5, IdsAreFinite DEF NoMaxId
<1>8. \A x \in kept : reminder'[x] \in Rows /\ reminder'[x] \in Reminders /\ x <= lastId'
  <2>1. \A x \in kept : reminder'[x] = rows[x] /\ rows[x] \in Rows
    BY <1>1, <1>5, <1>7 DEF Types
  <2>2. \A x \in kept : x <= maxId + 1
    BY <1>5, <1>7
  <2> QED BY <1>5, <2>1, <2>2 DEF Rows
<1>9. vector' \subseteq Given'
  BY <1>5, <1>7, <1>8 DEF Given
<1>10. Pushes(t, {})
  BY QuietStepsPush DEF Types
<1>11. ASSUME NEW d \in Pending'
       PROVE  Doable(d)'
  <2>1. d \in Left(t) /\ d \in Pending
    BY <1>1, <1>10, HeadIsPending DEF Pushes, Types
  <2>2. d.op # "load"
    <3>1. t = EventThread
      BY <1>1, HeadIsPending DEF Types, Lists
    <3>2. d \in Elements(Tail(todo[t])) \/ \E u \in Threads \ {t} : d \in Elements(todo[u])
      BY <2>1 DEF Left
    <3>3. "load" \in Enders
      BY DEF Enders
    <3>4. \A e \in Elements(Tail(todo[t])) : e.op = "recent"
      BY <1>1, <3>3, HeadIsPending DEF Types
    <3> QED BY <3>1, <3>2, <3>4 DEF Types, Lists
  <2>3. Doable(d)
    BY <2>1 DEF Types
  <2>4. d.op \notin Named /\ d.op \notin {"check", "save"}
    BY <1>2, <1>3, <2>3 DEF Doable
  <2>5. "write" \in Named
    BY DEF Named
  <2> QED BY <2>2, <2>4, <2>5 DEF Doable
<1>12. reminder' = [id \in Ids |-> reminder'[id]]
  BY <1>1, <1>6
<1>13. Types'
  BY <1>1, <1>3, <1>6, <1>9, <1>10, <1>11, <1>12 DEF Types, Pushes
<1>14. OnPanel'
  BY <1>5, <1>8 DEF OnPanel, Rows, Is
<1> QED
  BY <1>13, <1>14

(* Calls, events, and what happens outside. *)
LEMMA AddStep ==
  ASSUME Types, Formed', NEW new, Adds(new), \A d \in new : Doable(d),
         Quieter(Shows, Shows'), clock' \in Clocks, UNCHANGED <<containers, alert>>,
         activeReminderId' \in {activeReminderId, NoReminder}
  PROVE  Types' /\ (OnPanel => OnPanel')
<1>1. Lists' /\ \A d \in Pending' : d \in Pending \/ Doable(d)
  BY DEF Adds
<1>2. /\ UNCHANGED <<vector, ready, lastId, alert>>
      /\ {activeReminderId', alert'.id} \subseteq Given \cup {NoReminder}
  BY DEF containers, Types
<1> QED
  BY <1>1, <1>2, QuietStep

(* What a handler begins with. *)
Begins == {"check", "cancel", "cancelAll", "recent", "alarm", "timeout", "close", "snooze",
           "userSwitched", "stopTimer", "refresh", "load"}
Begun(d) == Doable(d) /\ d.op \in Begins

LEMMA PlainAreBegun ==
  ASSUME NEW op \in Begins \ {"check", "load"}
  PROVE  /\ op \in Plain
         /\ \A id : Begun(Step(op, id))
         /\ \A apps : op = "cancelAll" => Begun([op |-> op, apps |-> apps])
<1>1. op \in Plain
  BY DEF Begins, Plain
<1>2. /\ \A id : Step(op, id).op = op
      /\ \A apps : [op |-> op, apps |-> apps].op = op
  BY DEF Step
<1> QED
  BY <1>1, <1>2, PlainAreDoable DEF Begun

LEMMA CallsAdd ==
  ASSUME Types, NEW t \in Callers, Caller(t)
  PROVE  /\ UNCHANGED <<clock, containers, shows, trigger, events, mutex>>
         /\ t \in Threads /\ todo[t] = <<>>
         /\ \E new : Adds(new) /\ \A d \in new : Begun(d)
<1>1. /\ UNCHANGED <<clock, containers, shows, trigger, events, mutex>>
      /\ t \in Threads /\ todo[t] = <<>>
  BY DEF Caller, PublishReminder, CancelReminder, CancelAllReminders, Begin, MayBegin, Threads
<1>2. ASSUME NEW app \in Apps, NEW note \in Notes, NEW kind \in Kinds,
             PublishReminder(t, app, note, kind)
      PROVE  \E new : Adds(new) /\ \A d \in new : Begun(d)
  <2> DEFINE r == NewReminder(app, note, kind, clock)
             d == [op |-> "check", new |-> r]
  <2>1. ready /\ todo' = [todo EXCEPT ![t] = <<d>>]
    BY <1>2 DEF PublishReminder, Begin
  <2>2. r \in News
    BY NewIsReminder DEF Types
  <2> HIDE DEF r
  <2>3. d.op = "check" /\ d.new \in News /\ d.op # "load"
    BY <2>2
  <2>4. Begun(d)
    BY <2>1, <2>2 DEF Doable, Named, Begun, Begins
  <2> HIDE DEF d
  <2>5. Adds({d})
    BY <1>1, <2>1, <2>3, OneIsAdded DEF Types
  <2> QED BY <2>4, <2>5
<1>3. ASSUME NEW id \in Ids, CancelReminder(t, id)
      PROVE  \E new : Adds(new) /\ \A d \in new : Begun(d)
  <2> DEFINE d == Step("cancel", id)
  <2>1. todo' = [todo EXCEPT ![t] = <<d>>] /\ d.op # "load"
    BY <1>3 DEF CancelReminder, Begin, Step
  <2>2. Begun(d)
    BY PlainAreBegun DEF Begins
  <2> HIDE DEF d
  <2>3. Adds({d})
    BY <1>1, <2>1, OneIsAdded DEF Types
  <2> QED BY <2>2, <2>3
<1>4. ASSUME NEW app \in Apps, CancelAllReminders(t, {app})
      PROVE  \E new : Adds(new) /\ \A d \in new : Begun(d)
  <2> DEFINE d == [op |-> "cancelAll", apps |-> {app}]
             e == Step("recent", NoReminder)
  <2>1. todo' = [todo EXCEPT ![t] = <<d, e>>]
    BY <1>4 DEF CancelAllReminders, Begin
  <2>2. Begun(d) /\ Begun(e)
    BY PlainAreBegun DEF Begins
  <2>3. Adds({d, e})
    BY <1>1, <2>1, CancelAllIsAdded DEF Types
  <2> HIDE DEF d, e
  <2> QED BY <2>2, <2>3
<1> QED
  BY <1>1, <1>2, <1>3, <1>4 DEF Caller

LEMMA CallsKeepTypes ==
  ASSUME Types, Formed', NEW t \in Callers, Caller(t)
  PROVE  Types' /\ (OnPanel => OnPanel')
<1>1. /\ UNCHANGED <<clock, containers, shows, trigger, events, mutex>>
      /\ \E new : Adds(new) /\ \A d \in new : Begun(d)
  BY CallsAdd
<1>2. Quieter(Shows, Shows') /\ UNCHANGED <<alert, activeReminderId>> /\ clock' \in Clocks
  BY <1>1, SameIsQuieter DEF shows, trigger, Types
<1> QED
  BY <1>1, <1>2, AddStep DEF Begun

(* Events whose handler is a step or two, none of them about a reminder. *)
LEMMA HandledIsAdded ==
  ASSUME Lists, todo[EventThread] = <<>>, NEW op \in Plain \cup {"load"}, NEW id,
         Handle(<<Step(op, id)>>)
  PROVE  Adds({Step(op, id)})
<1> DEFINE d == Step(op, id)
<1>1. EventThread \in Threads /\ todo' = [todo EXCEPT ![EventThread] = <<d>>]
  BY DEF Threads, Handle
<1> HIDE DEF d
<1> QED
  BY <1>1, OneIsAdded DEF d

LEMMA EventsAdd ==
  ASSUME Types, OnEvent
  PROVE  \E new : Adds(new) /\ \A d \in new : Begun(d)
<1>1. todo[EventThread] = <<>> /\ EventThread \in Threads /\ Lists
  BY DEF OnEvent, OnAlarm, OnTimeout, OnButton, OnPackageRemoved, OnUserSwitch, OnTimeChanged,
     OnProcessDied, OnBootCompleted, Receive, MayBegin, Threads, Types
<1>2. CASE OnAlarm \/ OnTimeout \/ OnButton("close") \/ OnButton("snooze") \/ OnUserSwitch
  <2>1. PICK op \in {"alarm", "timeout", "close", "snooze", "userSwitched"} : \E id :
          Handle(<<Step(op, id)>>)
    BY <1>2 DEF OnAlarm, OnTimeout, OnButton, OnUserSwitch
  <2>2. PICK id : Handle(<<Step(op, id)>>)
    BY <2>1
  <2>3. op \in Begins \ {"check", "load"}
    BY DEF Begins
  <2> DEFINE d == Step(op, id)
  <2>4. Adds({d}) /\ Begun(d)
    BY <1>1, <2>2, <2>3, PlainAreBegun, HandledIsAdded
  <2> HIDE DEF d
  <2> QED BY <2>4
<1>3. CASE OnPackageRemoved
  <2> DEFINE d == [op |-> "cancelAll", apps |-> {Head(events).app}]
             e == Step("recent", NoReminder)
  <2>1. todo' = [todo EXCEPT ![EventThread] = <<d, e>>]
    BY <1>3 DEF OnPackageRemoved, Handle
  <2>2. Begun(d) /\ Begun(e)
    BY PlainAreBegun DEF Begins
  <2>3. Adds({d, e})
    BY <1>1, <2>1, CancelAllIsAdded
  <2> HIDE DEF d, e
  <2> QED BY <2>2, <2>3
<1>4. CASE OnTimeChanged
  <2> DEFINE c == activeReminderId # NoReminder
  <2>1. todo' = [todo EXCEPT ![EventThread] =
                   When(c, <<Step("stopTimer", NoReminder)>>) \o <<Step("refresh", NoReminder)>>]
        /\ c \in BOOLEAN
    BY <1>4 DEF OnTimeChanged, Handle
  <2> HIDE DEF c
  <2>2. \E new : /\ Adds(new)
                 /\ new \subseteq {Step("stopTimer", NoReminder), Step("refresh", NoReminder)}
    BY <1>1, <2>1, TimeChangedIsAdded
  <2>3. Begun(Step("stopTimer", NoReminder)) /\ Begun(Step("refresh", NoReminder))
    BY PlainAreBegun DEF Begins
  <2> QED BY <2>2, <2>3
<1>5. CASE OnBootCompleted
  <2>1. CASE ready
    <3>1. todo' = [todo EXCEPT ![EventThread] = <<>>]
      BY <1>5, <2>1 DEF OnBootCompleted, Handle, When
    <3>2. Adds({})
      BY <1>1, <3>1, NoneIsAdded
    <3> QED BY <3>2
  <2>2. CASE ~ready
    <3> DEFINE d == Step("load", NoReminder)
    <3>1. Handle(<<d>>)
      BY <1>5, <2>2 DEF OnBootCompleted, When
    <3>2. Adds({d})
      BY <1>1, <3>1, HandledIsAdded
    <3>3. Begun(d)
      BY <2>2 DEF Doable, Step, Named, Begun, Begins
    <3> HIDE DEF d
    <3> QED BY <3>2, <3>3
  <2> QED BY <2>1, <2>2
<1>6. CASE OnProcessDied
  <2>1. Adds({})
    BY <1>1, <1>6, NoneIsAdded DEF OnProcessDied, Handle
  <2> QED BY <2>1
<1> QED
  BY <1>2, <1>3, <1>4, <1>5, <1>6 DEF OnEvent

LEMMA EventIsQuieter ==
  ASSUME Types, OnEvent, ~OnProcessDied
  PROVE  /\ UNCHANGED <<clock, containers, rows, showed, panel, alert, timers>>
         /\ activeReminderId' \in {activeReminderId, NoReminder}
         /\ Quieter(Shows, Shows')
<1>1. /\ UNCHANGED <<clock, containers, rows, showed, panel, alert, timers>>
      /\ activeReminderId' \in {activeReminderId, NoReminder}
  BY DEF OnEvent, OnAlarm, OnTimeout, OnButton, OnPackageRemoved, OnUserSwitch, OnTimeChanged,
     OnBootCompleted, shows, trigger
<1>2. UNCHANGED reminder \/ OnStopActive(activeReminderId)
  BY DEF OnEvent, OnAlarm, OnTimeout, OnButton, OnPackageRemoved, OnUserSwitch, OnTimeChanged,
     OnBootCompleted, shows
<1> QED
  BY <1>1, <1>2, SameIsQuieter, StopActiveIsQuieter

LEMMA EventsKeepTypes ==
  ASSUME Types, Formed', OnEvent, ~OnProcessDied
  PROVE  Types' /\ (OnPanel => OnPanel')
<1>1. \E new : Adds(new) /\ \A d \in new : Doable(d)
  BY EventsAdd DEF Begun
<1> QED
  BY <1>1, EventIsQuieter, AddStep DEF Types

(* The reminders of the database are the first the service has again. *)
LEMMA RestartKeepsTypes ==
  ASSUME Types, Formed', Restart
  PROVE  Types' /\ (OnPanel => OnPanel')
<1> DEFINE d == Step("serviceStart", NoReminder)
           s == <<d>>
<1>1. /\ UNCHANGED <<clock, rows>> /\ ready' = FALSE /\ lastId' = 0 /\ vector' = {}
      /\ reminder' = rows /\ activeReminderId' = NoReminder /\ alert'.id = NoReminder
      /\ \E t \in Callers : todo' = [u \in Threads |-> When(u = t, s)]
  BY DEF Restart, Quiet
<1>2. Doable(d)' /\ d.op # "load"
  BY DEF Doable, Step, Named
<1>3. Proper(s) /\ Elements(s) = {d}
  BY OneIsProper
<1> HIDE DEF s, d
<1>4. \A c \in BOOLEAN : Proper(When(c, s)) /\ Elements(When(c, s)) \subseteq {d}
  BY <1>3, WhenIsProper
<1>5. PICK t \in Callers : todo' = [u \in Threads |-> When(u = t, s)]
  BY <1>1
<1>6. \A u \in Threads : Proper(todo'[u]) /\ Elements(todo'[u]) \subseteq {d}
  BY <1>4, <1>5
<1>7. Lists' /\ Pending' \subseteq {d}
  BY <1>2, <1>5, <1>6 DEF Lists, Pending
<1>8. reminder' = [id \in Ids |-> reminder'[id]] /\ rows' \in [Ids -> Rows \cup {NoRow}]
      /\ clock' \in Clocks
  BY <1>1 DEF Types
<1>9. Types'
  BY <1>1, <1>2, <1>7, <1>8 DEF Types
<1> QED
  BY <1>1, <1>9 DEF OnPanel

LEMMA EnvironmentKeepsTypes ==
  ASSUME Types, Formed', Environment
  PROVE  Types' /\ (OnPanel => OnPanel')
<1>1. CASE Restart
  BY <1>1, RestartKeepsTypes
<1>2. CASE ~Restart
  <2>1. UNCHANGED <<containers, reminder, rows, showed, panel, alert, activeReminderId, todo>>
    BY <1>2 DEF Environment, Tick, TimerFires, SetTime, Press, Announce, shows, trigger
  <2>2. clock' \in Clocks
    <3>1. CASE Tick
      BY <3>1 DEF Tick, Types, Clocks
    <3>2. ASSUME NEW wall \in DayLength .. MaxWall, SetTime(wall) PROVE clock' \in Clocks
      <4>1. wall \in Int
        OBVIOUS
      <4>2. clock' = [wall |-> wall, boot |-> clock.boot + 1] /\ clock \in Clocks
        BY <3>2 DEF SetTime, Types
      <4> QED BY <4>1, <4>2 DEF Clocks
    <3>3. CASE UNCHANGED clock
      BY <3>3 DEF Types
    <3> QED
      BY <1>2, <3>1, <3>2, <3>3 DEF Environment, TimerFires, Press, Announce
  <2>3. Adds({})
    BY <2>1 DEF Adds, Types, Lists, Pending
  <2> QED BY <2>1, <2>2, <2>3, SameIsQuieter, AddStep
<1> QED
  BY <1>1, <1>2

LEMMA StutterKeepsTypes ==
  ASSUME Types, Formed', UNCHANGED vars
  PROVE  Types' /\ (OnPanel => OnPanel')
<1>1. UNCHANGED <<clock, containers, reminder, rows, showed, panel, alert, activeReminderId, todo>>
  BY DEF vars, shows, trigger
<1>2. Adds({}) /\ clock' \in Clocks
  BY <1>1 DEF Adds, Types, Lists, Pending
<1> QED
  BY <1>1, <1>2, SameIsQuieter, AddStep

LEMMA NextKeepsTypes ==
  ASSUME Types, [Next]_vars
  PROVE  Types' /\ (OnPanel => OnPanel')
<1>1. Formed'
  BY NextKeepsListed, NextKeepsTimer DEF Types, Formed
<1>2. ASSUME NEW t \in Threads, Proceed(t)
      PROVE  Types' /\ (OnPanel => OnPanel')
  BY <1>1, <1>2, StillStepsKeepTypes, HushStepsKeepTypes, FlagStepsKeepTypes, ShowKeepsTypes,
     CloseKeepsTypes, SnoozeKeepsTypes, WriteKeepsTypes, RecentKeepsTypes, RemoveKeepsTypes,
     CancelAllKeepsTypes, OverdueKeepsTypes, RefreshKeepsTypes, SaveKeepsTypes, LoadKeepsTypes
     DEF Proceed, StillStep, HushStep, FlagStep
<1>3. CASE OnEvent
  BY <1>1, <1>3, EventsKeepTypes, ProcessDiedKeepsTypes
<1>4. CASE UNCHANGED vars
  BY <1>1, <1>4, StutterKeepsTypes
<1> QED
  BY <1>1, <1>2, <1>3, <1>4, CallsKeepTypes, EnvironmentKeepsTypes DEF Next

LEMMA InitIsTyped == Init => Types /\ OnPanel
<1> SUFFICES ASSUME Init PROVE Types /\ OnPanel
  OBVIOUS
<1>1. /\ \A t \in Threads : Proper(todo[t]) /\ Elements(todo[t]) = {}
      /\ todo = [t \in Threads |-> todo[t]]
  BY NoneIsProper DEF Init
<1>2. Lists /\ Pending = {}
  BY <1>1 DEF Lists, Pending
<1>3. Listed
  BY FS_EmptySet DEF Init, Listed
<1>4. OneAlertTimer(Shows)
  BY DEF Init, Quiet, OneAlertTimer, Shows
<1>5. clock \in Clocks
  BY KindsAre DEF Init, Clocks
<1>6. /\ ready = TRUE /\ vector = {} /\ activeReminderId = NoReminder /\ alert.id = NoReminder
      /\ reminder = [id \in Ids |-> reminder[id]] /\ rows \in [Ids -> Rows \cup {NoRow}]
  BY DEF Init, Quiet
<1> QED
  BY <1>2, <1>3, <1>4, <1>5, <1>6 DEF Types, Formed, OnPanel

(* Every reminder that was given an id stays a reminder of the same        *)
(* application with no more snoozes left than it was given, the rows of    *)
(* the database are reminders without a state, and no thread has a step to *)
(* do about an id that was not given: neither the calls, nor the events    *)
(* that come late, nor a restart between them lead to one.                 *)
THEOREM TypeCorrect == Spec => []Types
<1>1. Init => Types
  BY InitIsTyped
<1>2. Types /\ [Next]_vars => Types'
  BY NextKeepsTypes
<1> QED
  BY <1>1, <1>2, PTL DEF Spec

(* A listed reminder that shows has its notification on the panel, and is  *)
(* among those OnProcessDied closes: not only when no handler is under way *)
(* but after every step of every thread.                                   *)
THEOREM ShownIsOnPanel == Spec => []ShowingIsOnPanel
<1>1. Init => Types /\ OnPanel
  BY InitIsTyped
<1>2. Types /\ OnPanel /\ [Next]_vars => (Types /\ OnPanel)'
  BY NextKeepsTypes
<1>3. OnPanel => ShowingIsOnPanel
  BY DEF OnPanel, ShowingIsOnPanel
<1> QED
  BY <1>1, <1>2, <1>3, PTL DEF Spec

----------------------------------------------------------------------------
(* One handler at a time.  Only one thread has steps to do, and where its  *)
(* next step is one that finds or removes reminders, nothing but the       *)
(* search for the next reminder follows.                                   *)

Single == \A t, u \in Threads : todo[t] # <<>> /\ todo[u] # <<>> => t = u

LEMMA BusyIsOne ==
  ASSUME MaxBusy <= 1, Single, NEW t, MayBegin(t)
  PROVE  \A u \in Threads : todo[u] = <<>>
<1> SUFFICES ASSUME NEW u \in Threads, todo[u] # <<>> PROVE FALSE
  OBVIOUS
<1>1. Busy = {u}
  BY DEF Single, Busy
<1>2. Cardinality(Busy) = 1
  BY <1>1, FS_Singleton
<1> QED
  BY <1>2, LimitsAssumption DEF MayBegin

LEMMA ProceedActs ==
  ASSUME NEW t \in Threads, Proceed(t)
  PROVE  todo[t] # <<>> /\ \E s : todo' = [todo EXCEPT ![t] = s]
<1>1. CASE \/ CheckLimit(t) \/ UpdateAndSaveReminder(t)
           \/ FindToCancel(t) \/ RemoveReminder(t) \/ CancelRemindersImpl(t)
           \/ StartRecentReminder(t) \/ StartTriggerTimer(t) \/ StopTriggerTimer(t)
           \/ StopSound(t) \/ StopAlertTimer(t) \/ Write(t) \/ Unlock(t)
  BY Zenon, <1>1 DEF CheckLimit, UpdateAndSaveReminder, FindToCancel, RemoveReminder,
     CancelRemindersImpl, StartRecentReminder, StartTriggerTimer, StopTriggerTimer, StopSound,
     StopAlertTimer, Write, Unlock, At, AtLocked, Then, Stop
<1>2. CASE \/ FindToShow(t) \/ ShowActiveReminderExtend(t) \/ ShowReminder(t)
           \/ CoverSameNotification(t) \/ Terminate(t) \/ ShowOverdue(t)
  BY Zenon, <1>2 DEF FindToShow, ShowActiveReminderExtend, ShowReminder, CoverSameNotification,
     Terminate, ShowOverdue, At, AtLocked, Then, Stop
<1>3. CASE \/ FindToTerminate(t) \/ FindToClose(t) \/ Close(t)
           \/ FindToSnooze(t) \/ Snooze(t) \/ TerminateForUser(t) \/ RefreshReminders(t)
           \/ LoadReminderFromDb(t)
  BY Zenon, <1>3 DEF FindToTerminate, FindToClose, Close, FindToSnooze, Snooze, TerminateForUser,
     RefreshReminders, LoadReminderFromDb, At, AtLocked, Then, Stop
<1> QED
  BY Zenon, <1>1, <1>2, <1>3 DEF Proceed

LEMMA BeginsAlone ==
  ASSUME MaxBusy <= 1, Single, (\E t \in Callers : Caller(t)) \/ OnEvent
  PROVE  /\ \A u \in Threads : todo[u] = <<>>
         /\ \E t \in Threads : \E s : todo' = [todo EXCEPT ![t] = s]
<1>1. \E t \in Threads : MayBegin(t) /\ \E s : todo' = [todo EXCEPT ![t] = s]
  <2>1. ASSUME NEW t \in Callers, Caller(t)
        PROVE  MayBegin(t) /\ \E s : todo' = [todo EXCEPT ![t] = s]
    BY Zenon, <2>1 DEF Caller, PublishReminder, CancelReminder, CancelAllReminders, Begin
  <2>2. ASSUME OnEvent
        PROVE  MayBegin(EventThread) /\ \E s : todo' = [todo EXCEPT ![EventThread] = s]
    BY Zenon, <2>2 DEF OnEvent, OnAlarm, OnTimeout, OnButton, OnPackageRemoved, OnUserSwitch,
       OnTimeChanged, OnProcessDied, OnBootCompleted, Receive, Handle
  <2> QED BY <2>1, <2>2 DEF Threads
<1> QED
  BY <1>1, BusyIsOne

LEMMA NextKeepsSingle ==
  ASSUME MaxBusy <= 1, Types, Single, [Next]_vars
  PROVE  Single'
<1>1. todo = [u \in Threads |-> todo[u]]
  BY DEF Types, Lists
<1>2. ASSUME NEW t \in Threads, \A u \in Threads \ {t} : todo[u] = <<>>,
             NEW s, todo' = [todo EXCEPT ![t] = s]
      PROVE  Single'
  <2>1. \A u \in Threads \ {t} : todo'[u] = <<>>
    BY <1>1, <1>2
  <2> QED BY <2>1 DEF Single
<1>3. ASSUME NEW t \in Threads, Proceed(t) PROVE Single'
  <2>1. todo[t] # <<>> /\ \E s : todo' = [todo EXCEPT ![t] = s]
    BY <1>3, ProceedActs
  <2>2. \A u \in Threads \ {t} : todo[u] = <<>>
    BY <2>1 DEF Single
  <2> QED BY <1>2, <2>1, <2>2
<1>4. CASE (\E t \in Callers : Caller(t)) \/ OnEvent
  BY <1>2, <1>4, BeginsAlone
<1>5. CASE Restart
  <2>1. PICK t \in Callers : \E s : todo' = [u \in Threads |-> When(u = t, s)]
    BY <1>5 DEF Restart
  <2>2. \A u \in Threads : u # t => todo'[u] = <<>>
    BY <2>1 DEF When
  <2> QED BY <2>2 DEF Single
<1>6. CASE UNCHANGED todo
  BY <1>6 DEF Single
<1>7. Environment /\ ~Restart => UNCHANGED todo
  BY DEF Environment, Tick, TimerFires, SetTime, Press, Announce
<1> QED
  BY <1>3, <1>4, <1>5, <1>6, <1>7 DEF Next, vars

LEMMA AloneIs ==
  ASSUME Lists, Single, NEW t \in Threads, todo[t] # <<>>
  PROVE  /\ Left(t) = Elements(Tail(todo[t])) /\ Pending = {Head(todo[t])} \cup Left(t)
         /\ Head(todo[t]).op \in Enders => \A d \in Left(t) : d.op = "recent"
<1>1. \A u \in Threads \ {t} : Elements(todo[u]) = {}
  BY NoneIsProper DEF Single
<1>2. Left(t) = Elements(Tail(todo[t]))
  BY <1>1 DEF Left
<1> QED
  BY <1>2, HeadIsPending

LEMMA IdleHasNothing ==
  ASSUME \A u \in Threads : todo[u] = <<>>
  PROVE  Pending = {}
  BY NoneIsProper DEF Pending

----------------------------------------------------------------------------
(* The database.  A reminder that is listed has its row, or a step that    *)
(* writes it is still to do; and what is to be written is listed.          *)

Savers == {"write", "cover", "show"}
Saved(id) == \E d \in Pending : d.op \in Savers /\ d.id = id
Persists(id) == id \in vector /\ reminder[id].kind.type # "timer"

WritesAreListed == \A d \in Pending : d.op = "write" => d.id \in vector
Stored ==
  /\ WritesAreListed
  /\ ready => \A id \in Ids :
       IF Persists(id) THEN rows[id] = Row(reminder[id]) \/ Saved(id) ELSE rows[id] = NoRow

(* Where the list stays, a reminder is stored that stays so, whose row is  *)
(* written, or for which a step is now to do.                              *)
LEMMA StoredStays ==
  ASSUME Types, Stored, Carried(reminder, reminder'), vector' = vector, ready' = ready,
         \A id \in Ids : \/ rows'[id] = rows[id]
                         \/ Persists(id) /\ rows'[id] = Row(reminder'[id]),
         \A id \in vector : Persists(id) =>
           \/ Row(reminder'[id]) = Row(reminder[id]) /\ (Saved(id) => Saved(id)')
           \/ Saved(id)'
           \/ rows'[id] = Row(reminder'[id]),
         WritesAreListed'
  PROVE  Stored'
<1>1. \A id \in Ids : Persists(id)' <=> Persists(id)
  <2>1. \A id \in vector : id \in Ids /\ reminder[id] \in Reminders
    BY DEF Types, Given
  <2>2. \A id \in vector : reminder'[id].kind = reminder[id].kind
    BY <2>1 DEF Carried, Same
  <2> QED BY <2>2 DEF Persists
<1>2. \A id \in Ids : Persists(id) => id \in vector
  BY DEF Persists
<1>3. ASSUME ready', NEW id \in Ids, Persists(id)
      PROVE  rows'[id] = Row(reminder'[id]) \/ Saved(id)'
  <2>1. rows[id] = Row(reminder[id]) \/ Saved(id)
    BY <1>3 DEF Stored
  <2>2. \/ Row(reminder'[id]) = Row(reminder[id]) /\ (Saved(id) => Saved(id)')
        \/ Saved(id)'
        \/ rows'[id] = Row(reminder'[id])
    BY <1>2, <1>3
  <2>3. rows'[id] = rows[id] \/ rows'[id] = Row(reminder'[id])
    OBVIOUS
  <2> QED BY <2>1, <2>2, <2>3
<1>4. ASSUME ready', NEW id \in Ids, ~Persists(id)
      PROVE  rows'[id] = NoRow
  BY <1>4 DEF Stored
<1> QED
  BY <1>1, <1>3, <1>4 DEF Stored

LEMMA QuietStored ==
  ASSUME Types, Stored, Quieter(Shows, Shows'), UNCHANGED containers,
         \A id \in Ids : Persists(id) /\ Saved(id) => Saved(id)',
         WritesAreListed'
  PROVE  Stored'
<1>1. /\ \A id \in vector : id \in Ids /\ reminder[id] \in Reminders
      /\ vector = options
  BY DEF Types, Given, Formed, Listed
<1>2. Carried(reminder, reminder') /\ vector' = vector /\ ready' = ready
  BY DEF Quieter, Shows, containers
<1>3. /\ \A id \in Ids : reminder[id] \in Reminders => Row(reminder'[id]) = Row(reminder[id])
      /\ \A id \in Ids :
           \/ rows'[id] = rows[id]
           \/ /\ reminder'[id] \in Reminders /\ reminder'[id].kind.type # "timer"
              /\ id \in options /\ rows'[id] = Row(reminder'[id])
  BY DEF Quieter, Shows
<1>4. \A id \in vector : reminder'[id].kind = reminder[id].kind
  BY <1>1, <1>2 DEF Carried, Same
<1>5. \A id \in Ids : rows'[id] = rows[id] \/ (Persists(id) /\ rows'[id] = Row(reminder'[id]))
  BY <1>1, <1>3, <1>4 DEF Persists
<1>6. \A id \in vector : Persists(id) =>
        \/ Row(reminder'[id]) = Row(reminder[id]) /\ (Saved(id) => Saved(id)')
        \/ Saved(id)'
        \/ rows'[id] = Row(reminder'[id])
  BY <1>1, <1>3
<1> QED
  BY <1>2, <1>5, <1>6, StoredStays

LEMMA ButStored ==
  ASSUME Types, Stored, NEW id, QuieterBut(id, Shows, Shows'), UNCHANGED containers,
         \A x \in Ids \ {id} : Saved(x) => Saved(x)',
         Persists(id) => Saved(id)',
         WritesAreListed'
  PROVE  Stored'
<1>1. /\ \A x \in vector : x \in Ids /\ reminder[x] \in Reminders
      /\ vector = options
  BY DEF Types, Given, Formed, Listed
<1>2. Carried(reminder, reminder') /\ vector' = vector /\ ready' = ready
  BY DEF QuieterBut, Shows, containers
<1>3. /\ \A x \in Ids \ {id} : reminder[x] \in Reminders => Row(reminder'[x]) = Row(reminder[x])
      /\ \A x \in Ids :
           \/ rows'[x] = rows[x]
           \/ /\ reminder'[x] \in Reminders /\ reminder'[x].kind.type # "timer"
              /\ x \in options /\ rows'[x] = Row(reminder'[x])
  BY DEF QuieterBut, Shows
<1>4. \A x \in vector : reminder'[x].kind = reminder[x].kind
  BY <1>1, <1>2 DEF Carried, Same
<1>5. \A x \in Ids : rows'[x] = rows[x] \/ (Persists(x) /\ rows'[x] = Row(reminder'[x]))
  BY <1>1, <1>3, <1>4 DEF Persists
<1>6. \A x \in vector : Persists(x) =>
        \/ Row(reminder'[x]) = Row(reminder[x]) /\ (Saved(x) => Saved(x)')
        \/ Saved(x)'
        \/ rows'[x] = Row(reminder'[x])
  BY <1>1, <1>3
<1> QED
  BY <1>2, <1>5, <1>6, StoredStays

(* What a thread has done leaves the others: where nothing was to be       *)
(* written, because the step is one that nothing but a search follows, or  *)
(* where the step is not one that writes.                                  *)
LEMMA EnderSavesNothing ==
  ASSUME Lists, Single, NEW t \in Threads, todo[t] # <<>>, Head(todo[t]).op \in Enders
  PROVE  (\A id : ~Saved(id)) /\ \A d \in Pending : d.op # "write"
<1>1. Pending = {Head(todo[t])} \cup Left(t) /\ \A d \in Left(t) : d.op = "recent"
  BY AloneIs
<1> QED
  BY <1>1 DEF Saved, Savers, Enders

LEMMA PushedSaves ==
  ASSUME Lists, WritesAreListed, NEW t \in Threads, todo[t] # <<>>, NEW new,
         UNCHANGED containers, \A d \in new : d.op = "write" => d.id \in vector,
         \/ Single /\ Head(todo[t]).op \in Enders /\ (Stops(t) \/ Pushes(t, new))
         \/ Head(todo[t]).op \notin Savers /\ Pushes(t, new)
  PROVE  (\A id : Saved(id) => Saved(id)') /\ WritesAreListed'
<1>1. /\ Pending = {Head(todo[t])} \cup Left(t)
      /\ Pending' \subseteq Left(t) \cup new
  BY HeadIsPending DEF Stops, Pushes
<1>2. WritesAreListed'
  BY <1>1 DEF WritesAreListed, containers
<1>3. CASE Single /\ Head(todo[t]).op \in Enders
  BY <1>2, <1>3, EnderSavesNothing
<1>4. CASE Head(todo[t]).op \notin Savers /\ Pushes(t, new)
  <2>1. Pending' = Left(t) \cup new
    BY <1>4 DEF Pushes
  <2>2. ASSUME NEW id, Saved(id) PROVE Saved(id)'
    BY <1>1, <1>4, <2>1, <2>2 DEF Saved
  <2> QED BY <1>2, <2>2
<1> QED
  BY <1>3, <1>4

LEMMA ListedWrites ==
  ASSUME Formed, NEW id
  PROVE  /\ \A d \in Writes(id, options) : d.op = "write" => d.id \in vector
         /\ Persists(id) => \E d \in Writes(id, options) : d.op \in Savers /\ d.id = id
<1>1. vector = options
  BY DEF Formed, Listed
<1>2. Step("write", id).op = "write" /\ Step("write", id).id = id
  BY DEF Step
<1> QED
  BY <1>1, <1>2 DEF Writes, Persists, Savers

(* What a thread has done leaves the others but the one it is about, which *)
(* is to be written when it is listed.                                     *)
LEMMA SaverPushes ==
  ASSUME Lists, WritesAreListed, NEW t \in Threads, todo[t] # <<>>, UNCHANGED containers,
         NEW id, Head(todo[t]).op \in Savers => Head(todo[t]).id = id,
         NEW new, Pushes(t, new), \A d \in new : d.op = "write" => d.id \in vector
  PROVE  /\ \A x : x # id /\ Saved(x) => Saved(x)'
         /\ (\E d \in new : d.op \in Savers /\ d.id = id) => Saved(id)'
         /\ WritesAreListed'
<1>1. Pending = {Head(todo[t])} \cup Left(t)
  BY HeadIsPending
<1>2. Pending' = Left(t) \cup new
  BY DEF Pushes
<1>3. WritesAreListed'
  BY <1>1, <1>2 DEF WritesAreListed, containers
<1>4. ASSUME NEW x, x # id, Saved(x) PROVE Saved(x)'
  BY <1>1, <1>2, <1>4 DEF Saved
<1>5. ASSUME NEW d \in new, d.op \in Savers, d.id = id PROVE Saved(id)'
  BY <1>2, <1>5 DEF Saved
<1> QED
  BY <1>3, <1>4, <1>5

LEMMA NoWriteAmongShows ==
  ASSUME NEW S, NEW why, NEW d \in ShowSteps(S, why)
  PROVE  d.op # "write"
  BY ShowStepsShow

LEMMA NoWriteAmongHalts ==
  ASSUME NEW id, NEW d \in Halts(id)
  PROVE  d.op # "write"
  BY HaltIsProper

LEMMA StillStepsStore ==
  ASSUME Types, Single, Stored, NEW t \in Threads, StillStep(t)
  PROVE  Stored'
<1>1. Quieter(Shows, Shows') /\ UNCHANGED containers
  BY StillIsQuieter
<1>2. Lists /\ WritesAreListed
  BY DEF Types, Stored
<1>3. (\A id : Saved(id) => Saved(id)') /\ WritesAreListed'
  <2>1. CASE CheckLimit(t)
    <3> DEFINE d == [op |-> "save", new |-> Head(todo[t]).new]
               e == Step("recent", NoReminder)
    <3>1. todo[t] # <<>> /\ Head(todo[t]).op \in Enders /\ (Stops(t) \/ Pushes(t, {d, e}))
      BY <1>2, <2>1, CheckPushes DEF Enders
    <3>2. d.op # "write" /\ e.op # "write"
      BY DEF Step
    <3> HIDE DEF d, e
    <3>3. \E new : /\ Stops(t) \/ Pushes(t, new)
                   /\ \A x \in new : x.op # "write"
      BY <3>1, <3>2
    <3> QED BY <1>1, <1>2, <3>1, <3>3, PushedSaves
  <2>2. CASE StopTriggerTimer(t) \/ Unlock(t)
    <3>1. todo[t] # <<>> /\ Head(todo[t]).op \notin Savers /\ Pushes(t, {})
      BY <1>2, <2>2, QuietStepsPush DEF Savers, StopTriggerTimer, Unlock, At
    <3> QED BY <1>1, <1>2, <3>1, PushedSaves
  <2>3. CASE FindToShow(t)
    <3> DEFINE d == Step("showAll", Head(todo[t]).id)
               e == Step("recent", NoReminder)
    <3>1. todo[t] # <<>> /\ Head(todo[t]).op \in Enders /\ (Stops(t) \/ Pushes(t, {d, e}))
      BY <1>2, <2>3, FindToShowPushes DEF Enders
    <3>2. d.op # "write" /\ e.op # "write"
      BY DEF Step
    <3> HIDE DEF d, e
    <3>3. \E new : /\ Stops(t) \/ Pushes(t, new)
                   /\ \A x \in new : x.op # "write"
      BY <3>1, <3>2
    <3> QED BY <1>1, <1>2, <3>1, <3>3, PushedSaves
  <2>4. CASE ShowActiveReminderExtend(t)
    <3>1. IsFiniteSet(vector)
      BY IdsAreFinite, FS_Subset DEF Types, Formed, Listed
    <3>2. /\ todo[t] # <<>> /\ Head(todo[t]).op = "showAll"
          /\ \E new : /\ Pushes(t, new)
                      /\ new \subseteq ShowSteps(vector, "timer") \cup {Step("unlock", NoReminder)}
      BY <1>2, <2>4, <3>1, ShowAllPushes
    <3>3. Head(todo[t]).op \in Enders
      BY <3>2 DEF Enders
    <3>4. /\ Step("unlock", NoReminder).op # "write"
          /\ \A d \in ShowSteps(vector, "timer") : d.op # "write"
      BY NoWriteAmongShows DEF Step
    <3> QED BY <1>1, <1>2, <3>2, <3>3, <3>4, PushedSaves
  <2> QED BY <2>1, <2>2, <2>3, <2>4 DEF StillStep
<1> QED
  BY <1>1, <1>3, QuietStored

LEMMA HushStepsStore ==
  ASSUME Types, Single, Stored, NEW t \in Threads, HushStep(t)
  PROVE  Stored'
<1>1. Quieter(Shows, Shows') /\ UNCHANGED containers
  BY HushIsQuieter
<1>2. Lists /\ WritesAreListed
  BY DEF Types, Stored
<1>3. CASE StopSound(t)
  <2> DEFINE d == Step("stopAlertTimer", Head(todo[t]).id)
             new == {x \in {d} : alert.id = Head(todo[t]).id}
  <2>1. todo[t] # <<>> /\ Head(todo[t]).op \notin Savers /\ Pushes(t, new)
    BY <1>2, <1>3, StopSoundPushes DEF Savers
  <2>2. \A x \in new : x.op # "write"
    BY DEF Step
  <2> HIDE DEF new
  <2>3. (\A id : Saved(id) => Saved(id)') /\ WritesAreListed'
    BY <1>1, <1>2, <2>1, <2>2, PushedSaves
  <2> QED BY <1>1, <2>3, QuietStored
<1>4. CASE StopAlertTimer(t) \/ Terminate(t) \/ FindToTerminate(t) \/ TerminateForUser(t)
  <2>1. todo[t] # <<>> /\ Head(todo[t]).op \notin Savers /\ Pushes(t, {})
    BY <1>2, <1>4, QuietStepsPush
       DEF Savers, StopAlertTimer, Terminate, FindToTerminate, TerminateForUser, At, AtLocked
  <2>2. (\A id : Saved(id) => Saved(id)') /\ WritesAreListed'
    BY <1>1, <1>2, <2>1, PushedSaves
  <2> QED BY <1>1, <2>2, QuietStored
<1>5. CASE CoverSameNotification(t)
  <2> PICK id : id = Head(todo[t]).id
    OBVIOUS
  <2> PICK new : new = Writes(id, options)
    OBVIOUS
  <2>1. todo[t] # <<>> /\ Head(todo[t]).id = id /\ Pushes(t, new)
    BY <1>2, <1>5, WritersPush
  <2>2. /\ \A d \in new : d.op = "write" => d.id \in vector
        /\ Persists(id) => \E d \in new : d.op \in Savers /\ d.id = id
    BY ListedWrites DEF Types
  <2>3. /\ \A x : x # id /\ Saved(x) => Saved(x)'
        /\ Persists(id) => Saved(id)'
        /\ WritesAreListed'
    BY <1>1, <1>2, <2>1, <2>2, SaverPushes
  <2> QED BY <1>1, <2>3, QuietStored
<1> QED
  BY <1>3, <1>4, <1>5 DEF HushStep

LEMMA FlagStepsStore ==
  ASSUME Types, Single, Stored, NEW t \in Threads, FlagStep(t)
  PROVE  Stored'
<1> DEFINE id == Head(todo[t]).id
<1>1. Quieter(Shows, Shows') /\ UNCHANGED containers
  BY FlagIsQuieter
<1>2. Lists /\ WritesAreListed
  BY DEF Types, Stored
<1>3. (\A x : Saved(x) => Saved(x)') /\ WritesAreListed'
  <2>1. CASE FindToCancel(t) \/ FindToClose(t) \/ FindToSnooze(t)
    <3> DEFINE e == Step("recent", NoReminder)
    <3>1. /\ todo[t] # <<>> /\ Head(todo[t]).op \in Enders
          /\ \/ Stops(t)
             \/ Pushes(t, Halts(id) \cup {Step("remove", id), e})
             \/ Pushes(t, Halts(id) \cup {Step("closeNow", id), e})
             \/ Pushes(t, Halts(id) \cup {Step("snoozeNow", id)})
      BY <1>2, <2>1, FindToCancelPushes, FindToClosePushes, FindToSnoozePushes DEF Enders
    <3>2. /\ e.op # "write" /\ \A x \in Halts(id) : x.op # "write"
          /\ \A op : Step(op, id).op = op
      BY NoWriteAmongHalts DEF Step
    <3> HIDE DEF e, id
    <3>3. \E new : /\ Stops(t) \/ Pushes(t, new)
                   /\ \A x \in new : x.op # "write"
      BY <3>1, <3>2
    <3> QED BY <1>1, <1>2, <3>1, <3>3, PushedSaves
  <2>2. CASE StartTriggerTimer(t)
    <3>1. /\ todo[t] # <<>> /\ Head(todo[t]).op \notin Savers
          /\ Pushes(t, Writes(id, options))
      BY <1>2, <2>2, WritersPush DEF Savers, StartTriggerTimer, At
    <3>2. \A d \in Writes(id, options) : d.op = "write" => d.id \in vector
      BY ListedWrites DEF Types
    <3> QED BY <1>1, <1>2, <3>1, <3>2, PushedSaves
  <2> QED BY <2>1, <2>2 DEF FlagStep
<1> QED
  BY <1>1, <1>3, QuietStored

LEMMA SaverStores ==
  ASSUME Types, Stored, NEW t \in Threads, todo[t] # <<>>, UNCHANGED containers,
         NEW id, Head(todo[t]).op \in Savers => Head(todo[t]).id = id,
         NEW s, QuieterBut(id, Shows, s), BecomeShows(s),
         NEW new, Pushes(t, new), \A d \in new : d.op = "write" => d.id \in vector,
         Persists(id) => \E d \in new : d.op \in Savers /\ d.id = id
  PROVE  Stored'
<1>1. QuieterBut(id, Shows, Shows')
  BY DEF BecomeShows, QuieterBut, Shows
<1>2. Lists /\ WritesAreListed
  BY DEF Types, Stored
<1>3. /\ \A x : x # id /\ Saved(x) => Saved(x)'
      /\ (\E d \in new : d.op \in Savers /\ d.id = id) => Saved(id)'
      /\ WritesAreListed'
  BY <1>2, SaverPushes
<1> QED
  BY <1>1, <1>3, ButStored

LEMMA ShowStores ==
  ASSUME Types, Stored, NEW t \in Threads, ShowReminder(t)
  PROVE  Stored'
<1> DEFINE made(id, why) ==
             \E answer \in Answers, plays \in BOOLEAN :
               \/ id \notin options /\ BecomeShows(Shows) /\ Pushes(t, {})
               \/ /\ BecomeShows(Shown(id, why, plays, answer))
                  /\ Pushes(t, Writes(id, options))
               \/ /\ LET told == Told(id, why, plays, answer)
                     IN  BecomeShows(Unlist(On(told, id, OnShowFail(told.reminder[id])), id))
                  /\ Pushes(t, Writes(id, options))
               \/ /\ BecomeShows(Published(id, why, plays, answer))
                  /\ Pushes(t, {Step("cover", id)})
               \/ /\ BecomeShows(StartAlertingTimer(
                       PlaySoundAndVibration(Published(id, why, plays, answer), id)))
                  /\ Pushes(t, {Step("cover", id)})
               \/ /\ BecomeShows(PlaySoundAndVibration(Published(id, why, plays, answer), id))
                  /\ Pushes(t, {Step("terminate", id), Step("cover", id)})
<1>1. Lists
  BY DEF Types
<1>2. /\ todo[t] # <<>> /\ Head(todo[t]).op = "show" /\ UNCHANGED containers
      /\ made(Head(todo[t]).id, Head(todo[t]).why)
  BY Zenon, <1>1, ShowPushes
<1> HIDE DEF made
<1> PICK id, why : id = Head(todo[t]).id /\ made(id, why)
  BY <1>2
<1> DEFINE cover == Step("cover", id)
           ends == Step("terminate", id)
<1>3. id \in Given
  BY <1>2, HeadIsDoable DEF Named
<1>4. ASSUME NEW s, QuieterBut(id, Shows, s), BecomeShows(s), NEW new, Pushes(t, new),
             \A d \in new : d.op = "write" => d.id \in vector,
             Persists(id) => \E d \in new : d.op \in Savers /\ d.id = id
      PROVE  Stored'
  BY <1>2, <1>4, SaverStores
<1>5. ASSUME NEW s, QuieterBut(id, Shows, s), BecomeShows(s),
             Pushes(t, Writes(id, options)) \/ Pushes(t, {cover}) \/ Pushes(t, {ends, cover})
      PROVE  Stored'
  <2>1. /\ \A d \in Writes(id, options) : d.op = "write" => d.id \in vector
        /\ Persists(id) => \E d \in Writes(id, options) : d.op \in Savers /\ d.id = id
    BY ListedWrites DEF Types
  <2>2. cover.op = "cover" /\ cover.id = id /\ ends.op # "write" /\ "cover" \in Savers
    BY DEF Step, Savers
  <2> HIDE DEF cover, ends
  <2>3. PICK new : /\ Pushes(t, new)
                   /\ new = Writes(id, options) \/ new = {cover} \/ new = {ends, cover}
    BY <1>5
  <2>4. /\ \A d \in new : d.op = "write" => d.id \in vector
        /\ Persists(id) => \E d \in new : d.op \in Savers /\ d.id = id
    BY <2>1, <2>2, <2>3
  <2> QED BY <1>4, <1>5, <2>3, <2>4
<1> HIDE DEF cover, ends
<1>6. CASE id \notin options /\ BecomeShows(Shows) /\ Pushes(t, {})
  <2>1. ~Persists(id)
    BY <1>6 DEF Persists, Types, Formed, Listed
  <2>2. QuieterBut(id, Shows, Shows)
    BY ShowsAre DEF QuieterBut, Types, Carried, Same
  <2> QED BY <1>4, <1>6, <2>1, <2>2
<1>7. \A answer, plays :
        /\ QuieterBut(id, Shows, Shown(id, why, plays, answer))
        /\ LET told == Told(id, why, plays, answer)
           IN  QuieterBut(id, Shows, Unlist(On(told, id, OnShowFail(told.reminder[id])), id))
        /\ QuieterBut(id, Shows, Published(id, why, plays, answer))
        /\ LET p == PlaySoundAndVibration(Published(id, why, plays, answer), id)
           IN  QuieterBut(id, Shows, p) /\ QuieterBut(id, Shows, StartAlertingTimer(p))
  <2> TAKE answer, plays
  <2>1. QuieterBut(id, Shows, Shown(id, why, plays, answer))
    BY <1>3, ShownIs
  <2>2. LET told == Told(id, why, plays, answer)
        IN  Lit(id, Unlist(On(told, id, OnShowFail(told.reminder[id])), id))
    BY <1>3, FailedIsQuieter
  <2>3. LET s == Published(id, why, plays, answer)
            p == PlaySoundAndVibration(s, id)
        IN  Lit(id, s) /\ Lit(id, p) /\ Lit(id, StartAlertingTimer(p))
    BY <1>3, PublishedIsLit
  <2> QED BY <2>1, <2>2, <2>3 DEF Lit
<1> QED
  BY <1>5, <1>6, <1>7 DEF made, cover, ends

LEMMA CloseStores ==
  ASSUME Types, Stored, NEW t \in Threads, Close(t)
  PROVE  Stored'
<1> PICK id : id = Head(todo[t]).id
  OBVIOUS
<1> DEFINE q(updates) == OnClose(reminder[id], clock, updates)
           r == q(TRUE)
           off == On(Shows, id, r)
           s == Unlist(off, id)
<1>1. /\ todo[t] # <<>> /\ Head(todo[t]).op = "closeNow" /\ Pushes(t, Writes(id, options))
      /\ UNCHANGED containers
      /\ BecomeShows(CancelNotification(s, id, options))
  BY WritersPush, ShowsAre DEF Types, Close, At, CloseReminder
<1>2. id \in Given /\ id \in Ids /\ reminder[id] \in Reminders /\ clock \in Clocks
  BY <1>1, HeadIsDoable DEF Named, Types
<1>3. \A updates : /\ q(updates) \in Reminders /\ Same(reminder[id], q(updates))
                   /\ ~Is(q(updates), "showing")
  BY <1>2, OnCloseIsReminder
<1> HIDE DEF q
<1>4. r \in Reminders /\ Same(reminder[id], r) /\ ~Is(r, "showing")
  BY Zenon, <1>3
<1> HIDE DEF r
<1>5. Whole(off) /\ QuieterBut(id, Shows, off) /\ off.reminder[id] = r
  BY <1>2, <1>4, OnIsQuieterBut, ShowsAre, ShowsAreWhole
<1>6. ~Is(off.reminder[id], "showing")
  BY <1>4, <1>5
<1> HIDE DEF off
<1>7. Quieter(off, s) /\ s.reminder = off.reminder
  BY <1>5, <1>6, UnlistIsQuieter
<1>8. CancelNotification(s, id, options) = s
  BY <1>6, <1>7 DEF CancelNotification
<1> HIDE DEF s
<1>9. QuieterBut(id, Shows, s)
  BY <1>5, <1>7, ThenQuieter
<1> PICK new : new = Writes(id, options)
  OBVIOUS
<1>10. /\ \A d \in new : d.op = "write" => d.id \in vector
       /\ Persists(id) => \E d \in new : d.op \in Savers /\ d.id = id
  BY ListedWrites DEF Types
<1> QED
  BY <1>1, <1>8, <1>9, <1>10, SaverStores

LEMMA SnoozeStores ==
  ASSUME Types, Stored, NEW t \in Threads, Snooze(t)
  PROVE  Stored'
<1> PICK id : id = Head(todo[t]).id
  OBVIOUS
<1> DEFINE e == Step("recent", NoReminder)
           q == OnSnooze(reminder[id], clock)
           later == On(Shows, id, q)
           again == [later EXCEPT !.panel = @ \cup {Note(reminder[id])}]
<1>1. /\ todo[t] # <<>> /\ Head(todo[t]).op = "snoozeNow"
      /\ UNCHANGED containers
      /\ BecomeShows(later) \/ BecomeShows(again)
  BY DEF Snooze, At
<1>2. id \in Given /\ id \in Ids /\ reminder[id] \in Reminders /\ clock \in Clocks
  BY <1>1, HeadIsDoable DEF Named, Types
<1>3. q \in Reminders /\ Same(reminder[id], q)
  BY <1>2, OnSnoozeIsReminder
<1> HIDE DEF q
<1>4. Whole(later) /\ QuieterBut(id, Shows, later)
  BY <1>2, <1>3, OnIsQuieterBut, ShowsAre, ShowsAreWhole
<1> HIDE DEF later
<1>5. Quieter(later, again)
  BY <1>4, PublishIsQuieter
<1> HIDE DEF again
<1>6. QuieterBut(id, Shows, again)
  BY <1>4, <1>5, ThenQuieter
<1>7. IF id \notin options THEN Pushes(t, {}) ELSE Pushes(t, Writes(id, options) \cup {e})
  BY Zenon, SnoozePushes DEF Snooze, Types
<1>8. e.op # "write"
  BY DEF Step
<1> HIDE DEF e
<1>9. \E new : /\ Pushes(t, new)
               /\ \A d \in new : d.op = "write" => d.id \in vector
               /\ Persists(id) => \E d \in new : d.op \in Savers /\ d.id = id
  <2>1. /\ \A d \in Writes(id, options) : d.op = "write" => d.id \in vector
        /\ Persists(id) => \E d \in Writes(id, options) : d.op \in Savers /\ d.id = id
    BY ListedWrites DEF Types
  <2>2. vector = options
    BY DEF Types, Formed, Listed
  <2>3. CASE id \notin options
    BY <1>7, <2>2, <2>3 DEF Persists
  <2>4. CASE id \in options
    <3>1. \A d \in Writes(id, options) \cup {e} : d.op = "write" => d.id \in vector
      BY <1>8, <2>1
    <3>2. Persists(id) => \E d \in Writes(id, options) \cup {e} : d.op \in Savers /\ d.id = id
      BY <2>1
    <3> QED BY <1>7, <2>4, <3>1, <3>2
  <2> QED BY <2>3, <2>4
<1>10. Head(todo[t]).op \notin Savers
  BY <1>1 DEF Savers
<1> QED
  BY <1>1, <1>4, <1>6, <1>9, <1>10, SaverStores

LEMMA WriteStores ==
  ASSUME Types, Stored, NEW t \in Threads, Write(t)
  PROVE  Stored'
<1> PICK id : id = Head(todo[t]).id
  OBVIOUS
<1> DEFINE row == Row(reminder[id])
<1>1. /\ todo[t] # <<>> /\ Head(todo[t]).op = "write"
      /\ rows' = [rows EXCEPT ![id] = row]
      /\ UNCHANGED containers /\ reminder' = reminder
  BY DEF Write, At
<1>2. id \in Ids /\ reminder[id].kind.type # "timer"
  BY <1>1, HeadIsDoable DEF Named, Doable
<1>3. Lists /\ WritesAreListed /\ Head(todo[t]) \in Pending
  BY <1>1, HeadIsPending DEF Types, Stored
<1>4. Persists(id)
  BY <1>1, <1>2, <1>3 DEF WritesAreListed, Persists
<1> HIDE DEF row
<1>5. rows'[id] = row /\ \A x \in Ids \ {id} : rows'[x] = rows[x]
  BY <1>1, <1>2 DEF Types
<1>6. Pushes(t, {})
  BY <1>3, QuietStepsPush
<1>7. (\A x : x # id /\ Saved(x) => Saved(x)') /\ WritesAreListed'
  <2> PICK new : new = {}
    OBVIOUS
  <2>1. Pushes(t, new) /\ (\A d \in new : d.op = "write" => d.id \in vector)
    BY <1>6
  <2> QED BY <1>1, <1>3, <2>1, SaverPushes
<1>8. Carried(reminder, reminder')
  BY <1>1 DEF Types, Carried, Same
<1>9. reminder' = reminder /\ vector' = vector /\ ready' = ready
  BY <1>1 DEF containers
<1>10. \A x \in Ids : rows'[x] = rows[x] \/ (Persists(x) /\ rows'[x] = Row(reminder'[x]))
  BY <1>4, <1>5, <1>9 DEF row
<1>11. \A x \in vector : Persists(x) =>
           \/ Row(reminder'[x]) = Row(reminder[x]) /\ (Saved(x) => Saved(x)')
           \/ Saved(x)'
           \/ rows'[x] = Row(reminder'[x])
  BY <1>5, <1>7, <1>9 DEF row
<1> QED
  BY <1>7, <1>8, <1>9, <1>10, <1>11, StoredStays

(* Where nothing was to be written, the rows are those of the listed.      *)
LEMMA CleanRows ==
  ASSUME Lists, Single, Stored, NEW t \in Threads, todo[t] # <<>>, Head(todo[t]).op \in Enders
  PROVE  /\ ready => \A id \in Ids : rows[id] = IF Persists(id) THEN Row(reminder[id]) ELSE NoRow
         /\ \A d \in Left(t) : d.op = "recent"
  BY EnderSavesNothing, AloneIs DEF Stored

LEMMA NewRowsAreStored ==
  ASSUME Types, Carried(reminder, reminder'), vector' \subseteq vector, ready' = ready,
         ready => \A id \in Ids :
           rows'[id] = IF Persists(id) /\ id \in vector' THEN Row(reminder'[id]) ELSE NoRow,
         WritesAreListed'
  PROVE  Stored'
<1>1. \A id \in vector : reminder'[id].kind = reminder[id].kind
  BY DEF Types, Given, Carried, Same
<1>2. \A id \in Ids : Persists(id)' <=> Persists(id) /\ id \in vector'
  BY <1>1 DEF Persists
<1> QED
  BY <1>2 DEF Stored

LEMMA RecentStores ==
  ASSUME Types, Single, Stored, NEW t \in Threads, StartRecentReminder(t)
  PROVE  Stored'
<1> DEFINE active == activeReminderId
<1>1. todo[t] # <<>> /\ Head(todo[t]).op = "recent" /\ Lists
  BY DEF StartRecentReminder, AtLocked, At, Types
<1> PICK known : known = options'
  OBVIOUS
<1>2. PICK next \in Recent \cup {NoReminder}, gone \in SUBSET vector :
        /\ GetRecentReminder(t, next, gone)
        /\ \/ Pushes(t, {}) /\ UNCHANGED reminder
           \/ /\ OnStopActive(active)
              /\ Pushes(t, Writes(active, known)
                             \cup {Step("stopTimer", next), Step("startTimer", next)})
           \/ UNCHANGED reminder /\ Pushes(t, {Step("startTimer", next)})
  BY RecentPushes DEF Types
<1>3. /\ vector' = vector \ gone /\ known = vector' /\ ready' = ready
      /\ rows' = [id \in Ids |-> IF id \in gone THEN NoRow ELSE rows[id]]
  BY <1>2 DEF GetRecentReminder, Erase, Types, Formed, Listed
<1>4. /\ ready => \A id \in Ids : rows[id] = IF Persists(id) THEN Row(reminder[id]) ELSE NoRow
      /\ \A d \in Left(t) : d.op = "recent"
  BY <1>1, CleanRows DEF Enders
<1>5. Carried(reminder, reminder') /\ \A x \in vector : Row(reminder'[x]) = Row(reminder[x])
  <2>1. UNCHANGED reminder => Carried(reminder, reminder')
    BY DEF Types, Carried, Same
  <2> QED BY <1>2, <2>1, StopActiveIsCarried
<1>6. WritesAreListed'
  <2> DEFINE stop == Step("stopTimer", next)
             start == Step("startTimer", next)
  <2>1. stop.op # "write" /\ start.op # "write"
    BY DEF Step
  <2>2. \A d \in Writes(active, known) : d.id \in vector'
    BY <1>3 DEF Writes, Step
  <2>3. \E new : /\ Pushes(t, new)
                 /\ new = {} \/ new = Writes(active, known) \cup {stop, start} \/ new = {start}
    BY <1>2
  <2> HIDE DEF stop, start
  <2> QED BY <1>4, <2>1, <2>2, <2>3 DEF Pushes, WritesAreListed
<1>7. \A id \in Ids : Persists(id) => id \in vector
  BY DEF Persists
<1>8. ready => \A id \in Ids :
        rows'[id] = IF Persists(id) /\ id \in vector' THEN Row(reminder'[id]) ELSE NoRow
  BY <1>3, <1>4, <1>5, <1>7
<1> QED
  BY <1>3, <1>5, <1>6, <1>8, NewRowsAreStored

LEMMA RemoveStores ==
  ASSUME Types, Single, Stored, NEW t \in Threads, RemoveReminder(t)
  PROVE  Stored'
<1> DEFINE id == Head(todo[t]).id
           removed == IF id \in vector THEN [Shows EXCEPT !.rows[id] = NoRow] ELSE Shows
<1> PICK known : known = options'
  OBVIOUS
<1>1. /\ todo[t] # <<>> /\ Head(todo[t]).op = "remove" /\ Lists
      /\ Erase({id}) /\ BecomeShows(CancelNotification(removed, id, known))
  BY DEF RemoveReminder, AtLocked, At, Types
<1>2. vector' = vector \ {id} /\ known = options \ {id} /\ ready' = ready
  BY <1>1 DEF Erase
<1>3. CancelNotification(removed, id, known) = removed
  BY <1>2 DEF CancelNotification
<1>4. /\ removed.reminder = reminder
      /\ removed.rows = IF id \in vector THEN [rows EXCEPT ![id] = NoRow] ELSE rows
  BY DEF Shows
<1> HIDE DEF removed
<1>5. /\ reminder' = reminder
      /\ rows' = IF id \in vector THEN [rows EXCEPT ![id] = NoRow] ELSE rows
  BY <1>1, <1>3, <1>4 DEF BecomeShows
<1>6. /\ ready => \A x \in Ids : rows[x] = IF Persists(x) THEN Row(reminder[x]) ELSE NoRow
      /\ \A d \in Left(t) : d.op = "recent"
  BY <1>1, CleanRows DEF Enders
<1>7. Carried(reminder, reminder')
  BY <1>5 DEF Types, Carried, Same
<1>8. WritesAreListed'
  BY <1>6, QuietStepsPush DEF Pushes, WritesAreListed, Types
<1>9. \A x \in Ids : Persists(x) => x \in vector
  BY DEF Persists
<1>10. rows = [x \in Ids |-> rows[x]]
  BY DEF Types
<1> HIDE DEF id
<1>11. \A x \in Ids : rows'[x] = IF x = id /\ id \in vector THEN NoRow ELSE rows[x]
  BY <1>5, <1>10
<1>12. ready => \A x \in Ids :
         rows'[x] = IF Persists(x) /\ x \in vector' THEN Row(reminder'[x]) ELSE NoRow
  BY <1>2, <1>5, <1>6, <1>9, <1>11
<1> QED
  BY <1>2, <1>7, <1>8, <1>12, NewRowsAreStored

LEMMA CancelAllStores ==
  ASSUME Types, Single, Stored, NEW t \in Threads, CancelRemindersImpl(t)
  PROVE  Stored'
<1> DEFINE apps == Head(todo[t]).apps
           matched == {id \in vector \cap options : reminder[id].app \in apps}
<1>1. /\ Erase(matched)
      /\ reminder' = reminder \/ OnStopActive(activeReminderId)
      /\ rows' = [id \in Ids |-> IF rows[id] # NoRow /\ rows[id].app \in apps
                                 THEN NoRow ELSE rows[id]]
  BY CancelAllMakes
<1>2. todo[t] # <<>> /\ Head(todo[t]).op = "cancelAll" /\ Lists
  BY DEF CancelRemindersImpl, AtLocked, At, Types
<1>3. /\ vector' = vector \ matched /\ ready' = ready
      /\ \A id \in vector : id \in vector' <=> reminder[id].app \notin apps
  BY <1>1 DEF Erase, Types, Formed, Listed
<1> HIDE DEF apps, matched
<1>4. /\ ready => \A id \in Ids : rows[id] = IF Persists(id) THEN Row(reminder[id]) ELSE NoRow
      /\ \A d \in Left(t) : d.op = "recent"
  BY <1>2, CleanRows DEF Enders
<1>5. Carried(reminder, reminder') /\ \A x \in vector : Row(reminder'[x]) = Row(reminder[x])
  <2>1. UNCHANGED reminder => Carried(reminder, reminder')
    BY DEF Types, Carried, Same
  <2> QED BY <1>1, <2>1, StopActiveIsCarried
<1>6. WritesAreListed'
  BY <1>4, QuietStepsPush DEF Pushes, WritesAreListed, Types
<1>7. \A id \in Ids : Persists(id) =>
        /\ id \in vector /\ Row(reminder[id]) \in Rows /\ Row(reminder[id]).app = reminder[id].app
  <2>1. \A id \in vector : reminder[id] \in Reminders
    BY DEF Types, Given
  <2> QED BY <2>1, RowIsKept DEF Persists, Same
<1>8. ready => \A id \in Ids :
        rows'[id] = IF Persists(id) /\ id \in vector' THEN Row(reminder'[id]) ELSE NoRow
  <2> SUFFICES ASSUME ready, NEW id \in Ids
               PROVE  rows'[id] = IF Persists(id) /\ id \in vector' THEN Row(reminder'[id]) ELSE NoRow
    OBVIOUS
  <2>1. rows'[id] = IF rows[id] # NoRow /\ rows[id].app \in apps THEN NoRow ELSE rows[id]
    BY <1>1
  <2>2. CASE ~Persists(id)
    BY <1>4, <2>1, <2>2
  <2>3. CASE Persists(id) /\ reminder[id].app \in apps
    BY <1>3, <1>4, <1>7, <2>1, <2>3
  <2>4. CASE Persists(id) /\ reminder[id].app \notin apps
    BY <1>3, <1>4, <1>5, <1>7, <2>1, <2>4
  <2> QED BY <2>2, <2>3, <2>4
<1> QED
  BY <1>3, <1>5, <1>6, <1>8, NewRowsAreStored

LEMMA RefreshStores ==
  ASSUME Types, Single, Stored, NEW t \in Threads, RefreshReminders(t)
  PROVE  Stored'
<1>1. /\ UNCHANGED containers /\ Carried(reminder, reminder')
      /\ \A id \in Ids : rows'[id] = IF id \in vector /\ reminder[id].kind.type # "timer"
                                     THEN Row(reminder'[id]) ELSE rows[id]
  BY RefreshMakes
<1>2. Lists /\ IsFiniteSet(vector)
  BY IdsAreFinite, FS_Subset DEF Types, Formed, Listed
<1> DEFINE e == Step("recent", NoReminder)
<1>3. /\ todo[t] # <<>> /\ Head(todo[t]).op = "refresh"
      /\ \E new \in SUBSET ShowSteps(vector, "clock") : Pushes(t, new \cup {e})
  BY <1>2, RefreshPushes
<1>4. /\ ready => \A id \in Ids : rows[id] = IF Persists(id) THEN Row(reminder[id]) ELSE NoRow
      /\ \A d \in Left(t) : d.op = "recent"
  BY <1>2, <1>3, CleanRows DEF Enders
<1>5. WritesAreListed'
  <2>1. e.op # "write" /\ \A d \in ShowSteps(vector, "clock") : d.op # "write"
    BY NoWriteAmongShows DEF Step
  <2> HIDE DEF e
  <2> QED BY <1>3, <1>4, <2>1 DEF Pushes, WritesAreListed
<1>6. ready => \A id \in Ids :
        rows'[id] = IF Persists(id) /\ id \in vector' THEN Row(reminder'[id]) ELSE NoRow
  BY <1>1, <1>4 DEF Persists, containers
<1> QED
  BY <1>1, <1>5, <1>6, NewRowsAreStored DEF containers

LEMMA OverdueStores ==
  ASSUME Types, Single, Stored, NEW t \in Threads, ShowOverdue(t)
  PROVE  Stored'
<1>1. Lists /\ IsFiniteSet(vector)
  BY IdsAreFinite, FS_Subset DEF Types, Formed, Listed
<1> DEFINE e == Step("recent", NoReminder)
<1>2. /\ todo[t] # <<>> /\ Head(todo[t]).op = "serviceStart"
      /\ \E S \in SUBSET vector, new \in SUBSET ShowSteps(vector, "service") :
           /\ reminder' = [id \in Ids |->
                IF id \in S /\ reminder[id].kind.type # "timer"
                THEN [reminder[id] EXCEPT !.snoozesLeft = 0] ELSE reminder[id]]
           /\ Pushes(t, new \cup {e})
           /\ \A x \in S : \E b \in BOOLEAN : ShowStep(x, b, "service") \in new
  BY Zenon, <1>1, OverduePushes
<1>3. PICK S \in SUBSET vector, new \in SUBSET ShowSteps(vector, "service") :
        /\ reminder' = [id \in Ids |->
             IF id \in S /\ reminder[id].kind.type # "timer"
             THEN [reminder[id] EXCEPT !.snoozesLeft = 0] ELSE reminder[id]]
        /\ Pushes(t, new \cup {e})
        /\ \A x \in S : \E b \in BOOLEAN : ShowStep(x, b, "service") \in new
  BY <1>2
<1>4. UNCHANGED <<vector, ready, rows>>
  BY DEF ShowOverdue, containers
<1>5. /\ \A id : ~Saved(id)
      /\ \A d \in Left(t) : d.op = "recent"
  BY <1>1, <1>2, EnderSavesNothing, AloneIs DEF Enders
<1>6. WritesAreListed'
  <2>1. e.op # "write" /\ \A d \in ShowSteps(vector, "service") : d.op # "write"
    BY NoWriteAmongShows DEF Step
  <2> HIDE DEF e
  <2> QED BY <1>3, <1>5, <2>1 DEF Pushes, WritesAreListed
<1>7. \A x \in S : Saved(x)'
  <2>1. \A x : \A b : ShowStep(x, b, "service").op = "show" /\ ShowStep(x, b, "service").id = x
    BY DEF ShowStep
  <2>2. \A x \in S : \E d \in Pending' : d.op = "show" /\ d.id = x
    <3> HIDE DEF e
    <3> QED BY <1>3, <2>1 DEF Pushes
  <2> QED BY <2>2 DEF Saved, Savers
<1>8. Carried(reminder, reminder')
  <2>1. ASSUME NEW r \in Reminders
        PROVE  LET q == [r EXCEPT !.snoozesLeft = 0]
               IN  q \in Reminders /\ Same(r, q)
    <3>1. r.kind.times \in Nat
      BY KindsAre DEF Reminders
    <3>2. 0 \in 0 .. r.kind.times
      BY <3>1
    <3> QED BY <3>2, SnoozesAreSet
  <2>2. reminder' = [id \in Ids |-> reminder'[id]]
    BY <1>3
  <2>3. \A id \in Ids : reminder[id] \in Reminders =>
          reminder'[id] \in Reminders /\ Same(reminder[id], reminder'[id])
    BY <1>3, <2>1 DEF Same
  <2> QED BY <2>2, <2>3 DEF Carried
<1>9. \A id \in vector : id \in S \/ reminder'[id] = reminder[id]
  BY <1>3 DEF Types, Given
<1> QED
  BY <1>4, <1>5, <1>6, <1>7, <1>8, <1>9, StoredStays

LEMMA SaveStores ==
  ASSUME Types, Single, Stored, NEW t \in Threads, UpdateAndSaveReminder(t)
  PROVE  Stored'
<1> PICK new : new = Head(todo[t]).new
  OBVIOUS
<1> PICK id : id = lastId + 1
  OBVIOUS
<1> DEFINE row == IF new.kind.type = "timer" THEN rows[id] ELSE Row(new)
<1>1. /\ todo[t] # <<>> /\ Head(todo[t]).op = "save"
      /\ id \in Ids /\ vector' = vector \cup {id}
      /\ reminder' = [reminder EXCEPT ![id] = new] /\ rows' = [rows EXCEPT ![id] = row]
      /\ ready' = ready
  BY DEF UpdateAndSaveReminder, AtLocked, At
<1>2. /\ lastId \in Int /\ vector \subseteq Given /\ Lists
      /\ reminder = [x \in Ids |-> reminder[x]] /\ rows = [x \in Ids |-> rows[x]]
  BY DEF Types, Formed, Listed
<1>3. id \notin vector
  <2>1. id \in Int /\ id > lastId
    BY <1>2
  <2> QED BY <1>2, <2>1 DEF Given
<1> HIDE DEF row
<1>4. /\ reminder'[id] = new /\ rows'[id] = row
      /\ \A x \in Ids \ {id} : reminder'[x] = reminder[x] /\ rows'[x] = rows[x]
  BY <1>1, <1>2
<1>5. /\ ready => \A x \in Ids : rows[x] = IF Persists(x) THEN Row(reminder[x]) ELSE NoRow
      /\ \A d \in Left(t) : d.op = "recent"
  BY <1>1, <1>2, CleanRows DEF Enders
<1>6. WritesAreListed'
  BY <1>2, <1>5, QuietStepsPush DEF Pushes, WritesAreListed
<1>7. /\ Persists(id)' <=> new.kind.type # "timer"
      /\ ~Persists(id)
      /\ \A x \in Ids \ {id} : Persists(x)' <=> Persists(x)
  BY <1>1, <1>3, <1>4 DEF Persists
<1>8. row = IF new.kind.type = "timer" THEN rows[id] ELSE Row(new)
  BY DEF row
<1>9. ready' => \A x \in Ids :
        IF Persists(x)' THEN rows'[x] = Row(reminder'[x]) ELSE rows'[x] = NoRow
  BY <1>1, <1>4, <1>5, <1>7, <1>8
<1> QED
  BY <1>6, <1>9 DEF Stored

LEMMA LoadStores ==
  ASSUME Types, Single, Stored, NEW t \in Threads, LoadReminderFromDb(t)
  PROVE  Stored'
<1> DEFINE stored == {id \in Ids : rows[id] # NoRow}
<1>1. /\ todo[t] # <<>> /\ Head(todo[t]).op = "load" /\ reminder' = rows' /\ Lists
      /\ \E kept \in SUBSET stored :
           /\ vector' = kept
           /\ rows' = [id \in Ids |-> IF id \in kept THEN rows[id] ELSE NoRow]
  BY DEF LoadReminderFromDb, AtLocked, At, Types
<1>2. PICK kept \in SUBSET stored :
        /\ vector' = kept
        /\ rows' = [id \in Ids |-> IF id \in kept THEN rows[id] ELSE NoRow]
  BY <1>1
<1>3. \A d \in Left(t) : d.op = "recent"
  BY <1>1, CleanRows DEF Enders
<1>4. WritesAreListed'
  BY <1>3, QuietStepsPush DEF Pushes, WritesAreListed, Types
<1>5. \A id \in kept : id \in Ids /\ rows'[id] \in Rows
  BY <1>2 DEF Types
<1>6. \A id \in Ids : IF Persists(id)' THEN rows'[id] = Row(reminder'[id]) ELSE rows'[id] = NoRow
  <2>1. \A id \in kept : Persists(id)' /\ Row(reminder'[id]) = reminder'[id]
    BY <1>1, <1>2, <1>5, RowOfRow DEF Persists, Rows
  <2>2. \A id \in Ids \ kept : ~Persists(id)' /\ rows'[id] = NoRow
    BY <1>2 DEF Persists
  <2> QED BY <1>1, <2>1, <2>2
<1> QED
  BY <1>4, <1>6 DEF Stored

(* A handler begins where nothing else is to do. *)
LEMMA AddedStores ==
  ASSUME Types, Stored, NEW new, Adds(new), \A d \in new : Begun(d),
         Quieter(Shows, Shows'), UNCHANGED containers
  PROVE  Stored'
<1>1. \A d \in new : d.op # "write"
  BY DEF Begun, Begins
<1>2. Pending' = Pending \cup new
  BY DEF Adds
<1>3. WritesAreListed'
  BY <1>1, <1>2 DEF WritesAreListed, Stored, containers
<1>4. \A id \in Ids : Saved(id) => Saved(id)'
  BY <1>2 DEF Saved
<1> QED
  BY <1>3, <1>4, QuietStored

LEMMA ProcessDiedStores ==
  ASSUME MaxBusy <= 1, Types, Single, Stored, OnProcessDied
  PROVE  Stored'
<1>1. UNCHANGED containers /\ Carried(reminder, reminder')
  BY ProcessDiedMakes
<1>2. PICK kept \in SUBSET vector :
        /\ \A x \in kept : reminder[x].kind.type # "timer"
        /\ \A x \in vector \ kept :
             reminder[x].kind.type = "timer" \/ reminder'[x] = reminder[x]
        /\ rows' = [id \in Ids |-> IF id \in kept THEN Row(reminder'[id]) ELSE rows[id]]
  BY ProcessDiedMakes
<1>3. Pending = {}
  BY BeginsAlone, IdleHasNothing DEF OnEvent
<1>4. ready => \A id \in Ids : rows[id] = IF Persists(id) THEN Row(reminder[id]) ELSE NoRow
  BY <1>3 DEF Stored, Saved
<1>5. \E new : Adds(new) /\ \A d \in new : Begun(d)
  BY EventsAdd DEF OnEvent
<1>6. WritesAreListed'
  BY <1>3, <1>5 DEF WritesAreListed, Adds, Begun, Begins
<1>7. vector' = vector /\ ready' = ready
  BY <1>1 DEF containers
<1>8. ready => \A id \in Ids :
        rows'[id] = IF Persists(id) /\ id \in vector' THEN Row(reminder'[id]) ELSE NoRow
  <2>1. \A id \in Ids : rows'[id] = IF id \in kept THEN Row(reminder'[id]) ELSE rows[id]
    BY <1>2
  <2>2. \A id \in Ids : Persists(id) <=> id \in vector /\ reminder[id].kind.type # "timer"
    BY DEF Persists
  <2> QED BY <1>2, <1>4, <1>7, <2>1, <2>2
<1> QED
  BY <1>1, <1>6, <1>7, <1>8, NewRowsAreStored

LEMMA RestartStores ==
  ASSUME Types, Stored, Restart
  PROVE  Stored'
<1> DEFINE d == Step("serviceStart", NoReminder)
           s == <<d>>
<1>1. ready' = FALSE /\ \E t \in Callers : todo' = [u \in Threads |-> When(u = t, s)]
  BY DEF Restart
<1>2. Elements(s) = {d} /\ d.op # "write" /\ Proper(s)
  BY OneIsProper DEF Step
<1> HIDE DEF s, d
<1>3. \A c \in BOOLEAN : Elements(When(c, s)) \subseteq {d}
  BY <1>2, WhenIsProper
<1>4. Pending' \subseteq {d}
  <2>1. PICK t \in Callers : todo' = [u \in Threads |-> When(u = t, s)]
    BY <1>1
  <2>2. \A u \in Threads : Elements(todo'[u]) \subseteq {d}
    BY <1>3, <2>1
  <2> QED BY <2>2 DEF Pending
<1>5. WritesAreListed'
  BY <1>2, <1>4 DEF WritesAreListed
<1> QED
  BY <1>1, <1>5 DEF Stored

LEMMA NextStores ==
  ASSUME MaxBusy <= 1, Types, Single, Stored, [Next]_vars
  PROVE  Stored'
<1>1. ASSUME NEW t \in Threads, Proceed(t) PROVE Stored'
  BY <1>1, StillStepsStore, HushStepsStore, FlagStepsStore, ShowStores, CloseStores,
     SnoozeStores, WriteStores, RecentStores, RemoveStores, CancelAllStores, OverdueStores,
     RefreshStores, SaveStores, LoadStores DEF Proceed, StillStep, HushStep, FlagStep
<1>2. ASSUME NEW t \in Callers, Caller(t) PROVE Stored'
  <2>1. /\ UNCHANGED <<containers, shows>>
        /\ \E new : Adds(new) /\ \A d \in new : Begun(d)
    BY <1>2, CallsAdd
  <2>2. Quieter(Shows, Shows')
    BY <2>1, SameIsQuieter DEF shows
  <2> QED BY <2>1, <2>2, AddedStores
<1>3. CASE OnEvent
  <2>1. CASE OnProcessDied
    BY <2>1, ProcessDiedStores
  <2>2. CASE ~OnProcessDied
    <3>1. \E new : Adds(new) /\ \A d \in new : Begun(d)
      BY <1>3, EventsAdd
    <3>2. Quieter(Shows, Shows') /\ UNCHANGED containers
      BY <1>3, <2>2, EventIsQuieter
    <3> QED BY <3>1, <3>2, AddedStores
  <2> QED BY <2>1, <2>2
<1>4. CASE UNCHANGED <<containers, reminder, rows, todo>>
  <2>1. Pending' = Pending /\ UNCHANGED <<vector, ready, reminder, rows>>
    BY <1>4 DEF Pending, containers
  <2> QED BY <2>1 DEF Stored, Persists, Saved, WritesAreListed
<1>5. Environment /\ ~Restart => UNCHANGED <<containers, reminder, rows, todo>>
  BY DEF Environment, Tick, TimerFires, SetTime, Press, Announce, shows
<1>6. UNCHANGED vars => UNCHANGED <<containers, reminder, rows, todo>>
  BY DEF vars, shows
<1> QED
  BY <1>1, <1>2, <1>3, <1>4, <1>5, <1>6, RestartStores DEF Next

LEMMA InitIsStored == Init => Single /\ Stored
<1> SUFFICES ASSUME Init PROVE Single /\ Stored
  OBVIOUS
<1>1. \A t \in Threads : todo[t] = <<>>
  BY DEF Init
<1>2. Pending = {}
  BY <1>1, IdleHasNothing
<1>3. vector = {} /\ \A id \in Ids : rows[id] = NoRow
  BY DEF Init
<1> QED
  BY <1>1, <1>2, <1>3 DEF Single, Stored, WritesAreListed, Persists

(* With one handler at a time, the database has the listed reminders when  *)
(* none is under way, but for timers, as they are: every handler, whatever *)
(* it does and in whatever order its steps come, has written what it has   *)
(* changed and removed what it has removed by the time it ends.            *)
THEOREM RestartKeepsWhatIsListed ==
  ASSUME MaxBusy <= 1
  PROVE  Spec => []RestartLosesNothing
<1>1. Init => Types /\ Single /\ Stored
  BY InitIsTyped, InitIsStored
<1>2. Types /\ Single /\ Stored /\ [Next]_vars => (Types /\ Single /\ Stored)'
  BY NextKeepsTypes, NextKeepsSingle, NextStores
<1>3. Types /\ Single /\ Stored => RestartLosesNothing
  <2> SUFFICES ASSUME Types, Stored, Idle, ready, NEW id \in Ids
               PROVE  rows[id] = IF id \in vector /\ reminder[id].kind.type # "timer"
                                 THEN Row(reminder[id]) ELSE NoRow
    BY DEF RestartLosesNothing
  <2>1. \A t \in Threads : todo[t] = <<>>
    BY DEF Idle, Busy
  <2>2. Pending = {}
    BY <2>1, IdleHasNothing
  <2> QED BY <2>2 DEF Stored, Persists, Saved
<1> QED
  BY <1>1, <1>2, <1>3, PTL DEF Spec

----------------------------------------------------------------------------
(* The sound.  What helpers make of shows leaves the alert and its timer   *)
(* as they are, or ends both.                                              *)

Calmer(s, t) ==
  \/ t.alert = Quiet
  \/ t.alert = s.alert /\ \A timer \in s.timers : timer.kind = "timeout" => timer \in t.timers

LEMMA SameIsCalmer ==
  ASSUME NEW s, NEW t, t.alert = s.alert, t.timers = s.timers
  PROVE  Calmer(s, t)
  BY DEF Calmer

LEMMA CalmerIsTransitive ==
  ASSUME NEW s, NEW t, NEW u, Calmer(s, t), Calmer(t, u)
  PROVE  Calmer(s, u)
  BY DEF Calmer

(* A reminder, a row, the panel or the list of those showed changes. *)
LEMMA OnIsCalmer ==
  ASSUME NEW s, OneAlertTimer(s), NEW id
  PROVE  /\ \A r : On(s, id, r).alert = s.alert /\ On(s, id, r).timers = s.timers
         /\ Unlist(s, id).alert = s.alert /\ Unlist(s, id).timers = s.timers
         /\ Keep(s, id).alert = s.alert /\ Keep(s, id).timers = s.timers
         /\ \A known : /\ CancelNotification(s, id, known).alert = s.alert
                       /\ CancelNotification(s, id, known).timers = s.timers
<1>1. \A r : On(s, id, r).alert = s.alert /\ On(s, id, r).timers = s.timers
  BY DEF OneAlertTimer, On
<1>2. Unlist(s, id).alert = s.alert /\ Unlist(s, id).timers = s.timers
  BY DEF OneAlertTimer, Unlist
<1>3. Keep(s, id).alert = s.alert /\ Keep(s, id).timers = s.timers
  BY DEF OneAlertTimer, Keep
<1>4. \A known : /\ CancelNotification(s, id, known).alert = s.alert
                 /\ CancelNotification(s, id, known).timers = s.timers
  BY DEF OneAlertTimer, CancelNotification
<1> QED
  BY <1>1, <1>2, <1>3, <1>4

LEMMA StopIsCalm ==
  ASSUME NEW s, NEW id, OneAlertTimer(s)
  PROVE  LET t == StopAlertingReminder(s, id)
         IN  IF s.alert.id = id THEN t.alert = Quiet ELSE t = s
<1> DEFINE q == StopSoundAndVibration(s, id)
<1>1. CASE s.alert.id = id
  <2>1. /\ q.alert = [s.alert EXCEPT !.sound = NoReminder, !.id = NoReminder]
        /\ OneAlertTimer(q)
    <3>1. OneAlertTimer(q)
      BY StopSoundKeeps
    <3> QED BY <1>1, <3>1 DEF StopSoundAndVibration, OneAlertTimer
  <2>2. /\ q.alert.sound = NoReminder /\ q.alert.id = NoReminder
        /\ DOMAIN q.alert = {"id", "sound", "timer"}
    BY <2>1 DEF OneAlertTimer
  <2> HIDE DEF q
  <2>3. CASE q.alert.timer = NoTimer
    <3>1. q.alert = [x \in {"id", "sound", "timer"} |-> q.alert[x]]
      BY <2>2, <2>1 DEF OneAlertTimer
    <3>2. q.alert = Quiet
      BY <2>2, <2>3, <3>1 DEF Quiet
    <3>3. StopAlertingTimer(q) = q
      BY <2>3 DEF StopAlertingTimer
    <3> QED BY <1>1, <3>2, <3>3 DEF StopAlertingReminder, q
  <2>4. CASE q.alert.timer # NoTimer
    <3>1. StopAlertingTimer(q).alert = [q.alert EXCEPT !.timer = NoTimer, !.id = NoReminder]
      BY <2>1, <2>4 DEF StopAlertingTimer, OneAlertTimer
    <3>2. StopAlertingTimer(q).alert = Quiet
      BY <2>2, <3>1 DEF Quiet
    <3> QED BY <1>1, <3>2 DEF StopAlertingReminder, q
  <2> QED BY <2>3, <2>4
<1>2. CASE s.alert.id # id
  BY <1>2 DEF StopAlertingReminder
<1> QED
  BY <1>1, <1>2

LEMMA StopIsCalmer ==
  ASSUME NEW s, NEW id, OneAlertTimer(s)
  PROVE  Calmer(s, StopAlertingReminder(s, id))
<1>1. StopAlertingReminder(s, id).alert = Quiet \/ StopAlertingReminder(s, id) = s
  BY StopIsCalm
<1> QED
  BY <1>1, SameIsCalmer DEF Calmer

LEMMA TerminateIsCalm ==
  ASSUME NEW s, NEW id, OneAlertTimer(s)
  PROVE  LET t == TerminateAlerting(s, id)
         IN  Calmer(s, t) /\ (s.alert.id = id => t.alert = Quiet)
<1> DEFINE stopped == StopAlertingReminder(s, id)
           ended == On(stopped, id, OnTerminate(s.reminder[id]))
           shown == [ended EXCEPT !.panel = @ \cup {Note(s.reminder[id])}]
<1>1. OneAlertTimer(stopped)
  BY StopAlertingKeeps
<1> HIDE DEF stopped
<1>2. ended.alert = stopped.alert /\ ended.timers = stopped.timers /\ OneAlertTimer(ended)
  <2>1. OneAlertTimer(ended)
    BY <1>1, OnKeeps
  <2>2. \A r : /\ On(stopped, id, r).alert = stopped.alert
               /\ On(stopped, id, r).timers = stopped.timers
    BY <1>1, OnIsCalmer
  <2> QED BY <2>1, <2>2
<1> HIDE DEF ended
<1>3. shown.alert = ended.alert /\ shown.timers = ended.timers /\ OneAlertTimer(shown)
  BY <1>2 DEF OneAlertTimer
<1> HIDE DEF shown
<1>4. Keep(shown, id).alert = shown.alert /\ Keep(shown, id).timers = shown.timers
  BY <1>3, OnIsCalmer
<1>5. TerminateAlerting(s, id) \in {stopped, ended, Keep(shown, id)}
  BY DEF TerminateAlerting, stopped, ended, shown
<1>6. PICK t \in {stopped, ended, Keep(shown, id)} : t = TerminateAlerting(s, id)
  BY <1>5
<1>7. t.alert = stopped.alert /\ t.timers = stopped.timers
  BY <1>2, <1>3, <1>4, <1>6
<1>8. Calmer(s, stopped) /\ (s.alert.id = id => stopped.alert = Quiet)
  BY StopIsCalm, StopIsCalmer DEF stopped
<1> QED
  BY <1>6, <1>7, <1>8, SameIsCalmer, CalmerIsTransitive

LEMMA TerminateCurrentIsCalm ==
  ASSUME NEW s, OneAlertTimer(s)
  PROVE  /\ Calmer(s, TerminateCurrent(s))
         /\ s.alert.id # NoReminder \/ s.alert = Quiet => TerminateCurrent(s).alert = Quiet
<1>1. CASE s.alert.id = NoReminder
  <2>1. TerminateCurrent(s) = s
    BY <1>1 DEF TerminateCurrent
  <2> QED BY <1>1, <2>1, SameIsCalmer
<1>2. CASE s.alert.id # NoReminder
  <2>1. TerminateCurrent(s) = TerminateAlerting(s, s.alert.id)
    BY <1>2 DEF TerminateCurrent
  <2> QED BY <2>1, TerminateIsCalm
<1> QED
  BY <1>1, <1>2

LEMMA CoverIsCalmer ==
  ASSUME NEW s, NEW id, OneAlertTimer(s)
  PROVE  Calmer(s, HandleSameNotificationIdShowing(s, id))
<1>1. /\ OneAlertTimer(StopAlertingReminder(s, s.alert.id))
      /\ Calmer(s, StopAlertingReminder(s, s.alert.id))
  BY StopAlertingKeeps, StopIsCalmer
<1>2. Calmer(s, s)
  BY SameIsCalmer
<1>3. PICK q \in {s, StopAlertingReminder(s, s.alert.id)} : \E a, b, c :
        HandleSameNotificationIdShowing(s, id)
          = [q EXCEPT !.reminder = a, !.showed = b, !.rows = c]
  BY DEF HandleSameNotificationIdShowing
<1>4. OneAlertTimer(q) /\ Calmer(s, q)
  BY <1>1, <1>2, <1>3
<1>5. PICK a, b, c : HandleSameNotificationIdShowing(s, id)
                       = [q EXCEPT !.reminder = a, !.showed = b, !.rows = c]
  BY <1>3
<1> DEFINE t == [q EXCEPT !.reminder = a, !.showed = b, !.rows = c]
<1>6. t.alert = q.alert /\ t.timers = q.timers
  BY <1>4 DEF OneAlertTimer
<1>7. HandleSameNotificationIdShowing(s, id) = t
  BY <1>5
<1> HIDE DEF t
<1> QED
  BY <1>4, <1>6, <1>7, SameIsCalmer, CalmerIsTransitive

(* A listed reminder whose sound plays is waited for: its timer runs, or   *)
(* the event of the timer or a step that ends the sound is still to come.  *)
(* Between StopSound and StopAlertTimer the timer of a sound that has      *)
(* ended still runs, and nothing else happens there.                       *)

Halting == \E d \in Pending : d.op = "stopAlertTimer"
HaltIsNext ==
  Halting => \E t \in Threads :
    /\ todo[t] # <<>> /\ Head(todo[t]).op = "stopAlertTimer"
    /\ \A d \in Left(t) : d.op # "stopAlertTimer"

Tuned ==
  /\ alert.id = alert.sound
  /\ IF Halting
     THEN alert = [id |-> NoReminder, sound |-> NoReminder, timer |-> alert.timer]
     ELSE alert.sound = NoReminder => alert = Quiet

Ending == {"terminate", "timeout"}
Runs(id) == alert.timer \in timers /\ alert.timer.kind = "timeout" /\ alert.timer.id = id
Posted(id) == \E i \in DOMAIN events : events[i].type = "timeout" /\ events[i].id = id
Ends(id) == \E d \in Pending : d.op \in Ending /\ d.id = id

Rings ==
  /\ IsList(events) /\ timerId.kind # "timeout"
  /\ HaltIsNext /\ Tuned
  /\ alert.sound \in vector => Runs(alert.sound) \/ Posted(alert.sound) \/ Ends(alert.sound)

(* A step after which the alert is as it was or has ended. *)
LEMMA CalmRings ==
  ASSUME Types', Rings, ~Halting, ~Halting', IsList(events'), timerId'.kind # "timeout",
         Calmer(Shows, Shows'), NEW id, id = alert.sound, id \in vector' => id \in vector,
         id \in vector /\ alert' # Quiet /\ (Posted(id) \/ Ends(id)) => Posted(id)' \/ Ends(id)'
  PROVE  Rings'
<1>1. HaltIsNext'
  BY DEF HaltIsNext
<1>2. CASE alert' = Quiet
  <2>1. Tuned'
    BY <1>2 DEF Tuned, Quiet
  <2>2. alert'.sound \notin vector'
    BY <1>2, NothingAssumption DEF Quiet, Types, Given
  <2> QED BY <1>1, <2>1, <2>2 DEF Rings
<1>3. CASE alert' # Quiet
  <2>1. alert' = alert /\ \A timer \in timers : timer.kind = "timeout" => timer \in timers'
    BY <1>3 DEF Calmer, Shows
  <2>2. Tuned'
    BY <2>1 DEF Rings, Tuned
  <2>3. Runs(id) => Runs(id)'
    BY <2>1 DEF Runs
  <2>4. id \in vector' => Runs(id)' \/ Posted(id)' \/ Ends(id)'
    BY <1>3, <2>3 DEF Rings
  <2>5. alert'.sound \in vector' =>
          (Runs(alert.sound) \/ Posted(alert.sound) \/ Ends(alert.sound))'
    BY <2>1, <2>4
  <2> QED BY <1>1, <2>2, <2>5 DEF Rings
<1> QED
  BY <1>2, <1>3

LEMMA NobodyHalts ==
  ASSUME Single, HaltIsNext, NEW t \in Threads, todo[t] # <<>>,
         Head(todo[t]).op # "stopAlertTimer"
  PROVE  ~Halting
  BY DEF Single, HaltIsNext

(* A thread that does its first step, which ends no other sound. *)
LEMMA OthersStillEnd ==
  ASSUME Lists, Single, ~Halting, NEW t \in Threads, todo[t] # <<>>, NEW new,
         \A d \in new : d.op # "stopAlertTimer",
         Pushes(t, new) \/ (Head(todo[t]).op \in Enders /\ Stops(t))
  PROVE  /\ ~Halting'
         /\ \A id : Ends(id) /\ ~(Head(todo[t]).op \in Ending /\ Head(todo[t]).id = id)
              => Ends(id)'
<1>1. /\ Pending = {Head(todo[t])} \cup Left(t)
      /\ Head(todo[t]).op \in Enders => \A d \in Left(t) : d.op = "recent"
  BY AloneIs
<1>2. Pending' \subseteq Left(t) \cup new
  BY DEF Pushes, Stops
<1>3. ~Halting'
  BY <1>1, <1>2 DEF Halting
<1>4. ASSUME NEW id, Ends(id), ~(Head(todo[t]).op \in Ending /\ Head(todo[t]).id = id)
      PROVE  Ends(id)'
  <2>1. PICK d \in Left(t) : d.op \in Ending /\ d.id = id
    BY <1>1, <1>4 DEF Ends
  <2>2. Pending' = Left(t) \cup new
    BY <1>1, <2>1 DEF Pushes, Ending
  <2> QED BY <2>1, <2>2 DEF Ends
<1> QED
  BY <1>3, <1>4

LEMMA StepRings ==
  ASSUME Types, Types', Single, Rings, NEW t \in Threads, todo[t] # <<>>,
         Head(todo[t]).op # "stopAlertTimer", NEW new,
         \A d \in new : d.op # "stopAlertTimer",
         Pushes(t, new) \/ (Head(todo[t]).op \in Enders /\ Stops(t)),
         events' = events, timerId'.kind # "timeout", Calmer(Shows, Shows'),
         alert.sound \in vector' => alert.sound \in vector,
         Head(todo[t]).op \in Ending /\ Head(todo[t]).id = alert.sound
           /\ alert.sound \in vector => alert' = Quiet
  PROVE  Rings'
<1> PICK id : id = alert.sound
  OBVIOUS
<1>1. ~Halting
  BY NobodyHalts DEF Rings
<1>2. /\ ~Halting'
      /\ Ends(id) /\ ~(Head(todo[t]).op \in Ending /\ Head(todo[t]).id = id) => Ends(id)'
  BY <1>1, OthersStillEnd DEF Types
<1>3. Posted(id) => Posted(id)'
  BY DEF Posted
<1>4. id \in vector /\ alert' # Quiet /\ (Posted(id) \/ Ends(id)) => Posted(id)' \/ Ends(id)'
  BY <1>2, <1>3
<1>5. IsList(events')
  BY DEF Rings
<1> QED
  BY <1>1, <1>2, <1>4, <1>5, CalmRings

(* The next show is one that a helper makes. *)
LEMMA BecomeIsCalmer ==
  ASSUME NEW s, BecomeShows(s), Calmer(Shows, s)
  PROVE  Calmer(Shows, Shows')
  BY DEF BecomeShows, Calmer, Shows

LEMMA StillIsCalmer ==
  ASSUME alert' = alert, timers' = timers \/ timers' = timers \ {timerId} \/ timers \subseteq timers',
         timerId.kind # "timeout"
  PROVE  Calmer(Shows, Shows')
  BY DEF Calmer, Shows

LEMMA NoHaltAmongPushed ==
  ASSUME NEW id
  PROVE  /\ \A known : \A d \in Writes(id, known) : d.op # "stopAlertTimer"
         /\ \A d \in Halts(id) : d.op # "stopAlertTimer"
         /\ \A S, why : \A d \in ShowSteps(S, why) : d.op # "stopAlertTimer"
<1>1. \A known : \A d \in Writes(id, known) : d.op # "stopAlertTimer"
  BY WritesAre
<1>2. \A d \in Halts(id) : d.op # "stopAlertTimer"
  BY HaltIsProper
<1>3. \A S, why : \A d \in ShowSteps(S, why) : d.op # "stopAlertTimer"
  BY ShowStepsShow
<1> QED
  BY <1>1, <1>2, <1>3

LEMMA StillStepsRing ==
  ASSUME Types, Types', Single, Rings, NEW t \in Threads, StillStep(t)
  PROVE  Rings'
<1>1. /\ UNCHANGED <<containers, events, alert>> /\ timerId' \in {timerId, NoTimer}
      /\ timers' = timers \/ timers' = timers \ {timerId}
  BY DEF StillStep, CheckLimit, StopTriggerTimer, Unlock, FindToShow,
     ShowActiveReminderExtend, shows, trigger
<1>2. /\ Calmer(Shows, Shows') /\ timerId'.kind # "timeout" /\ Lists
      /\ vector' = vector /\ events' = events
  BY <1>1, StillIsCalmer DEF Rings, NoTimer, Types, containers
<1>3. /\ todo[t] # <<>> /\ Head(todo[t]).op \notin Ending \cup {"stopAlertTimer"}
      /\ \E new : /\ \A d \in new : d.op # "stopAlertTimer"
                  /\ Pushes(t, new) \/ (Head(todo[t]).op \in Enders /\ Stops(t))
  <2>1. CASE CheckLimit(t)
    <3> DEFINE d == [op |-> "save", new |-> Head(todo[t]).new]
               e == Step("recent", NoReminder)
    <3>1. todo[t] # <<>> /\ Head(todo[t]).op = "check" /\ (Stops(t) \/ Pushes(t, {d, e}))
      BY <1>2, <2>1, CheckPushes
    <3>2. d.op # "stopAlertTimer" /\ e.op # "stopAlertTimer"
      BY DEF Step
    <3> HIDE DEF d, e
    <3> QED BY <3>1, <3>2 DEF Enders, Ending
  <2>2. CASE StopTriggerTimer(t) \/ Unlock(t)
    <3>1. todo[t] # <<>> /\ Head(todo[t]).op \in {"stopTimer", "unlock"} /\ Pushes(t, {})
      BY <1>2, <2>2, QuietStepsPush DEF StopTriggerTimer, Unlock, At
    <3> QED BY <3>1 DEF Ending
  <2>3. CASE FindToShow(t)
    <3> DEFINE d == Step("showAll", Head(todo[t]).id)
               e == Step("recent", NoReminder)
    <3>1. todo[t] # <<>> /\ Head(todo[t]).op = "alarm" /\ (Stops(t) \/ Pushes(t, {d, e}))
      BY <1>2, <2>3, FindToShowPushes
    <3>2. d.op # "stopAlertTimer" /\ e.op # "stopAlertTimer"
      BY DEF Step
    <3> HIDE DEF d, e
    <3>3. Head(todo[t]).op \in Enders \ (Ending \cup {"stopAlertTimer"})
      BY <3>1 DEF Enders, Ending
    <3>4. \A x \in {d, e} : x.op # "stopAlertTimer"
      BY <3>2
    <3>5. \A x \in {} : x.op # "stopAlertTimer"
      OBVIOUS
    <3> QED BY <3>1, <3>3, <3>4, <3>5
  <2>4. CASE ShowActiveReminderExtend(t)
    <3>1. IsFiniteSet(vector)
      BY IdsAreFinite, FS_Subset DEF Types, Formed, Listed
    <3>2. /\ todo[t] # <<>> /\ Head(todo[t]).op = "showAll"
          /\ \E new : /\ Pushes(t, new)
                      /\ new \subseteq ShowSteps(vector, "timer") \cup {Step("unlock", NoReminder)}
      BY <1>2, <2>4, <3>1, ShowAllPushes
    <3>3. /\ Step("unlock", NoReminder).op # "stopAlertTimer"
          /\ \A d \in ShowSteps(vector, "timer") : d.op # "stopAlertTimer"
      BY NoHaltAmongPushed DEF Step
    <3> QED BY <3>2, <3>3 DEF Ending
  <2> QED BY <2>1, <2>2, <2>3, <2>4 DEF StillStep
<1> QED
  BY <1>2, <1>3, StepRings

LEMMA FlagStepsRing ==
  ASSUME Types, Types', Single, Rings, NEW t \in Threads, FlagStep(t)
  PROVE  Rings'
<1> PICK id : id = Head(todo[t]).id
  OBVIOUS
<1>1. /\ UNCHANGED <<containers, events, alert>>
      /\ timerId' = timerId \/ timerId'.kind = "alarm"
      /\ timers \subseteq timers'
  BY DEF FlagStep, FindToCancel, FindToClose, FindToSnooze, StartTriggerTimer, trigger
<1>2. /\ Calmer(Shows, Shows') /\ timerId'.kind # "timeout" /\ Lists
      /\ vector' = vector /\ events' = events
  BY <1>1, StillIsCalmer DEF Rings, Types, containers
<1>3. /\ todo[t] # <<>> /\ Head(todo[t]).op \notin Ending \cup {"stopAlertTimer"}
      /\ \E new : /\ \A d \in new : d.op # "stopAlertTimer"
                  /\ Pushes(t, new) \/ (Head(todo[t]).op \in Enders /\ Stops(t))
  <2>1. CASE FindToCancel(t) \/ FindToClose(t) \/ FindToSnooze(t)
    <3> DEFINE e == Step("recent", NoReminder)
               r(op) == Step(op, id)
    <3>1. /\ todo[t] # <<>> /\ Head(todo[t]).op \in {"cancel", "close", "snooze"}
          /\ \/ Stops(t)
             \/ Pushes(t, Halts(id) \cup {r("remove"), e})
             \/ Pushes(t, Halts(id) \cup {r("closeNow"), e})
             \/ Pushes(t, Halts(id) \cup {r("snoozeNow")})
      BY <1>2, <2>1, FindToCancelPushes, FindToClosePushes, FindToSnoozePushes
    <3>2. /\ e.op # "stopAlertTimer" /\ \A x \in Halts(id) : x.op # "stopAlertTimer"
          /\ \A op : r(op).op = op
      BY NoHaltAmongPushed DEF Step
    <3> HIDE DEF e, r
    <3> QED BY <3>1, <3>2 DEF Ending, Enders
  <2>2. CASE StartTriggerTimer(t)
    <3>1. /\ todo[t] # <<>> /\ Head(todo[t]).op = "startTimer"
          /\ Pushes(t, Writes(id, options))
      BY <1>2, <2>2, WritersPush DEF StartTriggerTimer, At
    <3> QED BY <3>1, NoHaltAmongPushed DEF Ending
  <2> QED BY <2>1, <2>2 DEF FlagStep
<1> QED
  BY <1>2, <1>3, StepRings

(* Steps that end a sound. *)
LEMMA AlertIs ==
  ASSUME Types
  PROVE  /\ OneAlertTimer(Shows) /\ Shows.alert = alert
         /\ alert.sound \in vector /\ Rings => alert.id = alert.sound /\ alert.id # NoReminder
<1>1. NoReminder \notin vector
  BY NothingAssumption DEF Types, Given
<1> QED
  BY <1>1, ShowsAre DEF Types, Formed, Rings, Tuned

LEMMA EndingsRing ==
  ASSUME Types, Types', Single, Rings, NEW t \in Threads,
         Terminate(t) \/ FindToTerminate(t) \/ TerminateForUser(t) \/ CoverSameNotification(t)
  PROVE  Rings'
<1> PICK id : id = Head(todo[t]).id
  OBVIOUS
<1>1. /\ vector' = vector /\ events' = events /\ timerId' = timerId
      /\ timerId'.kind # "timeout" /\ Lists
  BY DEF Terminate, FindToTerminate, TerminateForUser, CoverSameNotification, containers, trigger,
     Rings, Types
<1>2. /\ OneAlertTimer(Shows) /\ Shows.alert = alert
      /\ alert.sound \in vector => alert.id = alert.sound /\ alert.id # NoReminder
  BY AlertIs
<1>3. \E new : /\ \A d \in new : d.op # "stopAlertTimer"
               /\ todo[t] # <<>> /\ Pushes(t, new)
  <2>1. CASE Terminate(t) \/ FindToTerminate(t) \/ TerminateForUser(t)
    <3>1. todo[t] # <<>> /\ Pushes(t, {})
      BY <1>1, <2>1, QuietStepsPush
    <3> QED BY <3>1
  <2>2. CASE CoverSameNotification(t)
    <3>1. todo[t] # <<>> /\ Pushes(t, Writes(id, options))
      BY <1>1, <2>2, WritersPush
    <3> QED BY <3>1, NoHaltAmongPushed
  <2> QED BY <2>1, <2>2
<1>4. CASE Terminate(t)
  <2> DEFINE s == TerminateAlerting(Shows, id)
  <2>1. BecomeShows(s) /\ Head(todo[t]).op = "terminate"
    BY <1>4 DEF Terminate, At
  <2>2. Calmer(Shows, s) /\ (alert.id = id => s.alert = Quiet)
    BY <1>2, TerminateIsCalm
  <2> HIDE DEF s
  <2>3. Calmer(Shows, Shows') /\ (alert.id = id => alert' = Quiet)
    BY <2>1, <2>2, BecomeIsCalmer DEF BecomeShows
  <2> QED BY <1>1, <1>2, <1>3, <2>1, <2>3, StepRings
<1>5. CASE FindToTerminate(t)
  <2> DEFINE s == TerminateAlerting(Shows, id)
             q == IF id \in vector THEN s ELSE Shows
  <2>1. BecomeShows(q) /\ Head(todo[t]).op = "timeout"
    BY <1>5 DEF FindToTerminate, AtLocked, At
  <2>2. Calmer(Shows, s) /\ (alert.id = id => s.alert = Quiet)
    BY <1>2, TerminateIsCalm
  <2> HIDE DEF s
  <2>3. Calmer(Shows, q) /\ (id \in vector /\ alert.id = id => q.alert = Quiet)
    BY <2>2, SameIsCalmer
  <2> HIDE DEF q
  <2>4. Calmer(Shows, Shows') /\ (id \in vector /\ alert.id = id => alert' = Quiet)
    BY <2>1, <2>3, BecomeIsCalmer DEF BecomeShows
  <2> QED BY <1>1, <1>2, <1>3, <2>1, <2>4, StepRings
<1>6. CASE TerminateForUser(t)
  <2> DEFINE s == TerminateCurrent(Shows)
  <2>1. BecomeShows(s) /\ Head(todo[t]).op = "userSwitched"
    BY <1>6 DEF TerminateForUser, AtLocked, At
  <2>2. Calmer(Shows, s)
    BY <1>2, TerminateCurrentIsCalm
  <2> HIDE DEF s
  <2>3. Calmer(Shows, Shows') /\ Head(todo[t]).op \notin Ending
    BY <2>1, <2>2, BecomeIsCalmer DEF Ending
  <2> QED BY <1>1, <1>3, <2>1, <2>3, StepRings
<1>7. CASE CoverSameNotification(t)
  <2> DEFINE s == HandleSameNotificationIdShowing(Shows, id)
  <2>1. BecomeShows(s) /\ Head(todo[t]).op = "cover"
    BY <1>7 DEF CoverSameNotification, At
  <2>2. Calmer(Shows, s)
    BY <1>2, CoverIsCalmer
  <2> HIDE DEF s
  <2>3. Calmer(Shows, Shows') /\ Head(todo[t]).op \notin Ending
    BY <2>1, <2>2, BecomeIsCalmer DEF Ending
  <2> QED BY <1>1, <1>3, <2>1, <2>3, StepRings
<1> QED
  BY <1>4, <1>5, <1>6, <1>7

(* Steps that change, remove or add reminders. *)
LEMMA WritersRing ==
  ASSUME Types, Types', Single, Rings, NEW t \in Threads, Close(t) \/ Snooze(t) \/ Write(t)
  PROVE  Rings'
<1> PICK id : id = Head(todo[t]).id
  OBVIOUS
<1>1. /\ vector' = vector /\ events' = events /\ timerId' = timerId
      /\ timerId'.kind # "timeout" /\ Lists
      /\ todo[t] # <<>> /\ Head(todo[t]).op \in {"closeNow", "snoozeNow", "write"}
  BY DEF Close, Snooze, Write, containers, trigger, Rings, Types, At
<1>2. Head(todo[t]).op \notin Ending \cup {"stopAlertTimer"}
  BY <1>1 DEF Ending
<1>3. OneAlertTimer(Shows) /\ Shows.alert = alert /\ Shows.timers = timers
  BY ShowsAre DEF Types, Formed
<1>4. CASE Close(t)
  <2> DEFINE s == On(Shows, id, OnClose(Shows.reminder[id], clock, TRUE))
             q == Unlist(s, id)
             shown == CancelNotification(q, id, options)
  <2>1. BecomeShows(shown) /\ Pushes(t, Writes(id, options))
    BY <1>1, <1>4, WritersPush DEF Close, CloseReminder
  <2>2. s.alert = alert /\ s.timers = timers /\ OneAlertTimer(s)
    <3>1. \A r : OneAlertTimer(On(Shows, id, r))
      BY <1>3, OnKeeps
    <3>2. \A r : On(Shows, id, r).alert = alert /\ On(Shows, id, r).timers = timers
      BY <1>3, OnIsCalmer
    <3> QED BY <3>1, <3>2
  <2> HIDE DEF s
  <2>3. q.alert = alert /\ q.timers = timers /\ OneAlertTimer(q)
    BY <2>2, UnlistKeeps, OnIsCalmer
  <2> HIDE DEF q
  <2>4. shown.alert = alert /\ shown.timers = timers
    BY <2>3, OnIsCalmer
  <2> HIDE DEF shown
  <2>5. Calmer(Shows, Shows')
    BY <1>3, <2>1, <2>4, SameIsCalmer, BecomeIsCalmer
  <2> QED BY <1>1, <1>2, <2>1, <2>5, NoHaltAmongPushed, StepRings
<1>5. CASE Snooze(t)
  <2> DEFINE s == On(Shows, id, OnSnooze(reminder[id], clock))
             q == [s EXCEPT !.panel = @ \cup {Note(reminder[id])}]
             e == Step("recent", NoReminder)
  <2>1. /\ BecomeShows(s) \/ BecomeShows(q)
        /\ Pushes(t, {}) \/ Pushes(t, Writes(id, options) \cup {e})
    <3>1. BecomeShows(s) \/ BecomeShows(q)
      BY <1>5 DEF Snooze
    <3>2. Pushes(t, {}) \/ Pushes(t, Writes(id, options) \cup {e})
      BY <1>1, <1>5, SnoozePushes
    <3> QED BY <3>1, <3>2
  <2>2. s.alert = alert /\ s.timers = timers /\ OneAlertTimer(s)
    <3>1. \A r : OneAlertTimer(On(Shows, id, r))
      BY <1>3, OnKeeps
    <3>2. \A r : On(Shows, id, r).alert = alert /\ On(Shows, id, r).timers = timers
      BY <1>3, OnIsCalmer
    <3> QED BY <3>1, <3>2
  <2> HIDE DEF s
  <2>3. q.alert = alert /\ q.timers = timers
    BY <2>2 DEF OneAlertTimer
  <2> HIDE DEF q
  <2>4. Calmer(Shows, Shows')
    BY <1>3, <2>1, <2>2, <2>3, SameIsCalmer, BecomeIsCalmer
  <2>5. e.op # "stopAlertTimer"
    BY DEF Step
  <2> HIDE DEF e
  <2>6. \E new : Pushes(t, new) /\ \A d \in new : d.op # "stopAlertTimer"
    BY <2>1, <2>5, NoHaltAmongPushed
  <2> QED BY <1>1, <1>2, <2>4, <2>6, StepRings
<1>6. CASE Write(t)
  <2>1. alert' = alert /\ timers' = timers
    BY <1>6 DEF Write
  <2>2. Calmer(Shows, Shows')
    BY <1>1, <2>1, StillIsCalmer
  <2>3. Pushes(t, {})
    BY <1>1, <1>6, QuietStepsPush
  <2> QED BY <1>1, <1>2, <2>2, <2>3, StepRings
<1> QED
  BY <1>4, <1>5, <1>6

LEMMA RecentRings ==
  ASSUME Types, Types', Single, Rings, NEW t \in Threads, StartRecentReminder(t)
  PROVE  Rings'
<1>1. /\ UNCHANGED <<alert, timers, timerId, events>> /\ timerId'.kind # "timeout" /\ Lists
      /\ vector' \subseteq vector
  BY DEF StartRecentReminder, GetRecentReminder, Erase, Rings, Types
<1>2. Calmer(Shows, Shows')
  BY <1>1, StillIsCalmer
<1>3. /\ todo[t] # <<>> /\ Head(todo[t]).op = "recent"
      /\ \E next, known :
           \/ Pushes(t, {})
           \/ Pushes(t, Writes(activeReminderId, known)
                          \cup {Step("stopTimer", next), Step("startTimer", next)})
           \/ Pushes(t, {Step("startTimer", next)})
  BY <1>1, RecentPushes
<1>4. /\ \A d \in {} : d.op # "stopAlertTimer"
      /\ \A next : /\ \A d \in {Step("startTimer", next)} : d.op # "stopAlertTimer"
                   /\ \A d \in {Step("stopTimer", next), Step("startTimer", next)} :
                        d.op # "stopAlertTimer"
  BY DEF Step
<1>5. \E new : Pushes(t, new) /\ \A d \in new : d.op # "stopAlertTimer"
  <2>1. \A id, known : \A d \in Writes(id, known) : d.op # "stopAlertTimer"
    BY NoHaltAmongPushed
  <2>2. PICK next : \E known :
          \/ Pushes(t, {})
          \/ Pushes(t, Writes(activeReminderId, known)
                         \cup {Step("stopTimer", next), Step("startTimer", next)})
          \/ Pushes(t, {Step("startTimer", next)})
    BY <1>3
  <2>3. CASE Pushes(t, {})
    BY <1>4, <2>3
  <2>4. CASE Pushes(t, {Step("startTimer", next)})
    BY <1>4, <2>4
  <2>5. ASSUME NEW known,
               Pushes(t, Writes(activeReminderId, known)
                           \cup {Step("stopTimer", next), Step("startTimer", next)})
        PROVE  \E new : Pushes(t, new) /\ \A d \in new : d.op # "stopAlertTimer"
    <3>1. \A d \in Writes(activeReminderId, known)
                    \cup {Step("stopTimer", next), Step("startTimer", next)} :
            d.op # "stopAlertTimer"
      BY <1>4, <2>1
    <3> QED BY <2>5, <3>1
  <2> QED BY <2>2, <2>3, <2>4, <2>5
<1>6. Head(todo[t]).op \notin Ending \cup {"stopAlertTimer"}
  BY <1>3 DEF Ending
<1> QED
  BY <1>1, <1>2, <1>3, <1>5, <1>6, StepRings

LEMMA RemoveRings ==
  ASSUME Types, Types', Single, Rings, NEW t \in Threads, RemoveReminder(t)
  PROVE  Rings'
<1> PICK id : id = Head(todo[t]).id
  OBVIOUS
<1> DEFINE s == [Shows EXCEPT !.rows[id] = NoRow]
           q == IF id \in vector THEN s ELSE Shows
           r == CancelNotification(q, id, options')
<1>1. /\ UNCHANGED <<timerId, events>> /\ timerId'.kind # "timeout" /\ Lists
      /\ vector' \subseteq vector /\ BecomeShows(r)
      /\ Head(todo[t]).op = "remove"
  BY DEF RemoveReminder, Erase, trigger, Rings, Types, At, AtLocked
<1>2. OneAlertTimer(Shows) /\ Shows.alert = alert /\ Shows.timers = timers
  BY ShowsAre DEF Types, Formed
<1>3. s.alert = alert /\ s.timers = timers /\ OneAlertTimer(s)
  <2> PICK z : z = Shows
    OBVIOUS
  <2>1. LET y == [z EXCEPT !.rows[id] = NoRow]
        IN  y.alert = z.alert /\ y.timers = z.timers /\ OneAlertTimer(y)
    BY <1>2 DEF OneAlertTimer
  <2> QED BY <1>2, <2>1
<1> HIDE DEF s
<1>4. q.alert = alert /\ q.timers = timers /\ OneAlertTimer(q)
  BY <1>2, <1>3
<1> HIDE DEF q
<1>5. r.alert = alert /\ r.timers = timers
  BY <1>4, OnIsCalmer
<1> HIDE DEF r
<1>6. Calmer(Shows, Shows')
  BY <1>1, <1>2, <1>5, SameIsCalmer, BecomeIsCalmer
<1>7. todo[t] # <<>> /\ Pushes(t, {})
  BY <1>1, QuietStepsPush
<1>8. Head(todo[t]).op \notin Ending \cup {"stopAlertTimer"}
  BY <1>1 DEF Ending
<1> QED
  BY <1>1, <1>6, <1>7, <1>8, StepRings

(* The sound ends, or not; the timer of the active reminder stops, or not. *)
LEMMA TimerEndsCalmly ==
  ASSUME Types, timerId.kind # "timeout",
         NEW q \in {Shows, StopAlertingReminder(Shows, alert.id)},
         alert' = q.alert, timers' = q.timers \/ timers' = q.timers \ {timerId}
  PROVE  Calmer(Shows, Shows')
<1>1. OneAlertTimer(Shows)
  BY DEF Types, Formed
<1>2. Calmer(Shows, q)
  BY <1>1, StopIsCalmer, SameIsCalmer
<1> QED
  BY <1>2 DEF Calmer, Shows

LEMMA CancelAllRings ==
  ASSUME Types, Types', Single, Rings, NEW t \in Threads, CancelRemindersImpl(t)
  PROVE  Rings'
<1>1. /\ events' = events /\ timerId' \in {timerId, NoTimer} /\ Lists
      /\ vector' \subseteq vector /\ Head(todo[t]).op = "cancelAll"
  BY DEF CancelRemindersImpl, Erase, trigger, Types, At, AtLocked
<1>2. PICK q \in {Shows, StopAlertingReminder(Shows, alert.id)} :
        \E e \in {q.timers, q.timers \ {timerId}} : \E a, b, c, d :
          BecomeShows([q EXCEPT !.reminder = a, !.panel = b, !.showed = c, !.rows = d,
                                !.timers = e])
  BY DEF CancelRemindersImpl
<1>3. OneAlertTimer(q)
  BY StopAlertingKeeps DEF Types, Formed
<1>4. alert' = q.alert /\ timers' \in {q.timers, q.timers \ {timerId}}
  <2>1. \A a, b, c, d, e :
          LET s == [q EXCEPT !.reminder = a, !.panel = b, !.showed = c, !.rows = d,
                             !.timers = e]
          IN  s.alert = q.alert /\ s.timers = e
    BY <1>3 DEF OneAlertTimer
  <2> QED BY <1>2, <2>1 DEF BecomeShows
<1>5. timerId'.kind # "timeout" /\ timerId.kind # "timeout"
  BY <1>1 DEF Rings, NoTimer
<1>6. Calmer(Shows, Shows')
  BY <1>4, <1>5, TimerEndsCalmly
<1>7. todo[t] # <<>> /\ Pushes(t, {})
  BY <1>1, QuietStepsPush
<1>8. Head(todo[t]).op \notin Ending \cup {"stopAlertTimer"}
  BY <1>1 DEF Ending
<1> QED
  BY <1>1, <1>5, <1>6, <1>7, <1>8, StepRings

LEMMA RefreshRings ==
  ASSUME Types, Types', Single, Rings, NEW t \in Threads, RefreshReminders(t)
  PROVE  Rings'
<1>1. /\ events' = events /\ timerId' \in {timerId, NoTimer} /\ Lists
      /\ vector' = vector /\ IsFiniteSet(vector)
  BY IdsAreFinite, FS_Subset DEF RefreshReminders, containers, trigger, Types, Formed, Listed
<1>2. PICK q \in {Shows, StopAlertingReminder(Shows, alert.id)} :
        \E e \in {q.timers, q.timers \ {timerId}} : \E a, c, d :
          BecomeShows([q EXCEPT !.reminder = a, !.showed = c, !.rows = d, !.timers = e])
  BY DEF RefreshReminders
<1>3. OneAlertTimer(q)
  BY StopAlertingKeeps DEF Types, Formed
<1>4. alert' = q.alert /\ timers' \in {q.timers, q.timers \ {timerId}}
  <2>1. \A a, c, d, e :
          LET s == [q EXCEPT !.reminder = a, !.showed = c, !.rows = d, !.timers = e]
          IN  s.alert = q.alert /\ s.timers = e
    BY <1>3 DEF OneAlertTimer
  <2> QED BY <1>2, <2>1 DEF BecomeShows
<1>5. timerId'.kind # "timeout" /\ timerId.kind # "timeout"
  BY <1>1 DEF Rings, NoTimer
<1>6. Calmer(Shows, Shows')
  BY <1>4, <1>5, TimerEndsCalmly
<1>7. /\ todo[t] # <<>> /\ Head(todo[t]).op = "refresh"
      /\ \E new \in SUBSET ShowSteps(vector, "clock") :
           Pushes(t, new \cup {Step("recent", NoReminder)})
  BY <1>1, RefreshPushes
<1>8. Step("recent", NoReminder).op # "stopAlertTimer"
  BY DEF Step
<1>9. \E new : Pushes(t, new) /\ \A d \in new : d.op # "stopAlertTimer"
  BY <1>7, <1>8, NoHaltAmongPushed
<1>10. Head(todo[t]).op \notin Ending \cup {"stopAlertTimer"}
  BY <1>7 DEF Ending
<1> QED
  BY <1>1, <1>5, <1>6, <1>7, <1>9, <1>10, StepRings

LEMMA OverdueRings ==
  ASSUME Types, Types', Single, Rings, NEW t \in Threads, ShowOverdue(t)
  PROVE  Rings'
<1>1. /\ UNCHANGED <<alert, timers, timerId, events>> /\ timerId'.kind # "timeout" /\ Lists
      /\ vector' = vector /\ IsFiniteSet(vector)
  BY IdsAreFinite, FS_Subset DEF ShowOverdue, containers, trigger, Types, Formed, Listed, Rings
<1>2. Calmer(Shows, Shows')
  BY <1>1, StillIsCalmer
<1>3. /\ todo[t] # <<>> /\ Head(todo[t]).op = "serviceStart"
      /\ \E new \in SUBSET ShowSteps(vector, "service") :
           Pushes(t, new \cup {Step("recent", NoReminder)})
  BY <1>1, OverduePushes
<1>4. Step("recent", NoReminder).op # "stopAlertTimer"
  BY DEF Step
<1>5. \E new : Pushes(t, new) /\ \A d \in new : d.op # "stopAlertTimer"
  BY <1>3, <1>4, NoHaltAmongPushed
<1>6. Head(todo[t]).op \notin Ending \cup {"stopAlertTimer"}
  BY <1>3 DEF Ending
<1> QED
  BY <1>1, <1>2, <1>3, <1>5, <1>6, StepRings

(* The sound that plays is not that of a reminder that is only now given   *)
(* its id, and none plays before the database is loaded.                   *)
LEMMA SaveRings ==
  ASSUME Types, Types', Single, Rings, NEW t \in Threads,
         UpdateAndSaveReminder(t) \/ LoadReminderFromDb(t)
  PROVE  Rings'
<1>1. /\ UNCHANGED <<alert, timers, timerId, events>> /\ timerId'.kind # "timeout" /\ Lists
      /\ todo[t] # <<>> /\ Pushes(t, {})
      /\ Head(todo[t]).op \in {"save", "load"}
  BY QuietStepsPush DEF UpdateAndSaveReminder, LoadReminderFromDb, trigger, Types, Rings, At, AtLocked
<1>2. Calmer(Shows, Shows')
  BY <1>1, StillIsCalmer
<1>3. alert.sound \in vector' => alert.sound \in vector
  <2>1. alert.id = alert.sound /\ alert.id \in Given \cup {NoReminder}
    BY DEF Rings, Tuned, Types
  <2>2. CASE UpdateAndSaveReminder(t)
    <3>1. vector' = vector \cup {lastId + 1} /\ lastId + 1 \in Ids
      BY <2>2 DEF UpdateAndSaveReminder
    <3>2. lastId + 1 \notin Given \cup {NoReminder}
      BY <3>1, NothingAssumption, IdsAreFinite DEF Given, Types, Formed, Listed
    <3> QED BY <2>1, <3>1, <3>2
  <2>3. CASE LoadReminderFromDb(t)
    <3>1. Head(todo[t]).op = "load" /\ vector' \subseteq Ids
      BY <2>3 DEF LoadReminderFromDb, AtLocked, At
    <3>2. Doable(Head(todo[t]))
      BY <1>1, HeadIsDoable
    <3>3. lastId = 0
      BY <3>1, <3>2 DEF Doable, Types
    <3>4. alert.sound = NoReminder
      BY <2>1, <3>3, NothingIsGiven
    <3> QED BY <3>1, <3>4, NothingAssumption
  <2> QED BY <2>2, <2>3
<1>4. Head(todo[t]).op \notin Ending \cup {"stopAlertTimer"}
  BY <1>1 DEF Ending
<1> QED
  BY <1>1, <1>2, <1>3, <1>4, StepRings

(* Where no sound plays any more. *)
LEMMA QuietRings ==
  ASSUME Types', IsList(events'), timerId'.kind # "timeout", ~Halting', alert' = Quiet
  PROVE  Rings'
<1>1. alert'.sound \notin vector'
  BY NothingAssumption DEF Quiet, Types, Given
<1>2. HaltIsNext' /\ Tuned'
  BY DEF HaltIsNext, Tuned, Quiet
<1> QED
  BY <1>1, <1>2 DEF Rings

(* The first lock of the end of a sound, and the second. *)
LEMMA StopSoundRings ==
  ASSUME Types, Types', Single, Rings, NEW t \in Threads, StopSound(t)
  PROVE  Rings'
<1> PICK id : id = Head(todo[t]).id
  OBVIOUS
<1> DEFINE d == Step("stopAlertTimer", id)
           s == StopSoundAndVibration(Shows, id)
<1>1. /\ vector' = vector /\ events' = events /\ timerId' = timerId
      /\ timerId'.kind # "timeout" /\ Lists /\ IsList(events')
      /\ todo[t] # <<>> /\ Head(todo[t]).op = "stopSound"
      /\ BecomeShows(s) /\ Then(t, When(alert.id = id, <<d>>))
  BY DEF StopSound, containers, trigger, Rings, Types, At
<1>2. OneAlertTimer(Shows) /\ Shows.alert = alert /\ Shows.timers = timers
  BY ShowsAre DEF Types, Formed
<1>3. ~Halting
  BY <1>1, NobodyHalts DEF Rings
<1>4. CASE alert.id # id
  <2>1. Pushes(t, {})
    BY <1>1, <1>4, NothingIsPushed DEF When
  <2>2. s = Shows
    BY <1>2, <1>4 DEF StopSoundAndVibration
  <2>3. Calmer(Shows, Shows')
    BY <1>1, <2>2, SameIsCalmer, BecomeIsCalmer
  <2> QED BY <1>1, <2>1, <2>3, StepRings DEF Ending
<1>5. CASE alert.id = id
  <2>1. alert' = [id |-> NoReminder, sound |-> NoReminder, timer |-> alert'.timer]
    <3>1. s.alert = [Shows.alert EXCEPT !.sound = NoReminder, !.id = NoReminder]
      BY <1>2, <1>5 DEF StopSoundAndVibration, OneAlertTimer
    <3>2. s.alert = [id |-> NoReminder, sound |-> NoReminder, timer |-> s.alert.timer]
      BY <1>2, <3>1 DEF OneAlertTimer
    <3> HIDE DEF s
    <3> QED BY <1>1, <3>2 DEF BecomeShows
  <2>2. /\ todo' = [todo EXCEPT ![t] = <<d>> \o Tail(todo[t])]
        /\ d.op = "stopAlertTimer"
    BY <1>1, <1>5 DEF Then, When, Step
  <2> HIDE DEF d
  <2>3. todo = [u \in Threads |-> todo[u]] /\ Proper(Tail(todo[t]))
    BY <1>1, HeadIsPending DEF Lists
  <2> DEFINE q == Tail(todo[t])
  <2> HIDE DEF q
  <2>4. PICK S : q \in Seq(S)
    BY <2>3 DEF Proper, IsList, q
  <2>5. <<d>> \o q # <<>> /\ Head(<<d>> \o q) = d /\ Tail(<<d>> \o q) = q
    <3> DEFINE T == S \cup {d}
    <3>1. q \in Seq(T) /\ d \in T
      BY <2>4
    <3> HIDE DEF T
    <3> QED BY <3>1
  <2>6. todo'[t] = <<d>> \o q /\ \A u \in Threads \ {t} : todo'[u] = todo[u]
    BY <2>2, <2>3 DEF q
  <2>7. todo'[t] # <<>> /\ Head(todo'[t]) = d /\ Tail(todo'[t]) = Tail(todo[t])
    BY <2>5, <2>6 DEF q
  <2>8. Left(t)' = Left(t)
    BY <2>6, <2>7 DEF Left
  <2>9. \A e \in Left(t) : e.op # "stopAlertTimer"
    BY <1>1, <1>3, HeadIsPending DEF Halting
  <2>10. HaltIsNext'
    BY <2>2, <2>7, <2>8, <2>9 DEF HaltIsNext
  <2>11. alert'.sound \notin vector'
    BY <2>1, NothingAssumption DEF Types, Given
  <2>12. Halting'
    <3>1. Pushes(t, {e \in {Step("stopAlertTimer", id)} : alert.id = id})
      BY <1>1, StopSoundPushes
    <3>2. d \in Pending'
      BY <1>5, <3>1 DEF Pushes, d
    <3> QED BY <2>2, <3>2 DEF Halting
  <2> QED BY <1>1, <2>1, <2>10, <2>11, <2>12 DEF Rings, Tuned
<1> QED
  BY <1>4, <1>5

LEMMA StopAlertTimerRings ==
  ASSUME Types, Types', Single, Rings, NEW t \in Threads, StopAlertTimer(t)
  PROVE  Rings'
<1> DEFINE s == StopAlertingTimer(Shows)
<1>1. /\ events' = events /\ timerId' = timerId
      /\ timerId'.kind # "timeout" /\ Lists /\ IsList(events')
      /\ todo[t] # <<>> /\ Head(todo[t]).op = "stopAlertTimer"
      /\ BecomeShows(s) /\ Pushes(t, {})
  BY QuietStepsPush DEF StopAlertTimer, trigger, Rings, Types, At
<1>2. OneAlertTimer(Shows) /\ Shows.alert = alert
  BY ShowsAre DEF Types, Formed
<1>3. Halting
  BY <1>1, HeadIsPending DEF Halting
<1>4. alert.sound = NoReminder /\ alert.id = NoReminder
  BY <1>3 DEF Rings, Tuned
<1>5. \A d \in Left(t) : d.op # "stopAlertTimer"
  BY <1>1, <1>3 DEF Rings, HaltIsNext, Single
<1>6. ~Halting'
  BY <1>1, <1>5 DEF Pushes, Halting
<1>7. s.alert = Quiet
  <2>1. alert = [id |-> NoReminder, sound |-> NoReminder, timer |-> alert.timer]
    BY <1>3 DEF Rings, Tuned
  <2>2. CASE alert.timer = NoTimer
    BY <1>2, <2>1, <2>2 DEF StopAlertingTimer, Quiet
  <2>3. CASE alert.timer # NoTimer
    <3>1. s.alert = [Shows.alert EXCEPT !.timer = NoTimer, !.id = NoReminder]
      BY <1>2, <2>3 DEF StopAlertingTimer, OneAlertTimer
    <3> QED BY <1>2, <1>4, <3>1 DEF OneAlertTimer, Quiet
  <2> QED BY <2>2, <2>3
<1>8. alert' = Quiet
  <2> HIDE DEF s
  <2> QED BY <1>1, <1>7 DEF BecomeShows
<1> QED
  BY <1>1, <1>6, <1>8, QuietRings

(* A reminder that is shown: the sound before ends first, and where one    *)
(* plays, its timer starts or a step that ends it follows.                 *)
LEMMA ShowMakes ==
  ASSUME OneAlertTimer(Shows), alert.id # NoReminder \/ alert = Quiet,
         NEW id, NEW why, NEW plays, NEW answer
  PROVE  LET told == Told(id, why, plays, answer)
             published == Published(id, why, plays, answer)
             playing == PlaySoundAndVibration(published, id)
             timed == StartAlertingTimer(playing)
         IN  /\ /\ Shown(id, why, plays, answer).alert = alert
                /\ Shown(id, why, plays, answer).timers = timers
             /\ \A r : Unlist(On(told, id, r), id).alert = Quiet
             /\ published.alert = Quiet
             /\ playing.alert.id = id /\ playing.alert.sound = id
             /\ timed.alert.id = id /\ timed.alert.sound = id
             /\ timed.alert.timer \in timed.timers
             /\ timed.alert.timer.kind = "timeout" /\ timed.alert.timer.id = id
<1> DEFINE shown == Shown(id, why, plays, answer)
           added == [shown EXCEPT !.showed = @ \cup {id}]
           told == Told(id, why, plays, answer)
           published == Published(id, why, plays, answer)
           playing == PlaySoundAndVibration(published, id)
           timed == StartAlertingTimer(playing)
<1>1. shown.alert = alert /\ shown.timers = timers /\ OneAlertTimer(shown)
  <2>1. Shows.alert = alert /\ Shows.timers = timers
    BY ShowsAre
  <2>2. \A r : /\ On(Shows, id, r).alert = Shows.alert /\ On(Shows, id, r).timers = Shows.timers
               /\ OneAlertTimer(On(Shows, id, r))
    BY OnKeeps, OnIsCalmer
  <2> QED BY <2>1, <2>2 DEF Shown
<1>2. told = TerminateCurrent(added)
  BY DEF Told
<1> HIDE DEF shown
<1>3. added.alert = alert /\ OneAlertTimer(added)
  BY <1>1 DEF OneAlertTimer
<1> HIDE DEF added
<1>4. told.alert = Quiet /\ OneAlertTimer(told)
  BY <1>2, <1>3, TerminateCurrentKeeps, TerminateCurrentIsCalm
<1>5. published = [told EXCEPT !.panel = @ \cup {Note(reminder[id])}]
  BY DEF Published
<1> HIDE DEF told
<1>6. \A r : Unlist(On(told, id, r), id).alert = Quiet
  <2> TAKE r
  <2> DEFINE q == On(told, id, r)
  <2>1. q.alert = Quiet /\ OneAlertTimer(q)
    <3>1. OneAlertTimer(q)
      BY <1>4, OnKeeps
    <3>2. \A x : /\ On(told, id, x).alert = told.alert
                 /\ On(told, id, x).timers = told.timers
      BY <1>4, OnIsCalmer
    <3> QED BY <1>4, <3>1, <3>2
  <2> HIDE DEF q
  <2>2. Unlist(q, id).alert = Quiet
    BY <2>1, OnIsCalmer
  <2> QED BY <2>2 DEF q
<1>7. published.alert = Quiet /\ OneAlertTimer(published)
  BY <1>4, <1>5 DEF OneAlertTimer
<1> HIDE DEF published
<1>8. TerminateCurrent(published) = published
  BY <1>7 DEF TerminateCurrent, Quiet
<1>9. playing.alert = [id |-> id, sound |-> id, timer |-> NoTimer] /\ OneAlertTimer(playing)
  <2>1. playing = [published EXCEPT !.alert.sound = id, !.alert.id = id]
    BY <1>8 DEF PlaySoundAndVibration
  <2>2. OneAlertTimer(playing)
    BY <1>7, PlayKeeps
  <2>3. playing.alert = [[published.alert EXCEPT !.sound = id] EXCEPT !.id = id]
    BY <1>7, <2>1 DEF OneAlertTimer
  <2>4. playing.alert = [id |-> id, sound |-> id, timer |-> NoTimer]
    <3> PICK f : f = [Quiet EXCEPT !.sound = id]
      OBVIOUS
    <3>1. f = [id |-> NoReminder, sound |-> id, timer |-> NoTimer]
      BY DEF Quiet
    <3>2. playing.alert = [f EXCEPT !.id = id]
      BY <1>7, <2>3
    <3> HIDE DEF playing
    <3> QED BY <3>1, <3>2
  <2> QED BY <2>2, <2>4
<1> HIDE DEF playing
<1> DEFINE new == [kind |-> "timeout", id |-> id, at |-> clock.wall + RingDuration]
<1>10. timed.alert = [id |-> id, sound |-> id, timer |-> new] /\ new \in timed.timers
  <2>1. timed = [playing EXCEPT !.alert.timer = new, !.timers = @ \cup {new}]
    BY <1>9 DEF StartAlertingTimer
  <2> HIDE DEF new
  <2> QED BY <1>9, <2>1 DEF OneAlertTimer
<1> HIDE DEF timed
<1> QED
  BY <1>1, <1>6, <1>7, <1>9, <1>10 DEF shown, told, published, playing, timed

LEMMA ShowRings ==
  ASSUME Types, Types', Single, Rings, NEW t \in Threads, ShowReminder(t)
  PROVE  Rings'
<1> DEFINE made(id, why) ==
             \E answer \in Answers, plays \in BOOLEAN :
               \/ BecomeShows(Shows) /\ Pushes(t, {})
               \/ /\ BecomeShows(Shown(id, why, plays, answer))
                  /\ Pushes(t, Writes(id, options))
               \/ /\ LET told == Told(id, why, plays, answer)
                     IN  BecomeShows(Unlist(On(told, id, OnShowFail(told.reminder[id])), id))
                  /\ Pushes(t, Writes(id, options))
               \/ /\ BecomeShows(Published(id, why, plays, answer))
                  /\ Pushes(t, {Step("cover", id)})
               \/ /\ BecomeShows(StartAlertingTimer(
                       PlaySoundAndVibration(Published(id, why, plays, answer), id)))
                  /\ Pushes(t, {Step("cover", id)})
               \/ /\ BecomeShows(PlaySoundAndVibration(Published(id, why, plays, answer), id))
                  /\ Pushes(t, {Step("terminate", id), Step("cover", id)})
<1>1. /\ Lists /\ timerId.kind # "timeout" /\ IsList(events)
      /\ OneAlertTimer(Shows) /\ Shows.alert = alert /\ Shows.timers = timers
  BY ShowsAre DEF Types, Rings, Formed
<1>2. /\ todo[t] # <<>> /\ Head(todo[t]).op = "show"
      /\ UNCHANGED <<clock, containers, trigger, events, mutex>>
      /\ made(Head(todo[t]).id, Head(todo[t]).why)
  BY Zenon, <1>1, ShowPushes
<1> HIDE DEF made
<1> PICK id, why : id = Head(todo[t]).id /\ made(id, why)
  BY <1>2
<1>3. id \in Ids /\ id # NoReminder
  BY <1>2, HeadIsDoable, NothingAssumption DEF Named
<1>4. /\ vector' = vector /\ events' = events /\ timerId'.kind # "timeout"
      /\ Head(todo[t]).op \notin Ending \cup {"stopAlertTimer"}
  BY <1>1, <1>2 DEF containers, trigger, Ending
<1>5. ~Halting
  BY <1>2, NobodyHalts DEF Rings
<1>6. alert.id # NoReminder \/ alert = Quiet
  BY <1>5 DEF Rings, Tuned
<1> DEFINE ends == Step("terminate", id)
           cover == Step("cover", id)
<1>7. /\ \A d \in {} : d.op # "stopAlertTimer"
      /\ \A d \in Writes(id, options) : d.op # "stopAlertTimer"
      /\ \A d \in {cover} : d.op # "stopAlertTimer"
      /\ \A d \in {ends, cover} : d.op # "stopAlertTimer"
      /\ ends.op = "terminate" /\ ends.id = id
  BY NoHaltAmongPushed DEF Step
<1>8. ASSUME Calmer(Shows, Shows'), NEW new, Pushes(t, new), \A d \in new : d.op # "stopAlertTimer"
      PROVE  Rings'
  BY <1>1, <1>2, <1>4, <1>8, StepRings
<1>9. ASSUME alert'.id = id, alert'.sound = id, NEW new, Pushes(t, new),
             \A d \in new : d.op # "stopAlertTimer", Runs(id)' \/ ends \in new
      PROVE  Rings'
  <2>1. ~Halting'
    BY <1>1, <1>2, <1>5, <1>9, OthersStillEnd
  <2>2. HaltIsNext' /\ Tuned'
    BY <1>3, <1>9, <2>1 DEF HaltIsNext, Tuned
  <2>3. ends \in new => Ends(id)'
    <3>1. Pending' = Left(t) \cup new
      BY <1>9 DEF Pushes
    <3> HIDE DEF ends
    <3> QED BY <1>7, <3>1 DEF Ends, Ending
  <2>4. Runs(id)' \/ Ends(id)'
    BY <1>9, <2>3
  <2>5. (Runs(alert.sound) \/ Posted(alert.sound) \/ Ends(alert.sound))'
    BY <1>9, <2>4
  <2> QED BY <1>1, <1>4, <2>2, <2>5 DEF Rings
<1> DEFINE shown(answer, plays) == Shown(id, why, plays, answer)
           failed(answer, plays) ==
             Unlist(On(Told(id, why, plays, answer), id,
                       OnShowFail(Told(id, why, plays, answer).reminder[id])), id)
           published(answer, plays) == Published(id, why, plays, answer)
           playing(answer, plays) == PlaySoundAndVibration(Published(id, why, plays, answer), id)
           timed(answer, plays) ==
             StartAlertingTimer(PlaySoundAndVibration(Published(id, why, plays, answer), id))
<1>10. ASSUME NEW answer, NEW plays
       PROVE  /\ shown(answer, plays).alert = alert /\ shown(answer, plays).timers = timers
              /\ failed(answer, plays).alert = Quiet
              /\ published(answer, plays).alert = Quiet
              /\ playing(answer, plays).alert.id = id /\ playing(answer, plays).alert.sound = id
              /\ timed(answer, plays).alert.id = id /\ timed(answer, plays).alert.sound = id
              /\ timed(answer, plays).alert.timer \in timed(answer, plays).timers
              /\ timed(answer, plays).alert.timer.kind = "timeout"
              /\ timed(answer, plays).alert.timer.id = id
  <2>1. LET told == Told(id, why, plays, answer)
            play == PlaySoundAndVibration(Published(id, why, plays, answer), id)
            run == StartAlertingTimer(play)
        IN  /\ /\ Shown(id, why, plays, answer).alert = alert
               /\ Shown(id, why, plays, answer).timers = timers
            /\ \A r : Unlist(On(told, id, r), id).alert = Quiet
            /\ Published(id, why, plays, answer).alert = Quiet
            /\ play.alert.id = id /\ play.alert.sound = id
            /\ run.alert.id = id /\ run.alert.sound = id
            /\ run.alert.timer \in run.timers
            /\ run.alert.timer.kind = "timeout" /\ run.alert.timer.id = id
    BY <1>1, <1>6, ShowMakes
  <2> QED BY <2>1
<1>11. PICK answer, plays :
         \/ BecomeShows(Shows) /\ Pushes(t, {})
         \/ BecomeShows(shown(answer, plays)) /\ Pushes(t, Writes(id, options))
         \/ BecomeShows(failed(answer, plays)) /\ Pushes(t, Writes(id, options))
         \/ BecomeShows(published(answer, plays)) /\ Pushes(t, {cover})
         \/ BecomeShows(timed(answer, plays)) /\ Pushes(t, {cover})
         \/ BecomeShows(playing(answer, plays)) /\ Pushes(t, {ends, cover})
  BY Zenon DEF made
<1> HIDE DEF shown, failed, published, playing, timed, cover
<1>12. CASE /\ \/ BecomeShows(Shows)
               \/ BecomeShows(shown(answer, plays))
               \/ BecomeShows(failed(answer, plays))
               \/ BecomeShows(published(answer, plays))
            /\ Pushes(t, {}) \/ Pushes(t, Writes(id, options)) \/ Pushes(t, {cover})
  <2>1. PICK s : BecomeShows(s) /\ (s.alert = Quiet \/ (s.alert = alert /\ s.timers = timers))
    BY <1>1, <1>10, <1>12
  <2>2. Calmer(Shows, s)
    BY <1>1, <2>1, SameIsCalmer DEF Calmer
  <2>3. Calmer(Shows, Shows')
    BY <2>1, <2>2, BecomeIsCalmer
  <2> QED BY <1>7, <1>8, <1>12, <2>3
<1>13. CASE BecomeShows(timed(answer, plays)) /\ Pushes(t, {cover})
  <2>1. alert'.id = id /\ alert'.sound = id /\ Runs(id)'
    BY <1>10, <1>13 DEF BecomeShows, Runs
  <2> QED BY <1>7, <1>9, <1>13, <2>1
<1>14. CASE BecomeShows(playing(answer, plays)) /\ Pushes(t, {ends, cover})
  <2>1. alert'.id = id /\ alert'.sound = id
    BY <1>10, <1>14 DEF BecomeShows
  <2> HIDE DEF ends
  <2>2. ends \in {ends, cover}
    OBVIOUS
  <2> QED BY <1>7, <1>9, <1>14, <2>1, <2>2
<1> QED
  BY <1>11, <1>12, <1>13, <1>14

(* Calls and events begin where nothing is under way. *)
LEMMA HandlersRing ==
  ASSUME MaxBusy <= 1, Types, Types', Single, Rings,
         (\E t \in Callers : Caller(t)) \/ OnEvent,
         vector' = vector, IsList(events'), timerId'.kind # "timeout", Calmer(Shows, Shows'),
         NEW id, id = alert.sound,
         id \in vector /\ Posted(id) => Posted(id)' \/ Ends(id)'
  PROVE  Rings'
<1>1. Pending = {}
  BY BeginsAlone, IdleHasNothing
<1>2. \E new : Adds(new) /\ \A d \in new : Begun(d)
  BY CallsAdd, EventsAdd
<1>3. ~Halting /\ ~Ends(id)
  BY <1>1 DEF Halting, Ends
<1>4. ~Halting'
  BY <1>1, <1>2 DEF Halting, Adds, Begun, Begins
<1> QED
  BY <1>3, <1>4, CalmRings

LEMMA CallsRing ==
  ASSUME MaxBusy <= 1, Types, Types', Single, Rings, NEW t \in Callers, Caller(t)
  PROVE  Rings'
<1> PICK id : id = alert.sound
  OBVIOUS
<1>1. UNCHANGED <<containers, shows, trigger, events>>
  BY CallsAdd
<1>2. /\ vector' = vector /\ IsList(events') /\ timerId'.kind # "timeout"
      /\ Calmer(Shows, Shows') /\ (Posted(id) => Posted(id)')
  BY <1>1, StillIsCalmer DEF containers, shows, trigger, Rings, Posted
<1> QED
  BY <1>2, HandlersRing

LEMMA ProcessDiedIsCalmer ==
  ASSUME Types, timerId.kind # "timeout", OnProcessDied
  PROVE  Calmer(Shows, Shows')
<1>1. PICK q \in {Shows, StopAlertingReminder(Shows, alert.id)} : \E a, b, c, d :
        BecomeShows([q EXCEPT !.reminder = a, !.panel = b, !.showed = c, !.rows = d])
  BY DEF OnProcessDied
<1>2. OneAlertTimer(q)
  BY StopAlertingKeeps DEF Types, Formed
<1>3. \A a, b, c, d :
        LET s == [q EXCEPT !.reminder = a, !.panel = b, !.showed = c, !.rows = d]
        IN  s.alert = q.alert /\ s.timers = q.timers
  BY <1>2 DEF OneAlertTimer
<1>4. alert' = q.alert /\ timers' = q.timers
  BY <1>1, <1>3 DEF BecomeShows
<1> QED
  BY <1>4, TimerEndsCalmly

LEMMA TailOfEvents ==
  ASSUME IsList(events), events # <<>>, events' = Tail(events)
  PROVE  /\ IsList(events')
         /\ \A id : Posted(id) => \/ Posted(id)'
                                  \/ Head(events).type = "timeout" /\ Head(events).id = id
<1>1. PICK S : events \in Seq(S)
  BY DEF IsList
<1>2. /\ Tail(events) \in Seq(S) /\ Len(events) \in Nat /\ Len(events) > 0
      /\ DOMAIN events = 1 .. Len(events) /\ DOMAIN Tail(events) = 1 .. (Len(events) - 1)
      /\ \A i \in 1 .. (Len(events) - 1) : Tail(events)[i] = events[i + 1]
      /\ Head(events) = events[1]
  BY <1>1
<1>3. \A i \in DOMAIN events : \/ events[i] = Head(events)
                               \/ i - 1 \in DOMAIN events' /\ events'[i - 1] = events[i]
  BY <1>2
<1>4. IsList(events')
  BY <1>2 DEF IsList
<1> QED
  BY <1>3, <1>4 DEF Posted

LEMMA EventsRing ==
  ASSUME MaxBusy <= 1, Types, Types', Single, Rings, OnEvent
  PROVE  Rings'
<1> PICK id : id = alert.sound
  OBVIOUS
<1>1. /\ IsList(events) /\ timerId.kind # "timeout" /\ Lists
  BY DEF Rings, Types
<1>2. /\ events # <<>> /\ events' = Tail(events) /\ todo[EventThread] = <<>>
      /\ timerId' \in {timerId, NoTimer} /\ vector' = vector
      /\ Head(events).type = "timeout" => OnTimeout
  BY DEF OnEvent, OnAlarm, OnTimeout, OnButton, OnPackageRemoved, OnUserSwitch, OnTimeChanged,
     OnProcessDied, OnBootCompleted, Receive, MayBegin, containers, trigger
<1>3. timerId'.kind # "timeout"
  BY <1>1, <1>2 DEF NoTimer
<1>4. Calmer(Shows, Shows')
  BY <1>1, EventIsQuieter, ProcessDiedIsCalmer, StillIsCalmer
<1>5. /\ IsList(events')
      /\ Posted(id) => \/ Posted(id)'
                       \/ Head(events).type = "timeout" /\ Head(events).id = id
  BY <1>1, <1>2, TailOfEvents
<1>6. Head(events).type = "timeout" /\ Head(events).id = id => Ends(id)'
  <2> SUFFICES ASSUME Head(events).type = "timeout", Head(events).id = id
               PROVE  Ends(id)'
    OBVIOUS
  <2>1. Handle(<<Step("timeout", id)>>)
    BY <1>2 DEF OnTimeout
  <2>2. Adds({Step("timeout", id)})
    BY <1>1, <1>2, <2>1, HandledIsAdded DEF Plain
  <2>3. Step("timeout", id) \in Pending'
    BY <2>2 DEF Adds
  <2>4. Step("timeout", id).op = "timeout" /\ Step("timeout", id).id = id
    BY DEF Step
  <2> QED BY <2>3, <2>4 DEF Ends, Ending
<1>7. Posted(id) => Posted(id)' \/ Ends(id)'
  BY <1>5, <1>6
<1> QED
  BY <1>2, <1>3, <1>4, <1>5, <1>7, HandlersRing

(* An event more: none of those that wait is lost. *)
LEMMA PostAppends ==
  ASSUME IsList(events), NEW type, NEW id, NEW app, Post(type, id, app)
  PROVE  /\ IsList(events')
         /\ \A x : Posted(x) => Posted(x)'
         /\ type = "timeout" => Posted(id)'
<1> DEFINE e == [type |-> type, id |-> id, app |-> app]
<1>1. events' = Append(events, e) /\ e.type = type /\ e.id = id
  BY DEF Post
<1> HIDE DEF e
<1>2. PICK S : events \in Seq(S)
  BY DEF IsList
<1> DEFINE T == S \cup {e}
<1>3. events \in Seq(T) /\ e \in T
  BY <1>2
<1> HIDE DEF T
<1>4. /\ events' \in Seq(T) /\ Len(events) \in Nat
      /\ DOMAIN events = 1 .. Len(events) /\ DOMAIN events' = 1 .. (Len(events) + 1)
      /\ \A i \in 1 .. Len(events) : events'[i] = events[i]
      /\ events'[Len(events) + 1] = e
  BY <1>1, <1>3
<1>5. /\ \A i \in DOMAIN events : i \in DOMAIN events' /\ events'[i] = events[i]
      /\ \E i \in DOMAIN events' : events'[i] = e
  BY <1>4
<1>6. IsList(events')
  BY <1>4 DEF IsList
<1> QED
  BY <1>1, <1>5, <1>6 DEF Posted

LEMMA EnvironmentRings ==
  ASSUME Types, Rings, Environment, ~Restart
  PROVE  Rings'
<1> PICK id : id = alert.sound
  OBVIOUS
<1>1. IsList(events)
  BY DEF Rings
<1>2. UNCHANGED <<vector, alert, timerId, todo>>
  BY DEF Environment, Tick, TimerFires, SetTime, Press, Announce, containers, shows, trigger
<1>3. CASE Tick
  BY <1>1, <1>2, <1>3 DEF Tick, shows, Rings, HaltIsNext, Halting, Left, Pending, Tuned, Runs, Posted,
     Ends
<1>4. /\ Pending' = Pending /\ (Halting' <=> Halting)
      /\ \A u \in Threads : Left(u)' = Left(u)
  BY <1>2 DEF Pending, Halting, Left
<1>5. HaltIsNext' /\ Tuned'
  BY <1>2, <1>4 DEF HaltIsNext, Tuned, Rings
<1>6. Ends(id) => Ends(id)'
  BY <1>4 DEF Ends
<1>7. ASSUME IsList(events'), Posted(id) => Posted(id)', Runs(id) => Runs(id)' \/ Posted(id)'
      PROVE  Rings'
  <2>1. id \in vector' => Runs(id)' \/ Posted(id)' \/ Ends(id)'
    BY <1>2, <1>6, <1>7 DEF Rings
  <2>2. alert'.sound \in vector' =>
          (Runs(alert.sound) \/ Posted(alert.sound) \/ Ends(alert.sound))'
    BY <1>2, <2>1
  <2> QED BY <1>2, <1>5, <1>7, <2>2 DEF Rings
<1>8. ASSUME NEW timer \in timers, TimerFires(timer)
      PROVE  Rings'
  <2>1. PICK app : Post(timer.kind, timer.id, app)
    BY <1>8 DEF TimerFires
  <2>2. /\ IsList(events') /\ (Posted(id) => Posted(id)')
        /\ timer.kind = "timeout" => Posted(timer.id)'
    BY <1>1, <2>1, PostAppends
  <2>3. timers' = timers \ {timer}
    BY <1>8 DEF TimerFires
  <2>4. Runs(id) => Runs(id)' \/ (timer.kind = "timeout" /\ timer.id = id)
    BY <1>2, <2>3 DEF Runs
  <2>5. Runs(id) => Runs(id)' \/ Posted(id)'
    BY <2>2, <2>4
  <2> QED BY <1>7, <2>2, <2>5
<1>9. ASSUME timers' = timers, NEW type, NEW x, NEW app, Post(type, x, app)
      PROVE  Rings'
  <2>1. IsList(events') /\ (Posted(id) => Posted(id)')
    BY <1>1, <1>9, PostAppends
  <2>2. Runs(id) => Runs(id)'
    BY <1>2, <1>9 DEF Runs
  <2> QED BY <1>7, <2>1, <2>2
<1>10. CASE ~Tick /\ ~ \E timer \in timers : TimerFires(timer)
  <2>1. timers' = timers /\ \E type, x, app : Post(type, x, app)
    BY <1>10 DEF Environment, SetTime, Press, Announce, shows
  <2> QED BY <1>9, <2>1
<1> QED
  BY <1>3, <1>8, <1>10

LEMMA RestartRings ==
  ASSUME Types', Restart
  PROVE  Rings'
<1> DEFINE d == Step("serviceStart", NoReminder)
           s == <<d>>
<1>1. /\ alert' = Quiet /\ timerId' = NoTimer
      /\ \E t \in Callers : todo' = [u \in Threads |-> When(u = t, s)]
      /\ \E e : events' = <<e>>
  BY DEF Restart
<1>2. \A e : IsList(<<e>>)
  <2> TAKE e
  <2>1. <<e>> \in Seq({e})
    OBVIOUS
  <2> QED BY <2>1 DEF IsList
<1>3. IsList(events') /\ timerId'.kind # "timeout"
  BY <1>1, <1>2 DEF NoTimer
<1>4. Elements(s) = {d} /\ Proper(s) /\ d.op # "stopAlertTimer"
  BY OneIsProper DEF Step
<1> HIDE DEF s, d
<1>5. \A c \in BOOLEAN : Elements(When(c, s)) \subseteq {d}
  BY <1>4, WhenIsProper
<1>6. PICK t \in Callers : todo' = [u \in Threads |-> When(u = t, s)]
  BY <1>1
<1>7. \A u \in Threads : Elements(todo'[u]) \subseteq {d}
  BY <1>5, <1>6
<1>8. ~Halting'
  BY <1>4, <1>7 DEF Halting, Pending
<1> QED
  BY <1>1, <1>3, <1>8, QuietRings

LEMMA NextRings ==
  ASSUME MaxBusy <= 1, Types, Types', Single, Rings, [Next]_vars
  PROVE  Rings'
<1>1. ASSUME NEW t \in Threads, Proceed(t)
      PROVE  Rings'
  BY <1>1, StillStepsRing, FlagStepsRing, EndingsRing, WritersRing, RecentRings, RemoveRings,
     CancelAllRings, RefreshRings, OverdueRings, SaveRings, StopSoundRings, StopAlertTimerRings,
     ShowRings
     DEF Proceed, StillStep, FlagStep
<1>2. CASE UNCHANGED vars
  BY <1>2 DEF vars, containers, shows, trigger, Rings, HaltIsNext, Halting, Left, Pending, Tuned,
     Runs, Posted, Ends
<1> QED
  BY <1>1, <1>2, CallsRing, EventsRing, EnvironmentRings, RestartRings DEF Next

LEMMA InitRings ==
  ASSUME Init
  PROVE  Rings
<1>1. \A t \in Threads : todo[t] = <<>>
  BY DEF Init
<1>2. ~Halting
  BY <1>1, IdleHasNothing DEF Halting
<1>3. events = <<>> /\ timerId = NoTimer /\ alert = Quiet /\ vector = {}
  BY DEF Init
<1>4. IsList(events)
  BY <1>3, NoneIsProper DEF Proper
<1> QED
  BY <1>2, <1>3, <1>4 DEF Rings, HaltIsNext, Tuned, Quiet, NoTimer

(* With one handler at a time, a listed reminder whose sound plays when    *)
(* none is under way is the alerting one, and its alert timer runs or the  *)
(* event of that timer waits; and no reminder has more snoozes left than   *)
(* it was given.                                                           *)
THEOREM SoundsAreEnded ==
  ASSUME MaxBusy <= 1
  PROVE  Spec => []RingingEnds
<1>1. Init => Types /\ Single /\ Rings
  BY InitIsTyped, InitIsStored, InitRings
<1>2. Types /\ Single /\ Rings /\ [Next]_vars => (Types /\ Single /\ Rings)'
  BY NextKeepsTypes, NextKeepsSingle, NextRings
<1>3. Types /\ Single /\ Rings => RingingEnds
  <2> SUFFICES ASSUME Types, Rings PROVE RingingEnds
    OBVIOUS
  <2>1. ASSUME Idle, alert.sound \in vector
        PROVE  alert.id = alert.sound /\ Timed(alert.sound)
    <3>1. Pending = {}
      BY <2>1, IdleHasNothing DEF Idle, Busy
    <3>2. alert.id = alert.sound /\ (Runs(alert.sound) \/ Posted(alert.sound))
      BY <2>1, <3>1 DEF Rings, Tuned, Ends
    <3> QED BY <3>2 DEF Timed, Runs, Posted
  <2>2. ASSUME NEW id \in vector
        PROVE  reminder[id].snoozesLeft \in 0 .. reminder[id].kind.times
    BY <2>2 DEF Types, Given, Reminders
  <2> QED BY <2>1, <2>2 DEF RingingEnds
<1> QED
  BY <1>1, <1>2, <1>3, PTL DEF Spec
=============================================================================
