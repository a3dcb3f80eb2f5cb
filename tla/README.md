# Verification of the advanced notification service

TLA+ specifications, TLC runs and machine-checked proofs for the advanced
notification service (ANS) of `notification_ans_standard`. Paths below are
relative to the repository's root, `src/`. `ActiveNotifications` is the build
without `DISTRIBUTED_NOTIFICATION_SUPPORTED`; what that flag adds is in the
modules whose names begin with `Distributed`.

## The system

ANS is one system service process. Applications reach it over IPC; system
applications and services subscribe to it and show what it sends them.

| Component | State | Operations |
|---|---|---|
| Active notification list, `services/ans/src/advanced_notification_service.cpp` | `notificationList_`, `flowControlTimestampList_`, `recentInfo_` | publish, cancel, delete, remove, publish and cancel of continuous tasks, events of the package manager and of accounts |
| Preferences, `services/ans/src/notification_preferences*.cpp` | settings in memory and in a key-value store: switches, slots, groups, do-not-disturb dates | a setter per setting: copy, change the copy, write the store, keep the copy if the write succeeded |
| Subscriber manager, `services/ans/src/notification_subscriber_manager.cpp` | a record per subscriber, its own event handler | subscribe, unsubscribe, post and dispatch events, deaths |
| Filters, `permission_filter.cpp`, `notification_slot_filter.cpp` | none | accept or refuse a request, choose how it alerts |
| Distributed database and manager, `services/distributed/src/` | a key-value store shared by devices, flow control lists, callbacks | publish, update and delete towards other devices, changes and device events from them |
| Reminder manager, `services/ans/src/reminder_data_manager.cpp`, `reminder_event_manager.cpp`, `frameworks/ans/src/reminder_request*.cpp`, `reminder_store.cpp` | reminders, their options, those shown, a timer, the alerting reminder and its timer, a database | publish, cancel, show, snooze, close, expire, refresh after a change of time, user switch, end of the owner's process, load after a start |
| System events, `system_event_observer.cpp` | none | package removed, data cleared, user switched or removed, screen on and off |
| Client framework, `frameworks/core/src/` | the handle of the service that the threads of an application share, the recipient of its death | a function per call: checks, the handle, the proxy's parcel, the stub's answer |
| Data classes, `frameworks/ans/src/` | the members of requests, contents, slots, reminders | to and from a parcel, to and from JSON |
| JavaScript bindings, `frameworks/js/napi/src/` | the instances behind script objects, those being deleted | subscribe, unsubscribe, hear events, turn objects into native ones and back |
| Dump tool, `tools/dump/src/` | none | print, set the recent count |

How they interact. Each public call of the service runs on an IPC thread, posts
one closure to the service's event handler with `PostSyncTask` and waits; the
handler runs closures one at a time. The closure reads and writes the list, calls
the preferences, and posts events to the subscriber manager's own handler
without waiting. That handler sends asynchronous messages to the subscribers.
Subscribe and unsubscribe go to the manager's handler directly, with high
priority, from the IPC thread. System events call the list's handlers, except
`OnUserSwitched`-like events that reload the preferences on the observer's own
thread. Reminders publish and cancel through the list; their manager is called on
IPC threads and by common events, those of its timers and of the buttons of its
notifications among them, and has four locks of its own and no handler.

What is hard, and which component is exposed to it:

- *Order.* An event passes two queues (manager, binder) while calls overtake it
  and the subscriber may die: subscriber manager.
- *Limits.* 1000 notifications, 100 an owner, 10 a second; the eviction that
  makes room is silent and orders records by data that not every record has: list.
- *Two copies of one thing.* Recent list and active list; memory and store of
  the preferences; what subscribers show and what is listed; a switch and its
  announcement.
- *Partial failure.* A store that refuses a write in the middle of a handler;
  a setting taken out and put in again; an error overwritten by a later success.
- *Identity.* Keys, bundle options (name and uid), users: the same bundle exists
  for several users and an agent publishes for another bundle.
- *Liveness.* Events reach every subscriber; dead subscribers are forgotten.
- *Other devices.* Their changes wait in two handlers while the user deletes what
  they are about and the devices leave; a handle on the store is dropped by one
  refusal and used by the next call: distributed components.
- *Tables kept twice.* Proxy and stub, parcel written and parcel read, JSON
  written and JSON read, script properties set and read: each pair is two
  functions, written by hand, that must name the same members in the same order.
- *Threads of others.* A handle used after the service died; an instance deleted
  by the event loop while the pool or the IPC thread holds it.
- *Timers, several locks and threads.* Reminders: a handler takes and leaves a
  lock many times, reads `activeReminderId_` and `alertingReminderId_` without one,
  and another thread, a timer or the user may come between.

What makes each component correct: the list is bounded, has one record per key
and agrees with the recent list and with what subscribers were told; a bundle that
is switched off stays quiet; a subscriber is sent exactly what it follows, in
order, within its connection; memory and store of the preferences agree after
every partial failure; a rate limit holds in every window; a reminder that is to
come is timed, what rings is ended, and what the database has is what a restart
needs; two devices that are idle agree on what is shown; what a client asks is
what the service is asked, and what it answers is what the client is told; an
object that crosses a process, a device or a script keeps its members.

## Modules

| Module | What it is |
|---|---|
| `ActiveNotifications` | the list component: one action per public call or handler |
| `ActiveNotificationsProofs` | its theorems: types, keys and the list's bound, switches, removals, limits, flow control and the recent list |
| `MCActiveNotifications` | its instances for TLC |
| `Subscriptions` | the abstract promise of a subscription |
| `SubscriberManager` | the subscriber manager, its clients' inboxes and views; implements `Subscriptions` |
| `SubscriberManagerProofs` | its theorems, the implementation among them |
| `MCSubscriberManager` | its instances for TLC |
| `NotificationPreferences` | settings in memory, the store under them, setters and reloads |
| `NotificationPreferencesProofs` | its theorems |
| `MCNotificationPreferences` | its instances for TLC |
| `ReminderRequests` | one reminder: an alarm or a timer, its next time and its state, as operators |
| `ReminderDataManager` | the reminder manager, its threads, timers, events and database |
| `ReminderDataManagerProofs` | its theorems |
| `MCReminderDataManager` | its instances for TLC |
| `DistributedFlowControl` | the rate limits before the distributed key-value service, as operators |
| `DistributedStores` | the three holders of a handle on that service; extends `DistributedFlowControl` |
| `DistributedNotifications` | the notifications devices share: the manager's handler, the service's handler, the store |
| `DistributedNotificationsProofs` | its theorems |
| `MCDistributedNotifications` | its instances for TLC |
| `AnsManagerInterface` | the parcels of each call, as the proxy writes and the stub reads them |
| `AnsNotification` | the client's functions, the shared handle, the death of the service; composes the tables of `AnsManagerInterface` |
| `AnsNotificationProofs` | theorems of both |
| `MCAnsNotification` | its instances for TLC |
| `SubscriberInstances` | from the service's message to the callback of a script: IPC, pool, event loop, deletion |
| `SubscriberInstancesProofs` | its theorems |
| `MCSubscriberInstances` | its instances for TLC |
| `Tables` | tables from the keys of a form to members |
| `NotificationForms` | the parcels of the data classes, item by item |
| `NotificationJson` | their JSON |
| `ScriptForms` | their script objects |
| `NotificationJourney` | the way of an object through all three; composes them |
| `StoresAndJourneyProofs` | theorems of `DistributedStores` and of `NotificationJourney` |

### ActiveNotifications

State and code:

| Variable | Code |
|---|---|
| `notificationList` | `notificationList_`, a set of records; its order only matters where the code takes the first match, which `First` rebuilds from `time` |
| `flowControlTimestampList` | the list of that name, as ages, oldest first |
| `recentList`, `recentCount` | `recentInfo_->list`, `recentInfo_->recentCount` |
| `shown` | history: keys for which NotifyConsumed was called and NotifyCanceled not yet |
| `enabled`, `userEnabled`, `slots` | what the preferences answer to the calls of the service |
| `announced` | history: the switch last passed to NotifyEnabledNotificationChanged |
| `alive` | FALSE once the process has read a null slot or popped an empty list |

An action is one closure on the handler. A call that is refused before it
changes anything (no permission, a bad parameter, a write the store refused) is
a stuttering step. Where the code goes on after a refused write, the action has
a disjunct for it (`SetNotificationsEnabledForSpecialBundle`, `OnBundleRemoved`,
`SetEnabledForBundleSlot`). Closures that other closures call are part of
the caller's action: `RemoveAllNotifications`, called on the handler when a
switch is turned off, passes its permission checks there because the service's
own native token is looked at. Undefined behaviour is a choice over its outcomes:
`pop_back` on an empty list may or may not end the process
(`RecentUndefined`). Comparing a missing slot ends it (`SortIsFatal`). Equal
records may be evicted in either order, since the code's sort need not be told
apart by the properties. Left out: how a notification alerts, the sorting map,
bodies and pictures, the do-not-disturb reminder type.

Identity is kept as the code has it: an application is a bundle and a uid
(`NameOf`, `UserOf`), a key is creator and (label, id), the owner that flow
control counts is the bundle *name*, and `KeysMatch` repeats the condition of
`GetNotificationKeys`, which matches the same bundle of another user.

### Subscriptions and SubscriberManager

`Subscriptions` says what a subscriber may rely on: it follows a set of bundles,
which subscribing replaces and unsubscribing reduces; each event is delivered
once, in order, to exactly the running subscribers that follow its source.
`SubscriberManager` is the code: a record is a list of bundles followed or, after
a subscription to all, of bundles left out; high-priority tasks for calls and
deaths overtake the queue of events; death recipients; inboxes that model the
ordered asynchronous IPC. `Promise` maps the record to the set it stands for.

| Variable | Code |
|---|---|
| `subscriberRecordList` | `subscriberRecordList_`, as a function; `NoRecord` for who has none |
| `queue` | low-priority tasks on the manager's handler |
| `pending` | the high-priority task of a client that waits in `PostSyncTask` |
| `linked` | death recipients |
| `inbox`, `view`, `running` | messages on their way, what the client shows, its process |
| `current` | what the service announced last on a topic |
| `informed` | history: topics whose last event was sent to a subscriber |

A topic is the key of a notification or a setting (do-not-disturb date, switch).
The handler may take either kind of task at any moment, which includes
what its priorities allow. A client has one call at a time. Adding a
death recipient to a dead object may fail or not, as the IPC layer finds out;
the service ignores the result. `NotifyUpdated` is left out: nothing calls it.
A message that the IPC layer drops although the process runs is not modelled.

`Subscriptions` separates what a client asks for from what it has: `Ask` files a
wish, `Subscribe` and `Unsubscribe` answer it, `Forget` ends the subscription
of a client that died. The manager may thus answer a call any time after it is
made, but changes nothing that was not asked for.

### NotificationPreferences

| Variable | Code |
|---|---|
| `preferencesInfo` | `preferencesInfo_`: bundles that are known, and users |
| `store` | `kvStorePtr_` (`connected`), label keys, keys of a bundle's fields, keys of a user |
| `copy` | the local `preferencesInfo` of a setter between the write and the assignment |
| `reload` | how far `ParseFromDisturbeDB` has got, and what it has read and not yet filed |
| `torn` | history: users and bundles whose settings a setter and a reload both touched |

A setter has two steps: the store operations with their outcome, and `Commit`.
The operations on the store are sets of outcomes (the store they leave, and whether
they succeed), composed as the code composes them: `PutFields` checks the bundle
first, which may write a label, then the defaults, then the field; each write may be
refused. `Faults` says what may go wrong: a write, a read, or
the connection. A reload is a step for each callback, since it has a
thread of its own and nothing locks the settings; the same steps read the
settings at a start, when no call is served. `Restart` may follow any state.

The slots and groups of a bundle are one field each, and so is a do-not-disturb
date, which is written in one batch. Groups do not share a prefix of their keys.
Getters are left out, `AddNotificationBundleProperty` and
`ClearNotificationInRestoreFactorySettings` too, since nothing calls them.

`MemoryIsStore` speaks of bundles whose switch is on by default and whose name
the store has. Without the first condition it is false
(`SwitchIsFromDB`), without the second as well (`KnownIsReadable`).
That a reload may cross a setter is part of the code: the property says that the
damage stays with what was touched then, and that the next reload that nothing
crosses puts it right.

### ReminderRequests and ReminderDataManager

| Variable | Code |
|---|---|
| `vector`, `options`, `totalCount` | `reminderVector_` as the set of its ids, `notificationBundleOptionMap_`, `totalCount_` |
| `lastId`, `ready` | `ReminderRequest::GLOBAL_ID`, `isReminderAgentReady_` |
| `reminder` | the object of each id, which handlers hold also after it left the vector |
| `rows` | the table of the database, without the state, which every start resets |
| `showed`, `panel` | `showedReminderVector_`; reminder notifications the list has |
| `activeReminderId`, `timerId` | the members of the name |
| `alert` | `alertingReminderId_`, `timerIdAlerting_`, and the reminder `soundPlayer_` plays |
| `timers`, `events` | timers of the time service; common events not yet handled |
| `mutex`, `todo` | who holds `MUTEX` from one step to the next; the steps each thread has yet to do |
| `clock` | wall time, which the user sets, and time since boot |

A thread of the IPC runs a call, one thread runs the common events in order. A
handler is a list of steps, each up to the next lock, so that another thread may
come between any two; `AtLocked` is a step that takes `MUTEX`, and
`ShowActiveReminderExtend` holds it over all it shows. What runs inside one step
(`TerminateAlerting`, `PlaySoundAndVibration`, `StopAlertingReminder`, ...) are
operators from what a show changes to what it leaves, composed in the code's order.
`UpdateOrInsert` outside of `MUTEX` is a look at the option, here, and a write,
later.

Time counts ticks of one minimal interval's fraction: an alarm has an hour of a day
of `DayLength` ticks, and snoozes; a timer counts time since boot. The order of
the vector only decides among equals and what is passed over before the first
reminder to come; the model takes any order that the last sort allows. What the
list answers to a reminder is one of `Answers`: refused before showing (the switch
is off), failed after, shown without sound, shown with it. A timer fires at its
time or any time later.

After a restart the boot event loads the reminders and, on another thread, the start of
the bundle manager shows what is overdue; either may come first. A call that
arrives before the load dereferences a store that is not there, ends the
service, and is `Restart` again.

Left out: calendar reminders, change of the time zone, several users and their
removal, a second start of the bundle manager, failures of the database.

### DistributedFlowControl and DistributedStores

| Variable | Code |
|---|---|
| `holder` | which of `DistributedDatabase`, `DistributedScreenStatusManager`, `DistributedPreferencesDatabase` a behaviour follows |
| `handle` | `kvDataManager_`, `kvStore_`, whether the callback is subscribed, the lists `kvDataManagerCallTimestampList_` and `kvStoreCallTimestampList_` as ages |
| `status`, `localScreenOn` | this device's entry in the store of screens; the member of the name |
| `refused` | history: the last status was not written |
| `alive` | FALSE once a null manager was used |

An action is one call, under the holder's lock. The helpers that check a handle
and open it anew are operators from a handle to the set of handles they may
leave, one for each outcome that `Faults` allows.
`distributed_screen_status_manager.cpp:217` uses `kvDataManager_` although only the
store was checked; where a failed query dropped the manager, the behaviour ends
(`alive`). The limits are applied as written, which is not as documented
(`CallsWithinMaxima`).

### DistributedNotifications

| Variable | Code |
|---|---|
| `store` | what this device has of the shared store: a content for a device and a note |
| `list` | `notificationList_` in its order, of this device and of others |
| `events`, `tasks` | the handlers of `DistributedNotificationManager` and of the service, in order |
| `online` | devices that are there |
| `enabled`, `saved` | `DistributedPreferencesInfo` and the store of switches |
| `told` | history: keys the subscribers were told of |
| `excused` | history: keys whose entry was refused, or that went by a step the code has no answer to |

A change from another device is a callback of the store, a task of the
manager, then a task of the service. The checks are made where the code makes
them. `Erase` is every removal: it deletes the entry under the name of a device
that the caller chooses, which at an uninstallation is this device's also for the
notes of others (`ThisDevice`). `excused` has one reason for each key in it: a
refused call of the store; a request that stops sharing a note under an entry that
stays; a deletion here of a note while a change of its device is on
the way, since nothing orders the two; an uninstallation. Limits and the handles
of the store are left to the modules above.

### AnsManagerInterface and AnsNotification

A parcel is a sequence of items, a type and an argument each. `AnsManagerProxy`
has for each method what the proxy writes and awaits, `AnsManagerStub` what the
`Handle...` function reads and answers, in the order of the two files. `Client` has a
row for each function of `ans_notification.cpp`: what it refuses before it asks for
the handle and after, the method it calls, the copies it makes and whether it
notices that one failed.

| Variable | Code |
|---|---|
| `handle`, `watched` | `ansManagerProxy_` and `recipient_`, by the start of the service they belong to |
| `service` | how often the service has started, and whether it runs |
| `thread` | what a thread is doing: its call, what was served, answered and told |
| `alive` | FALSE once a null handle or a null copy was used |

A call is several steps: the checks, `GetAnsManagerProxy` (a look without the lock, a
lookup under it, then the recipient), `Transact`, `OnRemoteRequest`, the reply.
Between any two the service may die and another thread may drop the handle.

### SubscriberInstances

| Variable | Code |
|---|---|
| `instances`, `listed`, `deleted` | the `SubscriberInstance` objects, `subscriberInstances_`, those that were deleted |
| `deleting` | `DeletingSubscriber` |
| `subscribed`, `link` | records in the service, messages on their way to each instance |
| `linked`, `died` | who will hear of the service's death, and whom the news is on its way to |
| `pool`, `ready` | work of `napi_create_async_work` and `uv_queue_work`: in the pool, then waiting for the loop |
| `heard` | events the callbacks were given |
| `dangling` | a deleted instance was used; the behaviour ends |

The turn of `onDisconnect` on the loop deletes the instance, which work that is
still in the pool may hold.

### NotificationForms, NotificationJson, ScriptForms and NotificationJourney

The three tables have, for each class and direction, the items or keys in the
order of the code, each with the member it stands for. `NotificationJourney`
makes an object of a script or of a native program, with every property, with only
what it needs, and without each one in turn, and carries it through them:
`Tell` (script to native, with what is refused), `Send` and `Read` (parcels),
`Serve` and `Post` (what the service adds), `Store` and `Fetch` (JSON), `Hear`
(native to script). An object is the set of members it has other than by default,
each under the role its object plays, with the values of its enumerations, which
the bindings translate. A script that follows a null pointer ends (`crashed`).

## Runs

Passing runs:

| Run | Question | Bounds |
|---|---|---|
| `caps` | Do the limits of the list, of an owner and of a second hold, and does eviction take the right record, silently only at a limit? Is the recent list in step and within its count? | 3 applications of 2 bundles and 2 users, 2 ids, 2 slot types of different level; limits 3, 2, 2: an owner can exceed its share alone or with its other user, the list only with both bundles |
| `switches` | Does a bundle switched off stay quiet, and stay off? What do continuous tasks, which go round flow control, do to limits and sorting? Are list, recent list and what subscribers were told in step under every call? | all calls, a compatible and an incompatible bundle, an agent, one service; limits 2: the task fills the list or shares an owner |
| `subscribers` | Is the last word a subscriber hears current, does everything happen between OnConnected and OnDisconnected, do the records implement `Subscriptions`, do views converge and are the dead forgotten? | one subscriber beside a system user, 2 bundles with a notification each and a setting, 6 kinds of call, 3 posts, 3 calls, queue and inbox 2: two events on one topic can wait in either queue while calls overtake both; with fairness |
| `preferences` | Do memory and store agree after refused writes, crossing reloads and a process that ends anywhere? | one bundle with a property, a slot and a group, 2 users, 2 values, one group at most; a behaviour changes the settings of bundles or those of users, which share no field |
| `reminders` | Handled one at a time: does what rings end, has the database what a restart needs, is what shows on the panel? | 2 reminders of a snoozing alarm and a timer, which may have the same notification; days of 3 ticks, 2 days, 2 ticks since boot besides jumps of the wall time, so that an alarm is shown and snoozed and the wall time can jump over each; all four answers; one event waits |
| `reminders_race` | With an IPC thread beside the event thread: do containers and count agree, is the alert timer known? | 2 reminders, 2 handlers at once, cancel, cancel all, package removed, user switched, restart at any step |
| `stores` | Whatever is refused, does the store that is held hear of changes, is the screen's status told, does the store's limit of a minute hold? | each holder; a second of 1 tick, a minute of 2, limits 1 to 3, 5 calls in a minute, so that each limit is met and old calls are forgotten; all faults |
| `distributed` | When both handlers are idle, is what is listed what the store has, was it told, and does what is taken back go? | another device, a note under which either publishes, 2 contents, 2 changes waiting; leaves, returns, switches refused, restarts; with fairness |
| `framework` | Is each call served as asked and told as answered, and does it come back, with the service dying anywhere? | every function with usual and odd arguments from one thread, a second thread with one call, 8 requests that differ in what is checked, 2 starts of the service; with fairness |
| `instances` | Is what is posted heard, once, with its reason? Is an instance unsubscribed by one call at a time? | an object with the callbacks that matter and one that never hears of its end, a pool of 2, 2 instances, 3 calls, 2 events or deaths; with fairness |
| `journey` | Does every object arrive whole, and what is lost on the way to another device? | every class, type of content, property and member; slots and ways of reminding by two values each; each object travels alone, since nothing is shared |

The limits of the code are constants of the models; the properties compare a
size with a limit at a single point, so small limits that can be reached one at
a time and together show the same cases. `MaxQueue`, `MaxInbox`, `MaxPosts`,
`MaxCalls`, `MaxVersion`, `MaxStart` and `MaxInstances` bound a behaviour and
model nothing. Deadlock checking is off where a
model may stop: when the process died or all bounds are used up.

Fairness is weak and given to what runs while there is work, never to who
publishes, calls, dies or returns:

- `subscribers`: the handler's tasks, the delivery of messages and of obituaries.
  The handler's thread takes low-priority tasks after a bounded number of others;
  the binder driver delivers.
- `distributed`: each of the two handlers takes a task as long as there is one.
- `framework`: a thread that is in a call goes on; the death of the service is announced.
- `instances`: the pool, the loop and the IPC thread run on.

`found_recent` is a run that TLC must refute: a call between the firing of a
timer and its handling leaves `timerId_` set for good, and no reminder is timed
any more (`PROJECT.json` quotes the header that says otherwise).

More statements of the documentation that the code does not keep are defined
at the end of the modules, each with its quotation. TLC refutes each when it takes
the place of the properties in the configuration named here:

| Definition | Configuration | What happens |
|---|---|---|
| `RemovedOfOneBundle` | `MCActiveCaps.cfg` | `DeleteByBundle` for one application also removes the notifications of the same bundle of another user |
| `SwitchIsFromDB` | `MCPreferences.cfg` | a bundle that is met for the first time may have one switch in memory and another in the store |
| `KnownIsReadable` | `MCPreferences.cfg` | removing a bundle leaves its label in the store, so the settings it gets after a new installation have no name there and the next start cannot read them |
| `SoundEnds` | `MCReminders.cfg` with `Kinds <- OnlyAlarm`, `RingDuration = 3`, `MaxWall = 9`, `MaxTicks = 6`, `Calls = {"publish", "process died"}` | a reminder that is shown again while it rings loses the mark that it rings; it is then closed, when its owner dies, and removed with the sound on, and nothing ends the sound |
| `CallsWithinMaxima` | `MCStores.cfg` | the limit of a second looks only at calls older than one, that of the manager's minute at the store's calls |
| `ShownIsActive` | `MCDistributed.cfg` | an update from another device is shown although there is no record to update |
| `UserIsServed` | `MCFramework.cfg` | the do-not-disturb date of a given user is set for the caller's |
| `ScriptsSurvive` | `MCJourney.cfg` | a message without a Uri, published by a native program, ends the script that hears it |

## Proofs

`ActiveNotificationsProofs`, from the named assumptions on the constants only:

- `TypeCorrect`: `Spec => []TypeOK`, one lemma per kind of action.
- `KeysAreUnique`: one record per key. `AssignToNotificationList` either
  replaces the record of a key or finds none, and every other action removes.
- `ListedAreShown`: every listed key is announced. It needs `KeyUnique`: a
  removal takes back the keys of the records it removes, and no other record may
  have them.
- `ListIsBounded`: `[]WithinMaxActive`. The inductive invariant adds that the
  list is finite. At the limit the scope of eviction is not empty
  (`FullScopeNonempty`), and what an admission evicts from such a scope is one record
  (`EvictionsShape`), so one goes for each that comes.

It goes on with every other property the runs `caps` and `switches` check, with agents, continuous tasks and owners of
several users about at once, which no one run has:

- `StaysQuiet`: `Spec => []QuietWhenOff`, inductive with the types. `SwitchKinds` says
  that only the removal of a bundle and the call that sets a switch take a switch from
  on, and `AppStep` that an application's record comes in under a switch that is on.
- `SwitchingOnIsAnnounced`, from `SwitchKinds`: publishing and adding slots set a
  switch only when it is unknown (`IntroducedOnce`).
- `RemovalStaysFocused`: `RemovalIsFocused`. It needs `KeyUnique`, since `Delete`
  removes whatever has the key.
- `EvictionStaysFair` and `CapsHold`: `EvictionIsFair` and `CapsHoldForApps`, on
  what an eviction removes (`EvictedIsFirst`) and on the records that come in
  (`NewcomerKinds`); they need the list to be finite.
- `AdmissionStaysCounted`: `AdmissionIsCounted`. The inductive invariant
  `OldestFirst` says the timestamps are in order; without it `RemoveExpired`, which looks
  from the front until one is young enough, could leave an old one behind a
  young one. `ExpiredInFront` counts what it leaves.
- `RecentStaysTrue`: `RecentAgrees`, when no count is 0. With a count of 0 the
  code drops the last entry of an empty list, and what a build that lives on has then is
  a list longer than its count.

`SubscriberManagerProofs`:

- `TypeCorrect`: the type invariant, which includes that a record that follows
  nothing does not stay.
- `PromiseIsKept`: `Spec => PromiseKept`, the implementation of `Subscriptions`.
  The lemmas say that writing the bundles down either way stands for the same
  set (`FollowedAdded`, `FollowedLeft`) and that the code's filter is membership
  in it (`MatchesFollowed`); each action is then a step of the abstract
  specification or a stutter.
- `LastWordReaches`: `[]LastWordIsCurrent`, for queues and inboxes of any length. The
  inductive invariant adds that the last event that waits on a topic says what was
  announced last (`QueueEndsCurrent`): an announcement becomes the last word of
  everyone, and handling the head of the queue moves a word on to the inboxes of those
  it concerns.
- `LinkIsKept`: `[]EventsWithinLink`, inductive with the types. Whether a message comes
  within a connection depends on the last message before it that opens or closes one
  (`LinkAt`), and the last of an inbox agrees with the record (`InTurn`).

`NotificationPreferencesProofs`:

- `TypeCorrect`: `Spec => []TypeOK`, whatever the store may refuse.
- `UserSettingsSurvive`: `[]UserSettingsStored`, for any faults but refused
  reads (`"read" \notin Faults`). A refused read of a user's date puts a default
  into memory while the store keeps the date, and the property is false.
- `SettingsSurvive`: `Spec => []MemoryIsStore`, where the store may refuse
  writes and does nothing else wrong (`Faults \subseteq {"write"}`; with refused
  reads it is false, since a bundle whose entries cannot be read is left as it was).
  The invariant alone is not inductive. `IInv` adds that a bundle without a label has no
  entries and is not in memory (`Labelled`: else the defaults a first write puts into the store could differ
  from what memory has), what a reload has read and from where (`ReloadShape`),
  that a reload no setter crossed holds what the store has and has filed it
  rightly as far as it got (`CleanReload`), and that a start is not crossed
  (`StartUndisturbed`). Lemmas give the outcomes of each store operation; a call
  is shown to have only outcomes that leave memory and store in agreement
  (`Fits`), whichever of its writes was refused.
  `ParseOverlay` says that reading what was written over entries is writing over
  what was read.

`ReminderDataManagerProofs`, from the named assumptions on the constants only,
for any reminders and ring duration and with restarts. The first four hold of any number
of handlers at once, crossing at any step:

- `TypeCorrect`: `Spec => []Types`, which also says what a step of a handler may carry to
  the next (`Doable`).
- `ShownIsOnPanel`: `[]ShowingIsOnPanel`. The invariant says it of every state, not only
  of those where no handler is under way (`OnPanel`).
- `ContainersStayInStep`: `Spec => []ContainersAgree`. The inductive invariant
  `Listed` adds that no listed id is greater than the last one given out, so that a new id
  never names a listed reminder, and that the ids are finitely many. An erasure
  counts what it found listed, which is what a second removal of the same
  reminder by another thread depends on.
- `AlertTimerStaysKnown`: `Spec => []AlertTimerIsKnown`. Lemmas say that each
  helper (`StopAlertingReminder`, `TerminateAlerting`, `PlaySoundAndVibration`, ...)
  keeps the property of what it is given, `OneAlertTimer`; a step of a handler
  composes them. `StartAlertingTimer` is the one that needs the property:
  where the manager knows of no timer, none runs.

The other two need handlers that do not cross (`MaxBusy <= 1`), and TLC refutes both
with two (the runs' constants, `MaxBusy = 2`): a change of the clock and the recent
timer may each write the row of a reminder from a copy the other has changed, and a
refresh between the two steps that silence a reminder starts its sound again.

- `RestartKeepsWhatIsListed`: `[]RestartLosesNothing`. The inductive invariant `Stored` says
  of each listed reminder that its row is what a restart needs, or that the handler
  at work has a step to do that writes it. Each handler is followed through its
  steps: which of them leave a row behind memory, and which later step makes up for it.
- `SoundsAreEnded`: `[]RingingEnds`. The inductive invariant `Rings` says that where a
  reminder sounds, its timer runs, or the event of the timer waits, or a step that ends
  the sound is to come. Between the end of a sound and that of its timer nothing is
  left of the alert but the timer (`Tuned`), and the stop of the timer is what the
  handler does next (`HaltIsNext`).

`StoresAndJourneyProofs`, of the stores, for any limits, faults and number of calls:

- `HeldStoresHear`: `Spec => []HeldIsHeard`. The inductive invariant says the same
  of the handle and that it is a record of its five parts. Each helper takes a
  sound handle to sound handles (`ManagerIsSound`, `OpenIsSound`, `StoreIsSound`,
  `CountIsSound`, `DroppedIsSound`), and a handler composes them.
- `StatusStaysTold`: `Spec => []StatusIsTold`, inductive as it stands. A write that is
  neither refused nor fatal leaves the status in the entry whatever was there
  (`WrittenIsTold`), and no other step touches status, screen and `refused`.
- `MinuteHolds`: `[]StoreMinuteHolds`. The list of calls has the latest first, so what
  `RemoveOld` keeps of its front is all that is not older than a minute, and a call
  passes only when those are fewer than the limit.

`StoresAndJourneyProofs`, of the journey, for any roots, types of content, slot types and ways
of reminding, from `JourneyAssumption` (the roots are the ten kinds of object the module has forms of, and the
types are those the code has). The objects are those `JourneyInit` starts with:

- `JourneyParcelArrivesWhole`: `[]ParcelArrivesWhole`. `ReadersAgree` says that every class
  reads the row it writes; a request, which is written in six pieces and read in five, needs
  that rows may be joined in any order (`ListingsAssociate`). So a parcel of members
  that are known takes nothing (`ParcelIsWhole`). The inductive invariant `WayInv` says that what is
  held is `Whole`: known, and each member with what holds it. Taking the shape of an object twice
  takes nothing more (`ShapeIsWhole`), which is why a crossing leaves a whole object as it is
  (`WholeCrosses`), and what holds nothing may come and go (`OthersComeAndGo`).
- `JourneyArrivesAway`: `[]ArrivesAway`, from `WayInv`, which says what text is in the
  store. What names a request, what holds its content, and each member of the three contents that
  leave the device have a key that is written and read (`IdentityIsCarried`, `TextIsCarried`).
- `JourneyHeardAsTold`: `[]HeardAsTold`. The invariant `ToldInv` remembers what the script told:
  it is in the object at every stage, with what holds it (`ToldIsMade`), but for the wish to be
  distributed and the times of a date that asks for none (`KeepsTold`). The tables of the getters
  are returned by those of the setters (`GettersReturn`), and the enumerations there and back
  (`ValuesReturn`).
- `JourneyScriptsSurviveScripts`: `[]ScriptsSurviveScripts`, from the same invariant:
  what a script makes has a Uri with its sender (`MessagesHaveUris`), and no message comes from
  another device.

`DistributedNotificationsProofs`, for any devices, notes, switches and faults, any queues of
the two handlers, and restarts, from `SharingAssumption` (this device is not one of the
others, a device has finitely many bundles and ids, a switch is on or off):

- `TypeCorrect`: the type invariant.
- `TellingFollowsList`: `[]ToldIsListed`.
- `ListFollowsStore`: `[]StoreIsListed`, which speaks of states where both handlers are idle. The
  inductive invariant `InStep` speaks of every state: of each key that is not excused, what waits in
  the manager's handler and then in the service's is a way (`Path`) from what
  is listed of it to what the store has (`OnTheWay`), an insertion only where nothing is
  and an update only where something is. So a publish that does not ask whether its key is
  listed finds it free. The invariant adds that a key has one record at most
  (`Single`), that an own record that is shared has its entry (`Own`), and that a leave
  that waits is the last that is heard of its device (`LeavesLast`): what is cleared
  then is what the store has once all before it is handled. A change that waits moves from the end of
  a way (`PathAppend`) to the other queue (`PathConcat`) to its front
  (`PathHead`); a way without changes of the key stays where it is (`CalmPath`).
  `InOrderIs` says that `InOrder` enumerates the records an erasure leaves.

`SubscriberInstancesProofs`, for any instances, events and pool:

- `TypeCorrect`: the type invariant.
- `EventsAreHeardOnce`: `[]HeardOnce`. The invariant `InOnePlace` says that an event is at one
  place at a time, in a link, in the pool, waiting for the loop, or heard; each
  step moves one from its place to the next or loses it with the instance.
- `OneUnsubscribes`: `[]UnsubscribedByOne`. `OneEnd` says the same of the end of an
  instance, and that an instance is marked as long as its end is on the way.

`AnsNotificationProofs`, for any threads, requests and starts of the service, from
`ClientAssumption` (every request that may be passed has a copy that is not distributed,
and holds what the client looks at):

- `EveryCallFits`: for each of the 75 client functions the handler of the stub reads what
  the method of the proxy writes, and answers what it awaits. The proofs go through the
  tables row by row (`ProxyPublishFits` to `ProxyBundleSlotsFits`); `ProxyRows`, `StubRows`
  and `ClientRows` say that no method is in two of them. `Fitting` is the set of methods
  that fit; it lacks the two about private notifications, which no client function goes by.
- `EveryCallIsCarried`: `[]CallIsCarried`. `ReadOfWritten` says that a reader that begins as
  the writer did gets the values that were written, and `OutcomeIsTheAnswer` what the
  caller is told of each answer; both are of any items, not of the tables.
- `ServedRequestsArePublishable`: `[]ServedIsPublishable`. The inductive invariant `Sound`
  says of each thread that a call under way passed the checks (`CheckEarly`), with
  arguments that are still those it was made with. A request is carried by four methods
  (`RequestIsAnObject`), and each function that goes by one of them makes it local or names
  the device (`ClientFits`); making it local changes nothing the checks look at
  (`SetDistributedKeeps`).
- `TheLookUpIsExclusive`, `ALiveHandleIsKept`: what the lock gives. `HandleInv` says that one
  thread looks the handle up, that nothing is watched until it does, and that the start
  that is watched is that of the handle; so a death that is heard late drops no handle of a
  later start, although `OnRemoteDied` does not look whose death it is.
- `FrameworkIsTyped`: the type invariant, from the same one.

The type invariants that are proved are in no run: `TypeCorrect` and `FrameworkIsTyped` say
what a run would, of every instance. Nothing is assumed beyond the named assumptions of the
modules and the hypotheses named here.

Only model-checked: liveness and everything that depends on fairness, which the prover
does not do; the refuted statements. Induction over data is out of the
prover's reach; where a proof looks for a first or a last place in a sequence it takes the
least element of a set of numbers.

## Not modelled

- The do-not-disturb calendar: a date is kept, sent and translated as a value; that one
  that is past is dropped when it is read, and that the date decides how a device
  reminds, are not modelled.
- The enable dialog: a window of another process, opened by the ability manager.
  The service keeps nothing while it is open; its answer is the call that sets the switch.
- Of the JavaScript bindings the promises and callbacks of functions other than
  subscribing: each makes one call of the client and converts its result.
- Pictures, texts, wants and URIs as such: payload. `ans_image_util.cpp` packs them.
- The dump tool's printing, and how a notification sounds, lights and vibrates.
- The bundle, account, permission, time and key-value services and the IPC: constants,
  guards, or external actions that may refuse what `Faults` says.
- Reminders: calendar reminders, a change of the time zone, several users and their
  removal, a second start of the bundle manager, failures of the database.
- The passing runs of the list set recent counts of at least one: with a count of
  zero, which the shell command accepts, the first notification pops an empty list
  (`RecentUndefined`), and a service that has ended keeps no promise.

## Plan

Done, in this order, the most important behaviour first: the list and its proofs;
subscriptions, the subscriber manager and the implementation; the preferences and
the proof that settings survive; the reminders and the proofs for their containers
and alert timer; the distributed stores and their proofs, and the notifications devices
share; the client framework, the instances of the bindings and the ways of the data, each
with its proofs.

Left:

1. A composition of list and subscriber manager: what a subscriber shows against
   what is listed, silent evictions included.
2. Calendar reminders and the change of the time zone in `ReminderRequests`.
3. The do-not-disturb date against the clock of the day.
