------------------------ MODULE ActiveNotifications ------------------------
(***************************************************************************)
(* The list of active notifications kept by AdvancedNotificationService    *)
(* (services/ans/src/advanced_notification_service.cpp) of one running     *)
(* process: publishing with its slot and permission filters, flow control  *)
(* and eviction, the cancel and delete calls, the list of recent           *)
(* notifications, and the switches and slots those calls read.             *)
(*                                                                         *)
(* Every public call posts one closure to the service's event handler and  *)
(* waits for it, and the handler runs closures one at a time, so an action *)
(* is one closure.  A call that is refused before it changes anything (a   *)
(* permission, a parameter or a failed write to the preferences store) is  *)
(* a stuttering step.  The build is the one without                        *)
(* DISTRIBUTED_NOTIFICATION_SUPPORTED.                                     *)
(***************************************************************************)
EXTENDS Integers, Sequences, FiniteSets

CONSTANTS
  Apps,           \* installed applications, one per user: (bundle name, uid)
  SystemApps,     \* those that hold the controller permissions
  Services,       \* native services, by uid, that publish continuous tasks
  Names,          \* bundle names
  Users,          \* OS accounts
  NameOf,         \* bundle name of an application
  UserOf,         \* user of an application or of a service
  Compatible,     \* applications CheckApiCompatibility lets publish unasked
  Ids,            \* (label, id) pairs of requests
  Unlabelled,     \* those whose label is empty
  Groups,         \* group names
  SlotTypes,      \* slot types
  DefaultLevel,   \* level a new slot of a type gets
  Levels,         \* levels a system application may give a slot
  Requests,       \* the requests clients send
  MaxActive,      \* MAX_ACTIVE_NUM
  MaxPerApp,      \* MAX_ACTIVE_NUM_PERAPP
  MaxPerSecond,   \* MAX_ACTIVE_NUM_PERSECOND
  Window,         \* ticks in the flow control's second
  RecentCounts,   \* values the shell command sets for the recent list
  DefaultCount    \* DEFAULT_RECENT_COUNT

Publishers == Apps \cup Services

RequestType == [id : Ids, slotType : SlotTypes, group : Groups, time : Nat,
                unremovable : BOOLEAN]

ASSUME AppsAssumption ==
  /\ SystemApps \subseteq Apps
  /\ Compatible \subseteq Apps
  /\ Apps \cap Services = {}
  /\ NameOf \in [Apps -> Names]
  /\ UserOf \in [Publishers -> Users]
  /\ Unlabelled \subseteq Ids

ASSUME RequestsAssumption ==
  /\ Requests \subseteq RequestType
  /\ DefaultLevel \in [SlotTypes -> Nat]
  /\ Levels \subseteq Nat

ASSUME BoundsAssumption ==
  /\ MaxActive \in Nat \ {0}
  /\ MaxPerApp \in Nat \ {0}
  /\ MaxPerSecond \in Nat
  /\ Window \in Nat
  /\ RecentCounts \subseteq Nat
  /\ DefaultCount \in Nat

VARIABLES
  alive,                     \* the process has not died of a bad access
  notificationList,          \* notificationList_, its order left to "time"
  flowControlTimestampList,  \* ages of the timestamps, oldest first
  recentList,                \* recentInfo_->list, newest first
  recentCount,               \* recentInfo_->recentCount
  shown,                     \* keys announced consumed and not yet canceled
  enabled,                   \* the notification switch of each bundle
  announced,                 \* the switch value last announced to subscribers
  userEnabled,               \* the notification switch of each user
  slots                      \* the slots of each bundle

listVars == <<notificationList, recentList, shown>>
prefVars == <<enabled, announced, userEnabled, slots>>
vars == <<alive, listVars, flowControlTimestampList, recentCount, prefVars>>

----------------------------------------------------------------------------
(* State                                                                   *)

NullLevel == -1     \* a continuous task's record has no slot

NoSlot == [enabled |-> FALSE, level |-> NullLevel]
Slot == [enabled : BOOLEAN, level : Nat]
DefaultSlot(type) == [enabled |-> TRUE, level |-> DefaultLevel[type]]

Record == [app : Publishers, creator : Publishers, owner : Names, id : Ids,
           group : Groups, level : Nat \cup {NullLevel}, time : Nat,
           unremovable : BOOLEAN]

KeyType == Publishers \X Ids
Key(record) == <<record.creator, record.id>>
Keys(records) == {Key(record) : record \in records}

Recent == [key : KeyType, active : BOOLEAN]
Switch == {"unknown", "on", "off"}

TypeOK ==
  /\ alive \in BOOLEAN
  /\ notificationList \subseteq Record
  /\ flowControlTimestampList \in Seq(0 .. Window + 1)
  /\ recentList \in Seq(Recent)
  /\ recentCount \in RecentCounts \cup {DefaultCount}
  /\ shown \subseteq KeyType
  /\ enabled \in [Apps -> Switch]
  /\ announced \in [Apps -> Switch]
  /\ userEnabled \in [Users -> Switch]
  /\ slots \in [Apps -> [SlotTypes -> Slot \cup {NoSlot}]]

(* A service starts with empty lists and with the preferences it kept: a  *)
(* bundle the preferences do not know has no slot.                         *)
Init ==
  /\ alive = TRUE
  /\ notificationList = {}
  /\ flowControlTimestampList = <<>>
  /\ recentList = <<>>
  /\ recentCount = DefaultCount
  /\ shown = {}
  /\ enabled = [app \in Apps |-> "unknown"]
  /\ announced = [app \in Apps |-> "unknown"]
  /\ userEnabled = [user \in Users |-> "unknown"]
  /\ slots = [app \in Apps |-> [type \in SlotTypes |-> NoSlot]]

----------------------------------------------------------------------------
(* The recent list                                                         *)

Without(list, key) ==
  LET at == CHOOSE i \in DOMAIN list : list[i].key = key
  IN  SubSeq(list, 1, at - 1) \o SubSeq(list, at + 1, Len(list))

InRecent(key) == \E i \in DOMAIN recentList : recentList[i].key = key

(* Mutant: the list may be one longer than it was set to. *)
RefreshedLate(key) ==
  <<[key |-> key, active |-> TRUE]>> \o
    (IF InRecent(key) THEN Without(recentList, key)
     ELSE IF Len(recentList) > recentCount
          THEN SubSeq(recentList, 1, Len(recentList) - 1)
          ELSE recentList)

(* UpdateRecentNotification(notification, false, 0) *)
Refreshed(key) ==
  <<[key |-> key, active |-> TRUE]>> \o
    (IF InRecent(key) THEN Without(recentList, key)
     ELSE IF Len(recentList) >= recentCount
          THEN SubSeq(recentList, 1, Len(recentList) - 1)
          ELSE recentList)

(* pop_back on an empty list is undefined: the build dies or goes on. *)
RecentUndefined(key) ==
  recentList = <<>> /\ recentCount = 0 /\ ~InRecent(key)

(* UpdateRecentNotification(notification, true, reason) for each key *)
Deactivated(keys) ==
  [i \in DOMAIN recentList |->
     [recentList[i] EXCEPT !.active = @ /\ recentList[i].key \notin keys]]

SetRecentNotificationCount(count) ==
  /\ count \in RecentCounts
  /\ recentCount' = count
  /\ recentList' = IF Len(recentList) > count
                   THEN SubSeq(recentList, 1, count) ELSE recentList
  /\ UNCHANGED <<alive, notificationList, shown, flowControlTimestampList,
                 prefVars>>

----------------------------------------------------------------------------
(* Putting a record into the list                                          *)

Listed(key) == key \in Keys(notificationList)

(* The notification reaches the recent list and the subscribers. *)
Announce(record) ==
  /\ recentList' = Refreshed(Key(record))
  /\ shown' = shown \cup {Key(record)}
  /\ alive' \in (IF RecentUndefined(Key(record)) THEN BOOLEAN ELSE {TRUE})

UpdateInNotificationList(record) ==
  notificationList' =
    {r \in notificationList : Key(r) # Key(record)} \cup {record}

OwnedBy(name) == {r \in notificationList : r.owner = name}

(* Mutants: the limit of the whole list forgotten; the whole list offered  *)
(* at its limit.                                                           *)
EvictionScopePerAppOnly(name) ==
  IF Cardinality(OwnedBy(name)) >= MaxPerApp THEN OwnedBy(name) ELSE {}

EvictionScopeAnyOwner(name) ==
  IF Cardinality(OwnedBy(name)) >= MaxPerApp THEN OwnedBy(name)
  ELSE IF Cardinality(notificationList) < MaxActive THEN {}
  ELSE notificationList

(* The records flow control may drop to make room for one of this owner.   *)
(* When both limits are reached the second remove finds the record of the  *)
(* first gone and does nothing.                                            *)
EvictionScope(name) ==
  IF Cardinality(OwnedBy(name)) >= MaxPerApp THEN OwnedBy(name)
  ELSE IF Cardinality(notificationList) < MaxActive THEN {}
  ELSE IF OwnedBy(name) # {} THEN OwnedBy(name)
  ELSE notificationList

(* SortNotificationsByLevelAndTime *)
SortsBefore(r1, r2) ==
  \/ r1.level < r2.level
  \/ r1.level = r2.level /\ r1.time < r2.time

(* The sets of records an eviction from "scope" may remove; records that   *)
(* compare equal may come in either order.                                 *)
Evictions(scope) ==
  IF scope = {} THEN {{}}
  ELSE {{r} : r \in {v \in scope : \A o \in scope : ~SortsBefore(o, v)}}

(* Comparing reads the slot of both records: a null slot ends the process. *)
SortIsFatal(scope) ==
  Cardinality(scope) > 1 /\ \E r \in scope : r.level = NullLevel

(* Mutant: a timestamp exactly one second old counts as expired. *)
RemoveExpiredEarly(list) ==
  LET expired == {i \in DOMAIN list : \A j \in 1 .. i : list[j] >= Window}
  IN  SubSeq(list, Cardinality(expired) + 1, Len(list))

(* RemoveExpired: drop timestamps from the front while they are too old *)
RemoveExpired(list) ==
  LET expired == {i \in DOMAIN list : \A j \in 1 .. i : list[j] > Window}
  IN  SubSeq(list, Cardinality(expired) + 1, Len(list))

FlowControl(record) ==
  LET unexpired == RemoveExpired(flowControlTimestampList)
      scope == EvictionScope(record.owner)
  IN  \/ (* ERR_ANS_OVER_MAX_ACTIVE_PERSECOND *)
         /\ Len(unexpired) >= MaxPerSecond
         /\ flowControlTimestampList' = unexpired
         /\ UNCHANGED <<alive, listVars>>
      \/ /\ Len(unexpired) < MaxPerSecond
         /\ ~SortIsFatal(scope)
         /\ flowControlTimestampList' = Append(unexpired, 0)
         /\ \E evicted \in Evictions(scope) :
              notificationList' = (notificationList \ evicted) \cup {record}
         /\ Announce(record)
      \/ /\ Len(unexpired) < MaxPerSecond
         /\ SortIsFatal(scope)
         /\ alive' = FALSE
         /\ flowControlTimestampList' = Append(unexpired, 0)
         /\ UNCHANGED listVars

(* Mutant: IsNotificationExists is not asked. *)
AssignAlwaysNew(record) == FlowControl(record)

AssignToNotificationList(record) ==
  \/ /\ ~Listed(Key(record))
     /\ FlowControl(record)
  \/ /\ Listed(Key(record))
     /\ UpdateInNotificationList(record)
     /\ Announce(record)
     /\ UNCHANGED flowControlTimestampList

(* Time passes; an age beyond the window needs no exact value. *)
Elapse ==
  /\ \E i \in DOMAIN flowControlTimestampList :
       flowControlTimestampList[i] <= Window
  /\ flowControlTimestampList' =
       [i \in DOMAIN flowControlTimestampList |->
          IF flowControlTimestampList[i] <= Window
          THEN flowControlTimestampList[i] + 1 ELSE Window + 1]
  /\ UNCHANGED <<alive, listVars, recentCount, prefVars>>

----------------------------------------------------------------------------
(* Publishing                                                              *)

(* Mutant: the default is applied to a bundle already known. *)
IntroducedAgain(app) ==
  [enabled EXCEPT ![app] = IF app \in Compatible THEN "on" ELSE "off"]

(* A bundle the preferences meet for the first time. *)
Introduced(app) ==
  IF enabled[app] # "unknown" THEN enabled
  ELSE [enabled EXCEPT ![app] = IF app \in Compatible THEN "on" ELSE "off"]

(* AssignValidNotificationSlot: the slot a request gets, made if missing *)
SlotFor(app, type) ==
  IF slots[app][type] = NoSlot THEN DefaultSlot(type) ELSE slots[app][type]

(* The slot is enabled and PermissionFilter lets the bundle publish;       *)
(* NotificationSlotFilter only sets how the notification alerts.           *)
MayPublish(app, type) ==
  SlotFor(app, type).enabled /\ Introduced(app)[app] = "on"

NewRecord(creator, app, request) ==
  [app |-> app, creator |-> creator, owner |-> NameOf[app],
   id |-> request.id, group |-> request.group,
   level |-> SlotFor(app, request.slotType).level, time |-> request.time,
   unremovable |-> request.unremovable]

(* Publish: "creator" sends a request for itself or, as an agent, for      *)
(* another application.  The slot is added even when a filter or flow      *)
(* control then rejects the request.                                       *)
Publish(creator, app, request) ==
  /\ creator = app \/ creator \in SystemApps
  /\ enabled' = Introduced(app)
  /\ slots' = [slots EXCEPT ![app][request.slotType] =
                 SlotFor(app, request.slotType)]
  /\ \/ /\ MayPublish(app, request.slotType)
        /\ AssignToNotificationList(NewRecord(creator, app, request))
     \/ /\ ~MayPublish(app, request.slotType)
        /\ UNCHANGED <<alive, listVars, flowControlTimestampList>>
  /\ UNCHANGED <<recentCount, announced, userEnabled>>

ContinuousRecord(service, owner, request) ==
  [app |-> service, creator |-> service, owner |-> owner, id |-> request.id,
   group |-> request.group, level |-> NullLevel, time |-> request.time,
   unremovable |-> TRUE]

(* No slot, no filter, no flow control; the owner's name is the request's. *)
PublishContinuousTaskNotification(service, owner, request) ==
  LET record == ContinuousRecord(service, owner, request)
  IN  /\ UpdateInNotificationList(record)
      /\ Announce(record)
      /\ UNCHANGED <<flowControlTimestampList, recentCount, prefVars>>

----------------------------------------------------------------------------
(* Taking records out of the list                                          *)

(* Remove records one by one, each with its recent entry and its event. *)
Remove(records) ==
  /\ notificationList' = notificationList \ records
  /\ recentList' = Deactivated(Keys(records))
  /\ shown' = shown \ Keys(records)
  /\ UNCHANGED <<alive, flowControlTimestampList, recentCount>>

RecordsOf(app) == {r \in notificationList : r.app = app}

(* Mutant: the bundle is not compared at all. *)
KeysMatchEverything(app) == notificationList

(* GetNotificationKeys: a record is skipped only when both its bundle name *)
(* and its uid differ, so the same bundle of another user matches.         *)
KeysMatch(app) ==
  {r \in notificationList :
     r.app = app \/ (r.app \in Apps /\ NameOf[r.app] = NameOf[app])}

(* The record a walk of the list finds first. *)
First(records) == {r \in records : \A o \in records : r.time <= o.time}

CancelPreparedNotification(app, id) ==
  /\ \E r \in First({r \in RecordsOf(app) : r.id = id}) : Remove({r})
  /\ UNCHANGED prefVars

Cancel(app, id) == CancelPreparedNotification(app, id)

CancelAsBundle(app, id) ==
  SystemApps # {} /\ id \in Unlabelled /\ CancelPreparedNotification(app, id)

CancelAll(app) == Remove(KeysMatch(app)) /\ UNCHANGED prefVars

CancelGroup(app, group) ==
  /\ Remove({r \in RecordsOf(app) : r.group = group})
  /\ UNCHANGED prefVars

(* Mutant: the recent list is not told. *)
CancelContinuousTaskForgetsRecent(service, id) ==
  LET gone == {r \in RecordsOf(service) : r.id = id}
  IN  /\ notificationList' = notificationList \ gone
      /\ shown' = shown \ Keys(gone)
      /\ UNCHANGED <<alive, recentList, flowControlTimestampList, recentCount,
                     prefVars>>

CancelContinuousTaskNotification(service, id) ==
  /\ Remove({r \in RecordsOf(service) : r.id = id})
  /\ UNCHANGED prefVars

(* Delete: the user dismisses one notification by its key *)
Delete(key) ==
  /\ Remove({r \in notificationList : Key(r) = key})
  /\ UNCHANGED prefVars

DeleteByBundle(app) == Remove(KeysMatch(app)) /\ UNCHANGED prefVars

(* DeleteAll gives the active user, OnResourceRemove the one being removed, *)
(* whose settings a second closure then forgets.                            *)
DeleteAllByUser(user) ==
  /\ Remove({r \in notificationList :
               UserOf[r.creator] = user /\ ~r.unremovable})
  /\ UNCHANGED prefVars

RemoveSettings(user) ==
  /\ userEnabled' = [userEnabled EXCEPT ![user] = "unknown"]
  /\ UNCHANGED <<alive, listVars, flowControlTimestampList, recentCount,
                 enabled, announced, slots>>

RemoveNotification(app, id) ==
  /\ \E r \in First({r \in RecordsOf(app) : r.id = id}) : Remove({r})
  /\ UNCHANGED prefVars

Removable(app) == {r \in RecordsOf(app) : ~r.unremovable}

(* Mutant: every notification of the bundle is announced canceled. *)
RemoveAllNotificationsAnnouncesAll(app) ==
  /\ notificationList' = notificationList \ Removable(app)
  /\ recentList' = Deactivated(Keys(RecordsOf(app)))
  /\ shown' = shown \ Keys(RecordsOf(app))
  /\ UNCHANGED <<alive, flowControlTimestampList, recentCount, prefVars>>

RemoveAllNotifications(app) == Remove(Removable(app)) /\ UNCHANGED prefVars

RemoveGroupByBundle(app, group) ==
  /\ Remove({r \in Removable(app) : r.group = group})
  /\ UNCHANGED prefVars

OnBundleDataCleared(app) == Remove(KeysMatch(app)) /\ UNCHANGED prefVars

(* The preferences of the bundle go unless they are unknown or the store   *)
(* fails; its notifications go in any case.                                *)
OnBundleRemoved(app) ==
  /\ Remove(KeysMatch(app))
  /\ \/ UNCHANGED <<enabled, slots>>
     \/ /\ enabled' = [enabled EXCEPT ![app] = "unknown"]
        /\ slots' = [slots EXCEPT ![app] = [type \in SlotTypes |-> NoSlot]]
  /\ UNCHANGED <<announced, userEnabled>>

----------------------------------------------------------------------------
(* Switches and slots                                                      *)

(* Mutant: what the bundle shows is left in place. *)
SetNotificationsEnabledKeepsShown(app, value) ==
  /\ enabled' = [enabled EXCEPT ![app] = value]
  /\ announced' = [announced EXCEPT ![app] = value]
  /\ Remove({})
  /\ UNCHANGED <<userEnabled, slots>>

(* The switch of one bundle.  When the store refuses the write the value   *)
(* stays, but switching off goes on to remove the notifications, and the   *)
(* result of that overwrites the error: the change is announced.           *)
SetNotificationsEnabledForSpecialBundle(app, value) ==
  /\ \/ enabled' = [enabled EXCEPT ![app] = value]
     \/ value = "off" /\ UNCHANGED enabled
  /\ announced' = [announced EXCEPT ![app] = value]
  /\ Remove(IF value = "off" THEN Removable(app) ELSE {})
  /\ UNCHANGED <<userEnabled, slots>>

(* The switch of a user: SetNotificationsEnabledForAllBundles sets that of *)
(* the active user, SetNotificationsEnabledByUser any user's.              *)
SetNotificationsEnabled(user, value) ==
  /\ userEnabled' = [userEnabled EXCEPT ![user] = value]
  /\ UNCHANGED <<alive, listVars, flowControlTimestampList, recentCount,
                 enabled, announced, slots>>

(* NotificationPreferences::AddNotificationSlots, a successful write *)
AddNotificationSlots(app, new) ==
  /\ enabled' = Introduced(app)
  /\ slots' = [slots EXCEPT ![app] =
                 [type \in SlotTypes |->
                    IF type \in DOMAIN new THEN new[type] ELSE @[type]]]
  /\ UNCHANGED <<alive, listVars, flowControlTimestampList, recentCount,
                 announced, userEnabled>>

(* The slots one call names, each type once. *)
SlotLists == UNION {[types -> [enabled : BOOLEAN, level : Levels]] :
                      types \in (SUBSET SlotTypes) \ {{}}}

AddSlots(app, new) ==
  LET missing == {type \in DOMAIN new : slots[app][type] = NoSlot}
  IN  /\ app \in SystemApps
      /\ missing # {}
      /\ AddNotificationSlots(app, [type \in missing |-> new[type]])

AddSlotByType(app, type) ==
  /\ slots[app][type] = NoSlot
  /\ AddNotificationSlots(app, [t \in {type} |-> DefaultSlot(t)])

UpdateSlots(app, new) ==
  /\ \A type \in DOMAIN new : slots[app][type] # NoSlot
  /\ AddNotificationSlots(app, new)

RemoveSlots(app, types) ==
  /\ slots' = [slots EXCEPT ![app] =
                 [type \in SlotTypes |->
                    IF type \in types THEN NoSlot ELSE @[type]]]
  /\ UNCHANGED <<alive, listVars, flowControlTimestampList, recentCount,
                 enabled, announced, userEnabled>>

RemoveSlotByType(app, type) == RemoveSlots(app, {type})

RemoveAllSlots(app) == RemoveSlots(app, SlotTypes)

(* Removes the slot and adds it again with the new value.  When the remove *)
(* succeeds and the add fails the slot is gone; when the remove fails the  *)
(* slot object memory holds has been changed all the same.                 *)
SetEnabledForBundleSlot(app, type, value) ==
  LET slot == SlotFor(app, type)
  IN  /\ slots[app][type] = NoSlot \/ slot.enabled # value
      /\ \/ AddNotificationSlots(app,
              [t \in {type} |-> [slot EXCEPT !.enabled = value]])
         \/ slots[app][type] # NoSlot /\ RemoveSlots(app, {type})

----------------------------------------------------------------------------

Publishing ==
  \/ \E creator, app \in Apps, request \in Requests :
       Publish(creator, app, request)
  \/ \E service \in Services, owner \in Names, request \in Requests :
       PublishContinuousTaskNotification(service, owner, request)

Cancelling ==
  \/ \E app \in Apps, id \in Ids : Cancel(app, id)
  \/ \E app \in Apps, id \in Ids : CancelAsBundle(app, id)
  \/ \E app \in Apps : CancelAll(app)
  \/ \E app \in Apps, group \in Groups : CancelGroup(app, group)
  \/ \E service \in Services, id \in Ids :
       CancelContinuousTaskNotification(service, id)

Removing ==
  \/ \E key \in KeyType : Delete(key)
  \/ \E app \in Apps : DeleteByBundle(app)
  \/ \E user \in Users : DeleteAllByUser(user)
  \/ \E user \in Users : RemoveSettings(user)
  \/ \E app \in Apps, id \in Ids : RemoveNotification(app, id)
  \/ \E app \in Apps : RemoveAllNotifications(app)
  \/ \E app \in Apps, group \in Groups : RemoveGroupByBundle(app, group)
  \/ \E app \in Apps : OnBundleDataCleared(app)
  \/ \E app \in Apps : OnBundleRemoved(app)

Configuring ==
  \/ \E app \in Apps, value \in {"on", "off"} :
       SetNotificationsEnabledForSpecialBundle(app, value)
  \/ \E user \in Users, value \in {"on", "off"} :
       SetNotificationsEnabled(user, value)
  \/ \E app \in Apps, new \in SlotLists : AddSlots(app, new)
  \/ \E app \in Apps, new \in SlotLists : UpdateSlots(app, new)
  \/ \E app \in Apps, type \in SlotTypes : AddSlotByType(app, type)
  \/ \E app \in Apps, type \in SlotTypes : RemoveSlotByType(app, type)
  \/ \E app \in Apps : RemoveAllSlots(app)
  \/ \E app \in Apps, type \in SlotTypes, value \in BOOLEAN :
       SetEnabledForBundleSlot(app, type, value)
  \/ \E count \in RecentCounts : SetRecentNotificationCount(count)

Next ==
  /\ alive
  /\ Publishing \/ Cancelling \/ Removing \/ Configuring \/ Elapse

Spec == Init /\ [][Next]_vars

----------------------------------------------------------------------------
(* Properties                                                              *)

(* One listed record per key: publishing again under a key replaces the    *)
(* record in place (IsNotificationExists, UpdateInNotificationList), and   *)
(* every call that looks a record up by key stops at the first match.      *)
KeyUnique ==
  \A r1, r2 \in notificationList : Key(r1) = Key(r2) => r1 = r2

(* Every listed notification has been announced to the subscribers and not *)
(* been taken back: no call removes one notification and announces another.*)
ListedIsShown == Keys(notificationList) \subseteq shown

(* The recent list has one entry per key, calls an entry active exactly    *)
(* while subscribers show it, and never outgrows the count the shell       *)
(* command set: UpdateRecentNotification accompanies every NotifyConsumed  *)
(* and NotifyCanceled.                                                     *)
RecentAgrees ==
  /\ \A i, j \in DOMAIN recentList :
       /\ recentList[i].active <=> recentList[i].key \in shown
       /\ recentList[i].key = recentList[j].key => i = j
  /\ alive => Len(recentList) <= recentCount

(* Ordinary publishing keeps the list within MAX_ACTIVE_NUM.  Continuous   *)
(* tasks skip FlowControl, hence the condition.                            *)
WithinMaxActive ==
  Services = {} => Cardinality(notificationList) <= MaxActive

(* With continuous tasks and agents about, the list or an owner's share    *)
(* may be beyond a limit, but a new notification of an application never   *)
(* takes it further beyond, however records of several users share an      *)
(* owner's name.                                                           *)
CapsHoldForApps ==
  [][\A r \in notificationList' \ notificationList :
       r.app \in Apps /\ ~Listed(Key(r)) =>
         /\ \/ Cardinality(notificationList') <= MaxActive
            \/ Cardinality(notificationList') <= Cardinality(notificationList)
         /\ \/ Cardinality(OwnedBy(r.owner)') <= MaxPerApp
            \/ Cardinality(OwnedBy(r.owner)') <= Cardinality(OwnedBy(r.owner))
    ]_vars

WithinWindow == Cardinality({i \in DOMAIN flowControlTimestampList :
                              flowControlTimestampList[i] <= Window})

(* An application's new key enters only on a timestamp of its own, and at  *)
(* most MAX_ACTIVE_NUM_PERSECOND timestamps lie within any one second:     *)
(* expiry never forgets an admission that still counts.                    *)
AdmissionIsCounted ==
  [][\A r \in notificationList' \ notificationList :
       r.app \in Apps /\ ~Listed(Key(r)) =>
         WithinWindow' = WithinWindow + 1 /\ WithinWindow' <= MaxPerSecond]_vars

AtCap(name) ==
  \/ Cardinality(notificationList) >= MaxActive
  \/ Cardinality(OwnedBy(name)) >= MaxPerApp

(* A listed key disappears without NotifyCanceled only when flow control   *)
(* evicts it at one of the limits. An owner at a limit makes room with its *)
(* own notifications, unless it has none to give; and under one owner and  *)
(* of one slot level the oldest goes first.                                *)
EvictionIsFair ==
  [][/\ \A r \in notificationList :
          \/ Key(r) \in Keys(notificationList)' \/ Key(r) \notin shown'
          \/ AtCap(r.owner)
     /\ \A new \in notificationList' \ notificationList,
           old \in notificationList \ notificationList' :
          Key(new) # Key(old) =>
            /\ old.owner = new.owner \/ OwnedBy(new.owner) = {}
            /\ \A kept \in notificationList \cap notificationList' :
                 kept.owner = old.owner => ~SortsBefore(kept, old)
    ]_vars

(* A bundle whose switch is not on shows nothing but what the user may not *)
(* remove: switching off takes the rest away, filters stop what follows,   *)
(* and an uninstalled bundle leaves nothing.                               *)
QuietWhenOff ==
  \A r \in notificationList :
    r.app \in Apps =>
      \/ enabled[r.app] = "on"
      \/ enabled[r.app] = "off" /\ r.unremovable

(* A bundle's switch turns from off to on only with an announcement:       *)
(* nothing a bundle does by itself, publishing or adding slots, gives it   *)
(* back the permission the user took.                                      *)
SwitchedOnIsAnnounced ==
  [][\A app \in Apps :
       enabled[app] = "off" /\ enabled'[app] = "on" => announced'[app] = "on"
    ]_vars

(* The notifications one call takes away belong to one bundle, or to one   *)
(* user and may be removed: no call clears the list across both.           *)
RemovalIsFocused ==
  [][LET gone == {r \in notificationList : Key(r) \notin Keys(notificationList)'}
     IN  \/ \A r1, r2 \in gone :
              r1.app = r2.app \/ (r1.app \in Apps /\ r2.app \in Apps
                                   /\ NameOf[r1.app] = NameOf[r2.app])
         \/ \A r1, r2 \in gone :
              UserOf[r1.creator] = UserOf[r2.creator] /\ ~r1.unremovable
    ]_vars

----------------------------------------------------------------------------
(* What the interface's documentation says and the code does not do        *)

(* A bundle option "indicates the bundle name and uid of the application   *)
(* whose notifications are to be removed" (notification_helper.h:467): the *)
(* notifications DeleteByBundle removes are of one application.            *)
RemovedOfOneBundle ==
  [][\A r1, r2 \in notificationList \ notificationList' : r1.app = r2.app]_vars
=============================================================================
