-------------------------- MODULE AnsManagerInterface --------------------------
(* How a call of the service crosses processes: for each method of             *)
(* AnsManagerInterface what AnsManagerProxy writes and awaits, and what the    *)
(* handler of AnsManagerStub reads and answers. A parcel is a sequence of      *)
(* items, each with the type it is written as and the argument it is; the      *)
(* token in front of every call is left out. The tables follow the order of    *)
(* the two files.                                                              *)
EXTENDS Naturals, Sequences, SequencesExt

(* Refused: the values of an argument that the proxy does not write.           *)
Item(type, name, refused) == [type |-> type, name |-> name, refused |-> refused]

Str(name) == Item("string", name, {})
Named(name) == Item("string", name, {"empty"})
Strs(name) == Item("strings", name, {})
NamedAll(name) == Item("strings", name, {"empty"})
I32(name) == Item("int32", name, {})
U8(name) == Item("uint8", name, {})
U64(name) == Item("uint64", name, {})
Bool(name) == Item("bool", name, {})
Obj(name) == Item("parcelable", name, {})
Ref(name) == Item("parcelable", name, {"null"})
Strong(name) == Item("strong", name, {})
StrongRef(name) == Item("strong", name, {"null"})
Remote(name) == Item("remote", name, {"null"})
OptObj(name) == Item("optional", name, {})
Kinded(name) == Item("kinded", name, {"null"})
Vector(name) == Item("vector", name, {})
Filled(name) == Item("vector", name, {"empty", "long"})
Reminders(name) == Item("reminders", name, {})
Result == I32("result")

(* A method of the proxy. The result is awaited in the reply, unless it is     *)
(* only that of the transaction; gets are read whatever it says, getsIfOk when *)
(* it is ERR_OK.                                                               *)
Asks(writes, gets, getsIfOk) ==
  [writes |-> writes, awaits |-> <<Result>> \o gets, awaitsIfOk |-> getsIfOk]
Tells(writes) == Asks(writes, <<>>, <<>>)
Gets(writes, gets) == Asks(writes, gets, <<>>)
Untold(writes, gets) == [writes |-> writes, awaits |-> gets, awaitsIfOk |-> <<>>]

(* A handler of the stub: it reads from the parcel of the call unless it takes *)
(* the other one, writes the result and what else there is, and fails as the   *)
(* method failed when it returns the result.                                   *)
Answers(reads, puts, putsIfOk) ==
  [reads |-> reads, from |-> "data", writes |-> <<Result>> \o puts, writesIfOk |-> putsIfOk,
   returns |-> "OK"]
Does(reads) == Answers(reads, <<>>, <<>>)
Returns(reads, puts) ==
  [reads |-> reads, from |-> "data", writes |-> puts, writesIfOk |-> <<>>, returns |-> "result"]

(* One table of the rows of several.                                           *)
Joined(tables) ==
  [row \in UNION {DOMAIN tables[i] : i \in DOMAIN tables} |->
     LET i == CHOOSE j \in DOMAIN tables : row \in DOMAIN tables[j] IN tables[i][row]]

----------------------------------------------------------------------------
(* The proxy.                                                                  *)

(* Mutant: the label of a cancelled notification is written before its id.     *)
ProxyPublishLabelFirst ==
  [Publish |-> Tells(<<Str("label"), Ref("request")>>),
   PublishToDevice |-> Tells(<<Ref("request"), Str("deviceId")>>),
   Cancel |-> Tells(<<Str("label"), I32("notificationId")>>)]

ProxyPublish ==
  [Publish |-> Tells(<<Str("label"), Ref("request")>>),
   PublishToDevice |-> Tells(<<Ref("request"), Str("deviceId")>>),
   Cancel |-> Tells(<<I32("notificationId"), Str("label")>>)]

ProxyCancel ==
  [CancelAll |-> Tells(<<>>),
   CancelAsBundle |->
     Tells(<<I32("notificationId"), Str("representativeBundle"), I32("userId")>>),
   AddSlotByType |-> Tells(<<I32("slotType")>>),
   AddSlots |-> Tells(<<Filled("slots")>>)]

ProxySlots ==
  [RemoveSlotByType |-> Tells(<<I32("slotType")>>),
   RemoveAllSlots |-> Tells(<<>>),
   AddSlotGroups |-> Tells(<<Filled("groups")>>),
   GetSlotByType |-> Asks(<<I32("slotType")>>, <<>>, <<Obj("slot")>>)]

ProxySlotGroups ==
  [GetSlots |-> Gets(<<>>, <<Vector("slots")>>),
   GetSlotGroup |-> Asks(<<Named("groupId")>>, <<>>, <<Obj("group")>>),
   GetSlotGroups |-> Gets(<<>>, <<Vector("groups")>>),
   GetSlotNumAsBundle |-> Gets(<<StrongRef("bundleOption")>>, <<U64("num")>>)]

ProxyActive ==
  [RemoveSlotGroups |-> Tells(<<NamedAll("groupIds")>>),
   GetActiveNotifications |-> Gets(<<>>, <<Vector("requests")>>),
   GetActiveNotificationNums |-> Gets(<<>>, <<U64("num")>>),
   GetAllActiveNotifications |-> Gets(<<>>, <<Vector("notifications")>>),
   GetSpecialActiveNotifications |-> Gets(<<NamedAll("keys")>>, <<Vector("notifications")>>)]

ProxyAgents ==
  [SetNotificationAgent |-> Tells(<<Named("agent")>>),
   GetNotificationAgent |-> Gets(<<>>, <<Str("agent")>>),
   CanPublishAsBundle |-> Gets(<<Named("representativeBundle")>>, <<Bool("canPublish")>>),
   PublishAsBundle |-> Tells(<<Ref("request"), Named("representativeBundle")>>)]

ProxyPolicy ==
  [SetNotificationBadgeNum |-> Tells(<<I32("num")>>),
   GetBundleImportance |-> Gets(<<>>, <<I32("importance")>>),
   HasNotificationPolicyAccessPermission |-> Gets(<<>>, <<Bool("granted")>>),
   SetPrivateNotificationsAllowed |-> Tells(<<Bool("allow")>>),
   GetPrivateNotificationsAllowed |-> Gets(<<>>, <<Bool("allow")>>)]

ProxyRemove ==
  [RemoveNotification |-> Tells(<<StrongRef("bundleOption"), I32("notificationId"), Str("label")>>),
   RemoveAllNotifications |-> Tells(<<StrongRef("bundleOption")>>),
   Delete |-> Tells(<<Named("key")>>),
   DeleteByBundle |-> Tells(<<StrongRef("bundleOption")>>)]

ProxyUpdate ==
  [DeleteAll |-> Tells(<<>>),
   GetSlotsByBundle |-> Gets(<<Ref("bundleOption")>>, <<Vector("slots")>>),
   UpdateSlots |-> Tells(<<Ref("bundleOption"), Filled("slots")>>)]

ProxyEnable ==
  [UpdateSlotGroups |-> Tells(<<Ref("bundleOption"), Filled("groups")>>),
   RequestEnableNotification |-> Tells(<<Str("deviceId")>>),
   SetNotificationsEnabledForBundle |-> Tells(<<Str("deviceId"), Bool("enabled")>>),
   SetNotificationsEnabledForAllBundles |-> Tells(<<Str("deviceId"), Bool("enabled")>>)]

ProxyBadge ==
  [SetNotificationsEnabledForSpecialBundle |->
     Tells(<<Str("deviceId"), Ref("bundleOption"), Bool("enabled")>>),
   SetShowBadgeEnabledForBundle |-> Tells(<<Ref("bundleOption"), Bool("enabled")>>),
   GetShowBadgeEnabledForBundle |-> Gets(<<Ref("bundleOption")>>, <<Bool("enabled")>>),
   GetShowBadgeEnabled |-> Gets(<<>>, <<Bool("enabled")>>)]

ProxySubscribe ==
  [Subscribe |-> Tells(<<Remote("subscriber"), OptObj("info")>>),
   Unsubscribe |-> Tells(<<Remote("subscriber"), OptObj("info")>>),
   AreNotificationsSuspended |-> Gets(<<>>, <<Bool("suspended")>>)]

ProxyAllowed ==
  [GetCurrentAppSorting |-> Gets(<<>>, <<Obj("sortingMap")>>),
   IsAllowedNotify |-> Gets(<<>>, <<Bool("allowed")>>),
   IsAllowedNotifySelf |-> Gets(<<>>, <<Bool("allowed")>>),
   IsSpecialBundleAllowedNotify |-> Gets(<<Ref("bundleOption")>>, <<Bool("allowed")>>)]

ProxyGroups ==
  [CancelGroup |-> Tells(<<Str("groupName")>>),
   RemoveGroupByBundle |-> Tells(<<Obj("bundleOption"), Str("groupName")>>),
   SetDoNotDisturbDate |-> Tells(<<Ref("date")>>),
   GetDoNotDisturbDate |-> Asks(<<>>, <<>>, <<Obj("date")>>)]

ProxyDistributed ==
  [DoesSupportDoNotDisturbMode |-> Gets(<<>>, <<Bool("support")>>),
   IsDistributedEnabled |-> Gets(<<>>, <<Bool("enabled")>>),
   EnableDistributed |-> Tells(<<Bool("enabled")>>),
   EnableDistributedByBundle |-> Tells(<<Ref("bundleOption"), Bool("enabled")>>)]

ProxyDump ==
  [EnableDistributedSelf |-> Tells(<<Bool("enabled")>>),
   IsDistributedEnableByBundle |-> Gets(<<Ref("bundleOption")>>, <<Bool("enabled")>>),
   GetDeviceRemindType |-> Asks(<<>>, <<>>, <<I32("remindType")>>),
   ShellDump |-> Gets(<<Str("dumpOption")>>, <<Strs("dumpInfo")>>)]

ProxyReminders ==
  [PublishContinuousTaskNotification |-> Tells(<<Ref("request")>>),
   CancelContinuousTaskNotification |-> Tells(<<Str("label"), I32("notificationId")>>),
   PublishReminder |-> Untold(<<Kinded("reminder")>>, <<I32("reminderId")>>),
   CancelReminder |-> Untold(<<I32("reminderId")>>, <<>>)]

ProxyAllReminders ==
  [CancelAllReminders |-> Untold(<<>>, <<>>),
   GetValidReminders |-> Untold(<<>>, <<Reminders("reminders")>>)]

ProxyByUser ==
  [IsSupportTemplate |-> Gets(<<Str("templateName")>>, <<Bool("support")>>),
   IsSpecialUserAllowedNotify |-> Gets(<<I32("userId")>>, <<Bool("allowed")>>),
   SetNotificationsEnabledByUser |-> Tells(<<I32("userId"), Bool("enabled")>>),
   DeleteAllByUser |-> Tells(<<I32("userId")>>)]

ProxyBundleSlots ==
  [SetDoNotDisturbDateByUser |-> Tells(<<I32("userId"), Ref("date")>>),
   GetDoNotDisturbDateByUser |-> Asks(<<I32("userId")>>, <<>>, <<Obj("date")>>),
   SetEnabledForBundleSlot |->
     Tells(<<StrongRef("bundleOption"), I32("slotType"), Bool("enabled")>>),
   GetEnabledForBundleSlot |->
     Gets(<<StrongRef("bundleOption"), I32("slotType")>>, <<Bool("enabled")>>)]

AnsManagerProxy ==
  Joined(<<ProxyPublish, ProxyCancel, ProxySlots, ProxySlotGroups, ProxyActive, ProxyAgents,
           ProxyPolicy, ProxyRemove, ProxyUpdate, ProxyEnable, ProxyBadge, ProxySubscribe,
           ProxyAllowed, ProxyGroups, ProxyDistributed, ProxyDump, ProxyReminders,
           ProxyAllReminders, ProxyByUser, ProxyBundleSlots>>)

----------------------------------------------------------------------------
(* The stub: the handler that interfaces_ has for the code of each method.     *)

HandlePublish ==
  [Publish |-> Does(<<Str("label"), Obj("request")>>),
   PublishToDevice |-> Does(<<Obj("request"), Str("deviceId")>>),
   Cancel |-> Does(<<I32("notificationId"), Str("label")>>),
   CancelAll |-> Does(<<>>),
   CancelAsBundle |->
     Does(<<I32("notificationId"), Str("representativeBundle"), I32("userId")>>),
   AddSlotByType |-> Does(<<I32("slotType")>>),
   AddSlots |-> Does(<<Vector("slots")>>),
   RemoveSlotByType |-> Does(<<I32("slotType")>>)]

HandleSlots ==
  [RemoveAllSlots |-> Does(<<>>),
   AddSlotGroups |-> Does(<<Vector("groups")>>),
   GetSlots |-> Answers(<<>>, <<Vector("slots")>>, <<>>),
   GetSlotByType |-> Answers(<<I32("slotType")>>, <<Obj("slot")>>, <<>>),
   GetSlotGroup |-> Answers(<<Str("groupId")>>, <<Obj("group")>>, <<>>),
   GetSlotGroups |-> Answers(<<>>, <<Vector("groups")>>, <<>>),
   GetSlotNumAsBundle |-> Answers(<<Strong("bundleOption")>>, <<U64("num")>>, <<>>),
   RemoveSlotGroups |-> Does(<<Strs("groupIds")>>)]

HandleActive ==
  [GetActiveNotifications |-> Answers(<<>>, <<Vector("requests")>>, <<>>),
   GetActiveNotificationNums |-> Answers(<<>>, <<U64("num")>>, <<>>),
   GetAllActiveNotifications |-> Answers(<<>>, <<Vector("notifications")>>, <<>>),
   GetSpecialActiveNotifications |-> Answers(<<Strs("keys")>>, <<Vector("notifications")>>, <<>>),
   SetNotificationAgent |-> Does(<<Str("agent")>>),
   GetNotificationAgent |-> Answers(<<>>, <<Str("agent")>>, <<>>),
   CanPublishAsBundle |-> Answers(<<Str("representativeBundle")>>, <<Bool("canPublish")>>, <<>>),
   PublishAsBundle |-> Does(<<Obj("request"), Str("representativeBundle")>>),
   SetNotificationBadgeNum |-> Does(<<I32("num")>>)]

HandlePolicy ==
  [GetBundleImportance |-> Answers(<<>>, <<I32("importance")>>, <<>>),
   SetDoNotDisturbDate |-> Does(<<Obj("date")>>),
   GetDoNotDisturbDate |-> Answers(<<>>, <<>>, <<Obj("date")>>),
   DoesSupportDoNotDisturbMode |-> Answers(<<>>, <<Bool("support")>>, <<>>),
   PublishContinuousTaskNotification |-> Does(<<Obj("request")>>),
   CancelContinuousTaskNotification |-> Does(<<Str("label"), I32("notificationId")>>),
   HasNotificationPolicyAccessPermission |-> Answers(<<>>, <<Bool("granted")>>, <<>>),
   SetPrivateNotificationsAllowed |-> [Does(<<Bool("allow")>>) EXCEPT !.from = "reply"]]

HandleRemove ==
  [GetPrivateNotificationsAllowed |-> Does(<<>>),
   RemoveNotification |-> Does(<<Strong("bundleOption"), I32("notificationId"), Str("label")>>),
   RemoveAllNotifications |-> Does(<<Strong("bundleOption")>>),
   Delete |-> Does(<<Str("key")>>),
   DeleteByBundle |-> Does(<<Strong("bundleOption")>>),
   DeleteAll |-> Does(<<>>),
   GetSlotsByBundle |-> Answers(<<Obj("bundleOption")>>, <<Vector("slots")>>, <<>>),
   UpdateSlots |-> Does(<<Obj("bundleOption"), Vector("slots")>>)]

HandleEnable ==
  [UpdateSlotGroups |-> Does(<<Obj("bundleOption"), Vector("groups")>>),
   RequestEnableNotification |-> Does(<<Str("deviceId")>>),
   SetNotificationsEnabledForBundle |-> Does(<<Str("deviceId"), Bool("enabled")>>),
   SetNotificationsEnabledForAllBundles |-> Does(<<Str("deviceId"), Bool("enabled")>>),
   SetNotificationsEnabledForSpecialBundle |->
     Does(<<Str("deviceId"), Obj("bundleOption"), Bool("enabled")>>),
   SetShowBadgeEnabledForBundle |-> Does(<<Obj("bundleOption"), Bool("enabled")>>)]

HandleSubscribe ==
  [GetShowBadgeEnabledForBundle |-> Answers(<<Obj("bundleOption")>>, <<Bool("enabled")>>, <<>>),
   GetShowBadgeEnabled |-> Answers(<<>>, <<Bool("enabled")>>, <<>>),
   Subscribe |-> Does(<<Remote("subscriber"), OptObj("info")>>),
   Unsubscribe |-> Does(<<Remote("subscriber"), OptObj("info")>>),
   AreNotificationsSuspended |-> Answers(<<>>, <<Bool("suspended")>>, <<>>),
   GetCurrentAppSorting |-> Answers(<<>>, <<Obj("sortingMap")>>, <<>>)]

HandleAllowed ==
  [IsAllowedNotify |-> Answers(<<>>, <<Bool("allowed")>>, <<>>),
   IsAllowedNotifySelf |-> Answers(<<>>, <<Bool("allowed")>>, <<>>),
   IsSpecialBundleAllowedNotify |-> Answers(<<Obj("bundleOption")>>, <<Bool("allowed")>>, <<>>),
   CancelGroup |-> Does(<<Str("groupName")>>),
   RemoveGroupByBundle |-> Does(<<Obj("bundleOption"), Str("groupName")>>),
   IsDistributedEnabled |-> Answers(<<>>, <<Bool("enabled")>>, <<>>),
   EnableDistributed |-> Does(<<Bool("enabled")>>),
   EnableDistributedByBundle |-> Does(<<Obj("bundleOption"), Bool("enabled")>>)]

HandleReminders ==
  [EnableDistributedSelf |-> Does(<<Bool("enabled")>>),
   IsDistributedEnableByBundle |-> Answers(<<Obj("bundleOption")>>, <<Bool("enabled")>>, <<>>),
   GetDeviceRemindType |-> Answers(<<>>, <<I32("remindType")>>, <<>>),
   ShellDump |-> Answers(<<Str("dumpOption")>>, <<Strs("dumpInfo")>>, <<>>),
   PublishReminder |-> Returns(<<Kinded("reminder")>>, <<I32("reminderId")>>),
   CancelReminder |-> Returns(<<I32("reminderId")>>, <<>>)]

HandleByUser ==
  [CancelAllReminders |-> Returns(<<>>, <<>>),
   GetValidReminders |-> Returns(<<>>, <<Reminders("reminders")>>),
   IsSupportTemplate |-> Answers(<<Str("templateName")>>, <<Bool("support")>>, <<>>),
   IsSpecialUserAllowedNotify |-> Answers(<<I32("userId")>>, <<Bool("allowed")>>, <<>>),
   SetNotificationsEnabledByUser |-> Does(<<I32("userId"), Bool("enabled")>>)]

HandleBundleSlots ==
  [DeleteAllByUser |-> Does(<<I32("userId")>>),
   SetDoNotDisturbDateByUser |-> Does(<<I32("userId"), Obj("date")>>),
   GetDoNotDisturbDateByUser |-> Answers(<<I32("userId")>>, <<>>, <<Obj("date")>>),
   SetEnabledForBundleSlot |-> Does(<<Strong("bundleOption"), I32("slotType"), Bool("enabled")>>),
   GetEnabledForBundleSlot |->
     Answers(<<Strong("bundleOption"), I32("slotType")>>, <<Bool("enabled")>>, <<>>)]

AnsManagerStub ==
  Joined(<<HandlePublish, HandleSlots, HandleActive, HandlePolicy, HandleRemove, HandleEnable,
           HandleSubscribe, HandleAllowed, HandleReminders, HandleByUser, HandleBundleSlots>>)

(* What a reader that expects these items gets from a parcel: the value of     *)
(* each that is there in the type it is asked for. A null object, and an item  *)
(* that is not there, fail.                                                    *)
Written(items, value) == [i \in DOMAIN items |-> [type |-> items[i].type, value |-> value[items[i].name]]]

Reads(parcel, items) ==
  \A i \in DOMAIN items : i \in DOMAIN parcel /\ parcel[i].value # "null"

ReadValue(parcel, items) ==
  [name \in {items[i].name : i \in DOMAIN items} |->
     LET i == CHOOSE j \in DOMAIN items : items[j].name = name
     IN  IF parcel[i].type = items[i].type THEN parcel[i].value ELSE "garbled"]
=============================================================================
