----------------------------- MODULE AnsNotification -----------------------------
(* The client framework: the calls an application makes, the handle of the     *)
(* service they share, and the way of each call through AnsManagerProxy and    *)
(* AnsManagerStub. Threads of the application call at the same time; the       *)
(* service may die and start again at any moment.                              *)
EXTENDS AnsManagerInterface, FiniteSets

CONSTANTS Threads,      \* threads of the application
          Busy,         \* those that make any call; the others only ask FewCalls
          FewCalls,     \* client functions
          Kinds,        \* name of a request -> what it holds
          MaxStart      \* the service starts that often

(* What the client looks at in a request: its content, the image that is over  *)
(* its size, a media content that shows an action there is no button for, and  *)
(* whether it may go to other devices.                                         *)
Contents ==
  {"NONE", "BASIC_TEXT", "CONVERSATION", "LONG_TEXT", "MEDIA", "MULTILINE", "PICTURE"}
Images == {"none", "littleIcon", "bigIcon", "button", "messageUser", "sender", "picture"}
Requests ==
  [content : Contents, big : Images, actionBeyondButtons : BOOLEAN, distributed : BOOLEAN]

(* Kinds has, for every request an application may pass, the copy of it that   *)
(* is not distributed.                                                         *)
ClientAssumption ==
  /\ Busy \subseteq Threads
  /\ MaxStart \in Nat \ {0}
  /\ Kinds \in [DOMAIN Kinds -> Requests]
  /\ \A r \in DOMAIN Kinds : \E s \in DOMAIN Kinds : Kinds[s] = [Kinds[r] EXCEPT !.distributed = FALSE]

ASSUME ClientAssumption

VARIABLES handle,       \* ansManagerProxy_: the start of the service it belongs to, 0 for none
          watched,      \* recipient_: the start whose death it will hear of, 0 for none
          service,      \* how often the service has started, and whether it runs
          thread,       \* what each thread is doing
          alive         \* the application runs

vars == <<handle, watched, service, thread, alive>>

----------------------------------------------------------------------------
(* The calls. Each goes by one method of the proxy. Some values of an argument *)
(* are refused before the handle is asked for and some after; copies that fail *)
(* are noticed for the checked arguments only.                                 *)
Calls(via, refused, late, checked, unchecked) ==
  [via |-> via, args |-> {}, refused |-> refused, late |-> late, checked |-> checked,
   unchecked |-> unchecked, local |-> FALSE]

Plain(via) == Calls(via, {}, {}, {}, {})
NeedsName(via, name) == Calls(via, {<<name, "empty">>}, {}, {}, {})
ForBundle(via) == Calls(via, {<<"bundleOption", "blank">>}, {}, {}, {"bundleOption"})
ForUser(via) == Calls(via, {<<"userId", "negative">>}, {}, {}, {})

(* The content of a request, and what the client checks of it. big names the   *)
(* image that is over its size.                                                *)
CanPublishMediaContent(request) ==
  ~(Kinds[request].content = "MEDIA" /\ Kinds[request].actionBeyondButtons)

CheckImageSizeForContent(request) ==
  CASE Kinds[request].content = "CONVERSATION" /\ Kinds[request].big = "sender" -> "ICON_OVER_SIZE"
    [] Kinds[request].content = "PICTURE" /\ Kinds[request].big = "picture" -> "PICTURE_OVER_SIZE"
    [] OTHER -> "OK"

CheckImageSize(request) ==
  IF Kinds[request].big \in {"littleIcon", "bigIcon", "button", "messageUser"}
  THEN "ICON_OVER_SIZE" ELSE CheckImageSizeForContent(request)

IsNonDistributedNotificationType(request) == Kinds[request].content \in {"CONVERSATION", "PICTURE"}

CheckRequest(request) ==
  IF Kinds[request].content = "NONE" \/ ~CanPublishMediaContent(request) THEN "INVALID_PARAM"
  ELSE CheckImageSize(request)

Publishes(via, refused) == Calls(via, refused, {}, {"request"}, {})
Localised(call) == [call EXCEPT !.local = TRUE]

ClientSlots ==
  [AddNotificationSlots |-> Calls("AddSlots", {<<"slots", "empty">>}, {}, {"slots"}, {}),
   AddSlotByType |-> Plain("AddSlotByType"),
   RemoveNotificationSlot |-> Plain("RemoveSlotByType"),
   RemoveAllSlots |-> Plain("RemoveAllSlots"),
   GetNotificationSlot |-> Plain("GetSlotByType"),
   GetNotificationSlots |-> Plain("GetSlots"),
   AddNotificationSlotGroups |-> Calls("AddSlotGroups", {}, {}, {"groups"}, {}),
   RemoveNotificationSlotGroup |-> Plain("RemoveSlotGroups"),
   GetNotificationSlotGroup |-> Plain("GetSlotGroup"),
   GetNotificationSlotGroups |-> Plain("GetSlotGroups"),
   GetNotificationSlotNumAsBundle |-> ForBundle("GetSlotNumAsBundle")]

ClientPublish ==
  [PublishNotification |-> Localised(Publishes("Publish", {})),
   PublishNotificationToDevice |-> Publishes("PublishToDevice", {}),
   CancelNotification |-> Plain("Cancel"),
   CancelAllNotifications |-> Plain("CancelAll"),
   CancelAsBundle |-> Plain("CancelAsBundle"),
   GetActiveNotificationNums |-> Plain("GetActiveNotificationNums")]

ClientAgents ==
  [GetActiveNotifications |-> Plain("GetActiveNotifications"),
   GetCurrentAppSorting |-> Plain("GetCurrentAppSorting"),
   SetNotificationAgent |-> Plain("SetNotificationAgent"),
   GetNotificationAgent |-> Plain("GetNotificationAgent"),
   CanPublishNotificationAsBundle |-> NeedsName("CanPublishAsBundle", "representativeBundle"),
   PublishNotificationAsBundle |->
     Localised(Publishes("PublishAsBundle", {<<"representativeBundle", "empty">>})),
   SetNotificationBadgeNum |-> Plain("SetNotificationBadgeNum"),
   IsAllowedNotify |-> Plain("IsAllowedNotify"),
   IsAllowedNotifySelf |-> Plain("IsAllowedNotifySelf"),
   RequestEnableNotification |-> Plain("RequestEnableNotification")]

ClientSubscribe ==
  LET Subscribes(via) == Calls(via, {}, {<<"subscriber", "null">>}, {"info"}, {})
  IN  [AreNotificationsSuspended |-> Plain("AreNotificationsSuspended"),
       HasNotificationPolicyAccessPermission |-> Plain("HasNotificationPolicyAccessPermission"),
       GetBundleImportance |-> Plain("GetBundleImportance"),
       SubscribeNotification |-> Subscribes("Subscribe"),
       UnSubscribeNotification |-> Subscribes("Unsubscribe"),
       RemoveNotificationByKey |-> NeedsName("Delete", "key"),
       RemoveNotification |-> ForBundle("RemoveNotification")]

ClientRemove ==
  [RemoveAllNotifications |-> ForBundle("RemoveAllNotifications"),
   RemoveNotificationsByBundle |-> ForBundle("DeleteByBundle"),
   RemoveNotifications |-> Plain("DeleteAll"),
   GetNotificationSlotsForBundle |-> ForBundle("GetSlotsByBundle"),
   UpdateNotificationSlots |-> ForBundle("UpdateSlots"),
   UpdateNotificationSlotGroups |-> ForBundle("UpdateSlotGroups"),
   GetAllActiveNotifications |-> Plain("GetAllActiveNotifications"),
   GetAllActiveNotificationsOf |-> Plain("GetSpecialActiveNotifications"),
   IsAllowedNotifyBundle |-> ForBundle("IsSpecialBundleAllowedNotify"),
   SetNotificationsEnabledForAllBundles |-> Plain("SetNotificationsEnabledForAllBundles")]

ClientBadge ==
  [SetNotificationsEnabledForDefaultBundle |-> Plain("SetNotificationsEnabledForBundle"),
   SetNotificationsEnabledForSpecifiedBundle |-> ForBundle("SetNotificationsEnabledForSpecialBundle"),
   SetShowBadgeEnabledForBundle |-> ForBundle("SetShowBadgeEnabledForBundle"),
   GetShowBadgeEnabledForBundle |-> ForBundle("GetShowBadgeEnabledForBundle"),
   GetShowBadgeEnabled |-> Plain("GetShowBadgeEnabled"),
   CancelGroup |-> NeedsName("CancelGroup", "groupName"),
   RemoveGroupByBundle |->
     [ForBundle("RemoveGroupByBundle") EXCEPT !.refused = @ \cup {<<"groupName", "empty">>}],
   SetDoNotDisturbDate |-> Calls("SetDoNotDisturbDate", {}, {}, {"date"}, {}),
   GetDoNotDisturbDate |-> Plain("GetDoNotDisturbDate")]

ClientDistributed ==
  LET OfBundle(via) == Calls(via, {}, {}, {}, {"bundleOption"})
  IN  [DoesSupportDoNotDisturbMode |-> Plain("DoesSupportDoNotDisturbMode"),
       PublishContinuousTaskNotification |->
         Localised(Publishes("PublishContinuousTaskNotification", {})),
       CancelContinuousTaskNotification |-> Plain("CancelContinuousTaskNotification"),
       IsDistributedEnabled |-> Plain("IsDistributedEnabled"),
       EnableDistributed |-> Plain("EnableDistributed"),
       EnableDistributedByBundle |-> OfBundle("EnableDistributedByBundle"),
       EnableDistributedSelf |-> Plain("EnableDistributedSelf"),
       IsDistributedEnableByBundle |-> OfBundle("IsDistributedEnableByBundle"),
       GetDeviceRemindType |-> Plain("GetDeviceRemindType")]

ClientReminders ==
  [ShellDump |-> Plain("ShellDump"),
   PublishReminder |-> Calls("PublishReminder", {}, {<<"reminder", "untyped">>}, {}, {"reminder"}),
   CancelReminder |-> Plain("CancelReminder"),
   CancelAllReminders |-> Plain("CancelAllReminders"),
   GetValidReminders |-> Plain("GetValidReminders")]

(* The calls for a user. The two of the do-not-disturb date go by the methods  *)
(* that take no user.                                                          *)
ClientByUser ==
  [IsSupportTemplate |-> Plain("IsSupportTemplate"),
   IsAllowedNotifyOfUser |-> ForUser("IsSpecialUserAllowedNotify"),
   SetNotificationsEnabledForAllBundlesOfUser |-> ForUser("SetNotificationsEnabledByUser"),
   RemoveNotificationsOfUser |-> ForUser("DeleteAllByUser"),
   SetDoNotDisturbDateOfUser |->
     [ForUser("SetDoNotDisturbDate") EXCEPT !.args = {"userId"}, !.checked = {"date"}],
   GetDoNotDisturbDateOfUser |-> [ForUser("GetDoNotDisturbDate") EXCEPT !.args = {"userId"}],
   SetEnabledForBundleSlot |-> ForBundle("SetEnabledForBundleSlot"),
   GetEnabledForBundleSlot |-> ForBundle("GetEnabledForBundleSlot")]

Client ==
  Joined(<<ClientSlots, ClientPublish, ClientAgents, ClientSubscribe, ClientRemove, ClientBadge,
           ClientDistributed, ClientReminders, ClientByUser>>)

----------------------------------------------------------------------------
(* The arguments of a call: what the method writes, and what the call takes    *)
(* beyond. Every request may be passed; of the other arguments at most one has *)
(* another value than a usual one, which is named after the argument.          *)
Names(items) == {items[i].name : i \in DOMAIN items}
ItemOf(items, name) == CHOOSE item \in ToSet(items) : item.name = name

Method(name) == AnsManagerProxy[Client[name].via]
Arguments(name) == Names(Method(name).writes) \cup Client[name].args

OddValues(name, arg) ==
  LET type == IF arg \in Names(Method(name).writes) THEN ItemOf(Method(name).writes, arg).type ELSE "none"
  IN  (IF type \in {"string", "strings"} THEN {"empty"} ELSE {})
      \cup (IF type = "vector" THEN {"empty", "long"} ELSE {})
      \cup (CASE arg = "bundleOption" -> {"blank"}
              [] arg = "userId" -> {"negative"}
              [] arg = "subscriber" -> {"null"}
              [] arg = "info" -> {"none"}
              [] arg = "reminder" -> {"untyped"}
              [] OTHER -> {})
      \cup (IF arg \in Client[name].checked \cup Client[name].unchecked THEN {"uncopied"} ELSE {})

Usual(name) ==
  {[arg \in Arguments(name) |-> IF arg = "request" THEN request ELSE arg] : request \in DOMAIN Kinds}

Odd(name) ==
  UNION {{[args EXCEPT ![arg] = odd] : args \in Usual(name), odd \in OddValues(name, arg)} :
           arg \in Arguments(name)}

ArgumentsOf == [name \in DOMAIN Client |-> Usual(name) \cup Odd(name)]

----------------------------------------------------------------------------
(* What the client refuses before it asks for the handle and after it.         *)
Refuses(pairs, args) == \E arg \in DOMAIN args : <<arg, args[arg]>> \in pairs

CheckEarly(name, args) ==
  IF Refuses(Client[name].refused, args) THEN "INVALID_PARAM"
  ELSE IF "request" \notin DOMAIN args \/ args["request"] = "uncopied" THEN "OK"
  ELSE IF /\ name = "PublishNotificationToDevice"
          /\ args["deviceId"] # "empty"
          /\ IsNonDistributedNotificationType(args["request"]) THEN "INVALID_PARAM"
  ELSE CheckRequest(args["request"])

CheckLate(name, args) ==
  IF \E arg \in Client[name].checked : args[arg] = "uncopied" THEN "NO_MEMORY"
  ELSE IF Refuses(Client[name].late, args) THEN "INVALID_PARAM"
  ELSE "OK"

(* The arguments the proxy is handed.                                          *)
SetDistributed(request) ==
  CHOOSE r \in DOMAIN Kinds : Kinds[r] = [Kinds[request] EXCEPT !.distributed = FALSE]

(* Mutant: a conversation keeps its distribution.                              *)
HandedShared(name, args) ==
  [arg \in Names(Method(name).writes) |-> IF args[arg] = "uncopied" THEN "null" ELSE args[arg]]

Handed(name, args) ==
  [arg \in Names(Method(name).writes) |->
     IF args[arg] = "uncopied" THEN "null"
     ELSE IF arg = "request" /\ Client[name].local /\ IsNonDistributedNotificationType(args[arg])
     THEN SetDistributed(args[arg])
     ELSE args[arg]]

----------------------------------------------------------------------------
(* A thread: between its calls (idle), before the handle is had (asked), while *)
(* it adds its death recipient to the handle it has set (watching), with the   *)
(* handle seen (connected), with a parcel at the service (sent), with the      *)
(* reply (answered), and told of the outcome (told).                           *)
Nothing == <<>>
Idle == [pc |-> "idle", name |-> "none", args |-> Nothing, answer |-> "none", served |-> Nothing,
         told |-> "none"]

Init ==
  /\ handle = 0
  /\ watched = 0
  /\ service = [gen |-> 1, up |-> TRUE]
  /\ thread = [t \in Threads |-> Idle]
  /\ alive = TRUE

At(t, pc) == alive /\ thread[t].pc = pc
Goes(t, pc) == thread' = [thread EXCEPT ![t].pc = pc]
Outcomes(state, error) == [Idle EXCEPT !.pc = "told", !.answer = state.answer, !.told = error]
Told(t, error) == thread' = [thread EXCEPT ![t] = Outcomes(@, error)]
Runs(gen) == service.up /\ service.gen = gen

(* A thread enters a client function.                                          *)
Call(t, name, args) ==
  /\ At(t, "idle")
  /\ t \in Busy \/ name \in FewCalls
  /\ LET error == CheckEarly(name, args)
     IN  IF error = "OK"
         THEN thread' = [thread EXCEPT ![t] = [@ EXCEPT !.pc = "asked", !.name = name, !.args = args]]
         ELSE Told(t, error)
  /\ UNCHANGED <<handle, watched, service, alive>>

(* GetAnsManagerProxy: a handle that is there is taken without the lock; the   *)
(* one that is not is looked up under it, and set before it is watched.        *)
Locked == \E t \in Threads : thread[t].pc = "watching"

(* Mutant: a call waits for the service that is down.                          *)
GetAnsManagerProxyWaits(t) ==
  /\ At(t, "asked")
  /\ \/ handle # 0 /\ Goes(t, "connected") /\ UNCHANGED handle
     \/ handle = 0 /\ ~Locked /\ service.up /\ handle' = service.gen /\ Goes(t, "watching")
  /\ UNCHANGED <<watched, service, alive>>

GetAnsManagerProxy(t) ==
  /\ At(t, "asked")
  /\ \/ /\ handle # 0
        /\ Goes(t, "connected")
        /\ UNCHANGED handle
     \/ /\ handle = 0 /\ ~Locked /\ service.up
        /\ handle' = service.gen
        /\ Goes(t, "watching")
     \/ /\ handle = 0 /\ ~Locked /\ ~service.up
        /\ Told(t, "NOT_CONNECTED")
        /\ UNCHANGED handle
  /\ UNCHANGED <<watched, service, alive>>

AddDeathRecipient(t) ==
  /\ At(t, "watching")
  /\ watched' = IF Runs(handle) THEN handle ELSE 0
  /\ Goes(t, "connected")
  /\ UNCHANGED <<handle, service, alive>>

(* The call by the handle. It is used as it is now, without the lock; a        *)
(* reminder whose copy failed is used after the proxy refused it.              *)
Transact(t) ==
  /\ At(t, "connected")
  /\ LET name == thread[t].name
         error == CheckLate(name, thread[t].args)
         handed == Handed(name, thread[t].args)
         refused == \E item \in ToSet(Method(name).writes) : handed[item.name] \in item.refused
         ends == error = "OK" /\ (handle = 0 \/ (refused /\ name = "PublishReminder"))
     IN  /\ alive' = ~ends
         /\ \/ ends /\ UNCHANGED thread
            \/ ~ends /\ error # "OK" /\ Told(t, error)
            \/ ~ends /\ error = "OK" /\ refused /\ Told(t, "INVALID_PARAM")
            \/ /\ ~ends /\ error = "OK" /\ ~refused
               /\ IF Runs(handle) THEN Goes(t, "sent") ELSE Told(t, "TRANSACT_FAILED")
  /\ UNCHANGED <<handle, watched, service>>

(* OnRemoteRequest: the handler reads, calls the service, and answers. An      *)
(* answer is the code the handler returns and the result it writes.            *)
OnRemoteRequest(t) ==
  /\ At(t, "sent")
  /\ LET method == Client[thread[t].name].via
         parcel == Written(Method(thread[t].name).writes, Handed(thread[t].name, thread[t].args))
         handler == AnsManagerStub[method]
     IN  IF handler.from = "data" /\ Reads(parcel, handler.reads)
         THEN \E result \in {"OK", "refused"} :
                thread' = [thread EXCEPT ![t].pc = "answered", ![t].answer = result,
                                         ![t].served = ReadValue(parcel, handler.reads)]
         ELSE thread' = [thread EXCEPT ![t].pc = "answered", ![t].answer = "unread"]
  /\ UNCHANGED <<handle, watched, service, alive>>

(* What the reply of a handler tells the caller. The slot, the group and the   *)
(* map are null when the service refused, and so is the date.                  *)
Reply(name, answer) ==
  LET handler == AnsManagerStub[Client[name].via]
      items == handler.writes \o (IF answer = "OK" THEN handler.writesIfOk ELSE <<>>)
  IN  Written(items, [n \in Names(items) |->
                        IF n = "result" THEN answer
                        ELSE IF answer = "refused" /\ n \in {"slot", "group", "sortingMap"} THEN "null"
                        ELSE n])

Outcome(name, answer) ==
  LET handler == AnsManagerStub[Client[name].via]
      method == Method(name)
      gets == method.awaits \o (IF answer = "OK" THEN method.awaitsIfOk ELSE <<>>)
      got == ReadValue(Reply(name, answer), gets)
  IN  IF answer = "unread" \/ (answer = "refused" /\ handler.returns = "result") THEN "TRANSACT_FAILED"
      ELSE IF ~Reads(Reply(name, answer), gets) THEN "PARCELABLE_FAILED"
      ELSE IF \E n \in DOMAIN got \ {"result"} : got[n] # n THEN "garbled"
      ELSE IF "result" \in DOMAIN got THEN got["result"] ELSE "OK"

Receive(t) ==
  /\ At(t, "answered")
  /\ Told(t, Outcome(thread[t].name, thread[t].answer))
  /\ UNCHANGED <<handle, watched, service, alive>>

Return(t) ==
  /\ At(t, "told")
  /\ thread' = [thread EXCEPT ![t] = Idle]
  /\ UNCHANGED <<handle, watched, service, alive>>

(* The service dies: whoever waits for it is told so, and of the replies on    *)
(* their way some may be lost.                                                 *)
ServiceDies ==
  /\ service.up
  /\ service' = [service EXCEPT !.up = FALSE]
  /\ \E lost \in SUBSET {t \in Threads : thread[t].pc = "answered"} :
       thread' = [t \in Threads |->
                    IF thread[t].pc = "sent" \/ t \in lost
                    THEN Outcomes(thread[t], "TRANSACT_FAILED")
                    ELSE thread[t]]
  /\ UNCHANGED <<handle, watched, alive>>

ServiceStarts ==
  /\ ~service.up /\ service.gen < MaxStart
  /\ service' = [gen |-> service.gen + 1, up |-> TRUE]
  /\ UNCHANGED <<handle, watched, thread, alive>>

(* Mutant: the handle is given up once the service runs again.                 *)
ResetAnsManagerProxyOnceUp ==
  /\ alive /\ watched # 0 /\ ~Runs(watched) /\ service.up
  /\ ~Locked
  /\ handle' = 0
  /\ watched' = 0
  /\ UNCHANGED <<service, thread, alive>>

(* OnRemoteDied: ResetAnsManagerProxy under the lock.                          *)
ResetAnsManagerProxy ==
  /\ alive /\ watched # 0 /\ ~Runs(watched)
  /\ ~Locked
  /\ handle' = 0
  /\ watched' = 0
  /\ UNCHANGED <<service, thread, alive>>

(* An application that ended starts anew.                                      *)
Restart ==
  /\ ~alive
  /\ alive' = TRUE
  /\ handle' = 0
  /\ watched' = 0
  /\ thread' = [t \in Threads |-> Idle]
  /\ UNCHANGED service

Proceeds(t) ==
  GetAnsManagerProxy(t) \/ AddDeathRecipient(t) \/ Transact(t) \/ OnRemoteRequest(t) \/ Receive(t) \/ Return(t)

Next ==
  \/ \E t \in Threads, name \in DOMAIN Client : \E args \in ArgumentsOf[name] : Call(t, name, args)
  \/ \E t \in Threads : Proceeds(t)
  \/ ServiceDies
  \/ ServiceStarts
  \/ ResetAnsManagerProxy
  \/ Restart

Spec == Init /\ [][Next]_vars

(* A thread that is in a call goes on, whatever the others do; the death of    *)
(* the service is announced in the end.                                        *)
FairSpec ==
  /\ Spec
  /\ \A t \in Threads : WF_vars(Proceeds(t))
  /\ WF_vars(ResetAnsManagerProxy)

----------------------------------------------------------------------------
(* Properties                                                                  *)

(* What the service is asked is what the client was asked: every argument that *)
(* the proxy was handed is read by the handler of the same call, in the place  *)
(* and the type it was written in, although the two files list them apart. The *)
(* outcome is the one of the service: a call that the service did is told      *)
(* done, with each output in its place, unless the reply was lost; one that it *)
(* refused is never told done, and nothing is told done that did not reach it. *)
CallIsCarried ==
  \A t \in Threads :
    /\ thread[t].served # Nothing => thread[t].served = Handed(thread[t].name, thread[t].args)
    /\ thread[t].pc = "told" =>
         /\ thread[t].told = "OK" => thread[t].answer = "OK"
         /\ thread[t].answer = "OK" => thread[t].told \in {"OK", "TRANSACT_FAILED"}
         /\ thread[t].told # "garbled"

(* A notification that reaches the service has content, has no picture over    *)
(* its size that the client looks at, shows no action it does not have, and    *)
(* if it is a conversation or a picture it stays on this device, unless it is  *)
(* published to no device in particular by the call that names one.            *)
ServedIsPublishable ==
  \A t \in Threads :
    "request" \in DOMAIN thread[t].served =>
      /\ CheckRequest(thread[t].served["request"]) = "OK"
      /\ IsNonDistributedNotificationType(thread[t].served["request"]) =>
           \/ ~Kinds[thread[t].served["request"]].distributed
           \/ thread[t].name = "PublishNotificationToDevice" /\ thread[t].args["deviceId"] = "empty"

(* A handle of a dead service is dropped, so that the next call finds the one  *)
(* that runs, unless the service died before the handle was watched.           *)
Unwatched == handle # 0 /\ watched = 0 /\ ~Locked
StaleIsDropped == (alive /\ handle # 0 /\ ~Runs(handle)) ~> (~alive \/ handle = 0 \/ Unwatched)

(* Every call comes back, or the application is gone.                          *)
CallReturns == \A t \in Threads : (thread[t].pc # "idle") ~> (thread[t].pc = "idle" \/ ~alive)

----------------------------------------------------------------------------
(* What the documentation says and the code does not do                        *)

(* "Sets the do not disturb time on a specified user."                         *)
(* (notification_helper.h:767): a call for a user is served for that user.     *)
(* SetDoNotDisturbDate checks the user it is given and then makes the call     *)
(* that has none (ans_notification.cpp:1316).                                  *)
UserIsServed ==
  \A t \in Threads :
    thread[t].pc = "answered" /\ thread[t].answer # "unread" /\ "userId" \in DOMAIN thread[t].args =>
      "userId" \in DOMAIN thread[t].served
=============================================================================
