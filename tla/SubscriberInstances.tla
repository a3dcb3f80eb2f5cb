-------------------------- MODULE SubscriberInstances --------------------------
(* The last part of an event's way: from AnsSubscriberProxy in the service to  *)
(* AnsSubscriberStub and SubscriberImpl in the application, and from there, by *)
(* the thread pool and the event loop, to a callback of the JavaScript object  *)
(* that subscribed. The same pool makes the calls that subscribe and           *)
(* unsubscribe, and the loop deletes the instance behind an object once it is  *)
(* disconnected.                                                               *)
EXTENDS AnsManagerInterface, FiniteSets

CONSTANTS Objects,      \* JavaScript objects that subscribe
          CallbacksOf,  \* the callbacks each has
          Posted,       \* the messages the service posts
          Reasons,      \* reasons of a deletion that it gives
          PoolSize,     \* threads of the pool
          MaxInstances, \* bound on the instances made
          MaxCalls,     \* bound on the calls that subscribe or unsubscribe
          MaxPosts      \* bound on the events the service posts, its deaths among them

ASSUME InstancesAssumption ==
  /\ PoolSize \in Nat \ {0}
  /\ {MaxInstances, MaxCalls, MaxPosts} \subseteq Nat
  /\ Posted \subseteq {"OnConsumed", "OnCanceled", "OnUpdated", "OnDoNotDisturbDateChange",
                       "OnEnabledNotificationChanged"}

VARIABLES
  instances,    \* the object each instance was made for
  listed,       \* subscriberInstances_: the instance of each object, 0 for none
  deleting,     \* DeletingSubscriber
  deleted,      \* instances that were deleted
  subscribed,   \* instances that have a record in the service
  linked,       \* instances that will hear of the death of the service
  died,         \* those whom that news is on its way to
  link,         \* messages on their way to each instance
  pool,         \* what waits for the pool or runs in it, oldest first
  ready,        \* what ran, and waits for the event loop
  heard,        \* the events of the service that were told, in their order
  dangling,     \* an instance was used after it was deleted
  calls, posts  \* calls and events so far

serviceVars == <<subscribed, posts>>
instanceVars == <<instances, listed, deleting, deleted>>
vars == <<serviceVars, instanceVars, linked, died, link, pool, ready, heard, dangling, calls>>

----------------------------------------------------------------------------
(* The messages. What the proxy writes, and what the stub reads.               *)
AnsSubscriberProxy ==
  [OnConnected |-> <<>>,
   OnDisconnected |-> <<>>,
   OnConsumed |-> <<Ref("notification"), OptObj("map")>>,
   OnCanceled |-> <<Ref("notification"), OptObj("map"), I32("reason")>>,
   OnUpdated |-> <<Ref("map")>>,
   OnDoNotDisturbDateChange |-> <<Obj("date")>>,
   OnEnabledNotificationChanged |-> <<Obj("callbackData")>>]

(* Mutant: the reason is read before the map.                                  *)
AnsSubscriberStubReasonFirst ==
  [OnConnected |-> <<>>,
   OnDisconnected |-> <<>>,
   OnConsumed |-> <<Obj("notification"), OptObj("map")>>,
   OnCanceled |-> <<Obj("notification"), I32("reason"), OptObj("map")>>,
   OnUpdated |-> <<Obj("map")>>,
   OnDoNotDisturbDateChange |-> <<Obj("date")>>,
   OnEnabledNotificationChanged |-> <<Obj("callbackData")>>]

AnsSubscriberStub ==
  [OnConnected |-> <<>>,
   OnDisconnected |-> <<>>,
   OnConsumed |-> <<Obj("notification"), OptObj("map")>>,
   OnCanceled |-> <<Obj("notification"), OptObj("map"), I32("reason")>>,
   OnUpdated |-> <<Obj("map")>>,
   OnDoNotDisturbDateChange |-> <<Obj("date")>>,
   OnEnabledNotificationChanged |-> <<Obj("callbackData")>>]

(* How an instance hands an event to the loop, and what the loop then tells.   *)
(* An event without its callback, or that lacks what it needs, is dropped.     *)
Hands(callback, tells) == [callback |-> callback, tells |-> tells]

QueueOnCanceled == Hands("onCancel", {"notification", "map", "reason"})
QueueOnConsumed == Hands("onConsume", {"notification", "map"})
QueueOnUpdate == Hands("onUpdate", {"map"})
QueueOnConnected == Hands("onConnect", {})
QueueOnDisconnected == Hands("onDisconnect", {})
QueueOnDied == Hands("onDestroy", {})
QueueOnDoNotDisturbDateChange == Hands("onDoNotDisturbDateChange", {"date"})
QueueOnEnabledNotificationChanged == Hands("onEnabledNotificationChanged", {"callbackData"})

(* SubscriberImpl: the function of the instance that each message calls.       *)
SubscriberImpl ==
  [OnConnected |-> QueueOnConnected,
   OnDisconnected |-> QueueOnDisconnected,
   OnConsumed |-> QueueOnConsumed,
   OnCanceled |-> QueueOnCanceled,
   OnUpdated |-> QueueOnUpdate,
   OnDoNotDisturbDateChange |-> QueueOnDoNotDisturbDateChange,
   OnEnabledNotificationChanged |-> QueueOnEnabledNotificationChanged,
   OnDied |-> QueueOnDied]

(* The reasons that have a name in JavaScript; an event with another one is    *)
(* not told. PACKAGE_BANNED has none.                                          *)
ReasonCToJS ==
  {"CLICK", "CANCEL", "CANCEL_ALL", "ERROR", "PACKAGE_CHANGED", "USER_STOPPED", "APP_CANCEL",
   "APP_CANCEL_ALL", "APP_CANCEL_OTHER"}

----------------------------------------------------------------------------
Ids == DOMAIN instances
Has(id, callback) == callback \in CallbacksOf[instances[id]]

(* Something for the pool: an event, or a call of the service.                 *)
Work(what, id, event) == [what |-> what, id |-> id, event |-> event, marked |-> FALSE]
Subscribing(id) == Work("subscribe", id, <<>>)
Unsubscribing(id) == Work("unsubscribe", id, <<>>)
Telling(id, event) == Work("event", id, event)
Runnable == {i \in DOMAIN pool : i <= PoolSize}

(* What a message that is not of a cancellation has for a reason.              *)
NoReason == ""
Message(name, n, reason) == [name |-> name, n |-> n, reason |-> reason]

Init ==
  /\ instances = <<>>
  /\ listed = [o \in Objects |-> 0]
  /\ deleting = {}
  /\ deleted = {}
  /\ subscribed = {}
  /\ linked = {}
  /\ died = {}
  /\ link = [id \in 1..MaxInstances |-> <<>>]
  /\ pool = <<>>
  /\ ready = <<>>
  /\ heard = <<>>
  /\ dangling = FALSE
  /\ calls = 0
  /\ posts = 0

(* Where an instance that was deleted is used, anything may follow.            *)
Uses(id) == id \in deleted
Crash == dangling' = TRUE /\ UNCHANGED <<serviceVars, instanceVars, linked, died, link, pool, ready, heard, calls>>

----------------------------------------------------------------------------
(* The object subscribes. The first time an instance is made and listed; a     *)
(* second argument that is wrong deletes the instance, made or found, and it   *)
(* stays listed.                                                               *)

HasNotificationSubscriber(o) == listed[o] # 0

ParseParameters(o) ==
  IF HasNotificationSubscriber(o)
  THEN UNCHANGED <<instances, listed>>
  ELSE /\ Len(instances) < MaxInstances
       /\ instances' = Append(instances, o)
       /\ listed' = [listed EXCEPT ![o] = Len(instances) + 1]

Subscribe(o) ==
  /\ ~dangling
  /\ calls < MaxCalls
  /\ calls' = calls + 1
  /\ ParseParameters(o)
  /\ pool' = Append(pool, Subscribing(listed'[o]))
  /\ UNCHANGED <<serviceVars, deleting, deleted, linked, died, link, ready, heard, dangling>>

SubscribeWrongly(o) ==
  /\ ~dangling
  /\ calls < MaxCalls
  /\ IF HasNotificationSubscriber(o) /\ Uses(listed[o]) THEN Crash
     ELSE /\ calls' = calls + 1
          /\ ParseParameters(o)
          /\ deleted' = deleted \cup {listed'[o]}
          /\ UNCHANGED <<serviceVars, deleting, linked, died, link, pool, ready, heard, dangling>>

(* An object that is not listed is told so by the pool.                        *)
Unsubscribe(o) ==
  /\ ~dangling
  /\ calls < MaxCalls /\ HasNotificationSubscriber(o)
  /\ calls' = calls + 1
  /\ pool' = Append(pool, Unsubscribing(listed[o]))
  /\ UNCHANGED <<serviceVars, instanceVars, linked, died, link, ready, heard, dangling>>

----------------------------------------------------------------------------
(* The pool. The calls of the service run to their end there.                  *)
Finish(i) == pool' = RemoveAt(pool, i) /\ ready' = Append(ready, pool[i])

(* Mutant: what ran is not taken from the pool.                                *)
RunEventAgain(i) ==
  /\ ~dangling
  /\ pool[i].what = "event"
  /\ ready' = Append(ready, pool[i])
  /\ UNCHANGED <<serviceVars, instanceVars, linked, died, link, pool, heard, dangling, calls>>

RunEvent(i) ==
  /\ ~dangling
  /\ pool[i].what = "event"
  /\ Finish(i)
  /\ UNCHANGED <<serviceVars, instanceVars, linked, died, link, heard, dangling, calls>>

(* AddSubscriberInner answers OnConnected to a new subscriber.                 *)
RunSubscribe(i) ==
  /\ ~dangling
  /\ pool[i].what = "subscribe"
  /\ LET id == pool[i].id
     IN  IF Uses(id) THEN Crash
         ELSE /\ Finish(i)
              /\ subscribed' = subscribed \cup {id}
              /\ link' = IF id \in subscribed THEN link
                         ELSE [link EXCEPT ![id] = Append(@, Message("OnConnected", 0, NoReason))]
              /\ UNCHANGED <<posts, instanceVars, linked, died, heard, dangling, calls>>

(* Mutant: an instance is unsubscribed whether it is marked or not.            *)
AddDeletingSubscriberAnyway(i) ==
  /\ ~dangling
  /\ pool[i].what = "unsubscribe" /\ ~pool[i].marked
  /\ deleting' = deleting \cup {pool[i].id}
  /\ pool' = [pool EXCEPT ![i].marked = TRUE]
  /\ UNCHANGED <<serviceVars, instances, listed, deleted, linked, died, link, ready, heard, dangling, calls>>

(* Unsubscribing marks the instance, unless it is marked, and then calls.      *)
AddDeletingSubscriber(i) ==
  /\ ~dangling
  /\ pool[i].what = "unsubscribe" /\ ~pool[i].marked
  /\ LET id == pool[i].id
     IN  IF id \in deleting THEN Finish(i) /\ UNCHANGED deleting
         ELSE /\ deleting' = deleting \cup {id}
              /\ pool' = [pool EXCEPT ![i].marked = TRUE]
              /\ UNCHANGED ready
  /\ UNCHANGED <<serviceVars, instances, listed, deleted, linked, died, link, heard, dangling, calls>>

(* RemoveSubscriberInner refuses one it has no record of; then the mark goes.  *)
RunUnsubscribe(i) ==
  /\ ~dangling
  /\ pool[i].what = "unsubscribe" /\ pool[i].marked
  /\ LET id == pool[i].id
     IN  IF Uses(id) THEN Crash
         ELSE /\ Finish(i)
              /\ IF id \in subscribed
                 THEN /\ subscribed' = subscribed \ {id}
                      /\ link' = [link EXCEPT ![id] = Append(@, Message("OnDisconnected", 0, NoReason))]
                      /\ UNCHANGED deleting
                 ELSE deleting' = deleting \ {id} /\ UNCHANGED <<subscribed, link>>
              /\ UNCHANGED <<posts, instances, listed, deleted, linked, died, heard, dangling, calls>>

----------------------------------------------------------------------------
(* The service posts to those that have a record; it may die, and run again    *)
(* without them.                                                               *)
Post(id, name, reason) ==
  /\ ~dangling
  /\ id \in subscribed /\ posts < MaxPosts
  /\ reason # NoReason <=> name = "OnCanceled"
  /\ posts' = posts + 1
  /\ link' = [link EXCEPT ![id] = Append(@, Message(name, posts + 1, reason))]
  /\ UNCHANGED <<subscribed, instanceVars, linked, died, pool, ready, heard, dangling, calls>>

ServiceDies ==
  /\ ~dangling
  /\ subscribed \cup linked # {} /\ posts < MaxPosts
  /\ posts' = posts + 1
  /\ subscribed' = {}
  /\ linked' = {}
  /\ died' = died \cup linked
  /\ UNCHANGED <<instanceVars, link, pool, ready, heard, dangling, calls>>

----------------------------------------------------------------------------
(* SubscriberImpl takes the messages to an instance one after the other. It    *)
(* asks to hear of the death of the service when it is connected.              *)
OnMessage(id) ==
  /\ ~dangling
  /\ link[id] # <<>>
  /\ LET message == Head(link[id])
         items == AnsSubscriberProxy[message.name]
         value == [n \in {items[i].name : i \in DOMAIN items} |->
                     IF n = "reason" THEN message.reason ELSE n]
         parcel == Written(items, value)
         impl == SubscriberImpl[message.name]
         got == ReadValue(parcel, AnsSubscriberStub[message.name])
     IN  IF Uses(id) THEN Crash
         ELSE /\ link' = [link EXCEPT ![id] = Tail(@)]
              /\ linked' = CASE message.name = "OnConnected" -> linked \cup {id}
                             [] message.name = "OnDisconnected" -> linked \ {id}
                             [] OTHER -> linked
              /\ pool' = IF ~Has(id, impl.callback) \/ ~Reads(parcel, AnsSubscriberStub[message.name])
                         THEN pool
                         ELSE Append(pool, Telling(id,
                                [callback |-> impl.callback, n |-> message.n,
                                 reason |-> IF "reason" \in impl.tells THEN got["reason"] ELSE NoReason]))
              /\ UNCHANGED <<serviceVars, instanceVars, died, ready, heard, dangling, calls>>

OnRemoteDied(id) ==
  /\ ~dangling
  /\ id \in died
  /\ IF Uses(id) THEN Crash
     ELSE /\ died' = died \ {id}
          /\ pool' = IF Has(id, QueueOnDied.callback)
                     THEN Append(pool, Telling(id, [callback |-> QueueOnDied.callback, n |-> 0, reason |-> NoReason]))
                     ELSE pool
          /\ UNCHANGED <<serviceVars, instanceVars, linked, link, ready, heard, dangling, calls>>

----------------------------------------------------------------------------
(* The event loop: the callbacks, and after the one of the disconnection the   *)
(* end of the instance. The callbacks of a deleted instance went with it.      *)
SetSubscribeCallbackData(event) == event.reason = NoReason \/ event.reason \in ReasonCToJS

DelSubscriberInstancesInfo(id) ==
  LET o == instances[id]
  IN  IF listed[o] = id
      THEN /\ listed' = [listed EXCEPT ![o] = 0]
           /\ deleting' = deleting \ {id}
           /\ deleted' = deleted \cup {id}
      ELSE UNCHANGED <<listed, deleting, deleted>>

TurnEvent ==
  /\ ~dangling
  /\ ready # <<>> /\ Head(ready).what = "event"
  /\ LET work == Head(ready)
     IN  IF Uses(work.id) THEN Crash
         ELSE /\ ready' = Tail(ready)
              /\ heard' = IF work.event.n # 0 /\ SetSubscribeCallbackData(work.event)
                          THEN Append(heard, [id |-> work.id, event |-> work.event]) ELSE heard
              /\ IF work.event.callback = "onDisconnect" THEN DelSubscriberInstancesInfo(work.id)
                 ELSE UNCHANGED <<listed, deleting, deleted>>
              /\ UNCHANGED <<serviceVars, instances, linked, died, link, pool, dangling, calls>>

(* The promise of a call is settled.                                           *)
TurnCall ==
  /\ ~dangling
  /\ ready # <<>> /\ Head(ready).what # "event"
  /\ ready' = Tail(ready)
  /\ UNCHANGED <<serviceVars, instanceVars, linked, died, link, pool, heard, dangling, calls>>

RunPool ==
  \E i \in Runnable : RunEvent(i) \/ RunSubscribe(i) \/ AddDeletingSubscriber(i) \/ RunUnsubscribe(i)
Turn == TurnEvent \/ TurnCall

Next ==
  \/ \E o \in Objects : Subscribe(o) \/ SubscribeWrongly(o) \/ Unsubscribe(o)
  \/ RunPool
  \/ \E id \in Ids, name \in Posted, reason \in Reasons \cup {NoReason} : Post(id, name, reason)
  \/ ServiceDies
  \/ \E id \in Ids : OnMessage(id) \/ OnRemoteDied(id)
  \/ Turn

Spec == Init /\ [][Next]_vars

(* The pool, the loop and the thread that takes the messages run on.           *)
FairSpec ==
  /\ Spec
  /\ WF_vars(RunPool)
  /\ WF_vars(Turn)
  /\ \A id \in 1..MaxInstances : WF_vars(id \in Ids /\ (OnMessage(id) \/ OnRemoteDied(id)))

----------------------------------------------------------------------------
(* Properties                                                                  *)

(* What a callback hears was posted to its instance, is heard once, and says   *)
(* the reason that was given: the two ends agree on the place and the type of  *)
(* it, and it has a name in JavaScript.                                        *)
HeardOnce ==
  /\ \A i, j \in DOMAIN heard : i # j /\ heard[i].event.n # 0 => heard[i].event.n # heard[j].event.n
  /\ \A i \in DOMAIN heard :
       /\ heard[i].event.callback \in CallbacksOf[instances[heard[i].id]]
       /\ heard[i].event.callback = "onCancel" => heard[i].event.reason \in Reasons

(* However many calls are made, an instance is unsubscribed by one at a time,  *)
(* and the mark that keeps the others from it goes as soon as nothing is left  *)
(* to unsubscribe: while it stands, a call that will clear it is under way, or *)
(* the disconnection is, which the object must hear.                           *)
Disconnecting(id) ==
  \/ \E i \in DOMAIN link[id] : link[id][i].name = "OnDisconnected"
  \/ \E work \in ToSet(pool) \cup ToSet(ready) :
       work.id = id /\ work.what = "event" /\ work.event.callback = "onDisconnect"

Unsubscribers(id) ==
  {i \in DOMAIN pool : pool[i].id = id /\ pool[i].what = "unsubscribe" /\ pool[i].marked}

UnsubscribedByOne ==
  /\ \A id \in Ids : Cardinality(Unsubscribers(id)) <= 1
  /\ \A id \in deleting :
       Unsubscribers(id) # {} \/ Disconnecting(id) \/ ~Has(id, "onDisconnect")

(* An event that was posted to an instance with the callback for it is heard,  *)
(* unless the instance is deleted before.                                      *)
PostedIsHeard ==
  \A id \in 1..MaxInstances, n \in 1..MaxPosts :
    (/\ id \in Ids
     /\ \E i \in DOMAIN link[id] :
          link[id][i].n = n /\ Has(id, SubscriberImpl[link[id][i].name].callback))
    ~> (\/ dangling \/ id \in deleted
        \/ \E i \in DOMAIN heard : heard[i].id = id /\ heard[i].event.n = n)
=============================================================================
