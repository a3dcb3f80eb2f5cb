------------------------- MODULE SubscriberManager -------------------------
(***************************************************************************)
(* NotificationSubscriberManager (services/ans/src/                        *)
(* notification_subscriber_manager.cpp): the records of subscribers, and   *)
(* the way an event takes from the notification service to their views.    *)
(*                                                                         *)
(* The manager has an event handler of its own.  The notification service  *)
(* posts events to it and goes on; calls that subscribe or unsubscribe and *)
(* the deaths of subscribers are posted with high priority and overtake    *)
(* the events that wait.  Messages to a subscriber are asynchronous and    *)
(* arrive in the order in which they were sent.                            *)
(***************************************************************************)
EXTENDS Integers, Sequences

CONSTANTS
  Subscribers,    \* remote objects that may subscribe
  UserOf,         \* user that runs a subscriber
  Bundles,        \* bundle names
  Notifications,  \* notification keys
  BundleOf, SenderOf, ReceiverOf,   \* what the notification of a key says
  Settings,       \* do-not-disturb date, switch of a bundle
  UserIds,        \* OS accounts
  SystemUsers,    \* those in SUBSCRIBE_USER_SYSTEM_BEGIN .. _END
  NoUser,         \* SUBSCRIBE_USER_INIT
  AllUsers,       \* SUBSCRIBE_USER_ALL
  Link,           \* topic of OnConnected and OnDisconnected
  Calls,          \* the calls clients make
  MaxQueue,       \* bound on the events that wait in the handler
  MaxInbox,       \* bound on the messages on their way to a subscriber
  MaxPosts,       \* bound on the events of a behaviour
  MaxCalls        \* bound on the calls of a subscriber

Topics == Notifications \cup Settings
UserFilter == UserIds \cup {NoUser, AllUsers}

(* A call names bundles and perhaps a user, or all bundles at once. *)
Call == [op : {"subscribe", "unsubscribe", "unsubscribe all"},
         names : SUBSET Bundles, user : UserFilter]
NoCall == [op |-> "none", names |-> {}, user |-> NoUser]

ASSUME NotificationsAssumption ==
  /\ BundleOf \in [Notifications -> Bundles]
  /\ SenderOf \in [Notifications -> UserIds]
  /\ ReceiverOf \in [Notifications -> UserIds \cup {NoUser}]
  /\ UserOf \in [Subscribers -> UserIds]
  /\ Notifications \cap Settings = {}

ASSUME NamesAssumption ==
  /\ SystemUsers \subseteq UserIds
  /\ NoUser \notin UserIds
  /\ AllUsers \notin UserIds
  /\ Link \notin Topics
  /\ Calls \subseteq Call

ASSUME BoundsAssumption ==
  {MaxQueue, MaxInbox, MaxPosts, MaxCalls} \subseteq Nat

VARIABLES
  current,               \* what the service last announced on each topic
  queue,                 \* events posted to the handler, oldest first
  subscriberRecordList,  \* the record of each subscriber that has one
  linked,                \* subscribers whose death will be told
  pending,               \* the call of a subscriber that waits its turn
  running,               \* subscribers that have not died
  inbox,                 \* messages on their way to a subscriber
  view,                  \* what a subscriber last heard on each topic
  informed,              \* topics whose last event was sent to a subscriber
  posts, calls           \* events and calls so far

eventVars == <<current, queue, posts>>
clientVars == <<running, inbox, view>>
vars == <<eventVars, subscriberRecordList, linked, pending, clientVars,
          informed, calls>>

----------------------------------------------------------------------------
(* State                                                                   *)

Value == {"on", "off"}     \* consumed or canceled, connected or not
Event == [topic : Topics, value : Value]
Message == [topic : Topics \cup {Link}, value : Value]

(* The bundles followed, or all but those; a record that follows none is   *)
(* dropped.                                                                *)
FollowsNone(record) == ~record.subscribedAll /\ record.bundleList = {}

Record == {record \in [subscribedAll : BOOLEAN, bundleList : SUBSET Bundles,
                       userId : UserIds] : ~FollowsNone(record)}
NoRecord == [subscribedAll |-> FALSE, bundleList |-> {}, userId |-> NoUser]
HasRecord(s) == subscriberRecordList[s] # NoRecord

TypeOK ==
  /\ current \in [Topics -> Value \cup {"none"}]
  /\ queue \in Seq(Event)
  /\ subscriberRecordList \in [Subscribers -> Record \cup {NoRecord}]
  /\ linked \in [Subscribers -> BOOLEAN]
  /\ pending \in [Subscribers -> Calls \cup {NoCall}]
  /\ running \in [Subscribers -> BOOLEAN]
  /\ inbox \in [Subscribers -> Seq(Message)]
  /\ view \in [Subscribers -> [Topics \cup {Link} -> Value \cup {"none"}]]
  /\ informed \in [Subscribers -> SUBSET Topics]
  /\ posts \in Nat
  /\ calls \in [Subscribers -> Nat]

Init ==
  /\ current = [t \in Topics |-> "none"]
  /\ queue = <<>>
  /\ subscriberRecordList = [s \in Subscribers |-> NoRecord]
  /\ linked = [s \in Subscribers |-> FALSE]
  /\ pending = [s \in Subscribers |-> NoCall]
  /\ running = [s \in Subscribers |-> TRUE]
  /\ inbox = [s \in Subscribers |-> <<>>]
  /\ view = [s \in Subscribers |-> [t \in Topics \cup {Link} |-> "none"]]
  /\ informed = [s \in Subscribers |-> {}]
  /\ posts = 0
  /\ calls = [s \in Subscribers |-> 0]

----------------------------------------------------------------------------
(* Events                                                                  *)

(* Mutant: events overtake one another, as high priority tasks would. *)
PostInFront(topic, value) ==
  /\ posts < MaxPosts /\ Len(queue) < MaxQueue
  /\ value = "off" /\ topic \in Notifications => current[topic] = "on"
  /\ current' = [current EXCEPT ![topic] = value]
  /\ queue' = <<[topic |-> topic, value |-> value]>> \o queue
  /\ posts' = posts + 1
  /\ UNCHANGED <<subscriberRecordList, linked, pending, clientVars,
                 informed, calls>>

(* NotifyConsumed, NotifyCanceled, NotifyDoNotDisturbDateChanged and       *)
(* NotifyEnabledNotificationChanged, called by the one thread of the       *)
(* notification service; only what is listed is canceled.                  *)
Post(topic, value) ==
  /\ posts < MaxPosts /\ Len(queue) < MaxQueue
  /\ value = "off" /\ topic \in Notifications => current[topic] = "on"
  /\ current' = [current EXCEPT ![topic] = value]
  /\ queue' = Append(queue, [topic |-> topic, value |-> value])
  /\ posts' = posts + 1
  /\ UNCHANGED <<subscriberRecordList, linked, pending, clientVars,
                 informed, calls>>

(* A message reaches the inbox of a process that still runs. *)
Sent(boxes, s, topic, value) ==
  IF running[s]
  THEN [boxes EXCEPT ![s] = Append(@, [topic |-> topic, value |-> value])]
  ELSE boxes

UserMatches(userId, n) ==
  \/ userId \in {SenderOf[n], ReceiverOf[n], AllUsers} \cup SystemUsers
  \/ SenderOf[n] \in SystemUsers

Matches(record, n) ==
  /\ ~record.subscribedAll <=> BundleOf[n] \in record.bundleList
  /\ UserMatches(record.userId, n)

(* NotifyConsumedInner, NotifyCanceledInner: those that match; the other   *)
(* events go to every record.                                              *)
Audience(topic) ==
  {s \in Subscribers :
     /\ HasRecord(s)
     /\ topic \in Notifications => Matches(subscriberRecordList[s], topic)}

Dispatch ==
  LET topic == Head(queue).topic
  IN  /\ queue # <<>>
      /\ \A s \in Subscribers : Len(inbox[s]) < MaxInbox
      /\ queue' = Tail(queue)
      /\ inbox' = [s \in Subscribers |->
                     IF s \in Audience(topic) /\ running[s]
                     THEN Append(inbox[s], Head(queue)) ELSE inbox[s]]
      /\ informed' = [s \in Subscribers |->
                        IF s \in Audience(topic) THEN informed[s] \cup {topic}
                        ELSE informed[s] \ {topic}]
      /\ UNCHANGED <<current, posts, subscriberRecordList, linked, pending,
                     running, view, calls>>

----------------------------------------------------------------------------
(* Calls                                                                   *)

(* A subscriber's client calls and waits. *)
Request(s, call) ==
  /\ running[s] /\ pending[s] = NoCall /\ calls[s] < MaxCalls
  /\ pending' = [pending EXCEPT ![s] = call]
  /\ calls' = [calls EXCEPT ![s] = @ + 1]
  /\ UNCHANGED <<eventVars, subscriberRecordList, linked, clientVars,
                 informed>>

(* The info object is copied and marshalled without its user, so the user  *)
(* AddSubscriber sees is none, which it replaces by the caller's.          *)
SubscribedUser(s, user) == UserOf[s]

(* Mutant: names are added to those the record holds. *)
AddRecordInfoToOld(record, names, user) ==
  [subscribedAll |-> names = {}, bundleList |-> record.bundleList \cup names,
   userId |-> user]

AddRecordInfo(record, names, user) ==
  [subscribedAll |-> names = {}, bundleList |-> names, userId |-> user]

(* A new subscriber is greeted and its death will be told, unless the IPC  *)
(* layer finds it dead already; the service does not look at that result.  *)
AddSubscriberInner(s) ==
  /\ pending[s].op = "subscribe"
  /\ pending' = [pending EXCEPT ![s] = NoCall]
  /\ subscriberRecordList' =
       [subscriberRecordList EXCEPT ![s] =
          AddRecordInfo(@, pending[s].names, SubscribedUser(s, pending[s].user))]
  /\ IF HasRecord(s)
     THEN UNCHANGED <<linked, inbox>>
     ELSE /\ inbox' = Sent(inbox, s, Link, "on")
          /\ linked' \in {[linked EXCEPT ![s] = b] :
                            b \in IF running[s] THEN {TRUE} ELSE BOOLEAN}
  /\ UNCHANGED <<eventVars, running, view, informed, calls>>

(* Mutant: a subscription to all forgets its exceptions. *)
RemoveRecordInfoErases(record, call) ==
  [record EXCEPT !.bundleList = @ \ call.names]

RemoveRecordInfo(record, call) ==
  IF call.op = "unsubscribe all"
  THEN [record EXCEPT !.subscribedAll = FALSE, !.bundleList = {}]
  ELSE [record EXCEPT !.bundleList = IF record.subscribedAll
                                     THEN @ \cup call.names ELSE @ \ call.names]

(* Mutant: the record stays although the subscriber was told it is gone. *)
RemoveSubscriberKeepsRecord(s) ==
  LET left == RemoveRecordInfo(subscriberRecordList[s], pending[s])
  IN  /\ pending[s].op \in {"unsubscribe", "unsubscribe all"}
      /\ pending' = [pending EXCEPT ![s] = NoCall]
      /\ IF HasRecord(s) /\ FollowsNone(left)
         THEN /\ linked' = [linked EXCEPT ![s] = FALSE]
              /\ inbox' = Sent(inbox, s, Link, "off")
         ELSE UNCHANGED <<linked, inbox>>
      /\ UNCHANGED <<subscriberRecordList, eventVars, running, view,
                     informed, calls>>

(* ERR_ANS_INVALID_PARAM without a record. *)
RemoveSubscriberInner(s) ==
  LET left == RemoveRecordInfo(subscriberRecordList[s], pending[s])
  IN  /\ pending[s].op \in {"unsubscribe", "unsubscribe all"}
      /\ pending' = [pending EXCEPT ![s] = NoCall]
      /\ \/ ~HasRecord(s) /\ UNCHANGED <<subscriberRecordList, linked, inbox>>
         \/ /\ HasRecord(s) /\ ~FollowsNone(left)
            /\ subscriberRecordList' = [subscriberRecordList EXCEPT ![s] = left]
            /\ UNCHANGED <<linked, inbox>>
         \/ /\ HasRecord(s) /\ FollowsNone(left)
            /\ subscriberRecordList' =
                 [subscriberRecordList EXCEPT ![s] = NoRecord]
            /\ linked' = [linked EXCEPT ![s] = FALSE]
            /\ inbox' = Sent(inbox, s, Link, "off")
      /\ UNCHANGED <<eventVars, running, view, informed, calls>>

----------------------------------------------------------------------------
(* Subscribers                                                             *)

Receive(s) ==
  /\ inbox[s] # <<>>
  /\ inbox' = [inbox EXCEPT ![s] = Tail(@)]
  /\ view' = [view EXCEPT ![s][Head(inbox[s]).topic] = Head(inbox[s]).value]
  /\ UNCHANGED <<eventVars, subscriberRecordList, linked, pending, running,
                 informed, calls>>

Die(s) ==
  /\ running[s]
  /\ running' = [running EXCEPT ![s] = FALSE]
  /\ inbox' = [inbox EXCEPT ![s] = <<>>]
  /\ UNCHANGED <<eventVars, subscriberRecordList, linked, pending, view,
                 informed, calls>>

(* Mutant: the record is looked up and left. *)
OnRemoteDiedKeepsRecord(s) ==
  /\ ~running[s] /\ linked[s]
  /\ linked' = [linked EXCEPT ![s] = FALSE]
  /\ UNCHANGED <<eventVars, subscriberRecordList, pending, clientVars,
                 informed, calls>>

OnRemoteDied(s) ==
  /\ ~running[s] /\ linked[s]
  /\ linked' = [linked EXCEPT ![s] = FALSE]
  /\ subscriberRecordList' = [subscriberRecordList EXCEPT ![s] = NoRecord]
  /\ UNCHANGED <<eventVars, pending, clientVars, informed, calls>>

----------------------------------------------------------------------------

Next ==
  \/ \E topic \in Topics, value \in Value : Post(topic, value)
  \/ Dispatch
  \/ \E s \in Subscribers :
       \/ \E call \in Calls : Request(s, call)
       \/ AddSubscriberInner(s)
       \/ RemoveSubscriberInner(s)
       \/ Receive(s)
       \/ Die(s)
       \/ OnRemoteDied(s)

(* The handler's thread takes what is posted to it, the IPC layer delivers *)
(* messages and deaths; nobody has to publish, call or die.                *)
Fairness ==
  /\ WF_vars(Dispatch)
  /\ \A s \in Subscribers :
       /\ WF_vars(AddSubscriberInner(s))
       /\ WF_vars(RemoveSubscriberInner(s))
       /\ WF_vars(Receive(s))
       /\ WF_vars(OnRemoteDied(s))

Spec == Init /\ [][Next]_vars

FairSpec == Spec /\ Fairness

----------------------------------------------------------------------------
(* Properties                                                              *)

(* The values of a topic still on their way through a sequence. *)
Coming(messages, topic) ==
  {i \in DOMAIN messages : messages[i].topic = topic}

LastComing(messages, topic) ==
  messages[CHOOSE i \in Coming(messages, topic) :
             \A j \in Coming(messages, topic) : j <= i].value

(* What a subscriber hears last on a topic if nothing more is announced. *)
Heard(s, topic) ==
  IF Coming(queue, topic) # {} THEN LastComing(queue, topic)
  ELSE IF Coming(inbox[s], topic) # {} THEN LastComing(inbox[s], topic)
  ELSE view[s][topic]

(* The tail of the events tells the truth: a running subscriber to whom    *)
(* the last event on a topic was sent ends up with what the service        *)
(* announced last.  Publishing and canceling reach it in order although    *)
(* they pass two queues and calls overtake them.                           *)
LastWordIsCurrent ==
  \A s \in Subscribers : \A topic \in informed[s] :
    running[s] => Heard(s, topic) = current[topic]

(* The link of a subscriber before the i-th message of its inbox. *)
LinkBefore(s, i) ==
  LET earlier == {j \in Coming(inbox[s], Link) : j < i}
  IN  IF earlier = {} THEN view[s][Link]
      ELSE inbox[s][CHOOSE j \in earlier : \A k \in earlier : k <= j].value

(* A running subscriber hears OnConnected and OnDisconnected in turn,      *)
(* every other message between the two, and at the end that it is          *)
(* connected just when the manager has its record.                         *)
EventsWithinLink ==
  \A s \in Subscribers :
    running[s] =>
      /\ \A i \in DOMAIN inbox[s] :
           IF inbox[s][i].topic = Link
           THEN (inbox[s][i].value = "on") <=> (LinkBefore(s, i) # "on")
           ELSE LinkBefore(s, i) = "on"
      /\ (LinkBefore(s, Len(inbox[s]) + 1) = "on") <=> HasRecord(s)

(* When events stop, every running subscriber that was sent the last event *)
(* on a topic comes to show what the service announced.                    *)
ViewsConverge ==
  <>[](\A s \in Subscribers : \A topic \in informed[s] :
         running[s] => view[s][topic] = current[topic])

(* A subscriber that dies while its death is watched loses its record.     *)
DeadAreForgotten ==
  \A s \in Subscribers :
    (~running[s] /\ linked[s]) ~> ~HasRecord(s)

----------------------------------------------------------------------------
(* What a record stands for, and the promise it keeps                      *)

Followed(record) ==
  IF record.subscribedAll THEN Bundles \ record.bundleList
  ELSE record.bundleList

(* Unsubscribing from all is unsubscribing from every bundle there is. *)
Wishes(call) ==
  IF call.op = "none" THEN {}
  ELSE {[take |-> call.op = "subscribe",
         names |-> IF call.op = "unsubscribe all" THEN Bundles
                   ELSE call.names]}

Promise ==
  INSTANCE Subscriptions WITH
    Topics <- Topics \cup {Link},
    Users <- UserFilter,
    Values <- Value,
    SourceOf <- BundleOf,
    ForUser <- {un \in UserFilter \X Notifications : UserMatches(un[1], un[2])},
    bundles <- [s \in Subscribers |-> Followed(subscriberRecordList[s])],
    user <- [s \in Subscribers |-> subscriberRecordList[s].userId],
    connected <- [s \in Subscribers |-> HasRecord(s)],
    pending <- [s \in Subscribers |-> Wishes(pending[s])]

(* The records implement the promise: following a set of bundles, written  *)
(* as a list or as all but a list, with events sent to those that follow.  *)
PromiseKept == Promise!Spec
=============================================================================
