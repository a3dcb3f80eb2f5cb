---------------------- MODULE SubscriberManagerProofs ----------------------
(* The subscriber manager keeps the promise of a subscription, whatever    *)
(* the subscribers, the bundles, the events and the bounds.                *)
EXTENDS SubscriberManager, SequenceTheorems, WellFoundedInduction, TLAPS

USE NotificationsAssumption, NamesAssumption, BoundsAssumption

----------------------------------------------------------------------------
(* Types                                                                   *)

(* What is left of a record when bundles are taken from it is a record, or *)
(* follows none and is dropped.                                            *)
LEMMA RecordLeft ==
  ASSUME NEW record \in Record, NEW call \in Calls,
         ~FollowsNone(RemoveRecordInfo(record, call))
  PROVE  RemoveRecordInfo(record, call) \in Record
BY DEF RemoveRecordInfo, Record, FollowsNone, Call

(* A subscription writes a record that follows something. *)
LEMMA RecordAdded ==
  ASSUME NEW record, NEW names \in SUBSET Bundles, NEW userId \in UserIds
  PROVE  AddRecordInfo(record, names, userId) \in Record
BY DEF AddRecordInfo, Record, FollowsNone

(* No record of a subscriber looks like the lack of one. *)
LEMMA RecordIsNotNone == NoRecord \notin Record
BY DEF NoRecord, Record, FollowsNone

(* A message joins the inbox of a subscriber that runs. *)
LEMMA SentType ==
  ASSUME NEW boxes \in [Subscribers -> Seq(Message)], NEW s \in Subscribers,
         NEW topic \in Topics \cup {Link}, NEW value \in Value,
         running \in [Subscribers -> BOOLEAN]
  PROVE  Sent(boxes, s, topic, value) \in [Subscribers -> Seq(Message)]
<1>1. [topic |-> topic, value |-> value] \in Message
  BY DEF Message
<1>2. Append(boxes[s], [topic |-> topic, value |-> value]) \in Seq(Message)
  BY <1>1
<1> QED
  BY <1>2 DEF Sent

(* Announcing an event keeps every variable's type. *)
LEMMA PostType ==
  ASSUME TypeOK, NEW topic \in Topics, NEW value \in Value, Post(topic, value)
  PROVE  TypeOK'
<1>1. [topic |-> topic, value |-> value] \in Event
  BY DEF Event
<1>2. queue' \in Seq(Event)
  BY <1>1 DEF TypeOK, Post
<1>3. current' \in [Topics -> Value \cup {"none"}]
  BY DEF TypeOK, Post
<1>4. posts' \in Nat
  BY DEF TypeOK, Post
<1> QED
  BY <1>2, <1>3, <1>4 DEF TypeOK, Post, clientVars

(* So does sending the oldest event to its audience. *)
LEMMA DispatchType ==
  ASSUME TypeOK, Dispatch
  PROVE  TypeOK'
<1>1. Head(queue) \in Event /\ queue' \in Seq(Event)
  BY DEF TypeOK, Dispatch
<1>2. Head(queue) \in Message /\ Head(queue).topic \in Topics
  BY <1>1 DEF Event, Message
<1>3. inbox' \in [Subscribers -> Seq(Message)]
  BY <1>2 DEF TypeOK, Dispatch
<1>4. informed' \in [Subscribers -> SUBSET Topics]
  BY <1>2 DEF TypeOK, Dispatch
<1> QED
  BY <1>1, <1>3, <1>4 DEF TypeOK, Dispatch

(* So does a call that waits, *)
LEMMA RequestType ==
  ASSUME TypeOK, NEW s \in Subscribers, NEW call \in Calls, Request(s, call)
  PROVE  TypeOK'
<1>1. pending' \in [Subscribers -> Calls \cup {NoCall}]
  BY DEF TypeOK, Request
<1>2. calls' \in [Subscribers -> Nat]
  BY DEF TypeOK, Request
<1> QED
  BY <1>1, <1>2 DEF TypeOK, Request, eventVars, clientVars

(* a subscription, *)
LEMMA AddSubscriberType ==
  ASSUME TypeOK, NEW s \in Subscribers, AddSubscriberInner(s)
  PROVE  TypeOK'
<1>1. pending[s] \in Call
  BY DEF TypeOK, AddSubscriberInner, NoCall
<1>2. AddRecordInfo(subscriberRecordList[s], pending[s].names,
                    SubscribedUser(s, pending[s].user)) \in Record
  BY <1>1, RecordAdded DEF SubscribedUser, Call
<1>3. subscriberRecordList' \in [Subscribers -> Record \cup {NoRecord}]
  BY <1>2 DEF TypeOK, AddSubscriberInner
<1>4. inbox' \in [Subscribers -> Seq(Message)]
  <2>1. inbox \in [Subscribers -> Seq(Message)] /\ "on" \in Value
        /\ running \in [Subscribers -> BOOLEAN]
    BY DEF TypeOK, Value
  <2>2. Sent(inbox, s, Link, "on") \in [Subscribers -> Seq(Message)]
    BY <2>1, SentType
  <2>3. inbox' = inbox \/ inbox' = Sent(inbox, s, Link, "on")
    BY DEF AddSubscriberInner
  <2> QED
    BY <2>1, <2>2, <2>3
<1>5. linked' \in [Subscribers -> BOOLEAN]
  <2>1. linked' = linked \/ \E b \in BOOLEAN : linked' = [linked EXCEPT ![s] = b]
    BY DEF AddSubscriberInner
  <2> QED
    BY <2>1 DEF TypeOK
<1>6. pending' \in [Subscribers -> Calls \cup {NoCall}]
  BY DEF TypeOK, AddSubscriberInner
<1> QED
  BY <1>3, <1>4, <1>5, <1>6 DEF TypeOK, AddSubscriberInner, eventVars

(* the end of one, *)
LEMMA RemoveSubscriberType ==
  ASSUME TypeOK, NEW s \in Subscribers, RemoveSubscriberInner(s)
  PROVE  TypeOK'
<1> DEFINE left == RemoveRecordInfo(subscriberRecordList[s], pending[s])
<1>1. pending[s] \in Calls
  <2>1. pending[s] \in Calls \cup {NoCall}
    BY DEF TypeOK
  <2>2. pending[s].op # "none"
    BY DEF RemoveSubscriberInner
  <2> QED
    BY <2>1, <2>2 DEF NoCall
<1>2. CASE UNCHANGED <<subscriberRecordList, linked, inbox>>
  BY <1>2 DEF TypeOK, RemoveSubscriberInner, eventVars
<1>3. CASE /\ HasRecord(s) /\ ~FollowsNone(left)
           /\ subscriberRecordList' = [subscriberRecordList EXCEPT ![s] = left]
           /\ UNCHANGED <<linked, inbox>>
  <2>1. subscriberRecordList[s] \in Record
    BY <1>3 DEF TypeOK, HasRecord
  <2>2. left \in Record
    BY <1>1, <1>3, <2>1, RecordLeft
  <2> QED
    BY <1>3, <2>2 DEF TypeOK, RemoveSubscriberInner, eventVars
<1>4. CASE /\ subscriberRecordList' = [subscriberRecordList EXCEPT ![s] = NoRecord]
           /\ linked' = [linked EXCEPT ![s] = FALSE]
           /\ inbox' = Sent(inbox, s, Link, "off")
  <2>1. inbox' \in [Subscribers -> Seq(Message)]
    BY <1>4, SentType DEF TypeOK, Value
  <2> QED
    BY <1>4, <2>1 DEF TypeOK, RemoveSubscriberInner, eventVars
<1> QED
  BY <1>2, <1>3, <1>4 DEF RemoveSubscriberInner

(* and what happens to a subscriber. *)
LEMMA ReceiveType ==
  ASSUME TypeOK, NEW s \in Subscribers, Receive(s)
  PROVE  TypeOK'
<1>1. Head(inbox[s]) \in Message /\ Tail(inbox[s]) \in Seq(Message)
  BY DEF TypeOK, Receive
<1>2. inbox' \in [Subscribers -> Seq(Message)]
  BY <1>1 DEF TypeOK, Receive
<1>3. view' \in [Subscribers -> [Topics \cup {Link} -> Value \cup {"none"}]]
  BY <1>1 DEF TypeOK, Receive, Message
<1> QED
  BY <1>2, <1>3 DEF TypeOK, Receive, eventVars

(* The type invariant holds in every reachable state. *)
THEOREM TypeCorrect == Spec => []TypeOK
<1>1. Init => TypeOK
  BY RecordIsNotNone DEF Init, TypeOK, UserFilter
<1>2. TypeOK /\ [Next]_vars => TypeOK'
  <2> SUFFICES ASSUME TypeOK, [Next]_vars PROVE TypeOK'
    OBVIOUS
  <2>1. CASE \E topic \in Topics, value \in Value : Post(topic, value)
    BY <2>1, PostType
  <2>2. CASE Dispatch
    BY <2>2, DispatchType
  <2>3. ASSUME NEW s \in Subscribers, NEW call \in Calls, Request(s, call)
        PROVE  TypeOK'
    BY <2>3, RequestType
  <2>4. ASSUME NEW s \in Subscribers, AddSubscriberInner(s)
        PROVE  TypeOK'
    BY <2>4, AddSubscriberType
  <2>5. ASSUME NEW s \in Subscribers, RemoveSubscriberInner(s)
        PROVE  TypeOK'
    BY <2>5, RemoveSubscriberType
  <2>6. ASSUME NEW s \in Subscribers, Receive(s)
        PROVE  TypeOK'
    BY <2>6, ReceiveType
  <2>7. ASSUME NEW s \in Subscribers, Die(s)
        PROVE  TypeOK'
    <3>1. inbox' \in [Subscribers -> Seq(Message)]
      BY <2>7 DEF TypeOK, Die
    <3>2. running' \in [Subscribers -> BOOLEAN]
      BY <2>7 DEF TypeOK, Die
    <3> QED
      BY <2>7, <3>1, <3>2 DEF TypeOK, Die, eventVars
  <2>8. ASSUME NEW s \in Subscribers, OnRemoteDied(s)
        PROVE  TypeOK'
    BY <2>8 DEF TypeOK, OnRemoteDied, eventVars, clientVars
  <2>9. CASE UNCHANGED vars
    BY <2>9 DEF TypeOK, vars, eventVars, clientVars
  <2> QED
    BY <2>1, <2>2, <2>3, <2>4, <2>5, <2>6, <2>7, <2>8, <2>9 DEF Next
<1> QED
  BY <1>1, <1>2, PTL DEF Spec

----------------------------------------------------------------------------
(* The promise                                                             *)

(* A subscription makes the record stand for the bundles it names, or all. *)
LEMMA FollowedAdded ==
  ASSUME NEW record, NEW names \in SUBSET Bundles, NEW userId
  PROVE  Followed(AddRecordInfo(record, names, userId))
           = IF names = {} THEN Bundles ELSE names
BY DEF Followed, AddRecordInfo

(* Whichever way the bundles are written down, taking some from the record *)
(* takes them from what it stands for.                                     *)
LEMMA FollowedLeft ==
  ASSUME NEW record \in Record, NEW call \in Calls, call.op = "unsubscribe"
  PROVE  Followed(RemoveRecordInfo(record, call))
           = Followed(record) \ call.names
BY DEF Followed, RemoveRecordInfo, Record

(* The filter of the code selects the notifications of followed bundles.   *)
LEMMA MatchesFollowed ==
  ASSUME NEW record \in Record, NEW n \in Notifications
  PROVE  Matches(record, n)
           <=> BundleOf[n] \in Followed(record) /\ UserMatches(record.userId, n)
BY DEF Matches, Followed, Record

(* What the promise calls the bundles, user and connection of subscribers. *)
MappedBundles == [s \in Subscribers |-> Followed(subscriberRecordList[s])]
MappedUser == [s \in Subscribers |-> subscriberRecordList[s].userId]
MappedConnected == [s \in Subscribers |-> HasRecord(s)]
MappedPending == [s \in Subscribers |-> Wishes(pending[s])]

(* When one record changes, one entry of each changes. *)
LEMMA MappedChange ==
  ASSUME TypeOK, NEW s \in Subscribers, NEW record,
         subscriberRecordList' = [subscriberRecordList EXCEPT ![s] = record]
  PROVE  /\ MappedBundles' = [MappedBundles EXCEPT ![s] = Followed(record)]
         /\ MappedUser' = [MappedUser EXCEPT ![s] = record.userId]
         /\ record # NoRecord =>
              MappedConnected' = [MappedConnected EXCEPT ![s] = TRUE]
         /\ record = NoRecord =>
              MappedConnected' = [MappedConnected EXCEPT ![s] = FALSE]
<1>1. subscriberRecordList'[s] = record
  BY DEF TypeOK
<1>2. \A o \in Subscribers \ {s} :
        subscriberRecordList'[o] = subscriberRecordList[o]
  BY DEF TypeOK
<1>3. MappedBundles' = [MappedBundles EXCEPT ![s] = Followed(record)]
  <2>1. \A o \in Subscribers :
          MappedBundles'[o] = [MappedBundles EXCEPT ![s] = Followed(record)][o]
    BY <1>1, <1>2 DEF MappedBundles
  <2> QED
    BY <2>1 DEF MappedBundles
<1>4. MappedUser' = [MappedUser EXCEPT ![s] = record.userId]
  <2>1. \A o \in Subscribers :
          MappedUser'[o] = [MappedUser EXCEPT ![s] = record.userId][o]
    BY <1>1, <1>2 DEF MappedUser
  <2> QED
    BY <2>1 DEF MappedUser
<1>5. ASSUME record # NoRecord
      PROVE  MappedConnected' = [MappedConnected EXCEPT ![s] = TRUE]
  <2>1. \A o \in Subscribers :
          MappedConnected'[o] = [MappedConnected EXCEPT ![s] = TRUE][o]
    BY <1>1, <1>2, <1>5 DEF MappedConnected, HasRecord
  <2> QED
    BY <2>1 DEF MappedConnected
<1>6. ASSUME record = NoRecord
      PROVE  MappedConnected' = [MappedConnected EXCEPT ![s] = FALSE]
  <2>1. \A o \in Subscribers :
          MappedConnected'[o] = [MappedConnected EXCEPT ![s] = FALSE][o]
    BY <1>1, <1>2, <1>6 DEF MappedConnected, HasRecord
  <2> QED
    BY <2>1 DEF MappedConnected
<1> QED
  BY <1>3, <1>4, <1>5, <1>6

(* A call that is handled is a wish that is answered. *)
LEMMA HandledIsAnswered ==
  ASSUME TypeOK, NEW s \in Subscribers, NEW wish, Wishes(pending[s]) = {wish},
         pending' = [pending EXCEPT ![s] = NoCall],
         inbox' = inbox
           \/ \E event \in [topic : Topics \cup {Link}, value : Value] :
                inbox' = [inbox EXCEPT ![s] = Append(@, event)],
         UNCHANGED <<running, queue>>
  PROVE  Promise!Answer(s, wish)
<1>1. pending'[s] = NoCall /\ Wishes(NoCall) = {}
  BY DEF TypeOK, Wishes, NoCall
<1>2. \A o \in Subscribers \ {s} : pending'[o] = pending[o]
  BY DEF TypeOK
<1>3. MappedPending' = [MappedPending EXCEPT ![s] = {}]
  <2>1. \A o \in Subscribers :
          MappedPending'[o] = [MappedPending EXCEPT ![s] = {}][o]
    BY <1>1, <1>2 DEF MappedPending, Wishes
  <2> QED
    BY <2>1 DEF MappedPending
<1> QED
  BY <1>3 DEF Promise!Answer, MappedPending

(* Announcing an event is announcing it. *)
LEMMA PostIsAnnounce ==
  ASSUME NEW topic \in Topics, NEW value \in Value, Post(topic, value)
  PROVE  Promise!Next
<1>1. [topic |-> topic, value |-> value]
        \in [topic : Topics \cup {Link}, value : Value]
  OBVIOUS
<1>2. Promise!Announce([topic |-> topic, value |-> value])
  BY DEF Post, Promise!Announce, clientVars, HasRecord, Wishes
<1> QED
  BY <1>1, <1>2 DEF Promise!Next

(* The audience of an event is those the promise sends it to. *)
LEMMA AudienceFollows ==
  ASSUME TypeOK, queue # <<>>, NEW s \in Subscribers
  PROVE  s \in Audience(Head(queue).topic) <=> Promise!Follows(s, Head(queue))
<1> DEFINE topic == Head(queue).topic
           record == subscriberRecordList[s]
<1>1. topic \in Topics
  <2>1. Head(queue) \in Event
    BY DEF TypeOK
  <2> QED
    BY <2>1 DEF Event
<1>2. HasRecord(s) => record \in Record
  BY DEF TypeOK, HasRecord
<1>3. ASSUME HasRecord(s), topic \in Notifications
      PROVE  Matches(record, topic)
               <=> /\ BundleOf[topic] \in Followed(record)
                   /\ UserMatches(record.userId, topic)
  BY <1>2, <1>3, MatchesFollowed
<1>4. ASSUME HasRecord(s), topic \in Notifications
      PROVE  UserMatches(record.userId, topic)
               <=> <<record.userId, topic>> \in
                     {un \in UserFilter \X Notifications :
                        UserMatches(un[1], un[2])}
  <2>1. record.userId \in UserFilter
    BY <1>2, <1>4 DEF Record, UserFilter
  <2> QED
    BY <1>4, <2>1
<1>5. DOMAIN BundleOf = Notifications
  BY NotificationsAssumption
<1> QED
  BY <1>3, <1>4, <1>5 DEF Audience, Promise!Follows

(* Sending the oldest event is delivering it. *)
LEMMA DispatchIsDeliver ==
  ASSUME TypeOK, Dispatch
  PROVE  Promise!Next
<1>1. \A s \in Subscribers :
        s \in Audience(Head(queue).topic) <=> Promise!Follows(s, Head(queue))
  BY AudienceFollows DEF Dispatch
<1>2. inbox' = [s \in Subscribers |->
                  IF running[s] /\ Promise!Follows(s, Head(queue))
                  THEN Append(inbox[s], Head(queue)) ELSE inbox[s]]
  BY <1>1 DEF Dispatch
<1>3. Promise!Deliver
  BY <1>2 DEF Dispatch, Promise!Deliver, HasRecord, Wishes
<1> QED
  BY <1>3 DEF Promise!Next

(* A greeting or a farewell is a message the promise allows. *)
LEMMA SentIsAllowed ==
  ASSUME TypeOK, NEW s \in Subscribers, NEW value \in Value,
         inbox' = Sent(inbox, s, Link, value)
  PROVE  inbox' = inbox
           \/ \E event \in [topic : Topics \cup {Link}, value : Value] :
                inbox' = [inbox EXCEPT ![s] = Append(@, event)]
<1>1. [topic |-> Link, value |-> value]
        \in [topic : Topics \cup {Link}, value : Value]
  OBVIOUS
<1> QED
  BY <1>1 DEF Sent

(* Subscribing is subscribing to the bundles named. *)
LEMMA AddIsSubscribe ==
  ASSUME TypeOK, NEW s \in Subscribers, AddSubscriberInner(s)
  PROVE  Promise!Next
<1> DEFINE names == pending[s].names
           record == AddRecordInfo(subscriberRecordList[s], names,
                                   SubscribedUser(s, pending[s].user))
<1>1. pending[s] \in Call
  <2>1. pending[s] \in Calls \cup {NoCall} /\ pending[s].op # "none"
    BY DEF TypeOK, AddSubscriberInner
  <2> QED
    BY <2>1 DEF NoCall
<1>2. names \in SUBSET Bundles
  BY <1>1 DEF Call
<1>3. SubscribedUser(s, pending[s].user) \in UserIds
  BY DEF SubscribedUser
<1>4. record \in Record /\ record # NoRecord
  BY <1>2, <1>3, RecordAdded, RecordIsNotNone
<1>5. Followed(record) = IF names = {} THEN Bundles ELSE names
  BY <1>2, FollowedAdded
<1>6. record.userId \in UserFilter
  BY <1>4 DEF Record, UserFilter
<1>7. subscriberRecordList' = [subscriberRecordList EXCEPT ![s] = record]
  BY DEF AddSubscriberInner
<1>8. inbox' = inbox
        \/ \E event \in [topic : Topics \cup {Link}, value : Value] :
             inbox' = [inbox EXCEPT ![s] = Append(@, event)]
  <2>1. inbox' = inbox \/ inbox' = Sent(inbox, s, Link, "on")
    BY DEF AddSubscriberInner
  <2> QED
    BY <2>1, SentIsAllowed DEF Value
<1>9. /\ MappedBundles' =
            [MappedBundles EXCEPT ![s] = IF names = {} THEN Bundles ELSE names]
      /\ MappedUser' \in {[MappedUser EXCEPT ![s] = u] : u \in UserFilter}
      /\ MappedConnected' = [MappedConnected EXCEPT ![s] = TRUE]
  <2>1. PICK r : r = record
    OBVIOUS
  <2>2. /\ MappedBundles' = [MappedBundles EXCEPT ![s] = Followed(r)]
        /\ MappedUser' = [MappedUser EXCEPT ![s] = r.userId]
        /\ r # NoRecord => MappedConnected' = [MappedConnected EXCEPT ![s] = TRUE]
    BY <1>7, <2>1, MappedChange
  <2> QED
    BY <1>4, <1>5, <1>6, <2>1, <2>2
<1>10. UNCHANGED <<running, queue>>
  BY DEF AddSubscriberInner, eventVars
<1>11. PICK n \in SUBSET Bundles : n = names
  BY <1>2
<1>12. Promise!Answer(s, [take |-> TRUE, names |-> n])
  <2>1. Wishes(pending[s]) = {[take |-> TRUE, names |-> n]}
    BY <1>11 DEF Wishes, AddSubscriberInner
  <2>2. pending' = [pending EXCEPT ![s] = NoCall]
    BY DEF AddSubscriberInner
  <2> QED
    BY <1>8, <1>10, <2>1, <2>2, HandledIsAnswered
<1>13. Promise!Subscribe(s, n)
  BY <1>9, <1>11, <1>12
  DEF Promise!Subscribe, MappedBundles, MappedUser, MappedConnected
<1> QED
  BY <1>13 DEF Promise!Next

(* Who has no record follows nothing and is not connected. *)
LEMMA DropDisconnects ==
  ASSUME TypeOK, NEW s \in Subscribers,
         subscriberRecordList' = [subscriberRecordList EXCEPT ![s] = NoRecord]
  PROVE  /\ MappedBundles' = [MappedBundles EXCEPT ![s] = {}]
         /\ MappedBundles'[s] = {}
         /\ Promise!Disconnected(s)
<1>1. Followed(NoRecord) = {} /\ NoRecord.userId \in UserFilter
  BY DEF Followed, NoRecord, UserFilter
<1>2. PICK r : r = NoRecord
  OBVIOUS
<1>3. /\ MappedBundles' = [MappedBundles EXCEPT ![s] = Followed(r)]
      /\ MappedUser' = [MappedUser EXCEPT ![s] = r.userId]
      /\ MappedConnected' = [MappedConnected EXCEPT ![s] = FALSE]
  BY <1>2, MappedChange
<1>4. MappedBundles' = [MappedBundles EXCEPT ![s] = {}]
  BY <1>1, <1>2, <1>3
<1>5. MappedBundles'[s] = {}
  BY <1>4 DEF MappedBundles
<1>6. Promise!Disconnected(s)
  BY <1>1, <1>2, <1>3 DEF Promise!Disconnected, MappedUser, MappedConnected
<1> QED
  BY <1>4, <1>5, <1>6

(* Unsubscribing is unsubscribing, for who has no record too. *)
LEMMA RemoveIsUnsubscribe ==
  ASSUME TypeOK, NEW s \in Subscribers, RemoveSubscriberInner(s)
  PROVE  Promise!Next
<1> DEFINE record == subscriberRecordList[s]
           left == RemoveRecordInfo(record, pending[s])
           taken == IF pending[s].op = "unsubscribe" THEN pending[s].names
                    ELSE Bundles
<1>1. pending[s] \in Calls /\ pending[s] \in Call
  <2>1. pending[s] \in Calls \cup {NoCall} /\ pending[s].op # "none"
    BY DEF TypeOK, RemoveSubscriberInner
  <2> QED
    BY <2>1 DEF NoCall
<1>2. taken \in SUBSET Bundles
  BY <1>1 DEF Call
<1>3. PICK n \in SUBSET Bundles : n = taken
  BY <1>2
<1>4. ASSUME HasRecord(s)
      PROVE  /\ record \in Record
             /\ Followed(left) = MappedBundles[s] \ taken
             /\ left.userId = record.userId
  <2>1. record \in Record
    BY <1>4 DEF TypeOK, HasRecord
  <2>2. MappedBundles[s] = Followed(record)
    BY DEF MappedBundles
  <2>3. CASE pending[s].op = "unsubscribe"
    BY <1>1, <2>1, <2>2, <2>3, FollowedLeft DEF RemoveRecordInfo, Record
  <2>4. CASE pending[s].op = "unsubscribe all"
    BY <2>1, <2>2, <2>4 DEF RemoveRecordInfo, Followed, Record
  <2> QED
    BY <2>1, <2>3, <2>4 DEF RemoveSubscriberInner
<1>5. Promise!Answer(s, [take |-> FALSE, names |-> n])
  <2>1. Wishes(pending[s]) = {[take |-> FALSE, names |-> n]}
    BY <1>3 DEF Wishes, RemoveSubscriberInner
  <2>2. pending' = [pending EXCEPT ![s] = NoCall] /\ UNCHANGED <<running, queue>>
    BY DEF RemoveSubscriberInner, eventVars
  <2>3. inbox' = inbox \/ inbox' = Sent(inbox, s, Link, "off")
    BY DEF RemoveSubscriberInner
  <2>4. inbox' = inbox
          \/ \E event \in [topic : Topics \cup {Link}, value : Value] :
               inbox' = [inbox EXCEPT ![s] = Append(@, event)]
    BY <2>3, SentIsAllowed DEF Value
  <2> QED
    BY <2>1, <2>2, <2>4, HandledIsAnswered
<1>6. /\ MappedBundles' = [MappedBundles EXCEPT ![s] = @ \ n]
      /\ \/ UNCHANGED <<MappedConnected, MappedUser>>
         \/ MappedBundles'[s] = {} /\ Promise!Disconnected(s)
  <2>1. CASE ~HasRecord(s) /\ UNCHANGED <<subscriberRecordList, linked, inbox>>
    <3>1. MappedBundles[s] = {}
      BY <2>1 DEF MappedBundles, HasRecord, Followed, NoRecord
    <3> QED
      BY <2>1, <3>1 DEF MappedBundles, MappedConnected, MappedUser, HasRecord
  <2>2. CASE /\ HasRecord(s) /\ ~FollowsNone(left)
             /\ subscriberRecordList' = [subscriberRecordList EXCEPT ![s] = left]
    <3>1. left # NoRecord
      BY <1>1, <1>4, <2>2, RecordLeft, RecordIsNotNone
    <3>2. PICK r : r = left
      OBVIOUS
    <3>3. /\ MappedBundles' = [MappedBundles EXCEPT ![s] = Followed(r)]
          /\ MappedUser' = [MappedUser EXCEPT ![s] = r.userId]
          /\ MappedConnected' = [MappedConnected EXCEPT ![s] = TRUE]
      BY <2>2, <3>1, <3>2, MappedChange
    <3>4. /\ Followed(r) = MappedBundles[s] \ n
          /\ r.userId = MappedUser[s]
      BY <1>3, <1>4, <2>2, <3>2 DEF MappedUser
    <3>5. MappedConnected[s] = TRUE
      BY <2>2 DEF MappedConnected
    <3> QED
      BY <3>3, <3>4, <3>5 DEF MappedUser, MappedConnected
  <2>3. CASE /\ HasRecord(s) /\ FollowsNone(left)
             /\ subscriberRecordList' =
                  [subscriberRecordList EXCEPT ![s] = NoRecord]
    <3>1. MappedBundles[s] \ n = {}
      BY <1>3, <1>4, <2>3 DEF Followed, FollowsNone
    <3>2. /\ MappedBundles' = [MappedBundles EXCEPT ![s] = {}]
          /\ MappedBundles'[s] = {} /\ Promise!Disconnected(s)
      BY <2>3, DropDisconnects
    <3> QED
      BY <3>1, <3>2
  <2> QED
    BY <2>1, <2>2, <2>3 DEF RemoveSubscriberInner
<1>7. Promise!Unsubscribe(s, n)
  BY <1>5, <1>6
  DEF Promise!Unsubscribe, MappedBundles, MappedUser, MappedConnected
<1> QED
  BY <1>7 DEF Promise!Next

(* The record of a subscriber that died is forgotten. *)
LEMMA OnRemoteDiedIsForget ==
  ASSUME TypeOK, NEW s \in Subscribers, OnRemoteDied(s)
  PROVE  Promise!Next
<1>1. /\ MappedBundles' = [MappedBundles EXCEPT ![s] = {}]
      /\ Promise!Disconnected(s)
  BY DropDisconnects DEF OnRemoteDied
<1>2. Promise!Forget(s)
  BY <1>1
  DEF OnRemoteDied, eventVars, clientVars, Promise!Forget, MappedBundles, Wishes
<1> QED
  BY <1>2 DEF Promise!Next

(* Calling is asking. *)
LEMMA RequestIsAsk ==
  ASSUME TypeOK, NEW s \in Subscribers, NEW call \in Calls, Request(s, call)
  PROVE  Promise!Next
<1>1. call \in Call
  BY NamesAssumption
<1>2. PICK wish \in Promise!Wish : Wishes(call) = {wish}
  <2>1. PICK wish : wish = [take |-> call.op = "subscribe",
                            names |-> IF call.op = "unsubscribe all"
                                      THEN Bundles ELSE call.names]
    OBVIOUS
  <2>2. /\ call.op \in {"subscribe", "unsubscribe", "unsubscribe all"}
        /\ call.names \in SUBSET Bundles
    BY <1>1 DEF Call
  <2>3. wish \in Promise!Wish
    BY <2>1, <2>2 DEF Promise!Wish
  <2>4. Wishes(call) = {wish}
    BY <2>1, <2>2 DEF Wishes
  <2> QED
    BY <2>3, <2>4
<1>3. MappedPending[s] = {}
  <2>1. pending[s] = NoCall
    BY DEF Request
  <2>2. Wishes(NoCall) = {}
    BY DEF Wishes, NoCall
  <2> QED
    BY <2>1, <2>2 DEF MappedPending
<1>4. MappedPending' = [MappedPending EXCEPT ![s] = {wish}]
  <2>1. pending'[s] = call
        /\ \A o \in Subscribers \ {s} : pending'[o] = pending[o]
    BY DEF TypeOK, Request
  <2>2. \A o \in Subscribers :
          MappedPending'[o] = [MappedPending EXCEPT ![s] = {wish}][o]
    BY <1>2, <2>1 DEF MappedPending, Wishes
  <2> QED
    BY <2>2 DEF MappedPending
<1>5. Promise!Ask(s, wish)
  BY <1>3, <1>4
  DEF Request, Promise!Ask, MappedPending, eventVars, clientVars, HasRecord
<1> QED
  BY <1>5 DEF Promise!Next

(* The subscriber manager implements the promise of a subscription.        *)
THEOREM PromiseIsKept == Spec => PromiseKept
<1>1. Init => Promise!Init
  <2> SUFFICES ASSUME Init PROVE Promise!Init
    OBVIOUS
  <2>1. \A s \in Subscribers : subscriberRecordList[s] = NoRecord
    BY DEF Init
  <2>2. /\ Followed(NoRecord) = {}
        /\ NoRecord.userId \in UserFilter
    BY DEF Followed, NoRecord, UserFilter
  <2>3. [s \in Subscribers |-> Followed(subscriberRecordList[s])]
          = [s \in Subscribers |-> {}]
    BY <2>1, <2>2
  <2>4. [s \in Subscribers |-> subscriberRecordList[s].userId]
          \in [Subscribers -> UserFilter]
    BY <2>1, <2>2
  <2>5. [s \in Subscribers |-> HasRecord(s)] = [s \in Subscribers |-> FALSE]
    BY <2>1 DEF HasRecord
  <2>6. [s \in Subscribers |-> Wishes(pending[s])] = [s \in Subscribers |-> {}]
    BY DEF Init, Wishes, NoCall
  <2> QED
    BY <2>3, <2>4, <2>5, <2>6 DEF Init, Promise!Init
<1>2. TypeOK /\ [Next]_vars => [Promise!Next]_Promise!vars
  <2> SUFFICES ASSUME TypeOK, [Next]_vars
               PROVE  Promise!Next \/ UNCHANGED Promise!vars
    OBVIOUS
  <2>1. CASE \E topic \in Topics, value \in Value : Post(topic, value)
    BY <2>1, PostIsAnnounce
  <2>2. CASE Dispatch
    BY <2>2, DispatchIsDeliver
  <2>3. ASSUME NEW s \in Subscribers, NEW call \in Calls, Request(s, call)
        PROVE  Promise!Next
    BY <2>3, RequestIsAsk
  <2>4. ASSUME NEW s \in Subscribers, AddSubscriberInner(s)
        PROVE  Promise!Next
    BY <2>4, AddIsSubscribe
  <2>5. ASSUME NEW s \in Subscribers, RemoveSubscriberInner(s)
        PROVE  Promise!Next
    BY <2>5, RemoveIsUnsubscribe
  <2>6. ASSUME NEW s \in Subscribers, Receive(s)
        PROVE  Promise!Next
    <3>1. Promise!Take(s)
      BY <2>6 DEF Receive, Promise!Take, eventVars, HasRecord, Wishes
    <3> QED
      BY <3>1 DEF Promise!Next
  <2>7. ASSUME NEW s \in Subscribers, Die(s)
        PROVE  Promise!Next
    <3>1. Promise!Die(s)
      BY <2>7 DEF Die, Promise!Die, eventVars, HasRecord, Wishes
    <3> QED
      BY <3>1 DEF Promise!Next
  <2>8. ASSUME NEW s \in Subscribers, OnRemoteDied(s)
        PROVE  Promise!Next
    BY <2>8, OnRemoteDiedIsForget
  <2>9. CASE UNCHANGED vars
    BY <2>9 DEF vars, Promise!vars, eventVars, clientVars, HasRecord, Wishes
  <2> QED
    BY <2>1, <2>2, <2>3, <2>4, <2>5, <2>6, <2>7, <2>8, <2>9 DEF Next
<1> QED
  BY <1>1, <1>2, TypeCorrect, PTL DEF Spec, Promise!Spec, PromiseKept

----------------------------------------------------------------------------
(* The last of some positions                                              *)

(* Positions of a sequence, if there are any, have a last one. *)
LEMMA LastExists ==
  ASSUME NEW n \in Nat, NEW S \in SUBSET (1 .. n), S # {}
  PROVE  \E i \in S : \A j \in S : j <= i
<1> DEFINE R == OpToRel(<, Nat)
           T == {k \in Nat : n - k \in S}
<1>1. IsWellFoundedOn(R, Nat)
  BY NatLessThanWellFounded
<1>2. \A x, y \in Nat : <<x, y>> \in R <=> x < y
  BY DEF OpToRel
<1>3. T \subseteq Nat /\ T # {}
  <2>1. PICK i \in S : TRUE
    OBVIOUS
  <2>2. n - i \in T
    BY <2>1
  <2> QED BY <2>2
<1> HIDE DEF R, T
<1>4. PICK x \in T : \A y \in T : ~ (<<y, x>> \in R)
  BY <1>1, <1>3, WFMin
<1>5. n - x \in S /\ x \in Nat
  BY <1>4 DEF T
<1>6. \A j \in S : j <= n - x
  <2> TAKE j \in S
  <2>1. n - j \in T /\ n - j \in Nat
    BY DEF T
  <2>2. ~(n - j < x)
    BY <1>2, <1>4, <1>5, <2>1
  <2> QED BY <1>5, <2>2
<1> QED BY <1>5, <1>6

(* The value of the last message on a topic, or one there was before. *)
LastOf(messages, topic, before) ==
  IF Coming(messages, topic) # {} THEN LastComing(messages, topic) ELSE before

(* A position that none on the topic follows is the last. *)
LEMMA LastOfIs ==
  ASSUME NEW messages, NEW topic, NEW before,
         Len(messages) \in Nat, DOMAIN messages = 1 .. Len(messages),
         NEW i \in Coming(messages, topic),
         \A j \in Coming(messages, topic) : j <= i
  PROVE  LastOf(messages, topic, before) = messages[i].value
<1> DEFINE last == CHOOSE k \in Coming(messages, topic) :
                     \A j \in Coming(messages, topic) : j <= k
<1>1. /\ last \in Coming(messages, topic)
      /\ \A j \in Coming(messages, topic) : j <= last
  OBVIOUS
<1>2. last = i
  <2>1. last \in 1 .. Len(messages) /\ i \in 1 .. Len(messages)
    BY <1>1 DEF Coming
  <2>2. last <= i /\ i <= last
    BY <1>1
  <2> HIDE DEF last
  <2> QED BY <2>1, <2>2
<1> QED BY <1>2 DEF LastOf, LastComing

(* A message more at the end is the last on its topic and on no other. *)
LEMMA LastOfAppend ==
  ASSUME NEW S, NEW messages \in Seq(S), NEW m \in S, NEW topic, NEW before
  PROVE  LastOf(Append(messages, m), topic, before)
           = IF m.topic = topic THEN m.value ELSE LastOf(messages, topic, before)
<1> DEFINE n == Len(messages)
           longer == Append(messages, m)
<1>1. /\ n \in Nat
      /\ DOMAIN messages = 1 .. n
      /\ longer \in Seq(S)
      /\ Len(longer) = n + 1
      /\ DOMAIN longer = 1 .. n + 1
      /\ \A i \in 1 .. n : longer[i] = messages[i]
      /\ longer[n + 1] = m
  BY AppendProperties, LenProperties
<1> HIDE DEF n, longer
<1>lens. /\ Len(messages) \in Nat /\ DOMAIN messages = 1 .. Len(messages)
        /\ Len(longer) \in Nat /\ DOMAIN longer = 1 .. Len(longer)
  BY <1>1 DEF n
<1>2. CASE m.topic = topic
  <2>1. n + 1 \in Coming(longer, topic)
    BY <1>1, <1>2 DEF Coming
  <2>2. \A j \in Coming(longer, topic) : j <= n + 1
    BY <1>1 DEF Coming
  <2>3. LastOf(longer, topic, before) = longer[n + 1].value
    <3> DEFINE p == n + 1
    <3>1. p \in Coming(longer, topic) /\ \A j \in Coming(longer, topic) : j <= p
      BY <2>1, <2>2
    <3> HIDE DEF p
    <3>2. LastOf(longer, topic, before) = longer[p].value
      BY <1>lens, <3>1, LastOfIs, Zenon
    <3> QED BY <3>2 DEF p
  <2> QED BY <1>1, <1>2, <2>3 DEF longer
<1>3. CASE m.topic # topic
  <2>1. Coming(longer, topic) = Coming(messages, topic)
    BY <1>1, <1>3 DEF Coming
  <2>2. CASE Coming(messages, topic) = {}
    BY <1>3, <2>1, <2>2 DEF LastOf, longer
  <2>3. CASE Coming(messages, topic) # {}
    <3>1. PICK i \in Coming(messages, topic) :
            \A j \in Coming(messages, topic) : j <= i
      BY <1>1, <2>3, LastExists DEF Coming
    <3>2. LastOf(messages, topic, before) = messages[i].value
      BY <1>lens, <3>1, LastOfIs, Zenon
    <3>3. LastOf(longer, topic, before) = longer[i].value
      BY <1>lens, <2>1, <3>1, LastOfIs, Zenon
    <3>4. longer[i] = messages[i]
      BY <1>1, <3>1 DEF Coming
    <3> QED BY <1>3, <3>2, <3>3, <3>4 DEF longer
  <2> QED BY <2>2, <2>3
<1> QED BY <1>2, <1>3

(* The first message, once taken, counts as what there was before. *)
LEMMA LastOfTail ==
  ASSUME NEW S, NEW messages \in Seq(S), messages # <<>>, NEW topic, NEW before
  PROVE  LastOf(Tail(messages), topic,
                IF Head(messages).topic = topic THEN Head(messages).value ELSE before)
           = LastOf(messages, topic, before)
<1> DEFINE n == Len(messages)
           rest == Tail(messages)
           first == IF Head(messages).topic = topic THEN Head(messages).value ELSE before
<1>1. /\ n \in Nat \ {0}
      /\ DOMAIN messages = 1 .. n
      /\ Len(rest) = n - 1
      /\ Len(rest) \in Nat
      /\ DOMAIN rest = 1 .. n - 1
      /\ \A i \in 1 .. n - 1 : rest[i] = messages[i + 1]
      /\ Head(messages) = messages[1]
  BY LenProperties, HeadTailProperties
<1> HIDE DEF n, rest
<1>lens. /\ Len(messages) \in Nat /\ DOMAIN messages = 1 .. Len(messages)
        /\ Len(rest) \in Nat /\ DOMAIN rest = 1 .. Len(rest)
  BY <1>1 DEF n
<1>2. \A i \in 1 .. n - 1 : i \in Coming(rest, topic) <=> i + 1 \in Coming(messages, topic)
  BY <1>1 DEF Coming
<1>3. CASE Coming(rest, topic) # {}
  <2>1. PICK i \in Coming(rest, topic) : \A j \in Coming(rest, topic) : j <= i
    <3>1. Coming(rest, topic) \in SUBSET (1 .. Len(rest))
      BY <1>1 DEF Coming
    <3> QED BY <1>1, <1>3, <3>1, LastExists
  <2>2. i \in 1 .. n - 1
    BY <1>1 DEF Coming
  <2>3. LastOf(rest, topic, first) = rest[i].value
    BY <1>lens, <2>1, LastOfIs, Zenon
  <2>4. i + 1 \in Coming(messages, topic)
    BY <1>2, <2>2
  <2>5. ASSUME NEW j \in Coming(messages, topic)
        PROVE  j <= i + 1
    <3>1. j \in 1 .. n
      BY <1>1 DEF Coming
    <3>2. CASE j = 1
      BY <2>2, <3>2
    <3>3. CASE j # 1
      <4> DEFINE k == j - 1
      <4>1. k \in 1 .. n - 1 /\ k + 1 = j
        BY <1>1, <3>1, <3>3
      <4>2. k \in Coming(rest, topic)
        BY <1>2, <4>1
      <4>3. k <= i
        BY <2>1, <4>2
      <4> QED BY <2>2, <3>1, <4>3
    <3> QED BY <3>2, <3>3
  <2>6. LastOf(messages, topic, before) = messages[i + 1].value
    <3> DEFINE p == i + 1
    <3>1. p \in Coming(messages, topic) /\ \A j \in Coming(messages, topic) : j <= p
      BY <2>4, <2>5
    <3> HIDE DEF p, first
    <3>2. LastOf(messages, topic, before) = messages[p].value
      BY <1>lens, <3>1, LastOfIs, Zenon
    <3> QED BY <3>2 DEF p
  <2> QED BY <1>1, <2>2, <2>3, <2>6 DEF rest
<1>4. CASE Coming(rest, topic) = {}
  <2>1. LastOf(rest, topic, first) = first
    BY <1>4 DEF LastOf
  <2>2. \A j \in Coming(messages, topic) : j = 1
    <3> TAKE j \in Coming(messages, topic)
    <3>1. j \in 1 .. n
      BY <1>1 DEF Coming
    <3>2. j # 1 => j - 1 \in 1 .. n - 1 /\ (j - 1) + 1 = j
      BY <1>1, <3>1
    <3> QED BY <1>2, <1>4, <3>1, <3>2
  <2>3. CASE Head(messages).topic = topic
    <3>1. 1 \in Coming(messages, topic)
      BY <1>1, <2>3 DEF Coming
    <3>2. \A j \in Coming(messages, topic) : j <= 1
      BY <2>2
    <3>3. LastOf(messages, topic, before) = messages[1].value
      BY <1>lens, <3>1, <3>2, LastOfIs, Zenon
    <3> QED BY <1>1, <2>1, <2>3, <3>3 DEF rest
  <2>4. CASE Head(messages).topic # topic
    <3>1. Coming(messages, topic) = {}
      BY <1>1, <2>2, <2>4 DEF Coming
    <3> QED BY <2>1, <2>4, <3>1 DEF rest, LastOf
  <2> QED BY <2>3, <2>4
<1> QED BY <1>3, <1>4 DEF rest

----------------------------------------------------------------------------
(* The last word                                                           *)

(* What a subscriber hears last, in terms of the two queues. *)
LEMMA HeardIsLast ==
  \A s \in Subscribers, topic \in Topics :
    Heard(s, topic) = LastOf(queue, topic, LastOf(inbox[s], topic, view[s][topic]))
BY DEF Heard, LastOf

(* The last event that waits on a topic says what was announced last. *)
QueueEndsCurrent ==
  \A topic \in Topics :
    Coming(queue, topic) # {} => LastComing(queue, topic) = current[topic]

(* The same with whatever there was before. *)
LEMMA QueueEnds ==
  ASSUME QueueEndsCurrent, NEW topic \in Topics, NEW before
  PROVE  LastOf(queue, topic, before) = IF Coming(queue, topic) # {}
                                        THEN current[topic] ELSE before
BY DEF QueueEndsCurrent, LastOf

LastWord == QueueEndsCurrent /\ LastWordIsCurrent

(* An event that is announced becomes the last word for everyone. *)
LEMMA PostKeepsLastWord ==
  ASSUME TypeOK, LastWord, NEW topic \in Topics, NEW value \in Value,
         Post(topic, value)
  PROVE  LastWord'
<1> DEFINE event == [topic |-> topic, value |-> value]
<1>1. queue \in Seq(Event) /\ event \in Event
  BY DEF TypeOK, Event
<1>2. queue' = Append(queue, event)
  BY DEF Post
<1>3. ASSUME NEW t \in Topics, NEW before
      PROVE  LastOf(queue', t, before)
               = IF t = topic THEN value ELSE LastOf(queue, t, before)
  BY <1>1, <1>2, LastOfAppend
<1>4. \A t \in Topics : current'[t] = IF t = topic THEN value ELSE current[t]
  BY DEF Post, TypeOK
<1>5. UNCHANGED <<inbox, view, running, informed>>
  BY DEF Post, clientVars
<1>6. QueueEndsCurrent'
  <2> SUFFICES ASSUME NEW t \in Topics, Coming(queue', t) # {}
               PROVE  LastComing(queue', t) = current'[t]
    BY DEF QueueEndsCurrent
  <2>1. LastComing(queue', t) = LastOf(queue', t, current[t])
    BY DEF LastOf
  <2>2. LastOf(queue, t, current[t]) = current[t]
    BY QueueEnds DEF LastWord
  <2> QED BY <1>3, <1>4, <2>1, <2>2
<1>7. LastWordIsCurrent'
  <2> SUFFICES ASSUME NEW s \in Subscribers, NEW t \in informed[s], running[s]
               PROVE  Heard(s, t)' = current'[t]
    BY <1>5 DEF LastWordIsCurrent
  <2>1. t \in Topics
    BY DEF TypeOK
  <2>2. Heard(s, t)' = LastOf(queue', t, LastOf(inbox[s], t, view[s][t]))
    BY <1>5 DEF Heard, LastOf
  <2>3. LastOf(queue, t, LastOf(inbox[s], t, view[s][t])) = current[t]
    BY <2>1, HeardIsLast DEF LastWord, LastWordIsCurrent
  <2> QED BY <1>3, <1>4, <2>1, <2>2, <2>3
<1> QED BY <1>6, <1>7 DEF LastWord

(* An event goes from the one queue to the other, where it counts the      *)
(* same; who is not sent it is not informed.                               *)
LEMMA DispatchKeepsLastWord ==
  ASSUME TypeOK, LastWord, Dispatch
  PROVE  LastWord'
<1> DEFINE event == Head(queue)
           topic == event.topic
<1>1. /\ queue \in Seq(Event)
      /\ queue # <<>>
      /\ event \in Event
      /\ event \in Message
      /\ topic \in Topics
      /\ queue' = Tail(queue)
  <2>1. queue \in Seq(Event) /\ queue # <<>> /\ queue' = Tail(queue)
    BY DEF TypeOK, Dispatch
  <2>2. event \in Event
    BY <2>1, HeadTailProperties
  <2> QED BY <2>1, <2>2 DEF Event, Message
<1> HIDE DEF event
<1>2. ASSUME NEW t, NEW before
      PROVE  LastOf(queue', t, IF topic = t THEN event.value ELSE before)
               = LastOf(queue, t, before)
  BY <1>1, LastOfTail DEF event
<1>3. UNCHANGED <<current, view, running>>
  BY DEF Dispatch
<1>4. QueueEndsCurrent'
  <2> SUFFICES ASSUME NEW t \in Topics, Coming(queue', t) # {}
               PROVE  LastComing(queue', t) = current[t]
    BY <1>3 DEF QueueEndsCurrent
  <2>1. LastComing(queue', t) =
          LastOf(queue', t, IF topic = t THEN event.value ELSE current[t])
    BY DEF LastOf
  <2>2. LastComing(queue', t) = LastOf(queue, t, current[t])
    BY <1>2, <2>1
  <2> QED BY <2>2, QueueEnds DEF LastWord
<1>5. LastWordIsCurrent'
  <2> SUFFICES ASSUME NEW s \in Subscribers, NEW t \in informed'[s], running[s]
               PROVE  Heard(s, t)' = current[t]
    BY <1>3 DEF LastWordIsCurrent
  <2> DEFINE before == LastOf(inbox[s], t, view[s][t])
  <2>1. informed'[s] = IF s \in Audience(topic) THEN informed[s] \cup {topic}
                       ELSE informed[s] \ {topic}
    BY DEF Dispatch, event
  <2>2. t \in Topics
    BY <1>1, <2>1 DEF TypeOK
  <2>3. Heard(s, t)' = LastOf(queue', t, LastOf(inbox'[s], t, view[s][t]))
    BY <1>3 DEF Heard, LastOf
  <2>4. CASE s \in Audience(topic)
    <3>1. inbox'[s] = Append(inbox[s], event)
      BY <2>4 DEF Dispatch, event
    <3>2. inbox[s] \in Seq(Message)
      BY DEF TypeOK
    <3>3. LastOf(inbox'[s], t, view[s][t])
            = IF topic = t THEN event.value ELSE before
      BY <1>1, <3>1, <3>2, LastOfAppend
    <3>4. Heard(s, t)' = LastOf(queue, t, before)
      BY <1>2, <2>3, <3>3
    <3>5. CASE t = topic
      <4>1. 1 \in Coming(queue, topic)
        BY <1>1 DEF Coming, event
      <4> QED BY <2>2, <3>4, <3>5, <4>1, QueueEnds DEF LastWord
    <3>6. CASE t # topic
      <4>1. t \in informed[s]
        BY <2>1, <2>4, <3>6
      <4> QED BY <2>2, <3>4, <4>1, HeardIsLast DEF LastWord, LastWordIsCurrent
    <3> QED BY <3>5, <3>6
  <2>5. CASE s \notin Audience(topic)
    <3>1. inbox'[s] = inbox[s]
      BY <2>5 DEF Dispatch, event
    <3>2. t \in informed[s] /\ t # topic
      BY <2>1, <2>5
    <3>3. Heard(s, t)' = LastOf(queue, t, before)
      BY <1>2, <2>3, <3>1, <3>2
    <3> QED BY <2>2, <3>2, <3>3, HeardIsLast DEF LastWord, LastWordIsCurrent
  <2> QED BY <2>4, <2>5
<1> QED BY <1>4, <1>5 DEF LastWord

(* A greeting or a farewell is no word on another topic. *)
LEMMA LinkKeepsLastWord ==
  ASSUME TypeOK, LastWord, NEW s \in Subscribers, NEW value \in Value,
         inbox' = inbox \/ inbox' = Sent(inbox, s, Link, value),
         UNCHANGED <<current, queue, running, view, informed>>
  PROVE  LastWord'
<1>1. QueueEndsCurrent'
  BY DEF LastWord, QueueEndsCurrent
<1>2. LastWordIsCurrent'
  <2> SUFFICES ASSUME NEW o \in Subscribers, NEW t \in informed[o], running[o]
               PROVE  Heard(o, t)' = current[t]
    BY DEF LastWordIsCurrent
  <2>1. t \in Topics /\ inbox[o] \in Seq(Message)
    BY DEF TypeOK
  <2>2. Heard(o, t)' = LastOf(queue, t, LastOf(inbox'[o], t, view[o][t]))
    BY DEF Heard, LastOf
  <2>3. LastOf(inbox'[o], t, view[o][t]) = LastOf(inbox[o], t, view[o][t])
    <3> DEFINE m == [topic |-> Link, value |-> value]
    <3>1. m \in Message /\ m.topic # t
      BY <2>1 DEF Message
    <3>2. inbox'[o] = inbox[o] \/ inbox'[o] = Append(inbox[o], m)
      BY DEF Sent, TypeOK
    <3> HIDE DEF m
    <3>3. LastOf(Append(inbox[o], m), t, view[o][t]) = LastOf(inbox[o], t, view[o][t])
      BY <2>1, <3>1, LastOfAppend
    <3> QED BY <3>2, <3>3
  <2> QED BY <2>1, <2>2, <2>3, HeardIsLast DEF LastWord, LastWordIsCurrent
<1> QED BY <1>1, <1>2 DEF LastWord

(* A message that is received is in the view what it was in the inbox. *)
LEMMA ReceiveKeepsLastWord ==
  ASSUME TypeOK, LastWord, NEW s \in Subscribers, Receive(s)
  PROVE  LastWord'
<1>1. UNCHANGED <<current, queue, running, informed>>
  BY DEF Receive, eventVars
<1>2. QueueEndsCurrent'
  BY <1>1 DEF LastWord, QueueEndsCurrent
<1>3. LastWordIsCurrent'
  <2> SUFFICES ASSUME NEW o \in Subscribers, NEW t \in informed[o], running[o]
               PROVE  Heard(o, t)' = current[t]
    BY <1>1 DEF LastWordIsCurrent
  <2>1. t \in Topics /\ inbox[o] \in Seq(Message)
    BY DEF TypeOK
  <2>2. Heard(o, t)' = LastOf(queue, t, LastOf(inbox'[o], t, view'[o][t]))
    BY <1>1 DEF Heard, LastOf
  <2>3. LastOf(inbox'[o], t, view'[o][t]) = LastOf(inbox[o], t, view[o][t])
    <3>1. CASE o # s
      <4>1. inbox'[o] = inbox[o] /\ view'[o] = view[o]
        BY <3>1 DEF Receive, TypeOK
      <4> QED BY <4>1
    <3>2. CASE o = s
      <4> DEFINE m == Head(inbox[s])
      <4>1. inbox[s] # <<>> /\ inbox'[s] = Tail(inbox[s])
        BY DEF Receive, TypeOK
      <4>2. view'[s][t] = IF m.topic = t THEN m.value ELSE view[s][t]
        <5>1. m \in Message
          BY <2>1, <3>2, <4>1, HeadTailProperties
        <5>2. m.topic \in Topics \cup {Link}
          BY <5>1 DEF Message
        <5> HIDE DEF m
        <5>3. view' = [view EXCEPT ![s][m.topic] = m.value]
          BY DEF Receive, m
        <5>4. view[s] \in [Topics \cup {Link} -> Value \cup {"none"}]
          BY DEF TypeOK
        <5>5. view'[s] = [view[s] EXCEPT ![m.topic] = m.value]
          BY <5>3 DEF TypeOK
        <5> QED BY <2>1, <5>2, <5>4, <5>5
      <4> QED BY <2>1, <3>2, <4>1, <4>2, LastOfTail
    <3> QED BY <3>1, <3>2
  <2> QED BY <2>1, <2>2, <2>3, HeardIsLast DEF LastWord, LastWordIsCurrent
<1> QED BY <1>2, <1>3 DEF LastWord

(* A running subscriber that was sent the last event on a topic ends up    *)
(* with what was announced last, for any queues and any calls between: at  *)
(* each place of its way the last word on a topic is the last announced.   *)
THEOREM LastWordReaches == Spec => []LastWordIsCurrent
<1>1. Init => LastWord
  <2> SUFFICES ASSUME Init PROVE LastWord
    OBVIOUS
  <2>1. DOMAIN queue = {} /\ \A s \in Subscribers : informed[s] = {}
    BY DEF Init
  <2> QED BY <2>1 DEF LastWord, QueueEndsCurrent, LastWordIsCurrent, Coming
<1>2. TypeOK /\ LastWord /\ [Next]_vars => LastWord'
  <2> SUFFICES ASSUME TypeOK, LastWord, [Next]_vars PROVE LastWord'
    OBVIOUS
  <2>1. CASE \E topic \in Topics, value \in Value : Post(topic, value)
    BY <2>1, PostKeepsLastWord
  <2>2. CASE Dispatch
    BY <2>2, DispatchKeepsLastWord
  <2>3. ASSUME NEW s \in Subscribers, AddSubscriberInner(s)
        PROVE  LastWord'
    <3>1. /\ "on" \in Value
          /\ inbox' = inbox \/ inbox' = Sent(inbox, s, Link, "on")
          /\ UNCHANGED <<current, queue, running, view, informed>>
      BY <2>3 DEF AddSubscriberInner, eventVars, Value
    <3> QED BY <3>1, LinkKeepsLastWord
  <2>4. ASSUME NEW s \in Subscribers, RemoveSubscriberInner(s)
        PROVE  LastWord'
    <3>1. /\ "off" \in Value
          /\ inbox' = inbox \/ inbox' = Sent(inbox, s, Link, "off")
          /\ UNCHANGED <<current, queue, running, view, informed>>
      BY <2>4 DEF RemoveSubscriberInner, eventVars, Value
    <3> QED BY <3>1, LinkKeepsLastWord
  <2>5. ASSUME NEW s \in Subscribers, Receive(s)
        PROVE  LastWord'
    BY <2>5, ReceiveKeepsLastWord
  <2>6. ASSUME NEW s \in Subscribers, Die(s)
        PROVE  LastWord'
    <3>1. /\ UNCHANGED <<current, queue, view, informed>>
          /\ \A o \in Subscribers : running'[o] => running[o] /\ inbox'[o] = inbox[o]
      BY <2>6 DEF Die, eventVars, TypeOK
    <3>2. QueueEndsCurrent'
      BY <3>1 DEF LastWord, QueueEndsCurrent
    <3>3. LastWordIsCurrent'
      BY <3>1 DEF LastWord, LastWordIsCurrent, Heard
    <3> QED BY <3>2, <3>3 DEF LastWord
  <2>7. ASSUME UNCHANGED <<current, queue, running, inbox, view, informed>>
        PROVE  LastWord'
    BY <2>7 DEF LastWord, QueueEndsCurrent, LastWordIsCurrent, Heard
  <2>8. ASSUME NEW s \in Subscribers,
               OnRemoteDied(s) \/ \E call \in Calls : Request(s, call)
        PROVE  LastWord'
    BY <2>7, <2>8 DEF OnRemoteDied, Request, eventVars, clientVars
  <2>9. CASE UNCHANGED vars
    BY <2>7, <2>9 DEF vars, eventVars, clientVars
  <2> QED
    BY <2>1, <2>2, <2>3, <2>4, <2>5, <2>6, <2>8, <2>9 DEF Next
<1> QED BY <1>1, <1>2, TypeCorrect, PTL DEF Spec, LastWord

----------------------------------------------------------------------------
(* The link                                                                *)

(* LinkBefore of any messages that follow a link there was before. *)
LinkAt(messages, before, i) ==
  LET earlier == {j \in Coming(messages, Link) : j < i}
  IN  IF earlier = {} THEN before
      ELSE messages[CHOOSE j \in earlier : \A k \in earlier : k <= j].value

LEMMA LinkBeforeIs ==
  \A s \in Subscribers : \A i : LinkBefore(s, i) = LinkAt(inbox[s], view[s][Link], i)
BY DEF LinkBefore, LinkAt

(* The link is that of the last earlier message that says one. *)
LEMMA LinkAtIs ==
  ASSUME NEW messages, NEW before, NEW i,
         Len(messages) \in Nat, DOMAIN messages = 1 .. Len(messages),
         NEW j \in Coming(messages, Link), j < i,
         \A k \in Coming(messages, Link) : k < i => k <= j
  PROVE  LinkAt(messages, before, i) = messages[j].value
<1> DEFINE earlier == {k \in Coming(messages, Link) : k < i}
           last == CHOOSE k \in earlier : \A l \in earlier : l <= k
<1>1. j \in earlier /\ \A k \in earlier : k <= j
  OBVIOUS
<1>2. last \in earlier /\ \A k \in earlier : k <= last
  BY <1>1
<1>3. last = j
  <2>1. last \in 1 .. Len(messages) /\ j \in 1 .. Len(messages)
    BY <1>2 DEF Coming
  <2>2. last <= j /\ j <= last
    BY <1>1, <1>2
  <2> HIDE DEF last
  <2> QED BY <2>1, <2>2
<1> QED BY <1>1, <1>3 DEF LinkAt

(* A message more does not change the links before it, and is the link     *)
(* after it if it says one.                                                *)
LEMMA LinkAtAppend ==
  ASSUME NEW S, NEW messages \in Seq(S), NEW m \in S, NEW before
  PROVE  /\ \A i \in 1 .. Len(messages) + 1 :
              LinkAt(Append(messages, m), before, i) = LinkAt(messages, before, i)
         /\ LinkAt(Append(messages, m), before, Len(messages) + 2)
              = IF m.topic = Link THEN m.value
                ELSE LinkAt(messages, before, Len(messages) + 1)
<1> DEFINE n == Len(messages)
           longer == Append(messages, m)
<1>1. /\ n \in Nat
      /\ DOMAIN messages = 1 .. n
      /\ longer \in Seq(S)
      /\ Len(longer) = n + 1
      /\ Len(longer) \in Nat
      /\ DOMAIN longer = 1 .. n + 1
      /\ \A i \in 1 .. n : longer[i] = messages[i]
      /\ longer[n + 1] = m
  BY AppendProperties, LenProperties
<1> HIDE DEF n, longer
<1>lens. /\ Len(messages) \in Nat /\ DOMAIN messages = 1 .. Len(messages)
        /\ Len(longer) \in Nat /\ DOMAIN longer = 1 .. Len(longer)
  BY <1>1 DEF n
<1>2. ASSUME NEW i, NEW h,
             {j \in Coming(longer, Link) : j < i} = {j \in Coming(messages, Link) : j < h}
      PROVE  LinkAt(longer, before, i) = LinkAt(messages, before, h)
  <2>1. CASE {j \in Coming(messages, Link) : j < h} = {}
    BY <1>2, <2>1 DEF LinkAt
  <2>2. CASE {j \in Coming(messages, Link) : j < h} # {}
    <3>1. PICK j \in {k \in Coming(messages, Link) : k < h} :
            \A k \in {l \in Coming(messages, Link) : l < h} : k <= j
      <4>1. {k \in Coming(messages, Link) : k < h} \in SUBSET (1 .. n)
        BY <1>1 DEF Coming
      <4> QED BY <1>1, <2>2, <4>1, LastExists
    <3>2. LinkAt(messages, before, h) = messages[j].value
      BY <1>lens, <3>1, LinkAtIs, Zenon
    <3>3. LinkAt(longer, before, i) = longer[j].value
      <4>1. /\ j \in Coming(longer, Link) /\ j < i
            /\ \A k \in Coming(longer, Link) : k < i => k <= j
        BY <1>2, <3>1
      <4> QED BY <1>lens, <4>1, LinkAtIs, Zenon
    <3>4. longer[j] = messages[j]
      BY <1>1, <3>1 DEF Coming
    <3> QED BY <3>2, <3>3, <3>4
  <2> QED BY <2>1, <2>2
<1>3. ASSUME NEW i \in 1 .. n + 1
      PROVE  LinkAt(longer, before, i) = LinkAt(messages, before, i)
  <2>1. \A j \in 1 .. n + 1 : j < i => j \in 1 .. n
    BY <1>1
  <2>2. {j \in Coming(longer, Link) : j < i} = {j \in Coming(messages, Link) : j < i}
    BY <1>1, <2>1 DEF Coming
  <2> QED BY <1>2, <2>2
<1>4. LinkAt(longer, before, n + 2)
        = IF m.topic = Link THEN m.value ELSE LinkAt(messages, before, n + 1)
  <2>1. CASE m.topic = Link
    <3>1. n + 1 \in Coming(longer, Link) /\ n + 1 < n + 2
      BY <1>1, <2>1 DEF Coming
    <3>2. \A k \in Coming(longer, Link) : k < n + 2 => k <= n + 1
      BY <1>1 DEF Coming
    <3>3. LinkAt(longer, before, n + 2) = longer[n + 1].value
      <4> DEFINE p == n + 1
                 h == n + 2
      <4>1. p \in Coming(longer, Link) /\ p < h
        BY <3>1
      <4>2. \A k \in Coming(longer, Link) : k < h => k <= p
        BY <3>2
      <4> HIDE DEF p, h
      <4>3. LinkAt(longer, before, h) = longer[p].value
        BY <1>lens, <4>1, <4>2, LinkAtIs, Zenon
      <4> QED BY <4>3 DEF p, h
    <3> QED BY <1>1, <2>1, <3>3
  <2>2. CASE m.topic # Link
    <3>1. \A j \in 1 .. n : j < n + 2 /\ j < n + 1
      BY <1>1
    <3>2. {j \in Coming(longer, Link) : j < n + 2}
            = {j \in Coming(messages, Link) : j < n + 1}
      BY <1>1, <2>2, <3>1 DEF Coming
    <3> QED BY <1>2, <2>2, <3>2
  <2> QED BY <2>1, <2>2
<1> QED BY <1>3, <1>4 DEF n, longer

(* The first message, once taken, is the link before if it says one. *)
LEMMA LinkAtTail ==
  ASSUME NEW S, NEW messages \in Seq(S), messages # <<>>, NEW before,
         NEW i \in 1 .. Len(messages)
  PROVE  LinkAt(Tail(messages),
                IF Head(messages).topic = Link THEN Head(messages).value ELSE before, i)
           = LinkAt(messages, before, i + 1)
<1> DEFINE n == Len(messages)
           rest == Tail(messages)
           first == IF Head(messages).topic = Link THEN Head(messages).value ELSE before
           late == {j \in Coming(rest, Link) : j < i}
<1>1. /\ n \in Nat \ {0}
      /\ DOMAIN messages = 1 .. n
      /\ Len(rest) = n - 1
      /\ Len(rest) \in Nat
      /\ DOMAIN rest = 1 .. n - 1
      /\ \A j \in 1 .. n - 1 : rest[j] = messages[j + 1]
      /\ Head(messages) = messages[1]
      /\ i \in 1 .. n
  BY LenProperties, HeadTailProperties
<1> HIDE DEF n, rest
<1>lens. /\ Len(messages) \in Nat /\ DOMAIN messages = 1 .. Len(messages)
        /\ Len(rest) \in Nat /\ DOMAIN rest = 1 .. Len(rest)
  BY <1>1 DEF n
<1>2. \A j \in 1 .. n - 1 : j \in Coming(rest, Link) <=> j + 1 \in Coming(messages, Link)
  BY <1>1 DEF Coming
<1>3. CASE late # {}
  <2>1. PICK j \in late : \A k \in late : k <= j
    <3>1. late \in SUBSET (1 .. Len(rest))
      BY <1>1 DEF Coming
    <3> QED BY <1>1, <1>3, <3>1, LastExists
  <2>2. j \in 1 .. n - 1 /\ j < i /\ j \in Coming(rest, Link)
    BY <1>1 DEF Coming
  <2>3. LinkAt(rest, first, i) = rest[j].value
    <3>1. \A k \in Coming(rest, Link) : k < i => k <= j
      BY <2>1
    <3>2. Len(rest) \in Nat /\ DOMAIN rest = 1 .. Len(rest)
      BY <1>1
    <3> HIDE DEF first, late
    <3> QED BY <2>2, <3>1, <3>2, LinkAtIs
  <2>4. j + 1 \in Coming(messages, Link) /\ j + 1 < i + 1
    BY <1>1, <1>2, <2>2
  <2>5. ASSUME NEW k \in Coming(messages, Link), k < i + 1
        PROVE  k <= j + 1
    <3>1. k \in 1 .. n
      BY <1>1 DEF Coming
    <3>2. CASE k = 1
      BY <2>2, <3>2
    <3>3. CASE k # 1
      <4> DEFINE l == k - 1
      <4>1. l \in 1 .. n - 1 /\ l + 1 = k /\ l < i
        BY <1>1, <2>5, <3>1, <3>3
      <4>2. l \in late
        BY <1>2, <4>1
      <4>3. l <= j
        BY <2>1, <4>2
      <4> QED BY <2>2, <3>1, <4>3
    <3> QED BY <3>2, <3>3
  <2>6. LinkAt(messages, before, i + 1) = messages[j + 1].value
    <3> DEFINE p == j + 1
               h == i + 1
    <3>1. p \in Coming(messages, Link) /\ p < h
      BY <2>4
    <3>2. \A k \in Coming(messages, Link) : k < h => k <= p
      BY <2>5
    <3> HIDE DEF p, h, first, late
    <3>3. LinkAt(messages, before, h) = messages[p].value
      BY <1>lens, <3>1, <3>2, LinkAtIs, Zenon
    <3> QED BY <3>3 DEF p, h
  <2> QED BY <1>1, <2>2, <2>3, <2>6 DEF rest
<1>4. CASE late = {}
  <2>1. LinkAt(rest, first, i) = first
    BY <1>4 DEF LinkAt
  <2>2. \A j \in Coming(messages, Link) : j < i + 1 => j = 1
    <3> SUFFICES ASSUME NEW j \in Coming(messages, Link), j < i + 1, j # 1
                 PROVE  FALSE
      OBVIOUS
    <3>1. j \in 1 .. n
      BY <1>1 DEF Coming
    <3>2. j - 1 \in 1 .. n - 1 /\ (j - 1) + 1 = j /\ j - 1 < i
      BY <1>1, <3>1
    <3> QED BY <1>2, <1>4, <3>2
  <2>3. CASE Head(messages).topic = Link
    <3>1. 1 \in Coming(messages, Link) /\ 1 < i + 1
      BY <1>1, <2>3 DEF Coming
    <3>2. \A j \in Coming(messages, Link) : j < i + 1 => j <= 1
      BY <2>2
    <3>3. LinkAt(messages, before, i + 1) = messages[1].value
      <4> DEFINE h == i + 1
      <4>1. 1 < h /\ \A k \in Coming(messages, Link) : k < h => k <= 1
        BY <3>1, <3>2
      <4> HIDE DEF h, first, late
      <4>2. LinkAt(messages, before, h) = messages[1].value
        BY <1>lens, <3>1, <4>1, LinkAtIs
      <4> QED BY <4>2 DEF h
    <3> QED BY <1>1, <2>1, <2>3, <3>3 DEF rest
  <2>4. CASE Head(messages).topic # Link
    <3>1. {j \in Coming(messages, Link) : j < i + 1} = {}
      BY <1>1, <2>2, <2>4 DEF Coming
    <3>2. LinkAt(messages, before, i + 1) = before
      BY <3>1 DEF LinkAt
    <3> QED BY <2>1, <2>4, <3>2 DEF rest
  <2> QED BY <2>3, <2>4
<1> QED BY <1>3, <1>4 DEF rest

(* Messages that keep to the link, from the one before them to the one     *)
(* after them.                                                             *)
InTurn(messages, before, on) ==
  /\ \A i \in DOMAIN messages :
       IF messages[i].topic = Link
       THEN (messages[i].value = "on") <=> (LinkAt(messages, before, i) # "on")
       ELSE LinkAt(messages, before, i) = "on"
  /\ (LinkAt(messages, before, Len(messages) + 1) = "on") <=> on

LEMMA LinkIsInTurn ==
  EventsWithinLink <=>
    \A s \in Subscribers :
      running[s] => InTurn(inbox[s], view[s][Link], HasRecord(s))
BY LinkBeforeIs DEF EventsWithinLink, InTurn

(* What is sent next keeps to the link if it changes it, or needs it.      *)
LEMMA InTurnAppend ==
  ASSUME NEW messages \in Seq(Message), NEW m \in Message, NEW before,
         NEW on \in BOOLEAN, InTurn(messages, before, on),
         m.topic = Link => ((m.value = "on") <=> ~on), m.topic # Link => on
  PROVE  InTurn(Append(messages, m), before,
                IF m.topic = Link THEN m.value = "on" ELSE on)
<1> DEFINE n == Len(messages)
           longer == Append(messages, m)
<1>1. /\ n \in Nat
      /\ DOMAIN messages = 1 .. n
      /\ DOMAIN longer = 1 .. n + 1
      /\ Len(longer) = n + 1
      /\ \A i \in 1 .. n : longer[i] = messages[i]
      /\ longer[n + 1] = m
  BY AppendProperties, LenProperties
<1>2. /\ \A i \in 1 .. n + 1 : LinkAt(longer, before, i) = LinkAt(messages, before, i)
      /\ LinkAt(longer, before, n + 2)
           = IF m.topic = Link THEN m.value ELSE LinkAt(messages, before, n + 1)
  BY LinkAtAppend
<1> HIDE DEF n, longer
<1>3. ASSUME NEW i \in 1 .. n + 1
      PROVE  IF longer[i].topic = Link
             THEN (longer[i].value = "on") <=> (LinkAt(longer, before, i) # "on")
             ELSE LinkAt(longer, before, i) = "on"
  <2>1. CASE i \in 1 .. n
    BY <1>1, <1>2, <2>1 DEF InTurn
  <2>2. CASE i = n + 1
    <3>1. (LinkAt(longer, before, n + 1) = "on") <=> on
      BY <1>1, <1>2 DEF InTurn, n
    <3> QED BY <1>1, <2>2, <3>1
  <2> QED BY <1>1, <2>1, <2>2
<1>4. (LinkAt(longer, before, n + 2) = "on")
        <=> IF m.topic = Link THEN m.value = "on" ELSE on
  BY <1>2 DEF InTurn, n
<1>5. Len(longer) + 1 = n + 2
  BY <1>1
<1> QED BY <1>1, <1>3, <1>4, <1>5 DEF InTurn, longer

(* What is taken first leaves messages that keep to the link it made.      *)
LEMMA InTurnTail ==
  ASSUME NEW messages \in Seq(Message), messages # <<>>, NEW before,
         NEW on \in BOOLEAN, InTurn(messages, before, on)
  PROVE  InTurn(Tail(messages),
                IF Head(messages).topic = Link THEN Head(messages).value ELSE before, on)
<1> DEFINE n == Len(messages)
           rest == Tail(messages)
           first == IF Head(messages).topic = Link THEN Head(messages).value ELSE before
<1>1. /\ n \in Nat \ {0}
      /\ DOMAIN messages = 1 .. n
      /\ Len(rest) = n - 1
      /\ DOMAIN rest = 1 .. n - 1
      /\ \A i \in 1 .. n - 1 : rest[i] = messages[i + 1]
  BY LenProperties, HeadTailProperties
<1>2. \A i \in 1 .. n : LinkAt(rest, first, i) = LinkAt(messages, before, i + 1)
  BY LinkAtTail
<1> HIDE DEF n, rest, first
<1>3. ASSUME NEW i \in 1 .. n - 1
      PROVE  IF rest[i].topic = Link
             THEN (rest[i].value = "on") <=> (LinkAt(rest, first, i) # "on")
             ELSE LinkAt(rest, first, i) = "on"
  <2>1. i \in 1 .. n /\ i + 1 \in 1 .. n
    BY <1>1
  <2> QED BY <1>1, <1>2, <2>1 DEF InTurn
<1>4. (LinkAt(rest, first, Len(rest) + 1) = "on") <=> on
  <2>1. Len(rest) + 1 = n /\ n \in 1 .. n
    BY <1>1
  <2> QED BY <1>2, <2>1 DEF InTurn, n
<1> QED BY <1>1, <1>3, <1>4 DEF InTurn, rest, first

LEMMA DispatchKeepsLink ==
  ASSUME TypeOK, EventsWithinLink, Dispatch
  PROVE  EventsWithinLink'
<1> DEFINE event == Head(queue)
<1>1. event \in Message /\ event.topic # Link
  <2>1. queue \in Seq(Event) /\ queue # <<>>
    BY DEF TypeOK, Dispatch
  <2>2. event \in Event
    BY <2>1, HeadTailProperties
  <2> QED BY <2>2 DEF Event, Message
<1>2. UNCHANGED <<running, view, subscriberRecordList>>
  BY DEF Dispatch
<1> SUFFICES ASSUME NEW s \in Subscribers, running[s]
             PROVE  InTurn(inbox'[s], view[s][Link], HasRecord(s))
  BY <1>2, LinkIsInTurn DEF EventsWithinLink, LinkBefore, InTurn, LinkAt, HasRecord
<1>3. InTurn(inbox[s], view[s][Link], HasRecord(s))
  BY LinkIsInTurn
<1>4. CASE s \in Audience(event.topic)
  <2>1. inbox'[s] = Append(inbox[s], event) /\ HasRecord(s)
    BY <1>4 DEF Dispatch, Audience
  <2>2. inbox[s] \in Seq(Message) /\ HasRecord(s) \in BOOLEAN
    BY DEF TypeOK, HasRecord
  <2> HIDE DEF event
  <2>3. InTurn(Append(inbox[s], event), view[s][Link],
               IF event.topic = Link THEN event.value = "on" ELSE HasRecord(s))
    BY <1>1, <1>3, <2>1, <2>2, InTurnAppend
  <2> QED BY <1>1, <2>1, <2>3
<1>5. CASE s \notin Audience(event.topic)
  BY <1>3, <1>5 DEF Dispatch
<1> QED BY <1>4, <1>5

(* A greeting is sent when a record comes and a farewell when it goes.     *)
LEMMA RecordChangeKeepsLink ==
  ASSUME TypeOK, EventsWithinLink, NEW s \in Subscribers,
         UNCHANGED <<running, view>>,
         \A o \in Subscribers \ {s} :
           subscriberRecordList'[o] = subscriberRecordList[o],
         \/ inbox' = inbox /\ (HasRecord(s)' <=> HasRecord(s))
         \/ ~HasRecord(s) /\ HasRecord(s)' /\ inbox' = Sent(inbox, s, Link, "on")
         \/ HasRecord(s) /\ ~HasRecord(s)' /\ inbox' = Sent(inbox, s, Link, "off")
  PROVE  EventsWithinLink'
<1> SUFFICES ASSUME NEW o \in Subscribers, running[o]
             PROVE  InTurn(inbox'[o], view[o][Link], HasRecord(o)')
  BY LinkIsInTurn DEF EventsWithinLink, LinkBefore, InTurn, LinkAt, HasRecord
<1>1. InTurn(inbox[o], view[o][Link], HasRecord(o)) /\ HasRecord(o) \in BOOLEAN
  BY LinkIsInTurn DEF HasRecord
<1>2. inbox[o] \in Seq(Message)
  BY DEF TypeOK
<1>3. CASE o # s
  <2>1. inbox'[o] = inbox[o] /\ (HasRecord(o)' <=> HasRecord(o))
    BY <1>3 DEF Sent, TypeOK, HasRecord
  <2> QED BY <1>1, <2>1 DEF InTurn
<1>4. CASE o = s /\ inbox' = inbox /\ (HasRecord(s)' <=> HasRecord(s))
  BY <1>1, <1>4 DEF InTurn
<1>5. ASSUME NEW value \in Value, o = s, inbox' = Sent(inbox, s, Link, value),
             (value = "on") <=> ~HasRecord(s), (value = "on") <=> HasRecord(s)'
      PROVE  InTurn(inbox'[o], view[o][Link], HasRecord(o)')
  <2> DEFINE m == [topic |-> Link, value |-> value]
  <2>1. m \in Message /\ m.topic = Link /\ m.value = value
    BY DEF Message
  <2>2. inbox'[o] = Append(inbox[o], m)
    BY <1>5 DEF Sent, TypeOK
  <2> HIDE DEF m
  <2>3. InTurn(inbox'[o], view[o][Link], m.value = "on")
    BY <1>1, <1>2, <1>5, <2>1, <2>2, InTurnAppend
  <2> QED BY <1>5, <2>1, <2>3 DEF InTurn
<1>6. {"on", "off"} = Value
  BY DEF Value
<1> QED BY <1>3, <1>4, <1>5, <1>6

LEMMA ReceiveKeepsLink ==
  ASSUME TypeOK, EventsWithinLink, NEW s \in Subscribers, Receive(s)
  PROVE  EventsWithinLink'
<1>1. UNCHANGED <<running, subscriberRecordList>>
  BY DEF Receive
<1> SUFFICES ASSUME NEW o \in Subscribers, running[o]
             PROVE  InTurn(inbox'[o], view'[o][Link], HasRecord(o))
  BY <1>1, LinkIsInTurn DEF EventsWithinLink, LinkBefore, InTurn, LinkAt, HasRecord
<1>2. InTurn(inbox[o], view[o][Link], HasRecord(o)) /\ HasRecord(o) \in BOOLEAN
  BY LinkIsInTurn DEF HasRecord
<1>3. CASE o # s
  <2>1. inbox'[o] = inbox[o] /\ view'[o] = view[o]
    BY <1>3 DEF Receive, TypeOK
  <2> QED BY <1>2, <2>1
<1>4. CASE o = s
  <2> DEFINE m == Head(inbox[s])
  <2>1. /\ inbox[s] \in Seq(Message)
        /\ inbox[s] # <<>>
        /\ inbox'[s] = Tail(inbox[s])
    BY DEF Receive, TypeOK
  <2>2. m.topic \in Topics \cup {Link}
    <3>1. m \in Message
      BY <2>1, HeadTailProperties
    <3> QED BY <3>1 DEF Message
  <2>3. view'[s][Link] = IF m.topic = Link THEN m.value ELSE view[s][Link]
    <3> HIDE DEF m
    <3>1. view' = [view EXCEPT ![s][m.topic] = m.value]
      BY DEF Receive, m
    <3>2. view[s] \in [Topics \cup {Link} -> Value \cup {"none"}]
      BY DEF TypeOK
    <3>3. view'[s] = [view[s] EXCEPT ![m.topic] = m.value]
      BY <3>1 DEF TypeOK
    <3> QED BY <2>2, <3>2, <3>3
  <2> QED BY <1>2, <1>4, <2>1, <2>3, InTurnTail
<1> QED BY <1>3, <1>4

(* Nothing is asked of the link of a subscriber that does not run.         *)
LEMMA DyingKeepsLink ==
  ASSUME EventsWithinLink, view' = view,
         \A o \in Subscribers : running'[o] =>
           /\ running[o]
           /\ inbox'[o] = inbox[o]
           /\ subscriberRecordList'[o] = subscriberRecordList[o]
  PROVE  EventsWithinLink'
<1> SUFFICES ASSUME NEW o \in Subscribers, running'[o]
             PROVE  InTurn(inbox'[o], view'[o][Link], HasRecord(o)')
  BY LinkIsInTurn DEF EventsWithinLink, LinkBefore, InTurn, LinkAt, HasRecord
<1>1. InTurn(inbox[o], view[o][Link], HasRecord(o))
  BY LinkIsInTurn
<1>2. inbox'[o] = inbox[o] /\ view'[o] = view[o] /\ HasRecord(o)' = HasRecord(o)
  BY DEF HasRecord
<1> QED BY <1>1, <1>2

(* A running subscriber hears OnConnected and OnDisconnected in turn, all  *)
(* else between the two, and last that it is connected just when there is  *)
(* a record of it, for any inboxes and whatever overtakes the events.      *)
THEOREM LinkIsKept == Spec => []EventsWithinLink
<1>1. Init => EventsWithinLink
  <2> SUFFICES ASSUME Init, NEW s \in Subscribers
               PROVE  InTurn(inbox[s], view[s][Link], HasRecord(s))
    BY LinkIsInTurn
  <2>1. inbox[s] = <<>> /\ view[s][Link] = "none" /\ ~HasRecord(s)
    BY DEF Init, HasRecord
  <2>2. LinkAt(<<>>, "none", 1) = "none" /\ Len(<<>>) + 1 = 1 /\ DOMAIN <<>> = {}
    BY DEF LinkAt, Coming
  <2> QED BY <2>1, <2>2 DEF InTurn
<1>2. TypeOK /\ EventsWithinLink /\ [Next]_vars => EventsWithinLink'
  <2> SUFFICES ASSUME TypeOK, EventsWithinLink, [Next]_vars
               PROVE  EventsWithinLink'
    OBVIOUS
  <2>1. CASE Dispatch
    BY <2>1, DispatchKeepsLink
  <2>2. ASSUME NEW s \in Subscribers, AddSubscriberInner(s)
        PROVE  EventsWithinLink'
    <3>1. subscriberRecordList'[s] \in Record
      <4>1. pending[s] \in Calls
        BY <2>2 DEF AddSubscriberInner, TypeOK, NoCall
      <4>2. pending[s].names \in SUBSET Bundles
        BY <4>1 DEF Call
      <4>3. UserOf[s] \in UserIds
        OBVIOUS
      <4>4. subscriberRecordList'[s]
              = AddRecordInfo(subscriberRecordList[s], pending[s].names, UserOf[s])
        BY <2>2 DEF AddSubscriberInner, TypeOK, SubscribedUser
      <4> QED BY <4>2, <4>3, <4>4, RecordAdded
    <3>2. HasRecord(s)'
      BY <3>1, RecordIsNotNone DEF HasRecord
    <3>3. /\ UNCHANGED <<running, view>>
          /\ \A o \in Subscribers \ {s} :
               subscriberRecordList'[o] = subscriberRecordList[o]
          /\ \/ HasRecord(s) /\ inbox' = inbox
             \/ ~HasRecord(s) /\ inbox' = Sent(inbox, s, Link, "on")
      BY <2>2 DEF AddSubscriberInner, TypeOK
    <3> QED BY <3>2, <3>3, RecordChangeKeepsLink
  <2>3. ASSUME NEW s \in Subscribers, RemoveSubscriberInner(s)
        PROVE  EventsWithinLink'
    <3> DEFINE left == RemoveRecordInfo(subscriberRecordList[s], pending[s])
    <3>1. /\ UNCHANGED <<running, view>>
          /\ \A o \in Subscribers \ {s} :
               subscriberRecordList'[o] = subscriberRecordList[o]
      BY <2>3 DEF RemoveSubscriberInner, TypeOK
    <3>2. CASE HasRecord(s) /\ ~FollowsNone(left) /\ inbox' = inbox
               /\ subscriberRecordList' = [subscriberRecordList EXCEPT ![s] = left]
      <4>1. left # NoRecord
        BY <3>2 DEF NoRecord, FollowsNone
      <4>2. HasRecord(s)'
        BY <3>2, <4>1 DEF HasRecord, TypeOK
      <4> QED BY <3>1, <3>2, <4>2, RecordChangeKeepsLink
    <3>3. CASE HasRecord(s) /\ inbox' = Sent(inbox, s, Link, "off")
               /\ subscriberRecordList' = [subscriberRecordList EXCEPT ![s] = NoRecord]
      <4>1. ~HasRecord(s)'
        BY <3>3 DEF HasRecord, TypeOK
      <4> QED BY <3>1, <3>3, <4>1, RecordChangeKeepsLink
    <3>4. CASE UNCHANGED <<subscriberRecordList, inbox>>
      <4>1. HasRecord(s)' <=> HasRecord(s)
        BY <3>4 DEF HasRecord
      <4> QED BY <3>1, <3>4, <4>1, RecordChangeKeepsLink
    <3> QED BY <2>3, <3>2, <3>3, <3>4 DEF RemoveSubscriberInner
  <2>4. ASSUME NEW s \in Subscribers, Receive(s)
        PROVE  EventsWithinLink'
    BY <2>4, ReceiveKeepsLink
  <2>5. ASSUME NEW s \in Subscribers, Die(s) \/ OnRemoteDied(s)
        PROVE  EventsWithinLink'
    <3>1. /\ view' = view
          /\ \A o \in Subscribers : running'[o] =>
               /\ running[o]
               /\ inbox'[o] = inbox[o]
               /\ subscriberRecordList'[o] = subscriberRecordList[o]
      BY <2>5 DEF Die, OnRemoteDied, clientVars, TypeOK
    <3> QED BY <3>1, DyingKeepsLink
  <2>6. ASSUME UNCHANGED <<running, inbox, view, subscriberRecordList>>
        PROVE  EventsWithinLink'
    BY <2>6, DyingKeepsLink
  <2>7. CASE \E topic \in Topics, value \in Value : Post(topic, value)
    BY <2>6, <2>7 DEF Post, clientVars
  <2>8. ASSUME NEW s \in Subscribers, \E call \in Calls : Request(s, call)
        PROVE  EventsWithinLink'
    BY <2>6, <2>8 DEF Request, clientVars
  <2>9. CASE UNCHANGED vars
    BY <2>6, <2>9 DEF vars, clientVars
  <2> QED
    BY <2>1, <2>2, <2>3, <2>4, <2>5, <2>7, <2>8, <2>9 DEF Next
<1> QED BY <1>1, <1>2, TypeCorrect, PTL DEF Spec

=============================================================================
