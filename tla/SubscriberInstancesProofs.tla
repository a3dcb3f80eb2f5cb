----------------------- MODULE SubscriberInstancesProofs -----------------------
(* Theorems about SubscriberInstances, for any objects with any callbacks, any *)
(* number of instances, calls and events and a pool of any size: an event is   *)
(* heard once and as it was posted, and an instance is unsubscribed by one     *)
(* call at a time. Both say that something is in one place at a time on its    *)
(* way from the service to the event loop: an event, which has a number, and   *)
(* the end of an instance.                                                     *)
EXTENDS SubscriberInstances, SequenceTheorems, FiniteSetTheorems, TLAPS

Names ==
  {"OnConnected", "OnDisconnected", "OnConsumed", "OnCanceled", "OnUpdated",
   "OnDoNotDisturbDateChange", "OnEnabledNotificationChanged"}

Callbacks ==
  {"onCancel", "onConsume", "onUpdate", "onConnect", "onDisconnect", "onDestroy",
   "onDoNotDisturbDateChange", "onEnabledNotificationChanged"}

(* A message, and an event, of a cancellation gives a reason.                  *)
Messages ==
  {m \in [name : Names, n : Nat, reason : Reasons \cup {NoReason}] :
     m.name = "OnCanceled" => m.reason \in Reasons}

Events ==
  {e \in [callback : Callbacks, n : Nat, reason : Reasons \cup {NoReason}] :
     e.callback = "onCancel" => e.reason \in Reasons}

Works ==
  [what : {"subscribe", "unsubscribe"}, id : Nat, event : {<<>>}, marked : BOOLEAN]
  \cup [what : {"event"}, id : Nat, event : Events, marked : {FALSE}]

Tellings == [id : Nat, event : Events]

(* Work for an instance that was made, and events it has a callback for.       *)
KnownWorks ==
  {w \in Works : w.id \in Ids /\ (w.what = "event" => Has(w.id, w.event.callback))}

KnownTellings == {t \in Tellings : t.id \in Ids /\ Has(t.id, t.event.callback)}

TypeOK ==
  /\ instances \in Seq(Objects) /\ Len(instances) <= MaxInstances
  /\ listed \in [Objects -> 0 .. Len(instances)]
  /\ deleting \subseteq Ids
  /\ link \in [1 .. MaxInstances -> Seq(Messages)]
  /\ pool \in Seq(KnownWorks)
  /\ ready \in Seq(KnownWorks)
  /\ heard \in Seq(KnownTellings)
  /\ posts \in Nat

----------------------------------------------------------------------------
(* Things in sequences that have a number, 0 for none.                         *)

Numbers(q, f) == {f[q[i]] : i \in DOMAIN q} \ {0}

Distinct(q, f) ==
  \A i, j \in DOMAIN q : i # j /\ f[q[i]] # 0 => f[q[i]] # f[q[j]]

MessageNumber == [m \in Messages |-> m.n]
WorkNumber == [w \in Works |-> IF w.what = "event" THEN w.event.n ELSE 0]
TellingNumber == [t \in Tellings |-> t.event.n]

(* An event is in one place.                                                   *)
InOnePlace ==
  /\ \A id \in DOMAIN link :
       /\ Distinct(link[id], MessageNumber)
       /\ Numbers(link[id], MessageNumber) \subseteq 1 .. posts
       /\ \A other \in DOMAIN link \ {id} :
            Numbers(link[id], MessageNumber) \cap Numbers(link[other], MessageNumber) = {}
       /\ Numbers(link[id], MessageNumber) \cap Numbers(pool, WorkNumber) = {}
       /\ Numbers(link[id], MessageNumber) \cap Numbers(ready, WorkNumber) = {}
       /\ Numbers(link[id], MessageNumber) \cap Numbers(heard, TellingNumber) = {}
  /\ Distinct(pool, WorkNumber) /\ Numbers(pool, WorkNumber) \subseteq 1 .. posts
  /\ Distinct(ready, WorkNumber) /\ Numbers(ready, WorkNumber) \subseteq 1 .. posts
  /\ Distinct(heard, TellingNumber) /\ Numbers(heard, TellingNumber) \subseteq 1 .. posts
  /\ Numbers(pool, WorkNumber) \cap Numbers(ready, WorkNumber) = {}
  /\ Numbers(pool, WorkNumber) \cap Numbers(heard, TellingNumber) = {}
  /\ Numbers(ready, WorkNumber) \cap Numbers(heard, TellingNumber) = {}

----------------------------------------------------------------------------
(* The end of an instance, in the message that it is disconnected, in the work *)
(* that unsubscribes it or tells it, and in what the loop is to tell it.       *)

EndMessage == [m \in Messages |-> IF m.name = "OnDisconnected" THEN 1 ELSE 0]

EndTold ==
  [w \in Works |-> IF w.what = "event" /\ w.event.callback = "onDisconnect" THEN w.id ELSE 0]

EndWork ==
  [w \in Works |-> IF w.what = "unsubscribe" /\ w.marked THEN w.id ELSE EndTold[w]]

Ending(id) ==
  Numbers(link[id], EndMessage) # {} \/ id \in Numbers(pool, EndWork)
  \/ id \in Numbers(ready, EndTold)

(* It is in one place, and then the instance is marked; the mark does not stay *)
(* when the end has come, unless the object does not hear of it.               *)
OneEnd ==
  /\ Distinct(pool, EndWork) /\ Distinct(ready, EndTold)
  /\ Numbers(pool, EndWork) \cap Numbers(ready, EndTold) = {}
  /\ \A id \in DOMAIN link :
       /\ Distinct(link[id], EndMessage)
       /\ Numbers(link[id], EndMessage) # {} =>
            id \notin Numbers(pool, EndWork) \cup Numbers(ready, EndTold)
       /\ Ending(id) => id \in deleting
       /\ id \in deleting => Ending(id) \/ ~Has(id, "onDisconnect")
  /\ \A id \in Ids : listed[instances[id]] = id \/ id \in deleted

----------------------------------------------------------------------------
(* What an append, a removal and a change of one element do to the numbers.    *)

LEMMA NumbersOfNone ==
  ASSUME NEW f
  PROVE  Numbers(<<>>, f) = {} /\ Distinct(<<>>, f)
  BY DEF Numbers, Distinct

LEMMA AppendNumbers ==
  ASSUME NEW T, NEW f, NEW q \in Seq(T), NEW e \in T
  PROVE  /\ Append(q, e) \in Seq(T)
         /\ Numbers(Append(q, e), f) = Numbers(q, f) \cup ({f[e]} \ {0})
         /\ Distinct(q, f) /\ f[e] \notin Numbers(q, f) => Distinct(Append(q, e), f)
<1> DEFINE r == Append(q, e)
<1>1. /\ r \in Seq(T) /\ Len(q) \in Nat /\ DOMAIN q = 1 .. Len(q)
      /\ DOMAIN r = 1 .. Len(q) + 1
      /\ \A i \in 1 .. Len(q) : r[i] = q[i]
      /\ r[Len(q) + 1] = e
  BY AppendProperties, LenProperties
<1> HIDE DEF r
<1>2. 1 .. Len(q) + 1 = (1 .. Len(q)) \cup {Len(q) + 1}
  BY <1>1
<1>3. Numbers(r, f) = Numbers(q, f) \cup ({f[e]} \ {0})
  BY <1>1, <1>2 DEF Numbers
<1>4. ASSUME Distinct(q, f), f[e] \notin Numbers(q, f),
             NEW i \in DOMAIN r, NEW j \in DOMAIN r, i # j, f[r[i]] # 0
      PROVE  f[r[i]] # f[r[j]]
  <2>1. CASE i \in DOMAIN q /\ j \in DOMAIN q
    BY <1>1, <1>4, <2>1 DEF Distinct
  <2>2. CASE i = Len(q) + 1 /\ j \in DOMAIN q
    <3>1. r[i] = e /\ r[j] = q[j]
      BY <1>1, <2>2
    <3> QED BY <1>4, <2>2, <3>1 DEF Numbers
  <2>3. CASE i \in DOMAIN q /\ j = Len(q) + 1
    <3>1. r[j] = e /\ r[i] = q[i]
      BY <1>1, <2>3
    <3> QED BY <1>4, <2>3, <3>1 DEF Numbers
  <2> QED BY <1>1, <1>2, <1>4, <2>1, <2>2, <2>3
<1>5. Distinct(q, f) /\ f[e] \notin Numbers(q, f) => Distinct(r, f)
  BY <1>4 DEF Distinct
<1> QED BY <1>1, <1>3, <1>5 DEF r

(* Of numbers that differ, taking the i-th out takes out its number only.      *)
LEMMA RemovedNumbers ==
  ASSUME NEW T, NEW f, NEW q \in Seq(T), NEW i \in DOMAIN q
  PROVE  LET r == RemoveAt(q, i)
         IN  /\ r \in Seq(T)
             /\ Numbers(r, f) \subseteq Numbers(q, f)
             /\ Numbers(q, f) \subseteq Numbers(r, f) \cup {f[q[i]]}
             /\ Distinct(q, f) => Distinct(r, f) /\ f[q[i]] \notin Numbers(r, f)
<1> DEFINE r == RemoveAt(q, i)
           left == SubSeq(q, 1, i - 1)
           right == SubSeq(q, i + 1, Len(q))
           At(k) == IF k < i THEN k ELSE k + 1
<1>1. /\ Len(q) \in Nat /\ DOMAIN q = 1 .. Len(q) /\ i \in 1 .. Len(q)
      /\ \A k \in 1 .. Len(q) : q[k] \in T
  BY LenProperties, ElementOfSeq
<1>2. /\ left \in Seq(T) /\ Len(left) = i - 1
      /\ \A k \in 1 .. i - 1 : left[k] = q[k]
  <2>1. /\ SubSeq(q, 1, i - 1) \in Seq(T)
        /\ Len(SubSeq(q, 1, i - 1)) = IF 1 <= i - 1 THEN i - 1 - 1 + 1 ELSE 0
        /\ \A k \in 1 .. i - 1 - 1 + 1 : SubSeq(q, 1, i - 1)[k] = q[1 + k - 1]
    <3>1. i - 1 \in Int /\ 1 \in Int /\ \A k \in 1 .. i - 1 : q[k] \in T
      BY <1>1
    <3> QED BY <3>1, SubSeqProperties
  <2> QED BY <1>1, <2>1
<1>3. /\ right \in Seq(T) /\ Len(right) = Len(q) - i
      /\ \A k \in 1 .. Len(q) - i : right[k] = q[i + k]
  <2>1. /\ SubSeq(q, i + 1, Len(q)) \in Seq(T)
        /\ Len(SubSeq(q, i + 1, Len(q))) = IF i + 1 <= Len(q) THEN Len(q) - (i + 1) + 1 ELSE 0
        /\ \A k \in 1 .. Len(q) - (i + 1) + 1 : SubSeq(q, i + 1, Len(q))[k] = q[i + 1 + k - 1]
    <3>1. i + 1 \in Int /\ Len(q) \in Int /\ \A k \in i + 1 .. Len(q) : q[k] \in T
      BY <1>1
    <3> QED BY <3>1, SubSeqProperties
  <2>2. \A k \in 1 .. Len(q) - i : i + 1 + k - 1 = i + k
    BY <1>1
  <2> QED BY <1>1, <2>1, <2>2
<1>4. r = left \o right
  BY DEF RemoveAt
<1> HIDE DEF left, right, r
<1>5. /\ r \in Seq(T) /\ Len(r) = Len(q) - 1
      /\ \A k \in 1 .. Len(q) - 1 : r[k] = q[At(k)]
  <2>1. /\ r \in Seq(T) /\ Len(r) = Len(left) + Len(right)
        /\ \A k \in 1 .. Len(left) + Len(right) :
             r[k] = IF k <= Len(left) THEN left[k] ELSE right[k - Len(left)]
    BY <1>2, <1>3, <1>4, ConcatProperties
  <2>2. Len(left) + Len(right) = Len(q) - 1
    BY <1>1, <1>2, <1>3
  <2>3. ASSUME NEW k \in 1 .. Len(q) - 1 PROVE r[k] = q[At(k)]
    <3>1. CASE k < i
      <4>1. k <= Len(left) /\ k \in 1 .. i - 1
        BY <1>1, <1>2, <3>1
      <4> QED BY <1>2, <2>1, <2>2, <3>1, <4>1
    <3>2. CASE ~(k < i)
      <4>1. ~(k <= Len(left)) /\ k - Len(left) \in 1 .. Len(q) - i /\ i + (k - Len(left)) = k + 1
        BY <1>1, <1>2, <3>2
      <4> QED BY <1>3, <2>1, <2>2, <3>2, <4>1
    <3> QED BY <3>1, <3>2
  <2> QED BY <2>1, <2>2, <2>3
<1>6. DOMAIN r = 1 .. Len(q) - 1
  BY <1>5, LenProperties
<1>7. \A k \in DOMAIN r : At(k) \in DOMAIN q /\ At(k) # i
  BY <1>1, <1>6
<1>8. \A k, m \in DOMAIN r : k # m => At(k) # At(m)
  BY <1>1, <1>6
<1>9. \A k \in DOMAIN q \ {i} : \E m \in DOMAIN r : At(m) = k
  <2> SUFFICES ASSUME NEW k \in DOMAIN q \ {i} PROVE \E m \in DOMAIN r : At(m) = k
    OBVIOUS
  <2>1. CASE k < i
    <3>1. k \in DOMAIN r /\ At(k) = k
      BY <1>1, <1>6, <2>1
    <3> QED BY <3>1
  <2>2. CASE k > i
    <3>1. k - 1 \in DOMAIN r /\ At(k - 1) = k
      BY <1>1, <1>6, <2>2
    <3> QED BY <3>1
  <2> QED BY <1>1, <2>1, <2>2
<1>10. \A k \in DOMAIN r : r[k] = q[At(k)]
  BY <1>5, <1>6
<1> HIDE DEF At
<1>11. Numbers(r, f) \subseteq Numbers(q, f)
  BY <1>7, <1>10 DEF Numbers
<1>12. Numbers(q, f) \subseteq Numbers(r, f) \cup {f[q[i]]}
  <2> SUFFICES ASSUME NEW k \in DOMAIN q, f[q[k]] # 0, k # i
               PROVE  \E m \in DOMAIN r : f[r[m]] = f[q[k]]
    BY DEF Numbers
  <2> QED BY <1>9, <1>10
<1>13. ASSUME Distinct(q, f)
       PROVE  Distinct(r, f) /\ f[q[i]] \notin Numbers(r, f)
  BY <1>7, <1>8, <1>10, <1>13 DEF Numbers, Distinct
<1> QED BY <1>5, <1>11, <1>12, <1>13 DEF r

LEMMA TailNumbers ==
  ASSUME NEW T, NEW f, NEW q \in Seq(T), q # <<>>
  PROVE  /\ Tail(q) \in Seq(T) /\ Head(q) \in T
         /\ Numbers(Tail(q), f) \subseteq Numbers(q, f)
         /\ Numbers(q, f) \subseteq Numbers(Tail(q), f) \cup {f[Head(q)]}
         /\ f[Head(q)] # 0 => f[Head(q)] \in Numbers(q, f)
         /\ Distinct(q, f) => Distinct(Tail(q), f) /\ f[Head(q)] \notin Numbers(Tail(q), f)
<1> DEFINE r == Tail(q)
<1>1. /\ Len(q) \in Nat /\ DOMAIN q = 1 .. Len(q) /\ 1 \in DOMAIN q
      /\ Head(q) = q[1] /\ Head(q) \in T
      /\ r \in Seq(T) /\ DOMAIN r = 1 .. Len(q) - 1
      /\ \A i \in 1 .. Len(q) - 1 : r[i] = q[i + 1]
  BY HeadTailProperties, LenProperties, EmptySeq
<1> HIDE DEF r
<1>2. \A i \in DOMAIN r : i + 1 \in DOMAIN q /\ i + 1 # 1 /\ r[i] = q[i + 1]
  BY <1>1
<1>3. \A i \in DOMAIN q \ {1} : i - 1 \in DOMAIN r /\ r[i - 1] = q[i]
  BY <1>1
<1>4. Numbers(r, f) \subseteq Numbers(q, f)
  BY <1>2 DEF Numbers
<1>5. Numbers(q, f) \subseteq Numbers(r, f) \cup {f[q[1]]}
  BY <1>3 DEF Numbers
<1>6. \A i, j \in DOMAIN r : i # j => i + 1 # j + 1
  BY <1>1
<1>7. ASSUME Distinct(q, f)
      PROVE  Distinct(r, f) /\ f[q[1]] \notin Numbers(r, f)
  BY <1>1, <1>2, <1>6, <1>7 DEF Numbers, Distinct
<1>8. f[q[1]] # 0 => f[q[1]] \in Numbers(q, f)
  BY <1>1 DEF Numbers
<1> QED BY <1>1, <1>4, <1>5, <1>7, <1>8 DEF r

(* An element without a number gets one.                                       *)
LEMMA ChangedNumbers ==
  ASSUME NEW T, NEW f, NEW q \in Seq(T), NEW i \in DOMAIN q, NEW e \in T, f[q[i]] = 0
  PROVE  LET r == [q EXCEPT ![i] = e]
         IN  /\ r \in Seq(T)
             /\ Numbers(r, f) = Numbers(q, f) \cup ({f[e]} \ {0})
             /\ Distinct(q, f) /\ f[e] \notin Numbers(q, f) => Distinct(r, f)
<1> DEFINE r == [q EXCEPT ![i] = e]
<1>1. /\ r \in Seq(T) /\ DOMAIN r = DOMAIN q
      /\ r[i] = e /\ \A j \in DOMAIN q \ {i} : r[j] = q[j]
  <2>1. DOMAIN q = 1 .. Len(q)
    BY LenProperties
  <2> QED BY <2>1, ExceptSeq
<1> HIDE DEF r
<1>2. Numbers(r, f) = Numbers(q, f) \cup ({f[e]} \ {0})
  BY <1>1 DEF Numbers
<1>3. ASSUME Distinct(q, f), f[e] \notin Numbers(q, f),
             NEW j \in DOMAIN r, NEW k \in DOMAIN r, j # k, f[r[j]] # 0
      PROVE  f[r[j]] # f[r[k]]
  BY <1>1, <1>3 DEF Numbers, Distinct
<1>4. Distinct(q, f) /\ f[e] \notin Numbers(q, f) => Distinct(r, f)
  BY <1>3 DEF Distinct
<1> QED BY <1>1, <1>2, <1>4 DEF r

LEMMA ElementNumber ==
  ASSUME NEW f, NEW q, NEW i \in DOMAIN q, f[q[i]] # 0
  PROVE  f[q[i]] \in Numbers(q, f)
  BY DEF Numbers

----------------------------------------------------------------------------
(* What a message becomes.                                                     *)

ValueOf(m) ==
  LET items == AnsSubscriberProxy[m.name]
  IN  [n \in {items[i].name : i \in DOMAIN items} |-> IF n = "reason" THEN m.reason ELSE n]

ParcelOf(m) == Written(AnsSubscriberProxy[m.name], ValueOf(m))

EventOf(m) ==
  LET impl == SubscriberImpl[m.name]
      got == ReadValue(ParcelOf(m), AnsSubscriberStub[m.name])
  IN  [callback |-> impl.callback, n |-> m.n,
       reason |-> IF "reason" \in impl.tells THEN got["reason"] ELSE NoReason]

(* The proxy and the stub agree on where the reason is and what it is.         *)
LEMMA ReasonArrives ==
  ASSUME NEW m \in Messages, m.name = "OnCanceled"
  PROVE  ReadValue(ParcelOf(m), AnsSubscriberStub[m.name])["reason"] = m.reason
<1> DEFINE items == AnsSubscriberProxy["OnCanceled"]
           wanted == AnsSubscriberStub["OnCanceled"]
<1>1. items = <<Ref("notification"), OptObj("map"), I32("reason")>>
  BY DEF AnsSubscriberProxy
<1>2. wanted = <<Obj("notification"), OptObj("map"), I32("reason")>>
  BY DEF AnsSubscriberStub
<1>3. /\ DOMAIN items = 1 .. 3 /\ items[3] = I32("reason")
      /\ DOMAIN wanted = 1 .. 3 /\ wanted[3] = I32("reason")
      /\ wanted[1].name = "notification" /\ wanted[2].name = "map" /\ wanted[3].name = "reason"
      /\ items[3].name = "reason" /\ items[3].type = "int32" /\ wanted[3].type = "int32"
  BY <1>1, <1>2 DEF Ref, Obj, OptObj, I32, Item
<1> HIDE DEF items, wanted
<1>4. (CHOOSE j \in DOMAIN wanted : wanted[j].name = "reason") = 3
  <2>1. \A j \in DOMAIN wanted : wanted[j].name = "reason" <=> j = 3
    BY <1>3
  <2> QED BY <1>3, <2>1
<1>5. ValueOf(m)["reason"] = m.reason
  <2>1. "reason" \in {items[i].name : i \in DOMAIN items}
    BY <1>3
  <2> QED BY <2>1 DEF ValueOf, items
<1>6. ParcelOf(m)[3] = [type |-> "int32", value |-> m.reason]
  BY <1>3, <1>5 DEF ParcelOf, Written, items
<1>7. ReadValue(ParcelOf(m), wanted)["reason"]
        = LET i == CHOOSE j \in DOMAIN wanted : wanted[j].name = "reason"
          IN  IF ParcelOf(m)[i].type = wanted[i].type THEN ParcelOf(m)[i].value ELSE "garbled"
  <2>1. "reason" \in {wanted[i].name : i \in DOMAIN wanted}
    BY <1>3
  <2> QED BY <2>1 DEF ReadValue
<1>8. ReadValue(ParcelOf(m), wanted)["reason"] = m.reason
  BY <1>3, <1>4, <1>6, <1>7
<1> QED BY <1>8 DEF wanted

LEMMA EventShape ==
  ASSUME NEW c \in Callbacks, NEW n \in Nat, NEW r \in Reasons \cup {NoReason}
  PROVE  [callback |-> c, n |-> n, reason |-> r]
           \in [callback : Callbacks, n : Nat, reason : Reasons \cup {NoReason}]
  OBVIOUS

(* An event has the number of its message, the reason of a cancellation, and   *)
(* tells the disconnection if the message does.                                *)
LEMMA MessageIsTold ==
  ASSUME NEW m \in Messages
  PROVE  /\ EventOf(m) \in Events
         /\ EventOf(m).n = m.n
         /\ EventOf(m).callback = SubscriberImpl[m.name].callback
         /\ EventOf(m).callback = "onDisconnect" <=> m.name = "OnDisconnected"
<1>1. /\ m.name \in Names /\ m.n \in Nat /\ m.reason \in Reasons \cup {NoReason}
      /\ m.name = "OnCanceled" => m.reason \in Reasons
  BY DEF Messages
<1>2. /\ SubscriberImpl["OnConnected"] = QueueOnConnected
      /\ SubscriberImpl["OnDisconnected"] = QueueOnDisconnected
      /\ SubscriberImpl["OnConsumed"] = QueueOnConsumed
      /\ SubscriberImpl["OnCanceled"] = QueueOnCanceled
      /\ SubscriberImpl["OnUpdated"] = QueueOnUpdate
      /\ SubscriberImpl["OnDoNotDisturbDateChange"] = QueueOnDoNotDisturbDateChange
      /\ SubscriberImpl["OnEnabledNotificationChanged"] = QueueOnEnabledNotificationChanged
  BY DEF SubscriberImpl
<1> DEFINE impl == SubscriberImpl[m.name]
           got == ReadValue(ParcelOf(m), AnsSubscriberStub[m.name])
<1>3. EventOf(m) = [callback |-> impl.callback, n |-> m.n,
                    reason |-> IF "reason" \in impl.tells THEN got["reason"] ELSE NoReason]
  BY DEF EventOf
<1>4. m.name = "OnCanceled" => got["reason"] = m.reason
  BY ReasonArrives
<1>5. /\ impl.callback \in Callbacks
      /\ impl.callback = "onCancel" <=> m.name = "OnCanceled"
      /\ "reason" \in impl.tells <=> m.name = "OnCanceled"
      /\ impl.callback = "onDisconnect" <=> m.name = "OnDisconnected"
  <2>1. \/ m.name = "OnConnected" /\ impl = Hands("onConnect", {})
        \/ m.name = "OnDisconnected" /\ impl = Hands("onDisconnect", {})
        \/ m.name = "OnConsumed" /\ impl = Hands("onConsume", {"notification", "map"})
        \/ m.name = "OnCanceled" /\ impl = Hands("onCancel", {"notification", "map", "reason"})
        \/ m.name = "OnUpdated" /\ impl = Hands("onUpdate", {"map"})
        \/ /\ m.name = "OnDoNotDisturbDateChange"
           /\ impl = Hands("onDoNotDisturbDateChange", {"date"})
        \/ /\ m.name = "OnEnabledNotificationChanged"
           /\ impl = Hands("onEnabledNotificationChanged", {"callbackData"})
    BY <1>1, <1>2 DEF Names, QueueOnConnected, QueueOnDisconnected, QueueOnConsumed,
       QueueOnCanceled, QueueOnUpdate, QueueOnDoNotDisturbDateChange,
       QueueOnEnabledNotificationChanged
  <2> HIDE DEF impl
  <2> QED BY <2>1 DEF Hands, Callbacks
<1> HIDE DEF got, impl
<1> DEFINE reason == IF "reason" \in impl.tells THEN got["reason"] ELSE NoReason
<1>6. reason \in Reasons \cup {NoReason} /\ (impl.callback = "onCancel" => reason \in Reasons)
  BY <1>1, <1>4, <1>5
<1>7. EventOf(m) = [callback |-> impl.callback, n |-> m.n, reason |-> reason]
  BY <1>3
<1> HIDE DEF reason
<1>8. /\ EventOf(m) \in [callback : Callbacks, n : Nat, reason : Reasons \cup {NoReason}]
      /\ EventOf(m).n = m.n /\ EventOf(m).callback = impl.callback
      /\ EventOf(m).reason = reason
  <2>1. m.n \in Nat /\ impl.callback \in Callbacks /\ reason \in Reasons \cup {NoReason}
    BY <1>1, <1>5, <1>6
  <2>2. EventOf(m).n = m.n /\ EventOf(m).callback = impl.callback /\ EventOf(m).reason = reason
    BY <1>7
  <2>3. [callback |-> impl.callback, n |-> m.n, reason |-> reason]
          \in [callback : Callbacks, n : Nat, reason : Reasons \cup {NoReason}]
    BY <2>1, EventShape
  <2>4. EventOf(m) \in [callback : Callbacks, n : Nat, reason : Reasons \cup {NoReason}]
    BY Zenon, <1>7, <2>3
  <2> QED BY <2>2, <2>4
<1>9. EventOf(m) \in Events
  BY <1>6, <1>8 DEF Events
<1> QED BY <1>5, <1>8, <1>9 DEF impl

(* The steps of a message, a death and the work of the pool, in these words.   *)
LEMMA OnMessageDoes ==
  ASSUME NEW id, OnMessage(id)
  PROVE  \/ Crash
         \/ LET m == Head(link[id])
            IN  /\ link[id] # <<>> /\ id \notin deleted
                /\ link' = [link EXCEPT ![id] = Tail(@)]
                /\ \/ pool' = pool /\ ~Has(id, SubscriberImpl[m.name].callback)
                   \/ pool' = pool /\ ~Reads(ParcelOf(m), AnsSubscriberStub[m.name])
                   \/ /\ Has(id, SubscriberImpl[m.name].callback)
                      /\ pool' = Append(pool, Telling(id, EventOf(m)))
                /\ UNCHANGED <<posts, instances, listed, deleting, deleted, ready, heard>>
  BY Zenon DEF OnMessage, Crash, Uses, ParcelOf, ValueOf, EventOf, serviceVars, instanceVars

----------------------------------------------------------------------------
(* Types.                                                                      *)

LEMMA IdsAreNumbers ==
  ASSUME TypeOK
  PROVE  /\ Ids = 1 .. Len(instances) /\ Len(instances) \in Nat
         /\ Ids \subseteq 1 .. MaxInstances /\ Ids \subseteq Nat \ {0}
         /\ MaxInstances \in Nat
         /\ \A id \in Ids : instances[id] \in Objects
  BY LenProperties, ElementOfSeq, InstancesAssumption DEF Ids, TypeOK

(* What is known of an instance stays: instances are only added.               *)
LEMMA KnownStays ==
  ASSUME TypeOK, \/ instances' = instances
                 \/ \E o \in Objects : instances' = Append(instances, o)
  PROVE  /\ Ids \subseteq Ids' /\ \A id \in Ids : instances'[id] = instances[id]
         /\ KnownWorks \subseteq KnownWorks' /\ KnownTellings \subseteq KnownTellings'
         /\ pool \in Seq(KnownWorks') /\ ready \in Seq(KnownWorks')
         /\ heard \in Seq(KnownTellings')
<1>1. Ids \subseteq Ids' /\ \A id \in Ids : instances'[id] = instances[id]
  <2>1. CASE instances' = instances
    BY <2>1 DEF Ids
  <2>2. ASSUME NEW o \in Objects, instances' = Append(instances, o)
        PROVE  Ids \subseteq Ids' /\ \A id \in Ids : instances'[id] = instances[id]
    BY <2>2, AppendProperties, LenProperties DEF Ids, TypeOK
  <2> QED BY <2>1, <2>2
<1>2. KnownWorks \subseteq KnownWorks' /\ KnownTellings \subseteq KnownTellings'
  BY <1>1 DEF KnownWorks, KnownTellings, Has
<1> QED BY <1>1, <1>2, SeqMonotonic DEF TypeOK

LEMMA KnownAreTyped ==
  ASSUME TypeOK
  PROVE  /\ pool \in Seq(Works) /\ ready \in Seq(Works) /\ heard \in Seq(Tellings)
         /\ \A i \in DOMAIN pool : pool[i] \in KnownWorks
         /\ \A i \in DOMAIN ready : ready[i] \in KnownWorks
         /\ \A i \in DOMAIN heard : heard[i] \in KnownTellings
<1>1. KnownWorks \subseteq Works /\ KnownTellings \subseteq Tellings
  BY DEF KnownWorks, KnownTellings
<1>2. pool \in Seq(Works) /\ ready \in Seq(Works) /\ heard \in Seq(Tellings)
  BY <1>1, SeqMonotonic DEF TypeOK
<1> QED BY <1>2, LenProperties, ElementOfSeq DEF TypeOK

(* A call that is made for an instance.                                        *)
LEMMA CallIsKnown ==
  ASSUME TypeOK, NEW id \in Ids
  PROVE  /\ Subscribing(id) \in KnownWorks /\ Unsubscribing(id) \in KnownWorks
         /\ Subscribing(id).id = id /\ Unsubscribing(id).id = id
         /\ Subscribing(id).what = "subscribe" /\ Unsubscribing(id).what = "unsubscribe"
         /\ ~Subscribing(id).marked /\ ~Unsubscribing(id).marked
  BY IdsAreNumbers DEF Subscribing, Unsubscribing, Work, KnownWorks, Works

(* An event that is told to an instance.                                       *)
LEMMA TellingIsKnown ==
  ASSUME TypeOK, NEW id \in Ids, NEW e \in Events, Has(id, e.callback)
  PROVE  /\ Telling(id, e) \in KnownWorks
         /\ Telling(id, e).id = id /\ Telling(id, e).what = "event" /\ Telling(id, e).event = e
<1>1. Telling(id, e) = [what |-> "event", id |-> id, event |-> e, marked |-> FALSE]
  BY DEF Telling, Work
<1>2. id \in Nat
  BY IdsAreNumbers
<1>3. [what |-> "event", id |-> id, event |-> e, marked |-> FALSE] \in Works
  BY <1>2 DEF Works
<1>4. Telling(id, e) \in Works
  BY Zenon, <1>1, <1>3
<1> QED BY <1>1, <1>4 DEF KnownWorks

(* A message that is posted, and those the service sends with a record.        *)
LEMMA MessageIsTyped ==
  ASSUME NEW name \in Names, NEW n \in Nat, NEW reason \in Reasons \cup {NoReason},
         name = "OnCanceled" => reason \in Reasons
  PROVE  /\ Message(name, n, reason) \in Messages
         /\ Message(name, n, reason).name = name /\ Message(name, n, reason).n = n
  BY DEF Message, Messages

LEMMA LinkIsTyped ==
  ASSUME TypeOK, NEW id \in 1 .. MaxInstances, NEW m \in Messages,
         link' = [link EXCEPT ![id] = Append(@, m)]
  PROVE  /\ link' \in [1 .. MaxInstances -> Seq(Messages)]
         /\ link'[id] = Append(link[id], m)
         /\ \A other \in 1 .. MaxInstances \ {id} : link'[other] = link[other]
<1>1. link[id] \in Seq(Messages)
  BY DEF TypeOK
<1>2. Append(link[id], m) \in Seq(Messages)
  BY <1>1, AppendProperties
<1> QED BY <1>2 DEF TypeOK

LEMMA TakenIsTyped ==
  ASSUME TypeOK, NEW id \in 1 .. MaxInstances, link[id] # <<>>,
         link' = [link EXCEPT ![id] = Tail(@)]
  PROVE  /\ link' \in [1 .. MaxInstances -> Seq(Messages)]
         /\ link'[id] = Tail(link[id]) /\ Head(link[id]) \in Messages
         /\ \A other \in 1 .. MaxInstances \ {id} : link'[other] = link[other]
<1>1. link[id] \in Seq(Messages)
  BY DEF TypeOK
<1>2. Tail(link[id]) \in Seq(Messages) /\ Head(link[id]) \in Messages
  BY <1>1, HeadTailProperties
<1> QED BY <1>2 DEF TypeOK

LEMMA FinishedIsTyped ==
  ASSUME TypeOK, NEW i \in DOMAIN pool, Finish(i)
  PROVE  pool' \in Seq(KnownWorks) /\ ready' \in Seq(KnownWorks)
  BY RemovedNumbers, AppendProperties, KnownAreTyped DEF Finish, TypeOK

(* Types, over every step.                                                     *)

LEMMA InitTyped == Init => TypeOK
<1> SUFFICES ASSUME Init PROVE TypeOK
  OBVIOUS
<1>1. instances = <<>> /\ Len(instances) = 0 /\ MaxInstances \in Nat
  BY InstancesAssumption DEF Init
<1>2. listed \in [Objects -> 0 .. Len(instances)]
  BY <1>1 DEF Init
<1>3. \A S : <<>> \in Seq(S)
  BY EmptySeq
<1>4. link \in [1 .. MaxInstances -> Seq(Messages)]
  <2>1. link = [id \in 1 .. MaxInstances |-> <<>>]
    BY DEF Init
  <2> QED BY <1>3, <2>1
<1> QED BY <1>1, <1>2, <1>3, <1>4 DEF Init, TypeOK

LEMMA CrashTyped == TypeOK /\ Crash => TypeOK'
  BY DEF Crash, TypeOK, KnownWorks, KnownTellings, Ids, Has, serviceVars, instanceVars

LEMMA ParseTyped ==
  ASSUME TypeOK, NEW o \in Objects, ParseParameters(o)
  PROVE  /\ instances' \in Seq(Objects) /\ Len(instances') <= MaxInstances
         /\ listed' \in [Objects -> 0 .. Len(instances')]
         /\ listed'[o] \in Ids'
         /\ \/ instances' = instances
            \/ \E b \in Objects : instances' = Append(instances, b)
<1>1. CASE HasNotificationSubscriber(o)
  <2>1. UNCHANGED <<instances, listed>> /\ listed[o] # 0
    BY <1>1 DEF ParseParameters, HasNotificationSubscriber
  <2>2. listed[o] \in 0 .. Len(instances)
    BY DEF TypeOK
  <2>3. listed[o] \in Ids /\ Ids' = Ids
    BY <2>1, <2>2, IdsAreNumbers DEF Ids
  <2> QED BY <2>1, <2>3 DEF TypeOK
<1>2. CASE ~HasNotificationSubscriber(o)
  <2>1. /\ Len(instances) < MaxInstances
        /\ instances' = Append(instances, o)
        /\ listed' = [listed EXCEPT ![o] = Len(instances) + 1]
    BY <1>2 DEF ParseParameters
  <2>2. instances' \in Seq(Objects) /\ Len(instances') = Len(instances) + 1 /\ Len(instances) \in Nat
    BY <2>1, AppendProperties, LenProperties DEF TypeOK
  <2>3. Ids' = 1 .. Len(instances) + 1
    BY <2>2, LenProperties DEF Ids
  <2> QED BY <2>1, <2>2, <2>3, InstancesAssumption DEF TypeOK
<1> QED BY <1>1, <1>2

LEMMA SubscribeTyped ==
  ASSUME TypeOK, NEW o \in Objects, Subscribe(o)
  PROVE  TypeOK'
<1>1. ParseParameters(o) /\ pool' = Append(pool, Subscribing(listed'[o]))
      /\ UNCHANGED <<posts, deleting, link, ready, heard>>
  BY DEF Subscribe, serviceVars
<1>2. /\ Ids \subseteq Ids' /\ listed'[o] \in Ids'
      /\ pool \in Seq(KnownWorks') /\ ready \in Seq(KnownWorks') /\ heard \in Seq(KnownTellings')
      /\ instances' \in Seq(Objects) /\ Len(instances') <= MaxInstances
      /\ listed' \in [Objects -> 0 .. Len(instances')]
  BY <1>1, ParseTyped, KnownStays
<1>3. Subscribing(listed'[o]) \in KnownWorks'
  <2>1. listed'[o] \in Nat
    BY <1>2, LenProperties DEF Ids
  <2> QED BY <1>2, <2>1 DEF Subscribing, Work, KnownWorks, Works
<1>4. pool' \in Seq(KnownWorks')
  BY <1>1, <1>2, <1>3, AppendProperties
<1> QED BY <1>1, <1>2, <1>4 DEF TypeOK

LEMMA SubscribeWronglyTyped ==
  ASSUME TypeOK, NEW o \in Objects, SubscribeWrongly(o)
  PROVE  TypeOK'
<1>1. CASE Crash
  BY <1>1, CrashTyped
<1>2. CASE ~Crash
  <2>1. ParseParameters(o) /\ UNCHANGED <<posts, deleting, link, pool, ready, heard>>
    BY <1>2 DEF SubscribeWrongly, serviceVars
  <2> QED BY <2>1, ParseTyped, KnownStays DEF TypeOK
<1> QED BY <1>1, <1>2

(* Where no instance is added, what is known is what was.                      *)
LEMMA SameKnown ==
  ASSUME UNCHANGED instances
  PROVE  Ids' = Ids /\ KnownWorks' = KnownWorks /\ KnownTellings' = KnownTellings
  BY DEF Ids, KnownWorks, KnownTellings, Has

LEMMA UnsubscribeTyped ==
  ASSUME TypeOK, NEW o \in Objects, Unsubscribe(o)
  PROVE  TypeOK'
<1>1. /\ listed[o] # 0 /\ pool' = Append(pool, Unsubscribing(listed[o]))
      /\ UNCHANGED <<instances, listed, deleting, link, ready, heard, posts>>
  BY DEF Unsubscribe, HasNotificationSubscriber, serviceVars, instanceVars
<1>2. listed[o] \in Ids
  BY <1>1, IdsAreNumbers DEF TypeOK
<1>3. pool' \in Seq(KnownWorks)
  BY <1>1, <1>2, CallIsKnown, AppendProperties DEF TypeOK
<1> QED BY <1>1, <1>3, SameKnown DEF TypeOK

LEMMA RunEventTyped ==
  ASSUME TypeOK, NEW i \in DOMAIN pool, RunEvent(i)
  PROVE  TypeOK'
  BY FinishedIsTyped, SameKnown DEF RunEvent, TypeOK, serviceVars, instanceVars

LEMMA RunSubscribeTyped ==
  ASSUME TypeOK, NEW i \in DOMAIN pool, RunSubscribe(i)
  PROVE  TypeOK'
<1>1. CASE Crash
  BY <1>1, CrashTyped
<1>2. CASE ~Crash
  <2> DEFINE id == pool[i].id
             m == Message("OnConnected", 0, NoReason)
  <2>1. /\ Finish(i)
        /\ link' = link \/ link' = [link EXCEPT ![id] = Append(@, m)]
        /\ UNCHANGED <<instances, listed, deleting, heard, posts>>
    BY <1>2 DEF RunSubscribe, instanceVars
  <2>2. id \in 1 .. MaxInstances
    BY KnownAreTyped, IdsAreNumbers DEF KnownWorks
  <2>3. m \in Messages
    BY MessageIsTyped DEF Names
  <2> HIDE DEF id, m
  <2>4. link' \in [1 .. MaxInstances -> Seq(Messages)]
    BY <2>1, <2>2, <2>3, LinkIsTyped DEF TypeOK
  <2> QED BY <2>1, <2>4, FinishedIsTyped, SameKnown DEF TypeOK
<1> QED BY <1>1, <1>2

LEMMA AddDeletingTyped ==
  ASSUME TypeOK, NEW i \in DOMAIN pool, AddDeletingSubscriber(i)
  PROVE  TypeOK'
<1> DEFINE id == pool[i].id
           marked == [pool EXCEPT ![i].marked = TRUE]
<1>1. /\ UNCHANGED <<instances, listed, link, heard, posts>>
      /\ \/ Finish(i) /\ UNCHANGED deleting
         \/ deleting' = deleting \cup {id} /\ pool' = marked /\ UNCHANGED ready
      /\ pool[i].what = "unsubscribe"
  BY DEF AddDeletingSubscriber, serviceVars
<1>2. id \in Ids /\ pool[i] \in KnownWorks
  BY KnownAreTyped DEF KnownWorks
<1>3. marked \in Seq(KnownWorks)
  <2> DEFINE w == [pool[i] EXCEPT !.marked = TRUE]
  <2>1. w \in KnownWorks
    BY <1>1, <1>2 DEF KnownWorks, Works
  <2>2. marked = [pool EXCEPT ![i] = w]
    OBVIOUS
  <2> HIDE DEF w
  <2> QED BY <2>1, <2>2, ExceptSeq, LenProperties DEF TypeOK
<1> HIDE DEF id, marked
<1> QED BY <1>1, <1>2, <1>3, FinishedIsTyped, SameKnown DEF TypeOK

LEMMA RunUnsubscribeTyped ==
  ASSUME TypeOK, NEW i \in DOMAIN pool, RunUnsubscribe(i)
  PROVE  TypeOK'
<1>1. CASE Crash
  BY <1>1, CrashTyped
<1>2. CASE ~Crash
  <2> DEFINE id == pool[i].id
             m == Message("OnDisconnected", 0, NoReason)
  <2>1. /\ Finish(i) /\ deleting' \subseteq deleting
        /\ link' = link \/ link' = [link EXCEPT ![id] = Append(@, m)]
        /\ UNCHANGED <<instances, listed, heard, posts>>
    BY <1>2 DEF RunUnsubscribe
  <2>2. id \in 1 .. MaxInstances
    BY KnownAreTyped, IdsAreNumbers DEF KnownWorks
  <2>3. m \in Messages
    BY MessageIsTyped DEF Names
  <2> HIDE DEF id, m
  <2>4. link' \in [1 .. MaxInstances -> Seq(Messages)]
    BY <2>1, <2>2, <2>3, LinkIsTyped DEF TypeOK
  <2> QED BY <2>1, <2>4, FinishedIsTyped, SameKnown DEF TypeOK
<1> QED BY <1>1, <1>2

LEMMA PostTyped ==
  ASSUME TypeOK, NEW id \in Ids, NEW name \in Posted, NEW reason \in Reasons \cup {NoReason},
         Post(id, name, reason)
  PROVE  TypeOK'
<1> DEFINE m == Message(name, posts + 1, reason)
<1>1. /\ link' = [link EXCEPT ![id] = Append(@, m)] /\ posts' = posts + 1
      /\ reason # NoReason <=> name = "OnCanceled"
      /\ UNCHANGED <<instances, listed, deleting, pool, ready, heard>>
  BY DEF Post, instanceVars
<1>2. id \in 1 .. MaxInstances
  BY IdsAreNumbers
<1>3. posts' \in Nat /\ posts + 1 \in Nat
  <2>1. posts' = posts + 1 /\ posts \in Nat
    BY DEF Post, TypeOK
  <2> QED BY <2>1
<1>4. m \in Messages
  <2>1. name \in Names
    BY InstancesAssumption DEF Names
  <2> QED BY <1>1, <1>3, <2>1, MessageIsTyped
<1> HIDE DEF m
<1> QED BY <1>1, <1>2, <1>3, <1>4, LinkIsTyped, SameKnown DEF TypeOK

LEMMA ServiceDiesTyped == TypeOK /\ ServiceDies => TypeOK'
  BY SameKnown DEF ServiceDies, TypeOK, instanceVars

LEMMA OnMessageTyped ==
  ASSUME TypeOK, NEW id \in Ids, OnMessage(id)
  PROVE  TypeOK'
<1>1. CASE Crash
  BY <1>1, CrashTyped
<1>2. CASE ~Crash
  <2> DEFINE m == Head(link[id])
             w == Telling(id, EventOf(m))
  <2>1. /\ link[id] # <<>>
        /\ link' = [link EXCEPT ![id] = Tail(@)]
        /\ \/ pool' = pool
           \/ Has(id, SubscriberImpl[m.name].callback) /\ pool' = Append(pool, w)
        /\ UNCHANGED <<posts, instances, listed, deleting, deleted, ready, heard>>
    BY <1>2, OnMessageDoes
  <2>2. id \in 1 .. MaxInstances
    BY IdsAreNumbers
  <2>3. link' \in [1 .. MaxInstances -> Seq(Messages)] /\ m \in Messages
    BY <2>1, <2>2, TakenIsTyped
  <2>4. Has(id, SubscriberImpl[m.name].callback) => w \in KnownWorks
    BY <2>3, MessageIsTold, TellingIsKnown
  <2> HIDE DEF m, w
  <2>5. pool' \in Seq(KnownWorks)
    <3>1. pool \in Seq(KnownWorks)
      BY DEF TypeOK
    <3>2. pool' = pool \/ (w \in KnownWorks /\ pool' = Append(pool, w))
      BY <2>1, <2>4
    <3> QED BY <3>1, <3>2, AppendProperties
  <2> QED BY <2>1, <2>3, <2>5, SameKnown DEF TypeOK
<1> QED BY <1>1, <1>2

LEMMA DeathIsAnEvent ==
  LET e == [callback |-> QueueOnDied.callback, n |-> 0, reason |-> NoReason]
  IN  e \in Events /\ e.n = 0 /\ e.callback = "onDestroy"
<1>1. QueueOnDied.callback = "onDestroy" /\ QueueOnDied.callback \in Callbacks
  BY DEF QueueOnDied, Hands, Callbacks
<1> QED BY <1>1, EventShape DEF Events

LEMMA OnRemoteDiedDoes ==
  ASSUME NEW id, OnRemoteDied(id)
  PROVE  \/ Crash
         \/ /\ \/ pool' = pool
               \/ LET e == [callback |-> QueueOnDied.callback, n |-> 0, reason |-> NoReason]
                  IN  Has(id, e.callback) /\ pool' = Append(pool, Telling(id, e))
            /\ UNCHANGED <<posts, instances, listed, deleting, deleted, link, ready, heard>>
<1>1. CASE Uses(id)
  BY Zenon, <1>1 DEF OnRemoteDied
<1>2. CASE ~Uses(id)
  BY <1>2 DEF OnRemoteDied, serviceVars, instanceVars
<1> QED BY <1>1, <1>2

LEMMA OnRemoteDiedTyped ==
  ASSUME TypeOK, NEW id \in Ids, OnRemoteDied(id)
  PROVE  TypeOK'
<1>1. CASE Crash
  BY <1>1, CrashTyped
<1>2. CASE ~Crash
  <2> DEFINE e == [callback |-> QueueOnDied.callback, n |-> 0, reason |-> NoReason]
  <2>1. /\ \/ pool' = pool
           \/ Has(id, e.callback) /\ pool' = Append(pool, Telling(id, e))
        /\ UNCHANGED <<posts, instances, listed, deleting, link, ready, heard>>
    BY Zenon, <1>2, OnRemoteDiedDoes
  <2>2. e \in Events
    BY DeathIsAnEvent
  <2> HIDE DEF e
  <2>3. pool' \in Seq(KnownWorks)
    <3>1. pool \in Seq(KnownWorks)
      BY DEF TypeOK
    <3>2. Has(id, e.callback) => Telling(id, e) \in KnownWorks
      BY <2>2, TellingIsKnown
    <3> QED BY <2>1, <3>1, <3>2, AppendProperties
  <2> QED BY <2>1, <2>3, SameKnown DEF TypeOK
<1> QED BY <1>1, <1>2

(* A turn of the loop that tells an event.                                     *)
LEMMA TurnEventDoes ==
  ASSUME TypeOK, TurnEvent
  PROVE  \/ Crash
         \/ LET w == Head(ready)
                t == [id |-> w.id, event |-> w.event]
            IN  /\ ready # <<>> /\ ready' = Tail(ready)
                /\ w \in KnownWorks /\ w.what = "event" /\ w.id \notin deleted
                /\ t \in KnownTellings
                /\ heard' = heard \/ heard' = Append(heard, t)
                /\ IF w.event.callback = "onDisconnect" THEN DelSubscriberInstancesInfo(w.id)
                   ELSE UNCHANGED <<listed, deleting, deleted>>
                /\ UNCHANGED <<instances, link, pool, posts>>
<1>1. ready # <<>> /\ Head(ready).what = "event"
  BY DEF TurnEvent
<1>2. CASE Uses(Head(ready).id)
  BY <1>2 DEF TurnEvent
<1>3. CASE ~Uses(Head(ready).id)
  <2> DEFINE w == Head(ready)
             t == [id |-> w.id, event |-> w.event]
  <2>1. /\ ready' = Tail(ready) /\ w.id \notin deleted
        /\ heard' = heard \/ heard' = Append(heard, t)
        /\ IF w.event.callback = "onDisconnect" THEN DelSubscriberInstancesInfo(w.id)
           ELSE UNCHANGED <<listed, deleting, deleted>>
        /\ UNCHANGED <<instances, link, pool, posts>>
    BY <1>3 DEF TurnEvent, Uses, serviceVars
  <2>2. w \in KnownWorks
    BY <1>1, HeadTailProperties DEF TypeOK
  <2>3. t \in KnownTellings
    BY <1>1, <2>2 DEF KnownWorks, Works, KnownTellings, Tellings
  <2> QED BY <1>1, <2>1, <2>2, <2>3
<1> QED BY <1>2, <1>3

LEMMA TurnEventTyped == TypeOK /\ TurnEvent => TypeOK'
<1> SUFFICES ASSUME TypeOK, TurnEvent PROVE TypeOK'
  OBVIOUS
<1>1. CASE Crash
  BY <1>1, CrashTyped
<1>2. CASE ~Crash
  <2> DEFINE w == Head(ready)
             t == [id |-> w.id, event |-> w.event]
  <2>1. /\ ready # <<>> /\ ready' = Tail(ready) /\ w \in KnownWorks /\ t \in KnownTellings
        /\ heard' = heard \/ heard' = Append(heard, t)
        /\ IF w.event.callback = "onDisconnect" THEN DelSubscriberInstancesInfo(w.id)
           ELSE UNCHANGED <<listed, deleting, deleted>>
        /\ UNCHANGED <<instances, link, pool, posts>>
    BY <1>2, TurnEventDoes
  <2> HIDE DEF w, t
  <2>2. ready' \in Seq(KnownWorks)
    BY <2>1, HeadTailProperties DEF TypeOK
  <2>3. heard' \in Seq(KnownTellings)
    <3>1. heard \in Seq(KnownTellings)
      BY DEF TypeOK
    <3>2. t \in KnownTellings /\ (heard' = heard \/ heard' = Append(heard, t))
      BY <2>1
    <3> QED BY <3>1, <3>2, AppendProperties
  <2>4. listed' \in [Objects -> 0 .. Len(instances)] /\ deleting' \subseteq Ids
    <3>1. 0 \in 0 .. Len(instances)
      BY IdsAreNumbers
    <3> QED BY <2>1, <3>1 DEF DelSubscriberInstancesInfo, TypeOK
  <2> QED BY <2>1, <2>2, <2>3, <2>4, SameKnown DEF TypeOK
<1> QED BY <1>1, <1>2

LEMMA TurnCallTyped == TypeOK /\ TurnCall => TypeOK'
  BY HeadTailProperties, SameKnown DEF TurnCall, TypeOK, serviceVars, instanceVars

LEMMA StepTyped == TypeOK /\ [Next]_vars => TypeOK'
<1> SUFFICES ASSUME TypeOK, [Next]_vars PROVE TypeOK'
  OBVIOUS
<1>1. CASE UNCHANGED vars
  BY <1>1, SameKnown DEF TypeOK, vars, serviceVars, instanceVars
<1>2. ASSUME NEW o \in Objects, Subscribe(o) \/ SubscribeWrongly(o) \/ Unsubscribe(o)
      PROVE  TypeOK'
  BY <1>2, SubscribeTyped, SubscribeWronglyTyped, UnsubscribeTyped
<1>3. CASE RunPool
  <2>1. PICK i \in DOMAIN pool :
          RunEvent(i) \/ RunSubscribe(i) \/ AddDeletingSubscriber(i) \/ RunUnsubscribe(i)
    BY <1>3 DEF RunPool, Runnable
  <2> QED BY <2>1, RunEventTyped, RunSubscribeTyped, AddDeletingTyped, RunUnsubscribeTyped
<1>4. ASSUME NEW id \in Ids, NEW name \in Posted, NEW reason \in Reasons \cup {NoReason},
             Post(id, name, reason)
      PROVE  TypeOK'
  BY <1>4, PostTyped
<1>5. CASE ServiceDies
  BY <1>5, ServiceDiesTyped
<1>6. ASSUME NEW id \in Ids, OnMessage(id) \/ OnRemoteDied(id)
      PROVE  TypeOK'
  BY <1>6, OnMessageTyped, OnRemoteDiedTyped
<1>7. CASE Turn
  BY <1>7, TurnEventTyped, TurnCallTyped DEF Turn
<1> QED BY <1>1, <1>2, <1>3, <1>4, <1>5, <1>6, <1>7 DEF Next

(* Every variable of the instances keeps its type: what waits for the pool or  *)
(* the loop and what was heard is for an instance that was made and, if it is  *)
(* an event, one the object has a callback for.                                *)
THEOREM TypeCorrect == Spec => []TypeOK
  BY InitTyped, StepTyped, PTL DEF Spec

----------------------------------------------------------------------------
(* An event is in one place.                                                   *)

LEMMA NumbersAre ==
  /\ \A m \in Messages : MessageNumber[m] = m.n
  /\ \A w \in Works : WorkNumber[w] = IF w.what = "event" THEN w.event.n ELSE 0
  /\ \A t \in Tellings : TellingNumber[t] = t.event.n
  BY DEF MessageNumber, WorkNumber, TellingNumber

LEMMA NoNumberIsZero == \A q, f : 0 \notin Numbers(q, f)
  BY DEF Numbers

(* What a step that moves no event leaves.                                     *)
LEMMA SamePlaces ==
  ASSUME InOnePlace,
         DOMAIN link' = DOMAIN link,
         \A id \in DOMAIN link :
           /\ Distinct(link'[id], MessageNumber)
           /\ Numbers(link'[id], MessageNumber) = Numbers(link[id], MessageNumber),
         Distinct(pool', WorkNumber), Numbers(pool', WorkNumber) = Numbers(pool, WorkNumber),
         Distinct(ready', WorkNumber), Numbers(ready', WorkNumber) = Numbers(ready, WorkNumber),
         UNCHANGED <<heard, posts>>
  PROVE  InOnePlace'
  BY DEF InOnePlace

(* An element without a number comes, or goes.                                 *)
LEMMA PlainAppend ==
  ASSUME NEW T, NEW f, NEW q \in Seq(T), NEW e \in T, f[e] = 0, Distinct(q, f)
  PROVE  Distinct(Append(q, e), f) /\ Numbers(Append(q, e), f) = Numbers(q, f)
  BY AppendNumbers, NoNumberIsZero

LEMMA PlainRemove ==
  ASSUME NEW T, NEW f, NEW q \in Seq(T), NEW i \in DOMAIN q, f[q[i]] = 0, Distinct(q, f)
  PROVE  /\ Distinct(RemoveAt(q, i), f)
         /\ Numbers(RemoveAt(q, i), f) = Numbers(q, f)
<1>1. /\ Numbers(RemoveAt(q, i), f) \subseteq Numbers(q, f)
      /\ Numbers(q, f) \subseteq Numbers(RemoveAt(q, i), f) \cup {0}
      /\ Distinct(RemoveAt(q, i), f)
  BY RemovedNumbers
<1> QED BY <1>1, NoNumberIsZero

(* A call that ends takes no event with it.                                    *)
LEMMA PlainFinish ==
  ASSUME TypeOK, InOnePlace, NEW i \in DOMAIN pool, pool[i].what # "event", Finish(i)
  PROVE  /\ Distinct(pool', WorkNumber) /\ Numbers(pool', WorkNumber) = Numbers(pool, WorkNumber)
         /\ Distinct(ready', WorkNumber)
         /\ Numbers(ready', WorkNumber) = Numbers(ready, WorkNumber)
<1>1. /\ pool \in Seq(Works) /\ ready \in Seq(Works) /\ pool[i] \in Works
      /\ WorkNumber[pool[i]] = 0
  BY KnownAreTyped, NumbersAre DEF KnownWorks
<1>2. Distinct(pool, WorkNumber) /\ Distinct(ready, WorkNumber)
  BY DEF InOnePlace
<1> QED BY <1>1, <1>2, PlainAppend, PlainRemove DEF Finish

(* A message of the service's own is without a number.                         *)
LEMMA PlainMessage ==
  ASSUME TypeOK, InOnePlace, NEW id \in 1 .. MaxInstances, NEW m \in Messages, m.n = 0,
         link' = [link EXCEPT ![id] = Append(@, m)]
  PROVE  /\ DOMAIN link' = DOMAIN link
         /\ \A other \in DOMAIN link :
              /\ Distinct(link'[other], MessageNumber)
              /\ Numbers(link'[other], MessageNumber) = Numbers(link[other], MessageNumber)
<1>1. /\ link[id] \in Seq(Messages) /\ id \in DOMAIN link
      /\ DOMAIN link = 1 .. MaxInstances /\ DOMAIN link' = 1 .. MaxInstances
      /\ link'[id] = Append(link[id], m)
      /\ \A other \in 1 .. MaxInstances \ {id} : link'[other] = link[other]
  BY LinkIsTyped DEF TypeOK
<1>2. MessageNumber[m] = 0 /\ Distinct(link[id], MessageNumber)
  BY <1>1, NumbersAre DEF InOnePlace
<1>3. /\ Distinct(link'[id], MessageNumber)
      /\ Numbers(link'[id], MessageNumber) = Numbers(link[id], MessageNumber)
  BY <1>1, <1>2, PlainAppend
<1> QED BY <1>1, <1>3 DEF InOnePlace

LEMMA InitOnce == Init => InOnePlace
  BY NumbersOfNone DEF Init, InOnePlace

LEMMA CrashOnce == InOnePlace /\ Crash => InOnePlace'
  BY SamePlaces DEF InOnePlace, Crash, serviceVars

LEMMA CallOnce ==
  ASSUME TypeOK, InOnePlace, NEW w \in Works, w.what # "event",
         pool' = Append(pool, w), UNCHANGED <<link, ready, heard, posts>>
  PROVE  InOnePlace'
<1>1. Distinct(pool', WorkNumber) /\ Numbers(pool', WorkNumber) = Numbers(pool, WorkNumber)
  BY KnownAreTyped, NumbersAre, PlainAppend DEF InOnePlace
<1> QED BY <1>1, SamePlaces DEF InOnePlace

LEMMA RunSubscribeOnce ==
  ASSUME TypeOK, InOnePlace, NEW i \in DOMAIN pool, RunSubscribe(i)
  PROVE  InOnePlace'
<1>1. CASE Crash
  BY <1>1, CrashOnce
<1>2. CASE ~Crash
  <2> DEFINE id == pool[i].id
             m == Message("OnConnected", 0, NoReason)
  <2>1. /\ Finish(i) /\ pool[i].what # "event"
        /\ link' = link \/ link' = [link EXCEPT ![id] = Append(@, m)]
        /\ UNCHANGED <<heard, posts>>
    BY <1>2 DEF RunSubscribe
  <2>2. id \in 1 .. MaxInstances
    BY KnownAreTyped, IdsAreNumbers DEF KnownWorks
  <2>3. m \in Messages /\ m.n = 0
    BY MessageIsTyped DEF Names
  <2> HIDE DEF id, m
  <2>4. /\ DOMAIN link' = DOMAIN link
        /\ \A other \in DOMAIN link :
             /\ Distinct(link'[other], MessageNumber)
             /\ Numbers(link'[other], MessageNumber) = Numbers(link[other], MessageNumber)
    BY <2>1, <2>2, <2>3, PlainMessage DEF InOnePlace
  <2> QED BY <2>1, <2>4, PlainFinish, SamePlaces
<1> QED BY <1>1, <1>2

LEMMA RunUnsubscribeOnce ==
  ASSUME TypeOK, InOnePlace, NEW i \in DOMAIN pool, RunUnsubscribe(i)
  PROVE  InOnePlace'
<1>1. CASE Crash
  BY <1>1, CrashOnce
<1>2. CASE ~Crash
  <2> DEFINE id == pool[i].id
             m == Message("OnDisconnected", 0, NoReason)
  <2>1. /\ Finish(i) /\ pool[i].what # "event"
        /\ link' = link \/ link' = [link EXCEPT ![id] = Append(@, m)]
        /\ UNCHANGED <<heard, posts>>
    BY <1>2 DEF RunUnsubscribe
  <2>2. id \in 1 .. MaxInstances
    BY KnownAreTyped, IdsAreNumbers DEF KnownWorks
  <2>3. m \in Messages /\ m.n = 0
    BY MessageIsTyped DEF Names
  <2> HIDE DEF id, m
  <2>4. /\ DOMAIN link' = DOMAIN link
        /\ \A other \in DOMAIN link :
             /\ Distinct(link'[other], MessageNumber)
             /\ Numbers(link'[other], MessageNumber) = Numbers(link[other], MessageNumber)
    BY <2>1, <2>2, <2>3, PlainMessage DEF InOnePlace
  <2> QED BY <2>1, <2>4, PlainFinish, SamePlaces
<1> QED BY <1>1, <1>2

LEMMA AddDeletingOnce ==
  ASSUME TypeOK, InOnePlace, NEW i \in DOMAIN pool, AddDeletingSubscriber(i)
  PROVE  InOnePlace'
<1> DEFINE w == [pool[i] EXCEPT !.marked = TRUE]
<1>1. pool[i].what = "unsubscribe" /\ UNCHANGED <<link, heard, posts>>
  BY DEF AddDeletingSubscriber, serviceVars
<1>2. CASE Finish(i)
  BY <1>1, <1>2, PlainFinish, SamePlaces DEF InOnePlace
<1>3. CASE pool' = [pool EXCEPT ![i].marked = TRUE] /\ UNCHANGED ready
  <2>1. pool \in Seq(Works) /\ pool[i] \in Works
    BY KnownAreTyped DEF KnownWorks
  <2>2. w \in Works /\ w.what = "unsubscribe"
    BY <1>1, <2>1 DEF Works
  <2>3. pool' = [pool EXCEPT ![i] = w]
    BY <1>3
  <2> HIDE DEF w
  <2>4. WorkNumber[pool[i]] = 0 /\ WorkNumber[w] = 0
    BY <1>1, <2>1, <2>2, NumbersAre
  <2>5. Distinct(pool', WorkNumber) /\ Numbers(pool', WorkNumber) = Numbers(pool, WorkNumber)
    <3> DEFINE r == [pool EXCEPT ![i] = w]
    <3>1. Distinct(pool, WorkNumber)
      BY DEF InOnePlace
    <3>2. /\ Numbers(r, WorkNumber) = Numbers(pool, WorkNumber) \cup ({WorkNumber[w]} \ {0})
          /\ WorkNumber[w] \notin Numbers(pool, WorkNumber) => Distinct(r, WorkNumber)
      BY <2>1, <2>2, <2>4, <3>1, ChangedNumbers
    <3> HIDE DEF r
    <3> QED BY <2>3, <2>4, <3>2, NoNumberIsZero DEF r
  <2> QED BY <1>1, <1>3, <2>5, SamePlaces DEF InOnePlace
<1> QED BY <1>2, <1>3 DEF AddDeletingSubscriber

(* A new event has the next number.                                            *)
LEMMA PostOnce ==
  ASSUME TypeOK, InOnePlace, NEW id \in Ids, NEW name \in Posted,
         NEW reason \in Reasons \cup {NoReason}, Post(id, name, reason)
  PROVE  InOnePlace'
<1> DEFINE m == Message(name, posts + 1, reason)
           n == posts + 1
<1>1. /\ link' = [link EXCEPT ![id] = Append(@, m)] /\ posts' = n
      /\ reason # NoReason <=> name = "OnCanceled"
      /\ UNCHANGED <<pool, ready, heard>>
  BY DEF Post
<1>2. id \in 1 .. MaxInstances /\ posts \in Nat /\ n \in Nat
  BY IdsAreNumbers DEF TypeOK
<1>3. m \in Messages /\ MessageNumber[m] = n
  <2>1. name \in Names
    BY InstancesAssumption DEF Names
  <2>2. m \in Messages /\ m.n = n
    BY <1>1, <1>2, <2>1, MessageIsTyped
  <2> HIDE DEF m
  <2> QED BY <2>2, NumbersAre
<1> HIDE DEF m
<1>4. /\ link[id] \in Seq(Messages) /\ id \in DOMAIN link
      /\ DOMAIN link = 1 .. MaxInstances /\ DOMAIN link' = 1 .. MaxInstances
      /\ link'[id] = Append(link[id], m)
      /\ \A other \in 1 .. MaxInstances \ {id} : link'[other] = link[other]
  BY <1>1, <1>2, <1>3, LinkIsTyped DEF TypeOK
<1>5. n \notin 1 .. posts /\ 1 .. posts \subseteq 1 .. posts' /\ n \in 1 .. posts' /\ n # 0
  BY <1>1, <1>2
<1> HIDE DEF n
<1>6. n \notin Numbers(link[id], MessageNumber) /\ Distinct(link[id], MessageNumber)
  BY <1>4, <1>5 DEF InOnePlace
<1>7. /\ Distinct(link'[id], MessageNumber)
      /\ Numbers(link'[id], MessageNumber) = Numbers(link[id], MessageNumber) \cup {n}
  BY <1>3, <1>4, <1>5, <1>6, AppendNumbers
<1> QED BY <1>1, <1>4, <1>5, <1>7 DEF InOnePlace

(* From the link into the pool, or nowhere.                                    *)
LEMMA OnMessageOnce ==
  ASSUME TypeOK, InOnePlace, NEW id \in Ids, OnMessage(id)
  PROVE  InOnePlace'
<1>1. CASE Crash
  BY <1>1, CrashOnce
<1>2. CASE ~Crash
  <2> DEFINE m == Head(link[id])
             w == Telling(id, EventOf(m))
             n == MessageNumber[m]
  <2>1. /\ link[id] # <<>>
        /\ link' = [link EXCEPT ![id] = Tail(@)]
        /\ \/ pool' = pool
           \/ Has(id, SubscriberImpl[m.name].callback) /\ pool' = Append(pool, w)
        /\ UNCHANGED <<posts, ready, heard>>
    BY <1>2, OnMessageDoes
  <2>2. id \in 1 .. MaxInstances
    BY IdsAreNumbers
  <2>3. /\ link[id] \in Seq(Messages) /\ id \in DOMAIN link /\ m \in Messages
        /\ DOMAIN link = 1 .. MaxInstances /\ DOMAIN link' = 1 .. MaxInstances
        /\ link'[id] = Tail(link[id])
        /\ \A other \in 1 .. MaxInstances \ {id} : link'[other] = link[other]
    BY <2>1, <2>2, TakenIsTyped DEF TypeOK
  <2>4. Has(id, SubscriberImpl[m.name].callback) => w \in Works /\ WorkNumber[w] = n
    <3> SUFFICES ASSUME Has(id, SubscriberImpl[m.name].callback)
                 PROVE  w \in Works /\ WorkNumber[w] = n
      OBVIOUS
    <3>1. EventOf(m) \in Events /\ EventOf(m).n = m.n /\ Has(id, EventOf(m).callback)
      BY <2>3, MessageIsTold
    <3>2. w \in KnownWorks /\ w.what = "event" /\ w.event = EventOf(m)
      BY <3>1, TellingIsKnown
    <3>3. w \in Works
      BY <3>2 DEF KnownWorks
    <3> HIDE DEF w, m
    <3> QED BY <2>3, <3>1, <3>2, <3>3, NumbersAre DEF n
  <2> HIDE DEF w
  <2>5. /\ Numbers(link'[id], MessageNumber) \subseteq Numbers(link[id], MessageNumber)
        /\ n # 0 => n \in Numbers(link[id], MessageNumber)
        /\ Distinct(link'[id], MessageNumber) /\ n \notin Numbers(link'[id], MessageNumber)
    BY <2>1, <2>3, TailNumbers DEF InOnePlace
  <2> HIDE DEF m, n
  <2>6. n \notin Numbers(pool, WorkNumber) /\ n \notin Numbers(ready, WorkNumber)
        /\ n \notin Numbers(heard, TellingNumber)
        /\ (n # 0 => n \in 1 .. posts)
        /\ \A other \in DOMAIN link \ {id} : n \notin Numbers(link[other], MessageNumber)
    BY <2>3, <2>5, NoNumberIsZero DEF InOnePlace
  <2>7. \/ pool' = pool
        \/ /\ Numbers(pool', WorkNumber) = Numbers(pool, WorkNumber) \cup ({n} \ {0})
           /\ Distinct(pool', WorkNumber)
    <3>1. pool \in Seq(Works) /\ Distinct(pool, WorkNumber)
      BY KnownAreTyped DEF InOnePlace
    <3>2. CASE w \in Works /\ WorkNumber[w] = n /\ pool' = Append(pool, w)
      BY <2>6, <3>1, <3>2, AppendNumbers
    <3> QED BY <2>1, <2>4, <3>2
  <2>8. /\ Distinct(pool', WorkNumber)
        /\ Numbers(pool', WorkNumber) \subseteq Numbers(pool, WorkNumber) \cup ({n} \ {0})
    BY <2>7 DEF InOnePlace
  <2>9. UNCHANGED <<posts, ready, heard>>
    BY <2>1
  <2>10. \A other \in DOMAIN link :
           /\ Distinct(link'[other], MessageNumber) /\ n \notin Numbers(link'[other], MessageNumber)
           /\ Numbers(link'[other], MessageNumber) \subseteq Numbers(link[other], MessageNumber)
    BY <2>3, <2>5, <2>6 DEF InOnePlace
  <2>11. DOMAIN link' = DOMAIN link
    BY <2>3
  <2> QED BY <2>6, <2>8, <2>9, <2>10, <2>11 DEF InOnePlace
<1> QED BY <1>1, <1>2

LEMMA OnRemoteDiedOnce ==
  ASSUME TypeOK, InOnePlace, NEW id \in Ids, OnRemoteDied(id)
  PROVE  InOnePlace'
<1>1. CASE Crash
  BY <1>1, CrashOnce
<1>2. CASE ~Crash
  <2> DEFINE e == [callback |-> QueueOnDied.callback, n |-> 0, reason |-> NoReason]
             w == Telling(id, e)
  <2>1. /\ \/ pool' = pool
           \/ Has(id, e.callback) /\ pool' = Append(pool, w)
        /\ UNCHANGED <<posts, link, ready, heard>>
    BY Zenon, <1>2, OnRemoteDiedDoes
  <2>2. e \in Events /\ e.n = 0
    BY DeathIsAnEvent
  <2> HIDE DEF e
  <2>3. Has(id, e.callback) => w \in Works /\ WorkNumber[w] = 0
    BY <2>2, TellingIsKnown, NumbersAre DEF KnownWorks
  <2> HIDE DEF w
  <2>4. Distinct(pool', WorkNumber) /\ Numbers(pool', WorkNumber) = Numbers(pool, WorkNumber)
    <3>1. pool \in Seq(Works) /\ Distinct(pool, WorkNumber)
      BY KnownAreTyped DEF InOnePlace
    <3>2. CASE w \in Works /\ WorkNumber[w] = 0 /\ pool' = Append(pool, w)
      BY <3>1, <3>2, PlainAppend
    <3> QED BY <2>1, <2>3, <3>1, <3>2
  <2> QED BY <2>1, <2>4, SamePlaces DEF InOnePlace
<1> QED BY <1>1, <1>2

(* From the pool to the loop.                                                  *)
LEMMA RunEventOnce ==
  ASSUME TypeOK, InOnePlace, NEW i \in DOMAIN pool, RunEvent(i)
  PROVE  InOnePlace'
<1> DEFINE w == pool[i]
           n == WorkNumber[w]
<1>1. /\ pool' = RemoveAt(pool, i) /\ ready' = Append(ready, w)
      /\ UNCHANGED <<link, heard, posts>>
  BY DEF RunEvent, Finish, serviceVars
<1>2. pool \in Seq(Works) /\ ready \in Seq(Works) /\ w \in Works
  BY KnownAreTyped DEF KnownWorks
<1>3. /\ Numbers(pool', WorkNumber) \subseteq Numbers(pool, WorkNumber)
      /\ Distinct(pool', WorkNumber) /\ n \notin Numbers(pool', WorkNumber)
      /\ n # 0 => n \in Numbers(pool, WorkNumber)
  BY <1>1, <1>2, RemovedNumbers, ElementNumber DEF InOnePlace
<1> HIDE DEF w, n
<1>4. n \notin Numbers(ready, WorkNumber) /\ n \notin Numbers(heard, TellingNumber)
      /\ (n # 0 => n \in 1 .. posts)
      /\ \A id \in DOMAIN link : n \notin Numbers(link[id], MessageNumber)
  BY <1>3, NoNumberIsZero DEF InOnePlace
<1>5. /\ Numbers(ready', WorkNumber) = Numbers(ready, WorkNumber) \cup ({n} \ {0})
      /\ Distinct(ready', WorkNumber)
  BY <1>1, <1>2, <1>4, AppendNumbers DEF InOnePlace, n
<1> QED BY <1>1, <1>3, <1>4, <1>5 DEF InOnePlace

(* From the loop to the callback.                                              *)
LEMMA TurnEventOnce ==
  ASSUME TypeOK, InOnePlace, TurnEvent
  PROVE  InOnePlace'
<1>1. CASE Crash
  BY <1>1, CrashOnce
<1>2. CASE ~Crash
  <2> DEFINE w == Head(ready)
             t == [id |-> w.id, event |-> w.event]
             n == WorkNumber[w]
  <2>1. /\ ready # <<>> /\ ready' = Tail(ready) /\ w \in KnownWorks /\ w.what = "event"
        /\ t \in KnownTellings
        /\ heard' = heard \/ heard' = Append(heard, t)
        /\ UNCHANGED <<link, pool, posts>>
    BY <1>2, TurnEventDoes
  <2>2. t \in Tellings /\ TellingNumber[t] = n
    <3>1. w \in Works /\ t \in Tellings /\ t.event = w.event
      BY <2>1 DEF KnownWorks, KnownTellings
    <3> HIDE DEF w, t
    <3> QED BY <2>1, <3>1, NumbersAre DEF n
  <2>3. /\ Numbers(ready', WorkNumber) \subseteq Numbers(ready, WorkNumber)
        /\ n # 0 => n \in Numbers(ready, WorkNumber)
        /\ Distinct(ready', WorkNumber) /\ n \notin Numbers(ready', WorkNumber)
    BY <2>1, KnownAreTyped, TailNumbers DEF InOnePlace
  <2> HIDE DEF w, t, n
  <2>4. /\ n \notin Numbers(heard, TellingNumber) /\ n \notin Numbers(pool, WorkNumber)
        /\ n # 0 => n \in 1 .. posts
        /\ \A id \in DOMAIN link : n \notin Numbers(link[id], MessageNumber)
    BY <2>3, NoNumberIsZero DEF InOnePlace
  <2>5. heard' = heard \/ heard' = Append(heard, t)
    BY <2>1
  <2>6. /\ Distinct(heard', TellingNumber)
        /\ Numbers(heard', TellingNumber) \subseteq Numbers(heard, TellingNumber) \cup ({n} \ {0})
    <3>1. heard \in Seq(Tellings) /\ Distinct(heard, TellingNumber)
      BY KnownAreTyped DEF InOnePlace
    <3>2. CASE heard' = Append(heard, t)
      BY <2>2, <2>4, <3>1, <3>2, AppendNumbers
    <3> QED BY <2>5, <3>1, <3>2
  <2>7. UNCHANGED <<link, pool, posts>>
    BY <2>1
  <2> QED BY <2>3, <2>4, <2>6, <2>7 DEF InOnePlace
<1> QED BY <1>1, <1>2

LEMMA TurnCallOnce ==
  ASSUME TypeOK, InOnePlace, TurnCall
  PROVE  InOnePlace'
<1>1. /\ ready # <<>> /\ ready' = Tail(ready) /\ Head(ready).what # "event"
      /\ UNCHANGED <<link, pool, heard, posts>>
  BY DEF TurnCall, serviceVars
<1>2. ready \in Seq(Works) /\ Head(ready) \in Works /\ WorkNumber[Head(ready)] = 0
  BY <1>1, KnownAreTyped, HeadTailProperties, NumbersAre
<1>3. /\ Distinct(ready', WorkNumber)
      /\ Numbers(ready', WorkNumber) \subseteq Numbers(ready, WorkNumber)
      /\ Numbers(ready, WorkNumber) \subseteq Numbers(ready', WorkNumber) \cup {0}
  BY <1>1, <1>2, TailNumbers DEF InOnePlace
<1> QED BY <1>1, <1>3, NoNumberIsZero, SamePlaces DEF InOnePlace

LEMMA StepOnce == TypeOK /\ InOnePlace /\ [Next]_vars => InOnePlace'
<1> SUFFICES ASSUME TypeOK, InOnePlace, [Next]_vars PROVE InOnePlace'
  OBVIOUS
<1>1. CASE UNCHANGED <<link, pool, ready, heard, posts>>
  BY <1>1 DEF InOnePlace
<1>2. CASE UNCHANGED vars
  BY <1>1, <1>2 DEF vars, serviceVars
<1>3. ASSUME NEW o \in Objects, Subscribe(o)
      PROVE  InOnePlace'
  <2>1. /\ pool' = Append(pool, Subscribing(listed'[o]))
        /\ UNCHANGED <<link, ready, heard, posts>> /\ listed'[o] \in Ids'
    BY <1>3, ParseTyped DEF Subscribe, serviceVars
  <2>2. listed'[o] \in Nat
    <3>1. TypeOK'
      BY <1>3, SubscribeTyped
    <3> QED BY <2>1, <3>1, LenProperties DEF TypeOK, Ids
  <2>3. Subscribing(listed'[o]) \in Works /\ Subscribing(listed'[o]).what # "event"
    BY <2>2 DEF Subscribing, Work, Works
  <2> QED BY <2>1, <2>3, CallOnce
<1>4. ASSUME NEW o \in Objects, SubscribeWrongly(o)
      PROVE  InOnePlace'
  BY <1>1, <1>4, CrashOnce DEF SubscribeWrongly, serviceVars
<1>5. ASSUME NEW o \in Objects, Unsubscribe(o)
      PROVE  InOnePlace'
  <2>1. /\ pool' = Append(pool, Unsubscribing(listed[o])) /\ listed[o] \in Nat
        /\ UNCHANGED <<link, ready, heard, posts>>
    BY <1>5 DEF Unsubscribe, TypeOK, serviceVars
  <2>2. Unsubscribing(listed[o]) \in Works /\ Unsubscribing(listed[o]).what # "event"
    BY <2>1 DEF Unsubscribing, Work, Works
  <2> QED BY <2>1, <2>2, CallOnce
<1>6. CASE RunPool
  <2>1. PICK i \in DOMAIN pool :
          RunEvent(i) \/ RunSubscribe(i) \/ AddDeletingSubscriber(i) \/ RunUnsubscribe(i)
    BY <1>6 DEF RunPool, Runnable
  <2> QED BY <2>1, RunEventOnce, RunSubscribeOnce, AddDeletingOnce, RunUnsubscribeOnce
<1>7. ASSUME NEW id \in Ids, NEW name \in Posted, NEW reason \in Reasons \cup {NoReason},
             Post(id, name, reason)
      PROVE  InOnePlace'
  BY <1>7, PostOnce
<1>8. CASE ServiceDies
  <2>1. /\ UNCHANGED <<link, pool, ready, heard>> /\ posts' = posts + 1 /\ posts \in Nat
    BY <1>8 DEF ServiceDies, TypeOK
  <2>2. 1 .. posts \subseteq 1 .. posts'
    BY <2>1
  <2> QED BY <2>1, <2>2 DEF InOnePlace
<1>9. ASSUME NEW id \in Ids, OnMessage(id) \/ OnRemoteDied(id)
      PROVE  InOnePlace'
  BY <1>9, OnMessageOnce, OnRemoteDiedOnce
<1>10. CASE Turn
  BY <1>10, TurnEventOnce, TurnCallOnce DEF Turn
<1> QED BY <1>2, <1>3, <1>4, <1>5, <1>6, <1>7, <1>8, <1>9, <1>10 DEF Next

(* HeardOnce for any objects, any number of events and a pool of any size: on  *)
(* its way over the link, through the pool and the loop to the callback an     *)
(* event is in one place at a time, so it is heard once; and the reason is     *)
(* the one the service gave (OnCanceled of proxy and stub).                    *)
THEOREM EventsAreHeardOnce == Spec => []HeardOnce
<1>1. TypeOK /\ InOnePlace => HeardOnce
  <2> SUFFICES ASSUME TypeOK, InOnePlace PROVE HeardOnce
    OBVIOUS
  <2>1. ASSUME NEW i \in DOMAIN heard
        PROVE  /\ heard[i] \in Tellings /\ heard[i].event \in Events
               /\ Has(heard[i].id, heard[i].event.callback)
               /\ TellingNumber[heard[i]] = heard[i].event.n
    BY KnownAreTyped, NumbersAre DEF KnownTellings, Tellings
  <2>2. Distinct(heard, TellingNumber)
    BY DEF InOnePlace
  <2>3. \A i, j \in DOMAIN heard :
          i # j /\ heard[i].event.n # 0 => heard[i].event.n # heard[j].event.n
    BY <2>1, <2>2 DEF Distinct
  <2>4. \A i \in DOMAIN heard :
          /\ heard[i].event.callback \in CallbacksOf[instances[heard[i].id]]
          /\ heard[i].event.callback = "onCancel" => heard[i].event.reason \in Reasons
    BY <2>1 DEF Has, Events
  <2> QED BY <2>3, <2>4 DEF HeardOnce
<1> QED BY <1>1, InitTyped, InitOnce, StepTyped, StepOnce, PTL DEF Spec

----------------------------------------------------------------------------
(* The end of an instance is in one place.                                     *)

LEMMA EndsAre ==
  /\ \A m \in Messages : EndMessage[m] = IF m.name = "OnDisconnected" THEN 1 ELSE 0
  /\ \A w \in Works :
       /\ EndTold[w] = IF w.what = "event" /\ w.event.callback = "onDisconnect" THEN w.id ELSE 0
       /\ EndWork[w] = IF w.what = "unsubscribe" /\ w.marked THEN w.id ELSE EndTold[w]
  BY DEF EndMessage, EndTold, EndWork

(* Each instance that was not deleted is the one listed for its object.        *)
ListedLive == \A id \in Ids : listed[instances[id]] = id \/ id \in deleted

LEMMA ListedStays ==
  ASSUME ListedLive, UNCHANGED <<instances, listed>>, deleted \subseteq deleted'
  PROVE  ListedLive'
  BY DEF ListedLive, Ids

(* What a step that moves no end leaves.                                       *)
LEMMA SameEnds ==
  ASSUME TypeOK, OneEnd, ListedLive',
         \A id \in Ids : instances'[id] = instances[id],
         DOMAIN link' = DOMAIN link,
         \A id \in DOMAIN link :
           /\ Distinct(link'[id], EndMessage)
           /\ Numbers(link'[id], EndMessage) = Numbers(link[id], EndMessage),
         Distinct(pool', EndWork), Numbers(pool', EndWork) = Numbers(pool, EndWork),
         Distinct(ready', EndTold), Numbers(ready', EndTold) = Numbers(ready, EndTold),
         UNCHANGED deleting
  PROVE  OneEnd'
<1>1. \A id : id \in DOMAIN link => (Ending(id) <=> Ending(id)')
  BY DEF Ending
<1>2. \A id \in deleting : Has(id, "onDisconnect") <=> Has(id, "onDisconnect")'
  BY DEF Has, TypeOK
<1> QED BY <1>1, <1>2 DEF OneEnd, ListedLive

LEMMA InitEnds == Init => OneEnd
<1> SUFFICES ASSUME Init PROVE OneEnd
  OBVIOUS
<1>1. /\ pool = <<>> /\ ready = <<>> /\ deleting = {} /\ Ids = {}
      /\ \A id \in DOMAIN link : link[id] = <<>>
  BY DEF Init, Ids
<1>2. \A id \in DOMAIN link : ~Ending(id)
  BY <1>1, NumbersOfNone DEF Ending
<1> QED BY <1>1, <1>2, NumbersOfNone DEF OneEnd

LEMMA CrashEnds == TypeOK /\ OneEnd /\ Crash => OneEnd'
<1> SUFFICES ASSUME TypeOK, OneEnd, Crash PROVE OneEnd'
  OBVIOUS
<1>1. UNCHANGED <<instances, listed, deleting, deleted, link, pool, ready>>
  BY DEF Crash, instanceVars
<1>2. ListedLive'
  BY <1>1, ListedStays DEF OneEnd, ListedLive
<1> QED BY <1>1, <1>2, SameEnds DEF OneEnd

(* An object that is not listed has only instances that were deleted.          *)
LEMMA ParseEnds ==
  ASSUME TypeOK, ListedLive, NEW o \in Objects, ParseParameters(o), deleted \subseteq deleted'
  PROVE  ListedLive' /\ \A id \in Ids : instances'[id] = instances[id]
<1>1. CASE HasNotificationSubscriber(o)
  BY <1>1, ListedStays DEF ParseParameters
<1>2. CASE ~HasNotificationSubscriber(o)
  <2>1. /\ instances' = Append(instances, o) /\ listed[o] = 0
        /\ listed' = [listed EXCEPT ![o] = Len(instances) + 1]
    BY <1>2 DEF ParseParameters, HasNotificationSubscriber
  <2>2. /\ instances \in Seq(Objects) /\ Len(instances) \in Nat /\ Ids = 1 .. Len(instances)
        /\ \A id \in Ids : id # 0
    BY IdsAreNumbers DEF TypeOK
  <2>3. /\ Len(instances') = Len(instances) + 1 /\ Ids' = 1 .. Len(instances) + 1
        /\ instances'[Len(instances) + 1] = o
        /\ \A id \in Ids : instances'[id] = instances[id]
    BY <2>1, <2>2, AppendProperties, LenProperties DEF Ids
  <2>4. listed'[o] = Len(instances) + 1
        /\ \A b \in Objects \ {o} : listed'[b] = listed[b]
    BY <2>1 DEF TypeOK
  <2>5. ASSUME NEW id \in Ids PROVE listed'[instances'[id]] = id \/ id \in deleted'
    <3>1. instances[id] \in Objects
      BY IdsAreNumbers
    <3>2. CASE instances[id] = o
      BY <2>1, <2>2, <3>2 DEF ListedLive
    <3>3. CASE instances[id] # o
      BY <2>3, <2>4, <3>1, <3>3 DEF ListedLive
    <3> QED BY <3>2, <3>3
  <2>6. ASSUME NEW id \in Ids' PROVE listed'[instances'[id]] = id \/ id \in deleted'
    <3>1. id \in Ids \/ id = Len(instances) + 1
      BY <2>2, <2>3
    <3> QED BY <2>3, <2>4, <2>5, <3>1
  <2> QED BY <2>3, <2>6 DEF ListedLive
<1> QED BY <1>1, <1>2

(* A call is made.                                                             *)
LEMMA CallEnds ==
  ASSUME TypeOK, OneEnd, ListedLive', \A id \in Ids : instances'[id] = instances[id],
         NEW w \in Works, w.what # "event", ~w.marked,
         pool' = Append(pool, w), UNCHANGED <<deleting, link, ready>>
  PROVE  OneEnd'
<1>1. EndWork[w] = 0
  BY EndsAre
<1>2. pool \in Seq(Works) /\ Distinct(pool, EndWork)
  BY KnownAreTyped DEF OneEnd
<1>3. Distinct(pool', EndWork) /\ Numbers(pool', EndWork) = Numbers(pool, EndWork)
  BY <1>1, <1>2, PlainAppend
<1> QED BY <1>3, SameEnds DEF OneEnd

(* A call that ends, and is not the one that unsubscribes.                     *)
LEMMA EndlessFinish ==
  ASSUME TypeOK, OneEnd, NEW i \in DOMAIN pool, EndWork[pool[i]] = 0, EndTold[pool[i]] = 0,
         Finish(i)
  PROVE  /\ Distinct(pool', EndWork) /\ Numbers(pool', EndWork) = Numbers(pool, EndWork)
         /\ Distinct(ready', EndTold) /\ Numbers(ready', EndTold) = Numbers(ready, EndTold)
<1>1. pool \in Seq(Works) /\ ready \in Seq(Works) /\ pool[i] \in Works
  BY KnownAreTyped DEF KnownWorks
<1>2. Distinct(pool, EndWork) /\ Distinct(ready, EndTold)
  BY DEF OneEnd
<1> QED BY <1>1, <1>2, PlainAppend, PlainRemove DEF Finish

(* A message other than OnDisconnected is sent.                                *)
LEMMA EndlessMessage ==
  ASSUME TypeOK, OneEnd, NEW id \in 1 .. MaxInstances, NEW m \in Messages,
         m.name # "OnDisconnected", link' = [link EXCEPT ![id] = Append(@, m)]
  PROVE  /\ DOMAIN link' = DOMAIN link
         /\ \A other \in DOMAIN link :
              /\ Distinct(link'[other], EndMessage)
              /\ Numbers(link'[other], EndMessage) = Numbers(link[other], EndMessage)
<1>1. /\ link[id] \in Seq(Messages) /\ id \in DOMAIN link
      /\ DOMAIN link = 1 .. MaxInstances /\ DOMAIN link' = 1 .. MaxInstances
      /\ link'[id] = Append(link[id], m)
      /\ \A other \in 1 .. MaxInstances \ {id} : link'[other] = link[other]
  BY LinkIsTyped DEF TypeOK
<1>2. EndMessage[m] = 0 /\ Distinct(link[id], EndMessage)
  BY <1>1, EndsAre DEF OneEnd
<1>3. /\ Distinct(link'[id], EndMessage)
      /\ Numbers(link'[id], EndMessage) = Numbers(link[id], EndMessage)
  BY <1>1, <1>2, PlainAppend
<1> QED BY <1>1, <1>3 DEF OneEnd

LEMMA RunSubscribeEnds ==
  ASSUME TypeOK, OneEnd, NEW i \in DOMAIN pool, RunSubscribe(i)
  PROVE  OneEnd'
<1>1. CASE Crash
  BY <1>1, CrashEnds
<1>2. CASE ~Crash
  <2> DEFINE id == pool[i].id
             m == Message("OnConnected", 0, NoReason)
  <2>1. /\ Finish(i) /\ pool[i].what = "subscribe"
        /\ link' = link \/ link' = [link EXCEPT ![id] = Append(@, m)]
        /\ UNCHANGED <<instances, listed, deleting, deleted>>
    BY <1>2 DEF RunSubscribe, instanceVars
  <2>2. id \in 1 .. MaxInstances /\ pool[i] \in Works
    BY KnownAreTyped, IdsAreNumbers DEF KnownWorks
  <2>3. m \in Messages /\ m.name # "OnDisconnected"
    BY MessageIsTyped DEF Names
  <2>4. EndWork[pool[i]] = 0 /\ EndTold[pool[i]] = 0
    BY <2>1, <2>2, EndsAre
  <2> HIDE DEF id, m
  <2>5. /\ DOMAIN link' = DOMAIN link
        /\ \A other \in DOMAIN link :
             /\ Distinct(link'[other], EndMessage)
             /\ Numbers(link'[other], EndMessage) = Numbers(link[other], EndMessage)
    BY <2>1, <2>2, <2>3, EndlessMessage DEF OneEnd
  <2>6. ListedLive'
    BY <2>1, ListedStays DEF OneEnd, ListedLive
  <2> QED BY <2>1, <2>4, <2>5, <2>6, EndlessFinish, SameEnds
<1> QED BY <1>1, <1>2

(* The mark is set where there was none, so nothing ends the instance yet.     *)
LEMMA AddDeletingEnds ==
  ASSUME TypeOK, OneEnd, NEW i \in DOMAIN pool, AddDeletingSubscriber(i)
  PROVE  OneEnd'
<1> DEFINE id == pool[i].id
           w == [pool[i] EXCEPT !.marked = TRUE]
<1>1. /\ pool[i].what = "unsubscribe" /\ ~pool[i].marked
      /\ UNCHANGED <<instances, listed, deleted, link>>
  BY DEF AddDeletingSubscriber
<1>2. ListedLive'
  BY <1>1, ListedStays DEF OneEnd, ListedLive
<1>3. pool \in Seq(Works) /\ pool[i] \in Works /\ id \in Ids /\ id \in 1 .. MaxInstances
  BY KnownAreTyped, IdsAreNumbers DEF KnownWorks
<1>4. EndWork[pool[i]] = 0 /\ EndTold[pool[i]] = 0
  BY <1>1, <1>3, EndsAre
<1>5. CASE Finish(i) /\ UNCHANGED deleting
  BY <1>1, <1>2, <1>4, <1>5, EndlessFinish, SameEnds DEF OneEnd
<1>6. CASE /\ id \notin deleting /\ deleting' = deleting \cup {id}
           /\ pool' = [pool EXCEPT ![i].marked = TRUE] /\ UNCHANGED ready
  <2>1. w \in Works /\ w.what = "unsubscribe" /\ w.marked /\ w.id = id
    BY <1>1, <1>3 DEF Works
  <2>2. pool' = [pool EXCEPT ![i] = w]
    BY <1>6
  <2>3. EndWork[w] = id
    BY <2>1, EndsAre
  <2>4. id \in DOMAIN link /\ id # 0
    BY <1>3 DEF TypeOK
  <2>5. /\ Numbers(link[id], EndMessage) = {} /\ id \notin Numbers(pool, EndWork)
        /\ id \notin Numbers(ready, EndTold)
    BY <1>6, <2>4 DEF OneEnd, Ending
  <2> HIDE DEF w, id
  <2>6. /\ Numbers(pool', EndWork) = Numbers(pool, EndWork) \cup {id}
        /\ Distinct(pool', EndWork)
    <3> DEFINE r == [pool EXCEPT ![i] = w]
    <3>1. Distinct(pool, EndWork)
      BY DEF OneEnd
    <3>2. /\ Numbers(r, EndWork) = Numbers(pool, EndWork) \cup ({EndWork[w]} \ {0})
          /\ EndWork[w] \notin Numbers(pool, EndWork) => Distinct(r, EndWork)
      BY <1>3, <1>4, <2>1, <3>1, ChangedNumbers
    <3> HIDE DEF r
    <3> QED BY <2>2, <2>3, <2>4, <2>5, <3>2 DEF r
  <2>7. \A other \in DOMAIN link : Ending(other)' <=> (Ending(other) \/ other = id)
    BY <1>1, <1>6, <2>6 DEF Ending
  <2>8. \A other : Has(other, "onDisconnect") <=> Has(other, "onDisconnect")'
    BY <1>1 DEF Has
  <2> QED BY <1>1, <1>2, <1>6, <2>5, <2>6, <2>7, <2>8 DEF OneEnd, ListedLive
<1> QED BY <1>5, <1>6 DEF AddDeletingSubscriber

(* What takes the end of one instance out of a place, and puts it in another.  *)
LEMMA EndTakenOut ==
  ASSUME TypeOK, OneEnd, NEW i \in DOMAIN pool, Finish(i)
  PROVE  LET e == EndWork[pool[i]]
             t == EndTold[pool[i]]
         IN  /\ Numbers(pool', EndWork) = Numbers(pool, EndWork) \ {e}
             /\ Distinct(pool', EndWork)
             /\ e # 0 => e \in Numbers(pool, EndWork) /\ e \notin Numbers(ready, EndTold)
             /\ (t = 0 \/ t = e) =>
                  /\ Distinct(ready', EndTold)
                  /\ Numbers(ready', EndTold) = Numbers(ready, EndTold) \cup ({t} \ {0})
<1> DEFINE w == pool[i]
           e == EndWork[w]
           t == EndTold[w]
<1>1. pool \in Seq(Works) /\ ready \in Seq(Works) /\ w \in Works
  BY KnownAreTyped DEF KnownWorks
<1>2. Distinct(pool, EndWork) /\ Distinct(ready, EndTold)
      /\ Numbers(pool, EndWork) \cap Numbers(ready, EndTold) = {}
  BY DEF OneEnd
<1>3. pool' = RemoveAt(pool, i) /\ ready' = Append(ready, w)
  BY DEF Finish
<1>4. /\ Numbers(pool', EndWork) \subseteq Numbers(pool, EndWork)
      /\ Numbers(pool, EndWork) \subseteq Numbers(pool', EndWork) \cup {e}
      /\ Distinct(pool', EndWork) /\ e \notin Numbers(pool', EndWork)
  BY <1>1, <1>2, <1>3, RemovedNumbers
<1>5. e # 0 => e \in Numbers(pool, EndWork)
  BY ElementNumber
<1> HIDE DEF w, e, t
<1>6. e # 0 => e \notin Numbers(ready, EndTold)
  BY <1>2, <1>5
<1>7. ASSUME t = 0 \/ t = e
      PROVE  /\ Distinct(ready', EndTold)
             /\ Numbers(ready', EndTold) = Numbers(ready, EndTold) \cup ({t} \ {0})
  <2>1. t \notin Numbers(ready, EndTold)
    BY <1>6, <1>7, NoNumberIsZero
  <2> QED BY <1>1, <1>2, <1>3, <2>1, AppendNumbers DEF t
<1> QED BY <1>4, <1>5, <1>6, <1>7 DEF w, e, t

(* From the work that unsubscribes to the message, or to its end.              *)
LEMMA RunUnsubscribeEnds ==
  ASSUME TypeOK, OneEnd, NEW i \in DOMAIN pool, RunUnsubscribe(i)
  PROVE  OneEnd'
<1>1. CASE Crash
  BY <1>1, CrashEnds
<1>2. CASE ~Crash
  <2> DEFINE w == pool[i]
             id == pool[i].id
             m == Message("OnDisconnected", 0, NoReason)
  <2>1. /\ Finish(i) /\ w.what = "unsubscribe" /\ w.marked
        /\ \/ link' = [link EXCEPT ![id] = Append(@, m)] /\ UNCHANGED deleting
           \/ deleting' = deleting \ {id} /\ UNCHANGED link
        /\ UNCHANGED <<instances, listed, deleted>>
    BY <1>2 DEF RunUnsubscribe
  <2>2. w \in Works /\ id \in Ids /\ id \in 1 .. MaxInstances /\ id # 0
    BY KnownAreTyped, IdsAreNumbers DEF KnownWorks
  <2>3. EndWork[w] = id /\ EndTold[w] = 0
    BY <2>1, <2>2, EndsAre
  <2>4. /\ Numbers(pool', EndWork) = Numbers(pool, EndWork) \ {id} /\ Distinct(pool', EndWork)
        /\ id \in Numbers(pool, EndWork) /\ id \notin Numbers(ready, EndTold)
        /\ Distinct(ready', EndTold) /\ Numbers(ready', EndTold) = Numbers(ready, EndTold)
    BY <2>1, <2>2, <2>3, EndTakenOut
  <2>5. m \in Messages /\ EndMessage[m] = 1
    <3>1. m \in Messages /\ m.name = "OnDisconnected"
      BY MessageIsTyped DEF Names
    <3> HIDE DEF m
    <3> QED BY <3>1, EndsAre
  <2> HIDE DEF w, id, m
  <2>6. id \in DOMAIN link /\ DOMAIN link = 1 .. MaxInstances
    BY <2>2 DEF TypeOK
  <2>7. Numbers(link[id], EndMessage) = {} /\ Distinct(link[id], EndMessage)
    BY <2>4, <2>6 DEF OneEnd
  <2>8. ListedLive' /\ \A other : Has(other, "onDisconnect") <=> Has(other, "onDisconnect")'
    BY <2>1, ListedStays DEF OneEnd, ListedLive, Has
  <2>9. \A other \in DOMAIN link :
          other \in Numbers(pool', EndWork) \cup Numbers(ready', EndTold)
            <=> other # id /\ other \in Numbers(pool, EndWork) \cup Numbers(ready, EndTold)
    BY <2>4
  <2>10. CASE link' = [link EXCEPT ![id] = Append(@, m)] /\ UNCHANGED deleting
    <3>1. /\ DOMAIN link' = DOMAIN link /\ link'[id] = Append(link[id], m)
          /\ \A other \in DOMAIN link \ {id} : link'[other] = link[other]
      BY <2>6, <2>10
    <3>2. link[id] \in Seq(Messages)
      BY <2>6 DEF TypeOK
    <3>3. Numbers(link'[id], EndMessage) = {1} /\ Distinct(link'[id], EndMessage)
      BY <2>5, <2>7, <3>1, <3>2, AppendNumbers
    <3>4. \A other : other \in DOMAIN link => (Ending(other)' <=> Ending(other))
      BY <2>4, <2>6, <3>1, <3>3 DEF Ending
    <3> QED BY <2>4, <2>8, <2>9, <2>10, <3>1, <3>3, <3>4 DEF OneEnd, ListedLive
  <2>11. CASE deleting' = deleting \ {id} /\ UNCHANGED link
    <3>1. \A other : other \in DOMAIN link => (Ending(other)' <=> Ending(other) /\ other # id)
      BY <2>4, <2>7, <2>11 DEF Ending
    <3> QED BY <2>4, <2>8, <2>9, <2>11, <3>1 DEF OneEnd, ListedLive
  <2> QED BY <2>1, <2>10, <2>11
<1> QED BY <1>1, <1>2

LEMMA RunEventEnds ==
  ASSUME TypeOK, OneEnd, NEW i \in DOMAIN pool, RunEvent(i)
  PROVE  OneEnd'
<1> DEFINE w == pool[i]
           e == EndWork[w]
<1>1. /\ Finish(i) /\ w.what = "event"
      /\ UNCHANGED <<instances, listed, deleting, deleted, link>>
  BY DEF RunEvent, instanceVars
<1>2. w \in Works
  BY KnownAreTyped DEF KnownWorks
<1>3. EndTold[w] = e
  BY <1>1, <1>2, EndsAre
<1>4. /\ Numbers(pool', EndWork) = Numbers(pool, EndWork) \ {e} /\ Distinct(pool', EndWork)
      /\ e # 0 => e \in Numbers(pool, EndWork) /\ e \notin Numbers(ready, EndTold)
      /\ Distinct(ready', EndTold)
      /\ Numbers(ready', EndTold) = Numbers(ready, EndTold) \cup ({e} \ {0})
  BY <1>1, <1>3, EndTakenOut
<1> HIDE DEF w, e
<1>5. \A other \in DOMAIN link :
        other \in Numbers(pool', EndWork) \cup Numbers(ready', EndTold)
          <=> other \in Numbers(pool, EndWork) \cup Numbers(ready, EndTold)
  BY <1>4, NoNumberIsZero
<1>6. Numbers(pool', EndWork) \cap Numbers(ready', EndTold) = {}
  BY <1>4 DEF OneEnd
<1>7. ListedLive' /\ \A other : Has(other, "onDisconnect") <=> Has(other, "onDisconnect")'
  BY <1>1, ListedStays DEF OneEnd, ListedLive, Has
<1>8. \A other : other \in DOMAIN link => (Ending(other)' <=> Ending(other))
  BY <1>1, <1>5 DEF Ending
<1> QED BY <1>1, <1>4, <1>5, <1>6, <1>7, <1>8 DEF OneEnd, ListedLive

(* An event of the service ends nothing.                                       *)
LEMMA PostEnds ==
  ASSUME TypeOK, OneEnd, NEW id \in Ids, NEW name \in Posted,
         NEW reason \in Reasons \cup {NoReason}, Post(id, name, reason)
  PROVE  OneEnd'
<1> DEFINE m == Message(name, posts + 1, reason)
<1>1. /\ link' = [link EXCEPT ![id] = Append(@, m)]
      /\ reason # NoReason <=> name = "OnCanceled"
      /\ UNCHANGED <<instances, listed, deleting, deleted, pool, ready>>
  BY DEF Post, instanceVars
<1>2. id \in 1 .. MaxInstances /\ posts + 1 \in Nat
  BY IdsAreNumbers DEF TypeOK
<1>3. m \in Messages /\ m.name # "OnDisconnected"
  <2>1. name \in Names /\ name # "OnDisconnected"
    BY InstancesAssumption DEF Names
  <2> QED BY <1>1, <1>2, <2>1, MessageIsTyped
<1> HIDE DEF m
<1>4. ListedLive'
  BY <1>1, ListedStays DEF OneEnd, ListedLive
<1> QED BY <1>1, <1>2, <1>3, <1>4, EndlessMessage, SameEnds DEF OneEnd

(* An event is told that does not end the instance.                            *)
LEMMA EndlessTelling ==
  ASSUME TypeOK, OneEnd, NEW id \in Ids, NEW e \in Events, e.callback # "onDisconnect",
         \/ pool' = pool
         \/ Has(id, e.callback) /\ pool' = Append(pool, Telling(id, e))
  PROVE  Distinct(pool', EndWork) /\ Numbers(pool', EndWork) = Numbers(pool, EndWork)
<1> DEFINE w == Telling(id, e)
<1>1. pool \in Seq(Works) /\ Distinct(pool, EndWork)
  BY KnownAreTyped DEF OneEnd
<1>2. ASSUME Has(id, e.callback) PROVE w \in Works /\ EndWork[w] = 0
  <2>1. w \in Works /\ w.what = "event" /\ w.event = e
    BY <1>2, TellingIsKnown DEF KnownWorks
  <2> HIDE DEF w
  <2> QED BY <2>1, EndsAre
<1> HIDE DEF w
<1>3. pool' = pool \/ (w \in Works /\ EndWork[w] = 0 /\ pool' = Append(pool, w))
  BY <1>2 DEF w
<1>4. CASE w \in Works /\ EndWork[w] = 0 /\ pool' = Append(pool, w)
  <2>1. /\ Distinct(Append(pool, w), EndWork)
        /\ Numbers(Append(pool, w), EndWork) = Numbers(pool, EndWork)
    BY <1>1, <1>4, PlainAppend
  <2> QED BY <1>4, <2>1
<1> QED BY <1>1, <1>3, <1>4

(* From the message to the work, unless the object does not hear of it.        *)
LEMMA OnMessageEnds ==
  ASSUME TypeOK, OneEnd, NEW id \in Ids, OnMessage(id)
  PROVE  OneEnd'
<1>1. CASE Crash
  BY <1>1, CrashEnds
<1>2. CASE ~Crash
  <2> DEFINE m == Head(link[id])
             e == EventOf(m)
  <2>1. /\ link[id] # <<>>
        /\ link' = [link EXCEPT ![id] = Tail(@)]
        /\ \/ pool' = pool /\ ~Has(id, SubscriberImpl[m.name].callback)
           \/ pool' = pool /\ ~Reads(ParcelOf(m), AnsSubscriberStub[m.name])
           \/ /\ Has(id, SubscriberImpl[m.name].callback)
              /\ pool' = Append(pool, Telling(id, e))
        /\ UNCHANGED <<instances, listed, deleting, deleted, ready>>
    BY <1>2, OnMessageDoes
  <2>2. /\ id \in 1 .. MaxInstances /\ id # 0
    BY IdsAreNumbers
  <2>3. /\ link[id] \in Seq(Messages) /\ id \in DOMAIN link /\ m \in Messages
        /\ DOMAIN link = 1 .. MaxInstances /\ DOMAIN link' = DOMAIN link
        /\ link'[id] = Tail(link[id])
        /\ \A other \in DOMAIN link \ {id} : link'[other] = link[other]
    BY <2>1, <2>2, TakenIsTyped DEF TypeOK
  <2>4. /\ e \in Events /\ e.callback = SubscriberImpl[m.name].callback
        /\ e.callback = "onDisconnect" <=> m.name = "OnDisconnected"
    BY <2>3, MessageIsTold
  <2>5. m.name = "OnDisconnected" => Reads(ParcelOf(m), AnsSubscriberStub[m.name])
    <3>1. AnsSubscriberStub["OnDisconnected"] = <<>>
      BY DEF AnsSubscriberStub
    <3> HIDE DEF m
    <3> QED BY <3>1 DEF Reads
  <2>6. ListedLive' /\ \A other : Has(other, "onDisconnect") <=> Has(other, "onDisconnect")'
    BY <2>1, ListedStays DEF OneEnd, ListedLive, Has
  <2>7. EndMessage[m] = IF m.name = "OnDisconnected" THEN 1 ELSE 0
    BY <2>3, EndsAre
  <2>8. /\ Numbers(link'[id], EndMessage) \subseteq Numbers(link[id], EndMessage)
        /\ Numbers(link[id], EndMessage) \subseteq Numbers(link'[id], EndMessage) \cup {EndMessage[m]}
        /\ EndMessage[m] # 0 => EndMessage[m] \in Numbers(link[id], EndMessage)
        /\ Distinct(link'[id], EndMessage) /\ EndMessage[m] \notin Numbers(link'[id], EndMessage)
    BY <2>1, <2>3, TailNumbers DEF OneEnd
  <2>9. CASE m.name # "OnDisconnected"
    <3>1. Distinct(pool', EndWork) /\ Numbers(pool', EndWork) = Numbers(pool, EndWork)
      <4>1. e.callback # "onDisconnect" /\ (\/ pool' = pool
                                            \/ /\ Has(id, e.callback)
                                               /\ pool' = Append(pool, Telling(id, e)))
        BY <2>1, <2>4, <2>9
      <4> HIDE DEF e
      <4> QED BY <2>4, <4>1, EndlessTelling
    <3>2. Numbers(link'[id], EndMessage) = Numbers(link[id], EndMessage)
      BY <2>7, <2>8, <2>9, NoNumberIsZero
    <3> HIDE DEF m, e
    <3> QED BY <2>1, <2>3, <2>6, <2>8, <3>1, <3>2, SameEnds DEF OneEnd
  <2>10. CASE m.name = "OnDisconnected"
    <3> DEFINE w == Telling(id, e)
    <3>1. Numbers(link[id], EndMessage) \subseteq {1}
      <4>1. \A i \in DOMAIN link[id] : link[id][i] \in Messages
        BY <2>3, LenProperties, ElementOfSeq
      <4> QED BY <4>1, EndsAre DEF Numbers
    <3>2. Numbers(link[id], EndMessage) = {1} /\ Numbers(link'[id], EndMessage) = {}
      BY <2>7, <2>8, <2>10, <3>1
    <3>3. id \notin Numbers(pool, EndWork) /\ id \notin Numbers(ready, EndTold)
      BY <2>3, <3>2 DEF OneEnd
    <3>4. \/ pool' = pool /\ ~Has(id, "onDisconnect")
          \/ /\ Numbers(pool', EndWork) = Numbers(pool, EndWork) \cup {id}
             /\ Distinct(pool', EndWork)
      <4>1. \/ pool' = pool /\ ~Has(id, "onDisconnect")
            \/ Has(id, e.callback) /\ pool' = Append(pool, w)
        BY <2>1, <2>4, <2>5, <2>10
      <4>2. CASE Has(id, e.callback) /\ pool' = Append(pool, w)
        <5>1. w \in Works /\ w.what = "event" /\ w.event = e /\ w.id = id
          <6> HIDE DEF e
          <6> QED BY <2>4, <4>2, TellingIsKnown DEF KnownWorks
        <5> HIDE DEF w, e
        <5>2. EndWork[w] = id
          BY <2>4, <2>10, <5>1, EndsAre
        <5>3. pool \in Seq(Works) /\ Distinct(pool, EndWork)
          BY KnownAreTyped DEF OneEnd
        <5> QED BY <2>2, <3>3, <4>2, <5>1, <5>2, <5>3, AppendNumbers
      <4> QED BY <4>1, <4>2
    <3> HIDE DEF m, e, w
    <3>5. ready' = ready /\ deleting' = deleting
      BY <2>1
    <3>6. CASE pool' = pool /\ ~Has(id, "onDisconnect")
      <4>1. \A other : other \in DOMAIN link => (Ending(other)' <=> Ending(other) /\ other # id)
        BY <2>3, <3>2, <3>3, <3>5, <3>6 DEF Ending
      <4> QED BY <2>3, <2>6, <2>8, <3>2, <3>5, <3>6, <4>1 DEF OneEnd, ListedLive
    <3>7. CASE /\ Numbers(pool', EndWork) = Numbers(pool, EndWork) \cup {id}
               /\ Distinct(pool', EndWork)
      <4>1. \A other : other \in DOMAIN link => (Ending(other)' <=> Ending(other))
        BY <2>3, <3>2, <3>5, <3>7 DEF Ending
      <4>2. Numbers(pool', EndWork) \cap Numbers(ready', EndTold) = {}
        BY <3>3, <3>5, <3>7 DEF OneEnd
      <4>3. Distinct(ready', EndTold)
        BY <3>5 DEF OneEnd
      <4>4. ASSUME NEW other \in DOMAIN link
            PROVE  /\ Distinct(link'[other], EndMessage)
                   /\ Numbers(link'[other], EndMessage) # {} =>
                        other \notin Numbers(pool', EndWork) \cup Numbers(ready', EndTold)
        BY <2>3, <2>8, <3>2, <3>5, <3>7 DEF OneEnd
      <4>5. ASSUME NEW other \in DOMAIN link
            PROVE  /\ Ending(other)' => other \in deleting'
                   /\ other \in deleting' => Ending(other)' \/ ~Has(other, "onDisconnect")'
        BY <2>6, <3>5, <4>1 DEF OneEnd
      <4> QED BY <2>3, <2>6, <3>7, <4>2, <4>3, <4>4, <4>5 DEF OneEnd, ListedLive
    <3> QED BY <3>4, <3>6, <3>7
  <2> QED BY <2>9, <2>10
<1> QED BY <1>1, <1>2

LEMMA OnRemoteDiedEnds ==
  ASSUME TypeOK, OneEnd, NEW id \in Ids, OnRemoteDied(id)
  PROVE  OneEnd'
<1>1. CASE Crash
  BY <1>1, CrashEnds
<1>2. CASE ~Crash
  <2> DEFINE e == [callback |-> QueueOnDied.callback, n |-> 0, reason |-> NoReason]
  <2>1. /\ \/ pool' = pool
           \/ Has(id, e.callback) /\ pool' = Append(pool, Telling(id, e))
        /\ UNCHANGED <<instances, listed, deleting, deleted, link, ready>>
    BY Zenon, <1>2, OnRemoteDiedDoes
  <2>2. e \in Events /\ e.callback = "onDestroy"
    BY DeathIsAnEvent
  <2> HIDE DEF e
  <2>3. Distinct(pool', EndWork) /\ Numbers(pool', EndWork) = Numbers(pool, EndWork)
    BY <2>1, <2>2, EndlessTelling
  <2>4. ListedLive'
    BY <2>1, ListedStays DEF OneEnd, ListedLive
  <2> QED BY <2>1, <2>3, <2>4, SameEnds DEF OneEnd
<1> QED BY <1>1, <1>2

(* The object is told, and the instance and its mark go.                       *)
LEMMA TurnEventEnds ==
  ASSUME TypeOK, OneEnd, TurnEvent
  PROVE  OneEnd'
<1>1. CASE Crash
  BY <1>1, CrashEnds
<1>2. CASE ~Crash
  <2> DEFINE w == Head(ready)
             id == w.id
  <2>1. /\ ready # <<>> /\ ready' = Tail(ready)
        /\ w \in KnownWorks /\ w.what = "event" /\ id \notin deleted
        /\ IF w.event.callback = "onDisconnect" THEN DelSubscriberInstancesInfo(id)
           ELSE UNCHANGED <<listed, deleting, deleted>>
        /\ UNCHANGED <<instances, link, pool>>
    BY <1>2, TurnEventDoes
  <2>2. /\ w \in Works /\ ready \in Seq(Works) /\ id \in Ids /\ id # 0
        /\ id \in DOMAIN link /\ instances[id] \in Objects
    BY <2>1, KnownAreTyped, IdsAreNumbers DEF KnownWorks, TypeOK
  <2>3. EndTold[w] = IF w.event.callback = "onDisconnect" THEN id ELSE 0
    BY <2>1, <2>2, EndsAre
  <2>4. /\ Numbers(ready', EndTold) \subseteq Numbers(ready, EndTold)
        /\ Numbers(ready, EndTold) \subseteq Numbers(ready', EndTold) \cup {EndTold[w]}
        /\ EndTold[w] # 0 => EndTold[w] \in Numbers(ready, EndTold)
        /\ Distinct(ready', EndTold) /\ EndTold[w] \notin Numbers(ready', EndTold)
    BY <2>1, <2>2, TailNumbers DEF OneEnd
  <2> HIDE DEF w, id
  <2>5. CASE w.event.callback # "onDisconnect"
    <3>1. Numbers(ready', EndTold) = Numbers(ready, EndTold)
      BY <2>3, <2>4, <2>5, NoNumberIsZero
    <3>2. UNCHANGED <<instances, listed, deleting, deleted, link, pool>>
      BY <2>1, <2>5
    <3>3. ListedLive'
      BY <3>2, ListedStays DEF OneEnd, ListedLive
    <3> QED BY <2>4, <3>1, <3>2, <3>3, SameEnds DEF OneEnd
  <2>6. CASE w.event.callback = "onDisconnect"
    <3>1. id \in Numbers(ready, EndTold) /\ Numbers(ready', EndTold) = Numbers(ready, EndTold) \ {id}
      BY <2>2, <2>3, <2>4, <2>6
    <3>2. id \notin Numbers(pool, EndWork) /\ Numbers(link[id], EndMessage) = {}
      BY <2>2, <3>1 DEF OneEnd
    <3>3. /\ listed' = [listed EXCEPT ![instances[id]] = 0]
          /\ deleting' = deleting \ {id} /\ deleted' = deleted \cup {id}
          /\ instances' = instances /\ link' = link /\ pool' = pool
      BY <2>1, <2>2, <2>6 DEF OneEnd, DelSubscriberInstancesInfo
    <3>4. ListedLive'
      <4> SUFFICES ASSUME NEW other \in Ids
                   PROVE  listed'[instances[other]] = other \/ other \in deleted'
        BY <3>3 DEF ListedLive, Ids
      <4>1. listed[instances[other]] = other \/ other \in deleted
        BY DEF OneEnd
      <4>2. listed[instances[id]] = id
        BY <2>1, <2>2 DEF OneEnd
      <4>3. instances[other] # instances[id] => listed'[instances[other]] = listed[instances[other]]
        BY <3>3, IdsAreNumbers DEF TypeOK
      <4> QED BY <3>3, <4>1, <4>2, <4>3
    <3>5. \A other : Has(other, "onDisconnect") <=> Has(other, "onDisconnect")'
      BY <3>3 DEF Has
    <3>6. \A other : other \in DOMAIN link => (Ending(other)' <=> Ending(other) /\ other # id)
      BY <3>1, <3>2, <3>3 DEF Ending
    <3> QED BY <2>4, <3>1, <3>3, <3>4, <3>5, <3>6 DEF OneEnd, ListedLive
  <2> QED BY <2>5, <2>6
<1> QED BY <1>1, <1>2

LEMMA TurnCallEnds ==
  ASSUME TypeOK, OneEnd, TurnCall
  PROVE  OneEnd'
<1>1. /\ ready # <<>> /\ ready' = Tail(ready) /\ Head(ready).what # "event"
      /\ UNCHANGED <<instances, listed, deleting, deleted, link, pool>>
  BY DEF TurnCall, instanceVars
<1>2. ready \in Seq(Works) /\ Head(ready) \in Works /\ EndTold[Head(ready)] = 0
  BY <1>1, KnownAreTyped, HeadTailProperties, EndsAre
<1>3. /\ Distinct(ready', EndTold)
      /\ Numbers(ready', EndTold) = Numbers(ready, EndTold)
  <2>1. Distinct(ready, EndTold)
    BY DEF OneEnd
  <2>2. /\ Numbers(Tail(ready), EndTold) \subseteq Numbers(ready, EndTold)
        /\ Numbers(ready, EndTold) \subseteq Numbers(Tail(ready), EndTold) \cup {0}
        /\ Distinct(Tail(ready), EndTold)
    BY <1>1, <1>2, <2>1, TailNumbers
  <2> QED BY <1>1, <2>2, NoNumberIsZero
<1>4. ListedLive'
  BY <1>1, ListedStays DEF OneEnd, ListedLive
<1> QED BY <1>1, <1>3, <1>4, SameEnds DEF OneEnd

LEMMA StepEnds == TypeOK /\ OneEnd /\ [Next]_vars => OneEnd'
<1> SUFFICES ASSUME TypeOK, OneEnd, [Next]_vars PROVE OneEnd'
  OBVIOUS
<1>1. ListedLive
  BY DEF OneEnd, ListedLive
<1>2. ASSUME UNCHANGED <<instances, listed, deleting, deleted, link, pool, ready>>
      PROVE  OneEnd'
  <2>1. ListedLive'
    BY <1>1, <1>2, ListedStays
  <2> QED BY <1>2, <2>1, SameEnds DEF OneEnd
<1>3. ASSUME NEW o \in Objects, Subscribe(o)
      PROVE  OneEnd'
  <2>1. /\ ParseParameters(o) /\ pool' = Append(pool, Subscribing(listed'[o]))
        /\ UNCHANGED <<deleting, deleted, link, ready>> /\ listed'[o] \in Ids'
    BY <1>3, ParseTyped DEF Subscribe
  <2>2. listed'[o] \in Nat
    <3>1. TypeOK'
      BY <1>3, SubscribeTyped
    <3> QED BY <2>1, <3>1, LenProperties DEF TypeOK, Ids
  <2>3. /\ Subscribing(listed'[o]) \in Works /\ Subscribing(listed'[o]).what # "event"
        /\ ~Subscribing(listed'[o]).marked
    BY <2>2 DEF Subscribing, Work, Works
  <2>4. ListedLive' /\ \A id \in Ids : instances'[id] = instances[id]
    BY <1>1, <2>1, ParseEnds
  <2> QED BY <2>1, <2>3, <2>4, CallEnds
<1>4. ASSUME NEW o \in Objects, SubscribeWrongly(o)
      PROVE  OneEnd'
  <2>1. CASE Crash
    BY <2>1, CrashEnds
  <2>2. CASE /\ ParseParameters(o) /\ deleted' = deleted \cup {listed'[o]}
             /\ UNCHANGED <<deleting, link, pool, ready>>
    <3>1. ListedLive' /\ \A id \in Ids : instances'[id] = instances[id]
      BY <1>1, <2>2, ParseEnds
    <3> QED BY <2>2, <3>1, SameEnds DEF OneEnd
  <2> QED BY <1>4, <2>1, <2>2 DEF SubscribeWrongly
<1>5. ASSUME NEW o \in Objects, Unsubscribe(o)
      PROVE  OneEnd'
  <2>1. /\ pool' = Append(pool, Unsubscribing(listed[o])) /\ listed[o] \in Nat
        /\ UNCHANGED <<instances, listed, deleting, deleted, link, ready>>
    BY <1>5 DEF Unsubscribe, TypeOK, instanceVars
  <2>2. /\ Unsubscribing(listed[o]) \in Works /\ Unsubscribing(listed[o]).what # "event"
        /\ ~Unsubscribing(listed[o]).marked
    BY <2>1 DEF Unsubscribing, Work, Works
  <2>3. ListedLive'
    BY <1>1, <2>1, ListedStays
  <2> QED BY <2>1, <2>2, <2>3, CallEnds
<1>6. CASE RunPool
  <2>1. PICK i \in DOMAIN pool :
          RunEvent(i) \/ RunSubscribe(i) \/ AddDeletingSubscriber(i) \/ RunUnsubscribe(i)
    BY <1>6 DEF RunPool, Runnable
  <2> QED BY <2>1, RunEventEnds, RunSubscribeEnds, AddDeletingEnds, RunUnsubscribeEnds
<1>7. ASSUME NEW id \in Ids, NEW name \in Posted, NEW reason \in Reasons \cup {NoReason},
             Post(id, name, reason)
      PROVE  OneEnd'
  BY <1>7, PostEnds
<1>8. CASE ServiceDies
  BY <1>2, <1>8 DEF ServiceDies, instanceVars
<1>9. ASSUME NEW id \in Ids, OnMessage(id) \/ OnRemoteDied(id)
      PROVE  OneEnd'
  BY <1>9, OnMessageEnds, OnRemoteDiedEnds
<1>10. CASE Turn
  BY <1>10, TurnEventEnds, TurnCallEnds DEF Turn
<1>11. CASE UNCHANGED vars
  BY <1>2, <1>11 DEF vars, instanceVars
<1> QED BY <1>3, <1>4, <1>5, <1>6, <1>7, <1>8, <1>9, <1>10, <1>11 DEF Next

(* UnsubscribedByOne for any objects, any number of calls and a pool of any    *)
(* size: of the calls that unsubscribe an instance one has set its mark        *)
(* (AddDeletingSubscriber), and the mark goes with it or with the              *)
(* disconnection it brings, however the calls and the death of the service     *)
(* fall between its steps.                                                     *)
THEOREM OneUnsubscribes == Spec => []UnsubscribedByOne
<1>1. TypeOK /\ OneEnd => UnsubscribedByOne
  <2> SUFFICES ASSUME TypeOK, OneEnd PROVE UnsubscribedByOne
    OBVIOUS
  <2>1. \A i \in DOMAIN pool : pool[i] \in Works
    BY KnownAreTyped DEF KnownWorks
  <2>2. ASSUME NEW id \in Ids PROVE Cardinality(Unsubscribers(id)) <= 1
    <3>1. \A i \in Unsubscribers(id) : i \in DOMAIN pool /\ EndWork[pool[i]] = id /\ id # 0
      BY <2>1, EndsAre, IdsAreNumbers DEF Unsubscribers
    <3>2. \A i, j \in Unsubscribers(id) : i = j
      <4>1. Distinct(pool, EndWork)
        BY DEF OneEnd
      <4> QED BY <3>1, <4>1 DEF Distinct
    <3>3. Unsubscribers(id) = {} \/ \E i : Unsubscribers(id) = {i}
      BY <3>2
    <3>4. CASE Unsubscribers(id) = {}
      <4>1. Cardinality({}) = 0
        BY FS_EmptySet
      <4> QED BY <3>4, <4>1
    <3>5. ASSUME NEW i, Unsubscribers(id) = {i}
          PROVE  Cardinality(Unsubscribers(id)) <= 1
      <4>1. Cardinality({i}) = 1
        BY FS_Singleton
      <4> QED BY <3>5, <4>1
    <3> QED BY <3>3, <3>4, <3>5
  <2>3. ASSUME NEW id \in deleting
        PROVE  Unsubscribers(id) # {} \/ Disconnecting(id) \/ ~Has(id, "onDisconnect")
    <3>1. id \in DOMAIN link /\ id # 0
      BY IdsAreNumbers DEF TypeOK
    <3>2. Ending(id) \/ ~Has(id, "onDisconnect")
      BY <3>1 DEF OneEnd
    <3>3. CASE Numbers(link[id], EndMessage) # {}
      <4>1. link[id] \in Seq(Messages)
        BY <3>1 DEF TypeOK
      <4>2. \A i \in DOMAIN link[id] : link[id][i] \in Messages
        BY <4>1, LenProperties, ElementOfSeq
      <4>3. PICK i \in DOMAIN link[id] : EndMessage[link[id][i]] # 0
        BY <3>3 DEF Numbers
      <4>4. link[id][i].name = "OnDisconnected"
        BY <4>2, <4>3, EndsAre
      <4> QED BY <4>4 DEF Disconnecting
    <3>4. CASE id \in Numbers(pool, EndWork)
      <4>1. PICK i \in DOMAIN pool : EndWork[pool[i]] = id
        BY <3>4 DEF Numbers
      <4>2. pool[i] \in ToSet(pool)
        BY DEF ToSet
      <4>3. /\ pool[i].id = id
            /\ \/ pool[i].what = "unsubscribe" /\ pool[i].marked
               \/ pool[i].what = "event" /\ pool[i].event.callback = "onDisconnect"
        BY <2>1, <3>1, <4>1, EndsAre
      <4> QED BY <4>2, <4>3 DEF Unsubscribers, Disconnecting
    <3>5. CASE id \in Numbers(ready, EndTold)
      <4>1. PICK i \in DOMAIN ready : EndTold[ready[i]] = id
        BY <3>5 DEF Numbers
      <4>2. ready[i] \in ToSet(ready) /\ ready[i] \in Works
        BY KnownAreTyped DEF ToSet, KnownWorks
      <4>3. ready[i].id = id /\ ready[i].what = "event" /\ ready[i].event.callback = "onDisconnect"
        BY <3>1, <4>1, <4>2, EndsAre
      <4> QED BY <4>2, <4>3 DEF Disconnecting
    <3> QED BY <3>2, <3>3, <3>4, <3>5 DEF Ending
  <2> QED BY <2>2, <2>3 DEF UnsubscribedByOne
<1> QED BY <1>1, InitTyped, InitEnds, StepTyped, StepEnds, PTL DEF Spec
=============================================================================
