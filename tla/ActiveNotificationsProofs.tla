--------------------- MODULE ActiveNotificationsProofs ---------------------
(***************************************************************************)
(* Proofs about ActiveNotifications that hold for every value of its       *)
(* constants.                                                              *)
(***************************************************************************)
EXTENDS ActiveNotifications, FiniteSetTheorems, SequenceTheorems,
        TLAPS

----------------------------------------------------------------------------
(* Lemmas about the operators of the model                                 *)

(* A stretch of a sequence is a sequence over the same set. *)
LEMMA StretchType ==
  ASSUME NEW S, NEW list \in Seq(S),
         NEW m \in 1 .. Len(list) + 1, NEW n \in 0 .. Len(list)
  PROVE  /\ SubSeq(list, m, n) \in Seq(S)
         /\ Len(SubSeq(list, m, n)) = IF m <= n THEN n - m + 1 ELSE 0
         /\ \A i \in 1 .. n - m + 1 : SubSeq(list, m, n)[i] = list[m + i - 1]
<1>1. Len(list) \in Nat /\ m \in Int /\ n \in Int
  BY LenProperties
<1>2. \A i \in m .. n : list[i] \in S
  BY <1>1, ElementOfSeq
<1> QED BY <1>1, <1>2, SubSeqProperties

(* A prefix of a sequence has the type of the sequence. *)
LEMMA PrefixType ==
  ASSUME NEW S, NEW list \in Seq(S), NEW n \in 0 .. Len(list)
  PROVE  /\ SubSeq(list, 1, n) \in Seq(S)
         /\ Len(SubSeq(list, 1, n)) = n
         /\ \A i \in 1 .. n : SubSeq(list, 1, n)[i] = list[i]
<1>1. Len(list) \in Nat /\ n \in Int
  BY LenProperties
<1>2. \A i \in 1 .. n : list[i] \in S
  BY <1>1, ElementOfSeq
<1>3. /\ SubSeq(list, 1, n) \in Seq(S)
      /\ Len(SubSeq(list, 1, n)) = IF 1 <= n THEN n - 1 + 1 ELSE 0
      /\ \A i \in 1 .. n - 1 + 1 : SubSeq(list, 1, n)[i] = list[1 + i - 1]
  BY <1>1, <1>2, SubSeqProperties
<1> QED BY <1>1, <1>3

(* Taking the entry of a key out of a recent list leaves a recent list. *)
LEMMA WithoutType ==
  ASSUME NEW list \in Seq(Recent), NEW key,
         \E i \in DOMAIN list : list[i].key = key
  PROVE  /\ Without(list, key) \in Seq(Recent)
         /\ Len(Without(list, key)) = Len(list) - 1
<1> DEFINE at == CHOOSE i \in DOMAIN list : list[i].key = key
           front == SubSeq(list, 1, at - 1)
           back == SubSeq(list, at + 1, Len(list))
<1>1. at \in 1 .. Len(list)
  OBVIOUS
<1>2. front \in Seq(Recent) /\ Len(front) = at - 1
  BY <1>1, SubSeqProperties
<1>3. back \in Seq(Recent) /\ Len(back) = Len(list) - at
  BY <1>1, SubSeqProperties
<1>4. Without(list, key) = front \o back
  BY DEF Without
<1> HIDE DEF front, back, at
<1>5. /\ front \o back \in Seq(Recent)
      /\ Len(front \o back) = Len(front) + Len(back)
  BY <1>2, <1>3, ConcatProperties
<1> QED
  BY <1>1, <1>2, <1>3, <1>4, <1>5, LenProperties

(* A refreshed recent list is one, and within the count unless that is 0. *)
LEMMA RefreshedType ==
  ASSUME recentList \in Seq(Recent), recentCount \in Nat, NEW key \in KeyType
  PROVE  /\ Refreshed(key) \in Seq(Recent)
         /\ recentCount > 0 /\ Len(recentList) <= recentCount
              => Len(Refreshed(key)) <= recentCount
<1> DEFINE kept == IF InRecent(key) THEN Without(recentList, key)
                   ELSE IF Len(recentList) >= recentCount
                        THEN SubSeq(recentList, 1, Len(recentList) - 1)
                        ELSE recentList
           entry == [key |-> key, active |-> TRUE]
<1>1. entry \in Recent
  BY DEF Recent
<1>2. /\ kept \in Seq(Recent)
      /\ recentCount > 0 /\ Len(recentList) <= recentCount
           => Len(kept) < recentCount
  <2>1. CASE InRecent(key)
    <3>1. /\ Without(recentList, key) \in Seq(Recent)
          /\ Len(Without(recentList, key)) = Len(recentList) - 1
      BY <2>1, WithoutType DEF InRecent
    <3> QED BY <2>1, <3>1, LenProperties
  <2>2. CASE ~InRecent(key) /\ Len(recentList) >= recentCount
    <3>1. CASE recentList = <<>>
      BY <2>2, <3>1
    <3>2. CASE recentList # <<>>
      <4> DEFINE n == Len(recentList) - 1
      <4>1. Len(recentList) \in Nat \ {0} /\ n \in 0 .. Len(recentList)
        BY <3>2, LenProperties
      <4>2. /\ SubSeq(recentList, 1, n) \in Seq(Recent)
            /\ Len(SubSeq(recentList, 1, n)) = n
        <5> HIDE DEF n
        <5> QED BY <4>1, PrefixType
      <4> QED BY <2>2, <4>1, <4>2
    <3> QED BY <3>1, <3>2
  <2>3. CASE ~InRecent(key) /\ ~(Len(recentList) >= recentCount)
    BY <2>3
  <2> QED BY <2>1, <2>2, <2>3
<1>3. /\ <<entry>> \o kept \in Seq(Recent)
      /\ Len(<<entry>> \o kept) = 1 + Len(kept)
  BY <1>1, <1>2, ConcatProperties
<1>4. Refreshed(key) = <<entry>> \o kept
  BY DEF Refreshed
<1> HIDE DEF kept, entry
<1> QED BY <1>2, <1>3, <1>4, LenProperties

(* Deactivating entries changes neither the keys nor the length. *)
LEMMA DeactivatedType ==
  ASSUME recentList \in Seq(Recent), NEW keys
  PROVE  /\ Deactivated(keys) \in Seq(Recent)
         /\ Len(Deactivated(keys)) = Len(recentList)
         /\ \A i \in DOMAIN recentList :
              /\ Deactivated(keys)[i].key = recentList[i].key
              /\ Deactivated(keys)[i].active
                   <=> recentList[i].active /\ recentList[i].key \notin keys
<1>1. /\ DOMAIN recentList = 1 .. Len(recentList)
      /\ Len(recentList) \in Nat
      /\ \A i \in DOMAIN recentList : recentList[i] \in Recent
  BY ElementOfSeq, LenProperties
<1>2. Deactivated(keys) \in [1 .. Len(recentList) -> Recent]
  BY <1>1 DEF Deactivated, Recent
<1> QED BY <1>1, <1>2, IsASeq, LenProperties DEF Deactivated, Recent

(* As many numbers as the last one says.                                       *)
LEMMA SizeOfInterval ==
  ASSUME NEW n \in Nat
  PROVE  IsFiniteSet(1 .. n) /\ Cardinality(1 .. n) = n
<1>1. n \in Int /\ 1 \in Int
  OBVIOUS
<1>2. IsFiniteSet(1 .. n) /\ Cardinality(1 .. n) = IF 1 > n THEN 0 ELSE n - 1 + 1
  BY <1>1, FS_Interval, Zenon
<1> DEFINE size == Cardinality(1 .. n)
<1>3. size = IF 1 > n THEN 0 ELSE n - 1 + 1
  BY <1>2
<1> HIDE DEF size
<1>4. size = n
  BY <1>3
<1> QED BY <1>2, <1>4 DEF size

(* Expiry only drops timestamps. *)
LEMMA RemoveExpiredType ==
  ASSUME NEW list \in Seq(0 .. Window + 1)
  PROVE  RemoveExpired(list) \in Seq(0 .. Window + 1)
<1> DEFINE expired == {i \in DOMAIN list : \A j \in 1 .. i : list[j] > Window}
<1>1. Len(list) \in Nat /\ DOMAIN list = 1 .. Len(list)
  BY LenProperties
<1>2. /\ IsFiniteSet(1 .. Len(list))
      /\ Cardinality(1 .. Len(list)) = Len(list)
  BY <1>1, SizeOfInterval, Zenon
<1>3. Cardinality(expired) \in 0 .. Len(list)
  <2>1. expired \subseteq 1 .. Len(list)
    BY <1>1
  <2> HIDE DEF expired
  <2>2. IsFiniteSet(expired) /\ Cardinality(expired) <= Cardinality(1 .. Len(list))
    BY <1>2, <2>1, FS_Subset
  <2>3. Cardinality(expired) \in Nat
    BY <2>2, FS_CardinalityType
  <2> QED BY <1>1, <1>2, <2>2, <2>3
<1>4. RemoveExpired(list) = SubSeq(list, Cardinality(expired) + 1, Len(list))
  BY DEF RemoveExpired
<1> HIDE DEF expired
<1> DEFINE first == Cardinality(expired) + 1
<1>5. first \in 1 .. Len(list) + 1 /\ Len(list) \in 0 .. Len(list)
  BY <1>1, <1>3
<1> HIDE DEF first
<1>6. SubSeq(list, first, Len(list)) \in Seq(0 .. Window + 1)
  BY <1>5, StretchType
<1> QED BY <1>4, <1>6 DEF first

----------------------------------------------------------------------------
(* What the building blocks of the actions do to the types                 *)

(* The key of a record is a key. *)
LEMMA KeyIsTyped ==
  ASSUME NEW record \in Record
  PROVE  Key(record) \in KeyType
BY DEF Key, KeyType, Record

(* The recent count is a number. *)
LEMMA RecentCountIsNat ==
  ASSUME TypeOK
  PROVE  recentCount \in Nat
BY BoundsAssumption DEF TypeOK

(* The level of a slot that exists or is about to. *)
LEMMA SlotForType ==
  ASSUME TypeOK, NEW app \in Apps, NEW type \in SlotTypes
  PROVE  SlotFor(app, type) \in Slot
<1>1. DefaultSlot(type) \in Slot
  BY RequestsAssumption DEF DefaultSlot, Slot
<1>2. slots[app][type] \in Slot \cup {NoSlot}
  BY DEF TypeOK
<1> QED BY <1>1, <1>2 DEF SlotFor

(* What a request becomes is a record. *)
LEMMA NewRecordType ==
  ASSUME TypeOK, NEW creator \in Apps, NEW app \in Apps,
         NEW request \in Requests
  PROVE  /\ NewRecord(creator, app, request) \in Record
         /\ NewRecord(creator, app, request).app = app
         /\ NewRecord(creator, app, request).creator = creator
         /\ NewRecord(creator, app, request).owner = NameOf[app]
         /\ request.slotType \in SlotTypes
<1>1. request \in RequestType
  BY RequestsAssumption
<1>2. SlotFor(app, request.slotType) \in Slot
  BY <1>1, SlotForType DEF RequestType
<1>3. NameOf[app] \in Names
  BY AppsAssumption
<1> QED
  BY <1>1, <1>2, <1>3 DEF NewRecord, Record, RequestType, Slot, Publishers

(* What the request of a continuous task becomes is a record. *)
LEMMA ContinuousRecordType ==
  ASSUME NEW service \in Services, NEW owner \in Names, NEW request \in Requests
  PROVE  /\ ContinuousRecord(service, owner, request) \in Record
         /\ ContinuousRecord(service, owner, request).app = service
<1>1. request \in RequestType
  BY RequestsAssumption
<1> QED
  BY <1>1 DEF ContinuousRecord, Record, RequestType, Publishers

(* Announcing keeps the recent list and the shown keys typed. *)
LEMMA AnnounceType ==
  ASSUME TypeOK, NEW record \in Record, Announce(record)
  PROVE  recentList' \in Seq(Recent) /\ shown' \subseteq KeyType /\ alive' \in BOOLEAN
<1>1. Key(record) \in KeyType
  BY KeyIsTyped
<1>2. Refreshed(Key(record)) \in Seq(Recent)
  <2>1. recentList \in Seq(Recent) /\ recentCount \in Nat
    BY RecentCountIsNat DEF TypeOK
  <2> QED BY <1>1, <2>1, RefreshedType
<1> QED BY <1>1, <1>2 DEF Announce, TypeOK

(* Removing records keeps the types. *)
LEMMA RemoveType ==
  ASSUME TypeOK, NEW records, Remove(records)
  PROVE  /\ alive' \in BOOLEAN
         /\ notificationList' \subseteq Record
         /\ flowControlTimestampList' \in Seq(0 .. Window + 1)
         /\ recentList' \in Seq(Recent)
         /\ recentCount' \in RecentCounts \cup {DefaultCount}
         /\ shown' \subseteq KeyType
<1>1. Deactivated(Keys(records)) \in Seq(Recent)
  BY DeactivatedType DEF TypeOK
<1> QED BY <1>1 DEF Remove, TypeOK

(* Flow control keeps the types, whatever it decides. *)
LEMMA FlowControlType ==
  ASSUME TypeOK, NEW record \in Record, FlowControl(record)
  PROVE  /\ alive' \in BOOLEAN
         /\ notificationList' \subseteq Record
         /\ flowControlTimestampList' \in Seq(0 .. Window + 1)
         /\ recentList' \in Seq(Recent)
         /\ shown' \subseteq KeyType
<1> DEFINE unexpired == RemoveExpired(flowControlTimestampList)
<1>1. unexpired \in Seq(0 .. Window + 1)
  BY RemoveExpiredType DEF TypeOK
<1>2. Append(unexpired, 0) \in Seq(0 .. Window + 1)
  <2>1. 0 \in 0 .. Window + 1
    BY BoundsAssumption
  <2> HIDE DEF unexpired
  <2> QED BY <1>1, <2>1, AppendProperties
<1>3. /\ Announce(record) => /\ recentList' \in Seq(Recent)
                             /\ shown' \subseteq KeyType
                             /\ alive' \in BOOLEAN
  BY AnnounceType
<1> QED BY <1>1, <1>2, <1>3 DEF FlowControl, TypeOK, listVars

(* Meeting a bundle for the first time gives it a switch. *)
LEMMA IntroducedType ==
  ASSUME TypeOK, NEW app \in Apps
  PROVE  Introduced(app) \in [Apps -> Switch]
BY DEF TypeOK, Introduced, Switch

(* Adding slots keeps the types. *)
LEMMA AddNotificationSlotsType ==
  ASSUME TypeOK, NEW app \in Apps, NEW new, DOMAIN new \subseteq SlotTypes,
         \A type \in DOMAIN new : new[type] \in Slot,
         AddNotificationSlots(app, new)
  PROVE  TypeOK'
<1>1. enabled' \in [Apps -> Switch]
  BY IntroducedType DEF AddNotificationSlots
<1>2. slots' \in [Apps -> [SlotTypes -> Slot \cup {NoSlot}]]
  BY DEF AddNotificationSlots, TypeOK
<1> QED BY <1>1, <1>2 DEF AddNotificationSlots, TypeOK, listVars

(* The slots a call names are slots. *)
LEMMA SlotListsType ==
  ASSUME NEW new \in SlotLists
  PROVE  DOMAIN new \subseteq SlotTypes /\ \A type \in DOMAIN new : new[type] \in Slot
<1>1. PICK types \in (SUBSET SlotTypes) \ {{}} :
        new \in [types -> [enabled : BOOLEAN, level : Levels]]
  BY DEF SlotLists
<1> QED BY <1>1, RequestsAssumption DEF Slot

(* Removing slots keeps the types. *)
LEMMA RemoveSlotsType ==
  ASSUME TypeOK, NEW app \in Apps, NEW types, RemoveSlots(app, types)
  PROVE  TypeOK'
<1>1. slots' \in [Apps -> [SlotTypes -> Slot \cup {NoSlot}]]
  BY DEF RemoveSlots, TypeOK
<1> QED BY <1>1 DEF RemoveSlots, TypeOK, listVars

(* A call that removes records and leaves the preferences alone. *)
LEMMA PlainRemoveType ==
  ASSUME TypeOK, NEW records, Remove(records), UNCHANGED prefVars
  PROVE  TypeOK'
<1>1. enabled' = enabled /\ announced' = announced
      /\ userEnabled' = userEnabled /\ slots' = slots
  BY DEF prefVars
<1> QED BY <1>1, RemoveType DEF TypeOK

----------------------------------------------------------------------------
(* Type correctness                                                        *)

(* Publishing keeps the types. *)
LEMMA PublishingType ==
  ASSUME TypeOK, Publishing
  PROVE  TypeOK'
<1>1. ASSUME NEW creator \in Apps, NEW app \in Apps, NEW request \in Requests,
             Publish(creator, app, request)
      PROVE  TypeOK'
  <2> DEFINE record == NewRecord(creator, app, request)
  <2>1. record \in Record /\ request.slotType \in SlotTypes
    BY NewRecordType
  <2>2. enabled' \in [Apps -> Switch]
    BY <1>1, IntroducedType DEF Publish
  <2>3. slots' \in [Apps -> [SlotTypes -> Slot \cup {NoSlot}]]
    <3>1. SlotFor(app, request.slotType) \in Slot
      BY <2>1, SlotForType
    <3> QED BY <1>1, <2>1, <3>1 DEF Publish, TypeOK
  <2>4. /\ alive' \in BOOLEAN
        /\ notificationList' \subseteq Record
        /\ flowControlTimestampList' \in Seq(0 .. Window + 1)
        /\ recentList' \in Seq(Recent)
        /\ shown' \subseteq KeyType
    <3>1. CASE AssignToNotificationList(record)
      <4>1. CASE FlowControl(record)
        <5> HIDE DEF record
        <5> QED BY <2>1, <4>1, FlowControlType
      <4>2. CASE /\ UpdateInNotificationList(record)
                 /\ Announce(record)
                 /\ UNCHANGED flowControlTimestampList
        <5> HIDE DEF record
        <5> QED BY <2>1, <4>2, AnnounceType DEF UpdateInNotificationList, TypeOK
      <4> QED BY <3>1, <4>1, <4>2 DEF AssignToNotificationList
    <3>2. CASE UNCHANGED <<alive, listVars, flowControlTimestampList>>
      BY <3>2 DEF TypeOK, listVars
    <3> QED BY <1>1, <3>1, <3>2 DEF Publish
  <2> HIDE DEF record
  <2> QED BY <1>1, <2>2, <2>3, <2>4 DEF Publish, TypeOK
<1>2. ASSUME NEW service \in Services, NEW owner \in Names,
             NEW request \in Requests,
             PublishContinuousTaskNotification(service, owner, request)
      PROVE  TypeOK'
  <2> DEFINE record == ContinuousRecord(service, owner, request)
  <2>1. record \in Record
    BY ContinuousRecordType
  <2>2. /\ UpdateInNotificationList(record)
        /\ Announce(record)
        /\ UNCHANGED <<flowControlTimestampList, recentCount, prefVars>>
    BY <1>2 DEF PublishContinuousTaskNotification
  <2> HIDE DEF record
  <2>3. recentList' \in Seq(Recent) /\ shown' \subseteq KeyType /\ alive' \in BOOLEAN
    BY <2>1, <2>2, AnnounceType
  <2>4. notificationList' \subseteq Record
    BY <2>1, <2>2 DEF UpdateInNotificationList, TypeOK
  <2> QED BY <2>2, <2>3, <2>4 DEF TypeOK, prefVars
<1> QED BY <1>1, <1>2 DEF Publishing

(* So do the calls that cancel, *)
LEMMA CancellingType ==
  ASSUME TypeOK, Cancelling
  PROVE  TypeOK'
<1>1. ASSUME NEW app, NEW id, CancelPreparedNotification(app, id)
      PROVE  TypeOK'
  BY <1>1, PlainRemoveType DEF CancelPreparedNotification
<1>2. ASSUME NEW app, CancelAll(app)
      PROVE  TypeOK'
  BY <1>2, PlainRemoveType DEF CancelAll
<1>3. ASSUME NEW app, NEW group, CancelGroup(app, group)
      PROVE  TypeOK'
  BY <1>3, PlainRemoveType DEF CancelGroup
<1>4. ASSUME NEW service, NEW id, CancelContinuousTaskNotification(service, id)
      PROVE  TypeOK'
  BY <1>4, PlainRemoveType DEF CancelContinuousTaskNotification
<1> QED BY <1>1, <1>2, <1>3, <1>4 DEF Cancelling, Cancel, CancelAsBundle

(* those that remove, *)
LEMMA RemovingType ==
  ASSUME TypeOK, Removing
  PROVE  TypeOK'
<1>1. ASSUME NEW key, Delete(key)
      PROVE  TypeOK'
  BY <1>1, PlainRemoveType DEF Delete
<1>2. ASSUME NEW app, DeleteByBundle(app) \/ OnBundleDataCleared(app)
      PROVE  TypeOK'
  BY <1>2, PlainRemoveType DEF DeleteByBundle, OnBundleDataCleared
<1>3. ASSUME NEW user, DeleteAllByUser(user)
      PROVE  TypeOK'
  BY <1>3, PlainRemoveType DEF DeleteAllByUser
<1>4. ASSUME NEW user, RemoveSettings(user)
      PROVE  TypeOK'
  BY <1>4 DEF RemoveSettings, TypeOK, listVars, Switch
<1>5. ASSUME NEW app, NEW id, RemoveNotification(app, id)
      PROVE  TypeOK'
  BY <1>5, PlainRemoveType DEF RemoveNotification
<1>6. ASSUME NEW app, RemoveAllNotifications(app)
      PROVE  TypeOK'
  BY <1>6, PlainRemoveType DEF RemoveAllNotifications
<1>7. ASSUME NEW app, NEW group, RemoveGroupByBundle(app, group)
      PROVE  TypeOK'
  BY <1>7, PlainRemoveType DEF RemoveGroupByBundle
<1>8. ASSUME NEW app \in Apps, OnBundleRemoved(app)
      PROVE  TypeOK'
  <2>1. Remove(KeysMatch(app)) /\ UNCHANGED <<announced, userEnabled>>
    BY <1>8 DEF OnBundleRemoved
  <2>2. /\ enabled' \in [Apps -> Switch]
        /\ slots' \in [Apps -> [SlotTypes -> Slot \cup {NoSlot}]]
    <3>1. CASE UNCHANGED <<enabled, slots>>
      BY <3>1 DEF TypeOK
    <3>2. CASE /\ enabled' = [enabled EXCEPT ![app] = "unknown"]
               /\ slots' = [slots EXCEPT ![app] = [type \in SlotTypes |-> NoSlot]]
      <4>1. "unknown" \in Switch
        BY DEF Switch
      <4>2. [type \in SlotTypes |-> NoSlot] \in [SlotTypes -> Slot \cup {NoSlot}]
        OBVIOUS
      <4> QED BY <3>2, <4>1, <4>2 DEF TypeOK
    <3> QED BY <1>8, <3>1, <3>2 DEF OnBundleRemoved
  <2> QED BY <2>1, <2>2, RemoveType DEF TypeOK
<1> QED
  BY <1>1, <1>2, <1>3, <1>4, <1>5, <1>6, <1>7, <1>8 DEF Removing

(* those that configure, *)
LEMMA ConfiguringType ==
  ASSUME TypeOK, Configuring
  PROVE  TypeOK'
<1>1. ASSUME NEW app \in Apps, NEW value \in {"on", "off"},
             SetNotificationsEnabledForSpecialBundle(app, value)
      PROVE  TypeOK'
  <2>1. PICK records : Remove(records)
    BY <1>1 DEF SetNotificationsEnabledForSpecialBundle
  <2>2. /\ enabled' \in [Apps -> Switch]
        /\ announced' \in [Apps -> Switch]
        /\ UNCHANGED <<userEnabled, slots>>
    BY <1>1 DEF SetNotificationsEnabledForSpecialBundle, TypeOK, Switch
  <2> QED BY <2>1, <2>2, RemoveType DEF TypeOK
<1>2. ASSUME NEW user \in Users, NEW value \in {"on", "off"},
             SetNotificationsEnabled(user, value)
      PROVE  TypeOK'
  BY <1>2 DEF SetNotificationsEnabled, TypeOK, listVars, Switch
<1>3. ASSUME NEW app \in Apps, NEW new \in SlotLists, AddSlots(app, new)
      PROVE  TypeOK'
  <2> DEFINE missing == {type \in DOMAIN new : slots[app][type] = NoSlot}
             added == [type \in missing |-> new[type]]
  <2>1. DOMAIN added \subseteq SlotTypes /\ \A type \in DOMAIN added : added[type] \in Slot
    BY SlotListsType
  <2>2. AddNotificationSlots(app, added)
    BY <1>3 DEF AddSlots
  <2> HIDE DEF added
  <2> QED BY <2>1, <2>2, AddNotificationSlotsType
<1>4. ASSUME NEW app \in Apps, NEW new \in SlotLists, UpdateSlots(app, new)
      PROVE  TypeOK'
  BY <1>4, SlotListsType, AddNotificationSlotsType DEF UpdateSlots
<1>5. ASSUME NEW app \in Apps, NEW type \in SlotTypes, AddSlotByType(app, type)
      PROVE  TypeOK'
  <2> DEFINE added == [t \in {type} |-> DefaultSlot(t)]
  <2>1. DOMAIN added \subseteq SlotTypes /\ \A t \in DOMAIN added : added[t] \in Slot
    BY RequestsAssumption DEF DefaultSlot, Slot
  <2>2. AddNotificationSlots(app, added)
    BY <1>5 DEF AddSlotByType
  <2> HIDE DEF added
  <2> QED BY <2>1, <2>2, AddNotificationSlotsType
<1>6. ASSUME NEW app \in Apps, NEW types, RemoveSlots(app, types)
      PROVE  TypeOK'
  BY <1>6, RemoveSlotsType
<1>7. ASSUME NEW app \in Apps, NEW type \in SlotTypes, NEW value \in BOOLEAN,
             SetEnabledForBundleSlot(app, type, value)
      PROVE  TypeOK'
  <2> DEFINE added == [t \in {type} |-> [SlotFor(app, type) EXCEPT !.enabled = value]]
  <2>1. DOMAIN added \subseteq SlotTypes /\ \A t \in DOMAIN added : added[t] \in Slot
    BY SlotForType DEF Slot
  <2>2. AddNotificationSlots(app, added) \/ RemoveSlots(app, {type})
    BY <1>7 DEF SetEnabledForBundleSlot
  <2> HIDE DEF added
  <2> QED BY <2>1, <2>2, AddNotificationSlotsType, RemoveSlotsType
<1>8. ASSUME NEW count \in RecentCounts, SetRecentNotificationCount(count)
      PROVE  TypeOK'
  <2>1. recentList' \in Seq(Recent)
    <3>1. CASE Len(recentList) > count
      <4>1. recentList \in Seq(Recent) /\ count \in 0 .. Len(recentList)
        BY <3>1, BoundsAssumption, LenProperties DEF TypeOK
      <4> QED BY <1>8, <3>1, <4>1, PrefixType DEF SetRecentNotificationCount
    <3> QED BY <1>8, <3>1 DEF SetRecentNotificationCount, TypeOK
  <2> QED BY <1>8, <2>1 DEF SetRecentNotificationCount, TypeOK, prefVars
<1> QED
  BY <1>1, <1>2, <1>3, <1>4, <1>5, <1>6, <1>7, <1>8
  DEF Configuring, RemoveSlotByType, RemoveAllSlots

(* and the passing of time. *)
LEMMA ElapseType ==
  ASSUME TypeOK, Elapse
  PROVE  TypeOK'
<1>1. flowControlTimestampList \in Seq(0 .. Window + 1)
  BY DEF TypeOK
<1>2. /\ DOMAIN flowControlTimestampList = 1 .. Len(flowControlTimestampList)
      /\ Len(flowControlTimestampList) \in Nat
      /\ \A i \in DOMAIN flowControlTimestampList :
           flowControlTimestampList[i] \in 0 .. Window + 1
  BY <1>1, LenProperties, ElementOfSeq
<1>3. flowControlTimestampList'
        \in [1 .. Len(flowControlTimestampList) -> 0 .. Window + 1]
  BY <1>2, BoundsAssumption DEF Elapse
<1>4. flowControlTimestampList' \in Seq(0 .. Window + 1)
  <2> DEFINE n == Len(flowControlTimestampList)
             aged == flowControlTimestampList'
  <2>1. n \in Nat /\ aged \in [1 .. n -> 0 .. Window + 1]
    BY <1>2, <1>3
  <2> HIDE DEF n, aged
  <2>2. aged \in Seq(0 .. Window + 1)
    BY <2>1, SeqDef
  <2> QED BY <2>2 DEF aged
<1> QED BY <1>4 DEF Elapse, TypeOK, listVars, prefVars

(* The variables keep their types: in particular no timestamp, level or    *)
(* recent entry of another kind enters the lists.                          *)
THEOREM TypeCorrect == Spec => []TypeOK
<1>1. Init => TypeOK
  BY EmptySeq DEF Init, TypeOK, Switch
<1>2. TypeOK /\ [Next]_vars => TypeOK'
  <2> SUFFICES ASSUME TypeOK, [Next]_vars PROVE TypeOK'
    OBVIOUS
  <2>1. CASE Next
    BY <2>1, PublishingType, CancellingType, RemovingType, ConfiguringType,
       ElapseType DEF Next
  <2>2. CASE UNCHANGED vars
    BY <2>2 DEF TypeOK, vars, listVars, prefVars
  <2> QED BY <2>1, <2>2
<1> QED BY <1>1, <1>2, PTL DEF Spec

----------------------------------------------------------------------------
(* What a step can do to the list                                          *)

(* Flow control admits a record under a new key and stamps the admission. *)
Admitted(record) ==
  /\ ~Listed(Key(record))
  /\ Len(RemoveExpired(flowControlTimestampList)) < MaxPerSecond
  /\ flowControlTimestampList' =
       Append(RemoveExpired(flowControlTimestampList), 0)
  /\ \E evicted \in Evictions(EvictionScope(record.owner)) :
       notificationList' = (notificationList \ evicted) \cup {record}
  /\ Announce(record)

(* A record replaces the one of its key, if any. *)
Replaced(record) == UpdateInNotificationList(record) /\ Announce(record)

(* An application's record comes in while its bundle's switch is on. *)
AppStep ==
  \E creator, app \in Apps, request \in Requests :
    /\ creator = app \/ creator \in SystemApps
    /\ enabled'[app] = "on"
    /\ \/ Admitted(NewRecord(creator, app, request))
       \/ /\ Listed(Key(NewRecord(creator, app, request)))
          /\ Replaced(NewRecord(creator, app, request))

TaskStep ==
  \E service \in Services, owner \in Names, request \in Requests :
    Replaced(ContinuousRecord(service, owner, request))

RemoveStep == \E records \in SUBSET notificationList : Remove(records)

(* Every step either leaves the list and what subscribers show alone,      *)
(* takes records out of both, or puts one record into both.                *)
LEMMA StepKinds ==
  ASSUME [Next]_vars
  PROVE  \/ notificationList' = notificationList /\ shown' = shown
         \/ RemoveStep
         \/ AppStep
         \/ TaskStep
<1>1. CASE UNCHANGED vars
  BY <1>1 DEF vars, listVars
<1>2. ASSUME NEW creator \in Apps, NEW app \in Apps, NEW request \in Requests,
             Publish(creator, app, request)
      PROVE  (notificationList' = notificationList /\ shown' = shown) \/ AppStep
  <2> DEFINE record == NewRecord(creator, app, request)
  <2>1. CASE MayPublish(app, request.slotType) /\ AssignToNotificationList(record)
    <3>1. enabled'[app] = "on"
      BY <1>2, <2>1 DEF Publish, MayPublish
    <3>2. CASE ~Listed(Key(record)) /\ FlowControl(record)
      BY <1>2, <3>1, <3>2 DEF Publish, FlowControl, Admitted, AppStep, listVars
    <3>3. CASE Listed(Key(record)) /\ UpdateInNotificationList(record)
               /\ Announce(record)
      BY <1>2, <3>1, <3>3 DEF Publish, Replaced, AppStep
    <3> QED BY <2>1, <3>2, <3>3 DEF AssignToNotificationList
  <2>2. CASE UNCHANGED listVars
    BY <2>2 DEF listVars
  <2> QED BY <1>2, <2>1, <2>2 DEF Publish
<1>3. ASSUME NEW service \in Services, NEW owner \in Names,
             NEW request \in Requests,
             PublishContinuousTaskNotification(service, owner, request)
      PROVE  TaskStep
  BY <1>3 DEF PublishContinuousTaskNotification, TaskStep, Replaced
<1>4. CASE Cancelling
  <2>1. ASSUME NEW app, NEW id, CancelPreparedNotification(app, id)
        PROVE  RemoveStep
    BY <2>1 DEF CancelPreparedNotification, First, RecordsOf, RemoveStep
  <2>2. ASSUME NEW app, CancelAll(app)
        PROVE  RemoveStep
    BY <2>2 DEF CancelAll, KeysMatch, RemoveStep
  <2>3. ASSUME NEW app, NEW group, CancelGroup(app, group)
        PROVE  RemoveStep
    BY <2>3 DEF CancelGroup, RecordsOf, RemoveStep
  <2>4. ASSUME NEW service, NEW id, CancelContinuousTaskNotification(service, id)
        PROVE  RemoveStep
    BY <2>4 DEF CancelContinuousTaskNotification, RecordsOf, RemoveStep
  <2> QED BY <1>4, <2>1, <2>2, <2>3, <2>4 DEF Cancelling, Cancel, CancelAsBundle
<1>5. CASE Removing
  <2>1. ASSUME NEW key, Delete(key)
        PROVE  RemoveStep
    BY <2>1 DEF Delete, RemoveStep
  <2>2. ASSUME NEW app, DeleteByBundle(app) \/ OnBundleDataCleared(app)
                          \/ OnBundleRemoved(app)
        PROVE  RemoveStep
    BY <2>2 DEF DeleteByBundle, OnBundleDataCleared, OnBundleRemoved,
                KeysMatch, RemoveStep
  <2>3. ASSUME NEW user, DeleteAllByUser(user)
        PROVE  RemoveStep
    BY <2>3 DEF DeleteAllByUser, RemoveStep
  <2>4. ASSUME NEW user, RemoveSettings(user)
        PROVE  notificationList' = notificationList /\ shown' = shown
    BY <2>4 DEF RemoveSettings, listVars
  <2>5. ASSUME NEW app, NEW id, RemoveNotification(app, id)
        PROVE  RemoveStep
    BY <2>5 DEF RemoveNotification, First, RecordsOf, RemoveStep
  <2>6. ASSUME NEW app, RemoveAllNotifications(app)
        PROVE  RemoveStep
    BY <2>6 DEF RemoveAllNotifications, Removable, RecordsOf, RemoveStep
  <2>7. ASSUME NEW app, NEW group, RemoveGroupByBundle(app, group)
        PROVE  RemoveStep
    BY <2>7 DEF RemoveGroupByBundle, Removable, RecordsOf, RemoveStep
  <2> QED BY <1>5, <2>1, <2>2, <2>3, <2>4, <2>5, <2>6, <2>7 DEF Removing
<1>6. CASE Configuring
  <2>1. ASSUME NEW app \in Apps, NEW value \in {"on", "off"},
               SetNotificationsEnabledForSpecialBundle(app, value)
        PROVE  RemoveStep
    <3>1. PICK records : /\ Remove(records)
                         /\ records = IF value = "off" THEN Removable(app) ELSE {}
      BY <2>1 DEF SetNotificationsEnabledForSpecialBundle
    <3>2. records \in SUBSET notificationList
      BY <3>1 DEF Removable, RecordsOf
    <3> QED BY <3>1, <3>2 DEF RemoveStep
  <2>2. ASSUME NEW user, NEW value, SetNotificationsEnabled(user, value)
        PROVE  notificationList' = notificationList /\ shown' = shown
    BY <2>2 DEF SetNotificationsEnabled, listVars
  <2>3. ASSUME NEW app, NEW new, AddNotificationSlots(app, new)
        PROVE  notificationList' = notificationList /\ shown' = shown
    BY <2>3 DEF AddNotificationSlots, listVars
  <2>4. ASSUME NEW app, NEW types, RemoveSlots(app, types)
        PROVE  notificationList' = notificationList /\ shown' = shown
    BY <2>4 DEF RemoveSlots, listVars
  <2>5. ASSUME NEW count, SetRecentNotificationCount(count)
        PROVE  notificationList' = notificationList /\ shown' = shown
    BY <2>5 DEF SetRecentNotificationCount
  <2> QED
    BY <1>6, <2>1, <2>2, <2>3, <2>4, <2>5
    DEF Configuring, AddSlots, UpdateSlots, AddSlotByType, RemoveSlotByType,
        RemoveAllSlots, SetEnabledForBundleSlot
<1>7. CASE Elapse
  BY <1>7 DEF Elapse, listVars
<1> QED
  BY <1>1, <1>2, <1>3, <1>4, <1>5, <1>6, <1>7 DEF Next, Publishing

----------------------------------------------------------------------------
(* Keys                                                                    *)

(* The records an eviction removes are of its scope, and one at most. *)
LEMMA EvictionsShape ==
  ASSUME NEW scope, NEW evicted \in Evictions(scope)
  PROVE  (evicted = {} /\ scope = {}) \/ \E r \in scope : evicted = {r}
BY DEF Evictions

(* At every moment a key names one notification: publishing under a key    *)
(* that is listed replaces, and only an unlisted key goes through flow     *)
(* control, whatever callers, agents and services do between.              *)
THEOREM KeysAreUnique == Spec => []KeyUnique
<1>1. Init => KeyUnique
  BY DEF Init, KeyUnique
<1>2. KeyUnique /\ [Next]_vars => KeyUnique'
  <2> SUFFICES ASSUME KeyUnique, [Next]_vars PROVE KeyUnique'
    OBVIOUS
  <2>1. ASSUME NEW record, Replaced(record)
        PROVE  KeyUnique'
    BY <2>1 DEF Replaced, UpdateInNotificationList, KeyUnique
  <2>2. ASSUME NEW record, Admitted(record)
        PROVE  KeyUnique'
    <3>1. \A r \in notificationList : Key(r) # Key(record)
      BY <2>2 DEF Admitted, Listed, Keys
    <3>2. PICK evicted : notificationList' = (notificationList \ evicted) \cup {record}
      BY <2>2 DEF Admitted
    <3> QED BY <3>1, <3>2 DEF KeyUnique
  <2>3. CASE RemoveStep
    BY <2>3 DEF RemoveStep, Remove, KeyUnique
  <2>4. CASE notificationList' = notificationList
    BY <2>4 DEF KeyUnique
  <2> QED BY <2>1, <2>2, <2>3, <2>4, StepKinds DEF AppStep, TaskStep
<1> QED BY <1>1, <1>2, PTL DEF Spec

(* What is listed has been announced and not taken back.  Keys need to be  *)
(* unique for this: otherwise cancelling one of two records of a key would *)
(* leave the other listed and no longer shown.                             *)
THEOREM ListedAreShown == Spec => []ListedIsShown
<1>1. Init => ListedIsShown
  BY DEF Init, ListedIsShown, Keys
<1>2. KeyUnique /\ ListedIsShown /\ [Next]_vars => ListedIsShown'
  <2> SUFFICES ASSUME KeyUnique, ListedIsShown, [Next]_vars
               PROVE  ListedIsShown'
    OBVIOUS
  <2>1. ASSUME NEW record, Replaced(record)
        PROVE  ListedIsShown'
    BY <2>1 DEF Replaced, UpdateInNotificationList, Announce, ListedIsShown, Keys
  <2>2. ASSUME NEW record, Admitted(record)
        PROVE  ListedIsShown'
    BY <2>2 DEF Admitted, Announce, ListedIsShown, Keys
  <2>3. CASE RemoveStep
    BY <2>3 DEF RemoveStep, Remove, KeyUnique, ListedIsShown, Keys
  <2>4. CASE notificationList' = notificationList /\ shown' = shown
    BY <2>4 DEF ListedIsShown, Keys
  <2> QED BY <2>1, <2>2, <2>3, <2>4, StepKinds DEF AppStep, TaskStep
<1> QED BY <1>1, <1>2, KeysAreUnique, PTL DEF Spec

----------------------------------------------------------------------------
(* Limits                                                                  *)

(* One element out, or none, and one in. *)
LEMMA ExchangeCardinality ==
  ASSUME NEW S, IsFiniteSet(S), NEW out \in SUBSET S, NEW e
  PROVE  /\ IsFiniteSet((S \ out) \cup {e})
         /\ Cardinality(S) \in Nat
         /\ Cardinality((S \ out) \cup {e}) \in Nat
         /\ Cardinality((S \ out) \cup {e}) <= Cardinality(S) + 1
         /\ out # {} => Cardinality((S \ out) \cup {e}) <= Cardinality(S)
<1>1. /\ IsFiniteSet(S \ out)
      /\ Cardinality(S \ out) <= Cardinality(S)
      /\ Cardinality(S) \in Nat
      /\ Cardinality(S \ out) \in Nat
  <2>1. IsFiniteSet(S \ out) /\ Cardinality(S \ out) <= Cardinality(S)
    BY FS_Subset
  <2> QED BY <2>1, FS_CardinalityType
<1>2. /\ IsFiniteSet((S \ out) \cup {e})
      /\ Cardinality((S \ out) \cup {e}) <= Cardinality(S \ out) + 1
      /\ Cardinality((S \ out) \cup {e}) \in Nat
  <2>1. IsFiniteSet((S \ out) \cup {e})
    BY <1>1, FS_AddElement
  <2>2. Cardinality((S \ out) \cup {e})
          = IF e \in S \ out THEN Cardinality(S \ out)
                             ELSE Cardinality(S \ out) + 1
    BY <1>1, FS_AddElement
  <2> QED BY <1>1, <2>1, <2>2, FS_CardinalityType
<1>3. ASSUME out # {}
      PROVE  Cardinality(S \ out) <= Cardinality(S) - 1
  <2>1. PICK r \in out : TRUE
    BY <1>3
  <2>2. IsFiniteSet(S \ {r}) /\ Cardinality(S \ {r}) = Cardinality(S) - 1
    BY <2>1, FS_RemoveElement
  <2>3. Cardinality(S \ out) <= Cardinality(S \ {r})
    <3>1. S \ out \in SUBSET (S \ {r})
      BY <2>1
    <3> QED BY <2>2, <3>1, FS_Subset
  <2> QED BY <1>1, <2>2, <2>3
<1> QED BY <1>1, <1>2, <1>3

FiniteList == IsFiniteSet(notificationList)

(* What is evicted was listed. *)
LEMMA EvictedIsListed ==
  ASSUME NEW name, NEW evicted \in Evictions(EvictionScope(name))
  PROVE  evicted \in SUBSET notificationList
BY EvictionsShape DEF EvictionScope, OwnedBy

(* A full list always offers something to evict. *)
LEMMA FullScopeNonempty ==
  ASSUME FiniteList, NEW name, Cardinality(notificationList) >= MaxActive
  PROVE  EvictionScope(name) # {}
<1>1. notificationList # {}
  BY FS_EmptySet, BoundsAssumption
<1>2. Cardinality(OwnedBy(name)) >= MaxPerApp => OwnedBy(name) # {}
  BY FS_EmptySet, BoundsAssumption
<1>3. Cardinality(notificationList) \in Nat
  BY FS_CardinalityType DEF FiniteList
<1> QED BY <1>1, <1>2, <1>3, BoundsAssumption DEF EvictionScope

(* Replacing adds no record under a listed key. *)
LEMMA ReplacedIsExchange ==
  ASSUME NEW record, Replaced(record)
  PROVE  \E out \in SUBSET notificationList :
           /\ notificationList' = (notificationList \ out) \cup {record}
           /\ Listed(Key(record)) => out # {}
           /\ \A r \in out : Key(r) = Key(record)
<1> DEFINE out == {r \in notificationList : Key(r) = Key(record)}
<1>1. /\ out \in SUBSET notificationList
      /\ notificationList' = (notificationList \ out) \cup {record}
      /\ Listed(Key(record)) => out # {}
      /\ \A r \in out : Key(r) = Key(record)
  BY DEF Replaced, UpdateInNotificationList, Listed, Keys
<1> QED BY <1>1

(* The list stays finite. *)
LEMMA FiniteListStep ==
  ASSUME FiniteList, [Next]_vars
  PROVE  FiniteList'
<1>1. ASSUME NEW record, Replaced(record)
      PROVE  FiniteList'
  <2>1. PICK out \in SUBSET notificationList :
          notificationList' = (notificationList \ out) \cup {record}
    BY <1>1, ReplacedIsExchange
  <2> QED BY <2>1, ExchangeCardinality DEF FiniteList
<1>2. ASSUME NEW record, Admitted(record)
      PROVE  FiniteList'
  <2>1. PICK evicted \in SUBSET notificationList :
          notificationList' = (notificationList \ evicted) \cup {record}
    BY <1>2, EvictedIsListed DEF Admitted
  <2> QED BY <2>1, ExchangeCardinality DEF FiniteList
<1>3. CASE RemoveStep
  BY <1>3, FS_Subset DEF RemoveStep, Remove, FiniteList
<1>4. CASE notificationList' = notificationList
  BY <1>4 DEF FiniteList
<1> QED BY <1>1, <1>2, <1>3, <1>4, StepKinds DEF AppStep, TaskStep

(* Without continuous tasks the list never holds more than MAX_ACTIVE_NUM  *)
(* records: at the limit flow control finds a record to evict, in the      *)
(* publisher's share or in the whole list, before it adds one.             *)
THEOREM ListIsBounded == Spec => []WithinMaxActive
<1> DEFINE Inv == FiniteList /\ WithinMaxActive
<1>1. Init => Inv
  BY FS_EmptySet, BoundsAssumption DEF Init, FiniteList, WithinMaxActive
<1>2. Inv /\ [Next]_vars => Inv'
  <2> SUFFICES ASSUME Inv, [Next]_vars PROVE Inv'
    OBVIOUS
  <2>1. FiniteList'
    BY FiniteListStep
  <2>2. ASSUME Services = {}
        PROVE  Cardinality(notificationList') <= MaxActive
    <3>1. /\ Cardinality(notificationList) <= MaxActive
          /\ Cardinality(notificationList) \in Nat
          /\ MaxActive \in Nat
      BY <2>2, FS_CardinalityType, BoundsAssumption DEF FiniteList, WithinMaxActive
    <3>2. ASSUME NEW record, Listed(Key(record)), Replaced(record)
          PROVE  Cardinality(notificationList') <= MaxActive
      <4>1. PICK out \in SUBSET notificationList :
              /\ notificationList' = (notificationList \ out) \cup {record}
              /\ out # {}
        BY <3>2, ReplacedIsExchange
      <4>2. /\ Cardinality(notificationList') <= Cardinality(notificationList)
            /\ Cardinality(notificationList') \in Nat
        BY <4>1, ExchangeCardinality DEF FiniteList
      <4> QED BY <3>1, <4>2
    <3>3. ASSUME NEW record, Admitted(record)
          PROVE  Cardinality(notificationList') <= MaxActive
      <4>1. PICK evicted \in Evictions(EvictionScope(record.owner)) :
              notificationList' = (notificationList \ evicted) \cup {record}
        BY <3>3 DEF Admitted
      <4>2. /\ Cardinality(notificationList') \in Nat
            /\ Cardinality(notificationList') <= Cardinality(notificationList) + 1
            /\ evicted # {} =>
                 Cardinality(notificationList') <= Cardinality(notificationList)
        BY <4>1, EvictedIsListed, ExchangeCardinality DEF FiniteList
      <4>3. CASE Cardinality(notificationList) >= MaxActive
        <5>1. evicted # {}
          BY <4>1, <4>3, EvictionsShape, FullScopeNonempty
        <5> QED BY <3>1, <4>2, <5>1
      <4>4. CASE ~(Cardinality(notificationList) >= MaxActive)
        BY <3>1, <4>2, <4>4
      <4> QED BY <4>3, <4>4
    <3>4. CASE RemoveStep
      <4>1. notificationList' \in SUBSET notificationList
        BY <3>4 DEF RemoveStep, Remove
      <4>2. Cardinality(notificationList') <= Cardinality(notificationList)
        BY <4>1, FS_Subset DEF FiniteList
      <4>3. Cardinality(notificationList') \in Nat
        BY <2>1, FS_CardinalityType DEF FiniteList
      <4> QED BY <3>1, <4>2, <4>3
    <3>5. CASE notificationList' = notificationList
      BY <3>1, <3>5
    <3>6. ~TaskStep
      BY <2>2 DEF TaskStep
    <3> QED BY <3>2, <3>3, <3>4, <3>5, <3>6, StepKinds DEF AppStep
  <2> QED BY <2>1, <2>2 DEF WithinMaxActive
<1>3. Inv => WithinMaxActive
  OBVIOUS
<1> QED BY <1>1, <1>2, <1>3, PTL DEF Spec


----------------------------------------------------------------------------
(* The switch of a bundle                                                  *)

(* Meeting a bundle sets its switch once and no other switch. *)
LEMMA IntroducedOnce ==
  ASSUME TypeOK, NEW app \in Apps, NEW other \in Apps
  PROVE  \/ Introduced(app)[other] = enabled[other]
         \/ enabled[other] = "unknown"
BY DEF TypeOK, Introduced

(* No step touches a switch but to forget it or to set one never set, ... *)
SwitchesKept ==
  \A app \in Apps : \/ enabled'[app] = enabled[app]
                    \/ enabled[app] = "unknown"

(* ... the removal of a bundle and the call that sets a switch apart. *)
LEMMA SwitchKinds ==
  ASSUME TypeOK, [Next]_vars
  PROVE  \/ SwitchesKept
         \/ \E app \in Apps : OnBundleRemoved(app)
         \/ \E app \in Apps, value \in {"on", "off"} :
              SetNotificationsEnabledForSpecialBundle(app, value)
<1>1. ASSUME NEW app \in Apps, enabled' = Introduced(app)
      PROVE  SwitchesKept
  BY <1>1, IntroducedOnce DEF SwitchesKept
<1>2. ASSUME enabled' = enabled
      PROVE  SwitchesKept
  BY <1>2 DEF SwitchesKept
<1>3. CASE UNCHANGED vars
  BY <1>2, <1>3 DEF vars, prefVars
<1>4. CASE Publishing
  BY <1>1, <1>2, <1>4
  DEF Publishing, Publish, PublishContinuousTaskNotification, prefVars
<1>5. CASE Cancelling
  BY <1>2, <1>5
  DEF Cancelling, Cancel, CancelAsBundle, CancelPreparedNotification, CancelAll,
      CancelGroup, CancelContinuousTaskNotification, prefVars
<1>6. CASE Removing
  BY <1>2, <1>6
  DEF Removing, Delete, DeleteByBundle, DeleteAllByUser, RemoveSettings,
      RemoveNotification, RemoveAllNotifications, RemoveGroupByBundle,
      OnBundleDataCleared, prefVars
<1>7. CASE Configuring
  <2>1. ASSUME NEW app \in Apps, NEW new, AddNotificationSlots(app, new)
        PROVE  SwitchesKept
    BY <1>1, <2>1 DEF AddNotificationSlots
  <2>2. ASSUME NEW app, NEW types, RemoveSlots(app, types)
        PROVE  SwitchesKept
    BY <1>2, <2>2 DEF RemoveSlots
  <2>3. ASSUME NEW user, NEW value, SetNotificationsEnabled(user, value)
        PROVE  SwitchesKept
    BY <1>2, <2>3 DEF SetNotificationsEnabled
  <2>4. ASSUME NEW count, SetRecentNotificationCount(count)
        PROVE  SwitchesKept
    BY <1>2, <2>4 DEF SetRecentNotificationCount, prefVars
  <2> QED
    BY <1>7, <2>1, <2>2, <2>3, <2>4
    DEF Configuring, AddSlots, UpdateSlots, AddSlotByType, RemoveSlotByType,
        RemoveAllSlots, SetEnabledForBundleSlot
<1>8. CASE Elapse
  BY <1>2, <1>8 DEF Elapse, prefVars
<1> QED BY <1>3, <1>4, <1>5, <1>6, <1>7, <1>8 DEF Next

(* A switch the user turned off comes back on only with an announcement:   *)
(* publishing and adding slots set a switch only when it is unknown.       *)
THEOREM SwitchingOnIsAnnounced == Spec => SwitchedOnIsAnnounced
<1>1. TypeOK /\ [Next]_vars =>
        [\A app \in Apps : enabled[app] = "off" /\ enabled'[app] = "on"
                             => announced'[app] = "on"]_vars
  <2> SUFFICES ASSUME TypeOK, [Next]_vars,
                      NEW app \in Apps, enabled[app] = "off", enabled'[app] = "on"
               PROVE  announced'[app] = "on"
    OBVIOUS
  <2>1. ~SwitchesKept
    BY DEF SwitchesKept
  <2>2. ASSUME NEW other \in Apps, OnBundleRemoved(other)
        PROVE  FALSE
    BY <2>2 DEF OnBundleRemoved, TypeOK
  <2>3. ASSUME NEW other \in Apps, NEW value \in {"on", "off"},
               SetNotificationsEnabledForSpecialBundle(other, value)
        PROVE  announced'[app] = "on"
    BY <2>3 DEF SetNotificationsEnabledForSpecialBundle, TypeOK
  <2> QED BY <2>1, <2>2, <2>3, SwitchKinds
<1> QED BY <1>1, TypeCorrect, PTL DEF Spec, SwitchedOnIsAnnounced

(* A bundle whose switch is not on shows nothing but what the user may not *)
(* remove: a record comes in only under a switch that is on, and the two   *)
(* calls that take a switch from on take the bundle's records with it.     *)
THEOREM StaysQuiet == Spec => []QuietWhenOff
<1>1. Init => QuietWhenOff
  BY DEF Init, QuietWhenOff
<1>2. TypeOK /\ QuietWhenOff /\ [Next]_vars => QuietWhenOff'
  <2> SUFFICES ASSUME TypeOK, QuietWhenOff, [Next]_vars,
                      NEW r \in notificationList', r.app \in Apps
               PROVE  \/ enabled'[r.app] = "on"
                      \/ enabled'[r.app] = "off" /\ r.unremovable
    BY DEF QuietWhenOff
  <2> DEFINE Quiet == \/ enabled'[r.app] = "on"
                      \/ enabled'[r.app] = "off" /\ r.unremovable
  <2>1. ASSUME r \in notificationList, SwitchesKept
        PROVE  Quiet
    BY <2>1 DEF QuietWhenOff, SwitchesKept
  <2>2. ASSUME NEW app \in Apps, OnBundleRemoved(app)
        PROVE  Quiet
    <3>1. r \in notificationList /\ r.app # app
      BY <2>2 DEF OnBundleRemoved, Remove, KeysMatch
    <3>2. enabled'[r.app] = enabled[r.app]
      BY <2>2, <3>1 DEF OnBundleRemoved, TypeOK
    <3> QED BY <3>1, <3>2 DEF QuietWhenOff
  <2>3. ASSUME NEW app \in Apps, NEW value \in {"on", "off"},
               SetNotificationsEnabledForSpecialBundle(app, value)
        PROVE  Quiet
    <3>1. r \in notificationList
      BY <2>3 DEF SetNotificationsEnabledForSpecialBundle, Remove
    <3>2. CASE enabled' = enabled
      BY <3>1, <3>2 DEF QuietWhenOff
    <3>3. CASE enabled' = [enabled EXCEPT ![app] = value]
      <4>1. CASE r.app # app
        BY <3>1, <3>3, <4>1 DEF QuietWhenOff, TypeOK
      <4>2. CASE r.app = app /\ value = "on"
        BY <3>3, <4>2 DEF TypeOK
      <4>3. CASE r.app = app /\ value = "off"
        <5>1. r \notin Removable(app)
          BY <2>3, <4>3
          DEF SetNotificationsEnabledForSpecialBundle, Remove
        <5> QED BY <3>1, <3>3, <4>3, <5>1 DEF Removable, RecordsOf, TypeOK
      <4> QED BY <4>1, <4>2, <4>3
    <3> QED
      BY <2>3, <3>2, <3>3 DEF SetNotificationsEnabledForSpecialBundle
  <2>4. ASSUME AppStep, SwitchesKept
        PROVE  Quiet
    <3>1. PICK creator \in Apps, app \in Apps, request \in Requests :
            /\ enabled'[app] = "on"
            /\ \/ Admitted(NewRecord(creator, app, request))
               \/ Replaced(NewRecord(creator, app, request))
      BY <2>4 DEF AppStep
    <3>2. r \in notificationList \/ r = NewRecord(creator, app, request)
      BY <3>1 DEF Admitted, Replaced, UpdateInNotificationList
    <3> QED BY <2>1, <2>4, <3>1, <3>2, NewRecordType
  <2>5. ASSUME TaskStep, SwitchesKept
        PROVE  Quiet
    <3>1. PICK service \in Services, owner \in Names, request \in Requests :
            Replaced(ContinuousRecord(service, owner, request))
      BY <2>5 DEF TaskStep
    <3>2. \/ r \in notificationList
          \/ r = ContinuousRecord(service, owner, request)
      BY <3>1 DEF Replaced, UpdateInNotificationList
    <3> QED
      BY <2>1, <2>5, <3>2, ContinuousRecordType, AppsAssumption
  <2>6. ASSUME RemoveStep \/ notificationList' = notificationList, SwitchesKept
        PROVE  Quiet
    BY <2>1, <2>6 DEF RemoveStep, Remove
  <2> QED
    BY <2>2, <2>3, <2>4, <2>5, <2>6, StepKinds, SwitchKinds
<1> QED BY <1>1, <1>2, TypeCorrect, PTL DEF Spec

----------------------------------------------------------------------------
(* What one step takes away                                                *)

(* The records a step takes off the list under a key it leaves unlisted. *)
Gone == {r \in notificationList : Key(r) \notin Keys(notificationList)'}

(* Bundle, or user and removable: what RemovalIsFocused asks of them. *)
Focused(records) ==
  \/ \A r1, r2 \in records :
       r1.app = r2.app \/ (r1.app \in Apps /\ r2.app \in Apps
                            /\ NameOf[r1.app] = NameOf[r2.app])
  \/ \A r1, r2 \in records :
       UserOf[r1.creator] = UserOf[r2.creator] /\ ~r1.unremovable

(* Fewer records are as focused, and what is removed is all that goes. *)
LEMMA GoneIsFocused ==
  ASSUME NEW records, notificationList \ records \subseteq notificationList',
         Focused(records)
  PROVE  Focused(Gone)
<1>1. Gone \subseteq records
  BY DEF Gone, Keys
<1> QED BY <1>1 DEF Focused

(* No call clears the list across bundles and users: it works on the       *)
(* records of one bundle, of one key, or on the removable ones of a user,  *)
(* and flow control evicts one record.                                     *)
THEOREM RemovalStaysFocused == Spec => RemovalIsFocused
<1>1. KeyUnique /\ [Next]_vars => [Focused(Gone)]_vars
  <2> SUFFICES ASSUME KeyUnique, [Next]_vars PROVE [Focused(Gone)]_vars
    OBVIOUS
  <2>1. ASSUME notificationList \subseteq notificationList'
        PROVE  Focused(Gone)
    <3>1. Focused({})
      BY DEF Focused
    <3> QED BY <2>1, <3>1, GoneIsFocused
  <2>2. ASSUME NEW records, Remove(records), Focused(records)
        PROVE  Focused(Gone)
    BY <2>2, GoneIsFocused DEF Remove
  <2>3. ASSUME NEW app, NEW records, Remove(records),
               \/ records \subseteq RecordsOf(app)
               \/ app \in Apps /\ records \subseteq KeysMatch(app)
        PROVE  Focused(Gone)
    <3>1. Focused(records)
      BY <2>3 DEF RecordsOf, KeysMatch, Focused
    <3> QED BY <2>2, <2>3, <3>1
  <2>4. ASSUME NEW record, Replaced(record)
        PROVE  Focused(Gone)
    <3>1. Gone = {}
      BY <2>4 DEF Replaced, UpdateInNotificationList, Gone, Keys
    <3> QED BY <3>1 DEF Focused
  <2>5. ASSUME NEW record, Admitted(record)
        PROVE  Focused(Gone)
    <3>1. PICK evicted \in Evictions(EvictionScope(record.owner)) :
            notificationList' = (notificationList \ evicted) \cup {record}
      BY <2>5 DEF Admitted
    <3>2. Focused(evicted)
      BY EvictionsShape DEF Focused
    <3> QED BY <3>1, <3>2, GoneIsFocused
  <2>6. CASE Publishing
    <3>1. ASSUME NEW record, AssignToNotificationList(record)
          PROVE  Focused(Gone)
      <4>1. CASE FlowControl(record) /\ ~Listed(Key(record))
        <5>1. notificationList' = notificationList \/ Admitted(record)
          BY <4>1 DEF FlowControl, Admitted, listVars
        <5> QED BY <2>1, <2>5, <5>1
      <4>2. CASE UpdateInNotificationList(record) /\ Announce(record)
        BY <2>4, <4>2 DEF Replaced
      <4> QED BY <3>1, <4>1, <4>2 DEF AssignToNotificationList
    <3>2. ASSUME NEW creator, NEW app, NEW request, Publish(creator, app, request)
          PROVE  Focused(Gone)
      BY <2>1, <3>1, <3>2 DEF Publish, listVars
    <3>3. ASSUME NEW service, NEW owner, NEW request,
                 PublishContinuousTaskNotification(service, owner, request)
          PROVE  Focused(Gone)
      BY <2>4, <3>3 DEF PublishContinuousTaskNotification, Replaced
    <3> QED BY <2>6, <3>2, <3>3 DEF Publishing
  <2>7. CASE Cancelling
    <3>1. ASSUME NEW app, NEW id, CancelPreparedNotification(app, id)
          PROVE  Focused(Gone)
      BY <2>3, <3>1 DEF CancelPreparedNotification, First, RecordsOf
    <3>2. ASSUME NEW app \in Apps, CancelAll(app)
          PROVE  Focused(Gone)
      BY <2>3, <3>2 DEF CancelAll
    <3>3. ASSUME NEW app, NEW group, CancelGroup(app, group)
          PROVE  Focused(Gone)
      BY <2>3, <3>3 DEF CancelGroup, RecordsOf
    <3>4. ASSUME NEW service, NEW id, CancelContinuousTaskNotification(service, id)
          PROVE  Focused(Gone)
      BY <2>3, <3>4 DEF CancelContinuousTaskNotification, RecordsOf
    <3> QED
      BY <2>7, <3>1, <3>2, <3>3, <3>4 DEF Cancelling, Cancel, CancelAsBundle
  <2>8. CASE Removing
    <3>1. ASSUME NEW key, Delete(key)
          PROVE  Focused(Gone)
      <4>1. Focused({r \in notificationList : Key(r) = key})
        BY DEF Focused, KeyUnique
      <4> QED BY <2>2, <3>1, <4>1 DEF Delete
    <3>2. ASSUME NEW app \in Apps, DeleteByBundle(app) \/ OnBundleDataCleared(app)
                                   \/ OnBundleRemoved(app)
          PROVE  Focused(Gone)
      BY <2>3, <3>2 DEF DeleteByBundle, OnBundleDataCleared, OnBundleRemoved
    <3>3. ASSUME NEW user, DeleteAllByUser(user)
          PROVE  Focused(Gone)
      <4>1. Focused({r \in notificationList :
                       UserOf[r.creator] = user /\ ~r.unremovable})
        BY DEF Focused
      <4> QED BY <2>2, <3>3, <4>1 DEF DeleteAllByUser
    <3>4. ASSUME NEW user, RemoveSettings(user)
          PROVE  Focused(Gone)
      BY <2>1, <3>4 DEF RemoveSettings, listVars
    <3>5. ASSUME NEW app, NEW id, RemoveNotification(app, id)
          PROVE  Focused(Gone)
      BY <2>3, <3>5 DEF RemoveNotification, First, RecordsOf
    <3>6. ASSUME NEW app, RemoveAllNotifications(app)
          PROVE  Focused(Gone)
      BY <2>3, <3>6 DEF RemoveAllNotifications, Removable
    <3>7. ASSUME NEW app, NEW group, RemoveGroupByBundle(app, group)
          PROVE  Focused(Gone)
      BY <2>3, <3>7 DEF RemoveGroupByBundle, Removable
    <3> QED
      BY <2>8, <3>1, <3>2, <3>3, <3>4, <3>5, <3>6, <3>7 DEF Removing
  <2>9. CASE Configuring
    <3>1. ASSUME NEW app \in Apps, NEW value,
                 SetNotificationsEnabledForSpecialBundle(app, value)
          PROVE  Focused(Gone)
      BY <2>3, <3>1 DEF SetNotificationsEnabledForSpecialBundle, Removable
    <3>2. ASSUME notificationList' = notificationList
          PROVE  Focused(Gone)
      BY <2>1, <3>2
    <3> QED
      BY <2>9, <3>1, <3>2
      DEF Configuring, AddSlots, UpdateSlots, AddSlotByType, RemoveSlotByType,
          RemoveAllSlots, SetEnabledForBundleSlot, AddNotificationSlots,
          RemoveSlots, SetNotificationsEnabled, SetRecentNotificationCount, listVars
  <2>10. CASE Elapse
    BY <2>1, <2>10 DEF Elapse, listVars
  <2> QED BY <2>6, <2>7, <2>8, <2>9, <2>10 DEF Next
<1> QED BY <1>1, KeysAreUnique, PTL DEF Spec, RemovalIsFocused, Focused, Gone

----------------------------------------------------------------------------
(* What flow control may evict                                             *)

(* The list is finite at every moment. *)
LEMMA ListIsFinite == Spec => []FiniteList
<1>1. Init => FiniteList
  BY FS_EmptySet DEF Init, FiniteList
<1>2. FiniteList /\ [Next]_vars => FiniteList'
  BY FiniteListStep
<1> QED BY <1>1, <1>2, PTL DEF Spec

(* A record that comes in was admitted, or took the place of its key's, or *)
(* is a continuous task's.                                                 *)
LEMMA NewcomerKinds ==
  ASSUME TypeOK, [Next]_vars, NEW r \in notificationList' \ notificationList
  PROVE  \/ Admitted(r)
         \/ Listed(Key(r)) /\ Replaced(r)
         \/ r.app \in Services /\ Replaced(r)
<1>1. CASE AppStep
  <2>1. PICK record : \/ Admitted(record)
                      \/ Listed(Key(record)) /\ Replaced(record)
    BY <1>1 DEF AppStep
  <2>2. r = record
    BY <2>1 DEF Admitted, Replaced, UpdateInNotificationList
  <2> QED BY <2>1, <2>2
<1>2. CASE TaskStep
  <2>1. PICK service \in Services, owner \in Names, request \in Requests :
          Replaced(ContinuousRecord(service, owner, request))
    BY <1>2 DEF TaskStep
  <2>2. r = ContinuousRecord(service, owner, request)
    BY <2>1 DEF Replaced, UpdateInNotificationList
  <2> QED BY <2>1, <2>2, ContinuousRecordType
<1>3. CASE RemoveStep
  BY <1>3 DEF RemoveStep, Remove
<1> QED BY <1>1, <1>2, <1>3, StepKinds

(* What eviction removes: of the owner it makes room for, unless that has  *)
(* none; of an owner at a limit; and the first of its owner to sort.       *)
LEMMA EvictedIsFirst ==
  ASSUME FiniteList, NEW name, NEW evicted \in Evictions(EvictionScope(name)),
         NEW old \in evicted
  PROVE  /\ old.owner = name \/ OwnedBy(name) = {}
         /\ AtCap(old.owner)
         /\ \A kept \in notificationList :
              kept.owner = old.owner => ~SortsBefore(kept, old)
<1>1. /\ old \in EvictionScope(name)
      /\ \A o \in EvictionScope(name) : ~SortsBefore(o, old)
  BY DEF Evictions
<1>2. Cardinality(notificationList) \in Nat
  BY FS_CardinalityType DEF FiniteList
<1>3. CASE Cardinality(OwnedBy(name)) >= MaxPerApp
  <2>1. EvictionScope(name) = OwnedBy(name)
    BY <1>3 DEF EvictionScope
  <2> QED BY <1>1, <1>3, <2>1 DEF OwnedBy, AtCap
<1>4. CASE ~(Cardinality(OwnedBy(name)) >= MaxPerApp)
  <2>1. ~(Cardinality(notificationList) < MaxActive)
    BY <1>1, <1>4 DEF EvictionScope
  <2>2. AtCap(old.owner)
    BY <1>2, <2>1, BoundsAssumption DEF AtCap
  <2>3. EvictionScope(name) =
          IF OwnedBy(name) # {} THEN OwnedBy(name) ELSE notificationList
    BY <1>4, <2>1 DEF EvictionScope
  <2> QED BY <1>1, <2>2, <2>3 DEF OwnedBy
<1> QED BY <1>3, <1>4

(* A key disappears unannounced only at a limit of its owner's or of the   *)
(* list; what goes for a newcomer is the newcomer's owner's, or the owner  *)
(* has none; and nothing of the same owner that stays sorts before it.     *)
THEOREM EvictionStaysFair == Spec => EvictionIsFair
<1>1. FiniteList /\ TypeOK /\ [Next]_vars =>
        [/\ \A r \in notificationList :
               \/ Key(r) \in Keys(notificationList)' \/ Key(r) \notin shown'
               \/ AtCap(r.owner)
         /\ \A new \in notificationList' \ notificationList,
               old \in notificationList \ notificationList' :
              Key(new) # Key(old) =>
                /\ old.owner = new.owner \/ OwnedBy(new.owner) = {}
                /\ \A kept \in notificationList \cap notificationList' :
                     kept.owner = old.owner => ~SortsBefore(kept, old)]_vars
  <2> SUFFICES ASSUME FiniteList, TypeOK, [Next]_vars
               PROVE
         /\ \A r \in notificationList :
               \/ Key(r) \in Keys(notificationList)' \/ Key(r) \notin shown'
               \/ AtCap(r.owner)
         /\ \A new \in notificationList' \ notificationList,
               old \in notificationList \ notificationList' :
              Key(new) # Key(old) =>
                /\ old.owner = new.owner \/ OwnedBy(new.owner) = {}
                /\ \A kept \in notificationList \cap notificationList' :
                     kept.owner = old.owner => ~SortsBefore(kept, old)
    OBVIOUS
  <2>1. ASSUME NEW record, Admitted(record), NEW old \in notificationList,
               old \notin notificationList'
        PROVE  /\ old.owner = record.owner \/ OwnedBy(record.owner) = {}
               /\ AtCap(old.owner)
               /\ \A kept \in notificationList :
                    kept.owner = old.owner => ~SortsBefore(kept, old)
    <3>1. PICK evicted \in Evictions(EvictionScope(record.owner)) :
            notificationList' = (notificationList \ evicted) \cup {record}
      BY <2>1 DEF Admitted
    <3> QED BY <2>1, <3>1, EvictedIsFirst
  <2>2. ASSUME NEW r \in notificationList, Key(r) \notin Keys(notificationList)',
               Key(r) \in shown'
        PROVE  AtCap(r.owner)
    <3>1. r \notin notificationList'
      BY <2>2 DEF Keys
    <3>2. ASSUME NEW record, Admitted(record)
          PROVE  AtCap(r.owner)
      BY <2>1, <3>1, <3>2
    <3>3. ASSUME NEW record, Replaced(record)
          PROVE  FALSE
      BY <2>2, <3>3 DEF Replaced, UpdateInNotificationList, Keys
    <3>4. CASE RemoveStep
      BY <2>2, <3>1, <3>4 DEF RemoveStep, Remove, Keys
    <3>5. CASE notificationList' = notificationList
      BY <3>1, <3>5
    <3> QED BY <3>2, <3>3, <3>4, <3>5, StepKinds DEF AppStep, TaskStep
  <2>3. ASSUME NEW new \in notificationList' \ notificationList,
               NEW old \in notificationList \ notificationList',
               Key(new) # Key(old)
        PROVE  /\ old.owner = new.owner \/ OwnedBy(new.owner) = {}
               /\ \A kept \in notificationList :
                    kept.owner = old.owner => ~SortsBefore(kept, old)
    <3>1. ~Replaced(new)
      BY <2>3 DEF Replaced, UpdateInNotificationList
    <3>2. Admitted(new)
      BY <3>1, NewcomerKinds
    <3> QED BY <2>1, <3>2
  <2> QED BY <2>2, <2>3
<1> QED BY <1>1, ListIsFinite, TypeCorrect, PTL DEF Spec, EvictionIsFair

(* A new notification of an application never takes the list or its        *)
(* owner's share beyond a limit, or further beyond when continuous tasks   *)
(* or agents have taken it there: at a limit one record goes first.        *)
THEOREM CapsHold == Spec => CapsHoldForApps
<1>1. FiniteList /\ TypeOK /\ [Next]_vars =>
        [\A r \in notificationList' \ notificationList :
           r.app \in Apps /\ ~Listed(Key(r)) =>
             /\ \/ Cardinality(notificationList') <= MaxActive
                \/ Cardinality(notificationList') <= Cardinality(notificationList)
             /\ \/ Cardinality(OwnedBy(r.owner)') <= MaxPerApp
                \/ Cardinality(OwnedBy(r.owner)') <= Cardinality(OwnedBy(r.owner))
        ]_vars
  <2> SUFFICES ASSUME FiniteList, TypeOK, [Next]_vars,
                      NEW r \in notificationList' \ notificationList,
                      r.app \in Apps, ~Listed(Key(r))
               PROVE
                 /\ \/ Cardinality(notificationList') <= MaxActive
                    \/ Cardinality(notificationList') <= Cardinality(notificationList)
                 /\ \/ Cardinality(OwnedBy(r.owner)') <= MaxPerApp
                    \/ Cardinality(OwnedBy(r.owner)') <= Cardinality(OwnedBy(r.owner))
    OBVIOUS
  <2>1. Admitted(r)
    BY NewcomerKinds, AppsAssumption
  <2>2. PICK evicted \in Evictions(EvictionScope(r.owner)) :
          notificationList' = (notificationList \ evicted) \cup {r}
    BY <2>1 DEF Admitted
  <2>3. evicted \in SUBSET notificationList
    BY EvictedIsListed
  <2>4. \/ Cardinality(notificationList') <= MaxActive
        \/ Cardinality(notificationList') <= Cardinality(notificationList)
    <3>1. /\ Cardinality(notificationList) \in Nat
          /\ Cardinality(notificationList') \in Nat
          /\ Cardinality(notificationList') <= Cardinality(notificationList) + 1
          /\ evicted # {} =>
               Cardinality(notificationList') <= Cardinality(notificationList)
      BY <2>2, <2>3, ExchangeCardinality DEF FiniteList
    <3>2. Cardinality(notificationList) >= MaxActive => evicted # {}
      BY EvictionsShape, FullScopeNonempty
    <3> QED BY <3>1, <3>2, BoundsAssumption
  <2>5. \/ Cardinality(OwnedBy(r.owner)') <= MaxPerApp
        \/ Cardinality(OwnedBy(r.owner)') <= Cardinality(OwnedBy(r.owner))
    <3> DEFINE share == OwnedBy(r.owner)
               out == evicted \cap share
    <3>1. IsFiniteSet(share) /\ out \in SUBSET share
      BY FS_Subset DEF FiniteList, OwnedBy
    <3>2. OwnedBy(r.owner)' = (share \ out) \cup {r}
      BY <2>2 DEF OwnedBy
    <3>3. Cardinality(share) >= MaxPerApp => out # {}
      <4>1. ASSUME Cardinality(share) >= MaxPerApp
            PROVE  out # {}
        <5>1. share # {}
          BY <4>1, FS_EmptySet, BoundsAssumption
        <5>2. EvictionScope(r.owner) = share
          BY <4>1 DEF EvictionScope
        <5> QED BY <5>1, <5>2, EvictionsShape
      <4> QED BY <4>1
    <3> HIDE DEF share, out
    <3>4. /\ Cardinality(share) \in Nat
          /\ Cardinality((share \ out) \cup {r}) \in Nat
          /\ Cardinality((share \ out) \cup {r}) <= Cardinality(share) + 1
          /\ out # {} => Cardinality((share \ out) \cup {r}) <= Cardinality(share)
      BY <3>1, ExchangeCardinality
    <3>5. \/ Cardinality((share \ out) \cup {r}) <= MaxPerApp
          \/ Cardinality((share \ out) \cup {r}) <= Cardinality(share)
      BY <3>3, <3>4, BoundsAssumption
    <3> QED BY <3>2, <3>5 DEF share
  <2> QED BY <2>4, <2>5
<1> QED BY <1>1, ListIsFinite, TypeCorrect, PTL DEF Spec, CapsHoldForApps

----------------------------------------------------------------------------
(* The list of recent notifications                                        *)

(* No key has two entries. *)
Unrepeated(list) ==
  \A i, j \in DOMAIN list : list[i].key = list[j].key => i = j

(* What is left without a key are the other entries, each once. *)
LEMMA WithoutEntries ==
  ASSUME NEW list \in Seq(Recent), NEW key, Unrepeated(list),
         \E i \in DOMAIN list : list[i].key = key
  PROVE  /\ Unrepeated(Without(list, key))
         /\ \A i \in DOMAIN Without(list, key) :
              /\ Without(list, key)[i].key # key
              /\ \E j \in DOMAIN list : Without(list, key)[i] = list[j]
<1> DEFINE at == CHOOSE i \in DOMAIN list : list[i].key = key
           front == SubSeq(list, 1, at - 1)
           back == SubSeq(list, at + 1, Len(list))
           rest == Without(list, key)
<1>1. /\ at \in 1 .. Len(list)
      /\ list[at].key = key
      /\ Len(list) \in Nat
      /\ DOMAIN list = 1 .. Len(list)
  BY LenProperties
<1>2. /\ front \in Seq(Recent)
      /\ Len(front) = at - 1
      /\ \A i \in 1 .. at - 1 : front[i] = list[i]
  <2> DEFINE n == at - 1
  <2>1. n \in 0 .. Len(list)
    BY <1>1
  <2> HIDE DEF n
  <2>2. /\ SubSeq(list, 1, n) \in Seq(Recent)
        /\ Len(SubSeq(list, 1, n)) = n
        /\ \A i \in 1 .. n : SubSeq(list, 1, n)[i] = list[i]
    BY <2>1, PrefixType
  <2> QED BY <2>2 DEF n
<1>3. /\ back \in Seq(Recent)
      /\ Len(back) = Len(list) - at
      /\ \A i \in 1 .. Len(list) - at : back[i] = list[at + i]
  <2> DEFINE m == at + 1
             n == Len(list)
  <2>1. m \in 1 .. Len(list) + 1 /\ n \in 0 .. Len(list)
    BY <1>1
  <2> HIDE DEF m, n
  <2>2. /\ SubSeq(list, m, n) \in Seq(Recent)
        /\ Len(SubSeq(list, m, n)) = IF m <= n THEN n - m + 1 ELSE 0
        /\ \A i \in 1 .. n - m + 1 : SubSeq(list, m, n)[i] = list[m + i - 1]
    BY <2>1, StretchType
  <2>3. back = SubSeq(list, m, n)
    BY DEF m, n
  <2>4. /\ (IF m <= n THEN n - m + 1 ELSE 0) = Len(list) - at
        /\ n - m + 1 = Len(list) - at
        /\ \A i \in 1 .. Len(list) - at : m + i - 1 = at + i
    <3>1. n \in Nat /\ at \in Int /\ m = at + 1 /\ n = Len(list) /\ at <= n
      <4> HIDE DEF at
      <4> QED BY <1>1 DEF m, n
    <3> HIDE DEF at, m, n
    <3>2. n - m + 1 = n - at /\ (m <= n \/ n - at = 0)
      BY <3>1
    <3>3. \A i \in 1 .. n - at : m + i - 1 = at + i
      BY <3>1
    <3> QED BY <3>1, <3>2, <3>3
  <2> HIDE DEF at, back
  <2> QED BY <2>2, <2>3, <2>4
<1>4. rest = front \o back
  BY DEF Without
<1> HIDE DEF front, back, at
<1>5. /\ rest \in Seq(Recent)
      /\ Len(rest) = Len(list) - 1
      /\ DOMAIN rest = 1 .. Len(list) - 1
      /\ \A i \in 1 .. Len(list) - 1 :
           rest[i] = IF i <= at - 1 THEN list[i] ELSE list[i + 1]
  <2> HIDE DEF rest
  <2>1. /\ Len(rest) = Len(front) + Len(back)
        /\ \A i \in 1 .. Len(front) + Len(back) :
             rest[i] = IF i <= Len(front) THEN front[i] ELSE back[i - Len(front)]
        /\ rest \in Seq(Recent)
    BY <1>2, <1>3, <1>4, ConcatProperties
  <2>2. Len(rest) = Len(list) - 1
    BY <1>1, <1>2, <1>3, <2>1
  <2>3. ASSUME NEW i \in 1 .. Len(list) - 1
        PROVE  rest[i] = IF i <= at - 1 THEN list[i] ELSE list[i + 1]
    <3>1. CASE i <= at - 1
      <4>1. /\ i \in 1 .. Len(front) + Len(back)
            /\ i <= Len(front)
            /\ i \in 1 .. at - 1
        BY <1>1, <1>2, <1>3, <3>1
      <4>2. rest[i] = front[i]
        BY <2>1, <4>1
      <4> QED BY <1>2, <3>1, <4>1, <4>2
    <3>2. CASE ~(i <= at - 1)
      <4>1. rest[i] = back[i - (at - 1)]
        <5>1. /\ i \in 1 .. Len(front) + Len(back)
              /\ ~(i <= Len(front))
              /\ Len(front) = at - 1
          BY <1>1, <1>2, <1>3, <3>2
        <5> QED BY <2>1, <5>1
      <4>2. i - (at - 1) \in 1 .. Len(list) - at /\ at + (i - (at - 1)) = i + 1
        BY <1>1, <3>2
      <4> QED BY <1>3, <3>2, <4>1, <4>2
    <3> QED BY <3>1, <3>2
  <2> QED BY <2>1, <2>2, <2>3, LenProperties
<1> HIDE DEF rest
<1>6. \A i \in DOMAIN rest :
        \E j \in DOMAIN list : /\ rest[i] = list[j]
                              /\ j # at
                              /\ j = IF i <= at - 1 THEN i ELSE i + 1
  BY <1>1, <1>5
<1>7. \A i \in DOMAIN rest : rest[i].key # key
  BY <1>1, <1>6 DEF Unrepeated
<1>8. Unrepeated(rest)
  <2> SUFFICES ASSUME NEW i1 \in DOMAIN rest, NEW i2 \in DOMAIN rest,
                      rest[i1].key = rest[i2].key
               PROVE  i1 = i2
    BY DEF Unrepeated
  <2>1. PICK j1 \in DOMAIN list : /\ rest[i1] = list[j1]
                                  /\ j1 = IF i1 <= at - 1 THEN i1 ELSE i1 + 1
    BY <1>6
  <2>2. PICK j2 \in DOMAIN list : /\ rest[i2] = list[j2]
                                  /\ j2 = IF i2 <= at - 1 THEN i2 ELSE i2 + 1
    BY <1>6
  <2>3. j1 = j2
    BY <2>1, <2>2 DEF Unrepeated
  <2> QED BY <1>1, <1>5, <2>1, <2>2, <2>3
<1> QED BY <1>6, <1>7, <1>8 DEF rest

(* Refreshing a key puts its entry first and keeps others as they were. *)
LEMMA RefreshedEntries ==
  ASSUME recentList \in Seq(Recent), recentCount \in Nat, NEW key \in KeyType,
         Unrepeated(recentList)
  PROVE  /\ Unrepeated(Refreshed(key))
         /\ \A i \in DOMAIN Refreshed(key) :
              \/ Refreshed(key)[i] = [key |-> key, active |-> TRUE]
              \/ /\ Refreshed(key)[i].key # key
                 /\ \E j \in DOMAIN recentList : Refreshed(key)[i] = recentList[j]
<1> DEFINE kept == IF InRecent(key) THEN Without(recentList, key)
                   ELSE IF Len(recentList) >= recentCount
                        THEN SubSeq(recentList, 1, Len(recentList) - 1)
                        ELSE recentList
           entry == [key |-> key, active |-> TRUE]
           list == Refreshed(key)
<1>1. entry \in Recent
  BY DEF Recent
<1>2. /\ kept \in Seq(Recent)
      /\ Unrepeated(kept)
      /\ \A i \in DOMAIN kept :
           /\ kept[i].key # key
           /\ \E j \in DOMAIN recentList : kept[i] = recentList[j]
  <2>1. CASE InRecent(key)
    <3>1. Without(recentList, key) \in Seq(Recent)
      BY <2>1, WithoutType DEF InRecent
    <3>2. /\ Unrepeated(Without(recentList, key))
          /\ \A i \in DOMAIN Without(recentList, key) :
               /\ Without(recentList, key)[i].key # key
               /\ \E j \in DOMAIN recentList :
                    Without(recentList, key)[i] = recentList[j]
      BY <2>1, WithoutEntries DEF InRecent
    <3>3. kept = Without(recentList, key)
      BY <2>1
    <3> QED BY <3>1, <3>2, <3>3
  <2>2. CASE ~InRecent(key) /\ Len(recentList) >= recentCount
    <3>1. kept = SubSeq(recentList, 1, Len(recentList) - 1)
      BY <2>2
    <3>2. CASE recentList = <<>>
      <4>1. kept \in Seq(Recent) /\ DOMAIN kept = {}
        <5>1. kept \in Seq(Recent) /\ Len(kept) = 0
          <6>1. Len(recentList) = 0
            BY <3>2
          <6>2. kept = SubSeq(recentList, 1, -1)
            BY <3>1, <6>1
          <6>3. \A i \in 1 .. -1 : recentList[i] \in Recent
            OBVIOUS
          <6> HIDE DEF kept
          <6> QED BY <6>2, <6>3, SubSeqProperties
        <5>2. DOMAIN kept = 1 .. Len(kept)
          <6> HIDE DEF kept
          <6> QED BY <5>1, LenProperties
        <5> HIDE DEF kept
        <5> QED BY <5>1, <5>2
      <4> QED BY <4>1 DEF Unrepeated
    <3>3. CASE recentList # <<>>
      <4> DEFINE n == Len(recentList) - 1
      <4>1. /\ Len(recentList) \in Nat \ {0}
            /\ n \in 0 .. Len(recentList)
            /\ DOMAIN recentList = 1 .. Len(recentList)
        BY <3>3, LenProperties
      <4>2. /\ SubSeq(recentList, 1, n) \in Seq(Recent)
            /\ Len(SubSeq(recentList, 1, n)) = n
            /\ \A i \in 1 .. n : SubSeq(recentList, 1, n)[i] = recentList[i]
        <5> HIDE DEF n
        <5> QED BY <4>1, PrefixType
      <4>3. /\ kept \in Seq(Recent)
            /\ DOMAIN kept \subseteq DOMAIN recentList
            /\ \A i \in DOMAIN kept : kept[i] = recentList[i]
        BY <3>1, <4>1, <4>2, LenProperties
      <4> HIDE DEF kept
      <4> QED BY <2>2, <4>3 DEF Unrepeated, InRecent
    <3> QED BY <3>2, <3>3
  <2>3. CASE ~InRecent(key) /\ ~(Len(recentList) >= recentCount)
    <3>1. kept = recentList
      BY <2>3
    <3> QED BY <2>3, <3>1 DEF InRecent
  <2> QED BY <2>1, <2>2, <2>3
<1>3. list = <<entry>> \o kept
  BY DEF Refreshed
<1> HIDE DEF kept, list
<1>4. /\ Len(kept) \in Nat
      /\ DOMAIN kept = 1 .. Len(kept)
      /\ DOMAIN list = 1 .. Len(kept) + 1
      /\ list[1] = entry
      /\ \A i \in 2 .. Len(kept) + 1 : i - 1 \in DOMAIN kept /\ list[i] = kept[i - 1]
  <2> HIDE DEF entry
  <2>1. /\ list \in Seq(Recent)
        /\ Len(list) = 1 + Len(kept)
        /\ \A i \in 1 .. 1 + Len(kept) :
             list[i] = IF i <= 1 THEN <<entry>>[i] ELSE kept[i - 1]
    BY <1>1, <1>2, <1>3, ConcatProperties
  <2>2. Len(kept) \in Nat /\ DOMAIN kept = 1 .. Len(kept)
    BY <1>2, LenProperties
  <2>3. DOMAIN list = 1 .. Len(kept) + 1
    BY <2>1, <2>2, LenProperties
  <2> QED BY <2>1, <2>2, <2>3
<1>5. Unrepeated(list)
  <2> SUFFICES ASSUME NEW i \in DOMAIN list, NEW j \in DOMAIN list,
                      list[i].key = list[j].key
               PROVE  i = j
    BY DEF Unrepeated
  <2>1. CASE i = 1 \/ j = 1
    <3>1. list[1].key = key
      BY <1>4
    <3>2. ASSUME NEW k \in DOMAIN list, k # 1
          PROVE  list[k].key # key
      <4>1. k \in 2 .. Len(kept) + 1
        BY <1>4, <3>2
      <4> QED BY <1>2, <1>4, <4>1
    <3> QED BY <2>1, <3>1, <3>2
  <2>2. CASE i # 1 /\ j # 1
    <3>1. /\ i \in 2 .. Len(kept) + 1
          /\ j \in 2 .. Len(kept) + 1
      BY <1>4, <2>2
    <3>2. kept[i - 1].key = kept[j - 1].key
      BY <1>4, <3>1
    <3>3. i - 1 = j - 1
      BY <1>2, <1>4, <3>1, <3>2 DEF Unrepeated
    <3> QED BY <3>1, <3>3
  <2> QED BY <2>1, <2>2
<1>6. \A i \in DOMAIN list :
        \/ list[i] = entry
        \/ /\ list[i].key # key
           /\ \E j \in DOMAIN recentList : list[i] = recentList[j]
  <2> SUFFICES ASSUME NEW i \in DOMAIN list, i # 1
               PROVE  /\ list[i].key # key
                      /\ \E j \in DOMAIN recentList : list[i] = recentList[j]
    BY <1>4
  <2>1. i \in 2 .. Len(kept) + 1
    BY <1>4
  <2>2. list[i] = kept[i - 1] /\ i - 1 \in DOMAIN kept
    BY <1>4, <2>1
  <2> QED BY <1>2, <2>2
<1> QED BY <1>5, <1>6 DEF list

(* A step leaves the recent list alone, refreshes one key that it shows,   *)
(* deactivates what it takes back, or sets the count.                      *)
LEMMA RecentKinds ==
  ASSUME TypeOK, [Next]_vars
  PROVE  \/ /\ UNCHANGED <<recentList, shown, recentCount>>
            /\ alive' => alive
         \/ \E record \in Record : Announce(record) /\ alive /\ UNCHANGED recentCount
         \/ \E records : Remove(records)
         \/ \E count \in RecentCounts : SetRecentNotificationCount(count) /\ alive
<1> DEFINE Same == UNCHANGED <<recentList, shown, recentCount>> /\ (alive' => alive)
           Shows == \E record \in Record :
                      Announce(record) /\ alive /\ UNCHANGED recentCount
           Removes == \E records : Remove(records)
<1>1. CASE UNCHANGED vars
  BY <1>1 DEF vars, listVars
<1>2. ASSUME NEW creator \in Apps, NEW app \in Apps, NEW request \in Requests,
             Publish(creator, app, request), alive
      PROVE  Same \/ Shows
  <2> DEFINE record == NewRecord(creator, app, request)
  <2>1. record \in Record
    BY NewRecordType
  <2> HIDE DEF record
  <2>2. ASSUME AssignToNotificationList(record)
        PROVE  Same \/ Shows
    BY <1>2, <2>1, <2>2
    DEF Publish, AssignToNotificationList, FlowControl, listVars
  <2> QED BY <1>2, <2>2 DEF Publish, listVars, record
<1>3. ASSUME NEW service \in Services, NEW owner \in Names,
             NEW request \in Requests, alive,
             PublishContinuousTaskNotification(service, owner, request)
      PROVE  Shows
  BY <1>3, ContinuousRecordType DEF PublishContinuousTaskNotification
<1>4. CASE Cancelling
  <2>1. Removes
    BY <1>4
    DEF Cancelling, Cancel, CancelAsBundle, CancelPreparedNotification, CancelAll,
        CancelGroup, CancelContinuousTaskNotification
  <2> QED BY <2>1
<1>5. CASE Removing
  <2>1. ASSUME NEW user, RemoveSettings(user)
        PROVE  Same
    BY <2>1 DEF RemoveSettings, listVars
  <2>2. Same \/ Removes
    BY <1>5, <2>1
    DEF Removing, Delete, DeleteByBundle, DeleteAllByUser, RemoveNotification,
        RemoveAllNotifications, RemoveGroupByBundle, OnBundleDataCleared,
        OnBundleRemoved
  <2> QED BY <2>2
<1>6. ASSUME Configuring, alive
      PROVE  \/ Same \/ Removes
             \/ \E count \in RecentCounts : SetRecentNotificationCount(count) /\ alive
  <2>1. ASSUME NEW app, NEW value,
               SetNotificationsEnabledForSpecialBundle(app, value)
        PROVE  Removes
    BY <2>1 DEF SetNotificationsEnabledForSpecialBundle
  <2>2. ASSUME NEW user, NEW value, SetNotificationsEnabled(user, value)
        PROVE  Same
    BY <2>2 DEF SetNotificationsEnabled, listVars
  <2>3. ASSUME NEW app, NEW new, AddNotificationSlots(app, new)
        PROVE  Same
    BY <2>3 DEF AddNotificationSlots, listVars
  <2>4. ASSUME NEW app, NEW types, RemoveSlots(app, types)
        PROVE  Same
    BY <2>4 DEF RemoveSlots, listVars
  <2> QED
    BY <1>6, <2>1, <2>2, <2>3, <2>4
    DEF Configuring, AddSlots, UpdateSlots, AddSlotByType, RemoveSlotByType,
        RemoveAllSlots, SetEnabledForBundleSlot
<1>7. CASE Elapse
  BY <1>7 DEF Elapse, listVars
<1> QED
  BY <1>1, <1>2, <1>3, <1>4, <1>5, <1>6, <1>7 DEF Next, Publishing

(* Unless the count may be 0, which makes the last entry of an empty list  *)
(* the one to drop, the recent list has an entry per key, calls active     *)
(* what subscribers show, and keeps to its count: every announcement and   *)
(* every removal goes with its entry.                                      *)
THEOREM RecentStaysTrue ==
  Spec => [](0 \notin RecentCounts \cup {DefaultCount} => RecentAgrees)
<1> DEFINE Counted == 0 \notin RecentCounts \cup {DefaultCount}
<1>1. Init => (Counted => RecentAgrees)
  <2> SUFFICES ASSUME Init PROVE RecentAgrees
    OBVIOUS
  <2>1. recentList = <<>> /\ recentCount \in Nat
    BY BoundsAssumption DEF Init
  <2>2. DOMAIN recentList = {} /\ Len(recentList) = 0
    BY <2>1
  <2> QED BY <2>1, <2>2 DEF RecentAgrees
<1>2. TypeOK /\ (Counted => RecentAgrees) /\ [Next]_vars
        => (Counted => RecentAgrees)'
  <2> SUFFICES ASSUME TypeOK, RecentAgrees, Counted, [Next]_vars
               PROVE  RecentAgrees'
    OBVIOUS
  <2>1. /\ recentList \in Seq(Recent)
        /\ recentCount \in Nat
        /\ recentCount > 0
        /\ Len(recentList) \in Nat
        /\ DOMAIN recentList = 1 .. Len(recentList)
        /\ Unrepeated(recentList)
        /\ \A i \in DOMAIN recentList :
             recentList[i].active <=> recentList[i].key \in shown
        /\ alive => Len(recentList) <= recentCount
    <3>1. recentList \in Seq(Recent) /\ recentCount \in RecentCounts \cup {DefaultCount}
      BY DEF TypeOK
    <3>2. recentCount \in Nat /\ recentCount > 0
      BY <3>1, BoundsAssumption
    <3>3. Unrepeated(recentList)
      BY DEF RecentAgrees, Unrepeated
    <3> QED BY <3>1, <3>2, <3>3, LenProperties DEF RecentAgrees
  <2>2. CASE UNCHANGED <<recentList, shown, recentCount>> /\ (alive' => alive)
    BY <2>2 DEF RecentAgrees
  <2>3. ASSUME NEW record \in Record, Announce(record), alive,
               UNCHANGED recentCount
        PROVE  RecentAgrees'
    <3> DEFINE key == Key(record)
               list == Refreshed(key)
    <3>1. key \in KeyType
      BY KeyIsTyped
    <3> HIDE DEF key
    <3>2. Len(list) <= recentCount
      BY <2>1, <2>3, <3>1, RefreshedType
    <3>3. /\ Unrepeated(list)
          /\ \A i \in DOMAIN list :
               \/ list[i] = [key |-> key, active |-> TRUE]
               \/ /\ list[i].key # key
                  /\ \E j \in DOMAIN recentList : list[i] = recentList[j]
      BY <2>1, <3>1, RefreshedEntries
    <3>4. recentList' = list /\ shown' = shown \cup {key}
      BY <2>3 DEF Announce, key
    <3> HIDE DEF list
    <3>5. ASSUME NEW i \in DOMAIN list
          PROVE  list[i].active <=> list[i].key \in shown'
      <4>1. CASE list[i] = [key |-> key, active |-> TRUE]
        BY <3>4, <4>1
      <4>2. ASSUME list[i].key # key, NEW j \in DOMAIN recentList,
                   list[i] = recentList[j]
            PROVE  list[i].active <=> list[i].key \in shown'
        BY <2>1, <3>4, <4>2
      <4> QED BY <3>3, <4>1, <4>2
    <3> QED BY <2>3, <3>2, <3>3, <3>4, <3>5 DEF RecentAgrees, Unrepeated
  <2>4. ASSUME NEW records, Remove(records)
        PROVE  RecentAgrees'
    <3> DEFINE list == Deactivated(Keys(records))
    <3>1. /\ Len(list) = Len(recentList)
          /\ list \in Seq(Recent)
          /\ \A i \in DOMAIN recentList :
               /\ list[i].key = recentList[i].key
               /\ list[i].active
                    <=> recentList[i].active /\ recentList[i].key \notin Keys(records)
      BY <2>1, DeactivatedType
    <3>2. /\ recentList' = list
          /\ shown' = shown \ Keys(records)
          /\ UNCHANGED <<alive, recentCount>>
      BY <2>4 DEF Remove
    <3> HIDE DEF list
    <3>3. DOMAIN list = DOMAIN recentList
      BY <2>1, <3>1, LenProperties
    <3>4. \A i, j \in DOMAIN list : list[i].key = list[j].key => i = j
      BY <2>1, <3>1, <3>3 DEF Unrepeated
    <3>5. \A i \in DOMAIN list : list[i].active <=> list[i].key \in shown'
      BY <2>1, <3>1, <3>2, <3>3
    <3> QED BY <2>1, <3>1, <3>2, <3>4, <3>5 DEF RecentAgrees
  <2>5. ASSUME NEW count \in RecentCounts, SetRecentNotificationCount(count), alive
        PROVE  RecentAgrees'
    <3>1. CASE Len(recentList) > count
      <4>1. count \in 0 .. Len(recentList)
        BY <2>1, <3>1, BoundsAssumption
      <4>2. recentList' = SubSeq(recentList, 1, count) /\ recentCount' = count
        BY <2>5, <3>1 DEF SetRecentNotificationCount
      <4>3. /\ recentList' \in Seq(Recent)
            /\ Len(recentList') = count
            /\ \A i \in 1 .. count : recentList'[i] = recentList[i]
        BY <2>1, <4>1, <4>2, PrefixType
      <4>4. DOMAIN recentList' = 1 .. count
        BY <4>3, LenProperties
      <4>5. 1 .. count \subseteq DOMAIN recentList /\ count <= count
        BY <2>1, <4>1
      <4>6. shown' = shown
        BY <2>5 DEF SetRecentNotificationCount
      <4> QED BY <2>1, <4>2, <4>3, <4>4, <4>5, <4>6 DEF RecentAgrees, Unrepeated
    <3>2. CASE ~(Len(recentList) > count)
      <4>1. Len(recentList) <= count
        BY <2>1, <3>2, BoundsAssumption
      <4>2. /\ recentList' = recentList
            /\ shown' = shown
            /\ recentCount' = count
        BY <2>5, <3>2 DEF SetRecentNotificationCount
      <4> QED BY <2>1, <4>1, <4>2 DEF RecentAgrees, Unrepeated
    <3> QED BY <3>1, <3>2
  <2> QED BY <2>2, <2>3, <2>4, <2>5, RecentKinds
<1> QED BY <1>1, <1>2, TypeCorrect, PTL DEF Spec

----------------------------------------------------------------------------
(* Flow control                                                            *)

(* The timestamps are in order, the oldest first. *)
OldestFirst ==
  \A i, j \in DOMAIN flowControlTimestampList :
    i <= j => flowControlTimestampList[i] >= flowControlTimestampList[j]

(* In an ordered list the expired timestamps are a front of it: removing   *)
(* them leaves those of the last second, all of them, in their order.      *)
LEMMA ExpiredInFront ==
  ASSUME TypeOK, OldestFirst
  PROVE  LET list == flowControlTimestampList
             fresh == RemoveExpired(list)
         IN  /\ fresh \in Seq(0 .. Window + 1)
             /\ Len(fresh) = WithinWindow
             /\ Len(fresh) \in 0 .. Len(list)
             /\ \A i \in 1 .. Len(fresh) :
                  /\ fresh[i] = list[Len(list) - Len(fresh) + i]
                  /\ fresh[i] <= Window
<1> DEFINE list == flowControlTimestampList
           expired == {i \in DOMAIN list : \A j \in 1 .. i : list[j] > Window}
           young == {i \in DOMAIN list : list[i] <= Window}
           c == Cardinality(expired)
           fresh == RemoveExpired(list)
<1>1. /\ list \in Seq(0 .. Window + 1)
      /\ Len(list) \in Nat
      /\ DOMAIN list = 1 .. Len(list)
      /\ \A i \in 1 .. Len(list) : list[i] \in 0 .. Window + 1
      /\ Window \in Nat
  BY LenProperties, ElementOfSeq, BoundsAssumption DEF TypeOK
<1>2. \A i, j \in 1 .. Len(list) : i <= j => list[i] >= list[j]
  BY <1>1 DEF OldestFirst
<1>3. fresh = SubSeq(list, c + 1, Len(list))
  BY DEF RemoveExpired
<1>4. WithinWindow = Cardinality(young)
  BY DEF WithinWindow
<1> HIDE DEF fresh, list
<1>5. expired \subseteq 1 .. Len(list)
  BY <1>1
<1>6. ASSUME NEW i \in expired, NEW j \in 1 .. i
      PROVE  j \in expired
  BY <1>1, <1>6
<1>7. \A i \in 1 .. Len(list) : i \in expired <=> list[i] > Window
  <2> SUFFICES ASSUME NEW i \in 1 .. Len(list), list[i] > Window
               PROVE  \A j \in 1 .. i : list[j] > Window
    BY <1>1
  <2>1. ASSUME NEW j \in 1 .. i
        PROVE  list[j] > Window
    <3>1. j \in 1 .. Len(list) /\ list[j] >= list[i]
      BY <1>1, <1>2
    <3> QED BY <1>1, <3>1
  <2> QED BY <2>1
<1> HIDE DEF expired
<1>8. IsFiniteSet(expired) /\ c \in 0 .. Len(list)
  <2>1. /\ IsFiniteSet(1 .. Len(list))
        /\ Cardinality(1 .. Len(list)) = Len(list)
    <3> DEFINE n == Len(list)
    <3>1. n \in Nat /\ 1 \in Int /\ n \in Int
      BY <1>1
    <3> HIDE DEF n
    <3>2. /\ IsFiniteSet(1 .. n)
          /\ Cardinality(1 .. n) = IF 1 > n THEN 0 ELSE n - 1 + 1
      BY <3>1, FS_Interval
    <3>3. Cardinality(1 .. n) = n
      BY <3>1, <3>2
    <3> QED BY <3>2, <3>3 DEF n
  <2>2. IsFiniteSet(expired) /\ c <= Len(list)
    BY <1>5, <2>1, FS_Subset
  <2> QED BY <1>1, <2>2, FS_CardinalityType
<1>9. \A i \in 1 .. Len(list) : i \in expired <=> i <= c
  <2> TAKE i \in 1 .. Len(list)
  <2>1. ASSUME i \in expired
        PROVE  i <= c
    <3>1. 1 .. i \subseteq expired
      BY <1>6, <2>1
    <3>2. Cardinality(1 .. i) = i
      BY FS_Interval
    <3> QED BY <1>8, <3>1, <3>2, FS_Subset
  <2>2. ASSUME i \notin expired
        PROVE  ~(i <= c)
    <3>1. expired \subseteq 1 .. i - 1
      <4> SUFFICES ASSUME NEW j \in expired, ~(j <= i - 1)
                   PROVE  FALSE
        BY <1>5
      <4>1. i \in 1 .. j
        BY <1>5
      <4> QED BY <1>6, <2>2, <4>1
    <3>2. IsFiniteSet(1 .. i - 1) /\ Cardinality(1 .. i - 1) = i - 1
      BY FS_Interval
    <3>3. c <= i - 1
      BY <3>1, <3>2, FS_Subset
    <3> QED BY <1>8, <3>3
  <2> QED BY <2>1, <2>2
<1> HIDE DEF c
<1>10. young = c + 1 .. Len(list)
  <2>1. \A i \in 1 .. Len(list) : list[i] <= Window <=> i >= c + 1
    BY <1>1, <1>7, <1>8, <1>9
  <2> QED BY <1>1, <1>8, <2>1
<1>11. Cardinality(young) = Len(list) - c
  <2> DEFINE m == c + 1
             n == Len(list)
  <2>1. m \in Int /\ n \in Int /\ c \in 0 .. n /\ m = c + 1
    BY <1>1, <1>8
  <2> HIDE DEF m, n
  <2>2. Cardinality(m .. n) = IF m > n THEN 0 ELSE n - m + 1
    BY <2>1, FS_Interval
  <2>3. Cardinality(m .. n) = n - c
    BY <2>1, <2>2
  <2> QED BY <1>10, <2>3 DEF m, n
<1>12. /\ fresh \in Seq(0 .. Window + 1)
       /\ Len(fresh) = Len(list) - c
       /\ \A i \in 1 .. Len(list) - c : fresh[i] = list[c + i]
  <2> DEFINE m == c + 1
             n == Len(list)
  <2>1. m \in 1 .. Len(list) + 1 /\ n \in 0 .. Len(list) /\ c \in 0 .. n
    BY <1>1, <1>8
  <2>2. m = c + 1 /\ fresh = SubSeq(list, m, n)
    BY <1>3
  <2> HIDE DEF m
  <2>3. /\ SubSeq(list, m, n) \in Seq(0 .. Window + 1)
        /\ Len(SubSeq(list, m, n)) = IF m <= n THEN n - m + 1 ELSE 0
        /\ \A i \in 1 .. n - m + 1 : SubSeq(list, m, n)[i] = list[m + i - 1]
    <3> HIDE DEF n
    <3> QED BY <1>1, <2>1, StretchType
  <2> HIDE DEF n
  <2>4. /\ n - m + 1 = n - c
        /\ (IF m <= n THEN n - m + 1 ELSE 0) = n - c
        /\ \A i \in 1 .. n - c : m + i - 1 = c + i
    BY <2>1, <2>2
  <2> QED BY <2>2, <2>3, <2>4 DEF n
<1>13. \A i \in 1 .. Len(list) - c : c + i \in young
  BY <1>1, <1>8, <1>10
<1>14. /\ Len(fresh) = WithinWindow
       /\ Len(fresh) \in 0 .. Len(list)
       /\ Len(list) - Len(fresh) = c
  BY <1>1, <1>4, <1>8, <1>11, <1>12
<1> QED BY <1>12, <1>13, <1>14 DEF list, fresh

(* The timestamps change by expiry, by expiry and one more, or by ageing.  *)
LEMMA FlowKinds ==
  ASSUME [Next]_vars
  PROVE  \/ UNCHANGED flowControlTimestampList
         \/ flowControlTimestampList' = RemoveExpired(flowControlTimestampList)
         \/ flowControlTimestampList' =
              Append(RemoveExpired(flowControlTimestampList), 0)
         \/ Elapse
<1> DEFINE Same == UNCHANGED flowControlTimestampList
           Kinds ==
             \/ Same
             \/ flowControlTimestampList' = RemoveExpired(flowControlTimestampList)
             \/ flowControlTimestampList' =
                  Append(RemoveExpired(flowControlTimestampList), 0)
<1>1. CASE UNCHANGED vars
  BY <1>1 DEF vars
<1>2. ASSUME NEW record, AssignToNotificationList(record)
      PROVE  Kinds
  BY <1>2 DEF AssignToNotificationList, FlowControl
<1>3. CASE Publishing
  <2>1. ASSUME NEW creator, NEW app, NEW request, Publish(creator, app, request)
        PROVE  Kinds
    BY <1>2, <2>1 DEF Publish
  <2> QED BY <1>3, <2>1 DEF Publishing, PublishContinuousTaskNotification
<1>4. ASSUME NEW records, Remove(records)
      PROVE  Same
  BY <1>4 DEF Remove
<1>5. CASE Cancelling
  <2>1. Same
    BY <1>4, <1>5
    DEF Cancelling, Cancel, CancelAsBundle, CancelPreparedNotification, CancelAll,
        CancelGroup, CancelContinuousTaskNotification
  <2> QED BY <2>1
<1>6. CASE Removing
  <2>1. Same
    BY <1>4, <1>6
    DEF Removing, Delete, DeleteByBundle, DeleteAllByUser, RemoveNotification,
        RemoveAllNotifications, RemoveGroupByBundle, OnBundleDataCleared,
        OnBundleRemoved, RemoveSettings
  <2> QED BY <2>1
<1>7. CASE Configuring
  <2>1. ASSUME NEW app, NEW value,
               SetNotificationsEnabledForSpecialBundle(app, value)
        PROVE  Same
    BY <1>4, <2>1 DEF SetNotificationsEnabledForSpecialBundle
  <2>2. Same
    BY <1>7, <2>1
    DEF Configuring, AddSlots, UpdateSlots, AddSlotByType, RemoveSlotByType,
        RemoveAllSlots, SetEnabledForBundleSlot, AddNotificationSlots,
        RemoveSlots, SetNotificationsEnabled, SetRecentNotificationCount
  <2> QED BY <2>2
<1> QED BY <1>1, <1>3, <1>5, <1>6, <1>7 DEF Next

(* The timestamps stay in order: a new one is the youngest, and time adds  *)
(* the same to each up to the age beyond which none counts.                *)
LEMMA OrderKept ==
  ASSUME TypeOK, OldestFirst, [Next]_vars
  PROVE  OldestFirst'
<1> DEFINE list == flowControlTimestampList
           fresh == RemoveExpired(list)
<1>1. /\ list \in Seq(0 .. Window + 1)
      /\ Len(list) \in Nat
      /\ DOMAIN list = 1 .. Len(list)
      /\ \A i \in 1 .. Len(list) : list[i] \in 0 .. Window + 1
      /\ Window \in Nat
      /\ \A i, j \in 1 .. Len(list) : i <= j => list[i] >= list[j]
  BY LenProperties, ElementOfSeq, BoundsAssumption DEF TypeOK, OldestFirst
<1>2. /\ fresh \in Seq(0 .. Window + 1)
      /\ Len(fresh) \in 0 .. Len(list)
      /\ \A i \in 1 .. Len(fresh) : fresh[i] = list[Len(list) - Len(fresh) + i]
  BY ExpiredInFront
<1> HIDE DEF fresh
<1>3. /\ DOMAIN fresh = 1 .. Len(fresh)
      /\ \A i, j \in 1 .. Len(fresh) : i <= j => fresh[i] >= fresh[j]
      /\ \A i \in 1 .. Len(fresh) : fresh[i] \in 0 .. Window + 1
  <2>1. \A i \in 1 .. Len(fresh) : Len(list) - Len(fresh) + i \in 1 .. Len(list)
    BY <1>1, <1>2
  <2> HIDE DEF list
  <2>2. ASSUME NEW i \in 1 .. Len(fresh), NEW j \in 1 .. Len(fresh), i <= j
        PROVE  fresh[i] >= fresh[j]
    <3> DEFINE k == Len(list) - Len(fresh) + i
               l == Len(list) - Len(fresh) + j
    <3>1. k \in 1 .. Len(list) /\ l \in 1 .. Len(list)
      BY <2>1
    <3>2. k <= l
      BY <1>1, <1>2, <2>2
    <3>3. fresh[i] = list[k] /\ fresh[j] = list[l]
      BY <1>2
    <3> HIDE DEF k, l
    <3> QED BY <1>1, <3>1, <3>2, <3>3
  <2> QED BY <1>1, <1>2, <2>1, <2>2, LenProperties
<1>4. CASE flowControlTimestampList' = Append(fresh, 0)
  <2> DEFINE stamped == Append(fresh, 0)
  <2>1. /\ Len(stamped) = Len(fresh) + 1
        /\ stamped \in Seq(0 .. Window + 1)
        /\ \A i \in 1 .. Len(fresh) : stamped[i] = fresh[i]
        /\ stamped[Len(fresh) + 1] = 0
    <3>1. 0 \in 0 .. Window + 1
      BY <1>1
    <3> QED BY <1>2, <3>1, AppendProperties
  <2> HIDE DEF stamped
  <2>2. DOMAIN stamped = 1 .. Len(fresh) + 1
    BY <2>1, LenProperties
  <2>3. ASSUME NEW i \in DOMAIN stamped, NEW j \in DOMAIN stamped, i <= j
        PROVE  stamped[i] >= stamped[j]
    <3>1. Len(fresh) \in Nat
      BY <1>2, LenProperties
    <3>2. CASE j <= Len(fresh)
      <4>1. i \in 1 .. Len(fresh) /\ j \in 1 .. Len(fresh)
        BY <2>2, <2>3, <3>1, <3>2
      <4> QED BY <1>3, <2>1, <2>3, <4>1
    <3>3. CASE ~(j <= Len(fresh))
      <4>1. j = Len(fresh) + 1
        BY <2>2, <3>1, <3>3
      <4>2. CASE i = j
        BY <2>1, <4>1, <4>2
      <4>3. CASE i # j
        <5>1. i \in 1 .. Len(fresh)
          BY <2>2, <2>3, <3>1, <4>1, <4>3
        <5>2. stamped[i] \in 0 .. Window + 1
          BY <1>3, <2>1, <5>1
        <5>3. stamped[j] = 0
          BY <2>1, <4>1
        <5> QED BY <1>1, <5>2, <5>3
      <4> QED BY <4>2, <4>3
    <3> QED BY <3>2, <3>3
  <2> QED BY <1>4, <2>3 DEF OldestFirst, stamped
<1>5. CASE Elapse
  <2>1. /\ DOMAIN flowControlTimestampList' = 1 .. Len(list)
        /\ \A i \in 1 .. Len(list) :
             flowControlTimestampList'[i] =
               IF list[i] <= Window THEN list[i] + 1 ELSE Window + 1
    BY <1>1, <1>5 DEF Elapse
  <2>2. ASSUME NEW i \in 1 .. Len(list), NEW j \in 1 .. Len(list), i <= j
        PROVE  flowControlTimestampList'[i] >= flowControlTimestampList'[j]
    <3>1. /\ list[i] >= list[j]
          /\ list[i] \in 0 .. Window + 1
          /\ list[j] \in 0 .. Window + 1
      BY <1>1, <2>2
    <3> HIDE DEF list
    <3> QED BY <1>1, <2>1, <3>1
  <2> QED BY <2>1, <2>2 DEF OldestFirst
<1>6. CASE flowControlTimestampList' = fresh
  BY <1>3, <1>6 DEF OldestFirst
<1>7. CASE UNCHANGED flowControlTimestampList
  BY <1>7 DEF OldestFirst
<1> QED BY <1>4, <1>5, <1>6, <1>7, FlowKinds DEF fresh

(* A new key of an application enters on a timestamp of its own, and at    *)
(* most MAX_ACTIVE_NUM_PERSECOND lie within a second: since the list is in *)
(* order, expiry from its front leaves the timestamps that still count.    *)
THEOREM AdmissionStaysCounted == Spec => AdmissionIsCounted
<1>1. Init => OldestFirst
  <2>1. Init => DOMAIN flowControlTimestampList = {}
    BY DEF Init
  <2> QED BY <2>1 DEF OldestFirst
<1>2. TypeOK /\ OldestFirst /\ [Next]_vars => OldestFirst'
  BY OrderKept
<1>3. TypeOK /\ OldestFirst /\ [Next]_vars =>
        [\A r \in notificationList' \ notificationList :
           r.app \in Apps /\ ~Listed(Key(r)) =>
             WithinWindow' = WithinWindow + 1 /\ WithinWindow' <= MaxPerSecond]_vars
  <2> SUFFICES ASSUME TypeOK, OldestFirst, [Next]_vars,
                      NEW r \in notificationList' \ notificationList,
                      r.app \in Apps, ~Listed(Key(r))
               PROVE  WithinWindow' = WithinWindow + 1 /\ WithinWindow' <= MaxPerSecond
    OBVIOUS
  <2> DEFINE fresh == RemoveExpired(flowControlTimestampList)
             stamped == Append(fresh, 0)
  <2>1. Admitted(r)
    BY NewcomerKinds, AppsAssumption
  <2>2. Len(fresh) < MaxPerSecond /\ flowControlTimestampList' = stamped
    BY <2>1 DEF Admitted
  <2>3. /\ fresh \in Seq(0 .. Window + 1)
        /\ Len(fresh) = WithinWindow
        /\ Len(fresh) \in Nat
        /\ \A i \in 1 .. Len(fresh) : fresh[i] <= Window
    BY ExpiredInFront, LenProperties
  <2> HIDE DEF fresh
  <2>4. /\ Len(stamped) = Len(fresh) + 1
        /\ stamped \in Seq(0 .. Window + 1)
        /\ \A i \in 1 .. Len(fresh) : stamped[i] = fresh[i]
        /\ stamped[Len(fresh) + 1] = 0
    <3>1. 0 \in 0 .. Window + 1
      BY BoundsAssumption
    <3> QED BY <2>3, <3>1, AppendProperties
  <2> HIDE DEF stamped
  <2> DEFINE n == Len(fresh) + 1
  <2>5. n \in Nat /\ DOMAIN stamped = 1 .. n
    BY <2>3, <2>4, LenProperties
  <2>6. {i \in DOMAIN stamped : stamped[i] <= Window} = 1 .. n
    <3>1. ASSUME NEW i \in 1 .. n
          PROVE  stamped[i] <= Window
      <4>1. i \in 1 .. Len(fresh) \/ i = Len(fresh) + 1
        BY <2>3
      <4> QED BY <2>3, <2>4, <4>1, BoundsAssumption
    <3> QED BY <2>5, <3>1
  <2>7. Cardinality(1 .. n) = n
    <3> HIDE DEF n
    <3>1. Cardinality(1 .. n) = IF 1 > n THEN 0 ELSE n - 1 + 1
      BY <2>5, FS_Interval
    <3> QED BY <2>5, <3>1
  <2>8. WithinWindow' = n
    BY <2>2, <2>6, <2>7 DEF WithinWindow
  <2> QED BY <2>2, <2>3, <2>8, BoundsAssumption
<1> QED BY <1>1, <1>2, <1>3, TypeCorrect, PTL DEF Spec, AdmissionIsCounted

=============================================================================
