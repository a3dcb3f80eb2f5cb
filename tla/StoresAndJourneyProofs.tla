------------------------ MODULE StoresAndJourneyProofs ------------------------
(* Theorems about DistributedStores, for any limits, any faults and any number *)
(* of calls: the handle on the store is one that hears, the status other       *)
(* devices read is the one of this screen, and no minute has too many calls.   *)
(* And about NotificationJourney, for any roots, types and values: what        *)
(* crosses arrives whole, what comes to another device is known there by what  *)
(* it is known by here, and a script hears what a script told.                 *)
EXTENDS DistributedStores, NotificationJourney, FiniteSetTheorems, SequenceTheorems, TLAPS

----------------------------------------------------------------------------
(* The stores.                                                                 *)

(* A handle is a record of its five parts, whatever they are.                  *)
Shaped(h) ==
  h = [manager |-> h.manager, store |-> h.store, heard |-> h.heard,
       managerCalls |-> h.managerCalls, storeCalls |-> h.storeCalls]

(* What HeldIsHeard says of one handle.                                        *)
Sound(h) ==
  holder # "screen" /\ h.store =>
    /\ h.manager
    /\ holder = "notifications" => h.heard

(* HeldIsHeard, with the shape of the handle. The screens keep a store without *)
(* a manager, and nothing is claimed of them.                                  *)
IInv ==
  /\ holder \in {"notifications", "screen", "preferences"}
  /\ holder # "screen" => Shaped(handle) /\ Sound(handle)

----------------------------------------------------------------------------
(* The parts of a handler.                                                     *)

(* A manager is made anew only where there is none, and then no store is held. *)
LEMMA ManagerIsSound ==
  ASSUME NEW h, Shaped(h), Sound(h), NEW m \in CheckKvDataManager(h)
  PROVE  Shaped(m) /\ Sound(m)
  BY DEF CheckKvDataManager, GetKvDataManager, Shaped, Sound, Outcomes

(* Counting a call leaves what is held.                                        *)
LEMMA CountIsSound ==
  ASSUME NEW h, Shaped(h), Sound(h)
  PROVE  /\ Shaped(CountManager(h)) /\ Sound(CountManager(h))
         /\ Shaped(CountStore(h)) /\ Sound(CountStore(h))
  BY DEF CountManager, CountStore, Shaped, Sound

(* A handle without a store is sound.                                          *)
LEMMA DroppedIsSound ==
  ASSUME NEW h, Shaped(h)
  PROVE  Shaped(Dropped(h)) /\ Sound(Dropped(h))
<1>1. ASSUME NEW x, NEW y, NEW v, Shaped(x), y = [x EXCEPT !.store = v]
      PROVE  Shaped(y) /\ y.store = v
  BY <1>1 DEF Shaped
<1>2. ASSUME NEW x, NEW y, NEW v, Shaped(x), y = [x EXCEPT !.heard = v]
      PROVE  Shaped(y) /\ y.store = x.store
  BY <1>2 DEF Shaped
<1> DEFINE q == [h EXCEPT !.store = FALSE]
<1>3. Shaped(q) /\ q.store = FALSE
  BY <1>1
<1>4. Dropped(h) = [q EXCEPT !.heard = FALSE]
  BY Zenon DEF Dropped
<1>5. Shaped(Dropped(h)) /\ Dropped(h).store = FALSE
  <2> HIDE DEF q
  <2> QED BY <1>2, <1>3, <1>4
<1> QED BY <1>5 DEF Sound

(* A store is opened through the manager, and kept only if it hears.           *)
LEMMA OpenIsSound ==
  ASSUME NEW m, Shaped(m), m.manager,
         holder \in {"notifications", "screen", "preferences"}, NEW h \in Open(m)
  PROVE  Shaped(h) /\ Sound(h)
<1>1. CASE holder = "notifications"
  BY <1>1 DEF Open, OpenNotifications, Unopened, Dropped, Shaped, Sound, Outcomes
<1>2. CASE holder = "screen"
  BY <1>2 DEF Open, OpenScreens, Unopened, Dropped, Shaped, Sound
<1>3. CASE holder = "preferences"
  BY <1>3 DEF Open, OpenPreferences, Unopened, Dropped, Shaped, Sound
<1> QED BY <1>1, <1>2, <1>3

LEMMA StoreIsSound ==
  ASSUME NEW h, Shaped(h), Sound(h),
         holder \in {"notifications", "screen", "preferences"}
  PROVE  /\ \A s \in GetKvStore(h) : Shaped(s) /\ Sound(s)
         /\ \A s \in CheckKvStore(h) : Shaped(s) /\ Sound(s)
<1>1. ASSUME NEW s \in GetKvStore(h) PROVE Shaped(s) /\ Sound(s)
  <2>1. PICK m \in CheckKvDataManager(h) : s \in IF m.manager THEN Open(m) ELSE {m}
    BY DEF GetKvStore
  <2>2. Shaped(m) /\ Sound(m)
    BY ManagerIsSound
  <2> QED BY <2>1, <2>2, OpenIsSound
<1> QED BY <1>1 DEF CheckKvStore

----------------------------------------------------------------------------
(* The handlers.                                                               *)

LEMMA InitSound == Init => IInv
<1> SUFFICES ASSUME Init PROVE IInv
  OBVIOUS
<1> DEFINE h0 == [manager |-> FALSE, store |-> FALSE, heard |-> FALSE,
                  managerCalls |-> <<>>, storeCalls |-> <<>>]
<1>1. Shaped(h0) /\ Sound(h0)
  BY DEF Shaped, Sound
<1>2. holder \in {"notifications", "screen", "preferences"} /\ handle \in GetKvStore(h0)
  BY HoldersAssumption DEF Init
<1> HIDE DEF h0
<1> QED BY <1>1, <1>2, StoreIsSound DEF IInv

(* A store is used, by the database or by the preferences.                     *)
LEMMA UseIsSound ==
  ASSUME IInv, holder # "screen",
         \/ \E h \in CheckKvStore(handle) : Hold(IF h.store THEN CountStore(h) ELSE h)
         \/ \E h \in CheckKvDataManager(handle) : Hold(IF h.manager THEN CountManager(h) ELSE h)
  PROVE  Shaped(handle') /\ Sound(handle')
<1>1. CASE \E h \in CheckKvStore(handle) : Hold(IF h.store THEN CountStore(h) ELSE h)
  <2>1. PICK h \in CheckKvStore(handle) : Hold(IF h.store THEN CountStore(h) ELSE h)
    BY <1>1
  <2>2. Shaped(h) /\ Sound(h)
    BY StoreIsSound DEF IInv
  <2> QED BY <2>1, <2>2, CountIsSound DEF Hold
<1>2. CASE \E h \in CheckKvDataManager(handle) : Hold(IF h.manager THEN CountManager(h) ELSE h)
  <2>1. PICK h \in CheckKvDataManager(handle) : Hold(IF h.manager THEN CountManager(h) ELSE h)
    BY <1>2
  <2>2. Shaped(h) /\ Sound(h)
    BY ManagerIsSound DEF IInv
  <2> QED BY <2>1, <2>2, CountIsSound DEF Hold
<1> QED BY <1>1, <1>2

(* A database that is made anew is dropped before it is opened.                *)
LEMMA RecreateIsSound ==
  ASSUME IInv, RecreateDistributedDB
  PROVE  Shaped(handle') /\ Sound(handle')
<1>1. PICK h \in CheckKvDataManager(handle) :
        \/ Hold(h) \/ Hold(CountManager(h)) \/ Hold(Dropped(CountManager(h)))
        \/ \E again \in GetKvStore(Dropped(CountManager(h))) : Hold(again)
  BY DEF RecreateDistributedDB
<1>2. Shaped(h) /\ Sound(h)
  BY ManagerIsSound DEF IInv, RecreateDistributedDB
<1>3. Shaped(CountManager(h)) /\ Sound(CountManager(h))
  BY <1>2, CountIsSound
<1>4. Shaped(Dropped(CountManager(h))) /\ Sound(Dropped(CountManager(h)))
  BY <1>3, DroppedIsSound
<1>5. \A again \in GetKvStore(Dropped(CountManager(h))) : Shaped(again) /\ Sound(again)
  BY <1>4, StoreIsSound DEF IInv
<1> QED BY <1>1, <1>2, <1>3, <1>4, <1>5 DEF Hold

(* The ages grow, nothing else.                                                *)
LEMMA TickIsSound ==
  ASSUME IInv, holder # "screen", Tick
  PROVE  Shaped(handle') /\ Sound(handle')
  BY DEF IInv, Tick, Shaped, Sound

(* The invariant, over every step.                                             *)
LEMMA StepIsSound == IInv /\ [Next]_vars => IInv'
<1> SUFFICES ASSUME IInv, [Next]_vars PROVE IInv'
  OBVIOUS
<1>1. CASE UNCHANGED vars
  BY <1>1 DEF IInv, Shaped, Sound, vars
<1>2. CASE UseStore
  <2>1. Shaped(handle') /\ Sound(handle')
    BY <1>2, UseIsSound DEF UseStore
  <2> QED BY <1>2, <2>1 DEF IInv, Sound, UseStore
<1>3. CASE UseManager
  <2>1. Shaped(handle') /\ Sound(handle')
    BY <1>3, UseIsSound DEF UseManager
  <2> QED BY <1>3, <2>1 DEF IInv, Sound, UseManager
<1>4. CASE UsePreferences
  <2>1. Shaped(handle') /\ Sound(handle')
    BY <1>4, UseIsSound DEF UsePreferences
  <2> QED BY <1>4, <2>1 DEF IInv, Sound, UsePreferences
<1>5. CASE RecreateDistributedDB
  BY <1>5, RecreateIsSound DEF IInv, Sound, RecreateDistributedDB
<1>6. CASE holder = "screen" /\ UNCHANGED holder
  BY <1>6 DEF IInv
<1>7. CASE Tick
  <2>1. holder' = holder
    BY <1>7 DEF Tick
  <2>2. CASE holder = "screen"
    BY <1>6, <2>1, <2>2
  <2>3. CASE holder # "screen"
    BY <1>7, <2>1, <2>3, TickIsSound DEF IInv, Sound
  <2> QED BY <2>2, <2>3
<1>8. ASSUME NEW on \in BOOLEAN, OnScreen(on) PROVE IInv'
  BY <1>6, <1>8 DEF OnScreen
<1>9. CASE CheckRemoteDevicesIsUsing
  BY <1>6, <1>9 DEF CheckRemoteDevicesIsUsing
<1>10. ASSUME NEW alone \in BOOLEAN, OnDeviceDisconnected(alone) PROVE IInv'
  BY <1>6, <1>10 DEF OnDeviceDisconnected
<1> QED BY <1>1, <1>2, <1>3, <1>4, <1>5, <1>7, <1>8, <1>9, <1>10 DEF Next, Call

(* HeldIsHeard for every limit, every fault and any number of calls: no way    *)
(* through a refusal leaves the database with a store that does not hear of    *)
(* what other devices change, or the preferences with one without a manager.   *)
THEOREM HeldStoresHear == Spec => []HeldIsHeard
<1>1. IInv => HeldIsHeard
  BY DEF IInv, Sound, HeldIsHeard
<1> QED BY <1>1, InitSound, StepIsSound, PTL DEF Spec

----------------------------------------------------------------------------
(* The status of the screen.                                                   *)

(* A write that is not refused, and does not end the service, leaves the       *)
(* status of the screen in the entry, whatever the entry was.                  *)
LEMMA WrittenIsTold ==
  ASSUME NEW h0, NEW was, NEW on, SetLocalScreenStatus(h0, was, on), alive', ~refused'
  PROVE  status' = IF localScreenOn' THEN "on" ELSE "off"
<1>1. localScreenOn' = on
  BY DEF SetLocalScreenStatus
<1>2. PICK h \in CheckKvStore(h0) :
        \/ refused' = TRUE
        \/ alive' = FALSE
        \/ \E put \in Outcomes("status") :
             /\ refused' = ~put
             /\ status' = IF ~put THEN was ELSE IF on THEN "on" ELSE "off"
  BY Zenon DEF SetLocalScreenStatus
<1>3. PICK put \in Outcomes("status") :
        /\ refused' = ~put
        /\ status' = IF ~put THEN was ELSE IF on THEN "on" ELSE "off"
  BY <1>2
<1>4. put
  BY Zenon, <1>3
<1> QED BY <1>1, <1>3, <1>4

(* StatusIsTold is inductive as it stands: what a handler does without a write *)
(* it says of nothing.                                                         *)
LEMMA StepIsTold == StatusIsTold /\ [Next]_vars => StatusIsTold'
<1> SUFFICES ASSUME StatusIsTold, [Next]_vars,
                    alive', holder' = "screen", ~refused'
             PROVE  status' = IF localScreenOn' THEN "on" ELSE "off"
  BY DEF StatusIsTold
<1>1. CASE UNCHANGED <<holder, status, localScreenOn, refused, alive>>
  BY <1>1 DEF StatusIsTold
<1>2. CASE UNCHANGED vars
  BY <1>1, <1>2 DEF vars
<1>3. CASE UseStore \/ UseManager \/ UsePreferences \/ RecreateDistributedDB
           \/ CheckRemoteDevicesIsUsing \/ Tick
  BY <1>1, <1>3 DEF UseStore, UseManager, UsePreferences, RecreateDistributedDB,
                    CheckRemoteDevicesIsUsing, Tick
<1>4. ASSUME NEW on \in BOOLEAN, OnScreen(on)
      PROVE  status' = IF localScreenOn' THEN "on" ELSE "off"
  BY <1>4, WrittenIsTold DEF OnScreen
<1>5. ASSUME NEW alone \in BOOLEAN, OnDeviceDisconnected(alone)
      PROVE  status' = IF localScreenOn' THEN "on" ELSE "off"
  <2>1. \/ UNCHANGED <<holder, status, localScreenOn, refused, alive>>
        \/ refused' = TRUE
        \/ \E again, was : SetLocalScreenStatus(again, was, localScreenOn)
    BY <1>5 DEF OnDeviceDisconnected
  <2> QED BY <1>1, <2>1, WrittenIsTold
<1> QED BY <1>2, <1>3, <1>4, <1>5 DEF Next, Call

(* StatusIsTold for every limit, every fault and any number of calls: what the *)
(* store says of this screen is how it is, unless the last write was refused;  *)
(* so also after the store is made anew (SetLocalScreenStatus,                 *)
(* OnDeviceDisconnected).                                                      *)
THEOREM StatusStaysTold == Spec => []StatusIsTold
<1>1. Init => StatusIsTold
  BY DEF Init, StatusIsTold
<1> QED BY <1>1, StepIsTold, PTL DEF Spec

----------------------------------------------------------------------------
(* The calls of a minute.                                                      *)

(* The calls in a list that are no older than a minute.                        *)
Young(list) == {i \in DOMAIN list : list[i] <= Minute}

(* The latest call is first.                                                   *)
LatestFirst(list) ==
  /\ list \in Seq(Nat)
  /\ \A i, j \in 1 .. Len(list) : i <= j => list[i] <= list[j]

(* As many numbers as the last one says.                                       *)
LEMMA SizeOfInterval ==
  ASSUME NEW n \in Nat
  PROVE  IsFiniteSet(1 .. n) /\ Cardinality(1 .. n) = n
<1>1. n \in Int /\ 1 \in Int
  OBVIOUS
<1>2. IsFiniteSet(1 .. n) /\ Cardinality(1 .. n) = IF 1 > n THEN 0 ELSE n - 1 + 1
  BY <1>1, FS_Interval, Zenon
<1> DEFINE size == Cardinality(1 .. n)
<1>3. size = IF 1 > n THEN 0 ELSE n - 1 + 1
  BY <1>2
<1> HIDE DEF size
<1>4. size = n
  BY <1>3
<1> QED BY <1>2, <1>4 DEF size

LEMMA YoungIsPart ==
  ASSUME NEW list \in Seq(Nat)
  PROVE  /\ Young(list) \subseteq 1 .. Len(list)
         /\ IsFiniteSet(Young(list))
         /\ Cardinality(Young(list)) \in 0 .. Len(list)
<1>1. Len(list) \in Nat /\ DOMAIN list = 1 .. Len(list)
  BY LenProperties
<1>2. Young(list) \subseteq 1 .. Len(list)
  BY <1>1 DEF Young
<1>3. IsFiniteSet(1 .. Len(list)) /\ Cardinality(1 .. Len(list)) = Len(list)
  BY <1>1, SizeOfInterval, Zenon
<1>4. IsFiniteSet(Young(list)) /\ Cardinality(Young(list)) <= Len(list)
  BY <1>2, <1>3, FS_Subset
<1>5. Cardinality(Young(list)) \in Nat
  BY <1>4, FS_CardinalityType
<1> QED BY <1>1, <1>2, <1>4, <1>5

(* The young calls of a list in order are the first ones: forgetting the rest  *)
(* is remove_if of the code.                                                   *)
LEMMA YoungAreFirst ==
  ASSUME NEW list, LatestFirst(list)
  PROVE  Young(list) = 1 .. Cardinality(Young(list))
<1> DEFINE young == Young(list)
           old == {i \in 1 .. Len(list) : list[i] > Minute}
<1>1. /\ list \in Seq(Nat) /\ Len(list) \in Nat /\ DOMAIN list = 1 .. Len(list)
      /\ Minute \in Nat
  BY LenProperties, FlowAssumption DEF LatestFirst
<1>2. \A i \in 1 .. Len(list) : list[i] \in Nat
  BY <1>1, ElementOfSeq
<1>3. young \subseteq 1 .. Len(list) /\ IsFiniteSet(young) /\ Cardinality(young) \in 0 .. Len(list)
  BY <1>1, YoungIsPart
<1>4. ASSUME NEW i \in young, NEW j \in 1 .. i PROVE j \in young
  <2>1. i \in 1 .. Len(list) /\ j \in 1 .. Len(list) /\ list[j] <= list[i] /\ list[i] <= Minute
    BY <1>1, <1>3, <1>4 DEF LatestFirst, Young
  <2> QED BY <1>1, <1>2, <2>1 DEF Young
<1>5. ASSUME NEW i \in young PROVE i <= Cardinality(young)
  <2>1. 1 .. i \subseteq young
    BY <1>4
  <2>2. i \in Nat \ {0}
    BY <1>1, <1>3
  <2>3. Cardinality(1 .. i) = i
    BY <2>2, FS_Interval
  <2>4. Cardinality(1 .. i) <= Cardinality(young)
    BY <1>3, <2>1, FS_Subset
  <2> QED BY <2>3, <2>4
<1>6. young \subseteq 1 .. Cardinality(young)
  BY <1>3, <1>5
<1>7. /\ IsFiniteSet(1 .. Cardinality(young))
      /\ Cardinality(1 .. Cardinality(young)) = Cardinality(young)
  <2>1. Cardinality(young) \in Nat
    BY <1>3, FS_CardinalityType
  <2> QED BY <2>1, SizeOfInterval, Zenon
<1> QED BY <1>6, <1>7, FS_Subset

(* What is left of a list, in order or not, is as long as its young calls are  *)
(* many; of one in order it is the young calls.                                *)
LEMMA RemovedAreOld ==
  ASSUME NEW list \in Seq(Nat)
  PROVE  /\ RemoveOld(list) \in Seq(Nat)
         /\ Len(RemoveOld(list)) = Cardinality(Young(list))
         /\ \A i \in 1 .. Len(RemoveOld(list)) :
              RemoveOld(list)[i] = list[i] /\ i \in 1 .. Len(list)
         /\ LatestFirst(list) => \A i \in 1 .. Len(list) :
              i \in 1 .. Len(RemoveOld(list)) <=> list[i] <= Minute
<1> DEFINE c == Cardinality(Young(list))
<1>1. c \in 0 .. Len(list) /\ Len(list) \in Nat /\ DOMAIN list = 1 .. Len(list)
  BY YoungIsPart, LenProperties
<1>2. RemoveOld(list) = SubSeq(list, 1, c)
  BY DEF RemoveOld, Young
<1>3. LatestFirst(list) => Young(list) = 1 .. c
  BY YoungAreFirst
<1> HIDE DEF c
<1>4. \A i \in 1 .. c : list[i] \in Nat
  BY <1>1, ElementOfSeq
<1>5. /\ SubSeq(list, 1, c) \in Seq(Nat)
      /\ Len(SubSeq(list, 1, c)) = c
      /\ \A i \in 1 .. c : SubSeq(list, 1, c)[i] = list[i]
  <2>1. /\ SubSeq(list, 1, c) \in Seq(Nat)
        /\ Len(SubSeq(list, 1, c)) = IF 1 <= c THEN c - 1 + 1 ELSE 0
        /\ \A i \in 1 .. c - 1 + 1 : SubSeq(list, 1, c)[i] = list[1 + i - 1]
    BY <1>1, <1>4, SubSeqProperties
  <2> QED BY <1>1, <2>1
<1>6. \A i \in 1 .. Len(list) : i \in Young(list) <=> list[i] <= Minute
  BY <1>1 DEF Young
<1> QED BY <1>1, <1>2, <1>3, <1>5, <1>6 DEF c

(* A list of calls that is as it should be.                                    *)
WithinMinute(list) ==
  /\ LatestFirst(list)
  /\ Len(RemoveOld(list)) <= KVSTORE_MAXINUM_PER_MINUTE

LEMMA EmptyIsWithin == WithinMinute(<<>>)
<1>1. <<>> \in Seq(Nat) /\ Len(<<>>) = 0
  OBVIOUS
<1>2. Cardinality(Young(<<>>)) = 0
  <2>1. Cardinality(Young(<<>>)) \in 0 .. 0
    BY <1>1, YoungIsPart
  <2> QED BY <2>1
<1>3. Len(RemoveOld(<<>>)) = 0
  BY <1>1, <1>2, RemovedAreOld
<1> QED BY <1>1, <1>3, FlowAssumption DEF WithinMinute, LatestFirst

(* A call that passes is put in front of fewer than the maximum; a call that   *)
(* does not, is not counted.                                                   *)
LEMMA CountedIsWithin ==
  ASSUME NEW list, WithinMinute(list)
  PROVE  WithinMinute(Counted(list, KvStoreFlowControl(list)))
<1> DEFINE left == RemoveOld(list)
           passed == KvStoreFlowControl(list)
           front == IF passed THEN <<0>> ELSE <<>>
           new == Counted(list, passed)
<1>1. /\ list \in Seq(Nat) /\ Len(list) \in Nat
      /\ left \in Seq(Nat) /\ Len(left) \in Nat
      /\ \A i \in 1 .. Len(left) : left[i] = list[i] /\ i \in 1 .. Len(list)
  BY RemovedAreOld, LenProperties DEF WithinMinute, LatestFirst
<1>2. /\ passed => Len(left) < KVSTORE_MAXINUM_PER_MINUTE
      /\ Len(left) <= KVSTORE_MAXINUM_PER_MINUTE
  BY DEF KvStoreFlowControl, WithinMinute
<1>3. new = front \o left
  BY DEF Counted
<1>4. front \in Seq(Nat) /\ Len(front) \in {0, 1} /\ (passed <=> Len(front) = 1)
      /\ \A i \in 1 .. Len(front) : front[i] = 0
  BY DEF passed
<1>5. \A i, j \in 1 .. Len(left) : i <= j => left[i] <= left[j]
  <2> SUFFICES ASSUME NEW i \in 1 .. Len(left), NEW j \in 1 .. Len(left), i <= j
               PROVE  left[i] <= left[j]
    OBVIOUS
  <2>1. left[i] = list[i] /\ left[j] = list[j] /\ i \in 1 .. Len(list) /\ j \in 1 .. Len(list)
    BY <1>1
  <2>2. list[i] <= list[j]
    BY <2>1 DEF WithinMinute, LatestFirst
  <2> QED BY <2>1, <2>2
<1> HIDE DEF left, passed, front, new
<1>6. /\ new \in Seq(Nat) /\ Len(new) = Len(front) + Len(left)
      /\ \A i \in 1 .. Len(new) :
           new[i] = IF i <= Len(front) THEN front[i] ELSE left[i - Len(front)]
  BY <1>1, <1>3, <1>4, ConcatProperties
<1>7. LatestFirst(new)
  <2> SUFFICES ASSUME NEW i \in 1 .. Len(new), NEW j \in 1 .. Len(new), i <= j
               PROVE  new[i] <= new[j]
    BY <1>6 DEF LatestFirst
  <2>1. new[i] \in Nat /\ new[j] \in Nat
    BY <1>6, ElementOfSeq
  <2>2. Len(front) \in Nat /\ Len(left) \in Nat /\ Len(new) = Len(front) + Len(left)
    BY <1>1, <1>4, <1>6
  <2>3. CASE i <= Len(front)
    <3>1. i \in 1 .. Len(front)
      BY <2>2, <2>3
    <3>2. new[i] = 0
      BY <1>4, <1>6, <2>3, <3>1
    <3> QED BY <2>1, <3>2
  <2>4. CASE i > Len(front)
    <3>1. /\ i - Len(front) \in 1 .. Len(left) /\ j - Len(front) \in 1 .. Len(left)
          /\ i - Len(front) <= j - Len(front)
          /\ ~(j <= Len(front)) /\ ~(i <= Len(front))
      BY <2>2, <2>4
    <3> QED BY <1>5, <1>6, <3>1
  <2> QED BY <2>2, <2>3, <2>4
<1>8. Len(RemoveOld(new)) <= Len(new)
  BY <1>6, RemovedAreOld, YoungIsPart, LenProperties
<1>9. Len(RemoveOld(new)) \in Nat
  BY <1>6, RemovedAreOld, LenProperties
<1>10. Len(new) <= KVSTORE_MAXINUM_PER_MINUTE
  <2>1. /\ Len(left) \in Nat /\ KVSTORE_MAXINUM_PER_MINUTE \in Nat
        /\ Len(new) = Len(front) + Len(left)
    BY <1>1, <1>6, FlowAssumption
  <2>2. CASE Len(front) = 1
    <3>1. Len(left) < KVSTORE_MAXINUM_PER_MINUTE
      BY <1>2, <1>4, <2>2
    <3> QED BY <2>1, <2>2, <3>1
  <2>3. CASE Len(front) = 0
    BY <1>2, <2>1, <2>3
  <2> QED BY <1>4, <2>2, <2>3
<1>11. Len(RemoveOld(new)) <= KVSTORE_MAXINUM_PER_MINUTE
  BY <1>6, <1>8, <1>9, <1>10, LenProperties, FlowAssumption
<1> QED BY <1>7, <1>11 DEF WithinMinute, new, passed

(* A tick makes no call younger.                                               *)
LEMMA OlderIsWithin ==
  ASSUME NEW list, WithinMinute(list)
  PROVE  WithinMinute(Older(list))
<1> DEFINE older == Older(list)
<1>1. /\ list \in Seq(Nat) /\ Len(list) \in Nat /\ DOMAIN list = 1 .. Len(list)
      /\ Minute \in Nat
  BY LenProperties, FlowAssumption DEF WithinMinute, LatestFirst
<1>2. \A i \in 1 .. Len(list) : list[i] \in Nat
  BY <1>1, ElementOfSeq
<1>3. older = [i \in 1 .. Len(list) |-> IF list[i] <= Minute THEN list[i] + 1 ELSE list[i]]
  BY <1>1 DEF Older
<1>4. older \in Seq(Nat) /\ Len(older) = Len(list) /\ DOMAIN older = 1 .. Len(list)
  <2>1. older \in [1 .. Len(list) -> Nat]
    BY <1>2, <1>3
  <2> HIDE DEF older
  <2> QED BY <1>1, <2>1
<1>5. \A i \in 1 .. Len(list) : older[i] = IF list[i] <= Minute THEN list[i] + 1 ELSE list[i]
  BY <1>3
<1> HIDE DEF older
<1>6. LatestFirst(older)
  <2> SUFFICES ASSUME NEW i \in 1 .. Len(list), NEW j \in 1 .. Len(list), i <= j
               PROVE  older[i] <= older[j]
    BY <1>4 DEF LatestFirst
  <2>1. list[i] <= list[j]
    BY DEF WithinMinute, LatestFirst
  <2> QED BY <1>1, <1>2, <1>5, <2>1
<1>7. Young(older) \subseteq Young(list)
  BY <1>1, <1>2, <1>4, <1>5 DEF Young
<1>8. /\ Cardinality(Young(older)) <= Cardinality(Young(list))
      /\ Cardinality(Young(older)) \in Nat /\ Cardinality(Young(list)) \in Nat
  BY <1>1, <1>4, <1>7, YoungIsPart, FS_Subset, FS_CardinalityType
<1>9. Len(RemoveOld(older)) <= KVSTORE_MAXINUM_PER_MINUTE
  BY <1>1, <1>4, <1>8, RemovedAreOld, FlowAssumption DEF WithinMinute
<1> QED BY <1>6, <1>9 DEF WithinMinute, older

(* A handle whose list of the store's calls is as it should be.                *)
Within(h) == Shaped(h) /\ WithinMinute(h.storeCalls)

(* Every part of a handle but the store's calls may change; these may be       *)
(* forgotten.                                                                  *)
LEMMA PartsAreWithin ==
  ASSUME NEW h, Within(h), NEW v
  PROVE  /\ Within([h EXCEPT !.manager = v])
         /\ Within([h EXCEPT !.store = v])
         /\ Within([h EXCEPT !.heard = v])
         /\ Within([h EXCEPT !.managerCalls = v])
         /\ Within([h EXCEPT !.storeCalls = <<>>])
<1>1. ASSUME NEW y, \/ y = [h EXCEPT !.manager = v] \/ y = [h EXCEPT !.store = v]
                    \/ y = [h EXCEPT !.heard = v] \/ y = [h EXCEPT !.managerCalls = v]
      PROVE  Shaped(y) /\ y.storeCalls = h.storeCalls
  BY <1>1 DEF Within, Shaped
<1>2. ASSUME NEW y, y = [h EXCEPT !.storeCalls = <<>>]
      PROVE  Shaped(y) /\ y.storeCalls = <<>>
  BY <1>2 DEF Within, Shaped
<1> QED BY <1>1, <1>2, EmptyIsWithin DEF Within

LEMMA DroppedIsWithin ==
  ASSUME NEW h, Within(h)
  PROVE  Within(Dropped(h))
<1> DEFINE q == [h EXCEPT !.store = FALSE]
<1>1. Within(q)
  BY PartsAreWithin
<1>2. Dropped(h) = [q EXCEPT !.heard = FALSE]
  BY Zenon DEF Dropped
<1> HIDE DEF q
<1>3. Within([q EXCEPT !.heard = FALSE])
  BY <1>1, PartsAreWithin
<1> QED BY <1>2, <1>3

(* The call of a manager is counted in another list; that of a store passes    *)
(* only with room for it.                                                      *)
LEMMA CountIsWithin ==
  ASSUME NEW h, Within(h)
  PROVE  Within(CountManager(h)) /\ Within(CountStore(h))
<1>1. Within(CountManager(h))
  <2> DEFINE calls == Counted(h.managerCalls, PassManager(h))
  <2>1. CountManager(h) = [h EXCEPT !.managerCalls = calls]
    BY DEF CountManager, Within, Shaped
  <2>2. Within([h EXCEPT !.managerCalls = calls])
    BY PartsAreWithin
  <2> QED BY <2>1, <2>2
<1>2. Within(CountStore(h))
  <2> DEFINE calls == Counted(h.storeCalls, KvStoreFlowControl(h.storeCalls))
  <2>1. CountStore(h) = [h EXCEPT !.storeCalls = calls]
    BY DEF CountStore, PassStore, Within, Shaped
  <2>2. WithinMinute(calls)
    BY CountedIsWithin DEF Within
  <2> HIDE DEF calls
  <2>3. ASSUME NEW y, y = [h EXCEPT !.storeCalls = calls]
        PROVE  Shaped(y) /\ y.storeCalls = calls
    BY <2>3 DEF Within, Shaped
  <2> QED BY <2>1, <2>2, <2>3 DEF Within
<1> QED BY <1>1, <1>2

LEMMA ManagerIsWithin ==
  ASSUME NEW h, Within(h), NEW m \in CheckKvDataManager(h)
  PROVE  Within(m)
<1>1. CASE m = h
  BY <1>1
<1>2. ASSUME NEW watched, m = [h EXCEPT !.manager = watched, !.managerCalls = <<>>]
      PROVE  Within(m)
  <2> DEFINE q == [h EXCEPT !.manager = watched]
  <2>1. Within(q)
    BY PartsAreWithin
  <2>2. m = [q EXCEPT !.managerCalls = <<>>]
    BY Zenon, <1>2
  <2> HIDE DEF q
  <2> QED BY <2>1, <2>2, PartsAreWithin
<1> QED BY <1>1, <1>2 DEF CheckKvDataManager, GetKvDataManager

(* However it ends, an opening leaves the calls as they are or forgets them.   *)
LEMMA OpenIsWithin ==
  ASSUME NEW m, Within(m), holder \in {"notifications", "screen", "preferences"},
         NEW h \in Open(m)
  PROVE  Within(h)
<1>1. ASSUME NEW x, Within(x), h \in Unopened(x) PROVE Within(h)
  <2> DEFINE q == Dropped(x)
  <2>1. h = [q EXCEPT !.manager = FALSE]
    BY <1>1 DEF Unopened
  <2>2. Within(q)
    BY <1>1, DroppedIsWithin
  <2> HIDE DEF q
  <2> QED BY <2>1, <2>2, PartsAreWithin
<1>2. CASE holder = "notifications"
  <2>1. ASSUME NEW heard, h = [m EXCEPT !.store = heard, !.heard = heard, !.storeCalls = <<>>]
        PROVE  Within(h)
    <3> DEFINE q == [m EXCEPT !.store = heard]
               r == [q EXCEPT !.heard = heard]
    <3>1. Within(q)
      BY PartsAreWithin
    <3>2. Within(r)
      <4> HIDE DEF q
      <4> QED BY <3>1, PartsAreWithin
    <3>3. h = [r EXCEPT !.storeCalls = <<>>]
      BY Zenon, <2>1
    <3> HIDE DEF r
    <3> QED BY <3>2, <3>3, PartsAreWithin
  <2> QED BY <1>1, <1>2, <2>1 DEF Open, OpenNotifications
<1>3. CASE holder = "screen"
  <2>1. CASE h = [m EXCEPT !.store = TRUE, !.storeCalls = <<>>]
    <3> DEFINE q == [m EXCEPT !.store = TRUE]
    <3>1. Within(q)
      BY PartsAreWithin
    <3>2. h = [q EXCEPT !.storeCalls = <<>>]
      BY Zenon, <2>1
    <3> HIDE DEF q
    <3> QED BY <3>1, <3>2, PartsAreWithin
  <2> QED BY <1>1, <1>3, <2>1 DEF Open, OpenScreens
<1>4. CASE holder = "preferences"
  <2> DEFINE cleared == [m EXCEPT !.storeCalls = <<>>]
  <2>1. Within(cleared)
    BY PartsAreWithin
  <2>2. h \in {[cleared EXCEPT !.store = TRUE]} \cup Unopened(cleared)
    BY <1>4 DEF Open, OpenPreferences
  <2> HIDE DEF cleared
  <2> QED BY <1>1, <2>1, <2>2, PartsAreWithin
<1> QED BY <1>2, <1>3, <1>4

LEMMA StoreIsWithin ==
  ASSUME NEW h, Within(h), holder \in {"notifications", "screen", "preferences"}
  PROVE  /\ \A s \in GetKvStore(h) : Within(s)
         /\ \A s \in CheckKvStore(h) : Within(s)
<1>1. ASSUME NEW s \in GetKvStore(h) PROVE Within(s)
  <2>1. PICK m \in CheckKvDataManager(h) : s \in IF m.manager THEN Open(m) ELSE {m}
    BY DEF GetKvStore
  <2>2. Within(m)
    BY ManagerIsWithin
  <2> QED BY <2>1, <2>2, OpenIsWithin
<1> QED BY <1>1 DEF CheckKvStore

(* StoreMinuteHolds, with the shape of the handle and the order of the calls.  *)
MinuteInv ==
  /\ holder \in {"notifications", "screen", "preferences"}
  /\ Within(handle)

LEMMA InitWithin == Init => MinuteInv
<1> SUFFICES ASSUME Init PROVE MinuteInv
  OBVIOUS
<1> DEFINE h0 == [manager |-> FALSE, store |-> FALSE, heard |-> FALSE,
                  managerCalls |-> <<>>, storeCalls |-> <<>>]
<1>1. Within(h0)
  BY EmptyIsWithin DEF Within, Shaped
<1>2. holder \in {"notifications", "screen", "preferences"} /\ handle \in GetKvStore(h0)
  BY HoldersAssumption DEF Init
<1> HIDE DEF h0
<1> QED BY <1>1, <1>2, StoreIsWithin DEF MinuteInv

(* The handlers of the screens, which use manager and store in one call.       *)
LEMMA StatusIsWithin ==
  ASSUME NEW h0, Within(h0), holder \in {"notifications", "screen", "preferences"},
         NEW was, NEW on, SetLocalScreenStatus(h0, was, on)
  PROVE  Within(handle')
<1>1. PICK h \in CheckKvStore(h0) :
        \/ Hold(h) \/ Hold(CountStore(CountManager(h))) \/ Hold(CountManager(h))
  BY Zenon DEF SetLocalScreenStatus
<1>2. Within(h)
  BY StoreIsWithin
<1>3. Within(CountManager(h)) /\ Within(CountStore(CountManager(h)))
  <2>1. Within(CountManager(h))
    BY <1>2, CountIsWithin
  <2> QED BY <2>1, CountIsWithin
<1> QED BY <1>1, <1>2, <1>3 DEF Hold

LEMMA RemoteIsWithin ==
  ASSUME MinuteInv, CheckRemoteDevicesIsUsing
  PROVE  Within(handle')
<1>1. PICK m \in CheckKvDataManager(handle) :
      \E h \in IF m.manager THEN CheckKvStore(m) ELSE {m} :
        \/ Hold(h)
        \/ \E c \in {CountManager(h), CountStore(CountManager(h))} :
             Hold(c) \/ Hold([c EXCEPT !.manager = FALSE]) \/ Hold(Dropped(c))
  BY DEF CheckRemoteDevicesIsUsing
<1>2. Within(m)
  BY ManagerIsWithin DEF MinuteInv
<1>3. PICK h \in IF m.manager THEN CheckKvStore(m) ELSE {m} :
        \/ Hold(h)
        \/ \E c \in {CountManager(h), CountStore(CountManager(h))} :
             Hold(c) \/ Hold([c EXCEPT !.manager = FALSE]) \/ Hold(Dropped(c))
  BY <1>1
<1>4. Within(h)
  BY <1>2, <1>3, StoreIsWithin DEF MinuteInv
<1>5. ASSUME NEW c \in {CountManager(h), CountStore(CountManager(h))}
      PROVE  Within(c) /\ Within([c EXCEPT !.manager = FALSE]) /\ Within(Dropped(c))
  <2>1. Within(CountManager(h))
    BY <1>4, CountIsWithin
  <2>2. Within(CountStore(CountManager(h)))
    BY <2>1, CountIsWithin
  <2>3. Within(c)
    BY <2>1, <2>2
  <2>4. Within([c EXCEPT !.manager = FALSE])
    BY <2>3, PartsAreWithin
  <2> QED BY <2>3, <2>4, DroppedIsWithin
<1> QED BY <1>3, <1>4, <1>5 DEF Hold

LEMMA DisconnectedIsWithin ==
  ASSUME MinuteInv, NEW alone, OnDeviceDisconnected(alone)
  PROVE  Within(handle')
<1>1. PICK h \in CheckKvDataManager(handle) :
        \/ Hold(h) \/ Hold([h EXCEPT !.manager = FALSE])
        \/ \E again \in GetKvStore(Dropped(h)) :
             Hold(again) \/ \E was : SetLocalScreenStatus(again, was, localScreenOn)
  BY Zenon DEF OnDeviceDisconnected
<1>2. Within(h)
  BY ManagerIsWithin DEF MinuteInv
<1>3. Within([h EXCEPT !.manager = FALSE]) /\ Within(Dropped(h))
  <2>1. Within([h EXCEPT !.manager = FALSE])
    BY <1>2, PartsAreWithin
  <2> QED BY <1>2, <2>1, DroppedIsWithin
<1>4. ASSUME NEW again \in GetKvStore(Dropped(h))
      PROVE  Within(again)
  BY <1>3, StoreIsWithin DEF MinuteInv
<1>5. ASSUME NEW again \in GetKvStore(Dropped(h)), NEW was,
             SetLocalScreenStatus(again, was, localScreenOn)
      PROVE  Within(handle')
  BY <1>4, <1>5, StatusIsWithin DEF MinuteInv
<1> QED BY <1>1, <1>2, <1>3, <1>4, <1>5 DEF Hold

(* A store is used, by the database or by the preferences.                     *)
LEMMA UseIsWithin ==
  ASSUME MinuteInv,
         \/ \E h \in CheckKvStore(handle) : Hold(IF h.store THEN CountStore(h) ELSE h)
         \/ \E h \in CheckKvDataManager(handle) : Hold(IF h.manager THEN CountManager(h) ELSE h)
  PROVE  Within(handle')
<1>1. PICK h \in CheckKvStore(handle) \cup CheckKvDataManager(handle) :
        Hold(h) \/ Hold(CountStore(h)) \/ Hold(CountManager(h))
  OBVIOUS
<1>2. Within(h)
  BY StoreIsWithin, ManagerIsWithin DEF MinuteInv
<1> QED BY <1>1, <1>2, CountIsWithin DEF Hold

LEMMA RecreateIsWithin ==
  ASSUME MinuteInv, RecreateDistributedDB
  PROVE  Within(handle')
<1>1. PICK h \in CheckKvDataManager(handle) :
        \/ Hold(h) \/ Hold(CountManager(h)) \/ Hold(Dropped(CountManager(h)))
        \/ \E again \in GetKvStore(Dropped(CountManager(h))) : Hold(again)
  BY DEF RecreateDistributedDB
<1>2. Within(h)
  BY ManagerIsWithin DEF MinuteInv
<1>3. Within(CountManager(h))
  BY <1>2, CountIsWithin
<1>4. Within(Dropped(CountManager(h)))
  BY <1>3, DroppedIsWithin
<1>5. \A again \in GetKvStore(Dropped(CountManager(h))) : Within(again)
  BY <1>4, StoreIsWithin DEF MinuteInv
<1> QED BY <1>1, <1>2, <1>3, <1>4, <1>5 DEF Hold

LEMMA TickIsWithin ==
  ASSUME MinuteInv, Tick
  PROVE  Within(handle')
<1> DEFINE calls == Older(handle.storeCalls)
           q == [handle EXCEPT !.managerCalls = Older(@)]
<1>1. Within([handle EXCEPT !.managerCalls = Older(handle.managerCalls)])
  BY PartsAreWithin DEF MinuteInv
<1>2. Within(q) /\ q.storeCalls = handle.storeCalls
  <2>1. Shaped(handle)
    BY DEF MinuteInv, Within
  <2> QED BY <1>1, <2>1 DEF Shaped
<1>3. WithinMinute(calls)
  BY OlderIsWithin DEF MinuteInv, Within
<1>4. handle' = [q EXCEPT !.storeCalls = calls]
  BY <1>2 DEF Tick, Within, Shaped
<1> HIDE DEF calls, q
<1>5. Shaped(handle') /\ handle'.storeCalls = calls
  BY <1>2, <1>4 DEF Within, Shaped
<1> QED BY <1>3, <1>5 DEF Within

LEMMA StepIsWithin == MinuteInv /\ [Next]_vars => MinuteInv'
<1> SUFFICES ASSUME MinuteInv, [Next]_vars PROVE MinuteInv'
  OBVIOUS
<1>1. holder' = holder
  BY DEF Next, Call, UseStore, UseManager, UsePreferences, RecreateDistributedDB, OnScreen,
         CheckRemoteDevicesIsUsing, OnDeviceDisconnected, Tick, vars
<1>2. CASE UNCHANGED vars
  BY <1>2 DEF MinuteInv, Within, Shaped, vars
<1>3. CASE UseStore \/ UseManager \/ UsePreferences
  BY <1>1, <1>3, UseIsWithin DEF UseStore, UseManager, UsePreferences, MinuteInv, Within, Shaped
<1>4. CASE RecreateDistributedDB
  BY <1>1, <1>4, RecreateIsWithin DEF MinuteInv, Within, Shaped
<1>5. ASSUME NEW on \in BOOLEAN, OnScreen(on) PROVE MinuteInv'
  BY <1>1, <1>5, StatusIsWithin DEF OnScreen, MinuteInv, Within, Shaped
<1>6. CASE CheckRemoteDevicesIsUsing
  BY <1>1, <1>6, RemoteIsWithin DEF MinuteInv, Within, Shaped
<1>7. ASSUME NEW alone \in BOOLEAN, OnDeviceDisconnected(alone) PROVE MinuteInv'
  BY <1>1, <1>7, DisconnectedIsWithin DEF MinuteInv, Within, Shaped
<1>8. CASE Tick
  BY <1>1, <1>8, TickIsWithin DEF MinuteInv, Within, Shaped
<1> QED BY <1>2, <1>3, <1>4, <1>5, <1>6, <1>7, <1>8 DEF Next, Call

(* StoreMinuteHolds for every limit, every fault and any number of calls:      *)
(* between two openings of a store no minute has more calls of it than         *)
(* allowed, however opening, dropping and counting follow one another, and     *)
(* what is forgotten of the list is what is older than a minute                *)
(* (KvStoreFlowControl).                                                       *)
THEOREM MinuteHolds == Spec => []StoreMinuteHolds
<1>1. MinuteInv => StoreMinuteHolds
  BY DEF MinuteInv, Within, WithinMinute, StoreMinuteHolds
<1> QED BY <1>1, InitWithin, StepIsWithin, PTL DEF Spec

----------------------------------------------------------------------------
(* The journey.                                                                *)

(* The members a parcel of a class carries, and all that a form may have.      *)
Members(row) == {row[i].member : i \in DOMAIN row}

Pairs == UNION {{<<role, m>> : m \in Members(Written[role])} : role \in DOMAIN Written}

----------------------------------------------------------------------------
(* The parcels.                                                                *)

Listing(s) == \E S : s \in Seq(S)

(* A row of items of one type is a sequence.                                   *)
LEMMA RowIsListing ==
  ASSUME NEW type, NEW members, Len(members) \in Nat
  PROVE  Listing(Row(type, members))
<1>1. Row(type, members) \in Seq({Row(type, members)[i] : i \in 1 .. Len(members)})
  BY DEF Row
<1> QED BY <1>1 DEF Listing

(* One row after another is a sequence.                                        *)
LEMMA ListingsJoin ==
  ASSUME NEW s, NEW t, Listing(s), Listing(t)
  PROVE  Listing(s \o t)
<1>1. PICK S : s \in Seq(S)
  BY DEF Listing
<1>2. PICK T : t \in Seq(T)
  BY DEF Listing
<1>3. s \in Seq(S \cup T) /\ t \in Seq(S \cup T)
  BY <1>1, <1>2
<1>4. s \o t \in Seq(S \cup T)
  BY <1>3
<1> QED BY <1>4 DEF Listing

(* Rows follow one another whichever are put together first.                   *)
LEMMA ListingsAssociate ==
  ASSUME NEW s, NEW t, NEW u, Listing(s), Listing(t), Listing(u)
  PROVE  (s \o t) \o u = s \o (t \o u)
<1>1. PICK S : s \in Seq(S)
  BY DEF Listing
<1>2. PICK T : t \in Seq(T)
  BY DEF Listing
<1>3. PICK U : u \in Seq(U)
  BY DEF Listing
<1> DEFINE A == S \cup T \cup U
<1>4. s \in Seq(A) /\ t \in Seq(A) /\ u \in Seq(A)
  BY <1>1, <1>2, <1>3
<1> HIDE DEF A
<1> QED BY <1>4, ConcatAssociative

(* One row after another.                                                      *)
After(s, t) == s \o t

(* The same of rows as they are joined in the tables.                          *)
LEMMA AfterAssociates ==
  /\ \A s, t : Listing(s) /\ Listing(t) => Listing(After(s, t))
  /\ \A s, t, u :
       Listing(s) /\ Listing(t) /\ Listing(u) => After(After(s, t), u) = After(s, After(t, u))
  BY ListingsAssociate, ListingsJoin DEF After

(* The objects of a request are read in one go and written in two.             *)
LEMMA ObjectsAreReadAsWritten ==
  ASSUME NEW before, Listing(before)
  PROVE  (before \o RequestObjectsWritten) \o RequestListsWritten = before \o RequestObjectsRead
<1> DEFINE o == RequestObjectsWritten
           v == Row("vector", <<"actionButtons", "messageUsers">>)
           s == Row("strings", <<"userInputHistory">>)
           p == Row("parcelable", <<"distributedOptions">>)
           x == Row("optional", <<"notificationTemplate", "notificationFlags">>)
<1>1. Listing(o)
  BY RowIsListing DEF RequestObjectsWritten
<1>2. Listing(v) /\ Listing(s) /\ Listing(p) /\ Listing(x)
  BY RowIsListing
<1>3. RequestListsWritten = After(After(After(v, s), p), x)
  BY DEF RequestListsWritten, After
<1>4. RequestObjectsRead = After(After(After(After(o, v), s), p), x)
  BY DEF RequestObjectsRead, RequestObjectsWritten, After
<1> HIDE DEF o, v, s, p, x
<1>5. After(After(before, o), After(After(After(v, s), p), x))
        = After(before, After(After(After(After(o, v), s), p), x))
  BY <1>1, <1>2, AfterAssociates
<1>6. After(After(before, o), RequestListsWritten) = After(before, RequestObjectsRead)
  BY <1>3, <1>4, <1>5
<1> QED BY <1>6 DEF o, After

(* A request is read in five pieces and written in six.                        *)
LEMMA RequestIsReadAsWritten == Readers.request = Written.request
<1> DEFINE before == RequestNumbersWritten \o RequestTextsWritten \o RequestKindsWritten
                       \o RequestFlagsWritten
<1>1. Listing(before)
  BY RowIsListing, ListingsJoin DEF RequestNumbersWritten, RequestTextsWritten,
     RequestKindsWritten, RequestFlagsWritten
<1>2. Written.request = (before \o RequestObjectsWritten) \o RequestListsWritten
  BY DEF Written
<1>3. Readers.request = before \o RequestObjectsRead
  BY DEF Readers, RequestNumbersWritten, RequestTextsWritten, RequestKindsWritten,
         RequestFlagsWritten, RequestNumbersRead, RequestTextsRead, RequestKindsRead,
         RequestFlagsRead
<1> QED BY <1>1, <1>2, <1>3, ObjectsAreReadAsWritten

(* The parts of a request are read as they are written.                        *)
LEMMA PartsAreReadAsWritten ==
  /\ FlagsRead = FlagsWritten /\ OptionsRead = OptionsWritten
  /\ TemplateRead = TemplateWritten /\ ButtonRead = ButtonWritten
  /\ InputRead = InputWritten /\ UserRead = UserWritten
  BY DEF FlagsRead, FlagsWritten, OptionsRead, OptionsWritten, TemplateRead, TemplateWritten,
         ButtonRead, ButtonWritten, InputRead, InputWritten, UserRead, UserWritten

(* So are its contents, a message and the users in it.                         *)
LEMMA ContentsAreReadAsWritten ==
  /\ ContentRead = ContentWritten /\ BasicRead = BasicWritten
  /\ LongTextRead = LongTextWritten /\ MediaRead = MediaWritten
  /\ MultiLineRead = MultiLineWritten /\ PictureRead = PictureWritten
  /\ ConversationRead = ConversationWritten /\ MessageRead = MessageWritten
<1>1. ContentRead = ContentWritten /\ BasicRead = BasicWritten
  BY DEF ContentRead, ContentWritten, BasicRead, BasicWritten
<1> QED
  BY <1>1 DEF LongTextRead, LongTextWritten, MediaRead, MediaWritten, MultiLineRead,
              MultiLineWritten, PictureRead, PictureWritten, ConversationRead,
              ConversationWritten, MessageRead, MessageWritten

(* So are the notification around it, the slots and the settings.              *)
LEMMA SettingsAreReadAsWritten ==
  /\ NotificationRead = NotificationWritten /\ SlotRead = SlotWritten
  /\ GroupRead = GroupWritten /\ SortingRead = SortingWritten
  /\ SortingMapRead = SortingMapWritten /\ DateRead = DateWritten
  /\ BundleRead = BundleWritten /\ EnabledRead = EnabledWritten
  BY DEF NotificationRead, NotificationWritten, SlotRead, SlotWritten, GroupRead,
         GroupWritten, SortingRead, SortingWritten, SortingMapRead, SortingMapWritten,
         DateRead, DateWritten, BundleRead, BundleWritten, EnabledRead, EnabledWritten

(* So are the reminders, each after what it has of the common class.           *)
LEMMA RemindersAreReadAsWritten ==
  /\ TimerRead = TimerWritten /\ AlarmRead = AlarmWritten /\ CalendarRead = CalendarWritten
  BY DEF TimerRead, TimerWritten, AlarmRead, AlarmWritten, CalendarRead, CalendarWritten,
         ReminderRead, ReminderWritten

(* Every class reads the items it writes, in their order and with their types. *)
LEMMA ReadersAgree ==
  /\ DOMAIN Readers = DOMAIN Written
  /\ \A role \in DOMAIN Written : Readers[role] = Written[role]
<1>1. Readers.request = Written.request
  BY RequestIsReadAsWritten
<1>2. DOMAIN Readers = DOMAIN Written
  BY DEF Readers, Written
<1>3. ASSUME NEW role \in DOMAIN Written, role # "request"
      PROVE  Readers[role] = Written[role]
  BY <1>3, PartsAreReadAsWritten, ContentsAreReadAsWritten, SettingsAreReadAsWritten,
     RemindersAreReadAsWritten DEF Readers, Written
<1> QED
  BY <1>1, <1>2, <1>3

(* What is known of a class arrives whole.                                     *)
LEMMA ParcelIsWhole ==
  ASSUME NEW has \in SUBSET Pairs
  PROVE  Parcelled(has) = has
<1>1. ASSUME NEW p \in Parcelled(has) PROVE p \in has
  <2>1. PICK role \in DOMAIN Written :
          p \in {<<role, Readers[role][i].member>> :
                   i \in {n \in DOMAIN Written[role] : <<role, Written[role][n].member>> \in has}}
    BY <1>1 DEF Parcelled
  <2> QED BY <2>1, ReadersAgree
<1>2. ASSUME NEW p \in has PROVE p \in Parcelled(has)
  <2>1. PICK role \in DOMAIN Written : p \in {<<role, m>> : m \in Members(Written[role])}
    BY <1>2 DEF Pairs
  <2>2. PICK i \in DOMAIN Written[role] : p = <<role, Written[role][i].member>>
    BY <2>1 DEF Members
  <2> QED BY <2>2, <1>2, ReadersAgree DEF Parcelled
<1> QED BY <1>1, <1>2

----------------------------------------------------------------------------
(* What an object holds.                                                       *)

Bodies == {"normal", "conversation", "longText", "media", "multiLine", "picture"}

(* The members that hold a part, which no step but the making of an object and *)
(* the store changes.                                                          *)
Holding ==
  {<<"request", "notificationContent">>, <<"request", "notificationFlags">>,
   <<"request", "notificationTemplate">>, <<"request", "distributedOptions">>,
   <<"request", "messageUsers">>, <<"request", "actionButtons">>, <<"button", "userInput">>,
   <<"content", "content">>, <<"conversation", "messageUser">>, <<"conversation", "messages">>,
   <<"message", "sender">>, <<"sortingMap", "sortings">>}

(* The roles there are.                                                        *)
LEMMA RolesThere ==
  DOMAIN Written =
    Bodies \cup {"request", "notification", "flags", "options", "template", "button", "input",
                 "peer", "content", "user", "message", "sender", "slot", "group", "sorting",
                 "sortingMap", "date", "bundle", "enabled", "timer", "alarm", "calendar"}
  BY DEF Written, Bodies

(* The bodies of contents, one for a type.                                     *)
LEMMA BodiesThere ==
  /\ {BodyOf[type] : type \in DOMAIN BodyOf} = Bodies
  /\ DOMAIN BodyOf = {"BASIC_TEXT", "CONVERSATION", "LONG_TEXT", "MEDIA", "MULTILINE", "PICTURE"}
  /\ \A type \in DOMAIN BodyOf : BodyOf[type] = "conversation" => type = "CONVERSATION"
  BY DEF BodyOf, Bodies

(* What holds the object of each role.                                         *)
LEMMA AboveOf ==
  /\ DOMAIN Above = DOMAIN Written
  /\ Above["content"] = {<<"request", "notificationContent">>}
  /\ Above["flags"] = {<<"request", "notificationFlags">>}
  /\ Above["template"] = {<<"request", "notificationTemplate">>}
  /\ Above["options"] = {<<"request", "distributedOptions">>}
  /\ Above["peer"] = {<<"request", "messageUsers">>}
  /\ Above["button"] = {<<"request", "actionButtons">>}
  /\ Above["input"] = {<<"request", "actionButtons">>, <<"button", "userInput">>}
  /\ \A body \in Bodies :
       Above[body] = {<<"request", "notificationContent">>, <<"content", "content">>}
  /\ Above["user"] = {<<"request", "notificationContent">>, <<"content", "content">>,
                      <<"conversation", "messageUser">>}
  /\ Above["message"] = {<<"request", "notificationContent">>, <<"content", "content">>,
                         <<"conversation", "messages">>}
  /\ Above["sender"] = {<<"request", "notificationContent">>, <<"content", "content">>,
                        <<"conversation", "messages">>, <<"message", "sender">>}
  /\ Above["sorting"] = {<<"sortingMap", "sortings">>}
  /\ \A role \in {"request", "notification", "slot", "group", "sortingMap", "date", "bundle",
                  "enabled", "timer", "alarm", "calendar"} : Above[role] = {}
  BY RolesThere, BodiesThere DEF Above, Bodies

(* Every part is held by members of objects that hold it in turn.              *)
LEMMA AboveIsClosed ==
  ASSUME NEW role \in DOMAIN Written, NEW q \in Above[role]
  PROVE  /\ q \in Holding
         /\ q[1] \in DOMAIN Written
         /\ Above[q[1]] \subseteq Above[role]
  BY AboveOf, RolesThere DEF Holding, Bodies

(* The roots and the types of content there are.                               *)
Travelling == {"request", "slot", "group", "sortingMap", "date", "bundle", "enabled"} \cup Reminders

Proper(root, type) == root \in Travelling /\ (root = "request" => type \in DOMAIN BodyOf)

RolesIn(root, type) == RolesOf(root, type) \cup {"notification"}

(* What an object is made of are roles.                                        *)
LEMMA RolesAreThere ==
  ASSUME NEW root, NEW type, Proper(root, type)
  PROVE  RolesIn(root, type) \subseteq DOMAIN Written
<1>1. CASE root = "request"
  <2>1. BodyOf[type] \in Bodies
    BY <1>1, BodiesThere DEF Proper
  <2> QED BY <1>1, <2>1, RolesThere DEF RolesOf, RolesIn
<1>2. CASE root # "request"
  BY <1>2, RolesThere DEF RolesOf, RolesIn, Proper, Travelling, Reminders
<1> QED BY <1>1, <1>2

(* A member is in the shape of an object with its role and with what holds     *)
(* it.                                                                         *)
LEMMA ShapeOf ==
  ASSUME NEW root, NEW type, NEW has, NEW p
  PROVE  p \in Shape(root, type, has) <=>
           /\ p \in has \cup Always
           /\ p[1] \in RolesIn(root, type)
           /\ \A q \in Above[p[1]] : q \in has \cup Always /\ q[1] \in RolesIn(root, type)
  BY DEF Shape, RolesIn

(* Taking the shape of an object twice takes nothing more from it.             *)
LEMMA ShapeIsWhole ==
  ASSUME NEW root, NEW type, Proper(root, type), NEW has
  PROVE  Shape(root, type, Shape(root, type, has)) = Shape(root, type, has)
<1> DEFINE once == Shape(root, type, has)
           twice == Shape(root, type, once)
<1>1. ASSUME NEW p \in once PROVE p \in twice
  <2>1. /\ p[1] \in RolesIn(root, type)
        /\ \A q \in Above[p[1]] : q \in has \cup Always /\ q[1] \in RolesIn(root, type)
    BY <1>1, ShapeOf
  <2>2. p[1] \in DOMAIN Written
    BY <2>1, RolesAreThere
  <2>3. ASSUME NEW q \in Above[p[1]] PROVE q \in once
    BY <2>1, <2>2, ShapeOf, AboveIsClosed
  <2> HIDE DEF once
  <2> QED BY <1>1, <2>1, <2>3, ShapeOf
<1>2. ASSUME NEW p \in twice PROVE p \in once
  <2>1. once \subseteq has \cup Always
    BY ShapeOf
  <2>2. /\ p \in once \cup Always
        /\ p[1] \in RolesIn(root, type)
        /\ \A q \in Above[p[1]] : q \in once \cup Always /\ q[1] \in RolesIn(root, type)
    <3> HIDE DEF once
    <3> QED BY <1>2, ShapeOf
  <2> QED BY <2>1, <2>2, ShapeOf
<1> QED BY <1>1, <1>2

(* Members that hold no part come and go without a consequence.                *)
LEMMA OthersComeAndGo ==
  ASSUME NEW root, NEW type, Proper(root, type), NEW has, Shape(root, type, has) = has, NEW b,
         \A p \in Holding \cup Always : p \in b <=> p \in has,
         \A p \in b : p[1] \in RolesIn(root, type) /\ Above[p[1]] \subseteq has
  PROVE  Shape(root, type, b) = b
<1>1. ASSUME NEW p \in b PROVE p \in Shape(root, type, b)
  <2>1. p[1] \in DOMAIN Written
    BY <1>1, RolesAreThere
  <2>2. \A q \in Above[p[1]] : q \in b
    BY <1>1, <2>1, AboveIsClosed
  <2> QED BY <1>1, <2>2, ShapeOf
<1>2. ASSUME NEW p \in Shape(root, type, b) PROVE p \in b
  <2>1. /\ p \in b \cup Always
        /\ p[1] \in RolesIn(root, type)
        /\ \A q \in Above[p[1]] : q \in b \cup Always /\ q[1] \in RolesIn(root, type)
    BY <1>2, ShapeOf
  <2>2. p[1] \in DOMAIN Written
    BY <2>1, RolesAreThere
  <2>3. \A q \in Above[p[1]] : q \in has \cup Always
    BY <2>1, <2>2, AboveIsClosed
  <2>4. p \in Always => p \in Shape(root, type, has)
    BY <2>1, <2>3, ShapeOf
  <2> QED BY <2>1, <2>4
<1> QED BY <1>1, <1>2

(* What the parcels carry.                                                     *)
LEMMA MembersOfRequestRows ==
  /\ Members(RequestNumbersWritten) =
       {"notificationId", "color", "badgeNumber", "progressValue", "progressMax",
        "createTime", "deliveryTime", "autoDeletedTime", "creatorPid", "creatorUid",
        "ownerUid", "creatorUserId", "ownerUserId", "receiverUserId"}
  /\ Members(RequestTextsWritten) =
       {"settingsText", "creatorBundleName", "ownerBundleName", "groupName", "statusBarText",
        "label", "shortcutId", "sortingKey", "classification"}
  /\ Members(RequestKindsWritten) =
       {"slotType", "groupAlertType", "visiblenessType", "badgeStyle",
        "notificationContentType"}
  /\ Members(RequestFlagsWritten) =
       {"showDeliveryTime", "tapDismissed", "colorEnabled", "alertOneTime", "showStopwatch",
        "isCountdown", "inProgress", "groupOverview", "progressIndeterminate", "unremovable",
        "floatingIcon", "onlyLocal", "permitted", "isAgent"}
  /\ Members(RequestObjectsWritten) =
       {"wantAgent", "removalWantAgent", "maxScreenWantAgent", "additionalParams",
        "littleIcon", "bigIcon", "notificationContent", "publicNotification"}
  /\ Members(RequestListsWritten) =
       {"actionButtons", "messageUsers", "userInputHistory", "distributedOptions",
        "notificationTemplate", "notificationFlags"}
  BY DEF Members, Row, RequestNumbersWritten, RequestTextsWritten, RequestKindsWritten,
         RequestFlagsWritten, RequestObjectsWritten, RequestListsWritten

(* What the parcels of the parts carry.                                        *)
LEMMA MembersOfParts ==
  /\ Members(FlagsWritten) = {"soundEnabled", "vibrationEnabled"}
  /\ Members(OptionsWritten) =
       {"isDistributed", "devicesSupportDisplay", "devicesSupportOperate"}
  /\ Members(TemplateWritten) = {"templateName", "templateData"}
  /\ Members(ButtonWritten) =
       {"title", "autoCreatedReplies", "isContextual", "semanticActionButton", "icon",
        "wantAgent", "extras", "userInput"}
  /\ Members(InputWritten) =
       {"inputKey", "tag", "permitFreeFormInput", "editType", "additionalData", "options",
        "permitMimeTypes"}
  /\ Members(UserWritten) = {"key", "name", "isMachine", "isUserImportant", "uri", "pixelMap"}
  BY DEF Members, Row, FlagsWritten, OptionsWritten, TemplateWritten, ButtonWritten,
         InputWritten, UserWritten

(* What the parcels of the contents carry.                                     *)
LEMMA MembersOfContents ==
  /\ Members(ContentWritten) = {"contentType", "content"}
  /\ Members(BasicWritten) = {"text", "title", "additionalText"}
  /\ Members(LongTextWritten) =
       {"text", "title", "additionalText", "expandedTitle", "briefText", "longText"}
  /\ Members(MediaWritten) = {"text", "title", "additionalText", "sequenceNumbers"}
  /\ Members(MultiLineWritten) =
       {"text", "title", "additionalText", "expandedTitle", "briefText", "allLines"}
  /\ Members(PictureWritten) =
       {"text", "title", "additionalText", "expandedTitle", "briefText", "bigPicture"}
  /\ Members(ConversationWritten) =
       {"text", "title", "additionalText", "conversationTitle", "isGroup", "messageUser",
        "messages"}
  /\ Members(MessageWritten) =
       {"arrivedTime", "text", "sender", "uri", "uri.text", "mimeType"}
  BY DEF Members, Row, ContentWritten, BasicWritten, LongTextWritten, MediaWritten,
         MultiLineWritten, PictureWritten, ConversationWritten, MessageWritten

(* What the parcels of the notification and of the settings carry.             *)
LEMMA MembersOfSettings ==
  /\ Members(NotificationWritten) =
       {"enableLight", "enableSound", "enableVibration", "isRemoveAllowed", "key", "sound",
        "deviceId", "ledLightColor", "lockscreenVisibleness", "remindType", "sourceType",
        "postTime", "vibrationStyle", "request"}
  /\ Members(SlotWritten) =
       {"id", "name", "isLightEnabled", "isVibrationEnabled", "isShowBadge", "isBypassDnd",
        "description", "lightColor", "level", "type", "lockScreenVisibleness", "groupId",
        "sound", "vibrationValues", "enabled"}
  /\ Members(DateWritten) = {"doNotDisturbType", "beginDate", "endDate"}
  /\ Members(BundleWritten) = {"bundleName", "uid"}
  BY DEF Members, Row, NotificationWritten, SlotWritten, DateWritten, BundleWritten

(* What the parcels of the reminders carry.                                    *)
LEMMA MembersOfReminders ==
  /\ Members(TimerWritten) =
       {"content", "expiredContent", "snoozeContent", "title", "wantAgent_abilityName",
        "wantAgent_pkgName", "maxScreen_abilityName", "maxScreen_pkgName", "isExpired",
        "reminderId", "notificationId", "triggerTime", "timeInterval", "ringDuration",
        "reminderTime", "snoozeTimes", "snoozeTimesDynamic", "state", "reminderType",
        "slotType", "actionButtonMap", "firstRealTime", "countDownTime"}
  /\ Members(AlarmWritten) =
       {"content", "expiredContent", "snoozeContent", "title", "wantAgent_abilityName",
        "wantAgent_pkgName", "maxScreen_abilityName", "maxScreen_pkgName", "isExpired",
        "reminderId", "notificationId", "triggerTime", "timeInterval", "ringDuration",
        "reminderTime", "snoozeTimes", "snoozeTimesDynamic", "state", "reminderType",
        "slotType", "actionButtonMap", "hour", "minute", "repeatDays"}
  /\ Members(CalendarWritten) =
       {"content", "expiredContent", "snoozeContent", "title", "wantAgent_abilityName",
        "wantAgent_pkgName", "maxScreen_abilityName", "maxScreen_pkgName", "isExpired",
        "reminderId", "notificationId", "triggerTime", "timeInterval", "ringDuration",
        "reminderTime", "snoozeTimes", "snoozeTimesDynamic", "state", "reminderType",
        "slotType", "actionButtonMap", "year", "month", "day", "hour", "minute", "second",
        "repeatMonth", "repeatDay", "firstDesignateYear", "firstDesignateMonth",
        "firstDesignateDay"}
  BY DEF Members, Row, TimerWritten, ReminderWritten, AlarmWritten, CalendarWritten

(* One row after another carries what both do.                                 *)
LEMMA MembersOfBoth ==
  ASSUME NEW s, NEW t, Listing(s), Listing(t)
  PROVE  Members(After(s, t)) = Members(s) \cup Members(t)
<1>1. PICK S : s \in Seq(S)
  BY DEF Listing
<1>2. PICK T : t \in Seq(T)
  BY DEF Listing
<1>3. s \in Seq(S \cup T) /\ t \in Seq(S \cup T)
  BY <1>1, <1>2
<1> DEFINE c == After(s, t)
<1>4. /\ c \in Seq(S \cup T) /\ Len(c) = Len(s) + Len(t)
      /\ \A i \in 1 .. Len(s) + Len(t) : c[i] = IF i <= Len(s) THEN s[i] ELSE t[i - Len(s)]
  BY <1>3, ConcatProperties, Zenon DEF After
<1>5. ASSUME NEW i \in DOMAIN s
      PROVE  i \in DOMAIN c /\ c[i] = s[i]
  BY <1>3, <1>4
<1>6. ASSUME NEW i \in DOMAIN t
      PROVE  Len(s) + i \in DOMAIN c /\ c[Len(s) + i] = t[i]
  BY <1>3, <1>4
<1>7. ASSUME NEW i \in DOMAIN c
      PROVE  \/ i \in DOMAIN s /\ c[i] = s[i]
             \/ i - Len(s) \in DOMAIN t /\ c[i] = t[i - Len(s)]
  BY <1>3, <1>4
<1> HIDE DEF c
<1>8. ASSUME NEW m \in Members(c) PROVE m \in Members(s) \cup Members(t)
  BY <1>7 DEF Members
<1>9. ASSUME NEW m \in Members(s) \cup Members(t) PROVE m \in Members(c)
  BY <1>5, <1>6 DEF Members
<1>10. Members(c) = Members(s) \cup Members(t)
  BY <1>8, <1>9
<1> QED BY <1>10 DEF c

(* A request carries what its rows do.                                         *)
LEMMA MembersOfRequest ==
  Members(Written["request"]) =
    Members(RequestNumbersWritten) \cup Members(RequestTextsWritten)
      \cup Members(RequestKindsWritten) \cup Members(RequestFlagsWritten)
      \cup Members(RequestObjectsWritten) \cup Members(RequestListsWritten)
<1> DEFINE n == RequestNumbersWritten
           t == RequestTextsWritten
           k == RequestKindsWritten
           f == RequestFlagsWritten
           o == RequestObjectsWritten
           l == RequestListsWritten
<1>1. Listing(n) /\ Listing(t) /\ Listing(k) /\ Listing(f) /\ Listing(o) /\ Listing(l)
  BY RowIsListing, ListingsJoin
     DEF RequestNumbersWritten, RequestTextsWritten, RequestKindsWritten, RequestFlagsWritten,
         RequestObjectsWritten, RequestListsWritten
<1>2. Written["request"] = After(After(After(After(After(n, t), k), f), o), l)
  BY DEF Written, After
<1> HIDE DEF n, t, k, f, o, l
<1>3. /\ Listing(After(n, t)) /\ Listing(After(After(n, t), k))
      /\ Listing(After(After(After(n, t), k), f))
      /\ Listing(After(After(After(After(n, t), k), f), o))
  BY <1>1, AfterAssociates
<1>4. Members(After(After(After(After(After(n, t), k), f), o), l)) =
        Members(n) \cup Members(t) \cup Members(k) \cup Members(f) \cup Members(o) \cup Members(l)
  BY <1>1, <1>3, MembersOfBoth
<1> QED BY <1>2, <1>4 DEF n, t, k, f, o, l

----------------------------------------------------------------------------
(* The tables.                                                                 *)

(* Every key of a table stands for one of the members.                         *)
Stands(table, members) == \A k \in DOMAIN table : table[k] \in members

(* What one table has of a member, another returns under the same key.         *)
Returns(get, set) == \A k \in DOMAIN get : k \in DOMAIN set /\ set[k] = get[k]

(* Two tables of members are one.                                              *)
LEMMA BothStand ==
  ASSUME NEW t, NEW u, NEW members, Stands(t, members), Stands(u, members)
  PROVE  Stands(t ++ u, members)
  BY DEF Stands, ++

(* A table that returns each of two tables returns the two in one.             *)
LEMMA BothAreReturned ==
  ASSUME NEW t, NEW u, NEW set, Returns(t, set), Returns(u, set)
  PROVE  Returns(t ++ u, set)
  BY DEF Returns, ++

(* Two tables in one return the first, and the second when no key is in        *)
(* both.                                                                       *)
LEMMA BothReturn ==
  ASSUME NEW t, NEW u
  PROVE  /\ Returns(t, t ++ u)
         /\ (DOMAIN t \cap DOMAIN u = {}) => Returns(u, t ++ u)
  BY DEF Returns, ++

(* What returns a table that returns another returns the other.                *)
LEMMA ReturnsOn ==
  ASSUME NEW get, NEW set, NEW all, Returns(get, set), Returns(set, all)
  PROVE  Returns(get, all)
  BY DEF Returns

(* What a binding reads of a script object are members a parcel carries.       *)
LEMMA RequestGettersStand == Stands(GetNotificationRequest, Members(Written["request"]))
<1> DEFINE M == Members(Written["request"])
<1>1. /\ Stands(GetIdAndSlotType, M) /\ Stands(GetContent, M)
      /\ Stands(GetOngoingToExtraInfo, M) /\ Stands(GetGroupNameToColor, M)
      /\ Stands(GetColorEnabledToLabel, M) /\ Stands(GetBadgeStyleToButtons, M)
      /\ Stands(GetIcons, M) /\ Stands(GetDistributedOptions, M)
      /\ Stands(GetTemplate, M) /\ Stands(GetBadgeNumber, M)
  BY MembersOfRequest, MembersOfRequestRows
     DEF Stands, GetIdAndSlotType, GetContent, GetOngoingToExtraInfo, GetGroupNameToColor,
         GetColorEnabledToLabel, GetBadgeStyleToButtons, GetIcons, GetDistributedOptions,
         GetTemplate, GetBadgeNumber, Alike, ++
<1> HIDE DEF M
<1> QED BY <1>1, BothStand DEF GetNotificationRequest, M

(* The same of the parts of a request.                                         *)
LEMMA PartGettersStand ==
  /\ Stands(GetOptions, Members(Written["options"]))
  /\ Stands(GetTemplateInfo, Members(Written["template"]))
  /\ Stands(GetActionButton, Members(Written["button"]))
  /\ Stands(GetInputTexts ++ GetInputChoices, Members(Written["input"]))
  BY MembersOfParts DEF Written, Stands, GetOptions, GetTemplateInfo, GetActionButton,
     GetInputTexts, GetInputChoices, Alike, ++

(* The same of the contents.                                                   *)
LEMMA ContentGettersStand ==
  /\ Stands(GetContentType, Members(Written["content"]))
  /\ Stands(GetBasicContent, Members(Written["normal"]))
  /\ Stands(GetLongText, Members(Written["longText"]))
  /\ Stands(GetMultiLine, Members(Written["multiLine"]))
  /\ Stands(GetPicture, Members(Written["picture"]))
  /\ Stands(GetConversation, Members(Written["conversation"]))
  /\ Stands(GetMessageUser, Members(Written["user"]))
  /\ Stands(GetMessageUser, Members(Written["sender"]))
  /\ Stands(GetMessage, Members(Written["message"]))
  BY MembersOfContents, MembersOfParts DEF Written, Stands, GetContentType, GetBasicContent,
     GetLongText, GetMultiLine, GetPicture, GetConversation, GetMessageUser, GetMessage, Alike, ++

(* The same of the settings.                                                   *)
LEMMA SettingGettersStand ==
  /\ Stands(GetSlot, Members(Written["slot"]))
  /\ Stands(GetDate, Members(Written["date"]))
  /\ Stands(GetBundle, Members(Written["bundle"]))
  BY MembersOfSettings DEF Written, Stands, GetSlot, GetDate, GetBundle, Alike, ++

(* The same of the reminders.                                                  *)
LEMMA ReminderGettersStand ==
  /\ Stands(CreateReminderTimer, Members(Written["timer"]))
  /\ Stands(CreateReminderAlarm, Members(Written["alarm"]))
  /\ Stands(CreateReminderCalendar, Members(Written["calendar"]))
<1>1. ASSUME NEW role \in {"timer", "alarm", "calendar"}
      PROVE  Stands(GenReminder, Members(Written[role]))
  BY <1>1, MembersOfReminders DEF Written, Stands, GenReminder, GenWantAgent,
     GenMaxScreenWantAgent, GenActionButtons, Alike, ++
<1>2. /\ Stands([triggerTimeInSeconds |-> "countDownTime"], Members(Written["timer"]))
      /\ Stands([hour |-> "hour", minute |-> "minute", daysOfWeek |-> "repeatDays"],
                Members(Written["alarm"]))
      /\ Stands([year |-> "year", month |-> "month", day |-> "day", hour |-> "hour",
                 minute |-> "minute", repeatMonths |-> "repeatMonth", repeatDays |-> "repeatDay"],
                Members(Written["calendar"]))
  BY MembersOfReminders DEF Written, Stands
<1> QED BY <1>1, <1>2, BothStand
        DEF CreateReminderTimer, CreateReminderAlarm, CreateReminderCalendar

(* The same of every object a script makes.                                    *)
LEMMA GettersStand ==
  ASSUME NEW role \in DOMAIN Getters
  PROVE  role \in DOMAIN Written /\ Stands(Getters[role], Members(Written[role]))
<1>1. DOMAIN Getters =
        {"request", "options", "template", "button", "input", "content", "normal", "longText",
         "multiLine", "picture", "conversation", "user", "message", "sender", "slot", "date",
         "bundle", "timer", "alarm", "calendar"}
  BY DEF Getters
<1>2. role \in DOMAIN Written
  BY <1>1, RolesThere DEF Bodies
<1>3. Stands(Getters[role], Members(Written[role]))
  BY <1>1, RequestGettersStand, PartGettersStand, ContentGettersStand, SettingGettersStand,
     ReminderGettersStand DEF Getters
<1> QED BY <1>2, <1>3

(* What the JSON text is read into.                                            *)
LEMMA RequestJsonStands == Stands(RequestFromJson, Members(Written["request"]))
<1> DEFINE M == Members(Written["request"])
<1>1. /\ Stands(ConvertJsonToNum, M) /\ Stands(ConvertJsonToString, M)
      /\ Stands(ConvertJsonToEnum, M) /\ Stands(ConvertJsonToBool, M)
      /\ Stands(ConvertJsonToObjects, M)
  BY MembersOfRequest, MembersOfRequestRows
     DEF Stands, ConvertJsonToNum, ConvertJsonToString, ConvertJsonToEnum, ConvertJsonToBool,
         ConvertJsonToObjects, Alike, ++
<1> HIDE DEF M
<1> QED BY <1>1, BothStand DEF RequestFromJson, M

(* The same of the parts.                                                      *)
LEMMA PartJsonStands ==
  /\ Stands(FlagsFromJson, Members(Written["flags"]))
  /\ Stands(OptionsFromJson, Members(Written["options"]))
  /\ Stands(ButtonFromJson, Members(Written["button"]))
  /\ Stands(InputFromJson, Members(Written["input"]))
  /\ Stands(UserFromJson, Members(Written["user"]))
  /\ Stands(UserFromJson, Members(Written["sender"]))
  BY MembersOfParts DEF Written, Stands, FlagsFromJson, OptionsFromJson, ButtonFromJson,
     InputFromJson, UserFromJson, Alike

(* The same of the contents.                                                   *)
LEMMA ContentJsonStands ==
  /\ Stands(ContentFromJson, Members(Written["content"]))
  /\ Stands(BasicFromJson, Members(Written["normal"]))
  /\ Stands(LongTextFromJson, Members(Written["longText"]))
  /\ Stands(MediaFromJson, Members(Written["media"]))
  /\ Stands(MultiLineFromJson, Members(Written["multiLine"]))
  /\ Stands(PictureFromJson, Members(Written["picture"]))
  /\ Stands(ConversationFromJson, Members(Written["conversation"]))
  /\ Stands(MessageFromJson, Members(Written["message"]))
  BY MembersOfContents DEF Written, Stands, ContentFromJson, BasicFromJson, LongTextFromJson,
     MediaFromJson, MultiLineFromJson, PictureFromJson, ConversationFromJson, MessageFromJson,
     Alike, ++

(* The objects that are written as JSON text.                                  *)
LEMMA JsonRoles ==
  /\ DOMAIN ToJson =
       {"request", "flags", "options", "button", "input", "content", "normal", "longText",
        "media", "multiLine", "picture", "conversation", "user", "message", "sender"}
  /\ DOMAIN FromJson = DOMAIN ToJson
  BY DEF ToJson, FromJson

(* What is read from the text of an object are members of it.                  *)
LEMMA JsonStands ==
  ASSUME NEW role \in DOMAIN FromJson
  PROVE  role \in DOMAIN Written /\ Stands(FromJson[role], Members(Written[role]))
<1>1. role \in DOMAIN Written
  BY JsonRoles, RolesThere DEF Bodies
<1>2. Stands(FromJson[role], Members(Written[role]))
  BY JsonRoles, RequestJsonStands, PartJsonStands, ContentJsonStands DEF FromJson
<1> QED BY <1>1, <1>2

(* A member is written to the text, and read from it.                          *)
Carries(role, m) ==
  \E k \in DOMAIN ToJson[role] :
    /\ ToJson[role][k] = m
    /\ k \in DOMAIN FromJson[role] /\ FromJson[role][k] = m

(* What a notification is known by and where its content is are carried.       *)
LEMMA IdentityIsCarried ==
  /\ \A p \in IdentityMembers : p = <<"request", p[2]>> /\ Carries("request", p[2])
  /\ Carries("request", "notificationContent")
  /\ Carries("content", "content")
<1> DEFINE from == FromJson["request"]
           to == ToJson["request"]
<1>1. \A k \in {"label", "creatorUserId", "creatorUid", "creatorBundleName", "ownerBundleName"} :
        k \in DOMAIN to /\ to[k] = k
  BY DEF ToJson, RequestToJson, Alike, ++
<1>2. "id" \in DOMAIN to /\ to["id"] = "notificationId"
  BY DEF ToJson, RequestToJson, Alike, ++
<1>3. "content" \in DOMAIN to /\ to["content"] = "notificationContent"
  BY DEF ToJson, RequestToJson, ConvertObjectsToJson, Alike, ++
<1>4. from = RequestFromJson
  BY DEF FromJson
<1>5. /\ "id" \in DOMAIN ConvertJsonToNum /\ ConvertJsonToNum["id"] = "notificationId"
      /\ \A k \in {"creatorUserId", "creatorUid"} :
           k \in DOMAIN ConvertJsonToNum /\ ConvertJsonToNum[k] = k
  BY DEF ConvertJsonToNum, Alike, ++
<1>6. \A k \in {"label", "creatorBundleName", "ownerBundleName"} :
        /\ k \in DOMAIN ConvertJsonToString /\ ConvertJsonToString[k] = k
        /\ k \notin DOMAIN ConvertJsonToNum
  BY DEF ConvertJsonToNum, ConvertJsonToString, Alike, ++
<1>7. /\ "content" \in DOMAIN ConvertJsonToObjects
      /\ ConvertJsonToObjects["content"] = "notificationContent"
      /\ "content" \notin DOMAIN ConvertJsonToNum \cup DOMAIN ConvertJsonToString
                            \cup DOMAIN ConvertJsonToEnum \cup DOMAIN ConvertJsonToBool
  BY DEF ConvertJsonToNum, ConvertJsonToString, ConvertJsonToEnum, ConvertJsonToBool,
         ConvertJsonToObjects, Alike, ++
<1>8. \A t, u, k : k \in DOMAIN (t ++ u) <=> k \in DOMAIN t \/ k \in DOMAIN u
  BY DEF ++
<1>9. \A t, u, k : /\ k \in DOMAIN t => (t ++ u)[k] = t[k]
                   /\ k \notin DOMAIN t /\ k \in DOMAIN u => (t ++ u)[k] = u[k]
  BY DEF ++
<1>10. /\ \A k \in {"label", "creatorUserId", "creatorUid", "creatorBundleName",
                    "ownerBundleName"} : k \in DOMAIN from /\ from[k] = k
       /\ "id" \in DOMAIN from /\ from["id"] = "notificationId"
       /\ "content" \in DOMAIN from /\ from["content"] = "notificationContent"
  BY <1>4, <1>5, <1>6, <1>7, <1>8, <1>9 DEF RequestFromJson
<1> HIDE DEF from, to
<1>11. \A m \in {"notificationId", "label", "creatorUserId", "creatorUid", "creatorBundleName",
                 "ownerBundleName", "notificationContent"} : Carries("request", m)
  BY <1>1, <1>2, <1>3, <1>10 DEF Carries, from, to
<1>12. Carries("content", "content")
  BY DEF Carries, ToJson, FromJson, ContentToJson, ContentFromJson, Alike
<1> QED BY <1>11, <1>12 DEF IdentityMembers

(* The text of a content is carried whole, but for those kept on the device.   *)
LEMMA TextIsCarried ==
  ASSUME NEW body \in {"normal", "longText", "multiLine"}, NEW m \in Members(Written[body])
  PROVE  Carries(body, m)
<1>1. CASE body = "normal"
  BY <1>1, MembersOfContents DEF Written, Carries, ToJson, FromJson, BasicToJson,
     BasicFromJson, Alike
<1>2. CASE body = "longText"
  BY <1>2, MembersOfContents DEF Written, Carries, ToJson, FromJson, BasicToJson,
     BasicFromJson, LongTextToJson, LongTextFromJson, Alike, ++
<1>3. CASE body = "multiLine"
  BY <1>3, MembersOfContents DEF Written, Carries, ToJson, FromJson, BasicToJson,
     BasicFromJson, MultiLineToJson, MultiLineFromJson, Alike, ++
<1> QED BY <1>1, <1>2, <1>3

(* What a script tells of a request, another hears under the same name.        *)
LEMMA RequestReturns == Returns(GetNotificationRequest, SetNotificationRequest)
<1> DEFINE S == SetNotificationRequest
           s1 == SetRequestByString
           s2 == SetRequestByNumber
           s3 == SetRequestByBool
           s4 == SetRequestByWantAgent
           s5 == SetRequestByPixelMap
           s6 == SetRequestByCustom
           s7 == [distributedOption |-> "distributedOptions"]
<1>1. S = (((((s1 ++ s2) ++ s3) ++ s4) ++ s5) ++ s6) ++ s7
  BY DEF SetNotificationRequest
<1>2. /\ DOMAIN s1 = {"classification", "statusBarText", "label", "groupName",
                      "creatorBundleName"}
      /\ DOMAIN s2 = {"slotType", "deliveryTime", "autoDeletedTime", "color", "creatorUid",
                      "creatorPid", "badgeNumber", "id", "badgeIconStyle"}
      /\ DOMAIN s3 = {"tapDismissed", "colorEnabled", "showDeliveryTime", "isOngoing",
                      "isUnremovable", "isAlertOnce", "isStopwatch", "isCountDown",
                      "isFloatingIcon"}
      /\ DOMAIN s4 = {"wantAgent", "removalWantAgent", "maxScreenWantAgent"}
      /\ DOMAIN s5 = {"smallIcon", "largeIcon"}
      /\ DOMAIN s6 = {"actionButtons", "notificationFlags", "content", "extraInfo", "template"}
      /\ DOMAIN s7 = {"distributedOption"}
  BY DEF SetRequestByString, SetRequestByNumber, SetRequestByBool, SetRequestByWantAgent,
         SetRequestByPixelMap, SetRequestByCustom, Alike, ++
<1>3. \A t, u : DOMAIN (t ++ u) = DOMAIN t \cup DOMAIN u
  BY DEF ++
<1> HIDE DEF S, s1, s2, s3, s4, s5, s6, s7
<1> DEFINE S2 == s1 ++ s2
           S3 == S2 ++ s3
           S4 == S3 ++ s4
           S5 == S4 ++ s5
           S6 == S5 ++ s6
<1>4. /\ DOMAIN S2 = DOMAIN s1 \cup DOMAIN s2
      /\ DOMAIN S3 = DOMAIN S2 \cup DOMAIN s3
      /\ DOMAIN S4 = DOMAIN S3 \cup DOMAIN s4
      /\ DOMAIN S5 = DOMAIN S4 \cup DOMAIN s5
      /\ DOMAIN S6 = DOMAIN S5 \cup DOMAIN s6
  BY <1>3
<1>5. S = S6 ++ s7
  BY <1>1
<1>6. /\ Returns(s1, S2) /\ Returns(S2, S3) /\ Returns(S3, S4) /\ Returns(S4, S5)
      /\ Returns(S5, S6)
  BY BothReturn
<1>7. Returns(s2, S2)
  BY <1>2, BothReturn
<1> HIDE DEF S2
<1>8. Returns(s3, S3)
  BY <1>2, <1>4, BothReturn
<1> HIDE DEF S3
<1>9. Returns(s4, S4)
  BY <1>2, <1>4, BothReturn
<1> HIDE DEF S4
<1>10. Returns(s5, S5)
  BY <1>2, <1>4, BothReturn
<1> HIDE DEF S5
<1>11. Returns(s6, S6)
  BY <1>2, <1>4, BothReturn
<1> HIDE DEF S6
<1>12. Returns(s7, S) /\ Returns(S6, S)
  BY <1>2, <1>4, <1>5, BothReturn
<1>13. /\ Returns(s1, S) /\ Returns(s2, S) /\ Returns(s3, S) /\ Returns(s4, S)
       /\ Returns(s5, S) /\ Returns(s6, S) /\ Returns(s7, S)
  BY <1>6, <1>7, <1>8, <1>9, <1>10, <1>11, <1>12, ReturnsOn
<1>14. /\ \A k \in {"label", "classification", "groupName", "statusBarText"} :
            k \in DOMAIN s1 /\ s1[k] = k
       /\ \A k \in {"slotType", "deliveryTime", "autoDeletedTime", "color", "badgeNumber"} :
            k \in DOMAIN s2 /\ s2[k] = k
       /\ "id" \in DOMAIN s2 /\ s2["id"] = "notificationId"
       /\ "badgeIconStyle" \in DOMAIN s2 /\ s2["badgeIconStyle"] = "badgeStyle"
       /\ \A k \in {"tapDismissed", "colorEnabled", "showDeliveryTime"} :
            k \in DOMAIN s3 /\ s3[k] = k
       /\ "isOngoing" \in DOMAIN s3 /\ s3["isOngoing"] = "inProgress"
       /\ "isUnremovable" \in DOMAIN s3 /\ s3["isUnremovable"] = "unremovable"
       /\ "isAlertOnce" \in DOMAIN s3 /\ s3["isAlertOnce"] = "alertOneTime"
       /\ "isStopwatch" \in DOMAIN s3 /\ s3["isStopwatch"] = "showStopwatch"
       /\ "isCountDown" \in DOMAIN s3 /\ s3["isCountDown"] = "isCountdown"
       /\ \A k \in {"wantAgent", "removalWantAgent", "maxScreenWantAgent"} :
            k \in DOMAIN s4 /\ s4[k] = k
       /\ "smallIcon" \in DOMAIN s5 /\ s5["smallIcon"] = "littleIcon"
       /\ "largeIcon" \in DOMAIN s5 /\ s5["largeIcon"] = "bigIcon"
       /\ "actionButtons" \in DOMAIN s6 /\ s6["actionButtons"] = "actionButtons"
       /\ "content" \in DOMAIN s6 /\ s6["content"] = "notificationContent"
       /\ "extraInfo" \in DOMAIN s6 /\ s6["extraInfo"] = "additionalParams"
       /\ "template" \in DOMAIN s6 /\ s6["template"] = "notificationTemplate"
       /\ "distributedOption" \in DOMAIN s7 /\ s7["distributedOption"] = "distributedOptions"
  BY DEF s1, s2, s3, s4, s5, s6, s7, SetRequestByString, SetRequestByNumber, SetRequestByBool,
         SetRequestByWantAgent, SetRequestByPixelMap, SetRequestByCustom, Alike, ++
<1>15. /\ Returns(GetIdAndSlotType, S) /\ Returns(GetContent, S)
       /\ Returns(GetOngoingToExtraInfo, S) /\ Returns(GetGroupNameToColor, S)
       /\ Returns(GetColorEnabledToLabel, S) /\ Returns(GetBadgeStyleToButtons, S)
       /\ Returns(GetIcons, S) /\ Returns(GetDistributedOptions, S)
       /\ Returns(GetTemplate, S) /\ Returns(GetBadgeNumber, S)
  BY <1>13, <1>14
     DEF Returns, GetIdAndSlotType, GetContent, GetOngoingToExtraInfo, GetGroupNameToColor,
         GetColorEnabledToLabel, GetBadgeStyleToButtons, GetIcons, GetDistributedOptions,
         GetTemplate, GetBadgeNumber, Alike, ++
<1> QED BY <1>15, BothAreReturned DEF GetNotificationRequest, S

(* What is read of the parts of a request is set again.                        *)
LEMMA PartsReturn ==
  /\ Returns(GetOptions, SetNotificationByDistributedOptions)
  /\ Returns(GetTemplateInfo, SetTemplateInfo)
  /\ Returns(GetActionButton, SetActionButton ++ SetActionButtonByExtras)
  /\ Returns(GetInputTexts ++ GetInputChoices, SetActionButtonByUserInput)
  BY DEF Returns, GetOptions, SetNotificationByDistributedOptions, GetTemplateInfo,
         SetTemplateInfo, GetActionButton, SetActionButton, SetActionButtonByExtras,
         GetInputTexts, GetInputChoices, SetActionButtonByUserInput, Alike, ++

(* What is read of the contents is set again.                                  *)
LEMMA ContentsReturn ==
  /\ Returns(GetContentType, SetContent) /\ Returns(GetBasicContent, SetBasicContent)
  /\ Returns(GetLongText, SetLongText) /\ Returns(GetMultiLine, SetMultiLine)
  /\ Returns(GetPicture, SetPicture) /\ Returns(GetConversation, SetConversation)
  /\ Returns(GetMessageUser, SetMessageUser) /\ Returns(GetMessage, SetMessage)
<1>1. /\ Returns(GetContentType, SetContent) /\ GetBasicContent = SetBasicContent
      /\ GetMessageUser = SetMessageUser /\ GetMessage = SetMessage
  BY DEF Returns, GetContentType, SetContent, GetBasicContent, SetBasicContent, GetMessageUser,
         SetMessageUser, GetMessage, SetMessage
<1>2. /\ GetLongText = SetLongText /\ GetMultiLine = SetMultiLine /\ GetPicture = SetPicture
      /\ GetConversation = SetConversation
  BY <1>1 DEF GetLongText, SetLongText, GetMultiLine, SetMultiLine, GetPicture, SetPicture,
     GetConversation, SetConversation
<1> QED BY <1>1, <1>2 DEF Returns

(* What is read of a slot and of a date is set again.                          *)
LEMMA SettingsReturn == Returns(GetSlot, SetSlot) /\ Returns(GetDate, SetDate)
  BY DEF Returns, GetSlot, SetSlot, GetDate, SetDate, Alike, ++

(* What is read of a reminder is set again.                                    *)
LEMMA RemindersReturn ==
  /\ Returns(CreateReminderTimer, SetValidReminder ++ ParseReminderTimer)
  /\ Returns(CreateReminderAlarm, SetValidReminder ++ ParseReminderAlarm)
  /\ Returns(CreateReminderCalendar, SetValidReminder ++ ParseReminderCalendar)
<1>1. GenReminder = SetValidReminder
  BY DEF GenReminder, GenWantAgent, GenMaxScreenWantAgent, GenActionButtons, SetValidReminder,
         ParseWantAgent, ParseMaxScreenWantAgent, ParseActionButtons
<1> DEFINE calendar == [year |-> "year", month |-> "month", day |-> "day", hour |-> "hour",
                        minute |-> "minute", repeatMonths |-> "repeatMonth",
                        repeatDays |-> "repeatDay"]
<1>2. CreateReminderCalendar = SetValidReminder ++ calendar
  BY <1>1 DEF CreateReminderCalendar
<1>3. Returns(calendar, ParseReminderCalendar)
  BY DEF Returns, ParseReminderCalendar
<1>4. ASSUME NEW t, NEW u, NEW v, Returns(u, v)
      PROVE  Returns(t ++ u, t ++ v)
  BY <1>4 DEF Returns, ++
<1>5. /\ CreateReminderTimer = SetValidReminder ++ ParseReminderTimer
      /\ CreateReminderAlarm = SetValidReminder ++ ParseReminderAlarm
  BY <1>1 DEF CreateReminderTimer, ParseReminderTimer, CreateReminderAlarm, ParseReminderAlarm
<1> HIDE DEF calendar
<1> QED BY <1>2, <1>3, <1>4, <1>5 DEF Returns

(* What is read of any object but a bundle is set again, under the same key.   *)
LEMMA GettersReturn ==
  ASSUME NEW role \in DOMAIN Getters, role # "bundle"
  PROVE  role \in DOMAIN Setters /\ Returns(Getters[role], Setters[role])
<1>1. role \in {"request", "options", "template", "button", "input", "content", "normal",
                "longText", "multiLine", "picture", "conversation", "user", "message", "sender",
                "slot", "date", "timer", "alarm", "calendar"}
  BY DEF Getters
<1>2. role \in DOMAIN Setters
  BY <1>1 DEF Setters
<1>3. Returns(Getters[role], Setters[role])
  BY <1>1, RequestReturns, PartsReturn, ContentsReturn, SettingsReturn, RemindersReturn
     DEF Getters, Setters
<1> QED BY <1>2, <1>3

(* The objects a script makes.                                                 *)
LEMMA ScriptRoles ==
  DOMAIN Getters =
    {"request", "options", "template", "button", "input", "content", "normal", "longText",
     "multiLine", "picture", "conversation", "user", "message", "sender", "slot", "date",
     "bundle", "timer", "alarm", "calendar"}
  BY DEF Getters

(* The keys of a request for its parts, and the keys it does not have.         *)
LEMMA GettersOfRequest ==
  /\ {"content", "actionButtons", "distributedOption", "template"}
       \subseteq DOMAIN GetNotificationRequest
  /\ GetNotificationRequest["content"] = "notificationContent"
  /\ GetNotificationRequest["actionButtons"] = "actionButtons"
  /\ GetNotificationRequest["template"] = "notificationTemplate"
  /\ DOMAIN GetNotificationRequest \cap {"creatorBundleName", "creatorUid", "creatorUserId"} = {}
<1> DEFINE g1 == GetIdAndSlotType
           g2 == GetContent
           g3 == GetOngoingToExtraInfo
           g4 == GetGroupNameToColor
           g5 == GetColorEnabledToLabel
           g6 == GetBadgeStyleToButtons
           g7 == GetIcons
           g8 == GetDistributedOptions
           g9 == GetTemplate
           g10 == GetBadgeNumber
<1>1. GetNotificationRequest =
        ((((((((g1 ++ g2) ++ g3) ++ g4) ++ g5) ++ g6) ++ g7) ++ g8) ++ g9) ++ g10
  BY DEF GetNotificationRequest
<1>2. /\ DOMAIN g1 = {"id", "slotType"}
      /\ DOMAIN g2 = {"content"}
      /\ DOMAIN g3 = {"deliveryTime", "tapDismissed", "wantAgent", "isOngoing",
                      "isUnremovable", "extraInfo"}
      /\ DOMAIN g4 = {"groupName", "removalWantAgent", "maxScreenWantAgent", "autoDeletedTime",
                      "classification", "color"}
      /\ DOMAIN g5 = {"colorEnabled", "statusBarText", "label", "isAlertOnce", "isStopwatch",
                      "isCountDown"}
      /\ DOMAIN g6 = {"showDeliveryTime", "actionButtons", "badgeIconStyle"}
      /\ DOMAIN g7 = {"smallIcon", "largeIcon"}
      /\ DOMAIN g8 = {"distributedOption"}
      /\ DOMAIN g9 = {"template"}
      /\ DOMAIN g10 = {"badgeNumber"}
  BY DEF GetIdAndSlotType, GetContent, GetOngoingToExtraInfo, GetGroupNameToColor,
         GetColorEnabledToLabel, GetBadgeStyleToButtons, GetIcons, GetDistributedOptions,
         GetTemplate, GetBadgeNumber, Alike, ++
<1>3. \A t, u, k : k \in DOMAIN (t ++ u) <=> k \in DOMAIN t \/ k \in DOMAIN u
  BY DEF ++
<1>4. \A t, u, k : /\ k \in DOMAIN t => (t ++ u)[k] = t[k]
                   /\ k \notin DOMAIN t /\ k \in DOMAIN u => (t ++ u)[k] = u[k]
  BY DEF ++
<1>5. /\ g2["content"] = "notificationContent" /\ g6["actionButtons"] = "actionButtons"
      /\ g9["template"] = "notificationTemplate"
  BY DEF GetContent, GetBadgeStyleToButtons, GetTemplate, Alike, ++
<1> HIDE DEF g1, g2, g3, g4, g5, g6, g7, g8, g9, g10
<1> QED BY <1>1, <1>2, <1>3, <1>4, <1>5

(* What holds a part that a script tells of is there of itself, or is told.    *)
LEMMA HoldersAreTold ==
  ASSUME NEW role \in DOMAIN Getters, NEW q \in Above[role]
  PROVE  \/ q \in Made \cup Always
         \/ /\ q[1] \in DOMAIN Getters
            /\ \E k \in DOMAIN Getters[q[1]] : q = <<q[1], Getters[q[1]][k]>>
<1>1. q \in {<<"content", "content">>, <<"request", "distributedOptions">>,
             <<"conversation", "messageUser">>, <<"message", "sender">>,
             <<"request", "notificationContent">>, <<"request", "notificationTemplate">>,
             <<"request", "actionButtons">>, <<"button", "userInput">>,
             <<"conversation", "messages">>}
  BY AboveOf, ScriptRoles DEF Bodies
<1>2. /\ "userInput" \in DOMAIN Getters["button"]
      /\ Getters["button"]["userInput"] = "userInput"
  BY DEF Getters, GetActionButton, Alike
<1>3. /\ "messages" \in DOMAIN Getters["conversation"]
      /\ Getters["conversation"]["messages"] = "messages"
  BY DEF Getters, GetConversation, GetBasicContent, Alike, ++
<1>4. Getters["request"] = GetNotificationRequest
  BY DEF Getters
<1>5. CASE q \in {<<"content", "content">>, <<"request", "distributedOptions">>,
                  <<"conversation", "messageUser">>, <<"message", "sender">>}
  BY <1>5 DEF Made, Always
<1>6. CASE q \in {<<"request", "notificationContent">>, <<"request", "notificationTemplate">>,
                  <<"request", "actionButtons">>, <<"button", "userInput">>,
                  <<"conversation", "messages">>}
  BY <1>2, <1>3, <1>4, <1>6, GettersOfRequest, ScriptRoles
<1> QED BY <1>1, <1>5, <1>6

(* The keys under which a script tells of what holds a part.                   *)
LEMMA KeysAboveOf ==
  ASSUME NEW role \in DOMAIN Getters, NEW p
  PROVE  p \in KeysAbove[role] <=>
           \E owner \in DOMAIN Getters : \E key \in DOMAIN Getters[owner] :
             p = <<owner, key>> /\ <<owner, Getters[owner][key]>> \in Above[role]
<1> DEFINE Of(owner) == {<<owner, key>> : key \in {k \in DOMAIN Getters[owner] :
                                                      <<owner, Getters[owner][k]>> \in Above[role]}}
<1>1. KeysAbove[role] = UNION {Of(owner) : owner \in DOMAIN Getters}
  BY DEF KeysAbove
<1>2. p \in KeysAbove[role] <=> \E owner \in DOMAIN Getters : p \in Of(owner)
  <2> HIDE DEF Of
  <2> QED BY <1>1
<1>3. ASSUME NEW owner \in DOMAIN Getters
      PROVE  p \in Of(owner) <=>
               \E key \in DOMAIN Getters[owner] :
                 p = <<owner, key>> /\ <<owner, Getters[owner][key]>> \in Above[role]
  OBVIOUS
<1> HIDE DEF Of
<1> QED BY <1>2, <1>3

(* The keys for what holds a part are told with what holds them in turn.       *)
LEMMA KeysAboveAreClosed ==
  ASSUME NEW role \in DOMAIN Getters, NEW p \in KeysAbove[role]
  PROVE  /\ p = <<p[1], p[2]>> /\ p[1] \in DOMAIN Getters /\ p[2] \in DOMAIN Getters[p[1]]
         /\ <<p[1], Getters[p[1]][p[2]]>> \in Above[role]
         /\ KeysAbove[p[1]] \subseteq KeysAbove[role]
<1>1. PICK owner \in DOMAIN Getters :
        \E key \in DOMAIN Getters[owner] :
          p = <<owner, key>> /\ <<owner, Getters[owner][key]>> \in Above[role]
  BY KeysAboveOf
<1>2. role \in DOMAIN Written
  BY GettersStand
<1>3. Above[owner] \subseteq Above[role]
  BY <1>1, <1>2, AboveIsClosed
<1>4. ASSUME NEW q \in KeysAbove[owner] PROVE q \in KeysAbove[role]
  BY <1>1, <1>3, KeysAboveOf
<1> QED BY <1>1, <1>4

(* The roles above a role are played with it.                                  *)
LEMMA AboveIsPlayed ==
  ASSUME NEW root, NEW type, Proper(root, type), NEW role \in RolesOf(root, type),
         NEW q \in Above[role]
  PROVE  q[1] \in RolesOf(root, type)
<1>1. CASE root = "request"
  <2>1. BodyOf[type] \in Bodies /\ (type = "CONVERSATION" => BodyOf[type] = "conversation")
    BY <1>1, BodiesThere DEF Proper, BodyOf
  <2> QED BY <1>1, <2>1, AboveOf DEF RolesOf
<1>2. CASE root # "request"
  BY <1>2, AboveOf DEF RolesOf, Proper, Travelling, Reminders
<1> QED BY <1>1, <1>2

----------------------------------------------------------------------------
(* The enumerations.                                                           *)

(* A value a script names is the one it is told, but for one it may name       *)
(* twice.                                                                      *)
LEMMA ValuesReturn ==
  ASSUME NEW n \in DOMAIN JSToC, NEW v \in DOMAIN JSToC[n]
  PROVE  /\ n \in DOMAIN CToJS
         /\ JSToC[n][v] \in DOMAIN CToJS[n]
         /\ v \in {CToJS[n][JSToC[n][v]], "UNKNOWN_TYPE"}
<1>1. n \in {"contentType", "slotType", "level", "doNotDisturbType"}
  BY DEF JSToC
<1>2. CASE n = "contentType"
  BY <1>2 DEF JSToC, CToJS, ContentTypeJSToC, ContentTypeCToJS, Alike
<1>3. CASE n = "slotType"
  BY <1>3 DEF JSToC, CToJS, SlotTypeJSToC, SlotTypeCToJS, Alike, ++
<1>4. CASE n = "level"
  BY <1>4 DEF JSToC, CToJS, SlotLevelJSToC, SlotLevelCToJS, Alike, ++
<1>5. CASE n = "doNotDisturbType"
  BY <1>5 DEF JSToC, CToJS, DoNotDisturbTypeJSToC, DoNotDisturbTypeCToJS, Alike
<1> QED BY <1>1, <1>2, <1>3, <1>4, <1>5

(* The types of contents and of dates have the same names on both sides.       *)
LEMMA NamesOfValues ==
  /\ DOMAIN JSToC = {"contentType", "slotType", "level", "doNotDisturbType"}
  /\ \A v \in DOMAIN JSToC["contentType"] : JSToC["contentType"][v] = v
  /\ \A v \in DOMAIN JSToC["doNotDisturbType"] : JSToC["doNotDisturbType"][v] = v
  /\ DOMAIN JSToC["contentType"] \subseteq DOMAIN BodyOf
  BY DEF JSToC, ContentTypeJSToC, DoNotDisturbTypeJSToC, BodyOf, Alike

----------------------------------------------------------------------------
(* The way of a form.                                                          *)

IsForm(f) == DOMAIN f = {"root", "away", "values", "has"}

(* An object has members that are known, each with what holds it.              *)
Whole(root, type, has) == has \subseteq Pairs /\ Shape(root, type, has) = has

JsonOf(has) ==
  UNION {{<<role, key>> : key \in {k \in DOMAIN ToJson[role] : <<role, ToJson[role][k]>> \in has}} :
           role \in DOMAIN ToJson}

Type == TypeOf(form.values)

StaysHome == form.root = "request" /\ Type \in NonDistributed

Distributed == <<"options", "isDistributed">>

(* What a script tells of is told with what holds it, in values known.         *)
ToldOK(root, values, has) ==
  /\ root \in DOMAIN Getters
  /\ Proper(root, TypeOf(values))
  /\ root = "date" => "doNotDisturbType" \in DOMAIN values
  /\ \A n \in DOMAIN values : n \in DOMAIN JSToC /\ values[n] \in DOMAIN JSToC[n]
  /\ \A p \in has :
       /\ p = <<p[1], p[2]>>
       /\ p[1] \in RolesOf(root, TypeOf(values)) \cap DOMAIN Getters
       /\ p[2] \in DOMAIN Getters[p[1]]
       /\ KeysAbove[p[1]] \subseteq has

FormOK ==
  /\ IsForm(form)
  /\ form.root \in Travelling
  /\ stage \in {"script", "client", "service", "held", "stored"} => Proper(form.root, Type)
  /\ stage \in {"script", "client", "service", "stored"} => ~ form.away
  /\ stage = "script" => ToldOK(form.root, form.values, form.has)

WayInv ==
  /\ FormOK
  /\ stage \in {"client", "service", "held"} => Whole(form.root, Type, form.has)
  /\ ParcelArrivesWhole
  /\ stage \in {"service", "held"} /\ StaysHome => Distributed \notin form.has
  /\ stage = "stored" =>
       /\ form.root = "request" /\ ~ StaysHome
       /\ Whole(form.root, Type, sent)
       /\ form.has = JsonOf(sent)
  /\ ArrivesAway

(* A step that gives an object other members leaves the rest of it.            *)
LEMMA MembersChange ==
  ASSUME NEW f, IsForm(f), NEW x, NEW g, g = [f EXCEPT !.has = x]
  PROVE  IsForm(g) /\ g.root = f.root /\ g.away = f.away /\ g.values = f.values /\ g.has = x
  BY DEF IsForm

(* A member of a parcel is known.                                              *)
LEMMA KnownPairs ==
  ASSUME NEW role \in DOMAIN Written, NEW m \in Members(Written[role])
  PROVE  <<role, m>> \in Pairs
  BY DEF Pairs

(* So are what holds parts, what is always there and what is always made.      *)
LEMMA AlwaysKnown == Always \cup Holding \cup Made \subseteq Pairs
<1>1. \A m \in {"distributedOptions", "notificationContent", "notificationFlags",
                "notificationTemplate", "messageUsers", "actionButtons",
                "notificationContentType"} : <<"request", m>> \in Pairs
  BY RolesThere, KnownPairs, MembersOfRequest, MembersOfRequestRows
<1>2. <<"button", "userInput">> \in Pairs
  BY RolesThere, KnownPairs, MembersOfParts DEF Written
<1>3. /\ <<"conversation", "messageUser">> \in Pairs /\ <<"conversation", "messages">> \in Pairs
      /\ <<"message", "sender">> \in Pairs /\ <<"message", "uri">> \in Pairs
      /\ <<"content", "content">> \in Pairs
  BY RolesThere, KnownPairs, MembersOfContents DEF Written, Bodies
<1>4. <<"notification", "request">> \in Pairs
  BY RolesThere, KnownPairs, MembersOfSettings DEF Written
<1>5. /\ "slot" \in Members(Written["sorting"]) /\ "sortings" \in Members(Written["sortingMap"])
  BY DEF Members, Row, Written, SortingWritten, SortingMapWritten
<1>6. <<"sorting", "slot">> \in Pairs /\ <<"sortingMap", "sortings">> \in Pairs
  BY <1>5, RolesThere, KnownPairs
<1> QED BY <1>1, <1>2, <1>3, <1>4, <1>6 DEF Always, Holding, Made

(* A member of a whole object is there with what holds it.                     *)
LEMMA WholeHolds ==
  ASSUME NEW root, NEW type, Proper(root, type), NEW has, Shape(root, type, has) = has,
         NEW p \in has
  PROVE  /\ p[1] \in RolesIn(root, type)
         /\ Above[p[1]] \subseteq has
<1>1. /\ p[1] \in RolesIn(root, type)
      /\ \A q \in Above[p[1]] : q \in has \cup Always /\ q[1] \in RolesIn(root, type)
  BY ShapeOf
<1>2. p[1] \in DOMAIN Written
  BY <1>1, RolesAreThere
<1>3. ASSUME NEW q \in Above[p[1]] PROVE q \in has
  <2>1. Above[q[1]] \subseteq Above[p[1]]
    BY <1>2, AboveIsClosed
  <2>2. q \in Shape(root, type, has)
    BY <1>1, <2>1, ShapeOf
  <2> QED BY <2>2
<1> QED BY <1>1, <1>3

(* The shape of known members is whole.                                        *)
LEMMA ShapesAreWhole ==
  ASSUME NEW root, NEW type, Proper(root, type), NEW has, has \subseteq Pairs
  PROVE  Whole(root, type, Shape(root, type, has))
<1>1. Shape(root, type, has) \subseteq Pairs
  BY ShapeOf, AlwaysKnown
<1> QED BY <1>1, ShapeIsWhole DEF Whole

(* What crosses of a whole object is the object.                               *)
LEMMA WholeCrosses ==
  ASSUME NEW has, Whole(form.root, Type, has)
  PROVE  Reshaped(Parcelled(has)) = has
<1>1. Parcelled(has) = has
  BY ParcelIsWhole DEF Whole
<1> QED BY <1>1 DEF Reshaped, Whole, Type

(* Leaving out the wish to be distributed leaves a whole object.               *)
LEMMA SendersAreWhole ==
  ASSUME Proper(form.root, Type), NEW has, Whole(form.root, Type, has)
  PROVE  /\ Whole(form.root, Type, SetDistributed(has))
         /\ StaysHome => Distributed \notin SetDistributed(has)
         /\ SetDistributed(has) \in {has, has \ {Distributed}}
<1> DEFINE b == SetDistributed(has)
<1>1. b \in {has, has \ {Distributed}}
  BY DEF SetDistributed, Distributed
<1>2. Distributed \notin Holding \cup Always
  BY DEF Distributed, Holding, Always
<1>3. \A p \in Holding \cup Always : p \in b <=> p \in has
  BY <1>1, <1>2
<1>4. \A p \in b : p[1] \in RolesIn(form.root, Type) /\ Above[p[1]] \subseteq has
  BY <1>1, WholeHolds DEF Whole
<1>5. Shape(form.root, Type, b) = b
  <2> HIDE DEF b
  <2> QED BY <1>3, <1>4, OthersComeAndGo DEF Whole
<1>6. StaysHome => Distributed \notin b
  BY DEF SetDistributed, StaysHome, Distributed, Type
<1> QED BY <1>1, <1>5, <1>6 DEF Whole

(* What the service and a notification add to a request holds no part, and     *)
(* what they take from a date neither.                                         *)
LEMMA AddedIsWhole ==
  ASSUME NEW root, NEW type, Proper(root, type), NEW has, Whole(root, type, has),
         NEW more, more \subseteq Pairs,
         \A p \in more : /\ p[1] \in RolesIn(root, type) \cap {"request", "notification"}
                         /\ p \in Holding \cup Always => p \in has
  PROVE  Whole(root, type, has \cup more)
<1> DEFINE b == has \cup more
<1>1. \A p \in Holding \cup Always : p \in b <=> p \in has
  OBVIOUS
<1>2. \A p \in b : p[1] \in RolesIn(root, type) /\ Above[p[1]] \subseteq has
  BY WholeHolds, AboveOf DEF Whole
<1>3. b \subseteq Pairs
  BY DEF Whole
<1> HIDE DEF b
<1>4. Shape(root, type, b) = b
  BY <1>1, <1>2, OthersComeAndGo DEF Whole
<1> QED BY <1>3, <1>4 DEF Whole, b

(* What the service adds to a request.                                         *)
LEMMA ServedIsWhole ==
  ASSUME Proper(form.root, Type), form.root = "request", NEW has, Whole(form.root, Type, has)
  PROVE  /\ Whole(form.root, Type, PrepareNotificationRequest(has))
         /\ has \subseteq PrepareNotificationRequest(has)
         /\ Distributed \in PrepareNotificationRequest(has) => Distributed \in has
<1> DEFINE named == {<<"request", m>> : m \in {"creatorBundleName", "creatorUid", "creatorPid",
                                                "creatorUserId", "deliveryTime"}}
           owner == IF <<"request", "isAgent">> \in has
                    THEN {<<"request", "ownerUid">>}
                    ELSE {<<"request", "ownerBundleName">>}
           more == named \cup owner
<1>1. PrepareNotificationRequest(has) = has \cup more
  BY DEF PrepareNotificationRequest
<1>2. \A p \in more : \E m \in {"creatorBundleName", "creatorUid", "creatorPid", "creatorUserId",
                                 "deliveryTime", "ownerUid", "ownerBundleName"} :
                         p = <<"request", m>>
  OBVIOUS
<1> HIDE DEF more
<1>3. \A m \in {"creatorBundleName", "creatorUid", "creatorPid", "creatorUserId",
                "deliveryTime", "ownerUid", "ownerBundleName"} :
        /\ <<"request", m>> \in Pairs
        /\ <<"request", m>> \notin Holding \cup Always
        /\ <<"request", m>> # Distributed
  BY RolesThere, KnownPairs, MembersOfRequest, MembersOfRequestRows
     DEF Holding, Always, Distributed
<1>4. "request" \in RolesIn(form.root, Type)
  BY DEF RolesIn, RolesOf
<1>5. Whole(form.root, Type, has \cup more)
  BY <1>2, <1>3, <1>4, AddedIsWhole
<1> QED BY <1>1, <1>2, <1>3, <1>5

(* What the service takes from a date.                                         *)
LEMMA DatesAreWhole ==
  ASSUME Proper(form.root, Type), NEW has, Whole(form.root, Type, has)
  PROVE  /\ Whole(form.root, Type, SetDoNotDisturbDate(has))
         /\ SetDoNotDisturbDate(has) \subseteq has
         /\ \A p \in has : \/ p[1] = "date" /\ form.values.doNotDisturbType = "NONE"
                           \/ p \in SetDoNotDisturbDate(has)
<1> DEFINE b == SetDoNotDisturbDate(has)
<1>1. b \in {has, has \ {<<"date", "beginDate">>, <<"date", "endDate">>}}
  BY DEF SetDoNotDisturbDate
<1>2. \A p \in has : (p[1] = "date" /\ form.values.doNotDisturbType = "NONE") \/ p \in b
  BY DEF SetDoNotDisturbDate
<1>3. \A p \in Holding \cup Always : p[1] # "date"
  BY DEF Holding, Always
<1> HIDE DEF b
<1>4. \A p \in Holding \cup Always : p \in b <=> p \in has
  BY <1>1, <1>3
<1>5. \A p \in b : p[1] \in RolesIn(form.root, Type) /\ Above[p[1]] \subseteq has
  BY <1>1, WholeHolds DEF Whole
<1>6. Shape(form.root, Type, b) = b
  BY <1>4, <1>5, OthersComeAndGo DEF Whole
<1> QED BY <1>1, <1>2, <1>6 DEF Whole, b

(* What is around a posted request.                                            *)
LEMMA PostedIsWhole ==
  ASSUME Proper(form.root, Type), form.root = "request", NEW has, Whole(form.root, Type, has),
         NEW around, around \subseteq {<<"notification", m>> : m \in
           {"key", "remindType", "sourceType", "postTime", "request", "isRemoveAllowed",
            "deviceId"}}
  PROVE  Whole(form.root, Type, has \cup around) /\ Reshaped(has \cup around) = has \cup around
<1>1. \A m \in {"key", "remindType", "sourceType", "postTime", "request", "isRemoveAllowed",
                "deviceId"} : <<"notification", m>> \in Pairs
  BY RolesThere, KnownPairs, MembersOfSettings DEF Written
<1>2. "notification" \in RolesIn(form.root, Type)
  BY DEF RolesIn
<1>3. \A p \in around : p \in Holding \cup Always => p = <<"notification", "request">>
  BY DEF Holding, Always
<1>4. <<"notification", "request">> \in has
  <2>1. <<"notification", "request">> \in Shape(form.root, Type, has)
    BY <1>2, ShapeOf, AboveOf DEF Always
  <2> QED BY <2>1 DEF Whole
<1>5. Whole(form.root, Type, has \cup around)
  BY <1>1, <1>2, <1>3, <1>4, AddedIsWhole
<1> QED BY <1>5 DEF Whole, Reshaped, Type

(* What is known is a role with a member of it.                                *)
LEMMA PairsAre ==
  ASSUME NEW p \in Pairs
  PROVE  p = <<p[1], p[2]>> /\ p[1] \in DOMAIN Written /\ p[2] \in Members(Written[p[1]])
<1>1. PICK role \in DOMAIN Written : p \in {<<role, m>> : m \in Members(Written[role])}
  BY DEF Pairs
<1> QED BY <1>1

----------------------------------------------------------------------------
(* The steps.                                                                  *)

(* The type of a content is the one a script named.                            *)
LEMMA TypeIsTold ==
  ASSUME NEW root, NEW values, NEW has, ToldOK(root, values, has)
  PROVE  TypeOf([n \in DOMAIN values |-> JSToC[n][values[n]]]) = TypeOf(values)
  BY NamesOfValues DEF ToldOK, TypeOf

(* What a script tells of are members that are known.                          *)
LEMMA ToldAreKnown ==
  ASSUME NEW root, NEW values, NEW has, ToldOK(root, values, has)
  PROVE  {<<p[1], Getters[p[1]][p[2]]>> : p \in has} \subseteq Pairs
<1>1. ASSUME NEW p \in has
      PROVE  <<p[1], Getters[p[1]][p[2]]>> \in Pairs
  <2>1. p[1] \in DOMAIN Getters /\ p[2] \in DOMAIN Getters[p[1]]
    BY DEF ToldOK
  <2>2. p[1] \in DOMAIN Written /\ Getters[p[1]][p[2]] \in Members(Written[p[1]])
    BY <2>1, GettersStand DEF Stands
  <2> QED BY <2>2, KnownPairs
<1> QED BY <1>1

(* A script object becomes a whole one.                                        *)
LEMMA ToldIsWhole ==
  ASSUME WayInv, Tell
  PROVE  WayInv'
<1>1. /\ stage = "script" /\ IsForm(form) /\ sent' = sent /\ form.root \in Travelling
      /\ ~ form.away /\ Proper(form.root, Type) /\ ToldOK(form.root, form.values, form.has)
  BY DEF Tell, WayInv, FormOK
<1> DEFINE values == [n \in DOMAIN form.values |-> JSToC[n][form.values[n]]]
           members == {<<p[1], Getters[p[1]][p[2]]>> : p \in form.has}
           has == Shape(form.root, TypeOf(values), members \cup Made)
<1>2. CASE stage' = "refused" /\ form' = form
  BY <1>1, <1>2 DEF WayInv, FormOK, ParcelArrivesWhole, ArrivesAway
<1>3. CASE stage' = "client" /\ form' = [form EXCEPT !.values = values, !.has = has]
  <2>1. TypeOf(values) = Type
    BY <1>1, TypeIsTold DEF Type
  <2>2. members \cup Made \subseteq Pairs
    BY <1>1, ToldAreKnown, AlwaysKnown
  <2> HIDE DEF values, members
  <2>3. Whole(form.root, Type, has)
    BY <1>1, <2>1, <2>2, ShapesAreWhole
  <2> HIDE DEF has
  <2>4. /\ IsForm(form') /\ form'.root = form.root /\ form'.away = form.away
        /\ form'.values = values /\ form'.has = has
    BY <1>1, <1>3 DEF IsForm
  <2>5. Type' = Type
    BY <2>1, <2>4 DEF Type
  <2> QED BY <1>1, <1>3, <2>3, <2>4, <2>5 DEF WayInv, FormOK, ParcelArrivesWhole, ArrivesAway
<1> QED BY <1>1, <1>2, <1>3 DEF Tell

(* It comes to the service whole.                                              *)
LEMMA SentIsWhole ==
  ASSUME WayInv, Send
  PROVE  WayInv'
<1> DEFINE has == SetDistributed(form.has)
<1>1. /\ stage = "client" /\ stage' = "service" /\ sent' = has
      /\ form' = [form EXCEPT !.has = Reshaped(Parcelled(has))]
      /\ IsForm(form) /\ Proper(form.root, Type) /\ Whole(form.root, Type, form.has)
      /\ form.root \in Travelling /\ ~ form.away
  BY DEF Send, WayInv, FormOK
<1>2. Whole(form.root, Type, has) /\ (StaysHome => Distributed \notin has)
  BY <1>1, SendersAreWhole
<1> HIDE DEF has
<1>3. /\ IsForm(form') /\ form'.root = form.root /\ form'.away = form.away
      /\ form'.values = form.values /\ form'.has = has
  BY <1>1, <1>2, WholeCrosses, MembersChange
<1>4. Type' = Type /\ (StaysHome' <=> StaysHome)
  BY <1>3 DEF Type, StaysHome
<1>5. FormOK'
  BY <1>1, <1>3, <1>4 DEF FormOK
<1>6. ParcelArrivesWhole' /\ ArrivesAway'
  BY <1>1, <1>3 DEF ParcelArrivesWhole, ArrivesAway
<1> QED BY <1>1, <1>2, <1>3, <1>4, <1>5, <1>6 DEF WayInv

(* The service leaves it whole.                                                *)
LEMMA ServedStaysWhole ==
  ASSUME WayInv, Serve
  PROVE  WayInv'
<1> DEFINE has == CASE form.root = "request" -> PrepareNotificationRequest(form.has)
                    [] form.root = "date" -> SetDoNotDisturbDate(form.has)
                    [] OTHER -> form.has
<1>1. /\ stage = "service" /\ stage' = "held" /\ sent' = sent
      /\ form' = [form EXCEPT !.has = has]
      /\ IsForm(form) /\ Proper(form.root, Type) /\ Whole(form.root, Type, form.has)
      /\ form.root \in Travelling /\ ~ form.away
      /\ StaysHome => Distributed \notin form.has
  BY DEF Serve, WayInv, FormOK
<1>2. Whole(form.root, Type, has) /\ (Distributed \in has => Distributed \in form.has)
  <2>1. CASE form.root = "request"
    BY <1>1, <2>1, ServedIsWhole
  <2>2. CASE form.root = "date"
    BY <1>1, <2>2, DatesAreWhole
  <2>3. CASE form.root \notin {"request", "date"}
    BY <1>1, <2>3
  <2> QED BY <2>1, <2>2, <2>3
<1> HIDE DEF has
<1>3. /\ IsForm(form') /\ form'.root = form.root /\ form'.away = form.away
      /\ form'.values = form.values /\ form'.has = has
  BY <1>1, MembersChange
<1>4. Type' = Type /\ (StaysHome' <=> StaysHome)
  BY <1>3 DEF Type, StaysHome
<1>5. FormOK'
  BY <1>1, <1>3, <1>4 DEF FormOK
<1>6. ParcelArrivesWhole' /\ ArrivesAway'
  BY <1>1, <1>3 DEF ParcelArrivesWhole, ArrivesAway
<1> QED BY <1>1, <1>2, <1>3, <1>4, <1>5, <1>6 DEF WayInv

(* So does posting it.                                                         *)
LEMMA PostedStaysWhole ==
  ASSUME WayInv, NEW remind \in RemindTypes, Post(remind)
  PROVE  WayInv'
<1> DEFINE around == {<<"notification", m>> : m \in {"key", "remindType", "sourceType", "postTime",
                                                     "request", "isRemoveAllowed"}
                                                    \cup (IF form.away THEN {"deviceId"} ELSE {})}
           has == Reshaped(form.has \cup around)
           values == form.values ++ [remindType |-> remind, sourceType |-> "NORMAL"]
<1>1. /\ stage = "held" /\ stage' = "subscriber" /\ sent' = has /\ form.root = "request"
      /\ form' = [form EXCEPT !.has = Reshaped(Parcelled(has)), !.values = values]
      /\ IsForm(form) /\ Proper(form.root, Type) /\ Whole(form.root, Type, form.has)
      /\ form.root \in Travelling
  BY DEF Post, WayInv, FormOK
<1>2. Whole(form.root, Type, has)
  <2>1. around \subseteq {<<"notification", m>> : m \in
          {"key", "remindType", "sourceType", "postTime", "request", "isRemoveAllowed", "deviceId"}}
    OBVIOUS
  <2> HIDE DEF around
  <2> QED BY <1>1, <2>1, PostedIsWhole
<1> HIDE DEF has, values
<1>3. Reshaped(Parcelled(has)) = has
  BY <1>2, WholeCrosses
<1>4. form' = [form EXCEPT !.has = has, !.values = values]
  BY <1>1, <1>3
<1>5. IsForm(form') /\ form'.root = form.root /\ form'.has = has
  BY <1>1, <1>4 DEF IsForm
<1> QED BY <1>1, <1>5 DEF WayInv, FormOK, ParcelArrivesWhole, ArrivesAway

(* So does reading it back.                                                    *)
LEMMA ReadIsWhole ==
  ASSUME WayInv, Read
  PROVE  WayInv'
<1>1. /\ stage = "held" /\ stage' = "subscriber" /\ sent' = form.has
      /\ form' = [form EXCEPT !.has = Reshaped(Parcelled(form.has))]
      /\ IsForm(form) /\ Whole(form.root, Type, form.has) /\ form.root \in Travelling
  BY DEF Read, WayInv, FormOK
<1>2. IsForm(form') /\ form'.root = form.root /\ form'.has = form.has
  BY <1>1, WholeCrosses, MembersChange
<1> QED BY <1>1, <1>2 DEF WayInv, FormOK, ParcelArrivesWhole, ArrivesAway

(* What is written to the store is the text of a whole request.                *)
LEMMA StoredIsText ==
  ASSUME WayInv, Store
  PROVE  WayInv'
<1>1. /\ stage = "held" /\ stage' = "stored" /\ sent' = form.has /\ form.root = "request"
      /\ form' = [form EXCEPT !.has = JsonOf(form.has)]
      /\ IsForm(form) /\ Whole(form.root, Type, form.has) /\ form.root \in Travelling
      /\ Proper(form.root, Type) /\ ~ form.away /\ Distributed \in form.has
      /\ ~ StaysHome
  BY DEF Store, WayInv, FormOK, JsonOf, Distributed
<1>2. /\ IsForm(form') /\ form'.root = form.root /\ form'.away = form.away
      /\ form'.values = form.values /\ form'.has = JsonOf(form.has)
  BY <1>1, MembersChange
<1>3. Type' = Type /\ (StaysHome' <=> StaysHome)
  BY <1>2 DEF Type, StaysHome
<1>4. JsonOf(sent)' = JsonOf(form.has)
  BY <1>1 DEF JsonOf
<1> QED BY <1>1, <1>2, <1>3, <1>4 DEF WayInv, FormOK, ParcelArrivesWhole, ArrivesAway

(* What is written of a whole object under a key read again comes with it.     *)
JsonRead(has) ==
  {<<p[1], FromJson[p[1]][p[2]]>> : p \in {q \in has : q[2] \in DOMAIN FromJson[q[1]]}}

(* What the text has.                                                          *)
LEMMA JsonOfIs ==
  ASSUME NEW has, NEW p
  PROVE  p \in JsonOf(has) <=>
           \E role \in DOMAIN ToJson : \E key \in DOMAIN ToJson[role] :
             p = <<role, key>> /\ <<role, ToJson[role][key]>> \in has
<1> DEFINE Of(role) == {<<role, key>> : key \in {k \in DOMAIN ToJson[role] :
                                                  <<role, ToJson[role][k]>> \in has}}
<1>1. JsonOf(has) = UNION {Of(role) : role \in DOMAIN ToJson}
  BY DEF JsonOf
<1>2. p \in JsonOf(has) <=> \E role \in DOMAIN ToJson : p \in Of(role)
  <2> HIDE DEF Of
  <2> QED BY <1>1
<1>3. ASSUME NEW role \in DOMAIN ToJson
      PROVE  p \in Of(role) <=>
               \E key \in DOMAIN ToJson[role] :
                 p = <<role, key>> /\ <<role, ToJson[role][key]>> \in has
  OBVIOUS
<1> HIDE DEF Of
<1> QED BY <1>2, <1>3

(* What is carried is read again.                                              *)
LEMMA CarriedIsRead ==
  ASSUME NEW has, NEW role \in DOMAIN ToJson, NEW m, <<role, m>> \in has, Carries(role, m)
  PROVE  <<role, m>> \in JsonRead(JsonOf(has))
<1>1. PICK k \in DOMAIN ToJson[role] : /\ ToJson[role][k] = m
                                       /\ k \in DOMAIN FromJson[role] /\ FromJson[role][k] = m
  BY DEF Carries
<1>2. <<role, k>> \in JsonOf(has)
  BY <1>1, JsonOfIs
<1> QED BY <1>1, <1>2 DEF JsonRead

(* What is read are members that are known.                                    *)
LEMMA ReadIsKnown ==
  ASSUME NEW has
  PROVE  JsonRead(JsonOf(has)) \subseteq Pairs
<1>1. ASSUME NEW q \in JsonOf(has), q[2] \in DOMAIN FromJson[q[1]]
      PROVE  <<q[1], FromJson[q[1]][q[2]]>> \in Pairs
  <2>1. q[1] \in DOMAIN FromJson
    <3>1. \E role \in DOMAIN ToJson : \E key \in DOMAIN ToJson[role] :
            q = <<role, key>> /\ <<role, ToJson[role][key]>> \in has
      BY <1>1, JsonOfIs
    <3>2. PICK role \in DOMAIN ToJson : \E key \in DOMAIN ToJson[role] : q = <<role, key>>
      BY <3>1
    <3> QED BY <3>2, JsonRoles
  <2>2. q[1] \in DOMAIN Written /\ FromJson[q[1]][q[2]] \in Members(Written[q[1]])
    BY <1>1, <2>1, JsonStands DEF Stands
  <2> QED BY <2>2, KnownPairs
<1> QED BY <1>1 DEF JsonRead

(* A request read from the store is whole, with its identity and its text.     *)
LEMMA FetchedIsWhole ==
  ASSUME WayInv, Fetch
  PROVE  WayInv'
<1> DEFINE read == JsonRead(form.has)
           uris == IF <<"message", "uri.text">> \in read THEN {<<"message", "uri">>} ELSE {}
           all == read \cup uris \cup {<<"request", "creatorUid">>}
           has == Reshaped(all)
<1>1. /\ stage = "stored" /\ sent' = sent /\ form.root = "request" /\ ~ StaysHome
      /\ IsForm(form) /\ Proper(form.root, Type) /\ form.root \in Travelling
      /\ Whole(form.root, Type, sent) /\ form.has = JsonOf(sent)
  BY DEF Fetch, WayInv, FormOK
<1>2. CASE stage' = "lost" /\ form' = form /\ Type \notin ConvertJsonToContent
  <2>1. Type = "MEDIA"
    BY <1>1, <1>2, BodiesThere DEF Proper, ConvertJsonToContent
  <2> QED BY <1>1, <1>2, <2>1 DEF WayInv, FormOK, ParcelArrivesWhole, ArrivesAway, Type
<1>3. CASE /\ stage' = "held" /\ Type \in ConvertJsonToContent
           /\ form' = [form EXCEPT !.away = TRUE, !.has = has]
  <2>1. all \subseteq Pairs
    <3>1. read \subseteq Pairs
      BY <1>1, ReadIsKnown
    <3>2. <<"request", "creatorUid">> \in Pairs
      BY RolesThere, KnownPairs, MembersOfRequest, MembersOfRequestRows
    <3> HIDE DEF read
    <3> QED BY <3>1, <3>2, AlwaysKnown DEF Made
  <2>2. ASSUME NEW p \in sent, p \in IdentityMembers
        PROVE  p \in has
    <3>1. p = <<"request", p[2]>> /\ Carries("request", p[2])
      BY <2>2, IdentityIsCarried
    <3>2. p \in read
      BY <1>1, <3>1, CarriedIsRead, JsonRoles
    <3>3. p[1] = "request" /\ "request" \in RolesIn(form.root, Type)
      BY <1>1, <3>1 DEF RolesIn, RolesOf
    <3> HIDE DEF read, uris
    <3> QED BY <3>2, <3>3, ShapeOf, AboveOf DEF Reshaped, Type
  <2>3. ASSUME NEW p \in sent, p[1] = BodyOf[Type]
        PROVE  p \in has
    <3>1. BodyOf[Type] \in {"normal", "longText", "multiLine"}
      BY <1>1, <1>3 DEF StaysHome, NonDistributed, ConvertJsonToContent, BodyOf
    <3>2. p = <<p[1], p[2]>> /\ p[2] \in Members(Written[p[1]])
      BY <1>1, PairsAre DEF Whole
    <3>3. p \in read
      BY <1>1, <2>3, <3>1, <3>2, TextIsCarried, CarriedIsRead, JsonRoles
    <3>4. /\ p[1] \in RolesIn(form.root, Type)
          /\ Above[p[1]] \subseteq sent
      BY <1>1, WholeHolds DEF Whole
    <3>5. Above[p[1]] = {<<"request", "notificationContent">>, <<"content", "content">>}
      BY <2>3, <3>1, AboveOf DEF Bodies
    <3>6. <<"request", "notificationContent">> \in read /\ <<"content", "content">> \in read
      BY <1>1, <3>4, <3>5, IdentityIsCarried, CarriedIsRead, JsonRoles
    <3>7. {"request", "content"} \subseteq RolesIn(form.root, Type)
      BY <1>1 DEF RolesIn, RolesOf
    <3> HIDE DEF read, uris
    <3> QED BY <3>3, <3>4, <3>5, <3>6, <3>7, ShapeOf DEF Reshaped, Type
  <2>4. Whole(form.root, Type, has)
    <3> HIDE DEF all
    <3> QED BY <1>1, <2>1, ShapesAreWhole DEF Reshaped, Type
  <2> HIDE DEF has
  <2>5. /\ IsForm(form') /\ form'.root = form.root /\ form'.away = TRUE
        /\ form'.values = form.values /\ form'.has = has
    BY <1>1, <1>3 DEF IsForm
  <2>6. Type' = Type /\ TypeOf(form.values)' = Type /\ (StaysHome' <=> StaysHome)
    BY <2>5 DEF Type, StaysHome
  <2>7. FormOK'
    BY <1>1, <1>3, <2>5, <2>6 DEF FormOK
  <2>8. ParcelArrivesWhole' /\ ArrivesAway'
    BY <1>1, <1>3, <2>2, <2>3, <2>5, <2>6 DEF ParcelArrivesWhole, ArrivesAway
  <2> QED BY <1>1, <1>3, <2>4, <2>5, <2>6, <2>7, <2>8 DEF WayInv
<1> HIDE DEF read
<1> QED
  <2>1. read = {<<p[1], FromJson[p[1]][p[2]]>> :
                  p \in {q \in form.has : q[2] \in DOMAIN FromJson[q[1]]}}
    BY DEF read, JsonRead
  <2> QED BY <1>2, <1>3, <2>1 DEF Fetch, Type

(* Hearing an object ends its way.                                             *)
LEMMA HeardKeepsWay ==
  ASSUME WayInv, Hear
  PROVE  WayInv'
<1>1. /\ stage' \in {"crashed", "heard"} /\ IsForm(form') /\ form'.root = form.root
      /\ form.root \in Travelling
  BY DEF Hear, WayInv, FormOK, IsForm
<1> QED BY <1>1 DEF WayInv, FormOK, ParcelArrivesWhole, ArrivesAway

----------------------------------------------------------------------------
(* The objects there are at first.                                             *)

(* What an object is refused without is one of its properties.                 *)
LEMMA NeededAreThere ==
  ASSUME NEW role \in DOMAIN Getters
  PROVE  Needed[role] \subseteq DOMAIN Getters[role]
<1>1. /\ Needed["request"] = {"content"} /\ Needed["content"] = {"contentType"}
      /\ Needed["template"] = {"name"} /\ Needed["button"] = {"title", "wantAgent"}
      /\ Needed["input"] = {"inputKey", "tag", "options"} /\ Needed["options"] = {}
  BY DEF Needed, NeededOfRequest, NeededOfContents, NeededOfConversation, NeededOfSettings,
         NeededOfReminders, ++
<1>2. /\ Needed["normal"] = {"title", "text"}
      /\ Needed["longText"] = {"title", "text", "longText", "briefText", "expandedTitle"}
      /\ Needed["picture"] = {"title", "text", "briefText", "expandedTitle", "picture"}
      /\ Needed["multiLine"] = {"title", "text", "briefText", "longTitle", "lines"}
  BY DEF Needed, NeededOfRequest, NeededOfContents, NeededOfConversation, NeededOfSettings,
         NeededOfReminders, ++
<1>3. /\ Needed["conversation"] = {"title", "text", "user", "conversationTitle",
                                   "conversationGroup", "messages"}
      /\ Needed["message"] = {"text", "timestamp", "sender", "mimeType"}
      /\ Needed["user"] = {"name", "key", "uri", "isMachine", "isUserImportant"}
      /\ Needed["sender"] = {"name", "key", "uri", "isMachine", "isUserImportant"}
  BY DEF Needed, NeededOfRequest, NeededOfContents, NeededOfConversation, NeededOfSettings,
         NeededOfReminders, ++
<1>4. /\ Needed["slot"] = {"type"} /\ Needed["bundle"] = {"bundle"}
      /\ Needed["date"] = {"type", "begin", "end"}
      /\ Needed["timer"] = {"reminderType", "triggerTimeInSeconds"}
      /\ Needed["alarm"] = {"reminderType", "hour", "minute"}
      /\ Needed["calendar"] = {"reminderType", "year", "month", "day", "hour", "minute"}
  BY DEF Needed, NeededOfRequest, NeededOfContents, NeededOfConversation, NeededOfSettings,
         NeededOfReminders, ++
<1>5. CASE role = "request"
  BY <1>1, <1>5, GettersOfRequest DEF Getters
<1>6. CASE role \in {"options", "template", "button", "input", "content"}
  BY <1>1, <1>6 DEF Getters, GetOptions, GetTemplateInfo, GetActionButton, GetInputTexts,
                    GetInputChoices, GetContentType, Alike, ++
<1>7. CASE role \in {"normal", "longText", "picture", "multiLine"}
  BY <1>2, <1>7 DEF Getters, GetBasicContent, GetLongText, GetPicture, GetMultiLine, Alike, ++
<1>8. CASE role \in {"conversation", "message", "user", "sender"}
  BY <1>3, <1>8 DEF Getters, GetConversation, GetBasicContent, GetMessage, GetMessageUser, Alike, ++
<1>9. CASE role \in {"slot", "bundle", "date"}
  BY <1>4, <1>9 DEF Getters, GetSlot, GetBundle, GetDate, Alike, ++
<1>10. CASE role \in {"timer", "alarm", "calendar"}
  <2>1. "reminderType" \in DOMAIN GenReminder
    BY DEF GenReminder, Alike, ++
  <2> QED BY <1>4, <1>10, <2>1 DEF Getters, CreateReminderTimer, CreateReminderAlarm,
                                   CreateReminderCalendar, ++
<1> QED BY <1>5, <1>6, <1>7, <1>8, <1>9, <1>10, ScriptRoles

(* What is left of the properties has what holds it.                           *)
LEMMA ScriptedIsClosed ==
  ASSUME NEW properties, \A p \in properties : p[1] \in DOMAIN Getters,
         NEW p \in Scripted(properties)
  PROVE  p \in properties /\ KeysAbove[p[1]] \subseteq Scripted(properties)
<1>1. p \in properties /\ KeysAbove[p[1]] \subseteq properties
  BY DEF Scripted
<1>2. ASSUME NEW q \in KeysAbove[p[1]]
      PROVE  q \in Scripted(properties)
  <2>1. KeysAbove[q[1]] \subseteq KeysAbove[p[1]]
    BY <1>1, KeysAboveAreClosed
  <2> QED BY <1>1, <2>1 DEF Scripted
<1> QED BY <1>1, <1>2

(* What holds a part is one of the objects a script tells of.                  *)
LEMMA KeysAboveArePlayed ==
  ASSUME NEW root, NEW type, Proper(root, type),
         NEW role \in RolesOf(root, type) \cap DOMAIN Getters,
         NEW q \in KeysAbove[role]
  PROVE  /\ q = <<q[1], q[2]>>
         /\ q[1] \in RolesOf(root, type) \cap DOMAIN Getters
         /\ q[2] \in DOMAIN Getters[q[1]]
<1>1. /\ q = <<q[1], q[2]>> /\ q[1] \in DOMAIN Getters /\ q[2] \in DOMAIN Getters[q[1]]
      /\ <<q[1], Getters[q[1]][q[2]]>> \in Above[role]
  BY KeysAboveAreClosed
<1> QED BY <1>1, AboveIsPlayed

(* A property of one of the roles.                                             *)
IsProperty(root, type, p) ==
  /\ p = <<p[1], p[2]>>
  /\ p[1] \in RolesOf(root, type) \cap DOMAIN Getters
  /\ p[2] \in DOMAIN Getters[p[1]]

(* A script object has properties of its roles, with those that hold them.     *)
LEMMA ScriptObjectsAreTold ==
  ASSUME NEW root, NEW type, Proper(root, type), NEW has \in ScriptObjects(root, type),
         NEW p \in has
  PROVE  IsProperty(root, type, p) /\ KeysAbove[p[1]] \subseteq has
<1> DEFINE roles == RolesOf(root, type) \cap DOMAIN Getters
           EveryOf(role) == {<<role, key>> : key \in DOMAIN Getters[role]}
           NeededOf(role) == {<<role, key>> : key \in Needed[role]}
           every == UNION {EveryOf(role) : role \in roles}
           needed == UNION {NeededOf(role) : role \in roles}
<1>1. ASSUME NEW q \in every PROVE IsProperty(root, type, q)
  <2>1. PICK role \in roles : q \in EveryOf(role)
    BY <1>1
  <2> QED BY <2>1 DEF IsProperty
<1>2. ASSUME NEW q \in needed PROVE IsProperty(root, type, q)
  <2>1. PICK role \in roles : q \in NeededOf(role)
    BY <1>2
  <2> QED BY <2>1, NeededAreThere DEF IsProperty
<1>3. PICK properties :
        /\ has = Scripted(properties)
        /\ \E q \in every : \/ properties = needed \cup {q} \cup KeysAbove[q[1]]
                            \/ properties = every \ {q}
  BY DEF ScriptObjects
<1> HIDE DEF every, needed
<1>4. ASSUME NEW q \in properties PROVE IsProperty(root, type, q)
  <2>1. PICK r \in every : q \in needed \cup {r} \cup KeysAbove[r[1]] \cup every
    BY <1>3, <1>4
  <2>2. CASE q \in KeysAbove[r[1]]
    BY <1>1, <2>2, KeysAboveArePlayed DEF IsProperty
  <2> QED BY <1>1, <1>2, <2>1, <2>2
<1>5. p \in properties /\ KeysAbove[p[1]] \subseteq has
  BY <1>3, <1>4, ScriptedIsClosed DEF IsProperty
<1> QED BY <1>4, <1>5

(* Its values are values the bindings know.                                    *)
LEMMA ScriptValues ==
  ASSUME JourneyAssumption, NEW root \in Roots, root \in DOMAIN Getters,
         NEW values \in ValuesOf(root),
         TypeOf(values) \in DOMAIN ContentTypeJSToC
  PROVE  /\ Proper(root, TypeOf(values))
         /\ root = "date" => "doNotDisturbType" \in DOMAIN values
         /\ \A n \in DOMAIN values : n \in DOMAIN JSToC /\ values[n] \in DOMAIN JSToC[n]
<1>1. root \in Travelling
  BY DEF JourneyAssumption, Travelling
<1>2. /\ JSToC["contentType"] = ContentTypeJSToC /\ JSToC["slotType"] = SlotTypeJSToC
      /\ "HIGH" \in DOMAIN JSToC["level"]
      /\ {"NONE", "ONCE"} \subseteq DOMAIN JSToC["doNotDisturbType"]
  BY DEF JSToC, SlotLevelJSToC, DoNotDisturbTypeJSToC, Alike
<1>3. CASE root = "request"
  <2>1. values \in [contentType : ContentTypes, slotType : SlotTypes]
    BY <1>3 DEF ValuesOf, Reminders
  <2>2. DOMAIN values = {"contentType", "slotType"} /\ values.slotType \in DOMAIN SlotTypeJSToC
    BY <2>1 DEF JourneyAssumption
  <2>3. TypeOf(values) = values.contentType
    BY <2>2 DEF TypeOf
  <2> QED BY <1>1, <1>2, <1>3, <2>2, <2>3, NamesOfValues DEF Proper
<1>4. CASE root = "slot"
  <2>1. values \in [slotType : SlotTypes, level : {"HIGH"}]
    BY <1>4 DEF ValuesOf, Reminders
  <2>2. /\ DOMAIN values = {"slotType", "level"} /\ values.slotType \in DOMAIN SlotTypeJSToC
        /\ values.level = "HIGH"
    BY <2>1 DEF JourneyAssumption
  <2> QED BY <1>1, <1>2, <1>4, <2>2, NamesOfValues DEF Proper
<1>5. CASE root = "date"
  <2>1. values \in [doNotDisturbType : {"NONE", "ONCE"}]
    BY <1>5 DEF ValuesOf, Reminders
  <2>2. DOMAIN values = {"doNotDisturbType"} /\ values.doNotDisturbType \in {"NONE", "ONCE"}
    BY <2>1
  <2> QED BY <1>1, <1>2, <1>5, <2>2, NamesOfValues DEF Proper
<1>6. CASE root \in Reminders
  <2>1. values \in [slotType : SlotTypes]
    BY <1>6 DEF ValuesOf, Reminders
  <2>2. DOMAIN values = {"slotType"} /\ values.slotType \in DOMAIN SlotTypeJSToC
    BY <2>1 DEF JourneyAssumption
  <2> QED BY <1>1, <1>2, <1>6, <2>2, NamesOfValues DEF Proper, Reminders
<1>7. CASE root \notin {"request", "slot", "date"} \cup Reminders
  <2>1. values = <<>>
    BY <1>7 DEF ValuesOf
  <2> QED BY <1>1, <1>7, <2>1 DEF Proper
<1> QED BY <1>3, <1>4, <1>5, <1>6, <1>7

(* The type of a native request is one of the types there are.                 *)
LEMMA NativeValues ==
  ASSUME JourneyAssumption, NEW root \in Roots, NEW values \in NativeValuesOf(root)
  PROVE  Proper(root, TypeOf(values))
<1>1. root \in Travelling
  BY DEF JourneyAssumption, Travelling
<1>2. CASE root = "request"
  <2>1. PICK v \in ValuesOf(root) :
          values = [name \in DOMAIN v |-> IF v[name] \in DOMAIN JSToC[name]
                                          THEN JSToC[name][v[name]] ELSE v[name]]
    BY DEF NativeValuesOf
  <2>2. v \in [contentType : ContentTypes, slotType : SlotTypes]
    BY <1>2 DEF ValuesOf, Reminders
  <2>3. "contentType" \in DOMAIN v /\ v["contentType"] \in DOMAIN BodyOf
    BY <2>2 DEF JourneyAssumption
  <2>4. /\ "contentType" \in DOMAIN values
        /\ values["contentType"] = v["contentType"]
    BY <2>1, <2>3, NamesOfValues
  <2> QED BY <1>1, <2>3, <2>4 DEF Proper, TypeOf
<1> QED BY <1>1, <1>2 DEF Proper

(* A native object is whole.                                                   *)
LEMMA NativesAreWhole ==
  ASSUME NEW root, NEW type, Proper(root, type), NEW has \in NativeObjects(root, type)
  PROVE  Whole(root, type, has)
<1> DEFINE Of(role) == {<<role, Written[role][i].member>> : i \in DOMAIN Written[role]}
           every == MembersOf(root, type)
           needed == IF root = "request"
                     THEN {<<"request", "notificationContent">>,
                           <<"request", "notificationContentType">>,
                           <<"content", "contentType">>, <<"content", "content">>}
                     ELSE {}
<1>1. \A role \in DOMAIN Written : Of(role) \subseteq Pairs
  BY KnownPairs DEF Members
<1>2. every \subseteq Pairs
  <2>1. UNION {Of(role) : role \in RolesOf(root, type)} \subseteq Pairs
    <3>1. RolesOf(root, type) \subseteq DOMAIN Written
      BY RolesAreThere DEF RolesIn
    <3> HIDE DEF Of
    <3> QED BY <1>1, <3>1
  <2>2. every = Shape(root, type, UNION {Of(role) : role \in RolesOf(root, type)})
    BY DEF MembersOf
  <2> HIDE DEF Of, every
  <2> QED BY <2>1, <2>2, ShapeOf, AlwaysKnown
<1>3. needed \subseteq Pairs
  <2>1. <<"content", "contentType">> \in Pairs
    BY RolesThere, KnownPairs, MembersOfContents DEF Written
  <2> QED BY <2>1, AlwaysKnown DEF Made, Holding
<1>4. PICK p, members :
        /\ p \in every
        /\ has = Shape(root, type, members)
        /\ members \in {needed \cup {p} \cup Above[p[1]], every \ {p}}
  BY DEF NativeObjects
<1> HIDE DEF every, needed
<1>5. Above[p[1]] \subseteq Pairs
  <2>1. p[1] \in DOMAIN Written
    BY <1>2, <1>4, PairsAre
  <2> QED BY <2>1, AboveIsClosed, AlwaysKnown
<1>6. members \subseteq Pairs
  BY <1>2, <1>3, <1>4, <1>5
<1> QED BY <1>4, <1>6, ShapesAreWhole

(* The invariant holds of the objects there are at first,                      *)
LEMMA WayBegins ==
  ASSUME JourneyAssumption, JourneyInit
  PROVE  WayInv
<1>1. PICK root \in Roots :
        \/ /\ root \in DOMAIN Getters
           /\ \E values \in ValuesOf(root) :
                /\ TypeOf(values) \in DOMAIN ContentTypeJSToC
                /\ \E has \in ScriptObjects(root, TypeOf(values)) :
                     /\ form = Form(root, values, has)
                     /\ told = [values |-> values, has |-> has]
                     /\ stage = "script"
        \/ /\ \E values \in NativeValuesOf(root) :
                \E has \in NativeObjects(root, TypeOf(values)) : form = Form(root, values, has)
           /\ told = NoScript
           /\ stage = IF root \in {"enabled", "sortingMap"} THEN "held" ELSE "client"
  BY DEF JourneyInit
<1>2. root \in Travelling
  BY DEF JourneyAssumption, Travelling
<1>3. CASE root \in DOMAIN Getters /\ stage = "script"
             /\ \E values \in ValuesOf(root) :
                  /\ TypeOf(values) \in DOMAIN ContentTypeJSToC
                  /\ \E has \in ScriptObjects(root, TypeOf(values)) : form = Form(root, values, has)
  <2>1. PICK values \in ValuesOf(root) :
          /\ TypeOf(values) \in DOMAIN ContentTypeJSToC
          /\ \E has \in ScriptObjects(root, TypeOf(values)) : form = Form(root, values, has)
    BY <1>3
  <2>2. PICK has \in ScriptObjects(root, TypeOf(values)) : form = Form(root, values, has)
    BY <2>1
  <2>3. /\ IsForm(form) /\ form.root = root /\ ~ form.away /\ form.values = values /\ form.has = has
    BY <2>2 DEF IsForm, Form
  <2>4. Proper(root, TypeOf(values))
    BY <1>3, <2>1, ScriptValues
  <2>5. ToldOK(root, values, has)
    BY <1>3, <2>1, <2>2, <2>4, ScriptValues, ScriptObjectsAreTold DEF ToldOK, IsProperty
  <2> QED BY <1>2, <1>3, <2>3, <2>4, <2>5
          DEF WayInv, FormOK, ParcelArrivesWhole, ArrivesAway, Type
<1>4. CASE /\ stage = IF root \in {"enabled", "sortingMap"} THEN "held" ELSE "client"
           /\ \E values \in NativeValuesOf(root) :
                \E has \in NativeObjects(root, TypeOf(values)) : form = Form(root, values, has)
  <2>1. PICK values \in NativeValuesOf(root) :
          \E has \in NativeObjects(root, TypeOf(values)) : form = Form(root, values, has)
    BY <1>4
  <2>2. PICK has \in NativeObjects(root, TypeOf(values)) : form = Form(root, values, has)
    BY <2>1
  <2>3. /\ IsForm(form) /\ form.root = root /\ form.away = FALSE /\ form.values = values
        /\ form.has = has
    BY <2>2 DEF IsForm, Form
  <2>4. Proper(root, TypeOf(values))
    BY NativeValues
  <2>5. Whole(root, TypeOf(values), has)
    BY <2>4, NativesAreWhole
  <2>6. stage \in {"client", "held"} /\ (stage = "held" => form.root # "request")
    BY <1>4, <2>3
  <2> QED BY <1>2, <2>3, <2>4, <2>5, <2>6
          DEF WayInv, FormOK, ParcelArrivesWhole, ArrivesAway, Type, StaysHome
<1> QED BY <1>1, <1>3, <1>4

(* and of what every step makes of them.                                       *)
LEMMA WayIsKept ==
  ASSUME WayInv, [JourneyNext]_journeyVars
  PROVE  WayInv'
<1>1. CASE UNCHANGED journeyVars
  BY <1>1 DEF journeyVars, WayInv, FormOK, ParcelArrivesWhole, ArrivesAway, Type, StaysHome
<1> QED BY <1>1, ToldIsWhole, SentIsWhole, ServedStaysWhole, PostedStaysWhole, ReadIsWhole,
           StoredIsText, FetchedIsWhole, HeardKeepsWay DEF JourneyNext

(* ParcelArrivesWhole for every root, type and value: each class reads from a  *)
(* parcel the items it writes to it, in their order and with their types, so   *)
(* what leaves a process whole is whole in the other                           *)
(* (NotificationRequest::Marshalling and ReadFromParcel, and the same of every *)
(* class a request, a slot or a reminder is made of).                          *)
THEOREM JourneyParcelArrivesWhole == JourneySpec => []ParcelArrivesWhole
<1>1. WayInv => ParcelArrivesWhole
  BY DEF WayInv
<1> QED BY <1>1, WayBegins, WayIsKept, JourneyAssumption, PTL DEF JourneySpec

(* ArrivesAway for every type of content: a request that comes from the store  *)
(* of another device has its id, label, creator and owner and all of its text, *)
(* and only media do not come at all (NotificationRequest::ToJson and          *)
(* FromJson, AnsNotification::PublishNotification keeping conversations and    *)
(* pictures on the device).                                                    *)
THEOREM JourneyArrivesAway == JourneySpec => []ArrivesAway
<1>1. WayInv => ArrivesAway
  BY DEF WayInv
<1> QED BY <1>1, WayBegins, WayIsKept, JourneyAssumption, PTL DEF JourneySpec

----------------------------------------------------------------------------
(* What a script told.                                                         *)

Member(p) == <<p[1], Getters[p[1]][p[2]]>>

(* The object still has what was told, but for the wish to be distributed and  *)
(* the times of a date that asks for no quiet time.                            *)
KeepsTold ==
  /\ \A n \in DOMAIN told.values :
       n \in DOMAIN form.values /\ form.values[n] = JSToC[n][told.values[n]]
  /\ DOMAIN form.values \subseteq DOMAIN told.values \cup {"remindType", "sourceType"}
  /\ \A p \in told.has \ {Distributed} :
       \/ Member(p) \in form.has
       \/ p[1] = "date" /\ told.values.doNotDisturbType = "NONE"
  /\ \A p \in told.has : p[1] = "button" => <<"button", "wantAgent">> \in form.has

ToldInv ==
  told # NoScript =>
    /\ ToldOK(form.root, told.values, told.has)
    /\ stage = "script" => form.values = told.values /\ form.has = told.has
    /\ stage \in {"client", "service", "held", "subscriber"} /\ ~ form.away => KeepsTold
    /\ stage \in {"client", "service", "held", "subscriber"}
         /\ <<"message", "sender">> \in form.has => <<"message", "uri">> \in form.has
    /\ stage # "crashed"
    /\ HeardAsTold

(* No property stands for what the service says, and one for the wish to be    *)
(* distributed.                                                                *)
LEMMA ScriptMembers ==
  ASSUME NEW role \in DOMAIN Getters, NEW k \in DOMAIN Getters[role]
  PROVE  /\ Getters[role][k] \notin {"remindType", "sourceType"}
         /\ <<role, Getters[role][k]>> = Distributed => <<role, k>> = Distributed
<1>1. Getters[role][k] \in Members(Written[role]) /\ role \in DOMAIN Written
  BY GettersStand DEF Stands
<1>2. {"remindType", "sourceType"} \cap Members(Written[role]) = {}
  <2>1. CASE role = "request"
    BY <2>1, MembersOfRequest, MembersOfRequestRows
  <2>2. CASE role \in {"options", "template", "button", "input", "user", "sender"}
    BY <2>2, MembersOfParts DEF Written
  <2>3. CASE role \in {"content", "normal", "longText", "multiLine", "picture", "conversation",
                       "message"}
    BY <2>3, MembersOfContents DEF Written
  <2>4. CASE role \in {"slot", "date", "bundle"}
    BY <2>4, MembersOfSettings DEF Written
  <2>5. CASE role \in {"timer", "alarm", "calendar"}
    BY <2>5, MembersOfReminders DEF Written
  <2> QED BY <2>1, <2>2, <2>3, <2>4, <2>5, ScriptRoles
<1>3. \A key \in DOMAIN GetOptions : GetOptions[key] = "isDistributed" => key = "isDistributed"
  BY DEF GetOptions, Alike, ++
<1>4. Getters["options"] = GetOptions
  BY DEF Getters
<1> QED BY <1>1, <1>2, <1>3, <1>4 DEF Distributed

(* What is known of a property that is told.                                   *)
LEMMA ToldHas ==
  ASSUME NEW root, NEW values, NEW has, ToldOK(root, values, has), NEW p \in has
  PROVE  /\ IsProperty(root, TypeOf(values), p)
         /\ KeysAbove[p[1]] \subseteq has
         /\ Member(p) \in Pairs
         /\ Member(p)[2] \notin {"remindType", "sourceType"}
         /\ Member(p) = Distributed => p = Distributed
<1>1. IsProperty(root, TypeOf(values), p) /\ KeysAbove[p[1]] \subseteq has
  BY DEF ToldOK, IsProperty
<1>2. Member(p)[2] = Getters[p[1]][p[2]]
  BY DEF Member
<1>3. Member(p) \in Pairs
  BY ToldAreKnown DEF Member
<1> QED BY <1>1, <1>2, <1>3, ScriptMembers DEF Member, IsProperty

(* What is told is made, with what holds it.                                   *)
LEMMA ToldIsMade ==
  ASSUME NEW root, NEW values, NEW has, ToldOK(root, values, has), NEW p \in has
  PROVE  Member(p) \in Shape(root, TypeOf(values), {Member(q) : q \in has} \cup Made)
<1> DEFINE made == {Member(q) : q \in has} \cup Made
           type == TypeOf(values)
<1>1. IsProperty(root, type, p) /\ KeysAbove[p[1]] \subseteq has /\ Proper(root, type)
  BY ToldHas DEF ToldOK
<1>2. Member(p)[1] = p[1]
  BY DEF Member
<1>3. ASSUME NEW q \in Above[p[1]]
      PROVE  q \in made \cup Always /\ q[1] \in RolesIn(root, type)
  <2>1. q[1] \in RolesIn(root, type)
    BY <1>1, AboveIsPlayed DEF IsProperty, RolesIn
  <2>2. CASE q \notin Made \cup Always
    <3>1. PICK k \in DOMAIN Getters[q[1]] :
            q = <<q[1], Getters[q[1]][k]>> /\ q[1] \in DOMAIN Getters
      BY <1>1, <2>2, HoldersAreTold DEF IsProperty
    <3>2. <<q[1], k>> \in KeysAbove[p[1]]
      <4>1. <<q[1], Getters[q[1]][k]>> \in Above[p[1]]
        BY <3>1
      <4>2. \E owner \in DOMAIN Getters : \E key \in DOMAIN Getters[owner] :
              /\ <<q[1], k>> = <<owner, key>>
              /\ <<owner, Getters[owner][key]>> \in Above[p[1]]
        BY <3>1, <4>1
      <4> QED BY <1>1, <4>2, KeysAboveOf DEF IsProperty
    <3>3. Member(<<q[1], k>>) = q
      BY <3>1 DEF Member
    <3> QED BY <1>1, <2>1, <3>2, <3>3
  <2> QED BY <2>1, <2>2
<1> HIDE DEF made
<1>4. Member(p) \in made
  BY DEF made
<1> QED BY <1>1, <1>2, <1>3, <1>4, ShapeOf DEF IsProperty, RolesIn, made

(* A message that is made has a Uri.                                           *)
LEMMA MessagesHaveUris ==
  ASSUME NEW root, NEW type, NEW has, Made \subseteq has,
         <<"message", "sender">> \in Shape(root, type, has)
  PROVE  <<"message", "uri">> \in Shape(root, type, has)
  BY ShapeOf DEF Made

(* What a script told is in the object made from it.                           *)
LEMMA ToldStaysTold ==
  ASSUME WayInv, ToldInv, Tell
  PROVE  ToldInv'
<1> SUFFICES ASSUME told # NoScript PROVE ToldInv'
  BY DEF ToldInv, Tell
<1>1. /\ stage = "script" /\ IsForm(form) /\ told' = told /\ ~ form.away
      /\ ToldOK(form.root, told.values, told.has)
      /\ form.values = told.values /\ form.has = told.has
  BY DEF Tell, WayInv, FormOK, ToldInv
<1> DEFINE missed == \E role \in Played(form.has) :
                       \E key \in Needed[role] : <<role, key>> \notin form.has
           values == [n \in DOMAIN form.values |-> JSToC[n][form.values[n]]]
           members == {Member(p) : p \in form.has}
           has == Shape(form.root, TypeOf(values), members \cup Made)
<1>2. CASE stage' = "refused" /\ form' = form
  BY <1>1, <1>2 DEF ToldInv, HeardAsTold
<1>3. CASE stage' = "client" /\ form' = [form EXCEPT !.values = values, !.has = has] /\ ~ missed
  <2>1. /\ IsForm(form') /\ form'.root = form.root /\ form'.away = form.away
        /\ form'.values = values /\ form'.has = has
    <3> HIDE DEF values, has
    <3> QED BY <1>1, <1>3 DEF IsForm
  <2>2. TypeOf(values) = TypeOf(told.values)
    BY <1>1, TypeIsTold
  <2>3. \A p \in told.has : Member(p) \in has
    <3> HIDE DEF values
    <3> QED BY <1>1, <2>2, ToldIsMade
  <2>4. ASSUME NEW p \in told.has, p[1] = "button"
        PROVE  <<"button", "wantAgent">> \in has
    <3>1. IsProperty(form.root, TypeOf(told.values), p) /\ KeysAbove["button"] \subseteq told.has
      BY <1>1, <2>4, ToldHas
    <3>2. "button" \in Played(form.has)
      BY <1>1, <2>4, <3>1 DEF Played, IsProperty
    <3>3. "wantAgent" \in Needed["button"]
      BY DEF Needed, NeededOfRequest, NeededOfContents, NeededOfConversation, NeededOfSettings,
             NeededOfReminders, ++
    <3>4. <<"button", "wantAgent">> \in told.has
      BY <1>1, <1>3, <3>2, <3>3
    <3>5. Member(<<"button", "wantAgent">>) = <<"button", "wantAgent">>
      BY DEF Member, Getters, GetActionButton, Alike
    <3> HIDE DEF has
    <3> QED BY <2>3, <3>4, <3>5
  <2>5. <<"message", "sender">> \in has => <<"message", "uri">> \in has
    <3> HIDE DEF values, members
    <3> QED BY MessagesHaveUris
  <2>6. DOMAIN values = DOMAIN told.values
        /\ \A n \in DOMAIN told.values : values[n] = JSToC[n][told.values[n]]
    BY <1>1
  <2> HIDE DEF values, has
  <2>7. KeepsTold'
    BY <1>1, <2>1, <2>3, <2>4, <2>6 DEF KeepsTold
  <2> QED BY <1>1, <1>3, <2>1, <2>5, <2>7 DEF ToldInv, HeardAsTold
<1>4. members = {<<p[1], Getters[p[1]][p[2]]>> : p \in form.has}
  BY DEF Member
<1> HIDE DEF members
<1> QED BY <1>2, <1>3, <1>4 DEF Tell

(* What a step leaves of an object that has a script's properties.             *)
LEMMA KeepersKeep ==
  ASSUME KeepsTold, told' = told,
         \A n \in DOMAIN told.values :
           n \in DOMAIN form'.values /\ form'.values[n] = form.values[n],
         DOMAIN form'.values \subseteq DOMAIN form.values \cup {"remindType", "sourceType"},
         \A p \in form.has : \/ p \in form'.has
                             \/ p = Distributed
                             \/ p[1] = "date" /\ told.values.doNotDisturbType = "NONE",
         NEW root, ToldOK(root, told.values, told.has)
  PROVE  KeepsTold'
<1>1. ASSUME NEW p \in told.has, p # Distributed
      PROVE  \/ Member(p) \in form'.has
             \/ p[1] = "date" /\ told.values.doNotDisturbType = "NONE"
  <2>1. Member(p) # Distributed /\ Member(p)[1] = p[1]
    BY <1>1, ToldHas DEF Member
  <2> QED BY <1>1, <2>1 DEF KeepsTold
<1>2. ASSUME NEW p \in told.has, p[1] = "button"
      PROVE  <<"button", "wantAgent">> \in form'.has
  BY <1>2 DEF KeepsTold, Distributed
<1>4. \A p \in told.has : Member(p)' = Member(p)
  BY DEF Member
<1> QED BY <1>1, <1>2, <1>4 DEF KeepsTold, Distributed

(* It comes to the service but for the wish to be distributed.                 *)
LEMMA SentStaysTold ==
  ASSUME WayInv, ToldInv, Send
  PROVE  ToldInv'
<1> SUFFICES ASSUME told # NoScript PROVE ToldInv'
  BY DEF ToldInv, Send
<1> DEFINE has == SetDistributed(form.has)
<1>1. /\ stage = "client" /\ stage' = "service" /\ told' = told
      /\ form' = [form EXCEPT !.has = Reshaped(Parcelled(has))]
      /\ IsForm(form) /\ Proper(form.root, Type) /\ Whole(form.root, Type, form.has)
      /\ ~ form.away /\ KeepsTold /\ ToldOK(form.root, told.values, told.has)
      /\ <<"message", "sender">> \in form.has => <<"message", "uri">> \in form.has
  BY DEF Send, WayInv, FormOK, ToldInv
<1>2. Whole(form.root, Type, has) /\ has \in {form.has, form.has \ {Distributed}}
  BY <1>1, SendersAreWhole
<1> HIDE DEF has
<1>3. /\ form'.root = form.root /\ form'.away = form.away
      /\ form'.values = form.values /\ form'.has = has
  BY <1>1, <1>2, WholeCrosses, MembersChange
<1>4. KeepsTold'
  BY <1>1, <1>2, <1>3, KeepersKeep DEF KeepsTold
<1>5. <<"message", "sender">> \in form'.has => <<"message", "uri">> \in form'.has
  BY <1>1, <1>2, <1>3 DEF Distributed
<1> QED BY <1>1, <1>3, <1>4, <1>5 DEF ToldInv, HeardAsTold

(* The service takes nothing but the times of a date.                          *)
LEMMA ServedStaysTold ==
  ASSUME WayInv, ToldInv, Serve
  PROVE  ToldInv'
<1> SUFFICES ASSUME told # NoScript PROVE ToldInv'
  BY DEF ToldInv, Serve
<1> DEFINE has == CASE form.root = "request" -> PrepareNotificationRequest(form.has)
                    [] form.root = "date" -> SetDoNotDisturbDate(form.has)
                    [] OTHER -> form.has
<1>1. /\ stage = "service" /\ stage' = "held" /\ told' = told
      /\ form' = [form EXCEPT !.has = has]
      /\ IsForm(form) /\ Proper(form.root, Type) /\ Whole(form.root, Type, form.has)
      /\ ~ form.away /\ KeepsTold /\ ToldOK(form.root, told.values, told.has)
      /\ <<"message", "sender">> \in form.has => <<"message", "uri">> \in form.has
  BY DEF Serve, WayInv, FormOK, ToldInv
<1>2. /\ \A p \in form.has : \/ p \in has
                             \/ p[1] = "date" /\ told.values.doNotDisturbType = "NONE"
      /\ \A p \in has : p \in form.has \/ p[1] = "request"
  <2>1. CASE form.root = "request"
    BY <1>1, <2>1, ServedIsWhole DEF PrepareNotificationRequest
  <2>2. CASE form.root = "date"
    <3>1. has = SetDoNotDisturbDate(form.has)
      BY <2>2
    <3>2. "doNotDisturbType" \in DOMAIN told.values
          /\ told.values["doNotDisturbType"] \in DOMAIN JSToC["doNotDisturbType"]
      BY <1>1, <2>2 DEF ToldOK
    <3>3. form.values["doNotDisturbType"] = told.values["doNotDisturbType"]
      BY <1>1, <3>2, NamesOfValues DEF KeepsTold
    <3> HIDE DEF has
    <3> QED BY <1>1, <3>1, <3>3, DatesAreWhole
  <2>3. CASE form.root \notin {"request", "date"}
    BY <1>1, <2>3
  <2> QED BY <2>1, <2>2, <2>3
<1> HIDE DEF has
<1>3. /\ form'.root = form.root /\ form'.away = form.away
      /\ form'.values = form.values /\ form'.has = has
  BY <1>1, MembersChange
<1>4. KeepsTold'
  BY <1>1, <1>2, <1>3, KeepersKeep DEF KeepsTold
<1>5. <<"message", "sender">> \in form'.has => <<"message", "uri">> \in form'.has
  BY <1>1, <1>2, <1>3
<1> QED BY <1>1, <1>3, <1>4, <1>5 DEF ToldInv, HeardAsTold

(* Posting takes nothing.                                                      *)
LEMMA PostedStaysTold ==
  ASSUME WayInv, ToldInv, NEW remind \in RemindTypes, Post(remind)
  PROVE  ToldInv'
<1> SUFFICES ASSUME told # NoScript PROVE ToldInv'
  BY DEF ToldInv, Post
<1> DEFINE around == {<<"notification", m>> : m \in {"key", "remindType", "sourceType", "postTime",
                                                     "request", "isRemoveAllowed"}
                                                    \cup (IF form.away THEN {"deviceId"} ELSE {})}
           has == Reshaped(form.has \cup around)
           more == [remindType |-> remind, sourceType |-> "NORMAL"]
           values == form.values ++ more
<1>1. /\ stage = "held" /\ stage' = "subscriber" /\ told' = told /\ form.root = "request"
      /\ form' = [form EXCEPT !.has = Reshaped(Parcelled(has)), !.values = values]
      /\ IsForm(form) /\ Proper(form.root, Type) /\ Whole(form.root, Type, form.has)
      /\ ~ form.away => KeepsTold
      /\ ToldOK(form.root, told.values, told.has)
      /\ <<"message", "sender">> \in form.has => <<"message", "uri">> \in form.has
  BY DEF Post, WayInv, FormOK, ToldInv
<1>2. /\ Whole(form.root, Type, has) /\ has = form.has \cup around
      /\ \A p \in around : p[1] = "notification"
  <2>1. around \subseteq {<<"notification", m>> : m \in
          {"key", "remindType", "sourceType", "postTime", "request", "isRemoveAllowed", "deviceId"}}
    OBVIOUS
  <2>2. \A p \in around : p[1] = "notification"
    OBVIOUS
  <2> HIDE DEF around
  <2> QED BY <1>1, <2>1, <2>2, PostedIsWhole
<1>3. /\ DOMAIN values = DOMAIN form.values \cup {"remindType", "sourceType"}
      /\ \A n \in DOMAIN form.values : values[n] = form.values[n]
  BY DEF ++
<1> HIDE DEF has, values, around
<1>4. Reshaped(Parcelled(has)) = has
  BY <1>2, WholeCrosses
<1>5. form'.root = form.root /\ form'.away = form.away /\ form'.values = values /\ form'.has = has
  BY <1>1, <1>4 DEF IsForm
<1>6. ASSUME ~ form.away PROVE KeepsTold'
  <2>1. \A n \in DOMAIN told.values : n \in DOMAIN form'.values /\ form'.values[n] = form.values[n]
    BY <1>1, <1>3, <1>5, <1>6 DEF KeepsTold
  <2>2. \A p \in form.has : p \in form'.has
    BY <1>2, <1>5
  <2> QED BY <1>1, <1>3, <1>5, <1>6, <2>1, <2>2, KeepersKeep
<1>7. <<"message", "sender">> \in form'.has => <<"message", "uri">> \in form'.has
  BY <1>1, <1>2, <1>5
<1> QED BY <1>1, <1>5, <1>6, <1>7 DEF ToldInv, HeardAsTold

(* Reading back takes nothing.                                                 *)
LEMMA ReadStaysTold ==
  ASSUME WayInv, ToldInv, Read
  PROVE  ToldInv'
<1> SUFFICES ASSUME told # NoScript PROVE ToldInv'
  BY DEF ToldInv, Read
<1>1. /\ stage = "held" /\ stage' = "subscriber" /\ told' = told
      /\ form' = [form EXCEPT !.has = Reshaped(Parcelled(form.has))]
      /\ IsForm(form) /\ Whole(form.root, Type, form.has)
      /\ ~ form.away => KeepsTold
      /\ ToldOK(form.root, told.values, told.has)
      /\ <<"message", "sender">> \in form.has => <<"message", "uri">> \in form.has
  BY DEF Read, WayInv, FormOK, ToldInv
<1>2. /\ form'.root = form.root /\ form'.away = form.away
      /\ form'.values = form.values /\ form'.has = form.has
  BY <1>1, WholeCrosses, MembersChange
<1>3. ~ form.away => KeepsTold'
  BY <1>1, <1>2 , KeepersKeep DEF KeepsTold
<1> QED BY <1>1, <1>2, <1>3 DEF ToldInv, HeardAsTold

(* Nothing is said of what goes to another device but of its messages.         *)
LEMMA StoredStaysTold ==
  ASSUME WayInv, ToldInv, Store
  PROVE  ToldInv'
<1>1. /\ stage = "held" /\ stage' = "stored" /\ told' = told
      /\ IsForm(form) /\ form' = [form EXCEPT !.has = JsonOf(form.has)]
  BY DEF Store, WayInv, FormOK, JsonOf
<1>2. form'.root = form.root
  BY <1>1, MembersChange
<1> QED BY <1>1, <1>2 DEF ToldInv, HeardAsTold

(* A conversation does not come to another device.                             *)
LEMMA FetchedStaysTold ==
  ASSUME WayInv, ToldInv, Fetch
  PROVE  ToldInv'
<1>1. /\ stage = "stored" /\ IsForm(form) /\ form.root = "request" /\ ~ StaysHome
      /\ Proper(form.root, Type) /\ told' = told
  BY DEF Fetch, WayInv, FormOK
<1>2. CASE stage' = "lost" /\ form' = form
  BY <1>1, <1>2 DEF ToldInv, HeardAsTold
<1>3. ASSUME NEW all, form' = [form EXCEPT !.away = TRUE, !.has = Reshaped(all)], stage' = "held"
      PROVE  ToldInv'
  <2>1. /\ form'.root = form.root /\ form'.away = TRUE /\ form'.has = Reshaped(all)
    BY <1>1, <1>3 DEF IsForm
  <2>2. "message" \notin RolesIn(form.root, Type)
    BY <1>1, BodiesThere DEF StaysHome, NonDistributed, RolesIn, RolesOf, Proper, Bodies
  <2>3. <<"message", "sender">> \notin Reshaped(all)
    BY <2>2, ShapeOf DEF Reshaped, Type
  <2> QED BY <1>1, <1>3, <2>1, <2>3 DEF ToldInv, HeardAsTold
<1> QED BY <1>2, <1>3 DEF Fetch

(* What is set is heard.                                                       *)
LEMMA HeardIs ==
  ASSUME NEW role \in DOMAIN Setters, NEW k \in DOMAIN Sets(role),
         <<role, Sets(role)[k]>> \in form.has, Shown(<<role, Sets(role)[k]>>)
  PROVE  <<role, k>> \in Heard
<1> DEFINE Of(r) == {<<r, key>> : key \in {j \in DOMAIN Sets(r) :
                                             LET p == <<r, Sets(r)[j]>>
                                             IN p \in form.has /\ Shown(p)}}
<1>1. Heard = UNION {Of(r) : r \in DOMAIN Setters}
  BY DEF Heard
<1>2. <<role, k>> \in Of(role)
  OBVIOUS
<1> HIDE DEF Of
<1> QED BY <1>1, <1>2

(* What a script tells of is set again under the same key.                     *)
LEMMA ToldIsSet ==
  ASSUME NEW role \in DOMAIN Getters, role # "bundle", NEW k \in DOMAIN Getters[role]
  PROVE  role \in DOMAIN Setters /\ k \in DOMAIN Sets(role) /\ Sets(role)[k] = Getters[role][k]
<1>1. /\ role \in DOMAIN Setters /\ k \in DOMAIN Setters[role]
      /\ Setters[role][k] = Getters[role][k]
  BY GettersReturn DEF Returns
<1>2. CASE role = "request"
  <2>1. DOMAIN SetCreator(form.has) = {"creatorBundleName", "creatorUid", "creatorUserId"}
    BY DEF SetCreator, Alike
  <2>2. k \notin DOMAIN SetCreator(form.has)
    BY <1>2, <2>1, GettersOfRequest DEF Getters
  <2>3. \A t, u : k \notin DOMAIN t /\ k \in DOMAIN u =>
                    k \in DOMAIN (t ++ u) /\ (t ++ u)[k] = u[k]
    BY DEF ++
  <2>4. Sets(role) = SetCreator(form.has) ++ Setters[role]
    BY <1>2 DEF Sets
  <2> QED BY <1>1, <2>2, <2>3, <2>4
<1>3. CASE role # "request"
  BY <1>1, <1>3 DEF Sets
<1> QED BY <1>2, <1>3, <1>1

(* A script hears what was told.                                               *)
LEMMA HeardIsTold ==
  ASSUME WayInv, ToldInv, Hear
  PROVE  ToldInv'
<1> SUFFICES ASSUME told # NoScript PROVE ToldInv'
  BY DEF ToldInv, Hear
<1> DEFINE shown == {n \in DOMAIN form.values : form.values[n] \in DOMAIN CToJS[n]}
           values == [n \in shown |-> CToJS[n][form.values[n]]]
<1>1. /\ stage = "subscriber" /\ told' = told /\ form.root \in DOMAIN Setters
      /\ IsForm(form) /\ form.root \in Travelling
      /\ ~ form.away => KeepsTold
      /\ ToldOK(form.root, told.values, told.has)
      /\ <<"message", "sender">> \in form.has => <<"message", "uri">> \in form.has
  BY DEF Hear, WayInv, FormOK, ToldInv
<1>2. stage' = "heard" /\ form' = [form EXCEPT !.values = values, !.has = Heard]
  BY <1>1 DEF Hear
<1>3. form'.root = form.root /\ form'.away = form.away /\ form'.values = values /\ form'.has = Heard
  <2> HIDE DEF values
  <2> QED BY <1>1, <1>2 DEF IsForm
<1>4. ASSUME ~ form.away, NEW n \in DOMAIN told.values
      PROVE  told.values[n] \in {values[n], "UNKNOWN_TYPE"}
  <2>1. n \in DOMAIN JSToC /\ told.values[n] \in DOMAIN JSToC[n]
    BY <1>1 DEF ToldOK
  <2>2. n \in DOMAIN form.values /\ form.values[n] = JSToC[n][told.values[n]]
    BY <1>1, <1>4 DEF KeepsTold
  <2>3. values[n] = CToJS[n][JSToC[n][told.values[n]]]
    BY <2>1, <2>2, ValuesReturn
  <2> QED BY <2>1, <2>3, ValuesReturn
<1>5. ASSUME ~ form.away, NEW p \in told.has \ {Distributed}
      PROVE  p \in Heard \/ (p[1] = "date" /\ told.values.doNotDisturbType = "NONE")
  <2>1. /\ IsProperty(form.root, TypeOf(told.values), p)
        /\ Member(p)[2] \notin {"remindType", "sourceType"}
        /\ Member(p) # Distributed
    BY <1>1, <1>5, ToldHas
  <2>2. p[1] # "bundle"
    <3>1. form.root # "bundle"
      BY <1>1 DEF Setters
    <3> QED BY <1>1, <2>1, <3>1, BodiesThere
            DEF IsProperty, RolesOf, Travelling, Reminders, ToldOK, Proper, Bodies
  <2>3. /\ p = <<p[1], p[2]>> /\ p[1] \in DOMAIN Setters /\ p[2] \in DOMAIN Sets(p[1])
        /\ Member(p) = <<p[1], Sets(p[1])[p[2]]>>
    BY <2>1, <2>2, ToldIsSet DEF IsProperty, Member
  <2>4. SUFFICES ASSUME Member(p) \in form.has
                 PROVE  p \in Heard
    BY <1>1, <1>5 DEF KeepsTold
  <2>5. Shown(Member(p))
    <3>1. Member(p)[1] = p[1]
      BY DEF Member
    <3>2. p[1] = "button" => <<"button", "wantAgent">> \in form.has
      BY <1>1, <1>5 DEF KeepsTold
    <3>3. ASSUME Member(p)[2] \in DOMAIN form.values
          PROVE  form.values[Member(p)[2]] \in DOMAIN CToJS[Member(p)[2]]
      <4> DEFINE n == Member(p)[2]
      <4>1. n \in DOMAIN told.values
        BY <1>1, <1>5, <2>1, <3>3 DEF KeepsTold
      <4>2. n \in DOMAIN JSToC /\ told.values[n] \in DOMAIN JSToC[n]
        BY <1>1, <4>1 DEF ToldOK
      <4>3. form.values[n] = JSToC[n][told.values[n]]
        BY <1>1, <1>5, <4>1 DEF KeepsTold
      <4> QED BY <4>2, <4>3, ValuesReturn
    <3> QED BY <2>1, <3>1, <3>2, <3>3 DEF Shown, Distributed
  <2> QED BY <2>3, <2>4, <2>5, HeardIs
<1> HIDE DEF values
<1>6. HeardAsTold'
  BY <1>1, <1>3, <1>4, <1>5 DEF HeardAsTold, Distributed
<1> QED BY <1>1, <1>2, <1>3, <1>6 DEF ToldInv

(* The invariant holds of what a script makes,                                 *)
LEMMA ToldBegins ==
  ASSUME JourneyAssumption, JourneyInit
  PROVE  ToldInv
<1> SUFFICES ASSUME told # NoScript PROVE ToldInv
  BY DEF ToldInv
<1>1. /\ stage = "script"
      /\ \E root, values, has : /\ form = Form(root, values, has)
                                /\ told = [values |-> values, has |-> has]
  BY DEF JourneyInit
<1>2. form.values = told.values /\ form.has = told.has
  BY <1>1 DEF Form
<1>3. ToldOK(form.root, form.values, form.has)
  BY <1>1, WayBegins DEF WayInv, FormOK
<1> QED BY <1>1, <1>2, <1>3 DEF ToldInv, HeardAsTold

(* and of what every step makes of it.                                         *)
LEMMA ToldIsKept ==
  ASSUME WayInv, ToldInv, [JourneyNext]_journeyVars
  PROVE  ToldInv'
<1>1. CASE UNCHANGED journeyVars
  BY <1>1 DEF journeyVars, ToldInv, KeepsTold, HeardAsTold, Member
<1> QED BY <1>1, ToldStaysTold, SentStaysTold, ServedStaysTold, PostedStaysTold, ReadStaysTold,
           StoredStaysTold, FetchedStaysTold, HeardIsTold DEF JourneyNext

(* HeardAsTold for every script object: the object carries the members the     *)
(* script's properties stand for through every step, each with what holds it,  *)
(* and every property a binding reads is one a binding sets again under the    *)
(* same key and with the same value (Common::GetNotificationRequest and        *)
(* Common::SetNotificationRequest).                                            *)
THEOREM JourneyHeardAsTold == JourneySpec => []HeardAsTold
<1>1. ToldInv => HeardAsTold
  BY DEF ToldInv, HeardAsTold
<1> QED BY <1>1, WayBegins, WayIsKept, ToldBegins, ToldIsKept, JourneyAssumption, PTL
        DEF JourneySpec

(* ScriptsSurviveScripts for every script object: the message another script   *)
(* told has a Uri when Common::SetMessage follows it, since                    *)
(* Common::GetConversationalMessage makes one of any text and conversations    *)
(* do not cross to another device.                                             *)
THEOREM JourneyScriptsSurviveScripts == JourneySpec => []ScriptsSurviveScripts
<1>1. ToldInv => ScriptsSurviveScripts
  BY DEF ToldInv, ScriptsSurviveScripts
<1> QED BY <1>1, WayBegins, WayIsKept, ToldBegins, ToldIsKept, JourneyAssumption, PTL
        DEF JourneySpec
=============================================================================
