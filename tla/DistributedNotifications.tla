----------------------- MODULE DistributedNotifications -----------------------
(* The notifications that devices share through the distributed key-value      *)
(* store: DistributedNotificationManager, and what AdvancedNotificationService *)
(* does on its calls. A change another device makes is posted by the store's   *)
(* thread to the handler of the manager, and by that to the handler of the     *)
(* service, each in its order. The store is external: what it, or a query of   *)
(* devices, may refuse is one of Faults. The limits of the list of active      *)
(* notifications and the handles on the store are modelled elsewhere           *)
(* (ActiveNotifications, DistributedStores).                                   *)
EXTENDS Naturals, Sequences, FiniteSets, SequencesExt

CONSTANTS
  Local, Remotes,  \* this device, and the others
  Notes, BundleOf, \* a note is what bundle, label and id identify on a device
  Displayed,       \* notes whose bundle is installed here, that may be shown on
                   \* a device of this type and that the filters let through
  Distributable,   \* bundles whose application information allows to share
  Options,         \* what requests of applications say: a subset of BOOLEAN
  MaxVersion,      \* bound on the contents of a note
  MaxQueue,        \* bound on the changes a handler has before it
  Faults           \* a subset of {"put", "switch", "delete", "entries",
                   \*              "clear", "devices", "local", "death"}

(* A device has finitely many bundles and ids.                                 *)
ASSUME SharingAssumption ==
  /\ Local \notin Remotes
  /\ IsFiniteSet(Notes)
  /\ Options \subseteq BOOLEAN

Devices == {Local} \cup Remotes
Keys == Devices \X Notes
Versions == 1 .. MaxVersion
Bundles == {BundleOf[n] : n \in Notes}
Switches == Bundles \cup {"device"}

VARIABLES
  store,    \* what this device has of the shared store; 0: no entry
  list,     \* notificationList_
  events,   \* the tasks of the manager's handler
  tasks,    \* the tasks of the service's handler
  online,
  enabled,  \* DistributedPreferencesInfo: the switches that are on
  saved,    \* the switches the store of switches says are off
  told,     \* history: keys the subscribers were told of and not of the end of
  excused   \* history: keys of which a refused call, or a step the code has no
            \* answer to, made list and store differ

vars == <<store, list, events, tasks, online, enabled, saved, told, excused>>

KeyOf(record) == <<record.device, record.note>>
Listed(key) == {i \in DOMAIN list : KeyOf(list[i]) = key}
FirstOf(key) == CHOOSE i \in Listed(key) : \A j \in Listed(key) : i <= j
AnyNote == CHOOSE n \in Notes : TRUE
KeysOf(device) == {device} \X Notes
Outcomes(fault) == IF fault \in Faults THEN BOOLEAN ELSE {TRUE}
Refusals(fault, keys) == IF fault \in Faults THEN SUBSET keys ELSE {{}}
Without(keys) == [key \in Keys |-> IF key \in keys THEN 0 ELSE store[key]]

Init ==
  /\ store = [key \in Keys |-> 0]
  /\ list = <<>> /\ events = <<>> /\ tasks = <<>>
  /\ online = Remotes
  /\ enabled = Switches
  /\ saved = {}
  /\ told = {} /\ excused = {}

----------------------------------------------------------------------------
(* The applications and the user of this device.                              *)

(* UpdateInNotificationList, or the end of FlowControl.                       *)
Assign(record) ==
  LET key == KeyOf(record)
  IN  list' = IF Listed(key) = {} THEN Append(list, record)
              ELSE [list EXCEPT ![FirstOf(key)] = record]

MayShare(note, dist) ==
  BundleOf[note] \in Distributable /\ dist /\ {"device", BundleOf[note]} \subseteq enabled

DoDistributedPublish(note, version, dist) ==
  LET key == <<Local, note>>
  IN  IF MayShare(note, dist)
      THEN \E put \in Outcomes("put") :
             /\ store' = IF put THEN [store EXCEPT ![key] = version] ELSE store
             /\ excused' = IF put THEN excused ELSE excused \cup {key}
      ELSE /\ UNCHANGED store
           /\ excused' = IF store[key] = 0 THEN excused ELSE excused \cup {key}

PublishPreparedNotification(note, version, dist) ==
  /\ Assign([device |-> Local, note |-> note, version |-> version, dist |-> dist])
  /\ told' = told \cup {<<Local, note>>}
  /\ DoDistributedPublish(note, version, dist)
  /\ UNCHANGED <<events, tasks, online, enabled, saved>>

(* A change of another device's note is on its way.                            *)
Awaited(key) ==
  key[1] # Local /\ \E i \in DOMAIN (events \o tasks) : (events \o tasks)[i].key[1] = key[1]

(* The indices K in their order.                                               *)
InOrder(K) ==
  CHOOSE place \in [1 .. Cardinality(K) -> K] :
    \A i, j \in DOMAIN place : i < j => place[i] < place[j]

(* Records with the indices I go, each followed by DoDistributedDelete of the  *)
(* entry of owner[i]. What is waiting may be about another entry than the *)
(* one that goes.                                                              *)
Erase(I, owner) ==
  LET gone == {<<owner[i], list[i].note>> : i \in {j \in I : list[j].dist}}
      stale == {i \in I : owner[i] # list[i].device \/ Awaited(KeyOf(list[i]))}
      kept == InOrder(DOMAIN list \ I)
  IN  /\ list' = [i \in DOMAIN kept |-> list[kept[i]]]
      /\ told' = told \ {KeyOf(list[i]) : i \in I}
      /\ \E refused \in Refusals("delete", gone) :
           /\ store' = Without(gone \ refused)
           /\ excused' = excused \cup refused \cup {KeyOf(list[i]) : i \in stale}

OwnDevice == [i \in DOMAIN list |-> list[i].device]
ThisDevice == [i \in DOMAIN list |-> Local]

(* CancelPreparedNotification, and RemoveNotification of the user.             *)
CancelPreparedNotification(note) ==
  /\ Listed(<<Local, note>>) # {}
  /\ Erase({FirstOf(<<Local, note>>)}, ThisDevice)
  /\ UNCHANGED <<events, tasks, online, enabled, saved>>

Delete(key) ==
  /\ Listed(key) # {}
  /\ Erase({FirstOf(key)}, OwnDevice)
  /\ UNCHANGED <<events, tasks, online, enabled, saved>>

OfBundle(bundle) == {i \in DOMAIN list : BundleOf[list[i].note] = bundle}

DeleteEach(I) ==
  /\ I # {}
  /\ Erase(I, OwnDevice)
  /\ UNCHANGED <<events, tasks, online, enabled, saved>>

DeleteByBundle(bundle) == DeleteEach(OfBundle(bundle))
DeleteAll == DeleteEach(DOMAIN list)

(* GetLocalNotificationKeys skips what is local and of another bundle.         *)
LocalNotificationKeys(bundle) ==
  {i \in DOMAIN list : ~(BundleOf[list[i].note] # bundle /\ list[i].device = Local)}

(* SetDistributedEnable, SetDistributedBundleEnable, and DeleteDistributed-    *)
(* BundleInfo, after which a bundle is enabled for lack of an entry.           *)
Set(switch, on) ==
  \E put \in Outcomes("switch") :
    IF put
    THEN /\ saved' = IF on THEN saved \ {switch} ELSE saved \cup {switch}
         /\ enabled' = IF on THEN enabled \cup {switch} ELSE enabled \ {switch}
    ELSE UNCHANGED <<saved, enabled>>

OnBundleRemoved(bundle) ==
  /\ Erase(LocalNotificationKeys(bundle), ThisDevice)
  /\ Set(bundle, TRUE)
  /\ UNCHANGED <<events, tasks, online>>

(* EnableDistributed, EnableDistributedByBundle, EnableDistributedSelf.        *)
EnableDistributed(switch, on) ==
  /\ switch \in Bundles => switch \in Distributable
  /\ Set(switch, on)
  /\ UNCHANGED <<store, list, events, tasks, online, told, excused>>

----------------------------------------------------------------------------
(* The other devices, and the service of the store.                            *)

Hear(kind, key, version) ==
  events' = Append(events, [kind |-> kind, key |-> key, version |-> version])

RemotePut(key, version) ==
  /\ key[1] \in online
  /\ store' = [store EXCEPT ![key] = version]
  /\ Hear(IF store[key] = 0 THEN "insert" ELSE "update", key, version)
  /\ UNCHANGED <<list, tasks, online, enabled, saved, told, excused>>

(* Of its own, or of this device when the user swipes it away there.           *)
RemoteDelete(key) ==
  /\ store[key] # 0 /\ online # {} /\ key[1] \in online \cup {Local}
  /\ store' = Without({key})
  /\ Hear("delete", key, 0)
  /\ UNCHANGED <<list, tasks, online, enabled, saved, told, excused>>

Leave(device) ==
  /\ device \in online
  /\ online' = online \ {device}
  /\ Hear("offline", <<device, AnyNote>>, 0)
  /\ UNCHANGED <<store, list, tasks, enabled, saved, told, excused>>

(* OnDeviceConnected does nothing. What is waiting of the leave comes after.   *)
Join(device) ==
  /\ device \in Remotes \ online
  /\ online' = online \cup {device}
  /\ excused' =
       IF \E i \in DOMAIN events : events[i].kind = "offline" /\ events[i].key[1] = device
       THEN excused \cup KeysOf(device) ELSE excused
  /\ UNCHANGED <<store, list, events, tasks, enabled, saved, told>>

(* Bounded: once, until the service starts again.                              *)
StoreDies ==
  /\ "death" \in Faults
  /\ excused # Keys /\ \A i \in DOMAIN tasks : tasks[i].kind # "death"
  /\ tasks' = Append(tasks, [kind |-> "death", key |-> <<Local, AnyNote>>,
                             version |-> 0])
  /\ UNCHANGED <<store, list, events, online, enabled, saved, told, excused>>

----------------------------------------------------------------------------
(* The handler of the manager.                                                 *)

Recreated == store' = [key \in Keys |-> 0] /\ excused' = Keys

(* Mutant: what is not a put is left out. *)
OnDatabaseChangePutsOnly ==
  /\ Head(events).kind # "offline"
  /\ tasks' = IF Head(events).kind = "delete" THEN tasks ELSE Append(tasks, Head(events))
  /\ UNCHANGED <<store, excused>>

(* OnDatabaseInsert, OnDatabaseUpdate, OnDatabaseDelete: another device may    *)
(* change what is not its own, and CheckDeviceId only says so.                 *)
OnDatabaseChange ==
  /\ Head(events).kind # "offline"
  /\ tasks' = Append(tasks, Head(events))
  /\ UNCHANGED <<store, excused>>

(* Mutant: the store is cleared before its entries are read. *)
OnDeviceDisconnectedClearsFirst ==
  /\ Head(events).kind = "offline"
  /\ store' = Without(KeysOf(Head(events).key[1]))
  /\ UNCHANGED <<tasks, excused>>

(* OnDeviceDisconnected: the store is made anew when the query of the devices  *)
(* that are left fails, and otherwise not.                                     *)
OnDeviceDisconnected ==
  LET device == Head(events).key[1]
      entries == {key \in KeysOf(device) : store[key] # 0}
  IN  /\ Head(events).kind = "offline"
      /\ \E got \in Outcomes("entries"), cleared \in Outcomes("clear"),
            devices \in Outcomes("devices") :
           IF ~got
           THEN /\ UNCHANGED <<store, tasks>>
                /\ excused' = excused \cup KeysOf(device)
           ELSE /\ tasks' = tasks \o
                     SetToSeq({[kind |-> "delete", key |-> key, version |-> 0] : key \in entries})
                /\ IF ~devices THEN Recreated
                   ELSE IF cleared THEN store' = Without(entries) /\ UNCHANGED excused
                   ELSE UNCHANGED store /\ excused' = excused \cup entries

ManagerHandles ==
  /\ events # <<>>
  /\ OnDatabaseChange \/ OnDeviceDisconnected
  /\ events' = Tail(events)
  /\ UNCHANGED <<list, online, enabled, saved, told>>

----------------------------------------------------------------------------
(* The handler of the service.                                                 *)

Task == Head(tasks)
Incoming == [device |-> Task.key[1], note |-> Task.key[2], version |-> Task.version,
             dist |-> TRUE]

OnDistributedPublish ==
  /\ Task.kind = "insert"
  /\ IF Task.key[2] \in Displayed
     THEN list' = Append(list, Incoming) /\ told' = told \cup {Task.key}
     ELSE UNCHANGED <<list, told>>
  /\ UNCHANGED <<store, excused>>

(* The subscribers are told, listed or not.                                    *)
OnDistributedUpdate ==
  /\ Task.kind = "update"
  /\ IF Task.key[2] \in Displayed
     THEN /\ list' = IF Listed(Task.key) = {} THEN list
                     ELSE [list EXCEPT ![FirstOf(Task.key)] = Incoming]
          /\ told' = told \cup {Task.key}
          /\ excused' = IF Listed(Task.key) = {} THEN excused \cup {Task.key} ELSE excused
     ELSE UNCHANGED <<list, told, excused>>
  /\ UNCHANGED store

(* Mutant: the subscribers are not told. *)
OnDistributedDeleteSilently ==
  /\ Task.kind = "delete"
  /\ list' = IF Listed(Task.key) = {} THEN list ELSE RemoveAt(list, FirstOf(Task.key))
  /\ UNCHANGED <<store, told, excused>>

(* An own notification is found when this device can tell its own identifier.  *)
OnDistributedDelete ==
  /\ Task.kind = "delete"
  /\ \E known \in Outcomes("local") :
       IF Listed(Task.key) # {} /\ (Task.key[1] = Local => known)
       THEN /\ list' = RemoveAt(list, FirstOf(Task.key))
            /\ told' = told \ {Task.key}
            /\ excused' = IF Task.key[1] = Local /\ store[Task.key] # 0
                          THEN excused \cup {Task.key} ELSE excused
       ELSE /\ UNCHANGED <<list, told>>
            /\ excused' = IF Listed(Task.key) = {} THEN excused ELSE excused \cup {Task.key}
  /\ UNCHANGED store

OnDistributedKvStoreDeathRecipient ==
  /\ Task.kind = "death"
  /\ Recreated
  /\ UNCHANGED <<list, told>>

ServiceHandles ==
  /\ tasks # <<>>
  /\ OnDistributedPublish \/ OnDistributedUpdate \/ OnDistributedDelete
       \/ OnDistributedKvStoreDeathRecipient
  /\ tasks' = Tail(tasks)
  /\ UNCHANGED <<events, online, enabled, saved>>

(* The service starts again: the manager makes the store anew, and the         *)
(* switches are read (InitDistributedAllInfo).                                 *)
Restart ==
  /\ store' = [key \in Keys |-> 0]
  /\ list' = <<>> /\ events' = <<>> /\ tasks' = <<>>
  /\ enabled' = Switches \ saved
  /\ told' = {} /\ excused' = {}
  /\ UNCHANGED <<online, saved>>

----------------------------------------------------------------------------
Ask ==
  \/ \E n \in Notes, v \in Versions, dist \in Options : PublishPreparedNotification(n, v, dist)
  \/ \E n \in Notes : CancelPreparedNotification(n)
  \/ \E key \in Keys : Delete(key)
  \/ \E b \in Bundles : DeleteByBundle(b) \/ OnBundleRemoved(b)
  \/ DeleteAll
  \/ \E switch \in Switches, on \in BOOLEAN : EnableDistributed(switch, on)

Change ==
  /\ Len(events) + Len(tasks) < MaxQueue
  /\ \/ \E key \in Keys : (\E v \in Versions : RemotePut(key, v)) \/ RemoteDelete(key)
     \/ \E d \in Remotes : Leave(d) \/ Join(d)
     \/ StoreDies

Next == Ask \/ Change \/ ManagerHandles \/ ServiceHandles \/ Restart

Spec == Init /\ [][Next]_vars

(* An event runner takes a task as long as there is one.                       *)
FairSpec == Spec /\ WF_vars(ManagerHandles) /\ WF_vars(ServiceHandles)

----------------------------------------------------------------------------
(* Properties                                                                  *)

Quiet == events = <<>> /\ tasks = <<>>
Shown(key) == key[2] \in Displayed

(* When both handlers are idle, this device lists what the store has of other  *)
(* devices, once and as it was last put, and nothing of a device that is gone: *)
(* no order of changes, deletions by the user and leaves makes them differ     *)
(* (OnDatabaseInsert to OnDistributedDelete). What this device has put is a    *)
(* notification it lists, as the others read it (DoDistributedPublish).        *)
StoreIsListed ==
  Quiet =>
    /\ \A key \in {k \in Keys \ excused : k[1] # Local /\ Shown(k)} :
         /\ key[1] \notin online => Listed(key) = {}
         /\ Listed(key) = {} <=> store[key] = 0
         /\ \A i, j \in Listed(key) : i = j /\ list[i].version = store[key]
    /\ \A key \in KeysOf(Local) \ excused :
         store[key] # 0 =>
           \E i \in Listed(key) : list[i].version = store[key] /\ list[i].dist

(* The subscribers know of what is listed, and of nothing else.                *)
ToldIsListed == \A key \in Keys \ excused : key \in told <=> Listed(key) # {}

(* What another device has taken back does not stay on this one.               *)
TakenBackIsRemoved ==
  \A key \in Remotes \X Notes :
    store[key] = 0 ~>
      (store[key] # 0 \/ key \in excused \/ Listed(key) = {})

----------------------------------------------------------------------------
(* What the documentation says and the code does not do                        *)

(* "Obtains all active notifications in the current system."                   *)
(* (notification_helper.h:510): an update from another device is shown even    *)
(* when there is no record to update (OnDistributedUpdate).                    *)
ShownIsActive == \A key \in told : Listed(key) # {}
=============================================================================
