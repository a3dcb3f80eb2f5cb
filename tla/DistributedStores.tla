--------------------------- MODULE DistributedStores ---------------------------
(* The holders of a handle on the distributed key-value service, each with its *)
(* data manager, its store and its flow control: the database of               *)
(* notifications (distributed_database.cpp), the status of screens             *)
(* (distributed_screen_status_manager.cpp) and the switches                    *)
(* (distributed_preferences_database.cpp). A behaviour follows one of them.    *)
(* The service itself is external: what it may refuse is one of Faults.        *)
EXTENDS DistributedFlowControl, FiniteSets

CONSTANTS
  Holders,  \* a subset of {"notifications", "screen", "preferences"}
  Faults,   \* a subset of {"watch", "open", "subscribe", "status", "devices"}
  MaxCalls  \* bound on the calls of a manager in a minute

ASSUME HoldersAssumption == Holders \subseteq {"notifications", "screen", "preferences"}

VARIABLES
  holder,
  handle,     \* kvDataManager_, kvStore_, whether databaseCb_ hears of changes
              \* to the latter, and the two lists of calls
  status,     \* the entry of this device in the store of screens
  localScreenOn,
  refused,    \* history: the last status was not written, or there was none
  alive       \* no null handle was used

vars == <<holder, handle, status, localScreenOn, refused, alive>>

Outcomes(fault) == IF fault \in Faults THEN BOOLEAN ELSE {TRUE}

(* Only watching devices may fail, and the preferences do not watch.           *)
GetKvDataManager(h) ==
  {[h EXCEPT !.manager = watched, !.managerCalls = <<>>] :
     watched \in IF holder = "preferences" THEN {TRUE} ELSE Outcomes("watch")}

CheckKvDataManager(h) == IF h.manager THEN {h} ELSE GetKvDataManager(h)

Dropped(h) == [h EXCEPT !.store = FALSE, !.heard = FALSE]

(* A store that cannot be opened takes the manager with it.                    *)
Unopened(m) ==
  IF "open" \in Faults THEN {[Dropped(m) EXCEPT !.manager = FALSE]} ELSE {}

(* Mutant: a store that cannot be subscribed to is kept. *)
OpenNotificationsUnheard(m) ==
  {[m EXCEPT !.store = TRUE, !.heard = heard, !.storeCalls = <<>>] :
     heard \in Outcomes("subscribe")} \cup Unopened(m)

(* A store that cannot be subscribed to is dropped.                            *)
OpenNotifications(m) ==
  {[m EXCEPT !.store = heard, !.heard = heard, !.storeCalls = <<>>] :
     heard \in Outcomes("subscribe")} \cup Unopened(m)

OpenScreens(m) == {[m EXCEPT !.store = TRUE, !.storeCalls = <<>>]} \cup Unopened(m)

(* The calls are forgotten, opened or not.                                     *)
OpenPreferences(m) ==
  LET cleared == [m EXCEPT !.storeCalls = <<>>]
  IN  {[cleared EXCEPT !.store = TRUE]} \cup Unopened(cleared)

Open(m) ==
  CASE holder = "notifications" -> OpenNotifications(m)
    [] holder = "screen" -> OpenScreens(m)
    [] holder = "preferences" -> OpenPreferences(m)

GetKvStore(h) == UNION {IF m.manager THEN Open(m) ELSE {m} : m \in CheckKvDataManager(h)}

CheckKvStore(h) == IF h.store THEN {h} ELSE GetKvStore(h)

PassManager(h) == KvManagerFlowControl(h.managerCalls, h.storeCalls)
PassStore(h) == KvStoreFlowControl(h.storeCalls)
CountManager(h) == [h EXCEPT !.managerCalls = Counted(@, PassManager(h))]
CountStore(h) == [h EXCEPT !.storeCalls = Counted(@, PassStore(h))]

Hold(h) == handle' = h

----------------------------------------------------------------------------
(* The constructors.                                                           *)
Init ==
  /\ holder \in Holders
  /\ handle \in GetKvStore([manager |-> FALSE, store |-> FALSE, heard |-> FALSE,
                            managerCalls |-> <<>>, storeCalls |-> <<>>])
  /\ status = "none" /\ localScreenOn = FALSE /\ refused = TRUE
  /\ alive = TRUE

(* Put, get, get all, delete and clear, which differ in the call they make     *)
(* and in nothing else that is modelled.                                       *)
UseStore ==
  /\ holder = "notifications"
  /\ \E h \in CheckKvStore(handle) : Hold(IF h.store THEN CountStore(h) ELSE h)
  /\ UNCHANGED <<holder, status, localScreenOn, refused, alive>>

(* GetLocalDeviceId, GetLocalDeviceInfo, GetDeviceInfoList.                    *)
UseManager ==
  /\ holder = "notifications"
  /\ \E h \in CheckKvDataManager(handle) : Hold(IF h.manager THEN CountManager(h) ELSE h)
  /\ UNCHANGED <<holder, status, localScreenOn, refused, alive>>

(* The same of the preferences, which can also drop the whole store, and then  *)
(* keep the handle on it.                                                      *)
UsePreferences ==
  /\ holder = "preferences"
  /\ \/ \E h \in CheckKvStore(handle) : Hold(IF h.store THEN CountStore(h) ELSE h)
     \/ \E h \in CheckKvDataManager(handle) : Hold(IF h.manager THEN CountManager(h) ELSE h)
  /\ UNCHANGED <<holder, status, localScreenOn, refused, alive>>

(* The store that is held is dropped before it is known whether it can be      *)
(* deleted.                                                                    *)
RecreateDistributedDB ==
  /\ holder = "notifications"
  /\ \E h \in CheckKvDataManager(handle) :
       IF ~h.manager THEN Hold(h)
       ELSE IF ~PassManager(h) THEN Hold(CountManager(h))
       ELSE LET dropped == Dropped(CountManager(h))
            IN  \E deleted \in Outcomes("status") :
                  IF deleted THEN \E again \in GetKvStore(dropped) : Hold(again)
                  ELSE Hold(dropped)
  /\ UNCHANGED <<holder, status, localScreenOn, refused, alive>>

----------------------------------------------------------------------------
(* The screens.                                                                *)

(* SetLocalScreenStatus with handle h0 and the entry as it was: the store is   *)
(* asked for, and the manager is used.                                         *)
SetLocalScreenStatus(h0, was, on) ==
  /\ localScreenOn' = on
  /\ \E h \in CheckKvStore(h0) :
       LET counted == IF PassManager(h) THEN CountStore(CountManager(h)) ELSE CountManager(h)
       IN  \/ /\ ~h.store
              /\ Hold(h) /\ refused' = TRUE /\ status' = was /\ UNCHANGED alive
           \/ /\ h.store /\ ~(PassManager(h) /\ PassStore(h))
              /\ Hold(counted) /\ refused' = TRUE /\ status' = was /\ UNCHANGED alive
           \/ /\ h.store /\ PassManager(h) /\ PassStore(h) /\ ~h.manager
              /\ alive' = FALSE
              /\ Hold(counted) /\ status' = was /\ UNCHANGED refused
           \/ /\ h.store /\ PassManager(h) /\ PassStore(h) /\ h.manager
              /\ Hold(counted)
              /\ \E put \in Outcomes("status") :
                   /\ refused' = ~put
                   /\ status' = IF ~put THEN was ELSE IF on THEN "on" ELSE "off"
              /\ UNCHANGED alive

OnScreen(on) ==
  /\ holder = "screen"
  /\ SetLocalScreenStatus(handle, status, on)
  /\ UNCHANGED holder

(* CheckRemoteDevicesIsUsing: a call that fails drops the handle it went       *)
(* through, and only that.                                                     *)
CheckRemoteDevicesIsUsing ==
  /\ holder = "screen"
  /\ \E m \in CheckKvDataManager(handle) :
     \E h \in IF m.manager THEN CheckKvStore(m) ELSE {m} :
       LET counted == IF PassManager(h) THEN CountStore(CountManager(h)) ELSE CountManager(h)
       IN  IF ~h.manager \/ ~h.store THEN Hold(h)
           ELSE IF ~(PassManager(h) /\ PassStore(h)) THEN Hold(counted)
           ELSE \/ Hold(counted)
                \/ FALSE \in Outcomes("devices") /\ Hold([counted EXCEPT !.manager = FALSE])
                \/ FALSE \in Outcomes("status") /\ Hold(Dropped(counted))
  /\ UNCHANGED <<holder, status, localScreenOn, refused, alive>>

(* Mutant: the own status is not written again. *)
OnDeviceDisconnectedForgets(alone) ==
  /\ holder = "screen"
  /\ \E h \in CheckKvDataManager(handle), deleted \in Outcomes("status") :
       IF ~h.manager \/ ~alone THEN Hold(h) /\ UNCHANGED status
       ELSE /\ \E again \in GetKvStore(Dropped(h)) : Hold(again)
            /\ status' = IF deleted THEN "none" ELSE status
  /\ UNCHANGED <<holder, localScreenOn, refused, alive>>

(* OnDeviceDisconnected of the screens: with nobody left the store is made     *)
(* anew, and the own status written into it.                                   *)
OnDeviceDisconnected(alone) ==
  /\ holder = "screen"
  /\ \E h \in CheckKvDataManager(handle) :
       \/ /\ ~h.manager \/ ~alone
          /\ Hold(h)
          /\ UNCHANGED <<status, localScreenOn, refused, alive>>
       \/ /\ h.manager /\ FALSE \in Outcomes("devices")
          /\ Hold([h EXCEPT !.manager = FALSE])
          /\ UNCHANGED <<status, localScreenOn, refused, alive>>
       \/ /\ h.manager /\ alone
          /\ \E deleted \in Outcomes("status"), again \in GetKvStore(Dropped(h)) :
               LET was == IF deleted THEN "none" ELSE status
               IN  \/ again.store /\ SetLocalScreenStatus(again, was, localScreenOn)
                  \/ /\ ~again.store
                     /\ Hold(again) /\ status' = was /\ refused' = TRUE
                     /\ UNCHANGED <<localScreenOn, alive>>
  /\ UNCHANGED holder

Tick ==
  /\ handle' = [handle EXCEPT !.managerCalls = Older(@), !.storeCalls = Older(@)]
  /\ handle' # handle
  /\ UNCHANGED <<holder, status, localScreenOn, refused, alive>>

Call ==
  \/ UseStore \/ UseManager \/ RecreateDistributedDB \/ UsePreferences
  \/ \E on \in BOOLEAN : OnScreen(on)
  \/ CheckRemoteDevicesIsUsing
  \/ \E alone \in BOOLEAN : OnDeviceDisconnected(alone)

Next ==
  /\ alive
  /\ \/ Len(RemoveOld(handle.managerCalls)) < MaxCalls /\ Call
     \/ Tick

Spec == Init /\ [][Next]_vars

----------------------------------------------------------------------------
(* Properties                                                              *)

(* The database of notifications hears of the changes other devices make to    *)
(* the store it holds, and has the manager of it, as the preferences have of   *)
(* theirs, whatever was refused on the way (GetKvStore, RecreateDistributedDB).*)
HeldIsHeard ==
  holder # "screen" /\ handle.store =>
    /\ handle.manager
    /\ holder = "notifications" => handle.heard

(* What other devices read of this screen is how it is, unless the last write  *)
(* was refused: a store that is made anew is given the status again. A write   *)
(* that goes through a manager that was dropped ends the service (line 217).   *)
StatusIsTold ==
  alive /\ holder = "screen" /\ ~refused =>
    status = IF localScreenOn THEN "on" ELSE "off"

(* Between two openings of a store no minute has more calls of it than         *)
(* allowed.                                                                    *)
StoreMinuteHolds == Len(RemoveOld(handle.storeCalls)) <= KVSTORE_MAXINUM_PER_MINUTE

----------------------------------------------------------------------------
(* What the documentation says and the code does not do                        *)

(* "The maximum number of calls to DistributedKvDataManager interface per      *)
(* second" and "per minute", and the same of a store                           *)
(* (distributed_flow_control.h:28): the limit of a second is looked at only    *)
(* when some call is older than a second, and that of the manager's minute     *)
(* looks at the store's calls.                                                 *)
CallsWithinMaxima ==
  /\ Len(SelectSeq(handle.managerCalls, LAMBDA age : age <= Second))
       <= KVMANAGER_MAXINUM_PER_SECOND
  /\ Len(RemoveOld(handle.managerCalls)) <= KVMANAGER_MAXINUM_PER_MINUTE
  /\ Len(SelectSeq(handle.storeCalls, LAMBDA age : age <= Second))
       <= KVSTORE_MAXINUM_PER_SECOND
=============================================================================
