----------------------- MODULE NotificationPreferences -----------------------
(***************************************************************************)
(* NotificationPreferences (services/ans/src/notification_preferences.cpp, *)
(* notification_preferences_database.cpp, notification_preferences_info.   *)
(* cpp): the settings of bundles and of users, in memory for those who ask *)
(* and in a key-value store for the next start.                            *)
(*                                                                         *)
(* A setter runs on the service's handler.  It copies the settings in      *)
(* memory, changes the copy, writes the store, and puts the copy in place  *)
(* of the original when the store has accepted the write: here two steps,  *)
(* the write and Commit.  When the user is switched, the system event      *)
(* observer's own thread reads the store into memory again, entry by       *)
(* entry, with no lock between the two threads.  A start reads the store   *)
(* in the same way before it serves any call, and may follow any state.    *)
(*                                                                         *)
(* A date of do-not-disturb is one value, its type, begin and end being    *)
(* written in one batch.  A slot and a group are one field each: what is   *)
(* parsed of them is what was written.  Groups have names, and no group id *)
(* begins with another one and an underscore, which would make the two     *)
(* share a prefix in the store.                                            *)
(***************************************************************************)
EXTENDS Integers, Sequences, FiniteSets

CONSTANTS
  Bundles,       \* bundle options: name and uid
  Compatible,    \* those for which CheckApiCompatibility answers TRUE
  Users,         \* user ids
  Properties,    \* properties of a bundle, Enabled among them
  SlotTypes,     \* its slots, by type
  Groups,        \* its slot groups, by id
  Values,        \* what a field holds
  On, Off,       \* the values of a switch
  DefaultOf,     \* what a new BundleInfo holds
  MaxGroups,     \* MAX_SLOT_GROUP_NUM
  None,          \* no value, no entry
  Unknown,       \* a bundle that is not in memory
  Failed,        \* a read the store refused
  Faults         \* "write", "read": the store may refuse; "reach": be away

Name == "name"
Enabled == "enabled"
Fields == {Name} \cup Properties \cup SlotTypes \cup Groups

(* Settings of a user in the order ParseFromDisturbeDB reads them. *)
UserSettings == <<"date", "enable">>
DefaultSetting == [date |-> Off, enable |-> On]

ASSUME FieldsAssumption ==
  /\ Enabled \in Properties
  /\ Name \notin Properties \cup SlotTypes \cup Groups
  /\ Properties \cap (SlotTypes \cup Groups) = {}
  /\ SlotTypes \cap Groups = {}
  /\ IsFiniteSet(Groups)

ASSUME ValuesAssumption ==
  /\ {On, Off} \subseteq Values
  /\ On # Off
  /\ {None, Failed} \cap Values = {}
  /\ None # Failed
  /\ DefaultOf \in [{Name} \cup Properties -> Values]
  /\ DefaultOf[Enabled] = On          \* BUNDLE_ENABLE_NOTIFICATION
  /\ Unknown \notin [Fields -> Values \cup {None}]

ASSUME LimitsAssumption ==
  /\ Compatible \subseteq Bundles
  /\ MaxGroups \in Nat \ {0}
  /\ Faults \subseteq {"write", "read", "reach"}

VARIABLES
  preferencesInfo,   \* settings in memory
  store,             \* the connection kvStorePtr_, and what the store keeps
  copy,              \* the changed copy a setter will commit, or None
  reload,            \* how far ParseFromDisturbeDB has got, or None
  torn               \* history: parts a setter and a reload both touched

vars == <<preferencesInfo, store, copy, reload, torn>>

Entries == [Fields -> Values \cup {None}]
BundlePart == "bundles"

(* NotificationPreferencesInfo *)
Info == [bundles : [Bundles -> Entries \cup {Unknown}],
         users : [Users -> [{"date", "enable"} -> Values \cup {None}]]]
Store == [connected : BOOLEAN,
          labels : SUBSET Bundles,
          entries : [Bundles -> Entries],
          users : [Users -> [{"date", "enable"} -> Values \cup {None}]]]
Reload == [user : Users,
           todo : {UserSettings, Tail(UserSettings), <<>>},
           left : (SUBSET Bundles) \cup {None},    \* None: not listed yet
           seen : {None} \cup [value : Values \cup {None, Failed}]
                    \cup [bundle : Bundles, entries : Entries],
           starting : BOOLEAN,
           clean : BOOLEAN]

ASSUME NoneAssumption ==
  /\ None \notin Info
  /\ None \notin Reload
  /\ \A bundles \in SUBSET Bundles : bundles # None
  /\ None \notin [value : Values \cup {None, Failed}]
  /\ None \notin [bundle : Bundles, entries : Entries]
  /\ BundlePart \notin Users

TypeOK ==
  /\ preferencesInfo \in Info
  /\ store \in Store
  /\ copy \in Info \cup {None}
  /\ reload \in Reload \cup {None}
  /\ torn \subseteq Users \cup {BundlePart}

NoSettings == [s \in {"date", "enable"} |-> None]
Nothing == [bundles |-> [b \in Bundles |-> Unknown],
            users |-> [u \in Users |-> NoSettings]]
NoEntries == [f \in Fields |-> None]

(* ParseFromDisturbeDB for the active user u begins. *)
Parsing(u, starting) ==
  [user |-> u, todo |-> UserSettings, left |-> None, seen |-> None,
   starting |-> starting, clean |-> TRUE]

Init ==
  /\ preferencesInfo = Nothing
  /\ store = [connected |-> FALSE, labels |-> {},
              entries |-> [b \in Bundles |-> NoEntries],
              users |-> [u \in Users |-> NoSettings]]
  /\ copy = None
  /\ \E u \in Users : reload = Parsing(u, TRUE)
  /\ torn = {}

-----------------------------------------------------------------------------
(* The store.  An operation on it has a set of outcomes: the store it      *)
(* leaves and whether it reports success.                                  *)

Outcome(db, ok) == [db |-> db, ok |-> ok]

(* CheckKvStore: connect if need be, twice if need be. *)
CheckKvStore(db) ==
  {[db EXCEPT !.connected = c] :
     c \in IF db.connected \/ "reach" \notin Faults THEN {TRUE} ELSE BOOLEAN}

(* Put, PutBatch, Delete and DeleteBatch change all their keys or none. *)
Write(db, new) ==
  {Outcome(new, TRUE)} \cup
  (IF "write" \in Faults THEN {Outcome(db, FALSE)} ELSE {})

Overlay(new, old) ==
  [f \in DOMAIN old |-> IF f \in DOMAIN new THEN new[f] ELSE old[f]]

(* BundleInfo(): what a bundle has that nothing was set for. *)
DefaultInfo ==
  [f \in Fields |-> IF f \in DOMAIN DefaultOf THEN DefaultOf[f] ELSE None]

(* The label and then the properties of a bundle the store did not have. *)
PutBundleToDisturbeDB(db, b) ==
  LET labelled == [db EXCEPT !.labels = @ \cup {b}]
      filled == [labelled EXCEPT !.entries[b] = Overlay(DefaultOf, @)]
  IN  UNION {IF r.ok THEN Write(r.db, filled) ELSE {r} :
               r \in Write(db, labelled)}

(* A store that cannot be reached counts as one that has the bundle. *)
CheckBundle(db, b) ==
  UNION {IF ~c.connected THEN {Outcome(c, TRUE)}
         ELSE (IF b \in c.labels THEN {Outcome(c, TRUE)}
               ELSE PutBundleToDisturbeDB(c, b))
              \cup (IF "read" \in Faults THEN {Outcome(c, FALSE)} ELSE {}) :
           c \in CheckKvStore(db)}

(* A write to the store, if it can be reached. *)
Reached(db, new) ==
  UNION {IF c.connected THEN Write(c, [new EXCEPT !.connected = TRUE])
         ELSE {Outcome(c, FALSE)} : c \in CheckKvStore(db)}

(* PutSlotsToDisturbeDB, PutGroupsToDisturbeDB and the Put of a property. *)
PutFields(db, b, new) ==
  UNION {IF r.ok
         THEN Reached(r.db, [r.db EXCEPT !.entries[b] = Overlay(new, @)])
         ELSE {r} : r \in CheckBundle(db, b)}

(* RemoveSlotFromDisturbeDB and its like; RemoveBundleFromDisturbeDB, too, *)
(* which deletes a label key that no bundle has and leaves the label.      *)
RemoveFields(db, b, removed) ==
  Reached(db, [db EXCEPT !.entries[b] = Overlay([f \in removed |-> None], @)])
  \cup (IF "read" \in Faults THEN {Outcome(c, FALSE) : c \in CheckKvStore(db)}
        ELSE {})

(* PutNotificationsEnabled, PutDoNotDisturbDate and their removal. *)
PutUser(db, u, s, v) == Reached(db, [db EXCEPT !.users[u][s] = v])

-----------------------------------------------------------------------------
(* The handler's calls. *)

Parts == Users \cup {BundlePart}

(* A reload that runs while the handler works is no longer clean. *)
Disturbed == IF reload = None THEN reload ELSE [reload EXCEPT !.clean = FALSE]
Torn == IF reload = None THEN torn ELSE Parts

Idle == copy = None /\ (reload # None => ~reload.starting)

(* Mutant: the copy is committed although the store refused the write. *)
SetterIgnoresResult(info, outcomes) ==
  /\ Idle
  /\ \E r \in outcomes : store' = r.db
  /\ copy' = info
  /\ reload' = Disturbed
  /\ torn' = Torn
  /\ UNCHANGED preferencesInfo

(* A setter changes the copy to info if the store takes the write; it      *)
(* returns an error and forgets the copy if not.                           *)
Setter(info, outcomes) ==
  /\ Idle
  /\ \E r \in outcomes :
       /\ store' = r.db
       /\ copy' = IF r.ok THEN info ELSE None
  /\ reload' = Disturbed
  /\ torn' = Torn
  /\ UNCHANGED preferencesInfo

Commit ==
  /\ copy # None
  /\ preferencesInfo' = copy
  /\ copy' = None
  /\ reload' = Disturbed
  /\ torn' = Torn
  /\ UNCHANGED store

Known(b) == preferencesInfo.bundles[b] # Unknown
Holds(b, f) == Known(b) /\ preferencesInfo.bundles[b][f] # None

(* GetBundleInfo, or a new BundleInfo whose switch CheckApiCompatibility   *)
(* chooses.                                                                *)
BundleInfo(info, b) ==
  IF info.bundles[b] # Unknown THEN info.bundles[b]
  ELSE [DefaultInfo EXCEPT ![Enabled] = IF b \in Compatible THEN On ELSE Off]

With(b, new) ==
  [preferencesInfo EXCEPT
     !.bundles[b] = Overlay(new, BundleInfo(preferencesInfo, b))]

Put(b, new) == Setter(With(b, new), PutFields(store, b, new))
Remove(b, removed) ==
  Setter(With(b, [f \in removed |-> None]), RemoveFields(store, b, removed))

(* SetShowBadge, SetNotificationsEnabledForBundle, SetHasPoppedDialog, ... *)
SetBundleProperty(b, p, v) == Put(b, [f \in {p} |-> v])

AddNotificationSlots(b, types, v) ==
  /\ types # {}
  /\ Put(b, [f \in types |-> v])

(* The limit is looked at before each group is added, also when the group  *)
(* is there already: what counts is the size before the last one.          *)
AddNotificationSlotGroups(b, ids, v) ==
  LET there == {g \in Groups : Holds(b, g)}
  IN  /\ \E last \in ids :
           Cardinality(there \cup (ids \ {last})) < MaxGroups
      /\ Put(b, [f \in ids |-> v])

(* UpdateNotificationSlots, UpdateNotificationSlotGroups *)
Update(b, fields, v) ==
  /\ fields # {}
  /\ \A f \in fields : Holds(b, f)
  /\ Put(b, [f \in fields |-> v])

RemoveNotificationSlot(b, t) == Holds(b, t) /\ Remove(b, {t})
RemoveNotificationAllSlots(b) == Known(b) /\ Remove(b, SlotTypes)
RemoveNotificationSlotGroups(b, ids) ==
  /\ ids # {}
  /\ \A g \in ids : Holds(b, g)
  /\ Remove(b, ids)

RemoveNotificationForBundle(b) ==
  /\ Known(b)
  /\ Setter([preferencesInfo EXCEPT !.bundles[b] = Unknown],
            RemoveFields(store, b, Fields))

(* SetNotificationsEnabled, SetDoNotDisturbDate *)
SetUserSetting(u, s, v) ==
  Setter([preferencesInfo EXCEPT !.users[u][s] = v], PutUser(store, u, s, v))

(* RemoveSettings(userId): memory at once, then two deletions whose        *)
(* results nobody looks at.                                                *)
RemoveSettings(u) ==
  /\ Idle
  /\ preferencesInfo' = [preferencesInfo EXCEPT !.users[u] = NoSettings]
  /\ \E r \in PutUser(store, u, "enable", None) :
       \E q \in PutUser(r.db, u, "date", None) : store' = q.db
  /\ reload' = Disturbed
  /\ torn' = Torn
  /\ UNCHANGED copy

(* OnDistributedKvStoreDeathRecipient, on the handler. *)
StoreDeathRecipient ==
  /\ Idle
  /\ store.connected
  /\ store' = [store EXCEPT !.connected = FALSE]
  /\ UNCHANGED <<preferencesInfo, copy, reload, torn>>

-----------------------------------------------------------------------------
(* ParseFromDisturbeDB(preferencesInfo_). *)

(* COMMON_EVENT_USER_SWITCHED, on the observer's thread. *)
UserSwitched(u) ==
  /\ reload = None
  /\ reload' = [Parsing(u, FALSE) EXCEPT !.clean = copy = None]
  /\ torn' = IF copy = None THEN torn ELSE Parts
  /\ UNCHANGED <<preferencesInfo, store, copy>>

Reads(f) == IF "read" \in Faults THEN {f, Failed} ELSE {f}

(* Get of the next setting; without a store the setting is passed over. *)
ReadUserSetting ==
  /\ reload # None /\ reload.todo # <<>> /\ reload.seen = None
  /\ \E db \in CheckKvStore(store) :
       /\ store' = db
       /\ IF db.connected
            THEN \E v \in Reads(db.users[reload.user][Head(reload.todo)]) :
                   reload' = [reload EXCEPT !.seen = [value |-> v]]
            ELSE reload' = [reload EXCEPT !.todo = Tail(@), !.clean = FALSE]
  /\ UNCHANGED <<preferencesInfo, copy, torn>>

(* Mutant: what memory holds goes before what the store has. *)
UserSettingKept ==
  /\ reload # None /\ reload.todo # <<>> /\ reload.seen # None
  /\ LET u == reload.user
         s == Head(reload.todo)
         held == preferencesInfo.users[u][s]
     IN  preferencesInfo' =
           IF held = None /\ reload.seen.value \in Values
           THEN [preferencesInfo EXCEPT !.users[u][s] = reload.seen.value]
           ELSE preferencesInfo
  /\ reload' = [reload EXCEPT !.todo = Tail(@), !.seen = None]
  /\ torn' = IF copy = None THEN torn ELSE Parts
  /\ UNCHANGED <<store, copy>>

(* The callback: what was found goes to memory; if nothing was found,      *)
(* memory or a default decides, and is put into the store.                 *)
UserSettingRead ==
  /\ reload # None /\ reload.todo # <<>> /\ reload.seen # None
  /\ LET u == reload.user
         s == Head(reload.todo)
         found == reload.seen.value
         held == preferencesInfo.users[u][s]
         kept == IF held = None THEN DefaultSetting[s] ELSE held
         value == IF found \in Values THEN found
                  ELSE IF found = Failed /\ s = "enable" THEN held
                  ELSE kept
     IN  /\ preferencesInfo' = [preferencesInfo EXCEPT !.users[u][s] = value]
         /\ IF found = None
              THEN \E r \in PutUser(store, u, s, kept) : store' = r.db
              ELSE UNCHANGED store
  /\ reload' = [reload EXCEPT !.todo = Tail(@), !.seen = None]
  /\ torn' = IF copy = None THEN torn ELSE Parts
  /\ UNCHANGED copy

(* GetEntries(KEY_BUNDLE_LABEL) *)
ReadLabels ==
  /\ reload # None /\ reload.todo = <<>> /\ reload.left = None
  /\ \E db \in CheckKvStore(store) :
       /\ store' = db
       /\ \/ /\ db.connected
             /\ reload' = [reload EXCEPT !.left = db.labels]
          \/ /\ ~db.connected \/ "read" \in Faults
             /\ reload' = [reload EXCEPT !.left = {}, !.clean = FALSE]
  /\ UNCHANGED <<preferencesInfo, copy, torn>>

(* GetEntries of the next bundle; its status is not looked at, and a group *)
(* whose name cannot be read is left out.                                  *)
ReadBundle(b) ==
  /\ reload # None /\ reload.todo = <<>> /\ reload.left # None
  /\ reload.seen = None
  /\ b \in reload.left
  /\ \E lost \in {{}} \cup
                 (IF "read" \in Faults THEN {Fields} \cup (SUBSET Groups) ELSE {}) :
       reload' = [reload EXCEPT
         !.left = @ \ {b},
         !.seen = [bundle |-> b,
                   entries |-> Overlay([f \in lost |-> None], store.entries[b])],
         !.clean = @ /\ lost = {}]
  /\ UNCHANGED <<preferencesInfo, store, copy, torn>>

(* Properties the store has, the others as in a new BundleInfo. *)
Parse(entries) ==
  [f \in Fields |-> IF entries[f] # None THEN entries[f] ELSE DefaultInfo[f]]

(* SetBundleInfo files the bundle under the name that was read: entries    *)
(* without one make a bundle nobody asks for.                              *)
BundleRead ==
  /\ reload # None /\ reload.todo = <<>> /\ reload.seen # None
  /\ LET b == reload.seen.bundle
         entries == reload.seen.entries
     IN  preferencesInfo' =
           IF entries[Name] = None THEN preferencesInfo
           ELSE [preferencesInfo EXCEPT !.bundles[b] = Parse(entries)]
  /\ reload' = [reload EXCEPT !.seen = None]
  /\ torn' = IF copy = None THEN torn ELSE Parts
  /\ UNCHANGED <<store, copy>>

(* What a setter touched while a reload ran is put right by the next       *)
(* reload that no setter disturbs.                                         *)
ReloadEnd ==
  /\ reload # None /\ reload.left = {} /\ reload.seen = None
  /\ reload' = None
  /\ torn' = IF reload.clean THEN torn \ {reload.user, BundlePart} ELSE torn
  /\ UNCHANGED <<preferencesInfo, store, copy>>

(* The process ends, at any moment, and another one starts.  The data of   *)
(* the store stay, in memory there is nothing.                             *)
Restart(u) ==
  /\ preferencesInfo' = Nothing
  /\ store' = [store EXCEPT !.connected = FALSE]
  /\ copy' = None
  /\ reload' = Parsing(u, TRUE)
  /\ torn' = {}

-----------------------------------------------------------------------------
BundleCall(b) ==
  \/ \E v \in Values :
       \/ \E p \in Properties : SetBundleProperty(b, p, v)
       \/ \E types \in SUBSET SlotTypes : AddNotificationSlots(b, types, v)
       \/ \E ids \in SUBSET Groups : AddNotificationSlotGroups(b, ids, v)
       \/ \E fields \in (SUBSET SlotTypes) \cup (SUBSET Groups) :
            Update(b, fields, v)
  \/ \E t \in SlotTypes : RemoveNotificationSlot(b, t)
  \/ \E ids \in SUBSET Groups : RemoveNotificationSlotGroups(b, ids)
  \/ RemoveNotificationAllSlots(b)
  \/ RemoveNotificationForBundle(b)

UserCall(u) ==
  \/ \E s \in {"date", "enable"}, v \in Values : SetUserSetting(u, s, v)
  \/ RemoveSettings(u)

ReloadStep ==
  \/ ReadUserSetting
  \/ UserSettingRead
  \/ ReadLabels
  \/ \E b \in Bundles : ReadBundle(b)
  \/ BundleRead
  \/ ReloadEnd

Next ==
  \/ \E b \in Bundles : BundleCall(b)
  \/ \E u \in Users : UserCall(u)
  \/ Commit
  \/ StoreDeathRecipient
  \/ \E u \in Users : UserSwitched(u) \/ Restart(u)
  \/ ReloadStep

Spec == Init /\ [][Next]_vars

-----------------------------------------------------------------------------
(* What the memory will be when the call that is running has ended. *)
Settled == IF copy = None THEN preferencesInfo ELSE copy

Started == reload # None => ~reload.starting

(* Unless a reload has crossed a setter since, the settings of a bundle    *)
(* that the service acts on are those the next start will read, whatever   *)
(* writes were refused and wherever the process ended.  It is so for       *)
(* bundles whose default CheckApiCompatibility leaves on, and which the    *)
(* store has under their name.                                             *)
MemoryIsStore ==
  Started /\ BundlePart \notin torn =>
    \A b \in Compatible :
      store.entries[b][Name] # None =>
        BundleInfo(Settled, b) = Parse(store.entries[b])

(* The switch and the date of a user that are in memory are in the store,  *)
(* unless a write of a default was refused or a reload crossed a setter.   *)
UserSettingsStored ==
  \A u \in Users \ torn : \A s \in {"date", "enable"} :
    Settled.users[u][s] # None =>
      store.users[u][s] \in {None, Settled.users[u][s]}

(* "Get private notification enable in the of bunlde from DB"              *)
(* (services/ans/include/notification_preferences.h:256): the switch of a  *)
(* bundle that is answered is the one the DB has.                          *)
SwitchIsFromDB ==
  copy = None /\ Started /\ torn = {} =>
    \A b \in Bundles :
      Known(b) /\ store.entries[b][Enabled] # None =>
        preferencesInfo.bundles[b][Enabled] = store.entries[b][Enabled]

(* "Remove notification bundle from DB" (notification_preferences.h:92):   *)
(* the DB has no bundle left over from a removal, so a bundle the service  *)
(* knows is one the next start can read.                                   *)
KnownIsReadable ==
  copy = None /\ Started /\ torn = {} =>
    \A b \in Bundles : Known(b) => store.entries[b][Name] # None
=============================================================================
