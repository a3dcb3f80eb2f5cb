-------------------- MODULE NotificationPreferencesProofs --------------------
(***************************************************************************)
(* That the settings the service acts on are those the next start reads    *)
(* (MemoryIsStore), for any bundles, users, fields and values, if the      *)
(* store may refuse writes and nothing else.                               *)
(***************************************************************************)
EXTENDS NotificationPreferences, TLAPS

(* A bundle without a label has no entries and is not in memory: labels    *)
(* are written first and never go.                                         *)
Labelled ==
  \A b \in Bundles \ store.labels :
    store.entries[b] = NoEntries /\ Settled.bundles[b] = Unknown

Agrees(b) ==
  store.entries[b][Name] # None =>
    BundleInfo(Settled, b) = Parse(store.entries[b])

(* What a reload has read has the shape that its place in the order asks   *)
(* for, and comes from bundles with a label.                               *)
ReloadShape ==
  reload # None =>
    /\ reload.left # None => reload.left \subseteq store.labels
    /\ reload.todo # <<>> =>
         /\ reload.left = None
         /\ reload.seen \in {None} \cup [value : Values \cup {None, Failed}]
    /\ reload.todo = <<>> /\ reload.seen # None =>
         /\ reload.seen \in [bundle : Bundles, entries : Entries]
         /\ reload.seen.bundle \in store.labels
         /\ reload.left # None

(* A clean reload holds what the store has, and what it has finished is    *)
(* right in memory.  Only a setter makes it unclean, and then parts are    *)
(* torn.                                                                   *)
CleanReload ==
  reload # None =>
    IF reload.clean
    THEN /\ copy = None
         /\ reload.todo = <<>> /\ reload.seen # None =>
              reload.seen.entries = store.entries[reload.seen.bundle]
         /\ reload.left # None =>
              \A b \in Compatible \ reload.left :
                reload.seen = None \/ reload.seen.bundle # b => Agrees(b)
    ELSE BundlePart \in torn /\ ~reload.starting

StartUndisturbed ==
  ~Started => copy = None /\ torn = {}

IInv ==
  /\ TypeOK
  /\ Labelled
  /\ ReloadShape
  /\ CleanReload
  /\ StartUndisturbed
  /\ MemoryIsStore

----------------------------------------------------------------------------
(* Outcomes of store operations, when the store may refuse writes only.    *)

LEMMA Connects ==
  ASSUME Faults \subseteq {"write"}, NEW db, NEW c \in CheckKvStore(db)
  PROVE  c = [db EXCEPT !.connected = TRUE]
BY DEF CheckKvStore

LEMMA WriteOutcome ==
  ASSUME NEW db, NEW new, NEW r \in Write(db, new)
  PROVE  \/ r = Outcome(new, TRUE)
         \/ r = Outcome(db, FALSE)
BY DEF Write

LEMMA PutBundleOutcome ==
  ASSUME NEW db, NEW b, NEW r \in PutBundleToDisturbeDB(db, b)
  PROVE  LET labelled == [db EXCEPT !.labels = @ \cup {b}]
             filled == [labelled EXCEPT !.entries[b] = Overlay(DefaultOf, @)]
         IN  \/ r = Outcome(filled, TRUE)
             \/ r \in {Outcome(labelled, FALSE), Outcome(db, FALSE)}
BY DEF PutBundleToDisturbeDB, Write, Outcome

LEMMA CheckBundleOutcome ==
  ASSUME Faults \subseteq {"write"}, NEW db \in Store, NEW b,
         NEW r \in CheckBundle(db, b)
  PROVE  LET c == [db EXCEPT !.connected = TRUE] IN
         \/ b \in db.labels /\ r = Outcome(c, TRUE)
         \/ b \notin db.labels /\ r \in PutBundleToDisturbeDB(c, b)
<1>1. PICK c \in CheckKvStore(db) :
        r \in IF ~c.connected THEN {Outcome(c, TRUE)}
              ELSE (IF b \in c.labels THEN {Outcome(c, TRUE)}
                    ELSE PutBundleToDisturbeDB(c, b))
                   \cup (IF "read" \in Faults THEN {Outcome(c, FALSE)} ELSE {})
  BY DEF CheckBundle
<1>2. c = [db EXCEPT !.connected = TRUE]
  BY Connects
<1>3. c.connected /\ c.labels = db.labels
  BY <1>2 DEF Store
<1>4. "read" \notin Faults
  OBVIOUS
<1> QED
  BY <1>1, <1>2, <1>3, <1>4

LEMMA ReachedOutcome ==
  ASSUME Faults \subseteq {"write"}, NEW db \in Store, NEW new,
         NEW r \in Reached(db, new)
  PROVE  \/ r = Outcome([new EXCEPT !.connected = TRUE], TRUE)
         \/ r = Outcome([db EXCEPT !.connected = TRUE], FALSE)
<1>1. PICK c \in CheckKvStore(db) :
        r \in IF c.connected THEN Write(c, [new EXCEPT !.connected = TRUE])
              ELSE {Outcome(c, FALSE)}
  BY DEF Reached
<1>2. c = [db EXCEPT !.connected = TRUE]
  BY Connects
<1>3. c.connected
  BY <1>2 DEF Store
<1> QED
  BY <1>1, <1>2, <1>3, WriteOutcome

(* What a write that may fail leaves. *)
LEMMA ReachedStore ==
  ASSUME Faults \subseteq {"write"}, NEW db \in Store, NEW new \in Store,
         new.labels = db.labels, NEW r \in Reached(db, new)
  PROVE  /\ r.ok \in BOOLEAN /\ r.db \in Store /\ r.db.labels = db.labels
         /\ r.ok => r.db.entries = new.entries
         /\ ~r.ok => r.db.entries = db.entries
<1>1. \/ r = Outcome([new EXCEPT !.connected = TRUE], TRUE)
      \/ r = Outcome([db EXCEPT !.connected = TRUE], FALSE)
  BY ReachedOutcome
<1>2. ASSUME NEW e \in Store
      PROVE  /\ [e EXCEPT !.connected = TRUE] \in Store
             /\ [e EXCEPT !.connected = TRUE].labels = e.labels
             /\ [e EXCEPT !.connected = TRUE].entries = e.entries
  BY DEF Store
<1>3. CASE r = Outcome([new EXCEPT !.connected = TRUE], TRUE)
  <2>1. r.ok = TRUE /\ r.db = [new EXCEPT !.connected = TRUE]
    BY <1>3 DEF Outcome
  <2> QED
    BY <1>2, <2>1
<1>4. CASE r = Outcome([db EXCEPT !.connected = TRUE], FALSE)
  <2>1. r.ok = FALSE /\ r.db = [db EXCEPT !.connected = TRUE]
    BY <1>4 DEF Outcome
  <2> QED
    BY <1>2, <2>1
<1> QED
  BY <1>1, <1>3, <1>4

(* The labels and entries that an outcome of PutFields has: all is done,   *)
(* or nothing, or the label and perhaps the defaults of a bundle that is   *)
(* new to the store.                                                       *)
LEMMA PutFieldsOutcome ==
  ASSUME Faults \subseteq {"write"}, NEW db \in Store, NEW b \in Bundles,
         NEW new, DOMAIN new \subseteq Fields,
         \A f \in DOMAIN new : new[f] \in Values,
         NEW r \in PutFields(db, b, new)
  PROVE  LET base == IF b \in db.labels THEN db.entries[b]
                     ELSE Overlay(DefaultOf, db.entries[b])
         IN  /\ r.ok \in BOOLEAN
             /\ r.db \in Store
             /\ r.ok => /\ r.db.labels = db.labels \cup {b}
                        /\ r.db.entries = [db.entries EXCEPT ![b] = Overlay(new, base)]
             /\ ~r.ok => \/ /\ r.db.labels = db.labels
                            /\ r.db.entries = db.entries
                         \/ /\ b \notin db.labels
                            /\ r.db.labels = db.labels \cup {b}
                            /\ r.db.entries \in
                                 {db.entries, [db.entries EXCEPT ![b] = base]}
<1> DEFINE c == [db EXCEPT !.connected = TRUE]
           labelled == [c EXCEPT !.labels = @ \cup {b}]
           filled == [labelled EXCEPT !.entries[b] = Overlay(DefaultOf, @)]
           put(d) == [d EXCEPT !.entries[b] = Overlay(new, @)]
<1>1. PICK q \in CheckBundle(db, b) :
        r \in IF q.ok THEN Reached(q.db, put(q.db)) ELSE {q}
  BY DEF PutFields
<1>2. c \in Store /\ labelled \in Store /\ filled \in Store
  <2>1. c \in Store
    BY DEF Store
  <2>2. labelled \in Store
    BY <2>1 DEF Store
  <2>3. Overlay(DefaultOf, labelled.entries[b]) \in Entries
    BY <2>2, ValuesAssumption, FieldsAssumption DEF Overlay, Store, Entries, Fields
  <2> QED
    BY <2>1, <2>2, <2>3 DEF Store
<1>3. /\ c.labels = db.labels /\ c.entries = db.entries
      /\ labelled.labels = db.labels \cup {b} /\ labelled.entries = db.entries
      /\ filled.labels = db.labels \cup {b}
      /\ filled.entries = [db.entries EXCEPT ![b] = Overlay(DefaultOf, db.entries[b])]
  BY DEF Store
<1>4. ASSUME NEW d \in Store, NEW o \in Reached(d, put(d))
      PROVE  /\ o.ok \in BOOLEAN /\ o.db \in Store /\ o.db.labels = d.labels
             /\ o.ok => o.db.entries =
                          [d.entries EXCEPT ![b] = Overlay(new, d.entries[b])]
             /\ ~o.ok => o.db.entries = d.entries
  <2>1. Overlay(new, d.entries[b]) \in Entries
    BY DEF Overlay, Store, Entries
  <2>2. put(d) \in Store /\ put(d).labels = d.labels
        /\ put(d).entries = [d.entries EXCEPT ![b] = Overlay(new, d.entries[b])]
    BY <2>1 DEF Store
  <2> HIDE DEF put
  <2> QED
    BY <2>2, ReachedStore
<1> HIDE DEF put, c, labelled, filled
<1>5. CASE b \in db.labels
  <2>1. q = Outcome(c, TRUE)
    BY <1>5, CheckBundleOutcome DEF c
  <2>2. r \in Reached(c, put(c))
    BY <1>1, <2>1 DEF Outcome
  <2>3. db.labels \cup {b} = db.labels
    BY <1>5
  <2> QED
    BY <1>2, <1>3, <1>4, <1>5, <2>2, <2>3
<1>6. CASE b \notin db.labels
  <2>1. \/ q = Outcome(filled, TRUE)
        \/ q \in {Outcome(labelled, FALSE), Outcome(c, FALSE)}
    BY <1>6, CheckBundleOutcome, PutBundleOutcome DEF c, labelled, filled
  <2>2. CASE q = Outcome(filled, TRUE)
    <3>1. r \in Reached(filled, put(filled))
      BY <1>1, <2>2 DEF Outcome
    <3>2. filled.entries[b] = Overlay(DefaultOf, db.entries[b])
      BY <1>3 DEF Store
    <3>3. [filled.entries EXCEPT ![b] = Overlay(new, filled.entries[b])]
            = [db.entries EXCEPT ![b] = Overlay(new, filled.entries[b])]
      BY <1>3 DEF Store
    <3> QED
      BY <1>2, <1>3, <1>4, <1>6, <3>1, <3>2, <3>3
  <2>3. CASE q \in {Outcome(labelled, FALSE), Outcome(c, FALSE)}
    <3>2. q.ok = FALSE /\ q.db \in {labelled, c}
      BY <2>3 DEF Outcome
    <3>3. r = q
      BY <1>1, <3>2
    <3>1. r.ok = FALSE /\ r.db \in {labelled, c}
      BY <3>2, <3>3
    <3> QED
      BY <1>2, <1>3, <1>6, <3>1
  <2> QED
    BY <2>1, <2>2, <2>3
<1> QED
  BY <1>5, <1>6

LEMMA RemoveFieldsOutcome ==
  ASSUME Faults \subseteq {"write"}, NEW db \in Store, NEW b \in Bundles,
         NEW removed \in SUBSET Fields, NEW r \in RemoveFields(db, b, removed)
  PROVE  /\ r.ok \in BOOLEAN /\ r.db \in Store /\ r.db.labels = db.labels
         /\ r.ok => r.db.entries = [db.entries EXCEPT
                       ![b] = Overlay([f \in removed |-> None], @)]
         /\ ~r.ok => r.db.entries = db.entries
<1> DEFINE new == [db EXCEPT !.entries[b] = Overlay([f \in removed |-> None], @)]
<1>1. r \in Reached(db, new)
  BY DEF RemoveFields
<1>2. Overlay([f \in removed |-> None], db.entries[b]) \in Entries
  BY DEF Overlay, Store, Entries
<1>3. new \in Store /\ new.labels = db.labels
      /\ new.entries = [db.entries EXCEPT ![b] = Overlay([f \in removed |-> None], @)]
  BY <1>2 DEF Store
<1> HIDE DEF new
<1> QED
  BY <1>1, <1>3, ReachedStore

(* Settings of users are beside labels and entries. *)
LEMMA PutUserOutcome ==
  ASSUME Faults \subseteq {"write"}, NEW db \in Store, NEW u \in Users,
         NEW s \in {"date", "enable"}, NEW v \in Values \cup {None},
         NEW r \in PutUser(db, u, s, v)
  PROVE  /\ r.ok \in BOOLEAN /\ r.db \in Store /\ r.db.labels = db.labels
         /\ r.db.entries = db.entries
<1> DEFINE new == [db EXCEPT !.users[u][s] = v]
<1>1. r \in Reached(db, new)
  BY DEF PutUser
<1>2. new \in Store /\ new.labels = db.labels /\ new.entries = db.entries
  BY DEF Store
<1> HIDE DEF new
<1> QED
  BY <1>1, <1>2, ReachedStore

----------------------------------------------------------------------------
(* The calls of the handler.                                               *)

(* An outcome that leaves memory, changed as the outcome says, and store   *)
(* in agreement.                                                           *)
Fits(info, r) ==
  LET kept == IF r.ok THEN info ELSE preferencesInfo IN
  /\ r.ok \in BOOLEAN
  /\ r.db \in Store
  /\ store.labels \subseteq r.db.labels
  /\ \A b \in Bundles \ r.db.labels :
       r.db.entries[b] = NoEntries /\ kept.bundles[b] = Unknown
  /\ BundlePart \notin torn =>
       \A b \in Compatible :
         r.db.entries[b][Name] # None =>
           BundleInfo(kept, b) = Parse(r.db.entries[b])

LEMMA DisturbedType ==
  ASSUME TypeOK
  PROVE  /\ Disturbed \in Reload \cup {None}
         /\ reload = None => Disturbed = None
         /\ reload # None =>
              /\ Disturbed # None
              /\ ~Disturbed.clean
              /\ Disturbed.todo = reload.todo /\ Disturbed.left = reload.left
              /\ Disturbed.seen = reload.seen
              /\ Disturbed.starting = reload.starting
<1>1. CASE reload = None
  BY <1>1 DEF Disturbed
<1>2. CASE reload # None
  <2>1. reload \in Reload
    BY <1>2 DEF TypeOK
  <2>2. Disturbed = [reload EXCEPT !.clean = FALSE]
    BY <1>2 DEF Disturbed
  <2>3. Disturbed \in Reload /\ Disturbed.clean = FALSE
        /\ Disturbed.todo = reload.todo /\ Disturbed.left = reload.left
        /\ Disturbed.seen = reload.seen /\ Disturbed.starting = reload.starting
    BY <2>1, <2>2 DEF Reload
  <2> QED
    BY <1>2, <2>3, NoneAssumption
<1> QED
  BY <1>1, <1>2

(* A reload that is disturbed keeps its shape when labels are added only.  *)
LEMMA DisturbedKeeps ==
  ASSUME IInv, reload # None => ~reload.starting,
         reload' = Disturbed, torn' = Torn, store.labels \subseteq store'.labels
  PROVE  /\ reload' \in Reload \cup {None} /\ torn' \subseteq Parts
         /\ ReloadShape' /\ CleanReload' /\ StartUndisturbed' /\ Started'
         /\ BundlePart \notin torn' => BundlePart \notin torn /\ reload = None
<1>1. TypeOK
  BY DEF IInv
<1>2. /\ reload' \in Reload \cup {None}
      /\ reload = None => reload' = None
      /\ reload # None =>
           /\ reload' # None /\ ~reload'.clean
           /\ reload'.todo = reload.todo /\ reload'.left = reload.left
           /\ reload'.seen = reload.seen /\ reload'.starting = reload.starting
  BY <1>1, DisturbedType
<1>3. reload # None => torn' = Parts
  BY DEF Torn
<1>4. torn' \subseteq Parts
  BY <1>1 DEF Torn, Parts, TypeOK
<1>5. ReloadShape'
  BY <1>2 DEF IInv, ReloadShape
<1>6. CleanReload'
  BY <1>2, <1>3 DEF CleanReload, Parts
<1>7. StartUndisturbed' /\ Started'
  BY <1>2 DEF StartUndisturbed, Started
<1>8. BundlePart \notin torn' => BundlePart \notin torn /\ reload = None
  BY DEF Torn, Parts
<1> QED
  BY <1>2, <1>4, <1>5, <1>6, <1>7, <1>8

LEMMA SetterKeeps ==
  ASSUME IInv, NEW info \in Info, NEW outcomes, Setter(info, outcomes),
         \A r \in outcomes : Fits(info, r)
  PROVE  IInv'
<1>1. PICK r \in outcomes : store' = r.db /\ copy' = IF r.ok THEN info ELSE None
  BY DEF Setter
<1> DEFINE kept == IF r.ok THEN info ELSE preferencesInfo
<1>2. Fits(info, r)
  OBVIOUS
<1>3. /\ r.ok \in BOOLEAN /\ store' \in Store /\ store.labels \subseteq store'.labels
      /\ \A b \in Bundles \ store'.labels :
           store'.entries[b] = NoEntries /\ kept.bundles[b] = Unknown
      /\ BundlePart \notin torn =>
           \A b \in Compatible :
             store'.entries[b][Name] # None =>
               BundleInfo(kept, b) = Parse(store'.entries[b])
  BY <1>1, <1>2 DEF Fits
<1>4. /\ copy = None /\ (reload # None => ~reload.starting)
      /\ reload' = Disturbed /\ torn' = Torn /\ preferencesInfo' = preferencesInfo
  BY DEF Setter, Idle
<1>5. Settled' = kept
  BY <1>1, <1>3, <1>4, NoneAssumption DEF Settled
<1>6. /\ reload' \in Reload \cup {None} /\ torn' \subseteq Parts
      /\ ReloadShape' /\ CleanReload' /\ StartUndisturbed' /\ Started'
      /\ BundlePart \notin torn' => BundlePart \notin torn /\ reload = None
  BY <1>3, <1>4, DisturbedKeeps
<1>7. TypeOK'
  BY <1>1, <1>3, <1>4, <1>6 DEF IInv, TypeOK, Parts
<1>8. Labelled'
  BY <1>3, <1>5 DEF Labelled
<1>9. MemoryIsStore'
  BY <1>3, <1>5, <1>6 DEF MemoryIsStore, BundleInfo
<1> QED
  BY <1>6, <1>7, <1>8, <1>9 DEF IInv

(* Reading what was written over entries, and reading fresh defaults.      *)
LEMMA ParseOverlay ==
  ASSUME NEW new, DOMAIN new \subseteq Fields, NEW e \in Entries,
         \A f \in DOMAIN new :
           new[f] \in Values \/ (new[f] = None /\ f \in SlotTypes \cup Groups)
  PROVE  /\ Parse(e) \in Entries
         /\ Overlay(new, e) \in Entries
         /\ Overlay(new, Parse(e)) \in Entries
         /\ Parse(Overlay(new, e)) = Overlay(new, Parse(e))
<1>1. DefaultInfo \in Entries /\ \A f \in SlotTypes \cup Groups : DefaultInfo[f] = None
  BY FieldsAssumption, ValuesAssumption DEF DefaultInfo, Entries, Fields
<1>2. Parse(e) \in Entries
  BY <1>1 DEF Parse, Entries
<1>3. \A d \in Entries : /\ Overlay(new, d) \in Entries
                         /\ \A f \in Fields : Overlay(new, d)[f] =
                              IF f \in DOMAIN new THEN new[f] ELSE d[f]
  BY DEF Overlay, Entries
<1>4. \A f \in Fields : Parse(Overlay(new, e))[f] = Overlay(new, Parse(e))[f]
  BY <1>1, <1>2, <1>3, ValuesAssumption DEF Parse
<1>5. Parse(Overlay(new, e)) \in [Fields -> Values \cup {None}]
  BY <1>1, <1>3 DEF Parse, Entries
<1> QED
  BY <1>2, <1>3, <1>4, <1>5 DEF Entries

LEMMA FreshDefaults ==
  /\ DefaultInfo \in Entries
  /\ NoEntries \in Entries
  /\ Overlay(DefaultOf, NoEntries) \in Entries
  /\ Parse(Overlay(DefaultOf, NoEntries)) = DefaultInfo
  /\ \A b \in Compatible, info \in Info :
       info.bundles[b] = Unknown => BundleInfo(info, b) = DefaultInfo
  /\ \A b \in Bundles, info \in Info : BundleInfo(info, b) \in Entries
<1>1. DefaultInfo \in Entries /\ DefaultInfo[Enabled] = On /\ Enabled \in Fields
  BY FieldsAssumption, ValuesAssumption DEF DefaultInfo, Entries, Fields
<1>2. NoEntries \in Entries /\ \A f \in Fields : NoEntries[f] = None
  BY DEF NoEntries, Entries
<1>3. Overlay(DefaultOf, NoEntries) = DefaultInfo
  BY <1>2 DEF Overlay, DefaultInfo, Entries
<1>4. Parse(DefaultInfo) = DefaultInfo
  BY <1>1 DEF Parse, Entries
<1>5. \A b \in Compatible, info \in Info :
        info.bundles[b] = Unknown => BundleInfo(info, b) = DefaultInfo
  BY <1>1 DEF BundleInfo, Entries
<1>6. \A b \in Bundles, info \in Info : BundleInfo(info, b) \in Entries
  BY <1>1, ValuesAssumption DEF BundleInfo, Info, Entries
<1> QED
  BY <1>1, <1>2, <1>3, <1>4, <1>5, <1>6

(* What IInv says of memory and store while no call is half done.          *)
LEMMA AtRest ==
  ASSUME IInv, Idle
  PROVE  /\ preferencesInfo \in Info /\ store \in Store
         /\ \A b \in Bundles \ store.labels :
              store.entries[b] = NoEntries /\ preferencesInfo.bundles[b] = Unknown
         /\ BundlePart \notin torn =>
              \A b \in Compatible :
                store.entries[b][Name] # None =>
                  BundleInfo(preferencesInfo, b) = Parse(store.entries[b])
<1>1. Started /\ Settled = preferencesInfo
  BY DEF Idle, Started, Settled
<1> QED
  BY <1>1 DEF IInv, TypeOK, Labelled, MemoryIsStore

(* An outcome of a call on bundle b: other bundles are as they were.       *)
LEMMA OneBundle ==
  ASSUME IInv, Idle, NEW b \in Bundles, NEW info \in Info, NEW r,
         \A o \in Bundles \ {b} : info.bundles[o] = preferencesInfo.bundles[o],
         r.ok \in BOOLEAN, r.db \in Store,
         store.labels \subseteq r.db.labels,
         r.db.labels \subseteq store.labels \cup {b},
         \A o \in Bundles \ {b} : r.db.entries[o] = store.entries[o],
         b \in r.db.labels \/ (r.db.entries[b] = NoEntries /\ ~r.ok),
         BundlePart \notin torn /\ b \in Compatible /\ r.db.entries[b][Name] # None =>
           BundleInfo(IF r.ok THEN info ELSE preferencesInfo, b)
             = Parse(r.db.entries[b])
  PROVE  Fits(info, r)
<1> DEFINE kept == IF r.ok THEN info ELSE preferencesInfo
<1>1. \A o \in Bundles \ {b} : kept.bundles[o] = preferencesInfo.bundles[o]
  OBVIOUS
<1>2. ASSUME NEW o \in Bundles \ r.db.labels
      PROVE  r.db.entries[o] = NoEntries /\ kept.bundles[o] = Unknown
  <2>1. o \notin store.labels
    OBVIOUS
  <2>2. store.entries[o] = NoEntries /\ preferencesInfo.bundles[o] = Unknown
    BY <2>1, AtRest
  <2> QED
    BY <1>1, <2>2
<1>3. ASSUME BundlePart \notin torn, NEW o \in Compatible,
             r.db.entries[o][Name] # None
      PROVE  BundleInfo(kept, o) = Parse(r.db.entries[o])
  <2>1. CASE o = b
    BY <1>3, <2>1
  <2>2. CASE o # b
    <3>1. o \in Bundles \ {b}
      BY <2>2, LimitsAssumption
    <3>2. BundleInfo(kept, o) = BundleInfo(preferencesInfo, o)
      BY <1>1, <3>1 DEF BundleInfo
    <3> HIDE DEF kept
    <3>3. r.db.entries[o] = store.entries[o]
      BY <3>1
    <3> QED
      BY <1>3, <3>2, <3>3, AtRest
  <2> QED
    BY <2>1, <2>2
<1> QED
  BY <1>2, <1>3 DEF Fits

(* A call that puts fields, never the name, to the values it is given.     *)
LEMMA PutKeeps ==
  ASSUME Faults \subseteq {"write"}, IInv, NEW b \in Bundles,
         NEW new, DOMAIN new \subseteq Fields \ {Name},
         \A f \in DOMAIN new : new[f] \in Values, Put(b, new)
  PROVE  IInv'
<1>1. Idle
  BY DEF Put, Setter
<1>2. preferencesInfo \in Info /\ store \in Store
  BY <1>1, AtRest
<1> DEFINE info == With(b, new)
           own == BundleInfo(preferencesInfo, b)
<1>3. own \in Entries
  BY <1>2, FreshDefaults
<1>4. Overlay(new, own) \in Entries
  BY <1>3, ParseOverlay
<1>5. /\ info \in Info /\ info.bundles[b] = Overlay(new, own)
      /\ \A o \in Bundles \ {b} : info.bundles[o] = preferencesInfo.bundles[o]
  BY <1>2, <1>4 DEF With, Info
<1>6. BundleInfo(info, b) = Overlay(new, own)
  BY <1>4, <1>5, ValuesAssumption DEF BundleInfo, Entries
<1> HIDE DEF info
<1>7. ASSUME NEW r \in PutFields(store, b, new)
      PROVE  Fits(info, r)
  <2> DEFINE base == IF b \in store.labels THEN store.entries[b]
                     ELSE Overlay(DefaultOf, store.entries[b])
  <2>1. /\ r.ok \in BOOLEAN
        /\ r.db \in Store
        /\ r.ok => /\ r.db.labels = store.labels \cup {b}
                   /\ r.db.entries = [store.entries EXCEPT ![b] = Overlay(new, base)]
        /\ ~r.ok => \/ /\ r.db.labels = store.labels
                       /\ r.db.entries = store.entries
                    \/ /\ b \notin store.labels
                       /\ r.db.labels = store.labels \cup {b}
                       /\ r.db.entries \in
                            {store.entries, [store.entries EXCEPT ![b] = base]}
    BY <1>2, PutFieldsOutcome
  <2>2. b \notin store.labels =>
          /\ store.entries[b] = NoEntries
          /\ preferencesInfo.bundles[b] = Unknown
          /\ Parse(base) = DefaultInfo
          /\ b \in Compatible => own = DefaultInfo
    BY <1>1, <1>2, AtRest, FreshDefaults
  <2>3. base \in Entries /\ store.entries \in [Bundles -> Entries]
        /\ Overlay(new, base) \in Entries
        /\ Parse(Overlay(new, base)) = Overlay(new, Parse(base))
    <3>1. store.entries \in [Bundles -> Entries]
      BY <1>2 DEF Store
    <3>2. base \in Entries
      BY <2>2, <3>1, FreshDefaults
    <3> QED
      BY <3>1, <3>2, ParseOverlay
  <2>4. Overlay(new, base)[Name] = base[Name]
    BY <2>3 DEF Overlay, Entries, Fields
  <2>5. NoEntries[Name] = None
    BY DEF NoEntries, Fields
  <2>6. BundlePart \notin torn /\ b \in Compatible /\ base[Name] # None =>
          own = Parse(base)
    BY <1>1, <2>2, AtRest
  <2> HIDE DEF base, own
  <2>7. CASE r.ok = TRUE
    <3>1. /\ r.db.labels = store.labels \cup {b}
          /\ r.db.entries[b] = Overlay(new, base)
          /\ \A o \in Bundles \ {b} : r.db.entries[o] = store.entries[o]
      BY <2>1, <2>3, <2>7
    <3>2. BundlePart \notin torn /\ b \in Compatible /\ r.db.entries[b][Name] # None
            => BundleInfo(info, b) = Parse(r.db.entries[b])
      BY <1>6, <2>3, <2>4, <2>6, <3>1
    <3> QED
      BY <1>1, <1>5, <2>1, <2>7, <3>1, <3>2, OneBundle
  <2>8. CASE r.ok = FALSE
    <3>1. CASE r.db.labels = store.labels /\ r.db.entries = store.entries
      <4>1. b \in r.db.labels \/ r.db.entries[b] = NoEntries
        BY <2>2, <3>1
      <4>2. BundlePart \notin torn /\ b \in Compatible /\ r.db.entries[b][Name] # None
              => BundleInfo(preferencesInfo, b) = Parse(r.db.entries[b])
        BY <1>1, <3>1, AtRest
      <4> QED
        BY <1>1, <1>5, <2>1, <2>8, <3>1, <4>1, <4>2, OneBundle
    <3>2. CASE /\ b \notin store.labels
               /\ r.db.labels = store.labels \cup {b}
               /\ r.db.entries \in
                    {store.entries, [store.entries EXCEPT ![b] = base]}
      <4>1. /\ r.db.entries[b] \in {NoEntries, base}
            /\ \A o \in Bundles \ {b} : r.db.entries[o] = store.entries[o]
        BY <2>2, <2>3, <3>2
      <4>2. BundlePart \notin torn /\ b \in Compatible /\ r.db.entries[b][Name] # None
              => own = Parse(r.db.entries[b])
        BY <2>2, <2>5, <2>6, <4>1
      <4> QED
        BY <1>1, <1>5, <2>1, <2>8, <3>2, <4>1, <4>2, OneBundle DEF own
    <3> QED
      BY <2>1, <2>8, <3>1, <3>2
  <2> QED
    BY <2>1, <2>7, <2>8
<1> QED
  BY <1>5, <1>7, SetterKeeps DEF Put, info

(* A call that removes slots or groups of a bundle that is known.          *)
LEMMA RemoveKeeps ==
  ASSUME Faults \subseteq {"write"}, IInv, NEW b \in Bundles, Known(b),
         NEW removed \in SUBSET (SlotTypes \cup Groups), Remove(b, removed)
  PROVE  IInv'
<1>1. Idle
  BY DEF Remove, Setter
<1>2. preferencesInfo \in Info /\ store \in Store /\ b \in store.labels
  BY <1>1, AtRest DEF Known
<1> DEFINE new == [f \in removed |-> None]
           info == With(b, new)
           own == BundleInfo(preferencesInfo, b)
<1>3. own \in Entries /\ store.entries[b] \in Entries
  BY <1>2, FreshDefaults DEF Store
<1>4. /\ DOMAIN new \subseteq Fields
      /\ \A f \in DOMAIN new : new[f] = None /\ f \in SlotTypes \cup Groups
      /\ Name \notin DOMAIN new
  BY FieldsAssumption DEF Fields
<1> HIDE DEF new
<1>5. /\ Overlay(new, own) \in Entries
      /\ Overlay(new, store.entries[b]) \in Entries
      /\ Parse(Overlay(new, store.entries[b])) = Overlay(new, Parse(store.entries[b]))
  BY <1>3, <1>4, ParseOverlay
<1>6. /\ info \in Info /\ info.bundles[b] = Overlay(new, own)
      /\ \A o \in Bundles \ {b} : info.bundles[o] = preferencesInfo.bundles[o]
  BY <1>2, <1>5 DEF With, Info
<1>7. BundleInfo(info, b) = Overlay(new, own)
  BY <1>5, <1>6, ValuesAssumption DEF BundleInfo, Entries
<1>8. Overlay(new, store.entries[b])[Name] = store.entries[b][Name]
  BY <1>3, <1>4 DEF Overlay, Entries, Fields
<1>9. BundlePart \notin torn /\ b \in Compatible /\ store.entries[b][Name] # None
        => own = Parse(store.entries[b])
  BY <1>1, AtRest
<1> HIDE DEF info, own
<1>10. ASSUME NEW r \in RemoveFields(store, b, removed)
       PROVE  Fits(info, r)
  <2>1. /\ r.ok \in BOOLEAN /\ r.db \in Store /\ r.db.labels = store.labels
        /\ r.ok => r.db.entries = [store.entries EXCEPT ![b] = Overlay(new, @)]
        /\ ~r.ok => r.db.entries = store.entries
    BY <1>2, RemoveFieldsOutcome DEF new, Fields
  <2>2. store.entries \in [Bundles -> Entries]
    BY <1>2 DEF Store
  <2>3. CASE r.ok = TRUE
    <3>1. /\ r.db.entries[b] = Overlay(new, store.entries[b])
          /\ \A o \in Bundles \ {b} : r.db.entries[o] = store.entries[o]
      BY <2>1, <2>2, <2>3
    <3>2. BundlePart \notin torn /\ b \in Compatible /\ r.db.entries[b][Name] # None
            => BundleInfo(info, b) = Parse(r.db.entries[b])
      BY <1>5, <1>7, <1>8, <1>9, <3>1
    <3> QED
      BY <1>1, <1>2, <1>6, <2>1, <2>3, <3>1, <3>2, OneBundle
  <2>4. CASE r.ok = FALSE
    <3>1. r.db.entries = store.entries
      BY <2>1, <2>4
    <3>2. BundlePart \notin torn /\ b \in Compatible /\ r.db.entries[b][Name] # None
            => BundleInfo(preferencesInfo, b) = Parse(r.db.entries[b])
      BY <1>9, <3>1 DEF own
    <3> QED
      BY <1>1, <1>2, <1>6, <2>1, <2>4, <3>1, <3>2, OneBundle
  <2> QED
    BY <2>1, <2>3, <2>4
<1> QED
  BY <1>6, <1>10, SetterKeeps DEF Remove, info, new

LEMMA RemoveBundleKeeps ==
  ASSUME Faults \subseteq {"write"}, IInv, NEW b \in Bundles,
         RemoveNotificationForBundle(b)
  PROVE  IInv'
<1> DEFINE info == [preferencesInfo EXCEPT !.bundles[b] = Unknown]
<1>1. Idle
  BY DEF RemoveNotificationForBundle, Setter
<1>2. preferencesInfo \in Info /\ store \in Store /\ b \in store.labels
  BY <1>1, AtRest DEF RemoveNotificationForBundle, Known
<1>3. /\ info \in Info
      /\ \A o \in Bundles \ {b} : info.bundles[o] = preferencesInfo.bundles[o]
  BY <1>2 DEF Info
<1>4. BundlePart \notin torn /\ b \in Compatible /\ store.entries[b][Name] # None
        => BundleInfo(preferencesInfo, b) = Parse(store.entries[b])
  BY <1>1, AtRest
<1>5. store.entries \in [Bundles -> Entries]
  BY <1>2 DEF Store
<1> HIDE DEF info
<1>6. ASSUME NEW r \in RemoveFields(store, b, Fields)
      PROVE  Fits(info, r)
  <2>1. /\ r.ok \in BOOLEAN /\ r.db \in Store /\ r.db.labels = store.labels
        /\ r.ok => r.db.entries = [store.entries EXCEPT
                      ![b] = Overlay([f \in Fields |-> None], @)]
        /\ ~r.ok => r.db.entries = store.entries
    BY <1>2, RemoveFieldsOutcome
  <2>2. CASE r.ok = TRUE
    <3>1. /\ r.db.entries[b] = Overlay([f \in Fields |-> None], store.entries[b])
          /\ \A o \in Bundles \ {b} : r.db.entries[o] = store.entries[o]
      BY <1>5, <2>1, <2>2
    <3>2. r.db.entries[b][Name] = None
      BY <1>5, <3>1 DEF Overlay, Entries, Fields
    <3> QED
      BY <1>1, <1>2, <1>3, <2>1, <2>2, <3>1, <3>2, OneBundle
  <2>3. CASE r.ok = FALSE
    <3>1. r.db.entries = store.entries
      BY <2>1, <2>3
    <3> QED
      BY <1>1, <1>2, <1>3, <1>4, <2>1, <2>3, <3>1, OneBundle
  <2> QED
    BY <2>1, <2>2, <2>3
<1> QED
  BY <1>3, <1>6, SetterKeeps DEF RemoveNotificationForBundle, info

(* A setting of a user: bundles are as they were.                          *)
LEMMA SetUserKeeps ==
  ASSUME Faults \subseteq {"write"}, IInv, NEW u \in Users,
         NEW s \in {"date", "enable"}, NEW v \in Values, SetUserSetting(u, s, v)
  PROVE  IInv'
<1> DEFINE info == [preferencesInfo EXCEPT !.users[u][s] = v]
<1>1. Idle
  BY DEF SetUserSetting, Setter
<1>2. info \in Info /\ info.bundles = preferencesInfo.bundles
  BY <1>1, AtRest DEF Info
<1> HIDE DEF info
<1>3. ASSUME NEW r \in PutUser(store, u, s, v)
      PROVE  Fits(info, r)
  <2>1. /\ r.ok \in BOOLEAN /\ r.db \in Store
        /\ r.db.labels = store.labels /\ r.db.entries = store.entries
    BY <1>1, AtRest, PutUserOutcome
  <2> QED
    BY <1>1, <1>2, <2>1, AtRest DEF Fits, BundleInfo
<1> QED
  BY <1>2, <1>3, SetterKeeps DEF SetUserSetting, info

LEMMA RemoveSettingsKeeps ==
  ASSUME Faults \subseteq {"write"}, IInv, NEW u \in Users, RemoveSettings(u)
  PROVE  IInv'
<1>1. Idle /\ reload' = Disturbed /\ torn' = Torn /\ copy' = copy /\ copy = None
  BY DEF RemoveSettings, Idle
<1>2. PICK r \in PutUser(store, u, "enable", None) :
        \E q \in PutUser(r.db, u, "date", None) : store' = q.db
  BY DEF RemoveSettings
<1>3. PICK q \in PutUser(r.db, u, "date", None) : store' = q.db
  BY <1>2
<1>4. /\ r.db \in Store /\ r.db.labels = store.labels
      /\ r.db.entries = store.entries
  BY <1>1, AtRest, PutUserOutcome
<1>5. /\ store' \in Store /\ store'.labels = store.labels
      /\ store'.entries = store.entries
  BY <1>3, <1>4, PutUserOutcome
<1>6. preferencesInfo' \in Info /\ preferencesInfo'.bundles = preferencesInfo.bundles
  <2>1. preferencesInfo' = [preferencesInfo EXCEPT !.users[u] = NoSettings]
    BY DEF RemoveSettings
  <2> QED
    BY <1>1, <2>1, AtRest DEF Info, NoSettings
<1>7. /\ reload' \in Reload \cup {None} /\ torn' \subseteq Parts
      /\ ReloadShape' /\ CleanReload' /\ StartUndisturbed' /\ Started'
      /\ BundlePart \notin torn' => BundlePart \notin torn /\ reload = None
  BY <1>1, <1>5, DisturbedKeeps DEF Idle
<1>8. Settled' = preferencesInfo'
  BY <1>1 DEF Settled
<1>9. TypeOK' /\ Labelled' /\ MemoryIsStore'
  <2>1. TypeOK'
    BY <1>1, <1>5, <1>6, <1>7 DEF TypeOK, Parts
  <2>2. Labelled'
    BY <1>1, <1>5, <1>6, <1>8, AtRest DEF Labelled
  <2>3. MemoryIsStore'
    BY <1>1, <1>5, <1>6, <1>7, <1>8, AtRest DEF MemoryIsStore, BundleInfo
  <2> QED
    BY <2>1, <2>2, <2>3
<1> QED
  BY <1>7, <1>9 DEF IInv

LEMMA BundleCallKeeps ==
  ASSUME Faults \subseteq {"write"}, IInv, NEW b \in Bundles, BundleCall(b)
  PROVE  IInv'
<1>1. ASSUME NEW fields, NEW v \in Values, Put(b, [f \in fields |-> v]),
             fields \subseteq Properties \cup SlotTypes \cup Groups
      PROVE  IInv'
  <2>1. DOMAIN [f \in fields |-> v] \subseteq Fields \ {Name}
    BY <1>1, FieldsAssumption DEF Fields
  <2> QED
    BY <1>1, <2>1, PutKeeps
<1>2. ASSUME NEW p \in Properties, NEW v \in Values, SetBundleProperty(b, p, v)
      PROVE  IInv'
  BY <1>1, <1>2 DEF SetBundleProperty
<1>3. ASSUME NEW types \in SUBSET SlotTypes, NEW v \in Values,
             AddNotificationSlots(b, types, v)
      PROVE  IInv'
  BY <1>1, <1>3 DEF AddNotificationSlots
<1>4. ASSUME NEW ids \in SUBSET Groups, NEW v \in Values,
             AddNotificationSlotGroups(b, ids, v)
      PROVE  IInv'
  BY <1>1, <1>4 DEF AddNotificationSlotGroups
<1>5. ASSUME NEW fields \in (SUBSET SlotTypes) \cup (SUBSET Groups),
             NEW v \in Values, Update(b, fields, v)
      PROVE  IInv'
  BY <1>1, <1>5 DEF Update
<1>6. ASSUME NEW t \in SlotTypes, RemoveNotificationSlot(b, t)
      PROVE  IInv'
  BY <1>6, RemoveKeeps DEF RemoveNotificationSlot, Holds
<1>7. ASSUME NEW ids \in SUBSET Groups, RemoveNotificationSlotGroups(b, ids)
      PROVE  IInv'
  BY <1>7, RemoveKeeps DEF RemoveNotificationSlotGroups, Holds
<1>8. ASSUME RemoveNotificationAllSlots(b)
      PROVE  IInv'
  BY <1>8, RemoveKeeps DEF RemoveNotificationAllSlots
<1> QED
  BY <1>2, <1>3, <1>4, <1>5, <1>6, <1>7, <1>8, RemoveBundleKeeps DEF BundleCall

----------------------------------------------------------------------------
(* The steps that no call takes.                                           *)

(* Bundles, labels and entries as they were leave what was said of them.   *)
LEMMA BundlesKept ==
  ASSUME Settled'.bundles = Settled.bundles,
         store'.labels = store.labels, store'.entries = store.entries
  PROVE  /\ Labelled => Labelled'
         /\ \A b \in Compatible : Agrees(b) => Agrees(b)'
         /\ /\ MemoryIsStore
            /\ Started' /\ BundlePart \notin torn' =>
                 Started /\ BundlePart \notin torn
            => MemoryIsStore'
BY DEF Labelled, Agrees, MemoryIsStore, BundleInfo

LEMMA CommitKeeps ==
  ASSUME IInv, Commit
  PROVE  IInv'
<1>1. /\ copy # None /\ preferencesInfo' = copy /\ copy' = None
      /\ reload' = Disturbed /\ torn' = Torn /\ store' = store
  BY DEF Commit
<1>2. Started
  BY <1>1 DEF IInv, StartUndisturbed
<1>3. /\ reload' \in Reload \cup {None} /\ torn' \subseteq Parts
      /\ ReloadShape' /\ CleanReload' /\ StartUndisturbed' /\ Started'
      /\ BundlePart \notin torn' => BundlePart \notin torn /\ reload = None
  BY <1>1, <1>2, DisturbedKeeps DEF Started
<1>4. Settled' = Settled
  BY <1>1 DEF Settled
<1>5. TypeOK'
  BY <1>1, <1>3 DEF IInv, TypeOK, Parts
<1>6. Labelled' /\ MemoryIsStore'
  BY <1>1, <1>2, <1>3, <1>4, BundlesKept DEF IInv
<1> QED
  BY <1>3, <1>5, <1>6 DEF IInv

LEMMA StoreDeathKeeps ==
  ASSUME IInv, StoreDeathRecipient
  PROVE  IInv'
<1>1. /\ store' \in Store
      /\ store'.labels = store.labels /\ store'.entries = store.entries
  BY DEF StoreDeathRecipient, IInv, TypeOK, Store
<1>2. UNCHANGED <<preferencesInfo, copy, reload, torn>>
  BY DEF StoreDeathRecipient
<1>3. Settled' = Settled /\ Started' = Started
  BY <1>2 DEF Settled, Started
<1>4. TypeOK' /\ ReloadShape' /\ StartUndisturbed'
  BY <1>1, <1>2, <1>3 DEF IInv, TypeOK, ReloadShape, StartUndisturbed
<1>5. Labelled' /\ MemoryIsStore' /\ \A b \in Compatible : Agrees(b) => Agrees(b)'
  BY <1>1, <1>2, <1>3, BundlesKept DEF IInv
<1>6. CleanReload'
  BY <1>1, <1>2, <1>5 DEF IInv, CleanReload
<1> QED
  BY <1>4, <1>5, <1>6 DEF IInv

LEMMA UserSwitchedKeeps ==
  ASSUME IInv, NEW u \in Users, UserSwitched(u)
  PROVE  IInv'
<1>1. /\ reload = None /\ UNCHANGED <<preferencesInfo, store, copy>>
      /\ reload' = [Parsing(u, FALSE) EXCEPT !.clean = copy = None]
      /\ torn' = IF copy = None THEN torn ELSE Parts
  BY DEF UserSwitched
<1>2. /\ reload' \in Reload /\ reload'.left = None /\ reload'.seen = None
      /\ reload'.todo = UserSettings /\ reload'.clean = (copy = None)
      /\ reload'.starting = FALSE
  <2>1. Parsing(u, FALSE) \in Reload
    BY DEF Parsing, Reload
  <2> QED
    BY <1>1, <2>1 DEF Parsing, Reload
<1>3. UserSettings # <<>>
  BY DEF UserSettings
<1>4. Settled' = Settled /\ Started' /\ Started
  BY <1>1, <1>2 DEF Settled, Started
<1>5. TypeOK'
  BY <1>1, <1>2 DEF IInv, TypeOK, Parts
<1>6. ReloadShape' /\ CleanReload' /\ StartUndisturbed'
  BY <1>1, <1>2, <1>3, <1>4
     DEF ReloadShape, CleanReload, StartUndisturbed, Parts
<1>7. BundlePart \notin torn' => BundlePart \notin torn
  BY <1>1 DEF Parts
<1>8. Labelled' /\ MemoryIsStore'
  BY <1>1, <1>4, <1>7, BundlesKept DEF IInv
<1> QED
  BY <1>5, <1>6, <1>8 DEF IInv

LEMMA ReadUserSettingKeeps ==
  ASSUME Faults \subseteq {"write"}, IInv, ReadUserSetting
  PROVE  IInv'
<1>1. /\ reload # None /\ reload.todo # <<>> /\ reload.seen = None
      /\ UNCHANGED <<preferencesInfo, copy, torn>>
  BY DEF ReadUserSetting
<1>2. PICK db \in CheckKvStore(store) :
        /\ store' = db
        /\ IF db.connected
             THEN \E v \in Reads(db.users[reload.user][Head(reload.todo)]) :
                    reload' = [reload EXCEPT !.seen = [value |-> v]]
             ELSE reload' = [reload EXCEPT !.todo = Tail(@), !.clean = FALSE]
  BY DEF ReadUserSetting
<1>3. store \in Store /\ reload \in Reload
  BY <1>1 DEF IInv, TypeOK
<1>4. /\ store' \in Store /\ db.connected /\ store'.users = store.users
      /\ store'.labels = store.labels /\ store'.entries = store.entries
  <2>1. store' = [store EXCEPT !.connected = TRUE]
    BY <1>2, Connects
  <2> QED
    BY <1>2, <1>3, <2>1 DEF Store
<1>5. PICK v \in Reads(store.users[reload.user][Head(reload.todo)]) :
        reload' = [reload EXCEPT !.seen = [value |-> v]]
  BY <1>2, <1>4
<1>6. v \in Values \cup {None, Failed}
  <2>1. Head(reload.todo) \in {"date", "enable"}
    BY <1>1, <1>3 DEF Reload, UserSettings
  <2>2. store.users[reload.user] \in [{"date", "enable"} -> Values \cup {None}]
    BY <1>3 DEF Reload, Store
  <2> QED
    BY <2>1, <2>2 DEF Reads
<1>7. /\ reload' \in Reload /\ reload'.todo = reload.todo
      /\ reload'.left = reload.left /\ reload'.clean = reload.clean
      /\ reload'.starting = reload.starting
      /\ reload'.seen \in [value : Values \cup {None, Failed}]
  BY <1>3, <1>5, <1>6 DEF Reload
<1> QED
  <2>1. Settled' = Settled /\ Started' = Started
    BY <1>1, <1>7, NoneAssumption DEF Settled, Started
  <2>2. TypeOK'
    BY <1>1, <1>4, <1>7 DEF IInv, TypeOK
  <2>3. Labelled' /\ MemoryIsStore'
    BY <1>1, <1>4, <2>1, BundlesKept DEF IInv
  <2>4. reload.left = None
    BY <1>1 DEF IInv, ReloadShape
  <2>5. ReloadShape' /\ CleanReload' /\ StartUndisturbed'
    BY <1>1, <1>4, <1>7, <2>1, <2>4, NoneAssumption
       DEF IInv, ReloadShape, CleanReload, StartUndisturbed
  <2> QED
    BY <2>2, <2>3, <2>5 DEF IInv

LEMMA UserSettingReadKeeps ==
  ASSUME Faults \subseteq {"write"}, IInv, UserSettingRead
  PROVE  IInv'
<1> DEFINE u == reload.user
           s == Head(reload.todo)
           found == reload.seen.value
           held == preferencesInfo.users[u][s]
           kept == IF held = None THEN DefaultSetting[s] ELSE held
           value == IF found \in Values THEN found
                    ELSE IF found = Failed /\ s = "enable" THEN held
                    ELSE kept
<1>1. /\ reload # None /\ reload.todo # <<>> /\ reload.seen # None
      /\ preferencesInfo' = [preferencesInfo EXCEPT !.users[u][s] = value]
      /\ IF found = None
           THEN \E r \in PutUser(store, u, s, kept) : store' = r.db
           ELSE UNCHANGED store
      /\ reload' = [reload EXCEPT !.todo = Tail(@), !.seen = None]
      /\ torn' = IF copy = None THEN torn ELSE Parts
      /\ copy' = copy
  BY DEF UserSettingRead
<1>2. preferencesInfo \in Info /\ store \in Store /\ reload \in Reload
  BY <1>1 DEF IInv, TypeOK
<1>3. s \in {"date", "enable"} /\ u \in Users
  BY <1>1, <1>2 DEF Reload, UserSettings
<1>4. held \in Values \cup {None} /\ kept \in Values \cup {None}
      /\ value \in Values \cup {None}
  BY <1>2, <1>3, ValuesAssumption DEF Info, DefaultSetting
<1> HIDE DEF value, kept
<1>5. preferencesInfo' \in Info /\ preferencesInfo'.bundles = preferencesInfo.bundles
  <2> HIDE DEF u, s
  <2> QED
    BY <1>1, <1>2, <1>3, <1>4 DEF Info
<1>6. /\ store' \in Store
      /\ store'.labels = store.labels /\ store'.entries = store.entries
  BY <1>1, <1>2, <1>3, <1>4, PutUserOutcome
<1>7. /\ reload' \in Reload /\ reload'.seen = None
      /\ reload'.left = reload.left /\ reload'.clean = reload.clean
      /\ reload'.starting = reload.starting
  <2>1. Tail(reload.todo) \in {Tail(UserSettings), <<>>}
    <3>1. Tail(Tail(UserSettings)) = <<>>
      BY DEF UserSettings
    <3>2. reload.todo \in {UserSettings, Tail(UserSettings)}
      BY <1>1, <1>2 DEF Reload
    <3> QED
      BY <3>1, <3>2
  <2> QED
    BY <1>1, <1>2, <2>1 DEF Reload
<1>8. /\ reload.left = None
  BY <1>1 DEF IInv, ReloadShape
<1> QED
  <2>1. Settled'.bundles = Settled.bundles /\ Started' = Started
    BY <1>1, <1>5, <1>7, NoneAssumption DEF Settled, Started
  <2>2. torn' \subseteq Parts /\ (BundlePart \notin torn' => BundlePart \notin torn)
    BY <1>1 DEF Parts, IInv, TypeOK
  <2>3. TypeOK'
    BY <1>1, <1>5, <1>6, <1>7, <2>2 DEF IInv, TypeOK, Parts
  <2>4. Labelled' /\ MemoryIsStore'
    BY <1>6, <2>1, <2>2, BundlesKept DEF IInv
  <2>5. ReloadShape' /\ CleanReload' /\ StartUndisturbed'
    BY <1>1, <1>7, <1>8, <2>1, <2>2, NoneAssumption
       DEF IInv, ReloadShape, CleanReload, StartUndisturbed, Parts
  <2> QED
    BY <2>3, <2>4, <2>5 DEF IInv

LEMMA ReadLabelsKeeps ==
  ASSUME Faults \subseteq {"write"}, IInv, ReadLabels
  PROVE  IInv'
<1>1. /\ reload # None /\ reload.todo = <<>> /\ reload.left = None
      /\ UNCHANGED <<preferencesInfo, copy, torn>>
  BY DEF ReadLabels
<1>2. store \in Store /\ reload \in Reload
  BY <1>1 DEF IInv, TypeOK
<1>3. /\ store' = [store EXCEPT !.connected = TRUE]
      /\ reload' = [reload EXCEPT !.left = store'.labels]
  <2>1. PICK db \in CheckKvStore(store) :
          /\ store' = db
          /\ \/ /\ db.connected
                /\ reload' = [reload EXCEPT !.left = db.labels]
             \/ /\ ~db.connected \/ "read" \in Faults
                /\ reload' = [reload EXCEPT !.left = {}, !.clean = FALSE]
    BY DEF ReadLabels
  <2>2. db = [store EXCEPT !.connected = TRUE]
    BY Connects
  <2> QED
    BY <1>2, <2>1, <2>2 DEF Store
<1>4. /\ store' \in Store
      /\ store'.labels = store.labels /\ store'.entries = store.entries
  BY <1>2, <1>3 DEF Store
<1>5. store.labels \subseteq Bundles /\ reload.seen = None
  BY <1>1, <1>2 DEF Store, IInv, ReloadShape
<1>6. /\ reload' \in Reload /\ reload'.todo = <<>> /\ reload'.seen = None
      /\ reload'.left = store.labels /\ reload'.clean = reload.clean
      /\ reload'.starting = reload.starting
  BY <1>1, <1>2, <1>3, <1>4, <1>5 DEF Reload
<1>7. Settled' = Settled /\ Started' = Started
  BY <1>1, <1>6, NoneAssumption DEF Settled, Started
<1>8. TypeOK'
  BY <1>1, <1>4, <1>6 DEF IInv, TypeOK
<1>9. Labelled' /\ MemoryIsStore'
  BY <1>1, <1>4, <1>7, BundlesKept DEF IInv
<1>10. \A b \in Compatible \ store'.labels : Agrees(b)'
  <2>1. \A b \in Compatible \ store'.labels : store'.entries[b] = NoEntries
    BY <1>9, LimitsAssumption DEF Labelled
  <2>2. NoEntries[Name] = None
    BY DEF NoEntries, Fields
  <2> QED
    BY <2>1, <2>2 DEF Agrees
<1>11. ReloadShape' /\ StartUndisturbed' /\ CleanReload'
  <2>1. ReloadShape' /\ StartUndisturbed'
    BY <1>1, <1>4, <1>6, <1>7 DEF IInv, ReloadShape, StartUndisturbed
  <2>2. CleanReload'
    BY <1>1, <1>4, <1>6, <1>10 DEF IInv, CleanReload
  <2> QED
    BY <2>1, <2>2
<1> QED
  BY <1>8, <1>9, <1>11 DEF IInv

LEMMA ReadBundleKeeps ==
  ASSUME Faults \subseteq {"write"}, IInv, NEW b \in Bundles, ReadBundle(b)
  PROVE  IInv'
<1> DEFINE kept == Overlay([f \in {} |-> None], store.entries[b])
<1>1. /\ reload # None /\ reload.todo = <<>> /\ reload.left # None
      /\ reload.seen = None /\ b \in reload.left
      /\ UNCHANGED <<preferencesInfo, store, copy, torn>>
  BY DEF ReadBundle
<1>2. store \in Store /\ reload \in Reload /\ reload.left \subseteq store.labels
  BY <1>1 DEF IInv, TypeOK, ReloadShape
<1>3. reload' = [reload EXCEPT !.left = @ \ {b},
                               !.seen = [bundle |-> b, entries |-> kept],
                               !.clean = @ /\ TRUE]
  BY DEF ReadBundle
<1>4. kept = store.entries[b] /\ kept \in Entries
  BY <1>2 DEF Overlay, Store, Entries
<1> HIDE DEF kept
<1>5. /\ reload' \in Reload /\ reload'.todo = <<>>
      /\ reload'.left = reload.left \ {b} /\ reload'.left \in SUBSET Bundles
      /\ reload'.seen = [bundle |-> b, entries |-> kept]
      /\ reload'.clean = reload.clean /\ reload'.starting = reload.starting
  BY <1>1, <1>2, <1>3, <1>4 DEF Reload
<1>6. reload' # None /\ reload'.left # None /\ reload'.seen # None
  BY <1>4, <1>5, NoneAssumption
<1>7. Settled' = Settled /\ Started' = Started
  BY <1>1, <1>5, <1>6 DEF Settled, Started
<1>8. TypeOK'
  BY <1>1, <1>5 DEF IInv, TypeOK
<1>9. Labelled' /\ MemoryIsStore' /\ \A c \in Compatible : Agrees(c) => Agrees(c)'
  BY <1>1, <1>7, BundlesKept DEF IInv
<1>10. ReloadShape' /\ StartUndisturbed'
  BY <1>1, <1>2, <1>4, <1>5, <1>6, <1>7 DEF IInv, ReloadShape, StartUndisturbed
<1>11. CleanReload'
  <2>1. CASE reload.clean = TRUE
    <3>1. /\ copy = None
          /\ \A c \in Compatible \ reload.left : Agrees(c)
      BY <1>1, <2>1 DEF IInv, CleanReload
    <3>2. reload'.seen.bundle = b /\ reload'.seen.entries = store'.entries[b]
      BY <1>1, <1>4, <1>5
    <3>3. \A c \in Compatible \ reload'.left : c # b => Agrees(c)'
      BY <1>5, <1>9, <3>1
    <3> QED
      BY <1>1, <1>5, <1>6, <2>1, <3>1, <3>2, <3>3 DEF CleanReload
  <2>2. CASE reload.clean = FALSE
    BY <1>1, <1>5, <2>2 DEF IInv, CleanReload
  <2> QED
    BY <1>2, <2>1, <2>2 DEF Reload
<1> QED
  BY <1>8, <1>9, <1>10, <1>11 DEF IInv

LEMMA BundleReadKeeps ==
  ASSUME IInv, BundleRead
  PROVE  IInv'
<1> DEFINE b == reload.seen.bundle
           entries == reload.seen.entries
<1>1. /\ reload # None /\ reload.todo = <<>> /\ reload.seen # None
      /\ preferencesInfo' = IF entries[Name] = None THEN preferencesInfo
                            ELSE [preferencesInfo EXCEPT !.bundles[b] = Parse(entries)]
      /\ reload' = [reload EXCEPT !.seen = None]
      /\ torn' = IF copy = None THEN torn ELSE Parts
      /\ store' = store /\ copy' = copy
  BY DEF BundleRead
<1>2. /\ preferencesInfo \in Info /\ store \in Store /\ reload \in Reload
      /\ b \in Bundles /\ entries \in Entries
      /\ b \in store.labels /\ reload.left # None
  BY <1>1 DEF IInv, TypeOK, ReloadShape
<1>3. reload.clean = TRUE =>
        /\ copy = None /\ entries = store.entries[b]
        /\ \A c \in Compatible \ reload.left : c # b => Agrees(c)
  BY <1>1, <1>2 DEF IInv, CleanReload
<1>4. reload.clean = FALSE => BundlePart \in torn /\ ~reload.starting
  BY <1>1 DEF IInv, CleanReload
<1> HIDE DEF b, entries
<1>5. Parse(entries) \in Entries
  <2>1. DOMAIN [f \in {} |-> None] = {}
    OBVIOUS
  <2> QED
    BY <1>2, <2>1, ParseOverlay
<1>6. /\ preferencesInfo' \in Info
      /\ \A c \in Bundles \ {b} : preferencesInfo'.bundles[c] = preferencesInfo.bundles[c]
      /\ entries[Name] # None => preferencesInfo'.bundles[b] = Parse(entries)
  BY <1>1, <1>2, <1>5 DEF Info
<1>7. /\ reload' \in Reload /\ reload' # None /\ reload'.seen = None
      /\ reload'.todo = <<>> /\ reload'.left = reload.left
      /\ reload'.clean = reload.clean /\ reload'.starting = reload.starting
  BY <1>1, <1>2, NoneAssumption DEF Reload
<1>8. Started' = Started
  BY <1>1, <1>7 DEF Started
<1>9. /\ torn' \subseteq Parts
      /\ BundlePart \notin torn' => BundlePart \notin torn /\ copy = None
  BY <1>1 DEF Parts, IInv, TypeOK
<1>10. TypeOK'
  BY <1>1, <1>6, <1>7, <1>9 DEF IInv, TypeOK, Parts
<1>11. Labelled'
  <2>1. CASE copy = None
    <3>1. Settled = preferencesInfo /\ Settled' = preferencesInfo'
      BY <1>1, <2>1 DEF Settled
    <3> QED
      BY <1>1, <1>2, <1>6, <3>1 DEF IInv, Labelled
  <2>2. CASE copy # None
    BY <1>1, <2>2 DEF IInv, Labelled, Settled
  <2> QED
    BY <2>1, <2>2
<1>12. ReloadShape' /\ StartUndisturbed'
  BY <1>1, <1>7, <1>8, <1>9 DEF IInv, ReloadShape, StartUndisturbed
<1>13. ASSUME copy = None, entries = store.entries[b], NEW c \in Compatible,
              c # b => Agrees(c)
       PROVE  Agrees(c)'
  <2>1. Settled = preferencesInfo /\ Settled' = preferencesInfo' /\ c \in Bundles
    BY <1>1, <1>13, LimitsAssumption DEF Settled
  <2>2. CASE c = b
    <3>1. store'.entries[c][Name] # None => preferencesInfo'.bundles[c] = Parse(entries)
      BY <1>1, <1>6, <1>13, <2>2
    <3>2. Parse(entries) # Unknown
      BY <1>5, ValuesAssumption DEF Entries
    <3> QED
      BY <1>1, <1>13, <2>1, <2>2, <3>1, <3>2 DEF Agrees, BundleInfo
  <2>3. CASE c # b
    <3>1. Settled'.bundles[c] = Settled.bundles[c]
      BY <1>6, <2>1, <2>3
    <3> QED
      BY <1>1, <1>13, <2>3, <3>1 DEF Agrees, BundleInfo
  <2> QED
    BY <2>2, <2>3
<1>14. CleanReload' /\ MemoryIsStore'
  <2>1. CASE reload.clean = TRUE
    <3>1. \A c \in Compatible \ reload'.left : Agrees(c)'
      BY <1>3, <1>7, <1>13, <2>1
    <3>2. Started /\ BundlePart \notin torn => \A c \in Compatible : Agrees(c)
      BY DEF IInv, MemoryIsStore, Agrees
    <3>3. Started' /\ BundlePart \notin torn' => \A c \in Compatible : Agrees(c)'
      BY <1>3, <1>8, <1>9, <1>13, <2>1, <3>2
    <3>4. MemoryIsStore'
      BY <3>3 DEF MemoryIsStore, Agrees
    <3> QED
      BY <1>1, <1>3, <1>7, <2>1, <3>1, <3>4 DEF CleanReload
  <2>2. CASE reload.clean = FALSE
    BY <1>4, <1>7, <1>9, <2>2 DEF CleanReload, MemoryIsStore
  <2> QED
    BY <1>2, <2>1, <2>2 DEF Reload
<1> QED
  BY <1>10, <1>11, <1>12, <1>14 DEF IInv

LEMMA ReloadEndKeeps ==
  ASSUME IInv, ReloadEnd
  PROVE  IInv'
<1>1. /\ reload # None /\ reload.left = {} /\ reload.seen = None /\ reload' = None
      /\ torn' = IF reload.clean THEN torn \ {reload.user, BundlePart} ELSE torn
      /\ UNCHANGED <<preferencesInfo, store, copy>>
  BY DEF ReloadEnd
<1>2. reload.left # None
  BY <1>1, NoneAssumption
<1>3. IF reload.clean THEN \A b \in Compatible : Agrees(b)
      ELSE BundlePart \in torn
  BY <1>1, <1>2 DEF IInv, CleanReload
<1>4. Settled' = Settled /\ Started'
  BY <1>1 DEF Settled, Started
<1>5. Labelled' /\ \A b \in Compatible : Agrees(b) => Agrees(b)'
  BY <1>1, <1>4, BundlesKept DEF IInv
<1>6. MemoryIsStore'
  BY <1>1, <1>3, <1>5 DEF MemoryIsStore, Agrees
<1>7. TypeOK'
  BY <1>1 DEF IInv, TypeOK
<1>8. ReloadShape' /\ CleanReload' /\ StartUndisturbed'
  BY <1>1, <1>4 DEF ReloadShape, CleanReload, StartUndisturbed
<1> QED
  BY <1>5, <1>6, <1>7, <1>8 DEF IInv

LEMMA RestartKeeps ==
  ASSUME IInv, NEW u \in Users, Restart(u)
  PROVE  IInv'
<1>1. /\ preferencesInfo' = Nothing /\ copy' = None /\ torn' = {}
      /\ store' = [store EXCEPT !.connected = FALSE]
      /\ reload' = Parsing(u, TRUE)
  BY DEF Restart
<1>2. /\ store' \in Store
      /\ store'.labels = store.labels /\ store'.entries = store.entries
  BY <1>1 DEF IInv, TypeOK, Store
<1>3. Nothing \in Info /\ \A b \in Bundles : Nothing.bundles[b] = Unknown
  BY DEF Nothing, NoSettings, Info
<1>4. /\ reload' \in Reload /\ reload' # None /\ reload'.seen = None
      /\ reload'.left = None /\ reload'.todo = UserSettings
      /\ reload'.clean = TRUE /\ reload'.starting = TRUE
  <2>1. Parsing(u, TRUE) \in Reload
    BY DEF Parsing, Reload
  <2> QED
    BY <1>1, <2>1, NoneAssumption DEF Parsing
<1>5. UserSettings # <<>>
  BY DEF UserSettings
<1>6. Settled' = Nothing /\ ~Started'
  BY <1>1, <1>4 DEF Settled, Started
<1>7. TypeOK'
  BY <1>1, <1>2, <1>3, <1>4 DEF TypeOK
<1>8. Labelled'
  BY <1>2, <1>3, <1>6 DEF IInv, Labelled
<1>9. ReloadShape' /\ CleanReload' /\ StartUndisturbed' /\ MemoryIsStore'
  BY <1>1, <1>4, <1>5, <1>6
     DEF ReloadShape, CleanReload, StartUndisturbed, MemoryIsStore
<1> QED
  BY <1>7, <1>8, <1>9 DEF IInv

LEMMA InitInv ==
  Init => IInv
<1> SUFFICES ASSUME Init PROVE IInv
  OBVIOUS
<1>1. PICK u \in Users : reload = Parsing(u, TRUE)
  BY DEF Init
<1>2. /\ preferencesInfo = Nothing /\ copy = None /\ torn = {}
      /\ store = [connected |-> FALSE, labels |-> {},
                  entries |-> [b \in Bundles |-> NoEntries],
                  users |-> [v \in Users |-> NoSettings]]
  BY DEF Init
<1>3. /\ Nothing \in Info /\ \A b \in Bundles : Nothing.bundles[b] = Unknown
      /\ store \in Store
  BY <1>2, FreshDefaults DEF Nothing, NoSettings, Info, Store
<1>4. /\ reload \in Reload /\ reload # None /\ reload.seen = None
      /\ reload.left = None /\ reload.todo = UserSettings
      /\ reload.clean = TRUE /\ reload.starting = TRUE
  <2>1. Parsing(u, TRUE) \in Reload
    BY DEF Parsing, Reload
  <2> QED
    BY <1>1, <2>1, NoneAssumption DEF Parsing
<1>5. UserSettings # <<>>
  BY DEF UserSettings
<1>6. Settled = Nothing /\ ~Started
  BY <1>2, <1>4 DEF Settled, Started
<1>7. TypeOK /\ Labelled
  BY <1>2, <1>3, <1>4, <1>6 DEF TypeOK, Labelled
<1>8. ReloadShape /\ CleanReload /\ StartUndisturbed /\ MemoryIsStore
  BY <1>2, <1>4, <1>5, <1>6
     DEF ReloadShape, CleanReload, StartUndisturbed, MemoryIsStore
<1> QED
  BY <1>7, <1>8 DEF IInv

LEMMA StepInv ==
  ASSUME Faults \subseteq {"write"}
  PROVE  IInv /\ [Next]_vars => IInv'
<1> SUFFICES ASSUME IInv, [Next]_vars PROVE IInv'
  OBVIOUS
<1>1. CASE \E b \in Bundles : BundleCall(b)
  BY <1>1, BundleCallKeeps
<1>2. CASE \E u \in Users : UserCall(u)
  BY <1>2, SetUserKeeps, RemoveSettingsKeeps DEF UserCall
<1>3. CASE Commit
  BY <1>3, CommitKeeps
<1>4. CASE StoreDeathRecipient
  BY <1>4, StoreDeathKeeps
<1>5. CASE \E u \in Users : UserSwitched(u) \/ Restart(u)
  BY <1>5, UserSwitchedKeeps, RestartKeeps
<1>6. CASE ReloadStep
  BY <1>6, ReadUserSettingKeeps, UserSettingReadKeeps, ReadLabelsKeeps,
     ReadBundleKeeps, BundleReadKeeps, ReloadEndKeeps DEF ReloadStep
<1>7. CASE UNCHANGED vars
  BY <1>7 DEF vars, IInv, TypeOK, Labelled, ReloadShape, CleanReload, Agrees,
     StartUndisturbed, MemoryIsStore, Settled, Started
<1> QED
  BY <1>1, <1>2, <1>3, <1>4, <1>5, <1>6, <1>7 DEF Next

----------------------------------------------------------------------------
(* Types and the settings of users, whatever else fails.                   *)

(* What a reload has read has the shape that its place in the order asks   *)
(* for.                                                                    *)
ReadShape ==
  reload # None =>
    /\ reload.todo # <<>> =>
         /\ reload.left = None
         /\ reload.seen \in {None} \cup [value : Values \cup {None, Failed}]
    /\ reload.todo = <<>> /\ reload.seen # None =>
         /\ reload.left # None
         /\ reload.seen \in [bundle : Bundles, entries : Entries]

Typed == TypeOK /\ ReadShape

(* The store connected, or not, keeps what it has. *)
LEMMA ConnectedStore ==
  ASSUME NEW db \in Store, NEW c \in CheckKvStore(db)
  PROVE  /\ c \in Store /\ c.users = db.users
         /\ c.labels = db.labels /\ c.entries = db.entries
BY DEF CheckKvStore, Store

(* A write that is accepted, or nothing but the connection. *)
LEMMA ReachedUsers ==
  ASSUME NEW db \in Store, NEW new \in Store, NEW r \in Reached(db, new)
  PROVE  /\ r.ok \in BOOLEAN /\ r.db \in Store
         /\ r.ok => r.db.users = new.users
         /\ ~r.ok => r.db.users = db.users
<1>1. PICK c \in CheckKvStore(db) :
        r \in IF c.connected THEN Write(c, [new EXCEPT !.connected = TRUE])
              ELSE {Outcome(c, FALSE)}
  BY DEF Reached
<1>2. c \in Store /\ c.users = db.users
  BY ConnectedStore
<1> DEFINE written == [new EXCEPT !.connected = TRUE]
<1>3. written \in Store /\ written.users = new.users
  BY DEF Store
<1> HIDE DEF written
<1>4. r \in {Outcome(written, TRUE), Outcome(c, FALSE)}
  BY <1>1 DEF Write, written
<1>5. /\ r.ok \in BOOLEAN
      /\ r.db \in {written, c}
      /\ r.ok => r.db = written
      /\ ~r.ok => r.db = c
  <2>1. CASE r = Outcome(written, TRUE)
    <3>1. r.ok = TRUE /\ r.db = written
      BY <2>1 DEF Outcome
    <3> QED BY <3>1
  <2>2. CASE r = Outcome(c, FALSE)
    <3>1. r.ok = FALSE /\ r.db = c
      BY <2>2 DEF Outcome
    <3> QED BY <3>1
  <2> QED BY <1>4, <2>1, <2>2
<1> QED BY <1>2, <1>3, <1>5

LEMMA PutUserUsers ==
  ASSUME NEW db \in Store, NEW u \in Users, NEW s \in {"date", "enable"},
         NEW v \in Values \cup {None}, NEW r \in PutUser(db, u, s, v)
  PROVE  /\ r.ok \in BOOLEAN /\ r.db \in Store
         /\ r.ok => r.db.users = [db.users EXCEPT ![u][s] = v]
         /\ ~r.ok => r.db.users = db.users
<1> DEFINE new == [db EXCEPT !.users[u][s] = v]
<1>1. new \in Store /\ new.users = [db.users EXCEPT ![u][s] = v]
  BY DEF Store
<1>2. r \in Reached(db, new)
  BY DEF PutUser
<1> HIDE DEF new
<1> QED BY <1>1, <1>2, ReachedUsers

LEMMA PutUserOthers ==
  ASSUME NEW db \in Store, NEW u \in Users, NEW s \in {"date", "enable"},
         NEW v \in Values \cup {None}, NEW r \in PutUser(db, u, s, v),
         NEW w \in Users, w # u
  PROVE  r.db.users[w] = db.users[w]
<1>1. db.users \in [Users -> [{"date", "enable"} -> Values \cup {None}]]
  BY DEF Store
<1>2. r.db.users = db.users \/ r.db.users = [db.users EXCEPT ![u][s] = v]
  BY PutUserUsers
<1> QED BY <1>1, <1>2

(* Fields of bundles are beside the settings of users. *)
LEMMA PutFieldsUsers ==
  ASSUME NEW db \in Store, NEW b \in Bundles, NEW new,
         \A f \in DOMAIN new : new[f] \in Values \cup {None},
         NEW r \in PutFields(db, b, new)
  PROVE  r.ok \in BOOLEAN /\ r.db \in Store /\ r.db.users = db.users
<1> DEFINE put(d) == [d EXCEPT !.entries[b] = Overlay(new, @)]
<1>1. PICK q \in CheckBundle(db, b) :
        r \in IF q.ok THEN Reached(q.db, put(q.db)) ELSE {q}
  BY DEF PutFields
<1>2. PICK c \in CheckKvStore(db) :
        q \in IF ~c.connected THEN {Outcome(c, TRUE)}
              ELSE (IF b \in c.labels THEN {Outcome(c, TRUE)}
                    ELSE PutBundleToDisturbeDB(c, b))
                   \cup (IF "read" \in Faults THEN {Outcome(c, FALSE)} ELSE {})
  BY <1>1 DEF CheckBundle
<1>3. c \in Store /\ c.users = db.users
  BY ConnectedStore
<1> DEFINE labelled == [c EXCEPT !.labels = @ \cup {b}]
           filled == [labelled EXCEPT !.entries[b] = Overlay(DefaultOf, @)]
<1>4. labelled \in Store /\ labelled.users = db.users
  BY <1>3 DEF Store
<1>5. filled \in Store /\ filled.users = db.users
  <2>1. Overlay(DefaultOf, labelled.entries[b]) \in Entries
    BY <1>4, ValuesAssumption, FieldsAssumption DEF Overlay, Store, Entries, Fields
  <2> HIDE DEF labelled
  <2> QED BY <1>4, <2>1 DEF Store
<1>6. q \in {Outcome(c, TRUE), Outcome(c, FALSE), Outcome(filled, TRUE),
             Outcome(labelled, FALSE)}
  BY <1>2, PutBundleOutcome
<1> HIDE DEF labelled, filled
<1>7. q.ok \in BOOLEAN /\ q.db \in {c, labelled, filled}
  <2>1. PICK db1 \in {c, labelled, filled}, ok1 \in BOOLEAN : q = Outcome(db1, ok1)
    BY <1>6
  <2>2. q.ok = ok1 /\ q.db = db1
    BY <2>1 DEF Outcome
  <2> QED BY <2>2
<1>8. q.db \in Store /\ q.db.users = db.users
  BY <1>3, <1>4, <1>5, <1>7
<1>9. put(q.db) \in Store /\ put(q.db).users = db.users
  <2>1. Overlay(new, q.db.entries[b]) \in Entries
    BY <1>8 DEF Overlay, Store, Entries
  <2> QED BY <1>8, <2>1 DEF Store
<1> HIDE DEF put
<1>10. CASE r = q
  BY <1>7, <1>8, <1>10
<1>11. CASE r \in Reached(q.db, put(q.db))
  BY <1>8, <1>9, <1>11, ReachedUsers
<1> QED BY <1>1, <1>10, <1>11

LEMMA RemoveFieldsUsers ==
  ASSUME NEW db \in Store, NEW b \in Bundles, NEW removed \in SUBSET Fields,
         NEW r \in RemoveFields(db, b, removed)
  PROVE  r.ok \in BOOLEAN /\ r.db \in Store /\ r.db.users = db.users
<1> DEFINE new == [db EXCEPT !.entries[b] = Overlay([f \in removed |-> None], @)]
<1>1. new \in Store /\ new.users = db.users
  <2>1. Overlay([f \in removed |-> None], db.entries[b]) \in Entries
    BY DEF Overlay, Store, Entries
  <2> QED BY <2>1 DEF Store
<1>2. \/ r \in Reached(db, new)
      \/ r \in {Outcome(c, FALSE) : c \in CheckKvStore(db)}
  BY DEF RemoveFields
<1> HIDE DEF new
<1>3. CASE r \in Reached(db, new)
  BY <1>1, <1>3, ReachedUsers
<1>4. CASE r \in {Outcome(c, FALSE) : c \in CheckKvStore(db)}
  <2>1. PICK c \in CheckKvStore(db) : r = Outcome(c, FALSE)
    BY <1>4
  <2>2. r.ok = FALSE /\ r.db = c
    BY <2>1 DEF Outcome
  <2> QED BY <2>2, ConnectedStore
<1> QED BY <1>2, <1>3, <1>4

(* A bundle with some of its fields changed is one. *)
LEMMA WithTyped ==
  ASSUME TypeOK, NEW b \in Bundles, NEW new,
         \A f \in DOMAIN new : new[f] \in Values \cup {None}
  PROVE  With(b, new) \in Info /\ With(b, new).users = preferencesInfo.users
<1> DEFINE own == BundleInfo(preferencesInfo, b)
<1>1. preferencesInfo \in Info
  BY DEF TypeOK
<1>2. own \in Entries
  BY <1>1, FreshDefaults
<1> HIDE DEF own
<1>3. Overlay(new, own) \in Entries
  BY <1>2 DEF Overlay, Entries
<1> QED BY <1>1, <1>3 DEF With, Info, own

(* What UserSettingsStored says of one setting. *)
Stored(u, s) ==
  Settled.users[u][s] # None =>
    store.users[u][s] \in {None, Settled.users[u][s]}

(* What a reload has read of a user's setting is what the store has, and   *)
(* the settings it is done with are right in memory, if nothing touched    *)
(* them since.                                                             *)
UserReload ==
  reload # None =>
    /\ /\ reload.clean \/ reload.user \notin torn
       /\ reload.todo # <<>> /\ reload.seen # None
       => reload.seen.value = store.users[reload.user][Head(reload.todo)]
    /\ reload.clean =>
         /\ copy = None
         /\ reload.todo # UserSettings => Stored(reload.user, "date")
         /\ reload.todo = <<>> => Stored(reload.user, "enable")

UserInv == UserReload /\ UserSettingsStored

(* Who disturbs a reload leaves nothing to be said of its user. *)
LEMMA TouchedReload ==
  ASSUME Typed, reload' = Disturbed, torn' = Torn
  PROVE  /\ reload' \in Reload \cup {None} /\ torn' \subseteq Parts
         /\ ReadShape' /\ UserReload'
         /\ \A u \in Users \ torn' : u \notin torn
<1>1. TypeOK
  BY DEF Typed
<1>2. /\ reload' \in Reload \cup {None}
      /\ reload = None => reload' = None
      /\ reload # None =>
           /\ reload' # None /\ ~reload'.clean
           /\ reload'.todo = reload.todo /\ reload'.left = reload.left
           /\ reload'.seen = reload.seen
  BY <1>1, DisturbedType
<1>3. torn' \subseteq Parts /\ \A u \in Users \ torn' : u \notin torn
  BY <1>1 DEF Torn, Parts, TypeOK
<1>4. ReadShape'
  BY <1>2 DEF Typed, ReadShape
<1>5. reload' # None => ~reload'.clean /\ reload'.user \in torn'
  BY <1>2 DEF Torn, Parts, Reload
<1>6. UserReload'
  BY <1>5 DEF UserReload
<1> QED BY <1>2, <1>3, <1>4, <1>6

(* A setter of a bundle's settings. *)
LEMMA SetterUsers ==
  ASSUME Typed, NEW info \in Info, NEW outcomes, Setter(info, outcomes),
         \A r \in outcomes : r.ok \in BOOLEAN /\ r.db \in Store
  PROVE  /\ Typed'
         /\ /\ UserInv
            /\ info.users = preferencesInfo.users
            /\ \A r \in outcomes : r.db.users = store.users
            => UserInv'
<1>1. PICK r \in outcomes : store' = r.db /\ copy' = IF r.ok THEN info ELSE None
  BY DEF Setter
<1>2. /\ copy = None /\ preferencesInfo' = preferencesInfo
      /\ reload' = Disturbed /\ torn' = Torn
  BY DEF Setter, Idle
<1>3. /\ reload' \in Reload \cup {None} /\ torn' \subseteq Parts
      /\ ReadShape' /\ UserReload'
      /\ \A u \in Users \ torn' : u \notin torn
  BY <1>2, TouchedReload
<1>4. Typed'
  BY <1>1, <1>2, <1>3 DEF Typed, TypeOK, Parts
<1>5. ASSUME UserInv, info.users = preferencesInfo.users, store'.users = store.users
      PROVE  UserInv'
  <2>1. Settled.users = preferencesInfo.users /\ Settled'.users = preferencesInfo.users
    BY <1>1, <1>2, <1>5 DEF Settled
  <2>2. UserSettingsStored'
    BY <1>3, <1>5, <2>1 DEF UserInv, UserSettingsStored
  <2> QED BY <1>3, <2>2 DEF UserInv
<1> QED BY <1>1, <1>4, <1>5

LEMMA PutUsers ==
  ASSUME Typed, NEW b \in Bundles, NEW new,
         \A f \in DOMAIN new : new[f] \in Values \cup {None}, Put(b, new)
  PROVE  Typed' /\ (UserInv => UserInv')
<1>1. With(b, new) \in Info /\ With(b, new).users = preferencesInfo.users
  BY WithTyped DEF Typed
<1>2. \A r \in PutFields(store, b, new) :
        r.ok \in BOOLEAN /\ r.db \in Store /\ r.db.users = store.users
  BY PutFieldsUsers DEF Typed, TypeOK
<1> QED BY <1>1, <1>2, SetterUsers DEF Put

LEMMA RemoveUsers ==
  ASSUME Typed, NEW b \in Bundles, NEW removed \in SUBSET Fields,
         Remove(b, removed)
  PROVE  Typed' /\ (UserInv => UserInv')
<1> DEFINE new == [f \in removed |-> None]
<1>1. With(b, new) \in Info /\ With(b, new).users = preferencesInfo.users
  BY WithTyped DEF Typed
<1>2. \A r \in RemoveFields(store, b, removed) :
        r.ok \in BOOLEAN /\ r.db \in Store /\ r.db.users = store.users
  BY RemoveFieldsUsers DEF Typed, TypeOK
<1> QED BY <1>1, <1>2, SetterUsers DEF Remove

LEMMA BundleCallUsers ==
  ASSUME Typed, NEW b \in Bundles, BundleCall(b)
  PROVE  Typed' /\ (UserInv => UserInv')
<1> DEFINE Goal == Typed' /\ (UserInv => UserInv')
<1>1. ASSUME NEW fields, NEW v \in Values, Put(b, [f \in fields |-> v])
      PROVE  Goal
  BY <1>1, PutUsers
<1>2. ASSUME NEW v \in Values,
             \/ \E p \in Properties : SetBundleProperty(b, p, v)
             \/ \E types \in SUBSET SlotTypes : AddNotificationSlots(b, types, v)
             \/ \E ids \in SUBSET Groups : AddNotificationSlotGroups(b, ids, v)
             \/ \E fields \in (SUBSET SlotTypes) \cup (SUBSET Groups) :
                  Update(b, fields, v)
      PROVE  Goal
  BY <1>1, <1>2 DEF SetBundleProperty, AddNotificationSlots,
                    AddNotificationSlotGroups, Update
<1>3. ASSUME \/ \E t \in SlotTypes : RemoveNotificationSlot(b, t)
             \/ \E ids \in SUBSET Groups : RemoveNotificationSlotGroups(b, ids)
             \/ RemoveNotificationAllSlots(b)
      PROVE  Goal
  <2>1. PICK removed \in SUBSET (SlotTypes \cup Groups) : Remove(b, removed)
    BY <1>3 DEF RemoveNotificationSlot, RemoveNotificationSlotGroups,
                RemoveNotificationAllSlots
  <2>2. removed \in SUBSET Fields
    BY DEF Fields
  <2> QED BY <2>1, <2>2, RemoveUsers
<1>4. ASSUME RemoveNotificationForBundle(b)
      PROVE  Goal
  <2> DEFINE info == [preferencesInfo EXCEPT !.bundles[b] = Unknown]
  <2>1. info \in Info /\ info.users = preferencesInfo.users
    BY DEF Typed, TypeOK, Info
  <2>2. \A r \in RemoveFields(store, b, Fields) :
          r.ok \in BOOLEAN /\ r.db \in Store /\ r.db.users = store.users
    BY RemoveFieldsUsers DEF Typed, TypeOK
  <2> HIDE DEF info
  <2> QED
    BY <1>4, <2>1, <2>2, SetterUsers DEF RemoveNotificationForBundle, info
<1> QED BY <1>2, <1>3, <1>4 DEF BundleCall

(* A setting that is committed is the one the store took. *)
LEMMA SetUserUsers ==
  ASSUME Typed, NEW u \in Users, NEW s \in {"date", "enable"}, NEW v \in Values,
         SetUserSetting(u, s, v)
  PROVE  Typed' /\ (UserInv => UserInv')
<1> DEFINE info == [preferencesInfo EXCEPT !.users[u][s] = v]
           outcomes == PutUser(store, u, s, v)
<1>1. /\ preferencesInfo \in Info /\ store \in Store
      /\ info \in Info
      /\ info.users = [preferencesInfo.users EXCEPT ![u][s] = v]
  BY DEF Typed, TypeOK, Info
<1>2. \A r \in outcomes : /\ r.ok \in BOOLEAN /\ r.db \in Store
                          /\ r.ok => r.db.users = [store.users EXCEPT ![u][s] = v]
                          /\ ~r.ok => r.db.users = store.users
  BY <1>1, PutUserUsers
<1>3. Setter(info, outcomes)
  BY DEF SetUserSetting
<1> HIDE DEF info, outcomes
<1>4. Typed'
  BY <1>1, <1>2, <1>3, SetterUsers
<1>5. ASSUME UserInv
      PROVE  UserInv'
  <2>1. PICK r \in outcomes : store' = r.db /\ copy' = IF r.ok THEN info ELSE None
    BY <1>3 DEF Setter
  <2>2. /\ copy = None /\ preferencesInfo' = preferencesInfo
        /\ reload' = Disturbed /\ torn' = Torn
    BY <1>3 DEF Setter, Idle
  <2>3. UserReload' /\ \A w \in Users \ torn' : w \notin torn
    BY <2>2, TouchedReload
  <2>4. Settled = preferencesInfo
    BY <2>2 DEF Settled
  <2>5. \A w \in Users \ torn' : \A f \in {"date", "enable"} :
          preferencesInfo.users[w][f] # None =>
            store.users[w][f] \in {None, preferencesInfo.users[w][f]}
    BY <1>5, <2>3, <2>4 DEF UserInv, UserSettingsStored
  <2>6. CASE r.ok
    <3>1. Settled' = info
      BY <1>1, <2>1, <2>6, NoneAssumption DEF Settled
    <3>2. store'.users = [store.users EXCEPT ![u][s] = v]
      BY <1>2, <2>1, <2>6
    <3>3. store.users \in [Users -> [{"date", "enable"} -> Values \cup {None}]]
          /\ preferencesInfo.users
               \in [Users -> [{"date", "enable"} -> Values \cup {None}]]
      BY <1>1 DEF Store, Info
    <3>4. ASSUME NEW w \in Users \ torn', NEW f \in {"date", "enable"}
          PROVE  Stored(w, f)'
      <4>1. info.users[w][f] = IF w = u /\ f = s THEN v ELSE preferencesInfo.users[w][f]
        BY <1>1, <3>3
      <4>2. store'.users[w][f] = IF w = u /\ f = s THEN v ELSE store.users[w][f]
        BY <3>2, <3>3
      <4> QED BY <2>5, <3>1, <4>1, <4>2 DEF Stored
    <3>5. UserSettingsStored'
      BY <3>4 DEF UserSettingsStored, Stored
    <3> QED BY <2>3, <3>5 DEF UserInv
  <2>7. CASE ~r.ok
    <3>1. Settled' = preferencesInfo /\ store'.users = store.users
      BY <1>2, <2>1, <2>2, <2>7 DEF Settled
    <3>2. UserSettingsStored'
      BY <2>5, <3>1 DEF UserSettingsStored
    <3> QED BY <2>3, <3>2 DEF UserInv
  <2> QED BY <2>6, <2>7
<1> QED BY <1>4, <1>5

(* What is removed from memory may stay in the store. *)
LEMMA RemoveSettingsUsers ==
  ASSUME Typed, NEW u \in Users, RemoveSettings(u)
  PROVE  Typed' /\ (UserInv => UserInv')
<1>1. /\ copy = None /\ copy' = None
      /\ reload' = Disturbed /\ torn' = Torn
      /\ preferencesInfo' = [preferencesInfo EXCEPT !.users[u] = NoSettings]
  BY DEF RemoveSettings, Idle
<1>2. preferencesInfo \in Info /\ store \in Store
  BY DEF Typed, TypeOK
<1>3. PICK r \in PutUser(store, u, "enable", None) :
        \E q \in PutUser(r.db, u, "date", None) : store' = q.db
  BY DEF RemoveSettings
<1>4. PICK q \in PutUser(r.db, u, "date", None) : store' = q.db
  BY <1>3
<1>5. /\ r.db \in Store
      /\ \A w \in Users \ {u} : r.db.users[w] = store.users[w]
  <2>1. \A w \in Users \ {u} : r.db.users[w] = store.users[w]
    BY <1>2, PutUserOthers
  <2> QED BY <1>2, <2>1, PutUserUsers
<1>6. /\ store' \in Store
      /\ \A w \in Users \ {u} : store'.users[w] = r.db.users[w]
  <2>1. \A w \in Users \ {u} : q.db.users[w] = r.db.users[w]
    BY <1>5, PutUserOthers
  <2> QED BY <1>4, <1>5, <2>1, PutUserUsers
<1>7. /\ preferencesInfo' \in Info
      /\ preferencesInfo'.users = [preferencesInfo.users EXCEPT ![u] = NoSettings]
      /\ preferencesInfo.users \in [Users -> [{"date", "enable"} -> Values \cup {None}]]
  BY <1>1, <1>2 DEF Info, NoSettings
<1>8. /\ reload' \in Reload \cup {None} /\ torn' \subseteq Parts
      /\ ReadShape' /\ UserReload'
      /\ \A w \in Users \ torn' : w \notin torn
  BY <1>1, TouchedReload
<1>9. Typed'
  BY <1>1, <1>6, <1>7, <1>8 DEF Typed, TypeOK, Parts
<1>10. ASSUME UserInv
       PROVE  UserInv'
  <2>1. Settled = preferencesInfo /\ Settled' = preferencesInfo'
    BY <1>1 DEF Settled
  <2>2. ASSUME NEW w \in Users \ torn', NEW f \in {"date", "enable"},
               preferencesInfo'.users[w][f] # None
        PROVE  store'.users[w][f] \in {None, preferencesInfo'.users[w][f]}
    <3>1. w # u
      BY <1>7, <2>2 DEF NoSettings
    <3>2. preferencesInfo'.users[w] = preferencesInfo.users[w]
          /\ store'.users[w] = store.users[w]
      BY <1>5, <1>6, <1>7, <3>1
    <3> QED BY <1>8, <1>10, <2>1, <2>2, <3>2 DEF UserInv, UserSettingsStored
  <2> QED BY <1>8, <2>1, <2>2 DEF UserInv, UserSettingsStored
<1> QED BY <1>9, <1>10

LEMMA CommitUsers ==
  ASSUME Typed, Commit
  PROVE  Typed' /\ (UserInv => UserInv')
<1>1. /\ copy # None /\ preferencesInfo' = copy /\ copy' = None
      /\ reload' = Disturbed /\ torn' = Torn /\ store' = store
  BY DEF Commit
<1>2. /\ reload' \in Reload \cup {None} /\ torn' \subseteq Parts
      /\ ReadShape' /\ UserReload'
      /\ \A u \in Users \ torn' : u \notin torn
  BY <1>1, TouchedReload
<1>3. Typed'
  BY <1>1, <1>2 DEF Typed, TypeOK, Parts
<1>4. Settled' = Settled
  BY <1>1 DEF Settled
<1>5. UserSettingsStored => UserSettingsStored'
  BY <1>1, <1>2, <1>4 DEF UserSettingsStored
<1> QED BY <1>2, <1>3, <1>5 DEF UserInv

(* The steps of a reload but the one that brings a setting to memory leave *)
(* what memory and store have of users.                                    *)
LEMMA UsersKept ==
  ASSUME UserInv, Settled'.users = Settled.users, store'.users = store.users,
         \A u \in Users \ torn' : u \notin torn
  PROVE  /\ UserSettingsStored'
         /\ \A u, s : Stored(u, s) => Stored(u, s)'
BY DEF UserInv, UserSettingsStored, Stored

LEMMA StoreDeathUsers ==
  ASSUME Typed, StoreDeathRecipient
  PROVE  Typed' /\ (UserInv => UserInv')
<1>1. /\ UNCHANGED <<preferencesInfo, copy, reload, torn>>
      /\ store' \in Store /\ store'.users = store.users
  BY DEF StoreDeathRecipient, Typed, TypeOK, Store
<1>2. Typed'
  BY <1>1 DEF Typed, TypeOK, ReadShape
<1>3. ASSUME UserInv
      PROVE  UserInv'
  <2>1. Settled' = Settled
    BY <1>1 DEF Settled
  <2>2. UserSettingsStored' /\ \A u, s : Stored(u, s) => Stored(u, s)'
    BY <1>1, <1>3, <2>1, UsersKept
  <2> QED BY <1>1, <1>3, <2>2 DEF UserInv, UserReload
<1> QED BY <1>2, <1>3

(* A reload begins. *)
LEMMA ParsingShape ==
  ASSUME NEW u \in Users, NEW starting \in BOOLEAN
  PROVE  LET r == Parsing(u, starting) IN
         /\ r \in Reload /\ r # None
         /\ r.user = u /\ r.todo = UserSettings /\ r.todo # <<>>
         /\ r.left = None /\ r.seen = None /\ r.starting = starting
<1>1. Parsing(u, starting) \in Reload
  BY DEF Parsing, Reload
<1> QED BY <1>1, NoneAssumption DEF Parsing, UserSettings

LEMMA UserSwitchedUsers ==
  ASSUME Typed, NEW u \in Users, UserSwitched(u)
  PROVE  Typed' /\ (UserInv => UserInv')
<1>1. /\ reload = None /\ UNCHANGED <<preferencesInfo, store, copy>>
      /\ reload' = [Parsing(u, FALSE) EXCEPT !.clean = copy = None]
      /\ torn' = IF copy = None THEN torn ELSE Parts
  BY DEF UserSwitched
<1>2. /\ reload' \in Reload /\ reload' # None
      /\ reload'.todo = UserSettings /\ reload'.todo # <<>>
      /\ reload'.left = None /\ reload'.seen = None
      /\ reload'.clean = (copy = None)
  <2>1. reload' \in Reload
    <3>1. Parsing(u, FALSE) \in Reload
      BY ParsingShape
    <3> QED BY <1>1, <3>1 DEF Reload
  <2> QED BY <1>1, <2>1, ParsingShape, NoneAssumption DEF Reload
<1>3. torn' \subseteq Parts /\ \A w \in Users \ torn' : w \notin torn
  BY <1>1 DEF Typed, TypeOK, Parts
<1>4. Typed'
  BY <1>1, <1>2, <1>3 DEF Typed, TypeOK, ReadShape, Parts
<1>5. ASSUME UserInv
      PROVE  UserInv'
  <2>1. Settled' = Settled
    BY <1>1 DEF Settled
  <2>2. UserSettingsStored'
    BY <1>1, <1>3, <1>5, <2>1, UsersKept
  <2>3. UserReload'
    BY <1>1, <1>2 DEF UserReload
  <2> QED BY <2>2, <2>3 DEF UserInv
<1> QED BY <1>4, <1>5

LEMMA RestartUsers ==
  ASSUME Typed, NEW u \in Users, Restart(u)
  PROVE  Typed' /\ UserInv'
<1>1. /\ preferencesInfo' = Nothing /\ copy' = None /\ torn' = {}
      /\ store' = [store EXCEPT !.connected = FALSE]
      /\ reload' = Parsing(u, TRUE)
  BY DEF Restart
<1>2. Nothing \in Info /\ \A w \in Users : Nothing.users[w] = NoSettings
  BY DEF Nothing, NoSettings, Info
<1>3. Typed'
  BY <1>1, <1>2, ParsingShape DEF Typed, TypeOK, ReadShape, Store
<1>4. Settled' = Nothing
  BY <1>1 DEF Settled
<1>5. UserSettingsStored'
  BY <1>2, <1>4 DEF UserSettingsStored, NoSettings
<1>6. UserReload'
  BY <1>1, ParsingShape DEF UserReload
<1> QED BY <1>3, <1>5, <1>6 DEF UserInv

(* A setting that is read is the store's, unless reads fail.               *)
LEMMA ReadUserSettingUsers ==
  ASSUME Typed, ReadUserSetting
  PROVE  Typed' /\ ("read" \notin Faults /\ UserInv => UserInv')
<1> DEFINE u == reload.user
           s == Head(reload.todo)
<1>1. /\ reload # None /\ reload.todo # <<>> /\ reload.seen = None
      /\ UNCHANGED <<preferencesInfo, copy, torn>>
  BY DEF ReadUserSetting
<1>2. PICK db \in CheckKvStore(store) :
        /\ store' = db
        /\ IF db.connected
             THEN \E v \in Reads(db.users[u][s]) :
                    reload' = [reload EXCEPT !.seen = [value |-> v]]
             ELSE reload' = [reload EXCEPT !.todo = Tail(@), !.clean = FALSE]
  BY DEF ReadUserSetting
<1>3. preferencesInfo \in Info /\ store \in Store /\ reload \in Reload
  BY <1>1 DEF Typed, TypeOK
<1>4. store' \in Store /\ store'.users = store.users /\ db.users = store.users
  BY <1>2, <1>3, ConnectedStore
<1>5. reload.left = None
  BY <1>1 DEF Typed, ReadShape
<1>6. u \in Users /\ s \in {"date", "enable"}
      /\ Tail(reload.todo) \in {Tail(UserSettings), <<>>}
      /\ Tail(reload.todo) # UserSettings
  <2>1. reload.todo \in {UserSettings, Tail(UserSettings)}
    BY <1>1, <1>3 DEF Reload
  <2>2. /\ UserSettings = <<"date", "enable">>
        /\ Tail(UserSettings) = <<"enable">>
        /\ Tail(Tail(UserSettings)) = <<>>
    BY DEF UserSettings
  <2>3. s \in {"date", "enable"} /\ Tail(reload.todo) \in {Tail(UserSettings), <<>>}
    <3>1. CASE reload.todo = UserSettings
      BY <2>2, <3>1
    <3>2. CASE reload.todo = Tail(UserSettings)
      BY <2>2, <3>2
    <3> QED BY <2>1, <3>1, <3>2
  <2>4. Tail(UserSettings) # UserSettings /\ <<>> # UserSettings
    BY DEF UserSettings
  <2>5. u \in Users
    BY <1>3 DEF Reload
  <2> QED BY <2>3, <2>4, <2>5
<1>7. CASE db.connected
  <2>1. PICK v \in Reads(store.users[u][s]) :
          reload' = [reload EXCEPT !.seen = [value |-> v]]
    BY <1>2, <1>4, <1>7
  <2>2. v \in Values \cup {None, Failed} /\ ("read" \notin Faults => v = store.users[u][s])
    <3>1. store.users[u][s] \in Values \cup {None}
      BY <1>3, <1>6 DEF Store
    <3> QED BY <3>1 DEF Reads
  <2>3. /\ reload' \in Reload /\ reload'.todo = reload.todo
        /\ reload'.left = None /\ reload'.clean = reload.clean
        /\ reload'.user = u
        /\ reload'.seen \in [value : Values \cup {None, Failed}]
        /\ reload'.seen.value = v
    BY <1>3, <1>5, <2>1, <2>2 DEF Reload
  <2>4. Typed'
    BY <1>1, <1>3, <1>4, <2>3 DEF Typed, TypeOK, ReadShape
  <2>5. ASSUME "read" \notin Faults, UserInv
        PROVE  UserInv'
    <3>1. Settled' = Settled
      BY <1>1 DEF Settled
    <3>2. UserSettingsStored' /\ \A w, f : Stored(w, f) => Stored(w, f)'
      BY <1>1, <1>4, <2>5, <3>1, UsersKept
    <3> PICK w : w = u
      OBVIOUS
    <3>3. reload.clean =>
            /\ copy' = None
            /\ reload.todo # UserSettings => Stored(w, "date")'
            /\ reload.todo = <<>> => Stored(w, "enable")'
      <4>1. reload.clean =>
              /\ copy = None
              /\ reload.todo # UserSettings => Stored(w, "date")
              /\ reload.todo = <<>> => Stored(w, "enable")
        BY <1>1, <2>5 DEF UserInv, UserReload
      <4> QED BY <1>1, <3>2, <4>1
    <3>4. reload'.seen.value = store'.users[reload'.user][Head(reload'.todo)]
      BY <1>4, <2>2, <2>3, <2>5
    <3>5. UserReload'
      BY <2>3, <3>3, <3>4 DEF UserReload, Stored
    <3> QED BY <3>2, <3>5 DEF UserInv
  <2> QED BY <2>4, <2>5
<1>8. CASE ~db.connected
  <2>1. reload' = [reload EXCEPT !.todo = Tail(@), !.clean = FALSE]
    BY <1>2, <1>8
  <2>2. /\ reload' \in Reload /\ reload'.seen = None
        /\ reload'.left = None /\ ~reload'.clean
    BY <1>1, <1>3, <1>5, <1>6, <2>1 DEF Reload
  <2>3. Typed'
    BY <1>1, <1>3, <1>4, <2>2 DEF Typed, TypeOK, ReadShape
  <2>4. ASSUME UserInv
        PROVE  UserInv'
    <3>1. Settled' = Settled
      BY <1>1 DEF Settled
    <3>2. UserSettingsStored'
      BY <1>1, <1>4, <2>4, <3>1, UsersKept
    <3>3. UserReload'
      BY <2>2 DEF UserReload
    <3> QED BY <3>2, <3>3 DEF UserInv
  <2> QED BY <2>3, <2>4
<1> QED BY <1>7, <1>8

(* What a reload brings to memory is what it read, or a default it offers  *)
(* to the store.                                                           *)
LEMMA UserSettingReadUsers ==
  ASSUME Typed, UserSettingRead
  PROVE  Typed' /\ (UserInv => UserInv')
<1> PICK u, s, todo : u = reload.user /\ s = Head(reload.todo) /\ todo = reload.todo
  OBVIOUS
<1> DEFINE found == reload.seen.value
           held == preferencesInfo.users[u][s]
           kept == IF held = None THEN DefaultSetting[s] ELSE held
           value == IF found \in Values THEN found
                    ELSE IF found = Failed /\ s = "enable" THEN held
                    ELSE kept
<1>1. /\ reload # None /\ todo # <<>> /\ reload.seen # None
      /\ preferencesInfo' = [preferencesInfo EXCEPT !.users[u][s] = value]
      /\ IF found = None
           THEN \E r \in PutUser(store, u, s, kept) : store' = r.db
           ELSE UNCHANGED store
      /\ reload' = [reload EXCEPT !.todo = Tail(@), !.seen = None]
      /\ torn' = IF copy = None THEN torn ELSE Parts
      /\ copy' = copy
  BY DEF UserSettingRead
<1>2. preferencesInfo \in Info /\ store \in Store /\ reload \in Reload
  BY <1>1 DEF Typed, TypeOK
<1>3. /\ u \in Users
      /\ \/ todo = UserSettings /\ s = "date" /\ Tail(todo) = Tail(UserSettings)
         \/ todo = Tail(UserSettings) /\ s = "enable" /\ Tail(todo) = <<>>
      /\ UserSettings # Tail(UserSettings)
      /\ UserSettings # <<>> /\ Tail(UserSettings) # <<>>
  <2>1. u \in Users /\ todo \in {UserSettings, Tail(UserSettings)}
    BY <1>1, <1>2 DEF Reload
  <2>2. /\ UserSettings = <<"date", "enable">>
        /\ Tail(UserSettings) = <<"enable">>
        /\ Tail(Tail(UserSettings)) = <<>>
    BY DEF UserSettings
  <2>3. /\ UserSettings # Tail(UserSettings)
        /\ UserSettings # <<>> /\ Tail(UserSettings) # <<>>
    BY DEF UserSettings
  <2>4. CASE todo = UserSettings
    BY <2>1, <2>2, <2>3, <2>4
  <2>5. CASE todo = Tail(UserSettings)
    BY <2>1, <2>2, <2>3, <2>5
  <2> QED BY <2>1, <2>4, <2>5
<1>4. held \in Values \cup {None} /\ kept \in Values \cup {None}
      /\ value \in Values \cup {None}
  BY <1>2, <1>3, ValuesAssumption DEF Info, DefaultSetting
<1>5. /\ preferencesInfo.users \in [Users -> [{"date", "enable"} -> Values \cup {None}]]
      /\ store.users \in [Users -> [{"date", "enable"} -> Values \cup {None}]]
  BY <1>2 DEF Info, Store
<1> HIDE DEF value, kept
<1>6. /\ preferencesInfo' \in Info
      /\ preferencesInfo'.users = [preferencesInfo.users EXCEPT ![u][s] = value]
  <2> HIDE DEF found, held
  <2> QED BY <1>1, <1>2, <1>3, <1>4 DEF Info
<1>7. /\ store' \in Store
      /\ \/ store'.users = store.users
         \/ found = None /\ store'.users = [store.users EXCEPT ![u][s] = kept]
  <2>1. CASE found = None
    <3>1. PICK r \in PutUser(store, u, s, kept) : store' = r.db
      BY <1>1, <2>1
    <3>2. s \in {"date", "enable"}
      BY <1>3
    <3>3. /\ r.db \in Store
          /\ \/ r.db.users = store.users
             \/ r.db.users = [store.users EXCEPT ![u][s] = kept]
      <4>1. store \in Store /\ u \in Users /\ kept \in Values \cup {None}
        BY <1>2, <1>3, <1>4
      <4> HIDE DEF found, held
      <4> QED BY <3>2, <4>1, PutUserUsers
    <3> QED BY <2>1, <3>1, <3>3
  <2>2. CASE found # None
    BY <1>1, <1>2, <2>2
  <2> QED BY <2>1, <2>2
<1>8. /\ reload' \in Reload /\ reload'.todo = Tail(todo) /\ reload'.seen = None
      /\ reload'.left = None /\ reload'.clean = reload.clean
      /\ reload'.user = u
  <2>1. reload.left = None
    BY <1>1 DEF Typed, ReadShape
  <2>2. Tail(todo) \in {UserSettings, Tail(UserSettings), <<>>}
    BY <1>3
  <2>3. reload' = [reload EXCEPT !.todo = Tail(todo), !.seen = None]
    BY <1>1
  <2> QED BY <1>2, <2>1, <2>2, <2>3 DEF Reload
<1>9. torn' \subseteq Parts /\ \A w \in Users \ torn' : w \notin torn
  BY <1>1 DEF Typed, TypeOK, Parts
<1>10. Typed'
  BY <1>1, <1>6, <1>7, <1>8, <1>9 DEF Typed, TypeOK, ReadShape, Parts
<1>11. ASSUME UserInv
       PROVE  UserInv'
  <2>1. CASE copy # None
    <3>1. ~reload'.clean
      BY <1>1, <1>8, <1>11, <2>1 DEF UserInv, UserReload
    <3>2. UserReload'
      BY <1>8, <3>1 DEF UserReload
    <3>3. UserSettingsStored'
      BY <1>1, <2>1 DEF UserSettingsStored, Parts
    <3> QED BY <3>2, <3>3 DEF UserInv
  <2>2. CASE copy = None
    <3>1. Settled = preferencesInfo /\ Settled' = preferencesInfo'
      BY <1>1, <2>2 DEF Settled
    <3>2. ASSUME NEW w \in Users, NEW f \in {"date", "enable"}, w # u \/ f # s,
                 Stored(w, f)
          PROVE  Stored(w, f)'
      <4>1. preferencesInfo'.users[w][f] = preferencesInfo.users[w][f]
        BY <1>3, <1>5, <1>6, <3>2
      <4>2. store'.users[w][f] = store.users[w][f]
        BY <1>3, <1>5, <1>7, <3>2
      <4> QED BY <3>1, <3>2, <4>1, <4>2 DEF Stored
    <3>3. ASSUME reload.clean \/ u \notin torn
          PROVE  Stored(u, s)'
      <4>1. found = store.users[u][s]
        BY <1>1, <1>11, <3>3 DEF UserInv, UserReload
      <4>2. found \in Values \cup {None} /\ found # Failed
        BY <1>3, <1>5, <4>1, ValuesAssumption
      <4>3. preferencesInfo'.users[u][s] = value
        BY <1>3, <1>5, <1>6
      <4> HIDE DEF found, held
      <4>4. CASE found \in Values
        <5>1. value = found /\ found # None
          BY <4>4, ValuesAssumption DEF value
        <5>2. store'.users = store.users
          BY <1>7, <5>1
        <5> QED BY <3>1, <4>1, <4>3, <5>1, <5>2 DEF Stored
      <4>5. CASE found = None
        <5>1. value = kept
          BY <4>5, ValuesAssumption DEF value
        <5>2. store'.users[u][s] \in {None, kept}
          <6>1. s \in {"date", "enable"}
            BY <1>3
          <6>2. [store.users EXCEPT ![u][s] = kept][u][s] = kept
            BY <1>3, <1>5, <6>1
          <6> QED BY <1>7, <4>1, <4>5, <6>2
        <5> QED BY <3>1, <4>3, <5>1, <5>2 DEF Stored
      <4> QED BY <4>2, <4>4, <4>5
    <3>4. UserSettingsStored'
      <4>1. ASSUME NEW w \in Users \ torn, NEW f \in {"date", "enable"}
            PROVE  Stored(w, f)'
        <5>1. Stored(w, f)
          BY <1>11 DEF UserInv, UserSettingsStored, Stored
        <5> QED BY <3>2, <3>3, <5>1
      <4> QED BY <1>9, <4>1 DEF UserSettingsStored, Stored
    <3>5. ASSUME reload.clean
          PROVE  Stored(u, "date")' /\ (Tail(todo) = <<>> => Stored(u, "enable")')
      <4>1. todo # UserSettings => Stored(u, "date")
        BY <1>1, <1>11, <3>5 DEF UserInv, UserReload
      <4>2. Stored(u, s)'
        BY <3>3, <3>5
      <4> QED BY <1>3, <3>2, <4>1, <4>2
    <3>6. UserReload'
      BY <1>1, <1>8, <2>2, <3>5 DEF UserReload, Stored
    <3> QED BY <3>4, <3>6 DEF UserInv
  <2> QED BY <2>1, <2>2
<1> QED BY <1>10, <1>11

LEMMA ReadLabelsUsers ==
  ASSUME Typed, ReadLabels
  PROVE  Typed' /\ (UserInv => UserInv')
<1>1. /\ reload # None /\ reload.todo = <<>> /\ reload.left = None
      /\ UNCHANGED <<preferencesInfo, copy, torn>>
  BY DEF ReadLabels
<1>2. PICK db \in CheckKvStore(store) :
        /\ store' = db
        /\ \/ reload' = [reload EXCEPT !.left = db.labels]
           \/ reload' = [reload EXCEPT !.left = {}, !.clean = FALSE]
  BY DEF ReadLabels
<1>3. store \in Store /\ reload \in Reload
  BY <1>1 DEF Typed, TypeOK
<1>4. store' \in Store /\ store'.users = store.users /\ db.labels \in SUBSET Bundles
  BY <1>2, <1>3, ConnectedStore DEF Store
<1>5. /\ reload' \in Reload /\ reload'.todo = <<>> /\ reload'.seen = reload.seen
      /\ reload'.user = reload.user /\ (reload'.clean => reload.clean)
      /\ reload'.left # None
  <2>1. reload'.left \in SUBSET Bundles
    BY <1>2, <1>3, <1>4 DEF Reload
  <2> QED BY <1>1, <1>2, <1>3, <1>4, <2>1, NoneAssumption DEF Reload
<1>6. reload.seen = None
  BY <1>1 DEF Typed, ReadShape
<1>7. Typed'
  BY <1>1, <1>4, <1>5, <1>6 DEF Typed, TypeOK, ReadShape
<1>8. ASSUME UserInv
      PROVE  UserInv'
  <2>1. Settled' = Settled
    BY <1>1 DEF Settled
  <2>2. UserSettingsStored' /\ \A w, f : Stored(w, f) => Stored(w, f)'
    BY <1>1, <1>4, <1>8, <2>1, UsersKept
  <2>3. UserReload'
    BY <1>1, <1>4, <1>5, <1>8, <2>1 DEF UserInv, UserReload, Stored
  <2> QED BY <2>2, <2>3 DEF UserInv
<1> QED BY <1>7, <1>8

LEMMA ReadBundleUsers ==
  ASSUME Typed, NEW b \in Bundles, ReadBundle(b)
  PROVE  Typed' /\ (UserInv => UserInv')
<1>1. /\ reload # None /\ reload.todo = <<>> /\ reload.left # None
      /\ UNCHANGED <<preferencesInfo, store, copy, torn>>
  BY DEF ReadBundle
<1>2. PICK lost \in {{}} \cup
                    (IF "read" \in Faults THEN {Fields} \cup (SUBSET Groups) ELSE {}) :
        reload' = [reload EXCEPT
          !.left = @ \ {b},
          !.seen = [bundle |-> b,
                    entries |-> Overlay([f \in lost |-> None], store.entries[b])],
          !.clean = @ /\ lost = {}]
  BY DEF ReadBundle
<1>3. store \in Store /\ reload \in Reload
  BY <1>1 DEF Typed, TypeOK
<1> DEFINE seen == [bundle |-> b,
                    entries |-> Overlay([f \in lost |-> None], store.entries[b])]
<1>4. seen \in [bundle : Bundles, entries : Entries]
  <2>1. Overlay([f \in lost |-> None], store.entries[b]) \in Entries
    BY <1>3 DEF Overlay, Store, Entries
  <2> QED BY <2>1
<1>5. reload.clean \in BOOLEAN /\ reload.left \in SUBSET Bundles
  BY <1>1, <1>3 DEF Reload
<1> HIDE DEF seen
<1>6. /\ reload' \in Reload /\ reload'.todo = <<>> /\ reload'.seen = seen
      /\ reload'.user = reload.user /\ (reload'.clean => reload.clean)
      /\ reload'.left # None
  <2>1. reload.left \ {b} \in SUBSET Bundles /\ reload.left \ {b} # None
    BY <1>5, NoneAssumption
  <2>2. reload' = [reload EXCEPT !.left = reload.left \ {b}, !.seen = seen,
                                 !.clean = reload.clean /\ lost = {}]
    BY <1>2 DEF seen
  <2> QED BY <1>1, <1>3, <1>4, <1>5, <2>1, <2>2 DEF Reload
<1>7. Typed'
  BY <1>1, <1>4, <1>6 DEF Typed, TypeOK, ReadShape
<1>8. ASSUME UserInv
      PROVE  UserInv'
  <2>1. Settled' = Settled
    BY <1>1 DEF Settled
  <2>2. UserSettingsStored'
    BY <1>1, <1>8, <2>1, UsersKept
  <2>3. UserReload'
    BY <1>1, <1>6, <1>8, <2>1 DEF UserInv, UserReload, Stored
  <2> QED BY <2>2, <2>3 DEF UserInv
<1> QED BY <1>7, <1>8

LEMMA BundleReadUsers ==
  ASSUME Typed, BundleRead
  PROVE  Typed' /\ (UserInv => UserInv')
<1> PICK b, entries : b = reload.seen.bundle /\ entries = reload.seen.entries
  OBVIOUS
<1>1. /\ reload # None /\ reload.todo = <<>> /\ reload.seen # None
      /\ preferencesInfo' =
           IF entries[Name] = None THEN preferencesInfo
           ELSE [preferencesInfo EXCEPT !.bundles[b] = Parse(entries)]
      /\ reload' = [reload EXCEPT !.seen = None]
      /\ torn' = IF copy = None THEN torn ELSE Parts
      /\ UNCHANGED <<store, copy>>
  BY DEF BundleRead
<1>2. preferencesInfo \in Info /\ store \in Store /\ reload \in Reload
  BY <1>1 DEF Typed, TypeOK
<1>3. b \in Bundles /\ entries \in Entries
  BY <1>1 DEF Typed, ReadShape
<1>4. Parse(entries) \in Entries
  BY <1>3, FreshDefaults DEF Parse, Entries
<1>5. preferencesInfo' \in Info /\ preferencesInfo'.users = preferencesInfo.users
  BY <1>1, <1>2, <1>3, <1>4 DEF Info
<1>6. /\ reload' \in Reload /\ reload'.todo = <<>> /\ reload'.seen = None
      /\ reload'.user = reload.user /\ reload'.clean = reload.clean
  BY <1>1, <1>2 DEF Reload
<1>7. torn' \subseteq Parts /\ \A w \in Users \ torn' : w \notin torn
  BY <1>1 DEF Typed, TypeOK, Parts
<1>8. Typed'
  BY <1>1, <1>2, <1>5, <1>6, <1>7 DEF Typed, TypeOK, ReadShape, Parts
<1>9. ASSUME UserInv
      PROVE  UserInv'
  <2>1. Settled'.users = Settled.users
    BY <1>1, <1>5 DEF Settled
  <2>2. UserSettingsStored'
    BY <1>1, <1>7, <1>9, <2>1, UsersKept
  <2>3. UserReload'
    BY <1>1, <1>6, <1>9, <2>1 DEF UserInv, UserReload, Stored
  <2> QED BY <2>2, <2>3 DEF UserInv
<1> QED BY <1>8, <1>9

(* A reload nothing touched puts its user right.                           *)
LEMMA ReloadEndUsers ==
  ASSUME Typed, ReloadEnd
  PROVE  Typed' /\ (UserInv => UserInv')
<1>1. /\ reload # None /\ reload.left = {} /\ reload' = None
      /\ torn' = IF reload.clean THEN torn \ {reload.user, BundlePart} ELSE torn
      /\ UNCHANGED <<preferencesInfo, store, copy>>
  BY DEF ReloadEnd
<1>2. reload.todo = <<>>
  BY <1>1, NoneAssumption DEF Typed, ReadShape
<1>3. Typed'
  BY <1>1 DEF Typed, TypeOK, ReadShape
<1>4. ASSUME UserInv
      PROVE  UserInv'
  <2> PICK u : u = reload.user
    OBVIOUS
  <2>1. Settled' = Settled
    BY <1>1 DEF Settled
  <2>2. reload.clean => Stored(u, "date") /\ Stored(u, "enable")
    <3>1. UserSettings # <<>>
      BY DEF UserSettings
    <3> QED BY <1>1, <1>2, <1>4, <3>1 DEF UserInv, UserReload
  <2>3. \A w \in Users \ torn : \A f \in {"date", "enable"} : Stored(w, f)
    BY <1>4 DEF UserInv, UserSettingsStored, Stored
  <2>4. \A w \in Users \ torn' : \A f \in {"date", "enable"} : Stored(w, f)
    <3>1. CASE reload.clean
      <4>1. \A w \in Users \ torn' : w \in Users \ torn \/ w = u
        BY <1>1, <3>1, NoneAssumption
      <4> QED BY <2>2, <2>3, <3>1, <4>1
    <3>2. CASE ~reload.clean
      BY <1>1, <2>3, <3>2
    <3> QED BY <3>1, <3>2
  <2>5. UserSettingsStored'
    BY <1>1, <2>1, <2>4 DEF UserSettingsStored, Stored
  <2>6. UserReload'
    BY <1>1 DEF UserReload
  <2> QED BY <2>5, <2>6 DEF UserInv
<1> QED BY <1>3, <1>4

LEMMA InitUsers ==
  Init => Typed /\ UserInv
<1> SUFFICES ASSUME Init PROVE Typed /\ UserInv
  OBVIOUS
<1>1. PICK u \in Users : reload = Parsing(u, TRUE)
  BY DEF Init
<1>2. Settled = Nothing
  BY DEF Init, Settled
<1>3. Nothing \in Info /\ \A w \in Users : Nothing.users[w] = NoSettings
  BY DEF Nothing, NoSettings, Info
<1>4. Typed
  BY <1>1, <1>3, FreshDefaults, ParsingShape
     DEF Init, Typed, TypeOK, ReadShape, Store, NoSettings
<1>5. UserSettingsStored
  BY <1>2, <1>3 DEF UserSettingsStored, NoSettings
<1>6. UserReload
  <2>1. reload.todo = UserSettings /\ reload.todo # <<>> /\ reload.seen = None
    BY <1>1, ParsingShape
  <2>2. copy = None
    BY DEF Init
  <2> QED BY <2>1, <2>2 DEF UserReload, UserSettings
<1> QED BY <1>4, <1>5, <1>6 DEF UserInv

(* Types are kept whatever fails, and the settings of users if reads do    *)
(* not.                                                                    *)
LEMMA StepUsers ==
  Typed /\ [Next]_vars => Typed' /\ ("read" \notin Faults /\ UserInv => UserInv')
<1> SUFFICES ASSUME Typed, [Next]_vars
             PROVE  Typed' /\ ("read" \notin Faults /\ UserInv => UserInv')
  OBVIOUS
<1>1. CASE \E b \in Bundles : BundleCall(b)
  BY <1>1, BundleCallUsers
<1>2. CASE \E u \in Users : UserCall(u)
  BY <1>2, SetUserUsers, RemoveSettingsUsers DEF UserCall
<1>3. CASE Commit
  BY <1>3, CommitUsers
<1>4. CASE StoreDeathRecipient
  BY <1>4, StoreDeathUsers
<1>5. CASE \E u \in Users : UserSwitched(u) \/ Restart(u)
  BY <1>5, UserSwitchedUsers, RestartUsers
<1>6. CASE ReloadStep
  BY <1>6, ReadUserSettingUsers, UserSettingReadUsers, ReadLabelsUsers,
     ReadBundleUsers, BundleReadUsers, ReloadEndUsers DEF ReloadStep
<1>7. CASE UNCHANGED vars
  BY <1>7 DEF vars, Typed, TypeOK, ReadShape, UserInv, UserReload, Stored,
              UserSettingsStored, Settled
<1> QED
  BY <1>1, <1>2, <1>3, <1>4, <1>5, <1>6, <1>7 DEF Next

----------------------------------------------------------------------------
(* What memory, store and a reload hold is always what their types say,    *)
(* whatever the store refuses and whenever it is away.                     *)
THEOREM TypeCorrect == Spec => []TypeOK
<1>1. Spec => []Typed
  BY InitUsers, StepUsers, PTL DEF Spec
<1>2. Typed => TypeOK
  BY DEF Typed
<1> QED
  BY <1>1, <1>2, PTL

(* The settings of a user in memory are those of the store, wherever the   *)
(* process ends, whatever writes the store refuses and whenever it is away *)
(* for a while, until a reload crosses a setter.                           *)
THEOREM UserSettingsSurvive ==
  ASSUME "read" \notin Faults
  PROVE  Spec => []UserSettingsStored
<1>1. Typed /\ UserInv /\ [Next]_vars => Typed' /\ UserInv'
  BY StepUsers
<1>2. Spec => [](Typed /\ UserInv)
  BY <1>1, InitUsers, PTL DEF Spec
<1>3. UserInv => UserSettingsStored
  BY DEF UserInv
<1> QED
  BY <1>2, <1>3, PTL

(* Whatever writes the store refuses, and wherever the process ends in a   *)
(* call or a reload, the settings of a bundle the service acts on are      *)
(* those the next start reads, until a reload crosses a setter.            *)
THEOREM SettingsSurvive ==
  ASSUME Faults \subseteq {"write"}
  PROVE  Spec => []MemoryIsStore
<1>1. Spec => []IInv
  BY InitInv, StepInv, PTL DEF Spec
<1>2. IInv => MemoryIsStore
  BY DEF IInv
<1> QED
  BY <1>1, <1>2, PTL
=============================================================================
