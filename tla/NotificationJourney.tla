--------------------------- MODULE NotificationJourney ---------------------------
(* The way of one object of the service's data, from the script or the native  *)
(* program that makes it, through the parcel to the service, on to a           *)
(* subscriber's process or to the store of another device and from there to a  *)
(* subscriber's process, and to the script that hears it. What an object holds *)
(* is the set of members it has other than by default, each a pair of the role *)
(* its object plays (a user is the user of a conversation or the sender of a   *)
(* message) and the member, together with the values of its enumerations.      *)
EXTENDS Naturals, Sequences, FiniteSets, NotificationForms, NotificationJson, ScriptForms

CONSTANTS
  Roots,          \* what travels: "request", "slot", "timer", "alarm", "calendar", ...
  ContentTypes,   \* the types of content a request may have
  SlotTypes,      \* the slot types a script names
  RemindTypes     \* the ways of reminding the service chooses between

VARIABLES
  stage,          \* who holds the object, or how its way ended
  form,           \* the object: its root, whether it came from another device, members, values
  told,           \* the script object it was made from, with no properties for a native one
  sent            \* the members it had before it last crossed a process

journeyVars == <<stage, form, told, sent>>

----------------------------------------------------------------------------
(* The tables by role.                                                         *)

Written ==
  [request |-> RequestNumbersWritten \o RequestTextsWritten \o RequestKindsWritten
                 \o RequestFlagsWritten \o RequestObjectsWritten \o RequestListsWritten,
   notification |-> NotificationWritten, flags |-> FlagsWritten, options |-> OptionsWritten,
   template |-> TemplateWritten, button |-> ButtonWritten, input |-> InputWritten,
   peer |-> UserWritten, content |-> ContentWritten, normal |-> BasicWritten,
   longText |-> LongTextWritten, media |-> MediaWritten, multiLine |-> MultiLineWritten,
   picture |-> PictureWritten, conversation |-> ConversationWritten, user |-> UserWritten,
   message |-> MessageWritten, sender |-> UserWritten, slot |-> SlotWritten,
   group |-> GroupWritten, sorting |-> SortingWritten, sortingMap |-> SortingMapWritten,
   date |-> DateWritten, bundle |-> BundleWritten, enabled |-> EnabledWritten,
   timer |-> TimerWritten, alarm |-> AlarmWritten, calendar |-> CalendarWritten]

Readers ==
  [request |-> RequestNumbersRead \o RequestTextsRead \o RequestKindsRead \o RequestFlagsRead
                 \o RequestObjectsRead,
   notification |-> NotificationRead, flags |-> FlagsRead, options |-> OptionsRead,
   template |-> TemplateRead, button |-> ButtonRead, input |-> InputRead,
   peer |-> UserRead, content |-> ContentRead, normal |-> BasicRead,
   longText |-> LongTextRead, media |-> MediaRead, multiLine |-> MultiLineRead,
   picture |-> PictureRead, conversation |-> ConversationRead, user |-> UserRead,
   message |-> MessageRead, sender |-> UserRead, slot |-> SlotRead,
   group |-> GroupRead, sorting |-> SortingRead, sortingMap |-> SortingMapRead,
   date |-> DateRead, bundle |-> BundleRead, enabled |-> EnabledRead,
   timer |-> TimerRead, alarm |-> AlarmRead, calendar |-> CalendarRead]

ToJson ==
  [request |-> RequestToJson ++ ConvertObjectsToJson, flags |-> FlagsToJson,
   options |-> OptionsToJson, button |-> ButtonToJson, input |-> InputToJson,
   content |-> ContentToJson, normal |-> BasicToJson, longText |-> LongTextToJson,
   media |-> MediaToJson, multiLine |-> MultiLineToJson, picture |-> PictureToJson,
   conversation |-> ConversationToJson, user |-> UserToJson, message |-> MessageToJson,
   sender |-> UserToJson]

FromJson ==
  [request |-> RequestFromJson, flags |-> FlagsFromJson, options |-> OptionsFromJson,
   button |-> ButtonFromJson, input |-> InputFromJson, content |-> ContentFromJson,
   normal |-> BasicFromJson, longText |-> LongTextFromJson, media |-> MediaFromJson,
   multiLine |-> MultiLineFromJson, picture |-> PictureFromJson,
   conversation |-> ConversationFromJson, user |-> UserFromJson, message |-> MessageFromJson,
   sender |-> UserFromJson]

Getters ==
  [request |-> GetNotificationRequest, options |-> GetOptions, template |-> GetTemplateInfo,
   button |-> GetActionButton, input |-> GetInputTexts ++ GetInputChoices,
   content |-> GetContentType, normal |-> GetBasicContent, longText |-> GetLongText,
   multiLine |-> GetMultiLine, picture |-> GetPicture, conversation |-> GetConversation,
   user |-> GetMessageUser, message |-> GetMessage, sender |-> GetMessageUser, slot |-> GetSlot,
   date |-> GetDate, bundle |-> GetBundle, timer |-> CreateReminderTimer,
   alarm |-> CreateReminderAlarm, calendar |-> CreateReminderCalendar]

Setters ==
  [request |-> SetNotificationRequest, notification |-> SetNotification ++ SetRemindType,
   flags |-> SetFlags, options |-> SetNotificationByDistributedOptions,
   template |-> SetTemplateInfo, button |-> SetActionButton ++ SetActionButtonByExtras,
   input |-> SetActionButtonByUserInput, content |-> SetContent, normal |-> SetBasicContent,
   longText |-> SetLongText, multiLine |-> SetMultiLine, picture |-> SetPicture,
   conversation |-> SetConversation, user |-> SetMessageUser, message |-> SetMessage,
   sender |-> SetMessageUser, slot |-> SetSlot, sorting |-> SetSorting,
   sortingMap |-> SetSortingMap, date |-> SetDate, enabled |-> SetEnabledData,
   timer |-> SetValidReminder ++ ParseReminderTimer,
   alarm |-> SetValidReminder ++ ParseReminderAlarm,
   calendar |-> SetValidReminder ++ ParseReminderCalendar]

Needed ==
  NeededOfRequest ++ NeededOfContents ++ NeededOfConversation ++ NeededOfSettings
    ++ NeededOfReminders ++ [options |-> {}]

JSToC ==
  [contentType |-> ContentTypeJSToC, slotType |-> SlotTypeJSToC, level |-> SlotLevelJSToC,
   doNotDisturbType |-> DoNotDisturbTypeJSToC]
CToJS ==
  [contentType |-> ContentTypeCToJS, slotType |-> SlotTypeCToJS, level |-> SlotLevelCToJS,
   doNotDisturbType |-> DoNotDisturbTypeCToJS, remindType |-> DeviceRemindTypeCToJS,
   sourceType |-> SourceTypeCToJS]

----------------------------------------------------------------------------
(* Which objects hold which. An object has what its parts have only when it    *)
(* has the part; what is a value rather than a pointer it always has.          *)

Above ==
  LET body == {<<"request", "notificationContent">>, <<"content", "content">>}
      buttons == {<<"request", "actionButtons">>}
      messages == body \cup {<<"conversation", "messages">>}
  IN [role \in DOMAIN Written |->
       CASE role = "content" -> {<<"request", "notificationContent">>}
         [] role = "flags" -> {<<"request", "notificationFlags">>}
         [] role = "template" -> {<<"request", "notificationTemplate">>}
         [] role = "options" -> {<<"request", "distributedOptions">>}
         [] role = "peer" -> {<<"request", "messageUsers">>}
         [] role = "button" -> buttons
         [] role = "input" -> buttons \cup {<<"button", "userInput">>}
         [] role \in {BodyOf[type] : type \in DOMAIN BodyOf} -> body
         [] role = "user" -> body \cup {<<"conversation", "messageUser">>}
         [] role = "message" -> messages
         [] role = "sender" -> messages \cup {<<"message", "sender">>}
         [] role = "sorting" -> {<<"sortingMap", "sortings">>}
         [] OTHER -> {}]

Always ==
  {<<"request", "distributedOptions">>, <<"conversation", "messageUser">>,
   <<"message", "sender">>, <<"notification", "request">>, <<"sorting", "slot">>}

Reminders == {"timer", "alarm", "calendar"}

RolesOf(root, type) ==
  CASE root = "request" ->
         {"request", "flags", "options", "template", "button", "input", "peer", "content",
          BodyOf[type]}
           \cup (IF type = "CONVERSATION" THEN {"user", "message", "sender"} ELSE {})
    [] root = "sortingMap" -> {"sortingMap", "sorting"}
    [] OTHER -> {root}

TypeOf(values) == IF "contentType" \in DOMAIN values THEN values.contentType ELSE "BASIC_TEXT"

(* What an object of the root really holds of the members: those of its roles, *)
(* and those of a part only with the part.                                     *)
Shape(root, type, members) ==
  LET has == {p \in members \cup Always : p[1] \in RolesOf(root, type) \cup {"notification"}}
  IN {p \in has : Above[p[1]] \subseteq has}

MembersOf(root, type) ==
  Shape(root, type,
        UNION {{<<role, Written[role][i].member>> : i \in DOMAIN Written[role]} :
                 role \in RolesOf(root, type)})

(* A slot type a script names is one the bindings know.                        *)
ASSUME JourneyAssumption ==
  /\ Roots \subseteq {"request", "slot", "group", "sortingMap", "date", "bundle", "enabled"}
                      \cup Reminders
  /\ ContentTypes \subseteq DOMAIN BodyOf
  /\ SlotTypes \subseteq DOMAIN SlotTypeJSToC

----------------------------------------------------------------------------
(* The script objects there are: every needed property with one more, and      *)
(* every property without one; and the native ones, in the same way.           *)

ValuesOf(root) ==
  CASE root = "request" -> [contentType : ContentTypes, slotType : SlotTypes]
    [] root = "slot" -> [slotType : SlotTypes, level : {"HIGH"}]
    [] root = "date" -> [doNotDisturbType : {"NONE", "ONCE"}]
    [] root \in Reminders -> [slotType : SlotTypes]
    [] OTHER -> {<<>>}

NativeValuesOf(root) ==
  {[name \in DOMAIN values |->
      IF values[name] \in DOMAIN JSToC[name] THEN JSToC[name][values[name]] ELSE values[name]] :
    values \in ValuesOf(root)}

KeysAbove ==
  [role \in DOMAIN Getters |->
    UNION {{<<holder, key>> : key \in {k \in DOMAIN Getters[holder] :
                                         <<holder, Getters[holder][k]>> \in Above[role]}} :
             holder \in DOMAIN Getters}]

Scripted(properties) == {p \in properties : KeysAbove[p[1]] \subseteq properties}

ScriptObjects(root, type) ==
  LET roles == RolesOf(root, type) \cap DOMAIN Getters
      every == UNION {{<<role, key>> : key \in DOMAIN Getters[role]} : role \in roles}
      needed == UNION {{<<role, key>> : key \in Needed[role]} : role \in roles}
  IN {Scripted(needed \cup {p} \cup KeysAbove[p[1]]) : p \in every}
       \cup {Scripted(every \ {p}) : p \in every}

NativeObjects(root, type) ==
  LET every == MembersOf(root, type)
      needed == IF root = "request"
                THEN {<<"request", "notificationContent">>, <<"request", "notificationContentType">>,
                      <<"content", "contentType">>, <<"content", "content">>}
                ELSE {}
  IN {Shape(root, type, needed \cup {p} \cup Above[p[1]]) : p \in every}
       \cup {Shape(root, type, every \ {p}) : p \in every \ needed}

Form(root, values, has) == [root |-> root, away |-> FALSE, values |-> values, has |-> has]
NoScript == [values |-> <<>>, has |-> {}]

JourneyInit ==
  /\ sent = {}
  /\ \E root \in Roots :
       \/ /\ root \in DOMAIN Getters
          /\ \E values \in ValuesOf(root) :
               /\ TypeOf(values) \in DOMAIN ContentTypeJSToC
               /\ \E has \in ScriptObjects(root, TypeOf(values)) :
                    /\ form = Form(root, values, has)
                    /\ told = [values |-> values, has |-> has]
                    /\ stage = "script"
       \/ /\ \E values \in NativeValuesOf(root) :
               \E has \in NativeObjects(root, TypeOf(values)) : form = Form(root, values, has)
          /\ told = NoScript
          /\ stage = IF root \in {"enabled", "sortingMap"} THEN "held" ELSE "client"

----------------------------------------------------------------------------
(* A script object becomes a native one, unless a property it needs is missing *)
(* from it. A message always gets a Uri, if need be an empty one, a content    *)
(* its body, and a request the type of its content.                            *)

(* Mutant: a message gets a Uri only when the script names one.                *)
MadeNoUri == {<<"content", "content">>, <<"request", "notificationContentType">>}

Made ==
  {<<"content", "content">>, <<"request", "notificationContentType">>, <<"message", "uri">>}

Played(has) ==
  {role \in RolesOf(form.root, TypeOf(form.values)) \cap DOMAIN Getters : KeysAbove[role] \subseteq has}

Tell ==
  /\ stage = "script"
  /\ LET missed == \E role \in Played(form.has) :
                     \E key \in Needed[role] : <<role, key>> \notin form.has
         values == [n \in DOMAIN form.values |-> JSToC[n][form.values[n]]]
         members == {<<p[1], Getters[p[1]][p[2]]>> : p \in form.has}
     IN IF missed
        THEN stage' = "refused" /\ UNCHANGED form
        ELSE /\ stage' = "client"
             /\ form' = [form EXCEPT
                  !.values = values,
                  !.has = Shape(form.root, TypeOf(values),
                                members \cup Made)]
  /\ UNCHANGED <<told, sent>>

----------------------------------------------------------------------------
(* The crossings. A parcel is read item by item as it was written, as long as  *)
(* each item is read as what it was written as.                                *)

Parcelled(has) ==
  UNION {LET Arrives(i) == /\ <<role, Written[role][i].member>> \in has
                           /\ \A j \in 1 .. i : Readers[role][j].type = Written[role][j].type
         IN {<<role, Readers[role][i].member>> : i \in {n \in DOMAIN Written[role] : Arrives(n)}} :
           role \in DOMAIN Written}

Reshaped(has) == Shape(form.root, TypeOf(form.values), has)

(* AnsNotification keeps conversations and pictures on the device.             *)
NonDistributed == {"CONVERSATION", "PICTURE"}

(* Mutant: a conversation is handed to the service as it is.                   *)
SetDistributedPictures(has) ==
  IF form.root = "request" /\ TypeOf(form.values) = "PICTURE"
  THEN has \ {<<"options", "isDistributed">>}
  ELSE has

SetDistributed(has) ==
  IF form.root = "request" /\ TypeOf(form.values) \in NonDistributed
  THEN has \ {<<"options", "isDistributed">>}
  ELSE has

Send ==
  /\ stage = "client"
  /\ LET has == SetDistributed(form.has)
     IN sent' = has /\ form' = [form EXCEPT !.has = Reshaped(Parcelled(has))]
  /\ stage' = "service"
  /\ UNCHANGED told

(* The service says who made a request, when, and for whom; a date that asks   *)
(* for no quiet time has no times.                                             *)
PrepareNotificationRequest(has) ==
  has \cup {<<"request", m>> : m \in {"creatorBundleName", "creatorUid", "creatorPid",
                                      "creatorUserId", "deliveryTime"}}
      \cup (IF <<"request", "isAgent">> \in has
            THEN {<<"request", "ownerUid">>}
            ELSE {<<"request", "ownerBundleName">>})

SetDoNotDisturbDate(has) ==
  IF form.values.doNotDisturbType = "NONE"
  THEN has \ {<<"date", "beginDate">>, <<"date", "endDate">>}
  ELSE has

Serve ==
  /\ stage = "service"
  /\ form' = [form EXCEPT !.has = CASE form.root = "request" -> PrepareNotificationRequest(form.has)
                                    [] form.root = "date" -> SetDoNotDisturbDate(form.has)
                                    [] OTHER -> form.has]
  /\ stage' = "held"
  /\ UNCHANGED <<told, sent>>

(* A request is posted inside a notification, whose key is never empty; the    *)
(* rest is read back by whoever asks for it.                                   *)
Post(remind) ==
  /\ stage = "held"
  /\ form.root = "request"
  /\ LET around == {<<"notification", m>> : m \in {"key", "remindType", "sourceType", "postTime",
                                                   "request", "isRemoveAllowed"}
                                                  \cup (IF form.away THEN {"deviceId"} ELSE {})}
         has == Reshaped(form.has \cup around)
     IN sent' = has
        /\ form' = [form EXCEPT
             !.has = Reshaped(Parcelled(has)),
             !.values = @ ++ [remindType |-> remind, sourceType |-> "NORMAL"]]
  /\ stage' = "subscriber"
  /\ UNCHANGED told

Read ==
  /\ stage = "held"
  /\ form.root \notin {"request", "bundle"}
  /\ sent' = form.has
  /\ form' = [form EXCEPT !.has = Reshaped(Parcelled(form.has))]
  /\ stage' = "subscriber"
  /\ UNCHANGED told

----------------------------------------------------------------------------
(* Through the store. A distributed request is written as JSON text; the other *)
(* device reads it, drops it if it cannot read its content, and says who made  *)
(* it there.                                                                   *)

Store ==
  /\ stage = "held"
  /\ form.root = "request"
  /\ ~form.away
  /\ <<"options", "isDistributed">> \in form.has
  /\ sent' = form.has
  /\ form' = [form EXCEPT !.has =
       UNION {{<<role, key>> : key \in {k \in DOMAIN ToJson[role] :
                                          <<role, ToJson[role][k]>> \in form.has}} :
                role \in DOMAIN ToJson}]
  /\ stage' = "stored"
  /\ UNCHANGED told

Fetch ==
  /\ stage = "stored"
  /\ IF TypeOf(form.values) \in ConvertJsonToContent
     THEN LET read == {<<p[1], FromJson[p[1]][p[2]]>> :
                         p \in {q \in form.has : q[2] \in DOMAIN FromJson[q[1]]}}
              uris == IF <<"message", "uri.text">> \in read THEN {<<"message", "uri">>} ELSE {}
          IN /\ form' = [form EXCEPT
                  !.away = TRUE,
                  !.has = Reshaped(read \cup uris \cup {<<"request", "creatorUid">>})]
             /\ stage' = "held"
     ELSE stage' = "lost" /\ UNCHANGED form
  /\ UNCHANGED <<told, sent>>

----------------------------------------------------------------------------
(* A native object becomes a script object. The Uri of a message is followed   *)
(* without a look whether there is one; an agent is hidden behind the owner; a *)
(* button without its want agent is left with its title; only what came from   *)
(* another device is said to be distributed; an enumeration without a          *)
(* counterpart is left out.                                                    *)

SetCreator(has) ==
  IF <<"request", "isAgent">> \in has
  THEN [creatorBundleName |-> "ownerBundleName", creatorUid |-> "ownerUid",
        creatorUserId |-> "ownerUserId"]
  ELSE Alike({"creatorBundleName", "creatorUid", "creatorUserId"})

Sets(role) == IF role = "request" THEN SetCreator(form.has) ++ Setters[role] ELSE Setters[role]

Shown(p) ==
  /\ p[1] = "button" /\ p[2] # "title" => <<"button", "wantAgent">> \in form.has
  /\ p = <<"options", "isDistributed">> => <<"notification", "deviceId">> \in form.has
  /\ p[2] \in DOMAIN CToJS \cap DOMAIN form.values => form.values[p[2]] \in DOMAIN CToJS[p[2]]

Heard ==
  UNION {{<<role, key>> : key \in {k \in DOMAIN Sets(role) :
                                     LET p == <<role, Sets(role)[k]>>
                                     IN p \in form.has /\ Shown(p)}} :
           role \in DOMAIN Setters}

Hear ==
  /\ stage = "subscriber"
  /\ form.root \in DOMAIN Setters
  /\ IF <<"message", "sender">> \in form.has /\ <<"message", "uri">> \notin form.has
     THEN stage' = "crashed" /\ UNCHANGED form
     ELSE LET shown == {n \in DOMAIN form.values : form.values[n] \in DOMAIN CToJS[n]}
          IN /\ form' = [form EXCEPT !.values = [n \in shown |-> CToJS[n][form.values[n]]],
                                     !.has = Heard]
             /\ stage' = "heard"
  /\ UNCHANGED <<told, sent>>

JourneyNext ==
  \/ Tell
  \/ Send
  \/ Serve
  \/ \E remind \in RemindTypes : Post(remind)
  \/ Read
  \/ Store
  \/ Fetch
  \/ Hear

JourneySpec == JourneyInit /\ [][JourneyNext]_journeyVars

----------------------------------------------------------------------------
(* Properties                                                                  *)

(* What crosses between processes arrives whole: every class reads its parcel  *)
(* in the order and with the types it writes it.                               *)
ParcelArrivesWhole == stage \in {"service", "subscriber"} => form.has = sent

(* A script hears of a notification, a slot, a reminder or a date of its own   *)
(* device every property another script told, with the value it told.          *)
HeardAsTold ==
  stage = "heard" /\ ~form.away /\ told # NoScript =>
    /\ \A p \in told.has \ {<<"options", "isDistributed">>} :
         p \in form.has \/ (p[1] = "date" /\ told.values.doNotDisturbType = "NONE")
    /\ \A n \in DOMAIN told.values : told.values[n] \in {form.values[n], "UNKNOWN_TYPE"}

(* What comes to another device comes with the members a notification is known *)
(* by, here and to its owner, and with all of its text: what the store cannot  *)
(* carry whole is not put there, but for media, which do not come at all.      *)
IdentityMembers ==
  {<<"request", m>> : m \in {"notificationId", "label", "creatorUserId", "creatorUid",
                             "creatorBundleName", "ownerBundleName"}}

ArrivesAway ==
  /\ stage = "held" /\ form.away =>
       \A p \in sent :
         p \in IdentityMembers \/ p[1] = BodyOf[TypeOf(form.values)] => p \in form.has
  /\ stage = "lost" => TypeOf(form.values) = "MEDIA"

(* A script survives what another script told.                                 *)
ScriptsSurviveScripts == stage = "crashed" => told = NoScript

----------------------------------------------------------------------------
(* What the documentation says and the code does not do                        *)

(* "Obtains the URI of this message. uri?: string" (notificationContent.d.ts,  *)
(* line 179): a message may come without one.                                  *)
ScriptsSurvive == stage # "crashed"
=============================================================================
