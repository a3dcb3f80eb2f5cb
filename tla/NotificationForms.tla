--------------------------- MODULE NotificationForms ---------------------------
(* The parcels of the service's data: what each class writes to one and reads  *)
(* from one, item by item. An item has the type it is written or read with and *)
(* the member it carries.                                                      *)
EXTENDS Naturals, Sequences

Row(type, members) == [i \in 1 .. Len(members) |-> [type |-> type, member |-> members[i]]]

----------------------------------------------------------------------------
(* NotificationRequest in a parcel.                                            *)

RequestNumbersWritten ==
  Row("int32", <<"notificationId">>) \o Row("uint32", <<"color">>)
    \o Row("int32", <<"badgeNumber", "progressValue", "progressMax">>)
    \o Row("int64", <<"createTime", "deliveryTime", "autoDeletedTime">>)
    \o Row("int32", <<"creatorPid", "creatorUid", "ownerUid", "creatorUserId", "ownerUserId",
                      "receiverUserId">>)
RequestNumbersRead ==
  Row("int32", <<"notificationId">>) \o Row("uint32", <<"color">>)
    \o Row("int32", <<"badgeNumber", "progressValue", "progressMax">>)
    \o Row("int64", <<"createTime", "deliveryTime", "autoDeletedTime">>)
    \o Row("int32", <<"creatorPid", "creatorUid", "ownerUid", "creatorUserId", "ownerUserId",
                      "receiverUserId">>)

RequestTextsWritten ==
  Row("string", <<"settingsText", "creatorBundleName", "ownerBundleName", "groupName",
                  "statusBarText", "label", "shortcutId", "sortingKey", "classification">>)
RequestTextsRead ==
  Row("string", <<"settingsText", "creatorBundleName", "ownerBundleName", "groupName",
                  "statusBarText", "label", "shortcutId", "sortingKey", "classification">>)

RequestKindsWritten ==
  Row("int32", <<"slotType", "groupAlertType", "visiblenessType", "badgeStyle",
                 "notificationContentType">>)
RequestKindsRead ==
  Row("int32", <<"slotType", "groupAlertType", "visiblenessType", "badgeStyle",
                 "notificationContentType">>)

RequestFlagsWritten ==
  Row("bool", <<"showDeliveryTime", "tapDismissed", "colorEnabled", "alertOneTime",
                "showStopwatch", "isCountdown", "inProgress", "groupOverview",
                "progressIndeterminate", "unremovable", "floatingIcon", "onlyLocal",
                "permitted", "isAgent">>)
(* Mutant: two neighbours of the fourteen switches change places.              *)
RequestFlagsReadSwapped ==
  Row("bool", <<"showDeliveryTime", "tapDismissed", "colorEnabled", "alertOneTime",
                "showStopwatch", "inProgress", "isCountdown", "groupOverview",
                "progressIndeterminate", "unremovable", "floatingIcon", "onlyLocal",
                "permitted", "isAgent">>)
RequestFlagsRead ==
  Row("bool", <<"showDeliveryTime", "tapDismissed", "colorEnabled", "alertOneTime",
                "showStopwatch", "isCountdown", "inProgress", "groupOverview",
                "progressIndeterminate", "unremovable", "floatingIcon", "onlyLocal",
                "permitted", "isAgent">>)

RequestObjectsWritten ==
  Row("optional", <<"wantAgent", "removalWantAgent", "maxScreenWantAgent", "additionalParams",
                    "littleIcon", "bigIcon", "notificationContent", "publicNotification">>)
RequestListsWritten ==
  Row("vector", <<"actionButtons", "messageUsers">>) \o Row("strings", <<"userInputHistory">>)
    \o Row("parcelable", <<"distributedOptions">>)
    \o Row("optional", <<"notificationTemplate", "notificationFlags">>)
RequestObjectsRead ==
  Row("optional", <<"wantAgent", "removalWantAgent", "maxScreenWantAgent", "additionalParams",
                    "littleIcon", "bigIcon", "notificationContent", "publicNotification">>)
    \o Row("vector", <<"actionButtons", "messageUsers">>) \o Row("strings", <<"userInputHistory">>)
    \o Row("parcelable", <<"distributedOptions">>)
    \o Row("optional", <<"notificationTemplate", "notificationFlags">>)

(* The parts of a request.                                                     *)
FlagsWritten == Row("uint8", <<"soundEnabled", "vibrationEnabled">>)
FlagsRead == Row("uint8", <<"soundEnabled", "vibrationEnabled">>)

OptionsWritten ==
  Row("bool", <<"isDistributed">>)
    \o Row("strings", <<"devicesSupportDisplay", "devicesSupportOperate">>)
OptionsRead ==
  Row("bool", <<"isDistributed">>)
    \o Row("strings", <<"devicesSupportDisplay", "devicesSupportOperate">>)

TemplateWritten == Row("string", <<"templateName">>) \o Row("optional", <<"templateData">>)
TemplateRead == Row("string", <<"templateName">>) \o Row("optional", <<"templateData">>)

ButtonWritten ==
  Row("string", <<"title">>) \o Row("bool", <<"autoCreatedReplies", "isContextual">>)
    \o Row("int32", <<"semanticActionButton">>)
    \o Row("optional", <<"icon", "wantAgent", "extras", "userInput">>)
ButtonRead ==
  Row("string", <<"title">>) \o Row("bool", <<"autoCreatedReplies", "isContextual">>)
    \o Row("int32", <<"semanticActionButton">>)
    \o Row("optional", <<"icon", "wantAgent", "extras", "userInput">>)

InputWritten ==
  Row("string", <<"inputKey", "tag">>) \o Row("bool", <<"permitFreeFormInput">>)
    \o Row("int32", <<"editType">>) \o Row("optional", <<"additionalData">>)
    \o Row("strings", <<"options">>) \o Row("vector", <<"permitMimeTypes">>)
InputRead ==
  Row("string", <<"inputKey", "tag">>) \o Row("bool", <<"permitFreeFormInput">>)
    \o Row("int32", <<"editType">>) \o Row("optional", <<"additionalData">>)
    \o Row("strings", <<"options">>) \o Row("vector", <<"permitMimeTypes">>)

UserWritten ==
  Row("string", <<"key", "name">>) \o Row("bool", <<"isMachine", "isUserImportant">>)
    \o Row("marked", <<"uri">>) \o Row("optional", <<"pixelMap">>)
UserRead ==
  Row("string", <<"key", "name">>) \o Row("bool", <<"isMachine", "isUserImportant">>)
    \o Row("marked", <<"uri">>) \o Row("optional", <<"pixelMap">>)

----------------------------------------------------------------------------
(* The contents in a parcel. The body of a content is read by its type.        *)

ContentWritten == Row("int32", <<"contentType">>) \o Row("optional", <<"content">>)
ContentRead == Row("int32", <<"contentType">>) \o Row("optional", <<"content">>)

BodyOf ==
  [BASIC_TEXT |-> "normal", CONVERSATION |-> "conversation", LONG_TEXT |-> "longText",
   MEDIA |-> "media", MULTILINE |-> "multiLine", PICTURE |-> "picture"]

BasicWritten == Row("string", <<"text", "title", "additionalText">>)
BasicRead == Row("string", <<"text", "title", "additionalText">>)

LongTextWritten == BasicWritten \o Row("string", <<"expandedTitle", "briefText", "longText">>)
LongTextRead == BasicRead \o Row("string", <<"expandedTitle", "briefText", "longText">>)

MediaWritten == BasicWritten \o Row("uint32s", <<"sequenceNumbers">>)
MediaRead == BasicRead \o Row("uint32s", <<"sequenceNumbers">>)

MultiLineWritten ==
  BasicWritten \o Row("string", <<"expandedTitle", "briefText">>) \o Row("strings", <<"allLines">>)
MultiLineRead ==
  BasicRead \o Row("string", <<"expandedTitle", "briefText">>) \o Row("strings", <<"allLines">>)

PictureWritten ==
  BasicWritten \o Row("string", <<"expandedTitle", "briefText">>)
    \o Row("optional", <<"bigPicture">>)
PictureRead ==
  BasicRead \o Row("string", <<"expandedTitle", "briefText">>) \o Row("optional", <<"bigPicture">>)

ConversationWritten ==
  BasicWritten \o Row("string", <<"conversationTitle">>) \o Row("bool", <<"isGroup">>)
    \o Row("parcelable", <<"messageUser">>) \o Row("vector", <<"messages">>)
ConversationRead ==
  BasicRead \o Row("string", <<"conversationTitle">>) \o Row("bool", <<"isGroup">>)
    \o Row("parcelable", <<"messageUser">>) \o Row("vector", <<"messages">>)

(* The Uri of a message is a parcelable of the platform that keeps its text.    *)
MessageWritten ==
  Row("int64", <<"arrivedTime">>) \o Row("string", <<"text">>) \o Row("parcelable", <<"sender">>)
    \o Row("optional", <<"uri">>) \o Row("text", <<"uri.text">>) \o Row("string", <<"mimeType">>)
MessageRead ==
  Row("int64", <<"arrivedTime">>) \o Row("string", <<"text">>) \o Row("parcelable", <<"sender">>)
    \o Row("optional", <<"uri">>) \o Row("text", <<"uri.text">>) \o Row("string", <<"mimeType">>)

----------------------------------------------------------------------------
(* What else crosses: the notification around a request, the slots, the order, *)
(* the reminders and the settings.                                             *)

NotificationWritten ==
  Row("bool", <<"enableLight", "enableSound", "enableVibration", "isRemoveAllowed">>)
    \o Row("string", <<"key", "sound", "deviceId">>)
    \o Row("int32", <<"ledLightColor", "lockscreenVisibleness", "remindType", "sourceType">>)
    \o Row("int64", <<"postTime">>) \o Row("int64s", <<"vibrationStyle">>)
    \o Row("strong", <<"request">>)
NotificationRead ==
  Row("bool", <<"enableLight", "enableSound", "enableVibration", "isRemoveAllowed">>)
    \o Row("string", <<"key", "sound", "deviceId">>)
    \o Row("int32", <<"ledLightColor", "lockscreenVisibleness", "remindType", "sourceType">>)
    \o Row("int64", <<"postTime">>) \o Row("int64s", <<"vibrationStyle">>)
    \o Row("strong", <<"request">>)

SlotWritten ==
  Row("string", <<"id", "name">>)
    \o Row("bool", <<"isLightEnabled", "isVibrationEnabled", "isShowBadge", "isBypassDnd">>)
    \o Row("string", <<"description">>)
    \o Row("int32", <<"lightColor", "level", "type", "lockScreenVisibleness">>)
    \o Row("string", <<"groupId">>) \o Row("marked", <<"sound">>)
    \o Row("int64s", <<"vibrationValues">>) \o Row("bool", <<"enabled">>)
SlotRead ==
  Row("string", <<"id", "name">>)
    \o Row("bool", <<"isLightEnabled", "isVibrationEnabled", "isShowBadge", "isBypassDnd">>)
    \o Row("string", <<"description">>)
    \o Row("int32", <<"lightColor", "level", "type", "lockScreenVisibleness">>)
    \o Row("string", <<"groupId">>) \o Row("marked", <<"sound">>)
    \o Row("int64s", <<"vibrationValues">>) \o Row("bool", <<"enabled">>)

GroupWritten ==
  Row("string", <<"id", "name", "description">>) \o Row("vector", <<"slots">>)
    \o Row("bool", <<"isDisabled">>)
GroupRead ==
  Row("string", <<"id", "name", "description">>) \o Row("vector", <<"slots">>)
    \o Row("bool", <<"isDisabled">>)

SortingWritten ==
  Row("string", <<"key">>) \o Row("uint64", <<"ranking">>)
    \o Row("int32", <<"importance", "visiblenessOverride">>)
    \o Row("bool", <<"isDisplayBadge", "isHiddenNotification">>)
    \o Row("string", <<"groupKeyOverride">>) \o Row("strong", <<"slot">>)
SortingRead ==
  Row("string", <<"key">>) \o Row("uint64", <<"ranking">>)
    \o Row("int32", <<"importance", "visiblenessOverride">>)
    \o Row("bool", <<"isDisplayBadge", "isHiddenNotification">>)
    \o Row("string", <<"groupKeyOverride">>) \o Row("strong", <<"slot">>)

SortingMapWritten == Row("vector", <<"sortings">>)
SortingMapRead == Row("vector", <<"sortings">>)

DateWritten == Row("int32", <<"doNotDisturbType">>) \o Row("int64", <<"beginDate", "endDate">>)
DateRead == Row("int32", <<"doNotDisturbType">>) \o Row("int64", <<"beginDate", "endDate">>)

BundleWritten == Row("string", <<"bundleName">>) \o Row("int32", <<"uid">>)
BundleRead == Row("string", <<"bundleName">>) \o Row("int32", <<"uid">>)

EnabledWritten ==
  Row("string16", <<"bundle">>) \o Row("int32", <<"uid">>) \o Row("bool", <<"enable">>)
EnabledRead ==
  Row("string16", <<"bundle">>) \o Row("int32", <<"uid">>) \o Row("bool", <<"enable">>)

ReminderWritten ==
  Row("string", <<"content", "expiredContent", "snoozeContent", "title", "wantAgent_abilityName",
                  "wantAgent_pkgName", "maxScreen_abilityName", "maxScreen_pkgName">>)
    \o Row("bool", <<"isExpired">>) \o Row("int32", <<"reminderId", "notificationId">>)
    \o Row("uint64", <<"triggerTime", "timeInterval", "ringDuration", "reminderTime">>)
    \o Row("uint8", <<"snoozeTimes", "snoozeTimesDynamic", "state", "reminderType">>)
    \o Row("int32", <<"slotType">>) \o Row("vector", <<"actionButtonMap">>)
ReminderRead ==
  Row("string", <<"content", "expiredContent", "snoozeContent", "title", "wantAgent_abilityName",
                  "wantAgent_pkgName", "maxScreen_abilityName", "maxScreen_pkgName">>)
    \o Row("bool", <<"isExpired">>) \o Row("int32", <<"reminderId", "notificationId">>)
    \o Row("uint64", <<"triggerTime", "timeInterval", "ringDuration", "reminderTime">>)
    \o Row("uint8", <<"snoozeTimes", "snoozeTimesDynamic", "state", "reminderType">>)
    \o Row("int32", <<"slotType">>) \o Row("vector", <<"actionButtonMap">>)

TimerWritten == ReminderWritten \o Row("uint64", <<"firstRealTime", "countDownTime">>)
TimerRead == ReminderRead \o Row("uint64", <<"firstRealTime", "countDownTime">>)

AlarmWritten == ReminderWritten \o Row("uint8", <<"hour", "minute", "repeatDays">>)
AlarmRead == ReminderRead \o Row("uint8", <<"hour", "minute", "repeatDays">>)

CalendarWritten ==
  ReminderWritten \o Row("uint16", <<"year">>)
    \o Row("uint8", <<"month", "day", "hour", "minute", "second">>)
    \o Row("uint16", <<"repeatMonth">>) \o Row("uint32", <<"repeatDay">>)
    \o Row("uint16", <<"firstDesignateYear">>)
    \o Row("uint8", <<"firstDesignateMonth", "firstDesignateDay">>)
CalendarRead ==
  ReminderRead \o Row("uint16", <<"year">>)
    \o Row("uint8", <<"month", "day", "hour", "minute", "second">>)
    \o Row("uint16", <<"repeatMonth">>) \o Row("uint32", <<"repeatDay">>)
    \o Row("uint16", <<"firstDesignateYear">>)
    \o Row("uint8", <<"firstDesignateMonth", "firstDesignateDay">>)
=============================================================================
