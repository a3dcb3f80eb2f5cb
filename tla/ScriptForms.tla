------------------------------- MODULE ScriptForms -------------------------------
(* The script objects of the JavaScript bindings: the properties a binding     *)
(* reads of an object and those it sets on one, each with the member of the    *)
(* native object it stands for, the properties an object is refused without,   *)
(* and the enumerations that have other values on the two sides. A property    *)
(* whose object is a value (a user, the options) stands for that member.       *)
EXTENDS Tables

----------------------------------------------------------------------------
(* NotificationRequest read of a script object.                                *)

GetIdAndSlotType == [id |-> "notificationId", slotType |-> "slotType"]
GetContent == [content |-> "notificationContent"]
GetOngoingToExtraInfo ==
  Alike({"deliveryTime", "tapDismissed", "wantAgent"})
    ++ [isOngoing |-> "inProgress", isUnremovable |-> "unremovable",
        extraInfo |-> "additionalParams"]
GetGroupNameToColor ==
  Alike({"groupName", "removalWantAgent", "maxScreenWantAgent", "autoDeletedTime",
         "classification", "color"})
GetColorEnabledToLabel ==
  Alike({"colorEnabled", "statusBarText", "label"})
    ++ [isAlertOnce |-> "alertOneTime", isStopwatch |-> "showStopwatch",
        isCountDown |-> "isCountdown"]
GetBadgeStyleToButtons ==
  Alike({"showDeliveryTime", "actionButtons"}) ++ [badgeIconStyle |-> "badgeStyle"]
GetIcons == [smallIcon |-> "littleIcon", largeIcon |-> "bigIcon"]
GetDistributedOptions == [distributedOption |-> "distributedOptions"]
GetTemplate == [template |-> "notificationTemplate"]
GetBadgeNumber == [badgeNumber |-> "badgeNumber"]

GetNotificationRequest ==
  GetIdAndSlotType ++ GetContent ++ GetOngoingToExtraInfo ++ GetGroupNameToColor
    ++ GetColorEnabledToLabel ++ GetBadgeStyleToButtons ++ GetIcons ++ GetDistributedOptions
    ++ GetTemplate ++ GetBadgeNumber

GetActionButton == Alike({"title", "wantAgent", "icon", "extras", "userInput"})
GetInputTexts == Alike({"inputKey", "tag", "options"})
GetInputChoices ==
  Alike({"permitMimeTypes", "permitFreeFormInput", "editType", "additionalData"})
GetOptions ==
  Alike({"isDistributed"}) ++ [supportDisplayDevices |-> "devicesSupportDisplay",
                               supportOperateDevices |-> "devicesSupportOperate"]
GetTemplateInfo == [name |-> "templateName", data |-> "templateData"]

----------------------------------------------------------------------------
(* The contents read of a script object.                                       *)

GetContentType == [contentType |-> "contentType"]
GetBasicContent == Alike({"title", "text", "additionalText"})
GetLongText == GetBasicContent ++ Alike({"longText", "briefText", "expandedTitle"})
GetPicture ==
  GetBasicContent ++ Alike({"briefText", "expandedTitle"}) ++ [picture |-> "bigPicture"]
GetConversation ==
  GetBasicContent ++ Alike({"conversationTitle", "messages"})
    ++ [user |-> "messageUser", conversationGroup |-> "isGroup"]
GetMessage ==
  Alike({"text", "sender", "mimeType"}) ++ [timestamp |-> "arrivedTime", uri |-> "uri.text"]
GetMessageUser ==
  Alike({"name", "key", "uri", "isMachine", "isUserImportant"}) ++ [icon |-> "pixelMap"]
GetMultiLine ==
  GetBasicContent ++ [briefText |-> "briefText", longTitle |-> "expandedTitle",
                      lines |-> "allLines"]

----------------------------------------------------------------------------
(* The settings and the reminders read of a script object.                     *)

GetSlot ==
  Alike({"type", "sound", "level", "lightColor", "vibrationValues"})
    ++ [desc |-> "description", badgeFlag |-> "isShowBadge", bypassDnd |-> "isBypassDnd",
        lightEnabled |-> "isLightEnabled", lockscreenVisibility |-> "lockScreenVisibleness",
        vibrationEnabled |-> "isVibrationEnabled"]
GetBundle == [bundle |-> "bundleName", uid |-> "uid"]
GetDate == [type |-> "doNotDisturbType", begin |-> "beginDate", end |-> "endDate"]

GenActionButtons == [actionButton |-> "actionButtonMap"]
GenWantAgent == Alike({"wantAgent_pkgName", "wantAgent_abilityName"})
GenMaxScreenWantAgent ==
  [maxScreenWantAgent_pkgName |-> "maxScreen_pkgName",
   maxScreenWantAgent_abilityName |-> "maxScreen_abilityName"]
GenReminder ==
  Alike({"reminderType", "title", "content", "expiredContent", "snoozeContent", "ringDuration",
         "timeInterval", "notificationId", "snoozeTimes", "slotType"})
    ++ GenWantAgent ++ GenMaxScreenWantAgent ++ GenActionButtons
CreateReminderTimer == GenReminder ++ [triggerTimeInSeconds |-> "countDownTime"]
CreateReminderAlarm ==
  GenReminder ++ [hour |-> "hour", minute |-> "minute", daysOfWeek |-> "repeatDays"]
CreateReminderCalendar ==
  GenReminder ++ [year |-> "year", month |-> "month", day |-> "day", hour |-> "hour",
                  minute |-> "minute", repeatMonths |-> "repeatMonth", repeatDays |-> "repeatDay"]

----------------------------------------------------------------------------
(* What an object is refused without (NAPI_ASSERT of the property).             *)

NeededOfRequest ==
  [request |-> {"content"}, content |-> {"contentType"}, template |-> {"name"},
   button |-> {"title", "wantAgent"}, input |-> {"inputKey", "tag", "options"}]
NeededOfContents ==
  [normal |-> {"title", "text"},
   longText |-> {"title", "text", "longText", "briefText", "expandedTitle"},
   picture |-> {"title", "text", "briefText", "expandedTitle", "picture"},
   multiLine |-> {"title", "text", "briefText", "longTitle", "lines"}]
NeededOfConversation ==
  [conversation |-> {"title", "text", "user", "conversationTitle", "conversationGroup",
                     "messages"},
   message |-> {"text", "timestamp", "sender", "mimeType"},
   user |-> {"name", "key", "uri", "isMachine", "isUserImportant"},
   sender |-> {"name", "key", "uri", "isMachine", "isUserImportant"}]
NeededOfSettings ==
  [slot |-> {"type"}, bundle |-> {"bundle"}, date |-> {"type", "begin", "end"}]
NeededOfReminders ==
  [timer |-> {"reminderType", "triggerTimeInSeconds"},
   alarm |-> {"reminderType", "hour", "minute"},
   calendar |-> {"reminderType", "year", "month", "day", "hour", "minute"}]

----------------------------------------------------------------------------
(* Notification and its request set on a script object.                        *)

SetNotification ==
  Alike({"isRemoveAllowed", "deviceId"}) ++ [hashCode |-> "key", source |-> "sourceType"]
SetNotificationByDistributedOptions ==
  Alike({"isDistributed"}) ++ [supportDisplayDevices |-> "devicesSupportDisplay",
                               supportOperateDevices |-> "devicesSupportOperate"]
SetRemindType == [remindType |-> "remindType"]

SetRequestByString ==
  Alike({"classification", "statusBarText", "label", "groupName", "creatorBundleName"})
SetRequestByNumber ==
  Alike({"slotType", "deliveryTime", "autoDeletedTime", "color", "creatorUid", "creatorPid",
         "badgeNumber"}) ++ [id |-> "notificationId", badgeIconStyle |-> "badgeStyle"]
(* Mutant: the key of the countdown is written as in the JSON text.            *)
SetRequestByBoolCountdown ==
  Alike({"tapDismissed", "colorEnabled", "showDeliveryTime"})
    ++ [isOngoing |-> "inProgress", isUnremovable |-> "unremovable",
        isAlertOnce |-> "alertOneTime", isStopwatch |-> "showStopwatch",
        isCountdown |-> "isCountdown", isFloatingIcon |-> "floatingIcon"]
SetRequestByBool ==
  Alike({"tapDismissed", "colorEnabled", "showDeliveryTime"})
    ++ [isOngoing |-> "inProgress", isUnremovable |-> "unremovable",
        isAlertOnce |-> "alertOneTime", isStopwatch |-> "showStopwatch",
        isCountDown |-> "isCountdown", isFloatingIcon |-> "floatingIcon"]
SetRequestByWantAgent == Alike({"wantAgent", "removalWantAgent", "maxScreenWantAgent"})
SetRequestByPixelMap == [smallIcon |-> "littleIcon", largeIcon |-> "bigIcon"]
SetRequestByCustom ==
  Alike({"actionButtons", "notificationFlags"})
    ++ [content |-> "notificationContent", extraInfo |-> "additionalParams",
        template |-> "notificationTemplate"]
SetNotificationRequest ==
  SetRequestByString ++ SetRequestByNumber ++ SetRequestByBool ++ SetRequestByWantAgent
    ++ SetRequestByPixelMap ++ SetRequestByCustom
    ++ [distributedOption |-> "distributedOptions"]

SetActionButton == Alike({"title", "wantAgent", "icon", "userInput"})
SetActionButtonByExtras == Alike({"extras"})
SetActionButtonByUserInput ==
  Alike({"inputKey", "tag", "options", "permitFreeFormInput", "permitMimeTypes", "editType",
         "additionalData"})
SetTemplateInfo == [name |-> "templateName", data |-> "templateData"]
SetFlags == Alike({"soundEnabled", "vibrationEnabled"})

----------------------------------------------------------------------------
(* The contents set on a script object.                                        *)

SetContent == [contentType |-> "contentType"]
SetBasicContent == Alike({"title", "text", "additionalText"})
SetLongText == SetBasicContent ++ Alike({"longText", "briefText", "expandedTitle"})
SetPicture ==
  SetBasicContent ++ Alike({"briefText", "expandedTitle"}) ++ [picture |-> "bigPicture"]
SetConversation ==
  SetBasicContent ++ Alike({"conversationTitle", "messages"})
    ++ [user |-> "messageUser", conversationGroup |-> "isGroup"]
SetMessage ==
  Alike({"text", "sender", "mimeType"}) ++ [timestamp |-> "arrivedTime", uri |-> "uri.text"]
SetMessageUser ==
  Alike({"name", "key", "uri", "isMachine", "isUserImportant"}) ++ [icon |-> "pixelMap"]
SetMultiLine ==
  SetBasicContent ++ [briefText |-> "briefText", longTitle |-> "expandedTitle",
                      lines |-> "allLines"]

----------------------------------------------------------------------------
(* The settings, the order and the reminders set on a script object.           *)

SetSlot ==
  Alike({"type", "level", "sound", "lightColor", "vibrationValues", "enabled"})
    ++ [desc |-> "description", badgeFlag |-> "isShowBadge", bypassDnd |-> "isBypassDnd",
        lightEnabled |-> "isLightEnabled", lockscreenVisibility |-> "lockScreenVisibleness",
        vibrationEnabled |-> "isVibrationEnabled"]
SetSorting ==
  Alike({"slot", "ranking", "isDisplayBadge", "isHiddenNotification", "importance",
         "groupKeyOverride", "visiblenessOverride"}) ++ [hashCode |-> "key"]
SetSortingMap == [sortings |-> "sortings", sortedHashCode |-> "sortings"]
SetDate == [type |-> "doNotDisturbType", begin |-> "beginDate", end |-> "endDate"]
SetEnabledData == Alike({"bundle", "uid", "enable"})

ParseReminderTimer == [triggerTimeInSeconds |-> "countDownTime"]
ParseReminderAlarm == [hour |-> "hour", minute |-> "minute", daysOfWeek |-> "repeatDays"]
ParseReminderCalendar ==
  [year |-> "year", month |-> "month", day |-> "day", hour |-> "hour", minute |-> "minute",
   second |-> "second", repeatMonths |-> "repeatMonth", repeatDays |-> "repeatDay"]
ParseActionButtons == [actionButton |-> "actionButtonMap"]
ParseWantAgent == Alike({"wantAgent_pkgName", "wantAgent_abilityName"})
ParseMaxScreenWantAgent ==
  [maxScreenWantAgent_pkgName |-> "maxScreen_pkgName",
   maxScreenWantAgent_abilityName |-> "maxScreen_abilityName"]
SetValidReminder ==
  Alike({"reminderType", "title", "content", "expiredContent", "snoozeContent", "ringDuration",
         "timeInterval", "notificationId", "snoozeTimes", "slotType"})
    ++ ParseWantAgent ++ ParseMaxScreenWantAgent ++ ParseActionButtons

----------------------------------------------------------------------------
(* Enumerations. A value with no counterpart is outside the table: a script's  *)
(* object is refused for it, and a native one is set without the property.     *)

ContentTypeJSToC == Alike({"BASIC_TEXT", "LONG_TEXT", "MULTILINE", "PICTURE", "CONVERSATION"})
ContentTypeCToJS == Alike({"BASIC_TEXT", "LONG_TEXT", "MULTILINE", "PICTURE", "CONVERSATION"})

SlotTypeJSToC ==
  [SOCIAL_COMMUNICATION |-> "SOCIAL_COMMUNICATION", SERVICE_INFORMATION |-> "SERVICE_REMINDER",
   CONTENT_INFORMATION |-> "CONTENT_INFORMATION", UNKNOWN_TYPE |-> "OTHER",
   OTHER_TYPES |-> "OTHER"]
SlotTypeCToJS ==
  [CUSTOM |-> "UNKNOWN_TYPE", SOCIAL_COMMUNICATION |-> "SOCIAL_COMMUNICATION",
   SERVICE_REMINDER |-> "SERVICE_INFORMATION", CONTENT_INFORMATION |-> "CONTENT_INFORMATION"]
    ++ [type \in {"OTHER"} |-> "OTHER_TYPES"]

SlotLevelJSToC == Alike({"NONE", "MIN", "LOW", "DEFAULT", "HIGH"})
SlotLevelCToJS == Alike({"NONE", "MIN", "LOW", "DEFAULT", "HIGH"}) ++ [UNDEFINED |-> "NONE"]

DoNotDisturbTypeJSToC == Alike({"NONE", "ONCE", "DAILY", "CLEARLY"})
DoNotDisturbTypeCToJS == Alike({"NONE", "ONCE", "DAILY", "CLEARLY"})

DeviceRemindTypeCToJS ==
  Alike({"IDLE_DONOT_REMIND", "IDLE_REMIND", "ACTIVE_DONOT_REMIND", "ACTIVE_REMIND"})
SourceTypeCToJS == Alike({"NORMAL", "CONTINUOUS", "TIMER"})
=============================================================================
