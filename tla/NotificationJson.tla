---------------------------- MODULE NotificationJson ----------------------------
(* The JSON text in which a request crosses the distributed store: the keys    *)
(* each class writes and the keys it reads, each with the member it stands     *)
(* for. ToJson and FromJson are separate code, and so are their tables.        *)
EXTENDS Tables

RequestToJson ==
  Alike({"color", "deliveryTime", "autoDeletedTime", "creatorBundleName", "ownerBundleName",
        "groupName", "label", "classification", "slotType", "showDeliveryTime", "tapDismissed",
        "colorEnabled", "isCountdown", "creatorUid", "creatorPid", "creatorUserId",
        "receiverUserId"})
    ++ [id |-> "notificationId", badgeIconStyle |-> "badgeStyle", isOngoing |-> "inProgress",
        isAlertOnce |-> "alertOneTime", isStopwatch |-> "showStopwatch",
        isUnremovable |-> "unremovable", isFloatingIcon |-> "floatingIcon"]

ConvertJsonToNum ==
  Alike({"color", "deliveryTime", "autoDeletedTime", "creatorUid", "creatorPid",
        "creatorUserId", "receiverUserId", "badgeNumber"}) ++ [id |-> "notificationId"]

ConvertJsonToString ==
  Alike({"creatorBundleName", "ownerBundleName", "groupName", "label", "classification"})

ConvertJsonToEnum == [slotType |-> "slotType", badgeIconStyle |-> "badgeStyle"]

ConvertJsonToBool ==
  Alike({"showDeliveryTime", "tapDismissed", "colorEnabled", "isCountdown"})
    ++ [isOngoing |-> "inProgress", isAlertOnce |-> "alertOneTime",
        isStopwatch |-> "showStopwatch", isUnremovable |-> "unremovable",
        isFloatingIcon |-> "floatingIcon"]

ConvertObjectsToJson ==
  Alike({"wantAgent", "actionButtons", "distributedOptions", "notificationFlags"})
    ++ [content |-> "notificationContent", extraInfo |-> "additionalParams",
        smallIcon |-> "littleIcon", largeIcon |-> "bigIcon"]
ConvertJsonToObjects ==
  Alike({"wantAgent", "actionButtons", "distributedOptions", "notificationFlags"})
    ++ [content |-> "notificationContent", extraInfo |-> "additionalParams",
        smallIcon |-> "littleIcon", largeIcon |-> "bigIcon"]

RequestFromJson ==
  ConvertJsonToNum ++ ConvertJsonToString ++ ConvertJsonToEnum ++ ConvertJsonToBool
    ++ ConvertJsonToObjects

----------------------------------------------------------------------------
(* The parts of a request.                                                     *)

ButtonToJson == Alike({"icon", "title", "wantAgent", "extras"})
ButtonFromJson == Alike({"icon", "title", "wantAgent", "extras"})

InputToJson ==
  Alike({"inputKey", "tag", "options", "permitFreeFormInput", "permitMimeTypes", "editType",
        "additionalData"})
InputFromJson ==
  Alike({"inputKey", "tag", "options", "permitFreeFormInput", "permitMimeTypes", "editType",
        "additionalData"})

FlagsToJson == Alike({"soundEnabled", "vibrationEnabled"})
FlagsFromJson == Alike({"soundEnabled", "vibrationEnabled"})

OptionsToJson == Alike({"isDistributed", "devicesSupportDisplay", "devicesSupportOperate"})
OptionsFromJson == Alike({"isDistributed", "devicesSupportDisplay", "devicesSupportOperate"})

UserToJson == Alike({"key", "name", "pixelMap", "uri", "isMachine", "isUserImportant"})
UserFromJson == Alike({"key", "name", "pixelMap", "uri", "isMachine", "isUserImportant"})

----------------------------------------------------------------------------
(* The contents. A content without a body is not written; a body is read by    *)
(* the type of its content, and there are types no body is read for.           *)

ContentToJson == Alike({"contentType", "content"})
ContentFromJson == Alike({"contentType", "content"})

ConvertJsonToContent == {"BASIC_TEXT", "CONVERSATION", "LONG_TEXT", "MULTILINE", "PICTURE"}

BasicToJson == Alike({"text", "title", "additionalText"})
BasicFromJson == Alike({"text", "title", "additionalText"})

LongTextToJson == BasicToJson ++ Alike({"longText", "expandedTitle", "briefText"})
LongTextFromJson == BasicFromJson ++ Alike({"longText", "expandedTitle", "briefText"})

MediaToJson == BasicToJson ++ Alike({"sequenceNumbers"})
MediaFromJson == BasicFromJson ++ Alike({"sequenceNumbers"})

MultiLineToJson == BasicToJson ++ Alike({"expandedTitle", "briefText", "allLines"})
MultiLineFromJson == BasicFromJson ++ Alike({"expandedTitle", "briefText", "allLines"})

PictureToJson == BasicToJson ++ Alike({"expandedTitle", "briefText", "bigPicture"})
PictureFromJson == BasicFromJson ++ Alike({"expandedTitle", "briefText", "bigPicture"})

ConversationToJson ==
  BasicToJson ++ Alike({"messageUser", "conversationTitle", "isGroup", "messages"})
ConversationFromJson == BasicFromJson ++ Alike({"messageUser", "messages"})

(* A message without a Uri is written with an empty text, and an empty text    *)
(* makes no Uri.                                                               *)
MessageToJson == Alike({"arrivedTime", "text", "sender", "mimeType"}) ++ [uri |-> "uri.text"]
MessageFromJson == Alike({"arrivedTime", "text", "sender", "mimeType"}) ++ [uri |-> "uri.text"]
=============================================================================
