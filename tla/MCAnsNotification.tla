--------------------------- MODULE MCAnsNotification ---------------------------
(* Requests that differ in what the client looks at.                           *)
EXTENDS AnsNotification

Request(content, big, actionBeyondButtons, distributed) ==
  [content |-> content, big |-> big, actionBeyondButtons |-> actionBeyondButtons,
   distributed |-> distributed]

SomeRequests ==
  [basic |-> Request("BASIC_TEXT", "none", FALSE, FALSE),
   none |-> Request("NONE", "none", FALSE, FALSE),
   media |-> Request("MEDIA", "none", TRUE, FALSE),
   icon |-> Request("BASIC_TEXT", "bigIcon", FALSE, FALSE),
   picture |-> Request("PICTURE", "picture", FALSE, FALSE),
   sender |-> Request("CONVERSATION", "sender", FALSE, FALSE),
   conversation |-> Request("CONVERSATION", "none", FALSE, TRUE),
   conversationHere |-> Request("CONVERSATION", "none", FALSE, FALSE)]
=============================================================================
