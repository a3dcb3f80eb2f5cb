------------------------- MODULE MCSubscriberInstances -------------------------
(* One object with the callbacks the model tells apart, and one that has none  *)
(* of them, so that it never learns that it is disconnected.                   *)
EXTENDS SubscriberInstances, TLC

CONSTANTS attentive, curt

SomeCallbacks ==
  attentive :> {"onCancel", "onDisconnect", "onDestroy"} @@ curt :> {"onConsume"}
=============================================================================
