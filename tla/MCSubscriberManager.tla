------------------------ MODULE MCSubscriberManager ------------------------
(* Small instances of SubscriberManager for the model checker.             *)
EXTENDS SubscriberManager, TLC

CONSTANTS s1, x, y, nx, ny, date, u1, u2, root

MCUserOf == s1 :> u1

(* Bundle x of the system notifies all users, bundle y of the user of the  *)
(* subscriber notifies another one.                                        *)
MCBundleOf == nx :> x @@ ny :> y
MCSenderOf == nx :> root @@ ny :> u1
MCReceiverOf == nx :> NoUser @@ ny :> u2

To(op, names) == [op |-> op, names |-> names, user |-> NoUser]

(* Subscribe to all, as one who asks for a user too, or to one bundle;     *)
(* unsubscribe from either bundle or from all.                             *)
MCCalls == {To("subscribe", {}), [To("subscribe", {}) EXCEPT !.user = u2],
            To("subscribe", {x}), To("unsubscribe", {x}),
            To("unsubscribe", {y}), To("unsubscribe all", {})}
=============================================================================
