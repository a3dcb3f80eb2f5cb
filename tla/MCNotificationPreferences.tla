--------------------- MODULE MCNotificationPreferences ---------------------
(* Small instances of NotificationPreferences for the model checker.       *)
EXTENDS NotificationPreferences, TLC

CONSTANTS app, on, off, slot, g1, g2, u1, u2

VARIABLE calls   \* whose settings the calls of a behaviour change

(* Every property is on by default. *)
MCDefaultOf == [f \in {Name} \cup Properties |-> on]

(* The settings of bundles and those of users share no field: a behaviour  *)
(* has the calls of one kind, those about bundles under one user, and      *)
(* every other step.                                                       *)
Active == IF calls = "bundles" THEN {u1} ELSE Users
MCInit == Init /\ calls \in {"bundles", "users"} /\ reload.user \in Active
MCNext ==
  /\ UNCHANGED calls
  /\ \/ calls = "bundles" /\ \E x \in Bundles : BundleCall(x)
     \/ calls = "users" /\ \E u \in Users : UserCall(u)
     \/ Commit
     \/ StoreDeathRecipient
     \/ \E u \in Active : UserSwitched(u) \/ Restart(u)
     \/ ReloadStep
MCSpec == MCInit /\ [][MCNext]_<<vars, calls>>
============================================================================
