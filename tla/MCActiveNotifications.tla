----------------------- MODULE MCActiveNotifications -----------------------
(* Small instances of ActiveNotifications for the model checker.           *)
EXTENDS ActiveNotifications, TLC

CONSTANTS a1, a2, b1, task, x, y, u1, u2, i1, i2, g, social, other

(* Bundle x is installed for two users, bundle y for one. *)
MCNameOf == a1 :> x @@ a2 :> x @@ b1 :> y
MCUserOf == a1 :> u1 @@ a2 :> u2 @@ b1 :> u1
MCTwoNames == a1 :> x @@ b1 :> y
MCTaskUser == a1 :> u1 @@ b1 :> u1 @@ task :> u1
MCTwoLevels == social :> 4 @@ other :> 1
MCOneLevel == social :> 4

Request(id, type, time, unremovable) ==
  [id |-> id, slotType |-> type, group |-> g, time |-> time,
   unremovable |-> unremovable]

(* One id in either importance and at two times, and a second id that stays. *)
CapRequests == {Request(i1, social, 1, FALSE), Request(i1, other, 2, FALSE),
                Request(i2, social, 2, TRUE)}

(* One id, sent as one that the user may remove or one that stays. *)
SwitchRequests == {Request(i1, social, 1, FALSE), Request(i1, social, 1, TRUE)}

(* The state after each bundle has added a slot of each type. *)
Settled ==
  /\ alive = TRUE
  /\ notificationList = {}
  /\ flowControlTimestampList = <<>>
  /\ recentList = <<>>
  /\ recentCount = DefaultCount
  /\ shown = {}
  /\ enabled = [app \in Apps |-> "on"]
  /\ announced = [app \in Apps |-> "unknown"]
  /\ userEnabled = [user \in Users |-> "unknown"]
  /\ slots = [app \in Apps |-> [type \in SlotTypes |-> DefaultSlot(type)]]

(* The calls that take notifications out and leave the settings alone. *)
Taking ==
  \/ \E key \in KeyType : Delete(key)
  \/ \E app \in Apps : DeleteByBundle(app) \/ RemoveAllNotifications(app)
  \/ \E user \in Users : DeleteAllByUser(user)
  \/ \E app \in Apps, id \in Ids : RemoveNotification(app, id)
  \/ \E app \in Apps, group \in Groups : RemoveGroupByBundle(app, group)

(* Settled bundles that publish and cancel while their records are taken. *)
CapsNext ==
  /\ alive
  /\ \/ Publishing
     \/ Cancelling
     \/ Taking
     \/ Elapse
     \/ \E count \in RecentCounts : SetRecentNotificationCount(count)

CapsSpec == Settled /\ [][CapsNext]_vars
=============================================================================
