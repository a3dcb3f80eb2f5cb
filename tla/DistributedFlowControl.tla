------------------------ MODULE DistributedFlowControl ------------------------
(* services/distributed/src/distributed_flow_control.cpp: what is in front of  *)
(* the interfaces of the distributed key-value service. A list keeps the ages  *)
(* of the calls that passed, the latest first.                                 *)
EXTENDS Naturals, Sequences, FiniteSets

CONSTANTS
  Second, Minute,            \* in ticks
  KVMANAGER_MAXINUM_PER_SECOND, KVMANAGER_MAXINUM_PER_MINUTE,
  KVSTORE_MAXINUM_PER_SECOND, KVSTORE_MAXINUM_PER_MINUTE

ASSUME FlowAssumption ==
  /\ Second \in Nat /\ Minute \in Nat /\ Second < Minute
  /\ KVMANAGER_MAXINUM_PER_SECOND \in Nat \ {0}
  /\ KVSTORE_MAXINUM_PER_SECOND \in Nat \ {0}
  /\ KVMANAGER_MAXINUM_PER_MINUTE \in Nat
  /\ KVSTORE_MAXINUM_PER_MINUTE \in Nat

(* The latest call is first, so the first are what is left.                    *)
RemoveOld(list) == SubSeq(list, 1, Cardinality({i \in DOMAIN list : list[i] <= Minute}))

(* The count is compared with the maximum only when the loop meets a call that *)
(* is older than a second.                                                     *)
SecondPasses(list, maximum) ==
  \A i \in DOMAIN list :
    list[i] > Second /\ (\A j \in 1 .. i - 1 : list[j] <= Second) => i - 1 < maximum

(* The length looked at is that of the other list.                             *)
KvManagerFlowControl(manager, store) ==
  /\ Len(store) < KVMANAGER_MAXINUM_PER_MINUTE
  /\ SecondPasses(RemoveOld(manager), KVMANAGER_MAXINUM_PER_SECOND)

(* Mutant: the call that is asked for is not counted. *)
KvStoreFlowControlLate(store) ==
  /\ Len(RemoveOld(store)) <= KVSTORE_MAXINUM_PER_MINUTE
  /\ SecondPasses(RemoveOld(store), KVSTORE_MAXINUM_PER_SECOND)

KvStoreFlowControl(store) ==
  /\ Len(RemoveOld(store)) < KVSTORE_MAXINUM_PER_MINUTE
  /\ SecondPasses(RemoveOld(store), KVSTORE_MAXINUM_PER_SECOND)

(* A list after a call: it forgets what is old, passed or not.                 *)
Counted(list, passed) == (IF passed THEN <<0>> ELSE <<>>) \o RemoveOld(list)

Older(list) == [i \in DOMAIN list |-> IF list[i] <= Minute THEN list[i] + 1 ELSE list[i]]
=============================================================================
