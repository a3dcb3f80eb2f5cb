---------------------- MODULE MCDistributedNotifications ----------------------
(* Instances of DistributedNotifications for TLC.                              *)
EXTENDS DistributedNotifications

CONSTANTS here, there, n1, n2, b1, b2

(* Each note of a bundle of its own.                                           *)
MCBundleOf == [n \in Notes |-> IF n = n1 THEN b1 ELSE b2]
=============================================================================
