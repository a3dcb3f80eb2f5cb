--------------------------------- MODULE Tables ---------------------------------
(* Tables from the keys of a form (JSON text, a script object) to the members  *)
(* of the object it is a form of.                                              *)

(* The keys that have the name of their member.                                *)
Alike(keys) == [k \in keys |-> k]

(* Two tables in one.                                                          *)
t ++ u == [k \in DOMAIN t \cup DOMAIN u |-> IF k \in DOMAIN t THEN t[k] ELSE u[k]]
=============================================================================
