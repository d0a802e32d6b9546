---------------------------- MODULE MCHTableIter ----------------------------
(* Values for the constants of HTableIter that TLC's configurations need.  *)
EXTENDS HTableIter, RoundCeil2

CONSTANTS k1, k2, k3, d1

(* k1 and k2 collide in every table, and all of their paths wrap around    *)
(* the end of the index; k3 falls in the middle of their path.             *)
CollidingHash == [k \in Key |-> IF k = k3 THEN 0 ELSE 7]

(* ret is only read by the step that sets it. *)
IgnoreRet == <<table, deleted, owned, pc, growing, iter_vars>>
=============================================================================
