------------------------------ MODULE MCHTable ------------------------------
(* Values for the constants of HTable that TLC's configurations need. *)
EXTENDS HTable, TLC

CONSTANTS k1, k2, k3, d1, d2

Keys2 == {k1, k2}
Keys3 == {k1, k2, k3}
OneDatum == {d1}
TwoData == {d1, d2}

(* k1 and k2 collide in every table, and all of their paths wrap around    *)
(* the end of the index; k3 falls in the middle of their path.             *)
CollidingHash == [k \in Key |-> IF k = k3 THEN 0 ELSE 7]

(* No action and no invariant reads ret: states that differ only there    *)
(* need not be told apart.                                                 *)
IgnoreRet == <<table, deleted, owned, pc, growing>>
=============================================================================
