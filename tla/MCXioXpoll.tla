----------------------------- MODULE MCXioXpoll -----------------------------
(* Values for the constants of XioXpoll that TLC's configurations need. *)
EXTENDS XioXpoll, TLC

CONSTANTS f1, f2, f3, u1, u2

Fds3 == {f1, f2, f3}

(* No step reads what an earlier call returned. *)
IgnoreRet == <<xio, interest, aborted>>

Symmetry == Permutations(Fd) \cup Permutations(Udata)
=============================================================================
