----------------------------- MODULE MCXpollEpoll -----------------------------
(* Values for the constants of XpollEpoll that TLC's configurations need. *)
EXTENDS XpollEpoll, TLC

CONSTANTS f1, f2, f3, r1, r2, x1

Symmetry == Permutations(Fd) \cup Permutations(Reg \ Exclusive)
=============================================================================
