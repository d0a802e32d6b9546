--------------------------- MODULE MCXpollKqueue ---------------------------
(* Values for the constants of XpollKqueue that TLC's configurations need. *)
EXTENDS XpollKqueue, TLC

CONSTANTS f1, f2, u1, u2

Symmetry == Permutations(Fd) \cup Permutations(Udata)
=============================================================================
