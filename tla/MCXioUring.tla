---------------------------- MODULE MCXioUring ----------------------------
(* Values for the constants of XioUring that TLC's configurations need. *)
EXTENDS XioUring

CONSTANTS x1, x2, x3, u1, u2, u3

TwoBids == {0, 1}
OneBid == {0}
Symmetry == Permutations(DataId) \cup Permutations(Udata)
=============================================================================
