---------------------------- MODULE MCXpollPoll ----------------------------
(* Values for the constants of XpollPoll that TLC's configurations need. *)
EXTENDS XpollPoll

CONSTANT r1

Fds3 == 0..2
OneReg == [fd \in Fds3 |-> {r1}]
=============================================================================
