------------------------------ MODULE Registry ------------------------------
(***************************************************************************)
(* What xpoll promises, whatever the backend: a set of registered file     *)
(* descriptors, each with the events and udata it was last registered      *)
(* with, and a wait that reports ready ones.  The tests under tests/event  *)
(* check the backends against it.                                          *)
(*                                                                         *)
(* The registrations are a set of pairs, so that "registered once" is      *)
(* something an implementation has to show.                                *)
(***************************************************************************)
EXTENDS Integers, FiniteSets

CONSTANTS Fd, Reg     \* descriptors; an event mask together with a udata

VARIABLES interest,   \* pairs <<fd, reg>>
          ready,      \* descriptors with an event pending: the environment
          ret         \* what the last call returned

vars == <<interest, ready, ret>>

Registered(fd) == {p \in interest : p[1] = fd}
Done(op, fd, ok) == [op |-> op, fd |-> fd, ok |-> ok, events |-> {}]

Init ==
    /\ interest = {}
    /\ ready = {}
    /\ ret = Done("create", 0, TRUE)

(* Only a descriptor that is not registered can be added. *)
Add(fd, r) ==
    /\ Registered(fd) = {}
    /\ interest' = interest \cup {<<fd, r>>}
    /\ ret' = Done("add", fd, TRUE)
    /\ UNCHANGED ready

(* Already registered, or out of memory. *)
AddFails(fd) == ret' = Done("add", fd, FALSE) /\ UNCHANGED <<interest, ready>>

Modify(fd, r) ==
    /\ Registered(fd) # {}
    /\ interest' = (interest \ Registered(fd)) \cup {<<fd, r>>}
    /\ ret' = Done("modify", fd, TRUE)
    /\ UNCHANGED ready

Remove(fd) ==
    /\ Registered(fd) # {}
    /\ interest' = interest \ Registered(fd)
    /\ ret' = Done("remove", fd, TRUE)
    /\ UNCHANGED ready

(* Only a descriptor that is not registered cannot be modified or removed. *)
NotThere(op, fd) ==
    /\ Registered(fd) = {}
    /\ ret' = Done(op, fd, FALSE)
    /\ UNCHANGED <<interest, ready>>

AddOrModify(fd, r) ==
    /\ interest' = (interest \ Registered(fd)) \cup {<<fd, r>>}
    /\ ret' = Done("add_or_modify", fd, TRUE)
    /\ UNCHANGED ready

AddOrModifyFails(fd) ==
    /\ Registered(fd) = {}
    /\ ret' = Done("add_or_modify", fd, FALSE)
    /\ UNCHANGED <<interest, ready>>

(* A wait reports registrations of ready descriptors: all of them, or as   *)
(* many as fit.                                                            *)
Wait(max) ==
    LET hits == {p \in interest : p[1] \in ready}
    IN \E out \in SUBSET hits :
         /\ Cardinality(out) = IF Cardinality(hits) < max
                               THEN Cardinality(hits) ELSE max
         /\ ret' = [Done("wait", 0, TRUE) EXCEPT !.events = out]
         /\ UNCHANGED <<interest, ready>>

(* No room for events was offered, or a signal came. *)
WaitFails == ret' = Done("wait", 0, FALSE) /\ UNCHANGED <<interest, ready>>

(* Closing the registry forgets every registration. *)
Close ==
    /\ interest' = {}
    /\ ret' = Done("create", 0, TRUE)
    /\ UNCHANGED ready

Environment == ready' \in SUBSET Fd /\ UNCHANGED <<interest, ret>>

Next ==
    \/ \E fd \in Fd, r \in Reg : Add(fd, r) \/ Modify(fd, r) \/ AddOrModify(fd, r)
    \/ \E fd \in Fd : \/ AddFails(fd) \/ Remove(fd) \/ AddOrModifyFails(fd)
                      \/ NotThere("modify", fd) \/ NotThere("remove", fd)
    \/ \E max \in 1..Cardinality(Fd) : Wait(max)
    \/ WaitFails
    \/ Close
    \/ Environment

Spec == Init /\ [][Next]_vars
=============================================================================
