-------------------------------- MODULE Dict --------------------------------
(***************************************************************************)
(* What a freehttpd hash table promises to its callers: a finite map from  *)
(* keys to data pointers.  The map is kept as the set of its bindings, so  *)
(* that "no key is bound twice" is something a refinement has to show      *)
(* rather than something the representation gives away.                    *)
(*                                                                         *)
(* ret is what the last completed call returned: ok is the C return value  *)
(* (or "found"), flag the bool written through flag/flag_created, data the *)
(* returned pointer.                                                       *)
(***************************************************************************)
CONSTANTS Key, Data, NULL

VARIABLES map, ret

vars == <<map, ret>>

Bound(k) == {b \in map : b[1] = k}

Init ==
    /\ map = {}
    /\ ret = [op |-> "none", ok |-> TRUE, flag |-> FALSE, data |-> NULL]

(* A successful set binds k to d; the flag says whether k was unbound.     *)
Set(k, d) ==
    /\ map' = (map \ Bound(k)) \cup {<<k, d>>}
    /\ ret' = [op |-> "set", ok |-> TRUE, flag |-> Bound(k) = {}, data |-> NULL]

(* A set may run out of memory; it then changes no binding.  The flag is   *)
(* FALSE or, when the copy of the key failed, whatever the caller had put  *)
(* in it.                                                                  *)
SetFails ==
    /\ \E f \in BOOLEAN :
         ret' = [op |-> "set", ok |-> FALSE, flag |-> f, data |-> NULL]
    /\ UNCHANGED map

Get(k) ==
    /\ \/ /\ Bound(k) = {}
          /\ ret' = [op |-> "get", ok |-> FALSE, flag |-> FALSE, data |-> NULL]
       \/ \E b \in Bound(k) :
            ret' = [op |-> "get", ok |-> TRUE, flag |-> TRUE, data |-> b[2]]
    /\ UNCHANGED map

Delete(k) ==
    \E b \in Bound(k) :
      /\ map' = map \ {b}
      /\ ret' = [op |-> "delete", ok |-> TRUE, flag |-> TRUE, data |-> b[2]]

(* k is not bound, or there was no memory to record the deletion: both are *)
(* reported the same way, and neither changes a binding.                   *)
DeleteFails ==
    /\ ret' = [op |-> "delete", ok |-> FALSE, flag |-> FALSE, data |-> NULL]
    /\ UNCHANGED map

(* The table is freed with everything in it. *)
Free == map' = {} /\ UNCHANGED ret

Next ==
    \/ \E k \in Key : \E d \in Data : Set(k, d)
    \/ \E k \in Key : Get(k) \/ Delete(k)
    \/ SetFails
    \/ DeleteFails
    \/ Free

Spec == Init /\ [][Next]_vars
=============================================================================
