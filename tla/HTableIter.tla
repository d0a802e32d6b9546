----------------------------- MODULE HTableIter -----------------------------
(***************************************************************************)
(* A loop of ht_foreach_template (src/hash/htable.h) over the table of     *)
(* HTable, with calls on the same table in its body.  The iterator keeps   *)
(* an entry number and a pointer into the entry array; the pointer is      *)
(* written as the number with the capacity of the table whose array it     *)
(* points into, since growth is what replaces the array.                   *)
(*                                                                         *)
(* Nothing in the source says what a loop body may do.  The bodies here    *)
(* never insert so that the table grows, and after deleting the entry they *)
(* are at only look things up.                                             *)
(***************************************************************************)
EXTENDS HTable

CONSTANT NoKey

ASSUME NoKeyAssumption == NoKey \notin Key \cup {NULL}

VARIABLES
    it,            \* the iterator
    loop,          \* "outside", "body", or "over" once the loop has ended
    times,         \* ghost: how often the body was run for each key ...
    kept,          \* ghost: ... of those there from the start, not deleted
    gone           \* the body deleted the key that it is run for

iter_vars == <<it, loop, times, kept, gone>>
all_vars == <<vars, iter_vars>>

Nowhere == [idx |-> NONE, array |-> 0]
Keys == {EntryAt(s).key : s \in LiveSlots}
Never == [k \in Key |-> 0]

InitIter ==
    /\ Init
    /\ it = Nowhere /\ loop = "outside"
    /\ times = Never /\ kept = {} /\ gone = FALSE

(* it.entry->key, if the pointer still points into the table. *)
KeyAt(e) == IF e.array = index_capacity /\ e.idx \in DOMAIN entries
            THEN entries[e.idx].key ELSE NoKey

(* Mutant: the iteration starts at the first entry of the array. *)
ht_iter_begin_AtZero ==
    [idx |-> IF count = 0 THEN NONE ELSE 0, array |-> index_capacity]

ht_iter_begin == [idx |-> head_idx, array |-> index_capacity]

(* idx comes from the old pointer, the new pointer from idx. *)
ht_iter_next == [idx |-> entries[it.idx].next_idx, array |-> index_capacity]

(* ht_iter_has_next, and the body's first look at the entry. *)
Visit(e, counted, keys) ==
    /\ it' = e
    /\ loop' = IF e.idx = NONE THEN "over" ELSE "body"
    /\ times' = IF e.idx # NONE /\ KeyAt(e) \in keys
                THEN [counted EXCEPT ![KeyAt(e)] = @ + 1] ELSE counted
    /\ gone' = FALSE

StartLoop ==
    /\ pc = "idle" /\ loop = "outside"
    /\ Visit(ht_iter_begin, Never, Keys)
    /\ kept' = Keys
    /\ UNCHANGED vars

NextIteration ==
    /\ loop = "body"
    /\ Visit(ht_iter_next, times, kept)
    /\ UNCHANGED <<vars, kept>>

(* The caller is done with what the loop found. *)
LeaveLoop ==
    /\ loop = "over"
    /\ loop' = "outside"
    /\ it' = Nowhere /\ times' = Never /\ kept' = {} /\ gone' = FALSE
    /\ UNCHANGED vars

-----------------------------------------------------------------------------
(* Calls in the body, and the table's own steps outside a loop *)

BodyGet(k) == loop = "body" /\ htable_get(k) /\ UNCHANGED iter_vars

BodySet(k, d) ==
    loop = "body" /\ ~gone /\ htable_set(k, d) /\ UNCHANGED iter_vars

BodyDelete(k) ==
    /\ loop = "body" /\ ~gone
    /\ htable_delete(k)
    /\ IF ret'.ok
       THEN /\ kept' = kept \ {k}
            /\ times' = [times EXCEPT ![k] = 0]
            /\ gone' = (k = KeyAt(it))
       ELSE UNCHANGED <<kept, times, gone>>
    /\ UNCHANGED <<it, loop>>

OutsideLoop == loop = "outside" /\ Next /\ UNCHANGED iter_vars

NextIter ==
    \/ StartLoop \/ NextIteration \/ LeaveLoop
    \/ \E k \in Key : BodyGet(k) \/ BodyDelete(k)
    \/ \E k \in Key, d \in Data : BodySet(k, d)
    \/ OutsideLoop

SpecIter == InitIter /\ [][NextIter]_all_vars

-----------------------------------------------------------------------------
(* Properties *)

(* The loop body is run for entries of the table: the iterator points into *)
(* the array in use, at a live entry - unless the body has just deleted    *)
(* that entry itself.                                                      *)
IteratorLive ==
    loop = "body" => /\ it.array = index_capacity
                     /\ gone \/ it.idx \in LiveEntries

(* However the body inserts, deletes and reuses entries, a loop that has   *)
(* ended ran once for each key that was there from its start to its end.   *)
EachKeyOnce == loop = "over" => \A k \in kept : times[k] = 1
=============================================================================
