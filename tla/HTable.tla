------------------------------- MODULE HTable -------------------------------
(***************************************************************************)
(* The open-addressing hash table of src/hash/htable.c, from which both    *)
(* int_htable and str_htable are stamped.  index_list is probed linearly   *)
(* and holds entry numbers plus one; entries is a dense array threaded     *)
(* into a doubly linked list in insertion order; deleted_index_list is the *)
(* stack of entry numbers that deletions gave back.                        *)
(*                                                                         *)
(* A call is one step, except that htable_set may first have to grow the   *)
(* table: the rehash loop then takes one step per slot of the old index.   *)
(* The table is single threaded, so no other call runs in between.         *)
(***************************************************************************)
EXTENDS Integers, Sequences, FiniteSets

CONSTANTS
    Key, Data,        \* keys and data pointers
    NULL,             \* the null pointer; also what uninitialised fields hold
    Hash,             \* HT_KEY_HASH_CB
    InitialCap,       \* index_capacity chosen by htable_create
    DeletedInitCap,   \* first capacity of deleted_index_list (16)
    DeletedMinCap     \* capacity it is shrunk to when nearly empty (4)

ASSUME HashAssumption == Hash \in [Key -> Nat]
ASSUME CapAssumption ==
    /\ InitialCap \in Nat /\ InitialCap >= 2
    /\ \E n \in 1..InitialCap : InitialCap = 2 ^ n   \* util_round_ceil2_ull
    /\ DeletedInitCap \in Nat \ {0}
    /\ DeletedMinCap \in 1..DeletedInitCap
ASSUME NullAssumption == NULL \notin Key

HT_EMPTY   == 0
HT_DELETED == -1      \* UINT32_MAX
NONE       == -1      \* UINT32_MAX as a link: no entry

VARIABLES
    index_list, index_capacity,             \* the probed index
    entries, entry_capacity,                \* the dense entry array
    entry_next_insert,                      \* entries never used start here
    count,                                  \* live keys
    head_idx, tail_idx,                     \* ends of the iteration list
    deleted_index_list, deleted_capacity,   \* stack of reusable entries
    owned,          \* heap copies of each key that HT_KEY_DUP_CB made
    pc,             \* "idle", "rehash", "insert" or "freed"
    call,           \* <<key, data>> of the htable_set that is growing
    i,              \* slot of the old index that the rehash loop looks at
    new_index_list, new_entries, new_idx_counter,  \* the table being built
    new_head, new_tail,
    ret             \* what the last call returned

table == <<index_list, index_capacity, entries, entry_capacity,
           entry_next_insert, count, head_idx, tail_idx>>
deleted == <<deleted_index_list, deleted_capacity>>
growing == <<call, i, new_index_list, new_entries, new_idx_counter,
             new_head, new_tail>>
vars == <<table, deleted, owned, pc, growing, ret>>

Entry == [key : Key \cup {NULL}, data : Data \cup {NULL},
          cached_hash : Nat, prev_idx : Int, next_idx : Int]

(* What malloc left in an entry. *)
Junk == [key |-> NULL, data |-> NULL, cached_hash |-> 0,
         prev_idx |-> NONE, next_idx |-> NONE]

EntryCap(cap) == (cap * 3) \div 4

NotGrowing ==
    /\ call = <<>> /\ i = 0
    /\ new_index_list = <<>> /\ new_entries = <<>> /\ new_idx_counter = 0
    /\ new_head = NONE /\ new_tail = NONE

EmptyIndex(cap) == [s \in 0..cap - 1 |-> HT_EMPTY]
JunkEntries(cap) == [e \in 0..EntryCap(cap) - 1 |-> Junk]

(* htable_create *)
Init ==
    /\ index_capacity = InitialCap
    /\ index_list = EmptyIndex(InitialCap)
    /\ entry_capacity = EntryCap(InitialCap)
    /\ entries = JunkEntries(InitialCap)
    /\ entry_next_insert = 0 /\ count = 0
    /\ head_idx = NONE /\ tail_idx = NONE
    /\ deleted_index_list = <<>> /\ deleted_capacity = 0
    /\ owned = [k \in Key |-> 0]
    /\ pc = "idle"
    /\ NotGrowing
    /\ ret = [op |-> "none", ok |-> TRUE, flag |-> FALSE, data |-> NULL]

-----------------------------------------------------------------------------
(* Probing *)

Slots == 0..index_capacity - 1

(* hash & mask, and the slot the loop body looks at in its n-th iteration. *)
Home(hash, cap) == hash % cap
Probe(hash, n, cap) ==
    LET h == Home(hash, cap) IN IF h + n < cap THEN h + n ELSE h + n - cap

Slot(k, n) == Probe(Hash[k], n, index_capacity)

Live(s) == index_list[s] > 0
EntryAt(s) == entries[index_list[s] - 1]
Holds(s, k) == Live(s) /\ EntryAt(s).key = k

(* Mutant: a tombstone ends the probe. *)
Reaches_StopsAtTombstone(k, n) ==
    \A m \in 0..n - 1 : Live(Slot(k, m)) /\ ~Holds(Slot(k, m), k)

(* The lookup loop gets to its n-th iteration. *)
Reaches(k, n) ==
    \A m \in 0..n - 1 : /\ index_list[Slot(k, m)] # HT_EMPTY
                        /\ ~Holds(Slot(k, m), k)

(* Where the loop finds k: no slot, or one. *)
HitSlots(k) ==
    {s \in Slots : \E n \in Slots : /\ s = Slot(k, n)
                                    /\ Reaches(k, n)
                                    /\ Holds(s, k)}

(* insert_target_hash when k is not found: the first slot on the path that *)
(* is empty or a tombstone.                                                *)
TargetSlots(k) ==
    {s \in Slots : \E n \in Slots : /\ s = Slot(k, n)
                                    /\ ~Live(s)
                                    /\ \A m \in 0..n - 1 : Live(Slot(k, m))}

-----------------------------------------------------------------------------
(* htable_get_with_flag; htable_get and htable_has drop half of the answer *)
htable_get(k) ==
    /\ pc = "idle"
    /\ \/ /\ HitSlots(k) = {}
          /\ ret' = [op |-> "get", ok |-> FALSE, flag |-> FALSE, data |-> NULL]
       \/ \E s \in HitSlots(k) :
            ret' = [op |-> "get", ok |-> TRUE, flag |-> TRUE,
                    data |-> EntryAt(s).data]
    /\ UNCHANGED <<table, deleted, owned, pc, growing>>

-----------------------------------------------------------------------------
(* htable_set_with_flag *)

(* Mutant: growth depends on the load factor only. *)
MustGrow_LoadOnly == (count + 1) * 4 >= index_capacity * 3

MustGrow ==
    \/ entry_next_insert >= entry_capacity
    \/ (count + 1) * 4 >= index_capacity * 3

(* The key is already there: only its data changes. *)
Overwrite(k, d) ==
    \E s \in HitSlots(k) :
      /\ entries' = [entries EXCEPT ![index_list[s] - 1].data = d]
      /\ ret' = [op |-> "set", ok |-> TRUE, flag |-> FALSE, data |-> NULL]
      /\ UNCHANGED <<index_list, index_capacity, entry_capacity,
                     entry_next_insert, count, head_idx, tail_idx, deleted,
                     owned>>

(* No slot is left on the probe path (insert_target_hash == UINT64_MAX), or *)
(* the key could not be copied; the latter leaves *flag_created as it was.  *)
InsertFails(k) ==
    /\ HitSlots(k) = {}
    /\ \E f \in BOOLEAN :
         ret' = [op |-> "set", ok |-> FALSE, flag |-> f, data |-> NULL]
    /\ UNCHANGED <<table, deleted, owned>>

(* Popping the stack of reusable entries may shrink it (if realloc can).   *)
ShrunkCap(left) ==
    IF left < DeletedMinCap THEN DeletedMinCap ELSE deleted_capacity \div 2

(* Mutant: the top of the stack is read but not popped. *)
PopDeleted_Peeks == UNCHANGED deleted

PopDeleted ==
    LET left == Len(deleted_index_list) - 1 IN
    /\ deleted_index_list' = SubSeq(deleted_index_list, 1, left)
    /\ \/ deleted_capacity' = deleted_capacity
       \/ /\ deleted_capacity > DeletedInitCap
          /\ left < deleted_capacity \div 4
          /\ deleted_capacity' = ShrunkCap(left)

(* The entry an insertion takes: the last one deleted, else a fresh one.   *)
TakeEntry(idx) ==
    \/ /\ deleted_index_list # <<>>
       /\ idx = deleted_index_list[Len(deleted_index_list)]
       /\ PopDeleted
       /\ UNCHANGED entry_next_insert
    \/ /\ deleted_index_list = <<>>
       /\ idx = entry_next_insert
       /\ entry_next_insert' = entry_next_insert + 1
       /\ UNCHANGED deleted

(* es with entry e stored at idx, linked after tail. *)
AppendEntry(es, idx, e, tail) ==
    LET linked == [es EXCEPT ![idx] = [e EXCEPT !.prev_idx = tail,
                                                !.next_idx = NONE]]
    IN IF tail = NONE THEN linked
       ELSE [linked EXCEPT ![tail].next_idx = idx]

NewEntry(k, d) == [Junk EXCEPT !.key = k, !.data = d, !.cached_hash = Hash[k]]

Insert(k, d) ==
    /\ HitSlots(k) = {}
    /\ \E s \in TargetSlots(k), idx \in 0..entry_next_insert :
         /\ TakeEntry(idx)
         /\ index_list' = [index_list EXCEPT ![s] = idx + 1]
         /\ entries' = AppendEntry(entries, idx, NewEntry(k, d), tail_idx)
         /\ head_idx' = IF tail_idx = NONE THEN idx ELSE head_idx
         /\ tail_idx' = idx
    /\ count' = count + 1
    /\ owned' = [owned EXCEPT ![k] = @ + 1]
    /\ ret' = [op |-> "set", ok |-> TRUE, flag |-> TRUE, data |-> NULL]
    /\ UNCHANGED <<index_capacity, entry_capacity>>

(* Everything after the growth check. *)
StoreBinding(k, d) == Overwrite(k, d) \/ InsertFails(k) \/ Insert(k, d)

(* A set that does not have to grow the table. *)
htable_set(k, d) ==
    /\ pc = "idle"
    /\ ~MustGrow
    /\ StoreBinding(k, d)
    /\ UNCHANGED <<pc, growing>>

(* calloc or malloc fails in htable_grow. *)
GrowFails ==
    /\ pc = "idle"
    /\ MustGrow
    /\ ret' = [op |-> "set", ok |-> FALSE, flag |-> FALSE, data |-> NULL]
    /\ UNCHANGED <<table, deleted, owned, pc, growing>>

new_index_capacity == index_capacity * 2
new_entry_capacity == EntryCap(new_index_capacity)

htable_grow(k, d) ==
    /\ pc = "idle"
    /\ MustGrow
    /\ pc' = "rehash"
    /\ call' = <<k, d>>
    /\ i' = 0
    /\ new_index_list' = EmptyIndex(new_index_capacity)
    /\ new_entries' = JunkEntries(new_index_capacity)
    /\ UNCHANGED <<table, deleted, owned, new_idx_counter, new_head, new_tail,
                   ret>>

(* One iteration of htable_rehash: a live slot's entry is copied to the    *)
(* end of the new array and its number to the first empty new slot.        *)
RehashSlot(s, e) ==
    /\ new_index_list' = [new_index_list EXCEPT ![s] = new_idx_counter + 1]
    /\ new_entries' = AppendEntry(new_entries, new_idx_counter, e, new_tail)
    /\ new_head' = IF new_tail = NONE THEN new_idx_counter ELSE new_head
    /\ new_tail' = new_idx_counter
    /\ new_idx_counter' = new_idx_counter + 1

RehashTargets(hash) ==
    {s \in 0..new_index_capacity - 1 :
       \E n \in 0..new_index_capacity - 1 :
         /\ s = Probe(hash, n, new_index_capacity)
         /\ new_index_list[s] = HT_EMPTY
         /\ \A m \in 0..n - 1 :
              new_index_list[Probe(hash, m, new_index_capacity)] # HT_EMPTY}

(* Mutant: `continue' without the increment. *)
NextSlot_StaysOnSkip == i' = IF Live(i) THEN i + 1 ELSE i

NextSlot == i' = i + 1

htable_rehash ==
    /\ pc = "rehash"
    /\ i < index_capacity
    /\ NextSlot
    /\ \/ /\ ~Live(i)
          /\ UNCHANGED <<new_index_list, new_entries, new_idx_counter,
                         new_head, new_tail>>
       \/ /\ Live(i)
          /\ \E s \in RehashTargets(EntryAt(i).cached_hash) :
               RehashSlot(s, EntryAt(i))
    /\ UNCHANGED <<table, deleted, owned, pc, call, ret>>

(* The end of htable_rehash and of htable_grow: the new table replaces the *)
(* old one, and nothing in it is reusable yet.                             *)
InstallRehashed ==
    /\ pc = "rehash"
    /\ i = index_capacity
    /\ pc' = "insert"
    /\ index_list' = new_index_list
    /\ index_capacity' = new_index_capacity
    /\ entries' = new_entries
    /\ entry_capacity' = new_entry_capacity
    /\ entry_next_insert' = new_idx_counter
    /\ deleted_index_list' = <<>>
    /\ head_idx' = new_head
    /\ tail_idx' = new_tail
    /\ i' = 0 /\ new_index_list' = <<>> /\ new_entries' = <<>>
    /\ new_idx_counter' = 0 /\ new_head' = NONE /\ new_tail' = NONE
    /\ UNCHANGED <<count, deleted_capacity, owned, call, ret>>

(* The set that grew the table goes on with its insertion. *)
SetAfterGrow ==
    /\ pc = "insert"
    /\ StoreBinding(call[1], call[2])
    /\ pc' = "idle"
    /\ call' = <<>>
    /\ UNCHANGED <<i, new_index_list, new_entries, new_idx_counter, new_head,
                   new_tail>>

-----------------------------------------------------------------------------
(* htable_delete_with_flag *)

DeleteFails ==
    /\ ret' = [op |-> "delete", ok |-> FALSE, flag |-> FALSE, data |-> NULL]
    /\ UNCHANGED <<table, deleted, owned>>

(* Mutant: a stack that is exactly full is not extended. *)
PushDeleted_OffByOne(idx) ==
    /\ deleted_index_list' = Append(deleted_index_list, idx)
    /\ deleted_capacity' =
         IF Len(deleted_index_list) <= deleted_capacity THEN deleted_capacity
         ELSE IF deleted_capacity = 0 THEN DeletedInitCap
         ELSE deleted_capacity * 2

(* Room for one more deleted entry; realloc doubles a full stack. *)
PushDeleted(idx) ==
    /\ deleted_index_list' = Append(deleted_index_list, idx)
    /\ deleted_capacity' =
         IF Len(deleted_index_list) < deleted_capacity THEN deleted_capacity
         ELSE IF deleted_capacity = 0 THEN DeletedInitCap
         ELSE deleted_capacity * 2

(* Mutant: the tail is not moved back when the last entry goes. *)
Unlink_KeepsTail(idx) ==
    LET p == entries[idx].prev_idx
        n == entries[idx].next_idx
        back == IF n = NONE THEN entries ELSE [entries EXCEPT ![n].prev_idx = p]
    IN /\ entries' = IF p = NONE THEN back ELSE [back EXCEPT ![p].next_idx = n]
       /\ head_idx' = IF idx = head_idx THEN n ELSE head_idx
       /\ tail_idx' = tail_idx

(* Mutant: the links of the entry that leaves are cleared. *)
Unlink_Clears(idx) ==
    LET p == entries[idx].prev_idx
        n == entries[idx].next_idx
        left == [entries EXCEPT ![idx].prev_idx = NONE, ![idx].next_idx = NONE]
        back == IF n = NONE THEN left ELSE [left EXCEPT ![n].prev_idx = p]
    IN /\ entries' = IF p = NONE THEN back ELSE [back EXCEPT ![p].next_idx = n]
       /\ head_idx' = IF idx = head_idx THEN n ELSE head_idx
       /\ tail_idx' = IF idx = tail_idx THEN p ELSE tail_idx

(* Entry idx leaves the iteration list; its own links stay as they were. *)
Unlink(idx) ==
    LET p == entries[idx].prev_idx
        n == entries[idx].next_idx
        back == IF n = NONE THEN entries ELSE [entries EXCEPT ![n].prev_idx = p]
    IN /\ entries' = IF p = NONE THEN back ELSE [back EXCEPT ![p].next_idx = n]
       /\ head_idx' = IF idx = head_idx THEN n ELSE head_idx
       /\ tail_idx' = IF idx = tail_idx THEN p ELSE tail_idx

(* Mutant: the slot is emptied, which cuts the probe paths through it. *)
Bury_Empties(s) == index_list' = [index_list EXCEPT ![s] = HT_EMPTY]

(* The slot becomes a tombstone. *)
Bury(s) == index_list' = [index_list EXCEPT ![s] = HT_DELETED]

(* Mutant: the copy of the key is forgotten. *)
FreeKey_Leaks(k) == UNCHANGED owned

(* HT_KEY_FREE_CB *)
FreeKey(k) == owned' = [owned EXCEPT ![k] = @ - 1]

DeleteAt(k, s) ==
    LET idx == index_list[s] - 1 IN
    /\ PushDeleted(idx)
    /\ Unlink(idx)
    /\ Bury(s)
    /\ count' = count - 1
    /\ FreeKey(k)
    /\ ret' = [op |-> "delete", ok |-> TRUE, flag |-> TRUE,
               data |-> entries[idx].data]
    /\ UNCHANGED <<index_capacity, entry_capacity, entry_next_insert>>

(* A delete fails when k is not found, and when the stack of reusable      *)
(* entries is full and cannot be extended.                                 *)
htable_delete(k) ==
    /\ pc = "idle"
    /\ \/ /\ \/ HitSlots(k) = {}
             \/ Len(deleted_index_list) >= deleted_capacity
          /\ DeleteFails
       \/ \E s \in HitSlots(k) : DeleteAt(k, s)
    /\ UNCHANGED <<pc, growing>>

-----------------------------------------------------------------------------
(* htable_free_with_cleanup walks the iteration list and frees each key    *)
(* (and hands each data pointer to the callback).                          *)

(* The entry at each position of the walk; NONE after the end. *)
Walk ==
    LET at[n \in 0..entry_capacity] ==
          IF n = 0 THEN head_idx
          ELSE IF at[n - 1] = NONE THEN NONE
          ELSE entries[at[n - 1]].next_idx
    IN at

htable_free ==
    /\ pc = "idle"
    /\ pc' = "freed"
    /\ owned' = LET w == Walk IN
         [k \in Key |->
            owned[k] - Cardinality({n \in 0..entry_capacity :
                                      w[n] # NONE /\ entries[w[n]].key = k})]
    /\ UNCHANGED <<table, deleted, growing, ret>>

(* Another table takes the place of a freed one. *)
htable_create ==
    /\ pc = "freed"
    /\ pc' = "idle"
    /\ index_capacity' = InitialCap
    /\ index_list' = EmptyIndex(InitialCap)
    /\ entry_capacity' = EntryCap(InitialCap)
    /\ entries' = JunkEntries(InitialCap)
    /\ entry_next_insert' = 0 /\ count' = 0
    /\ head_idx' = NONE /\ tail_idx' = NONE
    /\ deleted_index_list' = <<>> /\ deleted_capacity' = 0
    /\ UNCHANGED <<owned, growing, ret>>

Next ==
    \/ \E k \in Key : htable_get(k) \/ htable_delete(k)
    \/ \E k \in Key, d \in Data : htable_set(k, d) \/ htable_grow(k, d)
    \/ GrowFails
    \/ htable_rehash
    \/ InstallRehashed
    \/ SetAfterGrow
    \/ htable_free
    \/ htable_create

Spec == Init /\ [][Next]_vars

(* The calling thread runs a set that it started to its end. *)
FairSpec == Spec /\ WF_vars(htable_rehash \/ InstallRehashed \/ SetAfterGrow)
-----------------------------------------------------------------------------
(* Properties *)

LiveSlots == {s \in Slots : Live(s)}
LiveEntries == {index_list[s] - 1 : s \in LiveSlots}

(* Every field holds a value of its C type, and the arrays have their      *)
(* allocated lengths.                                                      *)
TypeOK ==
    /\ index_capacity \in Nat \ {0}
    /\ index_list \in [Slots -> Int]
    /\ entry_capacity \in Nat
    /\ entries \in [0..entry_capacity - 1 -> Entry]
    /\ entry_next_insert \in 0..entry_capacity
    /\ count \in Nat
    /\ head_idx \in Int /\ tail_idx \in Int
    /\ deleted_index_list \in Seq(Nat)
    /\ deleted_capacity \in Nat
    /\ owned \in [Key -> Int]
    /\ pc \in {"idle", "rehash", "insert", "freed"}
    /\ i \in 0..index_capacity
    /\ new_idx_counter \in Nat
    /\ new_head \in Int /\ new_tail \in Int
    /\ pc \in {"rehash", "insert"} => call \in Key \X Data
    /\ pc = "rehash" =>
         /\ new_index_list \in [0..new_index_capacity - 1 -> Int]
         /\ new_entries \in [0..new_entry_capacity - 1 -> Entry]

(* Whatever tombstones and wrapped probe paths a history of calls left, a  *)
(* lookup finds each stored key, in the only slot that holds it.           *)
LookupComplete == \A s \in LiveSlots : HitSlots(EntryAt(s).key) = {s}

(* The entries handed out so far are the live ones, one slot each, and the *)
(* reusable ones, each once on the stack: an insertion never takes an      *)
(* entry that is in use, and no entry is lost to deletions and rehashes.   *)
EntriesAccounted ==
    /\ count = Cardinality(LiveSlots)
    /\ \A s, t \in LiveSlots : index_list[s] = index_list[t] => s = t
    /\ \A m, n \in 1..Len(deleted_index_list) :
         deleted_index_list[m] = deleted_index_list[n] => m = n
    /\ LiveEntries \cap {deleted_index_list[n] :
                           n \in 1..Len(deleted_index_list)} = {}
    /\ LiveEntries \cup {deleted_index_list[n] :
                           n \in 1..Len(deleted_index_list)}
         = 0..entry_next_insert - 1

(* The list that htable_free and the iterators follow visits every live    *)
(* entry exactly once, and the back links retrace it.                      *)
ListCoversLive ==
    LET w == Walk IN
    /\ \A n \in 0..count - 1 : w[n] # NONE
    /\ w[count] = NONE
    /\ {w[n] : n \in 0..count - 1} = LiveEntries
    /\ \A n \in 1..count - 1 : entries[w[n]].prev_idx = w[n - 1]
    /\ IF count = 0 THEN tail_idx = NONE
       ELSE tail_idx = w[count - 1] /\ entries[w[0]].prev_idx = NONE

(* The assertions of lines 70 and 176 hold, and neither probe loop ever    *)
(* gives up: a set that is past the growth check has an entry and a slot   *)
(* to put a new key in, and a rehash has one for every key it moves.       *)
RoomToInsert ==
    /\ pc = "insert" \/ (pc = "idle" /\ ~MustGrow) =>
         /\ entry_next_insert < entry_capacity
         /\ \A k \in Key : HitSlots(k) = {} => TargetSlots(k) # {}
    /\ pc = "rehash" /\ i < index_capacity /\ Live(i) =>
         /\ new_idx_counter < new_entry_capacity
         /\ RehashTargets(EntryAt(i).cached_hash) # {}

(* The stack of reusable entries stays within the array it was allocated,  *)
(* although pops shrink that array and a rehash only resets the count.     *)
DeletedFits == Len(deleted_index_list) <= deleted_capacity

(* The table owns one copy of each key it holds and none of any other, and *)
(* freeing the table frees each copy once: no leak, no double free.        *)
KeysOwned ==
    \A k \in Key :
      owned[k] = IF pc = "freed" THEN 0
                 ELSE Cardinality({s \in LiveSlots : EntryAt(s).key = k})

(* The keys in iteration order. *)
Order ==
    LET w == Walk
    IN [n \in 1..Cardinality({m \in 0..entry_capacity : w[m] # NONE}) |->
          entries[w[n - 1]].key]

(* Iteration order is insertion order: the key that a call adds comes last *)
(* and the key that a call removes leaves the others as they were; only    *)
(* growth (and a new table) may rearrange them.                            *)
OrderKept ==
    [][\/ InstallRehashed
       \/ htable_create
       \/ count' = count /\ Order' = Order
       \/ /\ count' = count + 1
          /\ \E k \in Key : HitSlots(k) = {} /\ Order' = Append(Order, k)
       \/ /\ count' = count - 1
          /\ \E n \in DOMAIN Order, k \in Key :
               /\ k = Order[n] /\ HitSlots(k)' = {}
               /\ Order' = SubSeq(Order, 1, n - 1)
                           \o SubSeq(Order, n + 1, Len(Order))
      ]_vars

(* A set that has to grow the table returns. *)
SetReturns == pc = "rehash" ~> pc = "idle"

(* The bindings a caller can see. *)
Bindings ==
    IF pc = "freed" THEN {}
    ELSE {<<EntryAt(s).key, EntryAt(s).data>> : s \in LiveSlots}

D == INSTANCE Dict WITH map <- Bindings

(* The table is a finite map: every call does to the bindings, and returns *)
(* to the caller, what Dict says, and growth changes no binding.           *)
RefinesDict == D!Spec

(***************************************************************************)
(* The inductive invariant behind the safety properties.  Sound says of an *)
(* index il of capacity cap over the entries es, of which those below ni   *)
(* may be in use, that every live slot holds a key of its own, in an entry *)
(* of its own, at the end of a probe path without an empty slot.  The      *)
(* table is sound at all times, and so is the one a rehash is building.    *)
(***************************************************************************)
Reachable(il, cap, hash, s) ==
    \E n \in 0..cap - 1 :
      /\ s = Probe(hash, n, cap)
      /\ \A m \in 0..n - 1 : il[Probe(hash, m, cap)] # HT_EMPTY

Sound(il, cap, es, ni) ==
    /\ cap \in Nat /\ cap >= 2
    /\ il \in [0..cap - 1 -> Int]
    /\ es \in [0..EntryCap(cap) - 1 -> Entry]
    /\ ni \in 0..EntryCap(cap)
    /\ \A s \in 0..cap - 1 : il[s] > 0 =>
         /\ il[s] <= ni
         /\ es[il[s] - 1].key \in Key
         /\ es[il[s] - 1].cached_hash = Hash[es[il[s] - 1].key]
         /\ Reachable(il, cap, Hash[es[il[s] - 1].key], s)
    /\ \A s, t \in 0..cap - 1 :
         /\ il[s] > 0 /\ il[t] > 0
         /\ il[s] = il[t] \/ es[il[s] - 1].key = es[il[t] - 1].key
         => s = t

(* The stack of reusable entries: distinct, handed out before, not live.   *)
DeletedSound ==
    /\ entry_next_insert = count + Len(deleted_index_list)
    /\ \A n \in 1..Len(deleted_index_list) :
         /\ deleted_index_list[n] < entry_next_insert
         /\ \A s \in LiveSlots : index_list[s] - 1 # deleted_index_list[n]
         /\ \A m \in 1..Len(deleted_index_list) :
              deleted_index_list[m] = deleted_index_list[n] => m = n

NewLive == {s \in 0..new_index_capacity - 1 : new_index_list[s] > 0}
NewEntryAt(s) == new_entries[new_index_list[s] - 1]
LiveBelow(n) == {s \in LiveSlots : s < n}

(* The table being built holds the bindings of the slots looked at so far. *)
RehashSound ==
    /\ Sound(new_index_list, new_index_capacity, new_entries, new_idx_counter)
    /\ new_idx_counter = Cardinality(NewLive)
    /\ new_idx_counter = Cardinality(LiveBelow(i))
    /\ \A s \in NewLive : \E t \in LiveBelow(i) :
         NewEntryAt(s).key = EntryAt(t).key /\ NewEntryAt(s).data = EntryAt(t).data
    /\ \A t \in LiveBelow(i) : \E s \in NewLive :
         NewEntryAt(s).key = EntryAt(t).key /\ NewEntryAt(s).data = EntryAt(t).data

(* What every call leaves behind ... *)
TableSound ==
    /\ entry_capacity = EntryCap(index_capacity)
    /\ Sound(index_list, index_capacity, entries, entry_next_insert)
    /\ count = Cardinality(LiveSlots)
    /\ DeletedSound
    /\ DeletedFits

(* ... and what holds while one of them grows the table. *)
IndInv ==
    /\ TypeOK
    /\ TableSound
    /\ pc = "insert" => entry_next_insert < entry_capacity
    /\ pc = "rehash" => RehashSound
    /\ pc # "rehash" => i = 0 /\ new_idx_counter = 0
=============================================================================
