---------------------------- MODULE HTableProofs ----------------------------
(* Proofs about HTable and HTableIter, for every set of keys and every     *)
(* hash function.                                                          *)
EXTENDS HTableIter, FiniteSetTheorems, SequenceTheorems, WellFoundedInduction,
        TLAPS

(* The entry array is smaller than the index, and growth enlarges it. *)
LEMMA EntryCapFacts ==
    ASSUME NEW cap \in Nat, cap >= 2
    PROVE  /\ EntryCap(cap) \in Nat
           /\ EntryCap(cap) >= 1
           /\ EntryCap(cap) < cap
           /\ EntryCap(cap) < EntryCap(cap * 2)
    BY DEF EntryCap

(* A probe path stays in the index and visits each of its slots once. *)
LEMMA ProbeFacts ==
    ASSUME NEW cap \in Nat, cap >= 2, NEW h \in Nat
    PROVE  /\ \A n \in 0..cap - 1 : Probe(h, n, cap) \in 0..cap - 1
           /\ \A m, n \in 0..cap - 1 : Probe(h, m, cap) = Probe(h, n, cap) => m = n
           /\ \A s \in 0..cap - 1 : \E n \in 0..cap - 1 : s = Probe(h, n, cap)
<1>1. Home(h, cap) \in 0..cap - 1
  BY DEF Home
<1>2. ASSUME NEW s \in 0..cap - 1
      PROVE  \E n \in 0..cap - 1 : s = Probe(h, n, cap)
  <2>1. CASE s >= Home(h, cap)
    <3>1. s = Probe(h, s - Home(h, cap), cap)
      BY <1>1, <2>1 DEF Probe
    <3> QED BY <1>1, <2>1, <3>1
  <2>2. CASE s < Home(h, cap)
    <3>1. s = Probe(h, s + cap - Home(h, cap), cap)
      BY <1>1, <2>2 DEF Probe
    <3> QED BY <1>1, <2>2, <3>1
  <2> QED BY <1>1, <2>1, <2>2
<1> QED BY <1>1, <1>2 DEF Probe

(* es2 has the keys, data pointers and hashes of es. *)
SameContents(es2, es, N) ==
    /\ es2 \in [0..N - 1 -> Entry]
    /\ \A j \in 0..N - 1 : /\ es2[j].key = es[j].key
                           /\ es2[j].data = es[j].data
                           /\ es2[j].cached_hash = es[j].cached_hash

(* Changing a link keeps the contents of an array of entries. *)
LEMMA LinkFacts ==
    ASSUME NEW N \in Nat, NEW es \in [0..N - 1 -> Entry],
           NEW n \in Int, NEW v \in Int
    PROVE  /\ SameContents([es EXCEPT ![n].prev_idx = v], es, N)
           /\ SameContents([es EXCEPT ![n].next_idx = v], es, N)
    BY DEF SameContents, Entry

(* es2 is es with the contents of e at idx. *)
Stored(es2, es, N, idx, e) ==
    /\ es2 \in [0..N - 1 -> Entry]
    /\ es2[idx].key = e.key
    /\ es2[idx].data = e.data
    /\ es2[idx].cached_hash = e.cached_hash
    /\ \A j \in (0..N - 1) \ {idx} : /\ es2[j].key = es[j].key
                                    /\ es2[j].data = es[j].data
                                    /\ es2[j].cached_hash = es[j].cached_hash

(* AppendEntry stores e at idx and changes nothing but a link elsewhere. *)
LEMMA AppendFacts ==
    ASSUME NEW N \in Nat, NEW es \in [0..N - 1 -> Entry], NEW idx \in 0..N - 1,
           NEW e \in Entry, NEW tail \in Int
    PROVE  Stored(AppendEntry(es, idx, e, tail), es, N, idx, e)
<1> DEFINE e1 == [e EXCEPT !.prev_idx = tail]
           e2 == [e1 EXCEPT !.next_idx = NONE]
           linked == [es EXCEPT ![idx] = e2]
           more == [linked EXCEPT ![tail].next_idx = idx]
<1>1. /\ e1 \in Entry
      /\ e1.key = e.key /\ e1.data = e.data /\ e1.cached_hash = e.cached_hash
  BY DEF Entry
<1>2. e2 = [e EXCEPT !.prev_idx = tail, !.next_idx = NONE]
  BY DEF Entry
<1>3. /\ e2 \in Entry
      /\ e2.key = e.key /\ e2.data = e.data /\ e2.cached_hash = e.cached_hash
  <2> HIDE DEF e1
  <2> QED BY <1>1, SMTT(30) DEF Entry, NONE
<1> HIDE DEF e1, e2
<1>4. /\ linked \in [0..N - 1 -> Entry]
      /\ Stored(linked, es, N, idx, e)
  BY <1>3 DEF Stored
<1> HIDE DEF linked
<1>5. CASE tail = NONE
  <2>1. AppendEntry(es, idx, e, tail) = linked
    BY <1>2, <1>5 DEF AppendEntry, linked
  <2> QED BY <1>4, <2>1
<1>6. CASE tail # NONE
  <2>1. AppendEntry(es, idx, e, tail) = more
    BY <1>2, <1>6 DEF AppendEntry, linked
  <2>2. SameContents(more, linked, N)
    <3>1. ASSUME NEW v \in Int
          PROVE  SameContents([linked EXCEPT ![tail].next_idx = v], linked, N)
      BY <1>4 DEF SameContents, Entry
    <3> QED BY <3>1
  <2> HIDE DEF more
  <2>3. Stored(more, es, N, idx, e)
    BY <1>4, <2>2 DEF SameContents, Stored
  <2> QED BY <2>1, <2>3
<1> QED BY <1>5, <1>6

(* Storing anything but HT_EMPTY in a slot cuts no probe path. *)
LEMMA ReachableKept ==
    ASSUME NEW cap \in Nat, cap >= 2, NEW il \in [0..cap - 1 -> Int],
           NEW h \in Nat, NEW s \in 0..cap - 1, NEW t \in 0..cap - 1,
           NEW v \in Int, v # HT_EMPTY,
           Reachable(il, cap, h, t)
    PROVE  Reachable([il EXCEPT ![s] = v], cap, h, t)
<1>1. PICK n \in 0..cap - 1 :
        /\ t = Probe(h, n, cap)
        /\ \A m \in 0..n - 1 : il[Probe(h, m, cap)] # HT_EMPTY
  BY DEF Reachable
<1>2. \A m \in 0..n - 1 : Probe(h, m, cap) \in 0..cap - 1
  <2>1. \A m \in 0..cap - 1 : Probe(h, m, cap) \in 0..cap - 1
    BY ProbeFacts
  <2> QED BY <2>1
<1>3. \A m \in 0..n - 1 : [il EXCEPT ![s] = v][Probe(h, m, cap)] # HT_EMPTY
  BY <1>1, <1>2
<1> QED BY <1>1, <1>3 DEF Reachable

(* What Sound says of one live slot. *)
LEMMA SoundSlot ==
    ASSUME NEW il, NEW cap, NEW es, NEW ni, Sound(il, cap, es, ni),
           NEW t \in 0..cap - 1, il[t] > 0
    PROVE  /\ il[t] \in Int /\ il[t] <= ni
           /\ il[t] - 1 \in 0..EntryCap(cap) - 1
           /\ es[il[t] - 1] \in Entry
           /\ es[il[t] - 1].key \in Key
           /\ es[il[t] - 1].cached_hash = Hash[es[il[t] - 1].key]
           /\ Hash[es[il[t] - 1].key] \in Nat
           /\ Reachable(il, cap, Hash[es[il[t] - 1].key], t)
<1>1. /\ cap \in Nat /\ cap >= 2
      /\ il \in [0..cap - 1 -> Int]
      /\ es \in [0..EntryCap(cap) - 1 -> Entry]
      /\ ni \in 0..EntryCap(cap)
  BY DEF Sound
<1>2. /\ il[t] <= ni
      /\ es[il[t] - 1].key \in Key
      /\ es[il[t] - 1].cached_hash = Hash[es[il[t] - 1].key]
      /\ Reachable(il, cap, Hash[es[il[t] - 1].key], t)
  BY DEF Sound
<1>3. EntryCap(cap) \in Nat
  BY <1>1, EntryCapFacts
<1>4. il[t] \in Int /\ il[t] - 1 \in 0..EntryCap(cap) - 1
  BY <1>1, <1>2, <1>3
<1> QED BY <1>1, <1>2, <1>4, HashAssumption

(* es2 is es with key k stored at idx, which no slot of il refers to, and  *)
(* no slot of il holds k.                                                  *)
PutOK(il, cap, es, idx, k, es2) ==
    /\ es2 \in [0..EntryCap(cap) - 1 -> Entry]
    /\ es2[idx].key = k /\ es2[idx].cached_hash = Hash[k]
    /\ \A j \in (0..EntryCap(cap) - 1) \ {idx} :
         es2[j].key = es[j].key /\ es2[j].cached_hash = es[j].cached_hash
    /\ \A t \in 0..cap - 1 : il[t] > 0 =>
         il[t] - 1 # idx /\ es[il[t] - 1].key # k

(* A new key stored in a fresh entry, at a slot its probe path reaches,    *)
(* leaves an index sound.                                                  *)
LEMMA SoundPut ==
    ASSUME NEW il, NEW cap, NEW es, NEW ni, Sound(il, cap, es, ni),
           NEW s \in 0..cap - 1, NEW k \in Key,
           Reachable(il, cap, Hash[k], s),
           NEW ni2 \in 0..EntryCap(cap), ni <= ni2,
           NEW idx \in 0..ni2 - 1,
           NEW es2, PutOK(il, cap, es, idx, k, es2)
    PROVE  Sound([il EXCEPT ![s] = idx + 1], cap, es2, ni2)
<1> DEFINE il2 == [il EXCEPT ![s] = idx + 1]
           key2(t) == es2[il2[t] - 1].key
<1>1. /\ cap \in Nat /\ cap >= 2
      /\ il \in [0..cap - 1 -> Int]
      /\ ni \in 0..EntryCap(cap)
  BY DEF Sound
<1>2. EntryCap(cap) \in Nat /\ idx \in Nat /\ idx + 1 \in Int /\ idx + 1 # HT_EMPTY
  BY <1>1, EntryCapFacts DEF HT_EMPTY
<1>3. /\ il2 \in [0..cap - 1 -> Int]
      /\ il2[s] = idx + 1
      /\ \A t \in 0..cap - 1 : t # s => il2[t] = il[t]
  BY <1>1, <1>2
<1>4. ASSUME NEW t \in 0..cap - 1, NEW h \in Nat, Reachable(il, cap, h, t)
      PROVE  Reachable(il2, cap, h, t)
  BY <1>1, <1>2, <1>4, ReachableKept
<1> HIDE DEF il2
<1>5. /\ il2[s] <= ni2 /\ key2(s) = k
      /\ es2[il2[s] - 1].cached_hash = Hash[k]
      /\ Reachable(il2, cap, Hash[k], s)
  <2>1. il2[s] - 1 = idx /\ il2[s] <= ni2
    BY <1>2, <1>3
  <2> QED BY <1>4, <2>1, HashAssumption DEF PutOK
<1>6. ASSUME NEW t \in 0..cap - 1, t # s, il2[t] > 0
      PROVE  /\ il2[t] = il[t] /\ il[t] > 0 /\ il[t] <= ni2
             /\ il[t] # idx + 1
             /\ key2(t) = es[il[t] - 1].key
             /\ key2(t) \in Key /\ key2(t) # k
             /\ es2[il2[t] - 1].cached_hash = Hash[key2(t)]
             /\ Reachable(il2, cap, Hash[key2(t)], t)
  <2>1. il2[t] = il[t] /\ il[t] > 0
    BY <1>3, <1>6
  <2>2. /\ il[t] \in Int /\ il[t] <= ni
        /\ il[t] - 1 \in 0..EntryCap(cap) - 1
        /\ es[il[t] - 1].key \in Key
        /\ es[il[t] - 1].cached_hash = Hash[es[il[t] - 1].key]
        /\ Hash[es[il[t] - 1].key] \in Nat
        /\ Reachable(il, cap, Hash[es[il[t] - 1].key], t)
    BY <2>1, SoundSlot
  <2>3. il[t] - 1 # idx /\ es[il[t] - 1].key # k
    BY <2>1 DEF PutOK
  <2>4. il[t] <= ni2 /\ il[t] # idx + 1
    <3>1. il[t] <= ni2
      BY <1>1, <1>2, <2>2
    <3>2. il[t] # idx + 1
      BY <1>2, <2>2, <2>3
    <3> QED BY <3>1, <3>2
  <2>5. /\ key2(t) = es[il[t] - 1].key
        /\ es2[il2[t] - 1].cached_hash = es[il[t] - 1].cached_hash
    BY <2>1, <2>2, <2>3 DEF PutOK
  <2>6. Reachable(il2, cap, Hash[es[il[t] - 1].key], t)
    BY <1>4, <2>2
  <2> HIDE DEF key2
  <2>7. /\ key2(t) \in Key /\ key2(t) # k
        /\ es2[il2[t] - 1].cached_hash = Hash[key2(t)]
        /\ Reachable(il2, cap, Hash[key2(t)], t)
    BY <2>2, <2>3, <2>5, <2>6
  <2> QED BY <2>1, <2>4, <2>5, <2>7
<1>7. ASSUME NEW t \in 0..cap - 1, il2[t] > 0
      PROVE  /\ il2[t] <= ni2
             /\ key2(t) \in Key
             /\ es2[il2[t] - 1].cached_hash = Hash[key2(t)]
             /\ Reachable(il2, cap, Hash[key2(t)], t)
  <2> HIDE DEF key2
  <2>1. CASE t = s
    BY <1>5, <2>1
  <2>2. CASE t # s
    BY <1>6, <1>7, <2>2
  <2> QED BY <2>1, <2>2
<1>8. ASSUME NEW t \in 0..cap - 1, NEW u \in 0..cap - 1,
             il2[t] > 0, il2[u] > 0,
             il2[t] = il2[u] \/ key2(t) = key2(u)
      PROVE  t = u
  <2>1. CASE t # s /\ u # s
    <3>1. /\ il[t] > 0 /\ il[u] > 0
          /\ il[t] = il[u] \/ es[il[t] - 1].key = es[il[u] - 1].key
      <4> HIDE DEF key2
      <4> QED BY <1>6, <1>8, <2>1
    <3> QED BY <3>1 DEF Sound
  <2>2. CASE t = s /\ u # s
    <3> HIDE DEF key2
    <3> QED BY <1>3, <1>5, <1>6, <1>8, <2>2
  <2>3. CASE t # s /\ u = s
    <3> HIDE DEF key2
    <3> QED BY <1>3, <1>5, <1>6, <1>8, <2>3
  <2> QED BY <2>1, <2>2, <2>3
<1>9. Sound(il2, cap, es2, ni2)
  BY <1>1, <1>3, <1>7, <1>8 DEF Sound, PutOK
<1> QED BY <1>9 DEF il2

(* Changing links and data pointers leaves an index sound. *)
LEMMA SoundSameKeys ==
    ASSUME NEW il, NEW cap, NEW es, NEW ni, Sound(il, cap, es, ni),
           NEW es2 \in [0..EntryCap(cap) - 1 -> Entry],
           \A j \in 0..EntryCap(cap) - 1 :
             es2[j].key = es[j].key /\ es2[j].cached_hash = es[j].cached_hash
    PROVE  Sound(il, cap, es2, ni)
<1>1. ASSUME NEW t \in 0..cap - 1, il[t] > 0
      PROVE  /\ il[t] <= ni
             /\ es2[il[t] - 1].key = es[il[t] - 1].key
             /\ es2[il[t] - 1].key \in Key
             /\ es2[il[t] - 1].cached_hash = Hash[es2[il[t] - 1].key]
             /\ Reachable(il, cap, Hash[es2[il[t] - 1].key], t)
  <2>1. /\ il[t] <= ni
        /\ il[t] - 1 \in 0..EntryCap(cap) - 1
        /\ es[il[t] - 1].key \in Key
        /\ es[il[t] - 1].cached_hash = Hash[es[il[t] - 1].key]
        /\ Reachable(il, cap, Hash[es[il[t] - 1].key], t)
    BY <1>1, SoundSlot
  <2>2. /\ es2[il[t] - 1].key = es[il[t] - 1].key
        /\ es2[il[t] - 1].cached_hash = es[il[t] - 1].cached_hash
    BY <2>1
  <2> QED BY <2>1, <2>2
<1>2. ASSUME NEW t \in 0..cap - 1, NEW u \in 0..cap - 1, il[t] > 0, il[u] > 0,
             il[t] = il[u] \/ es2[il[t] - 1].key = es2[il[u] - 1].key
      PROVE  t = u
  <2>1. il[t] = il[u] \/ es[il[t] - 1].key = es[il[u] - 1].key
    BY <1>1, <1>2
  <2> QED BY <1>2, <2>1 DEF Sound
<1>3. /\ cap \in Nat /\ cap >= 2
      /\ il \in [0..cap - 1 -> Int]
      /\ ni \in 0..EntryCap(cap)
  BY DEF Sound
<1> QED BY <1>1, <1>2, <1>3 DEF Sound

(* A tombstone leaves an index sound. *)
LEMMA SoundBury ==
    ASSUME NEW il, NEW cap, NEW es, NEW ni, Sound(il, cap, es, ni),
           NEW s \in 0..cap - 1
    PROVE  Sound([il EXCEPT ![s] = HT_DELETED], cap, es, ni)
<1> DEFINE il2 == [il EXCEPT ![s] = HT_DELETED]
<1>1. /\ cap \in Nat /\ cap >= 2
      /\ il \in [0..cap - 1 -> Int]
      /\ es \in [0..EntryCap(cap) - 1 -> Entry]
      /\ ni \in 0..EntryCap(cap)
  BY DEF Sound
<1>2. HT_DELETED \in Int /\ HT_DELETED # HT_EMPTY /\ ~(HT_DELETED > 0)
  BY DEF HT_DELETED, HT_EMPTY
<1>3. il2 \in [0..cap - 1 -> Int]
  BY <1>1, <1>2
<1>4. ASSUME NEW t \in 0..cap - 1, il2[t] > 0
      PROVE  il2[t] = il[t]
  BY <1>1, <1>2, <1>4
<1>5. ASSUME NEW t \in 0..cap - 1, NEW h \in Nat, Reachable(il, cap, h, t)
      PROVE  Reachable(il2, cap, h, t)
  BY <1>1, <1>2, <1>5, ReachableKept
<1> HIDE DEF il2
<1>6. ASSUME NEW t \in 0..cap - 1, il2[t] > 0
      PROVE  /\ il2[t] <= ni
             /\ es[il2[t] - 1].key \in Key
             /\ es[il2[t] - 1].cached_hash = Hash[es[il2[t] - 1].key]
             /\ Reachable(il2, cap, Hash[es[il2[t] - 1].key], t)
  <2>1. il2[t] = il[t] /\ il[t] > 0
    BY <1>4, <1>6
  <2>2. /\ il[t] <= ni
        /\ es[il[t] - 1].key \in Key
        /\ es[il[t] - 1].cached_hash = Hash[es[il[t] - 1].key]
        /\ Hash[es[il[t] - 1].key] \in Nat
        /\ Reachable(il, cap, Hash[es[il[t] - 1].key], t)
    BY <2>1, SoundSlot
  <2>3. Reachable(il2, cap, Hash[es[il[t] - 1].key], t)
    BY <1>5, <2>2
  <2> QED BY <2>1, <2>2, <2>3
<1>7. ASSUME NEW t \in 0..cap - 1, NEW u \in 0..cap - 1, il2[t] > 0, il2[u] > 0,
             il2[t] = il2[u] \/ es[il2[t] - 1].key = es[il2[u] - 1].key
      PROVE  t = u
  BY <1>4, <1>7 DEF Sound
<1>8. Sound(il2, cap, es, ni)
  BY <1>1, <1>3, <1>6, <1>7 DEF Sound
<1> QED BY <1>8 DEF il2

(* A fresh index holds nothing. *)
LEMMA SoundEmpty ==
    ASSUME NEW cap \in Nat, cap >= 2
    PROVE  /\ Sound(EmptyIndex(cap), cap, JunkEntries(cap), 0)
           /\ {s \in 0..cap - 1 : EmptyIndex(cap)[s] > 0} = {}
<1>1. EntryCap(cap) \in Nat
  BY EntryCapFacts
<1>2. Junk \in Entry
  BY DEF Junk, Entry, NONE
<1>3. JunkEntries(cap) \in [0..EntryCap(cap) - 1 -> Entry]
  BY <1>2 DEF JunkEntries
<1>4. /\ EmptyIndex(cap) \in [0..cap - 1 -> Int]
      /\ \A s \in 0..cap - 1 : EmptyIndex(cap)[s] = 0
  BY DEF EmptyIndex, HT_EMPTY
<1>5. \A s \in 0..cap - 1 : ~(EmptyIndex(cap)[s] > 0)
  BY <1>4
<1> QED BY <1>1, <1>3, <1>4, <1>5 DEF Sound

(* Counting the live slots of an index that a put or a delete changed. *)
LEMMA CountChanged ==
    ASSUME NEW cap \in Nat, NEW live \in SUBSET (0..cap - 1), NEW s
    PROVE  /\ IsFiniteSet(live) /\ Cardinality(live) \in Nat
           /\ s \notin live => Cardinality(live \cup {s}) = Cardinality(live) + 1
           /\ s \in live => /\ Cardinality(live \ {s}) = Cardinality(live) - 1
                           /\ Cardinality(live \ {s}) \in Nat
<1>1. IsFiniteSet(0..cap - 1)
  BY FS_Interval
<1>2. IsFiniteSet(live) /\ Cardinality(live) \in Nat
  BY <1>1, FS_Subset, FS_CardinalityType
<1>3. ASSUME s \notin live
      PROVE  Cardinality(live \cup {s}) = Cardinality(live) + 1
  BY <1>2, <1>3, FS_AddElement
<1>4. ASSUME s \in live
      PROVE  /\ Cardinality(live \ {s}) = Cardinality(live) - 1
             /\ Cardinality(live \ {s}) \in Nat
  BY <1>2, <1>4, FS_RemoveElement, FS_CardinalityType
<1> QED BY <1>2, <1>3, <1>4

(* A lookup finds exactly the slots that hold the key. *)
LEMMA HitExact ==
    ASSUME Sound(index_list, index_capacity, entries, entry_next_insert),
           NEW k \in Key
    PROVE  HitSlots(k) = {s \in Slots : Holds(s, k)}
<1>1. index_capacity \in Nat /\ index_capacity >= 2 /\ Hash[k] \in Nat
  BY HashAssumption DEF Sound
<1>2. ASSUME NEW s \in Slots, Holds(s, k)
      PROVE  s \in HitSlots(k)
  <2>1. index_list[s] > 0 /\ EntryAt(s).key = k /\ s \in 0..index_capacity - 1
    BY <1>2 DEF Holds, Live, Slots
  <2>2. Reachable(index_list, index_capacity, Hash[k], s)
    BY <2>1, SoundSlot DEF EntryAt
  <2>3. PICK n \in 0..index_capacity - 1 :
          /\ s = Probe(Hash[k], n, index_capacity)
          /\ \A m \in 0..n - 1 :
               index_list[Probe(Hash[k], m, index_capacity)] # HT_EMPTY
    BY <2>2 DEF Reachable
  <2>4. ASSUME NEW m \in 0..n - 1
        PROVE  ~Holds(Slot(k, m), k)
    <3>1. m \in 0..index_capacity - 1 /\ m # n
      BY <1>1
    <3>2. Slot(k, m) \in 0..index_capacity - 1 /\ Slot(k, m) # s
      <4>1. Probe(Hash[k], m, index_capacity) \in 0..index_capacity - 1
        BY <1>1, <3>1, ProbeFacts
      <4>2. Probe(Hash[k], m, index_capacity) # Probe(Hash[k], n, index_capacity)
        BY <1>1, <3>1, ProbeFacts
      <4> QED BY <2>3, <4>1, <4>2 DEF Slot
    <3> QED BY <2>1, <3>2 DEF Sound, Holds, Live, EntryAt
  <2>5. Reaches(k, n)
    BY <2>3, <2>4 DEF Reaches, Slot
  <2> QED BY <1>2, <2>3, <2>5 DEF HitSlots, Slots, Slot
<1> QED BY <1>2 DEF HitSlots

(* The slot an insertion takes is free and on the probe path of its key. *)
LEMMA TargetFacts ==
    ASSUME NEW k \in Key, NEW s \in TargetSlots(k),
           Sound(index_list, index_capacity, entries, entry_next_insert)
    PROVE  /\ s \in 0..index_capacity - 1
           /\ ~(index_list[s] > 0)
           /\ Reachable(index_list, index_capacity, Hash[k], s)
<1>1. PICK n \in Slots : /\ s = Slot(k, n)
                        /\ ~Live(s)
                        /\ \A m \in 0..n - 1 : Live(Slot(k, m))
  BY DEF TargetSlots
<1>2. \A m \in 0..n - 1 : index_list[Slot(k, m)] # HT_EMPTY
  BY <1>1 DEF Live, HT_EMPTY
<1> QED BY <1>1, <1>2 DEF TargetSlots, Slots, Live, Reachable, Slot

-----------------------------------------------------------------------------
(* The conjuncts of TypeOK that a store or a delete can disturb. *)
TableTypes ==
    /\ count \in Nat
    /\ head_idx \in Int /\ tail_idx \in Int
    /\ deleted_index_list \in Seq(Nat)
    /\ deleted_capacity \in Nat
    /\ owned \in [Key -> Int]

(* TableSound and TableTypes make up most of TypeOK. *)
LEMMA TypeAfter ==
    ASSUME TableSound', TableTypes',
           pc' \in {"idle", "rehash", "insert", "freed"},
           i' \in 0..index_capacity', new_idx_counter' \in Nat,
           new_head' \in Int, new_tail' \in Int,
           pc' \in {"rehash", "insert"} => call' \in Key \X Data,
           pc' = "rehash" =>
             /\ new_index_list' \in [0..new_index_capacity' - 1 -> Int]
             /\ new_entries' \in [0..new_entry_capacity' - 1 -> Entry]
    PROVE  TypeOK'
<1>1. entry_capacity' = EntryCap(index_capacity')
  BY DEF TableSound
<1>2. /\ index_capacity' \in Nat /\ index_capacity' >= 2
      /\ index_list' \in [Slots' -> Int]
      /\ entries' \in [0..entry_capacity' - 1 -> Entry]
      /\ entry_next_insert' \in 0..entry_capacity'
  BY <1>1 DEF TableSound, Sound, Slots
<1>3. entry_capacity' \in Nat
  BY <1>1, <1>2, EntryCapFacts
<1>4. index_capacity' \in Nat \ {0}
  BY <1>2
<1> QED BY <1>2, <1>3, <1>4, Zenon DEF TypeOK, TableTypes

(* A stack without its top. *)
LEMMA PoppedSeq ==
    ASSUME NEW q \in Seq(Nat), q # <<>>
    PROVE  /\ SubSeq(q, 1, Len(q) - 1) \in Seq(Nat)
           /\ Len(SubSeq(q, 1, Len(q) - 1)) = Len(q) - 1
           /\ \A n \in 1..Len(q) - 1 : SubSeq(q, 1, Len(q) - 1)[n] = q[n]
<1> DEFINE r == Len(q) - 1
<1>1. r \in Nat /\ Len(q) = r + 1
  BY EmptySeq
<1>2. \A n \in 1..r : q[n] \in Nat
  BY <1>1, ElementOfSeq
<1> HIDE DEF r
<1>3. /\ SubSeq(q, 1, r) \in Seq(Nat)
      /\ Len(SubSeq(q, 1, r)) = IF 1 <= r THEN r - 1 + 1 ELSE 0
      /\ \A n \in 1..r - 1 + 1 : SubSeq(q, 1, r)[n] = q[1 + n - 1]
  BY <1>1, <1>2, SubSeqProperties
<1>4. Len(SubSeq(q, 1, r)) = r /\ \A n \in 1..r : SubSeq(q, 1, r)[n] = q[n]
  BY <1>1, <1>3
<1> QED BY <1>3, <1>4 DEF r

(* Taking an entry: where it comes from and what is left of the stack. *)
LEMMA TakeEntryFacts ==
    ASSUME TypeOK, TableSound, entry_next_insert < entry_capacity,
           NEW idx \in 0..entry_next_insert, TakeEntry(idx)
    PROVE  /\ idx \in Nat
           /\ entry_next_insert' \in 0..entry_capacity
           /\ entry_next_insert <= entry_next_insert'
           /\ idx < entry_next_insert'
           /\ \A t \in Slots : index_list[t] > 0 => index_list[t] - 1 # idx
           /\ deleted_index_list' \in Seq(Nat)
           /\ deleted_capacity' \in Nat
           /\ Len(deleted_index_list') <= deleted_capacity'
           /\ entry_next_insert' = count + 1 + Len(deleted_index_list')
           /\ \A n \in 1..Len(deleted_index_list') :
                /\ n \in 1..Len(deleted_index_list)
                /\ deleted_index_list'[n] = deleted_index_list[n]
                /\ deleted_index_list'[n] # idx
<1>1. /\ entry_capacity \in Nat /\ entry_next_insert \in 0..entry_capacity
      /\ count \in Nat /\ deleted_index_list \in Seq(Nat)
      /\ deleted_capacity \in Nat
  BY DEF TypeOK
<1>2. /\ entry_next_insert = count + Len(deleted_index_list)
      /\ Len(deleted_index_list) <= deleted_capacity
  BY DEF TableSound, DeletedSound, DeletedFits
<1>3. \A n \in 1..Len(deleted_index_list) :
        /\ deleted_index_list[n] < entry_next_insert
        /\ \A s \in Slots : index_list[s] > 0 =>
             index_list[s] - 1 # deleted_index_list[n]
        /\ \A m \in 1..Len(deleted_index_list) :
             deleted_index_list[m] = deleted_index_list[n] => m = n
  BY DEF TableSound, DeletedSound, LiveSlots, Live
<1>4. \A t \in Slots : index_list[t] > 0 => index_list[t] <= entry_next_insert
  BY DEF TableSound, Sound, Slots
<1>5. \A t \in Slots : index_list[t] \in Int
  BY DEF TypeOK
<1>6. CASE /\ deleted_index_list # <<>>
           /\ idx = deleted_index_list[Len(deleted_index_list)]
           /\ PopDeleted
           /\ UNCHANGED entry_next_insert
  <2> DEFINE len == Len(deleted_index_list)
  <2>1. len \in Nat \ {0}
    BY <1>1, <1>6
  <2>2. deleted_index_list' = SubSeq(deleted_index_list, 1, len - 1)
    BY <1>6 DEF PopDeleted
  <2>3. /\ deleted_index_list' \in Seq(Nat)
        /\ Len(deleted_index_list') = len - 1
        /\ \A n \in 1..len - 1 : deleted_index_list'[n] = deleted_index_list[n]
    BY <1>1, <2>1, <2>2, PoppedSeq
  <2>4. deleted_capacity' \in Nat /\ len - 1 <= deleted_capacity'
    <3>1. CASE deleted_capacity' = deleted_capacity
      BY <1>1, <1>2, <2>1, <3>1
    <3>2. CASE /\ len - 1 < deleted_capacity \div 4
               /\ deleted_capacity' = ShrunkCap(len - 1)
      BY <1>1, <2>1, <3>2, CapAssumption DEF ShrunkCap
    <3> QED BY <1>6, <3>1, <3>2 DEF PopDeleted
  <2>5. \A n \in 1..len - 1 : deleted_index_list[n] # idx
    BY <1>3, <1>6, <2>1
  <2>6. idx < entry_next_insert /\ entry_next_insert' = entry_next_insert
    BY <1>3, <1>6, <2>1
  <2>7. \A t \in Slots : index_list[t] > 0 => index_list[t] - 1 # idx
    BY <1>3, <1>6, <2>1
  <2>8. idx \in Nat /\ entry_next_insert' = count + 1 + Len(deleted_index_list')
    BY <1>1, <1>2, <2>1, <2>3, <2>6
  <2>9. \A n \in 1..Len(deleted_index_list') :
          /\ n \in 1..Len(deleted_index_list)
          /\ deleted_index_list'[n] = deleted_index_list[n]
          /\ deleted_index_list'[n] # idx
    BY <2>1, <2>3, <2>5
  <2> HIDE DEF len
  <2> QED BY <1>1, <2>3, <2>4, <2>6, <2>7, <2>8, <2>9
<1>7. CASE /\ deleted_index_list = <<>>
           /\ idx = entry_next_insert
           /\ entry_next_insert' = entry_next_insert + 1
           /\ UNCHANGED deleted
  <2>1. /\ deleted_index_list' = <<>> /\ deleted_capacity' = deleted_capacity
        /\ Len(deleted_index_list) = 0 /\ Len(deleted_index_list') = 0
    BY <1>7 DEF deleted
  <2>2. \A t \in Slots : index_list[t] > 0 => index_list[t] - 1 # idx
    BY <1>1, <1>4, <1>5, <1>7
  <2> QED BY <1>1, <1>2, <1>7, <2>1, <2>2
<1> QED BY <1>6, <1>7 DEF TakeEntry

(* What an insertion writes into its entry before linking it. *)
LEMMA NewEntryFacts ==
    ASSUME NEW k \in Key, NEW d \in Data
    PROVE  /\ NewEntry(k, d) \in Entry
           /\ NewEntry(k, d).key = k
           /\ NewEntry(k, d).data = d
           /\ NewEntry(k, d).cached_hash = Hash[k]
<1> DEFINE e1 == [Junk EXCEPT !.key = k]
           e2 == [e1 EXCEPT !.data = d]
           e3 == [e2 EXCEPT !.cached_hash = Hash[k]]
<1>1. e1 \in Entry /\ e1.key = k
  BY DEF Entry, Junk, NONE
<1> HIDE DEF e1
<1>2. e2 \in Entry /\ e2.key = k /\ e2.data = d
  BY <1>1 DEF Entry
<1> HIDE DEF e2
<1>3. e3 \in Entry /\ e3.key = k /\ e3.data = d /\ e3.cached_hash = Hash[k]
  BY <1>2, HashAssumption DEF Entry
<1>4. e3 = NewEntry(k, d)
  BY DEF e1, e2, Junk, NewEntry
<1> HIDE DEF e3
<1> QED BY <1>3, <1>4

(* A new key leaves the table sound and fills one more slot. *)
LEMMA InsertKeeps ==
    ASSUME TypeOK, TableSound, entry_next_insert < entry_capacity,
           NEW k \in Key, NEW d \in Data, Insert(k, d)
    PROVE  /\ TableSound' /\ TableTypes'
           /\ UNCHANGED <<index_capacity, entry_capacity>>
<1>1. PICK s \in TargetSlots(k), idx \in 0..entry_next_insert :
        /\ TakeEntry(idx)
        /\ index_list' = [index_list EXCEPT ![s] = idx + 1]
        /\ entries' = AppendEntry(entries, idx, NewEntry(k, d), tail_idx)
        /\ head_idx' = IF tail_idx = NONE THEN idx ELSE head_idx
        /\ tail_idx' = idx
  BY DEF Insert
<1>2. /\ HitSlots(k) = {} /\ count' = count + 1
      /\ owned' = [owned EXCEPT ![k] = @ + 1]
      /\ index_capacity' = index_capacity /\ entry_capacity' = entry_capacity
  BY DEF Insert
<1>3. /\ Sound(index_list, index_capacity, entries, entry_next_insert)
      /\ entry_capacity = EntryCap(index_capacity)
      /\ count = Cardinality(LiveSlots)
  BY DEF TableSound
<1>4. /\ s \in 0..index_capacity - 1
      /\ ~(index_list[s] > 0)
      /\ Reachable(index_list, index_capacity, Hash[k], s)
  BY <1>3, TargetFacts
<1>5. /\ idx \in Nat
      /\ entry_next_insert' \in 0..entry_capacity
      /\ entry_next_insert <= entry_next_insert'
      /\ idx < entry_next_insert'
      /\ \A t \in Slots : index_list[t] > 0 => index_list[t] - 1 # idx
      /\ deleted_index_list' \in Seq(Nat)
      /\ deleted_capacity' \in Nat
      /\ Len(deleted_index_list') <= deleted_capacity'
      /\ entry_next_insert' = count + 1 + Len(deleted_index_list')
      /\ \A n \in 1..Len(deleted_index_list') :
           /\ n \in 1..Len(deleted_index_list)
           /\ deleted_index_list'[n] = deleted_index_list[n]
           /\ deleted_index_list'[n] # idx
  BY <1>1, TakeEntryFacts
<1>6. /\ index_capacity \in Nat /\ index_list \in [0..index_capacity - 1 -> Int]
      /\ entries \in [0..entry_capacity - 1 -> Entry]
      /\ entry_capacity \in Nat /\ entry_next_insert \in 0..entry_capacity
      /\ count \in Nat /\ head_idx \in Int /\ tail_idx \in Int
      /\ owned \in [Key -> Int] /\ deleted_index_list \in Seq(Nat)
  BY DEF TypeOK, Slots
<1>7. \A t \in 0..index_capacity - 1 :
        index_list[t] > 0 => entries[index_list[t] - 1].key # k
  BY <1>2, <1>3, HitExact DEF Holds, Live, EntryAt, Slots
<1>8. /\ entries' \in [0..EntryCap(index_capacity) - 1 -> Entry]
      /\ entries'[idx].key = k /\ entries'[idx].cached_hash = Hash[k]
      /\ \A j \in (0..EntryCap(index_capacity) - 1) \ {idx} :
           /\ entries'[j].key = entries[j].key
           /\ entries'[j].cached_hash = entries[j].cached_hash
  <2> DEFINE N == EntryCap(index_capacity)
             e == NewEntry(k, d)
  <2>1. e \in Entry /\ e.key = k /\ e.cached_hash = Hash[k]
    BY NewEntryFacts
  <2>2. entries' = AppendEntry(entries, idx, e, tail_idx)
    BY <1>1
  <2>3. N \in Nat /\ idx \in 0..N - 1
    BY <1>3, <1>5, <1>6, SMTT(30)
  <2>4. entries \in [0..N - 1 -> Entry] /\ tail_idx \in Int
    BY <1>3, <1>6
  <2> HIDE DEF e, N
  <2>5. Stored(entries', entries, N, idx, e)
    BY <2>1, <2>2, <2>3, <2>4, AppendFacts
  <2> QED BY <2>1, <2>5 DEF N, Stored
<1>9. Sound(index_list', index_capacity', entries', entry_next_insert')
  <2>1. /\ idx \in 0..entry_next_insert' - 1
        /\ entry_next_insert' \in 0..EntryCap(index_capacity)
    BY <1>3, <1>5, <1>6
  <2>2. \A t \in 0..index_capacity - 1 : index_list[t] > 0 => index_list[t] - 1 # idx
    BY <1>5 DEF Slots
  <2>3. PutOK(index_list, index_capacity, entries, idx, k, entries')
    BY <1>7, <1>8, <2>2 DEF PutOK
  <2>4. Sound([index_list EXCEPT ![s] = idx + 1], index_capacity, entries',
              entry_next_insert')
    BY <1>3, <1>4, <1>5, <2>1, <2>3, SoundPut
  <2> QED BY <1>1, <1>2, <2>4
<1>10. LiveSlots' = LiveSlots \cup {s} /\ count' = Cardinality(LiveSlots')
  <2>1. index_list' = [index_list EXCEPT ![s] = idx + 1] /\ idx + 1 > 0
    BY <1>1, <1>5
  <2>2. LiveSlots' = LiveSlots \cup {s}
    BY <1>2, <1>4, <1>6, <2>1 DEF LiveSlots, Slots, Live
  <2>3. LiveSlots \in SUBSET (0..index_capacity - 1) /\ s \notin LiveSlots
    BY <1>4 DEF LiveSlots, Slots, Live
  <2>4. Cardinality(LiveSlots \cup {s}) = Cardinality(LiveSlots) + 1
    BY <1>6, <2>3, CountChanged
  <2> QED BY <1>2, <1>3, <2>2, <2>4
<1>11. DeletedSound'
  <2>1. ASSUME NEW n \in 1..Len(deleted_index_list')
        PROVE  /\ deleted_index_list'[n] < entry_next_insert'
               /\ \A t \in LiveSlots' : index_list'[t] - 1 # deleted_index_list'[n]
               /\ \A m \in 1..Len(deleted_index_list') :
                    deleted_index_list'[m] = deleted_index_list'[n] => m = n
    <3>1. /\ n \in 1..Len(deleted_index_list)
          /\ deleted_index_list'[n] = deleted_index_list[n]
          /\ deleted_index_list'[n] # idx /\ deleted_index_list[n] \in Nat
      BY <1>5, <1>6, ElementOfSeq
    <3>2. /\ deleted_index_list[n] < entry_next_insert
          /\ \A t \in LiveSlots : index_list[t] - 1 # deleted_index_list[n]
          /\ \A m \in 1..Len(deleted_index_list) :
               deleted_index_list[m] = deleted_index_list[n] => m = n
      BY <3>1 DEF TableSound, DeletedSound
    <3>3. deleted_index_list'[n] < entry_next_insert'
      <4>1. entry_next_insert \in Nat /\ entry_next_insert' \in Nat
        BY <1>5, <1>6
      <4>2. entry_next_insert <= entry_next_insert'
        BY <1>5
      <4>3. /\ deleted_index_list'[n] = deleted_index_list[n]
            /\ deleted_index_list[n] \in Nat
            /\ deleted_index_list[n] < entry_next_insert
        BY <3>1, <3>2
      <4> QED BY <4>1, <4>2, <4>3
    <3>4. ASSUME NEW t \in LiveSlots'
          PROVE  index_list'[t] - 1 # deleted_index_list'[n]
      <4>1. CASE t = s
        <5>1. index_list'[s] = idx + 1
          BY <1>1, <1>4, <1>6
        <5> QED BY <1>5, <3>1, <4>1, <5>1
      <4>2. CASE t # s
        <5>1. t \in LiveSlots /\ index_list'[t] = index_list[t]
          BY <1>1, <1>4, <1>6, <1>10, <4>2 DEF LiveSlots, Slots
        <5> QED BY <3>1, <3>2, <5>1
      <4> QED BY <4>1, <4>2
    <3>5. \A m \in 1..Len(deleted_index_list') :
            deleted_index_list'[m] = deleted_index_list'[n] => m = n
      BY <1>5, <3>1, <3>2
    <3> QED BY <3>3, <3>4, <3>5
  <2> QED BY <1>2, <1>5, <2>1 DEF DeletedSound
<1>12. TableTypes'
  <2>1. owned' \in [Key -> Int]
    BY <1>2, <1>6
  <2>2. head_idx' \in Int /\ tail_idx' \in Int /\ count' \in Nat
    BY <1>1, <1>2, <1>5, <1>6
  <2> QED BY <1>5, <2>1, <2>2 DEF TableTypes
<1>13. DeletedFits'
  BY <1>5 DEF DeletedFits
<1>14. TableSound'
  BY <1>2, <1>3, <1>9, <1>10, <1>11, <1>13 DEF TableSound
<1> QED BY <1>2, <1>12, <1>14

(* New data for a stored key leaves the table sound. *)
LEMMA OverwriteKeeps ==
    ASSUME TypeOK, TableSound, NEW k \in Key, NEW d \in Data, Overwrite(k, d)
    PROVE  /\ TableSound' /\ TableTypes'
           /\ UNCHANGED <<index_capacity, entry_capacity>>
<1>1. PICK s \in HitSlots(k) :
        /\ entries' = [entries EXCEPT ![index_list[s] - 1].data = d]
        /\ UNCHANGED <<index_list, index_capacity, entry_capacity,
                       entry_next_insert, count, head_idx, tail_idx, deleted,
                       owned>>
  BY DEF Overwrite
<1>2. /\ entries \in [0..EntryCap(index_capacity) - 1 -> Entry]
      /\ Sound(index_list, index_capacity, entries, entry_next_insert)
  BY DEF TableSound, Sound
<1>3. /\ entries' \in [0..EntryCap(index_capacity) - 1 -> Entry]
      /\ \A j \in 0..EntryCap(index_capacity) - 1 :
           /\ entries'[j].key = entries[j].key
           /\ entries'[j].cached_hash = entries[j].cached_hash
  BY <1>1, <1>2 DEF Entry
<1>4. Sound(index_list, index_capacity, entries', entry_next_insert)
  BY <1>2, <1>3, SoundSameKeys
<1>5. LiveSlots' = LiveSlots
  BY <1>1 DEF LiveSlots, Slots, Live
<1>6. DeletedSound' /\ DeletedFits'
  <2>1. DeletedSound /\ DeletedFits
    BY DEF TableSound
  <2> QED BY <1>1, <1>5, <2>1 DEF deleted, DeletedSound, DeletedFits
<1>7. TableSound'
  BY <1>1, <1>4, <1>5, <1>6 DEF TableSound
<1>8. TableTypes'
  BY <1>1 DEF TypeOK, TableTypes, deleted
<1> QED BY <1>1, <1>7, <1>8

(* So does a call that changes nothing. *)
LEMMA TableUnchanged ==
    ASSUME TypeOK, TableSound, UNCHANGED <<table, deleted, owned>>
    PROVE  /\ TableSound' /\ TableTypes'
           /\ UNCHANGED <<index_capacity, entry_capacity, entry_next_insert>>
<1>1. UNCHANGED <<index_list, index_capacity, entries, entry_capacity,
                  entry_next_insert, count, head_idx, tail_idx,
                  deleted_index_list, deleted_capacity, owned>>
  BY DEF table, deleted
<1>2. LiveSlots' = LiveSlots
  BY <1>1 DEF LiveSlots, Slots, Live
<1>3. DeletedSound' /\ DeletedFits'
  BY <1>1, <1>2 DEF TableSound, DeletedSound, DeletedFits
<1>4. TableSound'
  BY <1>1, <1>2, <1>3 DEF TableSound
<1>5. TableTypes'
  BY <1>1 DEF TypeOK, TableTypes
<1> QED BY <1>1, <1>4, <1>5

(* What a set does once there is room for its key. *)
LEMMA StoreKeeps ==
    ASSUME TypeOK, TableSound, entry_next_insert < entry_capacity,
           NEW k \in Key, NEW d \in Data, StoreBinding(k, d)
    PROVE  /\ TableSound' /\ TableTypes'
           /\ UNCHANGED <<index_capacity, entry_capacity>>
<1>1. CASE Overwrite(k, d)
  BY <1>1, OverwriteKeeps
<1>2. CASE InsertFails(k)
  BY <1>2, TableUnchanged DEF InsertFails
<1>3. CASE Insert(k, d)
  BY <1>3, InsertKeeps
<1> QED BY <1>1, <1>2, <1>3 DEF StoreBinding

(* Unlinking an entry keeps the contents of all. *)
LEMMA UnlinkKeeps ==
    ASSUME NEW N \in Nat, entries \in [0..N - 1 -> Entry], NEW idx \in 0..N - 1,
           head_idx \in Int, tail_idx \in Int, Unlink(idx)
    PROVE  SameContents(entries', entries, N) /\ head_idx' \in Int /\ tail_idx' \in Int
<1> DEFINE p == entries[idx].prev_idx
           n == entries[idx].next_idx
           back == IF n = NONE THEN entries ELSE [entries EXCEPT ![n].prev_idx = p]
<1>1. p \in Int /\ n \in Int
  BY DEF Entry
<1>2. /\ entries' = IF p = NONE THEN back ELSE [back EXCEPT ![p].next_idx = n]
      /\ head_idx' = IF idx = head_idx THEN n ELSE head_idx
      /\ tail_idx' = IF idx = tail_idx THEN p ELSE tail_idx
  BY DEF Unlink
<1> HIDE DEF p, n
<1>3. SameContents(entries, entries, N)
  BY DEF SameContents
<1>4. back \in [0..N - 1 -> Entry] /\ SameContents(back, entries, N)
  <2>1. SameContents([entries EXCEPT ![n].prev_idx = p], entries, N)
    BY <1>1, LinkFacts
  <2>2. SameContents(back, entries, N)
    BY <1>3, <2>1
  <2> QED BY <2>2 DEF SameContents
<1> HIDE DEF back
<1>5. SameContents([back EXCEPT ![p].next_idx = n], back, N)
  BY <1>1, <1>4, LinkFacts
<1>6. SameContents([back EXCEPT ![p].next_idx = n], entries, N)
  BY <1>4, <1>5 DEF SameContents
<1>7. SameContents(entries', entries, N)
  BY <1>2, <1>4, <1>6
<1> QED BY <1>1, <1>2, <1>7

(* A deletion leaves the table sound and its entry reusable. *)
LEMMA DeleteKeeps ==
    ASSUME TypeOK, TableSound, NEW k \in Key, NEW s \in HitSlots(k), DeleteAt(k, s)
    PROVE  /\ TableSound' /\ TableTypes'
           /\ UNCHANGED <<index_capacity, entry_capacity, entry_next_insert>>
<1> DEFINE idx == index_list[s] - 1
           N == EntryCap(index_capacity)
<1>1. /\ Sound(index_list, index_capacity, entries, entry_next_insert)
      /\ entry_capacity = N
      /\ count = Cardinality(LiveSlots)
      /\ DeletedSound /\ DeletedFits
  BY DEF TableSound
<1>2. /\ index_capacity \in Nat /\ index_list \in [0..index_capacity - 1 -> Int]
      /\ entries \in [0..N - 1 -> Entry] /\ N \in Nat
      /\ entry_next_insert \in 0..N
      /\ count \in Nat /\ head_idx \in Int /\ tail_idx \in Int
      /\ owned \in [Key -> Int] /\ deleted_index_list \in Seq(Nat)
      /\ deleted_capacity \in Nat
  BY <1>1 DEF TypeOK, Slots
<1>3. s \in 0..index_capacity - 1 /\ index_list[s] > 0
  BY DEF HitSlots, Holds, Live, Slots
<1>4. /\ idx \in 0..N - 1 /\ index_list[s] \in Int
      /\ index_list[s] <= entry_next_insert
  BY <1>1, <1>3, SoundSlot
<1>5. idx \in Nat /\ idx < entry_next_insert
  BY <1>2, <1>3, <1>4
<1>6. /\ index_list' = [index_list EXCEPT ![s] = HT_DELETED]
      /\ index_capacity' = index_capacity /\ entry_capacity' = entry_capacity
      /\ entry_next_insert' = entry_next_insert
      /\ count' = count - 1
      /\ owned' = [owned EXCEPT ![k] = @ - 1]
      /\ Unlink(idx) /\ PushDeleted(idx)
  BY DEF DeleteAt, Bury, FreeKey
<1> HIDE DEF N
<1>7. SameContents(entries', entries, N) /\ head_idx' \in Int /\ tail_idx' \in Int
  BY <1>2, <1>4, <1>6, UnlinkKeeps
<1>8. Sound(index_list', index_capacity, entries', entry_next_insert)
  <2>1. Sound(index_list', index_capacity, entries, entry_next_insert)
    BY <1>1, <1>3, <1>6, SoundBury
  <2>2. /\ entries' \in [0..N - 1 -> Entry]
        /\ \A j \in 0..N - 1 :
             /\ entries'[j].key = entries[j].key
             /\ entries'[j].cached_hash = entries[j].cached_hash
    BY <1>7 DEF SameContents
  <2> QED BY <2>1, <2>2, SoundSameKeys DEF N
<1>9. LiveSlots' = LiveSlots \ {s} /\ s \in LiveSlots
  BY <1>2, <1>3, <1>6 DEF LiveSlots, Slots, Live, HT_DELETED
<1>10. count' = Cardinality(LiveSlots') /\ count' \in Nat
  <2>1. LiveSlots \in SUBSET (0..index_capacity - 1)
    BY DEF LiveSlots, Slots
  <2>2. /\ Cardinality(LiveSlots \ {s}) = Cardinality(LiveSlots) - 1
        /\ Cardinality(LiveSlots \ {s}) \in Nat
    BY <1>2, <1>9, <2>1, CountChanged
  <2> QED BY <1>1, <1>6, <1>9, <2>2
<1>11. /\ deleted_index_list' = Append(deleted_index_list, idx)
       /\ deleted_index_list' \in Seq(Nat)
       /\ Len(deleted_index_list') = Len(deleted_index_list) + 1
       /\ \A n \in 1..Len(deleted_index_list) :
            deleted_index_list'[n] = deleted_index_list[n]
       /\ deleted_index_list'[Len(deleted_index_list) + 1] = idx
  <2> HIDE DEF idx
  <2>1. deleted_index_list' = Append(deleted_index_list, idx)
    BY <1>6 DEF PushDeleted
  <2> QED BY <1>2, <1>5, <2>1, AppendProperties
<1>12. deleted_capacity' \in Nat /\ Len(deleted_index_list') <= deleted_capacity'
  <2>1. Len(deleted_index_list) \in Nat /\ Len(deleted_index_list) <= deleted_capacity
    BY <1>1, <1>2 DEF DeletedFits
  <2>2. deleted_capacity' =
          IF Len(deleted_index_list) < deleted_capacity THEN deleted_capacity
          ELSE IF deleted_capacity = 0 THEN DeletedInitCap
          ELSE deleted_capacity * 2
    BY <1>6 DEF PushDeleted
  <2> QED BY <1>2, <1>11, <2>1, <2>2, CapAssumption
<1>13. DeletedSound'
  <2> DEFINE len == Len(deleted_index_list)
  <2> HIDE DEF idx
  <2>1. /\ len \in Nat /\ entry_next_insert = count + len
        /\ \A n \in 1..len :
             /\ deleted_index_list[n] < entry_next_insert
             /\ \A t \in LiveSlots : index_list[t] - 1 # deleted_index_list[n]
             /\ \A m \in 1..len : deleted_index_list[m] = deleted_index_list[n] => m = n
    BY <1>1, <1>2 DEF DeletedSound
  <2>2. \A t \in LiveSlots' : /\ t \in LiveSlots /\ index_list'[t] = index_list[t]
                             /\ index_list[t] - 1 # idx
    <3>1. ASSUME NEW t \in LiveSlots'
          PROVE  t \in LiveSlots /\ t # s /\ index_list'[t] = index_list[t]
      BY <1>2, <1>6, <1>9 DEF LiveSlots, Slots
    <3>2. ASSUME NEW t \in LiveSlots, t # s
          PROVE  index_list[t] - 1 # idx
      <4>1. t \in 0..index_capacity - 1 /\ index_list[t] > 0 /\ index_list[t] \in Int
        BY <1>2 DEF LiveSlots, Slots, Live
      <4>2. index_list[t] # index_list[s]
        BY <1>1, <1>3, <3>2, <4>1 DEF Sound
      <4> QED BY <1>4, <4>1, <4>2 DEF idx
    <3> QED BY <3>1, <3>2
  <2>3. idx \in Nat /\ \A n \in 1..len : deleted_index_list[n] # idx
    <3>1. \A n \in 1..len : index_list[s] - 1 # deleted_index_list[n]
      BY <1>9, <2>1
    <3> QED BY <1>5, <3>1 DEF idx
  <2>4. ASSUME NEW n \in 1..len + 1
        PROVE  /\ deleted_index_list'[n] < entry_next_insert'
               /\ \A t \in LiveSlots' : index_list'[t] - 1 # deleted_index_list'[n]
               /\ \A m \in 1..len + 1 :
                    deleted_index_list'[m] = deleted_index_list'[n] => m = n
    <3>1. CASE n = len + 1
      BY <1>5, <1>6, <1>11, <2>1, <2>2, <2>3, <3>1
    <3>2. CASE n \in 1..len
      <4>1. deleted_index_list'[n] = deleted_index_list[n]
        BY <1>11, <3>2
      <4>2. deleted_index_list'[n] < entry_next_insert'
        BY <1>6, <2>1, <3>2, <4>1
      <4>3. \A t \in LiveSlots' : index_list'[t] - 1 # deleted_index_list'[n]
        BY <2>1, <2>2, <3>2, <4>1
      <4>4. ASSUME NEW m \in 1..len + 1,
                   deleted_index_list'[m] = deleted_index_list'[n]
            PROVE  m = n
        <5>1. CASE m = len + 1
          BY <1>11, <2>3, <3>2, <4>1, <4>4, <5>1
        <5>2. CASE m \in 1..len
          <6>1. deleted_index_list[m] = deleted_index_list[n]
            BY <1>11, <4>1, <4>4, <5>2
          <6> QED BY <2>1, <3>2, <5>2, <6>1
        <5> QED BY <2>1, <5>1, <5>2
      <4> QED BY <4>2, <4>3, <4>4
    <3> QED BY <2>1, <3>1, <3>2
  <2>5. entry_next_insert' = count' + (len + 1)
    BY <1>2, <1>6, <2>1
  <2> QED BY <1>11, <2>4, <2>5 DEF DeletedSound
<1>14. TableSound'
  BY <1>1, <1>6, <1>8, <1>10, <1>12, <1>13 DEF TableSound, DeletedFits, N
<1>15. TableTypes'
  <2>1. owned' \in [Key -> Int]
    BY <1>2, <1>6
  <2> QED BY <1>7, <1>10, <1>11, <1>12, <2>1 DEF TableTypes
<1> QED BY <1>6, <1>14, <1>15

-----------------------------------------------------------------------------
(* The rehash loop. *)

(* The empty table that htable_grow allocates holds no slot yet. *)
LEMMA GrowStarts ==
    ASSUME IndInv, NEW k \in Key, NEW d \in Data, htable_grow(k, d)
    PROVE  IndInv'
<1>1. /\ pc' = "rehash" /\ call' = <<k, d>> /\ i' = 0 /\ pc = "idle"
      /\ new_index_list' = EmptyIndex(new_index_capacity)
      /\ new_entries' = JunkEntries(new_index_capacity)
      /\ UNCHANGED <<table, deleted, owned>>
      /\ new_idx_counter' = new_idx_counter
      /\ new_head' = new_head /\ new_tail' = new_tail
  BY DEF htable_grow
<1>2. /\ TypeOK /\ TableSound /\ new_idx_counter = 0
      /\ new_head \in Int /\ new_tail \in Int
  BY <1>1 DEF IndInv, TypeOK
<1>3. /\ TableSound' /\ TableTypes'
      /\ index_capacity' = index_capacity
  BY <1>1, <1>2, TableUnchanged
<1>4. index_capacity \in Nat /\ index_capacity >= 2
  BY <1>2 DEF TableSound, Sound
<1>5. /\ new_index_capacity \in Nat /\ new_index_capacity >= 2
      /\ new_index_capacity' = new_index_capacity
      /\ new_entry_capacity' = EntryCap(new_index_capacity)
  BY <1>3, <1>4 DEF new_index_capacity, new_entry_capacity
<1>6. /\ Sound(new_index_list', new_index_capacity, new_entries', 0)
      /\ NewLive' = {}
  BY <1>1, <1>5, SoundEmpty DEF NewLive
<1>7. LiveBelow(i)' = {}
  <2>1. \A t \in LiveSlots' : ~(t < 0)
    BY <1>3, <1>4 DEF LiveSlots, Slots
  <2> QED BY <1>1, <2>1 DEF LiveBelow
<1>8. RehashSound'
  BY <1>1, <1>2, <1>5, <1>6, <1>7, FS_EmptySet DEF RehashSound
<1>9. TypeOK'
  <2>1. /\ new_index_list' \in [0..new_index_capacity' - 1 -> Int]
        /\ new_entries' \in [0..new_entry_capacity' - 1 -> Entry]
    BY <1>5, <1>6 DEF Sound
  <2>2. i' \in 0..index_capacity' /\ call' \in Key \X Data
    BY <1>1, <1>3, <1>4
  <2> QED BY <1>1, <1>2, <1>3, <2>1, <2>2, TypeAfter
<1> QED BY <1>1, <1>3, <1>8, <1>9 DEF IndInv

(* The slots that a rehash has dealt with after one more step. *)
LEMMA LiveBelowNext ==
    ASSUME i \in 0..index_capacity - 1, index_capacity \in Nat
    PROVE  /\ Live(i) => LiveBelow(i + 1) = LiveBelow(i) \cup {i}
           /\ ~Live(i) => LiveBelow(i + 1) = LiveBelow(i)
           /\ i \notin LiveBelow(i)
           /\ LiveBelow(i) \in SUBSET (0..index_capacity - 1)
    BY DEF LiveBelow, LiveSlots, Slots

(* Moving the entry of a live slot keeps the new table sound. *)
LEMMA RehashMoves ==
    ASSUME IndInv, pc = "rehash", i < index_capacity, Live(i),
           NEW s \in RehashTargets(EntryAt(i).cached_hash),
           RehashSlot(s, EntryAt(i))
    PROVE  /\ Sound(new_index_list', new_index_capacity, new_entries',
                    new_idx_counter')
           /\ new_idx_counter' = new_idx_counter + 1
           /\ {t \in 0..new_index_capacity - 1 : new_index_list'[t] > 0}
                = NewLive \cup {s}
           /\ s \notin NewLive /\ s \in 0..new_index_capacity - 1
           /\ new_index_list'[s] = new_idx_counter + 1
           /\ new_entries'[new_idx_counter].key = EntryAt(i).key
           /\ new_entries'[new_idx_counter].data = EntryAt(i).data
           /\ \A t \in NewLive :
                /\ new_index_list'[t] = new_index_list[t]
                /\ new_entries'[new_index_list[t] - 1].key = NewEntryAt(t).key
                /\ new_entries'[new_index_list[t] - 1].data = NewEntryAt(t).data
           /\ new_head' \in Int /\ new_tail' \in Int
<1> DEFINE e == EntryAt(i)
           cap2 == new_index_capacity
           N == EntryCap(cap2)
<1>1. /\ TypeOK /\ TableSound /\ RehashSound
      /\ Sound(index_list, index_capacity, entries, entry_next_insert)
      /\ Sound(new_index_list, cap2, new_entries, new_idx_counter)
  BY DEF IndInv, TableSound, RehashSound
<1>2. /\ index_capacity \in Nat /\ index_capacity >= 2 /\ i \in 0..index_capacity - 1
      /\ new_head \in Int /\ new_tail \in Int /\ new_idx_counter \in Nat
      /\ count \in Nat
  BY <1>1 DEF TypeOK, Sound
<1>3. /\ cap2 \in Nat /\ cap2 >= 2 /\ new_index_list \in [0..cap2 - 1 -> Int]
      /\ new_entries \in [0..N - 1 -> Entry] /\ N \in Nat
  BY <1>1, EntryCapFacts DEF Sound
<1>4. /\ e \in Entry /\ e.key \in Key /\ e.cached_hash = Hash[e.key]
      /\ Hash[e.key] \in Nat
  BY <1>1, <1>2, SoundSlot DEF EntryAt, Live
<1>5. new_idx_counter < N
  <2>1. new_idx_counter = Cardinality(LiveBelow(i)) /\ count = Cardinality(LiveSlots)
    BY <1>1 DEF RehashSound, TableSound
  <2>2. LiveBelow(i) \subseteq LiveSlots /\ IsFiniteSet(LiveSlots)
    <3>1. LiveSlots \in SUBSET (0..index_capacity - 1)
      BY DEF LiveSlots, Slots
    <3> QED BY <1>2, <3>1, CountChanged DEF LiveBelow
  <2>3. new_idx_counter <= count
    BY <2>1, <2>2, FS_Subset
  <2>4. count <= entry_next_insert
    BY <1>1, <1>2 DEF TableSound, DeletedSound, TypeOK
  <2>5. entry_next_insert \in 0..EntryCap(index_capacity)
    BY <1>1 DEF Sound
  <2>6. EntryCap(index_capacity) \in Nat /\ EntryCap(index_capacity) < N
    BY <1>2, EntryCapFacts DEF new_index_capacity
  <2> QED BY <1>2, <1>3, <2>3, <2>4, <2>5, <2>6
<1>6. /\ s \in 0..cap2 - 1 /\ new_index_list[s] = HT_EMPTY
      /\ Reachable(new_index_list, cap2, Hash[e.key], s)
  BY <1>4 DEF RehashTargets, Reachable
<1>7. /\ new_index_list' = [new_index_list EXCEPT ![s] = new_idx_counter + 1]
      /\ new_entries' = AppendEntry(new_entries, new_idx_counter, e, new_tail)
      /\ new_head' = IF new_tail = NONE THEN new_idx_counter ELSE new_head
      /\ new_tail' = new_idx_counter
      /\ new_idx_counter' = new_idx_counter + 1
  BY DEF RehashSlot
<1> HIDE DEF e, cap2, N
<1>8. Stored(new_entries', new_entries, N, new_idx_counter, e)
  <2>1. new_idx_counter \in 0..N - 1
    BY <1>2, <1>3, <1>5
  <2> QED BY <1>2, <1>3, <1>4, <1>7, <2>1, AppendFacts
<1>9. \A t \in 0..cap2 - 1 : new_index_list[t] > 0 =>
        /\ new_index_list[t] - 1 \in (0..N - 1) \ {new_idx_counter}
        /\ new_entries[new_index_list[t] - 1].key # e.key
  <2> SUFFICES ASSUME NEW t \in 0..cap2 - 1, new_index_list[t] > 0
               PROVE  /\ new_index_list[t] - 1 \in (0..N - 1) \ {new_idx_counter}
                      /\ new_entries[new_index_list[t] - 1].key # e.key
    OBVIOUS
  <2>1. /\ new_index_list[t] \in Int /\ new_index_list[t] <= new_idx_counter
        /\ new_index_list[t] - 1 \in 0..N - 1
    BY <1>1, SoundSlot DEF N
  <2>2. t \in NewLive
    BY DEF NewLive, cap2
  <2>3. PICK u \in LiveBelow(i) : NewEntryAt(t).key = EntryAt(u).key
    BY <1>1, <2>2 DEF RehashSound
  <2>4. u \in 0..index_capacity - 1 /\ index_list[u] > 0 /\ u < i
    BY <2>3 DEF LiveBelow, LiveSlots, Slots, Live
  <2>5. EntryAt(u).key # EntryAt(i).key
    BY <1>1, <1>2, <2>4 DEF Sound, EntryAt, Live
  <2> QED BY <1>2, <2>1, <2>3, <2>5 DEF NewEntryAt, e
<1>10. Sound(new_index_list', cap2, new_entries', new_idx_counter')
  <2>1. PutOK(new_index_list, cap2, new_entries, new_idx_counter, e.key, new_entries')
    BY <1>4, <1>8, <1>9 DEF PutOK, Stored, N
  <2>2. /\ new_idx_counter + 1 \in 0..EntryCap(cap2)
        /\ new_idx_counter <= new_idx_counter + 1
        /\ new_idx_counter \in 0..(new_idx_counter + 1) - 1
    BY <1>2, <1>3, <1>5 DEF N
  <2>3. Sound([new_index_list EXCEPT ![s] = new_idx_counter + 1], cap2,
              new_entries', new_idx_counter + 1)
    BY <1>1, <1>4, <1>6, <2>1, <2>2, SoundPut
  <2> QED BY <1>7, <2>3
<1>11. /\ {t \in 0..cap2 - 1 : new_index_list'[t] > 0} = NewLive \cup {s}
       /\ s \notin NewLive /\ new_index_list'[s] = new_idx_counter + 1
  <2>1. NewLive = {t \in 0..cap2 - 1 : new_index_list[t] > 0}
    BY DEF NewLive, cap2
  <2> QED BY <1>2, <1>3, <1>6, <1>7, <2>1 DEF HT_EMPTY
<1>12. ASSUME NEW t \in NewLive
       PROVE  /\ new_index_list'[t] = new_index_list[t]
              /\ new_entries'[new_index_list[t] - 1].key = NewEntryAt(t).key
              /\ new_entries'[new_index_list[t] - 1].data = NewEntryAt(t).data
  <2>1. t \in 0..cap2 - 1 /\ new_index_list[t] > 0 /\ t # s
    BY <1>11 DEF NewLive, cap2
  <2>2. new_index_list[t] - 1 \in (0..N - 1) \ {new_idx_counter}
    BY <1>9, <2>1
  <2>3. new_index_list'[t] = new_index_list[t]
    BY <1>3, <1>6, <1>7, <2>1
  <2> QED BY <1>8, <2>2, <2>3 DEF Stored, NewEntryAt
<1>13. /\ new_entries'[new_idx_counter].key = e.key
       /\ new_entries'[new_idx_counter].data = e.data
  BY <1>8 DEF Stored
<1>14. new_head' \in Int /\ new_tail' \in Int
  BY <1>2, <1>7
<1> QED BY <1>6, <1>7, <1>10, <1>11, <1>12, <1>13, <1>14 DEF e, cap2

(* An iteration of htable_rehash keeps both tables sound. *)
LEMMA RehashKeeps ==
    ASSUME IndInv, htable_rehash
    PROVE  IndInv'
<1>1. /\ pc = "rehash" /\ pc' = "rehash" /\ i < index_capacity /\ i' = i + 1
      /\ call' = call /\ UNCHANGED <<table, deleted, owned>>
  BY DEF htable_rehash, NextSlot
<1>2. /\ TypeOK /\ TableSound /\ RehashSound
  BY <1>1 DEF IndInv
<1>3. /\ index_capacity \in Nat /\ i \in 0..index_capacity - 1
      /\ new_idx_counter \in Nat /\ new_head \in Int /\ new_tail \in Int
      /\ call \in Key \X Data
  BY <1>1, <1>2 DEF TypeOK
<1>4. TableSound' /\ TableTypes' /\ index_capacity' = index_capacity
  BY <1>1, <1>2, TableUnchanged
<1>5. /\ new_index_capacity' = new_index_capacity
      /\ new_entry_capacity' = EntryCap(new_index_capacity)
      /\ new_index_capacity \in Nat
      /\ NewLive' = {t \in 0..new_index_capacity - 1 : new_index_list'[t] > 0}
      /\ LiveBelow(i)' = LiveBelow(i + 1)
      /\ \A t \in LiveBelow(i)' : EntryAt(t)' = EntryAt(t)
  <2>1. index_list' = index_list /\ entries' = entries
    BY <1>1 DEF table
  <2>2. LiveSlots' = LiveSlots
    BY <1>4, <2>1 DEF LiveSlots, Slots, Live
  <2> QED BY <1>1, <1>3, <1>4, <2>1, <2>2
          DEF new_index_capacity, new_entry_capacity, NewLive, LiveBelow, EntryAt
<1>6. /\ Live(i) => LiveBelow(i + 1) = LiveBelow(i) \cup {i}
      /\ ~Live(i) => LiveBelow(i + 1) = LiveBelow(i)
      /\ i \notin LiveBelow(i)
      /\ LiveBelow(i) \in SUBSET (0..index_capacity - 1)
  BY <1>3, LiveBelowNext
<1>7. /\ Sound(new_index_list, new_index_capacity, new_entries, new_idx_counter)
      /\ new_idx_counter = Cardinality(NewLive)
      /\ new_idx_counter = Cardinality(LiveBelow(i))
      /\ \A t \in NewLive : \E u \in LiveBelow(i) :
           NewEntryAt(t).key = EntryAt(u).key /\ NewEntryAt(t).data = EntryAt(u).data
      /\ \A u \in LiveBelow(i) : \E t \in NewLive :
           NewEntryAt(t).key = EntryAt(u).key /\ NewEntryAt(t).data = EntryAt(u).data
  BY <1>2 DEF RehashSound
<1>8. RehashSound' /\ new_idx_counter' \in Nat /\ new_head' \in Int /\ new_tail' \in Int
  <2>1. CASE ~Live(i)
    <3>1. UNCHANGED <<new_index_list, new_entries, new_idx_counter, new_head, new_tail>>
      BY <2>1 DEF htable_rehash
    <3>2. NewLive' = NewLive /\ \A t \in NewLive : NewEntryAt(t)' = NewEntryAt(t)
      BY <1>5, <3>1 DEF NewLive, NewEntryAt
    <3>3. LiveBelow(i)' = LiveBelow(i)
      BY <1>5, <1>6, <2>1
    <3>4. /\ \A t \in NewLive' : \E u \in LiveBelow(i)' :
               /\ NewEntryAt(t)'.key = EntryAt(u)'.key
               /\ NewEntryAt(t)'.data = EntryAt(u)'.data
          /\ \A u \in LiveBelow(i)' : \E t \in NewLive' :
               /\ NewEntryAt(t)'.key = EntryAt(u)'.key
               /\ NewEntryAt(t)'.data = EntryAt(u)'.data
      BY <1>5, <1>7, <3>2, <3>3
    <3>5. RehashSound'
      BY <1>5, <1>7, <3>1, <3>2, <3>3, <3>4 DEF RehashSound
    <3> QED BY <1>3, <3>1, <3>5
  <2>2. CASE Live(i)
    <3>1. PICK s \in RehashTargets(EntryAt(i).cached_hash) : RehashSlot(s, EntryAt(i))
      BY <2>2 DEF htable_rehash
    <3>2. /\ Sound(new_index_list', new_index_capacity, new_entries', new_idx_counter')
          /\ new_idx_counter' = new_idx_counter + 1
          /\ {t \in 0..new_index_capacity - 1 : new_index_list'[t] > 0}
               = NewLive \cup {s}
          /\ s \notin NewLive /\ s \in 0..new_index_capacity - 1
          /\ new_index_list'[s] = new_idx_counter + 1
          /\ new_entries'[new_idx_counter].key = EntryAt(i).key
          /\ new_entries'[new_idx_counter].data = EntryAt(i).data
          /\ \A t \in NewLive :
               /\ new_index_list'[t] = new_index_list[t]
               /\ new_entries'[new_index_list[t] - 1].key = NewEntryAt(t).key
               /\ new_entries'[new_index_list[t] - 1].data = NewEntryAt(t).data
          /\ new_head' \in Int /\ new_tail' \in Int
      BY <1>1, <2>2, <3>1, RehashMoves
    <3>3. NewLive' = NewLive \cup {s} /\ LiveBelow(i)' = LiveBelow(i) \cup {i}
      BY <1>5, <1>6, <2>2, <3>2
    <3>4. /\ new_idx_counter' = Cardinality(NewLive')
          /\ new_idx_counter' = Cardinality(LiveBelow(i)')
      <4>1. NewLive \in SUBSET (0..new_index_capacity - 1)
        BY DEF NewLive
      <4>2. Cardinality(NewLive \cup {s}) = Cardinality(NewLive) + 1
        BY <1>5, <3>2, <4>1, CountChanged
      <4>3. Cardinality(LiveBelow(i) \cup {i}) = Cardinality(LiveBelow(i)) + 1
        BY <1>3, <1>6, CountChanged
      <4> QED BY <1>7, <3>2, <3>3, <4>2, <4>3
    <3>5. /\ NewEntryAt(s)'.key = EntryAt(i).key
          /\ NewEntryAt(s)'.data = EntryAt(i).data
      <4>1. new_index_list'[s] - 1 = new_idx_counter
        BY <1>3, <3>2
      <4> QED BY <3>2, <4>1 DEF NewEntryAt
    <3>6. \A t \in NewLive : /\ NewEntryAt(t)'.key = NewEntryAt(t).key
                            /\ NewEntryAt(t)'.data = NewEntryAt(t).data
      BY <3>2 DEF NewEntryAt
    <3>7. /\ \A t \in NewLive' : \E u \in LiveBelow(i)' :
               /\ NewEntryAt(t)'.key = EntryAt(u)'.key
               /\ NewEntryAt(t)'.data = EntryAt(u)'.data
          /\ \A u \in LiveBelow(i)' : \E t \in NewLive' :
               /\ NewEntryAt(t)'.key = EntryAt(u)'.key
               /\ NewEntryAt(t)'.data = EntryAt(u)'.data
      BY <1>5, <1>7, <3>3, <3>5, <3>6
    <3>8. RehashSound'
      BY <1>5, <3>2, <3>4, <3>7 DEF RehashSound
    <3> QED BY <1>3, <3>2, <3>8
  <2> QED BY <2>1, <2>2
<1>9. TypeOK'
  <2>1. /\ new_index_list' \in [0..new_index_capacity' - 1 -> Int]
        /\ new_entries' \in [0..new_entry_capacity' - 1 -> Entry]
    BY <1>5, <1>8 DEF RehashSound, Sound
  <2>2. i' \in 0..index_capacity'
    BY <1>1, <1>3, <1>4
  <2> QED BY <1>1, <1>3, <1>4, <1>8, <2>1, <2>2, TypeAfter
<1> QED BY <1>1, <1>4, <1>8, <1>9 DEF IndInv

(* The finished table is sound, and has room for one more key. *)
LEMMA InstallKeeps ==
    ASSUME IndInv, InstallRehashed
    PROVE  IndInv'
<1>1. /\ pc = "rehash" /\ i = index_capacity /\ pc' = "insert"
      /\ index_list' = new_index_list /\ index_capacity' = new_index_capacity
      /\ entries' = new_entries /\ entry_capacity' = EntryCap(new_index_capacity)
      /\ entry_next_insert' = new_idx_counter
      /\ deleted_index_list' = <<>> /\ deleted_capacity' = deleted_capacity
      /\ head_idx' = new_head /\ tail_idx' = new_tail
      /\ i' = 0 /\ new_idx_counter' = 0 /\ new_head' = NONE /\ new_tail' = NONE
      /\ count' = count /\ owned' = owned /\ call' = call
  BY DEF InstallRehashed, new_entry_capacity
<1>2. TypeOK /\ TableSound /\ RehashSound
  BY <1>1 DEF IndInv
<1>3. /\ index_capacity \in Nat /\ index_capacity >= 2 /\ count \in Nat
      /\ entry_next_insert \in 0..EntryCap(index_capacity)
      /\ new_head \in Int /\ new_tail \in Int /\ owned \in [Key -> Int]
      /\ deleted_capacity \in Nat /\ call \in Key \X Data
  BY <1>1, <1>2 DEF TypeOK, TableSound, Sound
<1>4. /\ Sound(new_index_list, new_index_capacity, new_entries, new_idx_counter)
      /\ new_idx_counter = Cardinality(NewLive)
      /\ new_idx_counter = Cardinality(LiveBelow(i))
  BY <1>2 DEF RehashSound
<1>5. LiveBelow(i) = LiveSlots
  BY <1>1, <1>3 DEF LiveBelow, LiveSlots, Slots
<1>6. count = new_idx_counter
  BY <1>2, <1>4, <1>5 DEF TableSound
<1>7. LiveSlots' = NewLive
  BY <1>1 DEF LiveSlots, Slots, Live, NewLive
<1>8. entry_next_insert' < entry_capacity'
  <2>1. count <= entry_next_insert
    BY <1>2, <1>3 DEF TableSound, DeletedSound, TypeOK
  <2>2. /\ EntryCap(index_capacity) \in Nat
        /\ EntryCap(index_capacity) < EntryCap(new_index_capacity)
        /\ EntryCap(new_index_capacity) \in Nat
    BY <1>3, EntryCapFacts DEF new_index_capacity
  <2> QED BY <1>1, <1>3, <1>6, <2>1, <2>2
<1>9. Len(deleted_index_list') = 0 /\ deleted_index_list' \in Seq(Nat)
  BY <1>1
<1>10. TableSound'
  <2>1. DeletedSound' /\ DeletedFits'
    BY <1>1, <1>3, <1>6, <1>9 DEF DeletedSound, DeletedFits
  <2> QED BY <1>1, <1>4, <1>6, <1>7, <2>1 DEF TableSound
<1>11. TableTypes'
  BY <1>1, <1>3, <1>9 DEF TableTypes
<1>12. TypeOK'
  <2>1. /\ index_capacity' \in Nat /\ new_head' \in Int /\ new_tail' \in Int
        /\ i' \in 0..index_capacity'
    BY <1>1, <1>4 DEF Sound, NONE
  <2> QED BY <1>1, <1>3, <1>10, <1>11, <2>1, TypeAfter
<1> QED BY <1>1, <1>8, <1>10, <1>12 DEF IndInv

-----------------------------------------------------------------------------
(* A call that grows nothing, or that has finished growing. *)
LEMMA AtRest ==
    ASSUME IndInv, pc # "rehash", TableSound', TableTypes',
           pc' \in {"idle", "freed"},
           i' = i, new_idx_counter' = new_idx_counter,
           new_head' = new_head, new_tail' = new_tail
    PROVE  IndInv'
<1>1. i' = 0 /\ new_idx_counter' = 0 /\ new_head' \in Int /\ new_tail' \in Int
  BY DEF IndInv, TypeOK
<1>2. index_capacity' \in Nat
  BY DEF TableSound, Sound
<1>3. pc' # "rehash" /\ pc' # "insert"
  OBVIOUS
<1>4. TypeOK'
  <2>1. i' \in 0..index_capacity' /\ new_idx_counter' \in Nat
    BY <1>1, <1>2
  <2> QED BY <1>1, <1>3, <2>1, TypeAfter
<1> QED BY <1>1, <1>3, <1>4 DEF IndInv

(* A new table, as Init and htable_create make it. *)
LEMMA FreshTable ==
    ASSUME NEW cap, cap = InitialCap
    PROVE  /\ cap \in Nat /\ cap >= 2
           /\ Sound(EmptyIndex(cap), cap, JunkEntries(cap), 0)
           /\ {s \in 0..cap - 1 : EmptyIndex(cap)[s] > 0} = {}
           /\ Cardinality({}) = 0
    BY CapAssumption, SoundEmpty, FS_EmptySet

(* A table from htable_create satisfies the invariant ... *)
LEMMA InitSound == Init => IndInv
<1> SUFFICES ASSUME Init PROVE IndInv
  OBVIOUS
<1>1. /\ index_capacity = InitialCap /\ index_list = EmptyIndex(InitialCap)
      /\ entry_capacity = EntryCap(InitialCap) /\ entries = JunkEntries(InitialCap)
      /\ entry_next_insert = 0 /\ count = 0 /\ head_idx = NONE /\ tail_idx = NONE
      /\ deleted_index_list = <<>> /\ deleted_capacity = 0
      /\ owned = [k \in Key |-> 0] /\ pc = "idle"
      /\ i = 0 /\ new_idx_counter = 0 /\ new_head = NONE /\ new_tail = NONE
  BY DEF Init, NotGrowing
<1>2. /\ InitialCap \in Nat /\ InitialCap >= 2
      /\ Sound(EmptyIndex(InitialCap), InitialCap, JunkEntries(InitialCap), 0)
      /\ {s \in 0..InitialCap - 1 : EmptyIndex(InitialCap)[s] > 0} = {}
      /\ Cardinality({}) = 0
  BY FreshTable
<1>3. LiveSlots = {}
  BY <1>1, <1>2 DEF LiveSlots, Slots, Live
<1>4. TableSound
  BY <1>1, <1>2, <1>3 DEF TableSound, DeletedSound, DeletedFits
<1>5. TypeOK
  <2>1. /\ index_list \in [Slots -> Int]
        /\ entries \in [0..entry_capacity - 1 -> Entry]
    BY <1>1, <1>2 DEF Sound, Slots
  <2>2. index_capacity \in Nat \ {0} /\ i \in 0..index_capacity
    BY <1>1, <1>2
  <2>3. entry_capacity \in Nat /\ entry_next_insert \in 0..entry_capacity
    BY <1>1, <1>2, EntryCapFacts
  <2>4. /\ owned \in [Key -> Int] /\ deleted_index_list \in Seq(Nat)
        /\ deleted_capacity \in Nat /\ count \in Nat
    BY <1>1
  <2>5. /\ head_idx \in Int /\ tail_idx \in Int /\ new_head \in Int
        /\ new_tail \in Int /\ new_idx_counter \in Nat
    BY <1>1 DEF NONE
  <2> QED BY <1>1, <2>1, <2>2, <2>3, <2>4, <2>5 DEF TypeOK
<1> QED BY <1>1, <1>4, <1>5 DEF IndInv

(* ... and so does one that takes the place of a freed table. *)
LEMMA CreateKeeps ==
    ASSUME IndInv, htable_create
    PROVE  IndInv'
<1>1. /\ index_capacity' = InitialCap /\ index_list' = EmptyIndex(InitialCap)
      /\ entry_capacity' = EntryCap(InitialCap) /\ entries' = JunkEntries(InitialCap)
      /\ entry_next_insert' = 0 /\ count' = 0 /\ head_idx' = NONE /\ tail_idx' = NONE
      /\ deleted_index_list' = <<>> /\ deleted_capacity' = 0
      /\ owned' = owned /\ pc = "freed" /\ pc' = "idle" /\ UNCHANGED growing
  BY DEF htable_create
<1>2. /\ Sound(EmptyIndex(InitialCap), InitialCap, JunkEntries(InitialCap), 0)
      /\ {s \in 0..InitialCap - 1 : EmptyIndex(InitialCap)[s] > 0} = {}
      /\ Cardinality({}) = 0
  BY FreshTable
<1>3. LiveSlots' = {}
  BY <1>1, <1>2 DEF LiveSlots, Slots, Live
<1>4. TableSound'
  BY <1>1, <1>2, <1>3 DEF TableSound, DeletedSound, DeletedFits
<1>5. TableTypes'
  BY <1>1 DEF IndInv, TypeOK, TableTypes, NONE
<1> QED BY <1>1, <1>4, <1>5, AtRest DEF growing

(* htable_free changes nothing that the invariant looks at. *)
LEMMA FreeKeeps ==
    ASSUME IndInv, htable_free
    PROVE  IndInv'
<1> DEFINE seen(k) == {n \in 0..entry_capacity :
                         Walk[n] # NONE /\ entries[Walk[n]].key = k}
<1>1. /\ pc = "idle" /\ pc' = "freed" /\ UNCHANGED <<table, deleted, growing>>
      /\ owned' = [k \in Key |-> owned[k] - Cardinality(seen(k))]
  BY DEF htable_free
<1>2. TypeOK /\ TableSound /\ entry_capacity \in Nat /\ owned \in [Key -> Int]
  BY DEF IndInv, TypeOK
<1>3. ASSUME NEW k \in Key PROVE Cardinality(seen(k)) \in Nat
  <2>1. IsFiniteSet(0..entry_capacity)
    BY <1>2, FS_Interval
  <2>2. seen(k) \subseteq 0..entry_capacity
    OBVIOUS
  <2> HIDE DEF seen
  <2> QED BY <2>1, <2>2, FS_Subset, FS_CardinalityType
<1> HIDE DEF seen
<1>4. owned' \in [Key -> Int]
  BY <1>1, <1>2, <1>3
<1>5. UNCHANGED <<index_list, index_capacity, entries, entry_capacity,
                  entry_next_insert, count, head_idx, tail_idx,
                  deleted_index_list, deleted_capacity>>
  BY <1>1 DEF table, deleted
<1>6. TableSound'
  BY <1>2, <1>5
     DEF TableSound, LiveSlots, Slots, Live, DeletedSound, DeletedFits
<1>7. TableTypes'
  BY <1>2, <1>4, <1>5 DEF TypeOK, TableTypes
<1> QED BY <1>1, <1>6, <1>7, AtRest DEF growing

(* Every step keeps the invariant. *)
LEMMA StepSound == IndInv /\ [Next]_vars => IndInv'
<1> SUFFICES ASSUME IndInv, [Next]_vars PROVE IndInv'
  OBVIOUS
<1> USE DEF growing
<1>0. TypeOK /\ TableSound
  BY DEF IndInv
<1>1. ASSUME NEW k \in Key, htable_get(k) PROVE IndInv'
  <2>1. /\ pc = "idle" /\ UNCHANGED <<table, deleted, owned, pc, growing>>
    BY <1>1 DEF htable_get
  <2>2. TableSound' /\ TableTypes'
    BY <1>0, <2>1, TableUnchanged
  <2> QED BY <2>1, <2>2, AtRest
<1>2. ASSUME NEW k \in Key, htable_delete(k) PROVE IndInv'
  <2>1. pc = "idle" /\ UNCHANGED <<pc, growing>>
    BY <1>2 DEF htable_delete
  <2>2. TableSound' /\ TableTypes'
    BY <1>0, <1>2, TableUnchanged, DeleteKeeps DEF htable_delete, DeleteFails
  <2> QED BY <2>1, <2>2, AtRest
<1>3. ASSUME NEW k \in Key, NEW d \in Data, htable_set(k, d) PROVE IndInv'
  <2>1. pc = "idle" /\ ~MustGrow /\ StoreBinding(k, d) /\ UNCHANGED <<pc, growing>>
    BY <1>3 DEF htable_set
  <2>2. entry_next_insert < entry_capacity
    BY <1>0, <2>1 DEF MustGrow, TypeOK
  <2>3. TableSound' /\ TableTypes'
    BY <1>0, <2>1, <2>2, StoreKeeps
  <2> QED BY <2>1, <2>3, AtRest
<1>4. ASSUME NEW k \in Key, NEW d \in Data, htable_grow(k, d) PROVE IndInv'
  BY <1>4, GrowStarts
<1>5. CASE GrowFails
  <2>1. /\ pc = "idle" /\ UNCHANGED <<table, deleted, owned, pc, growing>>
    BY <1>5 DEF GrowFails
  <2>2. TableSound' /\ TableTypes'
    BY <1>0, <2>1, TableUnchanged
  <2> QED BY <2>1, <2>2, AtRest
<1>6. CASE htable_rehash
  BY <1>6, RehashKeeps
<1>7. CASE InstallRehashed
  BY <1>7, InstallKeeps
<1>8. CASE SetAfterGrow
  <2>1. /\ pc = "insert" /\ pc' = "idle" /\ StoreBinding(call[1], call[2])
        /\ i' = i /\ new_idx_counter' = new_idx_counter
        /\ new_head' = new_head /\ new_tail' = new_tail
    BY <1>8 DEF SetAfterGrow
  <2>2. /\ entry_next_insert < entry_capacity
        /\ call[1] \in Key /\ call[2] \in Data
    BY <2>1 DEF IndInv, TypeOK
  <2>3. TableSound' /\ TableTypes'
    BY <1>0, <2>1, <2>2, StoreKeeps
  <2> QED BY <2>1, <2>3, AtRest
<1>9. CASE htable_free
  BY <1>9, FreeKeeps
<1>10. CASE htable_create
  BY <1>10, CreateKeeps
<1>11. CASE UNCHANGED vars
  <2>1. /\ UNCHANGED <<table, deleted, owned, pc, call, i, new_index_list, new_entries,
                       new_idx_counter, new_head, new_tail>>
        /\ UNCHANGED <<index_list, index_capacity, entries>>
    BY <1>11 DEF vars, table
  <2>2. TableSound' /\ UNCHANGED <<entry_capacity, entry_next_insert>>
    BY <1>0, <2>1, TableUnchanged
  <2>3. TypeOK'
    BY <1>0, <2>1, Zenon
       DEF table, deleted, TypeOK, Slots, new_index_capacity, new_entry_capacity
  <2>4. RehashSound => RehashSound'
    <3>1. /\ new_index_capacity' = new_index_capacity
          /\ NewLive' = NewLive /\ LiveBelow(i)' = LiveBelow(i)
      BY <2>1 DEF new_index_capacity, NewLive, LiveBelow, LiveSlots, Slots, Live
    <3>2. \A t : NewEntryAt(t)' = NewEntryAt(t) /\ EntryAt(t)' = EntryAt(t)
      BY <2>1 DEF NewEntryAt, EntryAt
    <3> QED BY <2>1, <3>1, <3>2 DEF RehashSound
  <2> QED BY <2>1, <2>2, <2>3, <2>4 DEF IndInv
<1> QED BY <1>1, <1>2, <1>3, <1>4, <1>5, <1>6, <1>7, <1>8, <1>9, <1>10, <1>11 DEF Next

(* The table, and the one a rehash builds, are sound at all times: every   *)
(* live slot holds a key of its own in an entry of its own at the end of a *)
(* probe path without an empty slot.                                       *)
THEOREM Invariance == Spec => []IndInv
<1>1. Init => IndInv
  BY InitSound
<1>2. IndInv /\ [Next]_vars => IndInv'
  BY StepSound
<1> QED BY <1>1, <1>2, PTL DEF Spec

(* For any hash function and any history of calls, htable_get finds every  *)
(* stored key in the one slot that holds it.                               *)
THEOREM LookupIsComplete == Spec => []LookupComplete
<1>1. IndInv => LookupComplete
  <2> SUFFICES ASSUME IndInv, NEW s \in LiveSlots
               PROVE  HitSlots(EntryAt(s).key) = {s}
    BY DEF LookupComplete
  <2>1. Sound(index_list, index_capacity, entries, entry_next_insert)
    BY DEF IndInv, TableSound
  <2>2. s \in 0..index_capacity - 1 /\ index_list[s] > 0
    BY DEF LiveSlots, Slots, Live
  <2>3. EntryAt(s).key \in Key
    BY <2>1, <2>2, SoundSlot DEF EntryAt
  <2>4. HitSlots(EntryAt(s).key) = {t \in Slots : Holds(t, EntryAt(s).key)}
    BY <2>1, <2>3, HitExact
  <2>5. ASSUME NEW t \in Slots
        PROVE  Holds(t, EntryAt(s).key) <=> t = s
    BY <2>1, <2>2 DEF Sound, Holds, Live, EntryAt, Slots
  <2> QED BY <2>2, <2>4, <2>5 DEF Slots
<1> QED BY <1>1, Invariance, PTL

(* deleted_index_list is never longer than the array allocated for it. *)
THEOREM DeletedStackFits == Spec => []DeletedFits
<1>1. IndInv => DeletedFits
  BY DEF IndInv, TableSound
<1> QED BY <1>1, Invariance, PTL

(* The ranges that number n things from 0 or from 1. *)
LEMMA SizeOfRange ==
  ASSUME NEW n \in Nat
  PROVE  /\ IsFiniteSet(0..n - 1) /\ Cardinality(0..n - 1) = n
         /\ IsFiniteSet(1..n) /\ Cardinality(1..n) = n
<1>1. 0 \in Int /\ 1 \in Int /\ n - 1 \in Int /\ n \in Int
  OBVIOUS
<1>2. /\ IsFiniteSet(0..n - 1)
      /\ Cardinality(0..n - 1) = IF 0 > n - 1 THEN 0 ELSE n - 1 - 0 + 1
  BY <1>1, FS_Interval
<1>3. /\ IsFiniteSet(1..n)
      /\ Cardinality(1..n) = IF 1 > n THEN 0 ELSE n - 1 + 1
  BY <1>1, FS_Interval
<1> QED BY <1>2, <1>3

(* Two finite sets that are mapped one to one onto each other. *)
LEMMA SameSize ==
  ASSUME NEW S, NEW T, IsFiniteSet(S), NEW f \in [S -> T],
         \A a, b \in S : f[a] = f[b] => a = b,
         \A t \in T : \E a \in S : f[a] = t
  PROVE  IsFiniteSet(T) /\ Cardinality(T) = Cardinality(S)
<1>1. f \in Bijection(S, T)
  BY DEF Bijection, Injection, Surjection, IsInjective
<1> QED BY <1>1, FS_Bijection DEF ExistsBijection

(* Insertions take only entries that are not in use, and no entry is lost: *)
(* the live entries and the stack of reusable ones share out all entries   *)
(* that were ever taken.                                                   *)
THEOREM NoEntryLost == Spec => []EntriesAccounted
<1>1. IndInv => EntriesAccounted
  <2> SUFFICES ASSUME IndInv
               PROVE  EntriesAccounted
    OBVIOUS
  <2> DEFINE N == Len(deleted_index_list)
             Stack == {deleted_index_list[n] : n \in 1..N}
  <2>1. /\ Sound(index_list, index_capacity, entries, entry_next_insert)
        /\ count = Cardinality(LiveSlots) /\ count \in Nat
        /\ DeletedSound
        /\ deleted_index_list \in Seq(Nat) /\ N \in Nat
        /\ entry_next_insert \in Nat
    BY DEF IndInv, TypeOK, TableSound, Sound
  <2>2. /\ LiveSlots = {s \in 0..index_capacity - 1 : index_list[s] > 0}
        /\ \A s \in LiveSlots : index_list[s] \in Int
    BY <2>1 DEF LiveSlots, Slots, Live, Sound
  <2>3. \A s, t \in LiveSlots : index_list[s] = index_list[t] => s = t
    BY <2>1, <2>2 DEF Sound
  <2>4. \A m, n \in 1..N : deleted_index_list[m] = deleted_index_list[n] => m = n
    BY <2>1 DEF DeletedSound
  <2>5. LiveEntries \cap Stack = {}
    BY <2>1 DEF DeletedSound, LiveEntries
  <2>6. IsFiniteSet(LiveEntries) /\ Cardinality(LiveEntries) = count
    <3> DEFINE f == [s \in LiveSlots |-> index_list[s] - 1]
    <3>1. IsFiniteSet(LiveSlots)
      <4>1. IsFiniteSet(0..index_capacity - 1)
        BY <2>1, FS_Interval DEF Sound
      <4> QED BY <2>2, <4>1, FS_Subset
    <3>2. f \in [LiveSlots -> LiveEntries]
      BY DEF LiveEntries
    <3>3. \A a, b \in LiveSlots : f[a] = f[b] => a = b
      BY <2>2, <2>3
    <3>4. \A t \in LiveEntries : \E a \in LiveSlots : f[a] = t
      BY DEF LiveEntries
    <3> HIDE DEF f
    <3> QED BY <2>1, <3>1, <3>2, <3>3, <3>4, SameSize
  <2>7. IsFiniteSet(Stack) /\ Cardinality(Stack) = N
    <3> DEFINE f == [n \in 1..N |-> deleted_index_list[n]]
    <3>1. IsFiniteSet(1..N) /\ Cardinality(1..N) = N
      <4> HIDE DEF N
      <4> QED BY <2>1, SizeOfRange
    <3>2. f \in [1..N -> Stack]
      OBVIOUS
    <3>3. \A a, b \in 1..N : f[a] = f[b] => a = b
      BY <2>4
    <3>4. \A t \in Stack : \E a \in 1..N : f[a] = t
      OBVIOUS
    <3> HIDE DEF f, Stack, N
    <3> QED BY <3>1, <3>2, <3>3, <3>4, SameSize
  <2>8. LiveEntries \cup Stack = 0..entry_next_insert - 1
    <3>1. LiveEntries \cup Stack \subseteq 0..entry_next_insert - 1
      <4>1. \A s \in LiveSlots : index_list[s] - 1 \in 0..entry_next_insert - 1
        BY <2>1, <2>2 DEF Sound
      <4>2. \A n \in 1..N : deleted_index_list[n] \in 0..entry_next_insert - 1
        BY <2>1 DEF DeletedSound
      <4> QED BY <4>1, <4>2 DEF LiveEntries
    <3>2. /\ IsFiniteSet(0..entry_next_insert - 1)
          /\ Cardinality(0..entry_next_insert - 1) = entry_next_insert
      BY <2>1, SizeOfRange
    <3>3. Cardinality(LiveEntries \cup Stack) = count + N
      <4> HIDE DEF Stack, N
      <4>1. Cardinality(LiveEntries \cap Stack) = 0
        BY <2>5, FS_EmptySet
      <4>2. Cardinality(LiveEntries \cup Stack)
              = Cardinality(LiveEntries) + Cardinality(Stack)
                - Cardinality(LiveEntries \cap Stack)
        BY <2>6, <2>7, FS_Union
      <4>3. count \in Nat /\ N \in Nat
        BY <2>1
      <4> QED BY <2>6, <2>7, <4>1, <4>2, <4>3
    <3>4. entry_next_insert = count + N
      BY <2>1 DEF DeletedSound
    <3> HIDE DEF Stack, N
    <3> QED BY <3>1, <3>2, <3>3, <3>4, FS_Subset
  <2> QED BY <2>1, <2>3, <2>4, <2>5, <2>8 DEF EntriesAccounted
<1> QED BY <1>1, Invariance, PTL

-----------------------------------------------------------------------------
(* A put always finds room, for every hash function: a probe path visits   *)
(* every slot, and there are fewer entries than slots.                     *)

(* The least number principle. *)
LEMMA LeastNat ==
    ASSUME NEW T, T \subseteq Nat, T # {}
    PROVE  \E n \in T : \A m \in T : n <= m
<1> DEFINE R == OpToRel(<, Nat)
<1>1. IsWellFoundedOn(R, Nat)
  BY NatLessThanWellFounded
<1>2. \A m, n \in Nat : m < n => <<m, n>> \in R
  BY DEF OpToRel
<1> HIDE DEF R
<1>3. PICK n \in T : \A m \in T : ~(<<m, n>> \in R)
  BY <1>1, WFMin
<1>4. \A m \in T : ~(m < n) /\ m \in Nat /\ n \in Nat
  BY <1>2, <1>3
<1>5. \A m \in T : n <= m
  BY <1>4
<1> QED BY <1>5

(* A probe path comes to a free slot, if there is one, and before that     *)
(* only to others.                                                         *)
LEMMA PathFindsFree ==
    ASSUME NEW cap \in Nat, cap >= 2, NEW h \in Nat,
           NEW free, free \subseteq 0..cap - 1, free # {}
    PROVE  \E n \in 0..cap - 1 :
             /\ Probe(h, n, cap) \in free
             /\ \A m \in 0..n - 1 : Probe(h, m, cap) \notin free
<1> DEFINE T == {n \in 0..cap - 1 : Probe(h, n, cap) \in free}
<1>1. T \subseteq Nat
  OBVIOUS
<1>2. T # {}
  <2>1. PICK s \in free : s \in 0..cap - 1
    OBVIOUS
  <2>2. PICK n \in 0..cap - 1 : s = Probe(h, n, cap)
    BY <2>1, ProbeFacts
  <2> QED BY <2>1, <2>2
<1> HIDE DEF T
<1>3. PICK n \in T : \A m \in T : n <= m
  BY <1>1, <1>2, LeastNat
<1>4. n \in 0..cap - 1 /\ Probe(h, n, cap) \in free
  BY <1>3 DEF T
<1>5. ASSUME NEW m \in 0..n - 1
      PROVE  Probe(h, m, cap) \notin free
  <2>1. m \in 0..cap - 1 /\ ~(n <= m)
    BY <1>4
  <2>2. m \notin T
    BY <1>3, <2>1
  <2> QED BY <2>1, <2>2 DEF T
<1> QED BY <1>4, <1>5

(* An index with fewer live slots than slots has another one. *)
LEMMA SomeSlotFree ==
    ASSUME NEW cap \in Nat, NEW live, live \subseteq 0..cap - 1,
           Cardinality(live) < cap
    PROVE  (0..cap - 1) \ live # {}
<1>1. Cardinality(0..cap - 1) = cap
  BY SizeOfRange
<1> SUFFICES ASSUME (0..cap - 1) \ live = {} PROVE FALSE
  OBVIOUS
<1>2. live = 0..cap - 1
  OBVIOUS
<1> QED BY <1>1, <1>2

(* With an entry left for it, a new key has a slot. *)
LEMMA TargetExists ==
    ASSUME IndInv, entry_next_insert < entry_capacity, NEW k \in Key
    PROVE  TargetSlots(k) # {}
<1>1. /\ index_capacity \in Nat /\ index_capacity >= 2
      /\ entry_capacity = EntryCap(index_capacity)
      /\ count = Cardinality(LiveSlots) /\ count \in Nat
      /\ entry_next_insert = count + Len(deleted_index_list)
      /\ Len(deleted_index_list) \in Nat
      /\ Hash[k] \in Nat
  BY HashAssumption DEF IndInv, TypeOK, TableSound, Sound, DeletedSound
<1>2. entry_capacity \in Nat /\ entry_capacity < index_capacity
  BY <1>1, EntryCapFacts
<1>3. count < index_capacity
  BY <1>1, <1>2
<1>4. LiveSlots \subseteq 0..index_capacity - 1
  BY DEF LiveSlots, Slots
<1>5. (0..index_capacity - 1) \ LiveSlots # {}
  BY <1>1, <1>3, <1>4, SomeSlotFree
<1> DEFINE free == (0..index_capacity - 1) \ LiveSlots
<1>6. free \subseteq 0..index_capacity - 1 /\ free # {}
  BY <1>5
<1> HIDE DEF free
<1>7. PICK n \in 0..index_capacity - 1 :
        /\ Probe(Hash[k], n, index_capacity) \in free
        /\ \A m \in 0..n - 1 : Probe(Hash[k], m, index_capacity) \notin free
  BY <1>1, <1>6, PathFindsFree
<1>8. /\ Slot(k, n) \in Slots /\ ~Live(Slot(k, n))
  BY <1>7 DEF free, Slot, Slots, LiveSlots
<1>9. ASSUME NEW m \in 0..n - 1
      PROVE  Live(Slot(k, m))
  <2>1. m \in 0..index_capacity - 1
    BY <1>1
  <2>2. Probe(Hash[k], m, index_capacity) \in 0..index_capacity - 1
    BY <1>1, <2>1, ProbeFacts
  <2> QED BY <1>7, <2>2 DEF free, Slot, Slots, LiveSlots
<1> QED BY <1>7, <1>8, <1>9 DEF TargetSlots, Slots

-----------------------------------------------------------------------------
(* The table that a rehash builds holds no tombstones. *)
NoTombstones ==
    pc = "rehash" =>
      \A s \in 0..new_index_capacity - 1 : new_index_list[s] >= 0

LEMMA NoTombstonesStep == IndInv /\ NoTombstones /\ [Next]_vars => NoTombstones'
<1> SUFFICES ASSUME IndInv, NoTombstones, [Next]_vars, pc' = "rehash"
             PROVE  \A s \in 0..new_index_capacity' - 1 : new_index_list'[s] >= 0
  BY DEF NoTombstones
<1>1. ASSUME NEW k \in Key, NEW d \in Data, htable_grow(k, d)
      PROVE  \A s \in 0..new_index_capacity' - 1 : new_index_list'[s] >= 0
  <2>1. /\ new_index_list' = EmptyIndex(new_index_capacity)
        /\ new_index_capacity' = new_index_capacity
    BY <1>1 DEF htable_grow, table, new_index_capacity
  <2> QED BY <2>1 DEF EmptyIndex, HT_EMPTY
<1>2. CASE htable_rehash
  <2>1. /\ pc = "rehash" /\ new_index_capacity' = new_index_capacity
    BY <1>2 DEF htable_rehash, table, new_index_capacity
  <2>2. CASE new_index_list' = new_index_list
    BY <2>1, <2>2 DEF NoTombstones
  <2>3. ASSUME NEW s \in RehashTargets(EntryAt(i).cached_hash),
               RehashSlot(s, EntryAt(i))
        PROVE  \A t \in 0..new_index_capacity' - 1 : new_index_list'[t] >= 0
    <3>1. /\ new_index_list' = [new_index_list EXCEPT ![s] = new_idx_counter + 1]
          /\ new_idx_counter \in Nat
          /\ new_index_list \in [0..new_index_capacity - 1 -> Int]
      BY <2>1, <2>3 DEF RehashSlot, IndInv, TypeOK
    <3>2. \A t \in 0..new_index_capacity - 1 : new_index_list[t] >= 0
      BY <2>1 DEF NoTombstones
    <3> QED BY <2>1, <3>1, <3>2
  <2> QED BY <1>2, <2>2, <2>3 DEF htable_rehash
<1>3. CASE UNCHANGED vars
  BY <1>3 DEF vars, table, growing, NoTombstones, new_index_capacity
<1>4. CASE \/ \E k \in Key : htable_get(k) \/ htable_delete(k)
           \/ \E k \in Key, d \in Data : htable_set(k, d)
           \/ GrowFails \/ InstallRehashed \/ SetAfterGrow
           \/ htable_free \/ htable_create
  <2>1. pc' # "rehash"
    BY <1>4 DEF htable_get, htable_delete, htable_set, GrowFails,
                InstallRehashed, SetAfterGrow, htable_free, htable_create
  <2> QED BY <2>1
<1> QED BY <1>1, <1>2, <1>3, <1>4 DEF Next

(* During a rehash, the entry of each live slot has a place to go. *)
LEMMA RehashTargetExists ==
    ASSUME IndInv, NoTombstones, pc = "rehash", i < index_capacity, Live(i)
    PROVE  /\ new_idx_counter < new_entry_capacity
           /\ RehashTargets(EntryAt(i).cached_hash) # {}
<1> DEFINE cap2 == new_index_capacity
           hash == EntryAt(i).cached_hash
<1>1. /\ index_capacity \in Nat /\ index_capacity >= 2 /\ i \in 0..index_capacity - 1
      /\ Sound(index_list, index_capacity, entries, entry_next_insert)
      /\ count = Cardinality(LiveSlots) /\ count \in Nat
      /\ entry_next_insert = count + Len(deleted_index_list)
      /\ Len(deleted_index_list) \in Nat
      /\ entry_next_insert \in 0..EntryCap(index_capacity)
      /\ new_idx_counter \in Nat
      /\ new_idx_counter = Cardinality(NewLive)
      /\ new_idx_counter = Cardinality(LiveBelow(i))
      /\ new_index_list \in [0..cap2 - 1 -> Int]
  <2>1. TypeOK /\ TableSound /\ RehashSound
    BY DEF IndInv
  <2>2. /\ index_capacity \in Nat /\ i \in 0..index_capacity /\ count \in Nat
        /\ new_idx_counter \in Nat /\ deleted_index_list \in Seq(Nat)
        /\ new_index_list \in [0..cap2 - 1 -> Int]
    BY <2>1 DEF TypeOK
  <2>3. /\ entry_capacity = EntryCap(index_capacity)
        /\ Sound(index_list, index_capacity, entries, entry_next_insert)
        /\ count = Cardinality(LiveSlots)
        /\ entry_next_insert = count + Len(deleted_index_list)
    BY <2>1 DEF TableSound, DeletedSound
  <2>4. index_capacity >= 2 /\ entry_next_insert \in 0..EntryCap(index_capacity)
    BY <2>3 DEF Sound
  <2>5. /\ new_idx_counter = Cardinality(NewLive)
        /\ new_idx_counter = Cardinality(LiveBelow(i))
    BY <2>1 DEF RehashSound
  <2>6. i \in 0..index_capacity - 1 /\ Len(deleted_index_list) \in Nat
    BY <2>2
  <2> QED BY <2>2, <2>3, <2>4, <2>5, <2>6
<1>2. /\ cap2 = index_capacity * 2 /\ cap2 \in Nat /\ cap2 >= 2
      /\ new_entry_capacity = EntryCap(index_capacity * 2)
      /\ EntryCap(index_capacity) \in Nat /\ EntryCap(index_capacity * 2) \in Nat
      /\ EntryCap(index_capacity) < EntryCap(index_capacity * 2)
      /\ EntryCap(index_capacity) < index_capacity
  BY <1>1, EntryCapFacts DEF new_index_capacity, new_entry_capacity
<1>3. hash \in Nat
  <2>1. i \in 0..index_capacity - 1 /\ index_list[i] > 0
    BY <1>1 DEF Live
  <2>2. /\ hash = Hash[EntryAt(i).key] /\ Hash[EntryAt(i).key] \in Nat
    BY <1>1, <2>1, SoundSlot DEF EntryAt
  <2> QED BY <2>2
<1>4. new_idx_counter <= count
  <2>1. LiveSlots \in SUBSET (0..index_capacity - 1)
    BY DEF LiveSlots, Slots
  <2>2. IsFiniteSet(LiveSlots)
    BY <1>1, <2>1, CountChanged
  <2> QED BY <1>1, <2>2, FS_Subset DEF LiveBelow
<1>5. new_idx_counter < new_entry_capacity /\ new_idx_counter < cap2
  <2>1. count <= EntryCap(index_capacity)
    BY <1>1, <1>2
  <2>2. new_idx_counter <= EntryCap(index_capacity)
    BY <1>1, <1>2, <1>4, <2>1
  <2>3. new_idx_counter < EntryCap(index_capacity * 2)
    <3> DEFINE a == EntryCap(index_capacity)
               b == EntryCap(index_capacity * 2)
    <3>1. a \in Nat /\ b \in Nat /\ a < b /\ new_idx_counter <= a
      BY <1>2, <2>2
    <3> HIDE DEF a, b
    <3>2. new_idx_counter < b
      BY <1>1, <3>1
    <3> QED BY <3>2 DEF b
  <2>4. new_idx_counter < index_capacity * 2
    <3> DEFINE a == EntryCap(index_capacity)
    <3>1. a \in Nat /\ a < index_capacity /\ new_idx_counter <= a
      BY <1>2, <2>2
    <3> HIDE DEF a
    <3> QED BY <1>1, <3>1
  <2>5. new_entry_capacity = EntryCap(index_capacity * 2)
    BY <1>2
  <2>6. cap2 = index_capacity * 2
    BY <1>2
  <2> HIDE DEF cap2
  <2> QED BY <2>3, <2>4, <2>5, <2>6
<1>6. /\ NewLive = {s \in 0..cap2 - 1 : new_index_list[s] > 0}
      /\ \A s \in 0..cap2 - 1 : new_index_list[s] >= 0
  BY DEF NewLive, NoTombstones
<1> HIDE DEF cap2, hash
<1> DEFINE free == (0..cap2 - 1) \ NewLive
<1>7. free \subseteq 0..cap2 - 1 /\ free # {}
  <2>1. NewLive \subseteq 0..cap2 - 1
    BY <1>6
  <2> QED BY <1>1, <1>2, <1>5, <2>1, SomeSlotFree
<1>8. \A s \in 0..cap2 - 1 : s \in free <=> new_index_list[s] = HT_EMPTY
  BY <1>1, <1>6 DEF HT_EMPTY
<1> HIDE DEF free
<1>9. PICK n \in 0..cap2 - 1 :
        /\ Probe(hash, n, cap2) \in free
        /\ \A m \in 0..n - 1 : Probe(hash, m, cap2) \notin free
  BY <1>2, <1>3, <1>7, PathFindsFree
<1>10. \A m \in 0..n - 1 : new_index_list[Probe(hash, m, cap2)] # HT_EMPTY
  <2> SUFFICES ASSUME NEW m \in 0..n - 1
               PROVE  new_index_list[Probe(hash, m, cap2)] # HT_EMPTY
    OBVIOUS
  <2>1. m \in 0..cap2 - 1
    BY <1>2
  <2>2. Probe(hash, m, cap2) \in 0..cap2 - 1
    BY <1>2, <1>3, <2>1, ProbeFacts
  <2> QED BY <1>8, <1>9, <2>2
<1>11. Probe(hash, n, cap2) \in RehashTargets(hash)
  <2>1. Probe(hash, n, cap2) \in 0..cap2 - 1
    BY <1>7, <1>9
  <2>2. new_index_list[Probe(hash, n, cap2)] = HT_EMPTY
    BY <1>8, <1>9, <2>1
  <2> QED BY <1>9, <1>10, <2>1, <2>2 DEF RehashTargets, cap2
<1> QED BY <1>5, <1>11 DEF hash

(* The assertions at htable.c:70 and 176 never fail, and no probe loop     *)
(* ends without a slot: past the growth check there is room for one more   *)
(* key, and in a rehash for every key it moves, whatever the hash function *)
(* and the history of calls.                                               *)
THEOREM AlwaysRoom == Spec => []RoomToInsert
<1>1. Init => NoTombstones
  BY DEF Init, NoTombstones
<1>2. IndInv /\ NoTombstones => RoomToInsert
  <2> SUFFICES ASSUME IndInv, NoTombstones
               PROVE  RoomToInsert
    OBVIOUS
  <2>1. ASSUME pc = "insert" \/ (pc = "idle" /\ ~MustGrow)
        PROVE  entry_next_insert < entry_capacity
    BY <2>1 DEF IndInv, TypeOK, MustGrow
  <2> QED BY <2>1, TargetExists, RehashTargetExists DEF RoomToInsert
<1> QED BY <1>1, <1>2, NoTombstonesStep, Invariance, PTL DEF Spec

-----------------------------------------------------------------------------
(* HTable implements Dict.                                                 *)

(* What the table says of key k: the pairs that Bindings has for it. *)
BoundTo(k) == {b \in Bindings : b[1] = k}

(* They are what Dict calls its bindings. *)
LEMMA BoundIsDict == \A k : D!Bound(k) = BoundTo(k)
    BY DEF D!Bound, BoundTo

(* A key that the lookup finds is bound once, to the data in its entry. *)
LEMMA HitIsBound ==
    ASSUME TypeOK, TableSound, pc # "freed", NEW k \in Key
    PROVE  /\ HitSlots(k) = {} => BoundTo(k) = {}
           /\ \A s \in HitSlots(k) :
                /\ s \in LiveSlots /\ EntryAt(s).key = k
                /\ BoundTo(k) = {<<k, EntryAt(s).data>>}
                /\ \A t \in LiveSlots : EntryAt(t).key = k => t = s
<1>1. Sound(index_list, index_capacity, entries, entry_next_insert)
  BY DEF TableSound
<1>2. HitSlots(k) = {s \in Slots : Holds(s, k)}
  BY <1>1, HitExact
<1>3. /\ Bindings = {<<EntryAt(s).key, EntryAt(s).data>> : s \in LiveSlots}
      /\ LiveSlots = {s \in Slots : Live(s)}
  BY DEF Bindings, LiveSlots
<1>4. HitSlots(k) = {s \in LiveSlots : EntryAt(s).key = k}
  BY <1>2, <1>3 DEF Holds
<1>5. HitSlots(k) = {} => BoundTo(k) = {}
  BY <1>3, <1>4 DEF BoundTo
<1>6. ASSUME NEW s \in HitSlots(k)
      PROVE  /\ s \in LiveSlots /\ EntryAt(s).key = k
             /\ BoundTo(k) = {<<k, EntryAt(s).data>>}
             /\ \A t \in LiveSlots : EntryAt(t).key = k => t = s
  <2>1. s \in LiveSlots /\ EntryAt(s).key = k
    BY <1>4
  <2>2. \A t \in LiveSlots : EntryAt(t).key = k => t = s
    BY <1>1, <2>1 DEF Sound, LiveSlots, Slots, Live, EntryAt
  <2>3. BoundTo(k) = {<<k, EntryAt(s).data>>}
    BY <1>3, <2>1, <2>2 DEF BoundTo
  <2> QED BY <2>1, <2>2, <2>3
<1> QED BY <1>5, <1>6

(* Steps that touch neither the index nor the entries. *)
LEMMA BindingsKept ==
    ASSUME UNCHANGED <<index_list, index_capacity, entries>>,
           (pc = "freed") <=> (pc' = "freed")
    PROVE  Bindings' = Bindings
<1>1. /\ LiveSlots' = LiveSlots
      /\ \A s : EntryAt(s)' = EntryAt(s)
  BY DEF LiveSlots, Slots, Live, EntryAt
<1> QED BY <1>1 DEF Bindings

(* Bindings after a step that fills slot s with <<k, d>> and leaves the    *)
(* other live slots their bindings.                                        *)
LEMMA BindingPut ==
    ASSUME pc # "freed", pc' # "freed", NEW k, NEW d, NEW s,
           LiveSlots' = LiveSlots \cup {s},
           EntryAt(s)'.key = k, EntryAt(s)'.data = d,
           \A t \in LiveSlots : t # s =>
             /\ EntryAt(t).key # k
             /\ EntryAt(t)'.key = EntryAt(t).key
             /\ EntryAt(t)'.data = EntryAt(t).data,
           s \in LiveSlots => EntryAt(s).key = k
    PROVE  Bindings' = (Bindings \ BoundTo(k)) \cup {<<k, d>>}
<1>1. /\ Bindings = {<<EntryAt(t).key, EntryAt(t).data>> : t \in LiveSlots}
      /\ Bindings' = {<<EntryAt(t)'.key, EntryAt(t)'.data>> : t \in LiveSlots'}
  BY DEF Bindings
<1>2. BoundTo(k) = {b \in Bindings : b[1] = k}
  BY DEF BoundTo
<1>3. Bindings \ BoundTo(k)
        = {<<EntryAt(t).key, EntryAt(t).data>> : t \in LiveSlots \ {s}}
  <2>1. ASSUME NEW t \in LiveSlots
        PROVE  <<EntryAt(t).key, EntryAt(t).data>>[1] = k <=> t = s
    <3>1. <<EntryAt(t).key, EntryAt(t).data>>[1] = EntryAt(t).key
      OBVIOUS
    <3> QED BY <3>1
  <2> QED BY <1>1, <1>2, <2>1
<1>4. Bindings' = {<<EntryAt(t)'.key, EntryAt(t)'.data>> : t \in LiveSlots \ {s}}
                    \cup {<<k, d>>}
  BY <1>1
<1>5. {<<EntryAt(t)'.key, EntryAt(t)'.data>> : t \in LiveSlots \ {s}}
        = {<<EntryAt(t).key, EntryAt(t).data>> : t \in LiveSlots \ {s}}
  OBVIOUS
<1> QED BY <1>3, <1>4, <1>5

-----------------------------------------------------------------------------
(* New data for a stored key. *)
LEMMA OverwriteImplements ==
    ASSUME TypeOK, TableSound, pc # "freed", pc' # "freed",
           NEW k \in Key, NEW d \in Data, Overwrite(k, d)
    PROVE  D!Set(k, d)
<1>1. PICK s \in HitSlots(k) :
        /\ entries' = [entries EXCEPT ![index_list[s] - 1].data = d]
        /\ ret' = [op |-> "set", ok |-> TRUE, flag |-> FALSE, data |-> NULL]
        /\ UNCHANGED <<index_list, index_capacity>>
  BY DEF Overwrite
<1>2. /\ s \in LiveSlots /\ EntryAt(s).key = k
      /\ BoundTo(k) = {<<k, EntryAt(s).data>>}
      /\ \A t \in LiveSlots : EntryAt(t).key = k => t = s
  BY HitIsBound
<1>3. LiveSlots' = LiveSlots \cup {s}
  BY <1>1, <1>2 DEF LiveSlots, Slots, Live
<1>4. \A t \in LiveSlots :
        /\ entries[index_list[t] - 1] \in Entry
        /\ index_list[t] - 1 \in DOMAIN entries
        /\ t # s => index_list[t] - 1 # index_list[s] - 1
  <2>1. Sound(index_list, index_capacity, entries, entry_next_insert)
    BY DEF TableSound
  <2>2. \A t \in LiveSlots : t \in 0..index_capacity - 1 /\ index_list[t] > 0
    BY DEF LiveSlots, Slots, Live
  <2>3. \A t \in LiveSlots : /\ index_list[t] \in Int
                            /\ index_list[t] - 1 \in 0..EntryCap(index_capacity) - 1
                            /\ entries[index_list[t] - 1] \in Entry
    BY <2>1, <2>2, SoundSlot
  <2>4. DOMAIN entries = 0..EntryCap(index_capacity) - 1
    BY <2>1 DEF Sound
  <2>5. \A t \in LiveSlots : t # s => index_list[t] # index_list[s]
    BY <1>2, <2>1, <2>2 DEF Sound
  <2> QED BY <1>2, <2>3, <2>4, <2>5
<1>5. EntryAt(s)'.key = k /\ EntryAt(s)'.data = d
  BY <1>1, <1>2, <1>4 DEF EntryAt, Entry
<1>6. \A t \in LiveSlots : t # s =>
        /\ EntryAt(t).key # k
        /\ EntryAt(t)'.key = EntryAt(t).key
        /\ EntryAt(t)'.data = EntryAt(t).data
  BY <1>1, <1>2, <1>4 DEF EntryAt
<1>7. Bindings' = (Bindings \ BoundTo(k)) \cup {<<k, d>>}
  BY <1>2, <1>3, <1>5, <1>6, BindingPut
<1>8. (BoundTo(k) = {}) = FALSE
  BY <1>2
<1>9. D!Bound(k) = BoundTo(k)
  BY BoundIsDict
<1> QED BY <1>1, <1>7, <1>8, <1>9 DEF D!Set

(* A new key. *)
LEMMA InsertImplements ==
    ASSUME TypeOK, TableSound, entry_next_insert < entry_capacity,
           pc # "freed", pc' # "freed",
           NEW k \in Key, NEW d \in Data, Insert(k, d)
    PROVE  D!Set(k, d)
<1>1. PICK s \in TargetSlots(k), idx \in 0..entry_next_insert :
        /\ TakeEntry(idx)
        /\ index_list' = [index_list EXCEPT ![s] = idx + 1]
        /\ entries' = AppendEntry(entries, idx, NewEntry(k, d), tail_idx)
  BY DEF Insert
<1>2. /\ HitSlots(k) = {} /\ index_capacity' = index_capacity
      /\ ret' = [op |-> "set", ok |-> TRUE, flag |-> TRUE, data |-> NULL]
  BY DEF Insert
<1>3. /\ Sound(index_list, index_capacity, entries, entry_next_insert)
      /\ entry_capacity = EntryCap(index_capacity)
  BY DEF TableSound
<1>4. s \in 0..index_capacity - 1 /\ ~(index_list[s] > 0)
  BY <1>3, TargetFacts
<1>5. /\ idx \in Nat /\ idx < entry_next_insert'
      /\ entry_next_insert' \in 0..entry_capacity
      /\ \A t \in Slots : index_list[t] > 0 => index_list[t] - 1 # idx
  BY <1>1, TakeEntryFacts
<1>6. /\ index_capacity \in Nat /\ index_list \in [0..index_capacity - 1 -> Int]
      /\ entries \in [0..entry_capacity - 1 -> Entry]
      /\ entry_capacity \in Nat /\ tail_idx \in Int
  BY DEF TypeOK, Slots
<1>7. Stored(entries', entries, entry_capacity, idx, NewEntry(k, d))
  <2>1. idx \in 0..entry_capacity - 1
    BY <1>5, <1>6
  <2>2. NewEntry(k, d) \in Entry
    BY NewEntryFacts
  <2> QED BY <1>1, <1>6, <2>1, <2>2, AppendFacts
<1>8. LiveSlots' = LiveSlots \cup {s}
  BY <1>1, <1>2, <1>4, <1>5, <1>6 DEF LiveSlots, Slots, Live
<1>9. EntryAt(s)'.key = k /\ EntryAt(s)'.data = d
  <2>1. index_list'[s] - 1 = idx
    BY <1>1, <1>4, <1>5, <1>6
  <2> QED BY <1>7, <2>1, NewEntryFacts DEF Stored, EntryAt
<1>10. ASSUME NEW t \in LiveSlots
       PROVE  /\ t # s
              /\ EntryAt(t).key # k
              /\ EntryAt(t)'.key = EntryAt(t).key
              /\ EntryAt(t)'.data = EntryAt(t).data
  <2>1. t \in 0..index_capacity - 1 /\ index_list[t] > 0 /\ t # s
    BY <1>4 DEF LiveSlots, Slots, Live
  <2>2. index_list[t] - 1 \in (0..entry_capacity - 1) \ {idx}
    BY <1>3, <1>5, <2>1, SoundSlot DEF Slots
  <2>3. index_list'[t] = index_list[t]
    BY <1>1, <1>4, <1>6, <2>1
  <2>4. EntryAt(t).key # k
    BY <1>2, <1>3, <2>1, HitExact DEF Holds, Live, Slots
  <2> QED BY <1>7, <2>1, <2>2, <2>3, <2>4 DEF Stored, EntryAt
<1>11. Bindings' = (Bindings \ BoundTo(k)) \cup {<<k, d>>}
  <2>1. s \notin LiveSlots
    BY <1>10
  <2> QED BY <1>8, <1>9, <1>10, <2>1, BindingPut
<1>12. (BoundTo(k) = {}) = TRUE
  BY <1>2, HitIsBound
<1>13. D!Bound(k) = BoundTo(k)
  BY BoundIsDict
<1> QED BY <1>2, <1>11, <1>12, <1>13 DEF D!Set

(* A set that has room implements Dict's set, or the one that fails. *)
LEMMA StoreImplements ==
    ASSUME TypeOK, TableSound, entry_next_insert < entry_capacity,
           pc # "freed", pc' # "freed",
           NEW k \in Key, NEW d \in Data, StoreBinding(k, d)
    PROVE  D!Next
<1>1. CASE Overwrite(k, d)
  BY <1>1, OverwriteImplements DEF D!Next
<1>2. CASE InsertFails(k)
  <2>1. Bindings' = Bindings
    BY <1>2, BindingsKept DEF InsertFails, table
  <2> QED BY <1>2, <2>1 DEF InsertFails, D!SetFails, D!Next
<1>3. CASE Insert(k, d)
  BY <1>3, InsertImplements DEF D!Next
<1> QED BY <1>1, <1>2, <1>3 DEF StoreBinding

(* A deletion removes the one binding of its key. *)
LEMMA DeleteImplements ==
    ASSUME TypeOK, TableSound, pc # "freed", pc' # "freed",
           NEW k \in Key, NEW s \in HitSlots(k), DeleteAt(k, s)
    PROVE  D!Delete(k)
<1> DEFINE idx == index_list[s] - 1
           N == EntryCap(index_capacity)
           b == <<k, EntryAt(s).data>>
<1>1. /\ Sound(index_list, index_capacity, entries, entry_next_insert)
      /\ entry_capacity = N
  BY DEF TableSound
<1>2. /\ index_capacity \in Nat /\ index_list \in [0..index_capacity - 1 -> Int]
      /\ entries \in [0..N - 1 -> Entry] /\ N \in Nat
      /\ head_idx \in Int /\ tail_idx \in Int
  BY <1>1 DEF TypeOK, Slots
<1>3. /\ s \in LiveSlots /\ EntryAt(s).key = k
      /\ BoundTo(k) = {b}
      /\ \A t \in LiveSlots : EntryAt(t).key = k => t = s
  BY HitIsBound
<1>4. \A t \in LiveSlots : /\ t \in 0..index_capacity - 1 /\ index_list[t] > 0
                          /\ index_list[t] - 1 \in 0..N - 1
  BY <1>1, SoundSlot DEF LiveSlots, Slots, Live
<1>5. /\ index_list' = [index_list EXCEPT ![s] = HT_DELETED]
      /\ index_capacity' = index_capacity
      /\ Unlink(idx)
      /\ ret' = [op |-> "delete", ok |-> TRUE, flag |-> TRUE,
                 data |-> EntryAt(s).data]
  BY DEF DeleteAt, Bury, EntryAt
<1>6. SameContents(entries', entries, N)
  <2>1. idx \in 0..N - 1
    BY <1>3, <1>4
  <2> HIDE DEF idx, N
  <2> QED BY <1>2, <1>5, <2>1, UnlinkKeeps
<1>7. LiveSlots' = LiveSlots \ {s}
  BY <1>2, <1>3, <1>4, <1>5 DEF LiveSlots, Slots, Live, HT_DELETED
<1>8. \A t \in LiveSlots \ {s} : /\ EntryAt(t)'.key = EntryAt(t).key
                                /\ EntryAt(t)'.data = EntryAt(t).data
  BY <1>2, <1>4, <1>5, <1>6 DEF EntryAt, SameContents
<1>9. Bindings' = Bindings \ {b}
  <2>1. /\ Bindings = {<<EntryAt(t).key, EntryAt(t).data>> : t \in LiveSlots}
        /\ Bindings' = {<<EntryAt(t)'.key, EntryAt(t)'.data>> : t \in LiveSlots'}
    BY DEF Bindings
  <2>2. Bindings' = {<<EntryAt(t).key, EntryAt(t).data>> : t \in LiveSlots \ {s}}
    BY <1>7, <1>8, <2>1
  <2>3. \A t \in LiveSlots : <<EntryAt(t).key, EntryAt(t).data>> = b <=> t = s
    BY <1>3
  <2> QED BY <2>1, <2>2, <2>3
<1>10. b \in D!Bound(k)
  BY <1>3, BoundIsDict
<1>11. b[2] = EntryAt(s).data
  OBVIOUS
<1> HIDE DEF b
<1> QED BY <1>5, <1>9, <1>10, <1>11 DEF D!Delete

(* The table that a rehash built holds the bindings of the old one. *)
LEMMA InstallImplements ==
    ASSUME IndInv, InstallRehashed
    PROVE  Bindings' = Bindings
<1>1. /\ pc = "rehash" /\ pc' = "insert" /\ i = index_capacity
      /\ index_list' = new_index_list /\ index_capacity' = new_index_capacity
      /\ entries' = new_entries
  BY DEF InstallRehashed
<1>2. RehashSound /\ index_capacity \in Nat
  BY <1>1 DEF IndInv, TypeOK
<1>3. LiveBelow(i) = LiveSlots
  BY <1>1, <1>2 DEF LiveBelow, LiveSlots, Slots
<1>4. /\ LiveSlots' = NewLive
      /\ \A s : EntryAt(s)' = NewEntryAt(s)
  BY <1>1 DEF LiveSlots, Slots, Live, NewLive, EntryAt, NewEntryAt
<1>5. /\ Bindings = {<<EntryAt(s).key, EntryAt(s).data>> : s \in LiveSlots}
      /\ Bindings' = {<<NewEntryAt(s).key, NewEntryAt(s).data>> : s \in NewLive}
  BY <1>1, <1>4 DEF Bindings
<1>6. /\ \A s \in NewLive : \E t \in LiveSlots :
           NewEntryAt(s).key = EntryAt(t).key /\ NewEntryAt(s).data = EntryAt(t).data
      /\ \A t \in LiveSlots : \E s \in NewLive :
           NewEntryAt(s).key = EntryAt(t).key /\ NewEntryAt(s).data = EntryAt(t).data
  BY <1>2, <1>3 DEF RehashSound
<1> QED BY <1>5, <1>6

-----------------------------------------------------------------------------
(* Every step of the table is a step of Dict or changes nothing of it. *)
LEMMA StepImplements ==
    ASSUME IndInv, [Next]_vars
    PROVE  [D!Next]_(D!vars)
<1>0. TypeOK /\ TableSound
  BY DEF IndInv
<1>1. ASSUME NEW k \in Key, htable_get(k) PROVE D!Next
  <2>1. /\ pc = "idle" /\ pc' = "idle"
        /\ UNCHANGED <<index_list, index_capacity, entries>>
    BY <1>1 DEF htable_get, table
  <2>2. Bindings' = Bindings
    BY <2>1, BindingsKept
  <2>3. D!Get(k)
    <3>1. CASE /\ HitSlots(k) = {}
               /\ ret' = [op |-> "get", ok |-> FALSE, flag |-> FALSE, data |-> NULL]
      <4>1. D!Bound(k) = {}
        BY <1>0, <2>1, <3>1, HitIsBound, BoundIsDict
      <4> QED BY <2>2, <3>1, <4>1 DEF D!Get
    <3>2. ASSUME NEW s \in HitSlots(k),
                 ret' = [op |-> "get", ok |-> TRUE, flag |-> TRUE,
                         data |-> EntryAt(s).data]
          PROVE  D!Get(k)
      <4>1. <<k, EntryAt(s).data>> \in D!Bound(k)
        BY <1>0, <2>1, HitIsBound, BoundIsDict
      <4>2. <<k, EntryAt(s).data>>[2] = EntryAt(s).data
        OBVIOUS
      <4>3. \E b \in D!Bound(k) : b[2] = EntryAt(s).data
        BY <4>1, <4>2
      <4> QED BY <2>2, <3>2, <4>3 DEF D!Get
    <3> QED BY <1>1, <3>1, <3>2 DEF htable_get
  <2> QED BY <2>3 DEF D!Next
<1>2. ASSUME NEW k \in Key, htable_delete(k) PROVE D!Next
  <2>1. pc = "idle" /\ pc' = "idle"
    BY <1>2 DEF htable_delete
  <2>2. CASE DeleteFails
    <3>1. Bindings' = Bindings
      BY <2>1, <2>2, BindingsKept DEF DeleteFails, table
    <3> QED BY <2>2, <3>1 DEF DeleteFails, D!DeleteFails, D!Next
  <2>3. ASSUME NEW s \in HitSlots(k), DeleteAt(k, s) PROVE D!Next
    <3>1. D!Delete(k)
      BY <1>0, <2>1, <2>3, DeleteImplements
    <3> QED BY <3>1 DEF D!Next
  <2> QED BY <1>2, <2>2, <2>3 DEF htable_delete
<1>3. ASSUME NEW k \in Key, NEW d \in Data, htable_set(k, d) PROVE D!Next
  <2>1. pc = "idle" /\ pc' = "idle" /\ ~MustGrow /\ StoreBinding(k, d)
    BY <1>3 DEF htable_set
  <2>2. entry_next_insert < entry_capacity
    BY <1>0, <2>1 DEF MustGrow, TypeOK
  <2> QED BY <1>0, <2>1, <2>2, StoreImplements
<1>4. ASSUME NEW k \in Key, NEW d \in Data, htable_grow(k, d)
      PROVE  UNCHANGED <<Bindings, ret>>
  <2>1. /\ pc = "idle" /\ pc' = "rehash" /\ ret' = ret
        /\ UNCHANGED <<index_list, index_capacity, entries>>
    BY <1>4 DEF htable_grow, table
  <2> QED BY <2>1, BindingsKept
<1>5. CASE GrowFails
  <2>1. /\ pc = "idle" /\ pc' = "idle"
        /\ ret' = [op |-> "set", ok |-> FALSE, flag |-> FALSE, data |-> NULL]
        /\ UNCHANGED <<index_list, index_capacity, entries>>
    BY <1>5 DEF GrowFails, table
  <2>2. Bindings' = Bindings
    BY <2>1, BindingsKept
  <2> QED BY <2>1, <2>2 DEF D!SetFails, D!Next
<1>6. CASE htable_rehash
  <2>1. /\ pc = "rehash" /\ pc' = "rehash" /\ ret' = ret
        /\ UNCHANGED <<index_list, index_capacity, entries>>
    BY <1>6 DEF htable_rehash, table
  <2> QED BY <2>1, BindingsKept DEF D!vars
<1>7. CASE InstallRehashed
  BY <1>7, InstallImplements DEF InstallRehashed, D!vars
<1>8. CASE SetAfterGrow
  <2>1. pc = "insert" /\ pc' = "idle" /\ StoreBinding(call[1], call[2])
    BY <1>8 DEF SetAfterGrow
  <2>2. /\ entry_next_insert < entry_capacity
        /\ call[1] \in Key /\ call[2] \in Data
    BY <2>1 DEF IndInv, TypeOK
  <2> QED BY <1>0, <2>1, <2>2, StoreImplements
<1>9. CASE htable_free
  <2>1. Bindings' = {} /\ ret' = ret
    BY <1>9 DEF htable_free, Bindings
  <2> QED BY <2>1 DEF D!Free, D!Next
<1>10. CASE htable_create
  <2>1. /\ pc = "freed" /\ pc' = "idle" /\ ret' = ret
        /\ index_list' = EmptyIndex(InitialCap) /\ index_capacity' = InitialCap
    BY <1>10 DEF htable_create
  <2>2. LiveSlots' = {}
    BY <2>1, FreshTable DEF LiveSlots, Slots, Live
  <2> QED BY <2>1, <2>2 DEF Bindings, D!vars
<1>11. CASE UNCHANGED vars
  <2>1. UNCHANGED <<index_list, index_capacity, entries, pc, ret>>
    BY <1>11 DEF vars, table
  <2> QED BY <2>1, BindingsKept DEF D!vars
<1>12. CASE UNCHANGED <<Bindings, ret>>
  BY <1>12 DEF D!vars
<1> QED BY <1>1, <1>2, <1>3, <1>4, <1>5, <1>6, <1>7, <1>8, <1>9, <1>10, <1>11,
           <1>12 DEF Next, D!vars

(* The table is a finite map: whatever the hash function and the history   *)
(* of calls, each of them does to the bindings, and returns to its caller, *)
(* what Dict says, and the growth of the table changes no binding.         *)
THEOREM TableIsDict == Spec => RefinesDict
<1>1. Init => D!Init
  <2> SUFFICES ASSUME Init PROVE D!Init
    OBVIOUS
  <2>1. LiveSlots = {} /\ pc = "idle"
    BY FreshTable DEF Init, LiveSlots, Slots, Live
  <2>2. Bindings = {}
    BY <2>1 DEF Bindings
  <2> QED BY <2>2 DEF Init, D!Init
<1>2. IndInv /\ [Next]_vars => [D!Next]_(D!vars)
  BY StepImplements
<1> QED BY <1>1, <1>2, Invariance, PTL DEF Spec, RefinesDict, D!Spec

-----------------------------------------------------------------------------
(* The iteration list.                                                     *)

(* p lists the entries of live in the order in which es links them.       *)
Threads(p, L, es, head, tail, live) ==
    /\ L \in Nat /\ p \in [1..L -> live]
    /\ \A e \in live : \E n \in 1..L : p[n] = e
    /\ \A m, n \in 1..L : p[m] = p[n] => m = n
    /\ head = IF L = 0 THEN NONE ELSE p[1]
    /\ tail = IF L = 0 THEN NONE ELSE p[L]
    /\ \A n \in 1..L :
         /\ es[p[n]].prev_idx = IF n = 1 THEN NONE ELSE p[n - 1]
         /\ es[p[n]].next_idx = IF n = L THEN NONE ELSE p[n + 1]

(* The entry at each position of the list es that starts at head. *)
Follow(es, head, cap) ==
    CHOOSE f : f = [n \in 0..cap |->
                      IF n = 0 THEN head
                      ELSE IF f[n - 1] = NONE THEN NONE
                      ELSE es[f[n - 1]].next_idx]

(* That is what htable_free and the iterators walk along. *)
LEMMA WalkFollows ==
    /\ Walk = Follow(entries, head_idx, entry_capacity)
    /\ Walk' = Follow(entries', head_idx', entry_capacity')
    BY DEF Walk, Follow

(* The entries of p one after the other, and then no more. *)
Steps(p, L, cap) == [n \in 0..cap |-> IF n < L THEN p[n + 1] ELSE NONE]

(* Following the list visits its entries in order and then ends. *)
LEMMA FollowIs ==
    ASSUME NEW p, NEW L, NEW es, NEW head, NEW tail, NEW live,
           Threads(p, L, es, head, tail, live),
           live \subseteq Nat, NEW cap \in Nat, L <= cap
    PROVE  Follow(es, head, cap) = Steps(p, L, cap)
<1> DEFINE g == [n \in 0..cap |-> IF n < L THEN p[n + 1] ELSE NONE]
           F(f) == [n \in 0..cap |->
                      IF n = 0 THEN head
                      ELSE IF f[n - 1] = NONE THEN NONE
                      ELSE es[f[n - 1]].next_idx]
<1>1. Follow(es, head, cap) = CHOOSE f : f = F(f)
  BY DEF Follow
<1>2. /\ L \in Nat /\ DOMAIN p = 1..L
      /\ \A n \in 1..L : p[n] \in Nat
      /\ head = IF L = 0 THEN NONE ELSE p[1]
      /\ \A n \in 1..L :
           es[p[n]].next_idx = IF n = L THEN NONE ELSE p[n + 1]
  BY DEF Threads
<1>3. ASSUME NEW n \in 0..cap
      PROVE  g[n] = IF n = 0 THEN head
                    ELSE IF g[n - 1] = NONE THEN NONE
                    ELSE es[g[n - 1]].next_idx
  <2>1. CASE n = 0
    BY <1>2, <2>1
  <2>2. CASE n > 0 /\ n - 1 < L
    <3>1. n - 1 \in 0..cap /\ n \in 1..L
      BY <1>2, <2>2
    <3>2. g[n - 1] = p[n] /\ p[n] # NONE
      BY <1>2, <2>2, <3>1 DEF NONE
    <3>3. es[p[n]].next_idx = IF n = L THEN NONE ELSE p[n + 1]
      BY <1>2, <3>1
    <3>4. g[n] = IF n < L THEN p[n + 1] ELSE NONE
      OBVIOUS
    <3> HIDE DEF g
    <3> QED BY <1>2, <2>2, <3>1, <3>2, <3>3, <3>4
  <2>3. CASE n > 0 /\ ~(n - 1 < L)
    <3>1. n - 1 \in 0..cap /\ ~(n < L)
      BY <1>2, <2>3
    <3>2. g[n - 1] = NONE /\ g[n] = NONE
      BY <2>3, <3>1
    <3> HIDE DEF g
    <3> QED BY <2>3, <3>2
  <2> QED BY <1>2, <2>1, <2>2, <2>3
<1>4. g = F(g)
  <2>1. DOMAIN g = 0..cap /\ g = [n \in 0..cap |-> g[n]]
    OBVIOUS
  <2> HIDE DEF g
  <2> QED BY <1>3, <2>1
<1>5. ASSUME NEW f, f = F(f)
      PROVE  f = g
  <2> DEFINE T == {n \in 0..cap : f[n] # g[n]}
  <2>1. /\ f = [n \in 0..cap |-> f[n]]
        /\ g = [n \in 0..cap |-> g[n]]
    BY <1>5
  <2>2. ASSUME NEW n \in 0..cap
        PROVE  f[n] = IF n = 0 THEN head
                      ELSE IF f[n - 1] = NONE THEN NONE
                      ELSE es[f[n - 1]].next_idx
    <3>1. F(f)[n] = IF n = 0 THEN head
                    ELSE IF f[n - 1] = NONE THEN NONE
                    ELSE es[f[n - 1]].next_idx
      OBVIOUS
    <3> QED BY <1>5, <3>1
  <2> HIDE DEF g, F
  <2>3. CASE T # {}
    <3>1. PICK m \in T : \A n \in T : m <= n
      <4>1. T \subseteq Nat
        OBVIOUS
      <4> HIDE DEF T
      <4> QED BY <2>3, <4>1, LeastNat
    <3>2. m \in 0..cap /\ f[m] # g[m]
      OBVIOUS
    <3>3. m # 0
      BY <1>3, <2>2, <3>2
    <3>4. m - 1 \in 0..cap /\ ~(m <= m - 1)
      BY <3>2, <3>3
    <3>5. f[m - 1] = g[m - 1]
      BY <3>1, <3>4
    <3> QED BY <1>3, <2>2, <3>2, <3>3, <3>5
  <2>4. CASE T = {}
    <3>1. \A n \in 0..cap : f[n] = g[n]
      BY <2>4
    <3> QED BY <2>1, <3>1
  <2> QED BY <2>3, <2>4
<1> HIDE DEF g, F
<1>6. Follow(es, head, cap) = g
  BY <1>1, <1>4, <1>5
<1> QED BY <1>6 DEF g, Steps

(* es2 is es with idx linked after tail. *)
LinkedAfter(es2, es, N, idx, tail) ==
    /\ es2[idx].prev_idx = tail /\ es2[idx].next_idx = NONE
    /\ tail \in 0..N - 1 => /\ es2[tail].prev_idx = es[tail].prev_idx
                            /\ es2[tail].next_idx = idx
    /\ \A j \in (0..N - 1) \ {idx, tail} : es2[j] = es[j]

(* So are the links after AppendEntry. *)
LEMMA AppendLinks ==
    ASSUME NEW N \in Nat, NEW es \in [0..N - 1 -> Entry], NEW idx \in 0..N - 1,
           NEW e \in Entry, NEW tail \in Int, tail # idx
    PROVE  LinkedAfter(AppendEntry(es, idx, e, tail), es, N, idx, tail)
<1> DEFINE e1 == [e EXCEPT !.prev_idx = tail]
           e2 == [e1 EXCEPT !.next_idx = NONE]
           linked == [es EXCEPT ![idx] = e2]
           more == [linked EXCEPT ![tail].next_idx = idx]
<1>1. e1 \in Entry /\ e1.prev_idx = tail
  BY DEF Entry
<1>2. e2 = [e EXCEPT !.prev_idx = tail, !.next_idx = NONE]
  BY DEF Entry
<1> HIDE DEF e1
<1>3. e2 \in Entry /\ e2.prev_idx = tail /\ e2.next_idx = NONE
  <2>1. NONE \in Int
    BY DEF NONE
  <2>2. e2 \in Entry
    BY <1>1, <2>1 DEF Entry
  <2>3. e2.prev_idx = tail /\ e2.next_idx = NONE
    BY <1>1 DEF Entry
  <2> QED BY <2>2, <2>3
<1>4. AppendEntry(es, idx, e, tail) = IF tail = NONE THEN linked ELSE more
  BY <1>2, Zenon DEF AppendEntry
<1> HIDE DEF e2
<1>5. /\ linked \in [0..N - 1 -> Entry] /\ linked[idx] = e2
      /\ \A j \in (0..N - 1) \ {idx} : linked[j] = es[j]
  BY <1>3
<1> HIDE DEF linked
<1>6. /\ \A j \in (0..N - 1) \ {tail} : more[j] = linked[j]
      /\ tail \in 0..N - 1 => /\ more[tail].prev_idx = linked[tail].prev_idx
                              /\ more[tail].next_idx = idx
  BY <1>5 DEF Entry
<1> HIDE DEF more
<1>7. tail = NONE => tail \notin 0..N - 1
  BY DEF NONE
<1> QED BY <1>3, <1>4, <1>5, <1>6, <1>7 DEF LinkedAfter

(* p with one more entry at its end. *)
Longer(p, L, idx) == [n \in 1..L + 1 |-> IF n = L + 1 THEN idx ELSE p[n]]

(* AppendEntry puts an entry at the end of the list. *)
LEMMA ThreadsAppend ==
    ASSUME NEW N \in Nat, NEW es \in [0..N - 1 -> Entry], NEW idx \in 0..N - 1,
           NEW e \in Entry, NEW live \in SUBSET (0..N - 1), idx \notin live,
           NEW p, NEW L, NEW head, NEW tail, Threads(p, L, es, head, tail, live),
           NEW es2, es2 = AppendEntry(es, idx, e, tail)
    PROVE  Threads(Longer(p, L, idx), L + 1, es2,
                   IF tail = NONE THEN idx ELSE head, idx, live \cup {idx})
<1>1. /\ L \in Nat /\ p \in [1..L -> live]
      /\ \A x \in live : \E n \in 1..L : p[n] = x
      /\ \A m, n \in 1..L : p[m] = p[n] => m = n
      /\ head = IF L = 0 THEN NONE ELSE p[1]
      /\ tail = IF L = 0 THEN NONE ELSE p[L]
      /\ \A n \in 1..L :
           /\ es[p[n]].prev_idx = IF n = 1 THEN NONE ELSE p[n - 1]
           /\ es[p[n]].next_idx = IF n = L THEN NONE ELSE p[n + 1]
  BY DEF Threads
<1>2. \A n \in 1..L : p[n] \in 0..N - 1 /\ p[n] \in live /\ p[n] # idx
  <2>1. \A n \in 1..L : p[n] \in live
    BY <1>1
  <2>2. \A x \in live : x \in 0..N - 1 /\ x # idx
    OBVIOUS
  <2> QED BY <2>1, <2>2
<1>3. L > 0 => L \in 1..L
  BY <1>1
<1>4. tail \in Int /\ tail # idx
  BY <1>1, <1>2, <1>3 DEF NONE
<1>5. /\ es2[idx].prev_idx = tail /\ es2[idx].next_idx = NONE
      /\ tail \in 0..N - 1 => /\ es2[tail].prev_idx = es[tail].prev_idx
                              /\ es2[tail].next_idx = idx
      /\ \A j \in (0..N - 1) \ {idx, tail} : es2[j] = es[j]
  <2>1. LinkedAfter(AppendEntry(es, idx, e, tail), es, N, idx, tail)
    BY <1>4, AppendLinks
  <2> QED BY <2>1 DEF LinkedAfter
<1> DEFINE q == [n \in 1..L + 1 |-> IF n = L + 1 THEN idx ELSE p[n]]
<1>6. /\ L + 1 \in Nat /\ L + 1 # 0 /\ L + 1 \in 1..L + 1
      /\ q \in [1..L + 1 -> live \cup {idx}]
      /\ q[L + 1] = idx /\ \A n \in 1..L : n \in 1..L + 1 /\ q[n] = p[n]
      /\ \A n \in 1..L + 1 : n = L + 1 \/ n \in 1..L
  BY <1>1
<1>7. q = Longer(p, L, idx)
  BY DEF Longer
<1> HIDE DEF q
<1>8. \A x \in live \cup {idx} : \E n \in 1..L + 1 : q[n] = x
  BY <1>1, <1>6
<1>9. \A m, n \in 1..L + 1 : q[m] = q[n] => m = n
  <2> SUFFICES ASSUME NEW m \in 1..L + 1, NEW n \in 1..L + 1, q[m] = q[n]
               PROVE  m = n
    OBVIOUS
  <2>1. CASE m \in 1..L /\ n \in 1..L
    <3>1. p[m] = p[n]
      BY <1>6, <2>1
    <3> QED BY <1>1, <2>1, <3>1
  <2>2. CASE m = L + 1 \/ n = L + 1
    BY <1>2, <1>6, <2>2
  <2> QED BY <1>6, <2>1, <2>2
<1>10. (IF tail = NONE THEN idx ELSE head) = q[1]
  <2>1. CASE L = 0
    BY <1>1, <1>6, <2>1
  <2>2. CASE L > 0
    <3>1. tail # NONE /\ 1 \in 1..L
      BY <1>1, <1>2, <1>3, <2>2 DEF NONE
    <3> QED BY <1>1, <1>6, <2>2, <3>1
  <2> QED BY <1>1, <2>1, <2>2
<1>11. ASSUME NEW n \in 1..L + 1
       PROVE  /\ es2[q[n]].prev_idx = IF n = 1 THEN NONE ELSE q[n - 1]
              /\ es2[q[n]].next_idx = IF n = L + 1 THEN NONE ELSE q[n + 1]
  <2>1. CASE n = L + 1
    <3>1. tail = IF n = 1 THEN NONE ELSE q[n - 1]
      BY <1>1, <1>3, <1>6, <2>1
    <3> QED BY <1>5, <1>6, <2>1, <3>1
  <2>2. CASE n \in 1..L
    <3>1. /\ es[p[n]].prev_idx = IF n = 1 THEN NONE ELSE p[n - 1]
          /\ es[p[n]].next_idx = IF n = L THEN NONE ELSE p[n + 1]
      BY <1>1, <2>2
    <3>2. n # 1 => n - 1 \in 1..L
      BY <1>1, <2>2
    <3>3. (IF n = 1 THEN NONE ELSE p[n - 1]) = (IF n = 1 THEN NONE ELSE q[n - 1])
      BY <1>6, <3>2
    <3>4. CASE n = L
      <4>1. tail = p[n] /\ tail \in 0..N - 1 /\ n + 1 = L + 1 /\ n # L + 1
        BY <1>1, <1>2, <2>2, <3>4
      <4>2. es2[p[n]].prev_idx = es[p[n]].prev_idx /\ es2[p[n]].next_idx = idx
        BY <1>5, <4>1
      <4> QED BY <1>6, <2>2, <3>1, <3>3, <4>1, <4>2
    <3>5. CASE n # L
      <4>1. L \in 1..L /\ n + 1 \in 1..L /\ n # L + 1 /\ tail = p[L]
        BY <1>1, <2>2, <3>5
      <4>2. p[n] # tail
        BY <1>1, <2>2, <3>5, <4>1
      <4>3. es2[p[n]] = es[p[n]]
        BY <1>2, <1>5, <2>2, <4>2
      <4> QED BY <1>6, <2>2, <3>1, <3>3, <3>5, <4>1, <4>3
    <3> QED BY <3>4, <3>5
  <2> QED BY <1>6, <2>1, <2>2
<1>12. Threads(q, L + 1, es2, IF tail = NONE THEN idx ELSE head, idx, live \cup {idx})
  BY <1>6, <1>8, <1>9, <1>10, <1>11 DEF Threads
<1> QED BY <1>7, <1>12

(* The links after Unlink: the neighbours of idx point at each other. *)
LEMMA UnlinkLinks ==
    ASSUME NEW N \in Nat, entries \in [0..N - 1 -> Entry], NEW idx \in 0..N - 1,
           Unlink(idx), NEW b, NEW f,
           b = entries[idx].prev_idx, f = entries[idx].next_idx,
           b \in 0..N - 1 \/ b = NONE, f \in 0..N - 1 \/ f = NONE,
           b = f => b = NONE
    PROVE  /\ b \in 0..N - 1 => /\ entries'[b].prev_idx = entries[b].prev_idx
                                /\ entries'[b].next_idx = f
           /\ f \in 0..N - 1 => /\ entries'[f].next_idx = entries[f].next_idx
                                /\ entries'[f].prev_idx = b
           /\ \A j \in (0..N - 1) \ {b, f} : entries'[j] = entries[j]
           /\ head_idx' = IF idx = head_idx THEN f ELSE head_idx
           /\ tail_idx' = IF idx = tail_idx THEN b ELSE tail_idx
<1> DEFINE back == [entries EXCEPT ![f].prev_idx = b]
           mid == IF f = NONE THEN entries ELSE back
           both == [mid EXCEPT ![b].next_idx = f]
<1>1. /\ entries' = IF b = NONE THEN mid ELSE both
      /\ head_idx' = IF idx = head_idx THEN f ELSE head_idx
      /\ tail_idx' = IF idx = tail_idx THEN b ELSE tail_idx
  BY Zenon DEF Unlink
<1>2. b \in Int /\ f \in Int /\ NONE \notin 0..N - 1
  BY DEF NONE
<1>3. /\ back \in [0..N - 1 -> Entry]
      /\ \A j \in (0..N - 1) \ {f} : back[j] = entries[j]
      /\ f \in 0..N - 1 => /\ back[f].next_idx = entries[f].next_idx
                           /\ back[f].prev_idx = b
  BY <1>2, ZenonT(30) DEF Entry
<1> HIDE DEF back
<1>4. /\ mid \in [0..N - 1 -> Entry]
      /\ \A j \in (0..N - 1) \ {f} : mid[j] = entries[j]
      /\ f \in 0..N - 1 => /\ mid[f].next_idx = entries[f].next_idx
                           /\ mid[f].prev_idx = b
  BY <1>2, <1>3
<1> HIDE DEF mid
<1>5. /\ \A j \in (0..N - 1) \ {b} : both[j] = mid[j]
      /\ b \in 0..N - 1 => /\ both[b].prev_idx = mid[b].prev_idx
                           /\ both[b].next_idx = f
  BY <1>2, <1>4 DEF Entry
<1> HIDE DEF both
<1>6. b \in 0..N - 1 => /\ entries'[b].prev_idx = entries[b].prev_idx
                        /\ entries'[b].next_idx = f
  BY <1>1, <1>2, <1>4, <1>5
<1>7. f \in 0..N - 1 => /\ entries'[f].next_idx = entries[f].next_idx
                        /\ entries'[f].prev_idx = b
  BY <1>1, <1>2, <1>4, <1>5
<1>8. \A j \in (0..N - 1) \ {b, f} : entries'[j] = entries[j]
  BY <1>1, <1>4, <1>5
<1> QED BY <1>1, <1>6, <1>7, <1>8

(* p without its j-th entry. *)
Shorter(p, L, j) == [n \in 1..L - 1 |-> IF n < j THEN p[n] ELSE p[n + 1]]

(* Unlink takes an entry out of the list. *)
LEMMA ThreadsRemove ==
    ASSUME NEW N \in Nat, entries \in [0..N - 1 -> Entry],
           NEW live \in SUBSET (0..N - 1), NEW p, NEW L,
           Threads(p, L, entries, head_idx, tail_idx, live),
           NEW j \in 1..L, NEW idx, idx = p[j], Unlink(idx)
    PROVE  Threads(Shorter(p, L, j), L - 1, entries', head_idx', tail_idx',
                   live \ {idx})
<1>1. /\ L \in Nat /\ p \in [1..L -> live]
      /\ \A x \in live : \E n \in 1..L : p[n] = x
      /\ \A m, n \in 1..L : p[m] = p[n] => m = n
      /\ head_idx = IF L = 0 THEN NONE ELSE p[1]
      /\ tail_idx = IF L = 0 THEN NONE ELSE p[L]
      /\ \A n \in 1..L :
           /\ entries[p[n]].prev_idx = IF n = 1 THEN NONE ELSE p[n - 1]
           /\ entries[p[n]].next_idx = IF n = L THEN NONE ELSE p[n + 1]
  BY DEF Threads
<1>2. L >= 1 /\ L - 1 \in Nat /\ 1 \in 1..L /\ L \in 1..L
  BY <1>1
<1>3. \A n \in 1..L : p[n] \in 0..N - 1 /\ p[n] \in live
  BY <1>1
<1>4. PICK b : b = entries[idx].prev_idx
  OBVIOUS
<1>5. PICK f : f = entries[idx].next_idx
  OBVIOUS
<1>6. /\ b = (IF j = 1 THEN NONE ELSE p[j - 1])
      /\ f = (IF j = L THEN NONE ELSE p[j + 1])
  BY <1>1, <1>4, <1>5
<1>7. /\ j # 1 => j - 1 \in 1..L /\ b = p[j - 1] /\ b \in 0..N - 1
      /\ j # L => j + 1 \in 1..L /\ f = p[j + 1] /\ f \in 0..N - 1
      /\ j = 1 => b = NONE
      /\ j = L => f = NONE
  <2>1. j # 1 => j - 1 \in 1..L
    BY <1>2
  <2>2. j # L => j + 1 \in 1..L
    BY <1>1
  <2> QED BY <1>3, <1>6, <2>1, <2>2
<1>8. b = f => b = NONE
  <2>1. j # 1 /\ j # L => b # f
    <3>1. j - 1 # j + 1
      OBVIOUS
    <3> QED BY <1>1, <1>7, <3>1
  <2>2. NONE \notin 0..N - 1
    BY DEF NONE
  <2> QED BY <1>7, <2>1, <2>2
<1>9. idx \in 0..N - 1 /\ idx \in live
  BY <1>3
<1>10. /\ b \in 0..N - 1 => /\ entries'[b].prev_idx = entries[b].prev_idx
                            /\ entries'[b].next_idx = f
       /\ f \in 0..N - 1 => /\ entries'[f].next_idx = entries[f].next_idx
                            /\ entries'[f].prev_idx = b
       /\ \A x \in (0..N - 1) \ {b, f} : entries'[x] = entries[x]
       /\ head_idx' = IF idx = head_idx THEN f ELSE head_idx
       /\ tail_idx' = IF idx = tail_idx THEN b ELSE tail_idx
  BY <1>4, <1>5, <1>7, <1>8, <1>9, UnlinkLinks, SMTT(30)
<1> DEFINE q == [n \in 1..L - 1 |-> IF n < j THEN p[n] ELSE p[n + 1]]
<1>11. q = Shorter(p, L, j)
  BY DEF Shorter
<1>12. \A n \in 1..L - 1 : /\ n \in 1..L /\ n + 1 \in 1..L
                           /\ q[n] = IF n < j THEN p[n] ELSE p[n + 1]
  BY <1>1
<1>13. q \in [1..L - 1 -> live \ {idx}]
  <2>1. ASSUME NEW n \in 1..L - 1 PROVE q[n] \in live /\ q[n] # idx
    <3>1. PICK m \in 1..L : q[n] = p[m] /\ m # j
      BY <1>12
    <3>2. p[m] # p[j]
      BY <1>1, <3>1
    <3> QED BY <1>3, <3>1, <3>2
  <2> QED BY <2>1
<1> HIDE DEF q
<1>14. \A m, n \in 1..L - 1 : q[m] = q[n] => m = n
  <2> SUFFICES ASSUME NEW m \in 1..L - 1, NEW n \in 1..L - 1, q[m] = q[n]
               PROVE  m = n
    OBVIOUS
  <2>1. PICK m2 \in 1..L : q[m] = p[m2] /\ m2 = IF m < j THEN m ELSE m + 1
    BY <1>12
  <2>2. PICK n2 \in 1..L : q[n] = p[n2] /\ n2 = IF n < j THEN n ELSE n + 1
    BY <1>12
  <2>3. m2 = n2
    <3>1. p[m2] = p[n2]
      BY <2>1, <2>2
    <3> QED BY <1>1, <3>1
  <2> QED BY <2>1, <2>2, <2>3
<1>15. \A x \in live \ {idx} : \E n \in 1..L - 1 : q[n] = x
  <2> SUFFICES ASSUME NEW x \in live, x # idx
               PROVE  \E n \in 1..L - 1 : q[n] = x
    OBVIOUS
  <2>1. PICK n \in 1..L : p[n] = x
    BY <1>1
  <2>2. n # j
    BY <2>1
  <2>3. CASE n < j
    <3>1. n \in 1..L - 1
      BY <1>1, <2>3
    <3> QED BY <1>12, <2>1, <2>3, <3>1
  <2>4. CASE n > j
    <3>1. n - 1 \in 1..L - 1 /\ ~(n - 1 < j) /\ n - 1 + 1 = n
      BY <1>1, <2>4
    <3> QED BY <1>12, <2>1, <3>1
  <2> QED BY <2>2, <2>3, <2>4
<1>16. head_idx' = IF L - 1 = 0 THEN NONE ELSE q[1]
  <2>1. CASE j = 1
    <3>1. head_idx' = f
      BY <1>1, <1>2, <1>10, <2>1
    <3>2. L # 1 => 1 \in 1..L - 1 /\ ~(1 < j)
      BY <1>2, <2>1
    <3> QED BY <1>2, <1>6, <1>12, <2>1, <3>1, <3>2
  <2>2. CASE j # 1
    <3>1. idx # head_idx
      BY <1>1, <1>2, <2>2
    <3>2. 1 \in 1..L - 1 /\ 1 < j /\ L # 1 /\ L # 0 /\ L - 1 # 0
      BY <1>1, <2>2
    <3> QED BY <1>1, <1>10, <1>12, <3>1, <3>2
  <2> QED BY <2>1, <2>2
<1>17. tail_idx' = IF L - 1 = 0 THEN NONE ELSE q[L - 1]
  <2>1. CASE j = L
    <3>1. tail_idx' = b
      BY <1>1, <1>2, <1>10, <2>1
    <3>2. L # 1 => L - 1 \in 1..L - 1 /\ L - 1 < j
      BY <1>2, <2>1
    <3> QED BY <1>2, <1>6, <1>12, <2>1, <3>1, <3>2
  <2>2. CASE j # L
    <3>1. idx # tail_idx
      BY <1>1, <1>2, <2>2
    <3>2. L - 1 \in 1..L - 1 /\ ~(L - 1 < j) /\ L # 0 /\ L - 1 # 0 /\ L - 1 + 1 = L
      BY <1>1, <2>2
    <3> QED BY <1>1, <1>10, <1>12, <3>1, <3>2
  <2> QED BY <2>1, <2>2
<1>18. ASSUME NEW n \in 1..L - 1
       PROVE  entries'[q[n]].prev_idx = IF n = 1 THEN NONE ELSE q[n - 1]
  <2>0. \A m \in 1..L : m # 1 => m - 1 \in 1..L
    BY <1>1
  <2>1. CASE n < j
    <3>1. /\ q[n] = p[n] /\ n \in 1..L /\ p[n] \in 0..N - 1
          /\ entries[p[n]].prev_idx = IF n = 1 THEN NONE ELSE p[n - 1]
      BY <1>1, <1>3, <1>12, <2>1
    <3>2. n # 1 => n - 1 \in 1..L - 1 /\ n - 1 < j
      BY <1>1, <2>1
    <3>3. n # 1 => q[n - 1] = p[n - 1]
      BY <1>12, <3>2
    <3>4. p[n] # f
      <4>1. j # L => n # j + 1
        BY <2>1
      <4>2. NONE \notin 0..N - 1
        BY DEF NONE
      <4> QED BY <1>1, <1>7, <3>1, <4>1, <4>2
    <3>5. entries'[p[n]].prev_idx = entries[p[n]].prev_idx
      BY <1>10, <3>1, <3>4
    <3> QED BY <3>1, <3>3, <3>5
  <2>2. CASE ~(n < j)
    <3>1. q[n] = p[n + 1] /\ n + 1 \in 1..L /\ p[n + 1] \in 0..N - 1 /\ n + 1 # 1
      BY <1>3, <1>12, <2>2
    <3>2. CASE n = j
      <4>1. j # L /\ q[n] = f /\ f \in 0..N - 1
        BY <1>1, <1>7, <3>1, <3>2
      <4>2. entries'[q[n]].prev_idx = b
        BY <1>10, <4>1
      <4>3. n # 1 => n - 1 \in 1..L - 1 /\ n - 1 < j
        BY <1>1, <3>2
      <4>4. n # 1 => q[n - 1] = p[n - 1]
        BY <1>12, <4>3
      <4> QED BY <1>6, <3>2, <4>2, <4>4
    <3>3. CASE n # j
      <4>1. n - 1 \in 1..L - 1 /\ ~(n - 1 < j) /\ n - 1 + 1 = n /\ n # 1 /\ n + 1 - 1 = n
        BY <1>1, <2>2, <3>3
      <4>2. q[n - 1] = p[n]
        BY <1>12, <4>1
      <4>3. entries[p[n + 1]].prev_idx = p[n]
        BY <1>1, <3>1, <4>1
      <4>4. p[n + 1] # f
        <5>1. j # L => n + 1 # j + 1
          BY <3>3
        <5>2. NONE \notin 0..N - 1
          BY DEF NONE
        <5> QED BY <1>1, <1>7, <3>1, <5>1, <5>2
      <4>5. entries'[p[n + 1]].prev_idx = entries[p[n + 1]].prev_idx
        BY <1>10, <3>1, <4>4
      <4> QED BY <3>1, <4>1, <4>2, <4>3, <4>5
    <3> QED BY <3>2, <3>3
  <2> QED BY <2>1, <2>2
<1>19. ASSUME NEW n \in 1..L - 1
       PROVE  entries'[q[n]].next_idx = IF n = L - 1 THEN NONE ELSE q[n + 1]
  <2>1. CASE n < j
    <3>0. n \in 1..L /\ n + 1 \in 1..L /\ n # L
      BY <1>1, <2>1
    <3>1. /\ q[n] = p[n] /\ n \in 1..L /\ p[n] \in 0..N - 1 /\ n # L
          /\ n + 1 \in 1..L
      BY <1>3, <1>12, <2>1, <3>0
    <3>2. entries[p[n]].next_idx = p[n + 1]
      BY <1>1, <3>1
    <3>3. CASE n + 1 = j
      <4>1. j # 1 /\ n = j - 1 /\ b = p[n] /\ b \in 0..N - 1
        BY <1>7, <3>1, <3>3
      <4>2. entries'[q[n]].next_idx = f
        BY <1>10, <3>1, <4>1
      <4>3. n # L - 1 => /\ n + 1 \in 1..L - 1 /\ ~(n + 1 < j) /\ j # L
                         /\ n + 1 + 1 = j + 1
        BY <1>1, <3>3
      <4>4. n # L - 1 => q[n + 1] = f
        BY <1>6, <1>12, <4>3
      <4>5. n = L - 1 => j = L
        BY <1>1, <3>3
      <4> QED BY <1>6, <4>2, <4>4, <4>5
    <3>4. CASE n + 1 # j
      <4>1. n + 1 \in 1..L - 1 /\ n + 1 < j /\ n # L - 1
        BY <1>1, <2>1, <3>4
      <4>2. q[n + 1] = p[n + 1]
        BY <1>12, <4>1
      <4>3. p[n] # b
        <5>1. j # 1 => n # j - 1
          BY <3>4
        <5>2. NONE \notin 0..N - 1
          BY DEF NONE
        <5> QED BY <1>1, <1>7, <3>1, <5>1, <5>2
      <4>4. entries'[p[n]].next_idx = entries[p[n]].next_idx
        BY <1>10, <3>1, <4>3
      <4> QED BY <3>1, <3>2, <4>1, <4>2, <4>4
    <3> QED BY <3>3, <3>4
  <2>2. CASE ~(n < j)
    <3>1. q[n] = p[n + 1] /\ n + 1 \in 1..L /\ p[n + 1] \in 0..N - 1
      BY <1>3, <1>12, <2>2
    <3>2. /\ n = L - 1 => n + 1 = L
          /\ n # L - 1 => n + 1 \in 1..L - 1 /\ ~(n + 1 < j) /\ n + 1 # L
      BY <1>1, <2>2
    <3>3. n # L - 1 => q[n + 1] = p[n + 1 + 1]
      BY <1>12, <3>2
    <3>4. entries[p[n + 1]].next_idx = IF n = L - 1 THEN NONE ELSE q[n + 1]
      BY <1>1, <3>1, <3>2, <3>3
    <3>5. p[n + 1] # b
      <4>1. j # 1 => n + 1 # j - 1
        BY <2>2
      <4>2. NONE \notin 0..N - 1
        BY DEF NONE
      <4> QED BY <1>1, <1>7, <3>1, <4>1, <4>2
    <3>6. entries'[p[n + 1]].next_idx = entries[p[n + 1]].next_idx
      BY <1>10, <3>1, <3>5
    <3> QED BY <3>1, <3>4, <3>6
  <2> QED BY <2>1, <2>2
<1>20. Threads(q, L - 1, entries', head_idx', tail_idx', live \ {idx})
  BY <1>2, <1>13, <1>14, <1>15, <1>16, <1>17, <1>18, <1>19 DEF Threads
<1> QED BY <1>11, <1>20

-----------------------------------------------------------------------------
(* The entries of the table that a rehash builds, and the numbers they get. *)
NewListed == {new_index_list[s] - 1 : s \in NewLive}
Counting(n) == [m \in 1..n |-> m - 1]

(* The live entries are threaded into one list in both directions. *)
Threaded ==
    \E p \in [1..count -> LiveEntries] :
      Threads(p, count, entries, head_idx, tail_idx, LiveEntries)

LEMMA ThreadedNext ==
    ASSUME NEW p, Threads(p, count', entries', head_idx', tail_idx', LiveEntries')
    PROVE  Threaded'
<1>1. p \in [1..count' -> LiveEntries']
  BY DEF Threads
<1> QED BY <1>1 DEF Threaded

(* A rehash threads the entries of the new table in the order in which it  *)
(* numbers them.                                                           *)
ListInv ==
    /\ Threaded
    /\ pc = "rehash" =>
         /\ NewListed = 0..new_idx_counter - 1
         /\ Threads(Counting(new_idx_counter), new_idx_counter, new_entries,
                    new_head, new_tail, NewListed)
    /\ pc # "rehash" => new_head = NONE /\ new_tail = NONE

(* A list stays one when entries change in anything but their links. *)
LEMMA ThreadsSameLinks ==
    ASSUME NEW p, NEW L, NEW es, NEW es2, NEW head, NEW tail, NEW live,
           Threads(p, L, es, head, tail, live),
           \A e \in live : /\ es2[e].prev_idx = es[e].prev_idx
                           /\ es2[e].next_idx = es[e].next_idx
    PROVE  Threads(p, L, es2, head, tail, live)
<1>1. /\ L \in Nat /\ p \in [1..L -> live]
      /\ \A x \in live : \E n \in 1..L : p[n] = x
      /\ \A m, n \in 1..L : p[m] = p[n] => m = n
      /\ head = IF L = 0 THEN NONE ELSE p[1]
      /\ tail = IF L = 0 THEN NONE ELSE p[L]
      /\ \A n \in 1..L :
           /\ es[p[n]].prev_idx = IF n = 1 THEN NONE ELSE p[n - 1]
           /\ es[p[n]].next_idx = IF n = L THEN NONE ELSE p[n + 1]
  BY DEF Threads
<1>2. ASSUME NEW n \in 1..L
      PROVE  /\ es2[p[n]].prev_idx = IF n = 1 THEN NONE ELSE p[n - 1]
             /\ es2[p[n]].next_idx = IF n = L THEN NONE ELSE p[n + 1]
  <2>1. p[n] \in live
    BY <1>1
  <2>2. es2[p[n]].prev_idx = es[p[n]].prev_idx /\ es2[p[n]].next_idx = es[p[n]].next_idx
    BY <2>1
  <2> QED BY <1>1, <2>2
<1> QED BY <1>1, <1>2 DEF Threads

(* A list of no entries. *)
LEMMA ThreadsEmpty ==
    ASSUME NEW es, NEW p \in [1..0 -> {}]
    PROVE  Threads(p, 0, es, NONE, NONE, {})
    BY DEF Threads

(* Where the live entries are. *)
LEMMA LiveEntriesFacts ==
    ASSUME TypeOK, TableSound
    PROVE  /\ entry_capacity \in Nat
           /\ entries \in [0..entry_capacity - 1 -> Entry]
           /\ LiveEntries \in SUBSET (0..entry_capacity - 1)
           /\ count \in Nat /\ count <= entry_capacity
           /\ \A s \in LiveSlots : index_list[s] - 1 \in LiveEntries
           /\ \A s \in LiveSlots : EntryAt(s).key \in Key
<1>1. /\ Sound(index_list, index_capacity, entries, entry_next_insert)
      /\ entry_capacity = EntryCap(index_capacity)
      /\ entry_next_insert = count + Len(deleted_index_list)
  BY DEF TableSound, DeletedSound
<1>2. /\ entry_capacity \in Nat /\ entry_next_insert \in 0..entry_capacity
      /\ count \in Nat /\ deleted_index_list \in Seq(Nat)
      /\ entries \in [0..entry_capacity - 1 -> Entry]
  BY DEF TypeOK
<1>3. count <= entry_capacity
  <2>1. Len(deleted_index_list) \in Nat
    BY <1>2
  <2> QED BY <1>1, <1>2, <2>1
<1>4. \A s \in LiveSlots : s \in 0..index_capacity - 1 /\ index_list[s] > 0
  BY DEF LiveSlots, Slots, Live
<1>5. \A s \in LiveSlots : index_list[s] - 1 \in 0..entry_capacity - 1
  BY <1>1, <1>4, SoundSlot
<1>6. LiveEntries \in SUBSET (0..entry_capacity - 1)
  BY <1>5 DEF LiveEntries
<1>7. \A s \in LiveSlots : EntryAt(s).key \in Key
  BY <1>1, <1>4, SoundSlot DEF EntryAt
<1> QED BY <1>2, <1>3, <1>6, <1>7 DEF LiveEntries

(* A new key's entry comes last. *)
LEMMA ListInsert ==
    ASSUME TypeOK, TableSound, entry_next_insert < entry_capacity,
           NEW k \in Key, NEW d \in Data, Insert(k, d),
           NEW p, Threads(p, count, entries, head_idx, tail_idx, LiveEntries)
    PROVE  \E idx \in 0..entry_capacity - 1 :
             /\ idx \notin LiveEntries /\ LiveEntries' = LiveEntries \cup {idx}
             /\ Threads(Longer(p, count, idx), count', entries', head_idx',
                        tail_idx', LiveEntries')
             /\ entries'[idx].key = k
             /\ \A e \in LiveEntries : entries'[e].key = entries[e].key
<1>1. PICK s \in TargetSlots(k), idx \in 0..entry_next_insert :
        /\ TakeEntry(idx)
        /\ index_list' = [index_list EXCEPT ![s] = idx + 1]
        /\ entries' = AppendEntry(entries, idx, NewEntry(k, d), tail_idx)
        /\ head_idx' = IF tail_idx = NONE THEN idx ELSE head_idx
        /\ tail_idx' = idx
  BY DEF Insert
<1>2. index_capacity' = index_capacity /\ count' = count + 1
  BY DEF Insert
<1>3. /\ Sound(index_list, index_capacity, entries, entry_next_insert)
      /\ entry_capacity = EntryCap(index_capacity)
  BY DEF TableSound
<1>4. s \in 0..index_capacity - 1 /\ ~(index_list[s] > 0)
  BY <1>3, TargetFacts
<1>5. /\ idx \in Nat /\ idx < entry_next_insert'
      /\ entry_next_insert' \in 0..entry_capacity
      /\ \A t \in Slots : index_list[t] > 0 => index_list[t] - 1 # idx
  BY <1>1, TakeEntryFacts
<1>6. /\ index_list \in [0..index_capacity - 1 -> Int] /\ index_capacity \in Nat
      /\ entries \in [0..entry_capacity - 1 -> Entry]
      /\ entry_capacity \in Nat /\ tail_idx \in Int
      /\ LiveEntries \in SUBSET (0..entry_capacity - 1)
  BY LiveEntriesFacts DEF TypeOK, Slots
<1>7. idx \in 0..entry_capacity - 1
  BY <1>5, <1>6
<1>8. NewEntry(k, d) \in Entry /\ NewEntry(k, d).key = k
  BY NewEntryFacts
<1>9. Stored(entries', entries, entry_capacity, idx, NewEntry(k, d))
  BY <1>1, <1>6, <1>7, <1>8, AppendFacts
<1>10. LiveSlots' = LiveSlots \cup {s} /\ s \notin LiveSlots
  BY <1>1, <1>2, <1>4, <1>5, <1>6 DEF LiveSlots, Slots, Live
<1>11. /\ index_list'[s] - 1 = idx
       /\ \A t \in LiveSlots : index_list'[t] = index_list[t]
  BY <1>1, <1>4, <1>5, <1>6, <1>10 DEF LiveSlots, Slots
<1>12. LiveEntries' = LiveEntries \cup {idx}
  BY <1>10, <1>11 DEF LiveEntries
<1>13. idx \notin LiveEntries
  BY <1>5 DEF LiveEntries, LiveSlots, Live
<1>14. Threads(Longer(p, count, idx), count', entries', head_idx', tail_idx',
               LiveEntries')
  BY <1>1, <1>2, <1>6, <1>7, <1>8, <1>12, <1>13, ThreadsAppend
<1>15. /\ entries'[idx].key = k
       /\ \A e \in LiveEntries : entries'[e].key = entries[e].key
  BY <1>6, <1>8, <1>9, <1>13 DEF Stored
<1> QED BY <1>7, <1>12, <1>13, <1>14, <1>15

(* A deleted key's entry leaves the list. *)
LEMMA ListDelete ==
    ASSUME TypeOK, TableSound, NEW k \in Key, NEW s \in HitSlots(k), DeleteAt(k, s),
           NEW p, Threads(p, count, entries, head_idx, tail_idx, LiveEntries)
    PROVE  \E j \in 1..count :
             /\ LiveEntries' = LiveEntries \ {p[j]}
             /\ Threads(Shorter(p, count, j), count', entries', head_idx',
                        tail_idx', LiveEntries')
             /\ p[j] = index_list[s] - 1 /\ entries[p[j]].key = k
             /\ \A e \in LiveEntries : entries'[e].key = entries[e].key
<1> DEFINE N == entry_capacity
<1>1. /\ N \in Nat /\ entries \in [0..N - 1 -> Entry]
      /\ LiveEntries \in SUBSET (0..N - 1)
      /\ head_idx \in Int /\ tail_idx \in Int
      /\ index_capacity \in Nat /\ index_list \in [0..index_capacity - 1 -> Int]
  BY LiveEntriesFacts DEF TypeOK, Slots
<1>2. Sound(index_list, index_capacity, entries, entry_next_insert)
  BY DEF TableSound
<1>3. s \in Slots /\ index_list[s] > 0 /\ entries[index_list[s] - 1].key = k
  BY DEF HitSlots, Holds, Live, EntryAt
<1>4. s \in LiveSlots
  BY <1>3 DEF LiveSlots, Live
<1>5. PICK idx : idx = index_list[s] - 1
  OBVIOUS
<1>6. idx \in LiveEntries /\ idx \in 0..N - 1
  BY <1>1, <1>4, <1>5 DEF LiveEntries
<1>7. PICK j \in 1..count : p[j] = idx
  BY <1>6 DEF Threads
<1>8. /\ index_list' = [index_list EXCEPT ![s] = HT_DELETED]
      /\ index_capacity' = index_capacity /\ count' = count - 1
      /\ Unlink(idx)
  BY <1>5 DEF DeleteAt, Bury
<1>9. LiveSlots' = LiveSlots \ {s}
  BY <1>1, <1>3, <1>8 DEF LiveSlots, Slots, Live, HT_DELETED
<1>10. LiveEntries' = LiveEntries \ {idx}
  <2>1. \A t \in LiveSlots : t # s => /\ index_list'[t] = index_list[t]
                                     /\ index_list[t] # index_list[s]
    <3>1. \A t \in LiveSlots : t \in 0..index_capacity - 1 /\ index_list[t] > 0
      BY DEF LiveSlots, Slots, Live
    <3>2. \A t \in LiveSlots : t # s => index_list[t] # index_list[s]
      BY <1>2, <1>4, <3>1 DEF Sound
    <3> QED BY <1>1, <1>8, <3>1, <3>2
  <2>2. \A t \in LiveSlots : index_list[t] \in Int
    BY <1>1 DEF LiveSlots, Slots
  <2> QED BY <1>4, <1>5, <1>9, <2>1, <2>2 DEF LiveEntries
<1>11. Threads(Shorter(p, count, j), count', entries', head_idx', tail_idx', LiveEntries')
  BY <1>1, <1>7, <1>8, <1>10, ThreadsRemove
<1>12. \A e \in LiveEntries : entries'[e].key = entries[e].key
  <2>1. SameContents(entries', entries, N)
    BY <1>1, <1>6, <1>8, UnlinkKeeps
  <2> QED BY <1>1, <2>1 DEF SameContents
<1> QED BY <1>3, <1>5, <1>7, <1>10, <1>11, <1>12

(* New data changes no link. *)
LEMMA ListOverwrite ==
    ASSUME TypeOK, TableSound, NEW k \in Key, NEW d \in Data, Overwrite(k, d),
           NEW p, Threads(p, count, entries, head_idx, tail_idx, LiveEntries)
    PROVE  /\ LiveEntries' = LiveEntries
           /\ Threads(p, count', entries', head_idx', tail_idx', LiveEntries')
           /\ \A e \in LiveEntries : entries'[e].key = entries[e].key
<1>1. PICK s \in HitSlots(k) :
        /\ entries' = [entries EXCEPT ![index_list[s] - 1].data = d]
        /\ UNCHANGED <<index_list, index_capacity, count, head_idx, tail_idx>>
  BY DEF Overwrite
<1>2. LiveEntries' = LiveEntries
  BY <1>1 DEF LiveEntries, LiveSlots, Slots, Live
<1>3. \A e \in LiveEntries : /\ entries'[e].key = entries[e].key
                            /\ entries'[e].prev_idx = entries[e].prev_idx
                            /\ entries'[e].next_idx = entries[e].next_idx
  BY <1>1, LiveEntriesFacts DEF Entry
<1>4. Threads(p, count, entries', head_idx, tail_idx, LiveEntries)
  BY <1>3, ThreadsSameLinks
<1> QED BY <1>1, <1>2, <1>3, <1>4

(* A call that changes nothing of the table. *)
LEMMA ListUnchanged ==
    ASSUME UNCHANGED table,
           NEW p, Threads(p, count, entries, head_idx, tail_idx, LiveEntries)
    PROVE  /\ LiveEntries' = LiveEntries
           /\ Threads(p, count', entries', head_idx', tail_idx', LiveEntries')
           /\ \A e \in LiveEntries : entries'[e].key = entries[e].key
<1>1. UNCHANGED <<index_list, index_capacity, count, entries, head_idx, tail_idx>>
  BY DEF table
<1>2. LiveEntries' = LiveEntries
  BY <1>1 DEF LiveEntries, LiveSlots, Slots, Live
<1> QED BY <1>1, <1>2

(* An iteration of htable_rehash: the next number goes to the end. *)
LEMMA ListRehash ==
    ASSUME IndInv, ListInv, htable_rehash
    PROVE  /\ NewListed' = 0..new_idx_counter' - 1
           /\ Threads(Counting(new_idx_counter'), new_idx_counter', new_entries',
                      new_head', new_tail', NewListed')
<1>1. pc = "rehash" /\ i < index_capacity /\ index_capacity' = index_capacity
  BY DEF htable_rehash, table
<1>2. /\ NewListed = 0..new_idx_counter - 1
      /\ Threads(Counting(new_idx_counter), new_idx_counter, new_entries,
                 new_head, new_tail, NewListed)
  BY <1>1 DEF ListInv
<1>3. CASE /\ ~Live(i)
           /\ UNCHANGED <<new_index_list, new_entries, new_idx_counter, new_head,
                          new_tail>>
  <2>1. NewListed' = NewListed
    BY <1>1, <1>3 DEF NewListed, NewLive, new_index_capacity
  <2> QED BY <1>2, <1>3, <2>1
<1>4. ASSUME Live(i), NEW s \in RehashTargets(EntryAt(i).cached_hash),
             RehashSlot(s, EntryAt(i))
      PROVE  /\ NewListed' = 0..new_idx_counter' - 1
             /\ Threads(Counting(new_idx_counter'), new_idx_counter', new_entries',
                        new_head', new_tail', NewListed')
  <2> DEFINE c == new_idx_counter
             N == EntryCap(new_index_capacity)
  <2>1. /\ Sound(new_index_list', new_index_capacity, new_entries', c + 1)
        /\ c' = c + 1
        /\ {t \in 0..new_index_capacity - 1 : new_index_list'[t] > 0}
             = NewLive \cup {s}
        /\ new_index_list'[s] = c + 1
        /\ \A t \in NewLive : new_index_list'[t] = new_index_list[t]
    BY <1>1, <1>4, RehashMoves
  <2>2. /\ Sound(new_index_list, new_index_capacity, new_entries, c)
        /\ Sound(index_list, index_capacity, entries, entry_next_insert)
    BY <1>1 DEF IndInv, RehashSound, TableSound
  <2>3. c \in Nat
    BY DEF IndInv, TypeOK
  <2>4. N \in Nat /\ new_entries \in [0..N - 1 -> Entry] /\ c \in 0..N - 1
    <3>1. /\ new_index_capacity \in Nat /\ new_index_capacity >= 2
          /\ new_entries \in [0..N - 1 -> Entry]
      BY <2>2 DEF Sound
    <3>2. c + 1 \in 0..N
      BY <2>1 DEF Sound
    <3>3. N \in Nat
      BY <3>1, EntryCapFacts
    <3> HIDE DEF N
    <3> QED BY <2>3, <3>1, <3>2, <3>3
  <2>5. EntryAt(i) \in Entry
    <3>1. i \in 0..index_capacity - 1 /\ index_list[i] > 0
      BY <1>1, <1>4 DEF IndInv, TypeOK, Live
    <3> QED BY <2>2, <3>1, SoundSlot DEF EntryAt
  <2>6. NewListed' = NewListed \cup {c}
    <3>1. NewLive' = NewLive \cup {s}
      BY <1>1, <2>1 DEF NewLive, new_index_capacity
    <3> HIDE DEF c
    <3>2. new_index_list'[s] - 1 = c
      BY <2>1, <2>3
    <3> QED BY <2>1, <3>1, <3>2 DEF NewListed
  <2>7. NewListed' = 0..c' - 1
    BY <1>2, <2>1, <2>3, <2>6
  <2>8. Longer(Counting(c), c, c) = Counting(c + 1)
    BY <2>3 DEF Longer, Counting
  <2>9. /\ new_entries' = AppendEntry(new_entries, c, EntryAt(i), new_tail)
        /\ new_head' = IF new_tail = NONE THEN c ELSE new_head
        /\ new_tail' = c
    BY <1>4 DEF RehashSlot
  <2>10. NewListed \in SUBSET (0..N - 1) /\ c \notin NewListed
    <3> HIDE DEF N
    <3> QED BY <1>2, <2>4
  <2>11. Threads(Longer(Counting(c), c, c), c + 1, new_entries', new_head', new_tail',
                 NewListed \cup {c})
    <3> HIDE DEF N
    <3>1. PICK es : es = new_entries
      OBVIOUS
    <3>2. PICK e : e = EntryAt(i)
      OBVIOUS
    <3>3. /\ es \in [0..N - 1 -> Entry] /\ e \in Entry
          /\ Threads(Counting(c), c, es, new_head, new_tail, NewListed)
      BY <1>2, <2>4, <2>5, <3>1, <3>2
    <3>4. Threads(Longer(Counting(c), c, c), c + 1, AppendEntry(es, c, e, new_tail),
                  IF new_tail = NONE THEN c ELSE new_head, c, NewListed \cup {c})
      BY <2>4, <2>10, <3>3, ThreadsAppend
    <3> QED BY <2>9, <3>1, <3>2, <3>4
  <2> QED BY <2>1, <2>6, <2>7, <2>8, <2>11
<1> QED BY <1>3, <1>4 DEF htable_rehash

(* The finished table takes over the list that the rehash made. *)
LEMMA ListInstall ==
    ASSUME IndInv, ListInv, InstallRehashed
    PROVE  Threaded'
<1>1. /\ pc = "rehash" /\ i = index_capacity
      /\ index_list' = new_index_list /\ index_capacity' = new_index_capacity
      /\ entries' = new_entries /\ head_idx' = new_head /\ tail_idx' = new_tail
      /\ count' = count
  BY DEF InstallRehashed
<1>2. /\ NewListed = 0..new_idx_counter - 1
      /\ Threads(Counting(new_idx_counter), new_idx_counter, new_entries,
                 new_head, new_tail, NewListed)
  BY <1>1 DEF ListInv
<1>3. count = new_idx_counter
  <2>1. LiveBelow(i) = LiveSlots
    BY <1>1 DEF IndInv, TypeOK, LiveBelow, LiveSlots, Slots
  <2> QED BY <1>1, <2>1 DEF IndInv, TableSound, RehashSound
<1>4. LiveEntries' = NewListed
  BY <1>1 DEF LiveEntries, LiveSlots, Slots, Live, NewListed, NewLive
<1>5. Threads(Counting(count), count, entries', head_idx', tail_idx', LiveEntries')
  BY <1>1, <1>2, <1>3, <1>4
<1>6. Counting(count) \in [1..count -> LiveEntries']
  BY <1>5 DEF Threads
<1> QED BY <1>1, <1>5, <1>6 DEF Threaded

(* The table that htable_grow allocates has an empty list. *)
LEMMA ListGrow ==
    ASSUME IndInv, ListInv, NEW k \in Key, NEW d \in Data, htable_grow(k, d)
    PROVE  /\ NewListed' = 0..new_idx_counter' - 1
           /\ Threads(Counting(new_idx_counter'), new_idx_counter', new_entries',
                      new_head', new_tail', NewListed')
<1>1. /\ pc = "idle" /\ index_capacity' = index_capacity
      /\ new_index_list' = EmptyIndex(new_index_capacity)
      /\ UNCHANGED <<new_idx_counter, new_head, new_tail>>
  BY DEF htable_grow, table
<1>2. new_idx_counter = 0 /\ new_head = NONE /\ new_tail = NONE
  BY <1>1 DEF IndInv, ListInv
<1>3. NewLive' = {}
  BY <1>1 DEF NewLive, new_index_capacity, EmptyIndex, HT_EMPTY
<1>4. NewListed' = {}
  BY <1>3 DEF NewListed
<1>5. Counting(0) \in [1..0 -> {}]
  BY DEF Counting
<1>6. Threads(Counting(0), 0, new_entries', NONE, NONE, {})
  BY <1>5, ThreadsEmpty
<1> QED BY <1>1, <1>2, <1>4, <1>6

(* A new table has an empty list, too. *)
LEMMA ListFresh ==
    ASSUME NEW es
    PROVE  \E p \in [1..0 -> {}] : Threads(p, 0, es, NONE, NONE, {})
<1>1. Counting(0) \in [1..0 -> {}]
  BY DEF Counting
<1> QED BY <1>1, ThreadsEmpty

(* What a set does to the list once there is room for its key. *)
LEMMA ListStore ==
    ASSUME TypeOK, TableSound, entry_next_insert < entry_capacity, Threaded,
           NEW k \in Key, NEW d \in Data, StoreBinding(k, d)
    PROVE  Threaded'
<1>1. PICK p \in [1..count -> LiveEntries] :
        Threads(p, count, entries, head_idx, tail_idx, LiveEntries)
  BY DEF Threaded
<1>2. CASE Overwrite(k, d)
  BY <1>1, <1>2, ListOverwrite, ThreadedNext
<1>3. CASE InsertFails(k)
  <2>1. UNCHANGED table
    BY <1>3 DEF InsertFails
  <2> QED BY <1>1, <2>1, ListUnchanged, ThreadedNext
<1>4. CASE Insert(k, d)
  <2>1. PICK idx \in 0..entry_capacity - 1 :
          Threads(Longer(p, count, idx), count', entries', head_idx',
                  tail_idx', LiveEntries')
    BY <1>1, <1>4, ListInsert
  <2> QED BY <2>1, ThreadedNext
<1> QED BY <1>2, <1>3, <1>4 DEF StoreBinding

(* Every step keeps the list. *)
LEMMA ListStep == IndInv /\ ListInv /\ [Next]_vars => ListInv'
<1> SUFFICES ASSUME IndInv, ListInv, [Next]_vars PROVE ListInv'
  OBVIOUS
<1> USE DEF growing
<1>0. TypeOK /\ TableSound /\ Threaded
  BY DEF IndInv, ListInv
<1>a. ASSUME UNCHANGED table PROVE Threaded'
  <2>1. PICK p \in [1..count -> LiveEntries] :
          Threads(p, count, entries, head_idx, tail_idx, LiveEntries)
    BY <1>0 DEF Threaded
  <2> QED BY <1>a, <2>1, ListUnchanged, ZenonT(30) DEF Threaded, Threads
<1>b. ASSUME pc # "rehash", pc' # "rehash", Threaded',
             UNCHANGED <<new_head, new_tail>>
      PROVE  ListInv'
  BY <1>b DEF ListInv
<1>1. ASSUME NEW k \in Key, htable_get(k) PROVE ListInv'
  BY <1>1, <1>a, <1>b DEF htable_get
<1>2. ASSUME NEW k \in Key, htable_delete(k) PROVE ListInv'
  <2>1. pc = "idle" /\ UNCHANGED <<pc, growing>>
    BY <1>2 DEF htable_delete
  <2>2. CASE DeleteFails
    BY <1>a, <1>b, <2>1, <2>2 DEF DeleteFails
  <2>3. ASSUME NEW s \in HitSlots(k), DeleteAt(k, s) PROVE ListInv'
    <3>1. PICK p \in [1..count -> LiveEntries] :
            Threads(p, count, entries, head_idx, tail_idx, LiveEntries)
      BY <1>0 DEF Threaded
    <3>2. PICK j \in 1..count :
            Threads(Shorter(p, count, j), count', entries', head_idx',
                    tail_idx', LiveEntries')
      BY <1>0, <2>3, <3>1, ListDelete
    <3>3. Threaded'
      BY <3>2, ThreadedNext
    <3> QED BY <1>b, <2>1, <3>3
  <2> QED BY <1>2, <2>2, <2>3 DEF htable_delete
<1>3. ASSUME NEW k \in Key, NEW d \in Data, htable_set(k, d) PROVE ListInv'
  <2>1. pc = "idle" /\ ~MustGrow /\ StoreBinding(k, d) /\ UNCHANGED <<pc, growing>>
    BY <1>3 DEF htable_set
  <2>2. entry_next_insert < entry_capacity
    BY <1>0, <2>1 DEF MustGrow, TypeOK
  <2>3. Threaded'
    BY <1>0, <2>1, <2>2, ListStore
  <2> QED BY <1>b, <2>1, <2>3
<1>4. ASSUME NEW k \in Key, NEW d \in Data, htable_grow(k, d) PROVE ListInv'
  <2>1. Threaded' /\ pc' = "rehash"
    BY <1>4, <1>a DEF htable_grow
  <2> QED BY <1>4, <2>1, ListGrow DEF ListInv
<1>5. CASE GrowFails
  BY <1>5, <1>a, <1>b DEF GrowFails
<1>6. CASE htable_rehash
  <2>1. Threaded' /\ pc' = "rehash"
    BY <1>6, <1>a DEF htable_rehash
  <2> QED BY <1>6, <2>1, ListRehash DEF ListInv
<1>7. CASE InstallRehashed
  <2>1. pc' = "insert" /\ new_head' = NONE /\ new_tail' = NONE
    BY <1>7 DEF InstallRehashed
  <2> QED BY <1>7, <2>1, ListInstall DEF ListInv
<1>8. CASE SetAfterGrow
  <2>1. /\ pc = "insert" /\ pc' = "idle" /\ StoreBinding(call[1], call[2])
        /\ UNCHANGED <<new_head, new_tail>>
    BY <1>8 DEF SetAfterGrow
  <2>2. /\ entry_next_insert < entry_capacity
        /\ call[1] \in Key /\ call[2] \in Data
    BY <2>1 DEF IndInv, TypeOK
  <2>3. Threaded'
    BY <1>0, <2>1, <2>2, ListStore
  <2> QED BY <1>b, <2>1, <2>3
<1>9. CASE htable_free
  BY <1>9, <1>a, <1>b DEF htable_free
<1>10. CASE htable_create
  <2>1. /\ pc = "freed" /\ pc' = "idle" /\ UNCHANGED <<new_head, new_tail>>
        /\ index_list' = EmptyIndex(InitialCap) /\ index_capacity' = InitialCap
        /\ count' = 0 /\ head_idx' = NONE /\ tail_idx' = NONE
    BY <1>10 DEF htable_create
  <2>2. LiveSlots' = {}
    BY <2>1, FreshTable DEF LiveSlots, Slots, Live
  <2>3. LiveEntries' = {}
    BY <2>2 DEF LiveEntries
  <2>4. Threaded'
    BY <2>1, <2>3, ListFresh DEF Threaded
  <2> QED BY <1>b, <2>1, <2>4
<1>11. CASE UNCHANGED vars
  <2>1. /\ UNCHANGED <<pc, new_head, new_tail, new_idx_counter, new_entries,
                       new_index_list, index_capacity>>
        /\ UNCHANGED table
    BY <1>11 DEF vars, table
  <2>2. NewListed' = NewListed
    BY <2>1 DEF NewListed, NewLive, new_index_capacity
  <2>3. Threaded'
    BY <1>a, <2>1
  <2> QED BY <2>1, <2>2, <2>3 DEF ListInv
<1> QED BY <1>1, <1>2, <1>3, <1>4, <1>5, <1>6, <1>7, <1>8, <1>9, <1>10, <1>11 DEF Next

(* The list of a new table. *)
LEMMA ListInit == Init => ListInv
<1> SUFFICES ASSUME Init PROVE ListInv
  OBVIOUS
<1>1. /\ index_capacity = InitialCap /\ index_list = EmptyIndex(InitialCap)
      /\ count = 0 /\ head_idx = NONE /\ tail_idx = NONE
      /\ pc = "idle" /\ new_head = NONE /\ new_tail = NONE
  BY DEF Init, NotGrowing
<1>2. LiveSlots = {}
  BY <1>1, FreshTable DEF LiveSlots, Slots, Live
<1>3. LiveEntries = {}
  BY <1>2 DEF LiveEntries
<1>4. Threaded
  BY <1>1, <1>3, ListFresh DEF Threaded
<1> QED BY <1>1, <1>4 DEF ListInv

(* The table, its iteration list and the ones a rehash builds. *)
LEMMA ListInvariance == Spec => [](IndInv /\ ListInv)
<1>1. Init => ListInv
  BY ListInit
<1>2. IndInv /\ ListInv /\ [Next]_vars => ListInv'
  BY ListStep
<1> QED BY <1>1, <1>2, Invariance, PTL DEF Spec

(* The list that htable_free and the iterators follow visits every live    *)
(* entry exactly once, and the back links retrace it.                      *)
THEOREM ListIsWhole == Spec => []ListCoversLive
<1>1. IndInv /\ ListInv => ListCoversLive
  <2> SUFFICES ASSUME IndInv, ListInv PROVE ListCoversLive
    OBVIOUS
  <2>1. PICK p \in [1..count -> LiveEntries] :
          Threads(p, count, entries, head_idx, tail_idx, LiveEntries)
    BY DEF ListInv, Threaded
  <2>2. /\ entry_capacity \in Nat /\ count \in Nat /\ count <= entry_capacity
        /\ LiveEntries \subseteq Nat
    <3>1. TypeOK /\ TableSound
      BY DEF IndInv
    <3>2. /\ entry_capacity \in Nat /\ count \in Nat /\ count <= entry_capacity
          /\ LiveEntries \in SUBSET (0..entry_capacity - 1)
      BY <3>1, LiveEntriesFacts
    <3> QED BY <3>2
  <2>3. Walk = [n \in 0..entry_capacity |-> IF n < count THEN p[n + 1] ELSE NONE]
    <3>1. Follow(entries, head_idx, entry_capacity) = Steps(p, count, entry_capacity)
      BY <2>1, <2>2, FollowIs
    <3> QED BY <3>1, WalkFollows DEF Steps
  <2>4. PICK w : w = Walk
    OBVIOUS
  <2>5. /\ \A n \in 0..count - 1 : n + 1 \in 1..count /\ w[n] = p[n + 1]
        /\ \A n \in 1..count : n - 1 \in 0..count - 1 /\ w[n - 1] = p[n]
        /\ w[count] = NONE
    <3>1. \A n \in 0..count - 1 : n + 1 \in 1..count /\ n \in 0..entry_capacity /\ n < count
      BY <2>2
    <3>2. \A n \in 1..count : n - 1 \in 0..count - 1 /\ n - 1 + 1 = n
      BY <2>2
    <3>3. count \in 0..entry_capacity
      BY <2>2
    <3>4. \A n \in 0..count - 1 : w[n] = p[n + 1]
      BY <2>3, <2>4, <3>1
    <3>5. \A n \in 1..count : w[n - 1] = p[n]
      BY <3>2, <3>4
    <3>6. w[count] = NONE
      BY <2>2, <2>3, <2>4, <3>3
    <3> QED BY <3>1, <3>2, <3>4, <3>5, <3>6
  <2>6. \A n \in 0..count - 1 : w[n] # NONE
    <3>1. \A n \in 1..count : p[n] \in Nat
      BY <2>1, <2>2
    <3>2. NONE \notin Nat
      BY DEF NONE
    <3> QED BY <2>5, <3>1, <3>2
  <2>7. {w[n] : n \in 0..count - 1} = LiveEntries
    <3>1. \A e \in LiveEntries : \E n \in 1..count : p[n] = e
      BY <2>1 DEF Threads
    <3>2. \A n \in 0..count - 1 : w[n] \in LiveEntries
      BY <2>5
    <3>3. \A e \in LiveEntries : \E n \in 0..count - 1 : w[n] = e
      BY <2>5, <3>1
    <3> QED BY <3>2, <3>3
  <2>8. \A n \in 1..count : entries[p[n]].prev_idx = IF n = 1 THEN NONE ELSE p[n - 1]
    BY <2>1 DEF Threads
  <2>9. \A n \in 1..count - 1 : entries[w[n]].prev_idx = w[n - 1]
    <3> SUFFICES ASSUME NEW n \in 1..count - 1
                 PROVE  entries[w[n]].prev_idx = w[n - 1]
      OBVIOUS
    <3>1. /\ n \in 0..count - 1 /\ n + 1 \in 1..count /\ n + 1 # 1 /\ n \in 1..count
          /\ n + 1 - 1 = n
      BY <2>2
    <3>2. w[n] = p[n + 1] /\ w[n - 1] = p[n]
      BY <2>5, <3>1
    <3> QED BY <2>8, <3>1, <3>2
  <2>10. count # 0 => tail_idx = w[count - 1] /\ entries[w[0]].prev_idx = NONE
    <3> SUFFICES ASSUME count # 0
                 PROVE  tail_idx = w[count - 1] /\ entries[w[0]].prev_idx = NONE
      OBVIOUS
    <3>1. count \in 1..count /\ 1 \in 1..count /\ 1 - 1 = 0
      BY <2>2
    <3>2. w[count - 1] = p[count] /\ w[0] = p[1]
      BY <2>5, <3>1
    <3>3. tail_idx = p[count]
      BY <2>1 DEF Threads
    <3> QED BY <2>8, <3>1, <3>2, <3>3
  <2>11. count = 0 => tail_idx = NONE
    BY <2>1 DEF Threads
  <2> QED BY <2>4, <2>5, <2>6, <2>7, <2>9, <2>10, <2>11 DEF ListCoversLive
<1> QED BY <1>1, ListInvariance, PTL

-----------------------------------------------------------------------------
(* The copies of keys that the table owns. *)

(* One copy of each key that is bound and none of any other. *)
OwnInv == \A k \in Key : owned[k] = IF BoundTo(k) = {} THEN 0 ELSE 1

(* What a set does to the pairs of each key. *)
LEMMA BoundAfterSet ==
    ASSUME NEW k, NEW d, D!Set(k, d)
    PROVE  /\ BoundTo(k)' = {<<k, d>>}
           /\ \A k2 : k2 # k => BoundTo(k2)' = BoundTo(k2)
<1>1. Bindings' = (Bindings \ BoundTo(k)) \cup {<<k, d>>}
  BY BoundIsDict DEF D!Set
<1>2. <<k, d>>[1] = k
  OBVIOUS
<1> QED BY <1>1, <1>2 DEF BoundTo

(* A step that changes neither the bindings nor the copies. *)
LEMMA OwnKept ==
    ASSUME OwnInv, Bindings' = Bindings, owned' = owned
    PROVE  OwnInv'
<1>1. \A k : BoundTo(k)' = BoundTo(k)
  BY DEF BoundTo
<1> QED BY <1>1 DEF OwnInv

(* A set copies its key when the key is new. *)
LEMMA OwnStore ==
    ASSUME TypeOK, TableSound, OwnInv, entry_next_insert < entry_capacity,
           pc # "freed", pc' # "freed",
           NEW k \in Key, NEW d \in Data, StoreBinding(k, d)
    PROVE  OwnInv'
<1>1. owned \in [Key -> Int]
  BY DEF TypeOK
<1>2. CASE Overwrite(k, d)
  <2>1. D!Set(k, d) /\ owned' = owned
    BY <1>2, OverwriteImplements DEF Overwrite
  <2>2. PICK s \in HitSlots(k) : TRUE
    BY <1>2 DEF Overwrite
  <2>3. BoundTo(k) # {}
    <3>1. BoundTo(k) = {<<k, EntryAt(s).data>>}
      BY HitIsBound
    <3> QED BY <3>1
  <2>4. /\ BoundTo(k)' = {<<k, d>>}
        /\ \A k2 : k2 # k => BoundTo(k2)' = BoundTo(k2)
    BY <2>1, BoundAfterSet
  <2> QED BY <2>1, <2>3, <2>4 DEF OwnInv
<1>3. CASE InsertFails(k)
  <2>1. /\ UNCHANGED <<index_list, index_capacity, entries>> /\ owned' = owned
    BY <1>3 DEF InsertFails, table
  <2>2. Bindings' = Bindings
    BY <2>1, BindingsKept
  <2> QED BY <2>1, <2>2, OwnKept
<1>4. CASE Insert(k, d)
  <2>1. /\ D!Set(k, d) /\ owned' = [owned EXCEPT ![k] = @ + 1]
        /\ HitSlots(k) = {}
    BY <1>4, InsertImplements DEF Insert
  <2>2. BoundTo(k) = {}
    BY <2>1, HitIsBound
  <2>3. /\ BoundTo(k)' = {<<k, d>>}
        /\ \A k2 : k2 # k => BoundTo(k2)' = BoundTo(k2)
    BY <2>1, BoundAfterSet
  <2>4. owned[k] = 0
    BY <2>2 DEF OwnInv
  <2>5. owned'[k] = 1 /\ \A k2 \in Key : k2 # k => owned'[k2] = owned[k2]
    BY <1>1, <2>1, <2>4
  <2> QED BY <2>3, <2>5 DEF OwnInv
<1> QED BY <1>2, <1>3, <1>4 DEF StoreBinding

(* A deletion frees the copy of its key. *)
LEMMA OwnDelete ==
    ASSUME TypeOK, TableSound, OwnInv, pc # "freed", pc' # "freed",
           NEW k \in Key, NEW s \in HitSlots(k), DeleteAt(k, s)
    PROVE  OwnInv'
<1>1. owned \in [Key -> Int] /\ owned' = [owned EXCEPT ![k] = @ - 1]
  BY DEF TypeOK, DeleteAt, FreeKey
<1>2. PICK b \in D!Bound(k) : Bindings' = Bindings \ {b}
  BY DeleteImplements DEF D!Delete
<1>3. PICK c : BoundTo(k) = {c}
  BY HitIsBound
<1>4. BoundTo(k) = {b} /\ b \in BoundTo(k)
  BY <1>2, <1>3, BoundIsDict
<1>5. /\ BoundTo(k)' = {}
      /\ \A k2 : k2 # k => BoundTo(k2)' = BoundTo(k2)
  BY <1>2, <1>4 DEF BoundTo
<1>6. owned[k] = 1
  BY <1>4 DEF OwnInv
<1>7. owned'[k] = 0 /\ \A k2 \in Key : k2 # k => owned'[k2] = owned[k2]
  BY <1>1, <1>6
<1> QED BY <1>5, <1>7 DEF OwnInv

(* The walk of htable_free meets each key once. *)
LEMMA OwnFree ==
    ASSUME IndInv, ListInv, OwnInv, htable_free
    PROVE  OwnInv'
<1>1. /\ pc = "idle" /\ pc' = "freed"
      /\ owned' = [k \in Key |->
           owned[k] - Cardinality({n \in 0..entry_capacity :
                                     Walk[n] # NONE /\ entries[Walk[n]].key = k})]
  BY DEF htable_free
<1>2. TypeOK /\ TableSound
  BY DEF IndInv
<1>3. PICK p \in [1..count -> LiveEntries] :
        Threads(p, count, entries, head_idx, tail_idx, LiveEntries)
  BY DEF ListInv, Threaded
<1>4. /\ entry_capacity \in Nat /\ count \in Nat /\ count <= entry_capacity
      /\ LiveEntries \subseteq Nat /\ NONE \notin Nat
  <2>1. /\ entry_capacity \in Nat /\ count \in Nat /\ count <= entry_capacity
        /\ LiveEntries \in SUBSET (0..entry_capacity - 1)
    BY <1>2, LiveEntriesFacts
  <2> QED BY <2>1 DEF NONE
<1>5. Walk = Steps(p, count, entry_capacity)
  BY <1>3, <1>4, FollowIs, WalkFollows
<1>6. ASSUME NEW k \in Key
      PROVE  owned'[k] = 0
  <2> DEFINE seen == {n \in 0..entry_capacity :
                        Walk[n] # NONE /\ entries[Walk[n]].key = k}
  <2>1. owned'[k] = owned[k] - Cardinality(seen)
    BY <1>1
  <2>2. seen = {n \in 0..entry_capacity : n < count /\ entries[p[n + 1]].key = k}
    <3>1. ASSUME NEW n \in 0..entry_capacity
          PROVE  (Walk[n] # NONE /\ entries[Walk[n]].key = k)
                   <=> (n < count /\ entries[p[n + 1]].key = k)
      <4>1. CASE n < count
        <5>1. n + 1 \in 1..count
          BY <1>4, <4>1
        <5>2. p[n + 1] \in Nat
          BY <1>3, <1>4, <5>1
        <5>3. Walk[n] = p[n + 1]
          BY <1>5, <4>1 DEF Steps
        <5> QED BY <1>4, <4>1, <5>2, <5>3
      <4>2. CASE ~(n < count)
        <5>1. Walk[n] = NONE
          BY <1>5, <4>2 DEF Steps
        <5> QED BY <4>2, <5>1
      <4> QED BY <4>1, <4>2
    <3> QED BY <3>1
  <2> HIDE DEF seen
  <2>3. \A n \in seen : n \in Nat /\ n + 1 \in 1..count /\ p[n + 1] \in LiveEntries
                        /\ entries[p[n + 1]].key = k
    <3>1. \A n \in seen : n \in Nat /\ n + 1 \in 1..count /\ entries[p[n + 1]].key = k
      BY <1>4, <2>2
    <3> QED BY <1>3, <3>1
  <2>4. \A e \in LiveEntries : \E t \in LiveSlots : e = index_list[t] - 1
                                                 /\ entries[e] = EntryAt(t)
    BY DEF LiveEntries, EntryAt
  <2>5. CASE HitSlots(k) = {}
    <3>1. BoundTo(k) = {}
      BY <1>1, <1>2, <2>5, HitIsBound
    <3>2. HitSlots(k) = {s \in Slots : Holds(s, k)}
      BY <1>2, HitExact DEF TableSound
    <3>3. \A t \in LiveSlots : EntryAt(t).key # k
      BY <2>5, <3>2 DEF LiveSlots, Holds
    <3>4. seen = {}
      BY <2>3, <2>4, <3>3
    <3>5. Cardinality(seen) = 0 /\ owned[k] = 0
      BY <3>1, <3>4, FS_EmptySet DEF OwnInv
    <3> QED BY <2>1, <3>5
  <2>6. CASE HitSlots(k) # {}
    <3>1. PICK s \in HitSlots(k) : TRUE
      BY <2>6
    <3>2. /\ s \in LiveSlots /\ EntryAt(s).key = k /\ BoundTo(k) # {}
          /\ \A t \in LiveSlots : EntryAt(t).key = k => t = s
      <4>1. /\ s \in LiveSlots /\ EntryAt(s).key = k
            /\ BoundTo(k) = {<<k, EntryAt(s).data>>}
            /\ \A t \in LiveSlots : EntryAt(t).key = k => t = s
        BY <1>1, <1>2, <3>1, HitIsBound
      <4> QED BY <4>1
    <3>3. index_list[s] - 1 \in LiveEntries
      BY <1>2, <3>2, LiveEntriesFacts
    <3>4. PICK j \in 1..count : p[j] = index_list[s] - 1
      BY <1>3, <3>3 DEF Threads
    <3>5. j - 1 \in seen
      <4>1. j - 1 \in 0..entry_capacity /\ j - 1 < count /\ j - 1 + 1 = j
        BY <1>4
      <4>2. entries[p[j]].key = k
        BY <3>2, <3>4 DEF EntryAt
      <4> QED BY <2>2, <4>1, <4>2
    <3>6. ASSUME NEW n \in seen
          PROVE  n = j - 1
      <4>1. p[n + 1] = index_list[s] - 1
        BY <2>3, <2>4, <3>2
      <4>2. n + 1 = j
        BY <1>3, <2>3, <3>4, <4>1 DEF Threads
      <4> QED BY <2>3, <4>2
    <3>7. seen = {j - 1}
      BY <3>5, <3>6
    <3>8. Cardinality(seen) = 1
      BY <3>7, FS_Singleton
    <3>9. owned[k] = 1
      BY <3>2 DEF OwnInv
    <3> QED BY <2>1, <3>8, <3>9
  <2> QED BY <2>5, <2>6
<1>7. \A k \in Key : BoundTo(k)' = {}
  BY <1>1 DEF BoundTo, Bindings
<1> QED BY <1>6, <1>7 DEF OwnInv

(* Every step keeps the account of the copies. *)
LEMMA OwnStep == IndInv /\ ListInv /\ OwnInv /\ [Next]_vars => OwnInv'
<1> SUFFICES ASSUME IndInv, ListInv, OwnInv, [Next]_vars PROVE OwnInv'
  OBVIOUS
<1>0. TypeOK /\ TableSound
  BY DEF IndInv
<1>a. ASSUME UNCHANGED <<index_list, index_capacity, entries, owned>>,
             pc # "freed", pc' # "freed"
      PROVE  OwnInv'
  BY <1>a, BindingsKept, OwnKept
<1>1. ASSUME NEW k \in Key, htable_get(k) PROVE OwnInv'
  BY <1>1, <1>a DEF htable_get, table
<1>2. ASSUME NEW k \in Key, htable_delete(k) PROVE OwnInv'
  <2>1. pc = "idle" /\ pc' = "idle"
    BY <1>2 DEF htable_delete
  <2>2. CASE DeleteFails
    BY <1>a, <2>1, <2>2 DEF DeleteFails, table
  <2>3. ASSUME NEW s \in HitSlots(k), DeleteAt(k, s) PROVE OwnInv'
    BY <1>0, <2>1, <2>3, OwnDelete
  <2> QED BY <1>2, <2>2, <2>3 DEF htable_delete
<1>3. ASSUME NEW k \in Key, NEW d \in Data, htable_set(k, d) PROVE OwnInv'
  <2>1. pc = "idle" /\ pc' = "idle" /\ ~MustGrow /\ StoreBinding(k, d)
    BY <1>3 DEF htable_set
  <2>2. entry_next_insert < entry_capacity
    BY <1>0, <2>1 DEF MustGrow, TypeOK
  <2> QED BY <1>0, <2>1, <2>2, OwnStore
<1>4. ASSUME NEW k \in Key, NEW d \in Data, htable_grow(k, d) PROVE OwnInv'
  BY <1>4, <1>a DEF htable_grow, table
<1>5. CASE GrowFails
  BY <1>5, <1>a DEF GrowFails, table
<1>6. CASE htable_rehash
  BY <1>6, <1>a DEF htable_rehash, table
<1>7. CASE InstallRehashed
  <2>1. Bindings' = Bindings
    BY <1>7, InstallImplements
  <2> QED BY <1>7, <2>1, OwnKept DEF InstallRehashed
<1>8. CASE SetAfterGrow
  <2>1. pc = "insert" /\ pc' = "idle" /\ StoreBinding(call[1], call[2])
    BY <1>8 DEF SetAfterGrow
  <2>2. /\ entry_next_insert < entry_capacity
        /\ call[1] \in Key /\ call[2] \in Data
    BY <2>1 DEF IndInv, TypeOK
  <2> QED BY <1>0, <2>1, <2>2, OwnStore
<1>9. CASE htable_free
  BY <1>9, OwnFree
<1>10. CASE htable_create
  <2>1. /\ pc = "freed" /\ pc' = "idle" /\ owned' = owned
        /\ index_list' = EmptyIndex(InitialCap) /\ index_capacity' = InitialCap
    BY <1>10 DEF htable_create
  <2>2. LiveSlots' = {}
    BY <2>1, FreshTable DEF LiveSlots, Slots, Live
  <2>3. Bindings = {} /\ Bindings' = {}
    BY <2>1, <2>2 DEF Bindings
  <2> QED BY <2>1, <2>3, OwnKept
<1>11. CASE UNCHANGED vars
  <2>1. UNCHANGED <<index_list, index_capacity, entries, pc, owned>>
    BY <1>11 DEF vars, table
  <2> QED BY <2>1, BindingsKept, OwnKept
<1> QED BY <1>1, <1>2, <1>3, <1>4, <1>5, <1>6, <1>7, <1>8, <1>9, <1>10, <1>11 DEF Next

(* The table owns one copy of each key it holds and none of any other, and *)
(* freeing the table frees each copy once: no leak, no double free.        *)
THEOREM CopiesAreOwned == Spec => []KeysOwned
<1>1. Init => OwnInv
  <2> SUFFICES ASSUME Init PROVE OwnInv
    OBVIOUS
  <2>1. LiveSlots = {} /\ pc = "idle" /\ owned = [k \in Key |-> 0]
    BY FreshTable DEF Init, LiveSlots, Slots, Live
  <2>2. \A k : BoundTo(k) = {}
    BY <2>1 DEF BoundTo, Bindings
  <2> QED BY <2>1, <2>2 DEF OwnInv
<1>2. IndInv /\ OwnInv => KeysOwned
  <2> SUFFICES ASSUME IndInv, OwnInv, NEW k \in Key
               PROVE  owned[k] = IF pc = "freed" THEN 0
                                 ELSE Cardinality({s \in LiveSlots : EntryAt(s).key = k})
    BY DEF KeysOwned
  <2> DEFINE holding == {s \in LiveSlots : EntryAt(s).key = k}
  <2>1. CASE pc = "freed"
    BY <2>1 DEF OwnInv, BoundTo, Bindings
  <2>2. CASE pc # "freed" /\ HitSlots(k) = {}
    <3>1. Sound(index_list, index_capacity, entries, entry_next_insert)
      BY DEF IndInv, TableSound
    <3>2. HitSlots(k) = {s \in Slots : Holds(s, k)}
      BY <3>1, HitExact
    <3>3. holding = {}
      BY <2>2, <3>2 DEF LiveSlots, Holds
    <3>4. BoundTo(k) = {}
      BY <2>2, HitIsBound DEF IndInv
    <3> QED BY <2>2, <3>3, <3>4, FS_EmptySet DEF OwnInv
  <2>3. CASE pc # "freed" /\ HitSlots(k) # {}
    <3>1. PICK s \in HitSlots(k) : TRUE
      BY <2>3
    <3>2. /\ s \in LiveSlots /\ EntryAt(s).key = k /\ BoundTo(k) # {}
          /\ \A t \in LiveSlots : EntryAt(t).key = k => t = s
      <4>1. /\ s \in LiveSlots /\ EntryAt(s).key = k
            /\ BoundTo(k) = {<<k, EntryAt(s).data>>}
            /\ \A t \in LiveSlots : EntryAt(t).key = k => t = s
        BY <2>3, <3>1, HitIsBound DEF IndInv
      <4> QED BY <4>1
    <3>3. holding = {s}
      BY <3>2
    <3> HIDE DEF holding
    <3>4. Cardinality(holding) = 1
      BY <3>3, FS_Singleton
    <3>5. owned[k] = 1
      BY <3>2 DEF OwnInv
    <3> QED BY <2>3, <3>4, <3>5 DEF holding
  <2> QED BY <2>1, <2>2, <2>3
<1>3. IndInv /\ ListInv /\ OwnInv /\ [Next]_vars => OwnInv'
  BY OwnStep
<1> QED BY <1>1, <1>2, <1>3, ListInvariance, PTL DEF Spec

-----------------------------------------------------------------------------
(* The order of the list.                                                  *)

(* The keys of the entries that p lists. *)
KeysAlong(p, L, es) == [n \in 1..L |-> es[p[n]].key]

(* The keys that a walk w of the array es meets. *)
Listing(w, es, cap) ==
    [n \in 1..Cardinality({m \in 0..cap : w[m] # NONE}) |-> es[w[n - 1]].key]

LEMMA OrderLists ==
    /\ Order = Listing(Walk, entries, entry_capacity)
    /\ Order' = Listing(Walk', entries', entry_capacity')
    BY DEF Order, Listing

LEMMA ListingIs ==
    ASSUME NEW p, NEW L \in Nat, NEW es, NEW cap \in Nat, L <= cap,
           \A n \in 1..L : p[n] \in Nat
    PROVE  Listing(Steps(p, L, cap), es, cap) = KeysAlong(p, L, es)
<1> DEFINE w == Steps(p, L, cap)
           met == {m \in 0..cap : w[m] # NONE}
<1>1. \A n \in 0..cap : w[n] = IF n < L THEN p[n + 1] ELSE NONE
  BY DEF Steps
<1>2. \A n \in 1..L : n - 1 \in 0..cap /\ n - 1 < L /\ n - 1 + 1 = n
  OBVIOUS
<1>3. \A n \in 1..L : w[n - 1] = p[n]
  <2> HIDE DEF w
  <2> QED BY <1>1, <1>2
<1>4. met = 0..L - 1
  <2> HIDE DEF w
  <2>1. ASSUME NEW m \in 0..cap PROVE w[m] # NONE <=> m < L
    <3>1. m < L => m + 1 \in 1..L
      OBVIOUS
    <3>2. m < L => p[m + 1] \in Nat
      BY <3>1
    <3> QED BY <1>1, <3>2 DEF NONE
  <2> QED BY <2>1
<1> HIDE DEF met
<1>5. Cardinality(met) = L
  BY <1>4, SizeOfRange
<1>6. Listing(w, es, cap) = [n \in 1..Cardinality(met) |-> es[w[n - 1]].key]
  BY DEF Listing, met
<1> HIDE DEF w
<1>7. [n \in 1..L |-> es[w[n - 1]].key] = [n \in 1..L |-> es[p[n]].key]
  BY <1>3
<1> QED BY <1>5, <1>6, <1>7 DEF KeysAlong, w

(* The list has room in the array; this is so before and after a step. *)
ListRoom ==
    /\ entry_capacity \in Nat /\ count \in Nat /\ count <= entry_capacity
    /\ LiveEntries \subseteq Nat
    /\ \A e \in LiveEntries : entries[e].key \in Key

LEMMA ListRoomHolds == IndInv => ListRoom
<1> SUFFICES ASSUME IndInv PROVE ListRoom
  OBVIOUS
<1>1. /\ entry_capacity \in Nat /\ count \in Nat /\ count <= entry_capacity
      /\ LiveEntries \in SUBSET (0..entry_capacity - 1)
      /\ \A s \in LiveSlots : EntryAt(s).key \in Key
  BY LiveEntriesFacts DEF IndInv
<1>2. \A e \in LiveEntries : entries[e].key \in Key
  BY <1>1 DEF LiveEntries, EntryAt
<1> QED BY <1>1, <1>2 DEF ListRoom

(* Order lists the keys along p, before and after a step. *)
LEMMA OrderIs ==
    ASSUME ListRoom, NEW p,
           Threads(p, count, entries, head_idx, tail_idx, LiveEntries)
    PROVE  Order = KeysAlong(p, count, entries)
<1>1. /\ entry_capacity \in Nat /\ count \in Nat /\ count <= entry_capacity
      /\ LiveEntries \subseteq Nat
  BY DEF ListRoom
<1>2. Walk = Steps(p, count, entry_capacity)
  BY <1>1, FollowIs, WalkFollows
<1>3. \A n \in 1..count : p[n] \in Nat
  BY <1>1 DEF Threads
<1>4. Listing(Steps(p, count, entry_capacity), entries, entry_capacity)
        = KeysAlong(p, count, entries)
  BY <1>1, <1>3, ListingIs
<1> QED BY <1>2, <1>4, OrderLists

LEMMA OrderIsNext ==
    ASSUME ListRoom', NEW p,
           Threads(p, count', entries', head_idx', tail_idx', LiveEntries')
    PROVE  Order' = KeysAlong(p, count', entries')
<1>1. /\ entry_capacity' \in Nat /\ count' \in Nat /\ count' <= entry_capacity'
      /\ LiveEntries' \subseteq Nat
  BY DEF ListRoom
<1>2. Walk' = Steps(p, count', entry_capacity')
  BY <1>1, FollowIs, WalkFollows
<1>3. \A n \in 1..count' : p[n] \in Nat
  BY <1>1 DEF Threads
<1>4. Listing(Steps(p, count', entry_capacity'), entries', entry_capacity')
        = KeysAlong(p, count', entries')
  BY <1>1, <1>3, ListingIs
<1> QED BY <1>2, <1>4, OrderLists

(* The keys along a sequence of entries. *)
LEMMA KeysAreSeq ==
    ASSUME NEW L \in Nat, NEW p, NEW es, \A n \in 1..L : es[p[n]].key \in Key
    PROVE  /\ KeysAlong(p, L, es) \in Seq(Key)
           /\ Len(KeysAlong(p, L, es)) = L
           /\ \A n \in 1..L : KeysAlong(p, L, es)[n] = es[p[n]].key
<1>1. KeysAlong(p, L, es) \in [1..L -> Key]
  BY DEF KeysAlong
<1>2. KeysAlong(p, L, es) \in Seq(Key)
  BY <1>1, SeqDef
<1> QED BY <1>1, <1>2 DEF KeysAlong

(* They are the same when no key changes. *)
LEMMA SameKeys ==
    ASSUME NEW L, NEW p, NEW es, NEW es2,
           \A n \in 1..L : es2[p[n]].key = es[p[n]].key
    PROVE  KeysAlong(p, L, es2) = KeysAlong(p, L, es)
    BY DEF KeysAlong

(* The keys along p are proper keys, and es2 has the same as es. *)
KeysStay(p, L, es, es2) ==
    \A n \in 1..L : es[p[n]].key \in Key /\ es2[p[n]].key = es[p[n]].key

(* An entry at the end appends its key. *)
LEMMA LongerKeys ==
    ASSUME NEW L \in Nat, NEW p, NEW es, NEW es2,
           KeysStay(p, L, es, es2),
           NEW idx, NEW k \in Key, es2[idx].key = k
    PROVE  KeysAlong(Longer(p, L, idx), L + 1, es2) = Append(KeysAlong(p, L, es), k)
<1> DEFINE q == Longer(p, L, idx)
           a == KeysAlong(p, L, es)
           b == KeysAlong(q, L + 1, es2)
<1>1. \A n \in 1..L : es[p[n]].key \in Key /\ es2[p[n]].key = es[p[n]].key
  BY DEF KeysStay
<1>2. q[L + 1] = idx /\ \A n \in 1..L : q[n] = p[n] /\ n \in 1..L + 1
  BY DEF Longer
<1> HIDE DEF q
<1>3. \A n \in 1..L + 1 : n = L + 1 \/ n \in 1..L
  OBVIOUS
<1>4. \A n \in 1..L + 1 : es2[q[n]].key \in Key
  BY <1>1, <1>2, <1>3
<1>5. a \in Seq(Key) /\ Len(a) = L /\ \A n \in 1..L : a[n] = es[p[n]].key
  BY <1>1, KeysAreSeq
<1>6. b \in Seq(Key) /\ Len(b) = L + 1 /\ \A n \in 1..L + 1 : b[n] = es2[q[n]].key
  <2>1. L + 1 \in Nat
    OBVIOUS
  <2> QED BY <1>4, <2>1, KeysAreSeq
<1> HIDE DEF a, b
<1>7. /\ Append(a, k) \in Seq(Key) /\ Len(Append(a, k)) = L + 1
      /\ \A n \in 1..L : Append(a, k)[n] = a[n]
      /\ Append(a, k)[L + 1] = k
  BY <1>5, AppendProperties
<1>8. ASSUME NEW n \in 1..L + 1 PROVE b[n] = Append(a, k)[n]
  <2>1. CASE n = L + 1
    BY <1>2, <1>6, <1>7, <2>1
  <2>2. CASE n \in 1..L
    BY <1>1, <1>2, <1>5, <1>6, <1>7, <2>2
  <2> QED BY <1>3, <2>1, <2>2
<1>9. b = Append(a, k)
  BY <1>6, <1>7, <1>8, SeqEqual
<1> QED BY <1>9 DEF a, b, q

(* The sequence s without its j-th element. *)
Without(s, j) == SubSeq(s, 1, j - 1) \o SubSeq(s, j + 1, Len(s))

(* An entry that leaves takes its key along. *)
LEMMA ShorterKeys ==
    ASSUME NEW L \in Nat, NEW p, NEW es, NEW es2,
           KeysStay(p, L, es, es2),
           NEW j \in 1..L
    PROVE  KeysAlong(Shorter(p, L, j), L - 1, es2)
             = Without(KeysAlong(p, L, es), j)
<1> DEFINE q == Shorter(p, L, j)
           a == KeysAlong(p, L, es)
           b == KeysAlong(q, L - 1, es2)
           front == SubSeq(a, 1, j - 1)
           back == SubSeq(a, j + 1, L)
<1>1. \A n \in 1..L : es[p[n]].key \in Key /\ es2[p[n]].key = es[p[n]].key
  BY DEF KeysStay
<1>2. \A n \in 1..L - 1 : /\ q[n] = IF n < j THEN p[n] ELSE p[n + 1]
                          /\ n \in 1..L /\ n + 1 \in 1..L
  BY DEF Shorter
<1> HIDE DEF q
<1>3. L - 1 \in Nat /\ \A n \in 1..L - 1 : es2[q[n]].key \in Key
  BY <1>1, <1>2
<1>4. a \in Seq(Key) /\ Len(a) = L /\ \A n \in 1..L : a[n] = es[p[n]].key
  BY <1>1, KeysAreSeq
<1>5. b \in Seq(Key) /\ Len(b) = L - 1 /\ \A n \in 1..L - 1 : b[n] = es2[q[n]].key
  BY <1>3, KeysAreSeq
<1> HIDE DEF a, b
<1>6. \A n \in 1..L : a[n] \in Key
  BY <1>1, <1>4
<1>7. /\ front \in Seq(Key) /\ Len(front) = j - 1
      /\ \A n \in 1..j - 1 : front[n] = a[n]
  <2>1. \A n \in 1..j - 1 : n \in 1..L /\ a[n] \in Key /\ 1 + n - 1 = n
    BY <1>6
  <2>2. 1 \in Int /\ j - 1 \in Int
    OBVIOUS
  <2>3. /\ front \in Seq(Key)
        /\ Len(front) = IF 1 <= j - 1 THEN j - 1 - 1 + 1 ELSE 0
        /\ \A n \in 1..j - 1 - 1 + 1 : front[n] = a[1 + n - 1]
    BY <2>1, <2>2, SubSeqProperties
  <2> HIDE DEF front
  <2>4. Len(front) = j - 1 /\ j - 1 - 1 + 1 = j - 1
    BY <2>3
  <2> QED BY <2>1, <2>3, <2>4
<1>8. /\ back \in Seq(Key) /\ Len(back) = L - j
      /\ \A n \in 1..L - j : back[n] = a[j + n]
  <2>1. \A n \in j + 1..L : a[n] \in Key
    BY <1>6
  <2>2. j + 1 \in Int /\ L \in Int
    OBVIOUS
  <2>3. /\ back \in Seq(Key)
        /\ Len(back) = IF j + 1 <= L THEN L - (j + 1) + 1 ELSE 0
        /\ \A n \in 1..L - (j + 1) + 1 : back[n] = a[j + 1 + n - 1]
    BY <2>1, <2>2, SubSeqProperties
  <2> HIDE DEF back
  <2>4. Len(back) = L - j /\ L - (j + 1) + 1 = L - j
    BY <2>3
  <2>5. \A n \in 1..L - j : j + 1 + n - 1 = j + n
    OBVIOUS
  <2> QED BY <2>3, <2>4, <2>5
<1> HIDE DEF front, back
<1>9. /\ front \o back \in Seq(Key) /\ Len(front \o back) = L - 1
      /\ \A n \in 1..L - 1 :
           (front \o back)[n] = IF n <= j - 1 THEN front[n] ELSE back[n - (j - 1)]
  <2>1. /\ front \o back \in Seq(Key)
        /\ Len(front \o back) = Len(front) + Len(back)
        /\ \A n \in 1..Len(front) + Len(back) :
             (front \o back)[n] = IF n <= Len(front) THEN front[n]
                                  ELSE back[n - Len(front)]
    BY <1>7, <1>8, ConcatProperties
  <2>2. Len(front) + Len(back) = L - 1
    BY <1>7, <1>8
  <2> QED BY <1>7, <2>1, <2>2
<1>10. ASSUME NEW n \in 1..L - 1 PROVE b[n] = (front \o back)[n]
  <2>1. CASE n < j
    <3>1. n \in 1..j - 1 /\ n <= j - 1 /\ n \in 1..L
      BY <2>1
    <3>2. (front \o back)[n] = es[p[n]].key
      BY <1>4, <1>7, <1>9, <3>1
    <3>3. b[n] = es2[p[n]].key
      BY <1>2, <1>5, <2>1
    <3> QED BY <1>1, <3>1, <3>2, <3>3
  <2>2. CASE ~(n < j)
    <3>1. /\ n - (j - 1) \in 1..L - j /\ ~(n <= j - 1) /\ n + 1 \in 1..L
          /\ j + (n - (j - 1)) = n + 1
      BY <2>2
    <3>2. (front \o back)[n] = a[n + 1]
      BY <1>8, <1>9, <3>1
    <3>3. b[n] = es2[p[n + 1]].key
      BY <1>2, <1>5, <2>2
    <3> QED BY <1>1, <1>4, <3>1, <3>2, <3>3
  <2> QED BY <2>1, <2>2
<1>11. b = front \o back
  BY <1>5, <1>9, <1>10, SeqEqual
<1> QED BY <1>4, <1>11 DEF a, b, q, front, back, Without

(* What a step may do to the order. *)
OrderChange ==
    \/ InstallRehashed
    \/ htable_create
    \/ count' = count /\ Order' = Order
    \/ /\ count' = count + 1
       /\ \E k \in Key : HitSlots(k) = {} /\ Order' = Append(Order, k)
    \/ /\ count' = count - 1
       /\ \E n \in DOMAIN Order, k \in Key :
            /\ k = Order[n] /\ HitSlots(k)' = {}
            /\ Order' = SubSeq(Order, 1, n - 1)
                        \o SubSeq(Order, n + 1, Len(Order))

(* A step that leaves the table alone. *)
LEMMA OrderUnchanged ==
    ASSUME UNCHANGED table
    PROVE  count' = count /\ Order' = Order
<1>1. UNCHANGED <<entries, head_idx, entry_capacity, count>>
  BY DEF table
<1>2. Walk' = Walk
  BY <1>1, WalkFollows
<1> QED BY <1>1, <1>2, OrderLists

LEMMA OrderOverwrite ==
    ASSUME TypeOK, TableSound, Threaded, ListRoom, ListRoom',
           NEW k \in Key, NEW d \in Data, Overwrite(k, d)
    PROVE  count' = count /\ Order' = Order
<1>1. PICK p \in [1..count -> LiveEntries] :
        Threads(p, count, entries, head_idx, tail_idx, LiveEntries)
  BY DEF Threaded
<1>2. /\ Threads(p, count', entries', head_idx', tail_idx', LiveEntries')
      /\ \A e \in LiveEntries : entries'[e].key = entries[e].key
  BY <1>1, ListOverwrite
<1>3. count' = count
  BY DEF Overwrite
<1>4. KeysAlong(p, count, entries') = KeysAlong(p, count, entries)
  <2>1. \A n \in 1..count : p[n] \in LiveEntries
    BY <1>1
  <2>2. \A n \in 1..count : entries'[p[n]].key = entries[p[n]].key
    BY <1>2, <2>1
  <2> QED BY <2>2, SameKeys
<1>5. Order = KeysAlong(p, count, entries)
  BY <1>1, OrderIs
<1>6. Order' = KeysAlong(p, count', entries')
  BY <1>2, OrderIsNext
<1> QED BY <1>3, <1>4, <1>5, <1>6

LEMMA OrderInsert ==
    ASSUME TypeOK, TableSound, Threaded, ListRoom, ListRoom',
           entry_next_insert < entry_capacity,
           NEW k \in Key, NEW d \in Data, Insert(k, d)
    PROVE  count' = count + 1 /\ HitSlots(k) = {} /\ Order' = Append(Order, k)
<1>1. PICK p \in [1..count -> LiveEntries] :
        Threads(p, count, entries, head_idx, tail_idx, LiveEntries)
  BY DEF Threaded
<1>2. PICK idx \in 0..entry_capacity - 1 :
        /\ Threads(Longer(p, count, idx), count', entries', head_idx', tail_idx',
                   LiveEntries')
        /\ entries'[idx].key = k
        /\ \A e \in LiveEntries : entries'[e].key = entries[e].key
  BY <1>1, ListInsert
<1>3. count' = count + 1 /\ HitSlots(k) = {} /\ count \in Nat
  BY DEF Insert, TypeOK
<1>4. Order = KeysAlong(p, count, entries)
  BY <1>1, OrderIs
<1>5. Order' = KeysAlong(Longer(p, count, idx), count + 1, entries')
  BY <1>2, <1>3, OrderIsNext
<1>6. \A e \in LiveEntries : entries[e].key \in Key
  BY DEF ListRoom
<1>7. KeysAlong(Longer(p, count, idx), count + 1, entries')
        = Append(KeysAlong(p, count, entries), k)
  <2>1. \A n \in 1..count : p[n] \in LiveEntries
    BY <1>1
  <2>2. KeysStay(p, count, entries, entries')
    BY <1>2, <1>6, <2>1 DEF KeysStay
  <2> QED BY <1>2, <1>3, <2>2, LongerKeys
<1> QED BY <1>3, <1>4, <1>5, <1>7

LEMMA OrderDelete ==
    ASSUME TypeOK, TableSound, Threaded, ListRoom, ListRoom', pc # "freed",
           NEW k \in Key, NEW s \in HitSlots(k), DeleteAt(k, s)
    PROVE  /\ count' = count - 1
           /\ \E n \in DOMAIN Order :
                /\ k = Order[n] /\ HitSlots(k)' = {}
                /\ Order' = SubSeq(Order, 1, n - 1)
                            \o SubSeq(Order, n + 1, Len(Order))
<1>1. PICK p \in [1..count -> LiveEntries] :
        Threads(p, count, entries, head_idx, tail_idx, LiveEntries)
  BY DEF Threaded
<1>2. PICK j \in 1..count :
        /\ LiveEntries' = LiveEntries \ {p[j]}
        /\ Threads(Shorter(p, count, j), count', entries', head_idx', tail_idx',
                   LiveEntries')
        /\ p[j] = index_list[s] - 1 /\ entries[p[j]].key = k
        /\ \A e \in LiveEntries : entries'[e].key = entries[e].key
  BY <1>1, ListDelete
<1>3. count' = count - 1 /\ count \in Nat
  BY DEF DeleteAt, TypeOK
<1>4. Order = KeysAlong(p, count, entries)
  BY <1>1, OrderIs
<1>5. Order' = KeysAlong(Shorter(p, count, j), count - 1, entries')
  BY <1>2, <1>3, OrderIsNext
<1>6. \A e \in LiveEntries : entries[e].key \in Key
  BY DEF ListRoom
<1>7. Order' = SubSeq(Order, 1, j - 1) \o SubSeq(Order, j + 1, Len(Order))
  <2>1. \A n \in 1..count : p[n] \in LiveEntries
    BY <1>1
  <2>2. KeysStay(p, count, entries, entries')
    BY <1>2, <1>6, <2>1 DEF KeysStay
  <2>3. KeysAlong(Shorter(p, count, j), count - 1, entries')
          = Without(KeysAlong(p, count, entries), j)
    BY <1>3, <2>2, ShorterKeys
  <2> QED BY <1>4, <1>5, <2>3 DEF Without
<1>8. j \in DOMAIN Order /\ k = Order[j]
  BY <1>2, <1>4 DEF KeysAlong
<1>9. HitSlots(k)' = {}
  <2>1. /\ s \in LiveSlots
        /\ \A t \in LiveSlots : EntryAt(t).key = k => t = s
    BY HitIsBound
  <2>2. /\ index_list \in [0..index_capacity - 1 -> Int] /\ index_capacity \in Nat
        /\ index_list' = [index_list EXCEPT ![s] = HT_DELETED]
        /\ index_capacity' = index_capacity
    BY DEF TypeOK, Slots, DeleteAt, Bury
  <2>3. ASSUME NEW t \in 0..index_capacity - 1, index_list'[t] > 0
        PROVE  entries'[index_list'[t] - 1].key # k
    <3>1. t # s
      BY <2>2, <2>3 DEF HT_DELETED
    <3>2. index_list'[t] = index_list[t] /\ index_list[t] > 0
      BY <2>2, <2>3, <3>1
    <3>3. t \in LiveSlots
      BY <3>2 DEF LiveSlots, Slots, Live
    <3>4. entries[index_list[t] - 1].key # k
      BY <2>1, <3>1, <3>3 DEF EntryAt
    <3>5. index_list[t] - 1 \in LiveEntries
      BY <3>3 DEF LiveEntries
    <3> QED BY <1>2, <3>2, <3>4, <3>5
  <2>4. \A t \in Slots' : ~Holds(t, k)'
    BY <2>2, <2>3 DEF Holds, Live, EntryAt, Slots
  <2> QED BY <2>4 DEF HitSlots
<1> QED BY <1>3, <1>7, <1>8, <1>9

(* Only growth and a new table rearrange the order. *)
LEMMA OrderStep ==
    IndInv /\ ListInv /\ ListRoom /\ ListRoom' /\ [Next]_vars => [OrderChange]_vars
<1> SUFFICES ASSUME IndInv, ListInv, ListRoom, ListRoom', [Next]_vars
             PROVE  OrderChange \/ UNCHANGED vars
  OBVIOUS
<1>0. TypeOK /\ TableSound /\ Threaded
  BY DEF IndInv, ListInv
<1>a. ASSUME UNCHANGED table PROVE OrderChange
  BY <1>a, OrderUnchanged DEF OrderChange
<1>b. ASSUME NEW k \in Key, NEW d \in Data, StoreBinding(k, d),
             entry_next_insert < entry_capacity
      PROVE  OrderChange
  <2>1. CASE Overwrite(k, d)
    BY <1>0, <2>1, OrderOverwrite DEF OrderChange
  <2>2. CASE InsertFails(k)
    BY <1>a, <2>2 DEF InsertFails
  <2>3. CASE Insert(k, d)
    <3>1. count' = count + 1 /\ HitSlots(k) = {} /\ Order' = Append(Order, k)
      BY <1>0, <1>b, <2>3, OrderInsert
    <3> QED BY <3>1 DEF OrderChange
  <2> QED BY <1>b, <2>1, <2>2, <2>3 DEF StoreBinding
<1>1. ASSUME NEW k \in Key, htable_get(k) PROVE OrderChange
  BY <1>1, <1>a DEF htable_get
<1>2. ASSUME NEW k \in Key, htable_delete(k) PROVE OrderChange
  <2>1. pc = "idle"
    BY <1>2 DEF htable_delete
  <2>2. CASE DeleteFails
    BY <1>a, <2>2 DEF DeleteFails
  <2>3. ASSUME NEW s \in HitSlots(k), DeleteAt(k, s) PROVE OrderChange
    <3>1. /\ count' = count - 1
          /\ \E n \in DOMAIN Order :
               /\ k = Order[n] /\ HitSlots(k)' = {}
               /\ Order' = SubSeq(Order, 1, n - 1)
                           \o SubSeq(Order, n + 1, Len(Order))
      BY <1>0, <2>1, <2>3, OrderDelete
    <3> QED BY <3>1 DEF OrderChange
  <2> QED BY <1>2, <2>2, <2>3 DEF htable_delete
<1>3. ASSUME NEW k \in Key, NEW d \in Data, htable_set(k, d) PROVE OrderChange
  <2>1. ~MustGrow /\ StoreBinding(k, d)
    BY <1>3 DEF htable_set
  <2>2. entry_next_insert < entry_capacity
    BY <1>0, <2>1 DEF MustGrow, TypeOK
  <2> QED BY <1>b, <2>1, <2>2
<1>4. ASSUME NEW k \in Key, NEW d \in Data, htable_grow(k, d) PROVE OrderChange
  BY <1>4, <1>a DEF htable_grow
<1>5. CASE GrowFails
  BY <1>5, <1>a DEF GrowFails
<1>6. CASE htable_rehash
  BY <1>6, <1>a DEF htable_rehash
<1>7. CASE InstallRehashed
  BY <1>7 DEF OrderChange
<1>8. CASE SetAfterGrow
  <2>1. pc = "insert" /\ StoreBinding(call[1], call[2])
    BY <1>8 DEF SetAfterGrow
  <2>2. /\ entry_next_insert < entry_capacity
        /\ call[1] \in Key /\ call[2] \in Data
    BY <2>1 DEF IndInv, TypeOK
  <2> QED BY <1>b, <2>1, <2>2
<1>9. CASE htable_free
  BY <1>9, <1>a DEF htable_free
<1>10. CASE htable_create
  BY <1>10 DEF OrderChange
<1> QED BY <1>1, <1>2, <1>3, <1>4, <1>5, <1>6, <1>7, <1>8, <1>9, <1>10 DEF Next

(* Iteration order is insertion order: the key that a call adds comes last *)
(* and the key that a call removes leaves the others as they were; only    *)
(* growth (and a new table) may rearrange them.                            *)
THEOREM OrderIsKept == Spec => OrderKept
<1>1. [OrderChange]_vars =>
        [\/ InstallRehashed
         \/ htable_create
         \/ count' = count /\ Order' = Order
         \/ /\ count' = count + 1
            /\ \E k \in Key : HitSlots(k) = {} /\ Order' = Append(Order, k)
         \/ /\ count' = count - 1
            /\ \E n \in DOMAIN Order, k \in Key :
                 /\ k = Order[n] /\ HitSlots(k)' = {}
                 /\ Order' = SubSeq(Order, 1, n - 1)
                             \o SubSeq(Order, n + 1, Len(Order))
        ]_vars
  BY DEF OrderChange
<1> QED BY <1>1, ListInvariance, ListRoomHolds, OrderStep, PTL DEF Spec, OrderKept

-----------------------------------------------------------------------------
(* Loops over the table (HTableIter).                                      *)

(* The keys along p are different. *)
KeysDiffer(p, L, es) ==
    \A m, n \in 1..L : es[p[m]].key = es[p[n]].key => m = n

(* A loop that has come to the j-th entry of p has counted the keys of ks  *)
(* up to there once, and the others not yet.                               *)
Counted(p, L, es, j, ks, tm) ==
    /\ \A k \in ks : \E n \in 1..L : es[p[n]].key = k
    /\ \A n \in 1..L : es[p[n]].key \in ks =>
         tm[es[p[n]].key] = IF n <= j THEN 1 ELSE 0

LEMMA CountedStays ==
    ASSUME NEW p, NEW L, NEW es, NEW es2, NEW j, NEW ks, NEW tm,
           Counted(p, L, es, j, ks, tm), KeysStay(p, L, es, es2)
    PROVE  Counted(p, L, es2, j, ks, tm)
    BY DEF Counted, KeysStay

(* One more for the key x if it is one of ks. *)
CountOf(x, ks, tm) == IF x \in ks THEN [tm EXCEPT ![x] = @ + 1] ELSE tm

(* The next iteration counts one more. *)
LEMMA CountedVisit ==
    ASSUME NEW p, NEW L \in Nat, NEW es, NEW j \in 0..L, j # L, NEW ks,
           NEW tm, tm \in [Key -> Nat], Counted(p, L, es, j, ks, tm),
           KeysDiffer(p, L, es), KeysStay(p, L, es, es),
           NEW x, x = es[p[j + 1]].key
    PROVE  /\ Counted(p, L, es, j + 1, ks, CountOf(x, ks, tm))
           /\ CountOf(x, ks, tm) \in [Key -> Nat]
<1>0. PICK tm2 : tm2 = IF x \in ks THEN [tm EXCEPT ![x] = @ + 1] ELSE tm
  OBVIOUS
<1>1. j + 1 \in 1..L
  OBVIOUS
<1>2. x \in Key /\ tm[x] \in Nat
  BY <1>1 DEF KeysStay
<1>3. tm2 \in [Key -> Nat]
  BY <1>0, <1>2
<1>4. ASSUME NEW n \in 1..L, es[p[n]].key \in ks
      PROVE  tm2[es[p[n]].key] = IF n <= j + 1 THEN 1 ELSE 0
  <2>0. PICK y : y = es[p[n]].key
    OBVIOUS
  <2>1. tm[y] = (IF n <= j THEN 1 ELSE 0) /\ y \in Key /\ y \in ks
    BY <1>4, <2>0 DEF Counted, KeysStay
  <2>2. CASE n = j + 1
    <3>1. x = y /\ ~(n <= j) /\ n <= j + 1
      BY <2>0, <2>2
    <3>2. tm2 = [tm EXCEPT ![x] = @ + 1] /\ tm[x] = 0
      BY <1>0, <2>1, <3>1
    <3>3. tm2[x] = 1
      BY <1>2, <3>2
    <3> QED BY <2>0, <3>1, <3>3
  <2>3. CASE n # j + 1
    <3>1. x # y
      BY <1>1, <2>0, <2>3 DEF KeysDiffer
    <3>2. tm2[y] = tm[y]
      BY <1>0, <2>1, <3>1
    <3>3. n <= j <=> n <= j + 1
      BY <2>3
    <3> QED BY <2>0, <2>1, <3>2, <3>3
  <2> QED BY <2>2, <2>3
<1>5. Counted(p, L, es, j + 1, ks, tm2)
  BY <1>4 DEF Counted
<1> QED BY <1>0, <1>3, <1>5 DEF CountOf

(* A new key is not counted. *)
LEMMA CountedLonger ==
    ASSUME NEW p, NEW L \in Nat, NEW es, NEW es2, NEW j \in 0..L, NEW ks, NEW tm,
           Counted(p, L, es, j, ks, tm), KeysStay(p, L, es, es2),
           NEW idx, es2[idx].key \notin ks
    PROVE  Counted(Longer(p, L, idx), L + 1, es2, j, ks, tm)
<1>1. PICK q : q = Longer(p, L, idx)
  OBVIOUS
<1>2. q[L + 1] = idx /\ \A n \in 1..L : q[n] = p[n] /\ n \in 1..L + 1
  BY <1>1 DEF Longer
<1>3. \A n \in 1..L + 1 : n = L + 1 \/ n \in 1..L
  OBVIOUS
<1>4. \A n \in 1..L : es2[p[n]].key = es[p[n]].key
  BY DEF KeysStay
<1>5. ASSUME NEW k \in ks PROVE \E n \in 1..L + 1 : es2[q[n]].key = k
  <2>1. PICK n \in 1..L : es[p[n]].key = k
    BY DEF Counted
  <2> QED BY <1>2, <1>4, <2>1
<1>6. ASSUME NEW n \in 1..L + 1, es2[q[n]].key \in ks
      PROVE  tm[es2[q[n]].key] = IF n <= j THEN 1 ELSE 0
  <2>1. n \in 1..L
    BY <1>2, <1>3, <1>6
  <2>2. es2[q[n]].key = es[p[n]].key
    BY <1>2, <1>4, <2>1
  <2> QED BY <1>6, <2>1, <2>2 DEF Counted
<1> QED BY <1>1, <1>5, <1>6 DEF Counted

(* Nor is a key that was deleted. *)
LEMMA CountedShorter ==
    ASSUME NEW p, NEW L \in Nat, NEW es, NEW es2, NEW j \in 0..L, NEW ks, NEW tm,
           Counted(p, L, es, j, ks, tm), KeysStay(p, L, es, es2),
           KeysDiffer(p, L, es), tm \in [Key -> Nat],
           NEW m \in 1..L, NEW k, k = es[p[m]].key
    PROVE  Counted(Shorter(p, L, m), L - 1, es2, IF m <= j THEN j - 1 ELSE j,
                   ks \ {k}, [tm EXCEPT ![k] = 0])
<1>1. PICK q : q = Shorter(p, L, m)
  OBVIOUS
<1>2. \A n \in 1..L - 1 : /\ q[n] = p[IF n < m THEN n ELSE n + 1]
                          /\ (IF n < m THEN n ELSE n + 1) \in 1..L
                          /\ (IF n < m THEN n ELSE n + 1) # m
  BY <1>1 DEF Shorter
<1>3. \A n \in 1..L : /\ es2[p[n]].key = es[p[n]].key /\ es[p[n]].key \in Key
                      /\ n # m => es[p[n]].key # k
  BY DEF KeysStay, KeysDiffer
<1>4. ASSUME NEW x \in ks, x # k PROVE \E n \in 1..L - 1 : es2[q[n]].key = x
  <2>1. PICK n \in 1..L : es[p[n]].key = x
    BY DEF Counted
  <2>2. n # m
    BY <1>4, <2>1
  <2>3. CASE n < m
    <3>1. n \in 1..L - 1
      BY <2>3
    <3>2. q[n] = p[n]
      BY <1>2, <2>3, <3>1
    <3> QED BY <1>3, <2>1, <3>1, <3>2
  <2>4. CASE n > m
    <3>1. n - 1 \in 1..L - 1 /\ ~(n - 1 < m) /\ n - 1 + 1 = n
      BY <2>4
    <3>2. q[n - 1] = p[n]
      BY <1>2, <3>1
    <3> QED BY <1>3, <2>1, <3>1, <3>2
  <2> QED BY <2>2, <2>3, <2>4
<1>5. ASSUME NEW n \in 1..L - 1, es2[q[n]].key \in ks \ {k}
      PROVE  [tm EXCEPT ![k] = 0][es2[q[n]].key]
               = IF n <= (IF m <= j THEN j - 1 ELSE j) THEN 1 ELSE 0
  <2>1. PICK n2 \in 1..L : /\ n2 = (IF n < m THEN n ELSE n + 1) /\ n2 # m
                           /\ q[n] = p[n2]
    BY <1>2
  <2>2. PICK y : y = es2[q[n]].key
    OBVIOUS
  <2>3. y = es[p[n2]].key /\ y \in Key /\ y \in ks /\ y # k
    BY <1>3, <1>5, <2>1, <2>2
  <2>4. tm[y] = IF n2 <= j THEN 1 ELSE 0
    BY <2>3 DEF Counted
  <2>5. [tm EXCEPT ![k] = 0][y] = tm[y]
    BY <2>3
  <2>6. n2 <= j <=> n <= (IF m <= j THEN j - 1 ELSE j)
    BY <2>1
  <2> QED BY <2>2, <2>4, <2>5, <2>6
<1> QED BY <1>1, <1>4, <1>5 DEF Counted

(* The keys in a sound table are different. *)
LEMMA LiveKeysDiffer ==
    ASSUME TypeOK, TableSound, NEW p,
           Threads(p, count, entries, head_idx, tail_idx, LiveEntries)
    PROVE  KeysDiffer(p, count, entries)
<1>1. Sound(index_list, index_capacity, entries, entry_next_insert)
  BY DEF TableSound
<1>2. /\ \A n \in 1..count : p[n] \in LiveEntries
      /\ \A m, n \in 1..count : p[m] = p[n] => m = n
  BY DEF Threads
<1>3. \A e \in LiveEntries : \E s \in 0..index_capacity - 1 :
        index_list[s] > 0 /\ e = index_list[s] - 1
  BY DEF LiveEntries, LiveSlots, Slots, Live
<1>4. ASSUME NEW a \in LiveEntries, NEW b \in LiveEntries,
             entries[a].key = entries[b].key
      PROVE  a = b
  <2>1. PICK s \in 0..index_capacity - 1 : index_list[s] > 0 /\ a = index_list[s] - 1
    BY <1>3
  <2>2. PICK t \in 0..index_capacity - 1 : index_list[t] > 0 /\ b = index_list[t] - 1
    BY <1>3
  <2>3. s = t
    BY <1>1, <1>4, <2>1, <2>2 DEF Sound
  <2> QED BY <2>1, <2>2, <2>3
<1> QED BY <1>2, <1>4 DEF KeysDiffer

(* An entry that leaves keeps its own links. *)
LEMMA UnlinkKeepsOwn ==
    ASSUME NEW N \in Nat, entries \in [0..N - 1 -> Entry],
           NEW live \in SUBSET (0..N - 1), NEW p, NEW L,
           Threads(p, L, entries, head_idx, tail_idx, live),
           NEW j \in 1..L, NEW idx, idx = p[j], Unlink(idx)
    PROVE  entries'[idx] = entries[idx]
<1>1. /\ L \in Nat /\ p \in [1..L -> live]
      /\ \A m, n \in 1..L : p[m] = p[n] => m = n
      /\ entries[p[j]].prev_idx = IF j = 1 THEN NONE ELSE p[j - 1]
      /\ entries[p[j]].next_idx = IF j = L THEN NONE ELSE p[j + 1]
  BY DEF Threads
<1>2. \A n \in 1..L : p[n] \in 0..N - 1
  BY <1>1
<1>3. PICK b, f : b = entries[idx].prev_idx /\ f = entries[idx].next_idx
  OBVIOUS
<1>4. /\ j # 1 => j - 1 \in 1..L /\ b = p[j - 1]
      /\ j = 1 => b = NONE
      /\ j # L => j + 1 \in 1..L /\ f = p[j + 1]
      /\ j = L => f = NONE
  BY <1>1, <1>3
<1>5. NONE \notin 0..N - 1
  BY DEF NONE
<1>6. idx \in 0..N - 1 /\ b # idx /\ f # idx
  <2>1. j # 1 => j - 1 # j
    OBVIOUS
  <2>2. j # L => j + 1 # j
    OBVIOUS
  <2> QED BY <1>1, <1>2, <1>4, <1>5, <2>1, <2>2
<1>7. /\ b \in 0..N - 1 \/ b = NONE
      /\ f \in 0..N - 1 \/ f = NONE
  BY <1>2, <1>4
<1>8. b = f => b = NONE
  <2>1. j # 1 /\ j # L => b # f
    <3>1. j - 1 # j + 1
      OBVIOUS
    <3> QED BY <1>1, <1>4, <3>1
  <2> QED BY <1>2, <1>4, <1>5, <2>1
<1>9. \A x \in (0..N - 1) \ {b, f} : entries'[x] = entries[x]
  BY <1>3, <1>6, <1>7, <1>8, UnlinkLinks
<1> QED BY <1>6, <1>9

(* The loop has come to the j-th entry of the list p, or past it when the  *)
(* body has deleted that entry; the link it will follow leads to the next. *)
IterAt(p, j) ==
    /\ Threads(p, count, entries, head_idx, tail_idx, LiveEntries)
    /\ j \in 0..count
    /\ Counted(p, count, entries, j, kept, times)
    /\ it.idx \in 0..entry_capacity - 1
    /\ entries[it.idx].next_idx = IF j = count THEN NONE ELSE p[j + 1]
    /\ gone => it.idx \notin LiveEntries
    /\ ~gone => j \in 1..count /\ it.idx = p[j]

InBody ==
    /\ it.array = index_capacity
    /\ \E p \in [1..count -> LiveEntries], j \in 0..count : IterAt(p, j)

IterInv ==
    /\ times \in [Key -> Nat] /\ kept \in SUBSET Key
    /\ loop \in {"outside", "body", "over"}
    /\ loop # "outside" => pc = "idle"
    /\ loop = "body" => InBody
    /\ loop = "over" => \A k \in kept : times[k] = 1

LEMMA InBodyNext ==
    ASSUME NEW p, NEW j, IterAt(p, j)', it'.array = index_capacity'
    PROVE  InBody'
<1>1. p \in [1..count' -> LiveEntries'] /\ j \in 0..count'
  BY DEF IterAt, Threads
<1> QED BY <1>1 DEF InBody

(* has_next and the body's first look, from the j-th entry on. *)
LEMMA VisitKeeps ==
    ASSUME TypeOK, TableSound, pc = "idle", UNCHANGED vars,
           NEW p, Threads(p, count, entries, head_idx, tail_idx, LiveEntries),
           NEW j \in 0..count, NEW ks \in SUBSET Key,
           NEW tm, tm \in [Key -> Nat], Counted(p, count, entries, j, ks, tm),
           NEW e, e.array = index_capacity,
           e.idx = IF j = count THEN NONE ELSE p[j + 1],
           Visit(e, tm, ks), kept' = ks
    PROVE  IterInv'
<1>1. /\ UNCHANGED <<index_list, index_capacity, entries, entry_capacity, count,
                     head_idx, tail_idx, pc>>
      /\ UNCHANGED table
  BY DEF vars, table
<1>2. /\ LiveEntries' = LiveEntries
      /\ Threads(p, count', entries', head_idx', tail_idx', LiveEntries')
  BY <1>1, ListUnchanged
<1>3. /\ it' = e /\ gone' = FALSE
      /\ loop' = IF e.idx = NONE THEN "over" ELSE "body"
      /\ times' = IF e.idx # NONE /\ KeyAt(e) \in ks
                  THEN [tm EXCEPT ![KeyAt(e)] = @ + 1] ELSE tm
  BY DEF Visit
<1>4. /\ LiveEntries \in SUBSET (0..entry_capacity - 1) /\ count \in Nat
      /\ entries \in [0..entry_capacity - 1 -> Entry]
      /\ entry_capacity \in Nat
      /\ \A s \in LiveSlots : EntryAt(s).key \in Key
  BY LiveEntriesFacts
<1>5. \A n \in 1..count : p[n] \in LiveEntries
  BY DEF Threads
<1>6. KeysStay(p, count, entries, entries)
  <2>1. \A x \in LiveEntries : entries[x].key \in Key
    BY <1>4 DEF LiveEntries, EntryAt
  <2> QED BY <1>5, <2>1 DEF KeysStay
<1>7. CASE j = count
  <2>1. loop' = "over" /\ times' = tm
    BY <1>3, <1>7
  <2>2. ASSUME NEW k \in ks PROVE tm[k] = 1
    <3>1. PICK n \in 1..count : entries[p[n]].key = k
      BY DEF Counted
    <3>2. n <= j
      BY <1>7, <3>1
    <3> QED BY <3>1, <3>2 DEF Counted
  <2> QED BY <1>1, <2>1, <2>2 DEF IterInv
<1>8. CASE j # count
  <2>1. j + 1 \in 1..count /\ e.idx = p[j + 1]
    BY <1>4, <1>8
  <2>2. e.idx \in LiveEntries /\ e.idx \in 0..entry_capacity - 1 /\ e.idx # NONE
    <3>1. NONE \notin 0..entry_capacity - 1
      BY DEF NONE
    <3> QED BY <1>4, <1>5, <2>1, <3>1
  <2>3. KeyAt(e) = entries[p[j + 1]].key
    BY <1>4, <2>1, <2>2 DEF KeyAt
  <2>4. PICK x : x = KeyAt(e)
    OBVIOUS
  <2>5. times' = IF x \in ks THEN [tm EXCEPT ![x] = @ + 1] ELSE tm
    BY <1>3, <2>2, <2>4
  <2>6. KeysDiffer(p, count, entries)
    BY LiveKeysDiffer
  <2>7. Counted(p, count, entries, j + 1, ks, times') /\ times' \in [Key -> Nat]
    <3>1. x = entries[p[j + 1]].key
      BY <2>3, <2>4
    <3>2. /\ Counted(p, count, entries, j + 1, ks, CountOf(x, ks, tm))
          /\ CountOf(x, ks, tm) \in [Key -> Nat]
      BY <1>4, <1>6, <1>8, <2>6, <3>1, CountedVisit
    <3>3. times' = CountOf(x, ks, tm)
      BY <2>5 DEF CountOf
    <3> QED BY <3>2, <3>3
  <2>8. entries[p[j + 1]].next_idx = IF j + 1 = count THEN NONE ELSE p[j + 1 + 1]
    BY <2>1 DEF Threads
  <2>9. j + 1 \in 0..count
    BY <2>1
  <2>10. IterAt(p, j + 1)'
    BY <1>1, <1>2, <1>3, <2>1, <2>2, <2>7, <2>8, <2>9 DEF IterAt
  <2>11. InBody'
    BY <1>1, <1>3, <2>10, InBodyNext
  <2>12. loop' = "body"
    BY <1>3, <2>2
  <2> QED BY <1>1, <2>7, <2>11, <2>12 DEF IterInv
<1> QED BY <1>7, <1>8

LEMMA IterUnchanged ==
    ASSUME IterInv, UNCHANGED table, pc' = pc, UNCHANGED iter_vars
    PROVE  IterInv'
<1>1. /\ UNCHANGED <<index_list, index_capacity, entries, entry_capacity, count,
                     head_idx, tail_idx>>
      /\ UNCHANGED <<it, loop, times, kept, gone>>
  BY DEF table, iter_vars
<1>2. LiveEntries' = LiveEntries
  BY <1>1 DEF LiveEntries, LiveSlots, Slots, Live
<1>3. InBody => InBody'
  <2> SUFFICES ASSUME InBody PROVE InBody'
    OBVIOUS
  <2>1. PICK p \in [1..count -> LiveEntries], j \in 0..count : IterAt(p, j)
    BY DEF InBody
  <2>2. IterAt(p, j)'
    BY <1>1, <1>2, <2>1 DEF IterAt
  <2> QED BY <1>1, <2>2, InBodyNext DEF InBody
<1> QED BY <1>1, <1>3 DEF IterInv

(* What IterAt says, and what the lemmas on the list need. *)
LEMMA IterFacts ==
    ASSUME TypeOK, TableSound, NEW p, NEW j, IterAt(p, j)
    PROVE  /\ KeysDiffer(p, count, entries)
           /\ \A n \in 1..count : p[n] \in LiveEntries /\ entries[p[n]].key \in Key
           /\ LiveEntries \in SUBSET (0..entry_capacity - 1)
           /\ entries \in [0..entry_capacity - 1 -> Entry]
           /\ entry_capacity \in Nat /\ count \in Nat
<1>1. Threads(p, count, entries, head_idx, tail_idx, LiveEntries)
  BY DEF IterAt
<1>2. KeysDiffer(p, count, entries)
  BY <1>1, LiveKeysDiffer
<1>3. /\ LiveEntries \in SUBSET (0..entry_capacity - 1) /\ count \in Nat
      /\ entries \in [0..entry_capacity - 1 -> Entry]
      /\ entry_capacity \in Nat
      /\ \A s \in LiveSlots : EntryAt(s).key \in Key
  BY LiveEntriesFacts
<1>4. \A n \in 1..count : p[n] \in LiveEntries
  BY <1>1 DEF Threads
<1>5. \A x \in LiveEntries : entries[x].key \in Key
  BY <1>3 DEF LiveEntries, EntryAt
<1> QED BY <1>2, <1>3, <1>4, <1>5

(* New data in the body. *)
LEMMA IterOverwrite ==
    ASSUME TypeOK, TableSound, NEW p, NEW j, IterAt(p, j), ~gone,
           NEW k \in Key, NEW d \in Data, Overwrite(k, d), UNCHANGED iter_vars
    PROVE  IterAt(p, j)'
<1>1. Threads(p, count, entries, head_idx, tail_idx, LiveEntries)
  BY DEF IterAt
<1>2. /\ LiveEntries' = LiveEntries
      /\ Threads(p, count', entries', head_idx', tail_idx', LiveEntries')
      /\ \A e \in LiveEntries : entries'[e].key = entries[e].key
  BY <1>1, ListOverwrite
<1>3. UNCHANGED <<count, entry_capacity, it, times, kept, gone>>
  BY DEF Overwrite, iter_vars
<1>4. /\ \A n \in 1..count : p[n] \in LiveEntries /\ entries[p[n]].key \in Key
      /\ LiveEntries \in SUBSET (0..entry_capacity - 1)
  BY IterFacts
<1>5. KeysStay(p, count, entries, entries')
  BY <1>2, <1>4 DEF KeysStay
<1>6. Counted(p, count, entries', j, kept, times)
  BY <1>5, CountedStays DEF IterAt
<1>7. j \in 1..count /\ it.idx = p[j]
  BY DEF IterAt
<1>8. entries'[it.idx].next_idx = IF j = count THEN NONE ELSE p[j + 1]
  BY <1>2, <1>3, <1>7 DEF Threads
<1> QED BY <1>2, <1>3, <1>4, <1>6, <1>7, <1>8 DEF IterAt

(* A key that the body inserts comes after the entry the loop is at. *)
LEMMA IterInsert ==
    ASSUME TypeOK, TableSound, entry_next_insert < entry_capacity,
           NEW p, NEW j, IterAt(p, j), ~gone,
           NEW k \in Key, NEW d \in Data, Insert(k, d), UNCHANGED iter_vars
    PROVE  \E q : IterAt(q, j)'
<1>1. Threads(p, count, entries, head_idx, tail_idx, LiveEntries)
  BY DEF IterAt
<1>2. PICK idx \in 0..entry_capacity - 1 :
        /\ idx \notin LiveEntries /\ LiveEntries' = LiveEntries \cup {idx}
        /\ Threads(Longer(p, count, idx), count', entries', head_idx',
                   tail_idx', LiveEntries')
        /\ entries'[idx].key = k
        /\ \A e \in LiveEntries : entries'[e].key = entries[e].key
  BY <1>1, ListInsert
<1>3. /\ UNCHANGED <<entry_capacity, it, times, kept, gone>>
      /\ count' = count + 1 /\ HitSlots(k) = {}
  BY DEF Insert, iter_vars
<1>4. /\ \A n \in 1..count : p[n] \in LiveEntries /\ entries[p[n]].key \in Key
      /\ LiveEntries \in SUBSET (0..entry_capacity - 1)
      /\ count \in Nat
  BY IterFacts
<1>5. KeysStay(p, count, entries, entries')
  BY <1>2, <1>4 DEF KeysStay
<1>6. k \notin kept
  <2>1. \A e \in LiveEntries : entries[e].key # k
    <3>1. Sound(index_list, index_capacity, entries, entry_next_insert)
      BY DEF TableSound
    <3>2. \A s \in Slots : ~Holds(s, k)
      BY <1>3, <3>1, HitExact
    <3> QED BY <3>2 DEF LiveEntries, LiveSlots, Holds, EntryAt
  <2>2. \A x \in kept : \E n \in 1..count : entries[p[n]].key = x
    BY DEF IterAt, Counted
  <2> QED BY <1>4, <2>1, <2>2
<1>7. PICK q : q = Longer(p, count, idx)
  OBVIOUS
<1>8. j \in 0..count /\ j \in 1..count /\ it.idx = p[j]
  BY DEF IterAt
<1>9. Counted(q, count', entries', j, kept, times)
  <2>1. Counted(p, count, entries, j, kept, times)
    BY DEF IterAt
  <2>2. entries'[idx].key \notin kept
    BY <1>2, <1>6
  <2> QED BY <1>3, <1>4, <1>5, <1>7, <1>8, <2>1, <2>2, CountedLonger
<1>10. j \in 0..count' /\ j \in 1..count' /\ it.idx = q[j]
  <2>1. j \in 1..count + 1 /\ j # count + 1 /\ j \in 0..count + 1
    BY <1>4, <1>8
  <2> QED BY <1>3, <1>7, <1>8, <2>1 DEF Longer
<1>11. entries'[it.idx].next_idx = IF j = count' THEN NONE ELSE q[j + 1]
  BY <1>2, <1>7, <1>10 DEF Threads
<1>12. it.idx \in 0..entry_capacity - 1
  BY <1>4, <1>8
<1>13. IterAt(q, j)'
  BY <1>2, <1>3, <1>7, <1>9, <1>10, <1>11, <1>12 DEF IterAt
<1> QED BY <1>13

(* After a delete the loop is where it was, or between two entries. *)
LEMMA IterDelete ==
    ASSUME TypeOK, TableSound, NEW p, NEW j, IterAt(p, j), ~gone,
           it.array = index_capacity, times \in [Key -> Nat],
           NEW k \in Key, NEW s \in HitSlots(k), DeleteAt(k, s),
           kept' = kept \ {k}, times' = [times EXCEPT ![k] = 0],
           gone' = (k = KeyAt(it)), it' = it
    PROVE  \E q, l : IterAt(q, l)'
<1>1. Threads(p, count, entries, head_idx, tail_idx, LiveEntries)
  BY DEF IterAt
<1>2. PICK m \in 1..count :
        /\ LiveEntries' = LiveEntries \ {p[m]}
        /\ Threads(Shorter(p, count, m), count', entries', head_idx',
                   tail_idx', LiveEntries')
        /\ p[m] = index_list[s] - 1 /\ entries[p[m]].key = k
        /\ \A e \in LiveEntries : entries'[e].key = entries[e].key
  BY <1>1, ListDelete
<1>3. count' = count - 1 /\ entry_capacity' = entry_capacity
  BY DEF DeleteAt
<1>4. /\ \A n \in 1..count : p[n] \in LiveEntries /\ entries[p[n]].key \in Key
      /\ LiveEntries \in SUBSET (0..entry_capacity - 1)
      /\ entries \in [0..entry_capacity - 1 -> Entry]
      /\ entry_capacity \in Nat /\ count \in Nat
      /\ KeysDiffer(p, count, entries)
  BY IterFacts
<1>5. KeysStay(p, count, entries, entries')
  BY <1>2, <1>4 DEF KeysStay
<1>6. j \in 0..count /\ j \in 1..count /\ it.idx = p[j] /\ it.idx \in LiveEntries
  BY <1>4 DEF IterAt
<1>7. PICK q : q = Shorter(p, count, m)
  OBVIOUS
<1>8. PICK l : l = IF m <= j THEN j - 1 ELSE j
  OBVIOUS
<1>9. Counted(q, count', entries', l, kept', times')
  <2>1. Counted(p, count, entries, j, kept, times)
    BY DEF IterAt
  <2> QED BY <1>2, <1>3, <1>4, <1>5, <1>6, <1>7, <1>8, <2>1, CountedShorter
<1>10. l \in 0..count' /\ it.idx \in 0..entry_capacity - 1
  <2>1. l \in 0..count - 1
    BY <1>4, <1>6, <1>8
  <2> QED BY <1>3, <1>4, <1>6, <2>1
<1>11. gone' <=> m = j
  <2>1. KeyAt(it) = entries[p[j]].key
    BY <1>4, <1>6 DEF KeyAt
  <2>2. entries[p[m]].key = entries[p[j]].key => m = j
    BY <1>4, <1>6 DEF KeysDiffer
  <2>3. gone' <=> k = entries[p[j]].key
    BY <2>1
  <2> QED BY <1>2, <2>2, <2>3
<1>12. CASE m = j
  <2>1. it.idx \notin LiveEntries'
    BY <1>2, <1>6, <1>12
  <2>2. Unlink(p[m])
    BY <1>2 DEF DeleteAt
  <2>3. entries'[it.idx] = entries[it.idx]
    <3>1. PICK idx : idx = p[m]
      OBVIOUS
    <3>2. Unlink(idx)
      BY <2>2, <3>1
    <3>3. entries'[idx] = entries[idx]
      <4>1. /\ entry_capacity \in Nat /\ entries \in [0..entry_capacity - 1 -> Entry]
            /\ LiveEntries \in SUBSET (0..entry_capacity - 1)
            /\ m \in 1..count
        BY <1>4
      <4> QED BY <1>1, <3>1, <3>2, <4>1, UnlinkKeepsOwn, SMTT(30)
    <3> QED BY <1>6, <1>12, <3>1, <3>3
  <2>4. entries[it.idx].next_idx = IF j = count THEN NONE ELSE p[j + 1]
    BY DEF IterAt
  <2>5. l = j - 1 /\ (l = count' <=> j = count)
    BY <1>3, <1>4, <1>6, <1>8, <1>12
  <2>6. j # count => q[l + 1] = p[j + 1]
    <3>1. j # count => l + 1 \in 1..count - 1 /\ ~(l + 1 < m) /\ l + 1 + 1 = j + 1
      BY <1>4, <1>6, <1>12, <2>5
    <3> QED BY <1>7, <3>1 DEF Shorter
  <2>7. entries'[it.idx].next_idx = IF l = count' THEN NONE ELSE q[l + 1]
    BY <2>3, <2>4, <2>5, <2>6
  <2>8. IterAt(q, l)'
    BY <1>2, <1>3, <1>7, <1>9, <1>10, <1>11, <1>12, <2>1, <2>7 DEF IterAt
  <2> QED BY <2>8
<1>13. CASE m # j
  <2>1. l \in 1..count' /\ it.idx = q[l]
    <3>1. l \in 1..count - 1
      BY <1>4, <1>6, <1>8, <1>13
    <3>2. l < m => l = j
      BY <1>6, <1>8, <1>13
    <3>3. ~(l < m) => l + 1 = j
      BY <1>6, <1>8, <1>13
    <3>4. q[l] = IF l < m THEN p[l] ELSE p[l + 1]
      BY <1>7, <3>1 DEF Shorter
    <3> QED BY <1>3, <1>6, <3>1, <3>2, <3>3, <3>4
  <2>2. entries'[it.idx].next_idx = IF l = count' THEN NONE ELSE q[l + 1]
    BY <1>2, <1>7, <2>1 DEF Threads
  <2>3. IterAt(q, l)'
    BY <1>2, <1>3, <1>7, <1>9, <1>10, <1>11, <1>13, <2>1, <2>2 DEF IterAt
  <2> QED BY <2>3
<1> QED BY <1>12, <1>13

(* The first entry, and the one after it. *)
LEMMA StartKeeps ==
    ASSUME TypeOK, TableSound, Threaded, NoKey \notin Key, StartLoop
    PROVE  IterInv'
<1>1. PICK p \in [1..count -> LiveEntries] :
        Threads(p, count, entries, head_idx, tail_idx, LiveEntries)
  BY DEF Threaded
<1>2. /\ pc = "idle" /\ UNCHANGED vars /\ kept' = Keys
      /\ Visit(ht_iter_begin, Never, Keys)
  BY DEF StartLoop
<1>3. PICK e, tm, ks : e = ht_iter_begin /\ tm = Never /\ ks = Keys
  OBVIOUS
<1>4. \A s \in LiveSlots : EntryAt(s).key \in Key
  BY LiveEntriesFacts
<1>5. ks \in SUBSET Key
  BY <1>3, <1>4 DEF Keys
<1>6. tm \in [Key -> Nat] /\ \A k \in Key : tm[k] = 0
  BY <1>3 DEF Never
<1>7. \A n \in 1..count : p[n] \in LiveEntries
  BY <1>1
<1>8. Counted(p, count, entries, 0, ks, tm)
  <2>1. ASSUME NEW k \in ks PROVE \E n \in 1..count : entries[p[n]].key = k
    <3>1. PICK s \in LiveSlots : entries[index_list[s] - 1].key = k
      BY <1>3 DEF Keys, EntryAt
    <3>2. index_list[s] - 1 \in LiveEntries
      BY DEF LiveEntries
    <3>3. PICK n \in 1..count : p[n] = index_list[s] - 1
      BY <1>1, <3>2 DEF Threads
    <3> QED BY <3>1, <3>3
  <2>2. ASSUME NEW n \in 1..count, entries[p[n]].key \in ks
        PROVE  tm[entries[p[n]].key] = IF n <= 0 THEN 1 ELSE 0
    BY <1>5, <1>6, <2>2
  <2> QED BY <2>1, <2>2 DEF Counted
<1>9. e.array = index_capacity /\ e.idx = IF 0 = count THEN NONE ELSE p[0 + 1]
  <2>1. head_idx = IF count = 0 THEN NONE ELSE p[1]
    BY <1>1 DEF Threads
  <2> QED BY <1>3, <2>1 DEF ht_iter_begin
<1>10. 0 \in 0..count /\ Visit(e, tm, ks) /\ kept' = ks
  BY <1>2, <1>3 DEF TypeOK
<1> QED BY <1>1, <1>2, <1>5, <1>6, <1>8, <1>9, <1>10, VisitKeeps

LEMMA NextKeeps ==
    ASSUME TypeOK, TableSound, IterInv, NextIteration
    PROVE  IterInv'
<1>1. /\ loop = "body" /\ pc = "idle" /\ UNCHANGED vars /\ kept' = kept
      /\ Visit(ht_iter_next, times, kept) /\ InBody
      /\ times \in [Key -> Nat] /\ kept \in SUBSET Key
  BY DEF NextIteration, IterInv
<1>2. PICK p \in [1..count -> LiveEntries], j \in 0..count : IterAt(p, j)
  BY <1>1 DEF InBody
<1>3. PICK e, tm, ks : e = ht_iter_next /\ tm = times /\ ks = kept
  OBVIOUS
<1>4. /\ Threads(p, count, entries, head_idx, tail_idx, LiveEntries)
      /\ Counted(p, count, entries, j, ks, tm)
      /\ entries[it.idx].next_idx = IF j = count THEN NONE ELSE p[j + 1]
  BY <1>2, <1>3 DEF IterAt
<1>5. e.array = index_capacity /\ e.idx = IF j = count THEN NONE ELSE p[j + 1]
  BY <1>3, <1>4 DEF ht_iter_next
<1>6. Visit(e, tm, ks) /\ kept' = ks /\ ks \in SUBSET Key /\ tm \in [Key -> Nat]
  BY <1>1, <1>3
<1> QED BY <1>1, <1>4, <1>5, <1>6, VisitKeeps

(* Every step of the loop, of its body and of the table. *)
LEMMA IterStep == IndInv /\ Threaded /\ IterInv /\ [NextIter]_all_vars => IterInv'
<1> SUFFICES ASSUME IndInv, Threaded, IterInv, [NextIter]_all_vars PROVE IterInv'
  OBVIOUS
<1>0. TypeOK /\ TableSound /\ NoKey \notin Key
  BY NoKeyAssumption DEF IndInv
<1>a. ASSUME loop = "body", UNCHANGED <<loop, pc>>, kept' \in SUBSET Key,
             times' \in [Key -> Nat], InBody'
      PROVE  IterInv'
  BY <1>a DEF IterInv
<1>1. CASE StartLoop
  BY <1>0, <1>1, StartKeeps
<1>2. CASE NextIteration
  BY <1>0, <1>2, NextKeeps
<1>3. CASE LeaveLoop
  BY <1>3 DEF LeaveLoop, IterInv, Never
<1>4. ASSUME NEW k \in Key, BodyGet(k) PROVE IterInv'
  BY <1>4, IterUnchanged DEF BodyGet, htable_get
<1>5. ASSUME NEW k \in Key, BodyDelete(k) PROVE IterInv'
  <2>1. /\ loop = "body" /\ ~gone /\ UNCHANGED <<it, loop, pc>>
        /\ htable_delete(k)
        /\ IF ret'.ok
           THEN /\ kept' = kept \ {k}
                /\ times' = [times EXCEPT ![k] = 0]
                /\ gone' = (k = KeyAt(it))
           ELSE UNCHANGED <<kept, times, gone>>
    BY <1>5 DEF BodyDelete, htable_delete
  <2>2. CASE DeleteFails
    <3>1. UNCHANGED table /\ ~ret'.ok
      BY <2>2 DEF DeleteFails
    <3> QED BY <2>1, <3>1, IterUnchanged DEF iter_vars
  <2>3. ASSUME NEW s \in HitSlots(k), DeleteAt(k, s) PROVE IterInv'
    <3>1. ret'.ok /\ index_capacity' = index_capacity
      BY <2>3 DEF DeleteAt
    <3>2. /\ kept' = kept \ {k} /\ times' = [times EXCEPT ![k] = 0]
          /\ gone' = (k = KeyAt(it))
      BY <2>1, <3>1
    <3>3. /\ times \in [Key -> Nat] /\ kept \in SUBSET Key
          /\ it.array = index_capacity
      BY <2>1 DEF IterInv, InBody
    <3>4. PICK p \in [1..count -> LiveEntries], j \in 0..count : IterAt(p, j)
      BY <2>1 DEF IterInv, InBody
    <3>5. PICK q, l : IterAt(q, l)'
      BY <1>0, <2>1, <2>3, <3>2, <3>3, <3>4, IterDelete
    <3>6. InBody'
      BY <2>1, <3>1, <3>3, <3>5, InBodyNext
    <3>7. kept' \in SUBSET Key /\ times' \in [Key -> Nat]
      BY <3>2, <3>3
    <3> QED BY <1>a, <2>1, <3>6, <3>7
  <2> QED BY <2>1, <2>2, <2>3 DEF htable_delete
<1>6. ASSUME NEW k \in Key, NEW d \in Data, BodySet(k, d) PROVE IterInv'
  <2>1. /\ loop = "body" /\ ~gone /\ UNCHANGED iter_vars
        /\ UNCHANGED <<it, loop, times, kept, gone>>
        /\ ~MustGrow /\ StoreBinding(k, d) /\ pc' = pc
    BY <1>6 DEF BodySet, htable_set, iter_vars
  <2>2. entry_next_insert < entry_capacity
    BY <1>0, <2>1 DEF MustGrow, TypeOK
  <2>3. /\ times \in [Key -> Nat] /\ kept \in SUBSET Key
        /\ it.array = index_capacity
    BY <2>1 DEF IterInv, InBody
  <2>4. PICK p \in [1..count -> LiveEntries], j \in 0..count : IterAt(p, j)
    BY <2>1 DEF IterInv, InBody
  <2>5. CASE Overwrite(k, d)
    <3>1. index_capacity' = index_capacity
      BY <2>5 DEF Overwrite
    <3>2. IterAt(p, j)'
      BY <1>0, <2>1, <2>4, <2>5, IterOverwrite
    <3>3. InBody'
      BY <2>1, <2>3, <3>1, <3>2, InBodyNext
    <3> QED BY <1>a, <2>1, <2>3, <3>3
  <2>6. CASE InsertFails(k)
    BY <2>1, <2>6, IterUnchanged DEF InsertFails
  <2>7. CASE Insert(k, d)
    <3>1. index_capacity' = index_capacity
      BY <2>7 DEF Insert
    <3>2. PICK q : IterAt(q, j)'
      BY <1>0, <2>1, <2>2, <2>4, <2>7, IterInsert
    <3>3. InBody'
      BY <2>1, <2>3, <3>1, <3>2, InBodyNext
    <3> QED BY <1>a, <2>1, <2>3, <3>3
  <2> QED BY <2>1, <2>5, <2>6, <2>7 DEF StoreBinding
<1>7. CASE OutsideLoop
  <2>1. loop = "outside" /\ UNCHANGED <<loop, times, kept>>
    BY <1>7 DEF OutsideLoop, iter_vars
  <2> QED BY <2>1 DEF IterInv
<1>8. CASE UNCHANGED all_vars
  <2>1. UNCHANGED table /\ pc' = pc /\ UNCHANGED iter_vars
    BY <1>8 DEF all_vars, vars
  <2> QED BY <2>1, IterUnchanged
<1> QED BY <1>1, <1>2, <1>3, <1>4, <1>5, <1>6, <1>7, <1>8 DEF NextIter

(* With loops the table still takes only its own steps. *)
LEMMA LoopIsTable == SpecIter => Spec
<1>1. InitIter => Init
  BY DEF InitIter
<1>2. [NextIter]_all_vars => [Next]_vars
  <2> SUFFICES ASSUME [NextIter]_all_vars PROVE [Next]_vars
    OBVIOUS
  <2>1. ASSUME NEW k \in Key, BodyGet(k) PROVE Next
    BY <2>1 DEF BodyGet, Next
  <2>2. ASSUME NEW k \in Key, BodyDelete(k) PROVE Next
    BY <2>2 DEF BodyDelete, Next
  <2>3. ASSUME NEW k \in Key, NEW d \in Data, BodySet(k, d) PROVE Next
    BY <2>3 DEF BodySet, Next
  <2>4. CASE OutsideLoop
    BY <2>4 DEF OutsideLoop
  <2>5. CASE StartLoop \/ NextIteration \/ LeaveLoop
    <3>1. UNCHANGED vars
      BY <2>5 DEF StartLoop, NextIteration, LeaveLoop, vars
    <3> QED BY <3>1
  <2>6. CASE UNCHANGED all_vars
    BY <2>6 DEF all_vars
  <2> QED BY <2>1, <2>2, <2>3, <2>4, <2>5, <2>6 DEF NextIter
<1> QED BY <1>1, <1>2, PTL DEF SpecIter, Spec

LEMMA LoopInvariance == SpecIter => [](IndInv /\ IterInv)
<1>1. InitIter => IterInv
  BY DEF InitIter, IterInv, Init, Never
<1>2. IndInv /\ ListInv /\ IterInv /\ [NextIter]_all_vars => IterInv'
  BY IterStep DEF ListInv
<1> QED BY <1>1, <1>2, LoopIsTable, ListInvariance, PTL DEF SpecIter

(* A loop body is run for entries of the table: the iterator of             *)
(* ht_foreach_template points into the array in use, at a live entry unless *)
(* the body has just deleted that one itself.                               *)
THEOREM IteratorIsLive == SpecIter => []IteratorLive
<1>1. IndInv /\ IterInv => IteratorLive
  <2> SUFFICES ASSUME IndInv, IterInv, loop = "body"
               PROVE  it.array = index_capacity /\ (gone \/ it.idx \in LiveEntries)
    BY DEF IteratorLive
  <2>1. it.array = index_capacity
    BY DEF IterInv, InBody
  <2>2. PICK p \in [1..count -> LiveEntries], j \in 0..count : IterAt(p, j)
    BY DEF IterInv, InBody
  <2>3. ~gone => it.idx \in LiveEntries
    BY <2>2 DEF IterAt
  <2> QED BY <2>1, <2>3
<1> QED BY <1>1, LoopInvariance, PTL

(* However the body inserts, deletes and reuses entries, a loop that has   *)
(* ended ran once for each key that was there from its start to its end.   *)
THEOREM LoopVisitsOnce == SpecIter => []EachKeyOnce
<1>1. IterInv => EachKeyOnce
  BY DEF IterInv, EachKeyOnce
<1> QED BY <1>1, LoopInvariance, PTL
=============================================================================
