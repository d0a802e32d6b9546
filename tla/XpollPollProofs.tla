--------------------------- MODULE XpollPollProofs ---------------------------
(* Proofs about XpollPoll, for every set of descriptors, all capacities    *)
(* and any calls in any order.  RegistryExact is inductive as it stands.   *)
EXTENDS XpollPoll, FiniteSetTheorems, TLAPS

(* fd_table grows and loses nothing. *)
LEMMA TableFacts ==
    ASSUME TypeOK, NEW fd \in Fd
    PROVE  /\ fd \in Nat /\ TableCapFor(fd) \in Nat
           /\ fd_table_cap <= TableCapFor(fd)
           /\ TableWithCap(TableCapFor(fd)) \in [0..TableCapFor(fd) - 1 -> Int]
           /\ \A f \in 0..TableCapFor(fd) - 1 :
                TableWithCap(TableCapFor(fd))[f] =
                  IF f < fd_table_cap THEN fd_table[f] ELSE NONE
<1>1. fd \in Nat /\ fd_table_cap \in Nat /\ fd_table \in [0..fd_table_cap - 1 -> Int]
  BY FdAssumption DEF TypeOK
<1>2. TableCapFor(fd) \in Nat /\ fd_table_cap <= TableCapFor(fd)
  BY <1>1, MinCapAssumption DEF TableCapFor, GrownTableCap
<1> DEFINE cap == TableCapFor(fd)
<1> HIDE DEF cap
<1>3. /\ TableWithCap(cap) \in [0..cap - 1 -> Int]
      /\ \A f \in 0..cap - 1 :
           TableWithCap(cap)[f] = IF f < fd_table_cap THEN fd_table[f] ELSE NONE
  BY <1>1 DEF TableWithCap, NONE
<1> QED BY <1>1, <1>2, <1>3 DEF cap

(* pfd_list has room for one more entry and loses none. *)
LEMMA PfdFacts ==
    ASSUME TypeOK
    PROVE  /\ PfdCapForOneMore \in Nat /\ pfd_count < PfdCapForOneMore
           /\ pfd_cap <= PfdCapForOneMore
           /\ PfdsWithCap(pfd_list, PfdCapForOneMore)
                \in [0..PfdCapForOneMore - 1 -> Pfd]
           /\ \A n \in InUse :
                PfdsWithCap(pfd_list, PfdCapForOneMore)[n] = pfd_list[n]
<1>1. /\ pfd_cap \in Nat /\ pfd_count \in 0..pfd_cap
      /\ pfd_list \in [0..pfd_cap - 1 -> Pfd]
  BY DEF TypeOK
<1>2. /\ PfdCapForOneMore \in Nat /\ pfd_count < PfdCapForOneMore
      /\ pfd_cap <= PfdCapForOneMore
  BY <1>1, MinCapAssumption DEF PfdCapForOneMore
<1> DEFINE cap == PfdCapForOneMore
<1> HIDE DEF cap
<1>3. Junk \in Pfd
  BY DEF Junk, Pfd
<1>4. /\ PfdsWithCap(pfd_list, cap) \in [0..cap - 1 -> Pfd]
      /\ \A n \in 0..cap - 1 :
           PfdsWithCap(pfd_list, cap)[n] = IF n < pfd_cap THEN pfd_list[n] ELSE Junk
  BY <1>1, <1>3 DEF PfdsWithCap
<1>5. \A n \in InUse : n \in 0..cap - 1 /\ n < pfd_cap
  BY <1>1, <1>2 DEF cap, InUse
<1> QED BY <1>2, <1>4, <1>5 DEF cap

(* The known descriptors can be counted. *)
LEMMA KnownFinite ==
    ASSUME TypeOK
    PROVE  IsFiniteSet(KnownFds)
<1>1. 0..fd_table_cap - 1 = 0..(fd_table_cap - 1) /\ fd_table_cap - 1 \in Int
  BY DEF TypeOK
<1>2. IsFiniteSet(0..fd_table_cap - 1)
  BY <1>1, FS_Interval
<1>3. KnownFds \in SUBSET (0..fd_table_cap - 1)
  BY DEF KnownFds
<1> QED BY <1>2, <1>3, FS_Subset

-----------------------------------------------------------------------------
(* What each call does, whether or not it strays *)

(* An addition appends an entry; unless it strays, fd_table says where. *)
LEMMA AddFacts ==
    ASSUME TypeOK, NEW fd \in Fd, NEW r \in Regs[fd], CtlAdd(fd, r)
    PROVE  /\ TypeOK'
           /\ fd \notin KnownFds
           /\ pfd_count' = pfd_count + 1
           /\ pfd_list'[pfd_count] = [fd |-> fd, reg |-> r]
           /\ \A n \in InUse : pfd_list'[n] = pfd_list[n]
           /\ oob' = TooFar(fd)
           /\ strayed' = (strayed \/ TooFar(fd))
           /\ ready' = ready
           /\ ~TooFar(fd) => /\ KnownFds' = KnownFds \cup {fd}
                             /\ fd_table'[fd] = pfd_count
                             /\ \A f \in KnownFds : fd_table'[f] = fd_table[f]
<1> DEFINE cap == TableCapFor(fd)
           pcap == PfdCapForOneMore
           tab == TableWithCap(cap)
           pfds == PfdsWithCap(pfd_list, pcap)
           e == [fd |-> fd, reg |-> r]
<1>1. /\ fd \in Nat /\ cap \in Nat /\ fd_table_cap <= cap
      /\ tab \in [0..cap - 1 -> Int]
      /\ \A f \in 0..cap - 1 : tab[f] = IF f < fd_table_cap THEN fd_table[f] ELSE NONE
  BY TableFacts
<1>2. /\ pcap \in Nat /\ pfd_count < pcap
      /\ pfds \in [0..pcap - 1 -> Pfd]
      /\ \A n \in InUse : pfds[n] = pfd_list[n]
  BY PfdFacts
<1>3. /\ fd_table_cap \in Nat /\ fd_table \in [0..fd_table_cap - 1 -> Int]
      /\ pfd_count \in Nat /\ oob \in BOOLEAN /\ strayed \in BOOLEAN
      /\ pfd_last_wait_index \in Nat /\ ready \subseteq Fd
  <2>1. pfd_cap \in Nat /\ pfd_count \in 0..pfd_cap
    BY DEF TypeOK
  <2>2. pfd_count \in Nat
    BY <2>1
  <2> QED BY <2>2 DEF TypeOK
<1>4. e \in Pfd /\ e.fd = fd
  BY DEF Pfd, Reg
<1>5. /\ ~(fd < fd_table_cap /\ fd_table[fd] # NONE)
      /\ fd_table_cap' = cap
      /\ fd_table' = Put(tab, fd, pfd_count)
      /\ pfd_cap' = pcap
      /\ pfd_list' = Put(pfds, pfd_count, e)
      /\ pfd_count' = pfd_count + 1
      /\ oob' = (fd >= cap \/ pfd_count >= pcap)
      /\ strayed' = (strayed \/ TooFar(fd))
      /\ pfd_last_wait_index' = pfd_last_wait_index /\ ready' = ready
  BY DEF CtlAdd, AlreadyThere
<1>6. TooFar(fd) <=> fd >= cap
  BY DEF TooFar
<1> HIDE DEF cap, pcap, tab, pfds, e
<1>7. /\ pfd_list' = [pfds EXCEPT ![pfd_count] = e]
      /\ pfd_list' \in [0..pcap - 1 -> Pfd] /\ pfd_count' \in 0..pcap
      /\ pfd_list'[pfd_count] = e
      /\ \A n \in InUse : pfd_list'[n] = pfd_list[n]
  BY <1>2, <1>3, <1>4, <1>5 DEF Put, InUse
<1>8. fd_table' \in [0..cap - 1 -> Int]
  BY <1>1, <1>3, <1>5 DEF Put
<1>9. oob' = TooFar(fd)
  <2>1. ~(pfd_count >= pcap)
    BY <1>2, <1>3
  <2>2. oob' = (fd >= cap) /\ TooFar(fd) = (fd >= cap)
    BY <1>5, <2>1 DEF TooFar, cap
  <2> QED BY <2>2
<1>10. TypeOK'
  <2>1. TooFar(fd) \in BOOLEAN
    BY DEF TooFar
  <2>2. oob' \in BOOLEAN /\ strayed' \in BOOLEAN
    BY <1>5, <1>9, <2>1
  <2> QED BY <1>1, <1>2, <1>3, <1>5, <1>7, <1>8, <2>2 DEF TypeOK
<1>11. fd \notin KnownFds
  BY <1>3, <1>5 DEF KnownFds
<1>12. ASSUME ~TooFar(fd)
       PROVE  /\ KnownFds' = KnownFds \cup {fd}
              /\ fd_table'[fd] = pfd_count
              /\ \A f \in KnownFds : fd_table'[f] = fd_table[f]
  <2>1. fd \in 0..cap - 1
    BY <1>1, <1>6, <1>12
  <2>2. fd_table' = [tab EXCEPT ![fd] = pfd_count]
    BY <1>1, <1>5, <2>1 DEF Put
  <2>3. fd_table'[fd] = pfd_count /\ pfd_count # NONE
    BY <1>1, <1>3, <2>1, <2>2 DEF NONE
  <2>4. ASSUME NEW f \in 0..cap - 1, f # fd
        PROVE  fd_table'[f] = IF f < fd_table_cap THEN fd_table[f] ELSE NONE
    BY <1>1, <2>2, <2>4
  <2>5. \A f \in KnownFds : f \in 0..cap - 1 /\ f # fd /\ f < fd_table_cap
    BY <1>1, <1>3, <1>11 DEF KnownFds
  <2>6. KnownFds' = {f \in 0..cap - 1 : fd_table'[f] # NONE}
    BY <1>5 DEF KnownFds
  <2>7. \A f : f \in KnownFds' <=> f \in KnownFds \cup {fd}
    <3>1. ASSUME NEW f, f \in KnownFds' PROVE f \in KnownFds \cup {fd}
      <4>1. CASE f # fd
        <5>1. f \in 0..cap - 1 /\ fd_table'[f] # NONE
          BY <2>6, <3>1
        <5>2. f \in Int /\ 0 <= f /\ f < fd_table_cap /\ fd_table[f] # NONE
          BY <1>1, <2>4, <4>1, <5>1
        <5> QED BY <1>3, <5>2 DEF KnownFds
      <4> QED BY <4>1
    <3>2. ASSUME NEW f \in KnownFds PROVE f \in KnownFds'
      <4>1. fd_table[f] # NONE
        BY DEF KnownFds
      <4> QED BY <2>4, <2>5, <2>6, <4>1
    <3> QED BY <2>1, <2>3, <2>6, <3>1, <3>2
  <2>8. \A f \in KnownFds : fd_table'[f] = fd_table[f]
    BY <2>4, <2>5
  <2>9. KnownFds' = KnownFds \cup {fd}
    BY <2>7
  <2> QED BY <2>3, <2>8, <2>9
<1> QED BY <1>5, <1>7, <1>9, <1>10, <1>11, <1>12 DEF e

(* An addition that fails may have enlarged fd_table. *)
LEMMA AddFailsFacts ==
    ASSUME TypeOK, NEW fd \in Fd, CtlAddFails(fd)
    PROVE  /\ TypeOK'
           /\ KnownFds' = KnownFds
           /\ \A f \in KnownFds : fd_table'[f] = fd_table[f]
           /\ UNCHANGED <<pfd_list, pfd_count, oob, strayed, ready>>
<1>1. UNCHANGED <<pfd_list, pfd_count, pfd_cap, pfd_last_wait_index, oob,
                  strayed, ready>>
  BY DEF CtlAddFails
<1>2. CASE UNCHANGED <<fd_table, fd_table_cap>>
  BY <1>1, <1>2 DEF TypeOK, KnownFds
<1>3. CASE /\ fd >= fd_table_cap
           /\ fd_table_cap' = GrownTableCap(fd)
           /\ fd_table' = TableWithCap(GrownTableCap(fd))
  <2> DEFINE cap == TableCapFor(fd)
  <2>1. cap = GrownTableCap(fd)
    BY <1>3 DEF TableCapFor
  <2>2. /\ cap \in Nat /\ fd_table_cap <= cap
        /\ fd_table' \in [0..cap - 1 -> Int]
        /\ \A f \in 0..cap - 1 :
             fd_table'[f] = IF f < fd_table_cap THEN fd_table[f] ELSE NONE
    BY <1>3, <2>1, TableFacts
  <2>3. fd_table_cap' = cap
    BY <1>3, <2>1
  <2> HIDE DEF cap
  <2>4. TypeOK'
    BY <1>1, <2>2, <2>3 DEF TypeOK
  <2>5. fd_table_cap \in Nat
    BY DEF TypeOK
  <2>6. \A f \in KnownFds : /\ f \in 0..cap - 1 /\ f < fd_table_cap
                            /\ fd_table[f] # NONE
    BY <2>2, <2>5 DEF KnownFds
  <2>7. \A f \in KnownFds : fd_table'[f] = fd_table[f]
    BY <2>2, <2>6
  <2>8. KnownFds' = {f \in 0..cap - 1 : fd_table'[f] # NONE}
    BY <2>3 DEF KnownFds
  <2>9. ASSUME NEW f \in 0..cap - 1, fd_table'[f] # NONE PROVE f \in KnownFds
    <3>1. f < fd_table_cap /\ fd_table[f] # NONE
      BY <2>2, <2>9
    <3> QED BY <2>5, <3>1 DEF KnownFds
  <2>10. KnownFds' = KnownFds
    BY <2>6, <2>7, <2>8, <2>9
  <2> QED BY <1>1, <2>4, <2>7, <2>10
<1> QED BY <1>2, <1>3 DEF CtlAddFails

(* What an index that is not stale leads to. *)
LEMMA NotStale ==
    ASSUME TypeOK, NEW fd \in Fd, Known(fd), ~Stale(fd)
    PROVE  /\ fd_table[fd] \in InUse /\ fd_table[fd] \in 0..pfd_cap - 1
           /\ pfd_list[fd_table[fd]].fd = fd
<1>1. fd_table[fd] \in InUse /\ pfd_list[fd_table[fd]].fd = fd
  BY DEF Stale, InUse
<1>2. pfd_cap \in Nat /\ pfd_count \in 0..pfd_cap
  BY DEF TypeOK
<1> QED BY <1>1, <1>2 DEF InUse

(* Another event mask and udata for a descriptor that is there. *)
LEMMA ModFacts ==
    ASSUME TypeOK, NEW fd \in Fd, NEW r \in Regs[fd], CtlMod(fd, r)
    PROVE  /\ TypeOK'
           /\ Known(fd)
           /\ UNCHANGED <<fd_table, pfd_count, ready>> /\ KnownFds' = KnownFds
           /\ strayed' = (strayed \/ Stale(fd))
           /\ ~Stale(fd) =>
                /\ oob' = FALSE
                /\ fd_table[fd] \in InUse /\ pfd_list[fd_table[fd]].fd = fd
                /\ pfd_list'[fd_table[fd]].fd = fd
                /\ pfd_list'[fd_table[fd]].reg = r
                /\ \A n \in InUse : n # fd_table[fd] => pfd_list'[n] = pfd_list[n]
<1> DEFINE idx == fd_table[fd]
<1>1. /\ pfd_list \in [0..pfd_cap - 1 -> Pfd] /\ pfd_count \in 0..pfd_cap
      /\ pfd_cap \in Nat /\ strayed \in BOOLEAN
  BY DEF TypeOK
<1>2. /\ Known(fd)
      /\ pfd_list' = IF idx \in DOMAIN pfd_list
                     THEN [pfd_list EXCEPT ![idx].reg = r] ELSE pfd_list
      /\ oob' = (idx \notin DOMAIN pfd_list)
      /\ strayed' = (strayed \/ Stale(fd))
      /\ UNCHANGED <<fd_table, fd_table_cap, pfd_count, pfd_cap,
                     pfd_last_wait_index, ready>>
  BY DEF CtlMod
<1> HIDE DEF idx
<1>3. ASSUME idx \in DOMAIN pfd_list
      PROVE  /\ pfd_list' \in [0..pfd_cap - 1 -> Pfd]
             /\ pfd_list'[idx].fd = pfd_list[idx].fd /\ pfd_list'[idx].reg = r
             /\ \A n \in 0..pfd_cap - 1 : n # idx => pfd_list'[n] = pfd_list[n]
  <2> DEFINE e == [pfd_list[idx] EXCEPT !.reg = r]
  <2>1. pfd_list[idx] \in Pfd /\ r \in Reg
    BY <1>1, <1>3 DEF Reg
  <2>2. e \in Pfd /\ e.fd = pfd_list[idx].fd /\ e.reg = r
    BY <2>1 DEF Pfd
  <2>3. pfd_list' = [pfd_list EXCEPT ![idx] = e]
    BY <1>2, <1>3
  <2> HIDE DEF e
  <2> QED BY <1>1, <1>3, <2>2, <2>3
<1>4. TypeOK'
  <2>1. pfd_list' \in [0..pfd_cap' - 1 -> Pfd]
    BY <1>1, <1>2, <1>3
  <2>2. Stale(fd) \in BOOLEAN
    BY DEF Stale
  <2>3. oob' \in BOOLEAN /\ strayed' \in BOOLEAN
    BY <1>1, <1>2, <2>2
  <2> QED BY <1>2, <2>1, <2>3 DEF TypeOK
<1>5. KnownFds' = KnownFds
  BY <1>2 DEF KnownFds
<1>6. ASSUME ~Stale(fd)
      PROVE  /\ oob' = FALSE
             /\ idx \in InUse /\ pfd_list[idx].fd = fd
             /\ pfd_list'[idx].fd = fd /\ pfd_list'[idx].reg = r
             /\ \A n \in InUse : n # idx => pfd_list'[n] = pfd_list[n]
  <2>1. idx \in InUse /\ idx \in 0..pfd_cap - 1 /\ pfd_list[idx].fd = fd
    BY <1>2, <1>6, NotStale DEF idx
  <2>2. idx \in DOMAIN pfd_list
    BY <1>1, <2>1
  <2>3. \A n \in InUse : n \in 0..pfd_cap - 1
    BY <1>1 DEF InUse
  <2> QED BY <1>2, <1>3, <2>1, <2>2, <2>3
<1> QED BY <1>2, <1>4, <1>5, <1>6 DEF idx

(* A removal fills the hole with the last entry; fd_table is told only of  *)
(* the descriptor that goes.                                               *)
LEMMA DelFacts ==
    ASSUME TypeOK, NEW fd \in Fd, CtlDel(fd)
    PROVE  /\ TypeOK'
           /\ Known(fd) /\ fd \in KnownFds
           /\ KnownFds' = KnownFds \ {fd}
           /\ \A f \in KnownFds \ {fd} : fd_table'[f] = fd_table[f]
           /\ pfd_count' = pfd_count - 1 /\ pfd_count' \in Nat
           /\ ready' = ready
           /\ strayed' = (strayed \/ Stale(fd))
           /\ ~Stale(fd) =>
                /\ oob' = FALSE
                /\ fd_table[fd] \in InUse /\ pfd_list[fd_table[fd]].fd = fd
                /\ \A n \in 0..pfd_count - 2 :
                     pfd_list'[n] = pfd_list[IF n = fd_table[fd]
                                             THEN pfd_count - 1 ELSE n]
<1> DEFINE idx == fd_table[fd]
           last == pfd_count - 1
<1>1. /\ pfd_list \in [0..pfd_cap - 1 -> Pfd] /\ pfd_count \in 0..pfd_cap
      /\ pfd_cap \in Nat /\ fd_table_cap \in Nat
      /\ fd_table \in [0..fd_table_cap - 1 -> Int]
      /\ pfd_last_wait_index \in Nat /\ ready \subseteq Fd /\ strayed \in BOOLEAN
  BY DEF TypeOK
<1>2. /\ Known(fd) /\ fd_table[fd] # NONE /\ fd \in 0..fd_table_cap - 1
      /\ last \in Nat /\ last \in 0..pfd_cap - 1
  BY <1>1, FdAssumption DEF CtlDel, Known
<1>3. /\ fd_table' = [fd_table EXCEPT ![fd] = NONE]
      /\ pfd_count' = last
      /\ \/ pfd_cap' = pfd_cap
         \/ Shrinks(last) /\ pfd_cap' = pfd_cap \div ShrinkBy
      /\ pfd_list' = [n \in 0..pfd_cap' - 1 |->
                        IF n < last THEN FillHole(idx)[n] ELSE Junk]
      /\ oob' = (pfd_count > 1 /\ idx \notin DOMAIN pfd_list)
      /\ strayed' = (strayed \/ Stale(fd))
      /\ UNCHANGED <<fd_table_cap, pfd_last_wait_index, ready>>
  BY DEF CtlDel, Forget
<1>4. pfd_cap' \in Nat /\ pfd_cap' <= pfd_cap /\ last <= pfd_cap'
  <2>1. CASE pfd_cap' = pfd_cap
    BY <1>1, <1>2, <2>1
  <2>2. CASE ShrinkBy = 2 /\ last < pfd_cap \div ShrinkBy
               /\ pfd_cap' = pfd_cap \div ShrinkBy
    <3>1. pfd_cap' = pfd_cap \div 2 /\ last < pfd_cap'
      BY <2>2
    <3>2. pfd_cap \div 2 \in Nat /\ pfd_cap \div 2 <= pfd_cap
      BY <1>1
    <3> QED BY <1>2, <3>1, <3>2
  <2>3. CASE ShrinkBy = 4 /\ last < pfd_cap \div ShrinkBy
               /\ pfd_cap' = pfd_cap \div ShrinkBy
    <3>1. pfd_cap' = pfd_cap \div 4 /\ last < pfd_cap'
      BY <2>3
    <3>2. pfd_cap \div 4 \in Nat /\ pfd_cap \div 4 <= pfd_cap
      BY <1>1
    <3> QED BY <1>2, <3>1, <3>2
  <2> QED BY <1>3, <2>1, <2>2, <2>3, ShrinkByAssumption DEF Shrinks
<1> HIDE DEF last, idx
<1>5. /\ FillHole(idx) \in [0..pfd_cap - 1 -> Pfd]
      /\ idx \in 0..pfd_cap - 1 =>
           \A n \in 0..last - 1 :
             FillHole(idx)[n] = pfd_list[IF n = idx THEN last ELSE n]
  <2>1. pfd_list[last] \in Pfd
    BY <1>1, <1>2
  <2>2. \A n \in 0..last - 1 : n \in 0..pfd_cap - 1 /\ pfd_count > 1
    BY <1>1, <1>2 DEF last
  <2>3. FillHole(idx) = IF pfd_count > 1 /\ idx \in 0..pfd_cap - 1
                        THEN [pfd_list EXCEPT ![idx] = pfd_list[last]] ELSE pfd_list
    BY <1>1 DEF FillHole, Put, last
  <2> QED BY <1>1, <2>1, <2>2, <2>3
<1> DEFINE c == pfd_cap'
<1>6. c \in Nat /\ c <= pfd_cap /\ last <= c
  BY <1>4
<1> HIDE DEF c
<1>7. /\ \A n \in 0..c - 1 : n \in 0..pfd_cap - 1
      /\ \A n \in 0..last - 1 : n \in 0..c - 1 /\ n < last
  BY <1>1, <1>2, <1>6
<1>8. /\ pfd_list' \in [0..c - 1 -> Pfd]
      /\ \A n \in 0..last - 1 : pfd_list'[n] = FillHole(idx)[n]
  <2>1. Junk \in Pfd
    BY DEF Junk, Pfd
  <2>2. pfd_list' = [n \in 0..c - 1 |-> IF n < last THEN FillHole(idx)[n] ELSE Junk]
    BY <1>3 DEF c
  <2> QED BY <1>5, <1>7, <2>1, <2>2
<1>9. TypeOK'
  <2>1. fd_table' \in [0..fd_table_cap' - 1 -> Int]
    <3>1. NONE \in Int /\ fd_table_cap' = fd_table_cap
      BY <1>3 DEF NONE
    <3> QED BY <1>1, <1>3, <3>1
  <2>2. pfd_count' \in 0..c
    BY <1>2, <1>3, <1>6
  <2>3. Stale(fd) \in BOOLEAN
    BY DEF Stale
  <2>4. oob' \in BOOLEAN /\ strayed' \in BOOLEAN
    BY <1>1, <1>3, <2>3
  <2>5. /\ pfd_cap' \in Nat /\ pfd_list' \in [0..pfd_cap' - 1 -> Pfd]
        /\ pfd_count' \in 0..pfd_cap'
    BY <1>6, <1>8, <2>2 DEF c
  <2> QED BY <1>1, <1>3, <2>1, <2>4, <2>5 DEF TypeOK
<1>10. /\ fd \in KnownFds /\ KnownFds' = KnownFds \ {fd}
       /\ \A f \in KnownFds \ {fd} : fd_table'[f] = fd_table[f]
  <2>1. /\ fd_table'[fd] = NONE
        /\ \A f \in 0..fd_table_cap - 1 : f # fd => fd_table'[f] = fd_table[f]
    BY <1>1, <1>2, <1>3
  <2>2. KnownFds' = {f \in 0..fd_table_cap - 1 : fd_table'[f] # NONE}
    BY <1>3 DEF KnownFds
  <2> QED BY <1>2, <2>1, <2>2 DEF KnownFds
<1>11. ASSUME ~Stale(fd)
       PROVE  /\ oob' = FALSE
              /\ idx \in InUse /\ pfd_list[idx].fd = fd
              /\ \A n \in 0..last - 1 :
                   pfd_list'[n] = pfd_list[IF n = idx THEN last ELSE n]
  <2>1. idx \in InUse /\ idx \in 0..pfd_cap - 1 /\ pfd_list[idx].fd = fd
    BY <1>2, <1>11, NotStale DEF idx
  <2>2. oob' = FALSE
    BY <1>1, <1>3, <2>1
  <2> QED BY <1>5, <1>8, <2>1, <2>2
<1>12. last - 1 = pfd_count - 2
  BY <1>1 DEF last
<1> QED BY <1>2, <1>3, <1>9, <1>10, <1>11, <1>12 DEF idx, last

-----------------------------------------------------------------------------
(* RegistryExact is kept by every call *)

LEMMA AddKeeps ==
    ASSUME RegistryExact, ~oob, NEW fd \in Fd, NEW r \in Regs[fd], CtlAdd(fd, r)
    PROVE  RegistryExact'
<1>1. TypeOK /\ CountExact /\ (~strayed => EntriesExact)
  BY DEF RegistryExact
<1>2. /\ TypeOK'
      /\ fd \notin KnownFds
      /\ pfd_count' = pfd_count + 1
      /\ pfd_list'[pfd_count] = [fd |-> fd, reg |-> r]
      /\ \A n \in InUse : pfd_list'[n] = pfd_list[n]
      /\ oob' = TooFar(fd) /\ strayed' = (strayed \/ TooFar(fd))
      /\ ~TooFar(fd) => /\ KnownFds' = KnownFds \cup {fd}
                        /\ fd_table'[fd] = pfd_count
                        /\ \A f \in KnownFds : fd_table'[f] = fd_table[f]
  BY <1>1, AddFacts
<1>3. pfd_count \in Nat
  BY <1>1 DEF TypeOK
<1>4. ASSUME ~oob'
      PROVE  CountExact'
  <2>1. KnownFds' = KnownFds \cup {fd}
    BY <1>2, <1>4
  <2>2. Cardinality(KnownFds \cup {fd}) = Cardinality(KnownFds) + 1
    BY <1>1, <1>2, KnownFinite, FS_AddElement
  <2> QED BY <1>1, <1>2, <2>1, <2>2 DEF CountExact
<1>5. ASSUME ~strayed'
      PROVE  ~oob' /\ EntriesExact'
  <2>1. ~TooFar(fd) /\ EntriesExact
    BY <1>1, <1>2, <1>5
  <2>2. InUse' = InUse \cup {pfd_count} /\ pfd_count \notin InUse
    BY <1>2, <1>3 DEF InUse
  <2>3. /\ pfd_list'[pfd_count].fd = fd
        /\ \A n \in InUse : pfd_list'[n].fd = pfd_list[n].fd
    BY <1>2
  <2>4. Polled' = {pfd_list'[n].fd : n \in InUse'}
    BY DEF Polled
  <2>5. Polled' = Polled \cup {fd}
    BY <2>2, <2>3, <2>4 DEF Polled
  <2>6. \A n \in InUse : pfd_list[n].fd \in KnownFds
    BY <2>1 DEF EntriesExact, Polled
  <2>7. \A m, n \in InUse' : pfd_list'[m].fd = pfd_list'[n].fd => m = n
    BY <1>2, <2>1, <2>2, <2>3, <2>6 DEF EntriesExact
  <2>8. \A n \in InUse' : fd_table'[pfd_list'[n].fd] >= n
    BY <1>2, <1>3, <2>1, <2>2, <2>3, <2>6 DEF EntriesExact
  <2>9. Polled' = KnownFds'
    BY <1>2, <2>1, <2>5 DEF EntriesExact
  <2> QED BY <1>2, <2>1, <2>7, <2>8, <2>9 DEF EntriesExact
<1> QED BY <1>2, <1>4, <1>5 DEF RegistryExact

(* The same descriptors are known and polled, at the same indices. *)
LEMMA SameEntries ==
    ASSUME RegistryExact, ~oob, TypeOK', pfd_count' = pfd_count,
           KnownFds' = KnownFds, \A f \in KnownFds : fd_table'[f] = fd_table[f],
           strayed \in BOOLEAN, strayed => strayed',
           ~strayed' => /\ ~oob'
                        /\ \A n \in InUse : pfd_list'[n].fd = pfd_list[n].fd
    PROVE  RegistryExact'
<1>1. CountExact'
  BY DEF RegistryExact, CountExact
<1>2. ASSUME ~strayed'
      PROVE  ~oob' /\ EntriesExact'
  <2>1. EntriesExact /\ \A n \in InUse : pfd_list'[n].fd = pfd_list[n].fd
    BY <1>2 DEF RegistryExact
  <2>2. InUse' = InUse
    BY DEF InUse
  <2>3. Polled' = {pfd_list'[n].fd : n \in InUse}
    BY <2>2 DEF Polled
  <2>4. Polled' = Polled
    BY <2>1, <2>3 DEF Polled
  <2>5. \A n \in InUse : pfd_list[n].fd \in KnownFds
    BY <2>1 DEF EntriesExact, Polled
  <2>6. \A n \in InUse : fd_table'[pfd_list'[n].fd] >= n
    BY <2>1, <2>5 DEF EntriesExact
  <2>7. \A m, n \in InUse : pfd_list'[m].fd = pfd_list'[n].fd => m = n
    BY <2>1 DEF EntriesExact
  <2> QED BY <1>2, <2>1, <2>2, <2>4, <2>6, <2>7 DEF EntriesExact
<1> QED BY <1>1, <1>2 DEF RegistryExact

LEMMA AddFailsKeeps ==
    ASSUME RegistryExact, ~oob, NEW fd \in Fd, CtlAddFails(fd)
    PROVE  RegistryExact'
<1>1. TypeOK /\ strayed \in BOOLEAN
  BY DEF RegistryExact, TypeOK
<1> QED BY <1>1, AddFailsFacts, SameEntries

LEMMA ModKeeps ==
    ASSUME RegistryExact, ~oob, NEW fd \in Fd, NEW r \in Regs[fd], CtlMod(fd, r)
    PROVE  RegistryExact'
<1>1. TypeOK /\ strayed \in BOOLEAN
  BY DEF RegistryExact, TypeOK
<1>2. /\ TypeOK'
      /\ UNCHANGED <<fd_table, pfd_count>> /\ KnownFds' = KnownFds
      /\ strayed' = (strayed \/ Stale(fd))
      /\ ~Stale(fd) =>
           /\ oob' = FALSE
           /\ fd_table[fd] \in InUse /\ pfd_list[fd_table[fd]].fd = fd
           /\ pfd_list'[fd_table[fd]].fd = fd
           /\ \A n \in InUse : n # fd_table[fd] => pfd_list'[n] = pfd_list[n]
  BY <1>1, ModFacts
<1>3. ~strayed' => ~Stale(fd)
  BY <1>2
<1>4. ~Stale(fd) => \A n \in InUse : pfd_list'[n].fd = pfd_list[n].fd
  BY <1>2
<1> QED BY <1>1, <1>2, <1>3, <1>4, SameEntries

(* The entries after a removal are those before it but one, each of them   *)
(* where it was or further down.                                           *)
LEMMA DelEntries ==
    ASSUME TypeOK, EntriesExact, NEW fd \in Fd, CtlDel(fd), ~Stale(fd)
    PROVE  LET idx == fd_table[fd]
               from(n) == IF n = idx THEN pfd_count - 1 ELSE n
           IN  /\ idx \in InUse /\ pfd_list[idx].fd = fd
               /\ \A n \in InUse' : /\ from(n) \in InUse \ {idx} /\ from(n) >= n
                                    /\ pfd_list'[n] = pfd_list[from(n)]
               /\ \A m, n \in InUse' : from(m) = from(n) => m = n
               /\ \A k \in InUse \ {idx} : \E n \in InUse' : from(n) = k
<1> DEFINE idx == fd_table[fd]
           last == pfd_count - 1
           from(n) == IF n = idx THEN last ELSE n
<1>1. /\ pfd_count' = last /\ last \in Nat
      /\ idx \in InUse /\ pfd_list[idx].fd = fd
      /\ \A n \in 0..pfd_count - 2 : pfd_list'[n] = pfd_list[from(n)]
  BY DelFacts
<1>2. pfd_count \in Nat
  BY DEF TypeOK
<1>3. InUse = 0..last /\ InUse' = 0..last - 1 /\ pfd_count - 2 = last - 1
  BY <1>1, <1>2 DEF InUse
<1> HIDE DEF idx, last
<1>4. \A n \in InUse' : from(n) \in InUse \ {idx} /\ from(n) >= n
  BY <1>1, <1>3
<1>5. \A n \in InUse' : pfd_list'[n] = pfd_list[from(n)]
  BY <1>1, <1>3
<1>6. \A m, n \in InUse' : from(m) = from(n) => m = n
  BY <1>1, <1>3
<1>7. ASSUME NEW k \in InUse \ {idx}
      PROVE  \E n \in InUse' : from(n) = k
  <2>1. CASE k = last
    <3>1. idx \in InUse' /\ from(idx) = k
      BY <1>1, <1>3, <2>1
    <3> QED BY <3>1
  <2>2. CASE k # last
    <3>1. k \in InUse' /\ from(k) = k
      BY <1>1, <1>3, <2>2
    <3> QED BY <3>1
  <2> QED BY <2>1, <2>2
<1> QED BY <1>1, <1>4, <1>5, <1>6, <1>7 DEF idx, last

LEMMA DelKeeps ==
    ASSUME RegistryExact, ~oob, NEW fd \in Fd, CtlDel(fd)
    PROVE  RegistryExact'
<1>1. TypeOK /\ CountExact /\ (~strayed => EntriesExact)
  BY DEF RegistryExact
<1>2. /\ TypeOK'
      /\ fd \in KnownFds /\ KnownFds' = KnownFds \ {fd}
      /\ \A f \in KnownFds \ {fd} : fd_table'[f] = fd_table[f]
      /\ pfd_count' = pfd_count - 1
      /\ strayed' = (strayed \/ Stale(fd))
      /\ ~Stale(fd) => oob' = FALSE
  BY <1>1, DelFacts
<1>3. CountExact'
  <2>1. Cardinality(KnownFds \ {fd}) = Cardinality(KnownFds) - 1
    BY <1>1, <1>2, KnownFinite, FS_RemoveElement
  <2> QED BY <1>1, <1>2, <2>1 DEF CountExact
<1>4. ASSUME ~strayed'
      PROVE  ~oob' /\ EntriesExact'
  <2> DEFINE idx == fd_table[fd]
             from(n) == IF n = idx THEN pfd_count - 1 ELSE n
  <2>1. ~Stale(fd) /\ EntriesExact
    BY <1>1, <1>2, <1>4
  <2>2. /\ idx \in InUse /\ pfd_list[idx].fd = fd
        /\ \A n \in InUse' : /\ from(n) \in InUse \ {idx} /\ from(n) >= n
                             /\ pfd_list'[n] = pfd_list[from(n)]
        /\ \A m, n \in InUse' : from(m) = from(n) => m = n
        /\ \A k \in InUse \ {idx} : \E n \in InUse' : from(n) = k
    BY <1>1, <2>1, DelEntries
  <2> HIDE DEF idx, from
  <2>3. /\ Polled = KnownFds
        /\ \A m, n \in InUse : pfd_list[m].fd = pfd_list[n].fd => m = n
        /\ \A n \in InUse : fd_table[pfd_list[n].fd] >= n
    BY <2>1 DEF EntriesExact
  <2>4. \A k \in InUse \ {idx} : pfd_list[k].fd \in KnownFds \ {fd}
    BY <2>2, <2>3 DEF Polled
  <2>5. Polled' = {pfd_list'[n].fd : n \in InUse'}
    BY DEF Polled
  <2>6. Polled' = {pfd_list[k].fd : k \in InUse \ {idx}}
    BY <2>2, <2>5
  <2>7. KnownFds \ {fd} = {pfd_list[k].fd : k \in InUse \ {idx}}
    BY <2>2, <2>3, <2>4 DEF Polled
  <2>8. \A m, n \in InUse' : pfd_list'[m].fd = pfd_list'[n].fd => m = n
    BY <2>2, <2>3
  <2>9. ASSUME NEW n \in InUse'
        PROVE  fd_table'[pfd_list'[n].fd] >= n
    <3>1. from(n) \in InUse \ {idx} /\ from(n) >= n /\ pfd_list'[n] = pfd_list[from(n)]
      BY <2>2
    <3>2. fd_table'[pfd_list'[n].fd] = fd_table[pfd_list[from(n)].fd]
      BY <1>2, <2>4, <3>1
    <3>3. fd_table[pfd_list[from(n)].fd] >= from(n)
      BY <2>3, <3>1
    <3>4. fd_table[pfd_list[from(n)].fd] \in Int /\ from(n) \in Int /\ n \in Int
      <4>1. pfd_list[from(n)].fd \in 0..fd_table_cap - 1
        BY <2>4, <3>1 DEF KnownFds
      <4>2. pfd_count \in Nat /\ pfd_count' \in Nat
        BY <1>1, <1>2 DEF TypeOK
      <4> QED BY <1>1, <3>1, <4>1, <4>2 DEF TypeOK, InUse
    <3> QED BY <3>1, <3>2, <3>3, <3>4
  <2>10. ~oob'
    BY <1>2, <2>1
  <2> QED BY <1>2, <2>6, <2>7, <2>8, <2>9, <2>10 DEF EntriesExact
<1> QED BY <1>2, <1>3, <1>4 DEF RegistryExact

(* Steps that leave the registry alone. *)
LEMMA RegistryUnchanged ==
    ASSUME RegistryExact, UNCHANGED <<tables, oob, strayed>>,
           pfd_last_wait_index' \in Nat, ready' \subseteq Fd
    PROVE  RegistryExact'
<1>1. UNCHANGED <<fd_table, fd_table_cap, pfd_list, pfd_count, pfd_cap, oob, strayed>>
  BY DEF tables
<1>2. TypeOK'
  BY <1>1 DEF RegistryExact, TypeOK
<1>3. /\ InUse' = InUse /\ KnownFds' = KnownFds
      /\ pfd_list' = pfd_list /\ fd_table' = fd_table /\ pfd_count' = pfd_count
  BY <1>1 DEF InUse, KnownFds
<1>4. Polled' = Polled
  BY <1>1 DEF Polled, InUse
<1>5. (CountExact' <=> CountExact) /\ (EntriesExact' <=> EntriesExact)
  BY <1>3, <1>4 DEF CountExact, EntriesExact
<1> QED BY <1>1, <1>2, <1>5 DEF RegistryExact

(* An array without elements has any type. *)
LEMMA EmptyArray ==
    ASSUME NEW S, NEW x, NEW cap, cap = 0
    PROVE  [n \in {} |-> x] \in [0..cap - 1 -> S]
<1>1. 0..cap - 1 = {}
  OBVIOUS
<1>2. [n \in {} |-> x] \in [{} -> S]
  OBVIOUS
<1> QED BY <1>1, <1>2

(* A freshly created xpoll. *)
LEMMA FreshRegistry ==
    ASSUME fd_table = [f \in {} |-> NONE], fd_table_cap = 0,
           pfd_list = [n \in {} |-> Junk], pfd_count = 0, pfd_cap = 0,
           pfd_last_wait_index = 0, oob = FALSE, strayed = FALSE, ready \subseteq Fd
    PROVE  RegistryExact
<1>1. TypeOK
  <2>1. /\ fd_table \in [0..fd_table_cap - 1 -> Int]
        /\ pfd_list \in [0..pfd_cap - 1 -> Pfd]
    BY EmptyArray
  <2>2. /\ fd_table_cap \in Nat /\ pfd_cap \in Nat /\ pfd_count \in 0..pfd_cap
        /\ pfd_last_wait_index \in Nat
    OBVIOUS
  <2>3. oob \in BOOLEAN /\ strayed \in BOOLEAN /\ ready \subseteq Fd
    OBVIOUS
  <2> QED BY <2>1, <2>2, <2>3, Zenon DEF TypeOK
<1>2. InUse = {} /\ KnownFds = {}
  BY DEF InUse, KnownFds
<1>3. CountExact
  BY <1>2, FS_EmptySet DEF CountExact
<1>4. EntriesExact
  BY <1>2 DEF EntriesExact, Polled
<1> QED BY <1>1, <1>3, <1>4 DEF RegistryExact

(* xpoll_close, and the xpoll_create after it. *)
LEMMA CloseKeeps ==
    ASSUME RegistryExact, xpoll_close
    PROVE  RegistryExact' /\ InUse' = {}
<1>1. /\ fd_table' = [f \in {} |-> NONE] /\ fd_table_cap' = 0
      /\ pfd_list' = [n \in {} |-> Junk] /\ pfd_count' = 0 /\ pfd_cap' = 0
      /\ pfd_last_wait_index' = 0
      /\ oob' = FALSE /\ strayed' = FALSE /\ ready' \subseteq Fd
  BY DEF xpoll_close, RegistryExact, TypeOK
<1>2. TypeOK'
  <2>1. /\ fd_table' \in [0..fd_table_cap' - 1 -> Int]
        /\ pfd_list' \in [0..pfd_cap' - 1 -> Pfd]
    BY <1>1, EmptyArray
  <2>2. /\ fd_table_cap' \in Nat /\ pfd_cap' \in Nat /\ pfd_count' \in 0..pfd_cap'
        /\ pfd_last_wait_index' \in Nat
    BY <1>1
  <2>3. oob' \in BOOLEAN /\ strayed' \in BOOLEAN /\ ready' \subseteq Fd
    BY <1>1
  <2> QED BY <2>1, <2>2, <2>3, Zenon DEF TypeOK
<1>3. InUse' = {} /\ KnownFds' = {}
  BY <1>1 DEF InUse, KnownFds
<1>4. CountExact'
  BY <1>1, <1>3, FS_EmptySet DEF CountExact
<1>5. EntriesExact'
  <2>1. Polled' = {}
    BY <1>3 DEF Polled
  <2> QED BY <1>3, <2>1 DEF EntriesExact
<1> QED BY <1>1, <1>2, <1>3, <1>4, <1>5 DEF RegistryExact

(* Every step keeps the invariant. *)
LEMMA StepExact ==
    ASSUME RegistryExact, [Next]_vars
    PROVE  RegistryExact'
<1>1. /\ ready \subseteq Fd /\ pfd_last_wait_index \in Nat
      /\ pfd_count \in Nat
  BY DEF RegistryExact, TypeOK
<1>2. ASSUME NEW fd \in Fd, NEW r \in Regs[fd], xpoll_add_fd(fd, r)
      PROVE  RegistryExact'
  BY <1>2, AddKeeps, AddFailsKeeps DEF xpoll_add_fd
<1>3. ASSUME Untouched PROVE RegistryExact'
  BY <1>1, <1>3, RegistryUnchanged DEF Untouched
<1>4. ASSUME NEW fd \in Fd, NEW r \in Regs[fd], xpoll_modify_fd(fd, r)
      PROVE  RegistryExact'
  BY <1>3, <1>4, ModKeeps DEF xpoll_modify_fd
<1>5. ASSUME NEW fd \in Fd, NEW r \in Regs[fd], xpoll_add_or_modify_fd(fd, r)
      PROVE  RegistryExact'
  BY <1>5, AddKeeps, AddFailsKeeps, ModKeeps DEF xpoll_add_or_modify_fd
<1>6. ASSUME NEW fd \in Fd, xpoll_remove_fd(fd)
      PROVE  RegistryExact'
  BY <1>3, <1>6, DelKeeps DEF xpoll_remove_fd
<1>7. ASSUME NEW max \in 1..Cardinality(Fd), xpoll_wait(max)
      PROVE  RegistryExact'
  <2>1. ASSUME NEW p \in 0..pfd_count - 1, pfd_last_wait_index' = NextBegin(p)
        PROVE  pfd_last_wait_index' \in Nat
    <3>1. begin + p \in Nat /\ pfd_count \in Nat \ {0}
      BY <1>1 DEF begin
    <3>2. Visited(p) \in Nat
      BY <3>1 DEF Visited
    <3> QED BY <2>1, <3>2 DEF NextBegin
  <2>2. pfd_last_wait_index' \in Nat
    BY <1>1, <1>7, <2>1 DEF xpoll_wait
  <2> QED BY <1>1, <1>7, <2>2, RegistryUnchanged DEF xpoll_wait
<1>8. CASE xpoll_wait_fails
  BY <1>1, <1>8, RegistryUnchanged DEF xpoll_wait_fails
<1>9. CASE xpoll_close
  BY <1>9, CloseKeeps
<1>10. CASE Environment
  BY <1>1, <1>10, RegistryUnchanged DEF Environment
<1>11. CASE UNCHANGED vars
  BY <1>1, <1>11, RegistryUnchanged DEF vars
<1> QED BY <1>2, <1>4, <1>5, <1>6, <1>7, <1>8, <1>9, <1>10, <1>11 DEF Next

(* For any descriptors and capacities and any calls in any order, the      *)
(* count is exact, and up to the first call that strays the entries are    *)
(* those of the known descriptors and no call leaves its arrays.           *)
THEOREM RegistryIsExact == Spec => []RegistryExact
<1>1. Init => RegistryExact
  <2> SUFFICES ASSUME Init PROVE RegistryExact
    OBVIOUS
  <2> QED BY FreshRegistry DEF Init
<1>2. RegistryExact /\ [Next]_vars => RegistryExact'
  BY StepExact
<1> QED BY <1>1, <1>2, PTL DEF Spec

-----------------------------------------------------------------------------
(* The registrations, as long as no call has strayed *)

(* What is known of the entries in use. *)
LEMMA EntryFacts ==
    ASSUME TypeOK, EntriesExact
    PROVE  /\ pfd_count \in Nat /\ fd_table_cap \in Nat
           /\ \A n \in InUse : pfd_list[n].fd \in KnownFds
           /\ \A m, n \in InUse : pfd_list[m].fd = pfd_list[n].fd => m = n
<1>1. pfd_count \in Nat /\ fd_table_cap \in Nat
  BY DEF TypeOK
<1> QED BY <1>1 DEF EntriesExact, Polled

(* fd_table knows the descriptors that are registered. *)
LEMMA RegisteredAt ==
    ASSUME TypeOK, EntriesExact, NEW fd \in Fd
    PROVE  /\ AlreadyThere(fd) <=> Known(fd)
           /\ Known(fd) <=> fd \in KnownFds
           /\ Known(fd) <=> R!Registered(fd) # {}
           /\ \A n \in InUse : pfd_list[n].fd = fd =>
                R!Registered(fd) = {<<fd, pfd_list[n].reg>>}
<1>1. fd \in Nat /\ pfd_count \in Nat /\ fd_table_cap \in Nat
  BY EntryFacts, FdAssumption
<1>2. AlreadyThere(fd) <=> fd \in KnownFds
  BY <1>1 DEF AlreadyThere, KnownFds
<1>3. fd \in KnownFds <=> \E n \in InUse : pfd_list[n].fd = fd
  BY DEF EntriesExact, Polled
<1>4. fd \in KnownFds => pfd_count # 0
  BY <1>1, <1>3 DEF InUse
<1>5. AlreadyThere(fd) <=> Known(fd)
  BY <1>2, <1>4 DEF AlreadyThere, Known
<1>6. R!Registered(fd) = {<<pfd_list[n].fd, pfd_list[n].reg>> :
                            n \in {m \in InUse : pfd_list[m].fd = fd}}
  BY DEF R!Registered, Interest
<1>7. fd \in KnownFds <=> R!Registered(fd) # {}
  BY <1>3, <1>6
<1>8. ASSUME NEW n \in InUse, pfd_list[n].fd = fd
      PROVE  R!Registered(fd) = {<<fd, pfd_list[n].reg>>}
  <2>1. {m \in InUse : pfd_list[m].fd = fd} = {n}
    BY <1>8, EntryFacts
  <2> QED BY <1>6, <1>8, <2>1
<1> QED BY <1>2, <1>5, <1>7, <1>8

(* An addition appends the entry of a descriptor that was not there. *)
LEMMA AddInterest ==
    ASSUME TypeOK, EntriesExact, NEW fd \in Fd, NEW r \in Regs[fd], CtlAdd(fd, r)
    PROVE  /\ R!Registered(fd) = {}
           /\ Interest' = Interest \cup {<<fd, r>>}
           /\ ready' = ready
<1>1. /\ fd \notin KnownFds /\ pfd_count' = pfd_count + 1 /\ ready' = ready
      /\ pfd_list'[pfd_count] = [fd |-> fd, reg |-> r]
      /\ \A n \in InUse : pfd_list'[n] = pfd_list[n]
  BY AddFacts
<1>2. InUse' = InUse \cup {pfd_count}
  BY <1>1, EntryFacts DEF InUse
<1>3. Interest' = {<<pfd_list'[n].fd, pfd_list'[n].reg>> : n \in InUse'}
  BY DEF Interest
<1>4. /\ pfd_list'[pfd_count].fd = fd /\ pfd_list'[pfd_count].reg = r
  BY <1>1
<1>5. Interest' = {<<pfd_list[n].fd, pfd_list[n].reg>> : n \in InUse} \cup {<<fd, r>>}
  BY <1>1, <1>2, <1>3, <1>4
<1> QED BY <1>1, <1>5, RegisteredAt DEF Interest

(* A modification changes the entry of its descriptor alone. *)
LEMMA ModInterest ==
    ASSUME TypeOK, EntriesExact, NEW fd \in Fd, NEW r \in Regs[fd],
           CtlMod(fd, r), ~Stale(fd)
    PROVE  /\ R!Registered(fd) # {}
           /\ Interest' = (Interest \ R!Registered(fd)) \cup {<<fd, r>>}
           /\ ready' = ready
<1> DEFINE idx == fd_table[fd]
<1>1. /\ Known(fd) /\ idx \in InUse /\ pfd_list[idx].fd = fd
      /\ pfd_list'[idx].fd = fd /\ pfd_list'[idx].reg = r
      /\ \A n \in InUse : n # idx => pfd_list'[n] = pfd_list[n]
      /\ pfd_count' = pfd_count /\ ready' = ready
  BY ModFacts
<1>2. R!Registered(fd) = {<<fd, pfd_list[idx].reg>>}
  BY <1>1, RegisteredAt
<1> HIDE DEF idx
<1>3. \A n \in InUse : pfd_list[n].fd = fd => n = idx
  BY <1>1, EntryFacts
<1>4. /\ Interest = {<<pfd_list[n].fd, pfd_list[n].reg>> : n \in InUse}
      /\ Interest' = {<<pfd_list'[n].fd, pfd_list'[n].reg>> : n \in InUse}
  BY <1>1 DEF Interest, InUse
<1>5. Interest \ R!Registered(fd)
        = {<<pfd_list[n].fd, pfd_list[n].reg>> : n \in InUse \ {idx}}
  <2>1. ASSUME NEW n \in InUse
        PROVE  <<pfd_list[n].fd, pfd_list[n].reg>> = <<fd, pfd_list[idx].reg>>
                 <=> n = idx
    BY <1>1, <1>3
  <2> QED BY <1>2, <1>4, <2>1
<1>6. Interest' = {<<pfd_list[n].fd, pfd_list[n].reg>> : n \in InUse \ {idx}}
                    \cup {<<fd, r>>}
  BY <1>1, <1>4
<1> QED BY <1>1, <1>2, <1>5, <1>6

(* A removal drops the entry of its descriptor and moves another. *)
LEMMA DelInterest ==
    ASSUME TypeOK, EntriesExact, NEW fd \in Fd, CtlDel(fd), ~Stale(fd)
    PROVE  /\ R!Registered(fd) # {}
           /\ Interest' = Interest \ R!Registered(fd)
           /\ ready' = ready
<1> DEFINE idx == fd_table[fd]
           from(n) == IF n = idx THEN pfd_count - 1 ELSE n
           pair(n) == <<pfd_list[n].fd, pfd_list[n].reg>>
<1>1. /\ idx \in InUse /\ pfd_list[idx].fd = fd
      /\ \A n \in InUse' : /\ from(n) \in InUse \ {idx}
                           /\ pfd_list'[n] = pfd_list[from(n)]
      /\ \A k \in InUse \ {idx} : \E n \in InUse' : from(n) = k
  BY DelEntries
<1>2. R!Registered(fd) = {<<fd, pfd_list[idx].reg>>}
  BY <1>1, RegisteredAt
<1>3. \A n \in InUse : pfd_list[n].fd = fd => n = idx
  BY <1>1, EntryFacts
<1>4. Interest' = {<<pfd_list'[n].fd, pfd_list'[n].reg>> : n \in InUse'}
  BY DEF Interest
<1>5. Interest = {pair(n) : n \in InUse}
  BY DEF Interest
<1>6. ready' = ready
  BY DelFacts
<1> HIDE DEF idx, from
<1>7. Interest' = {pair(k) : k \in InUse \ {idx}}
  BY <1>1, <1>4
<1>8. \A n \in InUse : pair(n) = <<fd, pfd_list[idx].reg>> <=> n = idx
  BY <1>1, <1>3
<1>9. Interest \ R!Registered(fd) = {pair(k) : k \in InUse \ {idx}}
  BY <1>2, <1>5, <1>8
<1> QED BY <1>2, <1>6, <1>7, <1>9

-----------------------------------------------------------------------------
(* What a wait reports *)

(* Registry counts the way this module does. *)
LEMMA SameCardinality == \A S : R!Cardinality(S) = Cardinality(S)
    BY DEF R!Cardinality, Cardinality

(* A remainder of a number that is less than twice the divisor. *)
LEMMA ModOnce ==
    ASSUME NEW c \in Nat \ {0}, NEW a \in Nat, a < 2 * c
    PROVE  a % c = IF a < c THEN a ELSE a - c
<1>1. CASE a < c
  BY <1>1
<1>2. CASE a >= c
  BY <1>2
<1> QED BY <1>1, <1>2

(* The loop visits every entry once. *)
LEMMA VisitedFacts ==
    ASSUME TypeOK, pfd_count # 0
    PROVE  LET N == 0..pfd_count - 1 IN
           /\ \A p \in N : Visited(p) \in N
           /\ \A p, q \in N : Visited(p) = Visited(q) => p = q
           /\ \A n \in N : \E p \in N : Visited(p) = n
<1> DEFINE c == pfd_count
           N == 0..c - 1
<1>1. c \in Nat \ {0} /\ begin \in N
  <2>1. c \in Nat \ {0} /\ pfd_last_wait_index \in Nat
    BY DEF TypeOK
  <2> QED BY <2>1 DEF begin
<1>2. ASSUME NEW p \in N
      PROVE  Visited(p) = IF begin + p < c THEN begin + p ELSE begin + p - c
  <2>1. begin \in Nat /\ p \in Nat /\ begin + p < 2 * c /\ c \in Nat \ {0}
    BY <1>1
  <2> HIDE DEF c
  <2>2. \A a \in Nat : a < 2 * c => a % c = IF a < c THEN a ELSE a - c
    BY <2>1, ModOnce
  <2> QED BY <2>1, <2>2 DEF Visited, c
<1> HIDE DEF c
<1>3. \A p \in N : Visited(p) \in N
  BY <1>1, <1>2
<1>4. \A p, q \in N : Visited(p) = Visited(q) => p = q
  BY <1>1, <1>2
<1>5. ASSUME NEW n \in N
      PROVE  \E p \in N : Visited(p) = n
  <2>1. CASE n >= begin
    <3>1. n - begin \in N /\ Visited(n - begin) = n
      BY <1>1, <1>2, <2>1
    <3> QED BY <3>1
  <2>2. CASE n < begin
    <3>1. n - begin + c \in N /\ Visited(n - begin + c) = n
      BY <1>1, <1>2, <2>2
    <3> QED BY <3>1
  <2> QED BY <1>1, <2>1, <2>2
<1> QED BY <1>3, <1>4, <1>5 DEF c

(* As many values as arguments of a function that is one to one. *)
LEMMA OneToOne ==
    ASSUME NEW S, IsFiniteSet(S), NEW f, f = [s \in S |-> f[s]],
           \A s, t \in S : f[s] = f[t] => s = t
    PROVE  LET T == {f[s] : s \in S} IN IsFiniteSet(T) /\ Cardinality(T) = Cardinality(S)
<1> DEFINE T == {f[s] : s \in S}
<1>1. f \in Bijection(S, T)
  BY DEF Bijection, Injection, Surjection, IsInjective
<1> QED BY <1>1, FS_Bijection DEF ExistsBijection

(* It reports registrations of ready descriptors, as many as fit. *)
LEMMA WaitImplements ==
    ASSUME TypeOK, EntriesExact, NEW max \in 1..Cardinality(Fd), xpoll_wait(max)
    PROVE  R!Wait(max)
<1> DEFINE N == 0..pfd_count - 1
           found == {e \in Interest : e[1] \in ready}
<1>0. max \in Nat /\ max >= 1
  <2>1. Cardinality(Fd) \in Nat
    BY FdAssumption, FS_CardinalityType
  <2> QED BY <2>1
<1>1. UNCHANGED <<Interest, ready>>
  BY DEF xpoll_wait, tables, Interest, InUse
<1>2. SUFFICES \E out \in SUBSET found :
                 /\ Cardinality(out) = IF Cardinality(found) < max
                                       THEN Cardinality(found) ELSE max
                 /\ ret' = [Done("wait", 0, TRUE) EXCEPT !.events = out]
  BY <1>1, SameCardinality DEF R!Wait, R!Done, Done
<1>3. CASE pfd_count = 0 /\ ret' = Done("wait", 0, TRUE)
  <2>1. N = {}
    BY <1>3
  <2>2. found = {}
    BY <2>1 DEF Interest, InUse
  <2>3. Cardinality({}) = 0
    BY FS_EmptySet
  <2>4. ret' = [Done("wait", 0, TRUE) EXCEPT !.events = {}]
    BY <1>3 DEF Done
  <2>5. 0 = IF 0 < max THEN 0 ELSE max
    BY <1>0
  <2>6. Cardinality({}) = IF Cardinality({}) < max THEN Cardinality({}) ELSE max
    BY <2>3, <2>5
  <2> HIDE DEF found
  <2> QED BY <2>2, <2>4, <2>6, Zenon
<1>4. ASSUME NEW p \in N, StopsAt(p, max), pfd_count # 0,
             ret' = [Done("wait", 0, TRUE) EXCEPT !.events = Report(p)]
      PROVE  \E out \in SUBSET found :
               /\ Cardinality(out) = IF Cardinality(found) < max
                                     THEN Cardinality(found) ELSE max
               /\ ret' = [Done("wait", 0, TRUE) EXCEPT !.events = out]
  <2> DEFINE reg == [n \in N |-> <<pfd_list[n].fd, pfd_list[n].reg>>]
             S == HitsUpTo(p)
             hit == [q \in S |-> reg[Visited(q)]]
  <2>1. pfd_count \in Nat /\ p \in Nat /\ 0..p \subseteq N /\ S \subseteq 0..p
    BY EntryFacts DEF HitsUpTo
  <2>2. /\ \A q \in N : Visited(q) \in N
        /\ \A q, t \in N : Visited(q) = Visited(t) => q = t
        /\ \A n \in N : \E q \in N : Visited(q) = n
    BY <1>4, VisitedFacts
  <2>3. /\ Interest = {reg[n] : n \in N}
        /\ \A n \in N : reg[n][1] = pfd_list[n].fd
    BY DEF Interest, InUse
  <2>4. \A m, n \in N : reg[m] = reg[n] => m = n
    BY <2>3, EntryFacts DEF InUse
  <2>0. \A q \in S : Visited(q) \in N
    BY <2>1, <2>2
  <2>5. Report(p) = {hit[q] : q \in S}
    <3>1. Report(p) = {<<pfd_list[Visited(q)].fd, pfd_list[Visited(q)].reg>> : q \in S}
      BY DEF Report
    <3>2. \A q \in S :
            hit[q] = <<pfd_list[Visited(q)].fd, pfd_list[Visited(q)].reg>>
      BY <2>0
    <3> HIDE DEF hit, S
    <3> QED BY <3>1, <3>2
  <2>6. \A q, t \in S : hit[q] = hit[t] => q = t
    <3> SUFFICES ASSUME NEW q \in S, NEW t \in S, hit[q] = hit[t] PROVE q = t
      OBVIOUS
    <3>1. reg[Visited(q)] = reg[Visited(t)]
      OBVIOUS
    <3> HIDE DEF reg, hit
    <3>2. Visited(q) = Visited(t)
      BY <2>0, <2>4, <3>1
    <3> QED BY <2>1, <2>2, <3>2
  <2>7. IsFiniteSet(S)
    <3>1. IsFiniteSet(0..p)
      BY <2>1, FS_Interval
    <3> QED BY <2>1, <3>1, FS_Subset
  <2>8. hit = [q \in S |-> hit[q]]
    OBVIOUS
  <2>9. \A q \in S : hit[q] \in found
    <3> SUFFICES ASSUME NEW q \in S PROVE hit[q] \in found
      OBVIOUS
    <3>1. Visited(q) \in N /\ pfd_list[Visited(q)].fd \in ready
      BY <2>1, <2>2 DEF HitsUpTo, HasEvent
    <3> QED BY <2>3, <3>1
  <2>10. IsFiniteSet(found)
    <3>1. IsFiniteSet(N)
      BY <2>1, FS_Interval
    <3>2. reg = [n \in N |-> reg[n]]
      OBVIOUS
    <3> HIDE DEF reg, N
    <3>3. IsFiniteSet({reg[n] : n \in N})
      BY <2>4, <3>1, <3>2, OneToOne
    <3> QED BY <2>3, <3>3, FS_Subset
  <2>11. HitsUpTo(p) = {q \in 0..p : HasEvent(Visited(q))}
    BY DEF HitsUpTo
  <2>12. p = pfd_count - 1 => found \subseteq Report(p)
    <3> SUFFICES ASSUME p = pfd_count - 1, NEW e \in found PROVE e \in Report(p)
      OBVIOUS
    <3>1. PICK n \in N : e = reg[n] /\ pfd_list[n].fd \in ready
      BY <2>3
    <3>2. PICK q \in N : Visited(q) = n
      BY <2>2
    <3>3. q \in S /\ hit[q] = e
      BY <2>11, <3>1, <3>2 DEF HasEvent
    <3> QED BY <2>5, <3>3
  <2> HIDE DEF S, hit, found
  <2>13. Cardinality(Report(p)) = Cardinality(S)
    BY <2>5, <2>6, <2>7, <2>8, OneToOne
  <2>14. Report(p) \subseteq found
    BY <2>5, <2>9
  <2>15. /\ Cardinality(found) \in Nat
         /\ Cardinality(Report(p)) <= Cardinality(found)
    BY <2>10, <2>14, FS_Subset, FS_CardinalityType
  <2>16. Cardinality(Report(p)) = IF Cardinality(found) < max
                                  THEN Cardinality(found) ELSE max
    <3>1. CASE Cardinality(S) = max
      BY <1>0, <2>13, <2>15, <3>1
    <3>2. CASE p = pfd_count - 1 /\ Cardinality(S) < max
      <4>1. Report(p) = found
        BY <2>12, <2>14, <3>2
      <4> QED BY <2>13, <3>2, <4>1
    <3> QED BY <1>4, <3>1, <3>2 DEF StopsAt, S
  <2> QED BY <1>4, <2>14, <2>16
<1>5. pfd_count \in Nat
  BY EntryFacts
<1>6. \/ pfd_count = 0 /\ ret' = Done("wait", 0, TRUE)
      \/ \E p \in N : /\ StopsAt(p, max)
                      /\ ret' = [Done("wait", 0, TRUE) EXCEPT !.events = Report(p)]
  BY DEF xpoll_wait
<1>7. ASSUME NEW p \in N PROVE pfd_count # 0
  BY <1>5
<1> HIDE DEF N, found
<1> QED BY <1>3, <1>4, <1>6, <1>7

(* For any descriptors and capacities and any callers, up to the first     *)
(* call that strays the generic backend does to the registrations, and     *)
(* reports, what xpoll promises; entries that a removal moves included.    *)
THEOREM PollImplementsRegistry == Spec => RefinesRegistry
<1>1. Init => RegistryExact /\ R!Init
  <2> SUFFICES ASSUME Init PROVE RegistryExact /\ R!Init
    OBVIOUS
  <2>1. InUse = {}
    BY DEF Init, InUse
  <2>2. Interest = {}
    BY <2>1 DEF Interest
  <2> QED BY <2>2, FreshRegistry DEF Init, R!Init, Done, R!Done
<1>2. RegistryExact /\ [Next]_vars => [strayed' \/ R!Next]_(R!vars)
  <2> SUFFICES ASSUME RegistryExact, [Next]_vars, ~strayed'
               PROVE  [R!Next]_(R!vars)
    OBVIOUS
  <2>0. TypeOK /\ strayed \in BOOLEAN /\ (~strayed => EntriesExact)
    BY DEF RegistryExact, TypeOK
  <2> USE DEF R!Done, Done
  <2>1. ASSUME NEW fd \in Fd, CtlAddFails(fd)
        PROVE  UNCHANGED <<Interest, ready>>
    BY <2>1 DEF CtlAddFails, Interest, InUse
  <2>2. ASSUME Untouched PROVE UNCHANGED <<Interest, ready>>
    BY <2>2 DEF Untouched, tables, Interest, InUse
  <2>3. \A fd \in Fd : \A r \in Regs[fd] : r \in Reg
    BY DEF Reg
  <2>4. ASSUME NEW fd \in Fd, NEW r \in Regs[fd], xpoll_add_fd(fd, r)
        PROVE  R!Next
    <3>1. CASE CtlAdd(fd, r) /\ ret' = Done("add", fd, TRUE)
      <4>0. ~strayed
        BY <2>0, <3>1 DEF CtlAdd
      <4>1. R!Add(fd, r)
        BY <2>0, <3>1, <4>0, AddInterest DEF R!Add
      <4> QED BY <2>3, <4>1 DEF R!Next
    <3>2. CASE CtlAddFails(fd) /\ ret' = Done("add", fd, FALSE)
      <4>1. R!AddFails(fd)
        BY <2>1, <3>2 DEF R!AddFails
      <4> QED BY <4>1 DEF R!Next
    <3> QED BY <2>4, <3>1, <3>2 DEF xpoll_add_fd
  <2>5. ASSUME NEW fd \in Fd, NEW r \in Regs[fd], xpoll_modify_fd(fd, r)
        PROVE  R!Next
    <3>1. CASE CtlMod(fd, r) /\ ret' = Done("modify", fd, TRUE)
      <4>0. ~strayed /\ ~Stale(fd)
        BY <2>0, <3>1 DEF CtlMod
      <4>1. R!Modify(fd, r)
        BY <2>0, <3>1, <4>0, ModInterest DEF R!Modify
      <4> QED BY <2>3, <4>1 DEF R!Next
    <3>2. CASE ~Known(fd) /\ Untouched /\ ret' = Done("modify", fd, FALSE)
      <4>0. ~strayed
        BY <3>2 DEF Untouched
      <4>1. R!NotThere("modify", fd)
        BY <2>0, <2>2, <3>2, <4>0, RegisteredAt DEF R!NotThere
      <4> QED BY <4>1 DEF R!Next
    <3> QED BY <2>5, <3>1, <3>2 DEF xpoll_modify_fd
  <2>6. ASSUME NEW fd \in Fd, NEW r \in Regs[fd], xpoll_add_or_modify_fd(fd, r)
        PROVE  R!Next
    <3>1. CASE CtlMod(fd, r) /\ ret' = Done("add_or_modify", fd, TRUE)
      <4>0. ~strayed /\ ~Stale(fd)
        BY <2>0, <3>1 DEF CtlMod
      <4>1. R!AddOrModify(fd, r)
        BY <2>0, <3>1, <4>0, ModInterest DEF R!AddOrModify
      <4> QED BY <2>3, <4>1 DEF R!Next
    <3>2. CASE CtlAdd(fd, r) /\ ret' = Done("add_or_modify", fd, TRUE)
      <4>0. ~strayed
        BY <2>0, <3>2 DEF CtlAdd
      <4>1. /\ Interest' = (Interest \ R!Registered(fd)) \cup {<<fd, r>>}
            /\ ready' = ready
        BY <2>0, <3>2, <4>0, AddInterest
      <4>2. R!AddOrModify(fd, r)
        BY <3>2, <4>1 DEF R!AddOrModify
      <4> QED BY <2>3, <4>2 DEF R!Next
    <3>3. CASE /\ ~Known(fd) /\ CtlAddFails(fd)
               /\ ret' = Done("add_or_modify", fd, FALSE)
      <4>0. ~strayed
        BY <3>3 DEF CtlAddFails
      <4>1. R!AddOrModifyFails(fd)
        BY <2>0, <2>1, <3>3, <4>0, RegisteredAt DEF R!AddOrModifyFails
      <4> QED BY <4>1 DEF R!Next
    <3> QED BY <2>6, <3>1, <3>2, <3>3 DEF xpoll_add_or_modify_fd
  <2>7. ASSUME NEW fd \in Fd, xpoll_remove_fd(fd)
        PROVE  R!Next
    <3>1. CASE CtlDel(fd) /\ ret' = Done("remove", fd, TRUE)
      <4>0. ~strayed /\ ~Stale(fd)
        BY <2>0, <3>1 DEF CtlDel
      <4>1. R!Remove(fd)
        BY <2>0, <3>1, <4>0, DelInterest DEF R!Remove
      <4> QED BY <4>1 DEF R!Next
    <3>2. CASE ~Known(fd) /\ Untouched /\ ret' = Done("remove", fd, FALSE)
      <4>0. ~strayed
        BY <3>2 DEF Untouched
      <4>1. R!NotThere("remove", fd)
        BY <2>0, <2>2, <3>2, <4>0, RegisteredAt DEF R!NotThere
      <4> QED BY <4>1 DEF R!Next
    <3> QED BY <2>7, <3>1, <3>2 DEF xpoll_remove_fd
  <2>8. ASSUME NEW max \in 1..Cardinality(Fd), xpoll_wait(max)
        PROVE  R!Next
    <3>0. ~strayed
      BY <2>8 DEF xpoll_wait
    <3>1. R!Wait(max)
      BY <2>0, <2>8, <3>0, WaitImplements
    <3>2. max \in 1..R!Cardinality(Fd)
      BY SameCardinality
    <3> QED BY <3>1, <3>2 DEF R!Next
  <2>9. CASE xpoll_wait_fails
    <3>1. R!WaitFails
      BY <2>9 DEF xpoll_wait_fails, tables, Interest, InUse, R!WaitFails
    <3> QED BY <3>1 DEF R!Next
  <2>10. CASE xpoll_close
    <3>1. InUse' = {}
      BY <2>10, CloseKeeps
    <3>2. Interest' = {}
      BY <3>1 DEF Interest
    <3>3. R!Close
      BY <2>10, <3>2 DEF xpoll_close, R!Close
    <3> QED BY <3>3 DEF R!Next
  <2>11. CASE Environment
    <3>0. ready' \subseteq Fd
      BY <2>0, <2>11 DEF Environment, TypeOK
    <3>1. R!Environment
      BY <2>11, <3>0 DEF Environment, tables, Interest, InUse, R!Environment
    <3> QED BY <3>1 DEF R!Next
  <2>12. CASE UNCHANGED vars
    BY <2>12 DEF vars, tables, Interest, InUse, R!vars
  <2> QED BY <2>4, <2>5, <2>6, <2>7, <2>8, <2>9, <2>10, <2>11, <2>12 DEF Next
<1>3. RegistryExact /\ [Next]_vars => RegistryExact'
  BY StepExact
<1> QED BY <1>1, <1>2, <1>3, PTL DEF Spec, RefinesRegistry
=============================================================================
