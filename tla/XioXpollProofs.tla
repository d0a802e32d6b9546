--------------------------- MODULE XioXpollProofs ---------------------------
(***************************************************************************)
(* Proofs about XioXpoll: its pools keep their tasks, states, buffers and  *)
(* slices through requests that are given up half-way, failing allocations *)
(* and waits whose result array is full, for every size of the pools.      *)
(***************************************************************************)
EXTENDS XioXpoll, FiniteSetTheorems, SequenceTheorems, WellFoundedInduction,
        TLAPS

-----------------------------------------------------------------------------
(* The inductive invariant *)

(* struct fh_xio *)
Slice == [bid : Buf, from : Nat, to : Nat]
Task == [udata : Udata \cup {NULL}, bytes : Slice \cup {NULL}]
State == [fd : Fd \cup {NULL}, armed : BOOLEAN, task_in : Seq(Index)]
Xio == [free_task_list : Seq(Index), free_fd_state_list : Seq(Index),
        free_buf_list : Seq(Buf), task_list : [Index -> Task],
        fd_state_list : [Index -> State],
        buf_list : [Buf -> [off : 0..BufSize, refs : Nat]],
        fd_state_table : UNION {[S -> Index] : S \in SUBSET Fd},
        stranded : BOOLEAN, answered : [Buf -> Nat]]

(* The free states are the bottom of the stack fh_xio_create filled. *)
Bottom(list) == /\ Len(list) <= NTask
                /\ \A n \in 1..Len(list) : list[n] = n - 1

Shape(x) ==
    /\ x \in Xio
    /\ Bottom(x.free_fd_state_list) /\ Len(x.free_buf_list) <= NBuf

Queues(x) == [s \in Index |-> x.fd_state_list[s].task_in]

(* No task is in two places: free is a list of tasks, and queues gives one *)
(* for every state.                                                        *)
Once(list) == \A m, n \in 1..Len(list) : list[m] = list[n] => m = n
Apart(free, queues) ==
    /\ Once(free)
    /\ \A s \in Index : Once(queues[s])
    /\ \A s \in Index, m \in 1..Len(free) :
         \A n \in 1..Len(queues[s]) : free[m] # queues[s][n]
    /\ \A s, r \in Index : s # r =>
         \A m \in 1..Len(queues[s]), n \in 1..Len(queues[r]) :
           queues[s][m] # queues[r][n]

(* Every task is in some place. *)
Free(list, t) == \E n \in 1..Len(list) : list[n] = t
Waits(queues, t) == \E s \in Index : \E n \in 1..Len(queues[s]) : queues[s][n] = t
Covered(free, queues) == \A t \in Index : Free(free, t) \/ Waits(queues, t)

(* A state has an owner, or it is free and has no tasks. *)
Owned(table, states, free) ==
    /\ IsInjective(table)
    /\ \A f \in DOMAIN table : /\ table[f] \notin 0..Len(free) - 1
                               /\ states[table[f]].fd = f
    /\ \A s \in Index : s \in 0..Len(free) - 1 \/ \E f \in DOMAIN table : table[f] = s
    /\ \A s \in 0..Len(free) - 1 : states[s].task_in = <<>>

(* The slices of waiting requests are cut from the used parts of referenced *)
(* buffers, apart from one another.                                         *)
Cut(tasks, bufs, t) ==
    LET a == tasks[t].bytes IN
    /\ a.from <= a.to /\ a.to <= bufs[a.bid].off /\ bufs[a.bid].refs > 0
PairApart(tasks, t, u) ==
    LET a == tasks[t].bytes
        b == tasks[u].bytes
    IN a.bid = b.bid => a.to <= b.from \/ b.to <= a.from
Slices(tasks, bufs, queues) ==
    \A t \in Index : tasks[t].bytes # NULL /\ Waits(queues, t) =>
      /\ Cut(tasks, bufs, t)
      /\ \A u \in Index \ {t} :
           tasks[u].bytes # NULL /\ Waits(queues, u) => PairApart(tasks, t, u)

Findable(bufs, free) ==
    \A b \in Buf : \/ Free(free, b)
                   \/ bufs[b].off = BufSize /\ bufs[b].refs > 0

(* Waiting requests have different udata. *)
UdataApart(tasks, queues) ==
    \A t, u \in Index : Waits(queues, t) /\ Waits(queues, u) /\ t # u =>
      tasks[t].udata # tasks[u].udata

Requests(x) == /\ Apart(x.free_task_list, Queues(x))
               /\ UdataApart(x.task_list, Queues(x))
Buffers(x) == /\ Slices(x.task_list, x.buf_list, Queues(x))
              /\ Findable(x.buf_list, x.free_buf_list)
States(x) ==
    /\ Covered(x.free_task_list, Queues(x))
    /\ Owned(x.fd_state_table, x.fd_state_list, x.free_fd_state_list)

(* A buffer is referred to by the slices of waiting and of answered requests. *)
Holding(tasks, queues, b) ==
    {t \in Index : /\ Waits(queues, t)
                   /\ tasks[t].bytes # NULL /\ tasks[t].bytes.bid = b}
Counted(x) ==
    \A b \in Buf :
      x.buf_list[b].refs
        = Cardinality(Holding(x.task_list, Queues(x), b)) + x.answered[b]

(* What holds of x when the asserts so far are ab.  A failed assert leaves  *)
(* an operation half done, and so does an entry that could not be deleted. *)
Kept(x, ab) ==
    /\ Shape(x) /\ Requests(x)
    /\ ab = "no" => Buffers(x)
    /\ ab = "no" /\ ~x.stranded => States(x) /\ Counted(x)

IInv == Kept(xio, aborted) /\ interest \subseteq Fd \X Index

-----------------------------------------------------------------------------
(* Sequences *)

(* The least number principle. *)
LEMMA LeastNat ==
    ASSUME NEW T, T \subseteq Nat, T # {}
    PROVE  \E n \in T : \A m \in T : n <= m
<1> DEFINE Less == OpToRel(<, Nat)
<1>1. IsWellFoundedOn(Less, Nat)
  BY NatLessThanWellFounded
<1>2. \A m, n \in Nat : m < n => <<m, n>> \in Less
  BY DEF OpToRel
<1> HIDE DEF Less
<1>3. PICK n \in T : \A m \in T : ~(<<m, n>> \in Less)
  BY <1>1, WFMin
<1>4. \A m \in T : ~(m < n) /\ m \in Nat /\ n \in Nat
  BY <1>2, <1>3
<1>5. \A m \in T : n <= m
  BY <1>4
<1> QED BY <1>5

(* f[i] is what the first i of the sequences seqs make together. *)
Joins(f, seqs, n) ==
    f = [i \in 1..n |-> IF i = 1 THEN seqs[i] ELSE f[i - 1] \o seqs[i]]

(* FlattenSeq computes such an f. *)
LEMMA FlattenDef ==
    ASSUME NEW seqs
    PROVE  FlattenSeq(seqs) = IF Len(seqs) = 0 THEN seqs
                              ELSE (CHOOSE f : Joins(f, seqs, Len(seqs)))[Len(seqs)]
BY DEF FlattenSeq, Joins

(* A function that joins n sequences extends to one more. *)
LEMMA JoinsStep ==
    ASSUME NEW f, NEW seqs, NEW n \in Nat, Joins(f, seqs, n)
    PROVE  \E e : Joins(e, seqs, n + 1)
<1> DEFINE last == IF n = 0 THEN seqs[1] ELSE f[n] \o seqs[n + 1]
           e == [i \in 1..n + 1 |-> IF i = n + 1 THEN last ELSE f[i]]
<1>1. \A i \in 1..n : f[i] = IF i = 1 THEN seqs[i] ELSE f[i - 1] \o seqs[i]
  BY DEF Joins
<1>2. ASSUME NEW i \in 1..n + 1
      PROVE  e[i] = IF i = 1 THEN seqs[i] ELSE e[i - 1] \o seqs[i]
  <2>1. CASE i = n + 1
    BY <2>1
  <2>2. CASE i # n + 1
    <3>1. i \in 1..n /\ e[i] = f[i]
      BY <2>2
    <3>2. CASE i = 1
      BY <1>1, <3>1, <3>2
    <3>3. CASE i # 1
      <4>1. i - 1 \in 1..n + 1 /\ i - 1 # n + 1
        BY <3>1, <3>3
      <4>2. e[i - 1] = f[i - 1]
        BY <4>1
      <4> HIDE DEF e
      <4> QED BY <1>1, <3>1, <3>3, <4>2
    <3> QED BY <3>2, <3>3
  <2> QED BY <2>1, <2>2
<1>3. e = [i \in 1..n + 1 |-> e[i]]
  OBVIOUS
<1> HIDE DEF e
<1>4. e = [i \in 1..n + 1 |-> IF i = 1 THEN seqs[i] ELSE e[i - 1] \o seqs[i]]
  BY <1>2, <1>3
<1> QED BY <1>4 DEF Joins

(* So there is one for every number of sequences. *)
LEMMA JoinsExist ==
    ASSUME NEW seqs, NEW n \in Nat
    PROVE  \E f : Joins(f, seqs, n)
<1> DEFINE T == {m \in Nat : ~\E f : Joins(f, seqs, m)}
<1> SUFFICES ASSUME T # {} PROVE FALSE
  OBVIOUS
<1>1. T \subseteq Nat
  OBVIOUS
<1>2. PICK m \in T : \A k \in T : m <= k
  BY <1>1, LeastNat
<1>3. m # 0
  <2>1. Joins(<<>>, seqs, 0)
    BY DEF Joins
  <2> QED BY <2>1
<1>4. m \in Nat /\ m - 1 \in Nat /\ ~(m <= m - 1) /\ (m - 1) + 1 = m
  BY <1>3
<1>5. PICK f : Joins(f, seqs, m - 1)
  BY <1>2, <1>4
<1>6. \E e : Joins(e, seqs, (m - 1) + 1)
  BY <1>4, <1>5, JoinsStep
<1> QED BY <1>4, <1>6

(* whole holds the sequences seqs: start[k] is what comes before the k-th. *)
Layout(whole, seqs, n, start, S) ==
    /\ whole \in Seq(S) /\ start \in [1..n -> Nat]
    /\ \A k \in 1..n : \A j \in 1..Len(seqs[k]) :
         /\ start[k] + j \in 1..Len(whole)
         /\ whole[start[k] + j] = seqs[k][j]
    /\ \A i \in 1..Len(whole) :
         \E k \in 1..n : \E j \in 1..Len(seqs[k]) : i = start[k] + j

(* One sequence lies where it begins. *)
LEMMA LayoutOne ==
    ASSUME NEW S, NEW seqs, seqs[1] \in Seq(S)
    PROVE  Layout(seqs[1], seqs, 1, [k \in 1..1 |-> 0], S)
<1>1. Len(seqs[1]) \in Nat
  BY LenProperties
<1>2. [k \in 1..1 |-> 0] \in [1..1 -> Nat] /\ [k \in 1..1 |-> 0][1] = 0
  OBVIOUS
<1>3. \A k \in 1..1 : k = 1
  OBVIOUS
<1>4. 1 \in 1..1
  OBVIOUS
<1> QED BY <1>1, <1>2, <1>3, <1>4 DEF Layout

(* The next sequence lies behind those before it. *)
LEMMA LayoutStep ==
    ASSUME NEW S, NEW seqs, NEW n \in Nat, n >= 1, NEW whole, NEW start,
           Layout(whole, seqs, n, start, S), seqs[n + 1] \in Seq(S)
    PROVE  Layout(whole \o seqs[n + 1], seqs, n + 1,
                  [k \in 1..n + 1 |-> IF k = n + 1 THEN Len(whole) ELSE start[k]], S)
<1> DEFINE w == whole \o seqs[n + 1]
           st == [k \in 1..n + 1 |-> IF k = n + 1 THEN Len(whole) ELSE start[k]]
<1>1. whole \in Seq(S) /\ start \in [1..n -> Nat]
  BY DEF Layout
<1>2. /\ w \in Seq(S) /\ Len(w) = Len(whole) + Len(seqs[n + 1])
      /\ Len(whole) \in Nat /\ Len(seqs[n + 1]) \in Nat
      /\ \A i \in 1..Len(whole) : w[i] = whole[i]
      /\ \A i \in 1..Len(seqs[n + 1]) : w[Len(whole) + i] = seqs[n + 1][i]
  <2>1. Len(whole) \in Nat /\ Len(seqs[n + 1]) \in Nat
    BY <1>1, LenProperties
  <2>2. /\ w \in Seq(S) /\ Len(w) = Len(whole) + Len(seqs[n + 1])
        /\ \A i \in 1..Len(whole) + Len(seqs[n + 1]) :
             w[i] = IF i <= Len(whole) THEN whole[i]
                    ELSE seqs[n + 1][i - Len(whole)]
    BY <1>1, ConcatProperties
  <2> HIDE DEF w
  <2>3. ASSUME NEW i \in 1..Len(whole)
        PROVE  w[i] = whole[i]
    BY <2>1, <2>2
  <2>4. ASSUME NEW i \in 1..Len(seqs[n + 1])
        PROVE  w[Len(whole) + i] = seqs[n + 1][i]
    <3>1. /\ Len(whole) + i \in 1..Len(whole) + Len(seqs[n + 1])
          /\ ~(Len(whole) + i <= Len(whole)) /\ Len(whole) + i - Len(whole) = i
      BY <2>1
    <3> QED BY <2>2, <3>1
  <2> QED BY <2>1, <2>2, <2>3, <2>4
<1>3. st \in [1..n + 1 -> Nat] /\ st[n + 1] = Len(whole)
      /\ \A k \in 1..n : st[k] = start[k] /\ k \in 1..n + 1
  BY <1>1, <1>2
<1> HIDE DEF w, st
<1>4. \A k \in 1..n + 1 : k \in 1..n \/ k = n + 1
  OBVIOUS
<1>5. ASSUME NEW k \in 1..n + 1, NEW j \in 1..Len(seqs[k])
      PROVE  st[k] + j \in 1..Len(w) /\ w[st[k] + j] = seqs[k][j]
  <2>1. CASE k \in 1..n
    <3>1. start[k] + j \in 1..Len(whole) /\ whole[start[k] + j] = seqs[k][j]
      BY <2>1 DEF Layout
    <3>2. start[k] + j \in 1..Len(w)
      BY <1>2, <3>1
    <3> QED BY <1>2, <1>3, <2>1, <3>1, <3>2
  <2>2. CASE k = n + 1
    <3>1. j \in 1..Len(seqs[n + 1])
      BY <2>2
    <3>2. Len(whole) + j \in 1..Len(w)
      BY <1>2, <3>1
    <3>3. st[k] = Len(whole)
      BY <1>3, <2>2
    <3> QED BY <1>2, <2>2, <3>1, <3>2, <3>3
  <2> QED BY <1>4, <2>1, <2>2
<1>6. ASSUME NEW i \in 1..Len(w)
      PROVE  \E k \in 1..n + 1 : \E j \in 1..Len(seqs[k]) : i = st[k] + j
  <2>1. CASE i <= Len(whole)
    <3>1. i \in 1..Len(whole)
      BY <1>2, <2>1
    <3>2. PICK k \in 1..n : \E j \in 1..Len(seqs[k]) : i = start[k] + j
      BY <3>1 DEF Layout
    <3> QED BY <1>3, <3>2
  <2>2. CASE i > Len(whole)
    <3>1. i - Len(whole) \in 1..Len(seqs[n + 1]) /\ i = Len(whole) + (i - Len(whole))
      BY <1>2, <2>2
    <3>2. n + 1 \in 1..n + 1
      OBVIOUS
    <3> QED BY <1>3, <3>1, <3>2
  <2> QED BY <1>2, <2>1, <2>2
<1>7. Layout(w, seqs, n + 1, st, S)
  BY <1>2, <1>3, <1>5, <1>6 DEF Layout
<1> QED BY <1>7 DEF w, st

(* The sequences lie one behind the other in their join. *)
LEMMA JoinsLaid ==
    ASSUME NEW S, NEW n \in Nat, NEW seqs \in [1..n -> Seq(S)],
           NEW f, Joins(f, seqs, n), NEW k \in 1..n
    PROVE  \E start : Layout(f[k], seqs, k, start, S)
<1> DEFINE T == {m \in 1..n : ~\E start : Layout(f[m], seqs, m, start, S)}
<1> SUFFICES ASSUME T # {} PROVE FALSE
  OBVIOUS
<1>1. T \subseteq Nat
  OBVIOUS
<1>2. PICK m \in T : \A l \in T : m <= l
  BY <1>1, LeastNat
<1>3. \A i \in 1..n : f[i] = IF i = 1 THEN seqs[i] ELSE f[i - 1] \o seqs[i]
  BY DEF Joins
<1>4. m \in 1..n /\ ~\E start : Layout(f[m], seqs, m, start, S)
  OBVIOUS
<1>5. \A l \in 1..n : ~(m <= l) => \E start : Layout(f[l], seqs, l, start, S)
  BY <1>2
<1> HIDE DEF T
<1>6. CASE m = 1
  <2>1. f[1] = seqs[1] /\ seqs[1] \in Seq(S)
    BY <1>3, <1>4, <1>6
  <2> QED BY <1>4, <1>6, <2>1, LayoutOne
<1>7. CASE m # 1
  <2>1. m - 1 \in 1..n /\ ~(m <= m - 1) /\ m - 1 \in Nat /\ m - 1 >= 1
        /\ (m - 1) + 1 = m
    BY <1>4, <1>7
  <2>2. PICK start : Layout(f[m - 1], seqs, m - 1, start, S)
    BY <1>5, <2>1
  <2>3. seqs[(m - 1) + 1] \in Seq(S)
    BY <1>4, <2>1
  <2>4. \E st : Layout(f[m - 1] \o seqs[(m - 1) + 1], seqs, (m - 1) + 1, st, S)
    BY <2>1, <2>2, <2>3, LayoutStep
  <2>5. f[m] = f[m - 1] \o seqs[m]
    BY <1>3, <1>4, <1>7
  <2> QED BY <1>4, <2>1, <2>4, <2>5
<1> QED BY <1>6, <1>7

(* What FlattenSeq returns. *)
LEMMA Flattened ==
    ASSUME NEW S, NEW n \in Nat, NEW seqs \in [1..n -> Seq(S)]
    PROVE  \E start : Layout(FlattenSeq(seqs), seqs, n, start, S)
<1>1. seqs \in Seq(Seq(S)) /\ Len(seqs) = n
  BY SeqDef, LenProperties
<1>2. CASE n = 0
  <2>1. FlattenSeq(seqs) = seqs /\ seqs = <<>>
    BY <1>1, <1>2, FlattenDef
  <2>2. <<>> \in Seq(S) /\ Len(<<>>) = 0
    OBVIOUS
  <2>3. Layout(<<>>, seqs, 0, [k \in 1..0 |-> 0], S)
    BY <2>2 DEF Layout
  <2> QED BY <1>2, <2>1, <2>3
<1>3. CASE n # 0
  <2> DEFINE f == CHOOSE f : Joins(f, seqs, n)
  <2>1. Joins(f, seqs, n)
    BY JoinsExist
  <2>2. FlattenSeq(seqs) = f[n]
    BY <1>1, <1>3, FlattenDef
  <2> HIDE DEF f
  <2>3. n \in 1..n
    BY <1>3
  <2> QED BY <2>1, <2>2, <2>3, JoinsLaid
<1> QED BY <1>2, <1>3

(* A list without its last element. *)
LEMMA FrontFacts ==
    ASSUME NEW S, NEW list \in Seq(S), list # <<>>
    PROVE  /\ Len(list) \in Nat /\ Len(list) >= 1 /\ Len(list) \in 1..Len(list)
           /\ Last(list) = list[Len(list)] /\ Last(list) \in S
           /\ Front(list) \in Seq(S) /\ Len(Front(list)) = Len(list) - 1
           /\ \A n \in 1..Len(list) - 1 :
                Front(list)[n] = list[n] /\ n \in 1..Len(list)
<1>1. Len(list) \in Nat /\ Len(list) >= 1 /\ Len(list) \in 1..Len(list)
  BY LenProperties, EmptySeq
<1>2. Last(list) = list[Len(list)] /\ Last(list) \in S
  BY <1>1, ElementOfSeq DEF Last
<1> DEFINE m == Len(list) - 1
<1>3. m \in Int /\ 1 \in Int /\ \A i \in 1..m : list[i] \in S /\ i \in 1..Len(list)
  BY <1>1, ElementOfSeq
<1>5. Front(list) = SubSeq(list, 1, m)
  BY DEF Front
<1>a. m \in Nat
  BY <1>1
<1> HIDE DEF m
<1>4. m - 1 + 1 = m /\ \A i \in 1..m : 1 + i - 1 = i
  BY <1>a
<1>b. (IF 1 <= m THEN m - 1 + 1 ELSE 0) = m
  BY <1>a
<1>6. /\ SubSeq(list, 1, m) \in Seq(S)
      /\ Len(SubSeq(list, 1, m)) = m
      /\ \A i \in 1..m : SubSeq(list, 1, m)[i] = list[i]
  BY <1>3, <1>4, <1>b, SubSeqProperties
<1> QED BY <1>1, <1>2, <1>3, <1>5, <1>6 DEF m

-----------------------------------------------------------------------------
(* Buffers and slices *)

(* A set of positions has a greatest one. *)
LEMMA MaxIs ==
    ASSUME NEW T, T # {}, NEW n \in Nat, T \subseteq 1..n
    PROVE  Max(T) \in T
<1> DEFINE D == {n - p : p \in T}
<1>1. D \subseteq Nat /\ D # {}
  <2>1. \A p \in T : n - p \in Nat
    OBVIOUS
  <2> QED BY <2>1
<1>2. PICK d \in D : \A e \in D : d <= e
  BY <1>1, LeastNat
<1>3. PICK p \in T : d = n - p
  OBVIOUS
<1>4. \A q \in T : n - q \in D /\ q \in Nat
  OBVIOUS
<1> HIDE DEF D
<1>5. \A q \in T : p >= q
  <2> TAKE q \in T
  <2>1. n - p <= n - q /\ q \in Nat /\ p \in Nat
    BY <1>2, <1>3, <1>4
  <2> QED BY <2>1
<1> QED BY <1>5 DEF Max

(* The fields of x that have to do with slices ... *)
Room(x) == <<x.buf_list, x.free_buf_list, x.answered>>
(* ... and those that acquiring and releasing one leave alone. *)
Rest(x) == <<x.free_task_list, x.free_fd_state_list, x.task_list,
             x.fd_state_list, x.fd_state_table, x.stranded, x.answered>>

(* The sizes of the pools. *)
LEMMA PoolFacts ==
    /\ NTask \in Nat /\ NTask >= 1 /\ NBuf \in Nat /\ NBuf >= 1
    /\ BufSize \in Nat /\ BufSize >= 1
BY PoolAssumption

(* There are as many indices as tasks. *)
LEMMA IndexCounts == IsFiniteSet(Index) /\ Cardinality(Index) = NTask
<1>1. 0 \in Int /\ NTask - 1 \in Int /\ ~(0 > NTask - 1) /\ NTask - 1 - 0 + 1 = NTask
  BY PoolFacts
<1>2. /\ IsFiniteSet(0..NTask - 1)
      /\ Cardinality(0..NTask - 1) =
           IF 0 > NTask - 1 THEN 0 ELSE NTask - 1 - 0 + 1
  BY <1>1, FS_Interval
<1> QED BY <1>1, <1>2 DEF Index

(* The types of the fields. *)
LEMMA XioFields ==
    ASSUME NEW x \in Xio
    PROVE  /\ x.free_task_list \in Seq(Index)
           /\ x.free_fd_state_list \in Seq(Index)
           /\ x.free_buf_list \in Seq(Buf)
           /\ x.task_list \in [Index -> Task]
           /\ x.fd_state_list \in [Index -> State]
           /\ x.buf_list \in [Buf -> [off : 0..BufSize, refs : Nat]]
           /\ x.fd_state_table \in UNION {[S -> Index] : S \in SUBSET Fd}
           /\ x.stranded \in BOOLEAN
           /\ x.answered \in [Buf -> Nat]
BY DEF Xio

(* Where fh_xio_acquire_slice cuts. *)
LEMMA PickedFacts ==
    ASSUME NEW x \in Xio, NEW size \in Sizes, Fits(x, size) # {}
    PROVE  /\ PickPos(x, size) \in 1..Len(x.free_buf_list)
           /\ Picked(x, size) \in Buf
           /\ Picked(x, size) = x.free_buf_list[PickPos(x, size)]
           /\ x.buf_list[Picked(x, size)].off + size <= BufSize
<1>1. x.free_buf_list \in Seq(Buf) /\ Len(x.free_buf_list) \in Nat
      /\ DOMAIN x.free_buf_list = 1..Len(x.free_buf_list)
  BY XioFields, LenProperties
<1>2. Fits(x, size) \subseteq 1..Len(x.free_buf_list)
  BY <1>1 DEF Fits
<1>3. PickPos(x, size) \in Fits(x, size)
  BY <1>1, <1>2, MaxIs DEF PickPos
<1>4. PickPos(x, size) \in 1..Len(x.free_buf_list)
  BY <1>2, <1>3
<1>5. x.buf_list[Picked(x, size)].off + size <= BufSize
  BY <1>3 DEF Fits, Picked
<1>6. Picked(x, size) = x.free_buf_list[PickPos(x, size)]
  BY DEF Picked
<1>7. Picked(x, size) \in Buf
  BY <1>1, <1>4, <1>6, ElementOfSeq
<1> QED BY <1>4, <1>5, <1>6, <1>7

(* Taking the element at p out of a list, the last one taking its place. *)
LEMMA DropFacts ==
    ASSUME NEW S, NEW list \in Seq(S), NEW p \in 1..Len(list)
    PROVE  LET short == Front(ReplaceAt(list, p, Last(list))) IN
           /\ short \in Seq(S) /\ Len(short) = Len(list) - 1
           /\ \A e : Free(list, e) => Free(short, e) \/ e = list[p]
<1> DEFINE moved == ReplaceAt(list, p, Last(list))
           short == Front(moved)
<1>1. Len(list) \in Nat /\ DOMAIN list = 1..Len(list) /\ Len(list) \in 1..Len(list)
  BY LenProperties
<1>2. Last(list) = list[Len(list)] /\ Last(list) \in S
  BY <1>1, ElementOfSeq DEF Last
<1>3. moved = [list EXCEPT ![p] = list[Len(list)]]
  BY <1>2 DEF ReplaceAt
<1>4. moved \in Seq(S) /\ Len(moved) = Len(list)
  BY <1>2, <1>3, ExceptSeq
<1>5. /\ short \in Seq(S) /\ Len(short) = Len(list) - 1
      /\ \A i \in 1..Len(list) - 1 : short[i] = moved[i]
  <2> HIDE DEF moved
  <2>1. moved # <<>>
    BY <1>1, <1>4
  <2> QED BY <1>4, <2>1, FrontFacts
<1>a. Len(list) \in Nat
  BY LenProperties
<1>6. ASSUME NEW e, NEW i \in 1..Len(list), list[i] = e
      PROVE  Free(short, e) \/ e = list[p]
  <2> HIDE DEF short
  <2> SUFFICES ASSUME e # list[p]
               PROVE  \E n \in 1..Len(list) - 1 : short[n] = e
    BY <1>5 DEF Free
  <2>0. i # p
    BY <1>6
  <2>1. CASE i # Len(list)
    <3>1. i \in 1..Len(list) - 1
      <4> HIDE DEF moved
      <4> QED BY <1>a, <2>1
    <3>2. moved[i] = e
      BY <1>1, <1>3, <1>6, <2>0
    <3> QED BY <1>5, <3>1, <3>2
  <2>2. CASE i = Len(list)
    <3>1. p \in 1..Len(list) - 1
      <4> HIDE DEF moved
      <4> QED BY <1>a, <2>0, <2>2
    <3>2. moved[p] = e
      BY <1>1, <1>3, <1>6, <2>2
    <3> HIDE DEF moved
    <3> QED BY <1>5, <3>1, <3>2
  <2> QED BY <2>1, <2>2
<1> HIDE DEF short, moved
<1>7. \A e : Free(list, e) => Free(short, e) \/ e = list[p]
  BY <1>6 DEF Free
<1> QED BY <1>5, <1>7 DEF short, moved

(* fh_xio_acquire_slice cuts size bytes off a buffer. *)
LEMMA AcquireFacts ==
    ASSUME NEW x \in Xio, NEW size \in Sizes, Fits(x, size) # {}
    PROVE  LET y == fh_xio_acquire_slice(x, size)
               b == Picked(x, size)
           IN /\ y \in Xio /\ Rest(y) = Rest(x)
              /\ Len(y.free_buf_list) <= Len(x.free_buf_list)
              /\ y.buf_list[b].off = x.buf_list[b].off + size
              /\ y.buf_list[b].refs = x.buf_list[b].refs + 1
              /\ \A c \in Buf \ {b} : y.buf_list[c] = x.buf_list[c]
              /\ \A c \in Buf : Free(x.free_buf_list, c) =>
                   Free(y.free_buf_list, c) \/ (c = b /\ y.buf_list[b].off = BufSize)
<1> DEFINE y == fh_xio_acquire_slice(x, size)
           b == Picked(x, size)
           p == PickPos(x, size)
           bufs == [x.buf_list EXCEPT ![b] = [off |-> @.off + size, refs |-> @.refs + 1]]
           z == [x EXCEPT !.buf_list = bufs]
           short == Front(ReplaceAt(x.free_buf_list, p, Last(x.free_buf_list)))
<1>1. /\ p \in 1..Len(x.free_buf_list) /\ b \in Buf /\ b = x.free_buf_list[p]
      /\ x.buf_list[b].off + size <= BufSize
  BY PickedFacts
<1>2. size \in Nat /\ BufSize \in Nat
  BY SizeAssumption, PoolFacts
<1>3. /\ x.buf_list \in [Buf -> [off : 0..BufSize, refs : Nat]]
      /\ x.free_buf_list \in Seq(Buf)
  BY XioFields
<1>4. x.buf_list[b].off \in 0..BufSize /\ x.buf_list[b].refs \in Nat
  BY <1>1, <1>3
<1>5. [off |-> x.buf_list[b].off + size, refs |-> x.buf_list[b].refs + 1]
        \in [off : 0..BufSize, refs : Nat]
  <2> HIDE DEF y, bufs, short, b, p, z
  <2>1. x.buf_list[b].off + size \in 0..BufSize
    BY <1>1, <1>2, <1>4
  <2>2. x.buf_list[b].refs + 1 \in Nat
    BY <1>4
  <2> QED BY <2>1, <2>2
<1>6. /\ bufs \in [Buf -> [off : 0..BufSize, refs : Nat]]
      /\ bufs[b].off = x.buf_list[b].off + size
      /\ bufs[b].refs = x.buf_list[b].refs + 1
      /\ \A c \in Buf \ {b} : bufs[c] = x.buf_list[c]
  BY <1>1, <1>3, <1>5
<1>7. y = IF bufs[b].off < BufSize THEN z ELSE [z EXCEPT !.free_buf_list = short]
  <2>1. z = [x EXCEPT !.buf_list[b] = [off |-> @.off + size, refs |-> @.refs + 1]]
    OBVIOUS
  <2>2. z.buf_list = bufs /\ z.free_buf_list = x.free_buf_list
    BY DEF Xio
  <2> QED BY <2>1, <2>2 DEF fh_xio_acquire_slice
<1>8. /\ short \in Seq(Buf) /\ Len(short) = Len(x.free_buf_list) - 1
      /\ \A e : Free(x.free_buf_list, e) => Free(short, e) \/ e = b
  BY <1>1, <1>3, DropFacts
<1>9. Len(x.free_buf_list) \in Nat
  BY <1>3, LenProperties
<1> HIDE DEF bufs, short, b, p
<1>10. /\ z \in Xio /\ Rest(z) = Rest(x) /\ z.buf_list = bufs
       /\ z.free_buf_list = x.free_buf_list
  BY <1>6 DEF Xio, Rest
<1> HIDE DEF z, y
<1> SUFFICES /\ y \in Xio /\ Rest(y) = Rest(x)
             /\ Len(y.free_buf_list) <= Len(x.free_buf_list)
             /\ y.buf_list = bufs
             /\ \A c \in Buf : Free(x.free_buf_list, c) =>
                  Free(y.free_buf_list, c) \/ (c = b /\ bufs[b].off = BufSize)
  BY <1>6 DEF y, b
<1>11. CASE bufs[b].off < BufSize
  <2>1. y = z
    BY <1>7, <1>11
  <2>2. Len(y.free_buf_list) = Len(x.free_buf_list)
    BY <1>10, <2>1
  <2>3. Len(y.free_buf_list) <= Len(x.free_buf_list)
    BY <1>9, <2>2
  <2>4. y.free_buf_list = x.free_buf_list
    BY <1>10, <2>1
  <2>5. y \in Xio /\ Rest(y) = Rest(x) /\ y.buf_list = bufs
    BY <1>10, <2>1
  <2> QED BY <2>3, <2>4, <2>5
<1>12. CASE ~(bufs[b].off < BufSize)
  <2>1. y = [z EXCEPT !.free_buf_list = short]
    BY <1>7, <1>12
  <2>2. y \in Xio /\ Rest(y) = Rest(z) /\ y.buf_list = bufs /\ y.free_buf_list = short
    BY <1>8, <1>10, <2>1 DEF Xio, Rest
  <2>3. bufs[b].off = BufSize
    BY <1>1, <1>2, <1>4, <1>6, <1>12
  <2> QED BY <1>8, <1>9, <1>10, <2>2, <2>3
<1> QED BY <1>11, <1>12

(* fh_xio_release_slice takes a reference away. *)
LEMMA ReleaseFacts ==
    ASSUME NEW x \in Xio, NEW b \in Buf, x.buf_list[b].refs > 0
    PROVE  LET y == fh_xio_release_slice(x, b) IN
           /\ y \in Xio /\ Rest(y) = Rest(x)
           /\ Len(y.free_buf_list) <= Len(x.free_buf_list) + 1
           /\ \A c \in Buf : Free(x.free_buf_list, c) => Free(y.free_buf_list, c)
           /\ \A c \in Buf \ {b} : y.buf_list[c] = x.buf_list[c]
           /\ y.buf_list[b].refs = x.buf_list[b].refs - 1
           /\ IF x.buf_list[b].refs > 1
              THEN y.buf_list[b].off = x.buf_list[b].off
              ELSE Free(y.free_buf_list, b)
<1> DEFINE y == fh_xio_release_slice(x, b)
           bufs == [x.buf_list EXCEPT ![b].refs = @ - 1]
           reset == [bufs EXCEPT ![b].off = 0]
           z == [x EXCEPT !.buf_list = bufs]
           longer == Append(x.free_buf_list, b)
<1>1. /\ x.buf_list \in [Buf -> [off : 0..BufSize, refs : Nat]]
      /\ x.free_buf_list \in Seq(Buf) /\ BufSize \in Nat
  BY XioFields, PoolFacts
<1>2. x.buf_list[b] \in [off : 0..BufSize, refs : Nat] /\ x.buf_list[b].refs - 1 \in Nat
  BY <1>1
<1>3. /\ bufs \in [Buf -> [off : 0..BufSize, refs : Nat]]
      /\ bufs[b].off = x.buf_list[b].off /\ bufs[b].refs = x.buf_list[b].refs - 1
      /\ \A c \in Buf \ {b} : bufs[c] = x.buf_list[c]
  BY <1>1, <1>2
<1>4. y = IF bufs[b].refs > 0 THEN z
          ELSE [z EXCEPT !.buf_list = reset, !.free_buf_list = longer]
  <2>1. z = [x EXCEPT !.buf_list[b].refs = @ - 1]
    OBVIOUS
  <2>2. z.buf_list = bufs /\ z.free_buf_list = x.free_buf_list
    BY DEF Xio
  <2>3. [z EXCEPT !.buf_list = reset, !.free_buf_list = longer]
          = [z EXCEPT !.buf_list[b].off = 0, !.free_buf_list = Append(@, b)]
    BY <2>2
  <2> QED BY <2>1, <2>2, <2>3 DEF fh_xio_release_slice
<1> HIDE DEF bufs
<1>5. /\ reset \in [Buf -> [off : 0..BufSize, refs : Nat]]
      /\ reset[b].refs = bufs[b].refs
      /\ \A c \in Buf \ {b} : reset[c] = bufs[c]
  BY <1>1, <1>3
<1>6. /\ longer \in Seq(Buf) /\ Len(longer) = Len(x.free_buf_list) + 1
      /\ \A i \in 1..Len(x.free_buf_list) : longer[i] = x.free_buf_list[i]
      /\ longer[Len(x.free_buf_list) + 1] = b
      /\ Len(x.free_buf_list) \in Nat
  BY <1>1, AppendProperties, LenProperties
<1> HIDE DEF longer, reset
<1>7. Free(longer, b) /\ \A c : Free(x.free_buf_list, c) => Free(longer, c)
  <2>1. Len(longer) \in 1..Len(longer)
        /\ \A i \in 1..Len(x.free_buf_list) : i \in 1..Len(longer)
    BY <1>6
  <2> QED BY <1>6, <2>1 DEF Free
<1>8. /\ z \in Xio /\ Rest(z) = Rest(x) /\ z.buf_list = bufs
      /\ z.free_buf_list = x.free_buf_list
  BY <1>3 DEF Xio, Rest
<1> HIDE DEF z, y
<1> SUFFICES /\ y \in Xio /\ Rest(y) = Rest(x)
             /\ Len(y.free_buf_list) <= Len(x.free_buf_list) + 1
             /\ \A c \in Buf : Free(x.free_buf_list, c) => Free(y.free_buf_list, c)
             /\ \A c \in Buf \ {b} : y.buf_list[c] = x.buf_list[c]
             /\ y.buf_list[b].refs = x.buf_list[b].refs - 1
             /\ IF x.buf_list[b].refs > 1
                THEN y.buf_list[b].off = x.buf_list[b].off
                ELSE Free(y.free_buf_list, b)
  BY DEF y
<1>9. CASE bufs[b].refs > 0
  <2>1. y = z
    BY <1>4, <1>9
  <2>2. x.buf_list[b].refs > 1
    BY <1>2, <1>3, <1>9
  <2> QED BY <1>3, <1>6, <1>8, <2>1, <2>2, SMTT(30)
<1>10. CASE ~(bufs[b].refs > 0)
  <2>1. y = [z EXCEPT !.buf_list = reset, !.free_buf_list = longer]
    BY <1>4, <1>10
  <2>2. y \in Xio /\ Rest(y) = Rest(z) /\ y.buf_list = reset
        /\ y.free_buf_list = longer
    BY <1>5, <1>6, <1>8, <2>1 DEF Xio, Rest
  <2>3. ~(x.buf_list[b].refs > 1)
    BY <1>1, <1>3, <1>10
  <2>4. Len(y.free_buf_list) = Len(x.free_buf_list) + 1
    BY <1>6, <2>2
  <2>5. \A c \in Buf \ {b} : y.buf_list[c] = x.buf_list[c]
    BY <1>3, <1>5, <2>2
  <2>6. y.buf_list[b].refs = x.buf_list[b].refs - 1
    BY <1>3, <1>5, <2>2
  <2> QED BY <1>6, <1>7, <1>8, <2>2, <2>3, <2>4, <2>5, <2>6
<1> QED BY <1>9, <1>10

-----------------------------------------------------------------------------
(* Requests and states *)

(* The lists of waiting tasks. *)
LEMMA QueuesType ==
    ASSUME NEW x \in Xio
    PROVE  /\ Queues(x) \in [Index -> Seq(Index)]
           /\ \A s \in Index : Queues(x)[s] = x.fd_state_list[s].task_in
<1>1. x.fd_state_list \in [Index -> State]
  BY XioFields
<1>2. \A s \in Index : x.fd_state_list[s].task_in \in Seq(Index)
  BY <1>1 DEF State
<1> QED BY <1>2 DEF Queues

(* Nothing else than slices moved. *)
LEMMA RestSame ==
    ASSUME NEW x, NEW y, Rest(y) = Rest(x)
    PROVE  /\ Queues(y) = Queues(x) /\ y.task_list = x.task_list
           /\ y.free_task_list = x.free_task_list
           /\ y.free_fd_state_list = x.free_fd_state_list
           /\ y.fd_state_list = x.fd_state_list
           /\ y.fd_state_table = x.fd_state_table
           /\ y.stranded = x.stranded /\ y.answered = x.answered
           /\ Requests(x) => Requests(y)
           /\ States(x) => States(y)
<1>1. /\ y.task_list = x.task_list /\ y.free_task_list = x.free_task_list
      /\ y.free_fd_state_list = x.free_fd_state_list
      /\ y.fd_state_list = x.fd_state_list
      /\ y.fd_state_table = x.fd_state_table
      /\ y.stranded = x.stranded /\ y.answered = x.answered
  BY DEF Rest
<1>2. Queues(y) = Queues(x)
  BY <1>1 DEF Queues
<1> QED BY <1>1, <1>2 DEF Requests, States

(* Slices that were pending and still are stay in place. *)
LEMMA SlicesStay ==
    ASSUME NEW tasks, NEW bufs, NEW queues, Slices(tasks, bufs, queues),
           NEW tasks2, NEW bufs2, NEW queues2,
           \A t \in Index : tasks2[t].bytes # NULL /\ Waits(queues2, t) =>
             /\ tasks2[t].bytes = tasks[t].bytes /\ Waits(queues, t)
             /\ Cut(tasks, bufs, t) => Cut(tasks2, bufs2, t)
    PROVE  Slices(tasks2, bufs2, queues2)
BY DEF Slices, PairApart

(* A request that is not on a list has no request with its udata. *)
LEMMA UdataStays ==
    ASSUME NEW tasks, NEW queues, UdataApart(tasks, queues),
           NEW tasks2, NEW queues2,
           \A t \in Index : Waits(queues2, t) =>
             tasks2[t].udata = tasks[t].udata /\ Waits(queues, t)
    PROVE  UdataApart(tasks2, queues2)
BY DEF UdataApart

(* The queue of a state is emptied. *)
Emptied(queues, s) == [queues EXCEPT ![s] = <<>>]

(* Emptying a list puts no task in two places. *)
LEMMA EmptiedFacts ==
    ASSUME NEW free, NEW queues \in [Index -> Seq(Index)], NEW s \in Index
    PROVE  /\ \A t : Waits(Emptied(queues, s), t) => Waits(queues, t)
           /\ Apart(free, queues) => Apart(free, Emptied(queues, s))
           /\ Covered(free, queues) /\ queues[s] = <<>> =>
                Covered(free, Emptied(queues, s))
<1> DEFINE q == Emptied(queues, s)
<1>1. /\ q[s] = <<>> /\ Len(q[s]) = 0
      /\ \A r \in Index : r # s => q[r] = queues[r]
  BY DEF Emptied
<1>2. \A n \in 1..0 : FALSE
  OBVIOUS
<1> HIDE DEF q
<1>3. \A t : Waits(q, t) => Waits(queues, t)
  BY <1>1, <1>2 DEF Waits
<1>4. ASSUME Apart(free, queues)
      PROVE  Apart(free, q)
  <2>1. Once(free)
    BY <1>4 DEF Apart
  <2>2. \A r \in Index : Once(q[r])
    <3>1. Once(q[s])
      BY <1>1, <1>2 DEF Once
    <3> QED BY <1>1, <1>4, <3>1 DEF Apart
  <2>3. \A r \in Index, m \in 1..Len(free) :
          \A n \in 1..Len(q[r]) : free[m] # q[r][n]
    <3> TAKE r \in Index, m \in 1..Len(free)
    <3>1. CASE r = s
      BY <1>1, <1>2, <3>1
    <3>2. CASE r # s
      BY <1>1, <1>4, <3>2 DEF Apart
    <3> QED BY <3>1, <3>2
  <2>4. \A r1, r2 \in Index : r1 # r2 =>
          \A m \in 1..Len(q[r1]), n \in 1..Len(q[r2]) : q[r1][m] # q[r2][n]
    <3> TAKE r1, r2 \in Index
    <3>1. CASE r1 = s \/ r2 = s
      BY <1>1, <1>2, <3>1
    <3>2. CASE r1 # s /\ r2 # s
      BY <1>1, <1>4, <3>2 DEF Apart
    <3> QED BY <3>1, <3>2
  <2> QED BY <2>1, <2>2, <2>3, <2>4 DEF Apart
<1>5. ASSUME Covered(free, queues), queues[s] = <<>>
      PROVE  Covered(free, q)
  <2>1. \A r \in Index : q[r] = queues[r]
    BY <1>1, <1>5
  <2>2. \A t : Waits(queues, t) => Waits(q, t)
    BY <2>1 DEF Waits
  <2> QED BY <1>5, <2>2 DEF Covered
<1> QED BY <1>3, <1>4, <1>5 DEF q

-----------------------------------------------------------------------------
(* The states *)

(* The free states are 0, 1, and so on to the top of the stack. *)
LEMMA BottomFacts ==
    ASSUME NEW list \in Seq(Index), Bottom(list), list # <<>>
    PROVE  /\ Last(list) = Len(list) - 1 /\ Last(list) \in Index
           /\ Last(list) \in 0..Len(list) - 1
           /\ Front(list) \in Seq(Index) /\ Bottom(Front(list))
           /\ Len(Front(list)) = Len(list) - 1
           /\ Len(list) \in Nat
           /\ 0..Len(Front(list)) - 1 = (0..Len(list) - 1) \ {Last(list)}
<1>1. Len(list) \in Nat /\ Len(list) >= 1 /\ Len(list) \in 1..Len(list)
  BY FrontFacts
<1>2. Last(list) = Len(list) - 1 /\ Len(list) <= NTask /\ NTask \in Nat
  BY <1>1, FrontFacts, PoolFacts DEF Bottom
<1>3. Last(list) \in Index /\ Last(list) \in 0..Len(list) - 1
  BY <1>1, <1>2 DEF Index
<1>4. /\ Front(list) \in Seq(Index) /\ Len(Front(list)) = Len(list) - 1
      /\ \A n \in 1..Len(list) - 1 : Front(list)[n] = list[n]
  BY FrontFacts
<1>5. Bottom(Front(list))
  <2>1. \A n \in 1..Len(list) - 1 : n \in 1..Len(list)
    BY <1>1
  <2>2. Len(list) - 1 <= NTask
    BY <1>1, <1>2
  <2> QED BY <1>4, <2>1, <2>2 DEF Bottom
<1>6. 0..(Len(list) - 1) - 1 = (0..Len(list) - 1) \ {Len(list) - 1}
  BY <1>1
<1> QED BY <1>1, <1>2, <1>3, <1>4, <1>5, <1>6

(* The top of free_fd_state_list is written to, whether it is taken or not. *)
Reset(x, fd, s) == [x EXCEPT !.fd_state_list[s] = NewState(fd)]

(* What the new state changes. *)
LEMMA ResetFacts ==
    ASSUME NEW x \in Xio, NEW fd \in Fd, NEW s \in Index
    PROVE  LET y == Reset(x, fd, s) IN
           /\ y \in Xio /\ Room(y) = Room(x)
           /\ y.free_task_list = x.free_task_list
           /\ y.free_fd_state_list = x.free_fd_state_list
           /\ y.task_list = x.task_list /\ y.fd_state_table = x.fd_state_table
           /\ y.stranded = x.stranded
           /\ y.fd_state_list[s] = NewState(fd)
           /\ \A r \in Index \ {s} : y.fd_state_list[r] = x.fd_state_list[r]
           /\ Queues(y) = Emptied(Queues(x), s)
<1> DEFINE y == Reset(x, fd, s)
<1>1. x.fd_state_list \in [Index -> State]
  BY XioFields
<1>2. NewState(fd) \in State /\ NewState(fd).task_in = <<>>
  BY DEF NewState, State
<1>3. [x.fd_state_list EXCEPT ![s] = NewState(fd)] \in [Index -> State]
  BY <1>1, <1>2
<1>4. /\ y \in Xio /\ Room(y) = Room(x)
      /\ y.free_task_list = x.free_task_list
      /\ y.free_fd_state_list = x.free_fd_state_list
      /\ y.task_list = x.task_list /\ y.fd_state_table = x.fd_state_table
      /\ y.stranded = x.stranded
      /\ y.fd_state_list = [x.fd_state_list EXCEPT ![s] = NewState(fd)]
  BY <1>3 DEF Xio, Reset, Room
<1> HIDE DEF y
<1>5. /\ y.fd_state_list[s] = NewState(fd)
      /\ \A r \in Index \ {s} : y.fd_state_list[r] = x.fd_state_list[r]
  BY <1>1, <1>4
<1>6. Queues(y) = Emptied(Queues(x), s)
  <2>1. \A r \in Index : Queues(y)[r] = IF r = s THEN <<>> ELSE Queues(x)[r]
    <3>1. \A r \in Index : Queues(y)[r] = y.fd_state_list[r].task_in
      BY <1>4, QueuesType
    <3>2. \A r \in Index : Queues(x)[r] = x.fd_state_list[r].task_in
      BY QueuesType
    <3> QED BY <1>2, <1>5, <3>1, <3>2
  <2>2. Queues(y) \in [Index -> Seq(Index)] /\ Queues(x) \in [Index -> Seq(Index)]
    BY <1>4, QueuesType
  <2> QED BY <2>1, <2>2 DEF Emptied
<1> QED BY <1>4, <1>5, <1>6 DEF y

(* Emptying the queue of a state leaves the other requests as they were. *)
LEMMA EmptiedKeepsRequests ==
    ASSUME NEW x \in Xio, NEW y \in Xio, NEW s \in Index, Requests(x),
           Queues(y) = Emptied(Queues(x), s),
           y.task_list = x.task_list, y.free_task_list = x.free_task_list
    PROVE  /\ Requests(y)
           /\ \A t : Waits(Queues(y), t) => Waits(Queues(x), t)
<1>1. Queues(x) \in [Index -> Seq(Index)]
  BY QueuesType
<1>2. \A t : Waits(Queues(y), t) => Waits(Queues(x), t)
  BY <1>1, EmptiedFacts
<1>3. Apart(y.free_task_list, Queues(y))
  BY <1>1, EmptiedFacts DEF Requests
<1>4. UdataApart(y.task_list, Queues(y))
  BY <1>2, UdataStays DEF Requests
<1> QED BY <1>2, <1>3, <1>4 DEF Requests

(* A free state can be overwritten. *)
LEMMA ResetKeeps ==
    ASSUME NEW x, Shape(x), Requests(x), x.free_fd_state_list # <<>>, NEW fd \in Fd
    PROVE  LET s == Last(x.free_fd_state_list)
               y == Reset(x, fd, s)
           IN /\ s \in Index /\ Shape(y) /\ Requests(y)
              /\ \A t : Waits(Queues(y), t) => Waits(Queues(x), t)
              /\ States(x) => States(y)
<1> DEFINE s == Last(x.free_fd_state_list)
           y == Reset(x, fd, s)
           top == Len(x.free_fd_state_list) - 1
<1>1. x \in Xio /\ x.free_fd_state_list \in Seq(Index) /\ Bottom(x.free_fd_state_list)
      /\ Len(x.free_buf_list) <= NBuf
  BY XioFields DEF Shape
<1>2. s \in Index /\ s \in 0..top
  BY <1>1, BottomFacts
<1> HIDE DEF s
<1>3. /\ y \in Xio /\ Room(y) = Room(x)
      /\ y.free_task_list = x.free_task_list
      /\ y.free_fd_state_list = x.free_fd_state_list
      /\ y.task_list = x.task_list /\ y.fd_state_table = x.fd_state_table
      /\ y.fd_state_list[s] = NewState(fd)
      /\ \A r \in Index \ {s} : y.fd_state_list[r] = x.fd_state_list[r]
      /\ Queues(y) = Emptied(Queues(x), s)
  BY <1>1, <1>2, ResetFacts
<1> HIDE DEF y
<1>4. Shape(y)
  BY <1>1, <1>3 DEF Shape, Room
<1>5. Requests(y) /\ \A t : Waits(Queues(y), t) => Waits(Queues(x), t)
  BY <1>1, <1>2, <1>3, EmptiedKeepsRequests
<1>6. ASSUME States(x)
      PROVE  States(y)
  <2>1. /\ IsInjective(x.fd_state_table)
        /\ \A f \in DOMAIN x.fd_state_table :
             /\ x.fd_state_table[f] \notin 0..top
             /\ x.fd_state_list[x.fd_state_table[f]].fd = f
        /\ \A r \in Index : \/ r \in 0..top
                            \/ \E f \in DOMAIN x.fd_state_table : x.fd_state_table[f] = r
        /\ \A r \in 0..top : x.fd_state_list[r].task_in = <<>>
    BY <1>6 DEF States, Owned
  <2>2. \A f \in DOMAIN x.fd_state_table : x.fd_state_table[f] \in Index
    BY <1>1, XioFields
  <2>3. \A r \in 0..top : r \in Index
    <3>1. Len(x.free_fd_state_list) <= NTask /\ Len(x.free_fd_state_list) \in Nat
          /\ NTask \in Nat
      BY <1>1, PoolFacts, LenProperties DEF Bottom
    <3> QED BY <3>1 DEF Index
  <2>4. \A f \in DOMAIN x.fd_state_table :
          y.fd_state_list[x.fd_state_table[f]].fd = f
    BY <1>2, <1>3, <2>1, <2>2
  <2>5. NewState(fd).task_in = <<>>
    BY DEF NewState
  <2>6. \A r \in 0..top : y.fd_state_list[r].task_in = <<>>
    BY <1>3, <2>1, <2>3, <2>5
  <2>7. Owned(y.fd_state_table, y.fd_state_list, y.free_fd_state_list)
    BY <1>3, <2>1, <2>4, <2>6 DEF Owned
  <2>8. Queues(x)[s] = <<>> /\ Queues(x) \in [Index -> Seq(Index)]
    BY <1>1, <1>2, <2>1, QueuesType
  <2>9. Covered(y.free_task_list, Queues(y))
    BY <1>2, <1>3, <1>6, <2>8, EmptiedFacts DEF States
  <2> QED BY <2>7, <2>9 DEF States
<1> QED BY <1>2, <1>4, <1>5, <1>6 DEF s, y

(* fd_state_table with one more entry. *)
LEMMA TableFacts ==
    ASSUME NEW x \in Xio, NEW fd \in Fd, NEW s \in Index
    PROVE  /\ Table(x, fd, s) \in UNION {[S -> Index] : S \in SUBSET Fd}
           /\ DOMAIN Table(x, fd, s) = DOMAIN x.fd_state_table \cup {fd}
           /\ Table(x, fd, s)[fd] = s
           /\ \A f \in DOMAIN x.fd_state_table \ {fd} :
                Table(x, fd, s)[f] = x.fd_state_table[f]
<1> DEFINE D == DOMAIN x.fd_state_table
           table == Table(x, fd, s)
<1>1. D \in SUBSET Fd /\ \A f \in D : x.fd_state_table[f] \in Index
  BY XioFields
<1>2. /\ table = [f \in D \cup {fd} |-> IF f = fd THEN s ELSE x.fd_state_table[f]]
  BY DEF Table
<1>3. D \cup {fd} \in SUBSET Fd /\ table \in [D \cup {fd} -> Index]
  BY <1>1, <1>2
<1> QED BY <1>2, <1>3

(* The entry of a state that stays free. *)
LEMMA StrandedKeeps ==
    ASSUME NEW x, Shape(x), Requests(x), x.free_fd_state_list # <<>>, NEW fd \in Fd
    PROVE  LET s == Last(x.free_fd_state_list)
               y == [x EXCEPT !.fd_state_list[s] = NewState(fd),
                              !.fd_state_table = Table(x, fd, s), !.stranded = TRUE]
           IN /\ Shape(y) /\ Requests(y) /\ y.stranded
              /\ y.task_list = x.task_list /\ Room(y) = Room(x)
              /\ y.free_task_list = x.free_task_list
              /\ \A t : Waits(Queues(y), t) => Waits(Queues(x), t)
<1> DEFINE s == Last(x.free_fd_state_list)
           z == Reset(x, fd, s)
           y == [x EXCEPT !.fd_state_list[s] = NewState(fd),
                          !.fd_state_table = Table(x, fd, s), !.stranded = TRUE]
<1>1. x \in Xio
  BY DEF Shape
<1>2. s \in Index /\ Shape(z) /\ Requests(z)
      /\ \A t : Waits(Queues(z), t) => Waits(Queues(x), t)
  BY ResetKeeps
<1> HIDE DEF s
<1>3. Table(x, fd, s) \in UNION {[S -> Index] : S \in SUBSET Fd}
  BY <1>1, <1>2, TableFacts
<1>4. y = [z EXCEPT !.fd_state_table = Table(x, fd, s), !.stranded = TRUE]
  BY <1>1 DEF Xio, Reset
<1>5. /\ z \in Xio /\ z.task_list = x.task_list /\ Room(z) = Room(x)
      /\ z.free_task_list = x.free_task_list
  BY <1>1, <1>2, ResetFacts
<1> HIDE DEF y, z
<1>6. /\ y \in Xio /\ Room(y) = Room(z) /\ y.stranded
      /\ y.free_task_list = z.free_task_list /\ y.task_list = z.task_list
      /\ y.free_fd_state_list = z.free_fd_state_list
      /\ y.fd_state_list = z.fd_state_list
  BY <1>3, <1>4, <1>5 DEF Xio, Room
<1>7. Queues(y) = Queues(z)
  BY <1>6 DEF Queues
<1>8. Shape(y) /\ Requests(y)
  BY <1>2, <1>6, <1>7 DEF Shape, Requests, Room
<1> QED BY <1>2, <1>5, <1>6, <1>7, <1>8 DEF y, s

(* The state a request for an unknown descriptor takes. *)
LEMMA TakeStateKeeps ==
    ASSUME NEW x, Shape(x), Requests(x), x.free_fd_state_list # <<>>, NEW fd \in Fd
    PROVE  LET s == Last(x.free_fd_state_list)
               y == TakeState(x, fd)
           IN /\ s \in Index /\ Shape(y) /\ Requests(y)
              /\ y.stranded = x.stranded /\ y.free_task_list = x.free_task_list
              /\ y.task_list = x.task_list /\ Room(y) = Room(x)
              /\ s \notin 0..Len(y.free_fd_state_list) - 1
              /\ \A t : Waits(Queues(y), t) => Waits(Queues(x), t)
              /\ States(x) /\ fd \notin DOMAIN x.fd_state_table => States(y)
<1> DEFINE s == Last(x.free_fd_state_list)
           z == Reset(x, fd, s)
           y == TakeState(x, fd)
           table == Table(x, fd, s)
           front == Front(x.free_fd_state_list)
           top == Len(x.free_fd_state_list) - 1
<1>1. x \in Xio /\ x.free_fd_state_list \in Seq(Index) /\ Bottom(x.free_fd_state_list)
  BY XioFields DEF Shape
<1>2. s \in Index /\ Shape(z) /\ Requests(z)
      /\ (\A t : Waits(Queues(z), t) => Waits(Queues(x), t))
      /\ (States(x) => States(z))
  BY ResetKeeps
<1>3. /\ front \in Seq(Index) /\ Bottom(front) /\ s \in 0..top /\ s = top
      /\ 0..Len(front) - 1 = (0..top) \ {s}
  BY <1>1, BottomFacts
<1>4. y = [z EXCEPT !.free_fd_state_list = front, !.fd_state_table = table]
  BY <1>1 DEF Xio, Reset, TakeState
<1> HIDE DEF s, front
<1>5. /\ table \in UNION {[S -> Index] : S \in SUBSET Fd}
      /\ DOMAIN table = DOMAIN x.fd_state_table \cup {fd} /\ table[fd] = s
      /\ \A f \in DOMAIN x.fd_state_table \ {fd} : table[f] = x.fd_state_table[f]
  BY <1>1, <1>2, TableFacts, ZenonT(30)
<1> HIDE DEF table
<1>6. /\ z \in Xio /\ z.task_list = x.task_list /\ Room(z) = Room(x)
      /\ z.stranded = x.stranded /\ z.free_task_list = x.free_task_list
      /\ z.free_fd_state_list = x.free_fd_state_list
      /\ z.fd_state_table = x.fd_state_table
      /\ z.fd_state_list[s] = NewState(fd)
  BY <1>1, <1>2, ResetFacts
<1> HIDE DEF y, z
<1>7. /\ y \in Xio /\ Room(y) = Room(z) /\ y.stranded = z.stranded
      /\ y.free_task_list = z.free_task_list /\ y.task_list = z.task_list
      /\ y.free_fd_state_list = front /\ y.fd_state_table = table
      /\ y.fd_state_list = z.fd_state_list
  BY <1>3, <1>4, <1>5, <1>6 DEF Xio, Room
<1>8. Queues(y) = Queues(z)
  BY <1>7 DEF Queues
<1>9. Shape(y) /\ Requests(y)
  BY <1>2, <1>3, <1>7, <1>8 DEF Shape, Requests, Room
<1>10. ASSUME States(x), fd \notin DOMAIN x.fd_state_table
       PROVE  States(y)
  <2> HIDE DEF top
  <2>1. /\ IsInjective(x.fd_state_table)
        /\ \A f \in DOMAIN x.fd_state_table :
             /\ x.fd_state_table[f] \notin 0..top
             /\ z.fd_state_list[x.fd_state_table[f]].fd = f
        /\ \A r \in Index : \/ r \in 0..top
                            \/ \E f \in DOMAIN x.fd_state_table : x.fd_state_table[f] = r
        /\ \A r \in 0..top : z.fd_state_list[r].task_in = <<>>
    BY <1>2, <1>6, <1>10 DEF States, Owned, top
  <2>2. \A f \in DOMAIN x.fd_state_table : f # fd /\ table[f] = x.fd_state_table[f]
    BY <1>5, <1>10
  <2>3. NewState(fd).fd = fd
    BY DEF NewState
  <2>4. IsInjective(table)
    BY <1>3, <1>5, <2>1, <2>2 DEF IsInjective
  <2>5. \A f \in DOMAIN table : /\ table[f] \notin (0..top) \ {s}
                                /\ z.fd_state_list[table[f]].fd = f
    BY <1>5, <1>6, <2>1, <2>2, <2>3
  <2>6. \A r \in Index : \/ r \in (0..top) \ {s}
                         \/ \E f \in DOMAIN table : table[f] = r
    BY <1>5, <2>1, <2>2
  <2>7. Owned(y.fd_state_table, y.fd_state_list, y.free_fd_state_list)
    BY <1>3, <1>7, <2>1, <2>4, <2>5, <2>6 DEF Owned
  <2>8. Covered(y.free_task_list, Queues(y))
    BY <1>2, <1>7, <1>8, <1>10 DEF States
  <2> QED BY <2>7, <2>8 DEF States
<1>11. s \notin 0..Len(y.free_fd_state_list) - 1
  BY <1>3, <1>7
<1> QED BY <1>2, <1>6, <1>7, <1>8, <1>9, <1>10, <1>11 DEF y, s

-----------------------------------------------------------------------------
(* A request that is given up *)

(* A slice is never empty. *)
LEMMA SizeFacts ==
    ASSUME NEW size \in Sizes
    PROVE  size # OWN /\ size \in Nat /\ size >= 1
BY SizeAssumption, PoolFacts DEF OWN

(* The request has its slice, if it needs one. *)
Acq(x, size) == IF size = OWN THEN x ELSE fh_xio_acquire_slice(x, size)

(* Acquiring a slice touches the buffers only. *)
LEMMA AcquiredFacts ==
    ASSUME NEW x, Kept(x, "no"), NEW size \in Sizes \cup {OWN},
           size = OWN \/ Fits(x, size) # {}
    PROVE  LET y == Acq(x, size) IN
           /\ Shape(y) /\ Requests(y) /\ Rest(y) = Rest(x)
           /\ ~y.stranded => ~x.stranded /\ States(y)
<1> DEFINE y == Acq(x, size)
<1>1. /\ Shape(x) /\ Requests(x) /\ x \in Xio
      /\ ~x.stranded => States(x)
  BY DEF Kept, Shape
<1>2. y \in Xio /\ Rest(y) = Rest(x) /\ Len(y.free_buf_list) <= NBuf
  <2>1. CASE size = OWN
    <3>1. y = x
      BY <2>1 DEF Acq
    <3> QED BY <1>1, <3>1 DEF Shape
  <2>2. CASE size # OWN
    <3>1. size \in Sizes /\ y = fh_xio_acquire_slice(x, size)
      BY <2>2 DEF Acq
    <3> HIDE DEF y
    <3>2. y \in Xio /\ Rest(y) = Rest(x)
          /\ Len(y.free_buf_list) <= Len(x.free_buf_list)
      BY <1>1, <2>2, <3>1, AcquireFacts
    <3>3. Len(y.free_buf_list) \in Nat /\ Len(x.free_buf_list) \in Nat
          /\ NBuf \in Nat /\ Len(x.free_buf_list) <= NBuf
      BY <1>1, <3>2, XioFields, LenProperties, PoolFacts DEF Shape
    <3>4. Len(y.free_buf_list) <= NBuf
      BY <3>2, <3>3
    <3> QED BY <3>2, <3>4
  <2> QED BY <2>1, <2>2
<1> HIDE DEF y
<1>3. /\ Requests(y) /\ y.stranded = x.stranded
      /\ States(x) => States(y)
      /\ y.free_fd_state_list = x.free_fd_state_list
  BY <1>1, <1>2, RestSame
<1>4. Shape(y)
  BY <1>1, <1>2, <1>3 DEF Shape
<1> QED BY <1>1, <1>2, <1>3, <1>4 DEF y

(* The slices of x in the buffers that acquiring one more leaves. *)
LEMMA AcquiredBufs ==
    ASSUME NEW x, Kept(x, "no"), NEW size \in Sizes, Fits(x, size) # {}
    PROVE  LET y == fh_xio_acquire_slice(x, size)
               b == Picked(x, size)
           IN /\ b \in Buf /\ y \in Xio
              /\ x.buf_list[b].off \in Nat /\ x.buf_list[b].refs \in Nat
              /\ y.buf_list[b].off = x.buf_list[b].off + size
              /\ y.buf_list[b].refs = x.buf_list[b].refs + 1
              /\ \A c \in Buf \ {b} : y.buf_list[c] = x.buf_list[c]
              /\ Findable(y.buf_list, y.free_buf_list)
              /\ y.answered = x.answered
<1> DEFINE y == fh_xio_acquire_slice(x, size)
           b == Picked(x, size)
<1>1. x \in Xio /\ Findable(x.buf_list, x.free_buf_list)
  BY DEF Kept, Shape, Buffers
<1>2. b \in Buf
  BY <1>1, PickedFacts
<1>3. /\ y \in Xio
      /\ y.buf_list[b].off = x.buf_list[b].off + size
      /\ y.buf_list[b].refs = x.buf_list[b].refs + 1
      /\ \A c \in Buf \ {b} : y.buf_list[c] = x.buf_list[c]
      /\ \A c \in Buf : Free(x.free_buf_list, c) =>
           Free(y.free_buf_list, c) \/ (c = b /\ y.buf_list[b].off = BufSize)
  BY <1>1, AcquireFacts
<1> HIDE DEF y, b
<1>4. /\ x.buf_list \in [Buf -> [off : 0..BufSize, refs : Nat]]
      /\ y.buf_list \in [Buf -> [off : 0..BufSize, refs : Nat]] /\ BufSize \in Nat
  BY <1>1, <1>3, XioFields, PoolFacts
<1>5. x.buf_list[b] \in [off : 0..BufSize, refs : Nat]
      /\ y.buf_list[b] \in [off : 0..BufSize, refs : Nat]
  BY <1>2, <1>4
<1>6. /\ x.buf_list[b].off \in 0..BufSize /\ x.buf_list[b].refs \in Nat
      /\ y.buf_list[b].off \in 0..BufSize /\ y.buf_list[b].refs > 0
      /\ size \in Nat /\ size >= 1
  BY <1>3, <1>5, SizeFacts
<1>7. ASSUME NEW c \in Buf
      PROVE  \/ Free(y.free_buf_list, c)
             \/ y.buf_list[c].off = BufSize /\ y.buf_list[c].refs > 0
  <2>1. \/ Free(x.free_buf_list, c)
        \/ x.buf_list[c].off = BufSize /\ x.buf_list[c].refs > 0
    BY <1>1 DEF Findable
  <2>2. CASE Free(x.free_buf_list, c)
    BY <1>3, <1>6, <2>2
  <2>3. CASE x.buf_list[c].off = BufSize /\ x.buf_list[c].refs > 0
    <3>1. c # b
      <4>1. x.buf_list[b].off + size \in 0..BufSize
        BY <1>3, <1>6
      <4>2. x.buf_list[b].off # BufSize
        BY <1>4, <1>6, <4>1
      <4> QED BY <2>3, <4>2
    <3> QED BY <1>3, <2>3, <3>1
  <2> QED BY <2>1, <2>2, <2>3
<1>8. Findable(y.buf_list, y.free_buf_list)
  BY <1>7 DEF Findable
<1>9. x.buf_list[b].off \in Nat
  BY <1>4, <1>6
<1>10. y.answered = x.answered
  <2>1. Rest(y) = Rest(x)
    BY <1>1, AcquireFacts DEF y
  <2> QED BY <2>1 DEF Rest
<1> QED BY <1>2, <1>3, <1>6, <1>8, <1>9, <1>10 DEF y, b

(* The slice of a task is one. *)
LEMMA SliceType ==
    ASSUME NEW x \in Xio, NEW t \in Index, x.task_list[t].bytes # NULL
    PROVE  /\ x.task_list[t].bytes \in Slice
           /\ x.task_list[t].bytes.bid \in Buf
           /\ x.task_list[t].bytes.from \in Nat /\ x.task_list[t].bytes.to \in Nat
<1>1. x.task_list[t] \in Task
  BY XioFields
<1>2. x.task_list[t].bytes \in Slice
  BY <1>1 DEF Task
<1> QED BY <1>2 DEF Slice

(* An operation half done, after an assert failed. *)
LEMMA AbortedKeeps ==
    ASSUME NEW x, Shape(x), Requests(x), NEW ab, ab # "no"
    PROVE  Kept(x, ab)
BY DEF Kept

(* The free tasks are the same, so the waiting ones are. *)
LEMMA SameWaits ==
    ASSUME NEW x, Requests(x), NEW y, States(y),
           y.free_task_list = x.free_task_list,
           \A t : Waits(Queues(y), t) => Waits(Queues(x), t)
    PROVE  \A t \in Index : Waits(Queues(y), t) <=> Waits(Queues(x), t)
<1> SUFFICES ASSUME NEW t \in Index, Waits(Queues(x), t)
             PROVE  Waits(Queues(y), t)
  OBVIOUS
<1>1. Free(x.free_task_list, t) \/ Waits(Queues(y), t)
  BY DEF States, Covered
<1>2. ~Free(x.free_task_list, t)
  BY DEF Requests, Apart, Free, Waits
<1> QED BY <1>1, <1>2

(* y is x with the slice of a request that is given up, and with the state *)
(* as the request leaves it.                                               *)
LEMMA GiveUpKeeps ==
    ASSUME NEW x, Kept(x, "no"), NEW size \in Sizes \cup {OWN},
           size = OWN \/ Fits(x, size) # {},
           NEW y, Shape(y), Requests(y), Room(y) = Room(Acq(x, size)),
           y.task_list = x.task_list, y.free_task_list = x.free_task_list,
           \A t : Waits(Queues(y), t) => Waits(Queues(x), t),
           ~y.stranded => ~x.stranded /\ States(y)
    PROVE  /\ size = OWN => Kept(y, "no")
           /\ size # OWN /\ Len(y.free_buf_list) < NBuf =>
                Kept(fh_xio_release_slice(y, Picked(x, size)), "no")
<1>0. x \in Xio /\ Slices(x.task_list, x.buf_list, Queues(x))
      /\ Findable(x.buf_list, x.free_buf_list)
  BY DEF Kept, Shape, Buffers
<1>a. ASSUME ~y.stranded
      PROVE  /\ Counted(x)
             /\ \A t \in Index : Waits(Queues(y), t) <=> Waits(Queues(x), t)
  <2>1. Counted(x) /\ Requests(x) /\ States(y)
    BY <1>a DEF Kept
  <2> QED BY <1>0, <2>1, SameWaits
<1>1. ASSUME size = OWN
      PROVE  Kept(y, "no")
  <2>1. y.buf_list = x.buf_list /\ y.free_buf_list = x.free_buf_list
    BY <1>1 DEF Acq, Room
  <2>2. Slices(y.task_list, y.buf_list, Queues(y))
    BY <1>0, <2>1, SlicesStay
  <2>3. Buffers(y)
    BY <1>0, <2>1, <2>2 DEF Buffers
  <2>4. ASSUME ~y.stranded
        PROVE  Counted(y)
    <3>1. Counted(x) /\ y.answered = x.answered
      BY <1>1, <1>a, <2>4 DEF Acq, Room
    <3>2. \A b \in Buf : Holding(y.task_list, Queues(y), b)
                          = Holding(x.task_list, Queues(x), b)
      BY <1>a, <2>4 DEF Holding
    <3> QED BY <2>1, <3>1, <3>2 DEF Counted
  <2> QED BY <2>3, <2>4 DEF Kept
<1>2. ASSUME size # OWN, Len(y.free_buf_list) < NBuf
      PROVE  Kept(fh_xio_release_slice(y, Picked(x, size)), "no")
  <2> DEFINE a == fh_xio_acquire_slice(x, size)
             b == Picked(x, size)
             z == fh_xio_release_slice(y, b)
  <2>1. size \in Sizes /\ Fits(x, size) # {}
    BY <1>2
  <2>2. /\ b \in Buf /\ x.buf_list[b].off \in Nat /\ x.buf_list[b].refs \in Nat
        /\ a.buf_list[b].off = x.buf_list[b].off + size
        /\ a.buf_list[b].refs = x.buf_list[b].refs + 1
        /\ \A c \in Buf \ {b} : a.buf_list[c] = x.buf_list[c]
        /\ Findable(a.buf_list, a.free_buf_list)
        /\ a.answered = x.answered
    BY <2>1, AcquiredBufs
  <2>3. /\ y.buf_list = a.buf_list /\ y.free_buf_list = a.free_buf_list
        /\ y.answered = a.answered
    BY <1>2 DEF Acq, Room
  <2> HIDE DEF a, b
  <2>4. y \in Xio /\ y.buf_list[b].refs > 0
        /\ y.buf_list[b].refs = x.buf_list[b].refs + 1
    BY <2>2, <2>3 DEF Shape
  <2>5. /\ z \in Xio /\ Rest(z) = Rest(y)
        /\ Len(z.free_buf_list) <= Len(y.free_buf_list) + 1
        /\ \A c \in Buf : Free(y.free_buf_list, c) => Free(z.free_buf_list, c)
        /\ \A c \in Buf \ {b} : z.buf_list[c] = y.buf_list[c]
        /\ z.buf_list[b].refs = y.buf_list[b].refs - 1
        /\ IF y.buf_list[b].refs > 1
           THEN z.buf_list[b].off = y.buf_list[b].off
           ELSE Free(z.free_buf_list, b)
    BY <2>2, <2>4, ReleaseFacts
  <2> HIDE DEF z
  <2>6. /\ z.buf_list[b].refs = x.buf_list[b].refs
        /\ x.buf_list[b].refs > 0 => z.buf_list[b].off = x.buf_list[b].off + size
    <3>1. z.buf_list[b].refs = x.buf_list[b].refs
      BY <2>2, <2>4, <2>5
    <3>2. ASSUME x.buf_list[b].refs > 0
          PROVE  z.buf_list[b].off = x.buf_list[b].off + size
      <4>1. y.buf_list[b].refs > 1
        BY <2>2, <2>4, <3>2
      <4> QED BY <2>2, <2>3, <2>5, <4>1
    <3> QED BY <3>1, <3>2
  <2>7. /\ Queues(z) = Queues(y) /\ z.task_list = y.task_list
        /\ z.free_fd_state_list = y.free_fd_state_list /\ z.stranded = y.stranded
        /\ z.answered = y.answered
        /\ Requests(z) /\ (States(y) => States(z))
    BY <2>5, RestSame
  <2>8. Shape(z)
    <3>1. Len(y.free_buf_list) \in Nat /\ Len(z.free_buf_list) \in Nat /\ NBuf \in Nat
      BY <2>4, <2>5, XioFields, LenProperties, PoolFacts
    <3>2. Len(z.free_buf_list) <= NBuf
      BY <1>2, <2>5, <3>1
    <3> QED BY <2>5, <2>7, <3>2 DEF Shape
  <2>9. ASSUME NEW t \in Index, x.task_list[t].bytes # NULL,
               Cut(x.task_list, x.buf_list, t)
        PROVE  Cut(x.task_list, z.buf_list, t)
    <3>1. PICK c \in Buf : c = x.task_list[t].bytes.bid
      BY <1>0, <2>9, SliceType
    <3>2. PICK to \in Nat : to = x.task_list[t].bytes.to
      BY <1>0, <2>9, SliceType
    <3>3. /\ x.task_list[t].bytes.from <= x.task_list[t].bytes.to
          /\ to <= x.buf_list[c].off /\ x.buf_list[c].refs > 0
      BY <2>9, <3>1, <3>2 DEF Cut
    <3>4. to <= z.buf_list[c].off /\ z.buf_list[c].refs > 0
      <4>1. CASE c = b
        <5>1. size \in Nat
          BY <2>1, SizeFacts
        <5>2. to <= x.buf_list[b].off /\ x.buf_list[b].refs > 0
          BY <3>3, <4>1
        <5>3. z.buf_list[b].off = x.buf_list[b].off + size /\ z.buf_list[b].refs > 0
          BY <2>6, <5>2
        <5>4. to <= z.buf_list[b].off
          BY <2>2, <5>1, <5>2, <5>3
        <5> QED BY <4>1, <5>3, <5>4
      <4>2. CASE c # b
        BY <2>2, <2>3, <2>5, <3>3, <4>2
      <4> QED BY <4>1, <4>2
    <3> QED BY <3>1, <3>2, <3>3, <3>4 DEF Cut
  <2>10. Slices(z.task_list, z.buf_list, Queues(z))
    <3>1. z.task_list = x.task_list
      BY <2>7
    <3>2. \A t \in Index : z.task_list[t].bytes # NULL /\ Waits(Queues(z), t) =>
            /\ z.task_list[t].bytes = x.task_list[t].bytes /\ Waits(Queues(x), t)
            /\ Cut(x.task_list, x.buf_list, t) => Cut(z.task_list, z.buf_list, t)
      BY <2>7, <2>9, <3>1
    <3> QED BY <1>0, <3>2, SlicesStay
  <2>11. Findable(z.buf_list, z.free_buf_list)
    <3> SUFFICES ASSUME NEW c \in Buf
                 PROVE  \/ Free(z.free_buf_list, c)
                        \/ z.buf_list[c].off = BufSize /\ z.buf_list[c].refs > 0
      BY DEF Findable
    <3>1. \/ Free(y.free_buf_list, c)
          \/ y.buf_list[c].off = BufSize /\ y.buf_list[c].refs > 0
      BY <2>2, <2>3 DEF Findable
    <3>2. CASE Free(y.free_buf_list, c)
      BY <2>5, <3>2
    <3>3. CASE c # b /\ y.buf_list[c].off = BufSize /\ y.buf_list[c].refs > 0
      BY <2>5, <3>3
    <3>4. CASE c = b /\ y.buf_list[c].off = BufSize /\ y.buf_list[c].refs > 0
      <4>1. CASE y.buf_list[b].refs > 1
        <5>1. z.buf_list[b].refs > 0
          BY <2>2, <2>4, <2>6, <4>1
        <5> QED BY <2>5, <3>4, <4>1, <5>1
      <4>2. CASE ~(y.buf_list[b].refs > 1)
        BY <2>5, <3>4, <4>2
      <4> QED BY <4>1, <4>2
    <3> QED BY <3>1, <3>2, <3>3, <3>4
  <2>12. ASSUME ~z.stranded
         PROVE  Counted(z)
    <3>1. Counted(x) /\ \A t \in Index : Waits(Queues(z), t) <=> Waits(Queues(x), t)
      BY <1>a, <2>7, <2>12
    <3>2. z.task_list = x.task_list /\ z.answered = x.answered
      BY <2>2, <2>3, <2>7
    <3>3. \A c \in Buf : Holding(z.task_list, Queues(z), c)
                          = Holding(x.task_list, Queues(x), c)
      BY <3>1, <3>2 DEF Holding
    <3>4. \A c \in Buf : z.buf_list[c].refs = x.buf_list[c].refs
      BY <2>2, <2>3, <2>5, <2>6
    <3> QED BY <3>1, <3>2, <3>3, <3>4 DEF Counted
  <2>13. Kept(z, "no")
    BY <2>7, <2>8, <2>10, <2>11, <2>12 DEF Kept, Buffers
  <2> QED BY <2>13 DEF z, b
<1> QED BY <1>1, <1>2

-----------------------------------------------------------------------------
(* A request that is accepted *)

(* A list with one more element at its front. *)
LEMMA ConsFacts ==
    ASSUME NEW S, NEW list \in Seq(S), NEW t \in S
    PROVE  /\ <<t>> \o list \in Seq(S) /\ Len(<<t>> \o list) = Len(list) + 1
           /\ Len(list) \in Nat /\ (<<t>> \o list)[1] = t
           /\ \A n \in 1..Len(list) : (<<t>> \o list)[n + 1] = list[n]
           /\ \A n \in 1..Len(list) + 1 :
                n = 1 \/ (n - 1 \in 1..Len(list) /\ (<<t>> \o list)[n] = list[n - 1])
<1>1. <<t>> \in Seq(S) /\ Len(<<t>>) = 1 /\ <<t>>[1] = t /\ Len(list) \in Nat
  BY LenProperties
<1>2. /\ <<t>> \o list \in Seq(S) /\ Len(<<t>> \o list) = Len(<<t>>) + Len(list)
      /\ \A n \in 1..Len(<<t>>) + Len(list) : (<<t>> \o list)[n] =
           IF n <= Len(<<t>>) THEN <<t>>[n] ELSE list[n - Len(<<t>>)]
  BY <1>1, ConcatProperties
<1> DEFINE l == <<t>> \o list
<1> HIDE DEF l
<1>3. /\ l \in Seq(S) /\ Len(l) = 1 + Len(list)
      /\ \A n \in 1..1 + Len(list) : l[n] = IF n <= 1 THEN <<t>>[n] ELSE list[n - 1]
  BY <1>1, <1>2 DEF l
<1>4. Len(l) = Len(list) + 1
  BY <1>1, <1>3
<1>5. l[1] = t
  <2>1. 1 \in 1..1 + Len(list)
    BY <1>1
  <2> QED BY <1>1, <1>3, <2>1
<1>6. ASSUME NEW n \in 1..Len(list)
      PROVE  l[n + 1] = list[n]
  <2>1. n + 1 \in 1..1 + Len(list) /\ ~(n + 1 <= 1) /\ (n + 1) - 1 = n
    BY <1>1
  <2> QED BY <1>3, <2>1
<1>7. ASSUME NEW n \in 1..Len(list) + 1, n # 1
      PROVE  n - 1 \in 1..Len(list) /\ l[n] = list[n - 1]
  <2>1. n \in 1..1 + Len(list) /\ ~(n <= 1) /\ n - 1 \in 1..Len(list)
    BY <1>1, <1>7
  <2> QED BY <1>3, <2>1
<1> QED BY <1>1, <1>3, <1>4, <1>5, <1>6, <1>7 DEF l

(* Task t is put before the others that wait for the descriptor of s. *)
Pushed(queues, s, t) == [queues EXCEPT ![s] = <<t>> \o @]

(* The list that a task was put on. *)
LEMMA PushedType ==
    ASSUME NEW queues \in [Index -> Seq(Index)], NEW s \in Index, NEW t \in Index
    PROVE  LET q == Pushed(queues, s, t) IN
           /\ q \in [Index -> Seq(Index)]
           /\ \A r \in Index : r # s => q[r] = queues[r]
           /\ Len(q[s]) = Len(queues[s]) + 1 /\ Len(queues[s]) \in Nat
           /\ q[s][1] = t
           /\ \A n \in 1..Len(queues[s]) : q[s][n + 1] = queues[s][n]
           /\ \A n \in 1..Len(queues[s]) + 1 :
                n = 1 \/ (n - 1 \in 1..Len(queues[s]) /\ q[s][n] = queues[s][n - 1])
<1> DEFINE q == Pushed(queues, s, t)
<1>1. queues[s] \in Seq(Index)
  OBVIOUS
<1> DEFINE l == <<t>> \o queues[s]
<1>2. /\ l \in Seq(Index) /\ Len(l) = Len(queues[s]) + 1
      /\ Len(queues[s]) \in Nat /\ l[1] = t
      /\ \A n \in 1..Len(queues[s]) : l[n + 1] = queues[s][n]
      /\ \A n \in 1..Len(queues[s]) + 1 :
           n = 1 \/ (n - 1 \in 1..Len(queues[s]) /\ l[n] = queues[s][n - 1])
  BY <1>1, ConsFacts
<1>3. q = [queues EXCEPT ![s] = l]
  BY DEF Pushed
<1> HIDE DEF q, l
<1>4. /\ q \in [Index -> Seq(Index)] /\ q[s] = l
      /\ \A r \in Index : r # s => q[r] = queues[r]
  BY <1>2, <1>3
<1> QED BY <1>2, <1>4 DEF q

(* The task waits, and so do the others. *)
LEMMA PushedWaits ==
    ASSUME NEW queues \in [Index -> Seq(Index)], NEW s \in Index, NEW t \in Index
    PROVE  \A u : Waits(Pushed(queues, s, t), u) <=> (u = t \/ Waits(queues, u))
<1> DEFINE q == Pushed(queues, s, t)
<1>1. /\ q \in [Index -> Seq(Index)]
      /\ \A r \in Index : r # s => q[r] = queues[r]
      /\ Len(q[s]) = Len(queues[s]) + 1 /\ Len(queues[s]) \in Nat
      /\ q[s][1] = t
      /\ \A n \in 1..Len(queues[s]) : q[s][n + 1] = queues[s][n]
      /\ \A n \in 1..Len(queues[s]) + 1 :
           n = 1 \/ (n - 1 \in 1..Len(queues[s]) /\ q[s][n] = queues[s][n - 1])
  BY PushedType, ZenonT(30)
<1> HIDE DEF q
<1>2. \A n \in 1..Len(queues[s]) : n + 1 \in 1..Len(q[s])
  BY <1>1
<1>3. 1 \in 1..Len(q[s])
  BY <1>1
<1>4. ASSUME NEW u, Waits(q, u)
      PROVE  u = t \/ Waits(queues, u)
  <2>1. PICK r \in Index : \E n \in 1..Len(q[r]) : q[r][n] = u
    BY <1>4 DEF Waits
  <2>2. CASE r = s
    <3>1. PICK n \in 1..Len(q[s]) : q[s][n] = u
      BY <2>1, <2>2
    <3>2. n = 1 \/ (n - 1 \in 1..Len(queues[s]) /\ q[s][n] = queues[s][n - 1])
      BY <1>1
    <3> QED BY <1>1, <3>1, <3>2 DEF Waits
  <2>3. CASE r # s
    BY <1>1, <2>1, <2>3 DEF Waits
  <2> QED BY <2>2, <2>3
<1>5. ASSUME NEW u, Waits(queues, u)
      PROVE  Waits(q, u)
  <2>1. PICK r \in Index : \E n \in 1..Len(queues[r]) : queues[r][n] = u
    BY <1>5 DEF Waits
  <2>2. CASE r = s
    <3>1. PICK n \in 1..Len(queues[s]) : queues[s][n] = u
      BY <2>1, <2>2
    <3>2. q[s][n + 1] = u /\ n + 1 \in 1..Len(q[s])
      BY <1>1, <1>2, <3>1
    <3> QED BY <3>2 DEF Waits
  <2>3. CASE r # s
    BY <1>1, <2>1, <2>3 DEF Waits
  <2> QED BY <2>2, <2>3
<1>6. Waits(q, t)
  BY <1>1, <1>3 DEF Waits
<1> QED BY <1>4, <1>5, <1>6 DEF q

(* The task that moves is in one place. *)
LEMMA PushedApart ==
    ASSUME NEW free \in Seq(Index), free # <<>>, NEW s \in Index,
           NEW queues \in [Index -> Seq(Index)], Apart(free, queues)
    PROVE  LET t == Last(free) IN
           /\ t \in Index /\ ~Waits(queues, t)
           /\ Apart(Front(free), Pushed(queues, s, t))
           /\ Covered(free, queues) => Covered(Front(free), Pushed(queues, s, t))
<1> DEFINE t == Last(free)
           q == Pushed(queues, s, t)
           front == Front(free)
           L == Len(free)
<1>1. /\ L \in Nat /\ L >= 1 /\ L \in 1..L /\ t = free[L] /\ t \in Index
      /\ front \in Seq(Index) /\ Len(front) = L - 1
      /\ \A n \in 1..L - 1 : front[n] = free[n] /\ n \in 1..L
  BY FrontFacts
<1> HIDE DEF t, front
<1>a. t \in Index
  BY <1>1
<1>2. /\ q \in [Index -> Seq(Index)]
      /\ \A r \in Index : r # s => q[r] = queues[r]
      /\ Len(q[s]) = Len(queues[s]) + 1 /\ Len(queues[s]) \in Nat
      /\ q[s][1] = t
      /\ \A n \in 1..Len(queues[s]) : q[s][n + 1] = queues[s][n]
      /\ \A n \in 1..Len(queues[s]) + 1 :
           n = 1 \/ (n - 1 \in 1..Len(queues[s]) /\ q[s][n] = queues[s][n - 1])
  BY <1>a, PushedType, ZenonT(30)
<1>3. \A u : Waits(q, u) <=> (u = t \/ Waits(queues, u))
  BY <1>1, PushedWaits
<1>4. ~Waits(queues, t)
  BY <1>1 DEF Apart, Waits
<1> HIDE DEF q, L
<1>5. ASSUME NEW n \in 1..L - 1
      PROVE  front[n] # t
  <2>1. n # L
    BY <1>1
  <2>2. free[n] # free[L]
    BY <1>1, <2>1 DEF Apart, Once, L
  <2> QED BY <1>1, <2>2
<1>6. Once(front)
  <2>1. \A m, n \in 1..L : free[m] = free[n] => m = n
    BY DEF Apart, Once, L
  <2> QED BY <1>1, <2>1 DEF Once
<1>7. Once(q[s])
  <2> SUFFICES ASSUME NEW m \in 1..Len(q[s]), NEW n \in 1..Len(q[s]), q[s][m] = q[s][n]
               PROVE  m = n
    BY DEF Once
  <2>1. /\ m = 1 \/ (m - 1 \in 1..Len(queues[s]) /\ q[s][m] = queues[s][m - 1])
        /\ n = 1 \/ (n - 1 \in 1..Len(queues[s]) /\ q[s][n] = queues[s][n - 1])
    BY <1>2
  <2>2. \A k \in 1..Len(queues[s]) : queues[s][k] # t
    BY <1>4 DEF Waits
  <2>3. CASE m = 1 \/ n = 1
    BY <1>2, <2>1, <2>2, <2>3
  <2>4. CASE m # 1 /\ n # 1
    <3>1. m - 1 = n - 1
      BY <2>1, <2>4 DEF Apart, Once
    <3>2. m \in Int /\ n \in Int
      OBVIOUS
    <3> QED BY <3>1, <3>2
  <2> QED BY <2>3, <2>4
<1>8. \A r \in Index : Once(q[r])
  BY <1>2, <1>7 DEF Apart
<1>9. ASSUME NEW r \in Index, NEW n \in 1..Len(q[r])
      PROVE  q[r][n] = t \/ \E k \in 1..Len(queues[r]) : q[r][n] = queues[r][k]
  <2>1. CASE r = s
    <3>1. n \in 1..Len(queues[s]) + 1
      BY <1>2, <2>1
    <3>2. n = 1 \/ (n - 1 \in 1..Len(queues[s]) /\ q[s][n] = queues[s][n - 1])
      BY <1>2, <3>1
    <3> QED BY <1>2, <2>1, <3>2
  <2>2. CASE r # s
    BY <1>2, <2>2
  <2> QED BY <2>1, <2>2
<1>10. ASSUME NEW r \in Index, NEW m \in 1..Len(front), NEW n \in 1..Len(q[r])
       PROVE  front[m] # q[r][n]
  <2>1. m \in 1..L - 1
    BY <1>1
  <2>2. \A k \in 1..Len(queues[r]) : free[m] # queues[r][k]
    BY <1>1, <2>1 DEF Apart, L
  <2>3. q[r][n] = t \/ \E k \in 1..Len(queues[r]) : q[r][n] = queues[r][k]
    BY <1>9
  <2> QED BY <1>1, <1>5, <2>1, <2>2, <2>3
<1>11. ASSUME NEW r1 \in Index, NEW r2 \in Index, r1 # r2,
              NEW m \in 1..Len(q[r1]), NEW n \in 1..Len(q[r2])
       PROVE  q[r1][m] # q[r2][n]
  <2>1. \A k \in 1..Len(queues[r1]), l \in 1..Len(queues[r2]) :
          queues[r1][k] # queues[r2][l]
    BY <1>11 DEF Apart
  <2>2. \A k \in 1..Len(queues[r1]) : queues[r1][k] # t
    BY <1>4 DEF Waits
  <2>3. \A k \in 1..Len(queues[r2]) : queues[r2][k] # t
    BY <1>4 DEF Waits
  <2>4. CASE r1 # s
    <3>1. q[r1] = queues[r1]
      BY <1>2, <2>4
    <3>2. q[r2][n] = t \/ \E k \in 1..Len(queues[r2]) : q[r2][n] = queues[r2][k]
      BY <1>9
    <3> QED BY <2>1, <2>2, <3>1, <3>2
  <2>5. CASE r2 # s
    <3>1. q[r2] = queues[r2]
      BY <1>2, <2>5
    <3>2. q[r1][m] = t \/ \E k \in 1..Len(queues[r1]) : q[r1][m] = queues[r1][k]
      BY <1>9
    <3> QED BY <2>1, <2>3, <3>1, <3>2
  <2> QED BY <1>11, <2>4, <2>5
<1>12. Apart(front, q)
  BY <1>6, <1>8, <1>10, <1>11 DEF Apart
<1>13. ASSUME Covered(free, queues)
       PROVE  Covered(front, q)
  <2> SUFFICES ASSUME NEW u \in Index, ~Waits(q, u)
               PROVE  Free(front, u)
    BY DEF Covered
  <2>1. u # t /\ Free(free, u)
    BY <1>3, <1>13 DEF Covered
  <2>2. PICK n \in 1..L : free[n] = u
    BY <2>1 DEF Free, L
  <2>3. n # L
    BY <1>1, <2>1, <2>2
  <2>4. n \in 1..L - 1 /\ n \in 1..Len(front)
    BY <1>1, <2>3
  <2> QED BY <1>1, <2>2, <2>4 DEF Free
<1> QED BY <1>1, <1>4, <1>12, <1>13 DEF t, q, front

(* Where the bytes of a request are. *)
LEMMA BytesFacts ==
    ASSUME NEW x \in Xio, NEW size \in Sizes \cup {OWN},
           size = OWN \/ Fits(x, size) # {}
    PROVE  /\ Bytes(x, size) \in Slice \cup {NULL}
           /\ size = OWN => Bytes(x, size) = NULL
           /\ size # OWN =>
                /\ Bytes(x, size) \in Slice
                /\ Bytes(x, size).bid = Picked(x, size)
                /\ Bytes(x, size).from = x.buf_list[Picked(x, size)].off
                /\ Bytes(x, size).to = x.buf_list[Picked(x, size)].off + size
<1>1. CASE size = OWN
  BY <1>1 DEF Bytes
<1>2. CASE size # OWN
  <2> DEFINE b == Picked(x, size)
             off == x.buf_list[b].off
  <2>1. size \in Sizes /\ size \in Nat
    BY <1>2, SizeFacts
  <2>2. b \in Buf /\ x.buf_list \in [Buf -> [off : 0..BufSize, refs : Nat]]
        /\ BufSize \in Nat
    BY <1>2, <2>1, PickedFacts, XioFields, PoolFacts
  <2> HIDE DEF b
  <2>3. x.buf_list[b] \in [off : 0..BufSize, refs : Nat]
    BY <2>2
  <2>4. off \in 0..BufSize
    BY <2>3
  <2> HIDE DEF off
  <2>5. off \in Nat /\ off + size \in Nat
    BY <2>1, <2>2, <2>4
  <2>6. Bytes(x, size) = [bid |-> b, from |-> off, to |-> off + size]
    BY <1>2 DEF Bytes, b, off
  <2>7. [bid |-> b, from |-> off, to |-> off + size] \in Slice
    BY <2>2, <2>5 DEF Slice
  <2> QED BY <1>2, <2>6, <2>7 DEF b, off
<1> QED BY <1>1, <1>2

(* Accept, as a function of the state that the request goes on with. *)
Queue(y, s, udata, bytes) ==
    LET t == Last(y.free_task_list)
    IN [y EXCEPT !.free_task_list = Front(@),
                 !.task_list[t] = [udata |-> udata, bytes |-> bytes],
                 !.fd_state_list[s].armed = TRUE,
                 !.fd_state_list[s].task_in = <<t>> \o @]

(* What queueing a task changes. *)
LEMMA QueueFacts ==
    ASSUME NEW y \in Xio, y.free_task_list # <<>>, NEW s \in Index,
           NEW udata \in Udata, NEW bytes \in Slice \cup {NULL}
    PROVE  LET t == Last(y.free_task_list)
               z == Queue(y, s, udata, bytes)
           IN /\ t \in Index /\ z \in Xio /\ Room(z) = Room(y)
              /\ z.free_task_list = Front(y.free_task_list)
              /\ z.free_fd_state_list = y.free_fd_state_list
              /\ z.fd_state_table = y.fd_state_table /\ z.stranded = y.stranded
              /\ z.task_list[t].udata = udata /\ z.task_list[t].bytes = bytes
              /\ \A u \in Index \ {t} : z.task_list[u] = y.task_list[u]
              /\ \A r \in Index : z.fd_state_list[r].fd = y.fd_state_list[r].fd
              /\ \A r \in Index \ {s} : z.fd_state_list[r] = y.fd_state_list[r]
              /\ Queues(z) = Pushed(Queues(y), s, t)
<1> DEFINE t == Last(y.free_task_list)
           z == Queue(y, s, udata, bytes)
           front == Front(y.free_task_list)
           new == [udata |-> udata, bytes |-> bytes]
           tasks == [y.task_list EXCEPT ![t] = new]
           q == <<t>> \o y.fd_state_list[s].task_in
           state == [y.fd_state_list[s] EXCEPT !.armed = TRUE, !.task_in = q]
           states == [y.fd_state_list EXCEPT ![s] = state]
<1>1. /\ y.free_task_list \in Seq(Index) /\ y.task_list \in [Index -> Task]
      /\ y.fd_state_list \in [Index -> State]
  BY XioFields
<1>2. t \in Index /\ front \in Seq(Index)
  BY <1>1, FrontFacts
<1>3. y.fd_state_list[s] \in State /\ y.fd_state_list[s].task_in \in Seq(Index)
  BY <1>1 DEF State
<1>4. q \in Seq(Index)
  BY <1>2, <1>3, ConsFacts
<1>5. z = [y EXCEPT !.free_task_list = front, !.task_list = tasks,
                    !.fd_state_list = states]
  BY <1>3 DEF Queue, Xio, State
<1> HIDE DEF t, front, q
<1>6. new \in Task
  BY DEF Task
<1>7. /\ tasks \in [Index -> Task] /\ tasks[t] = new
      /\ \A u \in Index \ {t} : tasks[u] = y.task_list[u]
  BY <1>1, <1>2, <1>6
<1>8. state \in State /\ state.task_in = q /\ state.fd = y.fd_state_list[s].fd
  BY <1>3, <1>4 DEF State
<1> HIDE DEF new, tasks, state
<1>9. /\ states \in [Index -> State] /\ states[s] = state
      /\ \A r \in Index \ {s} : states[r] = y.fd_state_list[r]
  BY <1>1, <1>8
<1> HIDE DEF states, z
<1>10. /\ z \in Xio /\ Room(z) = Room(y) /\ z.free_task_list = front
       /\ z.free_fd_state_list = y.free_fd_state_list
       /\ z.fd_state_table = y.fd_state_table /\ z.stranded = y.stranded
       /\ z.task_list = tasks /\ z.fd_state_list = states
  BY <1>2, <1>5, <1>7, <1>9 DEF Xio, Room
<1>11. Queues(z) = Pushed(Queues(y), s, t)
  <2>1. /\ Queues(z) \in [Index -> Seq(Index)] /\ Queues(y) \in [Index -> Seq(Index)]
        /\ \A r \in Index : Queues(z)[r] = z.fd_state_list[r].task_in
        /\ \A r \in Index : Queues(y)[r] = y.fd_state_list[r].task_in
    BY <1>10, QueuesType
  <2>2. /\ Pushed(Queues(y), s, t) = [Queues(y) EXCEPT ![s] = q]
    BY <2>1 DEF Pushed, q
  <2>3. \A r \in Index : Queues(z)[r] = IF r = s THEN q ELSE Queues(y)[r]
    BY <1>8, <1>9, <1>10, <2>1
  <2> QED BY <1>4, <2>1, <2>2, <2>3
<1>12. z.task_list[t].udata = udata /\ z.task_list[t].bytes = bytes
  BY <1>7, <1>10 DEF new
<1>13. /\ \A u \in Index \ {t} : z.task_list[u] = y.task_list[u]
       /\ \A r \in Index \ {s} : z.fd_state_list[r] = y.fd_state_list[r]
  BY <1>7, <1>9, <1>10
<1>14. \A r \in Index : z.fd_state_list[r].fd = y.fd_state_list[r].fd
  BY <1>8, <1>9, <1>10
<1> QED BY <1>2, <1>10, <1>11, <1>12, <1>13, <1>14 DEF t, z, front

(* The new slice begins where those before it end. *)
LEMMA QueueSlices ==
    ASSUME NEW x, Kept(x, "no"), NEW size \in Sizes \cup {OWN},
           size = OWN \/ Fits(x, size) # {},
           NEW z \in Xio, Room(z) = Room(Acq(x, size)), NEW t \in Index,
           z.task_list[t].bytes = Bytes(x, size), ~Waits(Queues(x), t),
           \A u \in Index \ {t} : z.task_list[u] = x.task_list[u],
           \A u : Waits(Queues(z), u) => u = t \/ Waits(Queues(x), u)
    PROVE  Buffers(z)
<1>0. x \in Xio /\ Slices(x.task_list, x.buf_list, Queues(x))
      /\ Findable(x.buf_list, x.free_buf_list)
  BY DEF Kept, Shape, Buffers
<1>1. CASE size = OWN
  <2>1. z.buf_list = x.buf_list /\ z.free_buf_list = x.free_buf_list
    BY <1>1 DEF Acq, Room
  <2>2. z.task_list[t].bytes = NULL
    BY <1>0, <1>1, BytesFacts
  <2>3. \A u \in Index : z.task_list[u].bytes # NULL /\ Waits(Queues(z), u) =>
          /\ z.task_list[u].bytes = x.task_list[u].bytes /\ Waits(Queues(x), u)
          /\ Cut(x.task_list, x.buf_list, u) => Cut(z.task_list, z.buf_list, u)
    BY <2>1, <2>2 DEF Cut
  <2>4. Slices(z.task_list, z.buf_list, Queues(z))
    BY <1>0, <2>3, SlicesStay
  <2> QED BY <1>0, <2>1, <2>4 DEF Buffers
<1>2. CASE size # OWN
  <2> DEFINE a == fh_xio_acquire_slice(x, size)
             b == Picked(x, size)
             old == x.task_list
             new == z.task_list
  <2>1. size \in Sizes /\ Fits(x, size) # {} /\ size \in Nat
    BY <1>2, SizeFacts
  <2>2. /\ b \in Buf /\ x.buf_list[b].off \in Nat /\ x.buf_list[b].refs \in Nat
        /\ a.buf_list[b].off = x.buf_list[b].off + size
        /\ a.buf_list[b].refs = x.buf_list[b].refs + 1
        /\ \A c \in Buf \ {b} : a.buf_list[c] = x.buf_list[c]
        /\ Findable(a.buf_list, a.free_buf_list)
    BY <2>1, AcquiredBufs
  <2>3. z.buf_list = a.buf_list /\ z.free_buf_list = a.free_buf_list
    BY <1>2 DEF Acq, Room
  <2>4. /\ new[t].bytes.bid = b
        /\ new[t].bytes.from = x.buf_list[b].off
        /\ new[t].bytes.to = x.buf_list[b].off + size
    BY <1>0, <1>2, <2>1, BytesFacts
  <2> HIDE DEF a, b
  <2>5. Cut(new, z.buf_list, t)
    <3>1. PICK off \in Nat : off = x.buf_list[b].off
      BY <2>2
    <3>2. PICK refs \in Nat : refs = x.buf_list[b].refs
      BY <2>2
    <3>3. off <= off + size /\ off + size <= off + size /\ refs + 1 > 0
      BY <2>1, <3>1, <3>2
    <3> QED BY <2>2, <2>3, <2>4, <3>1, <3>2, <3>3 DEF Cut
  <2>6. ASSUME NEW u \in Index, old[u].bytes # NULL, Cut(old, x.buf_list, u)
        PROVE  /\ Cut(old, z.buf_list, u)
               /\ old[u].bytes.bid = b => old[u].bytes.to <= x.buf_list[b].off
    <3>1. PICK c \in Buf : c = old[u].bytes.bid
      BY <1>0, <2>6, SliceType
    <3>2. PICK to \in Nat : to = old[u].bytes.to
      BY <1>0, <2>6, SliceType
    <3>3. /\ old[u].bytes.from <= old[u].bytes.to
          /\ to <= x.buf_list[c].off /\ x.buf_list[c].refs > 0
      BY <2>6, <3>1, <3>2 DEF Cut
    <3>4. to <= z.buf_list[c].off /\ z.buf_list[c].refs > 0
      <4>1. CASE c = b
        <5>1. z.buf_list[b].off = x.buf_list[b].off + size
              /\ z.buf_list[b].refs = x.buf_list[b].refs + 1
          BY <2>2, <2>3
        <5>2. to <= x.buf_list[b].off
          BY <3>3, <4>1
        <5>3. to <= z.buf_list[b].off
          BY <2>1, <2>2, <5>1, <5>2
        <5>4. z.buf_list[b].refs > 0
          BY <2>2, <5>1
        <5> QED BY <4>1, <5>3, <5>4
      <4>2. CASE c # b
        BY <2>2, <2>3, <3>3, <4>2
      <4> QED BY <4>1, <4>2
    <3>5. Cut(old, z.buf_list, u)
      BY <3>1, <3>2, <3>3, <3>4 DEF Cut
    <3> QED BY <3>1, <3>2, <3>3, <3>5
  <2>7. ASSUME NEW u \in Index, u # t, new[u].bytes # NULL, Waits(Queues(z), u)
        PROVE  /\ new[u] = old[u] /\ old[u].bytes # NULL /\ Waits(Queues(x), u)
               /\ Cut(new, z.buf_list, u)
               /\ PairApart(new, u, t) /\ PairApart(new, t, u)
    <3>1. new[u] = old[u] /\ old[u].bytes # NULL /\ Waits(Queues(x), u)
      BY <2>7
    <3>2. Cut(old, x.buf_list, u)
      BY <1>0, <3>1 DEF Slices
    <3>3. /\ Cut(old, z.buf_list, u)
          /\ old[u].bytes.bid = b => old[u].bytes.to <= x.buf_list[b].off
      BY <2>6, <3>1, <3>2
    <3>4. Cut(new, z.buf_list, u)
      BY <3>1, <3>3 DEF Cut
    <3>5. PairApart(new, u, t) /\ PairApart(new, t, u)
      BY <2>4, <3>1, <3>3 DEF PairApart
    <3> QED BY <3>1, <3>4, <3>5
  <2>8. ASSUME NEW u \in Index, new[u].bytes # NULL, Waits(Queues(z), u),
               NEW v \in Index \ {u}, new[v].bytes # NULL, Waits(Queues(z), v)
        PROVE  PairApart(new, u, v)
    <3>1. CASE u = t \/ v = t
      BY <2>7, <2>8, <3>1
    <3>2. CASE u # t /\ v # t
      <4>1. /\ new[u] = old[u] /\ old[u].bytes # NULL /\ Waits(Queues(x), u)
            /\ new[v] = old[v] /\ old[v].bytes # NULL /\ Waits(Queues(x), v)
        BY <2>7, <2>8, <3>2
      <4>2. PairApart(old, u, v)
        BY <1>0, <2>8, <4>1 DEF Slices
      <4> QED BY <4>1, <4>2 DEF PairApart
    <3> QED BY <3>1, <3>2
  <2>9. \A u \in Index : new[u].bytes # NULL /\ Waits(Queues(z), u) =>
          Cut(new, z.buf_list, u)
    BY <2>5, <2>7
  <2>10. Slices(new, z.buf_list, Queues(z))
    BY <2>8, <2>9 DEF Slices
  <2> QED BY <2>2, <2>3, <2>10 DEF Buffers
<1> QED BY <1>1, <1>2

(* The new slice has one more holder. *)
LEMMA QueueCounts ==
    ASSUME NEW x, Kept(x, "no"), Counted(x), NEW size \in Sizes \cup {OWN},
           size = OWN \/ Fits(x, size) # {},
           NEW z \in Xio, Room(z) = Room(Acq(x, size)), NEW t \in Index,
           z.task_list[t].bytes = Bytes(x, size), ~Waits(Queues(x), t),
           \A u \in Index \ {t} : z.task_list[u] = x.task_list[u],
           \A u \in Index : Waits(Queues(z), u) <=> (u = t \/ Waits(Queues(x), u))
    PROVE  Counted(z)
<1> DEFINE old(c) == Holding(x.task_list, Queues(x), c)
           new(c) == Holding(z.task_list, Queues(z), c)
<1>1. x \in Xio
  BY DEF Kept, Shape
<1>2. \A c : t \notin old(c) /\ old(c) \subseteq Index
  BY DEF Holding
<1>3. \A c : new(c) = old(c)
                 \cup (IF z.task_list[t].bytes # NULL /\ z.task_list[t].bytes.bid = c
                       THEN {t} ELSE {})
  BY <1>2 DEF Holding
<1>4. \A c : IsFiniteSet(old(c)) /\ Cardinality(old(c)) \in Nat
             /\ Cardinality(old(c) \cup {t}) = Cardinality(old(c)) + 1
  BY <1>2, IndexCounts, FS_Subset, FS_CardinalityType, FS_AddElement
<1>5. \A c \in Buf : x.buf_list[c].refs = Cardinality(old(c)) + x.answered[c]
  BY DEF Counted
<1>6. x.answered \in [Buf -> Nat]
  BY <1>1, XioFields
<1> SUFFICES ASSUME NEW c \in Buf
             PROVE  z.buf_list[c].refs = Cardinality(new(c)) + z.answered[c]
  BY DEF Counted
<1>7. CASE size = OWN
  <2>1. z.buf_list = x.buf_list /\ z.answered = x.answered
    BY <1>7 DEF Acq, Room
  <2>2. z.task_list[t].bytes = NULL
    BY <1>1, <1>7, BytesFacts
  <2>3. new(c) = old(c)
    BY <1>3, <2>2
  <2> HIDE DEF old, new
  <2> QED BY <1>5, <2>1, <2>3
<1>8. CASE size # OWN
  <2> DEFINE a == fh_xio_acquire_slice(x, size)
             b == Picked(x, size)
  <2>1. size \in Sizes /\ Fits(x, size) # {}
    BY <1>8
  <2>2. /\ a.buf_list[b].refs = x.buf_list[b].refs + 1
        /\ \A d \in Buf \ {b} : a.buf_list[d] = x.buf_list[d]
        /\ a.answered = x.answered
    BY <2>1, AcquiredBufs
  <2>3. z.buf_list = a.buf_list /\ z.answered = a.answered
    BY <1>8 DEF Acq, Room
  <2>4. z.task_list[t].bytes \in Slice /\ z.task_list[t].bytes.bid = b
    BY <1>1, <1>8, <2>1, BytesFacts
  <2>5. z.task_list[t].bytes # NULL
    BY <2>4, NullAssumption DEF Slice
  <2> HIDE DEF a, b
  <2>6. CASE c = b
    <3>1. new(c) = old(c) \cup {t}
      BY <1>3, <2>4, <2>5, <2>6
    <3>2. Cardinality(new(c)) = Cardinality(old(c)) + 1
      BY <1>4, <3>1
    <3>3. z.buf_list[c].refs = x.buf_list[c].refs + 1 /\ z.answered[c] = x.answered[c]
      BY <2>2, <2>3, <2>6
    <3>4. PICK n \in Nat : n = Cardinality(old(c))
      BY <1>4
    <3>5. PICK m \in Nat : m = x.answered[c]
      BY <1>6
    <3>6. x.buf_list[c].refs = n + m
      BY <1>5, <3>4, <3>5
    <3> HIDE DEF old, new
    <3> QED BY <3>2, <3>3, <3>4, <3>5, <3>6
  <2>7. CASE c # b
    <3>1. new(c) = old(c)
      BY <1>3, <2>4, <2>7
    <3>2. z.buf_list[c].refs = x.buf_list[c].refs /\ z.answered[c] = x.answered[c]
      BY <2>2, <2>3, <2>7
    <3> HIDE DEF old, new
    <3> QED BY <1>5, <3>1, <3>2
  <2> QED BY <2>6, <2>7
<1> QED BY <1>7, <1>8

(* x is xio before the request, y is xio with its slice and its state. *)
LEMMA AcceptKeeps ==
    ASSUME NEW x, Kept(x, "no"), NEW size \in Sizes \cup {OWN},
           size = OWN \/ Fits(x, size) # {},
           NEW y, Shape(y), Requests(y), Room(y) = Room(Acq(x, size)),
           y.task_list = x.task_list, y.free_task_list = x.free_task_list,
           x.free_task_list # <<>>,
           \A u : Waits(Queues(y), u) => Waits(Queues(x), u),
           NEW s \in Index,
           ~y.stranded => /\ ~x.stranded /\ States(y)
                          /\ s \notin 0..Len(y.free_fd_state_list) - 1,
           NEW udata \in Udata,
           \A u \in Index : Waits(Queues(x), u) => x.task_list[u].udata # udata
    PROVE  Kept(Queue(y, s, udata, Bytes(x, size)), "no")
<1> DEFINE t == Last(y.free_task_list)
           bytes == Bytes(x, size)
           z == Queue(y, s, udata, bytes)
           front == Front(y.free_task_list)
<1>1. x \in Xio /\ y \in Xio /\ Requests(x)
  BY DEF Kept, Shape
<1>2. bytes \in Slice \cup {NULL}
  BY <1>1, BytesFacts
<1> HIDE DEF bytes
<1>3. /\ t \in Index /\ z \in Xio /\ Room(z) = Room(y)
      /\ z.free_task_list = front
      /\ z.free_fd_state_list = y.free_fd_state_list
      /\ z.fd_state_table = y.fd_state_table /\ z.stranded = y.stranded
      /\ z.task_list[t].udata = udata /\ z.task_list[t].bytes = bytes
      /\ \A u \in Index \ {t} : z.task_list[u] = y.task_list[u]
      /\ \A r \in Index : z.fd_state_list[r].fd = y.fd_state_list[r].fd
      /\ \A r \in Index \ {s} : z.fd_state_list[r] = y.fd_state_list[r]
      /\ Queues(z) = Pushed(Queues(y), s, t)
  BY <1>1, <1>2, QueueFacts
<1>4. /\ Queues(y) \in [Index -> Seq(Index)] /\ y.free_task_list \in Seq(Index)
      /\ Queues(x) \in [Index -> Seq(Index)]
      /\ Apart(y.free_task_list, Queues(y)) /\ Apart(x.free_task_list, Queues(x))
  BY <1>1, QueuesType, XioFields DEF Requests
<1>5. /\ Apart(front, Pushed(Queues(y), s, t))
      /\ Covered(y.free_task_list, Queues(y)) =>
           Covered(front, Pushed(Queues(y), s, t))
  BY <1>4, PushedApart
<1>6. ~Waits(Queues(x), t)
  BY <1>4, PushedApart
<1> HIDE DEF z, t, front
<1>a. \A u : Waits(Queues(z), u) <=> (u = t \/ Waits(Queues(y), u))
  <2>1. \A u : Waits(Pushed(Queues(y), s, t), u) <=> (u = t \/ Waits(Queues(y), u))
    BY <1>3, <1>4, PushedWaits
  <2> QED BY <1>3, <2>1
<1>7. \A u : Waits(Queues(z), u) => u = t \/ Waits(Queues(x), u)
  BY <1>a
<1>8. Shape(z)
  BY <1>3 DEF Shape, Room
<1>9. Requests(z)
  <2>1. ASSUME NEW u \in Index, NEW v \in Index, u # v,
               Waits(Queues(z), u), Waits(Queues(z), v)
        PROVE  z.task_list[u].udata # z.task_list[v].udata
    <3>1. CASE u = t
      <4>1. v # t /\ Waits(Queues(x), v) /\ z.task_list[v] = x.task_list[v]
        BY <1>3, <1>7, <2>1, <3>1
      <4> QED BY <1>3, <3>1, <4>1
    <3>2. CASE v = t
      <4>1. u # t /\ Waits(Queues(x), u) /\ z.task_list[u] = x.task_list[u]
        BY <1>3, <1>7, <2>1, <3>2
      <4> QED BY <1>3, <3>2, <4>1
    <3>3. CASE u # t /\ v # t
      <4>1. /\ Waits(Queues(x), u) /\ z.task_list[u] = x.task_list[u]
            /\ Waits(Queues(x), v) /\ z.task_list[v] = x.task_list[v]
        BY <1>3, <1>7, <2>1, <3>3
      <4> QED BY <1>1, <2>1, <4>1 DEF Requests, UdataApart
    <3> QED BY <3>1, <3>2, <3>3
  <2>2. UdataApart(z.task_list, Queues(z))
    BY <2>1 DEF UdataApart
  <2> QED BY <1>3, <1>5, <2>2 DEF Requests
<1>10. Buffers(z)
  <2>1. Room(z) = Room(Acq(x, size)) /\ z.task_list[t].bytes = Bytes(x, size)
        /\ \A u \in Index \ {t} : z.task_list[u] = x.task_list[u]
    BY <1>3 DEF bytes
  <2> QED BY <1>3, <1>6, <1>7, <2>1, QueueSlices
<1>11. ASSUME ~z.stranded
       PROVE  States(z)
  <2>1. States(y) /\ s \notin 0..Len(y.free_fd_state_list) - 1
    BY <1>3, <1>11
  <2>2. \A r \in 0..Len(y.free_fd_state_list) - 1 : r \in Index
    <3>1. Len(y.free_fd_state_list) <= NTask /\ Len(y.free_fd_state_list) \in Nat
          /\ NTask \in Nat
      BY <1>1, XioFields, LenProperties, PoolFacts DEF Shape, Bottom
    <3> QED BY <3>1 DEF Index
  <2>3. \A f \in DOMAIN y.fd_state_table : y.fd_state_table[f] \in Index
    BY <1>1, XioFields
  <2>4. Owned(y.fd_state_table, y.fd_state_list, y.free_fd_state_list)
    BY <2>1 DEF States
  <2>5. Owned(z.fd_state_table, z.fd_state_list, z.free_fd_state_list)
    <3>1. \A f \in DOMAIN y.fd_state_table :
            z.fd_state_list[y.fd_state_table[f]].fd = f
      BY <1>3, <2>3, <2>4 DEF Owned
    <3>2. \A r \in 0..Len(y.free_fd_state_list) - 1 :
            z.fd_state_list[r].task_in = <<>>
      BY <1>3, <2>1, <2>2, <2>4 DEF Owned
    <3> QED BY <1>3, <2>4, <3>1, <3>2 DEF Owned
  <2>6. Covered(z.free_task_list, Queues(z))
    BY <1>3, <1>5, <2>1 DEF States
  <2> QED BY <2>5, <2>6 DEF States
<1>12. ASSUME ~z.stranded
       PROVE  Counted(z)
  <2>1. Counted(x) /\ ~x.stranded /\ States(y)
    BY <1>3, <1>12 DEF Kept
  <2>2. \A u \in Index : Waits(Queues(y), u) <=> Waits(Queues(x), u)
    BY <1>1, <2>1, SameWaits
  <2>3. \A u \in Index : Waits(Queues(z), u) <=> (u = t \/ Waits(Queues(x), u))
    BY <1>a, <2>2
  <2>4. Room(z) = Room(Acq(x, size)) /\ z.task_list[t].bytes = Bytes(x, size)
        /\ \A u \in Index \ {t} : z.task_list[u] = x.task_list[u]
    BY <1>3 DEF bytes
  <2> QED BY <1>3, <1>6, <2>1, <2>3, <2>4, QueueCounts
<1> QED BY <1>8, <1>9, <1>10, <1>11, <1>12 DEF Kept, z, bytes

-----------------------------------------------------------------------------
(* A wait *)

(* Being on a list, said with ToSet. *)
LEMMA ToSetFree ==
    ASSUME NEW S, NEW list \in Seq(S)
    PROVE  \A t : t \in ToSet(list) <=> Free(list, t)
<1>1. DOMAIN list = 1..Len(list)
  BY LenProperties
<1> QED BY <1>1 DEF ToSet, Free

(* p is list without its first tasks, the ones in got. *)
Remains(p, list, got) ==
    \E k \in Nat :
      /\ k <= Len(list) /\ Len(p) = Len(list) - k
      /\ \A n \in 1..Len(p) : n + k \in 1..Len(list) /\ p[n] = list[n + k]
      /\ \A i \in 1..Len(list) : Free(got, list[i]) <=> i <= k

(* Pop moves past the answered tasks, if they are the first ones. *)
LEMMA PoppedFacts ==
    ASSUME NEW list \in Seq(Index), NEW got \in Seq(Index),
           NEW k \in Nat, k <= Len(list),
           \A i \in 1..Len(list) : Free(got, list[i]) <=> i <= k
    PROVE  Popped(list, got) \in Seq(Index) /\ Remains(Popped(list, got), list, got)
<1> DEFINE taken == {i \in DOMAIN list : list[i] \in ToSet(got)}
           L == Len(list)
           p == SubSeq(list, k + 1, L)
<1>1. L \in Nat /\ DOMAIN list = 1..L
  BY LenProperties
<1>2. taken = 1..k
  <2>1. \A i \in DOMAIN list : list[i] \in ToSet(got) <=> i <= k
    BY <1>1, ToSetFree
  <2>2. \A i : i \in 1..k => i \in DOMAIN list /\ i <= k
    BY <1>1
  <2>3. \A i \in DOMAIN list : i <= k => i \in 1..k
    BY <1>1
  <2> QED BY <2>1, <2>2, <2>3
<1>3. Cardinality(taken) = k
  <2>1. Cardinality(1..k) = IF 1 > k THEN 0 ELSE k - 1 + 1
    BY FS_Interval
  <2>2. (IF 1 > k THEN 0 ELSE k - 1 + 1) = k
    OBVIOUS
  <2> HIDE DEF taken
  <2> QED BY <1>2, <2>1, <2>2
<1>4. Popped(list, got) = p
  <2>1. Popped(list, got) = SubSeq(list, Cardinality(taken) + 1, Len(list))
    BY DEF Popped
  <2> HIDE DEF taken
  <2> QED BY <1>3, <2>1
<1> HIDE DEF taken
<1>5. k + 1 \in Int /\ L \in Int /\ \A i \in (k + 1)..L : list[i] \in Index
  <2>1. \A i \in (k + 1)..L : i \in 1..Len(list)
    BY <1>1
  <2> QED BY <1>1, <2>1, ElementOfSeq
<1> HIDE DEF L
<1>6. k <= L
  BY DEF L
<1>7. /\ p \in Seq(Index)
      /\ Len(p) = IF k + 1 <= L THEN L - (k + 1) + 1 ELSE 0
      /\ \A i \in 1..L - (k + 1) + 1 : p[i] = list[(k + 1) + i - 1]
  BY <1>5, SubSeqProperties
<1> HIDE DEF p
<1>8. Len(p) = L - k
  BY <1>1, <1>6, <1>7
<1>9. \A n \in 1..Len(p) : n + k \in 1..L /\ p[n] = list[n + k]
  <2> TAKE n \in 1..Len(p)
  <2>1. n \in 1..L - (k + 1) + 1 /\ (k + 1) + n - 1 = n + k /\ n + k \in 1..L
    BY <1>1, <1>8
  <2> QED BY <1>7, <2>1
<1> QED BY <1>4, <1>7, <1>8, <1>9 DEF Remains, L

(* The tasks in got move from the queues to the free list. *)
LEMMA MovedApart ==
    ASSUME NEW free \in Seq(Index), NEW queues \in [Index -> Seq(Index)],
           NEW got \in Seq(Index), NEW q \in [Index -> Seq(Index)],
           Apart(free, queues), Once(got),
           \A t : Free(got, t) => Waits(queues, t),
           \A s \in Index : Remains(q[s], queues[s], got)
    PROVE  /\ Apart(free \o got, q)
           /\ \A t : Waits(q, t) <=> Waits(queues, t) /\ ~Free(got, t)
           /\ Covered(free, queues) => Covered(free \o got, q)
<1> DEFINE L == Len(free)
           G == Len(got)
           all == free \o got
<1>1. L \in Nat /\ G \in Nat
  BY LenProperties
<1>2. /\ Len(all) = L + G
      /\ \A i \in 1..L + G : all[i] = IF i <= L THEN free[i] ELSE got[i - L]
  BY ConcatProperties
<1> HIDE DEF all
<1>3. ASSUME NEW i \in 1..Len(all)
      PROVE  \/ i \in 1..L /\ all[i] = free[i]
             \/ i - L \in 1..G /\ ~(i \in 1..L) /\ all[i] = got[i - L]
  BY <1>1, <1>2, <1>3
<1>4. ASSUME NEW t
      PROVE  Free(all, t) <=> Free(free, t) \/ Free(got, t)
  <2>1. ASSUME Free(all, t)
        PROVE  Free(free, t) \/ Free(got, t)
    BY <1>3, <2>1 DEF Free
  <2>2. ASSUME NEW i \in 1..L, free[i] = t
        PROVE  Free(all, t)
    <3>1. i \in 1..Len(all) /\ i \in 1..L + G /\ i <= L
      BY <1>1, <1>2
    <3>2. all[i] = t
      BY <1>2, <2>2, <3>1
    <3> QED BY <3>1, <3>2 DEF Free
  <2>3. ASSUME NEW i \in 1..G, got[i] = t
        PROVE  Free(all, t)
    <3>1. L + i \in 1..Len(all) /\ L + i \in 1..L + G /\ ~(L + i <= L) /\ L + i - L = i
      BY <1>1, <1>2
    <3>2. all[L + i] = t
      BY <1>2, <2>3, <3>1
    <3> QED BY <3>1, <3>2 DEF Free
  <2> QED BY <2>1, <2>2, <2>3 DEF Free
<1>5. ASSUME NEW s \in Index, NEW n \in 1..Len(q[s])
      PROVE  \E m \in 1..Len(queues[s]) : q[s][n] = queues[s][m] /\ ~Free(got, queues[s][m])
  <2>1. PICK k \in Nat :
          /\ k <= Len(queues[s]) /\ Len(q[s]) = Len(queues[s]) - k
          /\ \A l \in 1..Len(q[s]) : l + k \in 1..Len(queues[s]) /\ q[s][l] = queues[s][l + k]
          /\ \A i \in 1..Len(queues[s]) : Free(got, queues[s][i]) <=> i <= k
    BY DEF Remains
  <2>2. n + k \in 1..Len(queues[s]) /\ q[s][n] = queues[s][n + k] /\ ~(n + k <= k)
    BY <2>1
  <2>3. ~Free(got, queues[s][n + k])
    BY <2>1, <2>2
  <2> QED BY <2>2, <2>3
<1>6. ASSUME NEW s \in Index, NEW m \in 1..Len(queues[s]), ~Free(got, queues[s][m])
      PROVE  \E n \in 1..Len(q[s]) : q[s][n] = queues[s][m]
  <2>1. PICK k \in Nat :
          /\ k <= Len(queues[s]) /\ Len(q[s]) = Len(queues[s]) - k
          /\ \A l \in 1..Len(q[s]) : l + k \in 1..Len(queues[s]) /\ q[s][l] = queues[s][l + k]
          /\ \A i \in 1..Len(queues[s]) : Free(got, queues[s][i]) <=> i <= k
    BY DEF Remains
  <2>2. ~(m <= k)
    BY <1>6, <2>1
  <2>3. Len(queues[s]) \in Nat
    BY LenProperties
  <2>4. m - k \in 1..Len(q[s]) /\ (m - k) + k = m
    BY <2>1, <2>2, <2>3
  <2> QED BY <2>1, <2>4
<1>7. ASSUME NEW t
      PROVE  Waits(q, t) <=> Waits(queues, t) /\ ~Free(got, t)
  <2>1. ASSUME Waits(q, t)
        PROVE  Waits(queues, t) /\ ~Free(got, t)
    <3>1. PICK r \in Index : \E n \in 1..Len(q[r]) : q[r][n] = t
      BY <2>1 DEF Waits
    <3>2. PICK n \in 1..Len(q[r]) : q[r][n] = t
      BY <3>1
    <3>3. PICK m \in 1..Len(queues[r]) :
            q[r][n] = queues[r][m] /\ ~Free(got, queues[r][m])
      BY <1>5
    <3>4. queues[r][m] = t /\ ~Free(got, t)
      BY <3>2, <3>3
    <3> QED BY <3>4 DEF Waits
  <2>2. ASSUME Waits(queues, t), ~Free(got, t)
        PROVE  Waits(q, t)
    <3>1. PICK r \in Index : \E m \in 1..Len(queues[r]) : queues[r][m] = t
      BY <2>2 DEF Waits
    <3>2. PICK m \in 1..Len(queues[r]) : queues[r][m] = t
      BY <3>1
    <3>3. ~Free(got, queues[r][m])
      BY <2>2, <3>2
    <3>4. PICK n \in 1..Len(q[r]) : q[r][n] = queues[r][m]
      BY <1>6, <3>3
    <3> QED BY <3>2, <3>4 DEF Waits
  <2> QED BY <2>1, <2>2
<1>8. Once(all)
  <2> SUFFICES ASSUME NEW i \in 1..Len(all), NEW j \in 1..Len(all), all[i] = all[j]
               PROVE  i = j
    BY DEF Once
  <2>1. \A n \in 1..L : ~Free(got, free[n])
    <3>1. \A n \in 1..L : ~Waits(queues, free[n])
      BY DEF Apart, Waits
    <3> QED BY <3>1
  <2>2. \A m \in 1..L, n \in 1..G : free[m] # got[n]
    BY <2>1 DEF Free
  <2>3. CASE i \in 1..L /\ j \in 1..L
    <3>1. free[i] = free[j]
      BY <1>3, <2>3
    <3> QED BY <2>3, <3>1 DEF Apart, Once
  <2>4. CASE i - L \in 1..G /\ j - L \in 1..G /\ ~(i \in 1..L) /\ ~(j \in 1..L)
    <3>1. got[i - L] = got[j - L]
      BY <1>3, <2>4
    <3>2. i - L = j - L
      BY <2>4, <3>1 DEF Once
    <3>3. i \in Int /\ j \in Int
      OBVIOUS
    <3> QED BY <1>1, <3>2, <3>3
  <2> QED BY <1>3, <2>2, <2>3, <2>4
<1>9. ASSUME NEW s \in Index
      PROVE  Once(q[s])
  <2>1. PICK k \in Nat :
          /\ \A l \in 1..Len(q[s]) : l + k \in 1..Len(queues[s]) /\ q[s][l] = queues[s][l + k]
    BY DEF Remains
  <2>2. \A m, n \in 1..Len(queues[s]) : queues[s][m] = queues[s][n] => m = n
    BY DEF Apart, Once
  <2>3. ASSUME NEW m \in 1..Len(q[s]), NEW n \in 1..Len(q[s]), q[s][m] = q[s][n]
        PROVE  m = n
    <3>1. m + k = n + k
      BY <2>1, <2>2, <2>3
    <3> QED BY <3>1
  <2> QED BY <2>3 DEF Once
<1>10. ASSUME NEW s \in Index, NEW m \in 1..Len(all), NEW n \in 1..Len(q[s])
       PROVE  all[m] # q[s][n]
  <2>1. PICK l \in 1..Len(queues[s]) :
          q[s][n] = queues[s][l] /\ ~Free(got, queues[s][l])
    BY <1>5
  <2>2. Free(all, all[m])
    BY DEF Free
  <2>3. Free(free, all[m]) \/ Free(got, all[m])
    BY <1>4, <2>2
  <2>4. \A k \in 1..L : free[k] # queues[s][l]
    BY DEF Apart
  <2> QED BY <2>1, <2>3, <2>4 DEF Free
<1>11. ASSUME NEW r1 \in Index, NEW r2 \in Index, r1 # r2,
              NEW m \in 1..Len(q[r1]), NEW n \in 1..Len(q[r2])
       PROVE  q[r1][m] # q[r2][n]
  <2>1. PICK k \in 1..Len(queues[r1]) : q[r1][m] = queues[r1][k]
    BY <1>5
  <2>2. PICK l \in 1..Len(queues[r2]) : q[r2][n] = queues[r2][l]
    BY <1>5
  <2> QED BY <1>11, <2>1, <2>2 DEF Apart
<1>12. Apart(all, q)
  BY <1>8, <1>9, <1>10, <1>11 DEF Apart
<1>13. Covered(free, queues) => Covered(all, q)
  BY <1>4, <1>7 DEF Covered
<1> QED BY <1>7, <1>12, <1>13 DEF all

(* got is the beginning of whole. *)
Begins(got, whole) ==
    Len(got) <= Len(whole) /\ \A i \in 1..Len(got) : got[i] = whole[i]

(* got is what a wait can answer: tasks that wait, each once, and of every *)
(* state the first ones.                                                   *)
FirstOf(got, queues) ==
    /\ got \in Seq(Index) /\ Once(got)
    /\ \A t : Free(got, t) => Waits(queues, t)
    /\ \A s \in Index :
         \E k \in Nat : /\ k <= Len(queues[s])
                        /\ \A i \in 1..Len(queues[s]) :
                             Free(got, queues[s][i]) <=> i <= k

(* The first of the tasks that wait on the lists of states, in their order. *)
LEMMA GotFacts ==
    ASSUME NEW free, NEW queues \in [Index -> Seq(Index)], Apart(free, queues),
           NEW n \in Nat, NEW states \in [1..n -> Index],
           \A k, l \in 1..n : k # l => states[k] # states[l],
           NEW whole, NEW start,
           NEW g, \A k \in 1..n : g[k] = queues[states[k]],
           Layout(whole, g, n, start, Index),
           NEW got \in Seq(Index), Begins(got, whole)
    PROVE  FirstOf(got, queues)
<1>0. PICK m \in Nat : /\ m = Len(got) /\ m <= Len(whole)
                       /\ \A i \in 1..m : got[i] = whole[i]
  BY LenProperties DEF Begins
<1>1. \A k \in 1..n : g[k] = queues[states[k]] /\ states[k] \in Index
  OBVIOUS
<1>2. /\ whole \in Seq(Index) /\ start \in [1..n -> Nat]
      /\ \A k \in 1..n : \A j \in 1..Len(g[k]) :
           /\ start[k] + j \in 1..Len(whole) /\ whole[start[k] + j] = g[k][j]
      /\ \A i \in 1..Len(whole) :
           \E k \in 1..n : \E j \in 1..Len(g[k]) : i = start[k] + j
  BY DEF Layout
<1>3. Len(whole) \in Nat
  BY <1>2, LenProperties
<1>4. ASSUME NEW k \in 1..n, NEW j \in 1..Len(queues[states[k]])
      PROVE  /\ start[k] + j \in 1..Len(whole)
             /\ whole[start[k] + j] = queues[states[k]][j]
  <2>1. g[k] = queues[states[k]]
    BY <1>1
  <2>2. j \in 1..Len(g[k])
    BY <2>1
  <2>3. start[k] + j \in 1..Len(whole) /\ whole[start[k] + j] = g[k][j]
    BY <1>2, <2>2
  <2> QED BY <2>1, <2>3
<1>5. ASSUME NEW i \in 1..Len(whole)
      PROVE  \E k \in 1..n : \E j \in 1..Len(queues[states[k]]) :
               i = start[k] + j /\ whole[i] = queues[states[k]][j]
  <2>1. PICK k \in 1..n : \E j \in 1..Len(g[k]) : i = start[k] + j
    BY <1>2
  <2>2. PICK j \in 1..Len(queues[states[k]]) : i = start[k] + j
    BY <1>1, <2>1
  <2> QED BY <1>4, <2>2
<1>6. Once(whole)
  <2> SUFFICES ASSUME NEW i1 \in 1..Len(whole), NEW i2 \in 1..Len(whole),
                      whole[i1] = whole[i2]
               PROVE  i1 = i2
    BY DEF Once
  <2>1. PICK k1 \in 1..n : \E j \in 1..Len(queues[states[k1]]) :
          i1 = start[k1] + j /\ whole[i1] = queues[states[k1]][j]
    BY <1>5
  <2>2. PICK j1 \in 1..Len(queues[states[k1]]) :
          i1 = start[k1] + j1 /\ whole[i1] = queues[states[k1]][j1]
    BY <2>1
  <2>3. PICK k2 \in 1..n : \E j \in 1..Len(queues[states[k2]]) :
          i2 = start[k2] + j /\ whole[i2] = queues[states[k2]][j]
    BY <1>5
  <2>4. PICK j2 \in 1..Len(queues[states[k2]]) :
          i2 = start[k2] + j2 /\ whole[i2] = queues[states[k2]][j2]
    BY <2>3
  <2>5. k1 = k2
    <3>1. states[k1] \in Index /\ states[k2] \in Index
      BY <1>1
    <3>2. states[k1] = states[k2]
      BY <2>2, <2>4, <3>1 DEF Apart
    <3> QED BY <3>2
  <2>6. j1 = j2
    <3>1. Once(queues[states[k1]])
      BY <1>1 DEF Apart
    <3> QED BY <2>2, <2>4, <2>5, <3>1 DEF Once
  <2> QED BY <2>2, <2>4, <2>5, <2>6
<1>7. \A i \in 1..m : i \in 1..Len(whole)
  BY <1>0, <1>3
<1>8. Once(got)
  <2> SUFFICES ASSUME NEW i \in 1..m, NEW j \in 1..m, got[i] = got[j]
               PROVE  i = j
    BY <1>0 DEF Once
  <2>1. whole[i] = whole[j]
    BY <1>0
  <2> QED BY <1>6, <1>7, <2>1 DEF Once
<1>9. ASSUME NEW t, Free(got, t)
      PROVE  Waits(queues, t)
  <2>1. PICK i \in 1..m : got[i] = t
    BY <1>0, <1>9 DEF Free
  <2>2. PICK k \in 1..n : \E j \in 1..Len(queues[states[k]]) :
          whole[i] = queues[states[k]][j]
    BY <1>5, <1>7
  <2> QED BY <1>0, <1>1, <2>1, <2>2 DEF Waits
<1>10. ASSUME NEW s \in Index
       PROVE  \E k \in Nat : /\ k <= Len(queues[s])
                             /\ \A i \in 1..Len(queues[s]) :
                                  Free(got, queues[s][i]) <=> i <= k
  <2>0. Len(queues[s]) \in Nat
    BY LenProperties
  <2>1. CASE \E l \in 1..n : states[l] = s
    <3>1. PICK l \in 1..n : states[l] = s
      BY <2>1
    <3>2. PICK b \in Nat : b = start[l]
      BY <1>2
    <3>3. ASSUME NEW i \in 1..Len(queues[s])
          PROVE  Free(got, queues[s][i]) <=> b + i <= m
      <4>1. b + i \in 1..Len(whole) /\ whole[b + i] = queues[s][i]
        BY <1>4, <3>1, <3>2
      <4>2. ASSUME b + i <= m
            PROVE  Free(got, queues[s][i])
        <5>1. b + i \in 1..m
          BY <4>2
        <5> QED BY <1>0, <4>1, <5>1 DEF Free
      <4>3. ASSUME NEW j \in 1..m, got[j] = queues[s][i]
            PROVE  b + i <= m
        <5>1. whole[j] = whole[b + i] /\ j \in 1..Len(whole)
          BY <1>0, <1>7, <4>1, <4>3
        <5>2. j = b + i
          BY <1>6, <4>1, <5>1 DEF Once
        <5> QED BY <5>2
      <4> QED BY <1>0, <4>2, <4>3 DEF Free
    <3>4. PICK len \in Nat : len = Len(queues[s])
      BY <2>0
    <3>5. CASE m < b
      <4>1. \A i \in 1..len : ~(b + i <= m) /\ ~(i <= 0)
        BY <3>5
      <4>2. \A i \in 1..Len(queues[s]) : Free(got, queues[s][i]) <=> i <= 0
        BY <3>3, <3>4, <4>1
      <4>3. 0 \in Nat /\ 0 <= Len(queues[s])
        BY <2>0
      <4> QED BY <4>2, <4>3
    <3>6. CASE ~(m < b) /\ m - b <= len
      <4>1. m - b \in Nat /\ \A i \in 1..len : b + i <= m <=> i <= m - b
        BY <3>6
      <4>2. \A i \in 1..Len(queues[s]) : Free(got, queues[s][i]) <=> i <= m - b
        BY <3>3, <3>4, <4>1
      <4>3. m - b <= Len(queues[s])
        BY <3>4, <3>6
      <4> QED BY <4>1, <4>2, <4>3
    <3>7. CASE ~(m < b) /\ ~(m - b <= len)
      <4>1. \A i \in 1..len : b + i <= m /\ i <= len
        BY <3>7
      <4>2. \A i \in 1..Len(queues[s]) : Free(got, queues[s][i]) <=> i <= len
        BY <3>3, <3>4, <4>1
      <4>3. len <= Len(queues[s])
        BY <3>4
      <4> QED BY <4>2, <4>3
    <3> QED BY <3>5, <3>6, <3>7
  <2>2. CASE ~\E l \in 1..n : states[l] = s
    <3>1. ASSUME NEW i \in 1..Len(queues[s]), NEW j \in 1..m, got[j] = queues[s][i]
          PROVE  FALSE
      <4>0. j \in 1..Len(whole)
        BY <1>7
      <4>1. PICK k \in 1..n : \E h \in 1..Len(queues[states[k]]) :
              j = start[k] + h /\ whole[j] = queues[states[k]][h]
        BY <1>5, <4>0
      <4>2. PICK h \in 1..Len(queues[states[k]]) : whole[j] = queues[states[k]][h]
        BY <4>1
      <4>3. states[k] \in Index /\ states[k] # s
        BY <1>1, <2>2
      <4> QED BY <1>0, <3>1, <4>2, <4>3 DEF Apart
    <3>2. \A i \in 1..Len(queues[s]) : ~Free(got, queues[s][i]) /\ ~(i <= 0)
      BY <1>0, <3>1 DEF Free
    <3>3. \A i \in 1..Len(queues[s]) : Free(got, queues[s][i]) <=> i <= 0
      BY <3>2
    <3>4. 0 \in Nat /\ 0 <= Len(queues[s])
      BY <2>0
    <3> QED BY <3>3, <3>4
  <2> QED BY <2>1, <2>2
<1> QED BY <1>8, <1>9, <1>10 DEF FirstOf

Waiting(x, states) ==
    FlattenSeq([n \in DOMAIN states |-> x.fd_state_list[states[n]].task_in])

Answerable(x, got) == FirstOf(got, Queues(x))

(* The answers are the first of the waiting tasks. *)
LEMMA AnswersAre ==
    ASSUME NEW S, NEW whole \in Seq(S), NEW max \in Nat
    PROVE  Answers(whole, max) \in Seq(S) /\ Begins(Answers(whole, max), whole)
<1>1. Len(whole) \in Nat
  BY LenProperties
<1> DEFINE m == IF Len(whole) < max THEN Len(whole) ELSE max
<1>2. m \in Nat /\ m <= Len(whole)
  BY <1>1
<1>3. Answers(whole, max) = SubSeq(whole, 1, m)
  BY DEF Answers
<1> HIDE DEF m
<1>4. \A i \in 1..m : i \in 1..Len(whole)
  BY <1>1, <1>2
<1>5. m \in Int /\ 1 \in Int /\ \A i \in 1..m : whole[i] \in S
  BY <1>2, <1>4, ElementOfSeq
<1>6. m - 1 + 1 = m /\ \A i \in 1..m : 1 + i - 1 = i
  BY <1>2
<1>7. (IF 1 <= m THEN m - 1 + 1 ELSE 0) = m
  BY <1>2
<1>8. /\ SubSeq(whole, 1, m) \in Seq(S) /\ Len(SubSeq(whole, 1, m)) = m
      /\ \A i \in 1..m : SubSeq(whole, 1, m)[i] = whole[i]
  BY <1>5, <1>6, <1>7, SubSeqProperties
<1> QED BY <1>2, <1>3, <1>8 DEF Begins

(* What a wait answers. *)
LEMMA AnswersMoved ==
    ASSUME NEW x, Shape(x), Requests(x), NEW n \in Nat, NEW states \in [1..n -> Index],
           \A k, l \in 1..n : k # l => states[k] # states[l], NEW max \in Nat
    PROVE  Answerable(x, Answers(Waiting(x, states), max))
<1> DEFINE queues == Queues(x)
           g == [k \in 1..n |-> queues[states[k]]]
           whole == Waiting(x, states)
           got == Answers(whole, max)
<1>1. x \in Xio
  BY DEF Shape
<1>2. /\ queues \in [Index -> Seq(Index)]
      /\ \A s \in Index : queues[s] = x.fd_state_list[s].task_in
  BY <1>1, QueuesType
<1>3. Apart(x.free_task_list, queues)
  BY DEF Requests
<1> HIDE DEF queues
<1>4. g \in [1..n -> Seq(Index)]
  BY <1>2
<1>5. whole = FlattenSeq(g)
  <2>1. DOMAIN states = 1..n /\ \A k \in 1..n : states[k] \in Index
    OBVIOUS
  <2>2. [k \in DOMAIN states |-> x.fd_state_list[states[k]].task_in] = g
    BY <1>2, <2>1
  <2> QED BY <2>2 DEF Waiting
<1> HIDE DEF g, whole
<1>6. PICK start : Layout(whole, g, n, start, Index)
  BY <1>4, <1>5, Flattened
<1>7. whole \in Seq(Index)
  BY <1>6 DEF Layout
<1>8. got \in Seq(Index) /\ Begins(got, whole)
  BY <1>7, AnswersAre
<1> HIDE DEF got
<1>9. \A k \in 1..n : g[k] = queues[states[k]]
  BY DEF g
<1>10. FirstOf(got, queues)
  BY <1>2, <1>3, <1>6, <1>8, <1>9, GotFacts
<1>11. Answerable(x, got)
  BY <1>10 DEF Answerable, queues
<1> QED BY <1>11 DEF got, whole

(* The state of xio after the tasks in got have been answered. *)
Delivered(x, got) ==
    [Pop(x, got) EXCEPT
       !.free_task_list = @ \o got,
       !.task_list = [t \in Index |->
          IF t \in ToSet(got) THEN Unused ELSE x.task_list[t]],
       !.answered = [b \in Buf |->
          @[b] + Cardinality(Holders(x, ToSet(got), b))]]

(* What a wait changes. *)
LEMMA DeliveredFacts ==
    ASSUME NEW x \in Xio, NEW got, Answerable(x, got)
    PROVE  LET z == Delivered(x, got) IN
           /\ z \in Xio
           /\ z.buf_list = x.buf_list /\ z.free_buf_list = x.free_buf_list
           /\ \A b \in Buf : z.answered[b] =
                x.answered[b] + Cardinality(Holders(x, ToSet(got), b))
           /\ z.free_task_list = x.free_task_list \o got
           /\ z.free_fd_state_list = x.free_fd_state_list
           /\ z.fd_state_table = x.fd_state_table /\ z.stranded = x.stranded
           /\ \A t \in Index : ~Free(got, t) => z.task_list[t] = x.task_list[t]
           /\ \A s \in Index : /\ z.fd_state_list[s].fd = x.fd_state_list[s].fd
                               /\ Remains(Queues(z)[s], Queues(x)[s], got)
<1> DEFINE z == Delivered(x, got)
           free == x.free_task_list \o got
           states == [s \in Index |-> [x.fd_state_list[s] EXCEPT
                                         !.task_in = Popped(@, got)]]
           tasks == [t \in Index |->
                       IF t \in ToSet(got) THEN Unused ELSE x.task_list[t]]
           given == [b \in Buf |->
                       x.answered[b] + Cardinality(Holders(x, ToSet(got), b))]
<1>1. /\ x.free_task_list \in Seq(Index) /\ x.task_list \in [Index -> Task]
      /\ x.fd_state_list \in [Index -> State] /\ got \in Seq(Index)
      /\ x.answered \in [Buf -> Nat]
  BY XioFields DEF Answerable, FirstOf
<1>2. z = [x EXCEPT !.fd_state_list = states, !.free_task_list = free,
                    !.task_list = tasks, !.answered = given]
  BY DEF Delivered, Pop, Xio
<1>a. /\ given \in [Buf -> Nat]
      /\ \A b \in Buf : given[b] =
           x.answered[b] + Cardinality(Holders(x, ToSet(got), b))
  <2>1. ASSUME NEW b \in Buf
        PROVE  Cardinality(Holders(x, ToSet(got), b)) \in Nat
    <3>1. Holders(x, ToSet(got), b) \subseteq Index
      BY <1>1, ToSetFree, ElementOfSeq DEF Holders, Free
    <3> QED BY <3>1, IndexCounts, FS_Subset, FS_CardinalityType
  <2> QED BY <1>1, <2>1
<1>3. free \in Seq(Index)
  BY <1>1, ConcatProperties
<1>4. /\ tasks \in [Index -> Task]
      /\ \A t \in Index : ~Free(got, t) => tasks[t] = x.task_list[t]
  <2>1. Unused \in Task
    BY DEF Unused, Task
  <2>2. \A t : t \in ToSet(got) <=> Free(got, t)
    BY <1>1, ToSetFree
  <2> QED BY <1>1, <2>1, <2>2
<1>5. ASSUME NEW s \in Index
      PROVE  /\ states[s] \in State /\ states[s].fd = x.fd_state_list[s].fd
             /\ states[s].task_in \in Seq(Index)
             /\ Remains(states[s].task_in, Queues(x)[s], got)
  <2> DEFINE list == x.fd_state_list[s].task_in
  <2>1. x.fd_state_list[s] \in State /\ list \in Seq(Index) /\ Queues(x)[s] = list
    BY <1>1, QueuesType DEF State
  <2> HIDE DEF list
  <2>2. PICK k \in Nat : /\ k <= Len(list)
                         /\ \A i \in 1..Len(list) : Free(got, list[i]) <=> i <= k
    BY <2>1 DEF Answerable, FirstOf
  <2>3. Popped(list, got) \in Seq(Index) /\ Remains(Popped(list, got), list, got)
    BY <1>1, <2>1, <2>2, PoppedFacts
  <2>4. states[s] = [x.fd_state_list[s] EXCEPT !.task_in = Popped(list, got)]
    BY DEF list
  <2> HIDE DEF states
  <2>5. /\ states[s] \in State /\ states[s].fd = x.fd_state_list[s].fd
        /\ states[s].task_in = Popped(list, got)
    BY <2>1, <2>3, <2>4 DEF State
  <2> QED BY <2>1, <2>3, <2>5
<1>6. states = [s \in Index |-> states[s]] /\ DOMAIN states = Index
  OBVIOUS
<1> HIDE DEF states, tasks, free, given, z
<1>7. states \in [Index -> State]
  BY <1>5, <1>6
<1>8. /\ z \in Xio /\ z.free_task_list = free
      /\ z.buf_list = x.buf_list /\ z.free_buf_list = x.free_buf_list
      /\ z.answered = given
      /\ z.free_fd_state_list = x.free_fd_state_list
      /\ z.fd_state_table = x.fd_state_table /\ z.stranded = x.stranded
      /\ z.task_list = tasks /\ z.fd_state_list = states
  BY <1>2, <1>3, <1>4, <1>7, <1>a DEF Xio
<1>9. \A s \in Index : Queues(z)[s] = states[s].task_in
  BY <1>8, QueuesType
<1>10. \A s \in Index : Remains(Queues(z)[s], Queues(x)[s], got)
  BY <1>5, <1>9
<1>11. \A s \in Index : z.fd_state_list[s].fd = x.fd_state_list[s].fd
  BY <1>5, <1>8
<1>12. \A t \in Index : ~Free(got, t) => z.task_list[t] = x.task_list[t]
  BY <1>4, <1>8
<1> QED BY <1>8, <1>10, <1>11, <1>12, <1>a DEF z, free

(* A wait keeps the requests it did not answer. *)
LEMMA DeliverKeeps ==
    ASSUME NEW x, Kept(x, "no"), NEW got, Answerable(x, got), NEW ab
    PROVE  LET z == Delivered(x, got) IN
           /\ Kept(z, ab)
           /\ \A t : Waits(Queues(z), t) <=> Waits(Queues(x), t) /\ ~Free(got, t)
           /\ \A t \in Index : ~Free(got, t) => z.task_list[t] = x.task_list[t]
<1> DEFINE z == Delivered(x, got)
<1>1. /\ x \in Xio /\ Shape(x) /\ Requests(x) /\ Buffers(x)
      /\ ~x.stranded => States(x)
  BY DEF Kept, Shape
<1>2. /\ z \in Xio
      /\ z.buf_list = x.buf_list /\ z.free_buf_list = x.free_buf_list
      /\ \A b \in Buf : z.answered[b] =
           x.answered[b] + Cardinality(Holders(x, ToSet(got), b))
      /\ z.free_task_list = x.free_task_list \o got
      /\ z.free_fd_state_list = x.free_fd_state_list
      /\ z.fd_state_table = x.fd_state_table /\ z.stranded = x.stranded
      /\ \A t \in Index : ~Free(got, t) => z.task_list[t] = x.task_list[t]
      /\ \A s \in Index : /\ z.fd_state_list[s].fd = x.fd_state_list[s].fd
                          /\ Remains(Queues(z)[s], Queues(x)[s], got)
  BY <1>1, DeliveredFacts
<1> HIDE DEF z
<1>3. /\ Queues(x) \in [Index -> Seq(Index)] /\ Queues(z) \in [Index -> Seq(Index)]
      /\ x.free_task_list \in Seq(Index) /\ got \in Seq(Index) /\ Once(got)
      /\ Apart(x.free_task_list, Queues(x))
      /\ \A t : Free(got, t) => Waits(Queues(x), t)
      /\ \A s \in Index : Remains(Queues(z)[s], Queues(x)[s], got)
  BY <1>1, <1>2, QueuesType, XioFields DEF Answerable, FirstOf, Requests
<1>4. /\ Apart(x.free_task_list \o got, Queues(z))
      /\ \A t : Waits(Queues(z), t) <=> Waits(Queues(x), t) /\ ~Free(got, t)
      /\ Covered(x.free_task_list, Queues(x)) =>
           Covered(x.free_task_list \o got, Queues(z))
  BY <1>3, MovedApart
<1>5. Shape(z)
  BY <1>1, <1>2 DEF Shape
<1>6. \A t \in Index : Waits(Queues(z), t) =>
        z.task_list[t] = x.task_list[t] /\ Waits(Queues(x), t)
  BY <1>2, <1>4
<1>7. UdataApart(z.task_list, Queues(z))
  BY <1>1, <1>6, UdataStays DEF Requests
<1>8. Requests(z)
  BY <1>2, <1>4, <1>7 DEF Requests
<1>9. Buffers(z)
  <2>1. z.buf_list = x.buf_list /\ z.free_buf_list = x.free_buf_list
    BY <1>2
  <2>2. \A t \in Index : z.task_list[t].bytes # NULL /\ Waits(Queues(z), t) =>
          /\ z.task_list[t].bytes = x.task_list[t].bytes /\ Waits(Queues(x), t)
          /\ Cut(x.task_list, x.buf_list, t) => Cut(z.task_list, z.buf_list, t)
    BY <1>6, <2>1 DEF Cut
  <2>3. Slices(z.task_list, z.buf_list, Queues(z))
    BY <1>1, <2>2, SlicesStay DEF Buffers
  <2> QED BY <1>1, <2>1, <2>3 DEF Buffers
<1>10. ASSUME ~z.stranded
       PROVE  States(z)
  <2>1. States(x)
    BY <1>1, <1>2, <1>10
  <2>2. Covered(z.free_task_list, Queues(z))
    BY <1>2, <1>4, <2>1 DEF States
  <2>3. /\ Owned(x.fd_state_table, x.fd_state_list, x.free_fd_state_list)
    BY <2>1 DEF States
  <2>4. \A f \in DOMAIN x.fd_state_table : x.fd_state_table[f] \in Index
    BY <1>1, XioFields
  <2>5. \A r \in 0..Len(x.free_fd_state_list) - 1 : r \in Index
    <3>1. Len(x.free_fd_state_list) <= NTask /\ Len(x.free_fd_state_list) \in Nat
          /\ NTask \in Nat
      BY <1>1, XioFields, LenProperties, PoolFacts DEF Shape, Bottom
    <3> QED BY <3>1 DEF Index
  <2>6. ASSUME NEW r \in 0..Len(x.free_fd_state_list) - 1
        PROVE  z.fd_state_list[r].task_in = <<>>
    <3>1. r \in Index /\ Queues(x)[r] = <<>> /\ Len(Queues(x)[r]) = 0
      <4>1. r \in Index /\ x.fd_state_list[r].task_in = <<>>
        BY <2>3, <2>5 DEF Owned
      <4>2. Queues(x)[r] = x.fd_state_list[r].task_in
        BY <1>1, <4>1, QueuesType
      <4> QED BY <4>1, <4>2
    <3>2. PICK k \in Nat : k <= Len(Queues(x)[r])
                           /\ Len(Queues(z)[r]) = Len(Queues(x)[r]) - k
      BY <1>2, <3>1 DEF Remains
    <3>3. Len(Queues(z)[r]) = 0
      BY <3>1, <3>2
    <3>4. Queues(z)[r] = <<>>
      BY <1>3, <3>1, <3>3, EmptySeq
    <3> QED BY <1>2, <3>1, <3>4, QueuesType
  <2>7. \A f \in DOMAIN x.fd_state_table :
          z.fd_state_list[x.fd_state_table[f]].fd = f
    BY <1>2, <2>3, <2>4 DEF Owned
  <2>8. Owned(z.fd_state_table, z.fd_state_list, z.free_fd_state_list)
    BY <1>2, <2>3, <2>6, <2>7 DEF Owned
  <2> QED BY <2>2, <2>8 DEF States
<1>11. ASSUME ~z.stranded
       PROVE  Counted(z)
  <2> DEFINE old(b) == Holding(x.task_list, Queues(x), b)
             new(b) == Holding(z.task_list, Queues(z), b)
             left(b) == Holders(x, ToSet(got), b)
  <2>1. Counted(x)
    BY <1>2, <1>11 DEF Kept
  <2>2. \A t : t \in ToSet(got) <=> Free(got, t)
    BY <1>3, ToSetFree
  <2>3. \A t : Free(got, t) => t \in Index
    BY <1>3, ElementOfSeq DEF Free
  <2>4. \A b : /\ left(b) \subseteq old(b) /\ old(b) \subseteq Index
               /\ new(b) = old(b) \ left(b)
    BY <1>2, <1>3, <1>4, <2>2, <2>3 DEF Holding, Holders
  <2> HIDE DEF old, new, left
  <2>5. ASSUME NEW b \in Buf
        PROVE  z.buf_list[b].refs = Cardinality(new(b)) + z.answered[b]
    <3>1. IsFiniteSet(old(b)) /\ IsFiniteSet(left(b))
      BY <2>4, IndexCounts, FS_Subset
    <3>2. Cardinality(new(b)) = Cardinality(old(b)) - Cardinality(left(b))
      <4>1. old(b) \cap left(b) = left(b)
        BY <2>4
      <4>2. Cardinality(old(b) \ left(b))
              = Cardinality(old(b)) - Cardinality(old(b) \cap left(b))
        BY <3>1, FS_Difference
      <4> QED BY <2>4, <4>1, <4>2
    <3>3. Cardinality(old(b)) \in Nat /\ Cardinality(left(b)) \in Nat
      BY <3>1, FS_CardinalityType
    <3>4. x.answered[b] \in Nat
      BY <1>1, XioFields
    <3>5. /\ z.buf_list[b].refs = Cardinality(old(b)) + x.answered[b]
          /\ z.answered[b] = x.answered[b] + Cardinality(left(b))
      BY <1>2, <2>1 DEF Counted, old, left
    <3> QED BY <3>2, <3>3, <3>4, <3>5
  <2> QED BY <2>5 DEF Counted, new
<1>12. Kept(z, ab)
  BY <1>5, <1>8, <1>9, <1>10, <1>11 DEF Kept
<1> QED BY <1>2, <1>4, <1>12 DEF z

-----------------------------------------------------------------------------
(* fh_xio_create *)

(* The stacks are full and the lists are empty. *)
LEMMA StackFull ==
    ASSUME NEW n \in Nat
    PROVE  LET list == [i \in 1..n |-> i - 1] IN
           /\ list \in Seq(0..n - 1) /\ Len(list) = n
           /\ \A i \in 1..Len(list) : list[i] = i - 1
           /\ \A e \in 0..n - 1 : Free(list, e)
           /\ Once(list)
<1> DEFINE list == [i \in 1..n |-> i - 1]
<1>1. list \in [1..n -> 0..n - 1]
  OBVIOUS
<1>2. list \in Seq(0..n - 1) /\ DOMAIN list = 1..n
  BY <1>1, SeqDef
<1>3. Len(list) = n
  BY <1>2, LenProperties
<1>4. \A i \in 1..n : list[i] = i - 1
  OBVIOUS
<1> HIDE DEF list
<1>5. ASSUME NEW e \in 0..n - 1
      PROVE  Free(list, e)
  <2>1. e + 1 \in 1..n /\ e + 1 - 1 = e
    OBVIOUS
  <2>2. list[e + 1] = e
    BY <1>4, <2>1
  <2>3. e + 1 \in 1..Len(list)
    BY <1>3, <2>1
  <2> QED BY <2>2, <2>3 DEF Free
<1>6. Once(list)
  <2> SUFFICES ASSUME NEW i \in 1..n, NEW j \in 1..n, list[i] = list[j]
               PROVE  i = j
    BY <1>3 DEF Once
  <2>1. i - 1 = j - 1
    BY <1>4
  <2> QED BY <2>1
<1> QED BY <1>2, <1>3, <1>4, <1>5, <1>6 DEF list

(* The fields of what fh_xio_create returns. *)
LEMMA FreshFacts ==
    /\ Fresh \in Xio
    /\ Fresh.free_task_list = [n \in 1..NTask |-> n - 1]
    /\ Fresh.free_fd_state_list = [n \in 1..NTask |-> n - 1]
    /\ Fresh.free_buf_list = [n \in 1..NBuf |-> n - 1]
    /\ DOMAIN Fresh.fd_state_table = {}
    /\ \A s \in Index : Fresh.fd_state_list[s].task_in = <<>>
    /\ \A t : ~Waits(Queues(Fresh), t)
    /\ \A b \in Buf : Fresh.buf_list[b].refs = 0 /\ Fresh.answered[b] = 0
<1> DEFINE tasks == [n \in 1..NTask |-> n - 1]
           bufs == [n \in 1..NBuf |-> n - 1]
           table == [f \in {} |-> NULL]
           states == [s \in Index |-> [fd |-> NULL, armed |-> FALSE, task_in |-> <<>>]]
           task == [t \in Index |-> Unused]
           buf == [b \in Buf |-> [off |-> 0, refs |-> 0]]
           none == [b \in Buf |-> 0]
<1>1. tasks \in Seq(Index) /\ bufs \in Seq(Buf)
  BY PoolFacts, StackFull DEF Index, Buf
<1>2. table \in UNION {[S -> Index] : S \in SUBSET Fd} /\ DOMAIN table = {}
  <2>1. table \in [{} -> Index] /\ {} \in SUBSET Fd
    OBVIOUS
  <2> QED BY <2>1
<1>3. states \in [Index -> State] /\ \A s \in Index : states[s].task_in = <<>>
  <2>1. <<>> \in Seq(Index)
    BY EmptySeq
  <2> QED BY <2>1 DEF State
<1>4. task \in [Index -> Task]
  BY DEF Task, Unused
<1>5. buf \in [Buf -> [off : 0..BufSize, refs : Nat]]
  <2>1. 0 \in 0..BufSize
    BY PoolFacts
  <2> QED BY <2>1
<1>6. Fresh = [free_task_list |-> tasks, free_fd_state_list |-> tasks,
               free_buf_list |-> bufs, task_list |-> task,
               fd_state_list |-> states, buf_list |-> buf,
               fd_state_table |-> table, stranded |-> FALSE, answered |-> none]
  BY DEF Fresh
<1>a. none \in [Buf -> Nat] /\ (\A b \in Buf : none[b] = 0 /\ buf[b].refs = 0)
  OBVIOUS
<1> HIDE DEF tasks, bufs, table, states, task, buf, none
<1>7. /\ Fresh \in Xio
      /\ Fresh.free_task_list = tasks /\ Fresh.free_fd_state_list = tasks
      /\ Fresh.free_buf_list = bufs
      /\ Fresh.fd_state_table = table /\ Fresh.fd_state_list = states
      /\ Fresh.buf_list = buf /\ Fresh.answered = none
  BY <1>1, <1>2, <1>3, <1>4, <1>5, <1>6, <1>a DEF Xio
<1>8. \A s \in Index : Queues(Fresh)[s] = <<>>
  BY <1>3, <1>7, QueuesType
<1>9. \A t : ~Waits(Queues(Fresh), t)
  <2>1. \A s \in Index : 1..Len(Queues(Fresh)[s]) = {}
    <3>1. Len(<<>>) = 0 /\ 1..0 = {}
      OBVIOUS
    <3> QED BY <1>8, <3>1
  <2> QED BY <2>1 DEF Waits
<1> QED BY <1>2, <1>3, <1>7, <1>9, <1>a DEF tasks, bufs

(* What fh_xio_create returns is in order. *)
LEMMA FreshKept == \A ab : Kept(Fresh, ab)
<1> DEFINE x == Fresh
           queues == Queues(x)
           list == [n \in 1..NTask |-> n - 1]
           bufs == [n \in 1..NBuf |-> n - 1]
<1>1. /\ x \in Xio /\ x.free_task_list = list /\ x.free_fd_state_list = list
      /\ x.free_buf_list = bufs /\ DOMAIN x.fd_state_table = {}
      /\ \A s \in Index : x.fd_state_list[s].task_in = <<>>
      /\ \A t : ~Waits(queues, t)
      /\ \A b \in Buf : x.buf_list[b].refs = 0 /\ x.answered[b] = 0
  BY FreshFacts
<1>2. /\ Len(list) = NTask /\ \A n \in 1..Len(list) : list[n] = n - 1
      /\ \A t \in Index : Free(list, t)
      /\ Once(list)
  BY PoolFacts, StackFull DEF Index
<1>3. Len(bufs) = NBuf /\ \A b \in Buf : Free(bufs, b)
  BY PoolFacts, StackFull DEF Buf
<1> HIDE DEF list, bufs
<1>4. \A s \in Index : queues[s] = <<>>
  BY <1>1, QueuesType
<1> HIDE DEF x, queues
<1>5. Shape(x)
  BY <1>1, <1>2, <1>3, PoolFacts DEF Shape, Bottom
<1>6. \A s \in Index : 1..Len(queues[s]) = {}
  <2>1. Len(<<>>) = 0 /\ 1..0 = {}
    OBVIOUS
  <2> QED BY <1>4, <2>1
<1>7. Apart(list, queues)
  BY <1>2, <1>6 DEF Apart, Once
<1>8. Requests(x)
  BY <1>1, <1>7 DEF Requests, UdataApart, queues
<1>9. Buffers(x)
  BY <1>1, <1>3 DEF Buffers, Slices, Findable, queues
<1>10. States(x)
  <2>1. Covered(list, queues)
    BY <1>2 DEF Covered
  <2>2. 0..Len(list) - 1 = Index
    BY <1>2 DEF Index
  <2>3. IsInjective(x.fd_state_table)
    BY <1>1 DEF IsInjective
  <2>4. Owned(x.fd_state_table, x.fd_state_list, list)
    BY <1>1, <2>2, <2>3 DEF Owned
  <2> QED BY <1>1, <2>1, <2>4 DEF States, queues
<1>11. Counted(x)
  <2>1. \A b \in Buf : Holding(x.task_list, Queues(x), b) = {}
    BY <1>1 DEF Holding, queues
  <2>2. Cardinality({}) = 0 /\ 0 = 0 + 0
    BY FS_EmptySet
  <2> QED BY <1>1, <2>1, <2>2 DEF Counted
<1> QED BY <1>5, <1>8, <1>9, <1>10, <1>11 DEF Kept, x

-----------------------------------------------------------------------------
(* The steps *)

(* The udata of the waiting tasks. *)
UdataOf(x) ==
    {x.task_list[t].udata :
       t \in UNION {ToSet(x.fd_state_list[s].task_in) : s \in Index}}

(* The same, with Waits. *)
LEMMA UdataOfIs ==
    ASSUME NEW x \in Xio
    PROVE  \A u : u \in UdataOf(x) <=>
             \E t \in Index : Waits(Queues(x), t) /\ x.task_list[t].udata = u
<1>1. ASSUME NEW s \in Index, NEW t
      PROVE  t \in ToSet(x.fd_state_list[s].task_in) <=>
               t \in Index /\ Free(Queues(x)[s], t)
  <2> DEFINE list == x.fd_state_list[s].task_in
  <2>1. list \in Seq(Index) /\ Queues(x)[s] = list
    BY QueuesType
  <2> HIDE DEF list
  <2>2. t \in ToSet(list) <=> Free(list, t)
    BY <2>1, ToSetFree
  <2>3. Free(list, t) => t \in Index
    BY <2>1, ElementOfSeq DEF Free
  <2>4. t \in ToSet(list) <=> t \in Index /\ Free(Queues(x)[s], t)
    BY <2>1, <2>2, <2>3
  <2> QED BY <2>4 DEF list
<1>2. ASSUME NEW t
      PROVE  t \in UNION {ToSet(x.fd_state_list[s].task_in) : s \in Index} <=>
               t \in Index /\ Waits(Queues(x), t)
  BY <1>1 DEF Waits, Free
<1> QED BY <1>2 DEF UdataOf

(* The names that the model uses, in terms of x. *)
LEMMA AcquiredIs ==
    ASSUME NEW size
    PROVE  /\ Acquired(size) = Acq(xio, size)
           /\ HasSlice(size) <=> size = OWN \/ Fits(xio, size) # {}
           /\ Queued = UdataOf(xio)
BY DEF Acquired, Acq, HasSlice, Queued, UdataOf

(* A request that is given up. *)
LEMMA GiveUpStep ==
    ASSUME Kept(xio, "no"), aborted = "no", NEW size \in Sizes \cup {OWN},
           HasSlice(size), NEW y, NEW failed, GiveUp(y, size, failed),
           Shape(y), Requests(y), Room(y) = Room(Acq(xio, size)),
           y.task_list = xio.task_list, y.free_task_list = xio.free_task_list,
           \A t : Waits(Queues(y), t) => Waits(Queues(xio), t),
           ~y.stranded => ~xio.stranded /\ States(y)
    PROVE  Kept(xio', aborted')
<1>1. PICK x : x = xio
  OBVIOUS
<1>2. /\ Kept(x, "no") /\ (size = OWN \/ Fits(x, size) # {})
      /\ Room(y) = Room(Acq(x, size)) /\ y.task_list = x.task_list
      /\ y.free_task_list = x.free_task_list
      /\ ~y.stranded => ~x.stranded /\ States(y)
      /\ \A t : Waits(Queues(y), t) => Waits(Queues(x), t)
  BY <1>1, AcquiredIs
<1>3. /\ size = OWN => Kept(y, "no")
      /\ size # OWN /\ Len(y.free_buf_list) < NBuf =>
           Kept(fh_xio_release_slice(y, Picked(x, size)), "no")
  BY <1>2, GiveUpKeeps
<1>4. CASE size = OWN /\ xio' = y /\ UNCHANGED aborted
  BY <1>3, <1>4
<1>5. CASE /\ size # OWN /\ Len(y.free_buf_list) < NBuf
           /\ xio' = fh_xio_release_slice(y, Picked(xio, size))
           /\ UNCHANGED aborted
  BY <1>1, <1>3, <1>5
<1>6. CASE xio' = y /\ aborted' = "free_buf_list_top < XIO_BUF_COUNT"
  <2>1. Kept(y, "free_buf_list_top < XIO_BUF_COUNT")
    <3>1. PICK ab : ab = "free_buf_list_top < XIO_BUF_COUNT"
      OBVIOUS
    <3>2. ab # "no"
      BY <3>1
    <3>3. Kept(y, ab)
      BY <3>2, AbortedKeeps
    <3> QED BY <3>1, <3>3
  <2> QED BY <1>6, <2>1
<1> QED BY <1>4, <1>5, <1>6 DEF GiveUp

(* A request that waits from now on. *)
LEMMA AcceptStep ==
    ASSUME Kept(xio, "no"), aborted = "no", NEW size \in Sizes \cup {OWN},
           HasSlice(size), HasTask, NEW y, NEW s \in Index, NEW failed,
           NEW udata \in Udata, udata \notin Queued,
           Accept(y, s, udata, size, failed),
           Shape(y), Requests(y), Room(y) = Room(Acq(xio, size)),
           y.task_list = xio.task_list, y.free_task_list = xio.free_task_list,
           \A t : Waits(Queues(y), t) => Waits(Queues(xio), t),
           ~y.stranded => /\ ~xio.stranded /\ States(y)
                          /\ s \notin 0..Len(y.free_fd_state_list) - 1
    PROVE  Kept(xio', aborted')
<1>1. PICK x : x = xio
  OBVIOUS
<1>2. /\ Kept(x, "no") /\ (size = OWN \/ Fits(x, size) # {})
      /\ Room(y) = Room(Acq(x, size)) /\ y.task_list = x.task_list
      /\ y.free_task_list = x.free_task_list /\ x.free_task_list # <<>>
      /\ \A t : Waits(Queues(y), t) => Waits(Queues(x), t)
      /\ udata \notin UdataOf(x)
      /\ ~y.stranded => /\ ~x.stranded /\ States(y)
                        /\ s \notin 0..Len(y.free_fd_state_list) - 1
  BY <1>1, AcquiredIs DEF HasTask
<1>3. \A u \in Index : Waits(Queues(x), u) => x.task_list[u].udata # udata
  <2>1. x \in Xio
    BY <1>2 DEF Kept, Shape
  <2> QED BY <1>2, <2>1, UdataOfIs
<1>4. Kept(Queue(y, s, udata, Bytes(x, size)), "no")
  BY <1>2, <1>3, AcceptKeeps
<1>5. xio' = Queue(y, s, udata, Bytes(x, size)) /\ aborted' = aborted
  BY <1>1 DEF Accept, Queue
<1> QED BY <1>4, <1>5

(* A request given up after it acquired a slice only. *)
LEMMA NoStateStep ==
    ASSUME Kept(xio, "no"), aborted = "no", NEW size \in Sizes \cup {OWN},
           HasSlice(size), NEW failed, GiveUp(Acquired(size), size, failed)
    PROVE  Kept(xio', aborted')
<1>1. PICK x : x = xio
  OBVIOUS
<1>2. Kept(x, "no") /\ (size = OWN \/ Fits(x, size) # {})
  BY <1>1, AcquiredIs
<1>3. PICK y : y = Acq(x, size)
  OBVIOUS
<1>4. /\ Shape(y) /\ Requests(y) /\ Rest(y) = Rest(x)
      /\ ~y.stranded => ~x.stranded /\ States(y)
  BY <1>2, <1>3, AcquiredFacts
<1>5. /\ Queues(y) = Queues(x) /\ y.task_list = x.task_list
      /\ y.free_task_list = x.free_task_list
  BY <1>4, RestSame
<1>6. GiveUp(y, size, failed) /\ Room(y) = Room(Acq(xio, size))
  BY <1>1, <1>3, AcquiredIs
<1>7. /\ y.task_list = xio.task_list /\ y.free_task_list = xio.free_task_list
      /\ \A t : Waits(Queues(y), t) => Waits(Queues(xio), t)
      /\ ~y.stranded => ~xio.stranded /\ States(y)
  BY <1>1, <1>4, <1>5
<1> QED BY <1>4, <1>6, <1>7, GiveUpStep

(* A request for a descriptor that has a state. *)
LEMMA EnqueueStep ==
    ASSUME Kept(xio, "no"), aborted = "no", NEW size \in Sizes \cup {OWN},
           HasSlice(size), HasTask, NEW fd, Known(fd), NEW failed,
           NEW udata \in Udata, udata \notin Queued,
           Accept(Acquired(size), StateOf(fd), udata, size, failed)
    PROVE  Kept(xio', aborted')
<1>1. PICK x : x = xio
  OBVIOUS
<1>2. /\ Kept(x, "no") /\ (size = OWN \/ Fits(x, size) # {}) /\ x \in Xio
      /\ fd \in DOMAIN x.fd_state_table
  BY <1>1, AcquiredIs DEF Kept, Shape, Known
<1>3. PICK y : y = Acq(x, size)
  OBVIOUS
<1>4. /\ Shape(y) /\ Requests(y) /\ Rest(y) = Rest(x)
      /\ ~y.stranded => ~x.stranded /\ States(y)
  BY <1>2, <1>3, AcquiredFacts
<1>5. /\ Queues(y) = Queues(x) /\ y.task_list = x.task_list
      /\ y.free_task_list = x.free_task_list
      /\ y.fd_state_table = x.fd_state_table
  BY <1>4, RestSame
<1>6. PICK s \in Index : s = x.fd_state_table[fd]
  BY <1>2, XioFields
<1>7. ~y.stranded => /\ ~xio.stranded /\ States(y)
                     /\ s \notin 0..Len(y.free_fd_state_list) - 1
  BY <1>1, <1>2, <1>4, <1>5, <1>6 DEF States, Owned
<1>8. /\ Accept(y, s, udata, size, failed) /\ Room(y) = Room(Acq(xio, size))
  BY <1>1, <1>3, <1>6, AcquiredIs DEF StateOf
<1>9. /\ y.task_list = xio.task_list /\ y.free_task_list = xio.free_task_list
      /\ \A t : Waits(Queues(y), t) => Waits(Queues(xio), t)
  BY <1>1, <1>5
<1> QED BY <1>4, <1>7, <1>8, <1>9, AcceptStep

(* A request for a descriptor that is new. *)
LEMMA RegisterStep ==
    ASSUME Kept(xio, "no"), aborted = "no", NEW size \in Sizes \cup {OWN},
           NEW fd \in Fd, NEW udata \in Udata, udata \notin Queued,
           Register(fd, udata, size)
    PROVE  Kept(xio', aborted')
<1>1. PICK x : x = xio
  OBVIOUS
<1>2. /\ Kept(x, "no") /\ (size = OWN \/ Fits(x, size) # {}) /\ x \in Xio
      /\ x.free_fd_state_list # <<>> /\ fd \notin DOMAIN x.fd_state_table
      /\ HasTask /\ HasSlice(size)
  BY <1>1, AcquiredIs DEF Kept, Shape, Known, Register, HasState
<1>3. PICK a : a = Acq(x, size)
  OBVIOUS
<1>4. /\ Shape(a) /\ Requests(a) /\ Rest(a) = Rest(x)
      /\ ~a.stranded => ~x.stranded /\ States(a)
  BY <1>2, <1>3, AcquiredFacts
<1>5. /\ Queues(a) = Queues(x) /\ a.task_list = x.task_list
      /\ a.free_task_list = x.free_task_list
      /\ a.free_fd_state_list = x.free_fd_state_list
      /\ a.fd_state_table = x.fd_state_table
  BY <1>4, RestSame
<1>6. PICK s : s = Last(a.free_fd_state_list)
  OBVIOUS
<1>7. a = Acquired(size) /\ s = Last(xio.free_fd_state_list)
  BY <1>1, <1>3, <1>5, <1>6, AcquiredIs
<1>8. a.free_fd_state_list # <<>>
  BY <1>2, <1>5
<1>9. \/ GiveUp(Reset(a, fd, s), size, "nothing")
      \/ GiveUp([a EXCEPT !.fd_state_list[s] = NewState(fd),
                          !.fd_state_table = Table(a, fd, s),
                          !.stranded = TRUE], size, "nothing")
      \/ Accept(TakeState(a, fd), s, udata, size, "xpoll")
  BY <1>7 DEF Register, Reset
<1>10. CASE GiveUp(Reset(a, fd, s), size, "nothing")
  <2>1. PICK y : y = Reset(a, fd, s)
    OBVIOUS
  <2>2. /\ s \in Index /\ Shape(y) /\ Requests(y)
        /\ \A t : Waits(Queues(y), t) => Waits(Queues(a), t)
        /\ States(a) => States(y)
    BY <1>4, <1>6, <1>8, <2>1, ResetKeeps
  <2>3. a \in Xio
    BY <1>4 DEF Shape
  <2>4. /\ y.task_list = a.task_list /\ Room(y) = Room(a)
        /\ y.stranded = a.stranded /\ y.free_task_list = a.free_task_list
    BY <2>1, <2>2, <2>3, ResetFacts
  <2>5. GiveUp(y, size, "nothing") /\ Room(y) = Room(Acq(xio, size))
    BY <1>1, <1>3, <1>10, <2>1, <2>4
  <2>6. /\ y.task_list = xio.task_list /\ y.free_task_list = xio.free_task_list
        /\ ~y.stranded => ~xio.stranded /\ States(y)
        /\ \A t : Waits(Queues(y), t) => Waits(Queues(xio), t)
    BY <1>1, <1>4, <1>5, <2>2, <2>4
  <2> QED BY <1>2, <2>2, <2>5, <2>6, GiveUpStep
<1>11. CASE GiveUp([a EXCEPT !.fd_state_list[s] = NewState(fd),
                             !.fd_state_table = Table(a, fd, s),
                             !.stranded = TRUE], size, "nothing")
  <2>1. PICK y : y = [a EXCEPT !.fd_state_list[s] = NewState(fd),
                               !.fd_state_table = Table(a, fd, s),
                               !.stranded = TRUE]
    OBVIOUS
  <2>2. /\ Shape(y) /\ Requests(y) /\ y.stranded
        /\ y.task_list = a.task_list /\ Room(y) = Room(a)
        /\ y.free_task_list = a.free_task_list
        /\ \A t : Waits(Queues(y), t) => Waits(Queues(a), t)
    BY <1>4, <1>6, <1>8, <2>1, StrandedKeeps
  <2>3. GiveUp(y, size, "nothing") /\ Room(y) = Room(Acq(xio, size))
    BY <1>1, <1>3, <1>11, <2>1, <2>2
  <2>4. /\ y.task_list = xio.task_list /\ y.free_task_list = xio.free_task_list
        /\ ~y.stranded => ~xio.stranded /\ States(y)
        /\ \A t : Waits(Queues(y), t) => Waits(Queues(xio), t)
    BY <1>1, <1>5, <2>2
  <2> QED BY <1>2, <2>2, <2>3, <2>4, GiveUpStep
<1>12. CASE Accept(TakeState(a, fd), s, udata, size, "xpoll")
  <2>1. PICK y : y = TakeState(a, fd)
    OBVIOUS
  <2>2. /\ s \in Index /\ Shape(y) /\ Requests(y)
        /\ y.stranded = a.stranded /\ y.free_task_list = a.free_task_list
        /\ y.task_list = a.task_list /\ Room(y) = Room(a)
        /\ s \notin 0..Len(y.free_fd_state_list) - 1
        /\ \A t : Waits(Queues(y), t) => Waits(Queues(a), t)
        /\ States(a) /\ fd \notin DOMAIN a.fd_state_table => States(y)
    BY <1>4, <1>6, <1>8, <2>1, TakeStateKeeps
  <2>3. Accept(y, s, udata, size, "xpoll") /\ Room(y) = Room(Acq(xio, size))
    BY <1>1, <1>3, <1>12, <2>1, <2>2
  <2>4. /\ y.task_list = xio.task_list /\ y.free_task_list = xio.free_task_list
        /\ \A t : Waits(Queues(y), t) => Waits(Queues(xio), t)
        /\ ~y.stranded => /\ ~xio.stranded /\ States(y)
                          /\ s \notin 0..Len(y.free_fd_state_list) - 1
    BY <1>1, <1>2, <1>4, <1>5, <2>2
  <2> QED BY <1>2, <2>2, <2>3, <2>4, AcceptStep
<1> QED BY <1>9, <1>10, <1>11, <1>12

(* fh_xio_request_prep_with_size *)
LEMMA RequestStep ==
    ASSUME Kept(xio, "no"), aborted = "no", NEW size \in Sizes \cup {OWN},
           NEW fd \in Fd, NEW udata \in Udata \ Queued,
           fh_xio_request_recv(fd, udata, size)
    PROVE  Kept(xio', aborted')
<1>1. CASE NoTask \/ NoSlice(size)
  BY <1>1 DEF NoTask, NoSlice
<1>2. CASE NoState(fd, size)
  BY <1>2, NoStateStep DEF NoState
<1>3. CASE SetAborts(fd, size)
  <2>1. PICK x : x = xio
    OBVIOUS
  <2>2. Kept(x, "int_htable_set")
    BY <2>1, AbortedKeeps DEF Kept
  <2> QED BY <1>3, <2>1, <2>2 DEF SetAborts
<1>4. CASE Register(fd, udata, size)
  BY <1>4, RegisterStep
<1>5. CASE Rearm(fd, udata, size)
  BY <1>5, NoStateStep, EnqueueStep DEF Rearm
<1>6. CASE Enqueue(fd, udata, size)
  BY <1>6, EnqueueStep DEF Enqueue
<1> QED BY <1>1, <1>2, <1>3, <1>4, <1>5, <1>6 DEF fh_xio_request_recv

Answered(x, got) == [n \in DOMAIN got |-> x.task_list[got[n]].udata]

(* A wait that answers requests; the states of the events with an error are *)
(* some of the states, in some order.                                       *)
LEMMA WaitIs ==
    ASSUME IInv, aborted = "no", NEW max \in 1..NTask, fh_xio_wait(max)
    PROVE  \/ UNCHANGED <<xio, aborted>>
           \/ \E got : /\ Answerable(xio, got) /\ xio' = Delivered(xio, got)
                       /\ ret'.results = Answered(xio, got)
<1>1. CASE UNCHANGED <<xio, xpoll, aborted>>
  BY <1>1
<1>2. ASSUME R!Wait(max), NEW errors \in SUBSET xret'.events,
             NEW states \in SetToSeqs({e[2] : e \in errors}), Deliver(states, max)
      PROVE  \E got : /\ Answerable(xio, got) /\ xio' = Delivered(xio, got)
                      /\ ret'.results = Answered(xio, got)
  <2> DEFINE S == {e[2] : e \in errors}
             n == Cardinality(S)
  <2>1. xret'.events \subseteq interest
    BY <1>2 DEF R!Wait, R!Done
  <2>2. \A e \in errors : e \in Fd \X Index
    BY <2>1 DEF IInv
  <2>3. S \subseteq Index
    BY <2>2
  <2>4. n \in Nat
    <3>1. IsFiniteSet(Index)
      BY PoolFacts, FS_Interval DEF Index
    <3> HIDE DEF S
    <3> QED BY <2>3, <3>1, FS_Subset, FS_CardinalityType
  <2>5. states \in [1..n -> S] /\ \A k, l \in 1..n : k # l => states[k] # states[l]
    BY <1>2 DEF SetToSeqs
  <2> HIDE DEF S, n
  <2>6. states \in [1..n -> Index]
    BY <2>3, <2>5
  <2>7. PICK x : x = xio
    OBVIOUS
  <2>8. Shape(x) /\ Requests(x) /\ max \in Nat
    BY <2>7 DEF IInv, Kept
  <2>9. PICK got : got = Answers(Waiting(x, states), max)
    OBVIOUS
  <2>10. Answerable(x, got)
    BY <2>4, <2>5, <2>6, <2>8, <2>9, AnswersMoved
  <2>11. xio' = Delivered(x, got) /\ ret'.results = Answered(x, got)
    BY <1>2, <2>7, <2>9 DEF Deliver, Waiting, Delivered, Answered, Returned
  <2> QED BY <2>7, <2>10, <2>11
<1> QED BY <1>1, <1>2 DEF fh_xio_wait

(* fh_xio_wait *)
LEMMA WaitStep ==
    ASSUME IInv, aborted = "no", NEW max \in 1..NTask, fh_xio_wait(max)
    PROVE  Kept(xio', aborted')
<1>1. CASE UNCHANGED <<xio, aborted>>
  BY <1>1 DEF IInv
<1>2. ASSUME NEW got, Answerable(xio, got), xio' = Delivered(xio, got)
      PROVE  Kept(xio', aborted')
  <2>1. PICK x : x = xio
    OBVIOUS
  <2>2. PICK ab : ab = aborted'
    OBVIOUS
  <2>3. Kept(x, "no") /\ Answerable(x, got)
    BY <1>2, <2>1 DEF IInv
  <2>4. Kept(Delivered(x, got), ab)
    BY <2>3, DeliverKeeps
  <2> QED BY <1>2, <2>1, <2>2, <2>4
<1> QED BY <1>1, <1>2, WaitIs

(* xpoll knows descriptor states of xio only. *)
LEMMA InterestStays ==
    ASSUME IInv, Next
    PROVE  interest' \subseteq Fd \X Index
<1>0. interest \subseteq Fd \X Index /\ Shape(xio) /\ aborted = "no"
  BY DEF IInv, Next, Kept
<1>1. ASSUME NEW fd \in Fd, NEW size, NEW udata, fh_xio_request_recv(fd, udata, size)
      PROVE  interest' \subseteq Fd \X Index
  <2>1. CASE NoTask \/ NoSlice(size) \/ NoState(fd, size) \/ SetAborts(fd, size)
             \/ Enqueue(fd, udata, size)
    BY <1>0, <2>1 DEF NoTask, NoSlice, NoState, SetAborts, Enqueue, xpoll
  <2>2. CASE Register(fd, udata, size)
    <3>1. PICK list \in Seq(Index) : list = xio.free_fd_state_list
      BY <1>0, XioFields DEF Shape
    <3>2. list # <<>> /\ Last(list) \in Index
      BY <2>2, <3>1, FrontFacts DEF Register, HasState
    <3>3. \/ interest' = interest \cup {<<fd, Last(list)>>}
          \/ interest' = interest
      BY <2>2, <3>1 DEF Register, R!Add, R!AddFails
    <3> QED BY <1>0, <3>2, <3>3
  <2>3. CASE Rearm(fd, udata, size)
    <3>1. PICK x \in Xio : x = xio
      BY <1>0 DEF Shape
    <3>2. fd \in DOMAIN x.fd_state_table => x.fd_state_table[fd] \in Index
      BY <3>1, XioFields
    <3>3. StateOf(fd) \in Index
      BY <2>3, <3>1, <3>2 DEF Rearm, Known, StateOf
    <3>4. \/ interest' = (interest \ R!Registered(fd)) \cup {<<fd, StateOf(fd)>>}
          \/ interest' = interest
      BY <2>3 DEF Rearm, R!Modify, R!NotThere
    <3> QED BY <1>0, <3>3, <3>4
  <2> QED BY <1>1, <2>1, <2>2, <2>3 DEF fh_xio_request_recv
<1>2. ASSUME NEW max, fh_xio_wait(max)
      PROVE  interest' \subseteq Fd \X Index
  BY <1>0, <1>2 DEF fh_xio_wait, R!Wait, xpoll
<1>3. CASE fh_xio_free
  BY <1>3 DEF fh_xio_free, R!Close
<1>4. ASSUME NEW fd, CloseFd(fd)
      PROVE  interest' \subseteq Fd \X Index
  BY <1>0, <1>4 DEF CloseFd
<1> QED BY <1>1, <1>2, <1>3, <1>4 DEF Next

(* The first state. *)
LEMMA InitKept == Init => IInv
BY FreshKept DEF Init, IInv

(* Every step. *)
LEMMA StepKept == IInv /\ [Next]_vars => IInv'
<1> SUFFICES ASSUME IInv, [Next]_vars
             PROVE  IInv'
  OBVIOUS
<1>1. CASE UNCHANGED vars
  BY <1>1 DEF vars, xpoll, IInv
<1>2. CASE Next
  <2>1. aborted = "no" /\ Kept(xio, "no")
    BY <1>2 DEF Next, IInv
  <2>2. ASSUME NEW fd \in Fd, NEW size \in Sizes \cup {OWN},
               NEW udata \in Udata \ Queued, fh_xio_request_recv(fd, udata, size)
        PROVE  Kept(xio', aborted')
    BY <2>1, <2>2, RequestStep
  <2>3. ASSUME NEW max \in 1..NTask, fh_xio_wait(max)
        PROVE  Kept(xio', aborted')
    BY <2>1, <2>3, WaitStep
  <2>4. ASSUME fh_xio_free
        PROVE  Kept(xio', aborted')
    <3>1. PICK ab : ab = aborted'
      OBVIOUS
    <3>2. Kept(Fresh, ab)
      BY FreshKept
    <3> QED BY <2>4, <3>1, <3>2 DEF fh_xio_free
  <2>5. ASSUME NEW fd, CloseFd(fd)
        PROVE  Kept(xio', aborted')
    BY <2>5 DEF CloseFd, IInv
  <2>6. Kept(xio', aborted')
    BY <1>2, <2>2, <2>3, <2>4, <2>5 DEF Next
  <2>7. interest' \subseteq Fd \X Index
    BY <1>2, InterestStays
  <2> QED BY <2>6, <2>7 DEF IInv
<1> QED BY <1>1, <1>2

(* The pools stay in order: IInv holds whatever requests, waits and closes *)
(* come in whatever order.                                                 *)
THEOREM PoolsKept == Spec => []IInv
BY InitKept, StepKept, PTL DEF Spec

-----------------------------------------------------------------------------
(* The properties *)

(* A list of each element of a set once is as long as the set is large. *)
LEMMA OnceCounts ==
    ASSUME NEW S, NEW list \in Seq(S), Once(list), \A e \in S : Free(list, e)
    PROVE  Cardinality(S) = Len(list)
<1>1. Len(list) \in Nat /\ DOMAIN list = 1..Len(list) /\ list \in [1..Len(list) -> S]
  BY LenProperties
<1>2. list \in Injection(1..Len(list), S)
  BY <1>1 DEF Injection, IsInjective, Once
<1>3. list \in Surjection(1..Len(list), S)
  BY <1>1 DEF Surjection, Free
<1>4. ExistsBijection(1..Len(list), S)
  BY <1>2, <1>3 DEF ExistsBijection, Bijection
<1> QED BY <1>1, <1>4, FS_CountingElements

(* A list without repetitions fits into the array. *)
LEMMA OnceBound ==
    ASSUME NEW list \in Seq(Index), Once(list)
    PROVE  Len(list) <= NTask
<1>1. Len(list) \in Nat /\ DOMAIN list = 1..Len(list) /\ list \in [1..Len(list) -> Index]
  BY LenProperties
<1>2. list \in Injection(1..Len(list), Index)
  BY <1>1 DEF Injection, IsInjective, Once
<1>3. Cardinality(1..Len(list)) <= NTask
  BY <1>2, IndexCounts, FS_Injection
<1>4. Cardinality(1..Len(list)) = IF 1 > Len(list) THEN 0 ELSE Len(list) - 1 + 1
  BY <1>1, FS_Interval
<1>5. PICK n \in Nat : n = Len(list)
  BY <1>1
<1>6. (IF 1 > n THEN 0 ELSE n - 1 + 1) = n
  OBVIOUS
<1> QED BY <1>3, <1>4, <1>5, <1>6

(* The tasks on all lists: the waiting ones, each once. *)
AllOf(x) == FlattenSeq([n \in 1..NTask |-> x.fd_state_list[n - 1].task_in])

(* They are the tasks that wait. *)
LEMMA AllOfFacts ==
    ASSUME NEW x \in Xio, NEW free, Apart(free, Queues(x))
    PROVE  /\ AllOf(x) \in Seq(Index) /\ Once(AllOf(x))
           /\ \A t : Free(AllOf(x), t) <=> Waits(Queues(x), t)
<1> DEFINE queues == Queues(x)
           states == [n \in 1..NTask |-> n - 1]
           g == [n \in 1..NTask |-> queues[states[n]]]
           whole == AllOf(x)
<1>1. /\ queues \in [Index -> Seq(Index)]
      /\ \A s \in Index : queues[s] = x.fd_state_list[s].task_in
  BY QueuesType
<1>2. NTask \in Nat /\ states \in [1..NTask -> Index] /\ DOMAIN states = 1..NTask
      /\ \A n \in 1..NTask : states[n] = n - 1
  BY PoolFacts DEF Index
<1>3. \A k, l \in 1..NTask : k # l => states[k] # states[l]
  <2> TAKE k, l \in 1..NTask
  <2>1. k # l => k - 1 # l - 1
    OBVIOUS
  <2> QED BY <1>2, <2>1
<1> HIDE DEF queues, states
<1>4. g \in [1..NTask -> Seq(Index)] /\ \A n \in 1..NTask : g[n] = queues[states[n]]
  BY <1>1, <1>2
<1>5. whole = FlattenSeq(g)
  <2>1. [n \in 1..NTask |-> x.fd_state_list[n - 1].task_in] = g
    BY <1>1, <1>2
  <2> QED BY <2>1 DEF AllOf
<1> HIDE DEF g, whole
<1>6. PICK start : Layout(whole, g, NTask, start, Index)
  BY <1>2, <1>4, <1>5, Flattened
<1>7. whole \in Seq(Index)
  BY <1>6 DEF Layout
<1>8. Begins(whole, whole)
  <2>1. Len(whole) \in Nat
    BY <1>7, LenProperties
  <2>2. Len(whole) <= Len(whole)
    BY <2>1
  <2> QED BY <2>2 DEF Begins
<1>9. Apart(free, queues)
  BY DEF queues
<1>10. \A n \in 1..NTask : g[n] = queues[states[n]]
  BY <1>4
<1>11. FirstOf(whole, queues)
  BY <1>1, <1>2, <1>3, <1>6, <1>7, <1>8, <1>9, <1>10, GotFacts
<1>12. ASSUME NEW t, Waits(queues, t)
       PROVE  Free(whole, t)
  <2>1. PICK s \in Index : \E j \in 1..Len(queues[s]) : queues[s][j] = t
    BY <1>12 DEF Waits
  <2>2. PICK j \in 1..Len(queues[s]) : queues[s][j] = t
    BY <2>1
  <2>3. s + 1 \in 1..NTask
    BY <1>2 DEF Index
  <2>4. g[s + 1] = queues[s]
    <3>1. states[s + 1] = s
      <4>1. PICK k \in 1..NTask : k = s + 1
        BY <2>3
      <4>2. states[k] = k - 1
        BY <1>2
      <4>3. s \in Int
        BY DEF Index
      <4>4. k - 1 = s
        BY <4>1, <4>3
      <4> QED BY <4>1, <4>2, <4>4
    <3> QED BY <1>10, <2>3, <3>1
  <2>5. start[s + 1] + j \in 1..Len(whole) /\ whole[start[s + 1] + j] = t
    BY <1>6, <2>2, <2>3, <2>4 DEF Layout
  <2> QED BY <2>5 DEF Free
<1>13. whole \in Seq(Index) /\ Once(whole) /\ \A t : Free(whole, t) <=> Waits(queues, t)
  BY <1>11, <1>12 DEF FirstOf
<1> QED BY <1>13 DEF whole, queues

(* The model's name for them. *)
LEMMA OnListsIs == OnLists = AllOf(xio)
BY DEF OnLists, AllOf

(* Slices of waiting requests never overlap. *)
THEOREM SlicesApart == Spec => []SlicesDisjoint
<1>1. IInv => SlicesDisjoint
  <2> SUFFICES ASSUME IInv, aborted = "no"
               PROVE  \A t, u \in Pending : t # u =>
                        LET a == xio.task_list[t].bytes
                            b == xio.task_list[u].bytes
                        IN a.bid = b.bid => a.to <= b.from \/ b.to <= a.from
    BY DEF SlicesDisjoint
  <2>1. PICK x : x = xio
    OBVIOUS
  <2>2. /\ x \in Xio /\ Apart(x.free_task_list, Queues(x))
        /\ Slices(x.task_list, x.buf_list, Queues(x))
    BY <2>1 DEF IInv, Kept, Shape, Requests, Buffers
  <2>3. AllOf(x) \in Seq(Index) /\ \A t : Free(AllOf(x), t) <=> Waits(Queues(x), t)
    BY <2>2, AllOfFacts
  <2>4. \A t : t \in ToSet(AllOf(x)) => t \in Index /\ Waits(Queues(x), t)
    <3>1. \A t : Free(AllOf(x), t) => t \in Index
      BY <2>3, ElementOfSeq DEF Free
    <3> QED BY <2>3, <3>1, ToSetFree
  <2>5. \A t \in Pending : /\ t \in Index /\ Waits(Queues(x), t)
                           /\ x.task_list[t].bytes # NULL
    BY <2>1, <2>4, OnListsIs DEF Pending
  <2>6. ASSUME NEW t \in Pending, NEW u \in Pending, t # u
        PROVE  PairApart(x.task_list, t, u)
    BY <2>2, <2>5, <2>6 DEF Slices
  <2> QED BY <2>1, <2>6 DEF PairApart
<1> QED BY PoolsKept, <1>1, PTL

(* The references to a buffer are the slices of waiting and of answered     *)
(* requests, and a buffer off the list is full.                             *)
THEOREM SlicesKept == Spec => []SlicesCounted
<1>1. IInv => SlicesCounted
  <2> SUFFICES ASSUME IInv, aborted = "no", NEW b \in Buf
               PROVE  /\ ~xio.stranded =>
                           xio.buf_list[b].refs
                             = Cardinality(Holders(xio, ToSet(OnLists), b))
                                 + xio.answered[b]
                      /\ \/ b \in ToSet(xio.free_buf_list)
                         \/ xio.buf_list[b].off = BufSize /\ xio.buf_list[b].refs > 0
    BY DEF SlicesCounted
  <2>1. PICK x : x = xio
    OBVIOUS
  <2>2. /\ x \in Xio /\ Findable(x.buf_list, x.free_buf_list)
        /\ Apart(x.free_task_list, Queues(x))
        /\ ~x.stranded => Counted(x)
    BY <2>1 DEF IInv, Kept, Shape, Buffers, Requests
  <2>3. x.free_buf_list \in Seq(Buf)
    BY <2>2, XioFields
  <2>4. \A c : Free(x.free_buf_list, c) => c \in ToSet(x.free_buf_list)
    BY <2>3, ToSetFree
  <2>5. AllOf(x) \in Seq(Index) /\ \A t : Free(AllOf(x), t) <=> Waits(Queues(x), t)
    BY <2>2, AllOfFacts
  <2>6. \A t : t \in ToSet(AllOf(x)) <=> t \in Index /\ Waits(Queues(x), t)
    <3>1. \A t : Free(AllOf(x), t) => t \in Index
      BY <2>5, ElementOfSeq DEF Free
    <3> QED BY <2>5, <3>1, ToSetFree
  <2>7. Holders(x, ToSet(AllOf(x)), b) = Holding(x.task_list, Queues(x), b)
    BY <2>6 DEF Holders, Holding
  <2>8. ~x.stranded =>
          x.buf_list[b].refs
            = Cardinality(Holders(x, ToSet(AllOf(x)), b)) + x.answered[b]
    BY <2>2, <2>7 DEF Counted
  <2> QED BY <2>1, <2>2, <2>4, <2>8, OnListsIs DEF Findable
<1> QED BY PoolsKept, <1>1, PTL

(* A descriptor state is free or has one owner. *)
THEOREM StatesOwned == Spec => []StatesAccounted
<1>1. IInv => StatesAccounted
  <2> DEFINE used == {StateOf(f) : f \in DOMAIN xio.fd_state_table}
  <2> SUFFICES ASSUME IInv, aborted = "no", ~xio.stranded
               PROVE  /\ IsInjective(xio.fd_state_table)
                      /\ IsInjective(xio.free_fd_state_list)
                      /\ ToSet(xio.free_fd_state_list) = Index \ used
                      /\ \A f \in DOMAIN xio.fd_state_table :
                           xio.fd_state_list[StateOf(f)].fd = f
                      /\ \A s \in Index \ used : xio.fd_state_list[s].task_in = <<>>
    BY DEF StatesAccounted
  <2>1. PICK x : x = xio
    OBVIOUS
  <2>2. PICK list : list = x.free_fd_state_list
    OBVIOUS
  <2>3. /\ x \in Xio /\ Bottom(list) /\ list \in Seq(Index)
        /\ Owned(x.fd_state_table, x.fd_state_list, list)
    BY <2>1, <2>2, XioFields DEF IInv, Kept, Shape, States
  <2>4. Len(list) \in Nat /\ DOMAIN list = 1..Len(list)
    BY <2>3, LenProperties
  <2>5. \A n \in 1..Len(list) : list[n] = n - 1
    BY <2>3 DEF Bottom
  <2>6. IsInjective(list)
    <3>1. ASSUME NEW m \in 1..Len(list), NEW n \in 1..Len(list), list[m] = list[n]
          PROVE  m = n
      <4>1. m - 1 = n - 1
        BY <2>5, <3>1
      <4> QED BY <4>1
    <3> QED BY <2>4, <3>1 DEF IsInjective
  <2>7. ASSUME NEW s
        PROVE  Free(list, s) <=> s \in 0..Len(list) - 1
    <3>1. ASSUME NEW n \in 1..Len(list), list[n] = s
          PROVE  s \in 0..Len(list) - 1
      <4>1. s = n - 1
        BY <2>5, <3>1
      <4> QED BY <2>4, <4>1
    <3>2. ASSUME s \in 0..Len(list) - 1
          PROVE  Free(list, s)
      <4>1. s + 1 \in 1..Len(list)
        BY <2>4, <3>2
      <4>2. list[s + 1] = s
        <5>1. PICK k \in 1..Len(list) : k = s + 1
          BY <4>1
        <5>2. list[k] = k - 1
          BY <2>5
        <5>3. s \in Int
          BY <3>2
        <5>4. k - 1 = s
          BY <5>1, <5>3
        <5> QED BY <5>1, <5>2, <5>4
      <4> QED BY <4>1, <4>2 DEF Free
    <3> QED BY <3>1, <3>2 DEF Free
  <2>8. \A f \in DOMAIN x.fd_state_table : x.fd_state_table[f] \in Index
    BY <2>3, XioFields
  <2>9. \A s : s \in 0..Len(list) - 1 <=>
                 s \in Index /\ ~\E f \in DOMAIN x.fd_state_table : x.fd_state_table[f] = s
    <3>1. \A s : Free(list, s) => s \in Index
      BY <2>3, ElementOfSeq DEF Free
    <3> QED BY <2>3, <2>7, <3>1 DEF Owned
  <2>10. \A s : s \in Index \ used <=> s \in 0..Len(list) - 1
    BY <2>1, <2>9 DEF StateOf
  <2> HIDE DEF used
  <2>11. ToSet(list) = Index \ used
    <3>1. \A s : s \in ToSet(list) <=> s \in Index \ used
      BY <2>3, <2>7, <2>10, ToSetFree
    <3> QED BY <3>1
  <2>12. \A f \in DOMAIN x.fd_state_table : x.fd_state_list[x.fd_state_table[f]].fd = f
    BY <2>3 DEF Owned
  <2>13. \A s \in Index \ used : x.fd_state_list[s].task_in = <<>>
    BY <2>3, <2>10 DEF Owned
  <2>14. IsInjective(x.fd_state_table)
    BY <2>3 DEF Owned
  <2> QED BY <2>1, <2>2, <2>6, <2>11, <2>12, <2>13, <2>14 DEF StateOf
<1> QED BY PoolsKept, <1>1, PTL

(* The invariant has the type invariant in it. *)
LEMMA TypesKept == IInv => TypeOK
<1> SUFFICES ASSUME IInv
             PROVE  TypeOK
  OBVIOUS
<1>1. PICK x : x = xio
  OBVIOUS
<1>2. Shape(x) /\ x \in Xio /\ Once(x.free_task_list)
  BY <1>1 DEF IInv, Kept, Shape, Requests, Apart
<1>3. /\ x.free_task_list \in Seq(Index)
      /\ x.free_fd_state_list \in Seq(Index)
      /\ x.free_buf_list \in Seq(Buf)
      /\ x.fd_state_list \in [Index -> State]
      /\ x.buf_list \in [Buf -> [off : 0..BufSize, refs : Nat]]
      /\ \A f \in DOMAIN x.fd_state_table : x.fd_state_table[f] \in Index
  BY <1>2, XioFields
<1>4. Len(x.free_task_list) <= NTask
  BY <1>2, <1>3, OnceBound
<1>5. Len(x.free_fd_state_list) <= NTask /\ Len(x.free_buf_list) <= NBuf
  BY <1>2 DEF Shape, Bottom
<1>6. \A b \in Buf : x.buf_list[b].off \in 0..BufSize /\ x.buf_list[b].refs \in Nat
  BY <1>3
<1>7. \A s \in Index : x.fd_state_list[s].task_in \in Seq(Index)
  BY <1>3 DEF State
<1> QED BY <1>1, <1>3, <1>4, <1>5, <1>6, <1>7 DEF TypeOK

(* Every task is in one place. *)
THEOREM TasksKept == Spec => []TasksAccounted
<1>1. IInv => TasksAccounted
  <2> SUFFICES ASSUME IInv, aborted = "no", ~xio.stranded
               PROVE  LET all == xio.free_task_list \o OnLists
                      IN ToSet(all) = Index /\ Len(all) = NTask
    BY TypesKept DEF TasksAccounted
  <2>1. PICK x : x = xio
    OBVIOUS
  <2> DEFINE free == x.free_task_list
             lists == AllOf(x)
             all == free \o lists
             queues == Queues(x)
             empty == [s \in Index |-> <<>>]
  <2>2. /\ x \in Xio /\ Apart(free, queues) /\ Covered(free, queues)
        /\ free \in Seq(Index) /\ queues \in [Index -> Seq(Index)]
    BY <2>1, XioFields, QueuesType DEF IInv, Kept, Shape, Requests, States
  <2>3. /\ lists \in Seq(Index) /\ Once(lists)
        /\ \A t : Free(lists, t) <=> Waits(queues, t)
    BY <2>2, AllOfFacts
  <2> HIDE DEF free, lists, queues
  <2>4. empty \in [Index -> Seq(Index)] /\ \A s \in Index : empty[s] = <<>>
    BY EmptySeq
  <2> HIDE DEF empty
  <2>5. ASSUME NEW s \in Index
        PROVE  Remains(empty[s], queues[s], lists)
    <3>1. PICK k \in Nat : k = Len(queues[s])
      BY <2>2, LenProperties
    <3>2. Len(empty[s]) = 0 /\ 1..0 = {} /\ k - k = 0 /\ k <= k
      BY <2>4
    <3>3. \A i \in 1..k : Free(lists, queues[s][i])
      BY <2>3, <3>1 DEF Waits
    <3>4. \A i \in 1..k : i <= k
      OBVIOUS
    <3>5. \A n \in 1..Len(empty[s]) : n + k \in 1..Len(queues[s]) /\ empty[s][n] = queues[s][n + k]
      BY <3>2
    <3> QED BY <3>1, <3>2, <3>3, <3>4, <3>5 DEF Remains
  <2>6. /\ Apart(all, empty) /\ Covered(all, empty)
        /\ \A t : Waits(empty, t) <=> Waits(queues, t) /\ ~Free(lists, t)
    <3>1. \A t : Free(lists, t) => Waits(queues, t)
      BY <2>3
    <3> QED BY <2>2, <2>3, <2>4, <2>5, <3>1, MovedApart
  <2>7. all \in Seq(Index) /\ Once(all) /\ \A t \in Index : Free(all, t)
    BY <2>2, <2>3, <2>6, ConcatProperties DEF Apart, Covered
  <2> HIDE DEF all
  <2>8. Len(all) = NTask
    BY <2>7, OnceCounts, IndexCounts
  <2>9. ToSet(all) = Index
    <3>1. \A t : Free(all, t) => t \in Index
      BY <2>7, ElementOfSeq DEF Free
    <3>2. \A t : t \in ToSet(all) <=> Free(all, t)
      BY <2>7, ToSetFree
    <3>3. \A t : t \in ToSet(all) <=> t \in Index
      BY <2>7, <3>1, <3>2
    <3> QED BY <3>3
  <2>10. all = xio.free_task_list \o OnLists
    BY <2>1, OnListsIs DEF all, free, lists
  <2> QED BY <2>8, <2>9, <2>10
<1> QED BY PoolsKept, <1>1, PTL

(* The results of a wait. *)
LEMMA AnsweredFacts ==
    ASSUME NEW x, Kept(x, "no"), NEW got, Answerable(x, got)
    PROVE  LET results == Answered(x, got)
               z == Delivered(x, got)
           IN /\ ToSet(results) = UdataOf(x) \ UdataOf(z)
              /\ Len(results) = Cardinality(ToSet(results))
              /\ UdataOf(z) \subseteq UdataOf(x)
<1> DEFINE results == Answered(x, got)
           z == Delivered(x, got)
           udata(t) == x.task_list[t].udata
           answered == ToSet(results)
<1>1. /\ x \in Xio /\ UdataApart(x.task_list, Queues(x))
      /\ got \in Seq(Index) /\ Once(got)
      /\ \A t : Free(got, t) => t \in Index /\ Waits(Queues(x), t)
  <2>1. got \in Seq(Index) /\ Once(got) /\ \A t : Free(got, t) => Waits(Queues(x), t)
    BY DEF Answerable, FirstOf
  <2>2. \A t : Free(got, t) => t \in Index
    BY <2>1, ElementOfSeq DEF Free
  <2> QED BY <2>1, <2>2 DEF Kept, Shape, Requests
<1>2. /\ z \in Xio
      /\ \A t : Waits(Queues(z), t) <=> Waits(Queues(x), t) /\ ~Free(got, t)
      /\ \A t \in Index : ~Free(got, t) => z.task_list[t] = x.task_list[t]
  BY <1>1, DeliveredFacts, DeliverKeeps
<1>3. Len(got) \in Nat /\ DOMAIN got = 1..Len(got)
  BY <1>1, LenProperties
<1>4. /\ DOMAIN results = 1..Len(got)
      /\ \A n \in 1..Len(got) : results[n] = udata(got[n])
  BY <1>3 DEF Answered
<1>5. results = [n \in 1..Len(got) |-> results[n]]
  BY <1>3 DEF Answered
<1> HIDE DEF z, results
<1>6. \A t, u : Free(got, t) /\ (u \in Index /\ Waits(Queues(x), u)) /\ t # u =>
        udata(t) # udata(u)
  BY <1>1 DEF UdataApart
<1>7. \A e : e \in answered <=> \E t : Free(got, t) /\ udata(t) = e
  BY <1>4 DEF ToSet, Free
<1>8. \A e : e \in UdataOf(x) <=>
        \E t \in Index : Waits(Queues(x), t) /\ udata(t) = e
  BY <1>1, UdataOfIs
<1>9. \A e : e \in UdataOf(z) <=>
        \E t \in Index : Waits(Queues(x), t) /\ ~Free(got, t) /\ udata(t) = e
  <2>1. \A e : e \in UdataOf(z) <=>
          \E t \in Index : Waits(Queues(z), t) /\ z.task_list[t].udata = e
    BY <1>2, UdataOfIs
  <2> QED BY <1>2, <2>1
<1> HIDE DEF answered, udata
<1>10. answered = UdataOf(x) \ UdataOf(z)
  <2>1. ASSUME NEW e \in answered
        PROVE  e \in UdataOf(x) /\ e \notin UdataOf(z)
    <3>1. PICK t : Free(got, t) /\ udata(t) = e
      BY <1>7
    <3>2. t \in Index /\ Waits(Queues(x), t)
      BY <1>1, <3>1
    <3>3. \A u \in Index : Waits(Queues(x), u) /\ ~Free(got, u) => udata(u) # e
      BY <1>6, <3>1
    <3> QED BY <1>8, <1>9, <3>1, <3>2, <3>3
  <2>2. ASSUME NEW e \in UdataOf(x), e \notin UdataOf(z)
        PROVE  e \in answered
    <3>1. PICK t \in Index : Waits(Queues(x), t) /\ udata(t) = e
      BY <1>8
    <3>2. Free(got, t)
      BY <1>9, <2>2, <3>1
    <3> QED BY <1>7, <3>1, <3>2
  <2> QED BY <2>1, <2>2
<1>11. UdataOf(z) \subseteq UdataOf(x)
  BY <1>8, <1>9
<1>12. Len(results) = Cardinality(answered)
  <2>1. \A n \in 1..Len(got) : results[n] \in answered
    BY <1>4, <1>7 DEF Free
  <2>2. results \in [1..Len(got) -> answered]
    BY <1>5, <2>1
  <2>3. results \in Seq(answered)
    BY <1>3, <2>2, SeqDef
  <2>4. Len(results) = Len(got)
    BY <1>3, <1>4, <2>3, LenProperties
  <2>5. Once(results)
    <3>1. ASSUME NEW m \in 1..Len(got), NEW n \in 1..Len(got), results[m] = results[n]
          PROVE  m = n
      <4>1. Free(got, got[m]) /\ Free(got, got[n]) /\ udata(got[m]) = udata(got[n])
        BY <1>4, <3>1 DEF Free
      <4>2. got[m] = got[n]
        BY <1>1, <1>6, <4>1
      <4> QED BY <1>1, <4>2 DEF Once
    <3> QED BY <2>4, <3>1 DEF Once
  <2>6. \A e \in answered : Free(results, e)
    BY <1>4, <1>7, <2>4 DEF Free
  <2> QED BY <2>3, <2>5, <2>6, OnceCounts
<1> QED BY <1>10, <1>11, <1>12 DEF answered, results, z

(* A wait answers requests that were waiting, each once, and keeps the     *)
(* others.                                                                 *)
THEOREM AnsweredOnce == Spec => EachAnsweredOnce
<1> DEFINE Step == ret'.op = "wait" /\ xio' # xio =>
                     LET answered == ToSet(ret'.results) IN
                     /\ answered = Queued \ Queued'
                     /\ Len(ret'.results) = Cardinality(answered)
                     /\ Queued' \subseteq Queued
<1>1. IInv /\ [Next]_vars => [Step]_vars
  <2> SUFFICES ASSUME IInv, Next, ret'.op = "wait", xio' # xio
               PROVE  /\ ToSet(ret'.results) = Queued \ Queued'
                      /\ Len(ret'.results) = Cardinality(ToSet(ret'.results))
                      /\ Queued' \subseteq Queued
    OBVIOUS
  <2>1. aborted = "no" /\ Kept(xio, "no")
    BY DEF Next, IInv
  <2>2. ASSUME NEW fd, NEW size, NEW udata, fh_xio_request_recv(fd, udata, size)
        PROVE  FALSE
    <3>1. ASSUME NEW y, NEW failed, GiveUp(y, size, failed)
          PROVE  ret'.op = "recv"
      BY <3>1 DEF GiveUp, Returned
    <3>2. ASSUME NEW y, NEW s, NEW failed, Accept(y, s, udata, size, failed)
          PROVE  ret'.op = "recv"
      BY <3>2 DEF Accept, Returned
    <3>3. PICK a : a = Acquired(size)
      OBVIOUS
    <3>4. PICK s : s = Last(xio.free_fd_state_list)
      OBVIOUS
    <3>5. CASE NoTask \/ NoSlice(size) \/ SetAborts(fd, size)
      BY <3>5 DEF NoTask, NoSlice, SetAborts
    <3>6. CASE NoState(fd, size)
      BY <3>1, <3>3, <3>6 DEF NoState
    <3>7. CASE Register(fd, udata, size)
      BY <3>1, <3>2, <3>3, <3>4, <3>7 DEF Register
    <3>8. PICK r : r = StateOf(fd)
      OBVIOUS
    <3>9. CASE Rearm(fd, udata, size)
      BY <3>1, <3>2, <3>3, <3>8, <3>9 DEF Rearm
    <3>10. CASE Enqueue(fd, udata, size)
      BY <3>2, <3>3, <3>8, <3>10 DEF Enqueue
    <3> QED BY <2>2, <3>5, <3>6, <3>7, <3>9, <3>10 DEF fh_xio_request_recv
  <2>3. ~fh_xio_free
    BY DEF fh_xio_free, Returned
  <2>4. ASSUME NEW fd, CloseFd(fd)
        PROVE  FALSE
    BY <2>4 DEF CloseFd
  <2>5. PICK max \in 1..NTask : fh_xio_wait(max)
    BY <2>2, <2>3, <2>4 DEF Next
  <2>6. PICK got : /\ Answerable(xio, got) /\ xio' = Delivered(xio, got)
                   /\ ret'.results = Answered(xio, got)
    BY <2>1, <2>5, WaitIs
  <2>7. PICK x : x = xio
    OBVIOUS
  <2>8. Kept(x, "no") /\ Answerable(x, got)
    BY <2>1, <2>6, <2>7
  <2>9. /\ ToSet(Answered(x, got)) = UdataOf(x) \ UdataOf(Delivered(x, got))
        /\ Len(Answered(x, got)) = Cardinality(ToSet(Answered(x, got)))
        /\ UdataOf(Delivered(x, got)) \subseteq UdataOf(x)
    BY <2>8, AnsweredFacts
  <2>10. Queued = UdataOf(x) /\ Queued' = UdataOf(Delivered(x, got))
    <3>1. Queued = UdataOf(xio)
      BY DEF Queued, UdataOf
    <3>2. Queued' = UdataOf(xio')
      BY DEF Queued, UdataOf
    <3> QED BY <2>6, <2>7, <3>1, <3>2
  <2>11. ret'.results = Answered(x, got)
    BY <2>6, <2>7
  <2> QED BY <2>9, <2>10, <2>11
<1> QED BY PoolsKept, <1>1, PTL DEF Spec, EachAnsweredOnce

=============================================================================
