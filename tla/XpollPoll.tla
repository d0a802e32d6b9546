----------------------------- MODULE XpollPoll -----------------------------
(***************************************************************************)
(* The generic backend of xpoll (src/event/xpoll.c, FH_PLATFORM_UNKNOWN),  *)
(* on poll(2): an array of struct pollfd with a parallel array of udata,   *)
(* and fd_table, which says at which index a descriptor is.                *)
(*                                                                         *)
(* An event mask and a udata always travel together and are one value      *)
(* here.  Callers may call anything in any order.  A removal leaves the    *)
(* index of the entry it moves stale, and a descriptor may be beyond what  *)
(* one step of growth makes room for: a call that runs into either strays, *)
(* which the history variable strayed records.  After a write outside an   *)
(* array (oob) the program may do anything, and nothing more is said.      *)
(***************************************************************************)
EXTENDS Integers, FiniteSets

CONSTANTS
    Fd,           \* the descriptors of the process
    Regs,         \* for each of them, the event masks (XPOLL_EDGE cleared)
                  \* with a udata that callers register it with
    NULL,         \* what malloc leaves in an entry
    MinCap,       \* smallest capacity of fd_table and pfd_list (16)
    DoubleCap,    \* fd_table doubles below this capacity (1 << 16)
    ShrinkBy      \* what pfd_list is shrunk by (4)

ASSUME FdAssumption == Fd \subseteq Nat /\ IsFiniteSet(Fd)
ASSUME MinCapAssumption == MinCap \in Nat \ {0} /\ DoubleCap \in Nat
ASSUME ShrinkByAssumption == ShrinkBy \in {2, 4}

NONE == -1        \* UINT32_MAX in fd_table
Reg == UNION {Regs[fd] : fd \in Fd}

VARIABLES
    fd_table, fd_table_cap,
    pfd_list, pfd_count, pfd_cap,     \* pfd_list and fd_info_list
    pfd_last_wait_index,
    oob,          \* a call wrote outside an array
    strayed,      \* a call has strayed since xpoll_create: a history
                  \* variable, which no guard reads
    ready,        \* descriptors for which poll has an event
    ret           \* what the last call returned

tables == <<fd_table, fd_table_cap, pfd_list, pfd_count, pfd_cap>>
vars == <<tables, pfd_last_wait_index, oob, strayed, ready, ret>>

Junk == [fd |-> NONE, reg |-> NULL]
Done(op, fd, ok) == [op |-> op, fd |-> fd, ok |-> ok, events |-> {}]

(* xpoll_create: calloc *)
Init ==
    /\ fd_table = [f \in {} |-> NONE] /\ fd_table_cap = 0
    /\ pfd_list = [n \in {} |-> Junk] /\ pfd_count = 0 /\ pfd_cap = 0
    /\ pfd_last_wait_index = 0
    /\ oob = FALSE /\ strayed = FALSE
    /\ ready = {}
    /\ ret = Done("create", 0, TRUE)

-----------------------------------------------------------------------------
(* xpoll_ctl_fd *)

(* The capacity fd_table gets when fd does not fit: one step up, which is  *)
(* enough only for a descriptor just past the end.                         *)
GrownTableCap(fd) ==
    IF fd_table_cap < MinCap THEN MinCap
    ELSE IF fd_table_cap < DoubleCap THEN fd_table_cap * 2
    ELSE fd + 1
TableCapFor(fd) == IF fd >= fd_table_cap THEN GrownTableCap(fd) ELSE fd_table_cap

(* memset of the new part to UINT32_MAX *)
TableWithCap(cap) ==
    [f \in 0..cap - 1 |-> IF f < fd_table_cap THEN fd_table[f] ELSE NONE]

PfdCapForOneMore ==
    IF pfd_count < pfd_cap THEN pfd_cap
    ELSE IF pfd_cap < MinCap THEN MinCap
    ELSE pfd_cap * 2
PfdsWithCap(list, cap) ==
    [n \in 0..cap - 1 |-> IF n < pfd_cap THEN list[n] ELSE Junk]

(* fd has an index in the table, which may be stale. *)
Known(fd) == pfd_count # 0 /\ fd < fd_table_cap /\ fd_table[fd] # NONE
AlreadyThere(fd) == fd < fd_table_cap /\ fd_table[fd] # NONE

(* The calls that stray: a descriptor that fd_table is not long enough for *)
(* once it has grown; an index that is no longer where the entry is.       *)
TooFar(fd) == fd >= TableCapFor(fd)
Stale(fd) == /\ Known(fd)
             /\ ~ \E n \in 0..pfd_count - 1 : n = fd_table[fd] /\ pfd_list[n].fd = fd

Put(list, n, v) == IF n \in DOMAIN list THEN [list EXCEPT ![n] = v] ELSE list

CtlAdd(fd, r) ==
    LET cap == TableCapFor(fd) IN
    /\ ~AlreadyThere(fd)
    /\ fd_table_cap' = cap
    /\ fd_table' = Put(TableWithCap(cap), fd, pfd_count)
    /\ pfd_cap' = PfdCapForOneMore
    /\ pfd_list' = Put(PfdsWithCap(pfd_list, PfdCapForOneMore), pfd_count,
                       [fd |-> fd, reg |-> r])
    /\ pfd_count' = pfd_count + 1
    /\ oob' = (fd >= cap \/ pfd_count >= PfdCapForOneMore)
    /\ strayed' = (strayed \/ TooFar(fd))
    /\ UNCHANGED <<pfd_last_wait_index, ready>>

(* EEXIST; or a realloc fails, maybe after fd_table has grown. *)
CtlAddFails(fd) ==
    /\ \/ /\ AlreadyThere(fd) \/ fd >= fd_table_cap \/ pfd_count >= pfd_cap
          /\ UNCHANGED <<fd_table, fd_table_cap>>
       \/ /\ fd >= fd_table_cap /\ pfd_count >= pfd_cap
          /\ fd_table_cap' = GrownTableCap(fd)
          /\ fd_table' = TableWithCap(GrownTableCap(fd))
    /\ UNCHANGED <<pfd_list, pfd_count, pfd_cap, pfd_last_wait_index, oob,
                   strayed, ready>>

CtlMod(fd, r) ==
    LET idx == fd_table[fd] IN
    /\ Known(fd)
    /\ pfd_list' = IF idx \in DOMAIN pfd_list
                   THEN [pfd_list EXCEPT ![idx].reg = r] ELSE pfd_list
    /\ oob' = (idx \notin DOMAIN pfd_list)
    /\ strayed' = (strayed \/ Stale(fd))
    /\ UNCHANGED <<fd_table, fd_table_cap, pfd_count, pfd_cap,
                   pfd_last_wait_index, ready>>

(* Mutant: the last entry is taken to be the one before the last. *)
FillHole_BeforeLast(idx) ==
    IF pfd_count > 1 THEN Put(pfd_list, idx, pfd_list[pfd_count - 2]) ELSE pfd_list

(* The last entry moves to idx.  fd_table is not told. *)
FillHole(idx) == IF pfd_count > 1
                 THEN Put(pfd_list, idx, pfd_list[pfd_count - 1]) ELSE pfd_list

Forget(fd) == fd_table' = [fd_table EXCEPT ![fd] = NONE]

Shrinks(left) == pfd_cap > MinCap /\ left < pfd_cap \div ShrinkBy

(* Shrinking needs one of the two reallocs to succeed.  What the entries   *)
(* past the last one hold is never read, and is Junk again.                *)
CtlDel(fd) ==
    LET idx == fd_table[fd] IN
    /\ Known(fd)
    /\ Forget(fd)
    /\ pfd_count' = pfd_count - 1
    /\ \/ pfd_cap' = pfd_cap
       \/ Shrinks(pfd_count - 1) /\ pfd_cap' = pfd_cap \div ShrinkBy
    /\ pfd_list' = [n \in 0..pfd_cap' - 1 |->
                     IF n < pfd_count' THEN FillHole(idx)[n] ELSE Junk]
    /\ oob' = (pfd_count > 1 /\ idx \notin DOMAIN pfd_list)
    /\ strayed' = (strayed \/ Stale(fd))
    /\ UNCHANGED <<fd_table_cap, pfd_last_wait_index, ready>>

Untouched == UNCHANGED <<tables, pfd_last_wait_index, oob, strayed, ready>>

-----------------------------------------------------------------------------
(* The calls *)

xpoll_add_fd(fd, r) ==
    /\ ~oob
    /\ \/ CtlAdd(fd, r) /\ ret' = Done("add", fd, TRUE)
       \/ CtlAddFails(fd) /\ ret' = Done("add", fd, FALSE)

xpoll_modify_fd(fd, r) ==
    /\ ~oob
    /\ \/ CtlMod(fd, r) /\ ret' = Done("modify", fd, TRUE)
       \/ ~Known(fd) /\ Untouched /\ ret' = Done("modify", fd, FALSE)

xpoll_remove_fd(fd) ==
    /\ ~oob
    /\ \/ CtlDel(fd) /\ ret' = Done("remove", fd, TRUE)
       \/ ~Known(fd) /\ Untouched /\ ret' = Done("remove", fd, FALSE)

xpoll_add_or_modify_fd(fd, r) ==
    /\ ~oob
    /\ \/ CtlMod(fd, r) /\ ret' = Done("add_or_modify", fd, TRUE)
       \/ /\ ~Known(fd)
          /\ \/ CtlAdd(fd, r) /\ ret' = Done("add_or_modify", fd, TRUE)
             \/ CtlAddFails(fd) /\ ret' = Done("add_or_modify", fd, FALSE)

(* xpoll_close frees the three arrays; the process goes on with an xpoll   *)
(* from xpoll_create.                                                      *)
xpoll_close ==
    /\ ~oob
    /\ fd_table' = [f \in {} |-> NONE] /\ fd_table_cap' = 0
    /\ pfd_list' = [n \in {} |-> Junk] /\ pfd_count' = 0 /\ pfd_cap' = 0
    /\ pfd_last_wait_index' = 0
    /\ ret' = Done("create", 0, TRUE)
    /\ strayed' = FALSE
    /\ UNCHANGED <<oob, ready>>

-----------------------------------------------------------------------------
(* xpoll_wait *)

begin == pfd_last_wait_index % pfd_count

(* The loop visits begin, ..., the end, then 0, ..., begin - 1. *)
Visited(p) == (begin + p) % pfd_count
HasEvent(n) == pfd_list[n].fd \in ready
HitsUpTo(p) == {q \in 0..p : HasEvent(Visited(q))}

(* Mutant: the loop always starts at the first entry. *)
NextBegin_Zero(p) == 0

(* The index after the last visited one. *)
NextBegin(p) == IF Visited(p) + 1 >= pfd_count THEN 0 ELSE Visited(p) + 1

(* Mutant: the loop ends at the end of the array. *)
StopsAt_NoRotation(p, max) ==
    \/ Cardinality(HitsUpTo(p)) = max /\ HasEvent(Visited(p))
    \/ Visited(p) = pfd_count - 1 /\ Cardinality(HitsUpTo(p)) < max

(* The visit after which the loop ends: the batch is full, or all were     *)
(* visited.                                                                *)
StopsAt(p, max) ==
    \/ Cardinality(HitsUpTo(p)) = max /\ HasEvent(Visited(p))
    \/ p = pfd_count - 1 /\ Cardinality(HitsUpTo(p)) < max

Report(p) == {<<pfd_list[Visited(q)].fd, pfd_list[Visited(q)].reg>> :
                q \in HitsUpTo(p)}

xpoll_wait(max) ==
    /\ ~oob
    /\ UNCHANGED <<tables, oob, strayed, ready>>
    /\ \/ /\ pfd_count = 0
          /\ ret' = Done("wait", 0, TRUE)
          /\ UNCHANGED pfd_last_wait_index
       \/ \E p \in 0..pfd_count - 1 :
            /\ StopsAt(p, max)
            /\ ret' = [Done("wait", 0, TRUE) EXCEPT !.events = Report(p)]
            /\ pfd_last_wait_index' = NextBegin(p)

(* max_events is zero, or poll fails. *)
xpoll_wait_fails ==
    /\ ~oob
    /\ ret' = Done("wait", 0, FALSE)
    /\ UNCHANGED <<tables, pfd_last_wait_index, oob, strayed, ready>>

(* Descriptors become ready and stop being so at any time. *)
Environment ==
    /\ \E fd \in Fd : ready' \in {ready \cup {fd}, ready \ {fd}}
    /\ UNCHANGED <<tables, pfd_last_wait_index, oob, strayed, ret>>

Next ==
    \/ \E fd \in Fd : \/ xpoll_remove_fd(fd)
                     \/ \E r \in Regs[fd] : \/ xpoll_add_fd(fd, r)
                                           \/ xpoll_modify_fd(fd, r)
                                           \/ xpoll_add_or_modify_fd(fd, r)
    \/ \E max \in 1..Cardinality(Fd) : xpoll_wait(max)
    \/ xpoll_wait_fails
    \/ xpoll_close
    \/ Environment

Spec == Init /\ [][Next]_vars

(* The event loop keeps calling xpoll_wait. *)
FairSpec == Spec /\ WF_vars(\E max \in 1..Cardinality(Fd) : xpoll_wait(max))

-----------------------------------------------------------------------------
(* Properties *)

Pfd == [fd : Fd \cup {NONE}, reg : Reg \cup {NULL}]

(* Every field holds a value of its C type, and the arrays have their      *)
(* allocated lengths.                                                      *)
TypeOK ==
    /\ fd_table_cap \in Nat
    /\ fd_table \in [0..fd_table_cap - 1 -> Int]
    /\ pfd_cap \in Nat
    /\ pfd_list \in [0..pfd_cap - 1 -> Pfd]
    /\ pfd_count \in 0..pfd_cap
    /\ pfd_last_wait_index \in Nat
    /\ oob \in BOOLEAN /\ strayed \in BOOLEAN
    /\ ready \subseteq Fd

InUse == 0..pfd_count - 1
KnownFds == {f \in 0..fd_table_cap - 1 : fd_table[f] # NONE}
Polled == {pfd_list[n].fd : n \in InUse}

(* pfd_count is the number of descriptors that fd_table knows, whatever    *)
(* was called: removing all of them, from the front or the back, always    *)
(* ends with none (tests/event/test_xpoll_scale.c:192, "Mass removal").    *)
CountExact == pfd_count = Cardinality(KnownFds)

(* The descriptors that poll is called with, once each, are those that     *)
(* fd_table knows.  Their indices are right, or too large where a removal  *)
(* has moved an entry into a hole before it and did not tell fd_table.     *)
EntriesExact ==
    /\ Polled = KnownFds
    /\ \A m, n \in InUse : pfd_list[m].fd = pfd_list[n].fd => m = n
    /\ \A n \in InUse : fd_table[pfd_list[n].fd] >= n

(* "The registry has to grow and shrink correctly" (test_xpoll_scale.c:1)  *)
(* for any additions, modifications and removals in any order, up to the   *)
(* first call that strays: what is polled is what is known, and no call    *)
(* writes outside its arrays, which grow and shrink underneath.  With the  *)
(* first stale index that is used the entries are lost to the callers      *)
(* (RemoveLeavesRest), and only the count stays exact.                     *)
RegistryExact ==
    /\ TypeOK
    /\ ~oob => CountExact
    /\ ~strayed => ~oob /\ EntriesExact

(* Removals have cut the array below the cursor, so that the next wait     *)
(* begins neither where the last one ended nor at the start.               *)
CursorCut == pfd_count > 0 /\ pfd_last_wait_index > pfd_count /\ begin # 0

(* A descriptor that stays polled and ready is reported, however small the *)
(* batches are and whatever is registered or removed in between; except    *)
(* that with five descriptors or more a caller can cut the array below the *)
(* cursor again and again, and so steer every wait past an entry.          *)
NoStarvation ==
    \A fd \in Fd :
      LET waits == fd \in ready /\ fd \in Polled
      IN waits ~> \/ ~waits \/ oob \/ CursorCut
                  \/ \E e \in ret.events : e[1] = fd

(* The registrations that poll is called with. *)
Interest == {<<pfd_list[n].fd, pfd_list[n].reg>> : n \in InUse}

(* tests/event/test_xpoll_multi.c:122: "Removing fds one at a time leaves  *)
(* the rest registered."                                                   *)
RemoveLeavesRest ==
    [][\A f \in Fd : xpoll_remove_fd(f) /\ ret'.ok =>
         Interest' = {p \in Interest : p[1] # f}]_vars

R == INSTANCE Registry WITH interest <- Interest

(* The backend does to the registrations, and reports, what xpoll          *)
(* promises, for any callers and up to the first call that strays.         *)
RefinesRegistry == R!Init /\ [][strayed' \/ R!Next]_(R!vars)
=============================================================================
