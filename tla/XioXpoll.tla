------------------------------ MODULE XioXpoll ------------------------------
(***************************************************************************)
(* fh_xio on top of xpoll (src/event/xio_xpoll.c): three pools of indices  *)
(* (tasks, descriptor states, buffers cut into slices), a table from       *)
(* descriptors to their states, and in each state the list of the tasks    *)
(* that wait for the descriptor.  xpoll is what Registry promises; a       *)
(* registration's udata is the number of a descriptor state.               *)
(*                                                                         *)
(* fh_xio_request_recv is the only request this backend has, so every task *)
(* waits for input (XIO_PREP_IN): task_out_head is always NULL.  The       *)
(* events of a state are XPOLL_READ (armed) and three that never change.   *)
(* A failing assert aborts the process.                                    *)
(***************************************************************************)
EXTENDS Integers, FiniteSets, SequencesExt

CONSTANTS
    Fd, Udata,        \* descriptors; the udata that callers give requests
    NULL,
    NTask,            \* XIO_XPOLL_MAX_TASK_COUNT: of tasks, and of states
    NBuf, BufSize,    \* XIO_BUF_COUNT, XIO_BUF_SIZE
    Sizes             \* sizes of the requests for which xio has to buffer

ASSUME PoolAssumption == {NTask, NBuf, BufSize} \subseteq Nat \ {0}
ASSUME SizeAssumption == Sizes \subseteq 1..BufSize

OWN == 0              \* as a size: the caller brings the buffer

Index == 0..NTask - 1
Buf == 0..NBuf - 1

ASSUME NullAssumption == NULL \notin [bid : Buf, from : Nat, to : Nat]

VARIABLES
    xio,                     \* struct fh_xio, and two ghosts: stranded (an entry
                             \* of fd_state_table could not be deleted) and
                             \* answered (slices whose request was answered)
    interest, xret,          \* xpoll, as in Registry
    aborted,                 \* the assert that failed, or "no"
    ret                      \* what the last call returned

xpoll == <<interest, xret>>
vars == <<xio, xpoll, aborted, ret>>

(* Every descriptor may have an event at any time; fh_xio_wait looks only  *)
(* for errors among the events, and any of them may be one.                *)
R == INSTANCE Registry WITH Reg <- Index, ready <- Fd, ret <- xret

(* What the fields of a task on the free list hold is never read. *)
Unused == [udata |-> NULL, bytes |-> NULL]

Returned(op, ok, failed, results) ==
    [op |-> op, ok |-> ok, failed |-> failed, results |-> results]

(* fh_xio_create and fh_xio_slices_alloc *)
Fresh ==
    [free_task_list |-> [n \in 1..NTask |-> n - 1],
     free_fd_state_list |-> [n \in 1..NTask |-> n - 1],
     free_buf_list |-> [n \in 1..NBuf |-> n - 1],
     task_list |-> [t \in Index |-> Unused],
     fd_state_list |-> [s \in Index |-> [fd |-> NULL, armed |-> FALSE,
                                         task_in |-> <<>>]],
     buf_list |-> [b \in Buf |-> [off |-> 0, refs |-> 0]],
     fd_state_table |-> [f \in {} |-> NULL],
     stranded |-> FALSE,
     answered |-> [b \in Buf |-> 0]]

Init ==
    /\ xio = Fresh
    /\ interest = {} /\ xret = R!Done("create", 0, TRUE)
    /\ aborted = "no"
    /\ ret = Returned("create", TRUE, "nothing", <<>>)

-----------------------------------------------------------------------------
(* Slices *)

(* Where in free_buf_list the scan from the top stops. *)
Fits(x, size) ==
    {p \in DOMAIN x.free_buf_list :
       x.buf_list[x.free_buf_list[p]].off + size <= BufSize}
PickPos(x, size) == Max(Fits(x, size))
Picked(x, size) == x.free_buf_list[PickPos(x, size)]

(* Mutant: the offset of the buffer stays where it was. *)
fh_xio_acquire_slice_KeepsOff(x, size) ==
    [x EXCEPT !.buf_list[Picked(x, size)].refs = @ + 1]

(* A buffer leaves the list, and the top takes its place, when it is full. *)
fh_xio_acquire_slice(x, size) ==
    LET b == Picked(x, size)
        y == [x EXCEPT !.buf_list[b] = [off |-> @.off + size,
                                        refs |-> @.refs + 1]]
    IN IF y.buf_list[b].off < BufSize THEN y
       ELSE [y EXCEPT !.free_buf_list =
               Front(ReplaceAt(@, PickPos(x, size), Last(@)))]

(* A buffer without slices starts over and is pushed on the list. *)
fh_xio_release_slice(x, b) ==
    LET y == [x EXCEPT !.buf_list[b].refs = @ - 1] IN
    IF y.buf_list[b].refs > 0 THEN y
    ELSE [y EXCEPT !.buf_list[b].off = 0, !.free_buf_list = Append(@, b)]

(* The part of the buffer that a request gets. *)
Bytes(x, size) ==
    IF size = OWN THEN NULL
    ELSE LET b == Picked(x, size)
         IN [bid |-> b, from |-> x.buf_list[b].off,
             to |-> x.buf_list[b].off + size]

-----------------------------------------------------------------------------
(* fh_xio_request_prep_with_size *)

Acquired(size) == IF size = OWN THEN xio ELSE fh_xio_acquire_slice(xio, size)

HasTask == xio.free_task_list # <<>>
HasSlice(size) == size = OWN \/ Fits(xio, size) # {}
HasState == xio.free_fd_state_list # <<>>
Known(fd) == fd \in DOMAIN xio.fd_state_table
StateOf(fd) == xio.fd_state_table[fd]

NoTask ==
    /\ ~HasTask
    /\ ret' = Returned("recv", FALSE, "task", <<>>)
    /\ UNCHANGED <<xio, xpoll, aborted>>

NoSlice(size) ==
    /\ HasTask /\ ~HasSlice(size)
    /\ ret' = Returned("recv", FALSE, "slice", <<>>)
    /\ UNCHANGED <<xio, xpoll, aborted>>

(* Mutant: the task goes back to the pool, the slice does not. *)
GiveUp_KeepsSlice(x, size, failed) ==
    /\ ret' = Returned("recv", FALSE, failed, <<>>)
    /\ xio' = x
    /\ UNCHANGED aborted

(* The task goes back to the pool, then the slice: x is xio with the slice *)
(* acquired and everything else as the request leaves it.                  *)
GiveUp(x, size, failed) ==
    /\ ret' = Returned("recv", FALSE, failed, <<>>)
    /\ \/ size = OWN /\ xio' = x /\ UNCHANGED aborted
       \/ /\ size # OWN /\ Len(x.free_buf_list) < NBuf
          /\ xio' = fh_xio_release_slice(x, Picked(xio, size))
          /\ UNCHANGED aborted
       \/ /\ size # OWN /\ Len(x.free_buf_list) >= NBuf
          /\ xio' = x
          /\ aborted' = "free_buf_list_top < XIO_BUF_COUNT"

NoState(fd, size) ==
    /\ HasTask /\ HasSlice(size) /\ ~Known(fd) /\ ~HasState
    /\ GiveUp(Acquired(size), size, "state")
    /\ UNCHANGED xpoll

(* The task is first on the list of state s from now on. *)
Accept(x, s, udata, size, failed) ==
    LET t == Last(x.free_task_list) IN
    /\ xio' = [x EXCEPT
         !.free_task_list = Front(@),
         !.task_list[t] = [udata |-> udata, bytes |-> Bytes(xio, size)],
         !.fd_state_list[s].armed = TRUE,
         !.fd_state_list[s].task_in = <<t>> \o @]
    /\ ret' = Returned("recv", TRUE, failed, <<>>)
    /\ UNCHANGED aborted

(* assert (int_htable_set (...)): out of memory. *)
SetAborts(fd, size) ==
    /\ HasTask /\ HasSlice(size) /\ ~Known(fd) /\ HasState
    /\ aborted' = "int_htable_set"
    /\ UNCHANGED <<xio, xpoll, ret>>

NewState(fd) == [fd |-> fd, armed |-> FALSE, task_in |-> <<>>]
Table(x, fd, s) ==
    [f \in DOMAIN x.fd_state_table \cup {fd} |->
       IF f = fd THEN s ELSE x.fd_state_table[f]]

(* Mutant: a request that goes on does not take its state from the pool. *)
TakeState_Peeks(x, fd) ==
    LET s == Last(x.free_fd_state_list)
    IN [x EXCEPT !.fd_state_list[s] = NewState(fd),
                 !.fd_state_table = Table(x, fd, s)]

(* The state that a request for an unknown descriptor goes on with. *)
TakeState(x, fd) ==
    LET s == Last(x.free_fd_state_list)
    IN [x EXCEPT !.free_fd_state_list = Front(@),
                 !.fd_state_list[s] = NewState(fd),
                 !.fd_state_table = Table(x, fd, s)]

(* A descriptor xio has no state for.  The result of xpoll_add_fd is TRUE  *)
(* when it succeeds; the code takes it for an error number.  On that       *)
(* "error" the state goes back to the pool and its entry in the table is   *)
(* deleted, unless the deletion runs out of memory.                        *)
Register(fd, udata, size) ==
    LET s == Last(xio.free_fd_state_list)
        x == Acquired(size)
    IN /\ HasTask /\ HasSlice(size) /\ ~Known(fd) /\ HasState
       /\ \/ /\ R!Add(fd, s)
             /\ \E y \in {[x EXCEPT !.fd_state_list[s] = NewState(fd)],
                          [x EXCEPT !.fd_state_list[s] = NewState(fd),
                                    !.fd_state_table = Table(x, fd, s),
                                    !.stranded = TRUE]} :
                  GiveUp(y, size, "nothing")
          \/ /\ R!AddFails(fd)
             /\ Accept(TakeState(x, fd), s, udata, size, "xpoll")

(* A state whose deletion from the table failed is there, but not armed. *)
Rearm(fd, udata, size) ==
    /\ HasTask /\ HasSlice(size) /\ Known(fd)
    /\ ~xio.fd_state_list[StateOf(fd)].armed
    /\ \/ /\ R!Modify(fd, StateOf(fd))
          /\ GiveUp(Acquired(size), size, "nothing")
       \/ /\ R!NotThere("modify", fd)
          /\ Accept(Acquired(size), StateOf(fd), udata, size, "xpoll")

(* The descriptor is known and armed: xpoll is not called. *)
Enqueue(fd, udata, size) ==
    /\ HasTask /\ HasSlice(size) /\ Known(fd)
    /\ xio.fd_state_list[StateOf(fd)].armed
    /\ Accept(Acquired(size), StateOf(fd), udata, size, "nothing")
    /\ UNCHANGED xpoll

fh_xio_request_recv(fd, udata, size) ==
    \/ NoTask \/ NoSlice(size) \/ NoState(fd, size) \/ SetAborts(fd, size)
    \/ Register(fd, udata, size)
    \/ Rearm(fd, udata, size)
    \/ Enqueue(fd, udata, size)

-----------------------------------------------------------------------------
(* fh_xio_wait *)

(* Mutant: the tasks stay on the lists. *)
Pop_Keeps(x, got) == x

(* Mutant: the list of a state is emptied when one of its tasks is answered. *)
Pop_Clears(x, got) ==
    [x EXCEPT !.fd_state_list =
       [s \in Index |-> [x.fd_state_list[s] EXCEPT !.task_in =
          IF \E t \in ToSet(got) : t \in ToSet(@) THEN <<>> ELSE @]]]

(* Every state's task_in_head moves on, past the tasks that were answered. *)
Popped(queue, got) ==
    LET taken == {i \in DOMAIN queue : queue[i] \in ToSet(got)}
    IN SubSeq(queue, Cardinality(taken) + 1, Len(queue))
Pop(x, got) ==
    [x EXCEPT !.fd_state_list =
       [s \in Index |-> [x.fd_state_list[s] EXCEPT !.task_in = Popped(@, got)]]]

(* Those of some tasks that have a slice of buffer b. *)
Holders(x, tasks, b) ==
    {t \in tasks : x.task_list[t].bytes # NULL /\ x.task_list[t].bytes.bid = b}

(* Results are added until the caller's array is full. *)
Answers(waiting, max) ==
    SubSeq(waiting, 1, IF Len(waiting) < max THEN Len(waiting) ELSE max)

(* The error events, in the order in which xpoll reported them, name these *)
(* states: each one's tasks are answered, last request first, and go back  *)
(* to the pool.  Their slices do not.                                      *)
Deliver(states, max) ==
    LET waiting == FlattenSeq([n \in DOMAIN states |->
                                 xio.fd_state_list[states[n]].task_in])
        got == Answers(waiting, max)
    IN /\ xio' = [Pop(xio, got) EXCEPT
                    !.free_task_list = @ \o got,
                    !.task_list = [t \in Index |->
                       IF t \in ToSet(got) THEN Unused ELSE xio.task_list[t]],
                    !.answered = [b \in Buf |->
                       @[b] + Cardinality(Holders(xio, ToSet(got), b))]]
       /\ aborted' = IF Len(xio.free_task_list) + Len(got) <= NTask THEN aborted
                     ELSE "free_task_list_top < XIO_XPOLL_MAX_TASK_COUNT"
       /\ ret' = Returned("wait", TRUE, "nothing",
                          [n \in DOMAIN got |-> xio.task_list[got[n]].udata])

(* Any of the reported events may have XPOLL_ERROR in its mask. *)
fh_xio_wait(max) ==
    \/ /\ R!Wait(max)
       /\ \E errors \in SUBSET xret'.events :
            \E states \in SetToSeqs({e[2] : e \in errors}) : Deliver(states, max)
    \/ /\ ret' = Returned("wait", FALSE, "xpoll", <<>>)
       /\ UNCHANGED <<xio, xpoll, aborted>>

-----------------------------------------------------------------------------
(* fh_xio_free; the process goes on with what fh_xio_create returns. *)
fh_xio_free ==
    /\ xio' = Fresh
    /\ R!Close
    /\ ret' = Returned("create", TRUE, "nothing", <<>>)
    /\ UNCHANGED aborted

(* Closing a descriptor takes it out of the interest set; its number will  *)
(* be used again.  xio is not told.                                        *)
CloseFd(fd) ==
    /\ interest' = interest \ R!Registered(fd)
    /\ UNCHANGED <<xio, xret, aborted, ret>>

(* The udata of the tasks on the lists. *)
Queued == {xio.task_list[t].udata :
             t \in UNION {ToSet(xio.fd_state_list[s].task_in) : s \in Index}}

Next ==
    /\ aborted = "no"
    /\ \/ \E fd \in Fd, size \in Sizes \cup {OWN} :
            \E udata \in Udata \ Queued : fh_xio_request_recv(fd, udata, size)
       \/ \E max \in 1..NTask : fh_xio_wait(max)
       \/ fh_xio_free
       \/ \E fd \in Fd : CloseFd(fd)

Spec == Init /\ [][Next]_vars

-----------------------------------------------------------------------------
(* Properties *)

(* Every field holds a value of its C type, and no stack is above its      *)
(* array's end, even after an entry was stranded.                          *)
TypeOK ==
    /\ xio.free_task_list \in Seq(Index) /\ Len(xio.free_task_list) <= NTask
    /\ xio.free_fd_state_list \in Seq(Index)
    /\ Len(xio.free_fd_state_list) <= NTask
    /\ xio.free_buf_list \in Seq(Buf) /\ Len(xio.free_buf_list) <= NBuf
    /\ \A b \in Buf : /\ xio.buf_list[b].off \in 0..BufSize
                      /\ xio.buf_list[b].refs \in Nat
    /\ \A s \in Index : xio.fd_state_list[s].task_in \in Seq(Index)
    /\ \A f \in DOMAIN xio.fd_state_table : xio.fd_state_table[f] \in Index

OnLists == FlattenSeq([n \in 1..NTask |-> xio.fd_state_list[n - 1].task_in])

(* Through requests that fail half-way and waits whose result array is     *)
(* full, every task is in exactly one place: on the free list once, or     *)
(* once on the list of one descriptor.                                     *)
TasksAccounted ==
    /\ TypeOK
    /\ aborted = "no" /\ ~xio.stranded =>
         LET all == xio.free_task_list \o OnLists
         IN ToSet(all) = Index /\ Len(all) = NTask

(* A descriptor state is free or belongs to one descriptor, the one that   *)
(* fd_state_table has it under; only then it has tasks.                    *)
StatesAccounted ==
    aborted = "no" /\ ~xio.stranded =>
      LET used == {StateOf(f) : f \in DOMAIN xio.fd_state_table} IN
      /\ IsInjective(xio.fd_state_table)
      /\ IsInjective(xio.free_fd_state_list)
      /\ ToSet(xio.free_fd_state_list) = Index \ used
      /\ \A f \in DOMAIN xio.fd_state_table :
           xio.fd_state_list[StateOf(f)].fd = f
      /\ \A s \in Index \ used : xio.fd_state_list[s].task_in = <<>>

Pending == {t \in ToSet(OnLists) : xio.task_list[t].bytes # NULL}

(* Two waiting requests never share a byte of a buffer, however slices     *)
(* were cut and given back in between.                                     *)
SlicesDisjoint ==
    aborted = "no" =>
      \A t, u \in Pending : t # u =>
        LET a == xio.task_list[t].bytes
            b == xio.task_list[u].bytes
        IN a.bid = b.bid => a.to <= b.from \/ b.to <= a.from

(* A buffer is referred to by its slices, each once: those of the requests *)
(* that wait and those of the requests that were answered, and none of a   *)
(* request that was given up.  It is on the list unless it is full and has *)
(* such slices.  Nothing gives back the slices of answered requests: a     *)
(* full buffer whose requests were answered is never used again.           *)
SlicesCounted ==
    aborted = "no" =>
      \A b \in Buf :
        /\ ~xio.stranded =>
             xio.buf_list[b].refs
               = Cardinality(Holders(xio, ToSet(OnLists), b)) + xio.answered[b]
        /\ \/ b \in ToSet(xio.free_buf_list)
           \/ xio.buf_list[b].off = BufSize /\ xio.buf_list[b].refs > 0

(* A wait answers requests that were waiting, each once, and keeps the     *)
(* others: none is dropped when the result array is full.                  *)
EachAnsweredOnce ==
    [][ret'.op = "wait" /\ xio' # xio =>
         LET answered == ToSet(ret'.results) IN
         /\ answered = Queued \ Queued'
         /\ Len(ret'.results) = Cardinality(answered)
         /\ Queued' \subseteq Queued]_vars
=============================================================================
