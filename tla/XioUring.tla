------------------------------ MODULE XioUring ------------------------------
(***************************************************************************)
(* The io_uring backend of XIO (src/event/xio_uring.c): requests that take *)
(* their memory from a ring of provided buffers, the reference counts that *)
(* say when a buffer may go back to that ring, the free list of request    *)
(* records, and the teardown that drains the ring.                         *)
(*                                                                         *)
(* One thread calls XIO; the kernel, which XIO reaches through liburing,   *)
(* runs beside it.  The kernel is external: it fills the buffers of the    *)
(* ring in order and incrementally (IOU_PBUF_RING_INC), as the code        *)
(* expects.  No request here is multishot, so no completion has            *)
(* IORING_CQE_F_MORE set.                                                  *)
(***************************************************************************)
EXTENDS Integers, Sequences, FiniteSets, SequencesExt

CONSTANTS
    DataId,          \* addresses malloc can give to a struct fh_xio_data
    Udata,           \* what callers pass as udata
    XIO, NULL,       \* the user data of drain's nop and of its cancel
    Op,              \* the operations callers request
    Size,            \* the sizes they ask for
    Bid,             \* 0..XIO_RING_BUF_COUNT - 1
    BufSize,         \* XIO_RING_BUF_SIZE
    SqEntries,       \* XIO_RING_ENTRIES
    MaxFree,         \* XIO_MAX_DATA_FREELIST_COUNT
    MaxResults,      \* the largest max_results that callers pass
    InOrder          \* requests complete in the order they took bytes

ASSUME SizeAssumption == Size \subseteq Nat \ {0}
ASSUME BufAssumption ==
    /\ IsFiniteSet(Bid) /\ Bid = 0..Cardinality(Bid) - 1
    /\ BufSize \in Nat \ {0}
ASSUME LimitAssumption == SqEntries \in Nat \ {0} /\ MaxFree \in Nat
                           /\ MaxResults \in Nat \ {0}
ASSUME OpAssumption == Op \subseteq {"READ", "WRITE", "RECV", "SEND", "ACCEPT"}
ASSUME OrderAssumption == InOrder \in BOOLEAN
ASSUME SentinelAssumption == XIO \notin DataId /\ NULL \notin DataId
                              /\ XIO # NULL

VARIABLES
    heap,            \* the fh_xio_data that malloc gave out
    record,          \* what each of them says: op, udata, size
    data_list,       \* the free list, tail last
    buf_offsets, buf_refcount,
    buf_done,        \* XIO_RING_BUF_FLAG_DONE of buf_refcount
    buf_freed,       \* xio->buf was given to free()
    sq,              \* entries prepared and not submitted
    inflight,        \* requests the kernel holds
    picked,          \* those that have taken buffer bytes already, in order
    cq,              \* completions not reaped
    buf_ring,        \* the provided buffers: <<bid, bytes used>>, head first
    results,         \* results that callers hold
    budget,          \* results that fh_xio_wait may still return
    staged,          \* bids written to the ring beyond its tail
    drained,         \* fh_xio_drain returned true
    pc               \* "idle", "wait", "free", "drain", "teardown", "freed"

pool == <<heap, record, data_list>>
bufs == <<buf_offsets, buf_refcount, buf_done>>
kernel == <<inflight, picked, buf_ring>>
vars == <<pool, bufs, buf_freed, sq, kernel, cq, results, budget, staged,
          drained, pc>>

(* fh_xio_create *)
Init ==
    /\ heap = {} /\ data_list = <<>>
    /\ record = [d \in DataId |-> [op |-> "READ", udata |-> NULL, size |-> 0]]
    /\ buf_offsets = [b \in Bid |-> 0]
    /\ buf_refcount = [b \in Bid |-> 0]
    /\ buf_done = [b \in Bid |-> FALSE]
    /\ buf_freed = FALSE
    /\ sq = <<>> /\ inflight = {} /\ picked = <<>> /\ cq = <<>>
    /\ buf_ring = [n \in 1..Cardinality(Bid) |-> <<n - 1, 0>>]
    /\ results = {} /\ budget = 0 /\ staged = <<>>
    /\ drained = FALSE
    /\ pc = "idle"

-----------------------------------------------------------------------------
(* The kernel: external *)

(* The file a READ or WRITE is for does not block: its buffer bytes are    *)
(* taken when the request starts, by the size it asks for.  A socket's are *)
(* taken when the data is there, by the size that arrived.                 *)
OnFile(op) == op \in {"READ", "WRITE"}

Lesser(a, b) == IF a < b THEN a ELSE b

(* Taking n bytes of the buffer at the head of the ring; a buffer that is  *)
(* used up leaves the ring, and the completion says so (no F_BUF_MORE).    *)
BufMore(n) == buf_ring[1][2] + n < BufSize
Take(n) ==
    buf_ring' = IF BufMore(n)
                THEN <<<<buf_ring[1][1], buf_ring[1][2] + n>>>> \o Tail(buf_ring)
                ELSE Tail(buf_ring)
Room == BufSize - buf_ring[1][2]

Cqe(q, res) == [data |-> q.data, for |-> q.for, res |-> res, has_buf |-> FALSE,
                bid |-> 0, at |-> 0, len |-> 0, buf_more |-> FALSE]
BufCqe(q, res, bid, at, len, more) ==
    [Cqe(q, res) EXCEPT !.has_buf = TRUE, !.bid = bid, !.at = at,
                        !.len = len, !.buf_more = more]

IsPicked(q) == \E n \in DOMAIN picked : picked[n].q = q

KernelPick(q) ==
    LET n == Lesser(q.size, Room) IN
    /\ q \in inflight /\ ~IsPicked(q)
    /\ q.select /\ OnFile(q.op) /\ buf_ring # <<>>
    /\ Take(n)
    /\ picked' = Append(picked, [q |-> q, bid |-> buf_ring[1][1],
                                 at |-> buf_ring[1][2], len |-> n,
                                 buf_more |-> BufMore(n)])
    /\ UNCHANGED <<pool, bufs, buf_freed, sq, inflight, cq, results, budget,
                   staged, drained, pc>>

KernelDoneFile(n) ==
    LET p == picked[n] IN
    /\ InOrder => n = 1
    /\ \E res \in 0..p.len :
         cq' = Append(cq, BufCqe(p.q, res, p.bid, p.at, p.len, p.buf_more))
    /\ picked' = RemoveAt(picked, n)
    /\ inflight' = inflight \ {p.q}
    /\ UNCHANGED <<pool, bufs, buf_freed, sq, buf_ring, results, budget,
                   staged, drained, pc>>

KernelDoneSocket(q) ==
    /\ q \in inflight /\ q.select /\ ~OnFile(q.op) /\ buf_ring # <<>>
    /\ InOrder => picked = <<>>
    /\ \E n \in 0..Lesser(q.size, Room) :      \* 0: the peer has closed
         /\ Take(n)
         /\ cq' = Append(cq, BufCqe(q, n, buf_ring[1][1], buf_ring[1][2], n,
                                    BufMore(n)))
    /\ inflight' = inflight \ {q}
    /\ UNCHANGED <<pool, bufs, buf_freed, sq, picked, results, budget, staged,
                   drained, pc>>

(* A completion without a provided buffer: the caller's own buffer was     *)
(* used, or the request failed (no buffer left, cancelled, I/O error).     *)
KernelDoneNoBuf(q) ==
    /\ q \in inflight /\ ~IsPicked(q)
    /\ \E res \in IF q.select THEN {-1} ELSE -1..q.size :
         cq' = Append(cq, Cqe(q, res))
    /\ inflight' = inflight \ {q}
    /\ UNCHANGED <<pool, bufs, buf_freed, sq, picked, buf_ring, results,
                   budget, staged, drained, pc>>

(* drain's nop has IOSQE_IO_DRAIN: it completes after everything else. *)
KernelDrained ==
    /\ pc = "drain" /\ inflight = {}
    /\ ~\E n \in DOMAIN cq : cq[n].data = XIO
    /\ cq' = Append(cq, Cqe([data |-> XIO, for |-> NULL], 0))
    /\ UNCHANGED <<pool, bufs, buf_freed, sq, kernel, results, budget, staged,
                   drained, pc>>

Kernel ==
    \/ \E q \in inflight : KernelPick(q) \/ KernelDoneSocket(q)
                           \/ KernelDoneNoBuf(q)
    \/ \E n \in DOMAIN picked : KernelDoneFile(n)
    \/ KernelDrained

-----------------------------------------------------------------------------
(* The free list of request records *)

(* Mutant: the record stays on the list. *)
DataGets_Peeks ==
    IF data_list # <<>> THEN {<<Last(data_list), heap, data_list>>}
    ELSE {<<d, heap \cup {d}, <<>>>> : d \in DataId \ heap}

(* fh_xio_data_get: the record, and the heap and free list without it.     *)
(* With an empty list and no memory there is none (-ENOMEM).               *)
DataGets ==
    IF data_list # <<>>
    THEN {<<Last(data_list), heap, Front(data_list)>>}
    ELSE {<<d, heap \cup {d}, <<>>>> : d \in DataId \ heap}

(* Mutant: the record is freed and put on the list. *)
Disown_FreesListed(d, hp, list) ==
    /\ heap' = hp \ {d}
    /\ data_list' = IF Len(list) >= MaxFree THEN list ELSE Append(list, d)

(* fh_xio_data_disown *)
Disown(d, hp, list) ==
    IF Len(list) >= MaxFree
    THEN heap' = hp \ {d} /\ data_list' = list
    ELSE heap' = hp /\ data_list' = Append(list, d)

-----------------------------------------------------------------------------
(* Requests *)

(* Who waits for an answer.  Callers do not pass a udata again before they *)
(* have freed the result of its last request.                              *)
Waiting(u) ==
    \/ \E n \in DOMAIN sq : sq[n].for = u
    \/ \E q \in inflight : q.for = u
    \/ \E n \in DOMAIN cq : cq[n].for = u
Free(u) == ~Waiting(u) /\ \A r \in results : r.for # u

(* Mutant: nothing is handed to the kernel. *)
SubmitAll_Forgets == UNCHANGED <<sq, inflight>>

SubmitAll == sq' = <<>> /\ inflight' = inflight \cup ToSet(sq)

(* fh_xio_request_*: a full submission queue is submitted to make room; if *)
(* that fails the record goes back and the caller gets -EAGAIN.            *)
Request(op, u, size, select) ==
    /\ pc = "idle" /\ Free(u)
    /\ op = "ACCEPT" => ~select
    /\ \E g \in DataGets :
         LET q == [data |-> g[1], for |-> u, op |-> op, size |-> size,
                   select |-> select]
         IN \/ /\ heap' = g[2] /\ data_list' = g[3]
               /\ record' = [record EXCEPT ![g[1]] = [op |-> op, udata |-> u,
                                                      size |-> size]]
               /\ IF Len(sq) < SqEntries
                  THEN sq' = Append(sq, q) /\ UNCHANGED inflight
                  ELSE sq' = <<q>> /\ inflight' = inflight \cup ToSet(sq)
            \/ /\ Len(sq) = SqEntries
               /\ Disown(g[1], g[2], g[3])
               /\ UNCHANGED <<record, sq, inflight>>
    /\ UNCHANGED <<bufs, buf_freed, picked, buf_ring, cq, results, budget,
                   staged, drained, pc>>

fh_xio_submit_requests ==
    /\ pc = "idle" /\ sq # <<>>
    /\ SubmitAll
    /\ UNCHANGED <<pool, bufs, buf_freed, picked, buf_ring, cq, results,
                   budget, staged, drained, pc>>

-----------------------------------------------------------------------------
(* fh_xio_wait: submit, then one step per completion. *)

fh_xio_wait ==
    /\ pc = "idle"
    /\ pc' = "wait"
    /\ budget' \in 1..MaxResults
    /\ SubmitAll \/ (cq # <<>> /\ UNCHANGED <<sq, inflight>>)
    /\ UNCHANGED <<pool, bufs, buf_freed, picked, buf_ring, cq, results,
                   staged, drained>>

(* Mutant: the bytes that arrived are counted for file requests too. *)
Consumed_ByResult(rec, res) == IF res < 0 THEN 0 ELSE Lesser(rec.size, res)

(* fh_xio_data_populate: how far the kernel went in the buffer. *)
Consumed(rec, res) ==
    IF res < 0 THEN 0
    ELSE IF OnFile(rec.op) THEN rec.size
    ELSE Lesser(rec.size, res)

(* The buffer of completion c is in use once more. *)
TakeRef(c) ==
    /\ buf_refcount' = [buf_refcount EXCEPT ![c.bid] = @ + 1]
    /\ buf_done' = [buf_done EXCEPT ![c.bid] = @ \/ ~c.buf_more]
    /\ buf_offsets' = [buf_offsets EXCEPT
                         ![c.bid] = Lesser(@ + Consumed(record[c.data], c.res),
                                           BufSize)]

(* io_uring_cq_advance *)
PopCq == cq' = Tail(cq)

Result(c) ==
    [udata |-> record[c.data].udata, for |-> c.for, has_buf |-> c.has_buf,
     bid |-> c.bid, off |-> IF c.has_buf THEN buf_offsets[c.bid] ELSE 0,
     at |-> c.at, len |-> c.len]

Reap ==
    /\ pc = "wait" /\ budget > 0 /\ cq # <<>>
    /\ LET c == Head(cq) IN
         /\ results' = results \cup {Result(c)}
         /\ IF c.has_buf THEN TakeRef(c) ELSE UNCHANGED bufs
         /\ Disown(c.data, heap, data_list)
    /\ PopCq
    /\ budget' = budget - 1
    /\ UNCHANGED <<record, buf_freed, sq, kernel, staged, drained, pc>>

WaitReturns ==
    /\ pc = "wait"
    /\ budget = 0 \/ cq = <<>>
    /\ pc' = "idle"
    /\ budget' = 0
    /\ UNCHANGED <<pool, bufs, buf_freed, sq, kernel, cq, results, staged,
                   drained>>

-----------------------------------------------------------------------------
(* fh_xio_result_free and fh_xio_results_free: one step per result, then   *)
(* the buffers written beyond the tail of the ring are published.          *)

(* Mutant: the second buffer of a batch overwrites the first. *)
Stage_AtTail(b) == staged' = <<b>>

(* io_uring_buf_ring_add at offset advance_count *)
Stage(b) == staged' = Append(staged, b)

Rewind(b) == buf_offsets' = [buf_offsets EXCEPT ![b] = 0]

(* Mutant: a buffer is given back as soon as nothing refers to it. *)
Restorable_IgnoresDone(b) == buf_refcount[b] = 1

(* --refcount leaves XIO_RING_BUF_FLAG_DONE and nothing else. *)
Restorable(b) == buf_refcount[b] = 1 /\ buf_done[b]

fh_xio_result_free_internal(r) ==
    /\ pc \in {"idle", "free"}
    /\ pc' = "free"
    /\ results' = results \ {r}
    /\ IF ~r.has_buf THEN UNCHANGED <<bufs, staged>>
       ELSE /\ buf_refcount' = [buf_refcount EXCEPT ![r.bid] = @ - 1]
            /\ IF Restorable(r.bid)
               THEN /\ Rewind(r.bid)
                    /\ buf_done' = [buf_done EXCEPT ![r.bid] = FALSE]
                    /\ Stage(r.bid)
               ELSE UNCHANGED <<buf_offsets, buf_done, staged>>
    /\ UNCHANGED <<pool, buf_freed, sq, kernel, cq, budget, drained>>

(* io_uring_buf_ring_advance *)
Advance ==
    /\ pc = "free"
    /\ pc' = "idle"
    /\ buf_ring' = buf_ring \o [n \in DOMAIN staged |-> <<staged[n], 0>>]
    /\ staged' = <<>>
    /\ UNCHANGED <<pool, bufs, buf_freed, sq, inflight, picked, cq, results,
                   budget, drained>>

-----------------------------------------------------------------------------
(* fh_xio_free *)

(* fh_xio_drain gets its two entries and submits them, or gives up.  The   *)
(* cancel completes at once.                                               *)
fh_xio_drain ==
    /\ pc = "idle"
    /\ \/ /\ SubmitAll
          /\ cq' = Append(cq, Cqe([data |-> NULL, for |-> NULL], 0))
          /\ pc' = "drain"
       \/ /\ pc' = "teardown"
          /\ UNCHANGED <<sq, inflight, cq>>
    /\ UNCHANGED <<pool, bufs, buf_freed, picked, buf_ring, results, budget,
                   staged, drained>>

(* Mutant: the records of reaped completions are left to nobody. *)
DrainOne_Leaks(d) == UNCHANGED heap

(* The record of a completion that drain reaped is freed. *)
DrainOne(d) == heap' = heap \ {d}

DrainReap ==
    /\ pc = "drain" /\ cq # <<>>
    /\ LET d == Head(cq).data IN
         /\ IF d \in DataId THEN DrainOne(d) ELSE UNCHANGED heap
         /\ drained' = (d = XIO)
         /\ pc' = IF d = XIO THEN "teardown" ELSE pc
    /\ PopCq
    /\ UNCHANGED <<record, data_list, bufs, buf_freed, sq, kernel, results,
                   budget, staged>>

(* Mutant: a timeout is retried like -EINTR. *)
DrainFails_Retries == pc = "drain" /\ UNCHANGED vars

(* The wait times out after a second, or fails. *)
DrainFails ==
    /\ pc = "drain"
    /\ pc' = "teardown"
    /\ UNCHANGED <<pool, bufs, buf_freed, sq, kernel, cq, results, budget,
                   staged, drained>>

(* The rest of fh_xio_free, which does not look at what drain returned. *)
Teardown ==
    /\ pc = "teardown"
    /\ pc' = "freed"
    /\ buf_freed' = TRUE
    /\ heap' = heap \ ToSet(data_list)
    /\ data_list' = <<>>
    /\ UNCHANGED <<record, bufs, sq, kernel, cq, results, budget, staged,
                   drained>>

Caller ==
    \/ \E op \in Op, u \in Udata, size \in Size, select \in BOOLEAN :
         Request(op, u, size, select)
    \/ fh_xio_submit_requests
    \/ fh_xio_wait \/ Reap \/ WaitReturns
    \/ (\E r \in results : fh_xio_result_free_internal(r)) \/ Advance
    \/ fh_xio_drain \/ DrainReap \/ DrainFails \/ Teardown

Next == Caller \/ Kernel

Spec == Init /\ [][Next]_vars

(* The kernel completes what it was given.  A thread inside XIO goes on;   *)
(* callers come back to fh_xio_wait and publish the results they free.     *)
KernelCompletes(u) ==
    \/ \E q \in inflight :
         q.for = u /\ (KernelDoneSocket(q) \/ KernelDoneNoBuf(q))
    \/ \E n \in DOMAIN picked : picked[n].q.for = u /\ KernelDoneFile(n)

FairSpec ==
    /\ Spec
    /\ \A u \in Udata : WF_vars(KernelCompletes(u))
    /\ WF_vars(fh_xio_wait) /\ WF_vars(Reap \/ WaitReturns) /\ WF_vars(Advance)
    /\ WF_vars(DrainReap \/ DrainFails) /\ WF_vars(Teardown)

-----------------------------------------------------------------------------
(* Properties *)

Entry == [data : DataId, for : Udata, op : Op, size : Size, select : BOOLEAN]

Completion ==
    [data : DataId \cup {XIO, NULL}, for : Udata \cup {NULL}, res : Int,
     has_buf : BOOLEAN, bid : Nat, at : Nat, len : Nat, buf_more : BOOLEAN]

(* Every variable holds a value of its C type, or of its kernel role. *)
TypeOK ==
    /\ heap \subseteq DataId
    /\ record \in [DataId -> [op : Op \cup {"READ"}, udata : Udata \cup {NULL},
                              size : Size \cup {0}]]
    /\ data_list \in Seq(DataId)
    /\ buf_offsets \in [Bid -> 0..BufSize]
    /\ buf_refcount \in [Bid -> Nat]
    /\ buf_done \in [Bid -> BOOLEAN]
    /\ buf_freed \in BOOLEAN /\ drained \in BOOLEAN
    /\ sq \in Seq(Entry) /\ Len(sq) <= SqEntries
    /\ inflight \subseteq Entry
    /\ picked \in Seq([q : Entry, bid : Bid, at : Nat, len : Nat,
                       buf_more : BOOLEAN])
    /\ cq \in Seq(Completion)
    /\ buf_ring \in Seq(Bid \X (0..BufSize - 1))
    /\ results \subseteq [udata : Udata \cup {NULL}, for : Udata \cup {NULL},
                          has_buf : BOOLEAN, bid : Nat, off : Nat, at : Nat,
                          len : Nat]
    /\ staged \in Seq(Bid)
    /\ budget \in 0..MaxResults
    /\ pc \in {"idle", "wait", "free", "drain", "teardown", "freed"}

(* A result carries the udata of the request that the kernel completed:    *)
(* no record is reused while a completion still points to it.              *)
ResultForRequest == \A r \in results : r.udata = r.for

(* A result's buf is where the kernel put that result's bytes, although it *)
(* is computed from the sizes of the completions reaped before it.  With   *)
(* file requests this needs InOrder: the comment at xio_uring.c:407-409    *)
(* takes the kernel's advance for the request's size, whatever the order.  *)
PointsAtData == \A r \in results : r.has_buf => r.off = r.at

(* The parts of provided buffers that belong to a request or a result. *)
Claims ==
    {r \in results : r.has_buf}
    \cup {c \in ToSet(cq) : c.has_buf}
    \cup ToSet(picked)

(* The kernel will not write to bytes that a result, a completion or       *)
(* another request still owns: no buffer is back in the ring too early.    *)
HeldBytesSafe ==
    /\ \A c \in Claims :
         /\ \A n \in DOMAIN buf_ring :
              buf_ring[n][1] = c.bid => c.at + c.len <= buf_ring[n][2]
         /\ c.bid \notin ToSet(staged)
    /\ \A c1, c2 \in Claims :
         c1 # c2 /\ c1.bid = c2.bid =>
           c1.at + c1.len <= c2.at \/ c2.at + c2.len <= c1.at

(* A buffer's count is the number of results that callers hold in it, so   *)
(* the assertion of fh_xio_result_free_internal holds.                     *)
RefcountExact ==
    \A b \in Bid :
      buf_refcount[b] = Cardinality({r \in results : r.has_buf /\ r.bid = b})

(* Nothing is in two places. *)
Once(places) == \A m, n \in DOMAIN places : places[m] = places[n] => m = n

RingBids == [n \in DOMAIN buf_ring |-> buf_ring[n][1]]

(* Each buffer is in the ring once, about to be put there, or still owned  *)
(* by someone whose free will put it there: none is lost or doubled before *)
(* the teardown.                                                           *)
BuffersAccounted ==
    /\ RefcountExact
    /\ Once(RingBids) /\ Once(staged)
    /\ ToSet(RingBids) \cap ToSet(staged) = {}
    /\ pc \in {"idle", "wait", "free"} =>
         Bid \subseteq ToSet(RingBids) \cup ToSet(staged)
                      \cup {c.bid : c \in Claims}

(* The records on the free list, in the submission queue, in the kernel    *)
(* and in the completion queue.                                            *)
Listed == ToSet(data_list)
Queued == {sq[n].data : n \in DOMAIN sq}
Held == {q.data : q \in inflight}
Done == {cq[n].data : n \in DOMAIN cq} \cap DataId

(* Each record that malloc gave out is in one place, and in that once.     *)
DataApart ==
    /\ heap = Listed \cup Queued \cup Held \cup Done
    /\ Listed \cap (Queued \cup Held \cup Done) = {}
    /\ Queued \cap (Held \cup Done) = {} /\ Held \cap Done = {}
    /\ Once(data_list) /\ Once([n \in DOMAIN sq |-> sq[n].data])
    /\ \A q1, q2 \in inflight : q1.data = q2.data => q1 = q2
    /\ \A m, n \in DOMAIN cq :
         cq[m].data = cq[n].data /\ cq[m].data \in DataId => m = n

(* No record is lost or used twice: whatever malloc, the queues and the    *)
(* reaping do, each one that was given out is the free list's, a queue's   *)
(* or the kernel's, and every field has its type.                          *)
DataAccounted == TypeOK /\ DataApart

(* A teardown whose drain succeeded frees every record, and no request is  *)
(* left in the kernel that could write to the buffers it frees.            *)
DrainedClean == buf_freed /\ drained => inflight = {} /\ heap = {}

(* Every request is answered, unless the instance is freed before: the     *)
(* reap loop's cut-off at max_results starves nobody.                      *)
Answered == \A u \in Udata : Waiting(u) ~> ~Waiting(u) \/ pc = "freed"

(* fh_xio_free returns, even if the kernel never completes a request. *)
FreeReturns == pc = "drain" ~> pc = "freed"
=============================================================================
