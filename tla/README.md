# freehttpd in TLA+

Specifications of the parts of freehttpd that keep state of their own: the hash
table, the two I/O layers (`xio`, on io_uring and on xpoll), the three backends
of the event registry (`xpoll`), the server core, and the test harness with its
runner.  TLC checks them on small instances.  TLAPS proves for every instance that
the hash table is a finite map whose iteration list is whole, that a loop over it
visits each key once, that xio on io_uring loses no record and, if completions are
in order, no buffer and gives each request its own bytes, that xio on xpoll shares no
bytes and answers once, that the three backends keep their registrations (the poll
backend up to the first call that uses an index it did not keep), that the server
serves what it was configured to, and that a test program's success is earned and its
report exact.  Source paths below are relative to the repository root.

## 1. The system

freehttpd is an HTTP server under construction.  A process is single threaded
around an event layer; there is no request handling yet.

| Part | State | Operations | Used by |
|---|---|---|---|
| hash table, `src/hash/htable.c` (stamped out as `int_htable` and `str_htable`) | probed index, dense entries in a linked list, stack of deleted entries | create, set, get, has, delete, count, free, iteration; grow and rehash inside set | server, xio on xpoll |
| xio on io_uring, `src/event/xio_uring.c` | ring, provided buffers with offsets and reference counts, free list of request records | five requests, submit, wait, release results, free with drain | (future) server loop |
| xio on xpoll, `src/event/xio_xpoll.c` | pools of tasks, slices and descriptor states, a hash table from fd to state | recv request, wait (only errors are delivered), free | builds without liburing |
| xpoll, `src/event/xpoll.c` | per platform: an epoll fd, a kqueue, or the pollfd array with `fd_table` | create, add, modify, remove, add_or_modify, wait, close | xio on xpoll |
| server core, `src/core/` | table of ports and their listening sockets | create, listen, free | `src/progs/freehttpd.c` |
| `util_round_ceil2_ull`, `src/utils/utils.c` | none | round up to a power of two | hash table |
| libtest, `libtest/` | a parent and a child process, a pipe between them, counters | run hooks and test cases, count, report, exit status | every test program |
| test runner, `build-aux/runtest` | suites running, totals, temporary files | start, wait, add up, clean up | `make check` |
| log, datetime, rapidhash | no state that other parts depend on | | all |

How they interact: the server keeps its ports in an `int_htable` and hosts in a
`str_htable`.  xio on xpoll passes its descriptor state as the udata of an xpoll
registration and finds it again in an `int_htable`.  xio on io_uring shares
three rings with the kernel.

What is hard, and what makes each part correct:

* **Hash table.** Nothing runs concurrently; the difficulty is in long
  histories.  Tombstones, wrapped probe paths, reused entries and growth must
  never hide or double a key, hand out an entry twice, break the list that
  iteration and `htable_free` follow, or overrun the three arrays.  Any of its
  allocations may fail.
* **xio on io_uring.** The kernel runs beside the caller.  Requests consume
  shared buffers piecewise, complete in some order, and are released by callers
  in another.  A buffer must not return to the ring too early, or get lost; a
  record must not be reused while a completion points to it; a result must point
  at its own bytes; teardown must end and must not free what is in use.
* **xpoll on poll(2).** Each known descriptor must have one entry of the pollfd array,
  and calls must find it through `fd_table`, which a removal does not keep up to date;
  both arrays grow, one shrinks; a capped wait must rotate fairly.
* **xpoll on kqueue.** One registration is two filters with a pointer each,
  changed by separate calls that may fail: no filter may be left with an old
  pointer, and none may appear through a call that failed.
* **xpoll on epoll.** The kernel keeps the state; the wrappers have to tell its
  refusals apart.
* **xio on xpoll.** A request acquires a task, a slice, a descriptor state and a
  registration, and on any failure gives back what it has; a wait gives back
  tasks in the middle of lists.  Nothing may be lost, doubled or shared.
* **Server core.** Hosts are merged by port, the later vhost winning; sockets are
  opened one by one, and nothing of a failed start may be served.
* **libtest and the runner.** Processes that crash, are killed or block on a pipe
  at any moment: a success must be earned, and nobody may wait for ever.

`PROJECT.json` lists every hazard with its line and the properties aimed at it.

## 2. Modules

| Module | Models |
|---|---|
| `Dict` | what a hash table promises: a finite map, with the answers of its calls |
| `HTable` | `htable.c`; refines `Dict` |
| `HTableIter` | a loop of `ht_foreach` over `HTable`, with calls in its body |
| `HTableProofs` | the proofs about `HTable` and `HTableIter` |
| `RoundCeil2` | `util_round_ceil2_ull`, in both of its builds, beside the capacities of `HTable` |
| `XioUring`, `XioUringProofs` | `xio_uring.c` and, as external actions, the kernel behind liburing; proofs about it |
| `Registry` | what xpoll promises: registrations, and a wait that reports ready ones |
| `XpollPoll`, `XpollPollProofs` | the generic backend in `xpoll.c`; refines `Registry` up to the first call that strays; the proof of it |
| `XpollKqueue`, `XpollKqueueProofs` | the kqueue backend in `xpoll.c`; proofs about it |
| `XpollEpoll`, `XpollEpollProofs` | the epoll wrappers of `xpoll.h` and `xpoll.c`; refines `Registry` but for two things the kernel adds; the proof of it |
| `XioXpoll`, `XioXpollProofs` | `xio_xpoll.c`, composed with an instance of `Registry`; proofs about it |
| `Server`, `ServerProofs` | `server.c`, driven by `main` of `freehttpd.c`; proofs about it |
| `LibTest` | a test program: `libtest.c` and `assert.c` |
| `RunTest` | `build-aux/runtest`, with suites that end as they like |
| `TestHarness` | `RunTest` with the two processes of `LibTest` as its first suite; refines `RunTest` |
| `TestHarnessProofs` | proofs about `LibTest`, `RunTest` and `TestHarness` |
| `MC...` | values of the constants for TLC |

Definitions whose comment begins with "Mutant:" are slips that the code might
have had; each property is violated when one of them replaces the real
definition.

### HTable

Variables carry the names of the fields of `struct htable`.  `index_list` and
`entries` are functions on `0..capacity-1`; `deleted_index_list` is a sequence,
so `deleted_count` is its length.  The 32-bit markers `HT_DELETED` and
`UINT32_MAX` are -1.  `owned` counts the heap copies of each key (`str_htable`
duplicates keys; for `int_htable` the callbacks do nothing).  `Hash` is any
function from keys to naturals.

A call is one step: `htable_get`, `htable_set`, `htable_delete`, `htable_free`,
`htable_create`.  The probe loops are stated as sets: `HitSlots(k)` is where the
loop stops at `k`, `TargetSlots(k)` where an insertion goes.  A set that must
grow is `htable_grow`, one `htable_rehash` per slot of the old index,
`InstallRehashed`, then `SetAfterGrow`.  Each allocation may fail: `GrowFails`,
`InsertFails` (the key cannot be copied, which leaves `*flag_created` as the
caller had it), the second case of `htable_delete`, and the shrinking in
`PopDeleted`.

Left out: the data-free callback and overflow of 32-bit entry numbers, which
needs 2^32 entries.

### XioUring

The caller's side has one action per function, with `fh_xio_wait`,
`fh_xio_results_free` and `fh_xio_drain` taking one step per completion or
result, since the kernel can act between them.  `fh_xio_result_free` is a batch
of one.  The five request functions differ only in the operation, and are
`Request(op, u, size, select)`; `select` is a null buffer.  `record` is what a
`struct fh_xio_data` says; `heap` is what malloc gave out and free did not take
back.

The ghost fields `for`, `at` and `len` say for whom a completion really is and
which bytes the kernel really used; the code never reads them, the properties
compare them with what the code computes.

The kernel is external and modelled from what the code relies on
(`IOU_PBUF_RING_INC`, `IORING_CQE_F_BUF_MORE`, `IOSQE_IO_DRAIN`): buffers are
taken from the head of the ring, piecewise; a file request takes the size it asks
for when it starts (`KernelPick`), a socket request the size that arrived, when it
arrives; a request that fails takes none.  `InOrder` says that file requests complete
in the order in which they took bytes.  The code needs this, see the run
`uring_reorder`; socket requests take bytes as they complete, in any order.

Left out: multishot requests (the code makes none), overflow of the completion
queue, submissions that the kernel accepts in part, and failures of
`fh_xio_create`.  Callers are assumed not to reuse a udata before they have
released the result of its request; this only serves to name requests.

### XpollPoll

`pfd_list` stands for `pfd_list` and `fd_info_list`, which always change
together; `reg` is an event mask with its udata.  `fd_table` maps a descriptor
to an index, which may be stale.  A write outside an array sets `oob`, after
which no call is made: what follows is undefined in C.  `ready` is the
environment: the descriptors for which poll would report an event.

Callers may call anything in any order.  Two kinds of calls stray, and the history
variable `strayed` says that one has: one that goes through an index which a removal
has made stale (`Stale`; the run `poll_remove` shows what becomes of the registrations),
and one that registers a descriptor for which one step of growth does not make
`fd_table` long enough (`TooFar`; it sets `oob`).  `RegistryExact` and
`RefinesRegistry` speak of everything up to the first of them, and so of removals from
the front, which move entries and leave stale indices behind, as long as no call uses
one; of what comes after, `RegistryExact` says that `pfd_count` stays the number of
descriptors that `fd_table` knows, which is what the mass removals of
`tests/event/test_xpoll_scale.c` look at.

The divisor of the shrinking is a constant, `ShrinkBy`: 4 in the code and in
`poll_remove`, and 2 in `poll_registry`, where it lets an array of 4 shrink while an
entry is in use, which at 4 would need an array of 8 and five descriptors.  The proofs
hold for both.

### HTableIter

The loop keeps what `ht_iter_begin` makes: an entry number and a pointer, which is
written as the number together with the capacity of the table whose array it
points into.  The body calls `htable_get`, `htable_set` and `htable_delete` of
`HTable` itself.  Two restrictions are on the caller, and without either the loop
breaks: a set in the body does not make the table grow (the array would be freed
under the pointer), and a body that has deleted the entry it is at makes no
further change before the next iteration (an insertion could reuse that entry).
A body within them may delete any key and insert others into reused entries.
`times`, `kept` and `gone` are ghosts that count the visits.

### XpollKqueue

`filters` is the kernel's: for each descriptor and filter its udata, or `NONE`.
`CtlAdd` and `CtlDelete` are the two uses of `xpoll_ctl_fd`, as relations between
the filters before and after, since each kevent call may fail.  Masks are sets of
bits: `XPOLL_READ` and `XPOLL_WRITE` are -1 and -2 here, as the system headers
have them, so every mask that has one has the other, and the model leaves it at
that.  An event does not say of which descriptor it is (`xpoll.c:384-394` leaves `fd`
unset).  An addition may fail for any reason.  A deletion is taken to fail only where
there is no filter to delete, so it leaves none either way; therefore the two whose
results the code ignores, of the rollback (`xpoll.c:145`) and of a modification
(`:327`), have one outcome.  `last` is a ghost: the udata of the last call that
succeeded.

### XpollEpoll

`epoll` is the interest list.  The `Epoll...` operators are `epoll_ctl` as its
manual describes it; the actions are the wrappers.  `ImplementsRegistry` states
the refinement of `Registry` with two additions that Linux makes and the other
backends do not: `ExclusiveRefused` and `CloseFd`.

### XioXpoll

`xio` is one record with the fields of `struct fh_xio`; a stack is a sequence with
its top at the end, a task list a sequence with its head first.  A request is one
step with a disjunct for each way through `fh_xio_request_prep_with_size`:
`NoTask`, `NoSlice`, `NoState`, `SetAborts`, `Register`, `Rearm`, `Enqueue`.  The
result of `xpoll_add_fd` is used as the code uses it, so `Register` gives up when
the registration succeeded and goes on when it failed.  Any allocation of the
state table may fail; when the one inside `int_htable_delete` does, which the code
does not look at, the ghost `stranded` says so.  An assert that fails sets
`aborted`, after which nothing happens.  `fh_xio_wait` takes the events that
`Registry` reports, any of which may be an error (the code delivers no other).
`CloseFd` is the environment: a descriptor number is closed and used again.
Callers never have two requests with one udata waiting.  Answering a request releases
its task and not its slice (`xio_xpoll.c:504-520`), and no other function does: the
ghost `answered` counts those slices, and a buffer that is full of them is never used
again.  `SlicesCounted` says that these and the slices of waiting requests are all
there are; it cannot say that no buffer is lost, since the code loses them.

### Server

`pc` is where `main` is; each iteration of a loop is a step.  The hash tables are
what `Dict` promises, so a port table is a sequence in insertion order.
`sockets` is the kernel's, `heap` the blocks that are allocated.  Every socket
call, `listen` and every allocation may fail; the ghost `unnoticed` collects the
ids for which a set into one of the two tables failed, since the code goes on.

### LibTest, RunTest and TestHarness

In `LibTest` the parent and the child take steps of their own; `writers` is who
has the writing end of the pipe open.  A callback returns anything, fails
assertions or crashes; either process may be killed at any moment.  `verdicts`,
`hooks_ok` and `untold` are ghosts that say how the test cases really did.
`write_report` leaves the report or an empty file: the line is buffered and goes out at
`fclose`, and neither it nor `fprintf` is looked at (`libtest.c:407-415`), so the
status is 0 all the same; a line that is cut in two is left out.  `RunTest` has a step
per command that matters; a suite ends by itself with any outcome, except that status 0
does not come with failures in the report.  It may come without a report, which
`runtest:246` notes and counts as a suite that passed.  `TestHarness`
makes the first suite a real program: its processes start when the runner executes
it, its end and its report file are what `wait` and the report reader see, and the
signal that the runner sends to a process group kills both of its processes.
`ImplementsRunTest` then says that what `RunTest` takes for granted of a suite is
what `LibTest` does.  `GreenIsEarned` says what a runner's status 0 is worth: in every
suite that was started all ran and succeeded, and they are in the totals unless the
report was lost.  Left out: callbacks that call `exit`, the tee processes of
`--log-dir`, and options.

### RoundCeil2

The function as both builds compute it, for every value of a word of `2^LogW`
bits.  Shifting by the width of the word, which C leaves undefined, yields the
set of all words.  `RoundsUp` compares it with `index_capacity` of the table.

## 3. What TLC checks

| Run | Instance | Checks |
|---|---|---|
| `htable_safety` | 3 keys, 1 datum, first capacity 2, with a loop of `ht_foreach`; words of 4 bits | `IndInv`, `LookupComplete`, `EntriesAccounted`, `ListCoversLive`, `RoomToInsert`, `KeysOwned`, `IteratorLive`, `EachKeyOnce`, `RoundsUp` |
| `htable_refine` | 2 keys, 2 data, first capacity 2 | `RefinesDict`, `OrderKept`, `SetReturns` |
| `uring_files` | 2 requests of 1 or 2 bytes, read and recv, 2 buffers of 2 bytes | `ResultForRequest`, `PointsAtData`, `HeldBytesSafe`, `BuffersAccounted`, `DataAccounted`, `DrainedClean` |
| `uring_live` | 2 requests: read, recv, accept, 1 buffer | `Answered`, `FreeReturns` |
| `uring_reorder` | 2 reads, any order of completion | `PointsAtData` is violated |
| `poll_registry` | 3 descriptors, any caller | `RegistryExact`, `RefinesRegistry`, `NoStarvation` |
| `poll_remove` | 3 descriptors, any caller | `RemoveLeavesRest` is violated |
| `xio_pools` | 3 descriptors, 2 tasks and states, 2 buffers of 2 bytes, requests of 1 and 2 bytes | `TasksAccounted`, `StatesAccounted`, `SlicesDisjoint`, `SlicesCounted`, `EachAnsweredOnce` |
| `kqueue_filters` | 2 descriptors, 2 pointers | `UdataCurrent`, `RejectedIsQuiet` |
| `epoll_registry` | 3 descriptors, 3 registrations, one exclusive | `ImplementsRegistry` |
| `server_run` | 2 hosts, 2 ports, up to 4 ids | `ServedAsConfigured`, `SocketForEachPort`, `HeapReturned` |
| `harness_suites` | 2 suites, one of them real, 2 jobs, 2 test cases, a pipe of 1 verdict | `SuccessIsEarned`, `CountsExact`, `GreenIsEarned`, `TotalsExact`, `ImplementsRunTest`, `AllEnd` |

Where a module has a type invariant, it is a conjunct of one of the properties
(`IndInv`, `DataAccounted`, `RegistryExact`, `TasksAccounted`, `UdataCurrent`), and
so is `RefcountExact` of `BuffersAccounted`.

**Bounds.** The hash table has no bound besides its keys: it stops growing by
itself, since growth follows the number of keys, and all its states are
explored.  `CollidingHash` gives two keys the same hash, at the last slot of
every table, so all their paths wrap, and puts the third in the middle of the
path.  The first capacity 2 is the smallest that `htable_create` accepts.  The
constants 16 and 4 of the deleted stack are 1, so that doubling, shrinking and
the full stack all happen with three keys.  Four bits hold every capacity the
table reaches, and the largest values whose round-up does not fit a word are not
among them.  In `XioUring` two bytes per buffer are enough for partial use, exact
use and a request larger than the rest; `SqEntries = 1` makes the full queue
common, `MaxFree = 1` the full free list.  In `XpollPoll`, `MinCap` of 2 makes
three descriptors grow both arrays and shrink one, with an entry in use or none, and
makes the third one too far for an empty table; each descriptor has one registration, so
a modification to another one is left to the proof, as is the `fd + 1` branch of the
growth, taken above `DoubleCap`.  In `XioXpoll` there is one descriptor more
than there are states, and two sizes that fill a buffer together or alone.  In
`Server` four ids are enough for a host that is claimed twice on one port with
another port in between.  In `TestHarness` a pipe of one verdict makes the child
block, two test cases let it be ahead of the parent, and two suites end in either
order, in one batch; what batches that follow one another could break is proved
(`RunnerAddsUp`, `RunnerKeepsToJobs`).  `SYMMETRY` is never used with a liveness property; `VIEW`
drops `ret`, which no step reads.

**Deadlock** is checked for the hash table and for the three backends of xpoll,
where a call is always possible.  It is not for the other runs: a freed io_uring
instance, an aborted process and a program that has exited do stop.

**Undetermined errors.** `TasksAccounted`, `StatesAccounted` and the count in
`SlicesCounted` are stated until an entry is `stranded`: `int_htable_delete` at `xio_xpoll.c:414` is not looked at, and
after it failed a released state is still in the table.  `ServedAsConfigured` and
`HeapReturned` make an exception of the ids in `unnoticed`, because
`server.c:111` and `:115` do not look at the results of the sets; they say that
nothing else suffers.

**Fairness.** `HTable`: the thread runs a call it began to its end.
`XioUring`: the kernel completes each request of its own accord, threads inside
`fh_xio_wait`, `fh_xio_results_free` and `fh_xio_free` go on, and callers come
back to `fh_xio_wait`, which is what an event loop does.  Nothing makes callers
request, release or free anything.  `FreeReturns` does not use the kernel's
fairness for requests: the timeout of the drain is enough.  `XpollPoll`: the
loop calls `xpoll_wait` again and again, with whatever `max_events`.  `NoStarvation`
excepts waits that begin where removals left the cursor, past the end of the array
(`CursorCut`): with three descriptors they do no harm, and with five a caller that
keeps removing and registering can steer every wait past one entry.
`TestHarness`: the runner and the two processes of the suite are run, the callbacks
return or crash, and the other suites end, which is what `AllEnd` shows of the
first; nobody has to be killed.

**Findings.** Two runs show the code at odds with what a comment or a test says of
it; `PROJECT.json` quotes both.  File reads that complete out of order get each
other's address.  Removing a descriptor in the poll backend leaves a stale index
for the one that is moved: in the trace 0 and 1 are registered, 0 is removed, which
moves 1 to index 0, and registered again, at index 1; removing 1 then takes out the
entry at index 1, that of 0, and 1 stays polled.

Other places where the code is likely not what was meant are modelled as they are,
and can be read off the definitions: the load that makes the table grow does not
count deleted entries (`MustGrow`, against a comment in the tests); a failed drain
frees the buffers that it says it leaks (`XioUring`'s teardown); `fd_table` of the
poll backend grows by one step, whatever the descriptor (`GrownTableCap`); on
kqueue a modification cannot narrow a registration and the mask of an event does
not tell reading from writing (`Bits`); xio on xpoll takes the success of a
registration for a failure (`Register`), the release of a slice of a buffer
that is on the free list trips an assert (`GiveUp`), and the slices of answered requests
are never released (`Deliver`); a test program whose report cannot be written still
exits with 0, and the runner counts a suite that passed and none of its test cases
(`write_report`, `AddSuite`).

## 4. What is proved

| Theorem | States | in |
|---|---|---|
| `Invariance` | `Spec => []IndInv` | `HTableProofs` |
| `LookupIsComplete` | `Spec => []LookupComplete` | `HTableProofs` |
| `NoEntryLost` | `Spec => []EntriesAccounted` | `HTableProofs` |
| `DeletedStackFits` | `Spec => []DeletedFits` | `HTableProofs` |
| `AlwaysRoom` | `Spec => []RoomToInsert` | `HTableProofs` |
| `TableIsDict` | `Spec => RefinesDict` | `HTableProofs` |
| `ListIsWhole` | `Spec => []ListCoversLive` | `HTableProofs` |
| `CopiesAreOwned` | `Spec => []KeysOwned` | `HTableProofs` |
| `OrderIsKept` | `Spec => OrderKept` | `HTableProofs` |
| `IteratorIsLive` | `SpecIter => []IteratorLive` | `HTableProofs` |
| `LoopVisitsOnce` | `SpecIter => []EachKeyOnce` | `HTableProofs` |
| `ResultsAnswerTheirRequests` | `Spec => []ResultForRequest` | `XioUringProofs` |
| `EveryRecordAccounted` | `Spec => []DataAccounted` | `XioUringProofs` |
| `DrainLeavesNothing` | `Spec => []DrainedClean` | `XioUringProofs` |
| `ResultsPointAtData` | `Spec => []PointsAtData`, if `InOrder` | `XioUringProofs` |
| `HeldBytesAreSafe` | `Spec => []HeldBytesSafe`, if `InOrder` | `XioUringProofs` |
| `EveryBufferAccounted` | `Spec => []BuffersAccounted`, if `InOrder` | `XioUringProofs` |
| `RegistryIsExact` | `Spec => []RegistryExact` | `XpollPollProofs` |
| `PollImplementsRegistry` | `Spec => RefinesRegistry` | `XpollPollProofs` |
| `UdataIsCurrent` | `Spec => []UdataCurrent` | `XpollKqueueProofs` |
| `RejectedChangesNothing` | `Spec => RejectedIsQuiet` | `XpollKqueueProofs` |
| `EpollImplementsRegistry` | `Spec => ImplementsRegistry` | `XpollEpollProofs` |
| `PoolsKept` | `Spec => []IInv` | `XioXpollProofs` |
| `TasksKept` | `Spec => []TasksAccounted` | `XioXpollProofs` |
| `StatesOwned` | `Spec => []StatesAccounted` | `XioXpollProofs` |
| `SlicesApart` | `Spec => []SlicesDisjoint` | `XioXpollProofs` |
| `SlicesKept` | `Spec => []SlicesCounted` | `XioXpollProofs` |
| `AnsweredOnce` | `Spec => EachAnsweredOnce` | `XioXpollProofs` |
| `ConfigurationServed` | `Spec => []ServedAsConfigured` | `ServerProofs` |
| `EachPortHasSocket` | `Spec => []SocketForEachPort` | `ServerProofs` |
| `MemoryReturned` | `Spec => []HeapReturned` | `ServerProofs` |
| `ZeroIsEarned` | `Spec => []SuccessIsEarned` | `TestHarnessProofs` |
| `ReportIsExact` | `Spec => []CountsExact` | `TestHarnessProofs` |
| `RunnerKeepsToJobs` | `R!Spec => []R!AtMostJobs` | `TestHarnessProofs` |
| `RunnerRemovesFiles` | `R!Spec => []R!FilesRemoved` | `TestHarnessProofs` |
| `RunnerAddsUp` | `R!Spec => []R!TotalsExact` | `TestHarnessProofs` |
| `HarnessIsRunTest` | `SpecHarness => R!Init /\ [][R!Next]_(R!vars)` | `TestHarnessProofs` |
| `HarnessProgramIsRight` | `SpecHarness => [](SuccessIsEarned /\ CountsExact)` | `TestHarnessProofs` |
| `SummaryIsExact` | `SpecHarness => []TotalsExact` | `TestHarnessProofs` |
| `SuccessOfTheRun` | `SpecHarness => []GreenIsEarned` | `TestHarnessProofs` |

`R` is the instance of `RunTest` in `TestHarness`; its variables and constants are
those of the runner, so a theorem about `R!Spec` is one about `RunTest` itself.

**Only model-checked.** Liveness (`SetReturns`, `Answered`, `FreeReturns`,
`NoStarvation`, `AllEnd`) needs fairness, which is out of the prover's reach.  The
bit operations of `RoundCeil2` are recursive definitions, and a module that reaches
one cannot hold theorems, so `RoundsUp` stays with TLC as well.  `ImplementsRunTest` is
half proved: `HarnessIsRunTest` is its safety part, and that the fairness of the
processes gives the fairness of the suites is left to TLC.

### HTableProofs

**Assumptions** are those of `HTable`: `Hash` is a function from keys to
naturals, the first capacity is a power of two and at least 2 (what
`htable_create` asserts and `util_round_ceil2_ull` computes), the capacities of
the deleted stack are positive and the smaller one does not exceed the first,
and NULL is not a key.

**The invariant.** `LookupComplete` is not inductive: a lookup depends on all
slots before the one it ends at, and an insertion into a tombstone, a deletion
and a rehash all rely on where the other keys are.  `IndInv` says instead, of
each live slot, that it can be reached from the home of its key without crossing
an empty slot (`Reachable`), and that neither its key nor its entry is in another
slot (`Sound`).  A put fills a slot and a delete leaves a tombstone: neither
empties a slot, so no path is cut (`ReachableKept`); the new key's own path is
what `TargetSlots` walked, and the key is nowhere else because the lookup would
have found it (`HitExact`).  `DeletedSound` counts: the entries handed out are the
live ones and the reusable ones, whence there is room in the entry array, and by
cardinality none is lost (`NoEntryLost`).  During a rehash the same `Sound`
holds of the table being built, whose entries number as many as the live slots
passed so far (`RehashSound`); so it has room for the rest, and when it is
installed `count` is right again.

The proof has a lemma per operation (`InsertKeeps`, `OverwriteKeeps`,
`DeleteKeeps`, `GrowStarts`, `RehashKeeps`, `InstallKeeps`, `CreateKeeps`,
`FreeKeeps`), over lemmas on `Sound` that do not mention the state (`SoundPut`,
`SoundBury`, `SoundSameKeys`, `SoundEmpty`).

**Room.** `RoomToInsert` says that the probe loops of a put and of a rehash end at
a slot.  There are fewer live slots than slots, since there are fewer entries than
slots, so one is free (`SomeSlotFree`); a probe path visits every slot, so it visits
that one (`ProbeFacts`); and of the numbers at which it is at a free slot there is a
least one (`LeastNat`, from the well-foundedness of the naturals), before which all
slots are live (`PathFindsFree`).  For a rehash, which stops at empty slots only,
`NoTombstones` adds to `IndInv` that the table being built has none.

**Refinement.** The refinement mapping is `Bindings`.  By `IndInv` a key that a lookup
finds is bound once, to the data of its entry, and one that it does not find is not
bound (`HitIsBound`).  What a step does to the bindings is a lemma for each way to
change a slot (`OverwriteImplements`, `InsertImplements`, `DeleteImplements`), and
`InstallImplements` says that the table a rehash built has the bindings of the old
one, which is what `RehashSound` is kept for.

**The iteration list.** `Walk` is computed recursively along links, and no step of a
call says anything about a walk.  The invariant names the list instead: there is a
sequence `p` of all live entries, each once, of which the links of the entries, the
head and the tail are the two readings (`Threads`).  An insertion makes it longer at
the end and a deletion shorter anywhere (`ThreadsAppend`, `ThreadsRemove`); that
`Walk` visits `p` and ends is then one induction, by the least position at which they
would differ (`FollowIs`).  `ListInv` says the same of the table that a rehash builds,
with the numbers it gives out as `p` (`Counting`): it has to be known that these are
all the entries, or installing the table would cut the list.  `OwnInv` says the
copies of a key are one or none, as the key is bound or not; freeing the table gives
back each because the walk meets each live entry once.  `OrderIsKept` reads the keys
along `p`.

**Loops.** `SpecIter` implements `Spec` (`LoopIsTable`), so all of this holds while a
loop runs.  `IterInv` places the loop in the list: it has come to position `j` of `p`,
the keys up to there were counted once and the others not (`Counted`), and the link
that it will follow leads to position `j + 1`.  After the body deletes the entry it is
at, it is between two positions, with a link kept by an entry that has left the list;
this is sound because `Unlink` leaves the entry's own links alone (`UnlinkKeepsOwn`),
and it is why such a body must not touch the table again.

### XioUringProofs

There are two invariants, since whose a record is does not depend on the order of
completions and whose the bytes are does.

`PoolInv` holds for any order.  The places a record can be in - free list, submission
queue, kernel, completion queue - are disjoint (`DataApart`), and so are the udata of
requests, completions and results (`UdataApart`); what a request wrote into its record
is there until it is reaped (`RecordKept`), so that `Consumed` is computed from the
request's own size, and what it makes of the result is where the kernel's bytes end
(`EndsAt`).  `PickedHeld` ties the requests
that took bytes to those in the kernel.  `DrainLast` says that the nop of the drain is
the last completion, whence nothing is in flight when it is reaped.

`ByteInv` assumes `InOrder`: the code adds up the bytes of a buffer in the order of
completions (`xio_uring.c:407-409`), and `uring_reorder` shows that without it two
results get each other's address.  The invariant is about `Pend`, the pieces of buffers
in the order in which they will be reaped: those in the completion queue, then those
picked by the kernel.  Per buffer they lie one behind the other, from where the results
end (`InARow`), up to where the ring has used it (`RingUse`); a buffer in neither ring
nor stage has its last piece to come or a result that holds it (`ComesBack`), so none
is lost; and one that is staged is nobody's (`StagedFree`), so none returns too early.
`ResultsApart` adds that results lie before what is to come and share no byte.

### XioXpollProofs

**Assumptions** are those of `XioXpoll`: the pools and the buffers are not empty, and
a request that xio buffers asks for at least one byte and at most a buffer, and NULL is
not a slice (`PoolAssumption`, `SizeAssumption`, `NullAssumption`).  `Fd` and `Udata` are any sets.

**The invariant** `IInv` is `Kept (xio, aborted)`, and that every udata xpoll knows is
the index of a state.  Some of it holds always: the types, `Apart` (no task is in two
places) and `UdataApart` (requests that wait have different udata).  The slices and
the buffers (`Buffers`) are in order until an assert fails, since a failed assert
leaves the release of a slice half done.  That every task is somewhere and every state
has an owner (`States`), and that the references to a buffer are its slices (`Counted`),
is known only as long as no entry was stranded in
`fd_state_table`; the model's ghost says when.  The proof of `Owned` rests on a fact
that is easily missed: `free_fd_state_list` is always the bottom of the stack that
`fh_xio_create` filled (`Bottom`), because nothing ever pushes on it another state than
the one just popped.

Two invariants are not inductive as the runs state them.  `SlicesDisjoint` needs that
a slice lies below `off` of a buffer that has references (`Cut`): a new slice begins at
`off`, and a buffer whose `refs` reach 0 starts over.  A request that is given up just
took the last slice, so its release brings `refs` to 0 only where no waiting request
has a slice in that buffer (`GiveUpKeeps`); the
slices of answered requests are never released, which loses bytes but shares none.
For `Counted` each step has to say which tasks wait: a request that is given up leaves
them alone (`SameWaits`) and its slice was taken and given back, one that is queued adds
itself (`QueueCounts`), and a wait moves the slices of the tasks it answers from the
waiting to the answered.
`TasksAccounted` counts; the invariant says instead that every task is in some place
and none in two, and the count follows because a list of each element of a set once is
as long as the set is large (`OnceCounts`).

**A wait** answers the first tasks of the concatenation of the lists of some states,
in the order in which xpoll reported them.  The concatenation is recursive; it is
described by the place at which each list begins in it (`Layout`, by induction along
the function that `FlattenSeq` is defined with, `Flattened`).  What is answered is then
the beginning of each list, all of it or, for the state at which the result array was
full, a part (`GotFacts`); so moving every head past the answered tasks leaves exactly
the others (`MovedApart`), and each is answered once (`AnsweredFacts`).

### XpollPollProofs

`RegistryExact` is inductive as it stands, for any calls in any order.  The count holds
until a write goes out of bounds, because each call that changes it makes one
descriptor known or unknown (`AddFacts`, `DelFacts`), whatever index it goes through.
The entries hold until a call strays.  An index need not be right, but is never too
small: a removal moves the last entry into a hole before it and leaves its index where
it was.  So an index that points at an entry in use of another descriptor, or past the
last one, is stale, and a call that does not stray goes through a right one
(`NotStale`); the entry it takes out is then that of its own descriptor, and the one
that moves to its place was there once (`DelEntries`).  What a removal does to the set
of registrations follows (`DelInterest`).  For the refinement, the wait has to be shown to report what
`Registry` lets it report: the loop visits each entry once (`VisitedFacts`), and
where it stops either the batch has `max_events` or everything was visited, so that
nothing that is ready is withheld from a batch with room left (`WaitImplements`).
The capacities are any numbers, so the growth above `DoubleCap` is covered.

### XpollKqueueProofs

Because every mask that is not empty asks for both filters, a call that succeeds
sets both or none, and one that fails half-way has set one to nothing; so the
invariant is `UdataCurrent` itself, and what remains is to follow each of the two
`kevent` calls of each operation through `CtlAdd` and `CtlDelete`.

### ServerProofs

The proofs hold for every configuration: `MaxIds` is any natural number.  `IInv` has
four parts.  `ServedSoFar` is `ServedAsConfigured` in the middle of the loops: for
the ids seen so far, each host table has the last one that claims the host.  It
survives an id because a port has only one entry (`PortsOnce`) and because an id
whose set fails is seen as if it were not in the configuration (`OneMoreId`).
`SocketsSoFar` says that the open descriptors are those of the first entries, as
many as the loop has passed; the next one is new because the kernel has a free
descriptor, by a count, and hands out the least (`FreeFdIsFree`).  `HeapReachable` says
that every block is the server's, belongs to an entry of the table, or to an id in
`unnoticed`.  `Stages` says what there is not, yet, at each point of `main`.

### XpollEpollProofs

`EpollImplementsRegistry` is `Spec => ImplementsRegistry`, for every finite set of
descriptors (`FdAssumption`; a process has finitely many) and every set of
registrations, some of them exclusive.  The argument is the refinement mapping
`Interest`, the set of the pairs of a descriptor and its registration: what each
change of `epoll` does to that set is a lemma, and each wrapper then is a step of
`Registry`, by cases on what the kernel said.  The type invariant of `epoll` is
all it needs of the states.

### TestHarnessProofs

**Assumptions** are those of the modules: any number of test cases; a positive capacity
of the pipe; suites and jobs, at least one of each; and `MaxTests`, which only
bounds what TLC enumerates, is not below the number of test cases.

`ZeroIsEarned` is `Spec => []SuccessIsEarned`, for every number of test cases and
every capacity of the pipe.  `SuccessIsEarned` speaks of the parent's exit and is
far from inductive.  `IInv` follows the failure on its way: `ErrorsKept` says that
as long as `exit_err` is unset every verdict so far is a success, every hook
succeeded and none was left unwritten; `ErrorsTold` that the child's status 0 means
`exit_err` is unset and the parent's that the child exited with 0; `Progress`
counts the verdicts by where the child is, so that a child that returns has all of
them.  What the parent read from the pipe plays no part: the counts could be
wrong and a success still be earned.

`ReportIsExact` is about those counts.  `CountInv` follows each verdict from the child
through the pipe to a counter: what was counted, what is in the pipe and what the child
is about to write never exceed the verdicts (`PassesCounted`, `FailuresCounted`), and
unless a signal ended the child they add up to all of them (`NoneMissing`).  `EndOfPipe`
says that the parent leaves its loop only when the pipe is empty and the child has
ended, which needs `WritersKnown`: a read returns 0 only when no process holds the
writing end, and a child that runs holds it.

`RunnerAddsUp` is about the runner.  `TotalsExact` speaks of the moment of the summary
only, so it cannot be inductive.  `RunnerInv` says of every moment which suites are
in the sums: those that ended, were taken and do not wait for their turn (`Counted`).
`Accounts` has the totals of the test cases as the sums over these suites, the two
numbers of suites as their cardinality, and no failed suite only if each of them ended
with 0.  It needs two more: `InOrder`, that a suite is new exactly until it is taken,
and `EachOnce`, that a suite that runs waits in `entries`, and only once; both fail
after a signal, which is why they are stated for a runner that was not interrupted.  An
ended suite never changes (`EndKeeps`), so a sum changes only in `wait_for_test`, by
the one suite that stops waiting.  Sums over a set are functions on its subsets that
choose which element comes first; that the choice is of no consequence (`SumsAnyFirst`)
and that one more element adds its value (`SumAdd`) is proved with a smallest
counterexample among the finite subsets, since the theorems on induction take an operator
as a parameter.  `ReportedIsSum` says that `MapThenSumSet` of the community modules,
which `TotalsExact` is written with, is such a sum.

`RunnerKeepsToJobs` follows from `JobsInv`: while suites are started, fewer than
`parallel_jobs` wait (`Batch`), and every suite that runs either waits or is the one
that is about to be recorded.  `RunnerRemovesFiles` follows from `FilesInv`: the only file
that is not in `tmp_list` is the one just made.  The two properties are stated in
`RunTest` for these theorems and have no run of their own; the refinement below carries
them over to the composition.

`HarnessIsRunTest` maps each step of the composition to a step of `RunTest` or to none.
The one that matters is the end of the parent: `ToldIsOutcome` says that what the runner is
told then is an outcome that `RunTest` allows.  That takes `ProgramInv`, the invariants
above with `ZeroReported` (an exit status of 0 comes after a report without failures or
one that could not be written) and
`NoMoreThanAll` (no test case has two verdicts), and it takes `Linked`: the runner sees a
suite as ended only when its parent is over, and then sees what the parent left, so no
suite ends twice.  The kill of a process group is a step that `LibTest` alone does not
have; `GroupKilled` says that it keeps `ProgramInv`.

`SuccessOfTheRun` joins all of this.  A runner that exits with 0 of its own accord found
no failed suite and no failed test case.  By `AllCounted` every suite that was not passed
over is in its sums, so each exited with 0; by `Linked` the parent of the first one
did; by `SuccessIsEarned` its verdicts are all successes, and by `CountsExact` its
report says so, so the total is at least that.  If the report could not be written the
last step does not apply: nothing in the code would tell the runner.

## 5. What is not modelled, and what is left

Not modelled: log and datetime (output only, with no state that other parts
read); rapidhash (vendored, stateless; an arbitrary function here);
`util_fd_set_nonblocking` (two fcntl calls); the rest of the build tools.

Left for later work:

1. When `fh_xio_wait` of xio on xpoll delivers more than errors, and when the server
   has an event loop: their liveness, and the composition of the two.
2. Table growth inside a loop of `ht_foreach`, once the source says what a loop body
   may do.
