--------------------------- MODULE XioUringProofs ---------------------------
(* Proofs about XioUring: whose a request record is, in whatever order the *)
(* kernel completes requests, and whose the bytes of a provided buffer     *)
(* are, when it completes them in the order in which they took bytes.      *)
EXTENDS XioUring, FiniteSetTheorems, SequenceTheorems, TLAPS

-----------------------------------------------------------------------------
(* The first invariant: records, udata and reference counts *)

(* The udata of requests and completions, as Queued, Held and Done say it  *)
(* of their records.                                                       *)
QueuedFor == {sq[n].for : n \in DOMAIN sq}
HeldFor == {q.for : q \in inflight}
DoneFor == {cq[n].for : n \in {k \in DOMAIN cq : cq[k].data \in DataId}}
ResultFor == {r.for : r \in results}

(* No two requests, completions or results have the same udata. *)
UdataApart ==
    /\ QueuedFor \cap (HeldFor \cup DoneFor \cup ResultFor) = {}
    /\ HeldFor \cap (DoneFor \cup ResultFor) = {}
    /\ DoneFor \cap ResultFor = {}
    /\ Once([n \in DOMAIN sq |-> sq[n].for])
    /\ \A q1, q2 \in inflight : q1.for = q2.for => q1 = q2
    /\ \A m, n \in DOMAIN cq :
         cq[m].for = cq[n].for /\ cq[m].data \in DataId
           /\ cq[n].data \in DataId => m = n
    /\ \A r1, r2 \in results : r1.for = r2.for => r1 = r2

(* What fh_xio_request_* wrote into the record of a request. *)
Saved(q) == [op |-> q.op, udata |-> q.for, size |-> q.size]

(* What the record of a completion that has a buffer makes of its result   *)
(* is where the kernel's bytes end.                                        *)
EndsAt(rec, c) ==
    Lesser(c.at + Consumed(rec, c.res), BufSize) = c.at + c.len

RecordKept ==
    /\ \A n \in DOMAIN sq : record[sq[n].data] = Saved(sq[n])
    /\ \A q \in inflight : record[q.data] = Saved(q)
    /\ \A n \in DOMAIN cq : cq[n].data \in DataId =>
         record[cq[n].data].udata = cq[n].for
    /\ \A n \in DOMAIN cq : cq[n].has_buf =>
         /\ cq[n].data \in DataId /\ cq[n].bid \in Bid
         /\ EndsAt(record[cq[n].data], cq[n])

PickedHeld ==
    /\ \A n \in DOMAIN picked :
         /\ picked[n].q \in inflight /\ OnFile(picked[n].q.op)
         /\ picked[n].at < BufSize
         /\ picked[n].len = Lesser(picked[n].q.size, BufSize - picked[n].at)
    /\ \A m, n \in DOMAIN picked : picked[m].q = picked[n].q => m = n

Active == pc \in {"idle", "wait", "free"}

(* The nop of the drain is the last completion there will be. *)
DrainLast ==
    /\ Active => \A n \in DOMAIN cq : cq[n].data \in DataId
    /\ Active => ~drained
    /\ pc = "drain" =>
         /\ sq = <<>> /\ ~drained
         /\ \A n \in DOMAIN cq : cq[n].data = XIO => n = Len(cq) /\ inflight = {}
    /\ drained => inflight = {} /\ sq = <<>> /\ cq = <<>>
    /\ drained => pc \in {"teardown", "freed"}
    /\ buf_freed => data_list = <<>> /\ pc = "freed"

ResultBids == \A r \in results : r.has_buf => r.bid \in Bid

PoolInv ==
    /\ TypeOK /\ DataApart /\ UdataApart
    /\ RecordKept /\ PickedHeld /\ DrainLast
    /\ IsFiniteSet(results) /\ ResultBids /\ RefcountExact
    /\ ResultForRequest

-----------------------------------------------------------------------------
(* The proof of the first invariant *)

(* A step that moves no request and makes no new result. *)
LEMMA SameRequests ==
    ASSUME DataApart, UdataApart, RecordKept,
           UNCHANGED <<pool, sq, inflight, cq>>, results' \subseteq results
    PROVE  DataApart' /\ UdataApart' /\ RecordKept'
<1>1. DataApart'
  BY DEF DataApart, Listed, Queued, Held, Done, Once, pool
<1>2. UdataApart'
  <2>1. /\ QueuedFor' = QueuedFor /\ HeldFor' = HeldFor /\ DoneFor' = DoneFor
        /\ ResultFor' \subseteq ResultFor
    BY DEF QueuedFor, HeldFor, DoneFor, ResultFor
  <2> QED BY <2>1 DEF UdataApart, Once
<1>3. RecordKept'
  BY DEF RecordKept, pool
<1> QED BY <1>1, <1>2, <1>3

(* What a submission moves. *)
LEMMA SubmitMoves ==
    ASSUME TypeOK, SubmitAll
    PROVE  /\ sq' = <<>> /\ sq' \in Seq(Entry) /\ Len(sq') <= SqEntries
           /\ inflight' \subseteq Entry
           /\ Queued' = {} /\ Held' = Held \cup Queued
           /\ QueuedFor' = {} /\ HeldFor' = HeldFor \cup QueuedFor
           /\ inflight' = inflight \cup {sq[n] : n \in DOMAIN sq}
<1>1. sq \in Seq(Entry)
  BY DEF TypeOK
<1>2. sq' = <<>> /\ inflight' = inflight \cup {sq[n] : n \in DOMAIN sq}
  BY DEF SubmitAll, ToSet
<1>3. sq' \in Seq(Entry) /\ Len(sq') <= SqEntries
  BY <1>2, LimitAssumption
<1>4. inflight' \subseteq Entry
  BY <1>1, <1>2 DEF TypeOK
<1>5. Queued' = {} /\ QueuedFor' = {}
  BY <1>2 DEF Queued, QueuedFor
<1>6. Held' = Held \cup Queued /\ HeldFor' = HeldFor \cup QueuedFor
  BY <1>2 DEF Held, HeldFor, Queued, QueuedFor
<1> QED BY <1>2, <1>3, <1>4, <1>5, <1>6

(* Submitting what is queued. *)
LEMMA SubmitKeeps ==
    ASSUME PoolInv, SubmitAll,
           UNCHANGED <<pool, bufs, buf_freed, picked, buf_ring, cq, results,
                       staged, drained>>,
           Active, Active', budget' \in 0..MaxResults
    PROVE  PoolInv'
<1> USE SubmitMoves DEF PoolInv
<1>1. TypeOK'
  BY DEF TypeOK, pool, bufs, Active
<1>2. DataApart'
  <2>1. Listed' = Listed /\ Done' = Done
    BY DEF Listed, Done, pool
  <2>2. \A q1, q2 \in inflight' : q1.data = q2.data => q1 = q2
    BY DEF DataApart, Once, Held, Queued
  <2> QED BY <2>1, <2>2 DEF DataApart, Once, pool
<1>3. UdataApart'
  <2>1. DoneFor' = DoneFor /\ ResultFor' = ResultFor
    BY DEF DoneFor, ResultFor
  <2>2. \A q1, q2 \in inflight' : q1.for = q2.for => q1 = q2
    BY SMTT(30) DEF UdataApart, Once, HeldFor, QueuedFor
  <2> QED BY <2>1, <2>2 DEF UdataApart, Once
<1>4. RecordKept'
  BY DEF RecordKept, pool
<1>5. PickedHeld'
  BY DEF PickedHeld
<1>6. DrainLast'
  BY DEF DrainLast, Active, pool
<1>7. (IsFiniteSet(results) /\ ResultBids /\ RefcountExact /\ ResultForRequest)'
  BY DEF ResultBids, RefcountExact, ResultForRequest, bufs
<1> QED BY <1>1, <1>2, <1>3, <1>4, <1>5, <1>6, <1>7

(* A completion with the data and the udata of request q. *)
Answers(c, q) ==
    /\ c \in Completion /\ c.data = q.data /\ c.for = q.for
    /\ c.has_buf => c.bid \in Bid /\ EndsAt(Saved(q), c)

(* The kernel completes request q. *)
LEMMA CompletionKeeps ==
    ASSUME PoolInv, NEW q \in inflight, NEW c, Answers(c, q),
           cq' = Append(cq, c), inflight' = inflight \ {q},
           UNCHANGED <<pool, bufs, buf_freed, sq, results, budget, staged,
                       drained, pc>>
    PROVE  /\ DataApart' /\ UdataApart' /\ RecordKept' /\ DrainLast'
           /\ IsFiniteSet(results)' /\ ResultBids' /\ RefcountExact'
           /\ ResultForRequest'
           /\ cq' \in Seq(Completion) /\ inflight' \subseteq Entry
<1> USE DEF PoolInv
<1>1. /\ cq \in Seq(Completion) /\ cq' \in Seq(Completion)
      /\ Len(cq') = Len(cq) + 1 /\ DOMAIN cq' = 1..Len(cq) + 1
      /\ DOMAIN cq = 1..Len(cq) /\ Len(cq) \in Nat
      /\ \A n \in DOMAIN cq : cq'[n] = cq[n]
      /\ cq'[Len(cq) + 1] = c
  BY DEF TypeOK, Answers
<1>2. q \in Entry /\ q.data \in DataId /\ inflight' \subseteq Entry
  BY DEF TypeOK, Entry
<1>3. c.data = q.data /\ c.for = q.for
  BY DEF Answers
<1>4. Held' = Held \ {q.data} /\ q.data \in Held
  BY DEF Held, DataApart
<1>5. Done' = Done \cup {q.data}
  BY <1>1, <1>2, <1>3 DEF Done
<1>6. HeldFor' = HeldFor \ {q.for} /\ q.for \in HeldFor
  BY DEF HeldFor, UdataApart
<1>7. DoneFor' = DoneFor \cup {q.for}
  BY <1>1, <1>2, <1>3 DEF DoneFor
<1>8. DataApart'
  <2>1. Listed' = Listed /\ Queued' = Queued
    BY DEF Listed, Queued, pool
  <2>2. \A n \in DOMAIN cq : cq[n].data # q.data
    BY <1>2, <1>4 DEF DataApart, Done
  <2>3. \A m, n \in DOMAIN cq' :
          cq'[m].data = cq'[n].data /\ cq'[m].data \in DataId => m = n
    BY <1>1, <1>3, <2>2 DEF DataApart
  <2> QED BY <1>4, <1>5, <2>1, <2>3 DEF DataApart, Once, pool
<1>9. UdataApart'
  <2>1. ResultFor' = ResultFor /\ QueuedFor' = QueuedFor
    BY DEF ResultFor, QueuedFor
  <2>2. \A n \in DOMAIN cq : cq[n].data \in DataId => cq[n].for # q.for
    BY <1>6 DEF UdataApart, DoneFor
  <2>3. \A m, n \in DOMAIN cq' :
          cq'[m].for = cq'[n].for /\ cq'[m].data \in DataId
            /\ cq'[n].data \in DataId => m = n
    BY <1>1, <1>3, <2>2 DEF UdataApart
  <2> QED BY <1>6, <1>7, <2>1, <2>3 DEF UdataApart, Once
<1>10. RecordKept'
  <2>1. record[q.data] = Saved(q) /\ record' = record
    BY DEF RecordKept, pool
  <2>2. record[q.data].udata = q.for
    BY <2>1 DEF Saved
  <2> QED BY <1>1, <1>2, <1>3, <2>1, <2>2 DEF RecordKept, Answers
<1>11. DrainLast'
  <2>1. pc = "drain" => \A n \in DOMAIN cq : cq[n].data # XIO
    BY DEF DrainLast
  <2> QED BY <1>1, <1>2, <1>3, <2>1, SentinelAssumption
          DEF DrainLast, Active, pool
<1>12. (IsFiniteSet(results) /\ ResultBids /\ RefcountExact /\ ResultForRequest)'
  BY DEF ResultBids, RefcountExact, ResultForRequest, bufs
<1> QED BY <1>1, <1>2, <1>8, <1>9, <1>10, <1>11, <1>12

(* A request that is not picked leaves the picked ones as they are. *)
LEMMA PickedKept ==
    ASSUME PickedHeld, NEW q \in inflight, ~IsPicked(q),
           inflight' = inflight \ {q}, UNCHANGED picked
    PROVE  PickedHeld'
BY DEF PickedHeld, IsPicked

LEMMA CqeFacts ==
    ASSUME NEW q, NEW res \in Int, q.data \in DataId \cup {XIO, NULL},
           q.for \in Udata \cup {NULL}
    PROVE  /\ Cqe(q, res) \in Completion
           /\ Cqe(q, res).data = q.data /\ Cqe(q, res).for = q.for
           /\ Cqe(q, res).has_buf = FALSE
BY DEF Cqe, Completion

LEMMA ConsumedFacts ==
    ASSUME NEW q \in Entry, NEW res \in Int
    PROVE  /\ OnFile(q.op) /\ res >= 0 => Consumed(Saved(q), res) = q.size
           /\ ~OnFile(q.op) /\ res >= 0 =>
                Consumed(Saved(q), res) = Lesser(q.size, res)
           /\ q.size \in Nat \ {0}
<1>1. q.size \in Nat \ {0}
  BY SizeAssumption DEF Entry
<1>2. Saved(q).op = q.op /\ Saved(q).size = q.size
  BY DEF Saved
<1>3. res >= 0 => ~(res < 0)
  OBVIOUS
<1> QED BY <1>1, <1>2, <1>3 DEF Consumed

LEMMA KernelDoneNoBufKeeps ==
    ASSUME PoolInv, NEW q \in inflight, KernelDoneNoBuf(q)
    PROVE  PoolInv'
<1>1. q \in Entry /\ q.data \in DataId /\ q.for \in Udata /\ q.size \in Nat
  BY SizeAssumption DEF PoolInv, TypeOK, Entry
<1>2. PICK res \in IF q.select THEN {-1} ELSE -1..q.size :
        cq' = Append(cq, Cqe(q, res))
  BY DEF KernelDoneNoBuf
<1>3. res \in Int
  BY <1>1, <1>2
<1> DEFINE c == Cqe(q, res)
<1>4. Answers(c, q)
  BY <1>1, <1>3, CqeFacts DEF Answers
<1>5. cq' = Append(cq, c)
  BY <1>2
<1> HIDE DEF c
<1>6. /\ DataApart' /\ UdataApart' /\ RecordKept' /\ DrainLast'
      /\ IsFiniteSet(results)' /\ ResultBids' /\ RefcountExact'
      /\ ResultForRequest'
      /\ cq' \in Seq(Completion) /\ inflight' \subseteq Entry
  BY <1>4, <1>5, CompletionKeeps DEF KernelDoneNoBuf
<1>7. TypeOK'
  BY <1>6 DEF PoolInv, TypeOK, KernelDoneNoBuf, pool, bufs
<1>8. PickedHeld'
  BY PickedKept DEF PoolInv, KernelDoneNoBuf
<1> QED BY <1>6, <1>7, <1>8 DEF PoolInv

(* The head of the ring, and the ring without the bytes taken from it. *)
LEMMA TakeFacts ==
    ASSUME TypeOK, buf_ring # <<>>, NEW n \in Nat, Take(n)
    PROVE  /\ buf_ring[1][1] \in Bid /\ buf_ring[1][2] \in 0..BufSize - 1
           /\ Room = BufSize - buf_ring[1][2] /\ Room \in Nat \ {0}
           /\ BufMore(n) \in BOOLEAN
           /\ BufMore(n) <=> buf_ring[1][2] + n < BufSize
           /\ buf_ring' \in Seq(Bid \X (0..BufSize - 1))
           /\ BufMore(n) =>
                /\ Len(buf_ring') = Len(buf_ring)
                /\ buf_ring'[1] = <<buf_ring[1][1], buf_ring[1][2] + n>>
                /\ \A k \in 2..Len(buf_ring) : buf_ring'[k] = buf_ring[k]
           /\ ~BufMore(n) =>
                /\ Len(buf_ring') = Len(buf_ring) - 1
                /\ \A k \in 1..Len(buf_ring) - 1 : buf_ring'[k] = buf_ring[k + 1]
<1> DEFINE S == Bid \X (0..BufSize - 1)
<1>1. buf_ring \in Seq(S) /\ Len(buf_ring) \in Nat \ {0} /\ buf_ring[1] \in S
      /\ BufSize \in Nat \ {0}
  BY BufAssumption, EmptySeq, LenProperties DEF TypeOK
<1>2. /\ buf_ring[1][1] \in Bid /\ buf_ring[1][2] \in 0..BufSize - 1
      /\ Room = BufSize - buf_ring[1][2] /\ Room \in Nat \ {0}
      /\ BufMore(n) \in BOOLEAN
      /\ BufMore(n) <=> buf_ring[1][2] + n < BufSize
  BY <1>1 DEF Room, BufMore
<1>3. /\ Tail(buf_ring) \in Seq(S) /\ Len(Tail(buf_ring)) = Len(buf_ring) - 1
      /\ \A k \in 1..Len(buf_ring) - 1 : Tail(buf_ring)[k] = buf_ring[k + 1]
  BY <1>1
<1>4. CASE BufMore(n)
  <2> DEFINE e == <<buf_ring[1][1], buf_ring[1][2] + n>>
             t == Tail(buf_ring)
  <2>1. e \in S
    <3>1. buf_ring[1][2] + n \in 0..BufSize - 1
      BY <1>1, <1>2, <1>4
    <3> QED BY <1>2, <3>1
  <2>2. buf_ring' = <<e>> \o t
    BY <1>4 DEF Take
  <2> HIDE DEF e, t, S
  <2>3. <<e>> \in Seq(S) /\ t \in Seq(S) /\ Len(<<e>>) = 1 /\ <<e>>[1] = e
    BY <1>3, <2>1 DEF t
  <2>4. buf_ring' \in Seq(S) /\ Len(buf_ring') = 1 + Len(t)
        /\ buf_ring'[1] = e
        /\ \A k \in 2..1 + Len(t) : buf_ring'[k] = t[k - 1]
    BY <2>2, <2>3
  <2>5. Len(t) = Len(buf_ring) - 1
        /\ \A k \in 2..Len(buf_ring) : t[k - 1] = buf_ring[k]
    BY <1>1, <1>3 DEF t
  <2>6. Len(buf_ring') = Len(buf_ring)
    BY <1>1, <2>4, <2>5
  <2>7. \A k \in 2..Len(buf_ring) : buf_ring'[k] = buf_ring[k]
    BY <1>1, <2>4, <2>5
  <2> QED BY <1>2, <1>4, <2>4, <2>6, <2>7 DEF e, S
<1>5. CASE ~BufMore(n)
  BY <1>2, <1>3, <1>5 DEF Take
<1> QED BY <1>4, <1>5

LEMMA KernelDoneSocketKeeps ==
    ASSUME PoolInv, NEW q \in inflight, KernelDoneSocket(q)
    PROVE  PoolInv'
<1>1. q \in Entry /\ q.data \in DataId /\ q.size \in Nat
      /\ TypeOK /\ buf_ring # <<>> /\ ~OnFile(q.op)
  BY SizeAssumption DEF PoolInv, TypeOK, Entry, KernelDoneSocket
<1>2. PICK n \in 0..Lesser(q.size, Room) :
        /\ Take(n)
        /\ cq' = Append(cq, BufCqe(q, n, buf_ring[1][1], buf_ring[1][2], n,
                                   BufMore(n)))
  BY DEF KernelDoneSocket
<1>3. BufSize \in Nat /\ buf_ring[1] \in Bid \X (0..BufSize - 1)
  BY <1>1, BufAssumption, EmptySeq, LenProperties DEF TypeOK
<1>4. Room \in Nat /\ Room = BufSize - buf_ring[1][2]
  BY <1>3 DEF Room
<1>5. n \in Nat /\ n <= q.size /\ n <= Room
  BY <1>1, <1>2, <1>4 DEF Lesser
<1> DEFINE c == BufCqe(q, n, buf_ring[1][1], buf_ring[1][2], n, BufMore(n))
<1>6. BufMore(n) \in BOOLEAN
  BY DEF BufMore
<1>7. /\ c \in Completion /\ c.data = q.data /\ c.for = q.for
      /\ c.bid = buf_ring[1][1] /\ c.at = buf_ring[1][2] /\ c.len = n
      /\ c.res = n
  <2>1. PICK b \in Bid, u \in Nat, m \in BOOLEAN :
          b = buf_ring[1][1] /\ u = buf_ring[1][2] /\ m = BufMore(n)
    BY <1>3, <1>6
  <2>2. c = BufCqe(q, n, b, u, n, m) /\ n \in Int
    BY <1>5, <2>1
  <2> HIDE DEF c
  <2>3. /\ c \in Completion /\ c.data = q.data /\ c.for = q.for
        /\ c.bid = b /\ c.at = u /\ c.len = n /\ c.res = n
    <3>1. b \in Nat
      BY BufAssumption, FS_CardinalityType
    <3> QED BY <1>1, <1>5, <2>1, <2>2, <3>1 DEF BufCqe, Cqe, Completion, Entry
  <2> QED BY <2>1, <2>3
<1>8. cq' = Append(cq, c)
  BY <1>2
<1> HIDE DEF c
<1>9. Consumed(Saved(q), n) = n
  BY <1>1, <1>5, ConsumedFacts DEF Lesser
<1>10. EndsAt(Saved(q), c)
  BY <1>3, <1>4, <1>5, <1>7, <1>9 DEF EndsAt, Lesser
<1>11. Answers(c, q)
  BY <1>3, <1>7, <1>10 DEF Answers
<1>12. /\ DataApart' /\ UdataApart' /\ RecordKept' /\ DrainLast'
       /\ IsFiniteSet(results)' /\ ResultBids' /\ RefcountExact'
       /\ ResultForRequest'
       /\ cq' \in Seq(Completion) /\ inflight' \subseteq Entry
  BY <1>8, <1>11, CompletionKeeps DEF KernelDoneSocket
<1>13. buf_ring' \in Seq(Bid \X (0..BufSize - 1))
  BY <1>1, <1>2, <1>5, TakeFacts
<1>14. TypeOK'
  BY <1>12, <1>13 DEF PoolInv, TypeOK, KernelDoneSocket, pool, bufs
<1>15. PickedHeld'
  <2>1. ~IsPicked(q)
    BY <1>1 DEF IsPicked, PoolInv, PickedHeld
  <2> QED BY <2>1, PickedKept DEF PoolInv, KernelDoneSocket
<1> QED BY <1>12, <1>14, <1>15 DEF PoolInv

(* Taking one element out of a sequence. *)
LEMMA RemoveAtFacts ==
    ASSUME NEW S, NEW s \in Seq(S), NEW n \in DOMAIN s
    PROVE  /\ RemoveAt(s, n) \in Seq(S) /\ Len(RemoveAt(s, n)) = Len(s) - 1
           /\ \A k \in 1..n - 1 : RemoveAt(s, n)[k] = s[k]
           /\ \A k \in n..Len(s) - 1 : RemoveAt(s, n)[k] = s[k + 1]
<1>1. DOMAIN s = 1..Len(s) /\ Len(s) \in Nat /\ n \in 1..Len(s)
  OBVIOUS
<1> DEFINE a == SubSeq(s, 1, n - 1)
           b == SubSeq(s, n + 1, Len(s))
<1>2. a \in Seq(S) /\ Len(a) = n - 1 /\ \A k \in 1..n - 1 : a[k] = s[k]
  BY <1>1
<1>3. b \in Seq(S) /\ Len(b) = Len(s) - n
      /\ \A k \in 1..Len(s) - n : b[k] = s[n + k]
  BY <1>1
<1>4. RemoveAt(s, n) = a \o b
  BY DEF RemoveAt
<1> HIDE DEF a, b
<1>5. a \o b \in Seq(S) /\ Len(a \o b) = Len(s) - 1
  <2>1. a \o b \in Seq(S) /\ Len(a \o b) = Len(a) + Len(b)
    BY <1>2, <1>3, ConcatProperties
  <2> QED BY <1>1, <1>2, <1>3, <2>1
<1>6. \A k \in 1..n - 1 : (a \o b)[k] = s[k]
  BY <1>1, <1>2, <1>3
<1>7. \A k \in n..Len(s) - 1 : (a \o b)[k] = s[k + 1]
  <2> TAKE k \in n..Len(s) - 1
  <2>1. (a \o b)[k] = b[k - (n - 1)] /\ k - (n - 1) \in 1..Len(s) - n
    BY <1>1, <1>2, <1>3
  <2> QED BY <1>1, <1>3, <2>1
<1> QED BY <1>1, <1>4, <1>5, <1>6, <1>7

Taken == [q : Entry, bid : Bid, at : Nat, len : Nat, buf_more : BOOLEAN]

LEMMA KernelPickKeeps ==
    ASSUME PoolInv, NEW q \in inflight, KernelPick(q)
    PROVE  PoolInv'
<1> DEFINE n == Lesser(q.size, Room)
<1>1. q \in Entry /\ q.size \in Nat /\ TypeOK /\ buf_ring # <<>>
      /\ OnFile(q.op) /\ ~IsPicked(q) /\ Take(n)
  BY SizeAssumption DEF PoolInv, TypeOK, Entry, KernelPick
<1>2. BufSize \in Nat /\ buf_ring[1] \in Bid \X (0..BufSize - 1)
  BY <1>1, BufAssumption, EmptySeq, LenProperties DEF TypeOK
<1>3. n \in Nat /\ n = Lesser(q.size, BufSize - buf_ring[1][2])
  BY <1>1, <1>2 DEF Room, Lesser
<1>4. BufMore(n) \in BOOLEAN
  BY DEF BufMore
<1> HIDE DEF n
<1> DEFINE p == [q |-> q, bid |-> buf_ring[1][1], at |-> buf_ring[1][2],
                 len |-> n, buf_more |-> BufMore(n)]
<1>5. /\ p \in Taken /\ p.q = q /\ p.at = buf_ring[1][2] /\ p.len = n
      /\ p.at < BufSize
  <2>1. buf_ring[1][1] \in Bid /\ buf_ring[1][2] \in Nat
        /\ buf_ring[1][2] < BufSize
    BY <1>2
  <2> QED BY <1>1, <1>3, <1>4, <2>1 DEF Taken
<1>6. picked' = Append(picked, p)
  BY DEF KernelPick, n
<1> HIDE DEF p
<1>7. /\ picked' \in Seq(Taken) /\ picked \in Seq(Taken)
      /\ DOMAIN picked' = 1..Len(picked) + 1 /\ DOMAIN picked = 1..Len(picked)
      /\ Len(picked) \in Nat
      /\ \A k \in DOMAIN picked : picked'[k] = picked[k]
      /\ picked'[Len(picked) + 1] = p
  <2>1. picked \in Seq(Taken)
    BY <1>1 DEF TypeOK, Taken
  <2> QED BY <1>5, <1>6, <2>1
<1>8. buf_ring' \in Seq(Bid \X (0..BufSize - 1))
  BY <1>1, <1>3, TakeFacts
<1>9. TypeOK'
  BY <1>1, <1>7, <1>8 DEF TypeOK, Taken, KernelPick, pool, bufs
<1>10. PickedHeld'
  <2>1. \A k \in DOMAIN picked : picked[k].q # q
    BY <1>1 DEF IsPicked
  <2>2. UNCHANGED inflight /\ PickedHeld
    BY DEF KernelPick, PoolInv
  <2>3. ASSUME NEW k \in DOMAIN picked'
        PROVE  /\ picked'[k].q \in inflight' /\ OnFile(picked'[k].q.op)
               /\ picked'[k].at < BufSize
               /\ picked'[k].len = Lesser(picked'[k].q.size, BufSize - picked'[k].at)
    <3>1. CASE k \in DOMAIN picked
      BY <1>7, <2>2, <3>1 DEF PickedHeld
    <3>2. CASE k = Len(picked) + 1
      BY <1>1, <1>3, <1>5, <1>7, <2>2, <3>2
    <3> QED BY <1>7, <3>1, <3>2
  <2>4. \A k, m \in DOMAIN picked' : picked'[k].q = picked'[m].q => k = m
    BY <1>5, <1>7, <2>1, <2>2 DEF PickedHeld
  <2> QED BY <2>3, <2>4 DEF PickedHeld
<1>11. DataApart' /\ UdataApart' /\ RecordKept'
  BY SameRequests DEF PoolInv, KernelPick
<1>12. DrainLast' /\ IsFiniteSet(results)' /\ ResultBids' /\ RefcountExact'
       /\ ResultForRequest'
  BY DEF PoolInv, DrainLast, Active, ResultBids, RefcountExact,
         ResultForRequest, KernelPick, pool, bufs
<1> QED BY <1>9, <1>10, <1>11, <1>12 DEF PoolInv

LEMMA KernelDoneFileKeeps ==
    ASSUME PoolInv, NEW n \in DOMAIN picked, KernelDoneFile(n)
    PROVE  PoolInv'
<1> DEFINE p == picked[n]
           q == p.q
<1>1. TypeOK /\ PickedHeld
  BY DEF PoolInv
<1>2. p \in Taken /\ picked \in Seq(Taken)
  <2>1. picked \in Seq(Taken)
    BY <1>1 DEF TypeOK, Taken
  <2> QED BY <2>1
<1>3. /\ q \in Entry /\ p.bid \in Bid /\ p.at \in Nat /\ p.len \in Nat
      /\ p.buf_more \in BOOLEAN
  BY <1>2 DEF Taken
<1>4. q \in inflight /\ OnFile(q.op) /\ p.len = Lesser(q.size, BufSize - p.at)
      /\ p.at < BufSize
  BY <1>1 DEF PickedHeld
<1>5. PICK res \in 0..p.len :
        cq' = Append(cq, BufCqe(q, res, p.bid, p.at, p.len, p.buf_more))
  BY DEF KernelDoneFile
<1>6. res \in Int /\ res >= 0 /\ BufSize \in Nat /\ q.size \in Nat
  BY <1>3, <1>5, BufAssumption, ConsumedFacts
<1>7. inflight' = inflight \ {q} /\ picked' = RemoveAt(picked, n)
  BY DEF KernelDoneFile
<1>8. PICK c : c = BufCqe(q, res, p.bid, p.at, p.len, p.buf_more)
  OBVIOUS
<1> HIDE DEF p, q
<1>9. /\ c \in Completion /\ c.data = q.data /\ c.for = q.for
      /\ c.bid = p.bid /\ c.at = p.at /\ c.len = p.len /\ c.res = res
  <2>1. p.bid \in Nat
    BY <1>3, BufAssumption, FS_CardinalityType
  <2> QED BY <1>3, <1>6, <1>8, <2>1 DEF BufCqe, Cqe, Completion, Entry
<1>10. Consumed(Saved(q), res) = q.size
  BY <1>3, <1>4, <1>6, ConsumedFacts
<1>11. EndsAt(Saved(q), c)
  BY <1>3, <1>4, <1>6, <1>9, <1>10 DEF EndsAt, Lesser
<1>12. Answers(c, q)
  BY <1>3, <1>9, <1>11 DEF Answers
<1>13. /\ DataApart' /\ UdataApart' /\ RecordKept' /\ DrainLast'
       /\ IsFiniteSet(results)' /\ ResultBids' /\ RefcountExact'
       /\ ResultForRequest'
       /\ cq' \in Seq(Completion) /\ inflight' \subseteq Entry
  BY <1>4, <1>5, <1>7, <1>8, <1>12, CompletionKeeps DEF KernelDoneFile
<1>14. /\ picked' \in Seq(Taken) /\ Len(picked') = Len(picked) - 1
       /\ \A k \in 1..n - 1 : picked'[k] = picked[k]
       /\ \A k \in n..Len(picked) - 1 : picked'[k] = picked[k + 1]
  BY <1>2, <1>7, RemoveAtFacts
<1>15. TypeOK'
  BY <1>1, <1>13, <1>14 DEF TypeOK, Taken, KernelDoneFile, pool, bufs
<1>16. PickedHeld'
  <2>1. DOMAIN picked = 1..Len(picked) /\ Len(picked) \in Nat
        /\ DOMAIN picked' = 1..Len(picked) - 1 /\ n \in 1..Len(picked)
    BY <1>2, <1>14
  <2>2. \A k \in DOMAIN picked' : \E m \in DOMAIN picked :
          m # n /\ picked'[k] = picked[m]
    BY <1>14, <2>1
  <2>3. \A k \in DOMAIN picked : k # n => picked[k].q \in inflight'
    BY <1>1, <1>7 DEF PickedHeld, q, p
  <2>4. \A k, m \in DOMAIN picked' : picked'[k].q = picked'[m].q => k = m
    <3> DEFINE Old(k) == IF k < n THEN k ELSE k + 1
    <3>1. \A k \in DOMAIN picked' :
            Old(k) \in DOMAIN picked /\ picked'[k] = picked[Old(k)]
      BY <1>14, <2>1
    <3>2. \A k, m \in DOMAIN picked' : Old(k) = Old(m) => k = m
      BY <2>1
    <3> HIDE DEF Old
    <3>3. \A k, m \in DOMAIN picked : picked[k].q = picked[m].q => k = m
      BY <1>1 DEF PickedHeld
    <3> QED BY <3>1, <3>2, <3>3
  <2> QED BY <1>1, <2>2, <2>3, <2>4 DEF PickedHeld
<1> QED BY <1>13, <1>15, <1>16 DEF PoolInv

(* A completion of the drain itself goes to the end of the queue. *)
LEMMA DrainCqeKeeps ==
    ASSUME PoolInv, NEW c \in Completion, c.data \notin DataId, ~c.has_buf,
           cq' = Append(cq, c), UNCHANGED record
    PROVE  /\ cq' \in Seq(Completion)
           /\ DOMAIN cq' = 1..Len(cq) + 1 /\ DOMAIN cq = 1..Len(cq)
           /\ Len(cq) \in Nat /\ Len(cq') = Len(cq) + 1
           /\ \A n \in DOMAIN cq : cq'[n] = cq[n]
           /\ cq'[Len(cq) + 1] = c
           /\ Done' = Done /\ DoneFor' = DoneFor
           /\ \A m, n \in DOMAIN cq' :
                cq'[m].data = cq'[n].data /\ cq'[m].data \in DataId => m = n
           /\ \A m, n \in DOMAIN cq' :
                cq'[m].for = cq'[n].for /\ cq'[m].data \in DataId
                  /\ cq'[n].data \in DataId => m = n
           /\ \A n \in DOMAIN cq' : cq'[n].data \in DataId =>
                record'[cq'[n].data].udata = cq'[n].for
           /\ \A n \in DOMAIN cq' : cq'[n].has_buf =>
                /\ cq'[n].data \in DataId /\ cq'[n].bid \in Bid
                /\ EndsAt(record'[cq'[n].data], cq'[n])
<1> USE DEF PoolInv
<1>1. /\ cq \in Seq(Completion) /\ cq' \in Seq(Completion)
      /\ Len(cq') = Len(cq) + 1 /\ DOMAIN cq' = 1..Len(cq) + 1
      /\ DOMAIN cq = 1..Len(cq) /\ Len(cq) \in Nat
      /\ \A n \in DOMAIN cq : cq'[n] = cq[n]
      /\ cq'[Len(cq) + 1] = c
  BY DEF TypeOK
<1>2. \A n \in DOMAIN cq' : n \in DOMAIN cq \/ n = Len(cq) + 1
  BY <1>1
<1>3. Done' = Done /\ DoneFor' = DoneFor
  BY <1>1, <1>2 DEF Done, DoneFor
<1> QED BY <1>1, <1>2, <1>3 DEF DataApart, UdataApart, RecordKept

LEMMA KernelDrainedKeeps ==
    ASSUME PoolInv, KernelDrained
    PROVE  PoolInv'
<1> USE DEF PoolInv
<1> DEFINE c == Cqe([data |-> XIO, for |-> NULL], 0)
<1>1. c \in Completion /\ c.data = XIO /\ c.has_buf = FALSE
  BY DEF Cqe, Completion
<1>2. cq' = Append(cq, c)
  BY DEF KernelDrained
<1>3. /\ pc = "drain" /\ inflight = {} /\ \A n \in DOMAIN cq : cq[n].data # XIO
      /\ UNCHANGED <<pool, bufs, buf_freed, sq, kernel, results, budget, staged,
                     drained, pc>>
  BY DEF KernelDrained
<1> HIDE DEF c
<1>4. /\ cq' \in Seq(Completion)
      /\ DOMAIN cq' = 1..Len(cq) + 1 /\ DOMAIN cq = 1..Len(cq)
      /\ Len(cq) \in Nat /\ Len(cq') = Len(cq) + 1
      /\ \A n \in DOMAIN cq : cq'[n] = cq[n]
      /\ Done' = Done /\ DoneFor' = DoneFor
      /\ \A m, n \in DOMAIN cq' :
           cq'[m].data = cq'[n].data /\ cq'[m].data \in DataId => m = n
      /\ \A m, n \in DOMAIN cq' :
           cq'[m].for = cq'[n].for /\ cq'[m].data \in DataId
             /\ cq'[n].data \in DataId => m = n
      /\ \A n \in DOMAIN cq' : cq'[n].data \in DataId =>
           record'[cq'[n].data].udata = cq'[n].for
      /\ \A n \in DOMAIN cq' : cq'[n].has_buf =>
           /\ cq'[n].data \in DataId /\ cq'[n].bid \in Bid
           /\ EndsAt(record'[cq'[n].data], cq'[n])
  BY <1>1, <1>2, <1>3, SentinelAssumption, DrainCqeKeeps DEF pool
<1>5. TypeOK'
  BY <1>3, <1>4 DEF TypeOK, pool, bufs, kernel
<1>6. DataApart'
  BY <1>3, <1>4 DEF DataApart, Listed, Queued, Held, Once, pool, kernel
<1>7. UdataApart'
  <2>1. QueuedFor' = QueuedFor /\ HeldFor' = HeldFor /\ ResultFor' = ResultFor
    BY <1>3 DEF QueuedFor, HeldFor, ResultFor, kernel
  <2> QED BY <1>3, <1>4, <2>1 DEF UdataApart, Once, kernel
<1>8. RecordKept'
  BY <1>3, <1>4 DEF RecordKept, pool, kernel
<1>9. PickedHeld'
  BY <1>3 DEF PickedHeld, kernel
<1>10. DrainLast'
  <2>1. \A n \in DOMAIN cq' : cq'[n].data = XIO => n = Len(cq')
    BY <1>3, <1>4
  <2> QED BY <1>3, <1>4, <2>1 DEF DrainLast, Active, kernel, pool
<1>11. (IsFiniteSet(results) /\ ResultBids /\ RefcountExact /\ ResultForRequest)'
  BY <1>3 DEF ResultBids, RefcountExact, ResultForRequest, bufs
<1> QED BY <1>5, <1>6, <1>7, <1>8, <1>9, <1>10, <1>11

LEMMA DrainKeeps ==
    ASSUME PoolInv, fh_xio_drain
    PROVE  PoolInv'
<1> USE DEF PoolInv
<1>1. /\ pc = "idle"
      /\ UNCHANGED <<pool, bufs, buf_freed, picked, buf_ring, results, budget,
                     staged, drained>>
  BY DEF fh_xio_drain
<1>2. (IsFiniteSet(results) /\ ResultBids /\ RefcountExact /\ ResultForRequest)'
  BY <1>1 DEF ResultBids, RefcountExact, ResultForRequest, bufs
<1>3. CASE pc' = "teardown" /\ UNCHANGED <<sq, inflight, cq>>
  <2>1. TypeOK' /\ PickedHeld' /\ DrainLast'
    BY <1>1, <1>3 DEF TypeOK, PickedHeld, DrainLast, Active, pool, bufs
  <2>2. DataApart' /\ UdataApart' /\ RecordKept'
    BY <1>1, <1>3, SameRequests
  <2> QED BY <1>2, <2>1, <2>2
<1>4. CASE /\ SubmitAll /\ pc' = "drain"
           /\ cq' = Append(cq, Cqe([data |-> NULL, for |-> NULL], 0))
  <2> DEFINE c == Cqe([data |-> NULL, for |-> NULL], 0)
  <2>1. c \in Completion /\ c.data = NULL /\ c.has_buf = FALSE
    BY DEF Cqe, Completion
  <2>2. cq' = Append(cq, c)
    BY <1>4
  <2> HIDE DEF c
  <2>3. /\ cq' \in Seq(Completion)
        /\ DOMAIN cq' = 1..Len(cq) + 1 /\ DOMAIN cq = 1..Len(cq)
        /\ Len(cq) \in Nat /\ Len(cq') = Len(cq) + 1
        /\ \A n \in DOMAIN cq : cq'[n] = cq[n]
        /\ cq'[Len(cq) + 1] = c
        /\ Done' = Done /\ DoneFor' = DoneFor
        /\ \A m, n \in DOMAIN cq' :
             cq'[m].data = cq'[n].data /\ cq'[m].data \in DataId => m = n
        /\ \A m, n \in DOMAIN cq' :
             cq'[m].for = cq'[n].for /\ cq'[m].data \in DataId
               /\ cq'[n].data \in DataId => m = n
        /\ \A n \in DOMAIN cq' : cq'[n].data \in DataId =>
             record'[cq'[n].data].udata = cq'[n].for
        /\ \A n \in DOMAIN cq' : cq'[n].has_buf =>
             /\ cq'[n].data \in DataId /\ cq'[n].bid \in Bid
             /\ EndsAt(record'[cq'[n].data], cq'[n])
    BY <1>1, <2>1, <2>2, SentinelAssumption, DrainCqeKeeps DEF pool
  <2>4. /\ sq' = <<>> /\ sq' \in Seq(Entry) /\ Len(sq') <= SqEntries
        /\ inflight' \subseteq Entry
        /\ Queued' = {} /\ Held' = Held \cup Queued
        /\ QueuedFor' = {} /\ HeldFor' = HeldFor \cup QueuedFor
        /\ inflight' = inflight \cup {sq[n] : n \in DOMAIN sq}
    BY <1>4, SubmitMoves
  <2>5. TypeOK'
    BY <1>1, <1>4, <2>3, <2>4 DEF TypeOK, pool, bufs
  <2>6. DataApart'
    <3>1. Listed' = Listed
      BY <1>1 DEF Listed, pool
    <3>2. \A q1, q2 \in inflight' : q1.data = q2.data => q1 = q2
      BY <2>4 DEF DataApart, Once, Held, Queued
    <3> QED BY <1>1, <2>3, <2>4, <3>1, <3>2 DEF DataApart, Once, pool
  <2>7. UdataApart'
    <3>1. ResultFor' = ResultFor
      BY <1>1 DEF ResultFor
    <3>2. \A q1, q2 \in inflight' : q1.for = q2.for => q1 = q2
      BY <2>4, SMTT(30) DEF UdataApart, Once, HeldFor, QueuedFor
    <3> QED BY <1>1, <2>3, <2>4, <3>1, <3>2 DEF UdataApart, Once
  <2>8. RecordKept'
    BY <1>1, <2>3, <2>4 DEF RecordKept, pool
  <2>9. PickedHeld'
    BY <1>1, <2>4 DEF PickedHeld
  <2>10. DrainLast'
    <3>1. \A n \in DOMAIN cq' : cq'[n].data # XIO
      BY <1>1, <2>1, <2>3, SentinelAssumption DEF DrainLast, Active
    <3> QED BY <1>1, <1>4, <2>4, <3>1 DEF DrainLast, Active, pool
  <2> QED BY <1>2, <2>5, <2>6, <2>7, <2>8, <2>9, <2>10
<1> QED BY <1>3, <1>4 DEF fh_xio_drain

(* The queue without its head. *)
LEMMA PopFacts ==
    ASSUME PoolInv, cq # <<>>, PopCq, NEW c, c = Head(cq)
    PROVE  /\ c \in Completion /\ c = cq[1] /\ 1 \in DOMAIN cq
           /\ Len(cq) \in Nat \ {0} /\ DOMAIN cq = 1..Len(cq)
           /\ cq' \in Seq(Completion) /\ Len(cq') = Len(cq) - 1
           /\ DOMAIN cq' = 1..Len(cq) - 1
           /\ \A n \in DOMAIN cq' : cq'[n] = cq[n + 1] /\ n + 1 \in DOMAIN cq
           /\ Done' = Done \ {c.data}
           /\ DoneFor' = IF c.data \in DataId THEN DoneFor \ {c.for} ELSE DoneFor
           /\ c.data \in DataId => c.data \in Done /\ c.for \in DoneFor
           /\ \A m, n \in DOMAIN cq' :
                cq'[m].data = cq'[n].data /\ cq'[m].data \in DataId => m = n
           /\ \A m, n \in DOMAIN cq' :
                cq'[m].for = cq'[n].for /\ cq'[m].data \in DataId
                  /\ cq'[n].data \in DataId => m = n
<1> USE DEF PoolInv
<1>1. /\ cq \in Seq(Completion) /\ Len(cq) \in Nat \ {0}
      /\ DOMAIN cq = 1..Len(cq) /\ c = cq[1] /\ c \in Completion
      /\ cq' \in Seq(Completion) /\ Len(cq') = Len(cq) - 1
      /\ DOMAIN cq' = 1..Len(cq) - 1
      /\ \A n \in 1..Len(cq) - 1 : cq'[n] = cq[n + 1]
  BY EmptySeq, LenProperties DEF TypeOK, PopCq
<1>2. \A n \in DOMAIN cq' : cq'[n] = cq[n + 1] /\ n + 1 \in DOMAIN cq
  BY <1>1
<1>3. 1 \in DOMAIN cq /\ \A n \in DOMAIN cq : n # 1 => n - 1 \in DOMAIN cq'
                                               /\ cq'[n - 1] = cq[n]
  BY <1>1
<1>4. \A m, n \in DOMAIN cq :
        cq[m].data = cq[n].data /\ cq[m].data \in DataId => m = n
  BY DEF DataApart
<1>5. Done' = Done \ {c.data}
  <2>1. \A n \in DOMAIN cq' : cq'[n].data \in DataId => cq'[n].data # c.data
    BY <1>1, <1>2, <1>3, <1>4
  <2>2. \A d \in Done : d # c.data => d \in Done'
    BY <1>1, <1>3 DEF Done
  <2>3. \A d \in Done' : d \in Done /\ d # c.data
    BY <1>2, <2>1 DEF Done
  <2> QED BY <2>2, <2>3
<1>6. \A m, n \in DOMAIN cq :
        cq[m].for = cq[n].for /\ cq[m].data \in DataId
          /\ cq[n].data \in DataId => m = n
  BY DEF UdataApart
<1>7. /\ \A m, n \in DOMAIN cq' :
           cq'[m].data = cq'[n].data /\ cq'[m].data \in DataId => m = n
      /\ \A m, n \in DOMAIN cq' :
           cq'[m].for = cq'[n].for /\ cq'[m].data \in DataId
             /\ cq'[n].data \in DataId => m = n
  <2>1. \A m, n \in DOMAIN cq' : m + 1 = n + 1 => m = n
    BY <1>1
  <2> QED BY <1>2, <1>4, <1>6, <2>1
<1>8. CASE c.data \in DataId
  <2>1. \A n \in DOMAIN cq' : cq'[n].data \in DataId => cq'[n].for # c.for
    BY <1>1, <1>2, <1>3, <1>6, <1>8
  <2>2. \A u \in DoneFor : u # c.for => u \in DoneFor'
    BY <1>1, <1>3 DEF DoneFor
  <2>3. \A u \in DoneFor' : u \in DoneFor /\ u # c.for
    BY <1>2, <2>1 DEF DoneFor
  <2>4. DoneFor' = DoneFor \ {c.for}
    BY <2>2, <2>3
  <2>5. c.data \in Done /\ c.for \in DoneFor
    BY <1>1, <1>3, <1>8 DEF Done, DoneFor
  <2> QED BY <1>1, <1>2, <1>3, <1>5, <1>7, <1>8, <2>4, <2>5
<1>9. CASE c.data \notin DataId
  <2>1. \A u \in DoneFor : u \in DoneFor'
    BY <1>1, <1>3, <1>9 DEF DoneFor
  <2>2. \A u \in DoneFor' : u \in DoneFor
    BY <1>2 DEF DoneFor
  <2>3. DoneFor' = DoneFor
    BY <2>1, <2>2
  <2> QED BY <1>1, <1>2, <1>3, <1>5, <1>7, <1>9, <2>3
<1> QED BY <1>8, <1>9

(* A record that was neither listed nor anywhere else is now listed or free. *)
LEMMA DisownFacts ==
    ASSUME NEW list \in Seq(DataId), NEW d \in DataId,
           NEW hp, hp \subseteq DataId, Once(list), d \notin ToSet(list),
           d \in hp, Disown(d, hp, list)
    PROVE  /\ data_list' \in Seq(DataId) /\ Once(data_list')
           /\ heap' \subseteq DataId
           /\ \/ ToSet(data_list') = ToSet(list) /\ heap' = hp \ {d}
              \/ ToSet(data_list') = ToSet(list) \cup {d} /\ heap' = hp
<1>1. CASE Len(list) >= MaxFree
  BY <1>1 DEF Disown
<1>2. CASE ~(Len(list) >= MaxFree)
  <2>1. data_list' = Append(list, d) /\ heap' = hp
    BY <1>2 DEF Disown
  <2>2. /\ data_list' \in Seq(DataId) /\ DOMAIN data_list' = 1..Len(list) + 1
        /\ DOMAIN list = 1..Len(list) /\ Len(list) \in Nat
        /\ \A n \in DOMAIN list : data_list'[n] = list[n]
        /\ data_list'[Len(list) + 1] = d
    BY <2>1
  <2>3. \A n \in DOMAIN list : list[n] # d
    BY DEF ToSet
  <2>4. Once(data_list')
    BY <2>2, <2>3 DEF Once
  <2>5. ToSet(data_list') = ToSet(list) \cup {d}
    BY <2>2 DEF ToSet
  <2> QED BY <2>1, <2>2, <2>4, <2>5
<1> QED BY <1>1, <1>2

(* The result of a completion whose udata no result has. *)
LEMMA ResultFacts ==
    ASSUME PoolInv, NEW c \in Completion, c.data \in DataId,
           c.has_buf => c.bid \in Bid
    PROVE  \A r : r = Result(c) =>
             /\ r \in [udata : Udata \cup {NULL}, for : Udata \cup {NULL},
                       has_buf : BOOLEAN, bid : Nat, off : Nat, at : Nat,
                       len : Nat]
             /\ r.udata = record[c.data].udata /\ r.for = c.for
             /\ r.has_buf = c.has_buf /\ r.bid = c.bid /\ r.at = c.at
             /\ r.len = c.len
             /\ c.has_buf => r.off = buf_offsets[c.bid]
<1>1. record[c.data].udata \in Udata \cup {NULL}
  BY DEF PoolInv, TypeOK
<1>2. (IF c.has_buf THEN buf_offsets[c.bid] ELSE 0) \in Nat
  <2>1. c.has_buf => buf_offsets[c.bid] \in 0..BufSize
    BY DEF PoolInv, TypeOK
  <2> QED BY <2>1, BufAssumption
<1> QED BY <1>1, <1>2 DEF Result, Completion

(* The results that hold buffer b. *)
HeldOf(b) == {r \in results : r.has_buf /\ r.bid = b}

LEMMA CountAdded ==
    ASSUME NEW S, IsFiniteSet(S), NEW x, x \notin S
    PROVE  Cardinality(S \cup {x}) = Cardinality(S) + 1
BY FS_AddElement

LEMMA CountRemoved ==
    ASSUME NEW S, IsFiniteSet(S), NEW x \in S
    PROVE  Cardinality(S \ {x}) = Cardinality(S) - 1
BY FS_RemoveElement

(* One result more is one reference more. *)
LEMMA ResultCounted ==
    ASSUME PoolInv, NEW r, r \notin results, results' = results \cup {r},
           r.has_buf \in BOOLEAN, r.has_buf => r.bid \in Bid,
           buf_refcount' = IF r.has_buf
                           THEN [buf_refcount EXCEPT ![r.bid] = @ + 1]
                           ELSE buf_refcount
    PROVE  IsFiniteSet(results)' /\ RefcountExact'
<1> USE DEF PoolInv
<1>1. IsFiniteSet(results')
  BY FS_AddElement
<1>2. ASSUME NEW b \in Bid
      PROVE  buf_refcount'[b] = Cardinality(HeldOf(b)')
  <2>1. IsFiniteSet(HeldOf(b))
    BY FS_Subset DEF HeldOf
  <2>2. buf_refcount[b] = Cardinality(HeldOf(b)) /\ r \notin HeldOf(b)
    BY DEF RefcountExact, HeldOf
  <2>3. CASE r.has_buf /\ r.bid = b
    <3>1. HeldOf(b)' = HeldOf(b) \cup {r}
      BY <2>3 DEF HeldOf
    <3>2. buf_refcount'[b] = buf_refcount[b] + 1
      BY <2>3 DEF TypeOK
    <3> QED BY <2>1, <2>2, <3>1, <3>2, CountAdded
  <2>4. CASE ~(r.has_buf /\ r.bid = b)
    <3>1. HeldOf(b)' = HeldOf(b)
      BY <2>4 DEF HeldOf
    <3>2. buf_refcount'[b] = buf_refcount[b]
      BY <2>4 DEF TypeOK
    <3> QED BY <2>2, <3>1, <3>2
  <2> QED BY <2>3, <2>4
<1> QED BY <1>1, <1>2 DEF RefcountExact, HeldOf

(* One result less is one reference less. *)
LEMMA FreeCounted ==
    ASSUME PoolInv, NEW r \in results, results' = results \ {r},
           buf_refcount' = IF r.has_buf
                           THEN [buf_refcount EXCEPT ![r.bid] = @ - 1]
                           ELSE buf_refcount
    PROVE  /\ IsFiniteSet(results)' /\ RefcountExact'
           /\ buf_refcount' \in [Bid -> Nat]
<1> USE DEF PoolInv
<1>1. IsFiniteSet(results')
  BY FS_RemoveElement
<1>2. ASSUME NEW b \in Bid
      PROVE  buf_refcount'[b] = Cardinality(HeldOf(b)')
             /\ buf_refcount'[b] \in Nat
  <2>1. IsFiniteSet(HeldOf(b))
    BY FS_Subset DEF HeldOf
  <2>2. buf_refcount[b] = Cardinality(HeldOf(b)) /\ buf_refcount[b] \in Nat
    BY DEF RefcountExact, HeldOf, TypeOK
  <2>3. CASE r.has_buf /\ r.bid = b
    <3>1. HeldOf(b)' = HeldOf(b) \ {r} /\ r \in HeldOf(b)
      BY <2>3 DEF HeldOf
    <3>2. buf_refcount'[b] = buf_refcount[b] - 1
      BY <2>3 DEF TypeOK
    <3>3. Cardinality(HeldOf(b)') = Cardinality(HeldOf(b)) - 1
      BY <2>1, <3>1, CountRemoved
    <3>4. Cardinality(HeldOf(b)') \in Nat
      BY <2>1, <3>1, FS_RemoveElement, FS_CardinalityType
    <3> QED BY <2>2, <3>2, <3>3, <3>4
  <2>4. CASE ~(r.has_buf /\ r.bid = b)
    <3>1. HeldOf(b)' = HeldOf(b)
      BY <2>4 DEF HeldOf
    <3>2. buf_refcount'[b] = buf_refcount[b]
      BY <2>4 DEF TypeOK
    <3> QED BY <2>2, <3>1, <3>2
  <2> QED BY <2>3, <2>4
<1>3. buf_refcount' = [b \in Bid |-> buf_refcount'[b]]
  BY DEF TypeOK
<1> QED BY <1>1, <1>2, <1>3 DEF RefcountExact, HeldOf

LEMMA ReapKeeps ==
    ASSUME PoolInv, Reap
    PROVE  PoolInv'
<1> DEFINE c == Head(cq)
<1>1. /\ pc = "wait" /\ budget > 0 /\ cq # <<>> /\ PopCq
      /\ results' = results \cup {Result(c)}
      /\ IF c.has_buf THEN TakeRef(c) ELSE UNCHANGED bufs
      /\ Disown(c.data, heap, data_list)
      /\ budget' = budget - 1
      /\ UNCHANGED <<record, buf_freed, sq, kernel, staged, drained, pc>>
  BY DEF Reap
<1>2. c = Head(cq)
  OBVIOUS
<1> HIDE DEF c
<1>3. /\ c \in Completion /\ c = cq[1] /\ 1 \in DOMAIN cq
      /\ Len(cq) \in Nat \ {0} /\ DOMAIN cq = 1..Len(cq)
      /\ cq' \in Seq(Completion) /\ Len(cq') = Len(cq) - 1
      /\ DOMAIN cq' = 1..Len(cq) - 1
      /\ \A n \in DOMAIN cq' : cq'[n] = cq[n + 1] /\ n + 1 \in DOMAIN cq
      /\ Done' = Done \ {c.data}
      /\ DoneFor' = IF c.data \in DataId THEN DoneFor \ {c.for} ELSE DoneFor
      /\ c.data \in DataId => c.data \in Done /\ c.for \in DoneFor
      /\ \A m, n \in DOMAIN cq' :
           cq'[m].data = cq'[n].data /\ cq'[m].data \in DataId => m = n
      /\ \A m, n \in DOMAIN cq' :
           cq'[m].for = cq'[n].for /\ cq'[m].data \in DataId
             /\ cq'[n].data \in DataId => m = n
  BY <1>1, <1>2, PopFacts
<1>4. c.data \in DataId /\ c.data \in Done /\ c.for \in DoneFor
  BY <1>1, <1>3 DEF PoolInv, DrainLast, Active
<1>5. record[c.data].udata = c.for /\ c.has_buf \in BOOLEAN
      /\ (c.has_buf => c.bid \in Bid)
  BY <1>3, <1>4 DEF PoolInv, RecordKept, Completion
<1>6. PICK r : r = Result(c)
  OBVIOUS
<1>7. /\ r \in [udata : Udata \cup {NULL}, for : Udata \cup {NULL},
                has_buf : BOOLEAN, bid : Nat, off : Nat, at : Nat, len : Nat]
      /\ r.udata = c.for /\ r.for = c.for
      /\ r.has_buf = c.has_buf /\ r.bid = c.bid
  BY <1>3, <1>4, <1>5, <1>6, ResultFacts
<1>8. results' = results \cup {r}
  BY <1>1, <1>6
<1>9. r \notin results
  BY <1>4, <1>7 DEF PoolInv, UdataApart, ResultFor
<1>10. /\ buf_refcount' = IF r.has_buf
                          THEN [buf_refcount EXCEPT ![r.bid] = @ + 1]
                          ELSE buf_refcount
       /\ buf_refcount' \in [Bid -> Nat] /\ buf_offsets' \in [Bid -> 0..BufSize]
       /\ buf_done' \in [Bid -> BOOLEAN]
  <2>1. CASE ~c.has_buf
    BY <1>1, <1>7, <2>1 DEF bufs, PoolInv, TypeOK
  <2>2. CASE c.has_buf
    <3>1. /\ buf_refcount' = [buf_refcount EXCEPT ![c.bid] = @ + 1]
          /\ buf_done' = [buf_done EXCEPT ![c.bid] = @ \/ ~c.buf_more]
          /\ buf_offsets' = [buf_offsets EXCEPT
                               ![c.bid] = Lesser(@ + Consumed(record[c.data], c.res),
                                                 BufSize)]
      BY <1>1, <2>2 DEF TakeRef
    <3>2. EndsAt(record[c.data], c)
      BY <1>3, <2>2 DEF PoolInv, RecordKept
    <3>3. Consumed(record[c.data], c.res) \in Nat
      <4>1. record[c.data].size \in Nat
        <5>1. record[c.data].size \in Size \cup {0}
          BY <1>4 DEF PoolInv, TypeOK
        <5>2. \A z \in Size \cup {0} : z \in Nat
          BY SizeAssumption
        <5> QED BY <5>1, <5>2
      <4>2. c.res \in Int
        BY <1>3 DEF Completion
      <4> QED BY <4>1, <4>2 DEF Consumed, Lesser
    <3>4. Lesser(buf_offsets[c.bid] + Consumed(record[c.data], c.res), BufSize)
            \in 0..BufSize
      <4>1. buf_offsets[c.bid] \in 0..BufSize
        BY <1>5, <2>2 DEF PoolInv, TypeOK
      <4> QED BY <3>3, <4>1, BufAssumption DEF Lesser
    <3>5. buf_offsets' \in [Bid -> 0..BufSize]
      BY <3>1, <3>4 DEF PoolInv, TypeOK
    <3>6. buf_refcount' \in [Bid -> Nat]
      <4>1. buf_refcount \in [Bid -> Nat]
        BY DEF PoolInv, TypeOK
      <4>2. buf_refcount[c.bid] + 1 \in Nat
        BY <1>5, <2>2, <4>1
      <4> QED BY <3>1, <4>1, <4>2
    <3>7. buf_done' \in [Bid -> BOOLEAN]
      <4>1. buf_done \in [Bid -> BOOLEAN]
        BY DEF PoolInv, TypeOK
      <4>2. (buf_done[c.bid] \/ ~c.buf_more) \in BOOLEAN
        OBVIOUS
      <4> QED BY <3>1, <4>1, <4>2, Zenon
    <3> QED BY <1>7, <2>2, <3>1, <3>5, <3>6, <3>7
  <2> QED BY <2>1, <2>2
<1>11. IsFiniteSet(results)' /\ RefcountExact'
  BY <1>5, <1>7, <1>8, <1>9, <1>10, ResultCounted
<1>12. ResultBids' /\ ResultForRequest'
  BY <1>5, <1>7, <1>8 DEF PoolInv, ResultBids, ResultForRequest
<1>13. /\ data_list' \in Seq(DataId) /\ Once(data_list')
       /\ heap' \subseteq DataId
       /\ \/ Listed' = Listed /\ heap' = heap \ {c.data}
          \/ Listed' = Listed \cup {c.data} /\ heap' = heap
  <2>1. c.data \notin ToSet(data_list) /\ c.data \in heap
    BY <1>4 DEF PoolInv, DataApart, Listed
  <2>2. Once(data_list) /\ data_list \in Seq(DataId) /\ heap \subseteq DataId
    BY DEF PoolInv, DataApart, TypeOK
  <2> QED BY <1>1, <1>4, <2>1, <2>2, DisownFacts DEF Listed
<1>14. TypeOK'
  <2>1. budget' \in 0..MaxResults
    BY <1>1, LimitAssumption DEF PoolInv, TypeOK
  <2> QED BY <1>1, <1>3, <1>7, <1>8, <1>10, <1>13, <2>1
          DEF PoolInv, TypeOK, kernel
<1>15. DataApart'
  <2>1. Queued' = Queued /\ Held' = Held
    BY <1>1 DEF Queued, Held, kernel
  <2> QED BY <1>1, <1>3, <1>4, <1>13, <2>1 DEF PoolInv, DataApart, Once, kernel
<1>16. UdataApart'
  <2>1. QueuedFor' = QueuedFor /\ HeldFor' = HeldFor
    BY <1>1 DEF QueuedFor, HeldFor, kernel
  <2>2. ResultFor' = ResultFor \cup {c.for} /\ DoneFor' = DoneFor \ {c.for}
    BY <1>3, <1>4, <1>7, <1>8 DEF ResultFor
  <2>3. \A r1, r2 \in results' : r1.for = r2.for => r1 = r2
    BY <1>4, <1>7, <1>8 DEF PoolInv, UdataApart, ResultFor
  <2> QED BY <1>1, <1>3, <1>4, <2>1, <2>2, <2>3
          DEF PoolInv, UdataApart, Once, kernel
<1>17. RecordKept'
  BY <1>1, <1>3 DEF PoolInv, RecordKept, kernel
<1>18. PickedHeld'
  BY <1>1 DEF PoolInv, PickedHeld, kernel
<1>19. DrainLast'
  BY <1>1, <1>3 DEF PoolInv, DrainLast, Active, kernel
<1> QED BY <1>11, <1>12, <1>14, <1>15, <1>16, <1>17, <1>18, <1>19 DEF PoolInv

LEMMA FreeResultKeeps ==
    ASSUME PoolInv, NEW r \in results, fh_xio_result_free_internal(r)
    PROVE  PoolInv'
<1>1. /\ pc \in {"idle", "free"} /\ pc' = "free" /\ results' = results \ {r}
      /\ UNCHANGED <<pool, buf_freed, sq, kernel, cq, budget, drained>>
  BY DEF fh_xio_result_free_internal
<1>2. r.has_buf => r.bid \in Bid
  BY DEF PoolInv, ResultBids
<1>3. /\ buf_refcount' = IF r.has_buf
                         THEN [buf_refcount EXCEPT ![r.bid] = @ - 1]
                         ELSE buf_refcount
      /\ buf_offsets' \in [Bid -> 0..BufSize] /\ buf_done' \in [Bid -> BOOLEAN]
      /\ staged' \in Seq(Bid)
  <2> USE DEF PoolInv, TypeOK
  <2>1. CASE ~r.has_buf
    BY <2>1 DEF fh_xio_result_free_internal, bufs
  <2>2. CASE r.has_buf /\ ~Restorable(r.bid)
    BY <2>2 DEF fh_xio_result_free_internal
  <2>3. CASE r.has_buf /\ Restorable(r.bid)
    <3>1. /\ buf_refcount' = [buf_refcount EXCEPT ![r.bid] = @ - 1]
          /\ buf_offsets' = [buf_offsets EXCEPT ![r.bid] = 0]
          /\ buf_done' = [buf_done EXCEPT ![r.bid] = FALSE]
          /\ staged' = Append(staged, r.bid)
      BY <2>3 DEF fh_xio_result_free_internal, Rewind, Stage
    <3> QED BY <1>2, <2>3, <3>1, BufAssumption
  <2> QED BY <2>1, <2>2, <2>3
<1>4. IsFiniteSet(results)' /\ RefcountExact' /\ buf_refcount' \in [Bid -> Nat]
  BY <1>1, <1>3, FreeCounted
<1>5. TypeOK'
  BY <1>1, <1>3, <1>4 DEF PoolInv, TypeOK, pool, kernel
<1>6. DataApart' /\ UdataApart' /\ RecordKept'
  BY <1>1, SameRequests DEF PoolInv, kernel
<1>7. PickedHeld' /\ DrainLast'
  BY <1>1 DEF PoolInv, PickedHeld, DrainLast, Active, kernel, pool
<1>8. ResultBids' /\ ResultForRequest'
  BY <1>1 DEF PoolInv, ResultBids, ResultForRequest
<1> QED BY <1>4, <1>5, <1>6, <1>7, <1>8 DEF PoolInv

(* The steps that move neither requests nor results. *)
LEMMA QuietKeeps ==
    ASSUME PoolInv, TypeOK', UNCHANGED <<pool, bufs, buf_freed, sq, inflight,
                                         picked, cq, results, drained>>,
           Active' => Active, pc' = "drain" => pc = "drain",
           pc \in {"teardown", "freed"} => pc' = pc
    PROVE  PoolInv'
<1>1. DataApart' /\ UdataApart' /\ RecordKept'
  BY SameRequests DEF PoolInv
<1>2. PickedHeld' /\ DrainLast'
  BY DEF PoolInv, PickedHeld, DrainLast, Active, pool
<1>3. (IsFiniteSet(results) /\ ResultBids /\ RefcountExact /\ ResultForRequest)'
  BY DEF PoolInv, ResultBids, RefcountExact, ResultForRequest, bufs
<1> QED BY <1>1, <1>2, <1>3 DEF PoolInv

LEMMA WaitReturnsKeeps ==
    ASSUME PoolInv, WaitReturns
    PROVE  PoolInv'
<1>1. TypeOK'
  BY LimitAssumption DEF PoolInv, TypeOK, WaitReturns, pool, bufs, kernel
<1> QED BY <1>1, QuietKeeps DEF WaitReturns, Active, kernel

LEMMA DrainFailsKeeps ==
    ASSUME PoolInv, DrainFails
    PROVE  PoolInv'
<1>1. TypeOK'
  BY DEF PoolInv, TypeOK, DrainFails, pool, bufs, kernel
<1> QED BY <1>1, QuietKeeps DEF DrainFails, Active, kernel

(* What Advance publishes. *)
LEMMA AdvanceFacts ==
    ASSUME TypeOK, Advance
    PROVE  /\ buf_ring' \in Seq(Bid \X (0..BufSize - 1))
           /\ Len(buf_ring') = Len(buf_ring) + Len(staged)
           /\ \A n \in DOMAIN buf_ring : buf_ring'[n] = buf_ring[n]
           /\ \A n \in 1..Len(staged) :
                buf_ring'[Len(buf_ring) + n] = <<staged[n], 0>>
           /\ staged' = <<>>
<1> DEFINE S == Bid \X (0..BufSize - 1)
           t == [n \in DOMAIN staged |-> <<staged[n], 0>>]
<1>1. staged \in Seq(Bid) /\ buf_ring \in Seq(S) /\ DOMAIN staged = 1..Len(staged)
      /\ Len(staged) \in Nat
  BY DEF TypeOK
<1>2. \A n \in DOMAIN staged : <<staged[n], 0>> \in S
  BY <1>1, BufAssumption
<1>3. t \in Seq(S) /\ Len(t) = Len(staged)
      /\ \A n \in 1..Len(staged) : t[n] = <<staged[n], 0>>
  BY <1>1, <1>2
<1>4. buf_ring' = buf_ring \o t /\ staged' = <<>>
  BY DEF Advance
<1> HIDE DEF S, t
<1>5. /\ buf_ring \o t \in Seq(S) /\ Len(buf_ring \o t) = Len(buf_ring) + Len(t)
      /\ \A n \in 1..Len(buf_ring) + Len(t) :
           (buf_ring \o t)[n] = IF n <= Len(buf_ring) THEN buf_ring[n]
                                ELSE t[n - Len(buf_ring)]
  BY <1>1, <1>3, ConcatProperties
<1>6. \A n \in DOMAIN buf_ring : buf_ring'[n] = buf_ring[n]
  BY <1>1, <1>3, <1>4, <1>5
<1>7. \A n \in 1..Len(staged) : buf_ring'[Len(buf_ring) + n] = t[n]
  BY <1>1, <1>3, <1>4, <1>5
<1> QED BY <1>3, <1>4, <1>5, <1>6, <1>7 DEF S

LEMMA AdvanceKeeps ==
    ASSUME PoolInv, Advance
    PROVE  PoolInv'
<1>1. TypeOK'
  <2>1. buf_ring' \in Seq(Bid \X (0..BufSize - 1)) /\ staged' = <<>>
    BY AdvanceFacts DEF PoolInv
  <2>2. staged' \in Seq(Bid)
    BY <2>1
  <2> QED BY <2>1, <2>2 DEF PoolInv, TypeOK, Advance, pool, bufs
<1> QED BY <1>1, QuietKeeps DEF Advance, Active

LEMMA TeardownKeeps ==
    ASSUME PoolInv, Teardown
    PROVE  PoolInv'
<1> USE DEF PoolInv
<1>1. /\ pc = "teardown" /\ pc' = "freed" /\ buf_freed' = TRUE
      /\ heap' = heap \ Listed /\ data_list' = <<>>
      /\ UNCHANGED <<record, bufs, sq, kernel, cq, results, budget, staged,
                     drained>>
  BY DEF Teardown, Listed
<1>2. TypeOK'
  BY <1>1 DEF TypeOK, bufs, kernel
<1>3. DataApart'
  <2>1. Queued' = Queued /\ Held' = Held /\ Done' = Done
    BY <1>1 DEF Queued, Held, Done, kernel
  <2>2. Listed' = {} /\ Once(data_list')
    BY <1>1 DEF Listed, ToSet, Once
  <2> QED BY <1>1, <2>1, <2>2 DEF DataApart, Once, kernel
<1>4. UdataApart'
  <2>1. QueuedFor' = QueuedFor /\ HeldFor' = HeldFor /\ DoneFor' = DoneFor
        /\ ResultFor' = ResultFor
    BY <1>1 DEF QueuedFor, HeldFor, DoneFor, ResultFor, kernel
  <2> QED BY <1>1, <2>1 DEF UdataApart, Once, kernel
<1>5. RecordKept' /\ PickedHeld'
  BY <1>1 DEF RecordKept, PickedHeld, kernel
<1>6. DrainLast'
  BY <1>1 DEF DrainLast, Active, kernel
<1>7. (IsFiniteSet(results) /\ ResultBids /\ RefcountExact /\ ResultForRequest)'
  BY <1>1 DEF ResultBids, RefcountExact, ResultForRequest, bufs
<1> QED BY <1>2, <1>3, <1>4, <1>5, <1>6, <1>7

LEMMA DrainReapKeeps ==
    ASSUME PoolInv, DrainReap
    PROVE  PoolInv'
<1> USE DEF PoolInv
<1> DEFINE c == Head(cq)
<1>1. /\ pc = "drain" /\ cq # <<>> /\ PopCq
      /\ IF c.data \in DataId THEN heap' = heap \ {c.data} ELSE heap' = heap
      /\ drained' = (c.data = XIO)
      /\ pc' = IF c.data = XIO THEN "teardown" ELSE pc
      /\ UNCHANGED <<record, data_list, bufs, buf_freed, sq, kernel, results,
                     budget, staged>>
  BY DEF DrainReap, DrainOne
<1>2. c = Head(cq)
  OBVIOUS
<1> HIDE DEF c
<1>3. /\ c \in Completion /\ c = cq[1] /\ 1 \in DOMAIN cq
      /\ Len(cq) \in Nat \ {0} /\ DOMAIN cq = 1..Len(cq)
      /\ cq' \in Seq(Completion) /\ Len(cq') = Len(cq) - 1
      /\ DOMAIN cq' = 1..Len(cq) - 1
      /\ \A n \in DOMAIN cq' : cq'[n] = cq[n + 1] /\ n + 1 \in DOMAIN cq
      /\ Done' = Done \ {c.data}
      /\ DoneFor' = IF c.data \in DataId THEN DoneFor \ {c.for} ELSE DoneFor
      /\ c.data \in DataId => c.data \in Done /\ c.for \in DoneFor
      /\ \A m, n \in DOMAIN cq' :
           cq'[m].data = cq'[n].data /\ cq'[m].data \in DataId => m = n
      /\ \A m, n \in DOMAIN cq' :
           cq'[m].for = cq'[n].for /\ cq'[m].data \in DataId
             /\ cq'[n].data \in DataId => m = n
  BY <1>1, <1>2, PopFacts
<1>4. TypeOK'
  <2>1. heap' \subseteq DataId /\ drained' \in BOOLEAN
        /\ pc' \in {"drain", "teardown"}
    BY <1>1 DEF TypeOK
  <2> QED BY <1>1, <1>3, <2>1 DEF TypeOK, bufs, kernel
<1>5. DataApart'
  <2>1. Listed' = Listed /\ Queued' = Queued /\ Held' = Held
    BY <1>1 DEF Listed, Queued, Held, kernel
  <2>2. c.data \notin DataId => c.data \notin Done
    BY DEF Done
  <2>3. heap' = Listed' \cup Queued' \cup Held' \cup Done'
    BY <1>1, <1>3, <2>1, <2>2 DEF DataApart
  <2> QED BY <1>1, <1>3, <2>1, <2>3 DEF DataApart, Once, kernel
<1>6. UdataApart'
  <2>1. QueuedFor' = QueuedFor /\ HeldFor' = HeldFor /\ ResultFor' = ResultFor
    BY <1>1 DEF QueuedFor, HeldFor, ResultFor, kernel
  <2>2. DoneFor' \subseteq DoneFor
    BY <1>3
  <2> QED BY <1>1, <1>3, <2>1, <2>2 DEF UdataApart, Once, kernel
<1>7. RecordKept' /\ PickedHeld'
  BY <1>1, <1>3 DEF RecordKept, PickedHeld, kernel
<1>8. DrainLast'
  <2>1. CASE c.data = XIO
    <3>1. Len(cq) = 1 /\ inflight = {} /\ sq = <<>>
      BY <1>1, <1>3, <2>1 DEF DrainLast
    <3>2. cq' = <<>>
      BY <1>3, <3>1, EmptySeq, LenProperties
    <3> QED BY <1>1, <2>1, <3>1, <3>2 DEF DrainLast, Active, kernel
  <2>2. CASE c.data # XIO
    <3>1. drained' = FALSE /\ pc' = "drain"
      BY <1>1, <2>2
    <3>2. \A n \in DOMAIN cq' : cq'[n].data = XIO =>
            n = Len(cq') /\ inflight = {}
      BY <1>1, <1>3 DEF DrainLast
    <3> QED BY <1>1, <3>1, <3>2 DEF DrainLast, Active, kernel
  <2> QED BY <2>1, <2>2
<1>9. (IsFiniteSet(results) /\ ResultBids /\ RefcountExact /\ ResultForRequest)'
  BY <1>1 DEF ResultBids, RefcountExact, ResultForRequest, bufs
<1> QED BY <1>4, <1>5, <1>6, <1>7, <1>8, <1>9

(* What fh_xio_data_get gives is nowhere else. *)
LEMMA DataGetsFacts ==
    ASSUME PoolInv, NEW g \in DataGets
    PROVE  /\ g[1] \in DataId /\ g[2] \subseteq DataId /\ g[3] \in Seq(DataId)
           /\ Once(g[3]) /\ g[1] \notin ToSet(g[3]) /\ g[1] \in g[2]
           /\ g[1] \notin Queued \cup Held \cup Done
           /\ g[2] = Listed \cup Queued \cup Held \cup Done \cup {g[1]}
           /\ Listed \ {g[1]} = ToSet(g[3])
<1> USE DEF PoolInv
<1>1. /\ data_list \in Seq(DataId) /\ heap \subseteq DataId /\ Once(data_list)
      /\ heap = Listed \cup Queued \cup Held \cup Done
      /\ Listed \cap (Queued \cup Held \cup Done) = {}
  BY DEF TypeOK, DataApart
<1>2. CASE data_list # <<>>
  <2> DEFINE n == Len(data_list)
             f == SubSeq(data_list, 1, n - 1)
  <2>1. n \in Nat \ {0} /\ DOMAIN data_list = 1..n
    BY <1>1, <1>2, EmptySeq, LenProperties
  <2>2. g = <<data_list[n], heap, f>>
    BY <1>2 DEF DataGets, Last, Front
  <2>3. f \in Seq(DataId) /\ DOMAIN f = 1..n - 1
        /\ \A k \in 1..n - 1 : f[k] = data_list[k]
    BY <1>1, <2>1
  <2> HIDE DEF f, n
  <2>4. g[1] = data_list[n] /\ g[2] = heap /\ g[3] = f
    BY <2>2
  <2>5. n \in DOMAIN data_list /\ \A k \in DOMAIN data_list : k # n => k \in 1..n - 1
    BY <2>1
  <2>6. data_list[n] \in Listed /\ data_list[n] \in DataId
    BY <1>1, <2>1, <2>5 DEF Listed, ToSet
  <2>7. Once(f) /\ data_list[n] \notin ToSet(f)
    BY <1>1, <2>1, <2>3 DEF Once, ToSet
  <2>8. Listed \ {data_list[n]} = ToSet(f)
    BY <2>1, <2>3, <2>5, <2>7 DEF Listed, ToSet
  <2> QED BY <1>1, <2>3, <2>4, <2>6, <2>7, <2>8
<1>3. CASE data_list = <<>>
  <2>1. PICK d \in DataId \ heap : g = <<d, heap \cup {d}, <<>>>>
    BY <1>3 DEF DataGets
  <2>2. g[1] = d /\ g[2] = heap \cup {d} /\ g[3] = <<>>
    BY <2>1
  <2>3. Listed = {} /\ ToSet(<<>>) = {} /\ Once(<<>>)
    BY <1>3 DEF Listed, ToSet, Once
  <2> QED BY <1>1, <2>1, <2>2, <2>3
<1> QED BY <1>2, <1>3

LEMMA RequestKeeps ==
    ASSUME PoolInv, NEW op \in Op, NEW u \in Udata, NEW size \in Size,
           NEW select \in BOOLEAN, Request(op, u, size, select)
    PROVE  PoolInv'
<1> USE DEF PoolInv
<1>1. PICK g \in DataGets :
        LET q == [data |-> g[1], for |-> u, op |-> op, size |-> size,
                  select |-> select]
        IN \/ /\ heap' = g[2] /\ data_list' = g[3]
              /\ record' = [record EXCEPT ![g[1]] = [op |-> op, udata |-> u,
                                                     size |-> size]]
              /\ IF Len(sq) < SqEntries
                 THEN sq' = Append(sq, q) /\ UNCHANGED inflight
                 ELSE sq' = <<q>> /\ inflight' = inflight \cup ToSet(sq)
           \/ /\ Len(sq) = SqEntries
              /\ Disown(g[1], g[2], g[3])
              /\ UNCHANGED <<record, sq, inflight>>
  BY DEF Request
<1>2. /\ pc = "idle" /\ Free(u)
      /\ UNCHANGED <<bufs, buf_freed, picked, buf_ring, cq, results, budget,
                     staged, drained, pc>>
  BY DEF Request
<1>3. /\ g[1] \in DataId /\ g[2] \subseteq DataId /\ g[3] \in Seq(DataId)
      /\ Once(g[3]) /\ g[1] \notin ToSet(g[3]) /\ g[1] \in g[2]
      /\ g[1] \notin Queued \cup Held \cup Done
      /\ g[2] = Listed \cup Queued \cup Held \cup Done \cup {g[1]}
      /\ Listed \ {g[1]} = ToSet(g[3])
  BY DataGetsFacts
<1>4. (IsFiniteSet(results) /\ ResultBids /\ RefcountExact /\ ResultForRequest)'
  BY <1>2 DEF ResultBids, RefcountExact, ResultForRequest, bufs
<1>5. CASE /\ Disown(g[1], g[2], g[3])
           /\ UNCHANGED <<record, sq, inflight>>
  <2>1. /\ data_list' \in Seq(DataId) /\ Once(data_list') /\ heap' \subseteq DataId
        /\ \/ ToSet(data_list') = ToSet(g[3]) /\ heap' = g[2] \ {g[1]}
           \/ ToSet(data_list') = ToSet(g[3]) \cup {g[1]} /\ heap' = g[2]
    <3>1. PICK d \in DataId, hp \in SUBSET DataId, list \in Seq(DataId) :
            d = g[1] /\ hp = g[2] /\ list = g[3]
      BY <1>3
    <3>2. Disown(d, hp, list)
      BY <1>5, <3>1
    <3>3. Once(list) /\ d \notin ToSet(list) /\ d \in hp
      BY <1>3, <3>1
    <3>4. /\ data_list' \in Seq(DataId) /\ Once(data_list')
          /\ heap' \subseteq DataId
          /\ \/ ToSet(data_list') = ToSet(list) /\ heap' = hp \ {d}
             \/ ToSet(data_list') = ToSet(list) \cup {d} /\ heap' = hp
      BY <3>2, <3>3, DisownFacts
    <3> QED BY <3>1, <3>4
  <2>2. TypeOK' /\ PickedHeld' /\ DrainLast'
    BY <1>2, <1>5, <2>1 DEF TypeOK, PickedHeld, DrainLast, Active, bufs
  <2>3. DataApart'
    <3>1. Queued' = Queued /\ Held' = Held /\ Done' = Done
          /\ Listed' = ToSet(data_list')
      BY <1>2, <1>5 DEF Queued, Held, Done, Listed
    <3> QED BY <1>2, <1>3, <1>5, <2>1, <3>1 DEF DataApart, Once
  <2>4. UdataApart'
    <3>1. QueuedFor' = QueuedFor /\ HeldFor' = HeldFor /\ DoneFor' = DoneFor
          /\ ResultFor' = ResultFor
      BY <1>2, <1>5 DEF QueuedFor, HeldFor, DoneFor, ResultFor
    <3> QED BY <1>2, <1>5, <3>1 DEF UdataApart, Once
  <2>5. RecordKept'
    BY <1>2, <1>5 DEF RecordKept
  <2> QED BY <1>4, <2>2, <2>3, <2>4, <2>5
<1> DEFINE q == [data |-> g[1], for |-> u, op |-> op, size |-> size,
                 select |-> select]
<1>6. CASE /\ heap' = g[2] /\ data_list' = g[3]
           /\ record' = [record EXCEPT ![g[1]] = [op |-> op, udata |-> u,
                                                  size |-> size]]
           /\ IF Len(sq) < SqEntries
              THEN sq' = Append(sq, q) /\ UNCHANGED inflight
              ELSE sq' = <<q>> /\ inflight' = inflight \cup ToSet(sq)
  <2>1. q \in Entry /\ q.data = g[1] /\ q.for = u
        /\ Saved(q) = [op |-> op, udata |-> u, size |-> size]
    BY <1>3 DEF Entry, Saved
  <2>2. record' = [record EXCEPT ![q.data] = Saved(q)]
    BY <1>6, <2>1
  <2>3. IF Len(sq) < SqEntries
        THEN sq' = Append(sq, q) /\ UNCHANGED inflight
        ELSE sq' = <<q>> /\ inflight' = inflight \cup ToSet(sq)
    BY <1>6
  <2>4. Saved(q) \in [op : Op \cup {"READ"}, udata : Udata \cup {NULL},
                      size : Size \cup {0}]
    BY <2>1 DEF Saved, Entry
  <2> HIDE DEF q
  <2>5. u \notin QueuedFor \cup HeldFor \cup DoneFor \cup ResultFor
    BY <1>2 DEF Free, Waiting, QueuedFor, HeldFor, DoneFor, ResultFor
  <2>6. sq \in Seq(Entry) /\ Len(sq) \in Nat /\ DOMAIN sq = 1..Len(sq)
        /\ inflight \subseteq Entry /\ Len(sq) <= SqEntries
    BY DEF TypeOK
  <2> DEFINE Rest == IF Len(sq) < SqEntries THEN DOMAIN sq ELSE {}
             last == IF Len(sq) < SqEntries THEN Len(sq) + 1 ELSE 1
             Gone == IF Len(sq) < SqEntries THEN {} ELSE {sq[n] : n \in DOMAIN sq}
  <2>7. /\ sq' \in Seq(Entry) /\ Len(sq') <= SqEntries
        /\ DOMAIN sq' = Rest \cup {last} /\ Rest \subseteq DOMAIN sq
        /\ \A n \in Rest : sq'[n] = sq[n] /\ n # last
        /\ sq'[last] = q
        /\ inflight' = inflight \cup Gone
        /\ inflight' \subseteq Entry
    <3>1. CASE Len(sq) < SqEntries
      BY <2>1, <2>3, <2>6, <3>1, LimitAssumption, SMTT(30)
    <3>2. CASE ~(Len(sq) < SqEntries)
      <4>1. sq' = <<q>> /\ inflight' = inflight \cup {sq[n] : n \in DOMAIN sq}
        BY <2>3, <3>2 DEF ToSet
      <4>2. sq' \in Seq(Entry) /\ Len(sq') = 1 /\ DOMAIN sq' = {1} /\ sq'[1] = q
        BY <2>1, <4>1
      <4>3. inflight' \subseteq Entry
        BY <2>6, <4>1
      <4> QED BY <3>2, <4>1, <4>2, <4>3, LimitAssumption
    <3> QED BY <3>1, <3>2
  <2>8. /\ Queued' = {sq[n].data : n \in Rest} \cup {g[1]}
        /\ QueuedFor' = {sq[n].for : n \in Rest} \cup {u}
        /\ Held' = Held \cup {x.data : x \in Gone}
        /\ HeldFor' = HeldFor \cup {x.for : x \in Gone}
    <3>1. Queued' = {sq[n].data : n \in Rest} \cup {g[1]}
      BY <2>1, <2>7 DEF Queued
    <3>2. QueuedFor' = {sq[n].for : n \in Rest} \cup {u}
      BY <2>1, <2>7 DEF QueuedFor
    <3>3. Held' = Held \cup {x.data : x \in Gone}
          /\ HeldFor' = HeldFor \cup {x.for : x \in Gone}
      BY <2>7 DEF Held, HeldFor
    <3> QED BY <3>1, <3>2, <3>3
  <2>9. /\ \A n \in DOMAIN sq : n \in Rest \/ sq[n] \in Gone
        /\ \A x \in Gone : \E n \in DOMAIN sq : x = sq[n] /\ n \notin Rest
    OBVIOUS
  <2> HIDE DEF Rest, last, Gone
  <2>10. {x.data : x \in Gone} \cup {sq[n].data : n \in Rest} = Queued
    BY <2>7, <2>9 DEF Queued
  <2>11. {x.for : x \in Gone} \cup {sq[n].for : n \in Rest} = QueuedFor
    BY <2>7, <2>9 DEF QueuedFor
  <2>12. /\ \A m, n \in DOMAIN sq : sq[m].data = sq[n].data => m = n
         /\ \A m, n \in DOMAIN sq : sq[m].for = sq[n].for => m = n
    BY DEF DataApart, UdataApart, Once
  <2>13. TypeOK'
    BY <1>2, <1>3, <1>6, <2>2, <2>4, <2>7 DEF TypeOK, bufs
  <2>14. DataApart'
    <3>1. Listed' = ToSet(g[3]) /\ Done' = Done
      BY <1>2, <1>6 DEF Listed, Done
    <3>2. \A n \in Rest : sq[n].data # g[1]
      BY <1>3, <2>7 DEF Queued
    <3>3. Once([n \in DOMAIN sq' |-> sq'[n].data])
      BY <2>1, <2>7, <2>12, <3>2 DEF Once
    <3>4. \A q1, q2 \in inflight' : q1.data = q2.data => q1 = q2
      <4>1. \A x \in Gone : x.data \in Queued
        BY <2>10
      <4>2. \A x \in inflight : x.data \in Held
        BY DEF Held
      <4>3. \A x, y \in Gone : x.data = y.data => x = y
        BY <2>9, <2>12
      <4> QED BY <2>7, <4>1, <4>2, <4>3 DEF DataApart
    <3>5. {x.data : x \in Gone} \cap {sq[n].data : n \in Rest} = {}
      BY <2>7, <2>9, <2>12
    <3>6. heap' = Listed' \cup Queued' \cup Held' \cup Done'
      BY <1>3, <1>6, <2>8, <2>10, <3>1
    <3>7. /\ Listed' \cap (Queued' \cup Held' \cup Done') = {}
          /\ Queued' \cap (Held' \cup Done') = {} /\ Held' \cap Done' = {}
      <4> DEFINE A == {sq[n].data : n \in Rest}
                 G == {x.data : x \in Gone}
      <4>1. /\ A \cap G = {} /\ A \cup G = Queued
            /\ Queued' = A \cup {g[1]} /\ Held' = Held \cup G
        BY <2>8, <2>10, <3>5
      <4> HIDE DEF A, G
      <4>2. Listed' = Listed \ {g[1]} /\ Done' = Done
        BY <1>3, <3>1
      <4>3. /\ g[1] \notin Queued /\ g[1] \notin Held /\ g[1] \notin Done
            /\ Listed \cap (Queued \cup Held \cup Done) = {}
            /\ Queued \cap (Held \cup Done) = {} /\ Held \cap Done = {}
        BY <1>3 DEF DataApart
      <4> QED BY <4>1, <4>2, <4>3
    <3>8. Once(data_list')
      BY <1>3, <1>6
    <3>9. cq' = cq
      BY <1>2
    <3> QED BY <3>3, <3>4, <3>6, <3>7, <3>8, <3>9 DEF DataApart
  <2>15. UdataApart'
    <3>1. ResultFor' = ResultFor /\ DoneFor' = DoneFor
      BY <1>2 DEF ResultFor, DoneFor
    <3>2. \A n \in Rest : sq[n].for # u
      BY <2>5, <2>7 DEF QueuedFor
    <3>3. Once([n \in DOMAIN sq' |-> sq'[n].for])
      BY <2>1, <2>7, <2>12, <3>2 DEF Once
    <3>4. \A q1, q2 \in inflight' : q1.for = q2.for => q1 = q2
      <4>1. \A x \in Gone : x.for \in QueuedFor
        BY <2>11
      <4>2. \A x \in inflight : x.for \in HeldFor
        BY DEF HeldFor
      <4>3. \A x, y \in Gone : x.for = y.for => x = y
        BY <2>9, <2>12
      <4> QED BY <2>7, <4>1, <4>2, <4>3 DEF UdataApart
    <3>5. {x.for : x \in Gone} \cap {sq[n].for : n \in Rest} = {}
      BY <2>7, <2>9, <2>12
    <3>6. /\ QueuedFor' \cap (HeldFor' \cup DoneFor' \cup ResultFor') = {}
          /\ HeldFor' \cap (DoneFor' \cup ResultFor') = {}
          /\ DoneFor' \cap ResultFor' = {}
      BY <2>5, <2>8, <2>11, <3>1, <3>5, SMTT(30) DEF UdataApart
    <3>7. cq' = cq /\ results' = results
      BY <1>2
    <3> QED BY <3>3, <3>4, <3>6, <3>7 DEF UdataApart
  <2>16. RecordKept'
    <3>1. record'[q.data] = Saved(q)
      BY <1>3, <2>1, <2>2 DEF TypeOK
    <3>2. \A d \in DataId : d # q.data => record'[d] = record[d]
      BY <2>2 DEF TypeOK
    <3>3. /\ \A n \in DOMAIN sq : sq[n].data # q.data /\ sq[n].data \in DataId
          /\ \A x \in inflight : x.data # q.data /\ x.data \in DataId
          /\ \A n \in DOMAIN cq : cq[n].data \in DataId => cq[n].data # q.data
      BY <1>3, <2>1, <2>6 DEF Queued, Held, Done, Entry
    <3>4. \A n \in DOMAIN sq : record'[sq[n].data] = Saved(sq[n])
      BY <3>2, <3>3 DEF RecordKept
    <3>5. \A n \in DOMAIN sq' : record'[sq'[n].data] = Saved(sq'[n])
      BY <2>7, <3>1, <3>4
    <3>6. \A x \in inflight' : record'[x.data] = Saved(x)
      <4>1. \A x \in inflight : record'[x.data] = Saved(x)
        BY <3>2, <3>3 DEF RecordKept
      <4> QED BY <2>7, <2>9, <3>4, <4>1
    <3>7. \A n \in DOMAIN cq : cq[n].data \in DataId =>
            record'[cq[n].data] = record[cq[n].data]
      BY <3>2, <3>3
    <3>8. cq' = cq
      BY <1>2
    <3> QED BY <3>5, <3>6, <3>7, <3>8 DEF RecordKept
  <2>17. PickedHeld'
    BY <1>2, <2>7 DEF PickedHeld
  <2>18. DrainLast'
    BY <1>2 DEF DrainLast, Active
  <2> QED BY <1>4, <2>13, <2>14, <2>15, <2>16, <2>17, <2>18
<1> QED BY <1>1, <1>5, <1>6

LEMMA PoolInit ==
    ASSUME Init
    PROVE  PoolInv
<1> USE DEF Init
<1>1. TypeOK
  <2>1. Cardinality(Bid) \in Nat
    BY BufAssumption, FS_CardinalityType
  <2>2. \A n \in 1..Cardinality(Bid) : <<n - 1, 0>> \in Bid \X (0..BufSize - 1)
    BY <2>1, BufAssumption
  <2>3. buf_ring \in Seq(Bid \X (0..BufSize - 1))
    BY <2>1, <2>2
  <2>4. record \in [DataId -> [op : Op \cup {"READ"}, udata : Udata \cup {NULL},
                               size : Size \cup {0}]]
    OBVIOUS
  <2>5. /\ buf_offsets \in [Bid -> 0..BufSize] /\ buf_refcount \in [Bid -> Nat]
        /\ buf_done \in [Bid -> BOOLEAN]
    BY BufAssumption
  <2>6. sq \in Seq(Entry) /\ Len(sq) <= SqEntries /\ cq \in Seq(Completion)
        /\ picked \in Seq(Taken) /\ staged \in Seq(Bid)
        /\ data_list \in Seq(DataId) /\ budget \in 0..MaxResults
    BY LimitAssumption
  <2> QED BY <2>3, <2>4, <2>5, <2>6 DEF TypeOK, Taken
<1>2. DataApart
  BY DEF DataApart, Listed, Queued, Held, Done, Once, ToSet
<1>3. UdataApart
  BY DEF UdataApart, QueuedFor, HeldFor, DoneFor, ResultFor, Once
<1>4. RecordKept /\ PickedHeld /\ DrainLast
  BY DEF RecordKept, PickedHeld, DrainLast, Active
<1>5. IsFiniteSet(results) /\ ResultBids /\ ResultForRequest
  BY FS_EmptySet DEF ResultBids, ResultForRequest
<1>6. RefcountExact
  <2>1. \A b \in Bid : {r \in results : r.has_buf /\ r.bid = b} = {}
    OBVIOUS
  <2> QED BY <2>1, FS_EmptySet DEF RefcountExact
<1> QED BY <1>1, <1>2, <1>3, <1>4, <1>5, <1>6 DEF PoolInv

LEMMA PoolStep ==
    ASSUME PoolInv, [Next]_vars
    PROVE  PoolInv'
<1>1. CASE UNCHANGED vars
  <2>1. TypeOK'
    BY <1>1 DEF PoolInv, TypeOK, vars, pool, bufs, kernel
  <2> QED BY <1>1, <2>1, QuietKeeps DEF vars, kernel, Active
<1>2. CASE Kernel
  <2>1. ASSUME NEW q \in inflight,
               KernelPick(q) \/ KernelDoneSocket(q) \/ KernelDoneNoBuf(q)
        PROVE  PoolInv'
    BY <2>1, KernelPickKeeps, KernelDoneSocketKeeps, KernelDoneNoBufKeeps
  <2>2. ASSUME NEW n \in DOMAIN picked, KernelDoneFile(n)
        PROVE  PoolInv'
    BY <2>2, KernelDoneFileKeeps
  <2> QED BY <1>2, <2>1, <2>2, KernelDrainedKeeps DEF Kernel
<1>3. ASSUME NEW op \in Op, NEW u \in Udata, NEW size \in Size,
             NEW select \in BOOLEAN, Request(op, u, size, select)
      PROVE  PoolInv'
  BY <1>3, RequestKeeps
<1>4. CASE fh_xio_submit_requests
  BY <1>4, SubmitKeeps
     DEF fh_xio_submit_requests, Active, PoolInv, TypeOK
<1>5. CASE fh_xio_wait
  <2>1. budget' \in 0..MaxResults
    BY <1>5, LimitAssumption DEF fh_xio_wait
  <2>2. CASE SubmitAll
    BY <1>5, <2>1, <2>2, SubmitKeeps DEF fh_xio_wait, Active
  <2>3. CASE UNCHANGED <<sq, inflight>>
    <3>1. TypeOK'
      BY <1>5, <2>1, <2>3 DEF fh_xio_wait, PoolInv, TypeOK, pool, bufs
    <3> QED BY <1>5, <2>3, <3>1, QuietKeeps DEF fh_xio_wait, Active
  <2> QED BY <1>5, <2>2, <2>3 DEF fh_xio_wait
<1>6. ASSUME NEW r \in results, fh_xio_result_free_internal(r)
      PROVE  PoolInv'
  BY <1>6, FreeResultKeeps
<1>7. CASE Reap \/ WaitReturns \/ Advance
  BY <1>7, ReapKeeps, WaitReturnsKeeps, AdvanceKeeps
<1>8. CASE fh_xio_drain \/ DrainReap \/ DrainFails \/ Teardown
  BY <1>8, DrainKeeps, DrainReapKeeps, DrainFailsKeeps, TeardownKeeps
<1> QED BY <1>1, <1>2, <1>3, <1>4, <1>5, <1>6, <1>7, <1>8 DEF Next, Caller

(* Records, udata and reference counts are kept whatever the order in      *)
(* which the kernel completes requests.                                    *)
THEOREM PoolInvariance == Spec => []PoolInv
<1> QED BY PoolInit, PoolStep, PTL DEF Spec

(* Each fh_xio_data that malloc gave out is on the free list, in the       *)
(* submission queue, in the kernel or in the completion queue, and only    *)
(* there; fh_xio_data_get and fh_xio_data_disown keep it so.               *)
THEOREM EveryRecordAccounted == Spec => []DataAccounted
<1>1. PoolInv => DataAccounted
  BY DEF PoolInv, DataAccounted
<1> QED BY PoolInvariance, <1>1, PTL

(* A result of fh_xio_wait carries the udata that its request was made     *)
(* with: no record was reused while a completion pointed to it.            *)
THEOREM ResultsAnswerTheirRequests == Spec => []ResultForRequest
<1>1. PoolInv => ResultForRequest
  BY DEF PoolInv
<1> QED BY PoolInvariance, <1>1, PTL

(* After a drain that succeeded, fh_xio_free leaves neither a request in   *)
(* the kernel nor a record in the heap.                                    *)
THEOREM DrainLeavesNothing == Spec => []DrainedClean
<1>1. ASSUME PoolInv, buf_freed, drained
      PROVE  inflight = {} /\ heap = {}
  <2>1. inflight = {} /\ sq = <<>> /\ cq = <<>> /\ data_list = <<>>
    BY <1>1 DEF PoolInv, DrainLast
  <2>2. Listed = {} /\ Queued = {} /\ Held = {} /\ Done = {}
    BY <2>1 DEF Listed, Queued, Held, Done, ToSet
  <2> QED BY <1>1, <2>1, <2>2 DEF PoolInv, DataApart
<1>2. PoolInv => DrainedClean
  BY <1>1 DEF DrainedClean
<1> QED BY PoolInvariance, <1>2, PTL

-----------------------------------------------------------------------------
(* The second invariant: the bytes of the provided buffers *)

(* The bytes that a completion or a picked request took of a buffer. *)
Piece(c) == [has_buf |-> c.has_buf, bid |-> c.bid, at |-> c.at,
             end |-> c.at + c.len, buf_more |-> c.buf_more]
PickedPiece(p) == [has_buf |-> TRUE, bid |-> p.bid, at |-> p.at,
                   end |-> p.at + p.len, buf_more |-> p.buf_more]

(* They are reaped in the order of this sequence. *)
Pend == [n \in 1..Len(cq) |-> Piece(cq[n])]
        \o [n \in 1..Len(picked) |-> PickedPiece(picked[n])]

(* The pieces of buffer b. *)
Of(b) == {n \in DOMAIN Pend : Pend[n].has_buf /\ Pend[n].bid = b}

(* A buffer in the ring was used up to used; all of it is still to come to *)
(* a result, or was in one.                                                *)
RingUse(b, used) ==
    /\ ~buf_done[b]
    /\ buf_offsets[b] <= used
    /\ \A n \in Of(b) : Pend[n].end <= used /\ Pend[n].buf_more
    /\ Active /\ buf_offsets[b] < used => \E n \in Of(b) : Pend[n].end = used

(* A buffer that is to be published is nobody's. *)
StagedFree(b) ==
    /\ ~buf_done[b]
    /\ buf_offsets[b] = 0
    /\ Of(b) = {}
    /\ \A r \in results : ~(r.has_buf /\ r.bid = b)

(* The pieces of a buffer are one behind the other, from where the results *)
(* end, and none follows the one that used it up.                          *)
InARow(b) ==
    /\ \A m, n \in Of(b) : m < n => Pend[m].end <= Pend[n].at /\ Pend[m].buf_more
    /\ \A n \in Of(b) : buf_offsets[b] <= Pend[n].at
    /\ Active => \A n \in Of(b) : buf_offsets[b] < Pend[n].at =>
                   \E m \in Of(b) : m < n /\ Pend[m].end = Pend[n].at

(* A buffer that is not in the ring comes back: its last piece is to be    *)
(* reaped, or was and a result is to be freed.                             *)
InRing(b) == \E n \in DOMAIN buf_ring : buf_ring[n][1] = b
InStage(b) == \E n \in DOMAIN staged : staged[n] = b

ComesBack(b) ==
    /\ buf_done[b] => Of(b) = {} /\ \E r \in results : r.has_buf /\ r.bid = b
    /\ Active /\ ~buf_done[b] /\ ~InRing(b) /\ ~InStage(b) =>
         \E n \in Of(b) : ~Pend[n].buf_more

(* No buffer is in the ring or to be published twice. *)
BuffersOnce ==
    /\ \A m, n \in DOMAIN buf_ring : buf_ring[m][1] = buf_ring[n][1] => m = n
    /\ \A m, n \in DOMAIN staged : staged[m] = staged[n] => m = n
    /\ \A m \in DOMAIN buf_ring, n \in DOMAIN staged : buf_ring[m][1] # staged[n]

PiecesInv ==
    /\ BuffersOnce
    /\ \A n \in DOMAIN buf_ring : RingUse(buf_ring[n][1], buf_ring[n][2])
    /\ \A n \in DOMAIN staged : StagedFree(staged[n])
    /\ \A b \in Bid : InARow(b) /\ ComesBack(b)

(* What results hold lies before what is to come, and apart. *)
ResultsApart ==
    /\ PointsAtData
    /\ \A r \in results : r.has_buf => r.at + r.len <= buf_offsets[r.bid]
    /\ \A r1, r2 \in results :
         r1 # r2 /\ r1.has_buf /\ r2.has_buf /\ r1.bid = r2.bid =>
           r1.at + r1.len <= r2.at \/ r2.at + r2.len <= r1.at

ByteInv == PiecesInv /\ ResultsApart

-----------------------------------------------------------------------------
(* The proof of the second invariant *)

(* Where completions and picked requests are among the pieces. *)
PendIs ==
    /\ Len(cq) \in Nat /\ Len(picked) \in Nat
    /\ DOMAIN cq = 1..Len(cq) /\ DOMAIN picked = 1..Len(picked)
    /\ DOMAIN Pend = 1..Len(cq) + Len(picked)
    /\ \A n \in 1..Len(cq) : Pend[n] = Piece(cq[n])
    /\ \A n \in 1..Len(picked) : Pend[Len(cq) + n] = PickedPiece(picked[n])
    /\ \A n \in DOMAIN Pend : Pend[n].has_buf =>
         /\ Pend[n].bid \in Bid /\ Pend[n].at \in Nat /\ Pend[n].end \in Nat
         /\ Pend[n].at <= Pend[n].end /\ Pend[n].buf_more \in BOOLEAN

LEMMA PendFacts == PoolInv => PendIs
<1> SUFFICES ASSUME PoolInv
             PROVE  PendIs
  OBVIOUS
<1>1. /\ cq \in Seq(Completion) /\ Len(cq) \in Nat /\ DOMAIN cq = 1..Len(cq)
      /\ picked \in Seq(Taken) /\ Len(picked) \in Nat
      /\ DOMAIN picked = 1..Len(picked)
  <2>1. picked \in Seq(Taken)
    BY DEF PoolInv, TypeOK, Taken
  <2> QED BY <2>1 DEF PoolInv, TypeOK
<1> DEFINE x == [n \in 1..Len(cq) |-> Piece(cq[n])]
           y == [n \in 1..Len(picked) |-> PickedPiece(picked[n])]
           S == {Piece(cq[n]) : n \in 1..Len(cq)}
                \cup {PickedPiece(picked[n]) : n \in 1..Len(picked)}
<1>2. x \in Seq(S) /\ y \in Seq(S) /\ Len(x) = Len(cq) /\ Len(y) = Len(picked)
  BY <1>1
<1>3. /\ \A n \in 1..Len(cq) : x[n] = Piece(cq[n])
      /\ \A n \in 1..Len(picked) : y[n] = PickedPiece(picked[n])
  OBVIOUS
<1>4. Pend = x \o y
  BY DEF Pend
<1> HIDE DEF x, y, S
<1>5. /\ x \o y \in Seq(S) /\ Len(x \o y) = Len(x) + Len(y)
      /\ \A n \in 1..Len(x) + Len(y) :
           (x \o y)[n] = IF n <= Len(x) THEN x[n] ELSE y[n - Len(x)]
  BY <1>2, ConcatProperties
<1>6. DOMAIN Pend = 1..Len(cq) + Len(picked)
  BY <1>2, <1>4, <1>5
<1>7. \A n \in 1..Len(cq) : Pend[n] = Piece(cq[n])
  BY <1>1, <1>2, <1>3, <1>4, <1>5
<1>8. \A n \in 1..Len(picked) : Pend[Len(cq) + n] = PickedPiece(picked[n])
  <2> TAKE n \in 1..Len(picked)
  <2>1. Len(cq) + n \in 1..Len(x) + Len(y) /\ ~(Len(cq) + n <= Len(x))
        /\ (Len(cq) + n) - Len(x) = n
    BY <1>1, <1>2
  <2> QED BY <1>3, <1>4, <1>5, <2>1
<1>9. ASSUME NEW n \in DOMAIN Pend, Pend[n].has_buf
      PROVE  /\ Pend[n].bid \in Bid /\ Pend[n].at \in Nat /\ Pend[n].end \in Nat
             /\ Pend[n].at <= Pend[n].end /\ Pend[n].buf_more \in BOOLEAN
  <2>1. CASE n \in 1..Len(cq)
    <3>1. cq[n] \in Completion /\ Pend[n] = Piece(cq[n]) /\ cq[n].has_buf
      <4>1. cq[n] \in Completion
        BY <1>1, <2>1
      <4>2. Pend[n] = Piece(cq[n])
        BY <1>7, <2>1
      <4>3. Piece(cq[n]).has_buf = cq[n].has_buf
        BY DEF Piece
      <4> QED BY <1>9, <4>1, <4>2, <4>3
    <3>2. cq[n].bid \in Bid
      BY <1>1, <2>1, <3>1 DEF PoolInv, RecordKept
    <3> QED BY <3>1, <3>2 DEF Piece, Completion
  <2>2. CASE n \notin 1..Len(cq)
    <3>1. n - Len(cq) \in 1..Len(picked) /\ Len(cq) + (n - Len(cq)) = n
      BY <1>1, <1>6, <2>2
    <3>2. Pend[n] = PickedPiece(picked[n - Len(cq)])
          /\ picked[n - Len(cq)] \in Taken
      BY <1>1, <1>8, <3>1
    <3> QED BY <3>2 DEF PickedPiece, Taken
  <2> QED BY <2>1, <2>2
<1> QED BY <1>1, <1>6, <1>7, <1>8, <1>9 DEF PendIs

(* Renumbering pieces in their order changes nothing. *)
LEMMA Renumbered ==
    ASSUME PendIs, PendIs', PiecesInv, Active' => Active,
           UNCHANGED <<bufs, buf_ring, staged, results>>,
           NEW f, f \in [DOMAIN Pend -> DOMAIN Pend'],
           \A m, n \in DOMAIN Pend : m < n => f[m] < f[n],
           \A n \in DOMAIN Pend : Pend'[f[n]] = Pend[n],
           \A k \in DOMAIN Pend' : Pend'[k].has_buf =>
             \E n \in DOMAIN Pend : k = f[n]
    PROVE  PiecesInv'
<1>1. \A b : \A n \in Of(b) : f[n] \in Of(b)' /\ Pend'[f[n]] = Pend[n]
  BY DEF Of
<1>2. \A b : \A k \in Of(b)' : \E n \in Of(b) : k = f[n]
  BY DEF Of
<1>3. \A m, n \in DOMAIN Pend : f[m] < f[n] => m < n
  <2> TAKE m, n \in DOMAIN Pend
  <2>1. f[m] \in Int /\ f[n] \in Int /\ m \in Int /\ n \in Int
    BY DEF PendIs
  <2>2. m = n \/ m < n \/ n < m
    BY <2>1
  <2>3. n < m => f[n] < f[m]
    OBVIOUS
  <2> QED BY <2>1, <2>2, <2>3
<1>4. \A b : Of(b) \subseteq DOMAIN Pend
  BY DEF Of
<1>5. BuffersOnce'
  BY DEF PiecesInv, BuffersOnce
<1>6. ASSUME NEW n \in DOMAIN buf_ring'
      PROVE  RingUse(buf_ring[n][1], buf_ring[n][2])'
  <2>1. RingUse(buf_ring[n][1], buf_ring[n][2])
    BY <1>6 DEF PiecesInv
  <2> QED BY <1>1, <1>2, <2>1 DEF RingUse, bufs
<1>7. ASSUME NEW n \in DOMAIN staged'
      PROVE  StagedFree(staged[n])'
  <2>1. StagedFree(staged[n])
    BY <1>7 DEF PiecesInv
  <2> QED BY <1>2, <2>1 DEF StagedFree, bufs
<1>8. ASSUME NEW b \in Bid
      PROVE  InARow(b)' /\ ComesBack(b)'
  <2>1. InARow(b) /\ ComesBack(b)
    BY DEF PiecesInv
  <2>2. InARow(b)'
    <3>1. \A m, n \in Of(b)' : m < n => Pend'[m].end <= Pend'[n].at
                                        /\ Pend'[m].buf_more
      BY <1>1, <1>2, <1>3, <1>4, <2>1 DEF InARow
    <3>2. \A n \in Of(b)' : buf_offsets'[b] <= Pend'[n].at
      BY <1>1, <1>2, <2>1 DEF InARow, bufs
    <3>3. ASSUME Active', NEW n \in Of(b)', buf_offsets'[b] < Pend'[n].at
          PROVE  \E m \in Of(b)' : m < n /\ Pend'[m].end = Pend'[n].at
      <4>1. PICK k \in Of(b) : n = f[k]
        BY <1>2
      <4>2. Pend'[n] = Pend[k] /\ buf_offsets[b] < Pend[k].at
        BY <1>1, <3>3, <4>1 DEF bufs
      <4>3. PICK m \in Of(b) : m < k /\ Pend[m].end = Pend[k].at
        BY <2>1, <3>3, <4>2 DEF InARow
      <4>4. f[m] \in Of(b)' /\ f[m] < n /\ Pend'[f[m]].end = Pend'[n].at
        BY <1>1, <1>4, <4>1, <4>2, <4>3
      <4> QED BY <4>4
    <3> QED BY <3>1, <3>2, <3>3 DEF InARow
  <2>3. ComesBack(b)'
    BY <1>1, <1>2, <2>1 DEF ComesBack, InRing, InStage, bufs
  <2> QED BY <2>2, <2>3
<1> QED BY <1>5, <1>6, <1>7, <1>8 DEF PiecesInv

(* A piece taken from the head of the ring is the last one. *)
LEMMA Taking ==
    ASSUME PoolInv, PendIs, PendIs', PiecesInv, Active' = Active,
           buf_ring # <<>>, NEW n \in Nat, Take(n),
           UNCHANGED <<bufs, staged, results>>,
           NEW e, DOMAIN Pend = 1..Len(cq) + Len(picked),
           NEW last, last = Len(cq) + Len(picked) + 1,
           DOMAIN Pend' = 1..last, Pend'[last] = e,
           \A k \in DOMAIN Pend : Pend'[k] = Pend[k],
           e.has_buf, e.bid = buf_ring[1][1], e.at = buf_ring[1][2],
           e.end = e.at + n, e.buf_more <=> BufMore(n)
    PROVE  PiecesInv'
<1>1. /\ buf_ring[1][1] \in Bid /\ buf_ring[1][2] \in 0..BufSize - 1
      /\ BufMore(n) <=> buf_ring[1][2] + n < BufSize
      /\ buf_ring' \in Seq(Bid \X (0..BufSize - 1))
      /\ BufMore(n) =>
           /\ Len(buf_ring') = Len(buf_ring)
           /\ buf_ring'[1] = <<buf_ring[1][1], buf_ring[1][2] + n>>
           /\ \A k \in 2..Len(buf_ring) : buf_ring'[k] = buf_ring[k]
      /\ ~BufMore(n) =>
           /\ Len(buf_ring') = Len(buf_ring) - 1
           /\ \A k \in 1..Len(buf_ring) - 1 : buf_ring'[k] = buf_ring[k + 1]
  BY TakeFacts DEF PoolInv
<1>2. /\ DOMAIN buf_ring = 1..Len(buf_ring) /\ Len(buf_ring) \in Nat \ {0}
      /\ DOMAIN buf_ring' = 1..Len(buf_ring') /\ 1 \in DOMAIN buf_ring
  <2>1. buf_ring \in Seq(Bid \X (0..BufSize - 1))
    BY DEF PoolInv, TypeOK
  <2> QED BY <1>1, <2>1, EmptySeq, LenProperties
<1>0. PICK b, u : b = buf_ring[1][1] /\ u = buf_ring[1][2]
  OBVIOUS
<1>3. RingUse(b, u)
  BY <1>0, <1>2 DEF PiecesInv
<1>4. b \in Bid /\ u \in Nat /\ e.at = u /\ e.bid = b /\ e.end = u + n
  BY <1>0, <1>1
<1>5. last \in Nat /\ last \notin DOMAIN Pend /\ DOMAIN Pend' = DOMAIN Pend \cup {last}
      /\ \A k \in DOMAIN Pend : k < last
  BY DEF PendIs
<1>6. Of(b)' = Of(b) \cup {last}
  BY <1>4, <1>5 DEF Of
<1>7. \A d : d # b => Of(d)' = Of(d)
  BY <1>4, <1>5 DEF Of
<1>8. \A d : Of(d) \subseteq DOMAIN Pend /\ \A k \in Of(d) : Pend'[k] = Pend[k]
  BY DEF Of
<1>9. \A k \in Of(b) : /\ Pend[k].end <= u /\ Pend[k].buf_more
                       /\ Pend[k].end \in Nat /\ Pend[k].at \in Nat
  BY <1>3 DEF RingUse, PendIs, Of
<1>10. \A k \in DOMAIN buf_ring : k # 1 => buf_ring[k][1] # b
  BY <1>0, <1>2 DEF PiecesInv, BuffersOnce
(* The ring has the other buffers as before, and b unless it is used up. *)
<1>11. \A k \in DOMAIN buf_ring' :
         \/ buf_ring'[k][1] = b /\ buf_ring'[k][2] = u + n /\ BufMore(n) /\ k = 1
         \/ /\ buf_ring'[k][1] # b
            /\ \E m \in DOMAIN buf_ring : buf_ring'[k] = buf_ring[m] /\ m # 1
                 /\ m = IF BufMore(n) THEN k ELSE k + 1
  <2>1. CASE BufMore(n)
    BY <1>0, <1>1, <1>2, <1>10, <2>1
  <2>2. CASE ~BufMore(n)
    <3> TAKE k \in DOMAIN buf_ring'
    <3>1. k \in 1..Len(buf_ring) - 1 /\ Len(buf_ring) \in Nat
      BY <1>1, <1>2, <2>2
    <3>2. k + 1 \in DOMAIN buf_ring /\ k + 1 # 1
      BY <1>2, <3>1
    <3>3. buf_ring'[k] = buf_ring[k + 1]
      BY <1>1, <2>2, <3>1
    <3> QED BY <1>10, <2>2, <3>2, <3>3
  <2> QED BY <2>1, <2>2
<1>12. \A m \in DOMAIN buf_ring : m # 1 =>
         \E k \in DOMAIN buf_ring' : buf_ring'[k] = buf_ring[m]
  <2>1. CASE BufMore(n)
    BY <1>1, <1>2, <2>1
  <2>2. CASE ~BufMore(n)
    <3> TAKE m \in DOMAIN buf_ring
    <3> HAVE m # 1
    <3>1. m - 1 \in 1..Len(buf_ring) - 1 /\ (m - 1) + 1 = m
      BY <1>2
    <3>2. m - 1 \in DOMAIN buf_ring' /\ buf_ring'[m - 1] = buf_ring[m]
      BY <1>1, <1>2, <2>2, <3>1
    <3> QED BY <3>2
  <2> QED BY <2>1, <2>2
<1>13. BuffersOnce'
  <2>1. \A k, m \in DOMAIN buf_ring' : buf_ring'[k][1] = buf_ring'[m][1] => k = m
    <3> TAKE k, m \in DOMAIN buf_ring'
    <3> HAVE buf_ring'[k][1] = buf_ring'[m][1]
    <3>1. k \in Int /\ m \in Int
      BY <1>2
    <3> QED BY <1>11, <3>1 DEF PiecesInv, BuffersOnce
  <2>2. \A k \in DOMAIN buf_ring', m \in DOMAIN staged : buf_ring'[k][1] # staged[m]
    BY <1>0, <1>2, <1>11 DEF PiecesInv, BuffersOnce
  <2> QED BY <2>1, <2>2 DEF PiecesInv, BuffersOnce
<1>14. ASSUME NEW k \in DOMAIN buf_ring'
       PROVE  RingUse(buf_ring[k][1], buf_ring[k][2])'
  <2>1. CASE buf_ring'[k][1] = b
    <3>1. buf_ring'[k][2] = u + n /\ BufMore(n)
      BY <1>11, <2>1
    <3>2. buf_offsets[b] <= u + n
      <4>1. buf_offsets[b] \in Nat
        BY <1>4, BufAssumption DEF PoolInv, TypeOK
      <4> QED BY <1>3, <1>4, <4>1 DEF RingUse
    <3>3. \A m \in Of(b)' : Pend'[m].end <= u + n /\ Pend'[m].buf_more
      BY <1>4, <1>6, <1>8, <1>9, <3>1
    <3>4. last \in Of(b)' /\ Pend'[last].end = u + n
      BY <1>4, <1>6
    <3>5. RingUse(b, u + n)'
      BY <1>3, <3>2, <3>3, <3>4 DEF RingUse, bufs
    <3> QED BY <2>1, <3>1, <3>5 DEF RingUse
  <2>2. CASE buf_ring'[k][1] # b
    <3>1. PICK d, v : d = buf_ring'[k][1] /\ v = buf_ring'[k][2]
      OBVIOUS
    <3>2. RingUse(d, v)
      BY <1>11, <2>2, <3>1 DEF PiecesInv
    <3>3. Of(d)' = Of(d)
      BY <1>7, <2>2, <3>1
    <3>4. RingUse(d, v)'
      BY <1>8, <3>2, <3>3 DEF RingUse, bufs
    <3> QED BY <3>1, <3>4 DEF RingUse
  <2> QED BY <2>1, <2>2
<1>15. ASSUME NEW k \in DOMAIN staged'
       PROVE  StagedFree(staged[k])'
  <2>1. StagedFree(staged[k]) /\ staged' = staged
    BY <1>15 DEF PiecesInv
  <2>2. staged[k] # b
    BY <1>0, <1>2, <1>15, <2>1 DEF PiecesInv, BuffersOnce
  <2> QED BY <1>7, <2>1, <2>2 DEF StagedFree, bufs
<1>16. ASSUME NEW d \in Bid
       PROVE  InARow(d)' /\ ComesBack(d)'
  <2>1. InARow(d) /\ ComesBack(d)
    BY DEF PiecesInv
  <2>2. CASE d # b
    <3>1. InARow(d)'
      BY <1>7, <1>8, <2>1, <2>2 DEF InARow, bufs
    <3>2. InRing(d) => InRing(d)'
      BY <1>0, <1>12, <2>2 DEF InRing
    <3>3. ComesBack(d)'
      BY <1>7, <1>8, <2>1, <2>2, <3>2 DEF ComesBack, InStage, bufs
    <3> QED BY <3>1, <3>3
  <2>3. CASE d = b
    <3>1. InARow(b)'
      <4>1. \A k, m \in Of(b)' : k < m => Pend'[k].end <= Pend'[m].at
                                          /\ Pend'[k].buf_more
        <5> TAKE k, m \in Of(b)'
        <5> HAVE k < m
        <5>1. k \in Of(b)
          BY <1>5, <1>6, <1>8
        <5>2. CASE m \in Of(b)
          BY <1>8, <2>1, <2>3, <5>1, <5>2 DEF InARow
        <5>3. CASE m = last
          BY <1>4, <1>8, <1>9, <5>1, <5>3
        <5> QED BY <1>6, <5>2, <5>3
      <4>2. \A k \in Of(b)' : buf_offsets'[b] <= Pend'[k].at
        BY <1>3, <1>4, <1>6, <1>8, <2>1, <2>3 DEF InARow, RingUse, bufs
      <4>3. ASSUME Active', NEW k \in Of(b)', buf_offsets'[b] < Pend'[k].at
            PROVE  \E m \in Of(b)' : m < k /\ Pend'[m].end = Pend'[k].at
        <5>1. CASE k \in Of(b)
          BY <1>6, <1>8, <2>1, <2>3, <4>3, <5>1 DEF InARow, bufs
        <5>2. CASE k = last
          <6>1. PICK m \in Of(b) : Pend[m].end = u
            BY <1>3, <1>4, <4>3, <5>2 DEF RingUse, bufs
          <6>2. m < last /\ m \in Of(b)' /\ Pend'[m].end = Pend'[last].at
            BY <1>4, <1>5, <1>6, <1>8, <6>1
          <6> QED BY <5>2, <6>2
        <5> QED BY <1>6, <5>1, <5>2
      <4> QED BY <4>1, <4>2, <4>3 DEF InARow
    <3>2. ComesBack(b)'
      <4>1. ~buf_done'[b]
        BY <1>3 DEF RingUse, bufs
      <4>2. CASE BufMore(n)
        <5>1. InRing(b)'
          <6>1. 1 \in DOMAIN buf_ring' /\ buf_ring'[1][1] = b
            BY <1>0, <1>1, <1>2, <4>2
          <6> QED BY <6>1 DEF InRing
        <5> QED BY <4>1, <5>1 DEF ComesBack
      <4>3. CASE ~BufMore(n)
        <5>1. last \in Of(b)' /\ ~Pend'[last].buf_more
          BY <1>6, <4>3
        <5> QED BY <4>1, <5>1 DEF ComesBack
      <4> QED BY <4>2, <4>3
    <3> QED BY <2>3, <3>1, <3>2
  <2> QED BY <2>2, <2>3
<1> QED BY <1>13, <1>14, <1>15, <1>16 DEF PiecesInv

(* The pieces after the first, one place further to the front. *)
LEMMA Shifted ==
    ASSUME PendIs, PendIs', NEW N, DOMAIN Pend = 1..N, N \in Nat \ {0},
           DOMAIN Pend' = 1..N - 1,
           \A n \in 1..N - 1 : Pend'[n] = Pend[n + 1]
    PROVE  \A b : /\ \A n \in Of(b)' : n + 1 \in Of(b) /\ Pend'[n] = Pend[n + 1]
                                       /\ n + 1 # 1
                  /\ \A n \in Of(b) : n # 1 => n - 1 \in Of(b)'
                                               /\ Pend'[n - 1] = Pend[n]
                  /\ Of(b) \subseteq Nat /\ Of(b)' \subseteq Nat \ {0}
<1> TAKE b
<1>1. ASSUME NEW n \in Of(b)'
      PROVE  n + 1 \in Of(b) /\ Pend'[n] = Pend[n + 1] /\ n + 1 # 1
  <2>1. n \in 1..N - 1 /\ Pend'[n].has_buf /\ Pend'[n].bid = b
    BY DEF Of
  <2>2. Pend'[n] = Pend[n + 1] /\ n + 1 \in 1..N /\ n + 1 # 1
    BY <2>1
  <2> QED BY <2>1, <2>2 DEF Of
<1>2. ASSUME NEW n \in Of(b), n # 1
      PROVE  n - 1 \in Of(b)' /\ Pend'[n - 1] = Pend[n]
  <2>1. n \in 1..N /\ Pend[n].has_buf /\ Pend[n].bid = b
    BY DEF Of
  <2>2. n - 1 \in 1..N - 1 /\ (n - 1) + 1 = n
    BY <1>2, <2>1
  <2>3. Pend'[n - 1] = Pend[n]
    BY <2>2
  <2> QED BY <2>1, <2>2, <2>3 DEF Of
<1>3. Of(b) \subseteq Nat /\ Of(b)' \subseteq Nat \ {0}
  BY DEF Of
<1> QED BY <1>1, <1>2, <1>3

(* The drain drops the first completion and asks nothing of its buffer. *)
LEMMA Dropping ==
    ASSUME PendIs, PendIs', PiecesInv, ~Active',
           UNCHANGED <<bufs, buf_ring, staged, results>>,
           NEW N, DOMAIN Pend = 1..N, N \in Nat \ {0}, DOMAIN Pend' = 1..N - 1,
           \A n \in 1..N - 1 : Pend'[n] = Pend[n + 1]
    PROVE  PiecesInv'
<1>1. \A b : \A n \in Of(b)' : n + 1 \in Of(b) /\ Pend'[n] = Pend[n + 1]
                               /\ n \in Nat
  BY Shifted
<1>2. BuffersOnce'
  BY DEF PiecesInv, BuffersOnce
<1>3. ASSUME NEW n \in DOMAIN buf_ring'
      PROVE  RingUse(buf_ring[n][1], buf_ring[n][2])'
  <2>1. RingUse(buf_ring[n][1], buf_ring[n][2])
    BY <1>3 DEF PiecesInv
  <2> QED BY <1>1, <2>1 DEF RingUse, bufs
<1>4. ASSUME NEW n \in DOMAIN staged'
      PROVE  StagedFree(staged[n])'
  <2>1. StagedFree(staged[n])
    BY <1>4 DEF PiecesInv
  <2> QED BY <1>1, <2>1 DEF StagedFree, bufs
<1>5. ASSUME NEW b \in Bid
      PROVE  InARow(b)' /\ ComesBack(b)'
  <2>1. InARow(b) /\ ComesBack(b)
    BY DEF PiecesInv
  <2>2. \A m, n \in Of(b)' : m < n => m + 1 < n + 1
    BY <1>1
  <2>3. InARow(b)'
    <3>1. \A m, n \in Of(b)' : m < n => Pend'[m].end <= Pend'[n].at
                                        /\ Pend'[m].buf_more
      BY <1>1, <2>1, <2>2 DEF InARow
    <3>2. \A n \in Of(b)' : buf_offsets'[b] <= Pend'[n].at
      BY <1>1, <2>1 DEF InARow, bufs
    <3> QED BY <3>1, <3>2 DEF InARow
  <2>4. ComesBack(b)'
    BY <1>1, <2>1 DEF ComesBack, bufs
  <2> QED BY <2>3, <2>4
<1> QED BY <1>2, <1>3, <1>4, <1>5 DEF PiecesInv

(* A completion without a buffer makes place for the next. *)
LEMMA Passing ==
    ASSUME PendIs, PendIs', PiecesInv, Active' = Active,
           UNCHANGED <<bufs, buf_ring, staged>>,
           NEW r, results' = results \cup {r}, ~r.has_buf,
           NEW N, DOMAIN Pend = 1..N, N \in Nat \ {0}, DOMAIN Pend' = 1..N - 1,
           \A n \in 1..N - 1 : Pend'[n] = Pend[n + 1], ~Pend[1].has_buf
    PROVE  PiecesInv'
<1>1. \A b : \A n \in Of(b)' : n + 1 \in Of(b) /\ Pend'[n] = Pend[n + 1]
                               /\ n \in Nat
  BY Shifted
<1>2. \A b : \A n \in Of(b) : n - 1 \in Of(b)' /\ Pend'[n - 1] = Pend[n]
                              /\ n \in Nat
  <2>1. \A b : 1 \notin Of(b)
    BY DEF Of
  <2> QED BY <2>1, Shifted
<1>3. BuffersOnce'
  BY DEF PiecesInv, BuffersOnce
<1>4. ASSUME NEW n \in DOMAIN buf_ring'
      PROVE  RingUse(buf_ring[n][1], buf_ring[n][2])'
  <2>1. RingUse(buf_ring[n][1], buf_ring[n][2])
    BY <1>4 DEF PiecesInv
  <2> QED BY <1>1, <1>2, <2>1 DEF RingUse, bufs
<1>5. ASSUME NEW n \in DOMAIN staged'
      PROVE  StagedFree(staged[n])'
  <2>1. StagedFree(staged[n])
    BY <1>5 DEF PiecesInv
  <2> QED BY <1>1, <2>1 DEF StagedFree, bufs
<1>6. ASSUME NEW b \in Bid
      PROVE  InARow(b)' /\ ComesBack(b)'
  <2>1. InARow(b) /\ ComesBack(b)
    BY DEF PiecesInv
  <2>2. InARow(b)'
    <3>1. \A m, n \in Of(b)' : m < n => m + 1 < n + 1
      BY <1>1
    <3>2. ASSUME Active', NEW n \in Of(b)', buf_offsets'[b] < Pend'[n].at
          PROVE  \E m \in Of(b)' : m < n /\ Pend'[m].end = Pend'[n].at
      <4>1. n + 1 \in Of(b) /\ Pend'[n] = Pend[n + 1] /\ n \in Nat
        BY <1>1
      <4>2. PICK m \in Of(b) : m < n + 1 /\ Pend[m].end = Pend[n + 1].at
        BY <2>1, <3>2, <4>1 DEF InARow, bufs
      <4>3. m - 1 \in Of(b)' /\ Pend'[m - 1] = Pend[m] /\ m - 1 < n
        BY <1>2, <4>1, <4>2
      <4> QED BY <4>1, <4>2, <4>3
    <3> QED BY <1>1, <2>1, <3>1, <3>2, SMTT(30) DEF InARow, bufs
  <2>3. ComesBack(b)'
    BY <1>1, <1>2, <2>1 DEF ComesBack, InRing, InStage, bufs
  <2> QED BY <2>2, <2>3
<1> QED BY <1>3, <1>4, <1>5, <1>6 DEF PiecesInv

(* The first piece becomes a result, which is where the results ended. *)
LEMMA Reaping ==
    ASSUME PoolInv, PendIs, PendIs', PiecesInv, ResultsApart, Active, Active',
           UNCHANGED <<buf_ring, staged>>,
           NEW N, DOMAIN Pend = 1..N, N \in Nat \ {0}, DOMAIN Pend' = 1..N - 1,
           \A n \in 1..N - 1 : Pend'[n] = Pend[n + 1],
           NEW p, p = Pend[1], p.has_buf, NEW b, b = p.bid,
           NEW r, results' = results \cup {r}, r.has_buf, r.bid = b,
           r.off = buf_offsets[b], r.at = p.at, r.at + r.len = p.end,
           buf_offsets' = [buf_offsets EXCEPT ![b] = p.end],
           buf_done' = [buf_done EXCEPT ![b] = @ \/ ~p.buf_more]
    PROVE  PiecesInv' /\ ResultsApart'
<1>1. \A d : /\ \A n \in Of(d)' : n + 1 \in Of(d) /\ Pend'[n] = Pend[n + 1]
                                  /\ n + 1 # 1
             /\ \A n \in Of(d) : n # 1 => n - 1 \in Of(d)'
                                          /\ Pend'[n - 1] = Pend[n]
             /\ Of(d) \subseteq Nat /\ Of(d)' \subseteq Nat \ {0}
  BY Shifted
<1>2. 1 \in Of(b) /\ b \in Bid /\ p.at \in Nat /\ p.end \in Nat
      /\ p.at <= p.end /\ p.buf_more \in BOOLEAN
  <2>1. 1 \in DOMAIN Pend /\ Pend[1].has_buf /\ Pend[1].bid = b
    OBVIOUS
  <2> QED BY <2>1 DEF Of, PendIs
<1>3. \A d : d # b => 1 \notin Of(d)
  BY DEF Of
<1>4. InARow(b) /\ ComesBack(b)
  BY <1>2 DEF PiecesInv
<1>5. p.at = buf_offsets[b]
  <2>1. buf_offsets[b] \in Nat /\ buf_offsets[b] <= p.at
    <3>1. buf_offsets[b] \in 0..BufSize
      BY <1>2 DEF PoolInv, TypeOK
    <3> QED BY <1>2, <1>4, <3>1, BufAssumption DEF InARow
  <2>2. ~\E m \in Of(b) : m < 1
    <3>1. \A m \in Of(b) : m \in 1..N
      BY DEF Of
    <3> QED BY <3>1
  <2>3. ~(buf_offsets[b] < p.at)
    BY <1>2, <1>4, <2>2 DEF InARow
  <2> QED BY <1>2, <2>1, <2>3
<1>6. /\ \A d \in Bid : d # b => buf_offsets'[d] = buf_offsets[d]
                                 /\ buf_done'[d] = buf_done[d]
      /\ buf_offsets'[b] = p.end
  BY <1>2 DEF PoolInv, TypeOK
<1>7. ~buf_done[b]
  BY <1>2, <1>4 DEF ComesBack
<1>8. /\ p.buf_more => ~buf_done'[b]
      /\ ~p.buf_more => buf_done'[b]
  <2>1. buf_done'[b] = (buf_done[b] \/ ~p.buf_more)
    BY <1>2 DEF PoolInv, TypeOK
  <2> QED BY <1>7, <2>1
<1>9. \A n \in Of(b) : n # 1 => p.end <= Pend[n].at /\ p.buf_more
                                /\ Pend[n].at <= Pend[n].end
                                /\ Pend[n].at \in Nat /\ Pend[n].end \in Nat
  <2>1. \A n \in Of(b) : n # 1 => 1 < n
    BY DEF Of
  <2>2. \A n \in Of(b) : Pend[n].at <= Pend[n].end
                         /\ Pend[n].at \in Nat /\ Pend[n].end \in Nat
    BY DEF Of, PendIs
  <2> QED BY <1>2, <1>4, <2>1, <2>2 DEF InARow
<1>10. BuffersOnce'
  BY DEF PiecesInv, BuffersOnce
<1>11. ASSUME NEW n \in DOMAIN buf_ring'
       PROVE  RingUse(buf_ring[n][1], buf_ring[n][2])'
  <2>1. PICK d, u : d = buf_ring[n][1] /\ u = buf_ring[n][2]
    OBVIOUS
  <2>2. RingUse(d, u) /\ d \in Bid /\ u \in Nat
    <3>1. buf_ring[n] \in Bid \X (0..BufSize - 1)
      BY <1>11 DEF PoolInv, TypeOK
    <3> QED BY <1>11, <2>1, <3>1, BufAssumption DEF PiecesInv
  <2>3. CASE d # b
    <3>1. /\ \A k \in Of(d)' : k + 1 \in Of(d) /\ Pend'[k] = Pend[k + 1]
          /\ \A k \in Of(d) : k - 1 \in Of(d)' /\ Pend'[k - 1] = Pend[k]
      BY <1>1, <1>3, <2>3
    <3>2. RingUse(d, u)'
      BY <1>6, <2>2, <2>3, <3>1 DEF RingUse
    <3> QED BY <2>1, <3>2 DEF RingUse
  <2>4. CASE d = b
    <3>1. p.end <= u /\ p.buf_more
      BY <1>2, <2>2, <2>4 DEF RingUse
    <3>2. \A k \in Of(b)' : Pend'[k].end <= u /\ Pend'[k].buf_more
      BY <1>1, <2>2, <2>4 DEF RingUse
    <3>3. p.end < u => \E k \in Of(b)' : Pend'[k].end = u
      <4> HAVE p.end < u
      <4>1. buf_offsets[b] < u
        BY <1>2, <1>5, <2>2
      <4>2. PICK k \in Of(b) : Pend[k].end = u
        BY <2>2, <2>4, <4>1 DEF RingUse
      <4>3. k # 1
        BY <1>2, <2>2, <4>2
      <4> QED BY <1>1, <4>2, <4>3
    <3>4. RingUse(b, u)'
      BY <1>6, <1>8, <3>1, <3>2, <3>3 DEF RingUse
    <3> QED BY <2>1, <2>4, <3>4 DEF RingUse
  <2> QED BY <2>3, <2>4
<1>12. ASSUME NEW n \in DOMAIN staged'
       PROVE  StagedFree(staged[n])'
  <2>1. StagedFree(staged[n]) /\ staged[n] \in Bid
    BY <1>12 DEF PiecesInv, PoolInv, TypeOK
  <2>2. staged[n] # b
    BY <1>2, <2>1 DEF StagedFree
  <2> QED BY <1>1, <1>6, <2>1, <2>2 DEF StagedFree
<1>13. ASSUME NEW d \in Bid
       PROVE  InARow(d)' /\ ComesBack(d)'
  <2>1. InARow(d) /\ ComesBack(d)
    BY DEF PiecesInv
  <2>2. \A m, n \in Of(d)' : m < n => m + 1 < n + 1
    BY <1>1
  <2>3. \A m, n \in Of(d)' : m < n => Pend'[m].end <= Pend'[n].at
                                      /\ Pend'[m].buf_more
    <3>1. \A n \in Of(d)' : n + 1 \in Of(d) /\ Pend'[n] = Pend[n + 1]
      BY <1>1
    <3> QED BY <2>1, <2>2, <3>1 DEF InARow
  <2>4. CASE d # b
    <3>1. ASSUME NEW n \in Of(d)', buf_offsets'[d] < Pend'[n].at
          PROVE  \E m \in Of(d)' : m < n /\ Pend'[m].end = Pend'[n].at
      <4>1. n + 1 \in Of(d) /\ Pend'[n] = Pend[n + 1] /\ n \in Nat
        BY <1>1
      <4>2. PICK m \in Of(d) : m < n + 1 /\ Pend[m].end = Pend[n + 1].at
        BY <1>6, <2>1, <2>4, <3>1, <4>1 DEF InARow
      <4>3. m # 1 /\ m \in Nat
        BY <1>1, <1>3, <2>4
      <4>4. m - 1 \in Of(d)' /\ Pend'[m - 1] = Pend[m] /\ m - 1 < n
        BY <1>1, <4>1, <4>2, <4>3
      <4> QED BY <4>1, <4>2, <4>4
    <3>2. \A n \in Of(d)' : buf_offsets'[d] <= Pend'[n].at
      BY <1>1, <1>6, <2>1, <2>4 DEF InARow
    <3>3. InARow(d)'
      BY <2>3, <3>1, <3>2 DEF InARow
    <3>4. ComesBack(d)'
      BY <1>1, <1>3, <1>6, <2>1, <2>4 DEF ComesBack, InRing, InStage
    <3> QED BY <3>3, <3>4
  <2>5. CASE d = b
    <3>1. ASSUME NEW n \in Of(b)', buf_offsets'[b] < Pend'[n].at
          PROVE  \E m \in Of(b)' : m < n /\ Pend'[m].end = Pend'[n].at
      <4>1. n + 1 \in Of(b) /\ Pend'[n] = Pend[n + 1] /\ n \in Nat /\ n + 1 # 1
        BY <1>1
      <4>2. buf_offsets[b] < Pend[n + 1].at
        BY <1>2, <1>5, <1>6, <1>9, <3>1, <4>1
      <4>3. PICK m \in Of(b) : m < n + 1 /\ Pend[m].end = Pend[n + 1].at
        BY <1>4, <4>1, <4>2 DEF InARow
      <4>4. m # 1 /\ m \in Nat
        BY <1>1, <1>2, <1>6, <1>9, <3>1, <4>1, <4>3
      <4>5. m - 1 \in Of(b)' /\ Pend'[m - 1] = Pend[m] /\ m - 1 < n
        BY <1>1, <4>1, <4>3, <4>4
      <4> QED BY <4>1, <4>3, <4>5
    <3>2. \A n \in Of(b)' : buf_offsets'[b] <= Pend'[n].at
      BY <1>1, <1>6, <1>9
    <3>3. InARow(b)'
      BY <2>3, <2>5, <3>1, <3>2 DEF InARow
    <3>4. buf_done'[b] => Of(b)' = {} /\ r \in results'
      <4> HAVE buf_done'[b]
      <4>1. ~p.buf_more
        BY <1>8
      <4>2. \A n \in Of(b) : n = 1
        BY <1>9, <4>1
      <4> QED BY <1>1, <4>2
    <3>5. ASSUME ~buf_done'[b], ~InRing(b)', ~InStage(b)'
          PROVE  \E n \in Of(b)' : ~Pend'[n].buf_more
      <4>1. p.buf_more
        BY <1>8, <3>5
      <4>2. ~InRing(b) /\ ~InStage(b)
        BY <3>5 DEF InRing, InStage
      <4>3. PICK n \in Of(b) : ~Pend[n].buf_more
        BY <1>4, <1>7, <4>2 DEF ComesBack
      <4>4. n # 1
        BY <4>1, <4>3
      <4> QED BY <1>1, <4>3, <4>4
    <3>6. ComesBack(b)'
      BY <3>4, <3>5 DEF ComesBack
    <3> QED BY <2>5, <3>3, <3>6
  <2> QED BY <2>4, <2>5
<1>14. ResultsApart'
  <2>1. PointsAtData'
    BY <1>5 DEF ResultsApart, PointsAtData
  <2>2. \A x \in results : x.has_buf =>
          x.bid \in Bid /\ x.at + x.len <= buf_offsets[x.bid]
          /\ x.at \in Nat /\ x.len \in Nat
    BY DEF ResultsApart, PoolInv, ResultBids, TypeOK
  <2>3. \A x \in results : x.has_buf /\ x.bid = b => x.at + x.len <= r.at
    BY <1>5, <2>2
  <2>4. \A x \in results' : x.has_buf => x.at + x.len <= buf_offsets'[x.bid]
    <3> TAKE x \in results'
    <3> HAVE x.has_buf
    <3>1. CASE x = r
      BY <1>2, <1>6, <3>1
    <3>2. CASE x \in results /\ x.bid = b
      BY <1>2, <1>5, <1>6, <2>2, <3>2
    <3>3. CASE x \in results /\ x.bid # b
      BY <1>6, <2>2, <3>3
    <3> QED BY <3>1, <3>2, <3>3
  <2>5. \A r1, r2 \in results' :
          r1 # r2 /\ r1.has_buf /\ r2.has_buf /\ r1.bid = r2.bid =>
            r1.at + r1.len <= r2.at \/ r2.at + r2.len <= r1.at
    <3> TAKE r1, r2 \in results'
    <3> HAVE r1 # r2 /\ r1.has_buf /\ r2.has_buf /\ r1.bid = r2.bid
    <3>1. CASE r1 \in results /\ r2 \in results
      BY <3>1 DEF ResultsApart
    <3>2. CASE r1 = r
      BY <2>3, <3>2
    <3>3. CASE r2 = r
      BY <2>3, <3>3
    <3> QED BY <3>1, <3>2, <3>3
  <2> QED BY <2>1, <2>4, <2>5 DEF ResultsApart
<1> QED BY <1>10, <1>11, <1>12, <1>13, <1>14 DEF PiecesInv

(* A result is freed; the last one of a buffer that is used up makes the   *)
(* buffer ready to be published.                                           *)
LEMMA Freeing ==
    ASSUME PoolInv, PendIs, PiecesInv, ResultsApart, Active, Active',
           Pend' = Pend, UNCHANGED buf_ring,
           NEW r \in results, results' = results \ {r},
           \/ ~r.has_buf /\ UNCHANGED <<buf_offsets, buf_done, staged>>
           \/ /\ r.has_buf /\ ~Restorable(r.bid)
              /\ UNCHANGED <<buf_offsets, buf_done, staged>>
           \/ /\ r.has_buf /\ Restorable(r.bid)
              /\ buf_offsets' = [buf_offsets EXCEPT ![r.bid] = 0]
              /\ buf_done' = [buf_done EXCEPT ![r.bid] = FALSE]
              /\ staged' = Append(staged, r.bid)
    PROVE  PiecesInv' /\ ResultsApart'
<1>1. \A b : Of(b)' = Of(b)
  BY DEF Of
<1>2. r.has_buf => r.bid \in Bid
  BY DEF PoolInv, ResultBids
<1>3. ASSUME NEW b \in Bid
      PROVE  IsFiniteSet(HeldOf(b)) /\ buf_refcount[b] = Cardinality(HeldOf(b))
  BY FS_Subset DEF PoolInv, RefcountExact, HeldOf
<1>4. CASE UNCHANGED <<buf_offsets, buf_done, staged>>
           /\ (~r.has_buf \/ ~Restorable(r.bid))
  <2>1. ASSUME NEW b \in Bid, buf_done[b]
        PROVE  \E x \in results' : x.has_buf /\ x.bid = b
    <3>1. PICK x \in results : x.has_buf /\ x.bid = b
      BY <2>1 DEF PiecesInv, ComesBack
    <3>2. CASE r.has_buf /\ r.bid = b
      <4>1. buf_refcount[b] # 1
        BY <1>4, <2>1, <3>2 DEF Restorable
      <4>2. r \in HeldOf(b) /\ Cardinality(HeldOf(b)) # 1
        BY <1>3, <3>2, <4>1 DEF HeldOf
      <4>3. HeldOf(b) # {r}
        BY <4>2, FS_Singleton
      <4>4. PICK y \in HeldOf(b) : y # r
        BY <4>2, <4>3
      <4> QED BY <4>4 DEF HeldOf
    <3>3. CASE ~(r.has_buf /\ r.bid = b)
      BY <3>1, <3>3
    <3> QED BY <3>2, <3>3
  <2>2. BuffersOnce'
    BY <1>4 DEF PiecesInv, BuffersOnce
  <2>3. ASSUME NEW n \in DOMAIN buf_ring'
        PROVE  RingUse(buf_ring[n][1], buf_ring[n][2])'
    <3>1. RingUse(buf_ring[n][1], buf_ring[n][2])
      BY <2>3 DEF PiecesInv
    <3> QED BY <1>1, <1>4, <3>1 DEF RingUse
  <2>4. ASSUME NEW n \in DOMAIN staged'
        PROVE  StagedFree(staged[n])'
    <3>1. StagedFree(staged[n])
      BY <1>4, <2>4 DEF PiecesInv
    <3> QED BY <1>1, <1>4, <3>1 DEF StagedFree
  <2>5. ASSUME NEW b \in Bid
        PROVE  InARow(b)' /\ ComesBack(b)'
    <3>1. InARow(b) /\ ComesBack(b)
      BY DEF PiecesInv
    <3>2. InARow(b)'
      BY <1>1, <1>4, <3>1 DEF InARow
    <3>3. ComesBack(b)'
      BY <1>1, <1>4, <2>1, <3>1 DEF ComesBack, InRing, InStage
    <3> QED BY <3>2, <3>3
  <2>6. ResultsApart'
    BY <1>4 DEF ResultsApart, PointsAtData
  <2> QED BY <2>2, <2>3, <2>4, <2>5, <2>6 DEF PiecesInv
<1>5. CASE /\ r.has_buf /\ Restorable(r.bid)
           /\ buf_offsets' = [buf_offsets EXCEPT ![r.bid] = 0]
           /\ buf_done' = [buf_done EXCEPT ![r.bid] = FALSE]
           /\ staged' = Append(staged, r.bid)
  <2>1. PICK b \in Bid : b = r.bid
    BY <1>2, <1>5
  <2>2. buf_done[b] /\ buf_refcount[b] = 1
    BY <1>5, <2>1 DEF Restorable
  <2>3. \A x \in results : x.has_buf /\ x.bid = b => x = r
    <3>1. Cardinality(HeldOf(b)) = 1 /\ IsFiniteSet(HeldOf(b)) /\ r \in HeldOf(b)
      BY <1>3, <1>5, <2>1, <2>2 DEF HeldOf
    <3>2. Cardinality(HeldOf(b) \ {r}) = 0 /\ IsFiniteSet(HeldOf(b) \ {r})
      BY <3>1, FS_RemoveElement
    <3>3. HeldOf(b) \ {r} = {}
      BY <3>2, FS_EmptySet
    <3> QED BY <3>3 DEF HeldOf
  <2>4. Of(b) = {}
    BY <2>2 DEF PiecesInv, ComesBack
  <2>5. ~InRing(b)
    BY <2>2 DEF PiecesInv, RingUse, InRing
  <2>6. ~InStage(b)
    BY <2>2 DEF PiecesInv, StagedFree, InStage
  <2>7. /\ buf_offsets'[b] = 0 /\ ~buf_done'[b]
        /\ \A d \in Bid : d # b => buf_offsets'[d] = buf_offsets[d]
                                   /\ buf_done'[d] = buf_done[d]
    BY <1>5, <2>1 DEF PoolInv, TypeOK
  <2>8. /\ staged \in Seq(Bid) /\ DOMAIN staged = 1..Len(staged)
        /\ Len(staged) \in Nat /\ staged' \in Seq(Bid)
        /\ DOMAIN staged' = 1..Len(staged) + 1
        /\ \A n \in DOMAIN staged : staged'[n] = staged[n]
        /\ staged'[Len(staged) + 1] = b
    BY <1>5, <2>1, SMTT(30) DEF PoolInv, TypeOK
  <2>9. \A n \in DOMAIN staged' : n \in DOMAIN staged \/ n = Len(staged) + 1
    BY <2>8
  <2>10. BuffersOnce'
    <3>1. \A n \in DOMAIN staged : staged[n] # b
      BY <2>6 DEF InStage
    <3>2. \A n \in DOMAIN buf_ring : buf_ring[n][1] # b
      BY <2>5 DEF InRing
    <3>3. \A m, n \in DOMAIN staged' : staged'[m] = staged'[n] => m = n
      BY <2>8, <2>9, <3>1 DEF PiecesInv, BuffersOnce
    <3>4. \A m \in DOMAIN buf_ring', n \in DOMAIN staged' :
            buf_ring'[m][1] # staged'[n]
      BY <2>8, <2>9, <3>2 DEF PiecesInv, BuffersOnce
    <3> QED BY <3>3, <3>4 DEF PiecesInv, BuffersOnce
  <2>11. ASSUME NEW n \in DOMAIN buf_ring'
         PROVE  RingUse(buf_ring[n][1], buf_ring[n][2])'
    <3>1. PICK d, u : d = buf_ring[n][1] /\ u = buf_ring[n][2]
      OBVIOUS
    <3>2. RingUse(d, u) /\ d \in Bid /\ d # b
      BY <2>5, <2>11, <3>1, SMTT(30) DEF PiecesInv, InRing, PoolInv, TypeOK
    <3>3. RingUse(d, u)'
      BY <1>1, <2>7, <3>2 DEF RingUse
    <3> QED BY <3>1, <3>3 DEF RingUse
  <2>12. ASSUME NEW n \in DOMAIN staged'
         PROVE  StagedFree(staged[n])'
    <3>1. CASE n \in DOMAIN staged
      <4>1. PICK d \in Bid : d = staged[n]
        BY <2>8, <3>1
      <4>2. StagedFree(d) /\ d # b
        BY <2>6, <3>1, <4>1 DEF PiecesInv, InStage
      <4>3. StagedFree(d)'
        BY <1>1, <2>7, <4>2 DEF StagedFree
      <4> QED BY <2>8, <3>1, <4>1, <4>3 DEF StagedFree
    <3>2. CASE n = Len(staged) + 1
      <4>1. StagedFree(b)'
        BY <1>1, <2>3, <2>4, <2>7 DEF StagedFree
      <4> QED BY <2>8, <3>2, <4>1 DEF StagedFree
    <3> QED BY <2>9, <3>1, <3>2
  <2>13. ASSUME NEW d \in Bid
         PROVE  InARow(d)' /\ ComesBack(d)'
    <3>1. InARow(d) /\ ComesBack(d)
      BY DEF PiecesInv
    <3>2. CASE d = b
      <4>1. InStage(b)'
        BY <2>8 DEF InStage
      <4> QED BY <1>1, <2>4, <2>7, <3>2, <4>1 DEF InARow, ComesBack
    <3>3. CASE d # b
      <4>1. InARow(d)'
        BY <1>1, <2>7, <3>1, <3>3 DEF InARow
      <4>2. InStage(d) => InStage(d)'
        BY <2>8 DEF InStage
      <4>3. InRing(d)' <=> InRing(d)
        BY DEF InRing
      <4>4. \A x \in results : x.has_buf /\ x.bid = d => x \in results'
        BY <2>1, <3>3
      <4>5. ComesBack(d)'
        BY <1>1, <2>7, <3>1, <3>3, <4>2, <4>3, <4>4 DEF ComesBack
      <4> QED BY <4>1, <4>5
    <3> QED BY <3>2, <3>3
  <2>14. ResultsApart'
    <3>1. \A x \in results' : x.has_buf => x.bid \in Bid /\ x.bid # b
      BY <2>3 DEF PoolInv, ResultBids
    <3>2. \A x \in results' : x.has_buf => x.at + x.len <= buf_offsets'[x.bid]
      BY <2>7, <3>1 DEF ResultsApart
    <3> QED BY <3>2 DEF ResultsApart, PointsAtData
  <2> QED BY <2>10, <2>11, <2>12, <2>13, <2>14 DEF PiecesInv
<1> QED BY <1>4, <1>5

(* What was staged is published unused. *)
LEMMA AdvanceBytes ==
    ASSUME PoolInv, ByteInv, Advance
    PROVE  ByteInv'
<1> USE DEF ByteInv
<1>1. /\ Len(buf_ring') = Len(buf_ring) + Len(staged)
      /\ \A n \in DOMAIN buf_ring : buf_ring'[n] = buf_ring[n]
      /\ \A n \in 1..Len(staged) :
           buf_ring'[Len(buf_ring) + n] = <<staged[n], 0>>
      /\ staged' = <<>>
      /\ buf_ring' \in Seq(Bid \X (0..BufSize - 1))
  BY AdvanceFacts DEF PoolInv
<1>2. /\ DOMAIN buf_ring = 1..Len(buf_ring) /\ Len(buf_ring) \in Nat
      /\ DOMAIN staged = 1..Len(staged) /\ Len(staged) \in Nat
      /\ DOMAIN buf_ring' = 1..Len(buf_ring) + Len(staged)
      /\ \A n \in DOMAIN staged : staged[n] \in Bid
  BY <1>1, SMTT(30) DEF PoolInv, TypeOK
<1>3. Active /\ Active' /\ UNCHANGED <<bufs, results>> /\ Pend' = Pend
  BY DEF Advance, Active, Pend
<1>4. \A b : Of(b)' = Of(b)
  BY <1>3 DEF Of
<1>5. \A k \in DOMAIN buf_ring' :
        \/ k \in DOMAIN buf_ring /\ buf_ring'[k] = buf_ring[k]
        \/ k \notin DOMAIN buf_ring
           /\ k - Len(buf_ring) \in DOMAIN staged
           /\ buf_ring'[k] = <<staged[k - Len(buf_ring)], 0>>
  <2> TAKE k \in DOMAIN buf_ring'
  <2>1. CASE k <= Len(buf_ring)
    BY <1>1, <1>2, <2>1
  <2>2. CASE ~(k <= Len(buf_ring))
    <3>1. k - Len(buf_ring) \in 1..Len(staged)
          /\ Len(buf_ring) + (k - Len(buf_ring)) = k
      BY <1>2, <2>2
    <3>2. buf_ring'[Len(buf_ring) + (k - Len(buf_ring))]
            = <<staged[k - Len(buf_ring)], 0>>
      BY <1>1, <3>1
    <3> QED BY <1>2, <2>2, <3>1, <3>2
  <2> QED BY <1>2, <2>1, <2>2
<1>6. BuffersOnce'
  <2>1. \A k, m \in DOMAIN buf_ring' : buf_ring'[k][1] = buf_ring'[m][1] => k = m
    <3> TAKE k, m \in DOMAIN buf_ring'
    <3> HAVE buf_ring'[k][1] = buf_ring'[m][1]
    <3>1. CASE k \in DOMAIN buf_ring /\ m \in DOMAIN buf_ring
      BY <1>5, <3>1 DEF PiecesInv, BuffersOnce
    <3>2. CASE k \notin DOMAIN buf_ring /\ m \notin DOMAIN buf_ring
      <4>1. staged[k - Len(buf_ring)] = staged[m - Len(buf_ring)]
        BY <1>5, <3>2
      <4>2. k - Len(buf_ring) = m - Len(buf_ring) /\ k \in Int /\ m \in Int
        BY <1>2, <1>5, <3>2, <4>1 DEF PiecesInv, BuffersOnce
      <4> QED BY <1>2, <4>2
    <3>3. CASE k \in DOMAIN buf_ring /\ m \notin DOMAIN buf_ring
      BY <1>5, <3>3 DEF PiecesInv, BuffersOnce
    <3>4. CASE k \notin DOMAIN buf_ring /\ m \in DOMAIN buf_ring
      BY <1>5, <3>4 DEF PiecesInv, BuffersOnce
    <3> QED BY <3>1, <3>2, <3>3, <3>4
  <2>2. DOMAIN staged' = {}
    BY <1>1
  <2> QED BY <2>1, <2>2 DEF BuffersOnce
<1>7. ASSUME NEW k \in DOMAIN buf_ring'
      PROVE  RingUse(buf_ring[k][1], buf_ring[k][2])'
  <2>1. CASE k \in DOMAIN buf_ring
    <3>1. RingUse(buf_ring[k][1], buf_ring[k][2]) /\ buf_ring'[k] = buf_ring[k]
      BY <1>5, <2>1 DEF PiecesInv
    <3> QED BY <1>3, <1>4, <3>1 DEF RingUse, bufs
  <2>2. CASE k \notin DOMAIN buf_ring
    <3>1. PICK m \in DOMAIN staged : buf_ring'[k] = <<staged[m], 0>>
      BY <1>5, <2>2
    <3>2. PICK b : b = staged[m]
      OBVIOUS
    <3>3. StagedFree(b) /\ buf_ring'[k][1] = b /\ buf_ring'[k][2] = 0
      BY <3>1, <3>2 DEF PiecesInv
    <3>4. RingUse(b, 0)'
      BY <1>3, <1>4, <3>3 DEF RingUse, StagedFree, bufs
    <3> QED BY <3>3, <3>4 DEF RingUse
  <2> QED BY <2>1, <2>2
<1>8. ASSUME NEW b \in Bid
      PROVE  InARow(b)' /\ ComesBack(b)'
  <2>1. InARow(b) /\ ComesBack(b)
    BY DEF PiecesInv
  <2>2. InARow(b)'
    BY <1>3, <1>4, <2>1 DEF InARow, bufs
  <2>3. InRing(b) => InRing(b)'
    BY <1>1, <1>2 DEF InRing
  <2>4. InStage(b) => InRing(b)'
    <3> HAVE InStage(b)
    <3>1. PICK n \in 1..Len(staged) : staged[n] = b
      BY <1>2 DEF InStage
    <3>2. Len(buf_ring) + n \in DOMAIN buf_ring'
          /\ buf_ring'[Len(buf_ring) + n][1] = b
      BY <1>1, <1>2, <3>1
    <3> QED BY <3>2 DEF InRing
  <2>5. ComesBack(b)'
    BY <1>3, <1>4, <2>1, <2>3, <2>4 DEF ComesBack, bufs
  <2> QED BY <2>2, <2>5
<1>9. ResultsApart'
  BY <1>3 DEF ResultsApart, PointsAtData, bufs
<1>10. PiecesInv'
  <2>1. \A n \in DOMAIN staged' : StagedFree(staged[n])'
    BY <1>1
  <2> QED BY <1>6, <1>7, <1>8, <2>1 DEF PiecesInv
<1> QED BY <1>9, <1>10

(* Pieces and buffers are the same. *)
LEMMA Unmoved ==
    ASSUME PoolInv, PoolInv', ByteInv, Active' => Active,
           DOMAIN Pend' = DOMAIN Pend,
           \A n \in DOMAIN Pend : Pend'[n] = Pend[n],
           UNCHANGED <<bufs, buf_ring, staged, results>>
    PROVE  ByteInv'
<1> DEFINE f == [n \in DOMAIN Pend |-> n]
<1>1. PendIs /\ PendIs'
  BY PendFacts, PTL
<1>2. f \in [DOMAIN Pend -> DOMAIN Pend']
  OBVIOUS
<1>3. /\ \A m, n \in DOMAIN Pend : m < n => f[m] < f[n]
      /\ \A n \in DOMAIN Pend : Pend'[f[n]] = Pend[n]
      /\ \A k \in DOMAIN Pend' : Pend'[k].has_buf =>
           \E n \in DOMAIN Pend : k = f[n]
  OBVIOUS
<1> HIDE DEF f
<1>4. PiecesInv'
  BY <1>1, <1>2, <1>3, Renumbered DEF ByteInv
<1>5. ResultsApart'
  BY DEF ByteInv, ResultsApart, PointsAtData, bufs
<1> QED BY <1>4, <1>5 DEF ByteInv

(* A completion without a buffer comes before the picked requests. *)
LEMMA Inserted ==
    ASSUME PoolInv, PoolInv', ByteInv, Active' => Active,
           NEW c, ~c.has_buf, cq' = Append(cq, c),
           UNCHANGED <<picked, bufs, buf_ring, staged, results>>
    PROVE  ByteInv'
<1> DEFINE f == [n \in DOMAIN Pend |-> IF n <= Len(cq) THEN n ELSE n + 1]
<1>1. PendIs /\ PendIs'
  BY PendFacts, PTL
<1>2. /\ Len(cq') = Len(cq) + 1 /\ cq'[Len(cq) + 1] = c
      /\ \A n \in 1..Len(cq) : cq'[n] = cq[n]
  BY DEF PoolInv, TypeOK
<1>3. /\ DOMAIN Pend = 1..Len(cq) + Len(picked) /\ Len(cq) \in Nat
      /\ Len(picked) \in Nat
      /\ DOMAIN Pend' = 1..Len(cq) + Len(picked) + 1
  BY <1>1, <1>2 DEF PendIs
<1>4. \A n \in DOMAIN Pend : Pend'[f[n]] = Pend[n]
  <2> TAKE n \in DOMAIN Pend
  <2>1. CASE n <= Len(cq)
    <3>1. f[n] = n /\ n \in 1..Len(cq) /\ n \in 1..Len(cq')
      BY <1>2, <1>3, <2>1
    <3>2. Pend[n] = Piece(cq[n]) /\ Pend'[n] = Piece(cq'[n])
      BY <1>1, <3>1 DEF PendIs, Piece
    <3> QED BY <1>2, <3>1, <3>2
  <2>2. CASE ~(n <= Len(cq))
    <3>1. f[n] = n + 1
      BY <2>2
    <3>2. n - Len(cq) \in 1..Len(picked) /\ Len(cq) + (n - Len(cq)) = n
          /\ Len(cq') + (n - Len(cq)) = n + 1
      BY <1>2, <1>3, <2>2
    <3>3. Pend[n] = PickedPiece(picked[n - Len(cq)])
      BY <1>1, <3>2 DEF PendIs
    <3>4. Pend'[n + 1] = PickedPiece(picked'[n - Len(cq)])
      <4>1. \A k \in 1..Len(picked') : Pend'[Len(cq') + k] = PickedPiece(picked'[k])
        BY <1>1 DEF PendIs, PickedPiece
      <4>2. n - Len(cq) \in 1..Len(picked')
        BY <3>2
      <4> QED BY <3>2, <4>1, <4>2
    <3> QED BY <3>1, <3>3, <3>4
  <2> QED BY <2>1, <2>2
<1>5. f \in [DOMAIN Pend -> DOMAIN Pend']
  BY <1>3
<1>6. \A m, n \in DOMAIN Pend : m < n => f[m] < f[n]
  BY <1>3
<1>7. \A k \in DOMAIN Pend' : Pend'[k].has_buf => \E n \in DOMAIN Pend : k = f[n]
  <2> TAKE k \in DOMAIN Pend'
  <2> HAVE Pend'[k].has_buf
  <2>1. CASE k <= Len(cq)
    <3>1. k \in DOMAIN Pend /\ f[k] = k
      BY <1>3, <2>1
    <3> QED BY <3>1
  <2>2. CASE k = Len(cq) + 1
    <3>1. Pend'[k] = Piece(c) /\ Piece(c).has_buf = c.has_buf
      BY <1>1, <1>2, <1>3, <2>2 DEF PendIs, Piece
    <3> QED BY <3>1
  <2>3. CASE k > Len(cq) + 1
    <3>1. k - 1 \in DOMAIN Pend /\ f[k - 1] = k
      BY <1>3, <2>3
    <3> QED BY <3>1
  <2> QED BY <1>3, <2>1, <2>2, <2>3
<1> HIDE DEF f
<1>8. PiecesInv'
  BY <1>1, <1>4, <1>5, <1>6, <1>7, Renumbered DEF ByteInv
<1>9. ResultsApart'
  BY DEF ByteInv, ResultsApart, PointsAtData, bufs
<1> QED BY <1>8, <1>9 DEF ByteInv

LEMMA KernelPickBytes ==
    ASSUME PoolInv, PoolInv', ByteInv, NEW q \in inflight, KernelPick(q)
    PROVE  ByteInv'
<1> USE DEF ByteInv
<1> DEFINE n == Lesser(q.size, Room)
<1>1. /\ buf_ring # <<>> /\ Take(n) /\ q.size \in Nat
      /\ picked' = Append(picked, [q |-> q, bid |-> buf_ring[1][1],
                                   at |-> buf_ring[1][2], len |-> n,
                                   buf_more |-> BufMore(n)])
      /\ UNCHANGED <<bufs, cq, staged, results, pc>>
  BY SizeAssumption DEF KernelPick, PoolInv, TypeOK, Entry
<1>2. BufSize \in Nat /\ buf_ring[1] \in Bid \X (0..BufSize - 1)
  BY <1>1, BufAssumption, EmptySeq, LenProperties DEF PoolInv, TypeOK
<1>3. n \in Nat
  BY <1>1, <1>2 DEF Room, Lesser
<1> HIDE DEF n
<1>4. PICK p : p = [q |-> q, bid |-> buf_ring[1][1], at |-> buf_ring[1][2],
                    len |-> n, buf_more |-> BufMore(n)]
  OBVIOUS
<1>5. picked' = Append(picked, p)
  BY <1>1, <1>4
<1>6. PendIs /\ PendIs'
  BY PendFacts, PTL
<1>7. /\ Len(picked') = Len(picked) + 1 /\ picked'[Len(picked) + 1] = p
      /\ \A k \in 1..Len(picked) : picked'[k] = picked[k]
  BY <1>5 DEF PoolInv, TypeOK
<1>8. /\ DOMAIN Pend = 1..Len(cq) + Len(picked) /\ Len(cq) \in Nat
      /\ Len(picked) \in Nat /\ Len(cq') = Len(cq)
      /\ DOMAIN Pend' = 1..Len(cq) + Len(picked) + 1
  BY <1>1, <1>6, <1>7 DEF PendIs
<1>9. /\ \A k \in 1..Len(cq) : Pend'[k] = Piece(cq[k])
      /\ \A k \in 1..Len(picked) + 1 : Pend'[Len(cq) + k] = PickedPiece(picked'[k])
  BY <1>1, <1>6, <1>7, <1>8 DEF PendIs, Piece, PickedPiece
<1>10. \A k \in DOMAIN Pend : Pend'[k] = Pend[k]
  <2> TAKE k \in DOMAIN Pend
  <2>1. CASE k \in 1..Len(cq)
    BY <1>6, <1>9, <2>1 DEF PendIs
  <2>2. CASE k \notin 1..Len(cq)
    <3>1. k - Len(cq) \in 1..Len(picked) /\ Len(cq) + (k - Len(cq)) = k
          /\ k - Len(cq) \in 1..Len(picked) + 1
      BY <1>8, <2>2
    <3>2. Pend[Len(cq) + (k - Len(cq))] = PickedPiece(picked[k - Len(cq)])
      BY <1>6, <3>1 DEF PendIs
    <3>3. Pend'[Len(cq) + (k - Len(cq))] = PickedPiece(picked'[k - Len(cq)])
      BY <1>9, <3>1
    <3> QED BY <1>7, <3>1, <3>2, <3>3
  <2> QED BY <2>1, <2>2
<1>11. PICK last : last = Len(cq) + Len(picked) + 1
  OBVIOUS
<1>12. Pend'[last] = PickedPiece(p)
  <2>1. Len(picked) + 1 \in 1..Len(picked) + 1
        /\ Len(cq) + (Len(picked) + 1) = last
    BY <1>8, <1>11
  <2> QED BY <1>7, <1>9, <2>1
<1>13. PICK e : e = PickedPiece(p)
  OBVIOUS
<1>14. /\ e.has_buf /\ e.bid = buf_ring[1][1] /\ e.at = buf_ring[1][2]
       /\ e.end = e.at + n
  BY <1>4, <1>13 DEF PickedPiece
<1>15. e.buf_more <=> BufMore(n)
  BY <1>4, <1>13 DEF PickedPiece
<1>16. PiecesInv'
  <2>1. Active' = Active
    BY <1>1 DEF Active
  <2>2. Pend'[last] = e /\ DOMAIN Pend' = 1..last
    BY <1>8, <1>11, <1>12, <1>13
  <2> QED BY <1>1, <1>3, <1>6, <1>8, <1>10, <1>11, <1>14, <1>15, <2>1, <2>2,
             Taking
<1>17. ResultsApart'
  BY <1>1 DEF ResultsApart, PointsAtData, bufs
<1> QED BY <1>16, <1>17

LEMMA KernelDoneSocketBytes ==
    ASSUME InOrder, PoolInv, PoolInv', ByteInv,
           NEW q \in inflight, KernelDoneSocket(q)
    PROVE  ByteInv'
<1> USE DEF ByteInv
<1>1. /\ buf_ring # <<>> /\ picked = <<>> /\ q.size \in Nat
      /\ UNCHANGED <<bufs, picked, staged, results, pc>>
  BY SizeAssumption DEF KernelDoneSocket, PoolInv, TypeOK, Entry
<1>2. PICK n \in 0..Lesser(q.size, Room) :
        /\ Take(n)
        /\ cq' = Append(cq, BufCqe(q, n, buf_ring[1][1], buf_ring[1][2], n,
                                   BufMore(n)))
  BY DEF KernelDoneSocket
<1>3. BufSize \in Nat /\ buf_ring[1] \in Bid \X (0..BufSize - 1)
  BY <1>1, BufAssumption, EmptySeq, LenProperties DEF PoolInv, TypeOK
<1>4. n \in Nat
  BY <1>1, <1>2, <1>3 DEF Room, Lesser
<1>5. PICK c : c = BufCqe(q, n, buf_ring[1][1], buf_ring[1][2], n, BufMore(n))
  OBVIOUS
<1>6. cq' = Append(cq, c)
  BY <1>2, <1>5
<1>7. PendIs /\ PendIs'
  BY PendFacts, PTL
<1>8. /\ Len(cq') = Len(cq) + 1 /\ cq'[Len(cq) + 1] = c
      /\ \A k \in 1..Len(cq) : cq'[k] = cq[k]
  BY <1>6 DEF PoolInv, TypeOK
<1>9. /\ DOMAIN Pend = 1..Len(cq) /\ Len(cq) \in Nat
      /\ DOMAIN Pend' = 1..Len(cq) + 1 /\ Len(picked) = 0
  <2>1. Len(picked) = 0 /\ Len(picked') = 0
    BY <1>1
  <2> QED BY <1>7, <1>8, <2>1 DEF PendIs
<1>10. \A k \in 1..Len(cq) + 1 : Pend'[k] = Piece(cq'[k])
  BY <1>7, <1>8, <1>9 DEF PendIs, Piece
<1>11. \A k \in DOMAIN Pend : Pend'[k] = Pend[k]
  <2> TAKE k \in DOMAIN Pend
  <2>1. k \in 1..Len(cq) /\ k \in 1..Len(cq) + 1
    BY <1>9
  <2>2. Pend[k] = Piece(cq[k])
    BY <1>7, <2>1 DEF PendIs
  <2> QED BY <1>8, <1>10, <2>1, <2>2
<1>12. PICK last : last = Len(cq) + Len(picked) + 1
  OBVIOUS
<1>13. PICK e : e = Piece(c)
  OBVIOUS
<1>14. last = Len(cq) + 1 /\ Pend'[last] = e
  BY <1>8, <1>9, <1>10, <1>12, <1>13
<1>15. /\ e.has_buf /\ e.bid = buf_ring[1][1] /\ e.at = buf_ring[1][2]
       /\ e.end = e.at + n
  BY <1>5, <1>13 DEF Piece, BufCqe, Cqe
<1>16. e.buf_more <=> BufMore(n)
  BY <1>5, <1>13 DEF Piece, BufCqe, Cqe
<1>17. PiecesInv'
  <2>1. Active' = Active
    BY <1>1 DEF Active
  <2>2. DOMAIN Pend' = 1..last /\ DOMAIN Pend = 1..Len(cq) + Len(picked)
    BY <1>9, <1>14
  <2> QED BY <1>1, <1>2, <1>4, <1>7, <1>11, <1>12, <1>14, <1>15, <1>16,
             <2>1, <2>2, Taking
<1>18. ResultsApart'
  BY <1>1 DEF ResultsApart, PointsAtData, bufs
<1> QED BY <1>17, <1>18

(* Completed in order, a picked request keeps its place. *)
LEMMA KernelDoneFileBytes ==
    ASSUME InOrder, PoolInv, PoolInv', ByteInv,
           NEW i \in DOMAIN picked, KernelDoneFile(i)
    PROVE  ByteInv'
<1>1. i = 1 /\ UNCHANGED <<bufs, buf_ring, staged, results, pc>>
      /\ picked' = RemoveAt(picked, 1) /\ 1 \in DOMAIN picked
  BY DEF KernelDoneFile
<1>2. PICK p : p = picked[1]
  OBVIOUS
<1>3. PICK res \in 0..p.len :
        cq' = Append(cq, BufCqe(p.q, res, p.bid, p.at, p.len, p.buf_more))
  BY <1>1, <1>2 DEF KernelDoneFile
<1>4. PICK c : c = BufCqe(p.q, res, p.bid, p.at, p.len, p.buf_more)
  OBVIOUS
<1>5. Piece(c) = PickedPiece(p)
  BY <1>4 DEF Piece, PickedPiece, BufCqe, Cqe
<1>6. PendIs /\ PendIs'
  BY PendFacts, PTL
<1>7. /\ Len(cq') = Len(cq) + 1 /\ cq'[Len(cq) + 1] = c
      /\ \A k \in 1..Len(cq) : cq'[k] = cq[k]
  BY <1>3, <1>4 DEF PoolInv, TypeOK
<1>8. /\ Len(picked') = Len(picked) - 1
      /\ \A k \in 1..Len(picked) - 1 : picked'[k] = picked[k + 1]
  <2>1. picked \in Seq(Taken)
    BY DEF PoolInv, TypeOK, Taken
  <2>2. /\ Len(RemoveAt(picked, 1)) = Len(picked) - 1
        /\ \A k \in 1..Len(picked) - 1 : RemoveAt(picked, 1)[k] = picked[k + 1]
    BY <1>1, <2>1, RemoveAtFacts
  <2> QED BY <1>1, <2>2
<1>9. /\ DOMAIN Pend = 1..Len(cq) + Len(picked) /\ Len(cq) \in Nat
      /\ Len(picked) \in Nat \ {0} /\ DOMAIN Pend' = DOMAIN Pend
  <2>1. /\ DOMAIN Pend = 1..Len(cq) + Len(picked) /\ Len(cq) \in Nat
        /\ Len(picked) \in Nat /\ DOMAIN picked = 1..Len(picked)
        /\ DOMAIN Pend' = 1..Len(cq') + Len(picked')
    BY <1>6 DEF PendIs
  <2>2. Len(picked) # 0
    BY <1>1, <2>1
  <2>3. Len(cq') + Len(picked') = Len(cq) + Len(picked)
    BY <1>7, <1>8, <2>1
  <2> QED BY <2>1, <2>2, <2>3
<1>10. /\ \A k \in 1..Len(cq) + 1 : Pend'[k] = Piece(cq'[k])
       /\ \A k \in 1..Len(picked) - 1 :
            Pend'[Len(cq) + 1 + k] = PickedPiece(picked'[k])
  BY <1>6, <1>7, <1>8 DEF PendIs, Piece, PickedPiece
<1>11. \A k \in DOMAIN Pend : Pend'[k] = Pend[k]
  <2> TAKE k \in DOMAIN Pend
  <2>1. CASE k \in 1..Len(cq)
    <3>1. Pend[k] = Piece(cq[k]) /\ Pend'[k] = Piece(cq'[k])
      BY <1>6, <1>9, <1>10, <2>1 DEF PendIs
    <3> QED BY <1>7, <2>1, <3>1
  <2>2. CASE k = Len(cq) + 1
    <3>1. Pend'[k] = Piece(c)
      BY <1>7, <1>9, <1>10, <2>2
    <3>2. Pend[k] = PickedPiece(p)
      BY <1>2, <1>6, <1>9, <2>2 DEF PendIs
    <3> QED BY <1>5, <3>1, <3>2
  <2>3. CASE k > Len(cq) + 1
    <3>0. k \in Int /\ k <= Len(cq) + Len(picked) /\ Len(picked) \in Int
          /\ Len(cq) \in Int
      BY <1>9
    <3> PICK m : m = k - (Len(cq) + 1)
      OBVIOUS
    <3>1. m \in 1..Len(picked) - 1 /\ Len(cq) + 1 + m = k
          /\ m + 1 \in 1..Len(picked) /\ Len(cq) + (m + 1) = k
      BY <2>3, <3>0
    <3>2. Pend'[k] = PickedPiece(picked'[m])
      BY <1>10, <3>1
    <3>3. Pend[k] = PickedPiece(picked[m + 1])
      BY <1>6, <3>1 DEF PendIs
    <3> QED BY <1>8, <3>1, <3>2, <3>3
  <2> QED BY <1>9, <2>1, <2>2, <2>3
<1> QED BY <1>1, <1>9, <1>11, Unmoved DEF Active

(* The pieces when the first completion is gone. *)
LEMMA Popped ==
    ASSUME PoolInv, PoolInv', cq # <<>>, PopCq, UNCHANGED picked,
           NEW N, N = Len(cq) + Len(picked)
    PROVE  /\ DOMAIN Pend = 1..N /\ N \in Nat \ {0} /\ DOMAIN Pend' = 1..N - 1
           /\ \A n \in 1..N - 1 : Pend'[n] = Pend[n + 1]
           /\ Pend[1] = Piece(cq[1])
<1>1. PendIs /\ PendIs'
  BY PendFacts, PTL
<1>2. /\ Len(cq) \in Nat \ {0} /\ Len(cq') = Len(cq) - 1
      /\ \A n \in 1..Len(cq) - 1 : cq'[n] = cq[n + 1]
  BY PopFacts
<1>3. /\ DOMAIN Pend = 1..N /\ N \in Nat \ {0} /\ DOMAIN Pend' = 1..N - 1
      /\ Len(picked) \in Nat
  BY <1>1, <1>2 DEF PendIs
<1>4. \A n \in 1..N - 1 : Pend'[n] = Pend[n + 1]
  <2>1. /\ \A n \in 1..Len(cq) - 1 : Pend'[n] = Piece(cq'[n])
        /\ \A n \in 1..Len(picked) :
             Pend'[Len(cq) - 1 + n] = PickedPiece(picked[n])
    BY <1>1, <1>2 DEF PendIs, Piece, PickedPiece
  <2> TAKE n \in 1..N - 1
  <2>2. CASE n <= Len(cq) - 1
    <3>1. n \in 1..Len(cq) - 1 /\ n + 1 \in 1..Len(cq)
      BY <1>2, <2>2
    <3> QED BY <1>1, <1>2, <2>1, <3>1 DEF PendIs
  <2>3. CASE ~(n <= Len(cq) - 1)
    <3>1. PICK m : m = n - (Len(cq) - 1)
      OBVIOUS
    <3>2. m \in 1..Len(picked) /\ Len(cq) - 1 + m = n /\ Len(cq) + m = n + 1
      BY <1>2, <1>3, <2>3, <3>1
    <3> QED BY <1>1, <2>1, <3>2 DEF PendIs
  <2> QED BY <2>2, <2>3
<1>5. Pend[1] = Piece(cq[1])
  <2>1. 1 \in 1..Len(cq)
    BY <1>2
  <2> QED BY <1>1, <2>1 DEF PendIs
<1> QED BY <1>3, <1>4, <1>5

LEMMA ReapBytes ==
    ASSUME PoolInv, PoolInv', ByteInv, Reap
    PROVE  ByteInv'
<1> USE DEF ByteInv
<1>1. PICK c : c = Head(cq)
  OBVIOUS
<1>2. PICK r : r = Result(c)
  OBVIOUS
<1>3. /\ pc = "wait" /\ pc' = pc /\ cq # <<>> /\ PopCq
      /\ results' = results \cup {r}
      /\ IF c.has_buf THEN TakeRef(c) ELSE UNCHANGED bufs
      /\ UNCHANGED <<picked, buf_ring, staged>>
  BY <1>1, <1>2 DEF Reap, kernel
<1>4. Active /\ Active'
  BY <1>3 DEF Active
<1>5. PendIs /\ PendIs'
  BY PendFacts, PTL
<1>6. c \in Completion /\ c = cq[1] /\ c.data \in DataId /\ 1 \in DOMAIN cq
  <2>1. 1 \in DOMAIN cq /\ c = cq[1] /\ c \in Completion
    BY <1>1, <1>3, PopFacts
  <2> QED BY <1>4, <2>1 DEF PoolInv, DrainLast
<1>7. PICK N : N = Len(cq) + Len(picked)
  OBVIOUS
<1>8. /\ DOMAIN Pend = 1..N /\ N \in Nat \ {0} /\ DOMAIN Pend' = 1..N - 1
      /\ \A n \in 1..N - 1 : Pend'[n] = Pend[n + 1]
  BY <1>3, <1>7, Popped
<1>9. Pend[1] = Piece(c)
  BY <1>3, <1>6, <1>7, Popped
<1>10. /\ r.has_buf = c.has_buf /\ r.bid = c.bid /\ r.at = c.at /\ r.len = c.len
       /\ c.has_buf => r.off = buf_offsets[c.bid]
  BY <1>2 DEF Result
<1>11. CASE ~c.has_buf
  <2>1. UNCHANGED bufs /\ ~r.has_buf
    BY <1>3, <1>10, <1>11
  <2>2. Piece(c).has_buf = c.has_buf
    BY DEF Piece
  <2>3. ~Pend[1].has_buf
    BY <1>9, <1>11, <2>2
  <2>4. PiecesInv'
    BY <1>3, <1>4, <1>5, <1>8, <2>1, <2>3, Passing
  <2>5. ResultsApart'
    BY <1>3, <2>1 DEF ResultsApart, PointsAtData, bufs
  <2> QED BY <2>4, <2>5
<1>12. CASE c.has_buf
  <2>1. PICK p : p = Pend[1]
    OBVIOUS
  <2>2. /\ p.has_buf = c.has_buf /\ p.bid = c.bid /\ p.at = c.at
        /\ p.end = c.at + c.len /\ p.buf_more = c.buf_more
    BY <1>9, <2>1 DEF Piece
  <2>3. p.has_buf /\ r.has_buf
    BY <1>10, <1>12, <2>2
  <2>4. PICK b : b = p.bid
    OBVIOUS
  <2>5. b \in Bid /\ p.at \in Nat
    <3>1. 1 \in DOMAIN Pend
      BY <1>8
    <3> QED BY <1>5, <2>1, <2>3, <2>4, <3>1 DEF PendIs
  <2>6. buf_offsets[b] = p.at
    <3>1. 1 \in Of(b)
      BY <1>8, <2>1, <2>3, <2>4 DEF Of
    <3>2. InARow(b)
      BY <2>5 DEF PiecesInv
    <3>3. ~\E m \in Of(b) : m < 1
      BY <1>8 DEF Of
    <3>4. buf_offsets[b] <= p.at /\ ~(buf_offsets[b] < p.at)
      BY <1>4, <2>1, <3>1, <3>2, <3>3 DEF InARow
    <3>5. buf_offsets[b] \in Nat
      BY <2>5, BufAssumption DEF PoolInv, TypeOK
    <3> QED BY <2>5, <3>4, <3>5
  <2>7. EndsAt(record[c.data], c)
    BY <1>6, <1>12 DEF PoolInv, RecordKept
  <2>8. /\ buf_offsets' = [buf_offsets EXCEPT ![b] = p.end]
        /\ buf_done' = [buf_done EXCEPT ![b] = @ \/ ~p.buf_more]
    <3>1. /\ buf_done' = [buf_done EXCEPT ![c.bid] = @ \/ ~c.buf_more]
          /\ buf_offsets' = [buf_offsets EXCEPT
                               ![c.bid] = Lesser(@ + Consumed(record[c.data], c.res),
                                                 BufSize)]
      BY <1>3, <1>12 DEF TakeRef
    <3>2. Lesser(buf_offsets[b] + Consumed(record[c.data], c.res), BufSize) = p.end
      BY <2>2, <2>6, <2>7 DEF EndsAt
    <3> QED BY <2>2, <2>4, <3>1, <3>2
  <2>9. /\ r.bid = b /\ r.off = buf_offsets[b] /\ r.at = p.at
        /\ r.at + r.len = p.end
    BY <1>10, <1>12, <2>2, <2>4
  <2> QED BY <1>3, <1>4, <1>5, <1>8, <2>1, <2>3, <2>4, <2>8, <2>9, Reaping
<1> QED BY <1>11, <1>12

LEMMA DrainReapBytes ==
    ASSUME PoolInv, PoolInv', ByteInv, DrainReap
    PROVE  ByteInv'
<1> USE DEF ByteInv
<1>1. /\ pc = "drain" /\ pc' \in {"drain", "teardown"} /\ cq # <<>> /\ PopCq
      /\ UNCHANGED <<bufs, picked, buf_ring, staged, results>>
  BY DEF DrainReap, kernel
<1>2. ~Active'
  BY <1>1 DEF Active
<1>3. PendIs /\ PendIs'
  BY PendFacts, PTL
<1>4. PICK N : N = Len(cq) + Len(picked)
  OBVIOUS
<1>5. /\ DOMAIN Pend = 1..N /\ N \in Nat \ {0} /\ DOMAIN Pend' = 1..N - 1
      /\ \A n \in 1..N - 1 : Pend'[n] = Pend[n + 1]
  BY <1>1, <1>4, Popped
<1>6. PiecesInv'
  BY <1>1, <1>2, <1>3, <1>5, Dropping
<1>7. ResultsApart'
  BY <1>1 DEF ResultsApart, PointsAtData, bufs
<1> QED BY <1>6, <1>7

LEMMA FreeResultBytes ==
    ASSUME PoolInv, ByteInv, NEW r \in results, fh_xio_result_free_internal(r)
    PROVE  ByteInv'
<1> USE DEF ByteInv
<1>1. /\ pc \in {"idle", "free"} /\ pc' = "free" /\ results' = results \ {r}
      /\ UNCHANGED <<cq, picked, buf_ring>>
  BY DEF fh_xio_result_free_internal, kernel
<1>2. PendIs /\ Pend' = Pend /\ Active /\ Active'
  BY <1>1, PendFacts DEF Pend, Active
<1>3. \/ ~r.has_buf /\ UNCHANGED <<buf_offsets, buf_done, staged>>
      \/ /\ r.has_buf /\ ~Restorable(r.bid)
         /\ UNCHANGED <<buf_offsets, buf_done, staged>>
      \/ /\ r.has_buf /\ Restorable(r.bid)
         /\ buf_offsets' = [buf_offsets EXCEPT ![r.bid] = 0]
         /\ buf_done' = [buf_done EXCEPT ![r.bid] = FALSE]
         /\ staged' = Append(staged, r.bid)
  BY DEF fh_xio_result_free_internal, bufs, Rewind, Stage
<1> QED BY <1>1, <1>2, <1>3, Freeing

LEMMA ByteInit ==
    ASSUME Init
    PROVE  ByteInv
<1> USE DEF Init
<1>1. PendIs
  BY PoolInit, PendFacts
<1>2. \A b : Of(b) = {}
  <2>1. DOMAIN Pend = {}
    BY <1>1 DEF PendIs
  <2> QED BY <2>1 DEF Of
<1>3. /\ Cardinality(Bid) \in Nat /\ DOMAIN buf_ring = 1..Cardinality(Bid)
      /\ \A n \in DOMAIN buf_ring : /\ buf_ring[n][1] = n - 1
                                    /\ buf_ring[n][2] = 0
                                    /\ n - 1 \in Bid
  BY BufAssumption, FS_CardinalityType
<1>4. PiecesInv
  <2>1. BuffersOnce
    BY <1>3 DEF BuffersOnce
  <2>2. ASSUME NEW n \in DOMAIN buf_ring
        PROVE  RingUse(buf_ring[n][1], buf_ring[n][2])
    BY <1>2, <1>3 DEF RingUse
  <2>3. ASSUME NEW b \in Bid
        PROVE  InARow(b) /\ ComesBack(b)
    <3>1. b + 1 \in DOMAIN buf_ring /\ (b + 1) - 1 = b
      BY <1>3, BufAssumption
    <3>2. InRing(b)
      BY <1>3, <3>1 DEF InRing
    <3> QED BY <1>2, <3>2 DEF InARow, ComesBack
  <2> QED BY <2>1, <2>2, <2>3 DEF PiecesInv
<1>5. ResultsApart
  BY DEF ResultsApart, PointsAtData
<1> QED BY <1>4, <1>5 DEF ByteInv

LEMMA ByteStep ==
    ASSUME InOrder, PoolInv, PoolInv', ByteInv, [Next]_vars
    PROVE  ByteInv'
<1>1. ASSUME UNCHANGED <<cq, picked, bufs, buf_ring, staged, results>>,
             Active' => Active
      PROVE  ByteInv'
  <2>1. Pend' = Pend
    BY <1>1 DEF Pend
  <2> QED BY <1>1, <2>1, Unmoved
<1>2. CASE UNCHANGED vars
  BY <1>1, <1>2 DEF vars, kernel, Active
<1>3. CASE Kernel
  <2>1. ASSUME NEW q \in inflight, KernelPick(q)
        PROVE  ByteInv'
    BY <2>1, KernelPickBytes
  <2>2. ASSUME NEW q \in inflight, KernelDoneSocket(q)
        PROVE  ByteInv'
    BY <2>2, KernelDoneSocketBytes
  <2>3. ASSUME NEW q \in inflight, KernelDoneNoBuf(q)
        PROVE  ByteInv'
    <3>1. PICK res : cq' = Append(cq, Cqe(q, res))
      BY <2>3 DEF KernelDoneNoBuf
    <3>2. PICK c : c = Cqe(q, res)
      OBVIOUS
    <3>3. ~c.has_buf
      BY <3>2 DEF Cqe
    <3> QED BY <2>3, <3>1, <3>2, <3>3, Inserted DEF KernelDoneNoBuf, Active
  <2>4. ASSUME NEW n \in DOMAIN picked, KernelDoneFile(n)
        PROVE  ByteInv'
    BY <2>4, KernelDoneFileBytes
  <2>5. CASE KernelDrained
    <3>1. PICK c : c = Cqe([data |-> XIO, for |-> NULL], 0)
      OBVIOUS
    <3>2. ~c.has_buf
      BY <3>1 DEF Cqe
    <3> QED BY <2>5, <3>1, <3>2, Inserted DEF KernelDrained, Active, kernel
  <2> QED BY <1>3, <2>1, <2>2, <2>3, <2>4, <2>5 DEF Kernel
<1>4. ASSUME NEW op \in Op, NEW u \in Udata, NEW size \in Size,
             NEW select \in BOOLEAN, Request(op, u, size, select)
      PROVE  ByteInv'
  BY <1>1, <1>4 DEF Request, Active
<1>5. CASE fh_xio_submit_requests \/ fh_xio_wait
  BY <1>1, <1>5 DEF fh_xio_submit_requests, fh_xio_wait, Active
<1>6. CASE Reap
  BY <1>6, ReapBytes
<1>7. CASE WaitReturns
  BY <1>1, <1>7 DEF WaitReturns, Active, kernel
<1>8. ASSUME NEW r \in results, fh_xio_result_free_internal(r)
      PROVE  ByteInv'
  BY <1>8, FreeResultBytes
<1>9. CASE Advance
  BY <1>9, AdvanceBytes
<1>10. CASE fh_xio_drain
  <2>1. CASE cq' = cq
    BY <1>1, <1>10, <2>1 DEF fh_xio_drain, Active
  <2>2. CASE cq' = Append(cq, Cqe([data |-> NULL, for |-> NULL], 0))
    <3>1. PICK c : c = Cqe([data |-> NULL, for |-> NULL], 0)
      OBVIOUS
    <3>2. ~c.has_buf
      BY <3>1 DEF Cqe
    <3> QED BY <1>10, <2>2, <3>1, <3>2, Inserted DEF fh_xio_drain, Active
  <2> QED BY <1>10, <2>1, <2>2 DEF fh_xio_drain
<1>11. CASE DrainReap
  BY <1>11, DrainReapBytes
<1>12. CASE DrainFails \/ Teardown
  BY <1>1, <1>12 DEF DrainFails, Teardown, Active, kernel
<1> QED BY <1>2, <1>3, <1>4, <1>5, <1>6, <1>7, <1>8, <1>9, <1>10, <1>11, <1>12
        DEF Next, Caller

(* Pieces and results share buffers without overlapping, when the kernel   *)
(* completes requests in the order in which they took their bytes.         *)
THEOREM ByteInvariance ==
    ASSUME InOrder
    PROVE  Spec => []ByteInv
<1>1. PoolInv /\ ByteInv /\ PoolInv' /\ [Next]_vars => ByteInv'
  BY ByteStep
<1> QED BY PoolInvariance, ByteInit, <1>1, PTL DEF Spec

(* The address of a result, computed from the sizes of the completions     *)
(* reaped before it, is where the kernel put its bytes.                    *)
THEOREM ResultsPointAtData ==
    ASSUME InOrder
    PROVE  Spec => []PointsAtData
<1>1. ByteInv => PointsAtData
  BY DEF ByteInv, ResultsApart
<1> QED BY ByteInvariance, <1>1, PTL

(* Bytes that a result, a completion or a request owns are neither owned   *)
(* by another nor free for the kernel to write to.                         *)
THEOREM HeldBytesAreSafe ==
    ASSUME InOrder
    PROVE  Spec => []HeldBytesSafe
<1>1. PoolInv => PendIs
  BY PendFacts
<1>2. ASSUME PoolInv, PendIs, ByteInv, NEW c \in Claims
      PROVE  \/ c \in results /\ c.has_buf /\ c.bid \in Bid
                /\ c.at \in Nat /\ c.len \in Nat
             \/ \E n \in Of(c.bid) : /\ c.bid \in Bid /\ c.at \in Nat
                                     /\ Pend[n].at = c.at
                                     /\ Pend[n].end = c.at + c.len
                                     /\ n <= Len(cq) => c = cq[n]
                                     /\ n > Len(cq) => c = picked[n - Len(cq)]
  <2>1. CASE c \in results /\ c.has_buf
    BY <1>2, <2>1 DEF PoolInv, ResultBids, TypeOK
  <2>2. CASE c \in ToSet(cq) /\ c.has_buf
    <3>1. PICK n \in DOMAIN cq : c = cq[n]
      BY <2>2 DEF ToSet
    <3>2. n \in DOMAIN Pend /\ n <= Len(cq) /\ Pend[n] = Piece(c)
          /\ ~(n > Len(cq))
      BY <1>2, <3>1 DEF PendIs
    <3>3. /\ Piece(c).has_buf = c.has_buf /\ Piece(c).bid = c.bid
          /\ Piece(c).at = c.at /\ Piece(c).end = c.at + c.len
      BY DEF Piece
    <3>4. n \in Of(c.bid)
      BY <2>2, <3>2, <3>3 DEF Of
    <3>5. c.bid \in Bid /\ c.at \in Nat
      BY <1>2, <3>2, <3>3, <3>4 DEF PendIs, Of
    <3> QED BY <3>1, <3>2, <3>3, <3>4, <3>5
  <2>3. CASE c \in ToSet(picked)
    <3>1. PICK k \in DOMAIN picked : c = picked[k]
      BY <2>3 DEF ToSet
    <3>2. PICK n : n = Len(cq) + k
      OBVIOUS
    <3>3. n \in DOMAIN Pend /\ ~(n <= Len(cq)) /\ Pend[n] = PickedPiece(c)
          /\ n - Len(cq) = k
      BY <1>2, <3>1, <3>2 DEF PendIs
    <3>4. /\ PickedPiece(c).has_buf /\ PickedPiece(c).bid = c.bid
          /\ PickedPiece(c).at = c.at /\ PickedPiece(c).end = c.at + c.len
      BY DEF PickedPiece
    <3>5. n \in Of(c.bid)
      BY <3>3, <3>4 DEF Of
    <3>6. c.bid \in Bid /\ c.at \in Nat
      BY <1>2, <3>3, <3>4, <3>5 DEF PendIs, Of
    <3> QED BY <3>1, <3>3, <3>4, <3>5, <3>6
  <2> QED BY <2>1, <2>2, <2>3 DEF Claims
<1>3. ASSUME PoolInv, PendIs, ByteInv, NEW c \in Claims
      PROVE  /\ \A n \in DOMAIN buf_ring :
                  buf_ring[n][1] = c.bid => c.at + c.len <= buf_ring[n][2]
             /\ c.bid \notin ToSet(staged)
  <2>1. \A n \in DOMAIN buf_ring : buf_ring[n][2] \in Nat
    <3>1. \A n \in DOMAIN buf_ring : buf_ring[n] \in Bid \X (0..BufSize - 1)
      BY <1>3 DEF PoolInv, TypeOK
    <3> QED BY <3>1, BufAssumption
  <2>2. CASE c \in results /\ c.has_buf /\ c.bid \in Bid
             /\ c.at \in Nat /\ c.len \in Nat
    <3>1. c.at + c.len <= buf_offsets[c.bid] /\ buf_offsets[c.bid] \in Nat
      BY <1>3, <2>2, BufAssumption DEF ByteInv, ResultsApart, PoolInv, TypeOK
    <3>2. \A n \in DOMAIN buf_ring :
            buf_ring[n][1] = c.bid => buf_offsets[c.bid] <= buf_ring[n][2]
      BY <1>3 DEF ByteInv, PiecesInv, RingUse
    <3>3. c.bid \notin ToSet(staged)
      BY <1>3, <2>2 DEF ByteInv, PiecesInv, StagedFree, ToSet
    <3> QED BY <2>1, <2>2, <3>1, <3>2, <3>3
  <2>3. CASE \E n \in Of(c.bid) : Pend[n].end = c.at + c.len
    BY <1>3, <2>3 DEF ByteInv, PiecesInv, RingUse, StagedFree, ToSet
  <2> QED BY <1>2, <1>3, <2>2, <2>3
<1>4. ASSUME PoolInv, PendIs, ByteInv, NEW c1 \in Claims, NEW c2 \in Claims,
             c1 # c2, c1.bid = c2.bid
      PROVE  c1.at + c1.len <= c2.at \/ c2.at + c2.len <= c1.at
  <2>1. PICK b : b = c1.bid /\ b = c2.bid
    BY <1>4
  <2> DEFINE Res(c) == c \in results /\ c.has_buf /\ c.bid \in Bid
                       /\ c.at \in Nat /\ c.len \in Nat
             Pnd(c, n) == /\ c.bid \in Bid /\ c.at \in Nat
                          /\ Pend[n].at = c.at
                          /\ Pend[n].end = c.at + c.len
                          /\ n <= Len(cq) => c = cq[n]
                          /\ n > Len(cq) => c = picked[n - Len(cq)]
  <2>2. /\ Res(c1) \/ \E n \in Of(b) : Pnd(c1, n)
        /\ Res(c2) \/ \E n \in Of(b) : Pnd(c2, n)
    BY <1>2, <1>4, <2>1
  <2>3. ASSUME NEW r, Res(r), r.bid = b, NEW c, NEW n \in Of(b), Pnd(c, n),
               c.bid = b
        PROVE  r.at + r.len <= c.at
    <3>1. r.at + r.len <= buf_offsets[b] /\ buf_offsets[b] \in Nat
      BY <1>4, <2>3, BufAssumption, SMTT(30) DEF ByteInv, ResultsApart, PoolInv, TypeOK
    <3>2. buf_offsets[b] <= c.at
      BY <1>4, <2>3 DEF ByteInv, PiecesInv, InARow
    <3> QED BY <2>3, <3>1, <3>2
  <2>4. CASE Res(c1) /\ Res(c2)
    BY <1>4, <2>4 DEF ByteInv, ResultsApart
  <2>5. ASSUME NEW m \in Of(b), NEW n \in Of(b), Pnd(c1, m), Pnd(c2, n)
        PROVE  c1.at + c1.len <= c2.at \/ c2.at + c2.len <= c1.at
    <3>1. m \in Int /\ n \in Int /\ Len(cq) \in Int
      BY <1>4 DEF Of, PendIs
    <3>2. m # n
      BY <1>4, <2>5, <3>1
    <3>3. InARow(b)
      BY <1>4, <2>1, <2>5 DEF ByteInv, PiecesInv
    <3>4. m < n \/ n < m
      BY <3>1, <3>2
    <3> QED BY <2>5, <3>3, <3>4 DEF InARow
  <2> HIDE DEF Res, Pnd
  <2> QED BY <2>1, <2>2, <2>3, <2>4, <2>5
<1>5. PoolInv /\ PendIs /\ ByteInv => HeldBytesSafe
  BY <1>3, <1>4 DEF HeldBytesSafe
<1> QED BY PoolInvariance, ByteInvariance, <1>1, <1>5, PTL

(* Every provided buffer is in the ring or to be published, once, or owned *)
(* by someone whose free publishes it.                                     *)
THEOREM EveryBufferAccounted ==
    ASSUME InOrder
    PROVE  Spec => []BuffersAccounted
<1>1. PoolInv => PendIs
  BY PendFacts
<1>2. ASSUME PoolInv, PendIs, ByteInv
      PROVE  Once(RingBids) /\ Once(staged) /\ ToSet(RingBids) \cap ToSet(staged) = {}
  BY <1>2 DEF ByteInv, PiecesInv, BuffersOnce, Once, RingBids, ToSet
<1>3. ASSUME PoolInv, PendIs, ByteInv, Active, NEW b \in Bid
      PROVE  b \in ToSet(RingBids) \cup ToSet(staged) \cup {c.bid : c \in Claims}
  <2>1. ComesBack(b)
    BY <1>3 DEF ByteInv, PiecesInv
  <2>2. CASE InRing(b)
    BY <2>2 DEF InRing, RingBids, ToSet
  <2>3. CASE InStage(b)
    BY <2>3 DEF InStage, ToSet
  <2>4. CASE buf_done[b]
    BY <2>1, <2>4 DEF ComesBack, Claims
  <2>5. CASE ~buf_done[b] /\ ~InRing(b) /\ ~InStage(b)
    <3>1. PICK n \in DOMAIN Pend : Pend[n].has_buf /\ Pend[n].bid = b
      BY <1>3, <2>1, <2>5 DEF ComesBack, Of
    <3>2. CASE n \in 1..Len(cq)
      <4>1. Pend[n] = Piece(cq[n]) /\ n \in DOMAIN cq
        BY <1>3, <3>2 DEF PendIs
      <4>2. Piece(cq[n]).has_buf = cq[n].has_buf /\ Piece(cq[n]).bid = cq[n].bid
        BY DEF Piece
      <4>3. cq[n].has_buf /\ cq[n].bid = b /\ cq[n] \in ToSet(cq)
        BY <3>1, <4>1, <4>2 DEF ToSet
      <4> QED BY <4>3 DEF Claims
    <3>3. CASE n \notin 1..Len(cq)
      <4>1. PICK m : m = n - Len(cq)
        OBVIOUS
      <4>2. m \in 1..Len(picked) /\ Len(cq) + m = n /\ m \in DOMAIN picked
        BY <1>3, <3>1, <3>3, <4>1 DEF PendIs
      <4>3. Pend[n] = PickedPiece(picked[m])
        BY <1>3, <4>2 DEF PendIs
      <4>4. picked[m].bid = b /\ picked[m] \in ToSet(picked)
        BY <3>1, <4>2, <4>3 DEF PickedPiece, ToSet
      <4> QED BY <4>4 DEF Claims
    <3> QED BY <3>2, <3>3
  <2> QED BY <2>2, <2>3, <2>4, <2>5
<1>4. PoolInv /\ PendIs /\ ByteInv => BuffersAccounted
  BY <1>2, <1>3 DEF BuffersAccounted, Active, PoolInv
<1> QED BY PoolInvariance, ByteInvariance, <1>1, <1>4, PTL
=============================================================================
