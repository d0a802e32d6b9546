-------------------------- MODULE XpollKqueueProofs --------------------------
(* Proofs about XpollKqueue, for every set of descriptors and pointers. *)
EXTENDS XpollKqueue, TLAPS

(* A call changes both filters of a descriptor or none: with EVFILT_READ   *)
(* and EVFILT_WRITE as bit masks, any event that a caller can name has a   *)
(* bit of each.                                                            *)
LEMMA BothOrNone ==
    ASSUME NEW names \in SUBSET Name
    PROVE  /\ names = {} => Wanted(Mask(names)) = {}
           /\ names # {} => Wanted(Mask(names)) = Filter
<1>1. ASSUME NEW n \in Name
      PROVE  \E b \in Value[n] : b \in Value["READ"] /\ b \in Value["WRITE"]
  <2>1. n \in {"READ", "WRITE", "ERROR", "HANGUP", "READ_HANGUP", "EDGE", "EXCLUSIVE"}
    BY DEF Name, Value
  <2>2. Value["READ"] = Bits /\ Value["WRITE"] = Bits \ {0}
    BY DEF Value
  <2>3. \E b \in Value[n] : b \in Bits \ {0}
    <3>1. CASE n \in {"READ", "WRITE"}
      BY <2>2, <3>1, 1 \in Bits \ {0} DEF Bits
    <3>2. CASE n = "ERROR"
      BY <3>2, 2 \in Value["ERROR"] DEF Value, Bits
    <3>3. CASE n = "HANGUP"
      BY <3>3, 3 \in Value["HANGUP"] DEF Value, Bits
    <3>4. CASE n = "READ_HANGUP"
      BY <3>4, 4 \in Value["READ_HANGUP"] DEF Value, Bits
    <3>5. CASE n = "EDGE"
      BY <3>5, 5 \in Value["EDGE"] DEF Value, Bits
    <3>6. CASE n = "EXCLUSIVE"
      BY <3>6, 6 \in Value["EXCLUSIVE"] DEF Value, Bits
    <3> QED BY <2>1, <3>1, <3>2, <3>3, <3>4, <3>5, <3>6
  <2> QED BY <2>2, <2>3
<1>2. ASSUME names # {}, NEW f \in Filter
      PROVE  Has(Mask(names), f)
  <2>1. PICK n \in names : TRUE
    BY <1>2
  <2>2. PICK b \in Value[n] : b \in Value["READ"] /\ b \in Value["WRITE"]
    BY <1>1
  <2>3. b \in Mask(names) /\ b \in Value[f]
    BY <2>1, <2>2 DEF Mask, Filter
  <2> QED BY <2>3 DEF Has
<1> QED BY <1>2 DEF Wanted, Has, Mask

(* Names that callers ask for, or that a delete is made from. *)
LEMMA AskedNames == Asked \subseteq SUBSET Name
<1>1. Name = {"READ", "WRITE", "ERROR", "HANGUP", "READ_HANGUP", "EDGE", "EXCLUSIVE"}
  BY DEF Name, Value
<1> HIDE DEF Name
<1>2. ASSUME NEW names \in Asked PROVE names \subseteq Name
  <2>1. CASE names \in SUBSET {"READ", "WRITE"}
    BY <1>1, <2>1
  <2>2. CASE names = {"EDGE"}
    BY <1>1, <2>2
  <2>3. CASE names = {"READ", "EDGE"}
    BY <1>1, <2>3
  <2> QED BY <2>1, <2>2, <2>3 DEF Asked
<1> QED BY <1>2

(* What an EV_DELETE leaves. *)
LEMMA DeleteLeaves ==
    ASSUME NEW mask, NEW had \in Outcomes, NEW got \in Outcomes, NEW ok,
           CtlDelete(mask, had, got, ok)
    PROVE  \A f \in Filter : got[f] \in {NONE, had[f]}
    BY DEF CtlDelete

(* What an EV_ADD leaves: a call that succeeds installs udata in both      *)
(* filters, one that fails installs nothing.                               *)
LEMMA AddLeaves ==
    ASSUME NEW names \in Asked, NEW udata \in Udata,
           NEW had \in Outcomes, NEW got \in Outcomes, NEW ok \in BOOLEAN,
           CtlAdd(Mask(names), had, udata, got, ok)
    PROVE  /\ ok => \A f \in Filter : got[f] = udata
           /\ ~ok => \A f \in Filter : got[f] \in {NONE, had[f]}
<1>1. names \in SUBSET Name
  BY AskedNames
<1>2. CASE /\ Wanted(Mask(names)) # {}
           /\ got = [f \in Filter |-> IF f \in Wanted(Mask(names)) THEN udata ELSE had[f]]
           /\ ok = TRUE
  <2>1. Wanted(Mask(names)) = Filter
    BY <1>1, <1>2, BothOrNone
  <2> QED BY <1>2, <2>1
<1>3. CASE ok = FALSE /\ got = had
  BY <1>3
<1>4. CASE got = RollBack(Mask(names), had, udata) /\ ok = FALSE
  BY <1>4 DEF RollBack, Outcomes
<1> QED BY <1>2, <1>3, <1>4 DEF CtlAdd

(* The part of UdataCurrent that a call can disturb. *)
Current ==
    /\ filters \in [Fd -> Outcomes]
    /\ last \in [Fd -> Udata \cup {NONE}]
    /\ \A fd \in Fd, f \in Filter : filters[fd][f] \in {NONE, last[fd]}

(* An addition to filters that are none but the last call's. *)
LEMMA AddKeeps ==
    ASSUME Current, NEW op, NEW fd \in Fd, NEW udata \in Udata,
           NEW names \in Asked, NEW had \in Outcomes,
           \A f \in Filter : had[f] \in {NONE, filters[fd][f]},
           AddTo(op, fd, udata, names, had)
    PROVE  /\ Current'
           /\ ret'.op = op /\ ret'.events = {}
           /\ ~ret'.ok => \A g \in Fd, f \in Filter :
                            filters'[g][f] \in {NONE, filters[g][f]}
<1>1. PICK got \in Outcomes, ok \in BOOLEAN :
        /\ CtlAdd(Mask(names), had, udata, got, ok)
        /\ filters' = [filters EXCEPT ![fd] = got]
        /\ last' = IF ok THEN [last EXCEPT ![fd] = udata] ELSE last
        /\ ret' = Done(op, fd, names, ok)
  BY DEF AddTo
<1>2. /\ ok => \A f \in Filter : got[f] = udata
      /\ ~ok => \A f \in Filter : got[f] \in {NONE, had[f]}
  BY <1>1, AddLeaves
<1>3. ret'.op = op /\ ret'.events = {} /\ ret'.ok = ok
  BY <1>1 DEF Done
<1>4. /\ filters' \in [Fd -> Outcomes] /\ last' \in [Fd -> Udata \cup {NONE}]
      /\ filters'[fd] = got
      /\ \A g \in Fd : g # fd => filters'[g] = filters[g] /\ last'[g] = last[g]
  BY <1>1 DEF Current
<1>5. \A f \in Filter : filters'[fd][f] \in {NONE, last'[fd]}
  <2>1. CASE ok
    BY <1>1, <1>2, <1>4, <2>1 DEF Current
  <2>2. CASE ~ok
    BY <1>1, <1>2, <1>4, <2>2 DEF Current
  <2> QED BY <2>1, <2>2
<1>6. Current'
  BY <1>4, <1>5 DEF Current
<1>7. ~ok => \A g \in Fd, f \in Filter : filters'[g][f] \in {NONE, filters[g][f]}
  BY <1>2, <1>4
<1> QED BY <1>3, <1>6, <1>7

(* The calls that add filters: a modify first deletes some. *)
LEMMA AddsTo ==
    ASSUME \A g \in Fd : filters[g] \in Outcomes,
           NEW fd \in Fd, NEW udata \in Udata, NEW names \in Asked,
           \/ xpoll_add_fd(fd, udata, names)
           \/ xpoll_modify_fd(fd, udata, names)
           \/ xpoll_add_or_modify_fd(fd, udata, names)
    PROVE  \E op \in {"add", "modify", "add_or_modify"}, had \in Outcomes :
             /\ \A f \in Filter : had[f] \in {NONE, filters[fd][f]}
             /\ AddTo(op, fd, udata, names, had)
<1>1. CASE xpoll_add_fd(fd, udata, names)
  BY <1>1 DEF xpoll_add_fd
<1>2. CASE xpoll_add_or_modify_fd(fd, udata, names)
  BY <1>2 DEF xpoll_add_or_modify_fd
<1>3. CASE xpoll_modify_fd(fd, udata, names)
  <2>1. PICK left \in Outcomes, ok \in BOOLEAN :
          /\ CtlDelete(Unasked(names), filters[fd], left, ok)
          /\ AddTo("modify", fd, udata, names, left)
    BY <1>3 DEF xpoll_modify_fd
  <2>2. \A f \in Filter : left[f] \in {NONE, filters[fd][f]}
    BY <2>1, DeleteLeaves
  <2> QED BY <2>1, <2>2
<1> QED BY <1>1, <1>2, <1>3

(* Every step keeps the invariant. *)
LEMMA CurrentStep ==
    ASSUME UdataCurrent, [Next]_vars
    PROVE  UdataCurrent'
<1>1. Current /\ \A e \in ret.events : e.udata \in Udata /\ e.mask \in SUBSET Bits
  BY DEF UdataCurrent, TypeOK, Current
<1>2. Current /\ ret.events = {} => UdataCurrent
  BY DEF UdataCurrent, TypeOK, Current
<1>3. ASSUME Current', ret'.events = {} PROVE UdataCurrent'
  BY <1>3 DEF UdataCurrent, TypeOK, Current
<1>4. \A fd \in Fd : filters[fd] \in Outcomes
  BY <1>1 DEF Current
<1>5. ASSUME NEW fd \in Fd, NEW udata \in Udata, NEW names \in Asked,
             \/ xpoll_add_fd(fd, udata, names)
             \/ xpoll_modify_fd(fd, udata, names)
             \/ xpoll_add_or_modify_fd(fd, udata, names)
      PROVE  UdataCurrent'
  <2>1. PICK op \in {"add", "modify", "add_or_modify"}, had \in Outcomes :
          /\ \A f \in Filter : had[f] \in {NONE, filters[fd][f]}
          /\ AddTo(op, fd, udata, names, had)
    BY <1>4, <1>5, AddsTo
  <2> QED BY <1>1, <1>3, <2>1, AddKeeps
<1>6. ASSUME NEW fd \in Fd, xpoll_remove_fd(fd)
      PROVE  UdataCurrent'
  <2>1. PICK got \in Outcomes, ok \in BOOLEAN :
          /\ CtlDelete(Mask(Filter), filters[fd], got, ok)
          /\ filters' = [filters EXCEPT ![fd] = got]
          /\ ret' = Done("remove", fd, {}, ok)
          /\ last' = last
    BY <1>6 DEF xpoll_remove_fd
  <2>2. \A f \in Filter : got[f] \in {NONE, filters[fd][f]}
    BY <1>4, <2>1, DeleteLeaves
  <2>3. Current'
    BY <1>1, <2>1, <2>2 DEF Current
  <2> QED BY <1>3, <2>1, <2>3 DEF Done
<1>7. NoFilters \in Outcomes /\ \A f \in Filter : NoFilters[f] = NONE
  BY DEF NoFilters, Outcomes
<1>8. ASSUME NEW fd \in Fd, CloseFd(fd)
      PROVE  UdataCurrent'
  <2>1. /\ filters' = [filters EXCEPT ![fd] = NoFilters]
        /\ last' = last /\ ret' = ret
    BY <1>8 DEF CloseFd
  <2>2. Current'
    BY <1>1, <1>7, <2>1 DEF Current
  <2> QED BY <1>1, <2>1, <2>2 DEF UdataCurrent, TypeOK, Current
<1>9. ASSUME NEW max \in 1..2, xpoll_wait(max)
      PROVE  UdataCurrent'
  <2>1. PICK out \in SUBSET {e \in Fd \X Filter : e[2] \in Installed(e[1])},
             eof \in SUBSET Fd :
          ret' = [Done("wait", NoFd, {}, TRUE) EXCEPT
                    !.events = {Event(e[1], e[2], e[1] \in eof) : e \in out}]
    BY <1>9 DEF xpoll_wait
  <2>2. ret'.events = {Event(e[1], e[2], e[1] \in eof) : e \in out}
    BY <2>1 DEF Done
  <2>3. ASSUME NEW e \in out
        PROVE  LET v == Event(e[1], e[2], e[1] \in eof)
               IN v.udata \in Udata /\ v.mask \in SUBSET Bits
    <3>1. e[1] \in Fd /\ e[2] \in Filter /\ filters[e[1]][e[2]] # NONE
      BY DEF Installed
    <3>2. filters[e[1]][e[2]] \in Udata
      BY <1>1, <3>1 DEF Current, Outcomes
    <3>3. Value[e[2]] \subseteq Bits /\ Value["HANGUP"] \subseteq Bits
      BY <3>1 DEF Filter, Value, Bits
    <3> QED BY <3>2, <3>3 DEF Event
  <2>4. filters' = filters /\ last' = last
    BY <1>9 DEF xpoll_wait
  <2> QED BY <1>1, <2>2, <2>3, <2>4 DEF UdataCurrent, TypeOK, Current
<1>10. CASE xpoll_wait_fails
  BY <1>1, <1>3, <1>10 DEF xpoll_wait_fails, Current, Done
<1>11. CASE xpoll_close
  BY <1>3, <1>7, <1>11 DEF xpoll_close, Current, Done
<1>12. CASE UNCHANGED vars
  BY <1>12 DEF vars, UdataCurrent, TypeOK
<1> QED BY <1>5, <1>6, <1>8, <1>9, <1>10, <1>11, <1>12 DEF Next

(* For any descriptors and pointers and any history of calls that succeed  *)
(* or fail half-way, a filter in the kernel carries the pointer of the     *)
(* last call that succeeded for its descriptor.                            *)
THEOREM UdataIsCurrent == Spec => []UdataCurrent
<1>1. Init => UdataCurrent
  BY DEF Init, UdataCurrent, TypeOK, NoFilters, Outcomes, Done
<1>2. UdataCurrent /\ [Next]_vars => UdataCurrent'
  BY CurrentStep
<1> QED BY <1>1, <1>2, PTL DEF Spec

(* A call that reports a failure has installed no filter and changed none; *)
(* it may have lost some.                                                  *)
THEOREM RejectedChangesNothing == Spec => RejectedIsQuiet
<1> DEFINE Quiet == ret'.op \in {"add", "modify", "add_or_modify"} /\ ~ret'.ok =>
                      \A fd \in Fd, f \in Filter :
                        filters'[fd][f] \in {NONE, filters[fd][f]}
<1>1. UdataCurrent /\ [Next]_vars => [Quiet]_vars
  <2> SUFFICES ASSUME UdataCurrent, Next PROVE Quiet
    OBVIOUS
  <2>1. Current /\ \A fd \in Fd : filters[fd] \in Outcomes
    BY DEF UdataCurrent, TypeOK, Current
  <2>2. ASSUME NEW fd \in Fd, NEW udata \in Udata, NEW names \in Asked,
               \/ xpoll_add_fd(fd, udata, names)
               \/ xpoll_modify_fd(fd, udata, names)
               \/ xpoll_add_or_modify_fd(fd, udata, names)
        PROVE  Quiet
    <3>1. PICK op \in {"add", "modify", "add_or_modify"}, had \in Outcomes :
            /\ \A f \in Filter : had[f] \in {NONE, filters[fd][f]}
            /\ AddTo(op, fd, udata, names, had)
      BY <2>1, <2>2, AddsTo
    <3> QED BY <2>1, <3>1, AddKeeps
  <2>3. ASSUME NEW fd \in Fd, CloseFd(fd) PROVE Quiet
    BY <2>1, <2>3 DEF CloseFd, NoFilters, Current
  <2>4. ASSUME \/ \E fd \in Fd : xpoll_remove_fd(fd)
               \/ \E max \in 1..2 : xpoll_wait(max)
               \/ xpoll_wait_fails
               \/ xpoll_close
        PROVE  Quiet
    <3>1. ret'.op \in {"remove", "wait", "create"}
      BY <2>4 DEF xpoll_remove_fd, xpoll_wait, xpoll_wait_fails, xpoll_close, Done
    <3> QED BY <3>1
  <2> QED BY <2>2, <2>3, <2>4 DEF Next
<1> QED BY <1>1, UdataIsCurrent, PTL DEF Spec, RejectedIsQuiet
=============================================================================
