----------------------------- MODULE XpollKqueue -----------------------------
(***************************************************************************)
(* The kqueue backend of xpoll (src/event/xpoll.c, FH_PLATFORM_BSDLIKE).   *)
(* A registration is up to two filters of the kernel, each with the udata, *)
(* changed by one kevent call each.  An EV_ADD may fail for any reason; an *)
(* EV_DELETE fails only where there is no such filter (ENOENT, or EBADF of *)
(* a closed descriptor, whose filters are gone), so that none is left      *)
(* whichever way it goes: the results of the deletions in the rollback and *)
(* in modify, which the code ignores (xpoll.c:145, :327), change nothing.  *)
(*                                                                         *)
(* XPOLL_READ and XPOLL_WRITE are EVFILT_READ and EVFILT_WRITE, -1 and -2  *)
(* on the BSDs and on macOS, and are used as bit masks.  A mask is the set *)
(* of its bits here; bits 7 to 31 behave like bit 6 and are left out, as   *)
(* is EV_CLEAR.                                                            *)
(***************************************************************************)
EXTENDS Integers, FiniteSets

CONSTANTS
    Fd, Udata,
    NONE,         \* as the udata of a filter that is not there
    NoFd          \* as the descriptor of a call about none

ASSUME NoneAssumption == NONE \notin Udata /\ NoFd \notin Fd

Bits == 0..6
Filter == {"READ", "WRITE"}

(* enum xpoll_event_type; -2 has every bit but the lowest. *)
Value == [READ |-> Bits, WRITE |-> Bits \ {0}, ERROR |-> {2},
          HANGUP |-> {3}, READ_HANGUP |-> {4}, EDGE |-> {5}, EXCLUSIVE |-> {6}]
Name == DOMAIN Value
Mask(names) == UNION {Value[n] : n \in names}
Has(mask, name) == mask \cap Value[name] # {}      \* mask & XPOLL_...

VARIABLES
    filters,      \* [Fd -> [Filter -> Udata or NONE]]: in the kernel
    last,         \* the udata of each descriptor's last successful call
    ret           \* what the last call returned

vars == <<filters, last, ret>>

Done(op, fd, names, ok) ==
    [op |-> op, fd |-> fd, names |-> names, ok |-> ok, events |-> {}]
NoFilters == [f \in Filter |-> NONE]
Installed(fd) == {f \in Filter : filters[fd][f] # NONE}

(* xpoll_create; what fails in it hands out nothing. *)
Init ==
    /\ filters = [fd \in Fd |-> NoFilters]
    /\ last = [fd \in Fd |-> NONE]
    /\ ret = Done("create", NoFd, {}, TRUE)

-----------------------------------------------------------------------------
(* xpoll_ctl_fd, as a change of the filters of one descriptor *)

Wanted(mask) == {f \in Filter : Has(mask, f)}

(* Mutant: the read filter stays when the write filter fails. *)
RollBack_Keeps(mask, had, udata) ==
    IF Has(mask, "READ") THEN [had EXCEPT !["READ"] = udata] ELSE had

(* The read filter is deleted again, even one that was there before; if    *)
(* that fails, it is because the descriptor was closed meanwhile.          *)
RollBack(mask, had, udata) ==
    IF Has(mask, "READ") THEN [had EXCEPT !["READ"] = NONE] ELSE had

(* EV_ADD, which updates a filter that is there, of every filter in mask.  *)
CtlAdd(mask, had, udata, got, ok) ==
    \/ /\ Wanted(mask) # {}
       /\ got = [f \in Filter |-> IF f \in Wanted(mask) THEN udata ELSE had[f]]
       /\ ok = TRUE
    \/ ok = FALSE /\ got = had       \* EINVAL, or the first filter failed
    \/ /\ Has(mask, "WRITE")
       /\ got = RollBack(mask, had, udata)
       /\ ok = FALSE

(* EV_DELETE; a filter that is not there fails, and the next is tried.     *)
CtlDelete(mask, had, got, ok) ==
    /\ got = [f \in Filter |-> IF f \in Wanted(mask) THEN NONE ELSE had[f]]
    /\ ok = \E f \in Wanted(mask) : had[f] # NONE

-----------------------------------------------------------------------------
(* The calls *)

Outcomes == [Filter -> Udata \cup {NONE}]

AddTo(op, fd, udata, names, had) ==
    \E got \in Outcomes, ok \in BOOLEAN :
      /\ CtlAdd(Mask(names), had, udata, got, ok)
      /\ filters' = [filters EXCEPT ![fd] = got]
      /\ last' = IF ok THEN [last EXCEPT ![fd] = udata] ELSE last
      /\ ret' = Done(op, fd, names, ok)

xpoll_add_fd(fd, udata, names) == AddTo("add", fd, udata, names, filters[fd])

xpoll_add_or_modify_fd(fd, udata, names) ==
    AddTo("add_or_modify", fd, udata, names, filters[fd])

(* The filters that are not asked for are deleted first. *)
Unasked(names) ==
    UNION {IF Has(Mask(names), f) THEN {} ELSE Value[f] : f \in Filter}

xpoll_modify_fd(fd, udata, names) ==
    \E left \in Outcomes, ok \in BOOLEAN :
      /\ CtlDelete(Unasked(names), filters[fd], left, ok)
      /\ AddTo("modify", fd, udata, names, left)

xpoll_remove_fd(fd) ==
    \E got \in Outcomes, ok \in BOOLEAN :
      /\ CtlDelete(Mask(Filter), filters[fd], got, ok)
      /\ filters' = [filters EXCEPT ![fd] = got]
      /\ ret' = Done("remove", fd, {}, ok)
      /\ UNCHANGED last

(* What a filter's event becomes: its number, sign-extended, is the mask.  *)
(* EV_EOF adds XPOLL_HANGUP.  Nothing says which descriptor it is of.      *)
Event(fd, f, eof) ==
    [udata |-> filters[fd][f],
     mask |-> Value[f] \cup IF eof THEN Value["HANGUP"] ELSE {}]

(* Any filters may be ready; at most max of them are reported. *)
xpoll_wait(max) ==
    /\ \E out \in SUBSET {e \in Fd \X Filter : e[2] \in Installed(e[1])},
          eof \in SUBSET Fd :
         /\ Cardinality(out) <= max
         /\ ret' = [Done("wait", NoFd, {}, TRUE) EXCEPT
                      !.events = {Event(e[1], e[2], e[1] \in eof) : e \in out}]
    /\ UNCHANGED <<filters, last>>

(* max_events is zero, or kevent fails. *)
xpoll_wait_fails ==
    /\ ret' = Done("wait", NoFd, {}, FALSE)
    /\ UNCHANGED <<filters, last>>

xpoll_close ==
    /\ filters' = [fd \in Fd |-> NoFilters]
    /\ last' = [fd \in Fd |-> NONE]
    /\ ret' = Done("create", NoFd, {}, TRUE)

(* The kernel drops the filters of a descriptor that is closed. *)
CloseFd(fd) ==
    /\ filters' = [filters EXCEPT ![fd] = NoFilters]
    /\ UNCHANGED <<last, ret>>

(* Interest sets that callers ask for: nothing, one or both directions,    *)
(* with or without XPOLL_EDGE.                                             *)
Asked == (SUBSET {"READ", "WRITE"}) \cup {{"EDGE"}, {"READ", "EDGE"}}

Next ==
    \/ \E fd \in Fd, udata \in Udata, names \in Asked :
         \/ xpoll_add_fd(fd, udata, names)
         \/ xpoll_modify_fd(fd, udata, names)
         \/ xpoll_add_or_modify_fd(fd, udata, names)
    \/ \E fd \in Fd : xpoll_remove_fd(fd) \/ CloseFd(fd)
    \/ \E max \in 1..2 : xpoll_wait(max)
    \/ xpoll_wait_fails
    \/ xpoll_close

Spec == Init /\ [][Next]_vars

-----------------------------------------------------------------------------
(* Properties *)

(* The types; an event always carries a pointer that was registered. *)
TypeOK ==
    /\ filters \in [Fd -> Outcomes]
    /\ last \in [Fd -> Udata \cup {NONE}]
    /\ \A e \in ret.events : e.udata \in Udata /\ e.mask \in SUBSET Bits

(* tests/event/test_xpoll_udata.c:1: "The pointer registered with an fd    *)
(* must come back on that fd's events".  Whatever sequence of calls        *)
(* succeeded or failed in the middle, no filter is left with a pointer     *)
(* other than that of the last call that succeeded.                        *)
UdataCurrent ==
    /\ TypeOK
    /\ \A fd \in Fd, f \in Filter : filters[fd][f] \in {NONE, last[fd]}

(* tests/event/test_xpoll_badfd.c:85: a call that fails half-way installs  *)
(* no filter and changes none; it may lose some that were there.           *)
RejectedIsQuiet ==
    [][ret'.op \in {"add", "modify", "add_or_modify"} /\ ~ret'.ok =>
         \A fd \in Fd, f \in Filter :
           filters'[fd][f] \in {NONE, filters[fd][f]}]_vars
=============================================================================
