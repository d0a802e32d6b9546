----------------------------- MODULE XpollEpoll -----------------------------
(***************************************************************************)
(* The epoll backend of xpoll (src/event/xpoll.h and src/event/xpoll.c,    *)
(* FH_PLATFORM_LINUX).  The registrations are the kernel's; the code is    *)
(* the wrappers around epoll_ctl and epoll_wait.                           *)
(*                                                                         *)
(* The kernel is modelled as epoll_ctl(2) describes it: a registration     *)
(* with EPOLLEXCLUSIVE is never modified, and closing a descriptor drops   *)
(* its registration.  Level-triggered: XPOLL_EDGE is left out.             *)
(***************************************************************************)
EXTENDS Integers, FiniteSets

CONSTANTS
    Fd,
    Reg,          \* event masks with a udata
    Exclusive,    \* those with XPOLL_EXCLUSIVE
    NONE          \* a descriptor that is not registered

ASSUME FdAssumption == IsFiniteSet(Fd)
ASSUME ExclusiveAssumption == Exclusive \subseteq Reg /\ NONE \notin Reg

VARIABLES
    epoll,        \* [Fd -> Reg or NONE]: the interest list in the kernel
    ready,        \* descriptors with an event pending
    ret           \* what the last call returned

vars == <<epoll, ready, ret>>

Done(op, fd, ok) == [op |-> op, fd |-> fd, ok |-> ok, events |-> {}]

(* xpoll_create *)
Init ==
    /\ epoll = [fd \in Fd |-> NONE]
    /\ ready = {}
    /\ ret = Done("create", 0, TRUE)

-----------------------------------------------------------------------------
(* epoll_ctl: each operation either changes the list or fails *)

EpollAdd(fd, r) == epoll[fd] = NONE /\ epoll' = [epoll EXCEPT ![fd] = r]
EpollAddFails(fd) == UNCHANGED epoll           \* EEXIST, or ENOMEM

MayModify(fd, r) == epoll[fd] # NONE /\ {epoll[fd], r} \cap Exclusive = {}
EpollMod(fd, r) == MayModify(fd, r) /\ epoll' = [epoll EXCEPT ![fd] = r]
EpollModFails(fd, r) == ~MayModify(fd, r) /\ UNCHANGED epoll

EpollDel(fd) == epoll[fd] # NONE /\ epoll' = [epoll EXCEPT ![fd] = NONE]
EpollDelFails(fd) == epoll[fd] = NONE /\ UNCHANGED epoll

-----------------------------------------------------------------------------
(* The calls *)

xpoll_add_fd(fd, r) ==
    /\ \/ EpollAdd(fd, r) /\ ret' = Done("add", fd, TRUE)
       \/ EpollAddFails(fd) /\ ret' = Done("add", fd, FALSE)
    /\ UNCHANGED ready

xpoll_modify_fd(fd, r) ==
    /\ \/ EpollMod(fd, r) /\ ret' = Done("modify", fd, TRUE)
       \/ EpollModFails(fd, r) /\ ret' = Done("modify", fd, FALSE)
    /\ UNCHANGED ready

xpoll_remove_fd(fd) ==
    /\ \/ EpollDel(fd) /\ ret' = Done("remove", fd, TRUE)
       \/ EpollDelFails(fd) /\ ret' = Done("remove", fd, FALSE)
    /\ UNCHANGED ready

(* Mutant: what EPOLL_CTL_ADD says is not looked at. *)
xpoll_add_or_modify_fd_Ignores(fd, r) ==
    /\ \/ EpollMod(fd, r)
       \/ EpollModFails(fd, r) /\ (EpollAdd(fd, r) \/ EpollAddFails(fd))
    /\ ret' = Done("add_or_modify", fd, TRUE)
    /\ UNCHANGED ready

(* EPOLL_CTL_MOD, then EPOLL_CTL_ADD. *)
xpoll_add_or_modify_fd(fd, r) ==
    /\ \/ EpollMod(fd, r) /\ ret' = Done("add_or_modify", fd, TRUE)
       \/ /\ ~MayModify(fd, r)
          /\ \/ EpollAdd(fd, r) /\ ret' = Done("add_or_modify", fd, TRUE)
             \/ EpollAddFails(fd) /\ ret' = Done("add_or_modify", fd, FALSE)
    /\ UNCHANGED ready

(* epoll_wait: ready registrations, as many as fit. *)
xpoll_wait(max) ==
    LET hits == {fd \in Fd : epoll[fd] # NONE /\ fd \in ready} IN
    /\ \E out \in SUBSET hits :
         /\ Cardinality(out) =
              IF Cardinality(hits) < max THEN Cardinality(hits) ELSE max
         /\ ret' = [Done("wait", 0, TRUE) EXCEPT
                      !.events = {<<fd, epoll[fd]>> : fd \in out}]
    /\ UNCHANGED <<epoll, ready>>

(* EINVAL or EINTR *)
xpoll_wait_fails == ret' = Done("wait", 0, FALSE) /\ UNCHANGED <<epoll, ready>>

(* The process goes on with an xpoll from xpoll_create. *)
xpoll_close ==
    /\ epoll' = [fd \in Fd |-> NONE]
    /\ ret' = Done("create", 0, TRUE)
    /\ UNCHANGED ready

Environment == ready' \in SUBSET Fd /\ UNCHANGED <<epoll, ret>>

CloseFd(fd) ==
    /\ epoll' = [epoll EXCEPT ![fd] = NONE]
    /\ ready' = ready \ {fd}
    /\ UNCHANGED ret

Next ==
    \/ \E fd \in Fd, r \in Reg : \/ xpoll_add_fd(fd, r) \/ xpoll_modify_fd(fd, r)
                                 \/ xpoll_add_or_modify_fd(fd, r)
    \/ \E fd \in Fd : xpoll_remove_fd(fd) \/ CloseFd(fd)
    \/ \E max \in 1..Cardinality(Fd) : xpoll_wait(max)
    \/ xpoll_wait_fails
    \/ xpoll_close
    \/ Environment

Spec == Init /\ [][Next]_vars

-----------------------------------------------------------------------------
(* Properties *)

Interest == {<<fd, epoll[fd]>> : fd \in {f \in Fd : epoll[f] # NONE}}

R == INSTANCE Registry WITH interest <- Interest

(* A registration with XPOLL_EXCLUSIVE, or a change to one, is refused     *)
(* where xpoll promises to make it.                                        *)
ExclusiveRefused ==
    /\ ret'.op \in {"modify", "add_or_modify"} /\ ~ret'.ok
    /\ Exclusive # {}
    /\ \E r \in Reg : epoll[ret'.fd] # NONE /\ ~MayModify(ret'.fd, r)
    /\ UNCHANGED <<epoll, ready>>

(* The backend does to the registrations, and reports, what xpoll promises *)
(* - and what the tests under tests/event check - but for the two things   *)
(* that the kernel adds.                                                   *)
ImplementsRegistry ==
    R!Init /\ [][\/ R!Next
                 \/ ExclusiveRefused
                 \/ \E fd \in Fd : CloseFd(fd)]_R!vars
=============================================================================
