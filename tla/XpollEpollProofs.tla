-------------------------- MODULE XpollEpollProofs --------------------------
(* Proofs about XpollEpoll, for every finite set of descriptors and every  *)
(* set of masks and pointers.                                              *)
EXTENDS XpollEpoll, FiniteSetTheorems, TLAPS

(* What the kernel holds, what may be ready, and what a call returns. *)
IInv ==
    /\ epoll \in [Fd -> Reg \cup {NONE}]
    /\ ready \subseteq Fd

(* A change of one descriptor's registration changes its pairs only. *)
LEMMA InterestSet ==
    ASSUME IInv, NEW fd \in Fd, NEW r \in Reg,
           epoll' = [epoll EXCEPT ![fd] = r]
    PROVE  Interest' = (Interest \ R!Registered(fd)) \cup {<<fd, r>>}
BY ExclusiveAssumption DEF IInv, Interest, R!Registered

LEMMA InterestForgotten ==
    ASSUME IInv, NEW fd \in Fd, epoll' = [epoll EXCEPT ![fd] = NONE]
    PROVE  Interest' = Interest \ R!Registered(fd)
BY DEF IInv, Interest, R!Registered

LEMMA RegisteredIff ==
    ASSUME IInv, NEW fd \in Fd
    PROVE  R!Registered(fd) # {} <=> epoll[fd] # NONE
<1>1. R!Registered(fd) = IF epoll[fd] # NONE THEN {<<fd, epoll[fd]>>} ELSE {}
  BY DEF IInv, Interest, R!Registered
<1> QED BY <1>1

(* Registry counts the way this module does. *)
LEMMA SameCardinality == \A S : R!Cardinality(S) = Cardinality(S)
BY DEF R!Cardinality, Cardinality

(* As many pairs as descriptors. *)
LEMMA PairsCounted ==
    ASSUME NEW S, IsFiniteSet(S), NEW e
    PROVE  Cardinality({<<fd, e[fd]>> : fd \in S}) = Cardinality(S)
<1> DEFINE T == {<<fd, e[fd]>> : fd \in S}
           f == [fd \in S |-> <<fd, e[fd]>>]
<1>1. f \in Bijection(S, T)
  BY DEF Bijection, Injection, Surjection, IsInjective
<1> QED BY <1>1, FS_Bijection DEF ExistsBijection

LEMMA InvInductive == Spec => []IInv
<1>1. Init => IInv
  BY DEF Init, IInv
<1>2. IInv /\ [Next]_vars => IInv'
  <2> SUFFICES ASSUME IInv, [Next]_vars PROVE IInv'
    OBVIOUS
  <2> USE DEF IInv
  <2>1. ASSUME NEW fd \in Fd, NEW r \in Reg,
               \/ xpoll_add_fd(fd, r) \/ xpoll_modify_fd(fd, r)
               \/ xpoll_add_or_modify_fd(fd, r)
        PROVE  IInv'
    BY <2>1 DEF xpoll_add_fd, xpoll_modify_fd, xpoll_add_or_modify_fd, EpollAdd,
                EpollAddFails, EpollMod, EpollModFails
  <2>2. ASSUME NEW fd \in Fd, xpoll_remove_fd(fd) \/ CloseFd(fd)
        PROVE  IInv'
    BY <2>2 DEF xpoll_remove_fd, CloseFd, EpollDel, EpollDelFails
  <2>3. ASSUME NEW max \in 1..Cardinality(Fd), xpoll_wait(max)
        PROVE  IInv'
    BY <2>3 DEF xpoll_wait
  <2>4. CASE xpoll_wait_fails \/ xpoll_close \/ Environment
    BY <2>4 DEF xpoll_wait_fails, xpoll_close, Environment
  <2>5. CASE UNCHANGED vars
    BY <2>5 DEF vars
  <2> QED BY <2>1, <2>2, <2>3, <2>4, <2>5 DEF Next
<1> QED BY <1>1, <1>2, PTL DEF Spec

(* The epoll backend implements xpoll's promise, but for registrations     *)
(* with XPOLL_EXCLUSIVE and for descriptors that are closed.               *)
THEOREM EpollImplementsRegistry == Spec => ImplementsRegistry
<1> DEFINE Step == \/ R!Next
                   \/ ExclusiveRefused
                   \/ \E fd \in Fd : CloseFd(fd)
<1>1. Init => R!Init
  BY DEF Init, R!Init, Interest, Done, R!Done
<1>2. IInv /\ [Next]_vars => [Step]_(R!vars)
  <2> SUFFICES ASSUME IInv, [Next]_vars PROVE [Step]_(R!vars)
    OBVIOUS
  <2>1. ASSUME NEW fd \in Fd, NEW r \in Reg, xpoll_add_fd(fd, r)
        PROVE  R!Next
    <3>1. CASE EpollAdd(fd, r) /\ ret' = Done("add", fd, TRUE)
      <4>1. R!Registered(fd) = {}
        BY <3>1, RegisteredIff DEF EpollAdd
      <4>2. Interest' = Interest \cup {<<fd, r>>}
        BY <3>1, <4>1, InterestSet DEF EpollAdd
      <4>3. R!Add(fd, r)
        BY <2>1, <3>1, <4>1, <4>2 DEF xpoll_add_fd, R!Add, R!Done, Done
      <4> QED BY <4>3 DEF R!Next
    <3>2. CASE EpollAddFails(fd) /\ ret' = Done("add", fd, FALSE)
      <4>1. R!AddFails(fd)
        BY <2>1, <3>2 DEF xpoll_add_fd, EpollAddFails, R!AddFails, R!Done, Done, Interest
      <4> QED BY <4>1 DEF R!Next
    <3> QED BY <2>1, <3>1, <3>2 DEF xpoll_add_fd
  <2>2. ASSUME NEW fd \in Fd, NEW r \in Reg, xpoll_modify_fd(fd, r)
        PROVE  Step
    <3>1. CASE EpollMod(fd, r) /\ ret' = Done("modify", fd, TRUE)
      <4>1. R!Registered(fd) # {}
        BY <3>1, RegisteredIff DEF EpollMod, MayModify
      <4>2. Interest' = (Interest \ R!Registered(fd)) \cup {<<fd, r>>}
        BY <3>1, InterestSet DEF EpollMod
      <4>3. R!Modify(fd, r)
        BY <2>2, <3>1, <4>1, <4>2 DEF xpoll_modify_fd, R!Modify, R!Done, Done
      <4> QED BY <4>3 DEF R!Next
    <3>2. CASE EpollModFails(fd, r) /\ ret' = Done("modify", fd, FALSE)
      <4>1. CASE epoll[fd] = NONE
        <5>1. R!NotThere("modify", fd)
          BY <2>2, <3>2, <4>1, RegisteredIff
          DEF xpoll_modify_fd, EpollModFails, R!NotThere, R!Done, Done, Interest
        <5> QED BY <5>1 DEF R!Next
      <4>2. CASE epoll[fd] # NONE
        <5>1. ExclusiveRefused
          BY <2>2, <3>2, <4>2
          DEF xpoll_modify_fd, EpollModFails, MayModify, ExclusiveRefused, Done
        <5> QED BY <5>1
      <4> QED BY <4>1, <4>2
    <3> QED BY <2>2, <3>1, <3>2 DEF xpoll_modify_fd
  <2>3. ASSUME NEW fd \in Fd, NEW r \in Reg, xpoll_add_or_modify_fd(fd, r)
        PROVE  Step
    <3>1. CASE /\ EpollMod(fd, r) \/ EpollAdd(fd, r)
               /\ ret' = Done("add_or_modify", fd, TRUE)
      <4>1. epoll' = [epoll EXCEPT ![fd] = r]
        BY <3>1 DEF EpollMod, EpollAdd
      <4>2. Interest' = (Interest \ R!Registered(fd)) \cup {<<fd, r>>}
        BY <4>1, InterestSet
      <4>3. R!AddOrModify(fd, r)
        BY <2>3, <3>1, <4>2
        DEF xpoll_add_or_modify_fd, R!AddOrModify, R!Done, Done
      <4> QED BY <4>3 DEF R!Next
    <3>2. CASE /\ ~MayModify(fd, r) /\ EpollAddFails(fd)
               /\ ret' = Done("add_or_modify", fd, FALSE)
      <4>1. CASE epoll[fd] = NONE
        <5>1. R!AddOrModifyFails(fd)
          BY <2>3, <3>2, <4>1, RegisteredIff
          DEF xpoll_add_or_modify_fd, EpollAddFails, R!AddOrModifyFails, R!Done,
              Done, Interest
        <5> QED BY <5>1 DEF R!Next
      <4>2. CASE epoll[fd] # NONE
        <5>1. ExclusiveRefused
          BY <2>3, <3>2, <4>2
          DEF xpoll_add_or_modify_fd, EpollAddFails, MayModify,
              ExclusiveRefused, Done
        <5> QED BY <5>1
      <4> QED BY <4>1, <4>2
    <3> QED BY <2>3, <3>1, <3>2 DEF xpoll_add_or_modify_fd
  <2>4. ASSUME NEW fd \in Fd, xpoll_remove_fd(fd)
        PROVE  R!Next
    <3>1. CASE EpollDel(fd) /\ ret' = Done("remove", fd, TRUE)
      <4>1. R!Registered(fd) # {}
        BY <3>1, RegisteredIff DEF EpollDel
      <4>2. Interest' = Interest \ R!Registered(fd)
        BY <3>1, InterestForgotten DEF EpollDel
      <4>3. R!Remove(fd)
        BY <2>4, <3>1, <4>1, <4>2 DEF xpoll_remove_fd, R!Remove, R!Done, Done
      <4> QED BY <4>3 DEF R!Next
    <3>2. CASE EpollDelFails(fd) /\ ret' = Done("remove", fd, FALSE)
      <4>1. R!NotThere("remove", fd)
        BY <2>4, <3>2, RegisteredIff
        DEF xpoll_remove_fd, EpollDelFails, R!NotThere, R!Done, Done, Interest
      <4> QED BY <4>1 DEF R!Next
    <3> QED BY <2>4, <3>1, <3>2 DEF xpoll_remove_fd
  <2>5. ASSUME NEW max \in 1..Cardinality(Fd), xpoll_wait(max)
        PROVE  R!Next
    <3> DEFINE hits == {fd \in Fd : epoll[fd] # NONE /\ fd \in ready}
               Pairs(S) == {<<fd, epoll[fd]>> : fd \in S}
    <3>1. PICK out \in SUBSET hits :
            /\ Cardinality(out) =
                 IF Cardinality(hits) < max THEN Cardinality(hits) ELSE max
            /\ ret' = [Done("wait", 0, TRUE) EXCEPT !.events = Pairs(out)]
      BY <2>5 DEF xpoll_wait
    <3>2. IsFiniteSet(hits) /\ IsFiniteSet(out)
      BY FdAssumption, FS_Subset
    <3>3. /\ Cardinality(Pairs(hits)) = Cardinality(hits)
          /\ Cardinality(Pairs(out)) = Cardinality(out)
      BY <3>2, PairsCounted
    <3>4. {p \in Interest : p[1] \in ready} = Pairs(hits)
      BY DEF Interest
    <3>5. Pairs(out) \in SUBSET Pairs(hits)
      OBVIOUS
    <3>6. UNCHANGED <<Interest, ready>>
      BY <2>5 DEF xpoll_wait, Interest
    <3>7. R!Wait(max)
      <4> DEFINE found == {p \in Interest : p[1] \in ready}
      <4>1. Pairs(out) \in SUBSET found
        BY <3>4, <3>5
      <4>2. R!Cardinality(Pairs(out)) =
              IF R!Cardinality(found) < max THEN R!Cardinality(found) ELSE max
        BY <3>1, <3>3, <3>4, SameCardinality
      <4>3. ret' = [R!Done("wait", 0, TRUE) EXCEPT !.events = Pairs(out)]
        BY <3>1 DEF R!Done, Done
      <4> QED BY <4>1, <4>2, <4>3, <3>6 DEF R!Wait
    <3>8. max \in 1..R!Cardinality(Fd)
      BY SameCardinality
    <3> QED BY <3>7, <3>8 DEF R!Next
  <2>6. CASE xpoll_wait_fails
    <3>1. R!WaitFails
      BY <2>6 DEF xpoll_wait_fails, R!WaitFails, R!Done, Done, Interest
    <3> QED BY <3>1 DEF R!Next
  <2>7. CASE xpoll_close
    <3>1. R!Close
      BY <2>7 DEF xpoll_close, R!Close, R!Done, Done, Interest
    <3> QED BY <3>1 DEF R!Next
  <2>8. CASE Environment
    <3>1. R!Environment
      BY <2>8 DEF Environment, R!Environment, Interest
    <3> QED BY <3>1 DEF R!Next
  <2>9. CASE UNCHANGED vars
    BY <2>9 DEF vars, R!vars, Interest
  <2> QED BY <2>1, <2>2, <2>3, <2>4, <2>5, <2>6, <2>7, <2>8, <2>9 DEF Next
<1> QED BY <1>1, <1>2, InvInductive, PTL DEF Spec, ImplementsRegistry
=============================================================================
