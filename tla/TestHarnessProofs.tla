------------------------- MODULE TestHarnessProofs -------------------------
(***************************************************************************)
(* Proofs about LibTest and TestHarness, for every number of test cases,   *)
(* suites and jobs, and every pipe: what a test program promises, that it  *)
(* is a suite as RunTest takes it, and that the runner adds up rightly.    *)
(***************************************************************************)
EXTENDS TestHarness, SequenceTheorems, FiniteSetTheorems,
        WellFoundedInduction, TLAPS

Types ==
    /\ case \in Nat \ {0}
    /\ assert_fail_count \in Nat
    /\ passed \in BOOLEAN /\ exit_err \in BOOLEAN /\ hooks_ok \in BOOLEAN
    /\ verdicts \in Seq(BOOLEAN)
    /\ untold \in Nat

(* How many verdicts there are, by where the child is. *)
Progress ==
    /\ parent = At("start") => child = At("none")
    /\ child \in {At("none"), At("before_all")} => case = 1 /\ verdicts = <<>>
    /\ child \in {At("before_each"), At("test")} =>
         case <= NTests /\ Len(verdicts) = case - 1
    /\ child \in {At("write"), At("after_each")} =>
         case <= NTests /\ Len(verdicts) = case
    /\ child \in {At("after_all"), At("return"), Exited(0)} =>
         Len(verdicts) = NTests

(* exit_err remembers every failure ... *)
ErrorsKept ==
    ~exit_err => /\ \A n \in 1..Len(verdicts) : verdicts[n] = TRUE
                 /\ hooks_ok /\ untold = 0

(* ... and reaches the exit statuses of the child and of the parent.       *)
ErrorsTold ==
    /\ child = Exited(0) => ~exit_err
    /\ parent = Exited(0) => child = Exited(0)

IInv == Types /\ Progress /\ ErrorsKept /\ ErrorsTold

(* Where a process is tells how it is. *)
LEMMA StateFacts ==
    /\ \A w : At(w).how = "running" /\ At(w).at = w
    /\ \A c : Exited(c).how = "exited" /\ Exited(c).code = c
    /\ Signal.how = "signal"
BY DEF At, Exited, Signal

LEMMA InitInv == Init => IInv
<1> SUFFICES ASSUME Init PROVE IInv
  OBVIOUS
<1>1. Types
  <2>1. <<>> \in Seq(BOOLEAN)
    OBVIOUS
  <2>2. case \in Nat \ {0} /\ assert_fail_count \in Nat /\ untold \in Nat
    BY DEF Init
  <2>3. passed \in BOOLEAN /\ exit_err \in BOOLEAN /\ hooks_ok \in BOOLEAN
    BY Zenon DEF Init
  <2>4. verdicts = <<>>
    BY DEF Init
  <2> QED BY <2>1, <2>2, <2>3, <2>4 DEF Types
<1>2. Progress
  BY StateFacts DEF Init, Progress
<1>3. ErrorsKept /\ ErrorsTold
  BY StateFacts DEF Init, ErrorsKept, ErrorsTold
<1> QED BY <1>1, <1>2, <1>3 DEF IInv

(* Where the child goes from each place. *)
LEMMA AfterFacts ==
    /\ After["before_all"] = FirstOrLast(case)
    /\ After["before_each"] = "test"
    /\ After["test"] = "write"
    /\ After["write"] = "after_each"
    /\ After["after_each"] = FirstOrLast(case + 1)
    /\ After["after_all"] = "return"
BY DEF After

(* A hook moves the child on, and its failure is remembered. *)
LEMMA HookKeepsInv ==
    ASSUME IInv, NEW where \in Callback \ {"test"}, child = At(where),
           Advance(where), assert_fail_count' \in Nat,
           NEW ok \in BOOLEAN, exit_err' = (exit_err \/ ~ok),
           hooks_ok' = (hooks_ok /\ ok),
           UNCHANGED <<parent, passed, verdicts, untold>>
    PROVE  IInv'
<1>1. /\ child' = At(After[where])
      /\ case' = IF where = "after_each" THEN case + 1 ELSE case
  BY DEF Advance
<1>2. exit_err' \in BOOLEAN /\ hooks_ok' \in BOOLEAN
  OBVIOUS
<1>3. Types'
  BY <1>1, <1>2 DEF IInv, Types
<1>4. Progress' /\ child' # Exited(0) /\ child # Exited(0)
  <2>1. CASE where = "before_all"
    <3>1. child = At("before_all") /\ child' = At(FirstOrLast(case)) /\ case' = case
      BY <1>1, <2>1, AfterFacts
    <3> QED BY <3>1, StateFacts, NTestsAssumption
            DEF IInv, Types, Progress, FirstOrLast
  <2>2. CASE where = "before_each"
    <3>1. child = At("before_each") /\ child' = At("test") /\ case' = case
      BY <1>1, <2>2, AfterFacts
    <3> QED BY <3>1, StateFacts DEF IInv, Types, Progress
  <2>3. CASE where = "after_each"
    <3>1. /\ child = At("after_each") /\ child' = At(FirstOrLast(case + 1))
          /\ case' = case + 1
      BY <1>1, <2>3, AfterFacts
    <3> QED BY <3>1, StateFacts, NTestsAssumption
            DEF IInv, Types, Progress, FirstOrLast
  <2>4. CASE where = "after_all"
    <3>1. child = At("after_all") /\ child' = At("return") /\ case' = case
      BY <1>1, <2>4, AfterFacts
    <3> QED BY <3>1, StateFacts DEF IInv, Types, Progress
  <2> QED BY <2>1, <2>2, <2>3, <2>4 DEF Callback
<1>5. ErrorsKept'
  <2> SUFFICES ASSUME ~exit_err'
               PROVE  /\ \A n \in 1..Len(verdicts) : verdicts[n] = TRUE
                      /\ hooks_ok' /\ untold = 0
    BY ZenonT(30) DEF ErrorsKept
  <2>1. ~exit_err /\ ok
    OBVIOUS
  <2> QED BY <2>1 DEF IInv, ErrorsKept
<1>6. ErrorsTold'
  BY <1>4 DEF IInv, ErrorsTold
<1> QED BY <1>3, <1>4, <1>5, <1>6 DEF IInv

(* A test case adds its verdict. *)
LEMMA TestKeepsInv ==
    ASSUME IInv, child = At("test"), Advance("test"), assert_fail_count' \in Nat,
           NEW ok \in BOOLEAN, exit_err' = (exit_err \/ ~ok), passed' = ok,
           verdicts' = Append(verdicts, ok), UNCHANGED <<parent, hooks_ok, untold>>
    PROVE  IInv'
<1>1. child' = At("write") /\ case' = case
  BY AfterFacts DEF Advance
<1>2. exit_err' \in BOOLEAN
  OBVIOUS
<1>3. verdicts \in Seq(BOOLEAN)
  BY DEF IInv, Types
<1>4. /\ verdicts' \in Seq(BOOLEAN) /\ Len(verdicts') = Len(verdicts) + 1
      /\ \A n \in 1..Len(verdicts) : verdicts'[n] = verdicts[n]
      /\ verdicts'[Len(verdicts) + 1] = ok
  BY <1>3, AppendProperties
<1>5. Types'
  <2>1. passed' \in BOOLEAN
    OBVIOUS
  <2> QED BY <1>1, <1>2, <1>4, <2>1 DEF IInv, Types
<1>6. Progress' /\ child' # Exited(0) /\ child # Exited(0)
  <2>1. case <= NTests /\ Len(verdicts) = case - 1 /\ case \in Nat \ {0}
    BY StateFacts DEF IInv, Types, Progress
  <2>2. Len(verdicts') = case'
    BY <1>1, <1>4, <2>1
  <2> QED BY <1>1, <2>1, <2>2, StateFacts DEF IInv, Progress
<1>7. ErrorsKept'
  <2> SUFFICES ASSUME ~exit_err'
               PROVE  /\ \A n \in 1..Len(verdicts') : verdicts'[n] = TRUE
                      /\ hooks_ok /\ untold = 0
    BY ZenonT(30) DEF ErrorsKept
  <2>1. ~exit_err /\ ok = TRUE
    OBVIOUS
  <2>2. /\ \A n \in 1..Len(verdicts) : verdicts[n] = TRUE
        /\ hooks_ok /\ untold = 0
    BY <2>1 DEF IInv, ErrorsKept
  <2>3. Len(verdicts) \in Nat
    BY <1>3, LenProperties
  <2>4. ASSUME NEW n \in 1..Len(verdicts') PROVE verdicts'[n] = TRUE
    <3>1. n \in 1..Len(verdicts) \/ n = Len(verdicts) + 1
      BY <1>4, <2>3
    <3> QED BY <1>4, <2>1, <2>2, <3>1
  <2> QED BY <2>2, <2>4
<1>8. ErrorsTold'
  BY <1>6 DEF IInv, ErrorsTold
<1> QED BY <1>5, <1>6, <1>7, <1>8 DEF IInv

LEMMA CallbackKeepsInv == IInv /\ callback => IInv'
<1> SUFFICES ASSUME IInv, callback PROVE IInv'
  OBVIOUS
<1>1. PICK where \in Callback, rc \in 0..1, own \in 0..1 :
        /\ child = At(where)
        /\ Advance(where)
        /\ assert_fail_count' = own
        /\ exit_err' = (exit_err \/ ~(rc = 0 /\ own = 0))
        /\ IF where = "test"
           THEN /\ passed' = (rc = 0 /\ own = 0)
                /\ verdicts' = Append(verdicts, rc = 0 /\ own = 0)
                /\ UNCHANGED <<hooks_ok, untold>>
           ELSE /\ hooks_ok' = (hooks_ok /\ (rc = 0 /\ own = 0))
                /\ UNCHANGED <<passed, verdicts, untold>>
        /\ UNCHANGED <<parent_vars, pipe>>
  BY DEF callback, Fails
<1>2. assert_fail_count' \in Nat /\ UNCHANGED parent
  BY <1>1 DEF parent_vars
<1> DEFINE ok == rc = 0 /\ own = 0
<1>3. ok \in BOOLEAN
  OBVIOUS
<1>4. CASE where = "test"
  <2>1. /\ child = At("test") /\ Advance("test")
        /\ exit_err' = (exit_err \/ ~ok) /\ passed' = ok
        /\ verdicts' = Append(verdicts, ok) /\ UNCHANGED <<parent, hooks_ok, untold>>
    BY <1>1, <1>2, <1>4
  <2> HIDE DEF ok
  <2> QED BY <1>2, <1>3, <2>1, TestKeepsInv
<1>5. CASE where # "test"
  <2>1. /\ child = At(where) /\ Advance(where)
        /\ exit_err' = (exit_err \/ ~ok) /\ hooks_ok' = (hooks_ok /\ ok)
        /\ UNCHANGED <<parent, passed, verdicts, untold>>
        /\ where \in Callback \ {"test"}
    BY <1>1, <1>2, <1>5
  <2> HIDE DEF ok
  <2> QED BY <1>2, <1>3, <2>1, HookKeepsInv
<1> QED BY <1>4, <1>5

LEMMA WriteKeepsInv == IInv /\ write => IInv'
<1> SUFFICES ASSUME IInv, write PROVE IInv'
  OBVIOUS
<1>1. /\ child = At("write")
      /\ UNCHANGED <<parent, assert_fail_count, passed, verdicts, hooks_ok>>
  BY DEF write, parent_vars
<1>2. After["write"] = "after_each"
  BY AfterFacts
<1>3. CASE Advance("write") /\ UNCHANGED <<exit_err, untold>>
  BY <1>1, <1>2, <1>3, StateFacts
  DEF IInv, Types, Progress, ErrorsKept, ErrorsTold, Advance, Callback
<1>4. CASE Advance("write") /\ exit_err' = TRUE /\ untold' = untold + 1
  BY <1>1, <1>2, <1>4, StateFacts
  DEF IInv, Types, Progress, ErrorsKept, ErrorsTold, Advance, Callback
<1>5. CASE ChildEnds(Signal) /\ UNCHANGED <<exit_err, case, untold>>
  BY <1>1, <1>5, StateFacts
  DEF IInv, Types, Progress, ErrorsKept, ErrorsTold, ChildEnds
<1> QED BY <1>3, <1>4, <1>5 DEF write

(* The child ends, of itself or not. *)
LEMMA EndKeepsInv == IInv /\ (child_return \/ child_crashes) => IInv'
<1> SUFFICES ASSUME IInv, child_return \/ child_crashes PROVE IInv'
  OBVIOUS
<1>1. UNCHANGED <<parent, case, assert_fail_count, passed, exit_err, verdicts,
                  hooks_ok, untold>>
  BY DEF child_return, child_crashes, parent_vars, ghosts
<1>2. CASE child_return
  <2>1. /\ child = At("return")
        /\ child' = Exited(IF exit_err THEN 1 ELSE 0)
    BY <1>2 DEF child_return, ChildEnds
  <2> QED BY <1>1, <2>1, StateFacts
          DEF IInv, Types, Progress, ErrorsKept, ErrorsTold
<1>3. CASE child_crashes
  <2>1. child.how = "running" /\ child # At("none") /\ child' = Signal
    BY <1>3 DEF child_crashes, ChildEnds, Over
  <2>2. child # Exited(0)
    BY <2>1 DEF Exited
  <2> QED BY <1>1, <2>1, <2>2, StateFacts
          DEF IInv, Types, Progress, ErrorsKept, ErrorsTold
<1> QED BY <1>2, <1>3

LEMMA ParentKeepsInv == IInv /\ (Parent \/ parent_killed) => IInv'
<1> SUFFICES ASSUME IInv, Parent \/ parent_killed PROVE IInv'
  OBVIOUS
<1>1. UNCHANGED <<case, assert_fail_count, passed, exit_err, verdicts, hooks_ok,
                  untold>>
  BY DEF Parent, parent_killed, fork, close, fopen, read, waitpid, write_report,
         child_vars, ghosts
<1> USE StateFacts DEF IInv, Types, Progress, ErrorsKept, ErrorsTold
<1>2. CASE fork
  <2>1. /\ parent = At("start") /\ child = At("none")
        /\ parent' = At("close") \/ parent' = Exited(1)
        /\ child' = At("before_all") \/ child' = child
    BY <1>2 DEF fork
  <2> QED BY <1>1, <2>1 DEF Callback
<1>3. CASE close
  BY <1>1, <1>3 DEF close
<1>4. CASE fopen
  BY <1>1, <1>4 DEF fopen, ChildEnds, Over, Exited
<1>5. CASE read
  BY <1>1, <1>5 DEF read
<1>6. CASE waitpid
  BY <1>1, <1>6 DEF waitpid
<1>7. CASE write_report
  BY <1>1, <1>7 DEF write_report, Verdict
<1>8. CASE parent_killed
  BY <1>1, <1>8 DEF parent_killed
<1> QED BY <1>2, <1>3, <1>4, <1>5, <1>6, <1>7, <1>8 DEF Parent

LEMMA StepInv == IInv /\ [Next]_vars => IInv'
<1>1. IInv /\ UNCHANGED vars => IInv'
  BY DEF vars, parent_vars, ghosts, IInv, Types, Progress, ErrorsKept, ErrorsTold
<1> QED BY <1>1, CallbackKeepsInv, WriteKeepsInv, EndKeepsInv, ParentKeepsInv
        DEF Next, Child

LEMMA InvHolds == Spec => []IInv
BY InitInv, StepInv, PTL DEF Spec

LEMMA EarnedByInv == IInv => SuccessIsEarned
<1> SUFFICES ASSUME IInv, parent = Exited(0)
             PROVE  /\ verdicts = [n \in 1..NTests |-> TRUE]
                    /\ hooks_ok /\ untold = 0
  BY DEF SuccessIsEarned
<1>1. child = Exited(0) /\ ~exit_err
  BY DEF IInv, ErrorsTold
<1>2. /\ \A n \in 1..Len(verdicts) : verdicts[n] = TRUE
      /\ hooks_ok /\ untold = 0
  BY <1>1 DEF IInv, ErrorsKept
<1>3. Len(verdicts) = NTests
  BY <1>1 DEF IInv, Progress
<1>4. verdicts = [n \in 1..NTests |-> verdicts[n]]
  BY <1>3 DEF IInv, Types
<1> QED BY <1>2, <1>3, <1>4

(* A test program exits with 0 only if every test case and every hook of   *)
(* its suite ran to its end and succeeded, however many there are, however *)
(* small the pipe, and whatever crashed or was killed.                     *)
THEOREM ZeroIsEarned == Spec => []SuccessIsEarned
BY EarnedByInv, InvHolds, PTL

-----------------------------------------------------------------------------
(***************************************************************************)
(* The report.  Each verdict is in one place: still the child's, in the    *)
(* pipe, counted, or lost with its write; and what follows the end of the  *)
(* pipe changes nothing any more.                                          *)
(***************************************************************************)
Same(x, y) == IF x = y THEN 1 ELSE 0
AsPass(verdict) == Same(verdict, TRUE)
AsFail(verdict) == Same(verdict, FALSE)
Passes(seq) == Count(TRUE, seq)
Failures(seq) == Count(FALSE, seq)
PassUnsent == IF child = At("write") THEN AsPass(passed) ELSE 0
FailUnsent == IF child = At("write") THEN AsFail(passed) ELSE 0

(* The pipe has a writer while a process that holds its end runs. *)
WritersKnown ==
    /\ parent = At("start") => child = At("none")
    /\ child.how = "running" /\ child # At("none") => "child" \in writers
    /\ pipe \in Seq(BOOLEAN) /\ passed_count \in Nat /\ failed_count \in Nat

(* After the end of the pipe the child and the counts stay as they are. *)
EndOfPipe ==
    /\ parent \in {At("waitpid"), At("report")} \/ report # <<>> =>
         pipe = <<>> /\ (child.how # "running" \/ child = At("none"))
    /\ report # <<>> =>
         /\ report = <<passed_count, failed_count, child>>
         /\ parent.how # "running"

(* No verdict is counted twice, and while the child lives none is missing. *)
PassesCounted == passed_count + Passes(pipe) + PassUnsent <= Passes(verdicts)
FailuresCounted ==
    failed_count + Failures(pipe) + FailUnsent <= Failures(verdicts)
NoneMissing ==
    child.how # "signal" =>
      passed_count + failed_count + Len(pipe) + untold
        + PassUnsent + FailUnsent = Len(verdicts)

CountInv == PassesCounted /\ FailuresCounted /\ NoneMissing

ReportInv == WritersKnown /\ EndOfPipe /\ CountInv

(* How often a value occurs in a sequence. *)
LEMMA CountType ==
    ASSUME NEW S, NEW s \in Seq(S), NEW v
    PROVE  Count(v, s) \in Nat
<1> DEFINE C == {n \in DOMAIN s : s[n] = v}
<1>1. IsFiniteSet(1..Len(s))
  BY FS_Interval
<1>2. C \in SUBSET (1..Len(s))
  OBVIOUS
<1>3. IsFiniteSet(C)
  BY <1>1, <1>2, FS_Subset
<1> HIDE DEF C
<1>4. Cardinality(C) \in Nat
  BY <1>3, FS_CardinalityType
<1> QED BY <1>4 DEF Count, C

LEMMA CountAppend ==
    ASSUME NEW S, NEW s \in Seq(S), NEW x \in S, NEW v
    PROVE  Count(v, Append(s, x)) = Count(v, s) + Same(x, v)
<1> DEFINE C == {n \in DOMAIN s : s[n] = v}
           A == {n \in DOMAIN Append(s, x) : Append(s, x)[n] = v}
           end == Len(s) + 1
<1>1. IsFiniteSet(C) /\ Cardinality(C) \in Nat
  <2>1. IsFiniteSet(1..Len(s))
    BY FS_Interval
  <2>2. C \in SUBSET (1..Len(s))
    OBVIOUS
  <2> HIDE DEF C
  <2> QED BY <2>1, <2>2, FS_Subset, FS_CardinalityType
<1>2. /\ DOMAIN Append(s, x) = 1..end
      /\ \A n \in 1..Len(s) : Append(s, x)[n] = s[n]
      /\ Append(s, x)[end] = x
  BY AppendProperties
<1>3. end \notin C
  OBVIOUS
<1>4. CASE x = v
  <2>1. A = C \cup {end}
    BY <1>2, <1>4
  <2> HIDE DEF A, C, end
  <2>2. Cardinality(A) = Cardinality(C) + 1
    BY <1>1, <1>3, <2>1, FS_AddElement
  <2> QED BY <1>4, <2>2 DEF Count, A, C, Same
<1>5. CASE x # v
  <2>1. A = C
    BY <1>2, <1>5
  <2>2. Cardinality(A) = Cardinality(C) + 0
    <3> HIDE DEF A, C
    <3> QED BY <1>1, <2>1
  <2> HIDE DEF A, C
  <2> QED BY <1>5, <2>2 DEF Count, A, C, Same
<1> QED BY <1>4, <1>5

LEMMA CountTail ==
    ASSUME NEW S, NEW s \in Seq(S), s # <<>>, NEW v
    PROVE  Count(v, s) = Count(v, Tail(s)) + Same(Head(s), v)
<1> DEFINE C == {n \in DOMAIN s : s[n] = v}
           T == {n \in DOMAIN Tail(s) : Tail(s)[n] = v}
           f == [n \in T |-> n + 1]
<1>1. IsFiniteSet(C)
  <2>1. IsFiniteSet(1..Len(s))
    BY FS_Interval
  <2>2. C \in SUBSET (1..Len(s))
    OBVIOUS
  <2> HIDE DEF C
  <2> QED BY <2>1, <2>2, FS_Subset
<1>2. /\ Tail(s) \in Seq(S) /\ Len(Tail(s)) = Len(s) - 1
      /\ \A n \in 1..Len(s) - 1 : Tail(s)[n] = s[n + 1]
      /\ Head(s) = s[1] /\ Len(s) \in Nat \ {0}
  BY HeadTailProperties, EmptySeq, LenProperties
<1>3. T = {n \in 1..Len(s) - 1 : s[n + 1] = v}
  BY <1>2
<1>4. IsFiniteSet(T) /\ Cardinality(C \ {1}) = Cardinality(T)
  <2>1. IsFiniteSet(T)
    <3>1. IsFiniteSet(1..Len(s) - 1)
      BY <1>2, FS_Interval
    <3> QED BY <1>3, <3>1, FS_Subset
  <2>2. C \ {1} = {n \in 2..Len(s) : s[n] = v}
    BY <1>2
  <2>3. f \in Bijection(T, C \ {1})
    <3>1. f \in [T -> C \ {1}]
      BY <1>2, <1>3, <2>2
    <3>2. \A m, n \in T : f[m] = f[n] => m = n
      BY <1>3
    <3>3. \A c \in C \ {1} : \E n \in T : f[n] = c
      <4> SUFFICES ASSUME NEW c \in C \ {1} PROVE \E n \in T : f[n] = c
        OBVIOUS
      <4>1. c - 1 \in T
        BY <1>2, <1>3, <2>2
      <4>2. f[c - 1] = c
        BY <2>2, <4>1
      <4> QED BY <4>1, <4>2
    <3> HIDE DEF f, T, C
    <3> QED BY <3>1, <3>2, <3>3 DEF Bijection, Injection, Surjection, IsInjective
  <2> HIDE DEF C, T, f
  <2> QED BY <2>1, <2>3, FS_Bijection DEF ExistsBijection
<1>5. 1 \in C <=> Head(s) = v
  BY <1>2
<1>6. Cardinality(C \ {1}) = IF 1 \in C THEN Cardinality(C) - 1 ELSE Cardinality(C)
  <2> HIDE DEF C
  <2> QED BY <1>1, FS_RemoveElement
<1>7. Cardinality(C) \in Nat /\ Cardinality(T) \in Nat
  <2> HIDE DEF C, T
  <2> QED BY <1>1, <1>4, FS_CardinalityType
<1>8. Cardinality(C) = Cardinality(T) + Same(Head(s), v)
  <2> HIDE DEF C, T
  <2> QED BY <1>4, <1>5, <1>6, <1>7 DEF Same
<1> QED BY <1>8 DEF Count

(* Both verdicts of a sequence at once. *)
LEMMA VerdictsType ==
    ASSUME NEW s \in Seq(BOOLEAN)
    PROVE  Passes(s) \in Nat /\ Failures(s) \in Nat
<1>1. \A v : Count(v, s) \in Nat
  BY CountType
<1> QED BY <1>1, Zenon DEF Passes, Failures

LEMMA VerdictsAppend ==
    ASSUME NEW s \in Seq(BOOLEAN), NEW x \in BOOLEAN
    PROVE  /\ Passes(Append(s, x)) = Passes(s) + AsPass(x)
           /\ Failures(Append(s, x)) = Failures(s) + AsFail(x)
<1>1. \A v : Count(v, Append(s, x)) = Count(v, s) + Same(x, v)
  BY CountAppend
<1> QED BY <1>1, Zenon DEF Passes, Failures, AsPass, AsFail

LEMMA VerdictsTail ==
    ASSUME NEW s \in Seq(BOOLEAN), s # <<>>
    PROVE  /\ Passes(s) = Passes(Tail(s)) + AsPass(Head(s))
           /\ Failures(s) = Failures(Tail(s)) + AsFail(Head(s))
<1>1. \A v : Count(v, s) = Count(v, Tail(s)) + Same(Head(s), v)
  BY CountTail
<1> QED BY <1>1, Zenon DEF Passes, Failures, AsPass, AsFail

(* A verdict is one or the other. *)
LEMMA VerdictFacts ==
    /\ \A x : AsPass(x) \in 0..1 /\ AsFail(x) \in 0..1
    /\ \A x \in BOOLEAN :
         /\ AsPass(x) + AsFail(x) = 1
         /\ x => AsPass(x) = 1 /\ AsFail(x) = 0
         /\ ~x => AsPass(x) = 0 /\ AsFail(x) = 1
<1>1. \A x, y : Same(x, y) \in 0..1
  BY DEF Same
<1>2. \A x : AsPass(x) \in 0..1 /\ AsFail(x) \in 0..1
  BY <1>1 DEF AsPass, AsFail
<1>3. ASSUME NEW x \in BOOLEAN
      PROVE  /\ AsPass(x) + AsFail(x) = 1
             /\ x => AsPass(x) = 1 /\ AsFail(x) = 0
             /\ ~x => AsPass(x) = 0 /\ AsFail(x) = 1
  <2>1. CASE x = TRUE
    <3>1. AsPass(x) = 1 /\ AsFail(x) = 0
      BY <2>1, Zenon DEF AsPass, AsFail, Same
    <3> QED BY <2>1, <3>1
  <2>2. CASE x = FALSE
    <3>1. AsPass(x) = 0 /\ AsFail(x) = 1
      BY <2>2, Zenon DEF AsPass, AsFail, Same
    <3> QED BY <2>2, <3>1
  <2> QED BY <2>1, <2>2
<1> QED BY <1>2, <1>3

(* The numbers that CountInv adds up. *)
LEMMA CountTypes ==
    WritersKnown /\ IInv =>
      /\ passed_count \in Nat /\ failed_count \in Nat /\ untold \in Nat
      /\ Len(pipe) \in Nat /\ Len(verdicts) \in Nat
      /\ Passes(pipe) \in Nat /\ Failures(pipe) \in Nat
      /\ Passes(verdicts) \in Nat /\ Failures(verdicts) \in Nat
<1> SUFFICES ASSUME WritersKnown, IInv
             PROVE  /\ Len(pipe) \in Nat /\ Len(verdicts) \in Nat
                    /\ Passes(pipe) \in Nat /\ Failures(pipe) \in Nat
                    /\ Passes(verdicts) \in Nat /\ Failures(verdicts) \in Nat
  BY DEF WritersKnown, IInv, Types
<1>1. pipe \in Seq(BOOLEAN) /\ verdicts \in Seq(BOOLEAN)
  BY DEF WritersKnown, IInv, Types
<1> QED BY <1>1, VerdictsType, LenProperties

LEMMA ReportInit == Init => ReportInv
<1> SUFFICES ASSUME Init PROVE ReportInv
  OBVIOUS
<1>1. /\ pipe = <<>> /\ verdicts = <<>> /\ report = <<>>
      /\ parent = At("start") /\ child = At("none")
      /\ passed_count = 0 /\ failed_count = 0 /\ untold = 0
  BY DEF Init
<1>2. WritersKnown /\ EndOfPipe
  BY <1>1, StateFacts DEF WritersKnown, EndOfPipe
<1>3. /\ Passes(pipe) = Passes(verdicts) /\ Passes(pipe) \in Nat
      /\ Failures(pipe) = Failures(verdicts) /\ Failures(pipe) \in Nat
      /\ Len(pipe) = 0 /\ Len(verdicts) = 0
  <2>1. pipe \in Seq(BOOLEAN)
    BY <1>1
  <2> QED BY <1>1, <2>1, VerdictsType
<1>4. CountInv
  <2>1. PassUnsent = 0 /\ FailUnsent = 0 /\ child # At("write")
    BY <1>1, StateFacts DEF PassUnsent, FailUnsent
  <2> QED BY <1>1, <1>3, <2>1 DEF CountInv, PassesCounted, FailuresCounted, NoneMissing
<1> QED BY <1>2, <1>4 DEF ReportInv

(* A callback: a test case has one more verdict, which is to be written.   *)
LEMMA CallbackKeepsReport == IInv /\ ReportInv /\ callback => ReportInv'
<1> SUFFICES ASSUME IInv, ReportInv, callback PROVE ReportInv'
  OBVIOUS
<1>1. PICK where \in Callback, rc \in 0..1, own \in 0..1 :
        /\ child = At(where)
        /\ Advance(where)
        /\ IF where = "test"
           THEN /\ passed' = (rc = 0 /\ own = 0)
                /\ verdicts' = Append(verdicts, rc = 0 /\ own = 0)
                /\ UNCHANGED <<hooks_ok, untold>>
           ELSE /\ hooks_ok' = (hooks_ok /\ (rc = 0 /\ own = 0))
                /\ UNCHANGED <<passed, verdicts, untold>>
        /\ UNCHANGED <<parent_vars, pipe>>
  BY DEF callback, Fails
<1> DEFINE ok == rc = 0 /\ own = 0
<1>2. /\ child' = At(After[where]) /\ UNCHANGED writers
      /\ UNCHANGED <<parent, passed_count, failed_count, report, pipe>>
      /\ untold' = untold
  BY <1>1 DEF Advance, parent_vars
<1>3. /\ child.how = "running" /\ child # At("none") /\ child # At("write")
      /\ child'.how = "running"
      /\ child.how # "signal" /\ child'.how # "signal"
  BY <1>1, <1>2, StateFacts DEF Callback
<1>4. WritersKnown'
  <2>1. parent # At("start")
    BY <1>3 DEF ReportInv, WritersKnown
  <2> QED BY <1>2, <1>3, <2>1 DEF ReportInv, WritersKnown
<1>5. EndOfPipe'
  BY <1>2, <1>3 DEF ReportInv, EndOfPipe
<1>6. CountInv'
  <2> USE CountTypes DEF ReportInv
  <2>1. CASE where = "test"
    <3>1. child' = At("write")
      BY <1>2, <2>1, AfterFacts
    <3>2. ok \in BOOLEAN /\ passed' = ok /\ verdicts' = Append(verdicts, ok)
      BY <1>1, <2>1
    <3> HIDE DEF ok
    <3>3. verdicts \in Seq(BOOLEAN)
      BY DEF IInv, Types
    <3>4. /\ Passes(verdicts)' = Passes(verdicts) + AsPass(ok)
          /\ Failures(verdicts)' = Failures(verdicts) + AsFail(ok)
      BY <3>2, <3>3, VerdictsAppend
    <3>5. Len(verdicts') = Len(verdicts) + 1
      BY <3>2, <3>3, AppendProperties
    <3>6. /\ PassUnsent = 0 /\ PassUnsent' = AsPass(ok)
          /\ FailUnsent = 0 /\ FailUnsent' = AsFail(ok)
          /\ AsPass(ok) \in Nat /\ AsFail(ok) \in Nat /\ AsPass(ok) + AsFail(ok) = 1
      BY <1>3, <3>1, <3>2, VerdictFacts DEF PassUnsent, FailUnsent
    <3>7. PassesCounted'
      BY <1>2, <1>3, <3>1, <3>4, <3>5, <3>6, SMTT(30) DEF CountInv, PassesCounted
    <3>8. FailuresCounted'
      BY <1>2, <1>3, <3>1, <3>4, <3>5, <3>6, SMTT(30) DEF CountInv, FailuresCounted
    <3>9. NoneMissing'
      <4>1. passed_count + failed_count + Len(pipe) + untold + 0 + 0 = Len(verdicts)
        BY <1>3, <3>6 DEF CountInv, NoneMissing
      <4>2. (passed_count + failed_count + Len(pipe) + untold
               + PassUnsent + FailUnsent = Len(verdicts))'
        BY <1>2, <3>5, <3>6, <4>1, CountTypes, SMTT(30)
      <4> QED BY <4>2 DEF NoneMissing
    <3> QED BY <3>7, <3>8, <3>9 DEF CountInv
  <2>2. CASE where # "test"
    <3>1. child' # At("write")
      BY <1>2, <2>2, AfterFacts, StateFacts DEF Callback, FirstOrLast
    <3>2. UNCHANGED <<passed, verdicts>>
      BY <1>1, <2>2
    <3>3. PassUnsent = 0 /\ PassUnsent' = 0 /\ FailUnsent = 0 /\ FailUnsent' = 0
      BY <1>3, <3>1 DEF PassUnsent, FailUnsent
    <3>4. PassesCounted'
      BY <1>2, <1>3, <3>1, <3>2, <3>3 DEF CountInv, PassesCounted
    <3>5. FailuresCounted'
      BY <1>2, <1>3, <3>1, <3>2, <3>3 DEF CountInv, FailuresCounted
    <3>6. NoneMissing'
      BY <1>2, <1>3, <3>1, <3>2, <3>3 DEF CountInv, NoneMissing
    <3> QED BY <3>4, <3>5, <3>6 DEF CountInv
  <2> QED BY <2>1, <2>2
<1> QED BY <1>4, <1>5, <1>6 DEF ReportInv

(* A write: the verdict goes into the pipe, or is lost.                    *)
LEMMA WriteKeepsReport == IInv /\ ReportInv /\ write => ReportInv'
<1> SUFFICES ASSUME IInv, ReportInv, write PROVE ReportInv'
  OBVIOUS
<1> USE DEF ReportInv
<1>1. /\ child = At("write") /\ child.how = "running" /\ child.how # "signal"
      /\ child # At("none")
      /\ UNCHANGED <<parent, passed_count, failed_count, report>>
      /\ UNCHANGED <<passed, verdicts>>
  BY StateFacts DEF write, parent_vars
<1>2. /\ PassUnsent = AsPass(passed) /\ AsPass(passed) \in Nat
      /\ FailUnsent = AsFail(passed) /\ AsFail(passed) \in Nat
      /\ AsPass(passed) + AsFail(passed) = 1
  BY <1>1, VerdictFacts DEF PassUnsent, FailUnsent, IInv, Types
<1>3. ASSUME Advance("write")
      PROVE  /\ child' = At("after_each") /\ UNCHANGED writers
             /\ PassUnsent' = 0 /\ FailUnsent' = 0
             /\ child'.how = "running" /\ child' # At("none")
  BY <1>3, AfterFacts, StateFacts DEF Advance, PassUnsent, FailUnsent
<1>4. CASE Advance("write") /\ pipe' = Append(pipe, passed) /\ untold' = untold
  <2>1. pipe \in Seq(BOOLEAN) /\ passed \in BOOLEAN
    BY DEF WritersKnown, IInv, Types
  <2>2. /\ Passes(pipe)' = Passes(pipe) + AsPass(passed)
        /\ Failures(pipe)' = Failures(pipe) + AsFail(passed)
        /\ Len(pipe') = Len(pipe) + 1 /\ pipe' \in Seq(BOOLEAN)
    BY <1>4, <2>1, VerdictsAppend, AppendProperties
  <2>3. WritersKnown' /\ EndOfPipe'
    BY <1>1, <1>3, <1>4, <2>2 DEF WritersKnown, EndOfPipe
  <2>4. CountInv'
    <3>1. PassesCounted'
      BY <1>1, <1>2, <1>3, <1>4, <2>2, CountTypes, SMTT(30) DEF CountInv, PassesCounted
    <3>2. FailuresCounted'
      BY <1>1, <1>2, <1>3, <1>4, <2>2, CountTypes, SMTT(30) DEF CountInv, FailuresCounted
    <3>3. NoneMissing'
      <4>1. passed_count + failed_count + Len(pipe) + untold + 1 = Len(verdicts)
        BY <1>1, <1>2, CountTypes, SMTT(30) DEF CountInv, NoneMissing
      <4>2. (passed_count + failed_count + Len(pipe) + untold
               + PassUnsent + FailUnsent = Len(verdicts))'
        BY <1>1, <1>3, <1>4, <2>2, <4>1, CountTypes, SMTT(30)
      <4> QED BY <4>2 DEF NoneMissing
    <3> QED BY <3>1, <3>2, <3>3 DEF CountInv
  <2> QED BY <2>3, <2>4
<1>5. CASE Advance("write") /\ untold' = untold + 1 /\ pipe' = pipe
  <2>1. WritersKnown' /\ EndOfPipe'
    BY <1>1, <1>3, <1>5 DEF WritersKnown, EndOfPipe
  <2>2. CountInv'
    <3>1. PassesCounted'
      BY <1>1, <1>2, <1>3, <1>5, CountTypes, SMTT(30) DEF CountInv, PassesCounted
    <3>2. FailuresCounted'
      BY <1>1, <1>2, <1>3, <1>5, CountTypes, SMTT(30) DEF CountInv, FailuresCounted
    <3>3. NoneMissing'
      <4>1. passed_count + failed_count + Len(pipe) + untold + 1 = Len(verdicts)
        BY <1>1, <1>2, CountTypes, SMTT(30) DEF CountInv, NoneMissing
      <4>2. (passed_count + failed_count + Len(pipe) + untold
               + PassUnsent + FailUnsent = Len(verdicts))'
        BY <1>1, <1>3, <1>5, <4>1, CountTypes, SMTT(30)
      <4> QED BY <4>2 DEF NoneMissing
    <3> QED BY <3>1, <3>2, <3>3 DEF CountInv
  <2> QED BY <2>1, <2>2
<1>6. CASE ChildEnds(Signal) /\ pipe' = pipe /\ untold' = untold
  <2>1. /\ child' = Signal /\ PassUnsent' = 0 /\ FailUnsent' = 0
        /\ child'.how = "signal"
    BY <1>6, StateFacts DEF ChildEnds, PassUnsent, FailUnsent
  <2>2. WritersKnown' /\ EndOfPipe'
    BY <1>1, <1>6, <2>1 DEF WritersKnown, EndOfPipe
  <2>3. CountInv'
    <3>1. PassesCounted'
      BY <1>1, <1>2, <1>6, <2>1, CountTypes DEF CountInv, PassesCounted
    <3>2. FailuresCounted'
      BY <1>1, <1>2, <1>6, <2>1, CountTypes DEF CountInv, FailuresCounted
    <3>3. NoneMissing'
      BY <1>1, <1>2, <1>6, <2>1, CountTypes DEF CountInv, NoneMissing
    <3> QED BY <3>1, <3>2, <3>3 DEF CountInv
  <2> QED BY <2>2, <2>3
<1> QED BY <1>4, <1>5, <1>6 DEF write

(* The child ends with every verdict written or lost, or by a signal. *)
LEMMA EndKeepsReport ==
    IInv /\ ReportInv /\ (child_return \/ child_crashes) => ReportInv'
<1> SUFFICES ASSUME IInv, ReportInv, child_return \/ child_crashes PROVE ReportInv'
  OBVIOUS
<1> USE DEF ReportInv
<1>1. UNCHANGED <<parent, passed_count, failed_count, report, pipe, untold,
                  passed, verdicts>>
  BY DEF child_return, child_crashes, parent_vars, ghosts
<1>2. /\ child.how = "running" /\ child # At("none")
      /\ child'.how # "running"
      /\ child'.how # "signal" => child # At("write")
  BY StateFacts DEF child_return, child_crashes, ChildEnds, Over
<1>3. WritersKnown' /\ EndOfPipe'
  BY <1>1, <1>2 DEF WritersKnown, EndOfPipe
<1>4. /\ PassUnsent' = 0 /\ PassUnsent \in Nat
      /\ FailUnsent' = 0 /\ FailUnsent \in Nat
      /\ child'.how # "signal" => PassUnsent = 0 /\ FailUnsent = 0
  BY <1>2, StateFacts, VerdictFacts DEF PassUnsent, FailUnsent
<1>5. child.how # "signal"
  BY <1>2
<1>6. CountInv'
  <2>1. PassesCounted'
    BY <1>1, <1>2, <1>4, <1>5, CountTypes DEF CountInv, PassesCounted
  <2>2. FailuresCounted'
    BY <1>1, <1>2, <1>4, <1>5, CountTypes DEF CountInv, FailuresCounted
  <2>3. NoneMissing'
    BY <1>1, <1>2, <1>4, <1>5, CountTypes DEF CountInv, NoneMissing
  <2> QED BY <2>1, <2>2, <2>3 DEF CountInv
<1> QED BY <1>3, <1>6

(* The parent reads a verdict, and at the end of the pipe the child is dead. *)
LEMMA ReadKeepsReport == IInv /\ ReportInv /\ read => ReportInv'
<1> SUFFICES ASSUME IInv, ReportInv, read PROVE ReportInv'
  OBVIOUS
<1> USE DEF ReportInv
<1>1. /\ writers' = writers /\ report' = report /\ child' = child
      /\ untold' = untold /\ passed' = passed /\ verdicts' = verdicts
      /\ parent = At("read") /\ parent.how = "running"
      /\ PassUnsent' = PassUnsent /\ PassUnsent \in Nat
      /\ FailUnsent' = FailUnsent /\ FailUnsent \in Nat
  <2>1. /\ UNCHANGED <<writers, report, child, untold, passed, verdicts>>
        /\ parent = At("read") /\ parent.how = "running"
    BY StateFacts DEF read, child_vars, ghosts
  <2>2. PassUnsent' = PassUnsent /\ FailUnsent' = FailUnsent
    BY <2>1 DEF PassUnsent, FailUnsent
  <2>3. PassUnsent \in Nat /\ FailUnsent \in Nat
    BY VerdictFacts DEF PassUnsent, FailUnsent
  <2> QED BY <2>1, <2>2, <2>3
<1>2. CASE pipe # <<>>
  <2>1. /\ pipe' = Tail(pipe) /\ parent' = parent
        /\ passed_count' = IF Head(pipe) THEN passed_count + 1 ELSE passed_count
        /\ failed_count' = IF Head(pipe) THEN failed_count ELSE failed_count + 1
    BY <1>2 DEF read
  <2>2. pipe \in Seq(BOOLEAN)
    BY DEF WritersKnown
  <2>3. /\ Tail(pipe) \in Seq(BOOLEAN) /\ Len(Tail(pipe)) = Len(pipe) - 1
        /\ Head(pipe) \in BOOLEAN
    BY <1>2, <2>2, HeadTailProperties
  <2>4. PICK p \in Nat, f \in Nat :
          /\ p = AsPass(Head(pipe)) /\ f = AsFail(Head(pipe))
          /\ p + f = 1
          /\ Head(pipe) => p = 1 /\ f = 0
          /\ ~Head(pipe) => p = 0 /\ f = 1
    BY <2>3, VerdictFacts
  <2>5. /\ Passes(pipe) = Passes(pipe)' + p
        /\ Failures(pipe) = Failures(pipe)' + f
        /\ passed_count' = passed_count + p /\ failed_count' = failed_count + f
    <3>1. /\ Passes(pipe) = Passes(pipe)' + p
          /\ Failures(pipe) = Failures(pipe)' + f
      BY <1>2, <2>1, <2>2, <2>4, VerdictsTail
    <3>2. passed_count \in Nat /\ failed_count \in Nat
      BY DEF WritersKnown
    <3>3. CASE Head(pipe)
      <4>1. p = 1 /\ f = 0
        BY <2>4, <3>3, Zenon
      <4>2. passed_count' = passed_count + 1 /\ failed_count' = failed_count
        BY <2>1, <3>3, Zenon
      <4> QED BY <3>1, <3>2, <4>1, <4>2
    <3>4. CASE ~Head(pipe)
      <4>1. p = 0 /\ f = 1
        BY <2>4, <3>4, Zenon
      <4>2. passed_count' = passed_count /\ failed_count' = failed_count + 1
        BY <2>1, <3>4, Zenon
      <4> QED BY <3>1, <3>2, <4>1, <4>2
    <3> QED BY <3>3, <3>4
  <2>6. WritersKnown' /\ EndOfPipe'
    <3>1. passed_count' \in Nat /\ failed_count' \in Nat
      BY <2>5 DEF WritersKnown
    <3>2. WritersKnown'
      BY <1>1, <2>1, <2>3, <3>1 DEF WritersKnown
    <3>3. report = <<>>
      BY <1>1 DEF EndOfPipe
    <3>4. parent' \notin {At("waitpid"), At("report")} /\ report' = <<>>
      <4>1. report' = <<>>
        BY <1>1, <3>3
      <4>2. parent' = At("read")
        BY <1>1, <2>1
      <4> QED BY <4>1, <4>2, StateFacts
    <3> QED BY <3>2, <3>4 DEF EndOfPipe
  <2>7. Len(pipe') = Len(pipe) - 1 /\ Passes(pipe)' \in Nat
        /\ Failures(pipe)' \in Nat
    BY <2>1, <2>3, VerdictsType
  <2>8. CountInv'
    <3>1. PassesCounted'
      BY <1>1, <2>5, <2>7, CountTypes, SMTT(30) DEF CountInv, PassesCounted
    <3>2. FailuresCounted'
      BY <1>1, <2>5, <2>7, CountTypes, SMTT(30) DEF CountInv, FailuresCounted
    <3>3. NoneMissing'
      <4>1. child.how # "signal" =>
              passed_count + failed_count + Len(pipe) + untold
                + PassUnsent + FailUnsent = Len(verdicts)
        BY DEF CountInv, NoneMissing
      <4>2. p + f = 1
        BY <2>4
      <4>3. (passed_count + failed_count + Len(pipe) + untold
               + PassUnsent + FailUnsent)'
            = passed_count + failed_count + Len(pipe) + untold
                + PassUnsent + FailUnsent
        <5>1. /\ passed_count \in Nat /\ failed_count \in Nat /\ Len(pipe) \in Nat
              /\ untold \in Nat
          BY CountTypes
        <5>2. Len(pipe') = Len(pipe) - 1
          BY <2>7
        <5>3. PassUnsent \in Nat /\ FailUnsent \in Nat
          BY <1>1
        <5>4. /\ PassUnsent' = PassUnsent /\ FailUnsent' = FailUnsent
              /\ untold' = untold
          BY <1>1
        <5>5. passed_count' = passed_count + p /\ failed_count' = failed_count + f
          BY <2>5
        <5> QED BY <4>2, <5>1, <5>2, <5>3, <5>4, <5>5
      <4> QED BY <1>1, <4>1, <4>3 DEF NoneMissing
    <3> QED BY <3>1, <3>2, <3>3 DEF CountInv
  <2> QED BY <2>6, <2>8
<1>3. CASE pipe = <<>>
  <2>1. /\ writers = {} /\ parent' = At("waitpid")
        /\ UNCHANGED <<pipe, passed_count, failed_count>>
    BY <1>3 DEF read
  <2>2. report = <<>>
    BY <1>1 DEF EndOfPipe
  <2> QED BY <1>1, <1>3, <2>1, <2>2, StateFacts
          DEF WritersKnown, EndOfPipe, CountInv, PassesCounted,
              FailuresCounted, NoneMissing
<1> QED BY <1>2, <1>3

(* What else the parent does. *)
LEMMA ParentKeepsReport ==
    IInv /\ ReportInv /\ (Parent \/ parent_killed) => ReportInv'
<1> SUFFICES ASSUME IInv, ReportInv, Parent \/ parent_killed PROVE ReportInv'
  OBVIOUS
<1> USE StateFacts DEF ReportInv
<1>1. CASE read
  BY <1>1, ReadKeepsReport
<1>2. CASE ~read
  <2>1. /\ UNCHANGED <<pipe, passed_count, failed_count, untold, passed, verdicts>>
        /\ parent.how = "running"
    BY <1>2 DEF Parent, fork, close, fopen, waitpid, write_report, parent_killed,
                child_vars, ghosts, Over
  <2>2. /\ PassUnsent \in Nat /\ FailUnsent \in Nat
        /\ child' = child => PassUnsent' = PassUnsent /\ FailUnsent' = FailUnsent
        /\ child' # At("write") => PassUnsent' = 0 /\ FailUnsent' = 0
    BY <2>1, VerdictFacts DEF PassUnsent, FailUnsent
  <2>3. CASE child' = child
    <3>1. CountInv'
      <4>1. PassesCounted'
        BY <2>1, <2>2, <2>3 DEF CountInv, PassesCounted
      <4>2. FailuresCounted'
        BY <2>1, <2>2, <2>3 DEF CountInv, FailuresCounted
      <4>3. NoneMissing'
        BY <2>1, <2>2, <2>3 DEF CountInv, NoneMissing
      <4> QED BY <4>1, <4>2, <4>3 DEF CountInv
    <3>2. WritersKnown'
      BY <1>2, <2>1, <2>3
         DEF WritersKnown, Parent, fork, close, fopen, waitpid, write_report,
             parent_killed, CloseWriter, ChildEnds, Over
    <3>3. EndOfPipe'
      BY <1>2, <2>1, <2>3
         DEF EndOfPipe, Parent, fork, close, fopen, waitpid, write_report,
             parent_killed, Over
    <3> QED BY <3>1, <3>2, <3>3
  <2>4. CASE child' # child /\ fork
    <3>1. /\ parent = At("start") /\ parent' = At("close") /\ report' = report
          /\ child = At("none") /\ child' = At("before_all")
          /\ writers' = {"parent", "child"}
      BY <2>4 DEF fork, WritersKnown
    <3>2. WritersKnown' /\ EndOfPipe'
      BY <2>1, <3>1 DEF WritersKnown, EndOfPipe
    <3>3. CountInv'
      <4>1. PassUnsent = 0 /\ FailUnsent = 0 /\ PassUnsent' = 0 /\ FailUnsent' = 0
        BY <3>1 DEF PassUnsent, FailUnsent
      <4>2. child.how # "signal"
        BY <3>1
      <4> QED BY <2>1, <4>1, <4>2, CountTypes
          DEF CountInv, PassesCounted, FailuresCounted, NoneMissing
    <3> QED BY <3>2, <3>3
  <2>5. CASE child' # child /\ fopen
    <3>1. /\ parent = At("fopen") /\ parent' = Exited(1) /\ report' = report
          /\ child' = Signal
      BY <2>5 DEF fopen, ChildEnds
    <3>2. WritersKnown' /\ EndOfPipe'
      BY <2>1, <3>1 DEF WritersKnown, EndOfPipe
    <3>3. CountInv'
      <4>1. PassesCounted'
        BY <2>1, <2>2, <3>1, CountTypes DEF CountInv, PassesCounted
      <4>2. FailuresCounted'
        BY <2>1, <2>2, <3>1, CountTypes DEF CountInv, FailuresCounted
      <4>3. NoneMissing'
        BY <2>1, <2>2, <3>1, CountTypes DEF CountInv, NoneMissing
      <4> QED BY <4>1, <4>2, <4>3 DEF CountInv
    <3> QED BY <3>2, <3>3
  <2> QED BY <1>2, <2>3, <2>4, <2>5
          DEF Parent, close, waitpid, write_report, parent_killed
<1> QED BY <1>1, <1>2

LEMMA StepReport == IInv /\ ReportInv /\ [Next]_vars => ReportInv'
<1>1. ReportInv /\ UNCHANGED vars => ReportInv'
  BY DEF vars, parent_vars, ghosts, ReportInv, WritersKnown, EndOfPipe, CountInv,
         PassesCounted, FailuresCounted, NoneMissing, PassUnsent, FailUnsent
<1> QED BY <1>1, CallbackKeepsReport, WriteKeepsReport, EndKeepsReport,
           ParentKeepsReport DEF Next, Child

LEMMA ReportHolds == Spec => []ReportInv
BY ReportInit, StepReport, InvHolds, PTL DEF Spec

LEMMA ExactByInv == IInv /\ ReportInv => CountsExact
<1> SUFFICES ASSUME IInv, ReportInv, report # <<>>
             PROVE  /\ report[1] <= Count(TRUE, verdicts)
                    /\ report[2] <= Count(FALSE, verdicts)
                    /\ report[3].how = "exited" =>
                         report[1] + report[2] = Len(verdicts) - untold
  BY DEF CountsExact
<1>1. /\ pipe = <<>> /\ (child.how # "running" \/ child = At("none"))
      /\ report = <<passed_count, failed_count, child>>
  BY DEF ReportInv, EndOfPipe
<1>2. child # At("write")
  BY <1>1, StateFacts
<1>3. PassUnsent = 0 /\ FailUnsent = 0
  BY <1>2 DEF PassUnsent, FailUnsent
<1>4. Len(pipe) = 0
  BY <1>1
<1>5. /\ passed_count <= Passes(verdicts) /\ failed_count <= Failures(verdicts)
      /\ child.how = "exited" =>
           passed_count + failed_count = Len(verdicts) - untold
  BY <1>2, <1>3, <1>4, CountTypes
     DEF ReportInv, CountInv, PassesCounted, FailuresCounted, NoneMissing
<1>6. /\ report[1] = passed_count /\ report[2] = failed_count
      /\ report[3] = child
  BY <1>1
<1>7. report[1] <= Count(TRUE, verdicts) /\ report[2] <= Count(FALSE, verdicts)
  BY <1>5, <1>6, Zenon DEF Passes, Failures
<1> QED BY <1>5, <1>6, <1>7

(* The report file counts no verdict twice and, if the child exited by     *)
(* itself, leaves out only those whose write failed - for every number of  *)
(* test cases, every pipe, and whatever dies at whatever moment.           *)
THEOREM ReportIsExact == Spec => []CountsExact
BY ExactByInv, InvHolds, ReportHolds, PTL

-----------------------------------------------------------------------------
(***************************************************************************)
(* The program in the harness: how many verdicts there are at most, what an *)
(* exit status of 0 says of the report, and what a signal to its process   *)
(* group leaves of it.                                                     *)
(***************************************************************************)
(* Whatever became of the child, no test case has two verdicts. *)
NoMoreThanAll == Len(verdicts) <= NTests
(* A program that exits with 0 left a report without failures, or none. *)
ZeroReported == parent = Exited(0) => report = <<>> \/ report[2] = 0

ProgramInv == IInv /\ ReportInv /\ NoMoreThanAll /\ ZeroReported

LEMMA ProgramInit == Init => ProgramInv
<1> SUFFICES ASSUME Init PROVE NoMoreThanAll /\ ZeroReported
  BY InitInv, ReportInit DEF ProgramInv
<1>1. verdicts = <<>> /\ parent = At("start")
  BY DEF Init
<1> QED BY <1>1, NTestsAssumption, StateFacts DEF NoMoreThanAll, ZeroReported

LEMMA NoMoreStep == IInv /\ NoMoreThanAll /\ [Next]_vars => NoMoreThanAll'
<1> SUFFICES ASSUME IInv, NoMoreThanAll, [Next]_vars PROVE NoMoreThanAll'
  OBVIOUS
<1>1. CASE UNCHANGED verdicts
  BY <1>1 DEF NoMoreThanAll
<1>2. CASE child = At("test")
           /\ \E really \in BOOLEAN : verdicts' = Append(verdicts, really)
  <2>1. case <= NTests /\ Len(verdicts) = case - 1
    BY <1>2 DEF IInv, Progress
  <2>2. verdicts \in Seq(BOOLEAN) /\ case \in Nat
    BY DEF IInv, Types
  <2>3. Len(verdicts') = Len(verdicts) + 1
    BY <1>2, <2>2, AppendProperties
  <2> QED BY <2>1, <2>2, <2>3, NTestsAssumption DEF NoMoreThanAll
<1>3. callback => UNCHANGED verdicts
          \/ (child = At("test")
              /\ \E really \in BOOLEAN : verdicts' = Append(verdicts, really))
  BY DEF callback
<1>4. [Parent \/ write \/ child_return \/ child_crashes \/ parent_killed]_vars
        => UNCHANGED verdicts
  BY DEF write, child_return, child_crashes, Parent, parent_killed,
         fork, close, fopen, read, waitpid, write_report, vars, child_vars, ghosts
<1> QED BY <1>1, <1>2, <1>3, <1>4 DEF Next, Child

LEMMA ZeroStep ==
    IInv /\ ReportInv /\ ZeroReported /\ [Next]_vars => ZeroReported'
<1> SUFFICES ASSUME IInv, ReportInv, ZeroReported, [Next]_vars PROVE ZeroReported'
  OBVIOUS
<1>1. CASE UNCHANGED <<parent, report>>
  BY <1>1 DEF ZeroReported
<1>2. CASE parent' # Exited(0)
  BY <1>2 DEF ZeroReported
<1>3. CASE write_report
  <2>1. /\ report' \in {<<passed_count, failed_count, child>>, <<>>}
        /\ parent' = Exited(Verdict)
    BY <1>3 DEF write_report
  <2>2. report' = <<>> \/ report'[2] = failed_count
    BY <2>1
  <2>3. parent' = Exited(0) => failed_count = 0
    BY <2>1, StateFacts DEF Verdict
  <2> QED BY <2>2, <2>3 DEF ZeroReported
<1>4. callback \/ write \/ child_return \/ child_crashes \/ UNCHANGED vars
        => UNCHANGED <<parent, report>>
  BY DEF write, child_return, child_crashes, callback, vars, parent_vars
<1>5. fork \/ close \/ fopen \/ read \/ waitpid \/ parent_killed =>
        parent' # Exited(0) \/ UNCHANGED <<parent, report>>
  <2>1. /\ \A w : At(w) # Exited(0)
        /\ Signal # Exited(0) /\ Exited(1) # Exited(0)
    BY StateFacts
  <2>2. fork \/ close \/ fopen \/ waitpid \/ parent_killed =>
          (\E w : parent' = At(w)) \/ parent' = Exited(1) \/ parent' = Signal
    BY DEF fork, close, fopen, waitpid, parent_killed
  <2>3. read => (\E w : parent' = At(w)) \/ UNCHANGED <<parent, report>>
    BY DEF read
  <2> QED BY <2>1, <2>2, <2>3
<1> QED BY <1>1, <1>2, <1>3, <1>4, <1>5 DEF Next, Child, Parent

(* The program keeps its invariant. *)
LEMMA ProgramStep == ProgramInv /\ [Next]_vars => ProgramInv'
BY StepInv, StepReport, NoMoreStep, ZeroStep DEF ProgramInv

(* What a program that is over told stays. *)
LEMMA OverStays == [Next]_vars /\ Over(parent) => UNCHANGED <<parent, report>>
<1> SUFFICES ASSUME [Next]_vars, Over(parent) PROVE UNCHANGED <<parent, report>>
  OBVIOUS
<1>1. \A w : parent # At(w)
  BY StateFacts DEF Over
<1>2. ~Parent /\ ~parent_killed
  BY <1>1 DEF Parent, parent_killed, fork, close, fopen, read, waitpid, write_report
<1>3. callback \/ write \/ child_return \/ child_crashes \/ UNCHANGED vars
        => UNCHANGED <<parent, report>>
  BY DEF write, child_return, child_crashes, callback, vars, parent_vars
<1> QED BY <1>2, <1>3 DEF Next, Child

(* The end of the process group keeps what is known of the program. *)
LEMMA GroupKilled == ProgramInv /\ KillGroup => ProgramInv' /\ Over(parent)'
<1> SUFFICES ASSUME ProgramInv, KillGroup PROVE ProgramInv' /\ Over(parent)'
  OBVIOUS
<1>1. UNCHANGED <<pipe, passed_count, failed_count, report, case, assert_fail_count,
                  passed, exit_err, verdicts, hooks_ok, untold>>
  BY DEF KillGroup, child_vars, ghosts
<1>2. /\ (parent' = parent /\ parent.how # "running") \/ parent' = Signal
      /\ \/ child' = child /\ (child.how # "running" \/ child = At("none"))
         \/ child' = Signal /\ child.how = "running" /\ child # At("none")
  BY DEF KillGroup, Over
<1>3. Over(parent)'
  BY <1>2, StateFacts DEF Over
<1>4. IInv'
  <2>1. Types'
    BY <1>1 DEF ProgramInv, IInv, Types
  <2>2. Progress'
    BY <1>1, <1>2, StateFacts DEF ProgramInv, IInv, Progress
  <2>3. ErrorsKept'
    BY <1>1 DEF ProgramInv, IInv, ErrorsKept
  <2>4. ErrorsTold'
    BY <1>1, <1>2, StateFacts DEF ProgramInv, IInv, ErrorsTold
  <2> QED BY <2>1, <2>2, <2>3, <2>4 DEF IInv
<1>5. ReportInv'
  <2>1. WritersKnown'
    BY <1>1, <1>2, StateFacts DEF ProgramInv, ReportInv, WritersKnown
  <2>2. EndOfPipe'
    <3>1. parent' \notin {At("waitpid"), At("report")}
      BY <1>2, StateFacts
    <3>2. ASSUME report # <<>>
          PROVE  /\ pipe = <<>> /\ (child.how # "running" \/ child = At("none"))
                 /\ report = <<passed_count, failed_count, child>>
                 /\ child' = child
      BY <1>2, <3>2 DEF ProgramInv, ReportInv, EndOfPipe
    <3>3. parent'.how # "running"
      BY <1>2, StateFacts
    <3> QED BY <1>1, <3>1, <3>2, <3>3 DEF EndOfPipe
  <2>3. CASE child' = child
    <3>1. CountInv'
      BY <1>1, <2>3
         DEF ProgramInv, ReportInv, CountInv, PassesCounted, FailuresCounted,
             NoneMissing, PassUnsent, FailUnsent
    <3> QED BY <2>1, <2>2, <3>1 DEF ReportInv
  <2>4. CASE child' = Signal
    <3>1. /\ PassUnsent' = 0 /\ FailUnsent' = 0
          /\ PassUnsent \in Nat /\ FailUnsent \in Nat
      BY <2>4, StateFacts, VerdictFacts DEF PassUnsent, FailUnsent
    <3>2. PassesCounted' /\ FailuresCounted'
      BY <1>1, <3>1, CountTypes
         DEF ProgramInv, ReportInv, CountInv, PassesCounted, FailuresCounted
    <3>3. NoneMissing'
      BY <2>4, StateFacts DEF NoneMissing
    <3> QED BY <2>1, <2>2, <3>2, <3>3 DEF ReportInv, CountInv
  <2> QED BY <1>2, <2>3, <2>4
<1>6. NoMoreThanAll' /\ ZeroReported'
  BY <1>1, <1>2, StateFacts DEF ProgramInv, NoMoreThanAll, ZeroReported
<1> QED BY <1>3, <1>4, <1>5, <1>6 DEF ProgramInv

(* A value occurs at most as often as the sequence is long. *)
LEMMA CountBound ==
    ASSUME NEW S, NEW s \in Seq(S)
    PROVE  \A v : Count(v, s) \in Nat /\ Count(v, s) <= Len(s)
<1> SUFFICES ASSUME NEW v PROVE Count(v, s) \in Nat /\ Count(v, s) <= Len(s)
  OBVIOUS
<1> DEFINE C == {n \in DOMAIN s : s[n] = v}
<1>1. Len(s) \in Nat /\ C \in SUBSET (1..Len(s))
  OBVIOUS
<1>2. IsFiniteSet(1..Len(s)) /\ Cardinality(1..Len(s)) = Len(s)
  <2>1. PICK k \in Nat : k = Len(s)
    BY <1>1
  <2>2. IsFiniteSet(1..k) /\ Cardinality(1..k) = k
    BY FS_Interval
  <2> QED BY <2>1, <2>2
<1> HIDE DEF C
<1>3. Cardinality(C) <= Len(s)
  BY <1>1, <1>2, FS_Subset
<1>4. Count(v, s) = Cardinality(C)
  BY DEF Count, C
<1> QED BY <1>3, <1>4, CountType

(* How a program ended is an outcome that the runner knows. *)
LEMMA ToldIsOutcome ==
    ProgramInv /\ Over(parent) => Told \in R!Outcome /\ R!Possible(Told)
<1> SUFFICES ASSUME ProgramInv, Over(parent)
             PROVE  Told \in R!Outcome /\ R!Possible(Told)
  OBVIOUS
<1> DEFINE c == IF parent = Exited(0) THEN 0 ELSE 1
           r == IF report = <<>> THEN <<>> ELSE <<report[1], report[2]>>
<1>1. Told = [state |-> "ended", code |-> c, report |-> r]
  BY DEF Told
<1>2. c \in 0..1
  OBVIOUS
<1>3. r \in {<<>>} \cup ((0..MaxTests) \X (0..MaxTests))
  <2>1. CASE report # <<>>
    <3>1. report = <<passed_count, failed_count, child>>
      BY <2>1 DEF ProgramInv, ReportInv, EndOfPipe
    <3>2. passed_count \in Nat /\ failed_count \in Nat
      BY DEF ProgramInv, ReportInv, WritersKnown
    <3>3. report[1] <= Count(TRUE, verdicts) /\ report[2] <= Count(FALSE, verdicts)
      BY <2>1, ExactByInv DEF ProgramInv, CountsExact
    <3>4. /\ verdicts \in Seq(BOOLEAN)
          /\ Len(verdicts) <= MaxTests /\ Len(verdicts) \in Nat
      BY NTestsAssumption, MaxTestsAssumption DEF ProgramInv, IInv, Types, NoMoreThanAll
    <3>5. \A v : Count(v, verdicts) \in Nat /\ Count(v, verdicts) <= Len(verdicts)
      BY <3>4, CountBound
    <3>6. report[1] = passed_count /\ report[2] = failed_count
      BY <3>1
    <3>7. report[1] \in 0..MaxTests /\ report[2] \in 0..MaxTests
      <4>1. PICK a \in Nat, b \in Nat, l \in Nat :
              /\ a = Count(TRUE, verdicts) /\ b = Count(FALSE, verdicts)
              /\ l = Len(verdicts)
        BY <3>4, <3>5
      <4>2. a <= l /\ b <= l /\ l <= MaxTests
        BY <3>4, <3>5, <4>1
      <4>3. passed_count <= a /\ failed_count <= b
        BY <3>3, <3>6, <4>1
      <4>4. passed_count \in 0..MaxTests /\ failed_count \in 0..MaxTests
        BY <3>2, <4>2, <4>3, MaxTestsAssumption
      <4> QED BY <3>6, <4>4
    <3>8. r = <<report[1], report[2]>>
      BY <2>1
    <3> HIDE DEF r
    <3> QED BY <3>7, <3>8
  <2>2. CASE report = <<>>
    BY <2>2
  <2> QED BY <2>1, <2>2
<1>4. c = 0 => r = <<>> \/ r[2] = 0
  BY DEF ProgramInv, ZeroReported
<1> HIDE DEF c, r
<1>5. Told.code = c /\ Told.report = r
  BY <1>1
<1>6. Told \in R!Outcome
  <2> DEFINE reports == {<<>>} \cup ((0..MaxTests) \X (0..MaxTests))
             codes == 0..1
  <2>1. R!Outcome = {[state |-> "ended", code |-> d, report |-> q] :
                       d \in codes, q \in reports}
    BY DEF R!Outcome
  <2>2. c \in codes /\ r \in reports
    BY <1>2, <1>3
  <2> HIDE DEF reports, codes
  <2> QED BY <1>1, <2>1, <2>2
<1>7. R!Possible(Told)
  BY <1>4, <1>5 DEF R!Possible
<1> QED BY <1>6, <1>7

-----------------------------------------------------------------------------
(***************************************************************************)
(* Sums of a function over a finite set, as MapThenSumSet defines them: the *)
(* elements may be taken in any order.                                     *)
(***************************************************************************)
(* Some element of a set of numbers is the least. *)
LEMMA LeastNat ==
    ASSUME NEW T, T \subseteq Nat, T # {}
    PROVE  \E n \in T : \A m \in T : n <= m
<1> DEFINE Less == OpToRel(<, Nat)
<1>1. IsWellFoundedOn(Less, Nat)
  BY NatLessThanWellFounded
<1>2. \A m, n \in Nat : m < n => <<m, n>> \in Less
  BY DEF OpToRel
<1> HIDE DEF Less
<1>3. PICK n \in T : \A m \in T : ~(<<m, n>> \in Less)
  BY <1>1, WFMin
<1>4. \A m \in T : ~(m < n) /\ m \in Nat /\ n \in Nat
  BY <1>2, <1>3
<1>5. \A m \in T : n <= m
  BY <1>4
<1> QED BY <1>5

(* What passes from the proper subsets of a set to the set, all have. *)
Hereditary(P, S) ==
    \A U \in SUBSET S : (\A V \in SUBSET U : V # U => V \in P) => U \in P

LEMMA BySubsets ==
    ASSUME NEW S, IsFiniteSet(S), NEW P, Hereditary(P, S)
    PROVE  \A U \in SUBSET S : U \in P
<1> SUFFICES ASSUME NEW W \in SUBSET S, W \notin P PROVE FALSE
  OBVIOUS
<1> DEFINE Sizes ==
             {n \in Nat : \E U \in SUBSET S : U \notin P /\ n = Cardinality(U)}
<1>1. \A U \in SUBSET S : IsFiniteSet(U) /\ Cardinality(U) \in Nat
  BY FS_Subset, FS_CardinalityType
<1>2. Sizes # {} /\ Sizes \subseteq Nat
  BY <1>1
<1>3. PICK n \in Sizes : \A m \in Sizes : n <= m
  <2> HIDE DEF Sizes
  <2> QED BY <1>2, LeastNat
<1>4. PICK U \in SUBSET S : U \notin P /\ n = Cardinality(U)
  BY <1>3
<1>5. ASSUME NEW V \in SUBSET U, V # U PROVE V \in P
  <2> SUFFICES ASSUME V \notin P PROVE FALSE
    OBVIOUS
  <2>1. V \in SUBSET S
    OBVIOUS
  <2>2. Cardinality(V) \in Sizes
    BY <1>1, <2>1
  <2>3. n <= Cardinality(V)
    BY <1>3, <2>2
  <2>4. Cardinality(V) <= n /\ (n = Cardinality(V) => U = V)
    BY <1>1, <1>4, FS_Subset
  <2> QED BY <1>1, <1>4, <1>5, <2>1, <2>3, <2>4
<1> QED BY <1>4, <1>5 DEF Hereditary

(* The element that MapThenSumSet takes first. *)
Pick(T) == CHOOSE x \in T : TRUE

(* h adds up f over each subset of S, in the order in which Pick goes. *)
Sums(h, f, S) ==
    h = [T \in SUBSET S |-> IF T = {} THEN 0 ELSE f[Pick(T)] + h[T \ {Pick(T)}]]
Sum(f, S) == (CHOOSE h : Sums(h, f, S))[S]

LEMMA PickIn == \A T : T # {} => Pick(T) \in T
BY DEF Pick

LEMMA SumsAt ==
    ASSUME NEW h, NEW f, NEW S, Sums(h, f, S)
    PROVE  /\ h[{}] = 0
           /\ \A T \in SUBSET S : T # {} => h[T] = f[Pick(T)] + h[T \ {Pick(T)}]
<1> DEFINE g == [T \in SUBSET S |->
                   IF T = {} THEN 0 ELSE f[Pick(T)] + h[T \ {Pick(T)}]]
<1>1. h = g
  BY DEF Sums
<1>2. \A T \in SUBSET S :
        g[T] = IF T = {} THEN 0 ELSE f[Pick(T)] + h[T \ {Pick(T)}]
  OBVIOUS
<1> HIDE DEF g
<1> QED BY <1>1, <1>2

(* Where two functions agree, so do their sums. *)
LEMMA SumsAgree ==
    ASSUME NEW S, IsFiniteSet(S), NEW T, NEW i, NEW f, Sums(i, f, S),
           NEW j, NEW g, Sums(j, g, T),
           NEW U, U \subseteq S, U \subseteq T, \A x \in U : f[x] = g[x]
    PROVE  i[U] = j[U]
<1>1. /\ i[{}] = 0
      /\ \A V \in SUBSET S : V # {} => i[V] = f[Pick(V)] + i[V \ {Pick(V)}]
  <2>1. Sums(i, f, S)
    OBVIOUS
  <2> QED BY <2>1, SumsAt, ZenonT(30)
<1>2. /\ j[{}] = 0
      /\ \A V \in SUBSET T : V # {} => j[V] = g[Pick(V)] + j[V \ {Pick(V)}]
  <2>1. Sums(j, g, T)
    OBVIOUS
  <2> QED BY <2>1, SumsAt, ZenonT(30)
<1> DEFINE P == {V \in SUBSET U : i[V] = j[V]}
<1>3. ASSUME NEW V \in SUBSET U, \A W \in SUBSET V : W # V => W \in P
      PROVE  V \in P
  <2>1. CASE V = {}
    BY <1>1, <1>2, <2>1
  <2>2. CASE V # {}
    <3>1. Pick(V) \in V
      BY <2>2, PickIn
    <3>2. i[V \ {Pick(V)}] = j[V \ {Pick(V)}]
      BY <1>3, <3>1
    <3>3. V \in SUBSET S /\ V \in SUBSET T /\ f[Pick(V)] = g[Pick(V)]
      BY <3>1
    <3>4. i[V] = f[Pick(V)] + i[V \ {Pick(V)}]
      BY <1>1, <2>2, <3>3
    <3>5. j[V] = g[Pick(V)] + j[V \ {Pick(V)}]
      BY <1>2, <2>2, <3>3
    <3> QED BY <3>2, <3>3, <3>4, <3>5
  <2> QED BY <2>1, <2>2
<1>4. Hereditary(P, U)
  <2> HIDE DEF P
  <2> QED BY <1>3 DEF Hereditary
<1>5. IsFiniteSet(U)
  BY FS_Subset
<1>6. U \in P
  <2> HIDE DEF P
  <2> QED BY <1>4, <1>5, BySubsets
<1> QED BY <1>6

Summed(f, S) == {U \in SUBSET S : \E h : Sums(h, f, U)}

LEMMA SumIsSums ==
    ASSUME NEW f, NEW S, \E h : Sums(h, f, S)
    PROVE  Sums(CHOOSE h : Sums(h, f, S), f, S)
OBVIOUS

(* A function that adds up f over the subsets of a finite set exists. *)
LEMMA SumsExist ==
    ASSUME NEW S, IsFiniteSet(S), NEW f
    PROVE  \E h : Sums(h, f, S)
<1>1. ASSUME NEW U \in SUBSET S, \A V \in SUBSET U : V # U => V \in Summed(f, S)
      PROVE  U \in Summed(f, S)
  <2> DEFINE h == [T \in SUBSET U |->
                     IF T = {} THEN 0 ELSE f[Pick(T)] + Sum(f, T \ {Pick(T)})]
  <2>1. \A T \in SUBSET U :
          h[T] = IF T = {} THEN 0 ELSE f[Pick(T)] + Sum(f, T \ {Pick(T)})
    OBVIOUS
  <2>2. \A V \in SUBSET U :
          V # U => Sums(CHOOSE k : Sums(k, f, V), f, V) /\ IsFiniteSet(V)
    <3>1. \A V \in SUBSET U : V # U => (\E k : Sums(k, f, V)) /\ IsFiniteSet(V)
      BY <1>1, FS_Subset DEF Summed
    <3> QED BY <3>1, SumIsSums
  <2>3. ASSUME NEW W \in SUBSET U, W # U PROVE h[W] = Sum(f, W)
    <3> DEFINE g == CHOOSE k : Sums(k, f, W)
    <3>1. Sums(g, f, W) /\ Sum(f, W) = g[W] /\ IsFiniteSet(W)
      BY <2>2, <2>3 DEF Sum
    <3> HIDE DEF g
    <3>2. CASE W = {}
      BY <2>1, <3>1, <3>2, SumsAt
    <3>3. CASE W # {}
      <4> DEFINE Y == W \ {Pick(W)}
                 k == CHOOSE l : Sums(l, f, Y)
      <4>1. Y \in SUBSET U /\ Y # U /\ Y \subseteq W
        BY <3>3, PickIn
      <4>2. Sums(k, f, Y) /\ Sum(f, Y) = k[Y] /\ IsFiniteSet(Y)
        BY <2>2, <4>1 DEF Sum
      <4> HIDE DEF k
      <4>3. g[Y] = k[Y]
        <5> HIDE DEF Y
        <5> QED BY <3>1, <4>1, <4>2, SumsAgree
      <4>4. g[W] = f[Pick(W)] + g[Y]
        BY <3>1, <3>3, SumsAt
      <4>5. h[W] = f[Pick(W)] + Sum(f, Y)
        BY <2>1, <3>3
      <4> QED BY <3>1, <4>2, <4>3, <4>4, <4>5
    <3> QED BY <3>2, <3>3
  <2>4. \A T \in SUBSET U :
          h[T] = IF T = {} THEN 0 ELSE f[Pick(T)] + h[T \ {Pick(T)}]
    <3> SUFFICES ASSUME NEW T \in SUBSET U, T # {}
                 PROVE  h[T] = f[Pick(T)] + h[T \ {Pick(T)}]
      BY <2>1
    <3>1. T \ {Pick(T)} \in SUBSET U /\ T \ {Pick(T)} # U
      BY PickIn
    <3> HIDE DEF h
    <3> QED BY <2>1, <2>3, <3>1
  <2>5. Sums(h, f, U)
    <3>1. h = [T \in SUBSET U |-> h[T]]
      OBVIOUS
    <3> HIDE DEF h
    <3> QED BY <2>4, <3>1 DEF Sums
  <2> QED BY <2>5 DEF Summed
<1>2. Hereditary(Summed(f, S), S)
  BY <1>1 DEF Hereditary
<1>3. S \in Summed(f, S)
  BY <1>2, BySubsets
<1> QED BY <1>3 DEF Summed

(* The chosen function adds up; any other agrees with it. *)
LEMMA SumSums ==
    ASSUME NEW S, IsFiniteSet(S), NEW f
    PROVE  \E h : Sums(h, f, S) /\ Sum(f, S) = h[S]
<1>1. Sums(CHOOSE h : Sums(h, f, S), f, S)
  BY SumsExist, SumIsSums
<1> QED BY <1>1 DEF Sum

(* The sum depends on what f is on the set only. *)
LEMMA SumAgree ==
    ASSUME NEW S, IsFiniteSet(S), NEW f, NEW g, \A x \in S : f[x] = g[x]
    PROVE  Sum(f, S) = Sum(g, S)
<1>1. PICK i : Sums(i, f, S) /\ Sum(f, S) = i[S]
  BY SumSums
<1>2. PICK j : Sums(j, g, S) /\ Sum(g, S) = j[S]
  BY SumSums
<1>3. i[S] = j[S]
  <2>1. \A U : U \subseteq S => i[U] = j[U]
    BY <1>1, <1>2, SumsAgree
  <2> QED BY <2>1
<1> QED BY <1>1, <1>2, <1>3

LEMMA SumEmpty == ASSUME NEW f PROVE Sum(f, {}) = 0
<1>1. IsFiniteSet({})
  BY FS_EmptySet
<1>2. PICK h : Sums(h, f, {}) /\ Sum(f, {}) = h[{}]
  BY <1>1, SumSums
<1> QED BY <1>2, SumsAt

(* The sums of numbers are numbers. *)
LEMMA SumsNat ==
    ASSUME NEW S, IsFiniteSet(S), NEW f, \A x \in S : f[x] \in Nat,
           NEW h, Sums(h, f, S)
    PROVE  \A U \in SUBSET S : h[U] \in Nat
<1> DEFINE P == {U \in SUBSET S : h[U] \in Nat}
<1>0. /\ h[{}] = 0
      /\ \A T \in SUBSET S : T # {} => h[T] = f[Pick(T)] + h[T \ {Pick(T)}]
  BY SumsAt
<1>1. ASSUME NEW V \in SUBSET S, \A W \in SUBSET V : W # V => W \in P
      PROVE  V \in P
  <2>1. CASE V = {}
    BY <1>0, <2>1
  <2>2. CASE V # {}
    <3>1. Pick(V) \in V
      BY <2>2, PickIn
    <3>2. h[V \ {Pick(V)}] \in Nat
      BY <1>1, <3>1
    <3> QED BY <1>0, <2>2, <3>1, <3>2
  <2> QED BY <2>1, <2>2
<1>2. Hereditary(P, S)
  <2> HIDE DEF P
  <2> QED BY <1>1 DEF Hereditary
<1>3. \A U \in SUBSET S : U \in P
  <2> HIDE DEF P
  <2> QED BY <1>2, BySubsets
<1> QED BY <1>3

(* Whichever element is taken first, the sum is the same. *)
FirstIs(h, f, U) == \A e \in U : h[U] = f[e] + h[U \ {e}]

LEMMA SumsAnyFirst ==
    ASSUME NEW S, IsFiniteSet(S), NEW f, \A x \in S : f[x] \in Nat,
           NEW h, Sums(h, f, S)
    PROVE  \A U \in SUBSET S : FirstIs(h, f, U)
<1> DEFINE P == {U \in SUBSET S : FirstIs(h, f, U)}
<1>0. /\ \A T \in SUBSET S : T # {} => h[T] = f[Pick(T)] + h[T \ {Pick(T)}]
      /\ \A U \in SUBSET S : h[U] \in Nat
  BY SumsAt, SumsNat
<1>1. ASSUME NEW V \in SUBSET S, \A W \in SUBSET V : W # V => W \in P
      PROVE  V \in P
  <2>1. ASSUME NEW e \in V PROVE h[V] = f[e] + h[V \ {e}]
    <3> DEFINE p == Pick(V)
    <3>1. p \in V
      BY PickIn
    <3>2. h[V] = f[p] + h[V \ {p}]
      BY <1>0
    <3> HIDE DEF p
    <3>3. CASE e = p
      BY <3>2, <3>3
    <3>4. CASE e # p
      <4>1. FirstIs(h, f, V \ {p}) /\ FirstIs(h, f, V \ {e})
        BY <1>1, <3>1
      <4>2. h[V \ {p}] = f[e] + h[(V \ {p}) \ {e}]
        BY <3>4, <4>1 DEF FirstIs
      <4>3. h[V \ {e}] = f[p] + h[(V \ {e}) \ {p}]
        BY <3>1, <3>4, <4>1 DEF FirstIs
      <4>4. (V \ {p}) \ {e} = (V \ {e}) \ {p}
        OBVIOUS
      <4>5. f[e] \in Nat /\ f[p] \in Nat /\ h[(V \ {e}) \ {p}] \in Nat
        BY <1>0, <3>1
      <4>6. h[V] = f[p] + (f[e] + h[(V \ {e}) \ {p}])
        BY <3>2, <4>2, <4>4
      <4>7. f[e] + h[V \ {e}] = f[e] + (f[p] + h[(V \ {e}) \ {p}])
        BY <4>3
      <4> QED BY <4>5, <4>6, <4>7
    <3> QED BY <3>3, <3>4
  <2> QED BY <2>1 DEF FirstIs
<1>2. Hereditary(P, S)
  <2> HIDE DEF P
  <2> QED BY <1>1 DEF Hereditary
<1>3. \A U \in SUBSET S : U \in P
  <2> HIDE DEF P
  <2> QED BY <1>2, BySubsets
<1> QED BY <1>3

(* One more element adds its value ... *)
LEMMA SumAdd ==
    ASSUME NEW S, IsFiniteSet(S), NEW f, NEW e, e \notin S,
           \A x \in S \cup {e} : f[x] \in Nat
    PROVE  Sum(f, S \cup {e}) = Sum(f, S) + f[e]
<1> DEFINE T == S \cup {e}
<1>1. IsFiniteSet(T)
  BY FS_AddElement
<1>2. PICK h : Sums(h, f, T) /\ Sum(f, T) = h[T]
  <2> HIDE DEF T
  <2> QED BY <1>1, SumSums
<1>3. PICK j : Sums(j, f, S) /\ Sum(f, S) = j[S]
  BY SumSums
<1>4. /\ \A U \in SUBSET T : h[U] \in Nat
      /\ \A U \in SUBSET T : FirstIs(h, f, U)
  <2>1. \A x \in T : f[x] \in Nat
    OBVIOUS
  <2> HIDE DEF T
  <2> QED BY <1>1, <1>2, <2>1, SumsNat, SumsAnyFirst
<1>5. T \ {e} = S /\ e \in T
  OBVIOUS
<1>6. h[T] = f[e] + h[S]
  BY <1>4, <1>5 DEF FirstIs
<1>7. h[S] = j[S]
  <2>1. S \subseteq T
    OBVIOUS
  <2> HIDE DEF T
  <2> QED BY <1>1, <1>2, <1>3, <2>1, SumsAgree
<1>8. h[S] \in Nat /\ f[e] \in Nat
  BY <1>4
<1> QED BY <1>2, <1>3, <1>6, <1>7, <1>8

LEMMA SumNat ==
    ASSUME NEW S, IsFiniteSet(S), NEW f, \A x \in S : f[x] \in Nat
    PROVE  Sum(f, S) \in Nat
<1>1. PICK h : Sums(h, f, S) /\ Sum(f, S) = h[S]
  BY SumSums
<1>2. \A U \in SUBSET S : h[U] \in Nat
  BY <1>1, SumsNat
<1> QED BY <1>1, <1>2

(* ... so no element has more than the sum. *)
LEMMA SumAtLeast ==
    ASSUME NEW S, IsFiniteSet(S), NEW f, \A x \in S : f[x] \in Nat, NEW e \in S
    PROVE  f[e] <= Sum(f, S)
<1> DEFINE T == S \ {e}
<1>1. IsFiniteSet(T) /\ e \notin T /\ S = T \cup {e} /\ \A x \in T : f[x] \in Nat
  BY FS_RemoveElement
<1> HIDE DEF T
<1>2. Sum(f, S) = Sum(f, T) + f[e]
  BY <1>1, SumAdd
<1>3. Sum(f, T) \in Nat
  BY <1>1, SumNat
<1> QED BY <1>2, <1>3

-----------------------------------------------------------------------------
(***************************************************************************)
(* The runner.  A suite is taken, waits for its turn and is counted; the   *)
(* counts are always the sums over the suites that had their turn.         *)
(***************************************************************************)
Phase == {"start", "made", "record", "wait", "summary", "exited"}
Fate == [state : {"new", "skipped", "running", "ended"}, code : 0..1,
         report : {<<>>} \cup (Nat \X Nat)]

(* A signal ends the runner, so it was not interrupted while it runs. *)
RunnerTypes ==
    /\ pc \in Phase
    /\ next \in 1..(NSuites + 1)
    /\ suites \in [R!Suite -> Fate]
    /\ interrupted \in BOOLEAN
    /\ pc # "exited" => ~interrupted

(* The suites are taken in order, and the summary comes after the last. *)
Taken(s) == s < next \/ (s = next /\ pc = "record")
InOrder ==
    /\ pc \in {"made", "record"} => next <= NSuites
    /\ \A s \in R!Suite : suites[s].state = "new" <=> ~Taken(s)
    /\ pc = "record" => suites[next].state # "skipped"
    /\ pc \in {"summary", "exited"} => next > NSuites /\ entries = <<>>

(* A suite that was started waits for its turn once, at the latest when it *)
(* runs.                                                                   *)
Waiting == {entries[i] : i \in 1..Len(entries)}
EachOnce ==
    /\ entries \in Seq(R!Suite)
    /\ \A i, j \in 1..Len(entries) : entries[i] = entries[j] => i = j
    /\ \A s \in Waiting : s < next /\ suites[s].state \in {"running", "ended"}
    /\ \A s \in R!Suite : s < next /\ suites[s].state = "running" => s \in Waiting

(* The counts are those of the suites that had their turn. *)
Counted == {s \in R!Suite : s < next /\ R!Ended(s) /\ s \notin Waiting}
Field(n) == [s \in R!Suite |-> IF suites[s].report = <<>> THEN 0
                               ELSE suites[s].report[n]]
Totals ==
    /\ total_passed_count = Sum(Field(1), Counted)
    /\ total_failed_count = Sum(Field(2), Counted)
SuiteCounts ==
    /\ passed_suite_count \in Nat /\ failed_suite_count \in Nat
    /\ passed_suite_count + failed_suite_count = Cardinality(Counted)
    /\ failed_suite_count = 0 => \A s \in Counted : suites[s].code = 0

Accounts == Totals /\ SuiteCounts /\ (pc = "exited" => code = R!Verdict)

RunnerInv == RunnerTypes /\ (~interrupted => InOrder /\ EachOnce /\ Accounts)

(* The suites are finitely many numbers. *)
LEMMA SuiteFacts ==
    /\ R!Suite = 1..NSuites /\ IsFiniteSet(R!Suite)
    /\ \A s \in R!Suite : s \in Nat /\ s >= 1 /\ s <= NSuites
    /\ \A C \in SUBSET R!Suite : IsFiniteSet(C) /\ Cardinality(C) \in Nat
<1>1. R!Suite = 1..NSuites
  BY DEF R!Suite
<1>2. IsFiniteSet(1..NSuites)
  BY NSuitesAssumption, FS_Interval
<1>3. \A s \in 1..NSuites : s \in Nat /\ s >= 1 /\ s <= NSuites
  BY NSuitesAssumption
<1>4. \A C \in SUBSET (1..NSuites) : IsFiniteSet(C) /\ Cardinality(C) \in Nat
  BY <1>2, FS_Subset, FS_CardinalityType
<1> QED BY <1>1, <1>2, <1>3, <1>4

(* What a suite can be, as the actions of the runner and of a suite set it. *)
LEMMA FateFacts ==
    /\ \A w : R!At(w).state = w
    /\ \A w \in {"new", "skipped", "running", "ended"} : R!At(w) \in Fate
    /\ \A o \in R!Outcome : o \in Fate /\ o.state = "ended"
    /\ [R!At("ended") EXCEPT !.code = 1] \in Fate
    /\ \A o \in Fate : /\ o.code \in 0..1
                       /\ o.state \in {"new", "skipped", "running", "ended"}
                       /\ \/ o.report = <<>>
                          \/ o.report[1] \in Nat /\ o.report[2] \in Nat
<1>1. /\ \A w : R!At(w).state = w
      /\ \A w \in {"new", "skipped", "running", "ended"} : R!At(w) \in Fate
  BY DEF R!At, Fate
<1>2. ASSUME NEW o \in R!Outcome PROVE o \in Fate /\ o.state = "ended"
  <2>1. PICK c \in 0..1, r \in {<<>>} \cup ((0..MaxTests) \X (0..MaxTests)) :
          o = [state |-> "ended", code |-> c, report |-> r]
    BY DEF R!Outcome
  <2>2. r \in {<<>>} \cup (Nat \X Nat)
    BY MaxTestsAssumption
  <2> QED BY <2>1, <2>2 DEF Fate
<1>3. [R!At("ended") EXCEPT !.code = 1] \in Fate
  BY DEF R!At, Fate
<1>4. \A o \in Fate : /\ o.code \in 0..1
                      /\ o.state \in {"new", "skipped", "running", "ended"}
                      /\ \/ o.report = <<>>
                         \/ o.report[1] \in Nat /\ o.report[2] \in Nat
  BY DEF Fate
<1> QED BY <1>1, <1>2, <1>3, <1>4

(* What a report adds is a number, and depends on its suite only. *)
LEMMA FieldFacts ==
    ASSUME NEW n \in {1, 2}
    PROVE  /\ suites \in [R!Suite -> Fate] =>
                \A s \in R!Suite : Field(n)[s] \in Nat
           /\ \A s \in R!Suite :
                Field(n)[s] = IF suites[s].report = <<>> THEN 0
                              ELSE suites[s].report[n]
           /\ \A s \in R!Suite :
                Field(n)'[s] = IF suites'[s].report = <<>> THEN 0
                               ELSE suites'[s].report[n]
<1>1. \A s \in R!Suite :
        Field(n)[s] = IF suites[s].report = <<>> THEN 0
                      ELSE suites[s].report[n]
  BY DEF Field
<1>2. \A s \in R!Suite :
        Field(n)'[s] = IF suites'[s].report = <<>> THEN 0
                       ELSE suites'[s].report[n]
  BY DEF Field
<1>3. ASSUME suites \in [R!Suite -> Fate], NEW s \in R!Suite
      PROVE  Field(n)[s] \in Nat
  <2>1. suites[s] \in Fate
    BY <1>3
  <2> QED BY <1>1, <2>1, FateFacts
<1> QED BY <1>1, <1>2, <1>3

LEMMA RunnerInit == R!Init => RunnerInv
<1> SUFFICES ASSUME R!Init PROVE RunnerInv
  OBVIOUS
<1> USE SuiteFacts, FateFacts
<1>1. /\ pc = "start" /\ next = 1 /\ entries = <<>>
      /\ suites = [s \in R!Suite |-> R!At("new")]
      /\ passed_suite_count = 0 /\ failed_suite_count = 0
      /\ total_passed_count = 0 /\ total_failed_count = 0
      /\ interrupted = FALSE
  BY DEF R!Init
<1>2. RunnerTypes
  <2>1. suites \in [R!Suite -> Fate]
    BY <1>1
  <2>2. next \in 1..(NSuites + 1)
    BY <1>1, NSuitesAssumption
  <2>3. interrupted \in BOOLEAN
    BY <1>1, Zenon
  <2> QED BY <1>1, <2>1, <2>2, <2>3 DEF RunnerTypes, Phase
<1>3. InOrder
  <2>1. \A s \in R!Suite : suites[s].state = "new" /\ ~Taken(s)
    BY <1>1 DEF Taken
  <2> QED BY <1>1, <2>1 DEF InOrder
<1>4. EachOnce
  <2>1. Waiting = {} /\ Len(entries) = 0 /\ entries \in Seq(R!Suite)
    BY <1>1 DEF Waiting
  <2>2. \A s \in R!Suite : suites[s].state # "running"
    BY <1>1
  <2> QED BY <2>1, <2>2 DEF EachOnce
<1>5. Accounts
  <2>1. Counted = {}
    BY <1>1 DEF Counted
  <2>2. Sum(Field(1), {}) = 0 /\ Sum(Field(2), {}) = 0
    <3>1. PICK f, g : f = Field(1) /\ g = Field(2)
      OBVIOUS
    <3>2. Sum(f, {}) = 0 /\ Sum(g, {}) = 0
      BY SumEmpty
    <3> QED BY <3>1, <3>2
  <2>3. Totals
    BY <1>1, <2>1, <2>2 DEF Totals
  <2>4. SuiteCounts
    BY <1>1, <2>1, FS_EmptySet DEF SuiteCounts
  <2> QED BY <1>1, <2>3, <2>4 DEF Accounts
<1> QED BY <1>2, <1>3, <1>4, <1>5 DEF RunnerInv

(* The accounts stay right while the suites they are about stay. *)
LEMMA AccountsStay ==
    ASSUME suites \in [R!Suite -> Fate], Totals, SuiteCounts, Counted' = Counted,
           \A s \in Counted : suites'[s] = suites[s], UNCHANGED R!counts
    PROVE  Totals' /\ SuiteCounts'
<1>1. UNCHANGED <<passed_suite_count, failed_suite_count,
                  total_passed_count, total_failed_count>>
  BY DEF R!counts
<1>2. PICK C : C = Counted
  OBVIOUS
<1>3. C \in SUBSET R!Suite /\ IsFiniteSet(C)
  <2>1. C \in SUBSET R!Suite
    BY <1>2 DEF Counted
  <2> QED BY <2>1, SuiteFacts
<1>4. ASSUME NEW n \in {1, 2} PROVE Sum(Field(n)', C) = Sum(Field(n), C)
  <2>1. PICK f, g : f = Field(n) /\ g = Field(n)'
    OBVIOUS
  <2>2. \A s \in C : f[s] = g[s]
    BY <1>2, <1>3, <2>1, FieldFacts
  <2>3. Sum(f, C) = Sum(g, C)
    BY <1>3, <2>2, SumAgree
  <2> QED BY <2>1, <2>3
<1>5. Totals'
  <2>1. Sum(Field(1), Counted)' = Sum(Field(1), Counted)
    BY <1>2, <1>4
  <2>2. Sum(Field(2), Counted)' = Sum(Field(2), Counted)
    BY <1>2, <1>4
  <2> QED BY <1>1, <2>1, <2>2 DEF Totals
<1>6. SuiteCounts'
  BY <1>1 DEF SuiteCounts
<1> QED BY <1>5, <1>6

(* What the types say of numbers. *)
LEMMA TypesOf == RunnerTypes =>
    /\ next \in Nat /\ next >= 1 /\ next <= NSuites + 1 /\ NSuites \in Nat
    /\ \A s \in R!Suite : s \in Nat /\ s >= 1 /\ s <= NSuites /\ suites[s] \in Fate
    /\ next <= NSuites => next \in R!Suite
BY NSuitesAssumption, SuiteFacts DEF RunnerTypes

(* What the runner does to the next suite leaves the earlier ones alone.   *)
LEMMA NextOnly ==
    ASSUME RunnerTypes, EachOnce, Accounts, UNCHANGED <<entries, R!counts>>,
           \A s \in R!Suite : s < next => suites'[s] = suites[s],
           \/ next' = next
           \/ next \in R!Suite /\ next' = next + 1 /\ suites'[next].state = "skipped"
    PROVE  EachOnce' /\ Totals' /\ SuiteCounts'
<1>1. /\ Waiting' = Waiting /\ Waiting \subseteq R!Suite
      /\ \A s \in Waiting : s < next
  BY DEF Waiting, EachOnce
<1>2. \A s \in R!Suite : s < next' => s < next \/ suites'[s].state = "skipped"
  BY TypesOf
<1>3. \A s \in R!Suite : s < next => s < next'
  BY TypesOf
<1>4. EachOnce'
  <2>1. \A s \in Waiting' : s < next' /\ suites'[s].state \in {"running", "ended"}
    BY <1>1, <1>3 DEF EachOnce
  <2>2. \A s \in R!Suite : s < next' /\ suites'[s].state = "running" => s \in Waiting'
    BY <1>1, <1>2 DEF EachOnce
  <2> QED BY <2>1, <2>2 DEF EachOnce
<1>5. Counted' = Counted
  <2>1. ASSUME NEW s \in R!Suite
        PROVE  s < next' /\ suites'[s].state = "ended" /\ s \notin Waiting'
               <=> s < next /\ suites[s].state = "ended" /\ s \notin Waiting
    BY <1>1, <1>2, <1>3
  <2> QED BY <2>1 DEF Counted, R!Ended
<1>6. \A s \in Counted : suites'[s] = suites[s]
  BY DEF Counted
<1> QED BY <1>4, <1>5, <1>6, AccountsStay DEF Accounts, RunnerTypes

(* make_tmp: the suite is taken on or passed over. *)
LEMMA MakeKeeps == RunnerInv /\ R!make_tmp => RunnerInv'
<1> SUFFICES ASSUME RunnerInv, R!make_tmp PROVE RunnerInv'
  OBVIOUS
<1>1. /\ RunnerTypes /\ pc = "start" /\ next <= NSuites /\ ~interrupted
      /\ InOrder /\ EachOnce /\ Accounts
  BY DEF RunnerInv, RunnerTypes, R!make_tmp
<1>2. UNCHANGED <<entries, R!counts, code, interrupted>>
  BY DEF R!make_tmp
<1>3. next \in R!Suite /\ next \in Nat /\ suites \in [R!Suite -> Fate]
  BY <1>1, TypesOf DEF RunnerTypes
<1>4. CASE pc' = "made" /\ UNCHANGED <<suites, next>>
  <2>1. RunnerTypes'
    BY <1>1, <1>2, <1>4 DEF RunnerTypes, Phase
  <2>2. InOrder'
    BY <1>1, <1>2, <1>4 DEF InOrder, Taken
  <2>3. EachOnce' /\ Totals' /\ SuiteCounts'
    BY <1>1, <1>2, <1>4, NextOnly
  <2> QED BY <1>4, <2>1, <2>2, <2>3 DEF RunnerInv, Accounts
<1>5. CASE /\ suites' = [suites EXCEPT ![next] = R!At("skipped")]
           /\ next' = next + 1 /\ pc' = pc
  <2>1. /\ suites' \in [R!Suite -> Fate] /\ suites'[next].state = "skipped"
        /\ \A s \in R!Suite : s # next => suites'[s] = suites[s]
    BY <1>3, <1>5, FateFacts
  <2>2. RunnerTypes'
    BY <1>1, <1>2, <1>5, <2>1, TypesOf DEF RunnerTypes
  <2>3. InOrder'
    <3>1. \A s \in R!Suite : Taken(s)' <=> s <= next
      BY <1>1, <1>5, TypesOf DEF Taken
    <3>2. \A s \in R!Suite : Taken(s) <=> s < next
      BY <1>1, <1>5, TypesOf DEF Taken
    <3>3. \A s \in R!Suite : suites'[s].state = "new" <=> ~Taken(s)'
      BY <1>1, <1>3, <2>1, <3>1, <3>2, TypesOf DEF InOrder
    <3> QED BY <1>1, <1>5, <3>3 DEF InOrder
  <2>4. EachOnce' /\ Totals' /\ SuiteCounts'
    <3>1. \A s \in R!Suite : s < next => suites'[s] = suites[s]
      BY <1>3, <2>1, TypesOf
    <3> QED BY <1>1, <1>2, <1>3, <1>5, <2>1, <3>1, NextOnly
  <2> QED BY <1>1, <1>5, <2>2, <2>3, <2>4 DEF RunnerInv, Accounts
<1> QED BY <1>4, <1>5 DEF R!make_tmp

(* exec_test: the suite is started or passed over. *)
LEMMA ExecKeeps == RunnerInv /\ R!exec_test => RunnerInv'
<1> SUFFICES ASSUME RunnerInv, R!exec_test PROVE RunnerInv'
  OBVIOUS
<1>1. /\ RunnerTypes /\ pc = "made" /\ ~interrupted
      /\ InOrder /\ EachOnce /\ Accounts
  BY DEF RunnerInv, RunnerTypes, R!exec_test
<1>2. UNCHANGED <<entries, R!counts, code, interrupted>>
  BY DEF R!exec_test
<1>3. next \in R!Suite /\ next \in Nat /\ suites \in [R!Suite -> Fate]
  BY <1>1, TypesOf DEF RunnerTypes, InOrder
<1>4. PICK fate \in {"running", "skipped"} :
        /\ suites' = [suites EXCEPT ![next] = R!At(fate)]
        /\ fate = "running" => pc' = "record" /\ next' = next
        /\ fate = "skipped" => pc' = "start" /\ next' = next + 1
  BY DEF R!exec_test
<1>5. /\ suites' \in [R!Suite -> Fate] /\ suites'[next].state = fate
      /\ \A s \in R!Suite : s # next => suites'[s] = suites[s]
  BY <1>3, <1>4, FateFacts
<1>6. RunnerTypes'
  BY <1>1, <1>2, <1>3, <1>4, <1>5, TypesOf DEF RunnerTypes, Phase
<1>7. InOrder'
  <2>1. \A s \in R!Suite : Taken(s)' <=> s <= next
    BY <1>1, <1>4, TypesOf DEF Taken
  <2>2. \A s \in R!Suite : Taken(s) <=> s < next
    BY <1>1, TypesOf DEF Taken
  <2>3. \A s \in R!Suite : suites'[s].state = "new" <=> ~Taken(s)'
    BY <1>1, <1>3, <1>4, <1>5, <2>1, <2>2, TypesOf DEF InOrder
  <2> QED BY <1>1, <1>4, <1>5, <2>3 DEF InOrder
<1>8. EachOnce' /\ Totals' /\ SuiteCounts'
  <2>1. \A s \in R!Suite : s < next => suites'[s] = suites[s]
    BY <1>3, <1>5, TypesOf
  <2> QED BY <1>1, <1>2, <1>3, <1>4, <1>5, <2>1, NextOnly
<1> QED BY <1>4, <1>6, <1>7, <1>8 DEF RunnerInv, Accounts

(* record: the suite that was started waits for its turn. *)
LEMMA RecordKeeps == RunnerInv /\ R!record => RunnerInv'
<1> SUFFICES ASSUME RunnerInv, R!record PROVE RunnerInv'
  OBVIOUS
<1>1. /\ RunnerTypes /\ pc = "record" /\ ~interrupted
      /\ InOrder /\ EachOnce /\ Accounts
  BY DEF RunnerInv, RunnerTypes, R!record
<1>2. /\ UNCHANGED <<suites, R!counts, code, interrupted>>
      /\ entries' = Append(entries, next) /\ next' = next + 1
      /\ pc' \in {"wait", "start"}
  BY DEF R!record
<1>3. next \in R!Suite /\ next \in Nat /\ suites \in [R!Suite -> Fate]
  BY <1>1, TypesOf DEF RunnerTypes, InOrder
<1>4. /\ entries \in Seq(R!Suite) /\ entries' \in Seq(R!Suite)
      /\ Len(entries') = Len(entries) + 1 /\ Len(entries) \in Nat
      /\ \A i \in 1..Len(entries) : entries'[i] = entries[i]
      /\ entries'[Len(entries) + 1] = next
  BY <1>1, <1>2, <1>3, AppendProperties DEF EachOnce
<1>5. Waiting' = Waiting \cup {next}
  <2>1. 1..Len(entries') = (1..Len(entries)) \cup {Len(entries) + 1}
    BY <1>4
  <2> QED BY <1>4, <2>1 DEF Waiting
<1>6. \A s \in Waiting : s < next /\ s # next /\ s \in R!Suite
  BY <1>1, <1>3, <1>4, TypesOf DEF EachOnce, Waiting
<1>7. \A s \in R!Suite : s < next' <=> s < next \/ s = next
  BY <1>1, <1>2, TypesOf
<1>8. suites[next].state \in {"running", "ended"}
  <2>1. Taken(next) /\ suites[next].state # "skipped"
    BY <1>1 DEF InOrder, Taken
  <2> QED BY <1>1, <1>3, <2>1, FateFacts DEF InOrder
<1>9. RunnerTypes'
  BY <1>1, <1>2, <1>3, TypesOf DEF RunnerTypes, Phase
<1>10. InOrder'
  <2>1. \A s \in R!Suite : Taken(s)' <=> Taken(s)
    BY <1>1, <1>2, <1>7 DEF Taken
  <2> QED BY <1>1, <1>2, <2>1 DEF InOrder
<1>11. EachOnce'
  <2>1. ASSUME NEW i \in 1..Len(entries'), NEW j \in 1..Len(entries'),
               entries'[i] = entries'[j]
        PROVE  i = j
    <3>1. \A k \in 1..Len(entries) : entries'[k] = entries[k] /\ entries[k] # next
      BY <1>4, <1>6 DEF Waiting
    <3>2. \A k \in 1..Len(entries') : k \in 1..Len(entries) \/ k = Len(entries) + 1
      BY <1>4
    <3> QED BY <1>1, <1>4, <2>1, <3>1, <3>2 DEF EachOnce
  <2>2. \A s \in Waiting' : s < next' /\ suites'[s].state \in {"running", "ended"}
    BY <1>1, <1>2, <1>3, <1>5, <1>6, <1>7, <1>8 DEF EachOnce
  <2>3. \A s \in R!Suite : s < next' /\ suites'[s].state = "running" => s \in Waiting'
    BY <1>1, <1>2, <1>5, <1>7 DEF EachOnce
  <2> QED BY <1>4, <2>1, <2>2, <2>3 DEF EachOnce
<1>12. Counted' = Counted
  <2>1. ASSUME NEW s \in R!Suite
        PROVE  s < next' /\ R!Ended(s)' /\ s \notin Waiting'
               <=> s < next /\ R!Ended(s) /\ s \notin Waiting
    <3>1. s < next => s # next
      BY <1>1, TypesOf
    <3> QED BY <1>2, <1>5, <1>7, <3>1 DEF R!Ended
  <2> QED BY <2>1 DEF Counted
<1>13. Totals' /\ SuiteCounts'
  BY <1>1, <1>2, <1>3, <1>12, AccountsStay DEF Accounts
<1> QED BY <1>2, <1>9, <1>10, <1>11, <1>13 DEF RunnerInv, Accounts

(* wait_for_tests: the first suite of the batch has its turn. *)
LEMMA WaitKeeps == RunnerInv /\ R!wait_for_test => RunnerInv'
<1> SUFFICES ASSUME RunnerInv, R!wait_for_test PROVE RunnerInv'
  OBVIOUS
<1> DEFINE h == Head(entries)
<1>1. /\ RunnerTypes /\ pc = "wait" /\ ~interrupted
      /\ InOrder /\ EachOnce /\ Accounts
  BY DEF RunnerInv, RunnerTypes, R!wait_for_test
<1>2. /\ UNCHANGED <<pc, next, suites, code, interrupted>>
      /\ entries # <<>> /\ R!Ended(h) /\ entries' = Tail(entries)
      /\ R!AddSuite(suites[h]) /\ R!AddReport(suites[h].report)
  BY DEF R!wait_for_test
<1>3. suites \in [R!Suite -> Fate]
  BY <1>1 DEF RunnerTypes
<1>4. /\ entries \in Seq(R!Suite) /\ entries' \in Seq(R!Suite)
      /\ Len(entries) \in Nat /\ Len(entries) >= 1
      /\ Len(entries') = Len(entries) - 1
      /\ h = entries[1] /\ h \in R!Suite
      /\ \A i \in 1..Len(entries') : entries'[i] = entries[i + 1]
  <2>1. entries \in Seq(R!Suite) /\ entries # <<>>
    BY <1>1, <1>2 DEF EachOnce
  <2> QED BY <1>2, <2>1, HeadTailProperties, LenProperties
<1> HIDE DEF h
<1>5. h \in Waiting /\ h \notin Waiting' /\ Waiting = Waiting' \cup {h}
  <2>1. h \in Waiting
    BY <1>4 DEF Waiting
  <2>2. h \notin Waiting'
    <3> SUFFICES ASSUME NEW i \in 1..Len(entries'), h = entries'[i] PROVE FALSE
      BY DEF Waiting
    <3>1. i + 1 \in 1..Len(entries) /\ 1 \in 1..Len(entries)
      BY <1>4
    <3>2. entries[1] = entries[i + 1]
      BY <1>4
    <3>3. 1 = i + 1
      BY <1>1, <3>1, <3>2 DEF EachOnce
    <3> QED BY <3>3, <1>4
  <2>3. ASSUME NEW s \in Waiting PROVE s \in Waiting' \cup {h}
    <3>1. PICK i \in 1..Len(entries) : s = entries[i]
      BY DEF Waiting
    <3>2. CASE i = 1
      BY <1>4, <3>1, <3>2
    <3>3. CASE i # 1
      <4>1. PICK k \in 1..Len(entries') : i = k + 1
        <5>1. i - 1 \in 1..Len(entries') /\ i = (i - 1) + 1
          BY <1>4, <3>3
        <5> QED BY <5>1
      <4> QED BY <1>4, <3>1, <4>1 DEF Waiting
    <3> QED BY <3>2, <3>3
  <2>4. ASSUME NEW s \in Waiting' PROVE s \in Waiting
    <3>1. PICK i \in 1..Len(entries') : s = entries'[i]
      BY DEF Waiting
    <3>2. i + 1 \in 1..Len(entries) /\ s = entries[i + 1]
      BY <1>4, <3>1
    <3> QED BY <3>2 DEF Waiting
  <2> QED BY <2>1, <2>2, <2>3, <2>4
<1>6. EachOnce'
  <2>1. ASSUME NEW i \in 1..Len(entries'), NEW j \in 1..Len(entries'),
               entries'[i] = entries'[j]
        PROVE  i = j
    <3>1. i + 1 \in 1..Len(entries) /\ j + 1 \in 1..Len(entries)
          /\ entries[i + 1] = entries[j + 1]
      BY <1>4, <2>1
    <3>2. i + 1 = j + 1
      BY <1>1, <3>1 DEF EachOnce
    <3> QED BY <1>4, <3>2
  <2>2. \A s \in Waiting' : s < next' /\ suites'[s].state \in {"running", "ended"}
    BY <1>1, <1>2, <1>5 DEF EachOnce
  <2>3. \A s \in R!Suite : s < next' /\ suites'[s].state = "running" => s \in Waiting'
    BY <1>1, <1>2, <1>5 DEF EachOnce, R!Ended
  <2> QED BY <1>4, <2>1, <2>2, <2>3 DEF EachOnce
<1>7. Counted' = Counted \cup {h} /\ h \notin Counted
  <2>1. h < next
    BY <1>1, <1>5 DEF EachOnce
  <2>2. ASSUME NEW s \in R!Suite
        PROVE  s < next' /\ R!Ended(s)' /\ s \notin Waiting'
               <=> (s < next /\ R!Ended(s) /\ s \notin Waiting) \/ s = h
    BY <1>2, <1>5, <2>1 DEF R!Ended
  <2> QED BY <1>4, <1>5, <2>2 DEF Counted
<1>8. PICK C : C = Counted
  OBVIOUS
<1>9. C \in SUBSET R!Suite /\ IsFiniteSet(C) /\ Cardinality(C) \in Nat
  <2>1. C \in SUBSET R!Suite
    BY <1>8 DEF Counted
  <2> QED BY <2>1, SuiteFacts
<1>10. ASSUME NEW n \in {1, 2}
       PROVE  /\ Sum(Field(n), Counted)' = Sum(Field(n), Counted) + Field(n)[h]
              /\ Sum(Field(n), Counted) \in Nat
  <2>1. PICK f, e : f = Field(n) /\ e = h
    OBVIOUS
  <2>2. \A s \in C \cup {e} : f[s] \in Nat
    BY <1>3, <1>4, <1>9, <2>1, FieldFacts
  <2>3. Sum(f, C \cup {e}) = Sum(f, C) + f[e] /\ Sum(f, C) \in Nat
    <3>1. e \notin C
      BY <1>7, <1>8, <2>1
    <3>2. Sum(f, C \cup {e}) = Sum(f, C) + f[e]
      BY <1>9, <2>2, <3>1, SumAdd
    <3>3. Sum(f, C) \in Nat
      BY <1>9, <2>2, SumNat
    <3> QED BY <3>2, <3>3
  <2>4. Field(n)' = Field(n)
    BY <1>2 DEF Field
  <2> QED BY <1>7, <1>8, <2>1, <2>3, <2>4
<1>11. Totals'
  <2>1. /\ total_passed_count' = total_passed_count + Field(1)[h]
        /\ total_failed_count' = total_failed_count + Field(2)[h]
    <3>1. /\ total_passed_count = Sum(Field(1), Counted)
          /\ total_failed_count = Sum(Field(2), Counted)
      BY <1>1 DEF Accounts, Totals
    <3>2. total_passed_count \in Nat /\ total_failed_count \in Nat
      BY <1>10, <3>1
    <3>3. /\ Field(1)[h] = IF suites[h].report = <<>> THEN 0 ELSE suites[h].report[1]
          /\ Field(2)[h] = IF suites[h].report = <<>> THEN 0 ELSE suites[h].report[2]
      BY <1>4, FieldFacts
    <3>4. CASE suites[h].report = <<>>
      <4>1. UNCHANGED <<total_passed_count, total_failed_count>>
        BY <1>2, <3>4 DEF R!AddReport
      <4> QED BY <3>2, <3>3, <3>4, <4>1
    <3>5. CASE suites[h].report # <<>>
      BY <1>2, <3>3, <3>5 DEF R!AddReport
    <3> QED BY <3>4, <3>5
  <2> QED BY <1>1, <1>10, <2>1 DEF Accounts, Totals
<1>12. SuiteCounts'
  <2>1. Cardinality(Counted)' = Cardinality(Counted) + 1
    <3>1. PICK e : e = h
      OBVIOUS
    <3>2. Cardinality(C \cup {e}) = Cardinality(C) + 1
      BY <1>7, <1>8, <1>9, <3>1, FS_AddElement
    <3> QED BY <1>7, <1>8, <3>1, <3>2
  <2>2. /\ passed_suite_count \in Nat /\ failed_suite_count \in Nat
        /\ passed_suite_count + failed_suite_count = Cardinality(Counted)
        /\ failed_suite_count = 0 => \A s \in Counted : suites[s].code = 0
    BY <1>1 DEF Accounts, SuiteCounts
  <2>3. CASE suites[h].code = 0
    <3>1. passed_suite_count' = passed_suite_count + 1
          /\ failed_suite_count' = failed_suite_count
      BY <1>2, <2>3 DEF R!AddSuite
    <3>2. failed_suite_count' = 0 => \A s \in Counted' : suites'[s].code = 0
      BY <1>2, <1>7, <2>2, <2>3, <3>1
    <3> QED BY <2>1, <2>2, <3>1, <3>2 DEF SuiteCounts
  <2>4. CASE suites[h].code # 0
    <3>1. failed_suite_count' = failed_suite_count + 1
          /\ passed_suite_count' = passed_suite_count
      BY <1>2, <2>4 DEF R!AddSuite
    <3> QED BY <2>1, <2>2, <3>1 DEF SuiteCounts
  <2> QED BY <2>3, <2>4
<1>13. RunnerTypes' /\ InOrder'
  BY <1>1, <1>2 DEF RunnerTypes, InOrder, Taken
<1> QED BY <1>1, <1>2, <1>6, <1>11, <1>12, <1>13 DEF RunnerInv, Accounts

(* Steps that only move the runner on. *)
LEMMA MoveKeeps ==
    RunnerInv /\ (R!last_batch \/ R!batch_done \/ R!summary) => RunnerInv'
<1> SUFFICES ASSUME RunnerInv, R!last_batch \/ R!batch_done \/ R!summary
             PROVE  RunnerInv'
  OBVIOUS
<1>1. /\ RunnerTypes /\ pc \in {"start", "wait", "summary"} /\ ~interrupted
      /\ InOrder /\ EachOnce /\ Accounts
  BY DEF RunnerInv, RunnerTypes, R!last_batch, R!batch_done, R!summary
<1>2. UNCHANGED <<next, entries, suites, R!counts, interrupted>>
  BY DEF R!last_batch, R!batch_done, R!summary
<1>3. \/ pc = "start" /\ next > NSuites /\ pc' \in {"summary", "wait"}
         /\ (pc' = "summary" => entries = <<>>)
      \/ pc = "wait" /\ pc' = "start"
      \/ pc = "summary" /\ pc' = "exited" /\ code' = R!Verdict
  BY DEF R!last_batch, R!batch_done, R!summary
<1>4. RunnerTypes' /\ InOrder'
  BY <1>1, <1>2, <1>3 DEF RunnerTypes, InOrder, Taken, Phase
<1>5. EachOnce' /\ Counted' = Counted
  BY <1>1, <1>2 DEF EachOnce, Waiting, Counted, R!Ended
<1>6. Totals' /\ SuiteCounts'
  BY <1>1, <1>2, <1>5, AccountsStay DEF Accounts, RunnerTypes
<1>7. pc' = "exited" => code' = R!Verdict'
  <2>1. R!Verdict' = R!Verdict
    BY <1>2 DEF R!Verdict, R!counts
  <2> QED BY <1>3, <2>1
<1> QED BY <1>4, <1>5, <1>6, <1>7 DEF RunnerInv, Accounts

(* After a signal the counts are not about anything any more. *)
LEMMA SignalKeeps == RunnerInv /\ R!on_signal => RunnerInv'
<1> SUFFICES ASSUME RunnerInv, R!on_signal PROVE RunnerInv'
  OBVIOUS
<1>1. /\ pc' = "exited" /\ interrupted' = TRUE /\ next' = next
      /\ suites' = [s \in R!Suite |->
                      IF s \in R!Running /\ s \in R!Range(entries)
                      THEN [R!At("ended") EXCEPT !.code = 1] ELSE suites[s]]
  BY DEF R!on_signal
<1>2. suites' \in [R!Suite -> Fate]
  BY <1>1, FateFacts DEF RunnerInv, RunnerTypes
<1>3. RunnerTypes'
  <2>1. interrupted' \in BOOLEAN
    BY <1>1, Zenon
  <2> QED BY <1>1, <1>2, <2>1 DEF RunnerInv, RunnerTypes, Phase
<1>4. interrupted'
  BY <1>1
<1> QED BY <1>3, <1>4 DEF RunnerInv

(* A suite that ends had its turn taken, but is not yet counted. *)
LEMMA EndKeeps ==
    ASSUME RunnerInv, NEW e \in R!Suite, R!suite_ends(e)
    PROVE  RunnerInv'
<1>1. PICK o \in R!Outcome : suites' = [suites EXCEPT ![e] = o]
  BY DEF R!suite_ends
<1>2. /\ UNCHANGED <<pc, next, entries, R!counts, code, interrupted>>
      /\ suites[e].state = "running"
  BY DEF R!suite_ends, R!Running
<1>3. suites \in [R!Suite -> Fate]
  BY DEF RunnerInv, RunnerTypes
<1>4. /\ suites' \in [R!Suite -> Fate] /\ suites'[e].state = "ended"
      /\ \A s \in R!Suite : s # e => suites'[s] = suites[s]
  BY <1>1, <1>3, FateFacts
<1>5. RunnerTypes'
  BY <1>2, <1>4 DEF RunnerInv, RunnerTypes
<1>6. ASSUME ~interrupted PROVE InOrder' /\ EachOnce' /\ Accounts'
  <2>1. RunnerTypes /\ InOrder /\ EachOnce /\ Accounts
    BY <1>6 DEF RunnerInv
  <2>2. InOrder'
    <3>1. pc' = "record" => next \in R!Suite
      BY <1>2, <2>1, TypesOf DEF InOrder
    <3>2. \A s \in R!Suite : Taken(s)' = Taken(s)
      BY <1>2 DEF Taken
    <3>3. \A s \in R!Suite : suites'[s].state = "new" <=> suites[s].state = "new"
      BY <1>2, <1>4
    <3>4. pc = "record" => suites'[next].state # "skipped"
      BY <1>2, <1>4, <2>1, <3>1 DEF InOrder
    <3> QED BY <1>2, <2>1, <3>2, <3>3, <3>4 DEF InOrder
  <2>3. Waiting' = Waiting /\ Waiting \subseteq R!Suite
    BY <1>2, <2>1 DEF Waiting, EachOnce
  <2>4. EachOnce'
    <3>1. \A s \in Waiting' : s < next' /\ suites'[s].state \in {"running", "ended"}
      BY <1>2, <1>4, <2>1, <2>3 DEF EachOnce
    <3>2. \A s \in R!Suite : s < next' /\ suites'[s].state = "running" => s \in Waiting'
      BY <1>2, <1>4, <2>1, <2>3 DEF EachOnce
    <3> QED BY <1>2, <2>1, <3>1, <3>2 DEF EachOnce
  <2>5. Counted' = Counted /\ e \notin Counted
    <3>1. e < next => e \in Waiting
      BY <1>2, <2>1 DEF EachOnce
    <3>2. ASSUME NEW s \in R!Suite
          PROVE  s < next' /\ R!Ended(s)' /\ s \notin Waiting'
                 <=> s < next /\ R!Ended(s) /\ s \notin Waiting
      BY <1>2, <1>4, <2>3, <3>1 DEF R!Ended
    <3>3. e \notin Counted
      BY <1>2 DEF Counted, R!Ended
    <3> QED BY <3>2, <3>3 DEF Counted
  <2>6. \A s \in Counted : suites'[s] = suites[s]
    BY <1>4, <2>5 DEF Counted
  <2>7. Totals' /\ SuiteCounts'
    BY <1>2, <1>3, <2>1, <2>5, <2>6, AccountsStay DEF Accounts
  <2>8. pc' = "exited" => code' = R!Verdict'
    BY <1>2, <2>1 DEF Accounts, R!Verdict, R!counts
  <2> QED BY <2>2, <2>4, <2>7, <2>8 DEF Accounts
<1> QED BY <1>2, <1>5, <1>6 DEF RunnerInv

(* Any step of RunTest keeps the invariant. *)
LEMMA RunnerStep == RunnerInv /\ [R!Next]_(R!vars) => RunnerInv'
<1>1. RunnerInv /\ UNCHANGED R!vars => RunnerInv'
  BY DEF R!vars, R!counts, RunnerInv, RunnerTypes, InOrder, Taken, EachOnce, Waiting,
         Counted, Field, Totals, SuiteCounts, Accounts, R!Ended, R!Verdict
<1> QED BY <1>1, MakeKeeps, ExecKeeps, RecordKeeps, WaitKeeps, MoveKeeps, SignalKeeps,
           EndKeeps DEF R!Next, R!Runner

-----------------------------------------------------------------------------
(***************************************************************************)
(* The jobs and the files of the runner.                                   *)
(***************************************************************************)
(* A batch has room while suites are started. *)
Batch ==
    /\ Len(entries) <= parallel_jobs
    /\ pc \in {"start", "made", "record"} => Len(entries) < parallel_jobs
JobsInv == R!AtMostJobs /\ (~interrupted => Batch)

(* In the instance as in this module. *)
LEMMA SameCardinality == ASSUME NEW S PROVE R!Cardinality(S) = Cardinality(S)
BY DEF R!Cardinality, Cardinality

(* Those that wait for their turn are not more than the entries are long. *)
LEMMA WaitingSize ==
    ASSUME NEW S, NEW s \in Seq(S)
    PROVE  LET T == {s[i] : i \in 1..Len(s)}
           IN  IsFiniteSet(T) /\ Cardinality(T) <= Len(s) /\ Cardinality(T) \in Nat
<1> DEFINE T == {s[i] : i \in 1..Len(s)}
<1>1. PICK n \in Nat : n = Len(s)
  BY LenProperties
<1>2. s \in Surjection(1..n, T)
  <2>1. s \in [1..n -> T]
    BY <1>1
  <2>2. \A t \in T : \E i \in 1..n : s[i] = t
    BY <1>1
  <2> HIDE DEF T
  <2> QED BY <2>1, <2>2 DEF Surjection
<1> HIDE DEF T
<1>3. ExistsSurjection(1..n, T)
  BY <1>2 DEF ExistsSurjection
<1>4. IsFiniteSet(T) /\ Cardinality(T) <= n
  BY <1>3, FS_NatSurjection, FS_SurjCardinalityBound
<1>5. Cardinality(T) \in Nat
  BY <1>4, FS_CardinalityType
<1> QED BY <1>1, <1>4, <1>5 DEF T

(* Suites that run wait for their turn, or will in a moment. *)
LEMMA BatchBounds ==
    RunnerInv /\ ~interrupted /\ Batch => R!AtMostJobs
<1> SUFFICES ASSUME RunnerInv, ~interrupted, Batch PROVE R!AtMostJobs
  OBVIOUS
<1>1. RunnerTypes /\ InOrder /\ EachOnce
  BY DEF RunnerInv
<1>2. \A s \in R!Running : s \in Waiting \/ (s = next /\ pc = "record")
  BY <1>1 DEF R!Running, InOrder, EachOnce, Taken
<1>3. /\ IsFiniteSet(Waiting) /\ Cardinality(Waiting) \in Nat
      /\ Cardinality(Waiting) <= Len(entries)
  <2>1. entries \in Seq(R!Suite)
    BY <1>1 DEF EachOnce
  <2>2. PICK s : s = entries
    OBVIOUS
  <2>3. LET T == {s[i] : i \in 1..Len(s)}
        IN  IsFiniteSet(T) /\ Cardinality(T) <= Len(s) /\ Cardinality(T) \in Nat
    BY <2>1, <2>2, WaitingSize, ZenonT(30)
  <2> QED BY <2>2, <2>3 DEF Waiting
<1>4. Len(entries) \in Nat /\ parallel_jobs \in Nat
  BY <1>1, LenProperties, JobsAssumption DEF EachOnce
<1>5. PICK A, W, e : A = R!Running /\ W = Waiting /\ e = next
  OBVIOUS
<1>6. Cardinality(A) <= parallel_jobs
  <2>1. CASE pc = "record"
    <3>1. A \in SUBSET (W \cup {e})
      BY <1>2, <1>5
    <3>2. /\ IsFiniteSet(W \cup {e})
          /\ Cardinality(W \cup {e}) <= Cardinality(W) + 1
          /\ Cardinality(W \cup {e}) \in Nat
      <4>1. IsFiniteSet(W) /\ Cardinality(W) \in Nat
        BY <1>3, <1>5
      <4>2. /\ IsFiniteSet(W \cup {e})
            /\ Cardinality(W \cup {e}) =
                 IF e \in W THEN Cardinality(W) ELSE Cardinality(W) + 1
        BY <4>1, FS_AddElement
      <4> QED BY <4>1, <4>2
    <3>3. Cardinality(A) <= Cardinality(W \cup {e}) /\ Cardinality(A) \in Nat
      BY <3>1, <3>2, FS_Subset, FS_CardinalityType
    <3>4. Len(entries) < parallel_jobs
      BY <2>1 DEF Batch
    <3> QED BY <1>3, <1>4, <1>5, <3>2, <3>3, <3>4
  <2>2. CASE pc # "record"
    <3>1. A \in SUBSET W
      BY <1>2, <1>5, <2>2
    <3>2. Cardinality(A) <= Cardinality(W) /\ Cardinality(A) \in Nat
      BY <1>3, <1>5, <3>1, FS_Subset, FS_CardinalityType
    <3>3. Len(entries) <= parallel_jobs
      BY DEF Batch
    <3> QED BY <1>3, <1>4, <1>5, <3>2, <3>3
  <2> QED BY <2>1, <2>2
<1>7. R!Cardinality(A) = Cardinality(A)
  BY SameCardinality
<1> QED BY <1>5, <1>6, <1>7 DEF R!AtMostJobs

(* Where nothing is started, no more suites run than before. *)
LEMMA NoMoreRun ==
    ASSUME RunnerInv, R!AtMostJobs, R!Running' \subseteq R!Running
    PROVE  R!AtMostJobs'
<1>1. PICK A, C : A = R!Running /\ C = R!Running'
  OBVIOUS
<1>2. R!Cardinality(A) <= parallel_jobs
  BY <1>1 DEF R!AtMostJobs
<1>3. IsFiniteSet(A) /\ C \in SUBSET A
  <2>1. A \in SUBSET R!Suite
    BY <1>1 DEF R!Running
  <2> QED BY <1>1, <2>1, SuiteFacts
<1>4. /\ Cardinality(C) <= Cardinality(A)
      /\ Cardinality(C) \in Nat /\ Cardinality(A) \in Nat
  BY <1>3, FS_Subset, FS_CardinalityType
<1>5. R!Cardinality(C) = Cardinality(C) /\ R!Cardinality(A) = Cardinality(A)
  BY SameCardinality
<1>6. R!Cardinality(C) <= parallel_jobs
  BY <1>2, <1>4, <1>5, JobsAssumption
<1> QED BY <1>1, <1>6 DEF R!AtMostJobs

(* Each step of the runner keeps to the size of a batch. *)
LEMMA BatchStays == RunnerInv /\ ~interrupted /\ Batch /\ R!Runner => Batch'
<1> SUFFICES ASSUME RunnerInv, ~interrupted, Batch, R!Runner PROVE Batch'
  OBVIOUS
<1>1. entries \in Seq(R!Suite) /\ next \in Nat /\ parallel_jobs \in Nat \ {0}
      /\ (pc \in {"made", "record"} => next \in R!Suite)
  BY TypesOf, JobsAssumption DEF RunnerInv, EachOnce, InOrder
<1>2. Len(entries) \in Nat
  BY <1>1, LenProperties
<1>3. CASE R!make_tmp \/ R!exec_test
  <2>1. UNCHANGED entries /\ pc \in {"start", "made"}
    BY <1>3 DEF R!make_tmp, R!exec_test
  <2> QED BY <1>1, <1>2, <2>1 DEF Batch
<1>4. CASE R!record
  <2>1. /\ pc = "record" /\ entries' = Append(entries, next)
        /\ pc' = IF Len(entries) + 1 >= parallel_jobs THEN "wait" ELSE "start"
    BY <1>4 DEF R!record, R!BatchFull
  <2>2. Len(entries') = Len(entries) + 1
    BY <1>1, <2>1, AppendProperties
  <2>3. Len(entries) < parallel_jobs
    BY <2>1 DEF Batch
  <2> QED BY <1>1, <1>2, <2>1, <2>2, <2>3 DEF Batch
<1>5. CASE R!last_batch \/ R!summary
  <2>1. UNCHANGED entries /\ pc' \in {"summary", "wait", "exited"}
    BY <1>5 DEF R!last_batch, R!summary
  <2> QED BY <2>1 DEF Batch
<1>6. CASE R!wait_for_test
  <2>1. /\ entries # <<>> /\ entries' = Tail(entries) /\ pc' = "wait"
    BY <1>6 DEF R!wait_for_test
  <2>2. Len(entries') = Len(entries) - 1
    BY <1>1, <2>1, HeadTailProperties
  <2> QED BY <1>1, <1>2, <2>1, <2>2 DEF Batch
<1>7. CASE R!batch_done
  <2>1. entries' = <<>>
    BY <1>7 DEF R!batch_done
  <2> QED BY <1>1, <2>1 DEF Batch
<1> QED BY <1>3, <1>4, <1>5, <1>6, <1>7 DEF R!Runner

(* Any step of RunTest keeps to the jobs. *)
LEMMA JobsStep == RunnerInv /\ JobsInv /\ [R!Next]_(R!vars) => JobsInv'
<1> SUFFICES ASSUME RunnerInv, JobsInv, [R!Next]_(R!vars) PROVE JobsInv'
  OBVIOUS
<1>1. RunnerInv'
  BY RunnerStep
<1>2. (RunnerInv /\ ~interrupted /\ Batch => R!AtMostJobs)'
  BY BatchBounds, PTL
<1>3. CASE R!Runner
  <2>1. ~interrupted /\ interrupted' = interrupted
    BY <1>3 DEF RunnerInv, RunnerTypes, R!Runner, R!make_tmp, R!exec_test, R!record,
                R!last_batch, R!wait_for_test, R!batch_done, R!summary
  <2>2. Batch'
    BY <1>3, <2>1, BatchStays DEF JobsInv
  <2> QED BY <1>1, <1>2, <2>1, <2>2 DEF JobsInv
<1>4. CASE R!on_signal
  <2>1. /\ interrupted' = TRUE
        /\ suites' = [s \in R!Suite |->
                        IF s \in R!Running /\ s \in R!Range(entries)
                        THEN [R!At("ended") EXCEPT !.code = 1] ELSE suites[s]]
    BY <1>4 DEF R!on_signal
  <2>2. [R!At("ended") EXCEPT !.code = 1].state = "ended"
    BY DEF R!At
  <2>3. R!Running' \subseteq R!Running
    BY <2>1, <2>2 DEF R!Running
  <2> QED BY <2>1, <2>3, NoMoreRun DEF JobsInv
<1>5. ASSUME NEW e \in R!Suite, R!suite_ends(e) PROVE JobsInv'
  <2>1. /\ UNCHANGED <<pc, entries, interrupted>>
        /\ \E o \in R!Outcome : suites' = [suites EXCEPT ![e] = o]
    BY <1>5 DEF R!suite_ends
  <2>2. R!Running' \subseteq R!Running
    <3>1. PICK o \in R!Outcome : suites' = [suites EXCEPT ![e] = o]
      BY <2>1
    <3>2. suites \in [R!Suite -> Fate] /\ o.state = "ended"
      BY FateFacts DEF RunnerInv, RunnerTypes
    <3>3. \A s \in R!Suite : suites'[s].state = "running" => suites[s].state = "running"
      BY <3>1, <3>2
    <3> QED BY <3>3 DEF R!Running
  <2> QED BY <2>1, <2>2, NoMoreRun DEF JobsInv, Batch
<1>6. CASE UNCHANGED R!vars
  BY <1>6 DEF R!vars, JobsInv, Batch, R!AtMostJobs, R!Running
<1> QED BY <1>3, <1>4, <1>5, <1>6 DEF R!Next

LEMMA JobsInit == R!Init => JobsInv
<1> SUFFICES ASSUME R!Init PROVE JobsInv
  OBVIOUS
<1>1. entries = <<>> /\ interrupted = FALSE
  BY DEF R!Init
<1>2. Batch
  BY <1>1, JobsAssumption DEF Batch
<1> QED BY <1>1, <1>2, RunnerInit, BatchBounds DEF JobsInv

LEMMA RunnerHolds == R!Spec => [](RunnerInv /\ JobsInv)
BY RunnerInit, RunnerStep, JobsInit, JobsStep, PTL DEF R!Spec

(* The runner keeps to --parallel-jobs for every number of jobs and suites, *)
(* whichever suites are passed over and whenever a signal comes.            *)
THEOREM RunnerKeepsToJobs == R!Spec => []R!AtMostJobs
<1>1. JobsInv => R!AtMostJobs
  BY DEF JobsInv
<1> QED BY <1>1, RunnerHolds, PTL

(* Only the file of the suite that is being made is not yet known. *)
FilesInv ==
    IF pc = "exited" THEN files \subseteq {next} /\ (~interrupted => files = {})
    ELSE files \subseteq (tmp_list \cup IF pc = "made" THEN {next} ELSE {})

LEMMA FilesStep == RunnerInv /\ FilesInv /\ [R!Next]_(R!vars) => FilesInv'
<1> SUFFICES ASSUME RunnerInv, FilesInv, [R!Next]_(R!vars) PROVE FilesInv'
  OBVIOUS
<1>1. pc # "exited" => ~interrupted
  BY DEF RunnerInv, RunnerTypes
<1>2. CASE R!make_tmp \/ R!exec_test \/ R!record \/ R!last_batch \/ R!wait_for_test
           \/ R!batch_done
  BY <1>2 DEF FilesInv, R!make_tmp, R!exec_test, R!record, R!last_batch,
              R!wait_for_test, R!batch_done
<1>3. CASE R!summary \/ R!on_signal
  BY <1>1, <1>3 DEF FilesInv, R!summary, R!on_signal, R!Cleanup
<1>4. CASE (\E s \in R!Suite : R!suite_ends(s)) \/ UNCHANGED R!vars
  BY <1>4 DEF FilesInv, R!suite_ends, R!vars
<1> QED BY <1>2, <1>3, <1>4 DEF R!Next, R!Runner

(* Its temporary files are removed, those of suites passed over as well, but *)
(* for the one that a signal finds just made.                                *)
THEOREM RunnerRemovesFiles == R!Spec => []R!FilesRemoved
<1>1. R!Init => FilesInv
  BY DEF R!Init, FilesInv
<1>2. FilesInv => R!FilesRemoved
  BY DEF FilesInv, R!FilesRemoved
<1> QED BY <1>1, <1>2, FilesStep, RunnerHolds, PTL DEF R!Spec

-----------------------------------------------------------------------------
(***************************************************************************)
(* The runner and the program together.                                    *)
(***************************************************************************)
(* The runner's view of its first suite. *)
Linked ==
    /\ suites[1].state = "ended" => Over(parent)
    /\ ~interrupted /\ suites[1].state = "ended" => suites[1] = Told

HarnessInv == ProgramInv /\ RunnerInv /\ Linked

(* There is a first suite. *)
LEMMA FirstSuite == 1 \in R!Suite
BY NSuitesAssumption DEF R!Suite

LEMMA HarnessInit == InitHarness => HarnessInv
<1> SUFFICES ASSUME InitHarness PROVE HarnessInv
  OBVIOUS
<1>1. suites[1].state = "new"
  <2>1. suites = [s \in R!Suite |-> R!At("new")]
    BY DEF InitHarness, R!Init
  <2> QED BY <2>1, FirstSuite, FateFacts
<1> QED BY <1>1, ProgramInit, RunnerInit DEF InitHarness, HarnessInv, Linked

(* The program keeps its invariant, whether it runs or is killed. *)
LEMMA HarnessProgram == HarnessInv /\ [NextHarness]_all_vars => ProgramInv'
<1> SUFFICES ASSUME HarnessInv, [NextHarness]_all_vars PROVE ProgramInv'
  OBVIOUS
<1>1. CASE [Next]_vars
  BY <1>1, ProgramStep DEF HarnessInv
<1>2. CASE on_signal
  BY <1>1, <1>2, GroupKilled DEF on_signal, HarnessInv
<1>3. runner_step \/ (\E s \in R!Suite : other_suite_ends(s)) \/ UNCHANGED all_vars
        => UNCHANGED vars
  BY DEF runner_step, other_suite_ends, all_vars
<1>4. Program(Next) => Next
  BY DEF Program
<1> QED BY <1>1, <1>2, <1>3, <1>4 DEF NextHarness

(* To the runner, each step is one of its own, or the end of a suite, or   *)
(* nothing at all.                                                         *)
LEMMA HarnessRefines == HarnessInv /\ [NextHarness]_all_vars => [R!Next]_(R!vars)
<1> SUFFICES ASSUME HarnessInv, [NextHarness]_all_vars PROVE [R!Next]_(R!vars)
  OBVIOUS
<1>1. CASE runner_step \/ on_signal \/ \E s \in R!Suite : other_suite_ends(s)
  BY <1>1 DEF runner_step, on_signal, other_suite_ends, R!Next
<1>2. CASE Program(Next)
  <2>1. UNCHANGED others
    BY <1>2 DEF Program
  <2>2. UNCHANGED <<pc, next, entries, files, tmp_list, R!counts, code, interrupted>>
    BY <2>1 DEF others, R!counts
  <2>3. CASE ~Over(parent) /\ Over(parent)'
    <3>1. /\ suites' = [suites EXCEPT ![1] = Told']
          /\ suites[1].state \in {"running", "ended"}
      BY <1>2, <2>3 DEF Program
    <3>2. 1 \in R!Running
      BY <2>3, <3>1, FirstSuite DEF HarnessInv, Linked, R!Running
    <3>3. ProgramInv' /\ Over(parent)' => Told' \in R!Outcome /\ R!Possible(Told)'
      <4>1. (ProgramInv /\ Over(parent) => Told \in R!Outcome /\ R!Possible(Told))'
        BY ToldIsOutcome, PTL
      <4>2. R!Outcome' = R!Outcome
        BY DEF R!Outcome
      <4> QED BY <4>1, <4>2
    <3>4. Told' \in R!Outcome /\ R!Possible(Told')
      <4>1. ProgramInv'
        BY HarnessProgram
      <4> QED BY <2>3, <3>3, <4>1 DEF R!Possible
    <3>5. R!suite_ends(1)
      BY <2>2, <3>1, <3>2, <3>4 DEF R!suite_ends
    <3> QED BY <3>5, FirstSuite DEF R!Next
  <2>4. CASE ~(~Over(parent) /\ Over(parent)')
    <3>1. suites' = suites
      BY <1>2, <2>4 DEF Program
    <3> QED BY <2>2, <3>1 DEF R!vars
  <2> QED BY <2>3, <2>4
<1>3. CASE UNCHANGED all_vars
  <2>1. UNCHANGED <<pc, next, entries, suites, files, tmp_list, R!counts, code,
                    interrupted>>
    BY <1>3 DEF all_vars, others, R!counts
  <2> QED BY <2>1 DEF R!vars
<1> QED BY <1>1, <1>2, <1>3 DEF NextHarness

(* Nothing else ends the first suite, and it does not end twice. *)
LEMMA LinkedStays == HarnessInv /\ [NextHarness]_all_vars => Linked'
<1> SUFFICES ASSUME HarnessInv, [NextHarness]_all_vars PROVE Linked'
  OBVIOUS
<1>1. /\ suites \in [R!Suite -> Fate] /\ 1 \in R!Suite
      /\ suites[1].state = "ended" => Over(parent)
      /\ ~interrupted /\ suites[1].state = "ended" => suites[1] = Told
  BY FirstSuite DEF HarnessInv, RunnerInv, RunnerTypes, Linked
<1>2. ASSUME UNCHANGED <<parent, report, interrupted>>,
             suites'[1].state = "ended" => suites'[1] = suites[1]
      PROVE  Linked'
  BY <1>1, <1>2 DEF Linked, Told, Over
<1>3. CASE runner_step
  <2>1. R!Runner /\ UNCHANGED <<parent, report>>
    BY <1>3 DEF runner_step, vars, parent_vars
  <2>2. /\ UNCHANGED interrupted
        /\ suites' = suites \/ \E w \in {"skipped", "running"} :
             suites' = [suites EXCEPT ![next] = R!At(w)]
    BY <2>1 DEF R!Runner, R!make_tmp, R!exec_test, R!record, R!last_batch,
                R!wait_for_test, R!batch_done, R!summary
  <2>3. suites'[1].state = "ended" => suites'[1] = suites[1]
    BY <1>1, <2>2, FateFacts
  <2> QED BY <1>2, <2>1, <2>2, <2>3
<1>4. ASSUME NEW s \in R!Suite, other_suite_ends(s) PROVE Linked'
  <2>1. UNCHANGED <<parent, report, interrupted>> /\ s # 1
        /\ \E o \in R!Outcome : suites' = [suites EXCEPT ![s] = o]
    BY <1>4 DEF other_suite_ends, R!suite_ends, vars, parent_vars
  <2>2. suites'[1] = suites[1]
    BY <1>1, <2>1
  <2> QED BY <1>2, <2>1, <2>2
<1>5. CASE on_signal
  <2>1. /\ interrupted' = TRUE /\ pc # "exited"
        /\ suites' = [s \in R!Suite |->
                        IF s \in R!Running /\ s \in R!Range(entries)
                        THEN [R!At("ended") EXCEPT !.code = 1] ELSE suites[s]]
        /\ IF GroupKnown THEN KillGroup ELSE UNCHANGED vars
    BY <1>5 DEF on_signal, R!on_signal
  <2>2. CASE GroupKnown
    <3>1. Over(parent)'
      BY <2>1, <2>2, GroupKilled DEF HarnessInv
    <3> QED BY <2>1, <3>1 DEF Linked
  <2>3. CASE ~GroupKnown
    <3>1. EachOnce
      BY <2>1 DEF HarnessInv, RunnerInv, RunnerTypes
    <3>2. R!Range(entries) = Waiting
      BY <3>1 DEF EachOnce, Waiting, R!Range
    <3>3. ~(1 \in R!Running /\ 1 \in R!Range(entries))
      <4> SUFFICES ASSUME 1 \in R!Running, 1 \in Waiting PROVE FALSE
        BY <3>2
      <4>1. 1 < next /\ suites[1].state = "running"
        BY <3>1 DEF EachOnce, R!Running
      <4>2. next > 1
        BY <4>1, TypesOf DEF HarnessInv, RunnerInv
      <4> QED BY <2>3, <4>1, <4>2 DEF GroupKnown
    <3>4. suites'[1] = suites[1] /\ UNCHANGED parent
      BY <1>1, <2>1, <2>3, <3>3 DEF vars, parent_vars
    <3> QED BY <1>1, <2>1, <3>4 DEF Linked, Over
  <2> QED BY <2>2, <2>3
<1>6. CASE Program(Next)
  <2>1. Next /\ UNCHANGED interrupted
        /\ suites' = IF ~Over(parent) /\ Over(parent)'
                     THEN [suites EXCEPT ![1] = Told'] ELSE suites
    BY <1>6 DEF Program, others
  <2>2. CASE ~Over(parent) /\ Over(parent)'
    <3>1. suites'[1] = Told'
      BY <1>1, <2>1, <2>2
    <3> QED BY <2>2, <3>1 DEF Linked
  <2>3. CASE Over(parent)
    <3>1. UNCHANGED <<parent, report>>
      BY <2>1, <2>3, OverStays
    <3> QED BY <1>2, <2>1, <2>3, <3>1
  <2>4. CASE ~Over(parent) /\ ~Over(parent)'
    BY <1>1, <2>1, <2>4 DEF Linked
  <2> QED BY <2>2, <2>3, <2>4
<1>7. CASE UNCHANGED all_vars
  BY <1>2, <1>7 DEF all_vars, others, vars, parent_vars
<1> QED BY <1>3, <1>4, <1>5, <1>6, <1>7 DEF NextHarness

LEMMA HarnessStep == HarnessInv /\ [NextHarness]_all_vars => HarnessInv'
BY HarnessProgram, HarnessRefines, RunnerStep, LinkedStays DEF HarnessInv

LEMMA HarnessHolds == SpecHarness => []HarnessInv
BY HarnessInit, HarnessStep, PTL DEF SpecHarness

(* A program of LibTest is a suite as RunTest takes it: to the runner every *)
(* step of the two processes, of a signal and of their deaths is a suite    *)
(* that ends with an outcome it allows for - 0 never with failures in the   *)
(* report - or no step at all.  (ImplementsRunTest without its fairness.)   *)
THEOREM HarnessIsRunTest == SpecHarness => R!Init /\ [][R!Next]_(R!vars)
<1>1. InitHarness => R!Init
  BY DEF InitHarness
<1> QED BY <1>1, HarnessRefines, HarnessHolds, PTL DEF SpecHarness

EndedOnes == {s \in R!Suite : R!Ended(s)}

(* Also of a program that the runner starts, and whose whole process group  *)
(* a signal may kill at any moment, 0 is earned and the report is exact.    *)
THEOREM HarnessProgramIsRight == SpecHarness => [](SuccessIsEarned /\ CountsExact)
<1>1. HarnessInv => SuccessIsEarned /\ CountsExact
  BY EarnedByInv, ExactByInv DEF HarnessInv, ProgramInv
<1> QED BY <1>1, HarnessHolds, PTL

(* Reported is the sum over the suites that ended. *)
Adds(h, n) ==
    h = [T \in SUBSET EndedOnes |->
           IF T = {} THEN 0
           ELSE (IF suites[Pick(T)].report = <<>> THEN 0
                 ELSE suites[Pick(T)].report[n]) + h[T \ {Pick(T)}]]

LEMMA ReportedDef ==
    ASSUME NEW n
    PROVE  R!Reported(n) = (CHOOSE h : Adds(h, n))[EndedOnes]
BY DEF R!Reported, R!MapThenSumSet, R!MapThenFoldSet, Adds, EndedOnes, Pick

LEMMA ReportedIsSum ==
    ASSUME NEW n \in {1, 2}
    PROVE  R!Reported(n) = Sum(Field(n), EndedOnes)
<1>1. EndedOnes \subseteq R!Suite
  BY DEF EndedOnes
<1>2. ASSUME NEW h PROVE Adds(h, n) <=> Sums(h, Field(n), EndedOnes)
  <2>1. \A T \in SUBSET EndedOnes : T # {} =>
          Field(n)[Pick(T)] = IF suites[Pick(T)].report = <<>> THEN 0
                              ELSE suites[Pick(T)].report[n]
    BY <1>1, PickIn, FieldFacts
  <2>2. [T \in SUBSET EndedOnes |->
           IF T = {} THEN 0
           ELSE (IF suites[Pick(T)].report = <<>> THEN 0
                 ELSE suites[Pick(T)].report[n]) + h[T \ {Pick(T)}]]
        = [T \in SUBSET EndedOnes |->
             IF T = {} THEN 0 ELSE Field(n)[Pick(T)] + h[T \ {Pick(T)}]]
    BY <2>1
  <2> QED BY <2>2 DEF Adds, Sums
<1>3. PICK f, E : f = Field(n) /\ E = EndedOnes
  OBVIOUS
<1>4. IsFiniteSet(E)
  BY <1>1, <1>3, SuiteFacts
<1>5. PICK h : Sums(h, f, E) /\ Sum(f, E) = h[E]
  BY <1>4, SumSums
<1> DEFINE k == CHOOSE i : Adds(i, n)
<1>6. Adds(k, n)
  <2>1. Adds(h, n)
    BY <1>2, <1>3, <1>5
  <2> QED BY <2>1
<1>7. R!Reported(n) = k[EndedOnes]
  BY ReportedDef
<1> HIDE DEF k
<1>8. PICK i : i = k
  OBVIOUS
<1>9. Sums(i, f, E)
  BY <1>2, <1>3, <1>6, <1>8
<1>10. \A U : U \subseteq E => i[U] = h[U]
  BY <1>4, <1>5, <1>9, SumsAgree
<1> QED BY <1>3, <1>5, <1>7, <1>8, <1>10

(* When all suites were taken and had their turn, all that ended count. *)
LEMMA AllCounted ==
    ASSUME RunnerInv, ~interrupted, pc \in {"summary", "exited"}
    PROVE  /\ Counted = EndedOnes
           /\ \A s \in R!Suite : suites[s].state \in {"skipped", "ended"}
<1>1. /\ RunnerTypes /\ EachOnce /\ next > NSuites /\ entries = <<>>
      /\ \A s \in R!Suite : suites[s].state = "new" <=> ~Taken(s)
  BY DEF RunnerInv, InOrder
<1>2. Waiting = {}
  BY <1>1 DEF Waiting
<1>3. \A s \in R!Suite : s < next
  BY <1>1, TypesOf
<1>4. Counted = EndedOnes
  BY <1>2, <1>3 DEF Counted, EndedOnes
<1>5. ASSUME NEW s \in R!Suite PROVE suites[s].state \in {"skipped", "ended"}
  <2>1. Taken(s)
    BY <1>3 DEF Taken
  <2>2. suites[s].state # "new" /\ suites[s].state # "running"
    BY <1>1, <1>2, <1>3, <2>1 DEF EachOnce
  <2> QED BY <1>1, <2>2, TypesOf, FateFacts
<1> QED BY <1>4, <1>5

LEMMA TotalsByInv == RunnerInv => R!TotalsExact
<1> SUFFICES ASSUME RunnerInv, pc = "summary"
             PROVE  /\ total_passed_count = R!Reported(1)
                    /\ total_failed_count = R!Reported(2)
                    /\ passed_suite_count + failed_suite_count
                         = R!Cardinality(EndedOnes)
  BY DEF R!TotalsExact, EndedOnes
<1>1. ~interrupted /\ Totals /\ SuiteCounts
  BY DEF RunnerInv, RunnerTypes, Accounts
<1>2. Counted = EndedOnes
  BY <1>1, AllCounted
<1>3. /\ R!Reported(1) = Sum(Field(1), EndedOnes)
      /\ R!Reported(2) = Sum(Field(2), EndedOnes)
  BY ReportedIsSum
<1>4. R!Cardinality(EndedOnes) = Cardinality(EndedOnes)
  <2>1. PICK E : E = EndedOnes
    OBVIOUS
  <2> QED BY <2>1, SameCardinality
<1> QED BY <1>1, <1>2, <1>3, <1>4 DEF Totals, SuiteCounts

(* The summary of the runner adds up the reports of all suites that ended,  *)
(* and counts each suite once, for every number of suites and jobs and      *)
(* whatever the order in which they end ...                                 *)
THEOREM RunnerAddsUp == R!Spec => []R!TotalsExact
BY TotalsByInv, RunnerHolds, PTL

(* ... also with a program of LibTest among them, dying as it may.          *)
THEOREM SummaryIsExact == SpecHarness => []TotalsExact
<1>1. HarnessInv => TotalsExact
  BY TotalsByInv DEF HarnessInv, TotalsExact
<1> QED BY <1>1, HarnessHolds, PTL

(* When the runner exits with 0 and no signal made it, every suite that was *)
(* started succeeded, and of the one that is a program of LibTest every     *)
(* test case and every hook ran and succeeded, and the summary counts them  *)
(* if the program could write its report.                                   *)
THEOREM SuccessOfTheRun == SpecHarness => []GreenIsEarned
<1>1. HarnessInv => GreenIsEarned
  <2> SUFFICES ASSUME HarnessInv, pc = "exited", code = 0, ~interrupted
               PROVE  /\ \A s \in R!Suite :
                           suites[s].state = "skipped" \/ suites[s].code = 0
                      /\ suites[1].state # "skipped" =>
                           /\ verdicts = [n \in 1..NTests |-> TRUE] /\ hooks_ok
                           /\ total_failed_count = 0
                           /\ report # <<>> => total_passed_count >= NTests
    BY DEF GreenIsEarned
  <2>1. RunnerInv /\ Totals /\ SuiteCounts /\ code = R!Verdict
        /\ suites \in [R!Suite -> Fate]
    BY DEF HarnessInv, RunnerInv, RunnerTypes, Accounts
  <2>2. /\ Counted = EndedOnes
        /\ \A s \in R!Suite : suites[s].state \in {"skipped", "ended"}
    BY <2>1, AllCounted
  <2>3. PICK C, f, g : C = Counted /\ f = Field(1) /\ g = Field(2)
    OBVIOUS
  <2>4. /\ C \in SUBSET R!Suite /\ IsFiniteSet(C)
        /\ \A s \in C : f[s] \in Nat /\ g[s] \in Nat
    <3>1. C \in SUBSET R!Suite
      BY <2>3 DEF Counted
    <3> QED BY <2>1, <2>3, <3>1, SuiteFacts, FieldFacts
  <2>5. total_failed_count = 0 /\ failed_suite_count = 0
    <3>1. ~(total_failed_count > 0 \/ failed_suite_count > 0)
      BY <2>1 DEF R!Verdict
    <3>2. total_failed_count \in Nat /\ failed_suite_count \in Nat
      BY <2>1, <2>3, <2>4, SumNat DEF Totals, SuiteCounts
    <3> QED BY <3>1, <3>2
  <2>6. \A s \in R!Suite : suites[s].state = "skipped" \/ suites[s].code = 0
    BY <2>1, <2>2, <2>5 DEF SuiteCounts, EndedOnes, R!Ended
  <2>7. ASSUME suites[1].state # "skipped"
        PROVE  /\ verdicts = [n \in 1..NTests |-> TRUE] /\ hooks_ok
               /\ report # <<>> => total_passed_count >= NTests
    <3>1. suites[1].state = "ended" /\ suites[1].code = 0 /\ suites[1] = Told
      BY <2>2, <2>6, <2>7, FirstSuite DEF HarnessInv, Linked
    <3>2. parent = Exited(0)
      BY <3>1 DEF Told
    <3>3. verdicts = [n \in 1..NTests |-> TRUE] /\ hooks_ok /\ untold = 0
      BY <3>2, EarnedByInv DEF HarnessInv, ProgramInv, SuccessIsEarned
    <3>4. ASSUME report # <<>> PROVE total_passed_count >= NTests
      <4>1. /\ report[2] = 0
            /\ report = <<passed_count, failed_count, child>>
            /\ child = Exited(0) /\ Len(verdicts) = NTests
        BY <3>2, <3>4 DEF HarnessInv, ProgramInv, ZeroReported, ReportInv, EndOfPipe,
                          IInv, ErrorsTold, Progress
      <4>2. report[1] + report[2] = Len(verdicts) - untold
        BY <4>1, ExactByInv, StateFacts DEF HarnessInv, ProgramInv, CountsExact
      <4>3. report[1] = NTests
        <5>1. report[1] \in Nat
          BY <4>1 DEF HarnessInv, ProgramInv, ReportInv, WritersKnown
        <5> QED BY <3>3, <4>1, <4>2, <5>1, NTestsAssumption
      <4>4. f[1] = NTests
        <5>1. suites[1].report = <<report[1], report[2]>>
          BY <3>1, <3>4 DEF Told
        <5>2. f[1] = IF suites[1].report = <<>> THEN 0 ELSE suites[1].report[1]
          BY <2>3, FirstSuite, FieldFacts
        <5> QED BY <4>3, <5>1, <5>2
      <4>5. 1 \in C
        BY <2>2, <2>3, <3>1, FirstSuite DEF EndedOnes, R!Ended
      <4>6. f[1] <= Sum(f, C) /\ Sum(f, C) \in Nat
        BY <2>4, <4>5, SumAtLeast, SumNat
      <4> QED BY <2>1, <2>3, <4>4, <4>6, NTestsAssumption DEF Totals
    <3> QED BY <3>3, <3>4
  <2> QED BY <2>5, <2>6, <2>7
<1> QED BY <1>1, HarnessHolds, PTL
=============================================================================
