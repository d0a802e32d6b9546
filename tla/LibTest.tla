------------------------------ MODULE LibTest ------------------------------
(***************************************************************************)
(* A test program (libtest/libtest.c, libtest/assert.c): main forks; the   *)
(* child runs the hooks and the test cases and writes one bool per test    *)
(* case into a pipe; the parent counts them until the pipe is at its end,  *)
(* collects the child, writes the report file - which may fail, unnoticed  *)
(* - and exits with the verdict.                                           *)
(*                                                                         *)
(* A callback may return anything, fail assertions and crash.  It neither  *)
(* exits the process nor forks one that keeps the pipe open.               *)
(***************************************************************************)
EXTENDS Integers, Sequences, FiniteSets

CONSTANTS
    NTests,        \* test cases of the suite
    PipeCap        \* bools that the pipe holds before a write blocks

ASSUME NTestsAssumption == NTests \in Nat
ASSUME PipeCapAssumption == PipeCap \in Nat \ {0}

VARIABLES
    parent,        \* where the parent is
    writers,       \* processes with fds[1] open
    pipe,          \* bools written and not yet read
    passed_count, failed_count,
    report,        \* what the report file says: nothing, or the three fields
    child,         \* where the child is: at a callback or a write, or ended
    case,          \* the test case it is at, from 1
    assert_fail_count,
    passed,        \* the verdict of the last test case
    exit_err,
    verdicts,      \* ghost: how each test case did, whatever was counted
    hooks_ok,      \* ghost: every hook succeeded
    untold         \* ghost: verdicts that could not be written

parent_vars == <<parent, passed_count, failed_count, report>>
ghosts == <<verdicts, hooks_ok, untold>>
vars == <<parent_vars, writers, pipe, child, case, assert_fail_count, passed,
          exit_err, ghosts>>

Exited(code) == [how |-> "exited", at |-> "end", code |-> code]
Signal == [how |-> "signal", at |-> "end", code |-> 0]
At(where) == [how |-> "running", at |-> where, code |-> 0]
Over(process) == process.how # "running"

Init ==
    /\ parent = At("start") /\ writers = {} /\ pipe = <<>>
    /\ passed_count = 0 /\ failed_count = 0 /\ report = <<>>
    /\ child = At("none") /\ case = 1
    /\ assert_fail_count = 0 /\ passed = FALSE /\ exit_err = FALSE
    /\ verdicts = <<>> /\ hooks_ok = TRUE /\ untold = 0

-----------------------------------------------------------------------------
(* The child *)

(* How it ended; the kernel closes its end of the pipe. *)
ChildEnds(how) == child' = how /\ writers' = writers \ {"child"}

Callback == {"before_all", "before_each", "test", "after_each", "after_all"}

(* What follows a callback or a write: the loop over the test cases.       *)
FirstOrLast(n) == IF n <= NTests THEN "before_each" ELSE "after_all"
After == [before_all |-> FirstOrLast(case), before_each |-> "test",
          test |-> "write", write |-> "after_each",
          after_each |-> FirstOrLast(case + 1), after_all |-> "return"]

Advance(where) ==
    /\ child' = At(After[where])
    /\ case' = IF where = "after_each" THEN case + 1 ELSE case
    /\ UNCHANGED writers

(* Mutant: only hooks reset the counters. *)
Fails_NotReset(where, own) ==
    IF where = "test" THEN assert_fail_count + own ELSE own

(* assert_fail_count after a callback of which own assertions failed:      *)
(* run_hook and the loop over the test cases reset it first.               *)
Fails(where, own) == own

(* A callback returns rc.  NULL hooks are those that succeed. *)
callback ==
    \E where \in Callback, rc \in 0..1, own \in 0..1 :
      /\ child = At(where)
      /\ Advance(where)
      /\ assert_fail_count' = Fails(where, own)
      /\ LET ok == rc = 0 /\ assert_fail_count' = 0
             really == rc = 0 /\ own = 0
         IN /\ exit_err' = (exit_err \/ ~ok)
            /\ IF where = "test"
               THEN /\ passed' = ok
                    /\ verdicts' = Append(verdicts, really)
                    /\ UNCHANGED <<hooks_ok, untold>>
               ELSE /\ hooks_ok' = (hooks_ok /\ really)
                    /\ UNCHANGED <<passed, verdicts, untold>>
      /\ UNCHANGED <<parent_vars, pipe>>

(* The write blocks while the pipe is full.  It fails when nobody can read *)
(* any more (the signal kills the child then) or for a reason of its own.  *)
write ==
    /\ child = At("write")
    /\ \/ /\ ~Over(parent) /\ Len(pipe) < PipeCap
          /\ pipe' = Append(pipe, passed)
          /\ Advance("write")
          /\ UNCHANGED <<exit_err, untold>>
       \/ /\ exit_err' = TRUE
          /\ untold' = untold + 1
          /\ Advance("write")
          /\ UNCHANGED pipe
       \/ /\ Over(parent)
          /\ ChildEnds(Signal)
          /\ UNCHANGED <<pipe, exit_err, case, untold>>
    /\ UNCHANGED <<parent_vars, assert_fail_count, passed, verdicts, hooks_ok>>

child_return ==
    /\ child = At("return")
    /\ ChildEnds(Exited(IF exit_err THEN 1 ELSE 0))
    /\ UNCHANGED <<parent_vars, pipe, case, assert_fail_count, passed, exit_err,
                   ghosts>>

(* A callback crashes, or somebody kills the child. *)
child_crashes ==
    /\ ~Over(child) /\ child # At("none")
    /\ ChildEnds(Signal)
    /\ UNCHANGED <<parent_vars, pipe, case, assert_fail_count, passed, exit_err,
                   ghosts>>

-----------------------------------------------------------------------------
(* The parent *)

child_vars == <<case, assert_fail_count, passed, exit_err, ghosts>>

(* Options, pipe and fork.  Without a child there is only the exit. *)
fork ==
    /\ parent = At("start")
    /\ \/ /\ parent' = At("close")
          /\ child' = At("before_all")
          /\ writers' = {"parent", "child"}
       \/ parent' = Exited(1) /\ UNCHANGED <<child, writers>>
    /\ UNCHANGED <<pipe, passed_count, failed_count, report, child_vars>>

CloseWriter == writers' = writers \ {"parent"}

close ==
    /\ parent = At("close")
    /\ CloseWriter
    /\ parent' = At("fopen")
    /\ UNCHANGED <<pipe, passed_count, failed_count, report, child, child_vars>>

(* Without a report file the child is killed and not waited for. *)
fopen ==
    /\ parent = At("fopen")
    /\ \/ parent' = At("read") /\ UNCHANGED <<child, writers>>
       \/ /\ parent' = Exited(1)
          /\ IF Over(child) THEN UNCHANGED <<child, writers>> ELSE ChildEnds(Signal)
    /\ UNCHANGED <<pipe, passed_count, failed_count, report, child_vars>>

(* read blocks while the pipe is empty and has a writer. *)
read ==
    /\ parent = At("read")
    /\ \/ /\ pipe # <<>>
          /\ pipe' = Tail(pipe)
          /\ passed_count' = IF Head(pipe) THEN passed_count + 1 ELSE passed_count
          /\ failed_count' = IF Head(pipe) THEN failed_count ELSE failed_count + 1
          /\ UNCHANGED parent
       \/ /\ pipe = <<>> /\ writers = {}
          /\ parent' = At("waitpid")
          /\ UNCHANGED <<pipe, passed_count, failed_count>>
    /\ UNCHANGED <<writers, report, child, child_vars>>

(* waitpid fails when the status was thrown away (SIGCHLD ignored). *)
waitpid ==
    /\ parent = At("waitpid") /\ Over(child)
    /\ parent' \in {At("report"), Exited(1)}
    /\ UNCHANGED <<writers, pipe, passed_count, failed_count, report, child,
                   child_vars>>

(* Mutant: only the counts decide. *)
Verdict_CountsOnly == IF failed_count = 0 THEN 0 ELSE 1

(* Mutant: a child that exited, whatever its status, is enough. *)
Verdict_ExitedOnly == IF child.how = "exited" THEN 0 ELSE 1

Verdict == IF child = Exited(0) /\ failed_count = 0 THEN 0 ELSE 1

(* One buffered line that goes out at once, or not at all (no space is     *)
(* left): nobody looks at what fprintf and fclose return.                  *)
write_report ==
    /\ parent = At("report")
    /\ report' \in {<<passed_count, failed_count, child>>, <<>>}
    /\ parent' = Exited(Verdict)
    /\ UNCHANGED <<writers, pipe, passed_count, failed_count, child, child_vars>>

(* Somebody kills the parent. *)
parent_killed ==
    /\ ~Over(parent)
    /\ parent' = Signal
    /\ writers' = writers \ {"parent"}
    /\ UNCHANGED <<pipe, passed_count, failed_count, report, child, child_vars>>

Parent == fork \/ close \/ fopen \/ read \/ waitpid \/ write_report
Child == callback \/ write \/ child_return

Next == Parent \/ Child \/ child_crashes \/ parent_killed

(* The system runs both processes, and callbacks return. *)
Spec == Init /\ [][Next]_vars /\ WF_vars(Parent) /\ WF_vars(Child)

-----------------------------------------------------------------------------
(* Properties *)

Count(value, seq) == Cardinality({n \in DOMAIN seq : seq[n] = value})

(* The program succeeds only if the child ran every test case to its end   *)
(* and every hook and test case succeeded: whatever crashed, was killed or *)
(* could not be reported, at whatever moment.                              *)
SuccessIsEarned ==
    parent = Exited(0) =>
      /\ verdicts = [n \in 1..NTests |-> TRUE]
      /\ hooks_ok /\ untold = 0

(* A report counts each verdict that was written once, also those of a     *)
(* child that crashed later, and each is the verdict of the test case      *)
(* alone: what assertions of a hook failed does not count against it.      *)
CountsExact ==
    report # <<>> =>
      /\ report[1] <= Count(TRUE, verdicts) /\ report[2] <= Count(FALSE, verdicts)
      /\ report[3].how = "exited" =>
           report[1] + report[2] = Len(verdicts) - untold

NotRunning(process) == Over(process) \/ process \in {At("start"), At("none")}

(* Both processes, once started, end: neither waits for the other in vain, *)
(* whoever dies first.                                                     *)
BothEnd == <>[](NotRunning(parent) /\ NotRunning(child))
=============================================================================
