---------------------------- MODULE TestHarness ----------------------------
(***************************************************************************)
(* The test runner of RunTest with a real test program as its first suite: *)
(* the processes of LibTest, which start when the runner executes it, end  *)
(* as the runner will see it in wait, and are killed, as a process group,  *)
(* when the runner is interrupted.  The other suites end as RunTest says.  *)
(***************************************************************************)
EXTENDS LibTest

CONSTANTS NSuites, parallel_jobs, MaxTests

ASSUME NSuitesAssumption == NSuites \in Nat \ {0}
ASSUME JobsAssumption == parallel_jobs \in Nat \ {0}
ASSUME MaxTestsAssumption == MaxTests \in Nat /\ MaxTests >= NTests

VARIABLES pc, next, entries, suites, files, tmp_list,
          passed_suite_count, failed_suite_count,
          total_passed_count, total_failed_count, code, interrupted

R == INSTANCE RunTest

others == <<pc, next, entries, files, tmp_list,
            passed_suite_count, failed_suite_count,
            total_passed_count, total_failed_count, code, interrupted>>
all_vars == <<vars, others, suites>>

InitHarness == Init /\ R!Init

(* What wait and the report file will tell of the first suite. *)
Told == [state |-> "ended",
         code |-> IF parent = Exited(0) THEN 0 ELSE 1,
         report |-> IF report = <<>> THEN <<>> ELSE <<report[1], report[2]>>]

(* A step of the first suite; its child may live on without its parent.    *)
Program(step) ==
    /\ suites[1].state \in {"running", "ended"}
    /\ step
    /\ suites' = IF ~Over(parent) /\ Over(parent)'
                 THEN [suites EXCEPT ![1] = Told'] ELSE suites
    /\ UNCHANGED others

(* kill -TERM -- -pid *)
KillGroup ==
    /\ parent' = IF Over(parent) THEN parent ELSE Signal
    /\ child' = IF Over(child) \/ child = At("none") THEN child ELSE Signal
    /\ writers' = {}
    /\ UNCHANGED <<pipe, passed_count, failed_count, report, child_vars>>

(* The first suite was started, and its pid is in child_pids. *)
GroupKnown == next > 1 /\ suites[1].state # "skipped"

on_signal ==
    /\ R!on_signal
    /\ IF GroupKnown THEN KillGroup ELSE UNCHANGED vars

runner_step == R!Runner /\ UNCHANGED vars
other_suite_ends(s) == s # 1 /\ R!suite_ends(s) /\ UNCHANGED vars

NextHarness ==
    \/ runner_step \/ on_signal \/ \E s \in R!Suite : other_suite_ends(s)
    \/ Program(Next)

(* The system runs all processes: Spec of LibTest and of RunTest. *)
SpecHarness ==
    /\ InitHarness /\ [][NextHarness]_all_vars
    /\ WF_all_vars(runner_step)
    /\ \A s \in R!Suite : WF_all_vars(other_suite_ends(s))
    /\ WF_all_vars(Program(Parent)) /\ WF_all_vars(Program(Child))

-----------------------------------------------------------------------------
(* Properties *)

(* From the assertions of a test case to the status of the runner: when    *)
(* make sees success, every test case and hook of a suite that was started *)
(* succeeded, no report told of a failure, and if the program could write  *)
(* its report, the summary has counted all of its test cases.              *)
GreenIsEarned ==
    pc = "exited" /\ code = 0 /\ ~interrupted =>
      /\ \A s \in R!Suite : suites[s].state = "skipped" \/ suites[s].code = 0
      /\ suites[1].state # "skipped" =>
           /\ verdicts = [n \in 1..NTests |-> TRUE] /\ hooks_ok
           /\ total_failed_count = 0
           /\ report # <<>> => total_passed_count >= NTests

(* The summary adds up the reports and the suites, each once, whatever the *)
(* order in which they ended.                                              *)
TotalsExact == R!TotalsExact

(* The runner's view of a suite is right: a program of LibTest does what   *)
(* RunTest assumes of every suite - status 0 never with failures in its    *)
(* report, though maybe with no report - and it does end, so that the      *)
(* runner does, too.                                                       *)
ImplementsRunTest == R!Spec

(* The runner ends and so do both processes of the suite, if they were     *)
(* started: nobody waits in vain - for a pipe to be closed, for a process  *)
(* to die, for a suite that was not started - whoever dies first.          *)
AllEnd == BothEnd /\ <>(pc = "exited")
=============================================================================
