------------------------------ MODULE RunTest ------------------------------
(***************************************************************************)
(* The test runner (build-aux/runtest): starts the suites it is given, at  *)
(* most parallel_jobs at a time, waits for a batch of them, adds up their  *)
(* reports and exits with the verdict.  A suite is a program that ends     *)
(* with an exit status and either no report or the counts of the test      *)
(* cases that passed and failed: TestHarness runs it with LibTest.         *)
(***************************************************************************)
EXTENDS Integers, Sequences, FiniteSets, SequencesExt, FiniteSetsExt

CONSTANTS
    NSuites,          \* suites on the command line, numbered from 1
    parallel_jobs,
    MaxTests          \* bounds the test cases of a suite

Suite == 1..NSuites

VARIABLES
    pc,               \* where main is
    next,             \* the suite it starts next
    entries,          \* test_pid_entries: suites started, not yet waited for
    suites,           \* each suite: "new", "skipped", "running" or how it ended
    files,            \* temporary files that exist, by suite
    tmp_list,         \* those the runner knows of
    passed_suite_count, failed_suite_count,
    total_passed_count, total_failed_count,
    code,             \* the exit status
    interrupted       \* ghost: a signal ended the runner

counts == <<passed_suite_count, failed_suite_count,
            total_passed_count, total_failed_count>>
vars == <<pc, next, entries, suites, files, tmp_list, counts, code, interrupted>>

At(state) == [state |-> state, code |-> 0, report |-> <<>>]

(* How a suite may end.  With status 0 it reports no failures, but it may  *)
(* have no report: then it passes for a suite that ran no test case.       *)
Outcome ==
    {[state |-> "ended", code |-> c, report |-> r] :
       c \in 0..1, r \in {<<>>} \cup ((0..MaxTests) \X (0..MaxTests))}
Possible(o) == o.code = 0 /\ o.report # <<>> => o.report[2] = 0

Ended(s) == suites[s].state = "ended"
Running == {s \in Suite : suites[s].state = "running"}

Init ==
    /\ pc = "start" /\ next = 1
    /\ entries = <<>>
    /\ suites = [s \in Suite |-> At("new")]
    /\ files = {} /\ tmp_list = {}
    /\ passed_suite_count = 0 /\ failed_suite_count = 0
    /\ total_passed_count = 0 /\ total_failed_count = 0
    /\ code = 0 /\ interrupted = FALSE

-----------------------------------------------------------------------------
(* A suite runs by itself. *)
suite_ends(s) ==
    /\ s \in Running
    /\ \E o \in Outcome : Possible(o) /\ suites' = [suites EXCEPT ![s] = o]
    /\ UNCHANGED <<pc, next, entries, files, tmp_list, counts, code, interrupted>>

(* mktemp; without a temporary file the suite is passed over. *)
make_tmp ==
    /\ pc = "start" /\ next <= NSuites
    /\ \/ pc' = "made" /\ files' = files \cup {next} /\ UNCHANGED <<suites, next>>
       \/ /\ suites' = [suites EXCEPT ![next] = At("skipped")]
          /\ next' = next + 1
          /\ UNCHANGED <<pc, files>>
    /\ UNCHANGED <<entries, tmp_list, counts, code, interrupted>>

(* wait_count has reached parallel_jobs. *)
BatchFull(n) == n >= parallel_jobs

(* The suite is started, unless there is no FIFO for its log. *)
exec_test ==
    /\ pc = "made"
    /\ tmp_list' = tmp_list \cup {next}
    /\ \/ /\ suites' = [suites EXCEPT ![next] = At("running")]
          /\ pc' = "record"
          /\ UNCHANGED next
       \/ /\ suites' = [suites EXCEPT ![next] = At("skipped")]
          /\ pc' = "start"
          /\ next' = next + 1
    /\ UNCHANGED <<entries, files, counts, code, interrupted>>

(* Only now is its process known: child_pids, test_pid_entries. *)
record ==
    /\ pc = "record"
    /\ entries' = Append(entries, next)
    /\ pc' = IF BatchFull(Len(entries) + 1) THEN "wait" ELSE "start"
    /\ next' = next + 1
    /\ UNCHANGED <<suites, files, tmp_list, counts, code, interrupted>>

(* Mutant: it waits even when there is nothing left to wait for. *)
last_batch_Always ==
    /\ pc = "start" /\ next > NSuites
    /\ pc' = "wait"
    /\ UNCHANGED <<next, entries, suites, files, tmp_list, counts, code, interrupted>>

(* The suites left over when all were started. *)
last_batch ==
    /\ pc = "start" /\ next > NSuites
    /\ pc' = IF entries = <<>> THEN "summary" ELSE "wait"
    /\ UNCHANGED <<next, entries, suites, files, tmp_list, counts, code, interrupted>>

AddReport(report) ==
    IF report = <<>> THEN UNCHANGED <<total_passed_count, total_failed_count>>
    ELSE /\ total_passed_count' = total_passed_count + report[1]
         /\ total_failed_count' = total_failed_count + report[2]

(* Mutant: a suite that died without reporting is not counted. *)
AddSuite_Reported(s) ==
    IF s.code = 0
    THEN /\ passed_suite_count' = passed_suite_count + 1
         /\ UNCHANGED failed_suite_count
    ELSE /\ failed_suite_count' =
              IF s.report = <<>> THEN failed_suite_count ELSE failed_suite_count + 1
         /\ UNCHANGED passed_suite_count

AddSuite(s) ==
    IF s.code = 0
    THEN /\ passed_suite_count' = passed_suite_count + 1
         /\ UNCHANGED failed_suite_count
    ELSE /\ failed_suite_count' = failed_suite_count + 1
         /\ UNCHANGED passed_suite_count

(* One iteration of wait_for_tests: the first entry left. *)
wait_for_test ==
    /\ pc = "wait" /\ entries # <<>> /\ Ended(Head(entries))
    /\ AddSuite(suites[Head(entries)])
    /\ AddReport(suites[Head(entries)].report)
    /\ entries' = Tail(entries)
    /\ UNCHANGED <<pc, next, suites, files, tmp_list, code, interrupted>>

batch_done ==
    /\ pc = "wait" /\ entries = <<>>
    /\ pc' = "start"
    /\ UNCHANGED <<next, entries, suites, files, tmp_list, counts, code, interrupted>>

(* Mutant: only the test cases that failed count. *)
Verdict_TestsOnly == IF total_failed_count > 0 THEN 1 ELSE 0

Verdict == IF total_failed_count > 0 \/ failed_suite_count > 0 THEN 1 ELSE 0

(* on_exit *)
Cleanup == files' = files \ tmp_list

summary ==
    /\ pc = "summary"
    /\ pc' = "exited"
    /\ code' = Verdict
    /\ Cleanup
    /\ UNCHANGED <<next, entries, suites, tmp_list, counts, interrupted>>

(* INT or TERM: the suites known by now are killed, and the runner exits   *)
(* with whatever status its last command had.                              *)
on_signal ==
    /\ pc # "exited"
    /\ pc' = "exited" /\ interrupted' = TRUE
    /\ code' \in 0..1
    /\ suites' = [s \in Suite |->
                    IF s \in Running /\ s \in Range(entries)
                    THEN [At("ended") EXCEPT !.code = 1] ELSE suites[s]]
    /\ Cleanup
    /\ UNCHANGED <<next, entries, tmp_list, counts>>

Runner == \/ make_tmp \/ exec_test \/ record \/ last_batch \/ wait_for_test \/ batch_done
          \/ summary

Next == Runner \/ on_signal \/ \E s \in Suite : suite_ends(s)

(* The system runs the runner and the suites, which end.                   *)
Spec == /\ Init /\ [][Next]_vars
        /\ WF_vars(Runner) /\ \A s \in Suite : WF_vars(suite_ends(s))

-----------------------------------------------------------------------------
(* Properties *)

Reported(n) ==
    MapThenSumSet(LAMBDA s : IF suites[s].report = <<>> THEN 0
                             ELSE suites[s].report[n],
                  {s \in Suite : Ended(s)})

(* The summary adds up all reports and all suites, each once, whatever the *)
(* order in which they ended.                                              *)
TotalsExact ==
    pc = "summary" =>
      /\ total_passed_count = Reported(1) /\ total_failed_count = Reported(2)
      /\ passed_suite_count + failed_suite_count
           = Cardinality({s \in Suite : Ended(s)})

(* No more suites run at once than there are jobs, however many there are  *)
(* and whichever of them are passed over: also when a signal finds one     *)
(* that was started and is not recorded yet.                               *)
AtMostJobs == Cardinality(Running) <= parallel_jobs

(* The runner leaves no temporary file behind, not even of a suite that    *)
(* was passed over - but for one that it had just made when a signal came. *)
FilesRemoved ==
    pc = "exited" => files \subseteq {next} /\ (~interrupted => files = {})
=============================================================================
