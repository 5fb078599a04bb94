------------------------------ MODULE Pipeline ------------------------------
(***************************************************************************)
(* ExecutionPipeline (src/src/orchestrator/pipeline.rs) for one job: the   *)
(* compilation, the test cases run side by side (buffer_unordered), each   *)
(* sandbox result turned into a verdict, the aggregation, the progress     *)
(* events and the telemetry; with the admission check in front of it       *)
(* (JobRequest::validate) and the status the supervisor derives from what  *)
(* the kernel reports (build_result).                                      *)
(*                                                                         *)
(* What the kernel will report for the compiler and for each test is fixed *)
(* in the initial state; the order in which tests complete is not.         *)
(***************************************************************************)
EXTENDS Integers, Sequences, FiniteSets, Functions

CONSTANTS
    TestCounts,    \* numbers of test cases a request may have
    MaxTests,      \* MAX_TEST_CASES
    Concurrency,   \* min(available_parallelism, 16)
    TimeLimit,     \* time_limit_ms, in units of 50 ms
    Second,        \* one second, in the same unit
    Slack,         \* the 50 ms that build_result subtracts
    MemLimit,      \* memory_limit_bytes / 1024
    MaxOut,        \* max_output_bytes
    Reports,       \* [TestCounts -> what wait4 and the cgroup may report of a run]
    Builds,        \* what they may report of the compiler
    NoReport       \* Sandbox::execute returned an error

ASSUME PipelineAssumption ==
    /\ TestCounts \subseteq Nat /\ MaxTests \in Nat /\ Concurrency \in Nat \ {0}
    /\ TimeLimit \in Nat \ {0} /\ Second \in Nat \ {0} /\ Slack \in Nat
    /\ MemLimit \in Nat /\ MaxOut \in Nat \ {0}

\* What can be reported of a run.  The pipe that holds the output is smaller than
\* max_output_bytes (64 KiB against the 10 MiB of every runner).
Report == [term : {"exit", "kill", "signal"}, code : Int, oom : BOOLEAN, mem : Nat,
           cpu : Nat, wall : Nat, out : 0 .. MaxOut - 1, right : BOOLEAN]

ASSUME ReportsAssumption ==
    /\ DOMAIN Reports = TestCounts
    /\ \A k \in TestCounts : Reports[k] \subseteq Report

Languages == {"unsupported", "disabled", "interpreted", "compiled"}
Verdicts == {"Accepted", "WrongAnswer", "TimeLimitExceeded", "MemoryLimitExceeded",
             "RuntimeError", "CompilationError"}

VARIABLES
    lang, n, stop,   \* the request: language, number of tests, stop_on_first_fail
    build, runs,     \* what the kernel will report
    pc,              \* where the job is
    raw,             \* raw_results: indices of the completed tests, in that order
    verdict,         \* result.verdict
    results,         \* result.test_results
    events,          \* progress events sent
    counted          \* calls of record_job: verdict, passed, failed

request == <<lang, n, stop, build, runs>>
vars == <<request, pc, raw, verdict, results, events, counted>>

(***************************************************************************)
(* From the kernel's report to a verdict.  A report has the wait status    *)
(* (term, code), whether the cgroup counted an OOM kill (oom), peak memory *)
(* (mem), CPU and wall time (cpu, wall), the bytes of stdout read (out)    *)
(* and whether they equal the expected output after trimming (right).      *)
(***************************************************************************)
WallLimit == 2 * TimeLimit + Second
RlimitCpu == LET secs == (TimeLimit + Second - 1) \div Second
             IN  (IF secs = 0 THEN 1 ELSE secs) * Second

\* Mutant: reaching the limit counts as exceeding it.
OverMemoryAtLimit(r) == MemLimit > 0 /\ r.mem >= MemLimit

OverMemory(r) == MemLimit > 0 /\ r.mem > MemLimit
CpuSlackLimit == IF TimeLimit > Slack THEN TimeLimit - Slack ELSE 0

\* build_result: an OOM kill takes precedence over the wait status.
BuildResult(r) ==
    CASE r.oom                              -> "MemoryLimitExceeded"
      [] ~r.oom /\ r.term = "exit" /\ r.code # 0 -> "RuntimeError"
      [] ~r.oom /\ r.term = "exit" /\ r.code = 0 ->
            IF OverMemory(r) THEN "MemoryLimitExceeded" ELSE "Ok"
      [] ~r.oom /\ r.term = "kill" ->
            IF r.wall < WallLimit /\ r.cpu < CpuSlackLimit /\ OverMemory(r)
            THEN "MemoryLimitExceeded" ELSE "TimeLimitExceeded"
      [] ~r.oom /\ r.term = "signal"        -> "Signaled"

\* Sandbox::execute overrides the status when the captured output is full.
Status(r) == IF r.out >= MaxOut THEN "OutputLimitExceeded" ELSE BuildResult(r)

\* The match in run_tests.
VerdictOf(r) ==
    LET status == Status(r)
    IN  CASE status = "Ok" ->
               IF OverMemory(r) THEN "MemoryLimitExceeded"
               ELSE IF r.right THEN "Accepted" ELSE "WrongAnswer"
          [] status \in {"TimeLimitExceeded", "MemoryLimitExceeded"} -> status
          [] OTHER ->
               IF OverMemory(r) THEN "MemoryLimitExceeded"
               ELSE IF r.cpu >= TimeLimit THEN "TimeLimitExceeded" ELSE "RuntimeError"

TypeOK ==
    /\ lang \in Languages /\ n \in TestCounts /\ stop \in BOOLEAN
    /\ build \in Builds \cup {NoReport}
    /\ runs \in [1 .. n -> Reports[n] \cup {NoReport}]
    /\ pc \in {"validate", "rejected", "start", "compile", "tests", "aggregate", "ok", "error"}
    /\ raw \in Seq(1 .. n) /\ IsInjective(raw)
    /\ verdict \in Verdicts
    /\ results \in Seq([idx : 1 .. n, status : Verdicts])
    /\ events \in Seq([kind : {"Compiling", "TestResult", "Finished"}, verdict : Verdicts])
    /\ counted \in Seq([verdict : Verdicts, passed : Nat, failed : Nat])

Init ==
    /\ lang \in Languages /\ n \in TestCounts /\ stop \in BOOLEAN
    /\ build \in Builds \cup {NoReport}
    /\ runs \in [1 .. n -> Reports[n] \cup {NoReport}]
    /\ pc = "validate"
    /\ raw = <<>> /\ verdict = "Accepted" /\ results = <<>>
    /\ events = <<>> /\ counted = <<>>

\* validate_submission: language, whitelist, shape and size limits.
Validate ==
    /\ pc = "validate"
    /\ pc' = IF lang \in {"interpreted", "compiled"} /\ n >= 1 /\ n <= MaxTests
             THEN "start" ELSE "rejected"
    /\ UNCHANGED <<request, raw, verdict, results, events, counted>>

Event(kind, v) == events' = Append(events, [kind |-> kind, verdict |-> v])

\* execute(): work directory and source, then the compiler if there is one.
Start ==
    /\ pc = "start"
    /\ \/ /\ lang = "compiled"
          /\ pc' = "compile"
          /\ Event("Compiling", verdict)
       \/ lang = "interpreted" /\ pc' = "tests" /\ UNCHANGED events
       \/ pc' = "error" /\ UNCHANGED events           \* TempDir or fs::write failed
    /\ UNCHANGED <<request, raw, verdict, results, counted>>

\* Mutant: the early return forgets the Finished event.
CompileSilently ==
    /\ pc = "compile"
    /\ \/ build = NoReport /\ pc' = "error" /\ UNCHANGED verdict
       \/ build # NoReport /\ Status(build) = "Ok" /\ pc' = "tests" /\ UNCHANGED verdict
       \/ /\ build # NoReport /\ Status(build) # "Ok"
          /\ pc' = "ok"
          /\ verdict' = "CompilationError"
    /\ UNCHANGED <<request, raw, results, events, counted>>

Compile ==
    /\ pc = "compile"
    /\ \/ build = NoReport /\ pc' = "error" /\ UNCHANGED <<verdict, events>>
       \/ build # NoReport /\ Status(build) = "Ok" /\ pc' = "tests" /\ UNCHANGED <<verdict, events>>
       \/ /\ build # NoReport /\ Status(build) # "Ok"
          /\ pc' = "ok"
          /\ verdict' = "CompilationError"
          /\ Event("Finished", "CompilationError")
    /\ UNCHANGED <<request, raw, results, counted>>

\* buffer_unordered(concurrency): the first tests not yet completed are running.
Completed == Range(raw)
\* Mutant: a completed test is started again.
RunningAgain == {i \in 1 .. n : Cardinality({k \in 1 .. n \ Completed : k < i}) < Concurrency}

Running == {i \in 1 .. n \ Completed :
               Cardinality({k \in 1 .. n \ Completed : k < i}) < Concurrency}

\* stream.next() yields the next test to complete.  Leaving the loop drops the
\* stream, and with it the tests still running.
TestCompletes(i) ==
    /\ pc = "tests" /\ i \in Running
    /\ IF runs[i] = NoReport
       THEN pc' = "error" /\ UNCHANGED <<raw, events>>
       ELSE /\ raw' = Append(raw, i)
            /\ Event("TestResult", VerdictOf(runs[i]))
            /\ pc' = IF stop /\ VerdictOf(runs[i]) # "Accepted" THEN "aggregate" ELSE "tests"
    /\ UNCHANGED <<request, verdict, results, counted>>

StreamEnds ==
    /\ pc = "tests" /\ Running = {}
    /\ pc' = "aggregate"
    /\ UNCHANGED <<request, raw, verdict, results, events, counted>>

\* Mutant: results stay in the order of completion.
UnsortedRaw == raw

\* sort_by_key: the k-th row is that of the k-th smallest index.
Nth(k)    == CHOOSE i \in Completed : Cardinality({j \in Completed : j < i}) = k - 1
SortedRaw == [k \in 1 .. Len(raw) |-> Nth(k)]

\* The loop over the sorted rows keeps the first failing verdict.
FirstFailing(rows) ==
    LET k == CHOOSE k \in DOMAIN rows :
                /\ rows[k].status # "Accepted"
                /\ \A m \in DOMAIN rows : m < k => rows[m].status = "Accepted"
    IN  rows[k].status

\* Mutant: tests that were dropped unfinished are counted as well.
PassedOfAll == Cardinality({i \in 1 .. n : runs[i] # NoReport /\ VerdictOf(runs[i]) = "Accepted"})

Passed == Cardinality({i \in Completed : VerdictOf(runs[i]) = "Accepted"})

\* Sort by index, find the verdict, record the job, announce it.
Aggregate ==
    LET rows  == [k \in 1 .. Len(raw) |-> [idx |-> SortedRaw[k],
                                           status |-> VerdictOf(runs[SortedRaw[k]])]]
        final == IF verdict = "Accepted" THEN FirstFailing(rows) ELSE verdict
    IN  /\ pc = "aggregate"
        /\ pc' = "ok"
        /\ results' = rows
        /\ verdict' = IF \A k \in DOMAIN rows : rows[k].status = "Accepted"
                      THEN "Accepted" ELSE final
        /\ counted' = Append(counted, [verdict |-> verdict', passed |-> Passed,
                                       failed |-> Len(rows) - Passed])
        /\ Event("Finished", verdict')
        /\ UNCHANGED <<request, raw>>

Next == \/ Validate \/ Start \/ Compile
        \/ \E i \in 1 .. n : TestCompletes(i)
        \/ StreamEnds \/ Aggregate

Spec == Init /\ [][Next]_vars

(***************************************************************************)
(* Properties.                                                             *)
(***************************************************************************)
Judged == pc = "ok" /\ verdict # "CompilationError"

\* A run that deserves Accepted, told from the kernel's report alone.
Clean(r) == /\ r.term = "exit" /\ r.code = 0 /\ ~r.oom
            /\ MemLimit > 0 => r.mem <= MemLimit
            /\ r.right

\* Accepted is earned and never denied: whatever the order of completion, the
\* concurrency and the short circuit, a judged job is Accepted exactly when
\* every one of its tests, not only those that were looked at, ran clean.
AcceptedIffAllClean ==
    Judged => (verdict = "Accepted" <=> \A i \in 1 .. n : runs[i] # NoReport /\ Clean(runs[i]))

\* pipeline.rs 197: results are sorted so that the answer is deterministic.  Without
\* stop_on_first_fail the rows are all tests in order and the verdict is that of the
\* lowest failing one, whatever finished first; with it exactly one failing test is
\* reported and gives the verdict, although lower ones may have been dropped.
RowsExplainVerdict ==
    Judged =>
        /\ \A k \in 1 .. Len(results) - 1 : results[k].idx < results[k + 1].idx
        /\ ~stop => Len(results) = n
        /\ verdict # "Accepted" =>
              \E k \in DOMAIN results :
                  /\ results[k].status = verdict
                  /\ \A m \in DOMAIN results :
                        (IF stop THEN m # k ELSE m < k) => results[m].status = "Accepted"

\* Everyone learns the same.  The progress events have one TestResult per row, then
\* one Finished, last, with the verdict of the result; the telemetry of a judged job
\* is recorded once, with its verdict and its tests split into passed and failed.
\* (A job that does not compile returns before record_job and is not counted.)
ReportsAgree ==
    /\ pc = "ok" =>
          /\ events # <<>> /\ events[Len(events)] = [kind |-> "Finished", verdict |-> verdict]
          /\ \A k \in 1 .. Len(events) - 1 : events[k].kind # "Finished"
          /\ Cardinality({k \in DOMAIN events : events[k].kind = "TestResult"}) = Len(results)
    /\ Judged =>
          /\ Len(counted) = 1 /\ counted[1].verdict = verdict
          /\ counted[1].passed + counted[1].failed = Len(results)
          /\ counted[1].failed = 0 <=> verdict = "Accepted"

\* docs/API_REFERENCE.md 169: Accepted means that all test cases executed within
\* the time and memory limits.
AcceptedIsInTime ==
    (Judged /\ verdict = "Accepted") => \A i \in 1 .. n : runs[i].cpu <= TimeLimit
=============================================================================
