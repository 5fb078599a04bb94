----------------------------- MODULE MCPipeline -----------------------------
(* Instances of Pipeline for TLC. *)
EXTENDS Pipeline, TLC

\* Every report of an execution that the limits allow: the kernel kills at
\* RlimitCpu and the supervisor at WallLimit, so a process that ended by itself
\* stayed below both; the pipe holds less than MaxOut.
AllReports ==
    {r \in [term : {"exit", "kill", "signal"}, code : {0, 1}, oom : BOOLEAN,
            mem : {0, MemLimit, MemLimit + 1},
            cpu : {0, TimeLimit - 2, TimeLimit - 1, TimeLimit, TimeLimit + 1, RlimitCpu},
            wall : {RlimitCpu, WallLimit}, out : {0, MaxOut - 1}, right : BOOLEAN] :
        /\ r.term # "exit" => r.code = 0 /\ ~r.right
        /\ r.term # "kill" => r.cpu < RlimitCpu /\ r.wall < WallLimit
        /\ ~r.right \/ r.code = 0}

\* One report for each way a test can go.
Run(term, code, oom, mem, right) ==
    [term |-> term, code |-> code, oom |-> oom, mem |-> mem, cpu |-> 0, wall |-> 0,
     out |-> 0, right |-> right]
KindsOfReport == {Run("exit", 0, FALSE, 0, TRUE), Run("exit", 0, FALSE, 0, FALSE),
                  Run("exit", 1, FALSE, 0, FALSE), Run("kill", 0, TRUE, MemLimit, FALSE)}
\* A single test meets every report, several tests every kind of report.
ReportsByCount == [k \in TestCounts |-> IF k = 1 THEN AllReports ELSE KindsOfReport]
Compilers == {Run("exit", 0, FALSE, 0, TRUE), Run("exit", 1, FALSE, 0, FALSE)}
=============================================================================
