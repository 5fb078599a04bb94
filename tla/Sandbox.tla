------------------------------- MODULE Sandbox -------------------------------
(***************************************************************************)
(* Sandbox::execute (src/src/sandbox/mod.rs) with the parts it needs: the  *)
(* memory-admission semaphore (admission.rs), the cgroup (cgroups.rs), the *)
(* supervisor loop (supervisor.rs), the pipes and their descriptors        *)
(* (child.rs), and the process-wide reaper driven by SIGCHLD (reaper.rs,   *)
(* main.rs).  Executions, children, the reaper task, the blocking tasks of *)
(* the pipes and the offloaded cgroup teardowns interleave freely.         *)
(***************************************************************************)
EXTENDS Integers, Sequences, FiniteSets

CONSTANTS
    Execs,      \* calls of Sandbox::execute
    Total,      \* total_units()
    Volume,     \* [Execs -> Nat]: how much the child writes to stdout
    PipeCap,    \* capacity of a pipe (64 KB), in the same unit
    MaxOut,     \* max_output_bytes, in the same unit
    Settings,   \* set of [need, late]: the values of need and late to start with
    Nobody      \* the reaper has no child in hand

ASSUME SandboxAssumption == /\ IsFiniteSet(Execs)
                            /\ Settings \subseteq [need : [Execs -> Nat], late : SUBSET Execs]
                            /\ Volume \in [Execs -> Nat]
                            /\ Total \in Nat \ {0}
                            /\ PipeCap \in Nat \ {0} /\ MaxOut \in Nat \ {0}
                            /\ Nobody \notin Execs

VARIABLES
    need,      \* ceil(memory_limit / 256 MB) of each execution
    late,      \* executions whose timeouts may fire before the task they wait for was
               \* scheduled (an overcommitted host)
    free,      \* permits left in the admission semaphore
    waitq,     \* its FIFO queue of waiting executions
    exec,      \* where each execution is
    child,     \* "none", "alive", "zombie" (not yet waited for), "reaped"
    how,       \* the child's wait status: "exit" (by itself) or "kill" (SIGKILL)
    left,      \* output the child has still to write
    pipe,      \* output waiting in the pipe
    captured,  \* output execute() returns
    fds,       \* this process's open ends of the execution's stdin and stdout pipe
    kept,      \* <<execution, end>>: ends of others' pipes its child keeps past execve
    feeding,   \* executions whose blocking stdin task runs
    reading,   \* executions whose read task outlives its timeout
    cgroup,    \* "none", "present", "offloaded" (teardown spawned), "removed"
    slot,      \* the reaper's slot: "unregistered", "empty" or a wait status
    grace,     \* the deadline passed and the tree was killed
    outcome,   \* what execute() returns
    sigchld,   \* a SIGCHLD is pending for the reaper task
    reaping,   \* reap_all() is in its loop
    hand       \* the child whose status wait4 returned, not yet routed

moving == <<free, waitq, exec, child, how, left, pipe, captured, fds, kept, feeding, reading,
            cgroup, slot, grace, outcome, sigchld, reaping, hand>>
vars == <<moving, need, late>>
reaperVars == <<sigchld, reaping, hand>>
outputVars == <<left, pipe, captured>>
taskVars == <<feeding, reading>>
fdVars == <<fds, kept, taskVars>>

StdinEnds == {"in_r", "in_w"}
StdoutEnds == {"out_r", "out_w"}
Ends == StdinEnds \cup StdoutEnds

Holding == {"admitted", "pipe_in", "pipe_out", "sealed", "confined", "forked", "registered",
            "supervise", "drain"}

TypeOK ==
    /\ need \in [Execs -> Nat] /\ late \subseteq Execs
    /\ free \in 0 .. Total
    /\ waitq \in Seq(Execs)
    /\ exec \in [Execs -> {"idle", "queued", "done"} \cup Holding]
    /\ child \in [Execs -> {"none", "alive", "zombie", "reaped"}]
    /\ how \in [Execs -> {"none", "exit", "kill"}]
    /\ left \in [Execs -> Nat] /\ pipe \in [Execs -> 0 .. PipeCap]
    /\ captured \in [Execs -> 0 .. MaxOut]
    /\ fds \in [Execs -> SUBSET Ends]
    /\ kept \in [Execs -> SUBSET (Execs \X Ends)]
    /\ feeding \subseteq Execs /\ reading \subseteq Execs
    /\ cgroup \in [Execs -> {"none", "present", "offloaded", "removed"}]
    /\ slot \in [Execs -> {"unregistered", "empty", "exit", "kill"}]
    /\ grace \in [Execs -> BOOLEAN]
    /\ outcome \in [Execs -> {"none", "exit", "kill", "synthesised", "output_limit",
                              "error", "cancelled"}]
    /\ sigchld \in BOOLEAN /\ reaping \in BOOLEAN
    /\ hand \in Execs \cup {Nobody}

Init ==
    /\ \E s \in Settings : need = s.need /\ late = s.late
    /\ free = Total /\ waitq = <<>>
    /\ exec = [e \in Execs |-> "idle"]
    /\ child = [e \in Execs |-> "none"] /\ how = [e \in Execs |-> "none"]
    /\ left = Volume /\ pipe = [e \in Execs |-> 0] /\ captured = [e \in Execs |-> 0]
    /\ fds = [e \in Execs |-> {}] /\ kept = [e \in Execs |-> {}]
    /\ feeding = {} /\ reading = {}
    /\ cgroup = [e \in Execs |-> "none"]
    /\ slot = [e \in Execs |-> "unregistered"]
    /\ grace = [e \in Execs |-> FALSE]
    /\ outcome = [e \in Execs |-> "none"]
    /\ sigchld = FALSE /\ reaping = FALSE /\ hand = Nobody

\* Mutant: not clamped to the budget.
UnitsForUnclamped(e) == IF need[e] = 0 THEN 1 ELSE need[e]

\* units_for(): at least one unit, clamped to the whole budget.
UnitsFor(e) == LET units == IF need[e] = 0 THEN 1 ELSE need[e]
               IN  IF units > Total THEN Total ELSE units

Goto(e, pc) == exec' = [exec EXCEPT ![e] = pc]

\* SIGKILL to the cgroup, the process group and the child.
Kill(e) ==
    IF child[e] = "alive"
    THEN /\ child' = [child EXCEPT ![e] = "zombie"]
         /\ how' = [how EXCEPT ![e] = "kill"]
         /\ sigchld' = TRUE
    ELSE UNCHANGED <<child, how, sigchld>>

\* Mutant: the units asked for are released, not those acquired.
ReturnRequested(e, out) ==
    /\ Goto(e, "done")
    /\ outcome' = [outcome EXCEPT ![e] = out]
    /\ free' = free + UnitsForUnclamped(e)

\* execute() returns: its locals are dropped in reverse order, the permit last.
Return(e, out) ==
    /\ Goto(e, "done")
    /\ outcome' = [outcome EXCEPT ![e] = out]
    /\ free' = free + UnitsFor(e)

(***************************************************************************)
(* execute().                                                              *)
(***************************************************************************)
\* budget().acquire_many_owned(units): the semaphore's queue is FIFO.
Acquire(e) ==
    /\ exec[e] = "idle"
    /\ Goto(e, "queued")
    /\ waitq' = Append(waitq, e)
    /\ UNCHANGED <<free, child, how, outputVars, fdVars, cgroup, slot, grace, outcome, reaperVars>>

Admit(e) ==
    /\ waitq # <<>> /\ Head(waitq) = e
    /\ free >= UnitsFor(e)
    /\ free' = free - UnitsFor(e)
    /\ waitq' = Tail(waitq)
    /\ Goto(e, "admitted")
    /\ UNCHANGED <<child, how, outputVars, fdVars, cgroup, slot, grace, outcome, reaperVars>>

\* ChildProcessPipes::new: a pair of ends is made and then sealed with FD_CLOEXEC,
\* which are separate calls.  (stderr goes the way of stdout.)
PipeIn(e) ==
    /\ exec[e] = "admitted"
    /\ Goto(e, "pipe_in")
    /\ fds' = [fds EXCEPT ![e] = @ \cup StdinEnds]
    /\ UNCHANGED <<free, waitq, child, how, outputVars, kept, taskVars, cgroup, slot, grace,
                   outcome, reaperVars>>

\* stdin is sealed, stdout made.
PipeOut(e) ==
    /\ exec[e] = "pipe_in"
    /\ Goto(e, "pipe_out")
    /\ fds' = [fds EXCEPT ![e] = @ \cup StdoutEnds]
    /\ UNCHANGED <<free, waitq, child, how, outputVars, kept, taskVars, cgroup, slot, grace,
                   outcome, reaperVars>>

Seal(e) ==
    /\ exec[e] = "pipe_out"
    /\ Goto(e, "sealed")
    /\ UNCHANGED <<free, waitq, child, how, outputVars, fdVars, cgroup, slot, grace, outcome,
                   reaperVars>>

\* pipe() or fcntl() fails; the descriptors made so far are plain integers, not closed.
PipesFail(e) ==
    /\ exec[e] \in {"admitted", "pipe_in", "pipe_out"}
    /\ Return(e, "error")
    /\ UNCHANGED <<waitq, child, how, outputVars, fdVars, cgroup, slot, grace, reaperVars>>

\* CgroupManager::new; fail-closed (a half-made cgroup is removed by its Drop).
Confine(e) ==
    /\ exec[e] = "sealed"
    /\ Goto(e, "confined")
    /\ cgroup' = [cgroup EXCEPT ![e] = "present"]
    /\ UNCHANGED <<free, waitq, child, how, outputVars, fdVars, slot, grace, outcome, reaperVars>>

ConfineFails(e) ==
    /\ exec[e] = "sealed"
    /\ Return(e, "error")
    /\ UNCHANGED <<waitq, child, how, outputVars, fdVars, cgroup, slot, grace, reaperVars>>

\* fork copies every descriptor; execve closes the sealed ones.
Fork(e) ==
    /\ exec[e] = "confined"
    /\ Goto(e, "forked")
    /\ child' = [child EXCEPT ![e] = "alive"]
    /\ kept' = [kept EXCEPT ![e] = {fd \in Execs \X Ends :
                     \/ exec[fd[1]] = "pipe_in" /\ fd[2] \in StdinEnds
                     \/ exec[fd[1]] = "pipe_out" /\ fd[2] \in StdoutEnds}]
    /\ UNCHANGED <<free, waitq, how, outputVars, fds, taskVars, cgroup, slot, grace, outcome,
                   reaperVars>>

\* fork still fails after ten EAGAIN retries.
ForkFails(e) ==
    /\ exec[e] = "confined"
    /\ Return(e, "error")
    /\ cgroup' = [cgroup EXCEPT ![e] = "removed"]
    /\ UNCHANGED <<waitq, child, how, outputVars, fdVars, slot, grace, reaperVars>>

\* Mutant: the parent keeps the child's ends open.
RegisterOnly(e) ==
    /\ exec[e] = "forked"
    /\ Goto(e, "registered")
    /\ slot' = [slot EXCEPT ![e] = "empty"]
    /\ UNCHANGED <<free, waitq, child, how, outputVars, fdVars, cgroup, grace, outcome, reaperVars>>

\* reaper::register_child(pid), close_parent_ends().
Register(e) ==
    /\ exec[e] = "forked"
    /\ Goto(e, "registered")
    /\ slot' = [slot EXCEPT ![e] = "empty"]
    /\ fds' = [fds EXCEPT ![e] = @ \ {"in_r", "out_w"}]
    /\ UNCHANGED <<free, waitq, child, how, outputVars, kept, taskVars, cgroup, grace, outcome,
                   reaperVars>>

\* attach_proc, of a child that was not yet waited for (otherwise ESRCH); the supervisor
\* and the blocking stdin task are started.
Attach(e) ==
    /\ exec[e] = "registered" /\ child[e] # "reaped"
    /\ Goto(e, "supervise")
    /\ feeding' = feeding \cup {e}
    /\ UNCHANGED <<free, waitq, child, how, outputVars, fds, kept, reading, cgroup, slot, grace,
                   outcome, reaperVars>>

\* Mutant: the error path forgets to kill the child.
AttachFailsUnkilled(e) ==
    /\ exec[e] = "registered"
    /\ Return(e, "error")
    /\ cgroup' = [cgroup EXCEPT ![e] = "removed"]
    /\ slot' = [slot EXCEPT ![e] = "unregistered"]
    /\ UNCHANGED <<waitq, child, how, outputVars, fdVars, grace, reaperVars>>

\* attach_proc fails: kill the child, leave it to the reaper, drop everything.
AttachFails(e) ==
    /\ exec[e] = "registered"
    /\ Kill(e)
    /\ Return(e, "error")
    /\ cgroup' = [cgroup EXCEPT ![e] = "removed"]
    /\ slot' = [slot EXCEPT ![e] = "unregistered"]
    /\ UNCHANGED <<waitq, outputVars, fdVars, grace, reaping, hand>>

(***************************************************************************)
(* supervise(): poll the slot, enforce the wall deadline.                  *)
(***************************************************************************)
\* The supervisor's result is built, its handle dropped, the cgroup handed to a
\* blocking task.
Supervised(e, out) ==
    /\ Goto(e, "drain")
    /\ outcome' = [outcome EXCEPT ![e] = out]
    /\ slot' = [slot EXCEPT ![e] = "unregistered"]
    /\ cgroup' = [cgroup EXCEPT ![e] = "offloaded"]

\* try_take() finds the exit; on a natural exit stragglers are killed.
TakeExit(e) ==
    /\ exec[e] = "supervise" /\ slot[e] \in {"exit", "kill"}
    /\ Supervised(e, slot[e])
    /\ UNCHANGED <<free, waitq, child, how, outputVars, fdVars, grace, reaperVars>>

\* Mutant: at the deadline a killed status is assumed instead of awaited.
DeadlineAssumesKill(e) ==
    /\ exec[e] = "supervise" /\ slot[e] = "empty" /\ ~grace[e]
    /\ Kill(e)
    /\ Supervised(e, "kill")
    /\ UNCHANGED <<free, waitq, outputVars, fdVars, grace, reaping, hand>>

Deadline(e) ==
    /\ exec[e] = "supervise" /\ slot[e] = "empty" /\ ~grace[e]
    /\ Kill(e)
    /\ grace' = [grace EXCEPT ![e] = TRUE]
    /\ UNCHANGED <<free, waitq, exec, outputVars, fdVars, cgroup, slot, outcome, reaping, hand>>

\* The grace second ends with no status: one that never comes, or, of a late
\* execution, one that is still on its way.
GraceEnds(e) ==
    /\ exec[e] = "supervise" /\ slot[e] = "empty" /\ grace[e]
    /\ e \in late \/ (child[e] = "reaped" /\ hand # e)
    /\ Supervised(e, "synthesised")
    /\ UNCHANGED <<free, waitq, child, how, outputVars, fdVars, grace, reaperVars>>

(***************************************************************************)
(* The pipes' blocking tasks.                                              *)
(***************************************************************************)
\* Some living process other than this one holds the end.
HeldOutside(e, end) == \/ child[e] = "alive"
                       \/ \E f \in Execs : child[f] = "alive" /\ <<e, end>> \in kept[f]

HasEof(e) == "out_w" \notin fds[e] /\ ~HeldOutside(e, "out_w")

\* Mutant: the write end is left to nobody.
StdinDoneUnclosed(e) ==
    /\ e \in feeding
    /\ feeding' = feeding \ {e}
    /\ UNCHANGED <<free, waitq, exec, child, how, outputVars, fds, kept, reading, cgroup, slot,
                   grace, outcome, reaperVars>>

\* All is written, or write() failed because no reader is left.
StdinDone(e) ==
    /\ e \in feeding
    /\ feeding' = feeding \ {e}
    /\ fds' = [fds EXCEPT ![e] = @ \ {"in_w"}]
    /\ UNCHANGED <<free, waitq, exec, child, how, outputVars, kept, reading, cgroup, slot, grace,
                   outcome, reaperVars>>

\* The read futures are polled only now: they read to the end of the file, or past
\* the limit, and close the pipe.
Drain(e) ==
    /\ exec[e] = "drain"
    /\ HasEof(e) \/ pipe[e] > MaxOut
    /\ captured' = [captured EXCEPT ![e] = IF pipe[e] > MaxOut THEN MaxOut ELSE pipe[e]]
    /\ Return(e, IF captured'[e] >= MaxOut THEN "output_limit" ELSE outcome[e])
    /\ pipe' = [pipe EXCEPT ![e] = 0]
    /\ fds' = [fds EXCEPT ![e] = @ \ {"out_r"}]
    /\ UNCHANGED <<waitq, child, how, left, kept, taskVars, cgroup, slot, grace, reaperVars>>

\* No end of file within drain_timeout, or the read task of a late execution was
\* starved: what it reads stays in the task, the result has no output.
DrainTimesOut(e) ==
    /\ exec[e] = "drain"
    /\ e \in late \/ (~HasEof(e) /\ pipe[e] <= MaxOut)
    /\ Return(e, outcome[e])
    /\ pipe' = [pipe EXCEPT ![e] = 0]
    /\ reading' = reading \cup {e}
    /\ UNCHANGED <<waitq, child, how, left, captured, fds, kept, feeding, cgroup, slot, grace,
                   reaperVars>>

\* A read task nobody waits for comes to its end.
ReadEnds(e) ==
    /\ e \in reading /\ HasEof(e)
    /\ reading' = reading \ {e}
    /\ fds' = [fds EXCEPT ![e] = @ \ {"out_r"}]
    /\ UNCHANGED <<free, waitq, exec, child, how, outputVars, kept, feeding, cgroup, slot, grace,
                   outcome, reaperVars>>

\* The blocking task drops the CgroupManager: kill_all, then rmdir.
Teardown(e) ==
    /\ cgroup[e] = "offloaded"
    /\ Kill(e)
    /\ cgroup' = [cgroup EXCEPT ![e] = "removed"]
    /\ UNCHANGED <<free, waitq, exec, outputVars, fdVars, slot, grace, outcome, reaping, hand>>

\* The future is dropped at an await (a failed sibling test, a lost client):
\* dropping the supervisor unregisters the child and cleans the cgroup in place; the
\* pipes' ends are closed by their tasks alone, and a read task may not have begun.
Cancel(e) ==
    /\ exec[e] \in {"queued", "sealed", "confined", "supervise", "drain"}
    /\ Goto(e, "done")
    /\ outcome' = [outcome EXCEPT ![e] = "cancelled"]
    /\ IF exec[e] = "queued"
       THEN /\ UNCHANGED free
            /\ \E i \in 1 .. Len(waitq) :
                   /\ waitq[i] = e
                   /\ waitq' = SubSeq(waitq, 1, i - 1) \o SubSeq(waitq, i + 1, Len(waitq))
       ELSE free' = free + UnitsFor(e) /\ UNCHANGED waitq
    /\ IF exec[e] \in {"confined", "supervise"}
       THEN /\ Kill(e)
            /\ cgroup' = [cgroup EXCEPT ![e] = "removed"]
            /\ slot' = [slot EXCEPT ![e] = "unregistered"]
       ELSE UNCHANGED <<child, how, sigchld, cgroup, slot>>
    /\ \/ UNCHANGED reading
       \/ exec[e] = "drain" /\ reading' = reading \cup {e}
    /\ UNCHANGED <<outputVars, fds, kept, feeding, grace, reaping, hand>>

(***************************************************************************)
(* The child and the reaper.                                               *)
(***************************************************************************)
\* write() blocks while the pipe is full.
ChildWrites(e) ==
    /\ child[e] = "alive" /\ left[e] > 0 /\ pipe[e] < PipeCap
    /\ left' = [left EXCEPT ![e] = @ - 1]
    /\ pipe' = [pipe EXCEPT ![e] = @ + 1]
    /\ UNCHANGED <<free, waitq, exec, child, how, captured, fdVars, cgroup, slot, grace, outcome, reaperVars>>

ChildExits(e) ==
    /\ child[e] = "alive" /\ left[e] = 0
    /\ child' = [child EXCEPT ![e] = "zombie"]
    /\ how' = [how EXCEPT ![e] = "exit"]
    /\ sigchld' = TRUE
    /\ UNCHANGED <<free, waitq, exec, outputVars, fdVars, cgroup, slot, grace, outcome, reaping, hand>>

\* sigchld.recv(): several signals may have become one.
ReaperWakes ==
    /\ sigchld /\ ~reaping
    /\ sigchld' = FALSE /\ reaping' = TRUE
    /\ UNCHANGED <<free, waitq, exec, child, how, outputVars, fdVars, cgroup, slot, grace, outcome, hand>>

\* wait4(-1, WNOHANG) returns some terminated child, or none: the loop ends.
Wait4(e) ==
    /\ reaping /\ hand = Nobody /\ child[e] = "zombie"
    /\ child' = [child EXCEPT ![e] = "reaped"]
    /\ hand' = e
    /\ UNCHANGED <<free, waitq, exec, how, outputVars, fdVars, cgroup, slot, grace, outcome,
                   sigchld, reaping>>

\* Mutant: one wait4 per SIGCHLD.
ReaperSleepsEarly ==
    /\ reaping /\ hand = Nobody
    /\ reaping' = FALSE
    /\ UNCHANGED <<free, waitq, exec, child, how, outputVars, fdVars, cgroup, slot, grace, outcome,
                   sigchld, hand>>

ReaperSleeps ==
    /\ reaping /\ hand = Nobody /\ \A e \in Execs : child[e] # "zombie"
    /\ reaping' = FALSE
    /\ UNCHANGED <<free, waitq, exec, child, how, outputVars, fdVars, cgroup, slot, grace, outcome,
                   sigchld, hand>>

\* Stash the status for a registered child; discard that of any other.
Route(e) ==
    /\ hand = e
    /\ hand' = Nobody
    /\ slot' = IF slot[e] = "unregistered" THEN slot ELSE [slot EXCEPT ![e] = how[e]]
    /\ UNCHANGED <<free, waitq, exec, child, how, outputVars, fdVars, cgroup, grace, outcome,
                   sigchld, reaping>>

Setup(e) == \/ Admit(e) \/ PipeIn(e) \/ PipeOut(e) \/ Seal(e) \/ PipesFail(e)
            \/ Confine(e) \/ ConfineFails(e) \/ Fork(e) \/ ForkFails(e)
            \/ Register(e) \/ Attach(e) \/ AttachFails(e)
Supervise(e) == TakeExit(e) \/ Deadline(e) \/ GraceEnds(e) \/ Drain(e) \/ DrainTimesOut(e)
Reaper == ReaperWakes \/ ReaperSleeps \/ \E e \in Execs : Wait4(e) \/ Route(e)

Step ==
    \/ \E e \in Execs : \/ Acquire(e) \/ Setup(e) \/ Supervise(e) \/ Teardown(e) \/ Cancel(e)
                        \/ StdinDone(e) \/ ReadEnds(e) \/ ChildWrites(e) \/ ChildExits(e)
    \/ Reaper

Next == Step /\ UNCHANGED <<need, late>>

Spec == Init /\ [][Next]_vars

\* Tasks of the runtime are scheduled, time passes (the deadline is part of
\* Supervise).  The child itself may do nothing for ever, and the stdin task need
\* not end while somebody can still read.
FairSpec == /\ Spec
            /\ \A e \in Execs : /\ WF_moving(Setup(e))
                                /\ WF_moving(Supervise(e))
                                /\ WF_moving(Teardown(e))
                                /\ WF_moving(ReadEnds(e))
                                /\ WF_moving(~HeldOutside(e, "in_r") /\ StdinDone(e))
            /\ WF_moving(Reaper)

(***************************************************************************)
(* Properties.                                                             *)
(***************************************************************************)

\* The admission units that the executions in S stand for, one by one.
Units(S) == UNION {{e} \X (1 .. UnitsFor(e)) : e \in S}

\* The admission budget bounds what runs: the units of all living children never
\* exceed the budget, on no path (failed attach, cancelled future) is a permit
\* returned while its child lives, and a job larger than the budget still counts.
AliveWithinBudget ==
    /\ Cardinality(Units({e \in Execs : child[e] = "alive"})) <= Total
    /\ free + Cardinality(Units({e \in Execs : exec[e] \in Holding})) = Total

\* reaper.rs 13: with a single wait4 caller nobody steals an exit status.  The status
\* that reaches the result is the child's own, also when the deadline fires while an
\* exit is on its way, and the supervisor never has to make one up: a child that ends
\* before it is registered, whose status is discarded, cannot be attached and is
\* reported as an error.  (The grace second of a late one may end too soon.)
StatusIsTheChilds ==
    \A e \in Execs : /\ outcome[e] \in {"exit", "kill"} => outcome[e] = how[e]
                     /\ outcome[e] = "synthesised" => e \in late

\* A program that ends by itself is judged on all it wrote: the parent closes its
\* write ends, so the drain sees the end of the file and never times out.  (Unless
\* another child was forked between pipe() and FD_CLOEXEC and keeps a write end, or
\* the read task is starved past the timeout.)
OutputIsWhole ==
    \A e \in Execs :
        (/\ e \notin late
         /\ exec[e] = "done" /\ outcome[e] = "exit"
         /\ \A f \in Execs : <<e, "out_w">> \notin kept[f]) => captured[e] = Volume[e]

\* No descriptor is lost on a completed execution, whoever else inherited its pipes:
\* both blocking tasks end and close theirs.  (Failed and cancelled ones lose some.)
DescriptorsReturned ==
    \A e \in Execs :
        (exec[e] = "done" /\ outcome[e] \notin {"error", "cancelled"}) ~> fds[e] = {}

\* No zombie stays: SIGCHLDs may coalesce and executions may be cancelled, yet
\* every dead child is waited for.
ZombiesAreReaped == \A e \in Execs : child[e] = "zombie" ~> child[e] = "reaped"

\* Everyone who asks for admission is admitted and answered, also behind a job
\* larger than the whole budget and with a child that never exits.
ExecutionEnds == \A e \in Execs : exec[e] = "queued" ~> exec[e] = "done"

\* mod.rs 286, test_output_limit: a program that writes more than max_output (here:
\* that has filled its pipe and is writing still) is reported as over the output
\* limit or as a runtime error, not as killed at the deadline.
TooMuchOutputIsSaid ==
    \A e \in Execs :
        (exec[e] = "done" /\ Volume[e] > MaxOut /\ Volume[e] - left[e] >= PipeCap) =>
            outcome[e] # "kill"
=============================================================================
