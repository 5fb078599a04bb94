# A TLA+ verification project for Akiro

Akiro is a distributed code judge.  Gateways accept submissions over HTTP and
WebSocket, queue them in a Redis stream, and wait for the result; worker nodes
read the stream through a consumer group, run each submission in a sandbox, and
publish the verdict.  The modules in this directory model the parts of that
system whose correctness depends on the order of steps of several actors, on
failures, and on arithmetic at limits.  Everything is translated from the Rust
code under `src/src`; `PROJECT.json` maps each definition to its lines.

## 1. Inventory

| Part | State it keeps | Operations | What is hard about it |
|---|---|---|---|
| Gateway enqueue (`api/result_bus.rs`, `api/handlers.rs`) | `judge:results:*`, `judge:pending:*`, the stream | `enqueue`, rollback, local fallback, `submit_async` | three commands in two round trips, duplicates, lost replies, cancelled handlers |
| Redis consumer (`queue/redis.rs`) | consumer group, PEL, in-flight permits | start-up, XREADGROUP loop, `spawn_process`, `publish_result`, `run_reclaim`, `ack_existing` | crashes and broken pipes between commands, re-delivery, sweeps racing tasks |
| Result bus (`api/result_bus.rs`, `api/websocket.rs`) | waiter registry, broadcast channels, pub/sub connection | `register`, `wait_for`, listener, guard drop, `get_result` | lost wake-ups, drop order, lookup in two round trips |
| Worker pool (`orchestrator/pool.rs`) | channel, `queued_jobs`, `busy_workers` | `submit`, `run_workers` | check-then-act, counters on several threads, no workers at all |
| Execution pipeline (`orchestrator/pipeline.rs`, `job.rs`) | `JobResult`, progress events | `validate`, `execute`, `run_tests` | completion in any order, short circuit, early returns |
| Sandbox (`sandbox/mod.rs`, `supervisor.rs`, `cgroups.rs`) | child, cgroup, pipes, permit | `Sandbox::execute`, `supervise`, `build_result` | fork/register race, deadline against exit, offloaded teardown, cancellation |
| Reaper (`sandbox/reaper.rs`, `main.rs`) | pid registry, slots | `register_child`, `reap_all` | coalesced SIGCHLD, routing |
| Admission (`sandbox/admission.rs`) | memory semaphore | `units_for`, acquire, release | oversized jobs, permits on every exit path |
| Child set-up (`sandbox/child.rs`, `fs.rs`, `seccomp.rs`) | namespaces, mounts, filter | `setup_child_process` | order of privileged steps |
| Process (`main.rs`, `api/mod.rs`) | run mode, secret, HTTP server, heartbeat key | start-up, authentication, SIGTERM | callers of two kinds on one pool, permits, a heartbeat behind a wait, three ways to end |
| Statistics (`handlers.rs`, `metrics.rs`) | counters | `health`, `metrics` | none: reads and additions |
| Language runners (`languages/*`) | none | command lines | none |

How they interact: a handler calls `enqueue`, then `wait_for`; a worker's read
loop and its sweep both call `spawn_process`, which submits to the pool, whose
workers run the pipeline, which calls `Sandbox::execute` once for the compiler
and once per test; the reaper delivers exit statuses to the supervisors; the
publish pipe stores the result, clears the marker, acknowledges and rings.

`PROJECT.json` lists the hazards at their lines, each with the properties that
would catch it going wrong, or a note why there is none yet.

## 2. Modules

Each module has an `MC` companion with its instances, and each run one `.cfg`.
Definitions whose comment begins with "Mutant:" are wrong variants of the
operator that follows.  No behaviour uses them; each is a plausible bug that one
of the properties detects when it takes the operator's place.

### ClusterQueue (gateways, Redis, worker nodes)

One step per Redis command.  `redis::pipe()` is not a transaction, so the
commands of one pipe are separate steps and a connection may drop after each.

* Redis: `stream` and `floor` (what MAXLEN trimmed), `group` (last delivered id,
  -1 without a group), `pel`, `idle` (entries whose idle time passed
  `min_idle_ms`), `results`, `pending`.  A result is named by the submission
  whose run produced it, which is what lets `NeverStale` tell results of one
  `job_id` apart.  `nth` counts deliveries and only serves to tell copies apart.
* Gateways: `sub` is the point each handler has reached, `got` its answer.
  `EnqueueDel`, `EnqueueClaim`, `EnqueueAdd`, `EnqueueClaimFails`,
  `EnqueueAddFails`, `EnqueueRollback` are `enqueue`; `SubmitLocal`, `WaitGet`,
  `WaitTimeout`, `AsyncReply` the handlers after it.
* Nodes: `inbox` (the batch the read loop holds), `tasks` (spawned jobs, each
  with a permit), `recl` (the sweep).  `Publish*` is `publish_result` command by
  command, `Sweep*` and `Ack*` the reclaim loop, `PublishDrop` and `AckDrop` the
  retry wrapper.

Faults are `drop` (a connection fails; the command in flight may or may not have
run), `crash` (a node dies), `slow` (a job in progress outlives `min_idle_ms`),
`expire` (a TTL ends), `cancel` (a handler's future is dropped), `wipe` (Redis
restarts without its data).  A configuration chooses kinds (`Faults`) and a
number (`MaxFaults`); `struck` remembers which kinds did strike, and a property
that holds only in the absence of one of them says so in its premise.

`whole` is chosen at the start and never changes.  When it is true, Redis
executes every pipe that arrives in one read back to back (`PipesRunWhole`), as
it usually does; when it is false, other clients' commands come in between, as
nothing forbids.

### ResultBus (waiters, listener, lookups)

The registry maps a job to a broadcast channel; channels are numbered, so that a
waiter left on an old channel is visible.  The listener clones the channel under
the lock (`ListenerRoute`) and sends later (`ListenerSend`).  `wait_for` is
`Register`, `WaitGet`, `WakeByBell` or `WakeByPoll`, `Deadline`.  Its two locals
are dropped in reverse order of declaration, guard first (`DropGuard`), receiver
second (`DropReceiver`).  A lookup is two round trips (`LookGet`, `LookExists`).

Several posts may carry one job id.  `EnqueueDel`, `EnqueueClaim` and `EnqueueAdd` are
what `enqueue` does to the keys the waiters read: it deletes the stored result before
it knows whether the post is a duplicate, so `result` comes and goes under the waiters
of the id.  `pub` follows the job of each post that was added through the worker's
publish pipe, and `Expire` ends the TTL of either key.

### JobService (what a client is promised)

The abstract specification of a submission: it asks, is queued or attached to a
run in flight, and is answered at most once, with the verdict of a queued
submission of its own `job_id` that was reported after it asked.  A gateway runs a
job itself only where queueing failed.  `ClusterQueue!ImplementsJobService` is the
refinement: `phase` is `sub` seen from outside, `queued` the submissions in the
stream, `offers` the stored result as far as the submission may read it, `answer`
is `got`.  Every step of the cluster (retries, sweeps, re-runs, expiry, crashes) has
to be a step of `JobService` or a stutter; it needs none of the premises of the
finer properties.

### WorkerPool

Every atomic access and every channel operation is a step, so check, count and
send of one caller interleave with those of the others.  `FetchSub` wraps at
zero.  `crew` is the set of workers the node is configured with, one of `Crews`,
fixed at the start.  It may be empty (a control-plane-only node): then
`run_workers` returns and drops the receiver under the callers' feet
(`DropReceiver`).

### Node (one process)

`Node` EXTENDS `WorkerPool` and adds who calls it.  `cfg` is the run mode, the
secret, whether authentication is required, whether akiro is the first process of its
container, and the jobs the stream will bring.  `Start` is `main` up to the chosen run
function, with a port that may not be free; `Connect` is the consumer's wait for Redis,
which ends the process when it gives up; `NormalizeSecret`, `Authorized` and
`OpenRequest` are the gateway's door; `SubmitStep`, `HangUp`, `WorkStep` and
`NoWorkers` are the steps of `WorkerPool` together with what the caller makes of
the answer (`Returned`: a handler answers, a task of the consumer goes on to
publish what was judged or a RuntimeError it made up).  A job sent over
the execute WebSocket is a request too: when its client is lost it runs on, which is
`HangUp`.  `Beat`, `Read`, `Dispatch`
are the read loop, `Reclaim` and `Rerun` the sweep, both behind the permits of one
semaphore; `Publish` ends a task.  `Tick` is the clock of the heartbeat key, whose SET
may fail unnoticed (`turn`).  `Terminate`, `Drained` and `MainReturns` are SIGTERM in the three run modes.  Redis
itself, its faults and the other nodes are in `ClusterQueue`; here a published job
may come back, which is what re-delivery looks like to one node.

### Sandbox

`Sandbox::execute` from the semaphore to its return, the supervisor's loop, the
child (which may write, exit, or do nothing for ever), the pipes with their
capacity and their ends, the cgroup with its offloaded teardown, and the reaper.
A child may exit at any time after the fork, also before the parent has registered
it; one that was already waited for cannot be attached to its cgroup (`Attach`,
`AttachFails`).  `late`, chosen at the start, is the set of executions whose timeouts
may fire although what they wait for is on its way, as on an overcommitted host
(`sandbox/mod.rs` 171): of these the grace second of the supervisor (`GraceEnds`) and
the drain (`DrainTimesOut`) may end at any moment.  Of the others they end only when
the status, or the end of the file, never comes: the one takes a second and the other
five, the reaper and a scheduled read take microseconds.  The compiler and the tests
use the same code and are the same executions here.

`fds` are the ends this process has open, `kept` the ends of other executions'
pipes that a child keeps past its execve because it was forked between `pipe()` and
`FD_CLOEXEC` (`PipeIn`, `PipeOut`, `Seal`, `Fork`).  The stdin task (`feeding`) ends
when all is written or no reader is left; a read task sees the end of the file when
nobody holds a write end (`HasEof`).

### ChildSetup

The child between fork and execve, one step per system call that matters, and the
parent beside it.  The kernel may refuse any call, and refuses those the child has no
right to any more (`Permitted`: root, and the calls the filter blocks).  `refused` says
that the code met such a refusal and gave up, `ignored` collects the three it does not
look at: the detach of the old root (`fs.rs` 317), the read-only remount of `/` (320,
`sealed` when it was granted) and the unmount in the Drop (342).  A failed set-up unwinds through the Drop of `FsIsolation` (`DropUmount`,
`DropRemove`), which deletes a tree in which the host's workspace may be mounted.
`shared` is the propagation state of the container's `/`, which the code does not
want to depend on.  The parent attaches, kills at the deadline or on cancellation,
and removes the jail directory once supervision ended.

### Pipeline

One job.  What the kernel will report about the compiler and each test is chosen
in `Init`; the order in which tests complete is left open.  A report carries the
wait status, the OOM counter, peak memory, CPU and wall time, the number of
captured bytes and whether the trimmed output equals the expected one (also TRUE
when nothing is expected).  `BuildResult` is the supervisor's mapping, `Status`
adds the output limit, `VerdictOf` is the pipeline's mapping.  Time is in units
of 50 ms.  The compiler's own limits are not told apart from those of the tests.
`SortedRaw` is `sort_by_key` stated by rank (row k is the completed test with k-1
smaller ones), and the verdict is that of the first failing row.  `ReportsAssumption`
types the reports and keeps captured output below the cap: the pipes are read after
the child is dead and hold 64 KiB, and every runner allows 10 MiB.

## 3. Runs

Passing runs (distinct states in brackets):

| Run | Instance | Shows |
|---|---|---|
| `cluster_delivery` (1.7 M) | 2 jobs, 2 nodes, 2 faults of drop/crash/slow, 2 attempts, 1 permit | `AckedWasReported`, `WaitingIsPending`, `ExclusiveDelivery`, types |
| `cluster_resubmit` (760 k) | 3 submissions of one id, 2 nodes, MAXLEN 1, no group at first, pipes whole or not, 1 fault of cancel/expire | `OneRunPerJob`, `DuplicateIsServed`, `NeverStale`, `ImplementsJobService` |
| `cluster_recovery` (110 k) | 2 jobs, one garbled, 2 nodes, 1 fault of drop/crash/slow/wipe, 1 attempt | `QueuedIsReported`, `PelDrains` |
| `node` (233 k) | 3 stream jobs for 2 permits, 1 local request, no workers or 2, every run mode, a worker that is process 1 and one that is not, secrets unset, blank and set | exact counters and envelopes, `LockedIsLocked`, `RefusedOnlyByLocals`, `JobIsSettled`, `LapsesOnlySaturated`, `TermStops` |
| `bus` (1.04 M) | a post and the result WebSocket (lookup, then wait) of a job id that an asynchronous post carries as well, 2 faults of listener/get/publish/cancel/expire | `WaiterIsRouted`, `NoLostWakeup`, `BellMeansResult`, `NotFoundIsFinished`, `PollDelivers` |
| `sandbox` (309 k) | 2 executions: one of size zero beside one that blocks on its pipe and fits the budget, or is larger than it; the first one late in the second instance | budget, the child's own status, `OutputIsWhole`, `DescriptorsReturned`, `ExecutionEnds`, `ZombiesAreReaped` |
| `child_setup` (1.3 k) | both profiles, any call refused, killed anywhere, shared root or not | `RunsConfined`, `FailsOnlyIfRefused`, `HostUntouched`, `JailIsRemoved` |
| `pipeline` (88 k) | 1 test with every report around every limit; 0, 2, 3 or 4 tests (limit 3), 2 at a time, with 4 kinds of report | `AcceptedIffAllClean`, `RowsExplainVerdict`, `ReportsAgree` |

Why these bounds are enough to be interesting: two nodes and two faults reach a
crash in the middle of a publish pipe followed by a broken re-ack; one permit,
shared by the read loop and the sweep, makes either wait with a message in hand;
`ClaimCount` 1 makes the sweep use
its cursor; a second post of the id in `bus` deletes the result at every point of the
first one's wait; a budget of two units meets jobs of zero and five units, and two jobs
that fit in it side by side, so that one is forked while the other makes its pipes;
three tests two at a time make a later test finish first and one start late.  In
`node` the permits equal the queue limit, so that one task too many, or one local
client, is enough to saturate the pool, and a TTL of two ticks lapses while the
read loop waits for a permit and not in between two turns.  All counters are finite
because faults are bounded, every submission adds at most one message, and a call's
slot is used again only when its envelope is gone.

`CHECK_DEADLOCK FALSE` is used where the modelled work is finite (every
submission answered, every job judged, the process ended).

Runs that find a documented statement violated:

| Run | Statement | What happens |
|---|---|---|
| `dup_loses_result` | a duplicate waits for the run in flight | a worker died between SET and DEL of the marker; the duplicate's own DEL removes the result, the sweep's re-ack the marker |
| `registry_leak` | the map never leaks entries | the guard is dropped before its receiver |
| `output_limit_is_tle` | too much output is reported as such (`security_regression.sh` 121 also accepts TLE) | the pipes are read only after the child is dead |
| `accepted_over_time` | Accepted means within the time limit | RLIMIT_CPU is rounded up, the Ok branch does not look |

`DuplicateHasSource` is violated there.  `DuplicateIsServed` delimits what does hold:
with pipes that run whole and no fault but lost clients, a duplicate has a result to
read or a run to come (`RunToCome`), unless the marker it met stands for nothing
(`BareMarker`).  There the duplicate waits for its 504 although `handlers.rs` 247 says
it waits for the run in flight: the first client left between SET NX and XADD, or the
message was trimmed or skipped before anybody read it, or does not parse.  Nor does it
hold when other clients' commands come between those of a pipe: a second post whose
DEL runs after the worker's SET, and whose SET NX runs before the worker's DEL of the
marker, finds neither afterwards.

Behaviour that the models contain and the properties meet as a premise or an exception,
some of it against a comment in the code:

* The consumer group is created at `$`: a job queued before the first worker ever
  started is never delivered.  `cluster_recovery` starts with the group in place
  (`GroupReady`).
* A job that outlives `min_idle_ms` runs twice; its late copy may store its result
  under the key of a resubmission.  `ExclusiveDelivery` and `NeverStale` exclude
  `slow`.
* An XADD whose reply is lost leaves the job in the stream while the gateway also
  runs it locally (`EnqueueAddFails`).
* Callers that pass the saturation check together exceed `JUDGE_MAX_QUEUE`.
* A stream job that finds the pool saturated is published as RuntimeError although it
  never ran (`redis.rs` 270).  `RefusedOnlyByLocals` says when that may happen.
* `main.rs` 224-226 skips the consumer of a node without workers, which "would claim
  jobs it can't run"; `run_worker` does not (`Consuming`).  In mode worker with zero
  workers every job it claims is published as RuntimeError.
* A node that waits for a permit with a message in hand does not renew its heartbeat,
  so a saturated node drops out of `/health` after 20 s (`LapsesOnlySaturated`).
* The SET of a heartbeat may fail without the loop noticing; `LapsesOnlySaturated`
  excuses the turn in which that happened.
* In mode all with workers SIGTERM stops the HTTP server and nothing else: the consumer
  runs on until the process is killed.  A control-plane-only node ends at once, open
  requests included.  A worker installs no handler.  It would die of the signal, but
  the image runs akiro as process 1 (`entrypoint.sh` 141 execs it and `WORKER_NODES.md`
  17 starts the container without `--init`), for which the kernel ignores a signal
  without a handler: the `docker stop` that `HORIZONTAL_SCALING.md` 148 calls a clean
  removal waits for its grace period and ends in SIGKILL, in the middle of whatever
  jobs run.  `TermStops` names both nodes that outlive the signal (`pid1`).
* A second post of a job id deletes the stored result whether or not it is a duplicate
  (`result_bus.rs` 152).  It may do so between the bell and the waiter's GET, so the
  "guaranteed" of `redis.rs` 289 holds only for ids posted once (`BellMeansResult`); and
  before the two-second poll, so that with the bell down a waiter may miss a result
  that was there, which bounds `result_bus.rs` 9 (`PollDelivers`).  A result's TTL does
  the same.
* A lookup may answer 404 of a known job: when the job finishes between GET and EXISTS,
  when another post of the id has deleted the result and not yet claimed the marker, and
  when a key expired.  `NotFoundIsFinished` says that in none of the first two is a run of
  the id queued, running or unreported.  It excludes a pipe that is sent twice, whose
  second DEL may take the marker of a later post.
* A child that exits before `register_child` loses its status.  If it was waited for by
  then the attach fails and `execute` returns a CgroupError; the supervisor has to make up
  a status only when its grace second is too short (`late`).
* A child forked between `pipe()` and `FD_CLOEXEC` of another execution keeps that
  execution's ends for as long as it lives.  The comment at `sandbox/mod.rs` 168 ("EOF
  is guaranteed") does not hold then: the drain times out and the run is judged on an
  empty stdout; and a program that reads its stdin to the end sees none before its
  deadline.  `OutputIsWhole` excludes exactly the first case.
* Descriptors are plain integers.  The error paths before the two tasks start (pipe,
  cgroup, fork, attach) and a cancelled execution lose some for the life of the
  process; `DescriptorsReturned` is about the others.
* The permit of an execution returns before its offloaded cgroup teardown has run;
  `AliveWithinBudget` is about living children, not about cgroups.
* A read task that gets no time before the drain timeout loses a correct run its output,
  as `sandbox/mod.rs` 171 describes; `OutputIsWhole` excludes `late` executions.
* The results of detaching the old root and of remounting `/` read-only are not looked
  at (`PivotIntoNewRoot`), so "FAIL-CLOSED at every step" (`child.rs` 152) does not hold
  of `fs.rs` 317 and 320: with the first refused a program runs with the host's tree at
  `/.old_root`, with the second on a writable root.  `RunsConfined` says that these two
  are the only ways, each for its own loss.
* The Drop of a failed `FsIsolation` ignores the result of its unmount.  When set-up failed
  with the workspace mounted and that call is refused too, the recursive removal
  deletes the files of the submission on the host; `HostUntouched` says that it takes both
  refusals.
* A job that does not compile returns before `record_job` and is not counted;
  `ReportsAgree` is, of the telemetry, about judged jobs.

`SubmitLocal` has one end for the answers 503 (queue full), 500 and 200 of a job the gateway
runs itself: none of them touches Redis, and `Node` tells refused from judged calls.

## 4. Fairness

* `ClusterQueue!FairSpec`: handlers, the tasks of a running node, its read loop
  and its sweep keep running (they are tokio tasks with timers and no unbounded
  wait apart from the permit, which tasks return), a dead node is restarted
  (`--restart unless-stopped` in the deployment docs), and the idle clock of an
  orphan advances.  Nothing is assumed of faults, and `slow` is a fault.
* `Node!NodeFairSpec`: tasks that can move do (a call inside submit, a worker, the read
  loop between its waits, the HTTP server's end); strong fairness of `Dispatch` and of
  `Rerun`, because tokio's semaphore is FIFO and both the read loop and the sweep wait
  in it for the same permits.  Clients, the operator, the stream and the clock owe
  nothing.
* `ResultBus!PollSpec`: only the waiter's own read and its two-second timer.  The
  listener gets none, since the bell is best effort.
* `Sandbox!FairSpec`: the parent's tasks, the teardown, the reaper, a read task that
  has its end of file and a stdin task that has lost its readers.  The child gets
  none, hence the deadline has to end it; a stdin task whose data somebody may still
  read gets none either.

Apart from the two of `Node` all are weak fairness, on the variables that move (`moving` leaves out the choices
fixed at the start).

## 5. Proofs

`WorkerPoolProofs` proves, for any finite sets of callers and workers, any crew of them,
any queue limit and any counter width (assumption `PoolAssumption`):

* `PoolTypeCorrect`: `Spec => []TypeOK`.
* `PoolKeepsEnvelopes`: `Spec => []AwaitedHasEnvelope`.  Not inductive alone: a
  worker's reply needs to know that it holds an envelope at that point.  The
  inductive invariant `Envelope` adds `HoldsMatch`, which ties a worker's program
  counter to whether it holds one and keeps workers outside the crew at `recv` (so
  that nobody holds an envelope when the receiver of a worker-less node is dropped).
* `PoolCountersExact`: `Spec => []CountersExact` (queue and busy counter).  The
  inductive invariant `Accounting` is the conjunction with the types; each step
  moves a counter and the set it counts together, by lemmas on cardinalities of
  sets that gain or lose one member.  A worker's `Reply` uses `Envelope`.
* `PoolNeverUnderflows`: `Spec => []NoUnderflow`, a consequence: a finite set with
  a member has positive cardinality, and the counter equals it.

`NodeProofs` proves of the whole process, for any sets of stream jobs and requests, any
numbers of permits and workers, any set of configurations and any heartbeat TTL longer
than one turn of the read loop (`NodeAssumption`):

* `NodeImplementsPool`: `NodeSpec => Spec`.  The composition uses the pool only as
  `WorkerPool` allows, so the theorems above hold of it; `NodeCountersExact` says so
  of the two that `node` checks.
* `NodeTypeCorrect`: `NodeSpec => []NodeTypeOK`.
* `NodeStaysLocked`: `NodeSpec => []LockedIsLocked`.  Strengthened by `Locked`: a
  running judge that must be locked has a real secret, which is what `Start`
  establishes and `Authorized` relies on.
* `NodeStaysListed`: `NodeSpec => LapsesOnlySaturated`.  It needs `Consumer`, which
  bounds the tasks by the permits (`WithinPermits`) and knows that a call of the
  consumer belongs to a task (`TaskCalls`, without which an answer might give a job a
  permit it does not hold), and `Fresh`, by which a loop whose turn has just taken its
  heartbeat to Redis has a full TTL.
* `NodeRunsItsJobs`: `NodeSpec => RefusedOnlyByLocals`.  The argument is a count: what
  `queued_jobs` counts (`Accounting`) are different calls (`Envelope`), so it is at
  most the number of calls inside submit (`QueuedWithinCalls`, by two bijections);
  without local clients those are tasks, other than the one about to submit, hence
  fewer than the permits.  `Opened` excludes a refused send on a node with workers.

`ChildSetupProofs` proves of set-up, for any settings and any call refused or killed in
between: `SetupTypeCorrect`, `SetupFailsClosed` (`RunsConfined`), `SetupOrderIsSound`
(`FailsOnlyIfRefused`), `SetupLeavesHostAlone` (`HostUntouched`), `SetupRemovesJail`
(`JailIsRemoved`).  The inductive invariant `SetupInv` says at each program counter what
the calls behind it have achieved (`Progress`, `ShortPath`), that the filter and the uid
are given up only after the last call that needs them (`Rights`), why a set-up ended
(`Endings`), and that child and parent do not overlap (`Lifetimes`).  `HostUntouched` is
preserved because no mount precedes `private`, and the clean-up finds the jail unmounted,
out of its sight, or still mounted after a refusal that `ignored` records.

`ResultBusProofs` proves, for any jobs, posts, readers and faults: `BusTypeCorrect`,
`BusRoutesWaiters`, `BusLosesNoWakeup`, `BusBellMeansResult`, and the action properties
`BusNotFoundIsFinished` and `BusKeepsEveryEntry` (a registered channel is never removed or
replaced).  The invariant has a part for each: a receiver belongs to the registered
channel of its job, and different jobs have different channels, without which a bell
could go to another job's waiter; of an id posted once, a bell anywhere on its way comes
after its SET; of the posts of one id at most one holds the marker, and while it does the
marker is there; a sleeper next to a stored result has a bell coming.  The registry
leak of `registry_leak` is the other side of `BusRoutesWaiters`: the guard never sees the
last receiver gone (`GuardSeesItsReceiver`), so it never removes an entry.

`SandboxProofs` proves, for any executions, needs, budget, volumes and pipe size:
`SandboxTypeCorrect`, `SandboxStaysInBudget`, `SandboxReportsTheChild`,
`SandboxKeepsOutput`.  `SandboxInv` has `Queue` (the semaphore's queue holds waiting
executions, each once), `Budget` (free permits and held ones make up the total; held
permits are counted as the cardinality of a set of pairs, so that no sum has to be
proved by induction), `Stages` (where `execute` is and what its child, slot and cgroup
are, and that the deadline leaves nobody alive), `Status` (a wait status from child over
reaper to slot; of a supervised child it is never discarded), and `Output` (what is
left to write and what is in the pipe make up the volume, and this process holds no
write end once it supervises).

`ClusterQueueProofs` proves, for any submissions, nodes, payloads, stream bound, claim
count, permits, attempts and faults:

* `QueueTypeCorrect`, from `QueueInvariant`: `Spec => []QueueInv`.  The types already
  need most of it, since they bound the deliveries of a message by one more than the
  faults.  `Paid` shows that: a message is delivered once by the read and again only
  when it was orphaned or went idle, which cost a fault of its own.  `Added`, `Held` and
  `Shape` say which messages exist, who may hold them and where a sweep is in its list;
  `Rung`, that whoever rings has acknowledged.
* `QueueImplementsService`: `Spec => ImplementsJobService`, the refinement, without any
  premise: through crashes, drops, expiries and a wipe every step is one of `JobService`
  or a stutter.

`ClusterDeliveryProofs` builds on `QueueInv`:

* `QueueDeliversExclusively`: `ExclusiveDelivery`.  Inductive with the statement that an
  idle entry is an orphan (`Exclusive`), so that a claim never takes what someone holds.
* `QueueReportsBeforeAck` and `QueueKeepsMarker`: `AckedWasReported` and
  `WaitingIsPending`, from `Stored` (past its SET, or past the GET that found it, a result
  is there) and `Marked`.  Their premises are those under which the properties are true
  and the instance of `cluster_delivery` satisfies them: `OneIdEach` (each job_id is
  submitted once; a resubmission deletes the earlier result), `KeysKept` (no key expired
  and Redis was not wiped) and, for the first, `GroupReady` (the group is made at `$`
  and skips what was queued before).
* `QueueRunsOnce`: `OneRunPerJob`, for any number of submissions of one id.  `Orderly` says
  that without worse faults than a lost client a job stays with its task until it is
  reported; `OneOpen` that a message whose marker is not deleted yet is the only one of
  its job_id and the latest.
* `QueueServesDuplicates` and `QueueAnswersFresh`: `DuplicateIsServed` and `NeverStale`, under
  the premise those properties carry (`Undisturbed`).  `Served` and `Fresh` say that with
  whole pipes the result is stored when the marker goes, and that a submission is queued
  only when the earlier result is gone.  `Owned` says whose a marker is: of a submission
  about to add its message, of a client that left before it did, or of a message that is
  still to be read, held by a task short of its DEL, or missed.  So a duplicate with
  neither result nor run has met a bare marker.

`PipelineProofs` proves, for any number of tests, concurrency, limits and reports:
`PipelineTypeCorrect`, `PipelineAcceptsFairly`, `PipelineExplainsVerdict`,
`PipelineReportsAgree`.  The invariant `Judging` records what the loop has seen
(`Looked`: with `stop_on_first_fail` it goes on only while all are accepted) and told
(`Told`: one event per completed test).  That the rows are the completed tests in order
needs no induction: the rank of an index is an injection into 0 .. N-1, hence onto
(`RankCounts`), so that there is a k-th smallest for every k.

The strengthened invariants were checked by TLC on the instances of the runs before they
were proved.  With them every safety invariant and action property of the passing runs
and the refinement of `JobService` is a theorem.

Only model-checked: the liveness properties `QueuedIsReported`, `PelDrains`, `JobIsSettled`,
`TermStops`, `PollDelivers`, `ZombiesAreReaped`, `ExecutionEnds` and `DescriptorsReturned`,
because the prover handles neither fairness nor ENABLED.  The four runs that expect a
violation are counterexamples and have nothing to prove.

## 6. Not modelled

The rest of the seccomp table, language command lines, CORS and body limits, metrics
rendering, `get_cluster_stats` (additions over what Redis returns), environment parsing
and the command line have no state or interleaving worth a model.  stderr goes the way
of stdout and is not modelled apart from it; pids are never reused in `Sandbox`; totals
of time and memory are left out of `Pipeline`.  Two gateways are not distinguished:
handlers of one or several gateways behave alike in `ClusterQueue`, and `ResultBus` is
one gateway.

## 7. Plan

Done: ClusterQueue and its refinement of JobService, ResultBus, WorkerPool and Node,
Sandbox with pipes and descriptors, ChildSetup, Pipeline, and the proofs of section 5.

Every safety property of the runs is proved.  Left, in this order: `AckedWasReported` and
`WaitingIsPending` for job ids that are submitted again, with a premise on the
submissions in flight instead of `OneIdEach`; action properties of `JobService` as
theorems of their own; the safety half of the liveness properties (each step of a job's
way to its result lowers a measure), which is what a fairness argument would rest on.
