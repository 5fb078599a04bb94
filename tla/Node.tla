-------------------------------- MODULE Node --------------------------------
(***************************************************************************)
(* One akiro process (src/src/main.rs): the worker pool of WorkerPool with *)
(* the callers it has in each run mode.  The HTTP gateway's handlers call  *)
(* submit() behind the authentication middleware (api/mod.rs,              *)
(* handlers.rs); the Redis consumer (queue/redis.rs) calls it from tasks   *)
(* that hold a permit of a semaphore, fed by the read loop and by the      *)
(* reclaim sweep.  Start-up, the heartbeat and SIGTERM are modelled too.   *)
(***************************************************************************)
EXTENDS WorkerPool

CONSTANTS
    StreamJobs,   \* slots for messages of judge:jobs
    Requests,     \* slots for HTTP requests that reach the local pool
    Permits,      \* of the consumer's semaphore: max(2 * num_workers, 4)
    ReadCap,      \* the most messages one XREADGROUP asks for: max(num_workers, 4)
    Configs,      \* set of [mode, pid1, secret, require, jobs]: how it is started, its load
    HeartbeatTtl  \* EX 20, in ticks; more than one turn of the read loop

ASSUME NodeAssumption ==
    /\ Calls = StreamJobs \cup Requests /\ StreamJobs \cap Requests = {}
    /\ Permits \in Nat \ {0} /\ ReadCap \in Nat \ {0} /\ HeartbeatTtl \in Nat \ {0, 1}
    /\ Configs \subseteq [mode : {"server", "worker", "all"}, pid1 : BOOLEAN,
                          secret : {"unset", "blank", "set"}, require : BOOLEAN,
                          jobs : SUBSET StreamJobs]

VARIABLES
    cfg,      \* --mode, JUDGE_SECRET, JUDGE_REQUIRE_AUTH; whether akiro is the container's
              \* first process (entrypoint.sh: exec); the jobs the stream brings
    proc,     \* "starting", "running", "exited"
    http,     \* the HTTP server: "down", "up", "draining" (graceful shutdown)
    req,      \* requests whose handler runs
    proved,   \* those of them that presented the secret
    job,      \* where each message is
    loop,     \* the consumer's read loop: "off", "connect", "beat", "read", "dispatch"
    ttl,      \* ticks until judge:heartbeat:<name> expires
    turn,     \* whether the turn that now waits for messages "renewed" or "missed" its
              \* heartbeat; "none" after the wait, or a tick of it
    term      \* SIGTERM was received

frontVars == <<http, req, proved>>
loopVars == <<loop, ttl, turn>>
nodeMoving == <<moving, proc, frontVars, job, loopVars, term>>
nodeVars == <<vars, cfg, proc, frontVars, job, loopVars, term>>

JobStates == {"stream",     \* not with this node
              "fetched",    \* in the read loop's batch
              "reclaimed",  \* in the hand of the reclaim sweep
              "task",       \* spawn_process: submit()
              "judged",     \* publish_result of what a worker returned
              "unrun"}      \* publish_result of a verdict made up for an Err of submit()

NodeTypeOK ==
    /\ TypeOK
    /\ cfg \in Configs
    /\ proc \in {"starting", "running", "exited"}
    /\ http \in {"down", "up", "draining"}
    /\ req \subseteq Requests /\ proved \subseteq req
    /\ job \in [StreamJobs -> JobStates]
    /\ loop \in {"off", "connect", "beat", "read", "dispatch"}
    /\ ttl \in 0 .. HeartbeatTtl /\ turn \in {"none", "renewed", "missed"}
    /\ term \in BOOLEAN

NodeInit ==
    /\ Init
    /\ cfg \in Configs
    /\ proc = "starting" /\ http = "down" /\ req = {} /\ proved = {}
    /\ job = [c \in StreamJobs |-> "stream"]
    /\ loop = "off" /\ ttl = 0 /\ turn = "none"
    /\ term = FALSE

(***************************************************************************)
(* Start-up and the gateway.                                               *)
(***************************************************************************)
\* Mutant: JUDGE_SECRET="" is kept as a secret.
NormalizeSecretKeeps(s) == IF s = "unset" THEN "none" ELSE s

\* normalize_secret(): an empty or blank secret is none.
NormalizeSecret(s) == IF s = "set" THEN "set" ELSE "none"

\* run_all skips the consumer on a control-plane-only node; run_worker does not.
Consuming == cfg.mode = "worker" \/ (cfg.mode = "all" /\ crew # {})

\* main() refuses to start an unauthenticated judge when authentication is required.
\* Where the port cannot be bound run_server returns; in run_all only the HTTP task
\* panics.
Start ==
    /\ proc = "starting"
    /\ IF cfg.require /\ NormalizeSecret(cfg.secret) = "none"
       THEN proc' = "exited" /\ UNCHANGED <<http, loop>>
       ELSE \E bound \in BOOLEAN :
              /\ proc' = IF cfg.mode = "server" /\ ~bound THEN "exited" ELSE "running"
              /\ http' = IF cfg.mode = "worker" \/ ~bound THEN "down" ELSE "up"
              /\ loop' = IF Consuming THEN "connect" ELSE "off"
    /\ UNCHANGED <<vars, req, proved, job, ttl, turn, term>>

\* run(): after ten attempts to reach Redis the error ends the whole process.
Connect ==
    /\ loop = "connect"
    /\ \/ loop' = "beat" /\ UNCHANGED proc
       \/ proc' = "exited" /\ UNCHANGED loop
    /\ UNCHANGED <<vars, frontVars, job, ttl, turn, term>>

\* auth_middleware: the header is compared only when there is a secret.
Authorized(header) ==
    LET secret == NormalizeSecret(cfg.secret)
    IN  secret = "none" \/ header = secret

\* A request that passes the middleware and will use the local pool.
OpenRequest(r, header) ==
    /\ http = "up" /\ r \notin req /\ call[r] = "idle"
    /\ Authorized(header)
    /\ req' = req \cup {r}
    /\ proved' = IF header = "set" THEN proved \cup {r} ELSE proved
    /\ UNCHANGED <<vars, proc, http, job, loopVars, term>>

(***************************************************************************)
(* submit() and its callers: the steps of WorkerPool, and what the caller  *)
(* makes of submit()'s answer.                                             *)
(***************************************************************************)
Submitting(c) == IF c \in Requests THEN c \in req ELSE job[c] = "task"

\* The calls of S have returned: a handler answers its client, a task of the
\* consumer goes on to publish.
Returned(S, as) ==
    /\ req' = req \ S
    /\ proved' = proved \ S
    /\ job' = [c \in StreamJobs |-> IF c \in S THEN as ELSE job[c]]
    /\ UNCHANGED <<proc, http, loopVars, term>>

Pending(c) == /\ CheckFull(c) \/ CountQueued(c) \/ Send(c)
              /\ UNCHANGED <<crew, proc, frontVars, job, loopVars, term>>

\* Err("QUEUE_FULL"): 503 for a client, a RuntimeError verdict for a stream job.
QueueFull(c) ==
    /\ call[c] = "idle" /\ queued >= MaxQueue
    /\ Returned({c}, "unrun")
    /\ UNCHANGED vars

SubmitStep(c) ==
    /\ Submitting(c)
    /\ Pending(c) \/ QueueFull(c) \/ (Refuse(c) /\ Returned({c}, "unrun") /\ UNCHANGED crew)

\* The client hangs up; a task of the consumer is never cancelled.
HangUp(r) ==
    /\ r \in req
    /\ CancelCall(r)
    /\ Returned({r}, "unrun")
    /\ UNCHANGED crew

WorkStep(w) ==
    /\ w \in crew
    /\ \/ /\ Recv(w) \/ Dequeue(w) \/ BeginRun(w) \/ EndRun(w)
          /\ UNCHANGED <<crew, proc, frontVars, job, loopVars, term>>
       \/ Reply(w) /\ Returned({holds[w]}, "judged") /\ UNCHANGED crew

NoWorkers == /\ DropReceiver
             /\ Returned({c \in Calls : call[c] = "sent"}, "unrun")
             /\ UNCHANGED crew

(***************************************************************************)
(* The consumer: read loop, reclaim sweep and spawned tasks.               *)
(***************************************************************************)
InFlight == {c \in StreamJobs : job[c] \in {"task", "judged", "unrun"}}
FreePermits == Permits - Cardinality(InFlight)

\* Mutant: SET NX, which does not renew a key that is still there.
BeatIfAbsent ==
    /\ loop = "beat"
    /\ loop' = "read"
    /\ \/ ttl' = (IF ttl = 0 THEN HeartbeatTtl ELSE ttl) /\ turn' = "renewed"
       \/ ttl' = ttl /\ turn' = "missed"
    /\ UNCHANGED <<vars, proc, frontVars, job, term>>

\* SET judge:heartbeat EX 20, at the top of the loop; its failure is ignored.
Beat ==
    /\ loop = "beat"
    /\ loop' = "read"
    /\ \/ ttl' = HeartbeatTtl /\ turn' = "renewed"
       \/ ttl' = ttl /\ turn' = "missed"
    /\ UNCHANGED <<vars, proc, frontVars, job, term>>

BatchSize == LET available == IF FreePermits > 1 THEN FreePermits ELSE 1
             IN  IF available < ReadCap THEN available ELSE ReadCap

\* XREADGROUP BLOCK 2000 COUNT batch_size: some messages, or none (timeout, error).
Read ==
    /\ loop = "read"
    /\ \E S \in SUBSET {c \in cfg.jobs : job[c] = "stream"} :
          /\ Cardinality(S) <= BatchSize
          /\ job' = [c \in StreamJobs |-> IF c \in S THEN "fetched" ELSE job[c]]
          /\ loop' = IF S = {} THEN "beat" ELSE "dispatch"
    /\ turn' = "none"
    /\ UNCHANGED <<vars, proc, frontVars, ttl, term>>

\* A message of the batch gets its permit and its task.
Dispatch(c) ==
    /\ loop = "dispatch" /\ job[c] = "fetched"
    /\ FreePermits > 0
    /\ job' = [job EXCEPT ![c] = "task"]
    /\ loop' = IF \E d \in StreamJobs \ {c} : job[d] = "fetched" THEN loop ELSE "beat"
    /\ UNCHANGED <<vars, proc, frontVars, ttl, turn, term>>

\* XAUTOCLAIM hands over an entry without a result; the sweep takes them in turn.
Reclaim(c) ==
    /\ loop \notin {"off", "connect"} /\ c \in cfg.jobs /\ job[c] = "stream"
    /\ \A d \in StreamJobs : job[d] # "reclaimed"
    /\ job' = [job EXCEPT ![c] = "reclaimed"]
    /\ UNCHANGED <<vars, proc, frontVars, loopVars, term>>

\* Mutant: the sweep does not ask for a permit.
RerunAtOnce(c) ==
    /\ job[c] = "reclaimed"
    /\ job' = [job EXCEPT ![c] = "task"]
    /\ UNCHANGED <<vars, proc, frontVars, loopVars, term>>

Rerun(c) ==
    /\ job[c] = "reclaimed"
    /\ FreePermits > 0
    /\ job' = [job EXCEPT ![c] = "task"]
    /\ UNCHANGED <<vars, proc, frontVars, loopVars, term>>

\* Mutant: the permit stays with a task that could not submit.
PublishJudgedOnly(c) ==
    /\ job[c] = "judged"
    /\ job' = [job EXCEPT ![c] = "stream"]
    /\ UNCHANGED <<vars, proc, frontVars, loopVars, term>>

\* publish_result succeeds or gives up; the permit is dropped either way.
Publish(c) ==
    /\ job[c] \in {"judged", "unrun"}
    /\ job' = [job EXCEPT ![c] = "stream"]
    /\ UNCHANGED <<vars, proc, frontVars, loopVars, term>>

\* Time passes while the loop waits: two or three seconds for messages, so that it
\* begins a turn in every tick, or as long as it takes for a permit.
Tick ==
    /\ ttl > 0
    /\ (loop = "read" /\ turn # "none") \/ (loop = "dispatch" /\ FreePermits <= 0)
    /\ ttl' = ttl - 1
    /\ turn' = "none"
    /\ UNCHANGED <<vars, proc, frontVars, job, loop, term>>

(***************************************************************************)
(* Shutdown.                                                               *)
(***************************************************************************)
\* shutdown_signal() is awaited by the HTTP server and by a run_all without workers.
Handled == http = "up" \/ (cfg.mode = "all" /\ crew = {})

\* SIGTERM: where no handler was installed the process dies of it, unless it is the
\* container's first process, for which the kernel ignores the signal.
Terminate ==
    /\ ~term
    /\ term' = TRUE
    /\ http' = IF http = "up" THEN "draining" ELSE http
    /\ proc' = IF Handled \/ cfg.pid1 THEN proc ELSE "exited"
    /\ UNCHANGED <<vars, req, proved, job, loopVars>>

\* Mutant: main waits for the HTTP server's task, which ends without it.
DrainedStays ==
    /\ http = "draining" /\ req = {}
    /\ http' = "down"
    /\ UNCHANGED <<vars, proc, req, proved, job, loopVars, term>>

\* The last open request is answered; only run_server ends with its HTTP server.
Drained ==
    /\ http = "draining" /\ req = {}
    /\ http' = "down"
    /\ proc' = IF cfg.mode = "server" THEN "exited" ELSE proc
    /\ UNCHANGED <<vars, req, proved, job, loopVars, term>>

\* A control-plane-only run_all waits for the signal alone.
MainReturns ==
    /\ term /\ cfg.mode = "all" /\ crew = {}
    /\ proc' = "exited"
    /\ UNCHANGED <<vars, frontVars, job, loopVars, term>>

Headers == {"none", "blank", "set", "wrong"}

Serve(c) == SubmitStep(c) \/ (c \in StreamJobs /\ Publish(c))
Shutdown == Drained \/ MainReturns

Active ==
    \/ \E r \in Requests : HangUp(r) \/ \E h \in Headers : OpenRequest(r, h)
    \/ \E c \in Calls : Serve(c)
    \/ \E w \in Workers : WorkStep(w)
    \/ NoWorkers
    \/ Connect \/ Beat \/ Read \/ Tick
    \/ \E c \in StreamJobs : Dispatch(c) \/ Reclaim(c) \/ Rerun(c)
    \/ Terminate \/ Shutdown

\* A step of the running process; the settings are read once, at start.
Alive(A) == proc = "running" /\ A /\ UNCHANGED cfg

NodeNext == Alive(Active) \/ (Start /\ UNCHANGED cfg)

NodeSpec == NodeInit /\ [][NodeNext]_nodeVars

\* Tasks that can move are scheduled and the semaphore is FIFO.  Nothing is asked of
\* clients, of the operator, of the stream or of the clock.
NodeFairSpec ==
    /\ NodeSpec
    /\ \A c \in Calls : WF_nodeMoving(Alive(Serve(c)))
    /\ \A w \in Workers : WF_nodeMoving(Alive(WorkStep(w)))
    /\ SF_nodeMoving(Alive(\E c \in StreamJobs : Dispatch(c)))
    /\ SF_nodeMoving(Alive(\E c \in StreamJobs : Rerun(c)))
    /\ WF_nodeMoving(Alive(NoWorkers)) /\ WF_nodeMoving(Alive(Beat \/ Read))
    /\ WF_nodeMoving(Alive(Shutdown))

(***************************************************************************)
(* Properties.  Those of WorkerPool hold of the composition as well.       *)
(***************************************************************************)

\* A stream job is given a RuntimeError without having run only where local clients
\* share the pool, or JUDGE_MAX_QUEUE is below the number of permits, or the node
\* has no workers: the permits keep the consumer from filling the queue by itself.
RefusedOnlyByLocals ==
    [][\A c \in StreamJobs :
         (job[c] = "task" /\ job'[c] = "unrun") =>
             \/ crew = {} \/ Permits > MaxQueue
             \/ \E r \in Requests : call[r] # "idle"]_nodeVars

\* Whatever the read loop fetched or the sweep reclaimed is run and reported, and its
\* permit returned, also when submit() fails and when both compete for permits.
JobIsSettled ==
    \A c \in StreamJobs :
        job[c] \in {"fetched", "reclaimed", "task"} ~> (job[c] = "stream" \/ proc = "exited")

\* The node drops out of the cluster's statistics only while it waits for a permit
\* with a message in hand, or when Redis did not take its last heartbeat: an idle or
\* lightly loaded node stays listed.
LapsesOnlySaturated ==
    [][(ttl > 0 /\ ttl' = 0) =>
         turn = "missed" \/ (loop = "dispatch" /\ Cardinality(InFlight) = Permits)]_nodeVars

\* api/mod.rs 84: with JUDGE_REQUIRE_AUTH every request that is served presented a
\* real secret; a blank JUDGE_SECRET neither opens the judge nor lets it start.
LockedIsLocked == cfg.require => req = proved

\* SIGTERM ends the process once the open requests are answered.  Two kinds of node
\* outlive it: one with workers in mode "all" stops serving HTTP and goes on consuming,
\* and a worker that is the container's first process is not touched at all, so that
\* the documented `docker stop' ends it by SIGKILL in the middle of its jobs.
TermStops == term ~> \/ proc = "exited"
                     \/ cfg.mode = "all" /\ crew # {} /\ http = "down"
                     \/ cfg.mode = "worker" /\ cfg.pid1
=============================================================================
