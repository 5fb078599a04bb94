---------------------------- MODULE ClusterQueue ----------------------------
(***************************************************************************)
(* The job cluster: gateways that enqueue submissions into the Redis       *)
(* stream judge:jobs (src/src/api/result_bus.rs), and worker nodes that    *)
(* read it through the consumer group, run each job, report its result and *)
(* sweep the pending-entries list for orphans (src/src/queue/redis.rs).    *)
(*                                                                         *)
(* Every Redis command is one step.  A redis::pipe() is NOT a transaction: *)
(* its commands are separate steps, other clients' commands may run        *)
(* between them, and the connection may drop after any of them.            *)
(***************************************************************************)
EXTENDS Integers, Sequences, FiniteSets

CONSTANTS
    Subs,         \* submissions: HTTP requests that reach enqueue()
    JobOf,        \* [Subs -> job ids]: two submissions may carry one job_id
    Async,        \* submissions through submit_async, which does not wait
    Garbled,      \* submissions whose payload the workers cannot parse
    Workers,      \* worker nodes (one consumer of the group each)
    Permits,      \* in-flight cap of a node: (num_workers * 2).max(4)
    BatchCap,     \* XREADGROUP batch cap: num_workers.max(4)
    ClaimCount,   \* XAUTOCLAIM COUNT (32)
    MaxAttempts,  \* attempts of run_pipe_with_retry (12)
    MaxLen,       \* JUDGE_STREAM_MAXLEN; 0 disables trimming
    GroupReady,   \* a worker created the group before the first submission
    PipeModes,    \* subset of BOOLEAN: the values of whole to start with
    Faults,       \* kinds of fault that may strike in this instance
    MaxFaults,    \* bound: how many faults strike in one behaviour
    None          \* no submission / no result

FaultKinds == {"drop", "crash", "slow", "expire", "cancel", "wipe"}

Jobs == {JobOf[s] : s \in Subs}

ASSUME SubsAssumption == /\ IsFiniteSet(Subs)
                         /\ DOMAIN JobOf = Subs
                         /\ Async \subseteq Subs
                         /\ Garbled \subseteq Subs
                         /\ None \notin Subs
ASSUME BoundAssumption == /\ Permits \in Nat \ {0}
                          /\ BatchCap \in Nat \ {0}
                          /\ ClaimCount \in Nat \ {0}
                          /\ MaxAttempts \in Nat \ {0}
                          /\ MaxLen \in Nat
                          /\ MaxFaults \in Nat
                          /\ GroupReady \in BOOLEAN
                          /\ Faults \subseteq FaultKinds
                          /\ PipeModes \subseteq BOOLEAN

VARIABLES
    \* -- the Redis server --
    stream,    \* judge:jobs: the submissions ever added; a message id is an index
    floor,     \* messages 1..floor were trimmed (MAXLEN ~) or wiped
    group,     \* last-delivered id of judge_workers; -1: the group does not exist
    pel,       \* pending-entries list of the group: delivered, not acknowledged
    idle,      \* entries of pel idle for at least min_idle_ms
    nth,       \* times a message was delivered or claimed
    results,   \* judge:results:<job>: the submission whose run produced it, or None
    pending,   \* judge:pending:<job> exists
    \* -- the gateways --
    sub,       \* where the handler of each submission is
    got,       \* the result each submission answered with
    \* -- the worker nodes --
    up,        \* the node is running
    inbox,     \* messages the read loop holds and has not dispatched yet
    tasks,     \* spawn_process tasks; each holds one permit of its node
    recl,      \* the reclaim sweep of each node
    \* -- what went wrong --
    whole,     \* Redis happens to run the commands of every pipe back to back
    faults,    \* faults so far
    struck     \* and their kinds

redis   == <<stream, floor, group, pel, idle, nth, results, pending>>
gateway == <<sub, got>>
nodes   == <<up, inbox, tasks, recl>>
moving  == <<redis, gateway, nodes, faults, struck>>
vars    == <<moving, whole>>

MsgIds == 1 .. Cardinality(Subs)   \* every submission adds at most one message

\* Bound of nth.  A job is delivered once and once more per fault (TypeOK says so
\* of the tasks), a garbled message once more than that.
MaxDeliveries == MaxFaults + 2

SweepIdle == [pc |-> "sleep", todo |-> {}, tries |-> 1, cursor |-> 0]

TypeOK ==
    /\ stream \in Seq(Subs) /\ Len(stream) \in 0 .. Cardinality(Subs)
    /\ floor \in 0 .. Len(stream)
    /\ group \in -1 .. Len(stream)
    /\ pel \in SUBSET MsgIds
    /\ idle \in SUBSET pel
    /\ nth \in [MsgIds -> 0 .. MaxDeliveries]
    /\ results \in [Jobs -> Subs \cup {None}]
    /\ pending \in [Jobs -> BOOLEAN]
    /\ sub \in [Subs -> {"new", "claim", "add", "rollback", "wait", "dup",
                         "local", "done", "timeout", "gone", "abandoned",
                         "queued", "conflict", "unavailable"}]
    /\ got \in [Subs -> Subs \cup {None}]
    /\ up \in [Workers -> BOOLEAN]
    /\ inbox \in [Workers -> SUBSET MsgIds]
    /\ tasks \subseteq [w : Workers, m : MsgIds, n : 1 .. MaxFaults + 1, tries : 1 .. MaxAttempts,
                        pc : {"run", "set", "del", "ack", "bell"}]
    /\ recl \in [Workers -> [pc : {"sleep", "get", "rerun", "del", "ack", "bell"},
                             todo : SUBSET MsgIds, tries : 1 .. MaxAttempts,
                             cursor : 0 .. Cardinality(Subs)]]
    /\ whole \in BOOLEAN
    /\ faults \in 0 .. MaxFaults /\ struck \subseteq Faults

Init ==
    /\ stream = <<>> /\ floor = 0
    /\ group = IF GroupReady THEN 0 ELSE -1
    /\ pel = {} /\ idle = {}
    /\ nth = [m \in MsgIds |-> 0]
    /\ results = [j \in Jobs |-> None]
    /\ pending = [j \in Jobs |-> FALSE]
    /\ sub = [s \in Subs |-> "new"]
    /\ got = [s \in Subs |-> None]
    /\ up = [w \in Workers |-> FALSE]
    /\ inbox = [w \in Workers |-> {}]
    /\ tasks = {}
    /\ recl = [w \in Workers |-> SweepIdle]
    /\ whole \in PipeModes /\ faults = 0 /\ struck = {}

Fault(kind) == /\ kind \in Faults /\ faults < MaxFaults
               /\ faults' = faults + 1 /\ struck' = struck \cup {kind}
NoFault == UNCHANGED <<faults, struck>>

First(S)   == CHOOSE m \in S : \A k \in S : m <= k
Take(S, n) == {m \in S : Cardinality({k \in S : k < m}) < n}
SmallerOf(a, b) == IF a <= b THEN a ELSE b
LargerOf(a, b) == IF a >= b THEN a ELSE b
Delivered(S) == [m \in MsgIds |-> IF m \in S THEN SmallerOf(nth[m] + 1, MaxDeliveries)
                                            ELSE nth[m]]
JobOfMsg(m) == JobOf[stream[m]]
Valid(m)    == stream[m] \notin Garbled

(***************************************************************************)
(* Gateway: ResultBus::enqueue, then wait_for or the local fallback.       *)
(***************************************************************************)
Goto(s, pc) == sub' = [sub EXCEPT ![s] = pc]

\* Mutant: the result of an earlier submission is not cleared.
EnqueueDelSkipped(s) ==
    /\ sub[s] = "new"
    /\ Goto(s, "claim")
    /\ UNCHANGED <<redis, got, nodes>> /\ NoFault

\* The pipe's first command, DEL judge:results:<job>.
EnqueueDel(s) ==
    /\ sub[s] = "new"
    /\ Goto(s, "claim")
    /\ results' = [results EXCEPT ![JobOf[s]] = None]
    /\ UNCHANGED <<stream, floor, group, pel, idle, nth, pending, got, nodes>>
    /\ NoFault

\* Mutant: SET without NX.
EnqueueClaimAlways(s) ==
    /\ sub[s] = "claim"
    /\ Goto(s, "add")
    /\ pending' = [pending EXCEPT ![JobOf[s]] = TRUE]
    /\ UNCHANGED <<stream, floor, group, pel, idle, nth, results, got, nodes>>
    /\ NoFault

\* The pipe's second command, SET judge:pending:<job> NX: None means a
\* duplicate, whose handler waits for the result of the run in flight.
EnqueueClaim(s) ==
    /\ sub[s] = "claim"
    /\ Goto(s, IF pending[JobOf[s]] THEN "dup" ELSE "add")
    /\ pending' = [pending EXCEPT ![JobOf[s]] = TRUE]
    /\ UNCHANGED <<stream, floor, group, pel, idle, nth, results, got, nodes>>
    /\ NoFault

\* XADD judge:jobs MAXLEN ~ n: the trim is approximate, so it may keep more.
Xadd(s) ==
    /\ stream' = Append(stream, s)
    /\ floor' \in IF MaxLen = 0 THEN {floor}
                  ELSE {floor, LargerOf(floor, Len(stream) + 1 - MaxLen)}

EnqueueAdd(s) ==
    /\ sub[s] = "add"
    /\ Xadd(s)
    /\ Goto(s, "wait")
    /\ UNCHANGED <<group, pel, idle, nth, results, pending, got, nodes>>
    /\ NoFault

\* The connection fails during the pipe: RedisDown, whether or not the
\* command in flight reached the server, and no rollback.
EnqueueClaimFails(s) ==
    /\ sub[s] \in {"new", "claim"}
    /\ Goto(s, "local")
    /\ pending' \in IF sub[s] = "new" THEN {pending}
                    ELSE {pending, [pending EXCEPT ![JobOf[s]] = TRUE]}
    /\ UNCHANGED <<stream, floor, group, pel, idle, nth, results, got, nodes>>
    /\ Fault("drop")

\* XADD fails, or only its reply is lost.
EnqueueAddFails(s) ==
    /\ sub[s] = "add"
    /\ Goto(s, "rollback")
    /\ Xadd(s) \/ UNCHANGED <<stream, floor>>
    /\ UNCHANGED <<group, pel, idle, nth, results, pending, got, nodes>>
    /\ Fault("drop")

\* DEL judge:pending:<job> after a failed XADD; its own failure is ignored.
EnqueueRollback(s) ==
    /\ sub[s] = "rollback"
    /\ Goto(s, "local")
    /\ \/ pending' = [pending EXCEPT ![JobOf[s]] = FALSE] /\ NoFault
       \/ UNCHANGED pending /\ Fault("drop")
    /\ UNCHANGED <<stream, floor, group, pel, idle, nth, results, got, nodes>>

\* RedisDown: submit_local runs the job on the gateway's own pool.
SubmitLocal(s) ==
    /\ sub[s] = "local" /\ s \notin Async
    /\ Goto(s, "done")
    /\ got' = [got EXCEPT ![s] = s]
    /\ UNCHANGED <<redis, nodes>> /\ NoFault

\* wait_for: a GET (first read, bell or safety poll) that finds the result.
WaitGet(s) ==
    /\ sub[s] \in {"wait", "dup"} /\ s \notin Async
    /\ results[JobOf[s]] # None
    /\ got' = [got EXCEPT ![s] = results[JobOf[s]]]
    /\ Goto(s, "done")
    /\ UNCHANGED <<redis, nodes>> /\ NoFault

\* Mutant: a time-out falls back to the local pool and runs the job once more.
WaitTimeoutFallsBack(s) ==
    /\ sub[s] \in {"wait", "dup"} /\ s \notin Async
    /\ Goto(s, "local")
    /\ UNCHANGED <<redis, got, nodes>> /\ NoFault

\* wait_for reaches its deadline: 504, and the job is never re-run.
WaitTimeout(s) ==
    /\ sub[s] \in {"wait", "dup"} /\ s \notin Async
    /\ Goto(s, "timeout")
    /\ UNCHANGED <<redis, got, nodes>> /\ NoFault

\* submit_async answers at once: 202 queued, 409 duplicate or 503 Redis down.
AsyncReply(s) ==
    /\ s \in Async /\ sub[s] \in {"wait", "dup", "local"}
    /\ Goto(s, CASE sub[s] = "wait" -> "queued"
                 [] sub[s] = "dup" -> "conflict"
                 [] sub[s] = "local" -> "unavailable")
    /\ UNCHANGED <<redis, got, nodes>> /\ NoFault

\* The handler's future is dropped between two awaits (client disconnect or
\* gateway crash); a command already written to the connection still runs.  Between
\* SET NX and XADD this leaves a marker behind which no message follows.
Cancel(s) ==
    /\ sub[s] \in {"add", "rollback", "wait", "dup", "local"}
    /\ Goto(s, IF sub[s] = "add" THEN "abandoned" ELSE "gone")
    /\ UNCHANGED <<redis, got, nodes>>
    /\ Fault("cancel")

(***************************************************************************)
(* Redis itself: key TTLs, the idle clock of the PEL, loss of the dataset  *)
(* (the embedded server runs with --save "" --appendonly no).              *)
(***************************************************************************)
ExpirePending(j) ==
    /\ pending[j]
    /\ pending' = [pending EXCEPT ![j] = FALSE]
    /\ UNCHANGED <<stream, floor, group, pel, idle, nth, results, gateway, nodes>>
    /\ Fault("expire")

ExpireResult(j) ==
    /\ results[j] # None
    /\ results' = [results EXCEPT ![j] = None]
    /\ UNCHANGED <<stream, floor, group, pel, idle, nth, pending, gateway, nodes>>
    /\ Fault("expire")

\* Nobody holds m any more: its worker died, or the reply was lost.
Orphan(m) == /\ \A t \in tasks : t.m # m
             /\ \A w \in Workers : m \notin inbox[w] \cup recl[w].todo

\* An entry's idle time passes min_idle_ms.  For an entry that is still being
\* worked on this is the "slow" case that JUDGE_RECLAIM_MIN_IDLE_MS is to avoid.
GrowIdle(m) ==
    /\ m \in pel \ idle
    /\ IF Orphan(m) THEN NoFault ELSE Fault("slow")
    /\ idle' = idle \cup {m}
    /\ UNCHANGED <<stream, floor, group, pel, nth, results, pending, gateway, nodes>>

RedisWipe ==
    /\ Fault("wipe")
    /\ floor' = Len(stream) /\ group' = -1
    /\ pel' = {} /\ idle' = {}
    /\ results' = [j \in Jobs |-> None]
    /\ pending' = [j \in Jobs |-> FALSE]
    /\ UNCHANGED <<stream, nth, gateway, nodes>>

(***************************************************************************)
(* Worker node: the read loop of RedisConsumer::run.                       *)
(***************************************************************************)
Available(w) == Permits - Cardinality({t \in tasks : t.w = w})
BatchSize(w) == SmallerOf(LargerOf(Available(w), 1), BatchCap)

\* XGROUP CREATE ... $ MKSTREAM; BUSYGROUP is ignored.
CreateGroup == group' = IF group = -1 THEN Len(stream) ELSE group

StartNode(w) ==
    /\ ~up[w]
    /\ up' = [up EXCEPT ![w] = TRUE]
    /\ CreateGroup
    /\ UNCHANGED <<stream, floor, pel, idle, nth, results, pending, gateway,
                   inbox, tasks, recl>>
    /\ NoFault

\* NOGROUP after Redis lost its data: reconnect and create the group again.
Reconnect(w) ==
    /\ up[w] /\ inbox[w] = {} /\ group = -1
    /\ CreateGroup
    /\ UNCHANGED <<stream, floor, pel, idle, nth, results, pending, gateway, nodes>>
    /\ NoFault

\* XREADGROUP ... COUNT batch STREAMS judge:jobs >, once the previous batch
\* was dispatched.  When the reply is lost, the entries are in the PEL only.
ReadNew(w) ==
    LET next  == LargerOf(group, floor)
        last  == SmallerOf(next + BatchSize(w), Len(stream))
        batch == next + 1 .. last
    IN  /\ up[w] /\ inbox[w] = {} /\ group # -1
        /\ batch # {}
        /\ group' = last
        /\ pel' = pel \cup batch
        /\ nth' = Delivered(batch)
        /\ \/ inbox' = [inbox EXCEPT ![w] = batch] /\ NoFault
           \/ UNCHANGED inbox /\ Fault("drop")
        /\ UNCHANGED <<stream, floor, idle, results, pending, gateway, up, tasks, recl>>

NewTask(w, m) == [w |-> w, m |-> m, n |-> nth[m], tries |-> 1, pc |-> "run"]

\* Next message of the batch: a parse failure is only logged; a job takes a
\* permit (the loop blocks until there is one) and is spawned.
Dispatch(w) ==
    /\ up[w] /\ inbox[w] # {}
    /\ LET m == First(inbox[w])
       IN  /\ inbox' = [inbox EXCEPT ![w] = @ \ {m}]
           /\ IF Valid(m)
              THEN Available(w) > 0 /\ tasks' = tasks \cup {NewTask(w, m)}
              ELSE UNCHANGED tasks
    /\ UNCHANGED <<redis, gateway, up, recl>> /\ NoFault

(***************************************************************************)
(* spawn_process: run the job, then publish_result, command by command.    *)
(***************************************************************************)
TaskTo(t, pc) == tasks' = (tasks \ {t}) \cup {[t EXCEPT !.pc = pc]}
TaskEnds(t)   == tasks' = tasks \ {t}

\* Mutant: a job whose run failed is acknowledged without a result.
RunJobUnreported(t) ==
    /\ t.pc = "run"
    /\ TaskTo(t, "set") \/ TaskTo(t, "del")
    /\ UNCHANGED <<redis, gateway, up, inbox, recl>> /\ NoFault

\* pool.submit returns; a pool error becomes a RuntimeError result.
RunJob(t) ==
    /\ t.pc = "run"
    /\ TaskTo(t, "set")
    /\ UNCHANGED <<redis, gateway, up, inbox, recl>> /\ NoFault

PublishSet(t) ==
    /\ t.pc = "set"
    /\ results' = [results EXCEPT ![JobOfMsg(t.m)] = stream[t.m]]
    /\ TaskTo(t, "del")
    /\ UNCHANGED <<stream, floor, group, pel, idle, nth, pending, gateway, up, inbox, recl>>
    /\ NoFault

PublishDel(t) ==
    /\ t.pc = "del"
    /\ pending' = [pending EXCEPT ![JobOfMsg(t.m)] = FALSE]
    /\ TaskTo(t, "ack")
    /\ UNCHANGED <<stream, floor, group, pel, idle, nth, results, gateway, up, inbox, recl>>
    /\ NoFault

PublishAck(t) ==
    /\ t.pc = "ack"
    /\ pel' = pel \ {t.m} /\ idle' = idle \ {t.m}
    /\ TaskTo(t, "bell")
    /\ UNCHANGED <<stream, floor, group, nth, results, pending, gateway, up, inbox, recl>>
    /\ NoFault

\* PUBLISH is received by the listeners of ResultBus; then the permit is dropped.
PublishBell(t) ==
    /\ t.pc = "bell"
    /\ TaskEnds(t)
    /\ UNCHANGED <<redis, gateway, up, inbox, recl>> /\ NoFault

\* Mutant: one attempt too many.
PublishDropOneMore(t) ==
    /\ t.pc \in {"set", "del", "ack", "bell"}
    /\ IF t.tries > MaxAttempts
       THEN TaskEnds(t)
       ELSE tasks' = (tasks \ {t}) \cup {[t EXCEPT !.pc = "set", !.tries = @ + 1]}
    /\ UNCHANGED <<redis, gateway, up, inbox, recl>>
    /\ Fault("drop")

\* Mutant: the entry is acknowledged when the retries are exhausted.
PublishDropAcks(t) ==
    /\ t.pc \in {"set", "del", "ack", "bell"}
    /\ IF t.tries = MaxAttempts
       THEN TaskEnds(t) /\ pel' = pel \ {t.m} /\ idle' = idle \ {t.m}
       ELSE /\ tasks' = (tasks \ {t}) \cup {[t EXCEPT !.pc = "set", !.tries = @ + 1]}
            /\ UNCHANGED <<pel, idle>>
    /\ UNCHANGED <<stream, floor, group, nth, results, pending, gateway, up, inbox, recl>>
    /\ Fault("drop")

\* run_pipe_with_retry: the connection drops after the commands before t.pc
\* (at "bell" also: only the last reply is lost).  Start over, or give up and
\* leave the entry to the sweep.
PublishDrop(t) ==
    /\ t.pc \in {"set", "del", "ack", "bell"}
    /\ IF t.tries = MaxAttempts
       THEN TaskEnds(t)
       ELSE tasks' = (tasks \ {t}) \cup {[t EXCEPT !.pc = "set", !.tries = @ + 1]}
    /\ UNCHANGED <<redis, gateway, up, inbox, recl>>
    /\ Fault("drop")

(***************************************************************************)
(* run_reclaim: the XAUTOCLAIM sweep of a node.                            *)
(***************************************************************************)
SweepNext(w) == LET rest == recl[w].todo \ {First(recl[w].todo)}
                IN  recl' = [recl EXCEPT ![w].todo = rest, ![w].tries = 1,
                                         ![w].pc = IF rest = {} THEN "sleep" ELSE "get"]
SweepTo(w, pc) == recl' = [recl EXCEPT ![w].pc = pc]

\* Mutant: XAUTOCLAIM with a min-idle of zero.
DueAtOnce(w) == {m \in pel : m >= recl[w].cursor}

\* The entries from the cursor on that have been idle for min_idle_ms.
Due(w) == {m \in idle : m >= recl[w].cursor}

\* XAUTOCLAIM from the cursor: entries whose payload is gone leave the PEL, the
\* others are claimed and their idle clock restarts.  A lost reply resets the
\* cursor, with the claim done on the server all the same.
SweepClaim(w) ==
    LET claimed == Take(Due(w), ClaimCount)
        later   == {m \in pel : \A k \in claimed : k < m}
        kept    == {m \in claimed : m > floor}
        next    == IF Cardinality(Due(w)) < ClaimCount \/ later = {} THEN 0 ELSE First(later)
    IN  /\ up[w] /\ recl[w].pc = "sleep" /\ group # -1
        /\ claimed # {} \/ recl[w].cursor # 0
        /\ idle' = idle \ claimed
        /\ pel' = pel \ (claimed \ kept)
        /\ nth' = Delivered(kept)
        /\ \/ /\ recl' = [recl EXCEPT ![w] = [pc |-> IF kept = {} THEN "sleep" ELSE "get",
                                              todo |-> kept, tries |-> 1, cursor |-> next]]
              /\ NoFault
           \/ recl' = [recl EXCEPT ![w].cursor = 0] /\ Fault("drop")
        /\ UNCHANGED <<stream, floor, group, results, pending, gateway, up, inbox, tasks>>

\* Mutant: a payload that does not parse is only logged, as in the read loop.
SweepDiscardLogs(w) ==
    /\ recl[w].pc = "get"
    /\ ~Valid(First(recl[w].todo))
    /\ SweepNext(w)
    /\ UNCHANGED <<redis, gateway, up, inbox, tasks>> /\ NoFault

\* The group is gone with the data: an error reply, and the cursor starts over.
SweepNoGroup(w) ==
    /\ up[w] /\ recl[w].pc = "sleep" /\ group = -1 /\ recl[w].cursor # 0
    /\ recl' = [recl EXCEPT ![w].cursor = 0]
    /\ UNCHANGED <<redis, gateway, up, inbox, tasks>> /\ NoFault

\* A payload that does not parse: XACK discards it (an error is ignored).
SweepDiscard(w) ==
    /\ recl[w].pc = "get"
    /\ LET m == First(recl[w].todo)
       IN  /\ ~Valid(m)
           /\ \/ pel' = pel \ {m} /\ idle' = idle \ {m} /\ NoFault
              \/ UNCHANGED <<pel, idle>> /\ Fault("drop")
    /\ SweepNext(w)
    /\ UNCHANGED <<stream, floor, group, nth, results, pending, gateway, up, inbox, tasks>>

\* Mutant: a failed GET counts as a stored result.
SweepGetTrusting(w) ==
    /\ recl[w].pc = "get"
    /\ LET m == First(recl[w].todo)
       IN  /\ Valid(m)
           /\ \/ SweepTo(w, IF results[JobOfMsg(m)] # None THEN "del" ELSE "rerun") /\ NoFault
              \/ SweepTo(w, "del") /\ Fault("drop")
    /\ UNCHANGED <<redis, gateway, up, inbox, tasks>>

\* GET judge:results:<job>: re-ack if it is there; a failed GET counts as absent.
SweepGet(w) ==
    /\ recl[w].pc = "get"
    /\ LET m == First(recl[w].todo)
       IN  /\ Valid(m)
           /\ \/ SweepTo(w, IF results[JobOfMsg(m)] # None THEN "del" ELSE "rerun") /\ NoFault
              \/ SweepTo(w, "rerun") /\ Fault("drop")
    /\ UNCHANGED <<redis, gateway, up, inbox, tasks>>

\* Truly lost: re-run under a permit of the same semaphore.
SweepRerun(w) ==
    /\ recl[w].pc = "rerun"
    /\ Available(w) > 0
    /\ tasks' = tasks \cup {NewTask(w, First(recl[w].todo))}
    /\ SweepNext(w)
    /\ UNCHANGED <<redis, gateway, up, inbox>> /\ NoFault

\* ack_existing: DEL pending, XACK, PUBLISH.
AckDel(w) ==
    /\ recl[w].pc = "del"
    /\ pending' = [pending EXCEPT ![JobOfMsg(First(recl[w].todo))] = FALSE]
    /\ SweepTo(w, "ack")
    /\ UNCHANGED <<stream, floor, group, pel, idle, nth, results, gateway, up, inbox, tasks>>
    /\ NoFault

AckAck(w) ==
    /\ recl[w].pc = "ack"
    /\ pel' = pel \ {First(recl[w].todo)} /\ idle' = idle \ {First(recl[w].todo)}
    /\ SweepTo(w, "bell")
    /\ UNCHANGED <<stream, floor, group, nth, results, pending, gateway, up, inbox, tasks>>
    /\ NoFault

AckBell(w) ==
    /\ recl[w].pc = "bell"
    /\ SweepNext(w)
    /\ UNCHANGED <<redis, gateway, up, inbox, tasks>> /\ NoFault

AckDrop(w) ==
    /\ recl[w].pc \in {"del", "ack", "bell"}
    /\ IF recl[w].tries = MaxAttempts
       THEN SweepNext(w)
       ELSE recl' = [recl EXCEPT ![w].pc = "del", ![w].tries = @ + 1]
    /\ UNCHANGED <<redis, gateway, up, inbox, tasks>>
    /\ Fault("drop")

\* The node dies: its tasks, permits and lists go with the process.
Crash(w) ==
    /\ up[w]
    /\ up' = [up EXCEPT ![w] = FALSE]
    /\ inbox' = [inbox EXCEPT ![w] = {}]
    /\ tasks' = {t \in tasks : t.w # w}
    /\ recl' = [recl EXCEPT ![w] = SweepIdle]
    /\ UNCHANGED <<redis, gateway>>
    /\ Fault("crash")

Enqueue(s) == \/ EnqueueDel(s) \/ EnqueueClaim(s) \/ EnqueueAdd(s)
              \/ EnqueueRollback(s) \/ SubmitLocal(s) \/ AsyncReply(s)
EnqueueFault(s) == EnqueueClaimFails(s) \/ EnqueueAddFails(s) \/ Cancel(s)
Wait(s) == WaitGet(s) \/ WaitTimeout(s)
Publish(t) == \/ RunJob(t) \/ PublishSet(t) \/ PublishDel(t)
              \/ PublishAck(t) \/ PublishBell(t)
ReadLoop(w) == Reconnect(w) \/ ReadNew(w) \/ Dispatch(w)
Sweep(w) == \/ SweepClaim(w) \/ SweepNoGroup(w) \/ SweepDiscard(w) \/ SweepGet(w)
            \/ SweepRerun(w) \/ AckDel(w) \/ AckAck(w) \/ AckBell(w)

Step ==
    \/ \E s \in Subs : Enqueue(s) \/ EnqueueFault(s) \/ Wait(s)
    \/ \E j \in Jobs : ExpirePending(j) \/ ExpireResult(j)
    \/ \E m \in MsgIds : GrowIdle(m)
    \/ RedisWipe
    \/ \E w \in Workers : StartNode(w) \/ ReadLoop(w) \/ Sweep(w) \/ AckDrop(w) \/ Crash(w)
    \/ \E t \in tasks : Publish(t) \/ PublishDrop(t)

\* The commands of one pipe usually arrive in one read of the socket, and then
\* Redis runs them back to back: nobody else's step comes between them (a drop
\* or a crash may).  Nothing guarantees it.
PipesRunWhole ==
    /\ \A s \in Subs : sub[s] = "claim" => sub'[s] # "claim"
    /\ \A t \in tasks : t.pc \in {"del", "ack", "bell"} => t \notin tasks'
    /\ \A w \in Workers : recl[w].pc \in {"ack", "bell"} => recl'[w] # recl[w]

Next == Step /\ (whole => PipesRunWhole) /\ UNCHANGED whole

Spec == Init /\ [][Next]_vars

(***************************************************************************)
(* Fairness: handlers and the tasks of a running node keep running, a dead *)
(* node is restarted, the idle clock of an orphan advances.  Nothing is    *)
(* assumed of the faults.                                                  *)
(***************************************************************************)
TaskOf(m, n) == {t \in tasks : t.m = m /\ t.n = n}

Fairness ==
    /\ \A s \in Subs : WF_moving(Enqueue(s))
    /\ \A w \in Workers : /\ WF_moving(StartNode(w))
                          /\ WF_moving(ReadLoop(w))
                          /\ WF_moving(Sweep(w))
    /\ \A m \in MsgIds :
          /\ WF_moving(Orphan(m) /\ GrowIdle(m))
          /\ \A n \in 1 .. MaxFaults + 1 : WF_moving(\E t \in TaskOf(m, n) : Publish(t))

FairSpec == Spec /\ Fairness

(***************************************************************************)
(* Properties.                                                             *)
(***************************************************************************)

\* An acknowledged job has been reported: a job message that was delivered and
\* has left the PEL has its result stored (SET precedes XACK in publish_result,
\* and the sweep re-acks only what it found stored), whatever worker died,
\* pipe broke or copy was re-run on the way.  For job ids submitted once.
AckedWasReported ==
    \A m \in 1 .. Len(stream) :
        (m > floor /\ m <= group /\ m \notin pel /\ Valid(m))
            => results[JobOfMsg(m)] # None

\* A client whose submission was queued can see its job: as long as there is no
\* result the pending marker stands, so GET /result says 202 and not 404.
WasQueued(s) == sub[s] \in {"wait", "queued"}
WaitingIsPending ==
    \A s \in Subs : (WasQueued(s) /\ results[JobOf[s]] = None) => pending[JobOf[s]]

\* The consumer group and the sweeps hand a message to one holder at a time
\* (one read-loop batch, one sweep list or one task, of one node), as long as
\* no job still at work outlives min_idle_ms: XAUTOCLAIM restarts the idle clock, so
\* two sweeps never re-run one orphan twice.
Holders(m) == {<<"inbox", w, 0>> : w \in {w \in Workers : m \in inbox[w]}}
              \cup {<<"sweep", w, 0>> : w \in {w \in Workers : m \in recl[w].todo}}
              \cup {<<"task", t.w, t.n>> : t \in {t \in tasks : t.m = m}}
ExclusiveDelivery == "slow" \notin struck => \A m \in MsgIds : Cardinality(Holders(m)) <= 1

\* SET NX admits one submission of a job_id at a time: until the run in flight
\* has stored its result, no second message of that job is queued or running.
\* (While no worker fails between DEL pending and XACK and no TTL ends.)
Unreported(m) == \/ m > LargerOf(group, floor)
                 \/ m \in pel /\ \A t \in tasks : t.m = m => t.pc \in {"run", "set"}
OneRunPerJob ==
    struck \subseteq {"cancel"} =>
        \A j \in Jobs :
            Cardinality({s \in Subs : JobOf[s] = j /\ sub[s] = "add"})
              + Cardinality({m \in 1 .. Len(stream) : JobOfMsg(m) = j /\ Unreported(m)}) <= 1

\* Every queued job is eventually reported, through worker deaths, broken
\* pipes, lost read replies and exhausted retries: what the reclaim sweep is for.
\* Only the loss of Redis's data excuses it.
QueuedIsReported ==
    \A s \in Subs \ Garbled :
        WasQueued(s) ~> (results[JobOf[s]] # None \/ "wipe" \in struck)

\* The PEL drains: no entry, a garbled one included, is reclaimed for ever.
PelDrains == <>[](pel = {})

\* handlers.rs 247: a duplicate submission attaches to the run in flight and
\* waits for THAT result.  So while it waits there is a result to read, a marker
\* of a run to come, or another submission about to set one.
DuplicateHasSource ==
    \A s \in Subs : sub[s] = "dup" =>
        \/ results[JobOf[s]] # None
        \/ pending[JobOf[s]]
        \/ \E r \in Subs : JobOf[r] = JobOf[s] /\ sub[r] = "claim"

\* A run is on its way: a submission is about to queue the job, or a message of it
\* waits to be read or is running.
RunToCome(j) ==
    \/ \E r \in Subs : /\ JobOf[r] = j
                       /\ sub[r] = "add" \/ (sub[r] = "claim" /\ ~pending[j])
    \/ \E m \in 1 .. Len(stream) : JobOfMsg(m) = j /\ Unreported(m)

\* A marker stands for nothing, until its TTL ends: the client left between SET NX and
\* XADD, the message was trimmed (MAXLEN) or skipped (group created at $) before
\* anybody read it, or its payload does not parse.
Missed(m) == ~Valid(m) \/ (m <= LargerOf(group, floor) /\ nth[m] = 0)
BareMarker(j) ==
    /\ pending[j]
    /\ \/ \E r \in Subs : JobOf[r] = j /\ sub[r] = "abandoned"
       \/ \E m \in 1 .. Len(stream) : JobOfMsg(m) = j /\ Missed(m)

\* What holds of it: with pipes that run whole, and no other fault than lost
\* clients, a duplicate has a result to read or a run to come, unless the marker it
\* met is bare.  These are all the ways in which "wait for THAT result" fails there.
Undisturbed == whole /\ struck \subseteq {"cancel"}
DuplicateIsServed ==
    Undisturbed =>
        \A s \in Subs : sub[s] = "dup" =>
            \/ results[JobOf[s]] # None
            \/ RunToCome(JobOf[s])
            \/ BareMarker(JobOf[s])

\* A resubmitted job_id is judged afresh: a queued submission never answers with
\* the result of an earlier submission of the same id, since enqueue clears the
\* stale result first.  (Under the same conditions.)
NeverStale ==
    Undisturbed =>
        \A m, k \in 1 .. Len(stream) :
            (sub[stream[m]] = "done" /\ got[stream[m]] = stream[k]) => k >= m

\* The cluster implements JobService: whatever crashes, drops, re-runs and races
\* happen below, a client is answered at most once, with its job's verdict, of a
\* submission that was queued, reported after the client asked; and a gateway runs
\* a job itself only when queueing it failed (handlers.rs 228: never on a time-out,
\* never a duplicate).
PhaseOf(s) == CASE sub[s] = "new" -> "idle"
                [] sub[s] \in {"claim", "add"} -> "asking"
                [] sub[s] \in {"rollback", "local"} -> "fallback"
                [] sub[s] \in {"wait", "dup"} -> "waiting"
                [] OTHER -> "over"
Service == INSTANCE JobService WITH
    phase  <- [s \in Subs |-> PhaseOf(s)],
    queued <- {stream[m] : m \in 1 .. Len(stream)},
    offers <- [s \in Subs |-> IF PhaseOf(s) \in {"asking", "waiting"}
                              THEN {results[JobOf[s]]} \ {None} ELSE {}],
    answer <- got
ImplementsJobService == Service!Spec
=============================================================================
