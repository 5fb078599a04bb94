------------------------------ MODULE ResultBus ------------------------------
(***************************************************************************)
(* The gateway side of the "buzzer" (src/src/api/result_bus.rs) and the    *)
(* handlers that read through it (handlers.rs, websocket.rs): a POST       *)
(* enqueues its job and waits, waiters register in a shared map, a         *)
(* listener task routes each PUBLISH to them, a safety poll covers a lost  *)
(* bell, and GET /result looks a job up in two round trips.  The worker's  *)
(* publish_result pipe (queue/redis.rs) is the environment, one command    *)
(* per step.  Several POSTs may carry one job id: enqueue's first command  *)
(* is a DEL of the stored result, whoever waits for it.                    *)
(*                                                                         *)
(* A Redis that fails during enqueue, the stream and the reclaim sweep are *)
(* ClusterQueue's part.                                                    *)
(***************************************************************************)
EXTENDS Integers, FiniteSets

CONSTANTS
    Jobs,        \* job ids
    Posts,       \* calls of submit and submit_async
    Async,       \* the submit_async ones: they do not wait
    Readers,     \* lookups: GET /result/:job_id and the result WebSocket
    Sockets,     \* the WebSockets: they wait when the job is pending
    JobOf,       \* the job id each of them carries
    Deadlines,   \* waiters whose deadline may pass
    Faults,      \* kinds of fault that may strike
    MaxFaults,   \* bound: how many strike in one behaviour
    NoRing       \* the listener has no bell in hand

\* The callers of wait_for.
Waiters == Posts \cup Sockets

ASSUME BusAssumption == /\ IsFiniteSet(Jobs) /\ IsFiniteSet(Waiters)
                        /\ Async \subseteq Posts /\ Sockets \subseteq Readers
                        /\ Posts \cap Readers = {}
                        /\ JobOf \in [Posts \cup Readers -> Jobs]
                        /\ Deadlines \subseteq Waiters
                        /\ Faults \subseteq {"listener", "get", "publish", "cancel", "expire"}
                        /\ MaxFaults \in Nat
                        /\ NoRing \notin Jobs \X Nat

VARIABLES
    \* -- Redis and the worker --
    result,     \* judge:results:<job> is stored
    pending,    \* judge:pending:<job> exists
    pub,        \* how far the job of each post and its publish pipe are
    wire,       \* bells published to the listener's subscription, not yet read
    \* -- the listener task --
    conn,       \* the pub/sub connection is up
    ringing,    \* <<job, channel>> cloned from the registry, not yet sent to
    \* -- the registry: job -> broadcast channel (0: no entry) --
    registry,
    channels,   \* broadcast channels created so far
    \* -- the waiters and readers --
    wait,       \* where each enqueue and wait_for is
    rx,         \* the channel each waiter holds a receiver of (0: none)
    bell,       \* an unread bell in that receiver
    outcome,    \* what wait_for returns
    look,       \* where each lookup is; its answer when it is done
    faults,     \* faults so far
    struck      \* and their kinds

redisVars == <<result, pending, pub>>
busVars   == <<wire, conn, ringing, registry, channels>>
waitVars  == <<wait, rx, bell, outcome>>
vars      == <<redisVars, busVars, waitVars, look, faults, struck>>

Enqueueing == {"claim", "add", "accepted"}
Waiting    == {"first", "select", "get"}
Leaving    == {"dropping", "unguarded"}

TypeOK ==
    /\ result \in [Jobs -> BOOLEAN] /\ pending \in [Jobs -> BOOLEAN]
    /\ pub \in [Posts -> {"none", "run", "set", "del", "bell", "published"}]
    /\ wire \in SUBSET Jobs
    /\ conn \in BOOLEAN
    /\ ringing \in (Jobs \X (1 .. channels)) \cup {NoRing}
    /\ channels \in Nat
    /\ registry \in [Jobs -> 0 .. channels]
    /\ wait \in [Waiters -> {"idle", "done"} \cup Enqueueing \cup Waiting \cup Leaving]
    /\ rx \in [Waiters -> 0 .. channels]
    /\ bell \in [Waiters -> BOOLEAN]
    /\ outcome \in [Waiters -> {"none", "result", "timeout", "cancelled"}]
    /\ look \in [Readers -> {"idle", "exists", "200", "202", "404"}]
    /\ faults \in 0 .. MaxFaults /\ struck \subseteq Faults

Init ==
    /\ result = [j \in Jobs |-> FALSE] /\ pending = [j \in Jobs |-> FALSE]
    /\ pub = [p \in Posts |-> "none"]
    /\ wire = {} /\ conn = TRUE /\ ringing = NoRing
    /\ registry = [j \in Jobs |-> 0] /\ channels = 0
    /\ wait = [w \in Waiters |-> "idle"]
    /\ rx = [w \in Waiters |-> 0]
    /\ bell = [w \in Waiters |-> FALSE]
    /\ outcome = [w \in Waiters |-> "none"]
    /\ look = [r \in Readers |-> "idle"]
    /\ faults = 0 /\ struck = {}

Fault(kind) == /\ kind \in Faults /\ faults < MaxFaults
               /\ faults' = faults + 1 /\ struck' = struck \cup {kind}
NoFault == UNCHANGED <<faults, struck>>

(***************************************************************************)
(* enqueue: DEL judge:results:<job>, SET judge:pending:<job> NX, XADD.     *)
(***************************************************************************)
\* The stored result goes, whether this post will be a duplicate or not.
EnqueueDel(p) ==
    /\ wait[p] = "idle"
    /\ wait' = [wait EXCEPT ![p] = "claim"]
    /\ result' = [result EXCEPT ![JobOf[p]] = FALSE]
    /\ UNCHANGED <<pending, pub, busVars, rx, bell, outcome, look>> /\ NoFault

\* A marker that exists makes the post a Duplicate: nothing is added for it.
EnqueueClaim(p) ==
    /\ wait[p] = "claim"
    /\ wait' = [wait EXCEPT ![p] = IF pending[JobOf[p]] THEN "accepted" ELSE "add"]
    /\ pending' = [pending EXCEPT ![JobOf[p]] = TRUE]
    /\ UNCHANGED <<result, pub, busVars, rx, bell, outcome, look>> /\ NoFault

\* XADD: the job is on its way to a worker.
EnqueueAdd(p) ==
    /\ wait[p] = "add"
    /\ wait' = [wait EXCEPT ![p] = "accepted"]
    /\ pub' = [pub EXCEPT ![p] = "run"]
    /\ UNCHANGED <<result, pending, busVars, rx, bell, outcome, look>> /\ NoFault

\* submit_async answers 202, or 409 to a duplicate, and does not wait.
AsyncReply(p) ==
    /\ wait[p] = "accepted" /\ p \in Async
    /\ wait' = [wait EXCEPT ![p] = "done"]
    /\ UNCHANGED <<redisVars, busVars, rx, bell, outcome, look>> /\ NoFault

\* A key's TTL runs out.
Expire(j) ==
    /\ \/ result[j] /\ result' = [result EXCEPT ![j] = FALSE] /\ UNCHANGED pending
       \/ pending[j] /\ pending' = [pending EXCEPT ![j] = FALSE] /\ UNCHANGED result
    /\ UNCHANGED <<pub, busVars, waitVars, look>>
    /\ Fault("expire")

(***************************************************************************)
(* The job of post p is run and its result published command by command:   *)
(* SET judge:results:<job>, DEL judge:pending:<job>, (XACK,) PUBLISH.      *)
(***************************************************************************)
\* Mutant: the pipe goes on although its SET failed.
PublishSetLost(p) ==
    /\ pub[p] \in {"run", "set"}
    /\ pub' = [pub EXCEPT ![p] = "del"]
    /\ UNCHANGED <<result, pending, busVars, waitVars, look>> /\ NoFault

PublishSet(p) ==
    /\ pub[p] \in {"run", "set"}
    /\ pub' = [pub EXCEPT ![p] = "del"]
    /\ result' = [result EXCEPT ![JobOf[p]] = TRUE]
    /\ UNCHANGED <<pending, busVars, waitVars, look>> /\ NoFault

\* Mutant: the marker is cleared before the result is stored.
PublishDelFirst(p) ==
    /\ pub[p] \in {"run", "del"}
    /\ pub' = [pub EXCEPT ![p] = IF @ = "run" THEN "set" ELSE "bell"]
    /\ pending' = [pending EXCEPT ![JobOf[p]] = FALSE]
    /\ UNCHANGED <<result, busVars, waitVars, look>> /\ NoFault

PublishDel(p) ==
    /\ pub[p] = "del"
    /\ pub' = [pub EXCEPT ![p] = "bell"]
    /\ pending' = [pending EXCEPT ![JobOf[p]] = FALSE]
    /\ UNCHANGED <<result, busVars, waitVars, look>> /\ NoFault

\* A PUBLISH reaches only the connections subscribed at that moment.
PublishBell(p) ==
    /\ pub[p] = "bell"
    /\ pub' = [pub EXCEPT ![p] = "published"]
    /\ wire' = IF conn THEN wire \cup {JobOf[p]} ELSE wire
    /\ UNCHANGED <<result, pending, conn, ringing, registry, channels, waitVars, look>>
    /\ NoFault

\* The connection drops before the replies are read: the pipe is sent again from
\* its first command, however far Redis had come.
PublishRetry(p) ==
    /\ pub[p] \in {"del", "bell", "published"}
    /\ pub' = [pub EXCEPT ![p] = "set"]
    /\ UNCHANGED <<result, pending, busVars, waitVars, look>>
    /\ Fault("publish")

(***************************************************************************)
(* run_listener.                                                           *)
(***************************************************************************)
\* Mutant: a job without a registry entry is not skipped.
ListenerRouteBlind(j) ==
    /\ conn /\ ringing = NoRing /\ j \in wire
    /\ wire' = wire \ {j}
    /\ ringing' = <<j, registry[j]>>
    /\ UNCHANGED <<redisVars, conn, registry, channels, waitVars, look>> /\ NoFault

\* Next message of the subscription: the channel is cloned under the lock.
ListenerRoute(j) ==
    /\ conn /\ ringing = NoRing /\ j \in wire
    /\ wire' = wire \ {j}
    /\ ringing' = IF registry[j] = 0 THEN NoRing ELSE <<j, registry[j]>>
    /\ UNCHANGED <<redisVars, conn, registry, channels, waitVars, look>> /\ NoFault

\* tx.send(()): every receiver of that channel gets it (a full buffer shows as
\* Lagged, which wakes the receiver just the same).
ListenerSend ==
    /\ ringing # NoRing
    /\ bell' = [w \in Waiters |-> bell[w] \/ rx[w] = ringing[2]]
    /\ ringing' = NoRing
    /\ UNCHANGED <<redisVars, wire, conn, registry, channels, wait, rx, outcome, look>>
    /\ NoFault

\* The subscription ends: what was published and not read is lost.
ListenerDown ==
    /\ conn /\ ringing = NoRing
    /\ conn' = FALSE /\ wire' = {}
    /\ UNCHANGED <<redisVars, ringing, registry, channels, waitVars, look>>
    /\ Fault("listener")

ListenerUp ==
    /\ ~conn
    /\ conn' = TRUE
    /\ UNCHANGED <<redisVars, wire, ringing, registry, channels, waitVars, look>> /\ NoFault

(***************************************************************************)
(* wait_for.                                                               *)
(***************************************************************************)
\* submit calls it once the job is queued or found in flight, the WebSocket when
\* its lookup said "pending".
MayWait(w) ==
    \/ w \in Posts \ Async /\ wait[w] = "accepted"
    \/ w \in Sockets /\ wait[w] = "idle" /\ look[w] = "202"

\* Mutant: wait_for goes to sleep without a first read.
RegisterUnread(w) ==
    LET j  == JobOf[w]
        ch == IF registry[j] = 0 THEN channels + 1 ELSE registry[j]
    IN  /\ MayWait(w)
        /\ registry' = [registry EXCEPT ![j] = ch]
        /\ channels' = IF registry[j] = 0 THEN channels + 1 ELSE channels
        /\ rx' = [rx EXCEPT ![w] = ch]
        /\ wait' = [wait EXCEPT ![w] = "select"]
        /\ UNCHANGED <<redisVars, wire, conn, ringing, bell, outcome, look>> /\ NoFault

\* register(): entry().or_insert_with(channel), then subscribe, under the lock.
Register(w) ==
    LET j  == JobOf[w]
        ch == IF registry[j] = 0 THEN channels + 1 ELSE registry[j]
    IN  /\ MayWait(w)
        /\ registry' = [registry EXCEPT ![j] = ch]
        /\ channels' = IF registry[j] = 0 THEN channels + 1 ELSE channels
        /\ rx' = [rx EXCEPT ![w] = ch]
        /\ wait' = [wait EXCEPT ![w] = "first"]
        /\ UNCHANGED <<redisVars, wire, conn, ringing, bell, outcome, look>> /\ NoFault

Return(w, out) ==
    /\ wait' = [wait EXCEPT ![w] = "dropping"]
    /\ outcome' = [outcome EXCEPT ![w] = out]

\* try_result: the first GET and the one after each wake-up.  A Redis error
\* reads as "no result".
WaitGet(w) ==
    /\ wait[w] \in {"first", "get"}
    /\ \/ /\ IF result[JobOf[w]]
             THEN Return(w, "result")
             ELSE wait' = [wait EXCEPT ![w] = "select"] /\ UNCHANGED outcome
          /\ NoFault
       \/ wait' = [wait EXCEPT ![w] = "select"] /\ UNCHANGED outcome /\ Fault("get")
    /\ UNCHANGED <<redisVars, busVars, rx, bell, look>>

\* select!: rx.recv() is ready.
WakeByBell(w) ==
    /\ wait[w] = "select" /\ bell[w]
    /\ bell' = [bell EXCEPT ![w] = FALSE]
    /\ wait' = [wait EXCEPT ![w] = "get"]
    /\ UNCHANGED <<redisVars, busVars, rx, outcome, look>> /\ NoFault

\* Mutant: no safety poll, only the bell wakes a waiter.
WakeByPollNever(w) ==
    /\ wait[w] = "select" /\ bell[w]
    /\ wait' = [wait EXCEPT ![w] = "get"]
    /\ UNCHANGED <<redisVars, busVars, rx, bell, outcome, look>> /\ NoFault

\* select!: the two-second safety poll fires first.
WakeByPoll(w) ==
    /\ wait[w] = "select"
    /\ wait' = [wait EXCEPT ![w] = "get"]
    /\ UNCHANGED <<redisVars, busVars, rx, bell, outcome, look>> /\ NoFault

\* now >= deadline at the top of the loop.
Deadline(w) ==
    /\ wait[w] = "select" /\ w \in Deadlines
    /\ Return(w, "timeout")
    /\ UNCHANGED <<redisVars, busVars, rx, bell, look>> /\ NoFault

\* The client disconnects and the future is dropped at an await: in wait_for, or
\* in enqueue, before the XADD is sent or after it.  What is in Redis stays.
CancelWait(w) ==
    /\ wait[w] \in Waiting \cup {"add", "accepted"}
    /\ wait' = [wait EXCEPT ![w] = IF @ \in Waiting THEN "dropping" ELSE "done"]
    /\ outcome' = [outcome EXCEPT ![w] = "cancelled"]
    /\ UNCHANGED <<redisVars, busVars, rx, bell, look>>
    /\ Fault("cancel")

\* The locals of wait_for are dropped in reverse order of (rx, _guard): first
\* the guard, which removes the entry if its channel has no receiver ...
Receivers(ch) == {w \in Waiters : rx[w] = ch}
\* Mutant: the guard removes the entry without looking for other receivers.
DropGuardAlways(w) ==
    /\ wait[w] = "dropping"
    /\ registry' = [registry EXCEPT ![JobOf[w]] = 0]
    /\ wait' = [wait EXCEPT ![w] = "unguarded"]
    /\ UNCHANGED <<redisVars, wire, conn, ringing, channels, rx, bell, outcome, look>>
    /\ NoFault

DropGuard(w) ==
    /\ wait[w] = "dropping"
    /\ registry' = IF Receivers(registry[JobOf[w]]) = {}
                   THEN [registry EXCEPT ![JobOf[w]] = 0]
                   ELSE registry
    /\ wait' = [wait EXCEPT ![w] = "unguarded"]
    /\ UNCHANGED <<redisVars, wire, conn, ringing, channels, rx, bell, outcome, look>>
    /\ NoFault

\* ... then the receiver.
DropReceiver(w) ==
    /\ wait[w] = "unguarded"
    /\ rx' = [rx EXCEPT ![w] = 0]
    /\ bell' = [bell EXCEPT ![w] = FALSE]
    /\ wait' = [wait EXCEPT ![w] = "done"]
    /\ UNCHANGED <<redisVars, busVars, outcome, look>> /\ NoFault

(***************************************************************************)
(* get_result, and the fast paths of handle_result_socket.                 *)
(***************************************************************************)
LookGet(r) ==
    /\ look[r] = "idle"
    /\ \/ look' = [look EXCEPT ![r] = IF result[JobOf[r]] THEN "200" ELSE "exists"] /\ NoFault
       \/ look' = [look EXCEPT ![r] = "exists"] /\ Fault("get")
    /\ UNCHANGED <<redisVars, busVars, waitVars>>

LookExists(r) ==
    /\ look[r] = "exists"
    /\ \/ look' = [look EXCEPT ![r] = IF pending[JobOf[r]] THEN "202" ELSE "404"] /\ NoFault
       \/ look' = [look EXCEPT ![r] = "404"] /\ Fault("get")
    /\ UNCHANGED <<redisVars, busVars, waitVars>>

Enqueue(p) == EnqueueDel(p) \/ EnqueueClaim(p) \/ EnqueueAdd(p) \/ AsyncReply(p)
Worker(p) == PublishSet(p) \/ PublishDel(p) \/ PublishBell(p)
Listener == (\E j \in Jobs : ListenerRoute(j)) \/ ListenerSend \/ ListenerUp
Leave(w) == DropGuard(w) \/ DropReceiver(w)
Lookup(r) == LookGet(r) \/ LookExists(r)

Next ==
    \/ \E p \in Posts : Enqueue(p) \/ Worker(p) \/ PublishRetry(p)
    \/ \E j \in Jobs : Expire(j)
    \/ Listener \/ ListenerDown
    \/ \E w \in Waiters : \/ Register(w) \/ WaitGet(w) \/ WakeByBell(w) \/ WakeByPoll(w)
                          \/ Deadline(w) \/ CancelWait(w) \/ Leave(w)
    \/ \E r \in Readers : Lookup(r)

Spec == Init /\ [][Next]_vars

\* The gateway's tasks are scheduled and the two-second timer fires.  The
\* listener gets no fairness at all: the bell is best effort.
PollSpec == Spec /\ \A w \in Waiters : WF_vars(WaitGet(w) \/ WakeByPoll(w))

(***************************************************************************)
(* Properties.                                                             *)
(***************************************************************************)

\* Nobody waits on a dead channel: the receiver of every waiter belongs to the
\* channel the registry routes its job's bells to, whoever else registered,
\* left or was cancelled meanwhile.  So recv never reports Closed, and the
\* poll_until fallback of wait_for is never entered.
WaiterIsRouted ==
    \A w \in Waiters : wait[w] \in Waiting => rx[w] # 0 /\ registry[JobOf[w]] = rx[w]

\* No lost wake-up: registering before the first GET is enough.  A waiter that
\* sleeps in select! while its result is stored has a bell coming: unread, in
\* the listener's hand, on the wire or still to be published by one of the runs
\* of the id.  (While the subscription holds and GETs succeed.)
NoLostWakeup ==
    struck \cap {"listener", "get"} = {} =>
        \A w \in Waiters : (wait[w] = "select" /\ result[JobOf[w]]) =>
            \/ bell[w]
            \/ ringing = <<JobOf[w], rx[w]>>
            \/ JobOf[w] \in wire
            \/ \E p \in Posts : JobOf[p] = JobOf[w] /\ pub[p] \in {"set", "del", "bell"}

\* At most one post of the job id has sent its DEL.
PostedOnce(j) ==
    \A p, q \in Posts : (/\ JobOf[p] = j /\ wait[p] # "idle"
                         /\ JobOf[q] = j /\ wait[q] # "idle") => p = q

\* redis.rs 288: "SET precedes PUBLISH so any waiter woken by the bell is
\* guaranteed to read the result".  That is so for a job id that was posted once
\* and did not outlive its TTL; a second post of the id deletes the result
\* (result_bus.rs 152), also between the bell and the GET.
BellMeansResult ==
    "expire" \notin struck =>
        \A w \in Waiters : (bell[w] /\ PostedOnce(JobOf[w])) => result[JobOf[w]]

\* result_bus.rs 9: "liveness never depends on the best-effort bell".  A waiter
\* whose result is stored gets it by the safety poll alone, with the listener
\* down for ever, unless the result is deleted first (by another post of the id,
\* or by its TTL): a stored result is never just overlooked.
PollDelivers ==
    \A w \in Waiters \ Deadlines :
        (wait[w] \in Waiting /\ result[JobOf[w]]) ~>
            (outcome[w] \in {"result", "cancelled"} \/ ~result[JobOf[w]])

\* result_bus.rs 55: the guard removes the job's registry entry when the last
\* waiter is dropped, so the map never leaks entries.
RegistryNeverLeaks ==
    \A j \in Jobs : registry[j] # 0 =>
        \E w \in Waiters : JobOf[w] = j /\ wait[w] \in Waiting \cup Leaving

\* The post holds the job's marker: claimed, and its result not yet reported.
InFlight(p) == wait[p] = "add" \/ pub[p] \in {"run", "set", "del"}

\* handlers.rs 318: 404 is for unknown and expired ids.  A job may get it when it
\* finishes, or when another post of its id deletes its result, between the
\* lookup's two round trips; but at the moment a lookup answers 404 no run of the
\* id is queued, running or unreported: SET precedes DEL, and SET NX keeps the
\* marker to one post at a time.  (While GETs succeed, no marker expired and no
\* pipe was sent twice: the second DEL may hit the marker of a later post.)
NotFoundIsFinished ==
    [][\A r \in Readers :
          (look[r] = "exists" /\ look'[r] = "404" /\ struck' \cap {"get", "publish", "expire"} = {})
          => \A p \in Posts : JobOf[p] = JobOf[r] => ~InFlight(p)]_vars
=============================================================================
