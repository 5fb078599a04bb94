----------------------------- MODULE NodeProofs -----------------------------
(***************************************************************************)
(* Proofs about Node, for any number of jobs, requests, workers and        *)
(* permits and any settings.                                               *)
(***************************************************************************)
EXTENDS Node, WorkerPoolProofs, FunctionTheorems

-----------------------------------------------------------------------------
\* Every step of the process is a step of its pool or leaves the pool alone.
LEMMA NodeStepIsPoolStep == [NodeNext]_nodeVars => [Next]_vars
<1> SUFFICES ASSUME [NodeNext]_nodeVars PROVE [Next]_vars
  OBVIOUS
<1>1. ASSUME NEW c \in Calls, SubmitStep(c) PROVE [Next]_vars
  <2>1. CASE Pending(c)
    BY <1>1, <2>1 DEF Pending, Next, Step, Submit
  <2>2. CASE QueueFull(c)
    BY <2>2 DEF QueueFull
  <2>3. CASE Refuse(c) /\ UNCHANGED crew
    BY <2>3 DEF Next, Step, Submit
  <2> QED
    BY <1>1, <2>1, <2>2, <2>3 DEF SubmitStep
<1>2. ASSUME NEW r \in Requests, HangUp(r) PROVE [Next]_vars
  BY <1>2, NodeAssumption DEF HangUp, Next, Step
<1>3. ASSUME NEW w \in Workers, WorkStep(w) PROVE [Next]_vars
  BY <1>3 DEF WorkStep, Next, Step, Work
<1>4. CASE NoWorkers
  BY <1>4 DEF NoWorkers, Next, Step
<1>5. CASE UNCHANGED vars
  BY <1>5
<1>6. ASSUME NEW c \in Calls, Serve(c) PROVE [Next]_vars
  BY <1>1, <1>6 DEF Serve, Publish
<1>7. CASE Active
  BY <1>2, <1>3, <1>4, <1>6, <1>7
     DEF Active, OpenRequest, Connect, Beat, Read, Tick, Dispatch, Reclaim, Rerun, Terminate,
         Shutdown, Drained, MainReturns
<1> QED
  BY <1>5, <1>7 DEF NodeNext, Alive, Start, nodeVars

\* A node uses its pool as WorkerPool allows, in every run mode and up to its exit:
\* what is proved of the pool holds of the node.
THEOREM NodeImplementsPool == NodeSpec => Spec
<1>1. NodeInit => Init
  BY DEF NodeInit
<1> QED
  BY <1>1, NodeStepIsPoolStep, PTL DEF NodeSpec, Spec

\* The counters and the envelopes of a whole node, its exit and shutdown included.
THEOREM NodeCountersExact == NodeSpec => [](CountersExact /\ AwaitedHasEnvelope)
  BY NodeImplementsPool, PoolCountersExact, PoolKeepsEnvelopes, PTL

-----------------------------------------------------------------------------
\* A returned call moves only its own slots, to where its caller goes on.
LEMMA ReturnedType ==
  ASSUME NodeTypeOK, NEW S, NEW as \in JobStates, Returned(S, as)
  PROVE  /\ req' \subseteq Requests /\ proved' \subseteq req'
         /\ job' \in [StreamJobs -> JobStates]
  BY DEF NodeTypeOK, Returned

\* The type invariant of the process is inductive.
LEMMA NodeInitType == NodeInit => NodeTypeOK
<1> SUFFICES ASSUME NodeInit PROVE NodeTypeOK
  OBVIOUS
<1>1. job \in [StreamJobs -> JobStates] /\ ttl \in 0 .. HeartbeatTtl
  BY NodeAssumption DEF NodeInit, JobStates
<1>2. term \in BOOLEAN
  BY Zenon DEF NodeInit
<1> QED
  BY <1>1, <1>2, InitType DEF NodeInit, NodeTypeOK

\* Every step of the process, its pool's included, keeps the types.
LEMMA NodeNextType == NodeTypeOK /\ [NodeNext]_nodeVars => NodeTypeOK'
<1> SUFFICES ASSUME NodeTypeOK, [NodeNext]_nodeVars PROVE NodeTypeOK'
  OBVIOUS
<1>t. TypeOK'
  BY NodeStepIsPoolStep, NextType DEF NodeTypeOK
<1>c. cfg' = cfg
  BY DEF NodeNext, Alive, nodeVars
<1> USE NodeAssumption
<1>1. ASSUME NEW S, NEW as \in JobStates, Returned(S, as) PROVE NodeTypeOK'
  BY <1>1, <1>t, <1>c, ReturnedType DEF Returned, NodeTypeOK, loopVars
<1>2. ASSUME UNCHANGED <<proc, frontVars, job, loopVars, term>> PROVE NodeTypeOK'
  BY <1>2, <1>t, <1>c DEF NodeTypeOK, frontVars, loopVars
<1>3. ASSUME NEW c \in Calls, SubmitStep(c) PROVE NodeTypeOK'
  <2>1. CASE Pending(c)
    BY <2>1, <1>2 DEF Pending
  <2>2. CASE Returned({c}, "unrun")
    BY <2>2, <1>1 DEF JobStates
  <2> QED
    BY <1>3, <2>1, <2>2 DEF SubmitStep, QueueFull
<1>4. ASSUME NEW r \in Requests, HangUp(r) PROVE NodeTypeOK'
  BY <1>4, <1>1 DEF HangUp, JobStates
<1>5. ASSUME NEW w \in Workers, WorkStep(w) PROVE NodeTypeOK'
  BY <1>5, <1>1, <1>2 DEF WorkStep, JobStates
<1>6. CASE NoWorkers
  BY <1>6, <1>1 DEF NoWorkers, JobStates
<1>7. ASSUME NEW r \in Requests, NEW h \in Headers, OpenRequest(r, h) PROVE NodeTypeOK'
  BY <1>7, <1>t, <1>c DEF OpenRequest, NodeTypeOK, loopVars
<1>8. CASE Connect \/ Beat \/ Tick
  <2>1. ttl' \in 0 .. HeartbeatTtl
    BY <1>8 DEF Connect, Beat, Tick, NodeTypeOK
  <2>2. turn' \in {"none", "renewed", "missed"}
    BY <1>8 DEF Connect, Beat, Tick, NodeTypeOK
  <2>3. loop' \in {"off", "connect", "beat", "read", "dispatch"}
    BY <1>8 DEF Connect, Beat, Tick, NodeTypeOK
  <2> QED
    BY <1>8, <1>t, <1>c, <2>1, <2>2, <2>3 DEF Connect, Beat, Tick, NodeTypeOK, frontVars
<1>9. CASE Read
  BY <1>9, <1>t, <1>c DEF Read, NodeTypeOK, frontVars, JobStates
<1>10. ASSUME NEW c \in StreamJobs, Dispatch(c) \/ Reclaim(c) \/ Rerun(c) \/ Publish(c)
       PROVE  NodeTypeOK'
  BY <1>10, <1>t, <1>c
     DEF Dispatch, Reclaim, Rerun, Publish, NodeTypeOK, frontVars, loopVars, JobStates
<1>11. CASE Terminate \/ Drained \/ MainReturns
  BY <1>11, <1>t, <1>c
     DEF Terminate, Drained, MainReturns, NodeTypeOK, frontVars, loopVars
<1>12. CASE Start
  BY <1>12, <1>t, <1>c DEF Start, NodeTypeOK
<1>13. CASE UNCHANGED nodeVars
  BY <1>13, <1>2 DEF nodeVars
<1>14. CASE Active
  BY <1>14, <1>3, <1>4, <1>5, <1>6, <1>7, <1>8, <1>9, <1>10, <1>11
     DEF Active, Serve, Shutdown
<1> QED
  BY <1>12, <1>13, <1>14 DEF NodeNext, Alive

\* Every variable of a node keeps its type, for any settings, load and crew.
THEOREM NodeTypeCorrect == NodeSpec => []NodeTypeOK
  BY NodeInitType, NodeNextType, PTL DEF NodeSpec

-----------------------------------------------------------------------------
\* A judge that must be locked runs only with a secret, and requests exist only while
\* it runs.
Locked ==
    cfg.require => /\ proc = "running" => NormalizeSecret(cfg.secret) = "set"
                   /\ req = proved

\* Every step keeps the lock: requests enter by the middleware alone.
LEMMA NextLocked == Locked /\ [NodeNext]_nodeVars => Locked'
<1> SUFFICES ASSUME Locked, [NodeNext]_nodeVars PROVE Locked'
  OBVIOUS
<1>c. cfg' = cfg
  BY DEF NodeNext, Alive, nodeVars
<1> SUFFICES ASSUME cfg.require
             PROVE  /\ proc' = "running" => NormalizeSecret(cfg.secret) = "set"
                    /\ req' = proved'
  BY <1>c DEF Locked
<1>l. /\ proc = "running" => NormalizeSecret(cfg.secret) = "set"
      /\ req = proved
  BY DEF Locked
<1> DEFINE Kept == /\ proc' = "running" => NormalizeSecret(cfg.secret) = "set"
                   /\ req' = proved'
<1>1. ASSUME NEW S, NEW as, Returned(S, as) PROVE Kept
  BY <1>1, <1>l DEF Returned
<1>2. ASSUME UNCHANGED <<proc, req, proved>> PROVE Kept
  BY <1>2, <1>l
<1>3. ASSUME NEW c \in Calls, SubmitStep(c) PROVE Kept
  BY <1>3, <1>1, <1>2 DEF SubmitStep, QueueFull, Pending, frontVars
<1>4. ASSUME NEW r \in Requests, HangUp(r) PROVE Kept
  BY <1>4, <1>1 DEF HangUp
<1>5. ASSUME NEW w \in Workers, WorkStep(w) PROVE Kept
  BY <1>5, <1>1, <1>2 DEF WorkStep, frontVars
<1>6. CASE NoWorkers
  BY <1>6, <1>1 DEF NoWorkers
<1>7. ASSUME NEW r \in Requests, NEW h \in Headers, OpenRequest(r, h), proc = "running" PROVE Kept
  <2>1. NormalizeSecret(cfg.secret) = "set"
    BY <1>7, <1>l
  <2>2. h = "set"
    BY <1>7, <2>1 DEF OpenRequest, Authorized
  <2> QED
    BY <1>7, <1>l, <2>1, <2>2 DEF OpenRequest
<1>8. CASE Beat \/ Tick \/ Read
  BY <1>8, <1>2 DEF Beat, Tick, Read, frontVars
<1>9. CASE Connect
  BY <1>9, <1>l DEF Connect, frontVars
<1>10. ASSUME NEW c \in StreamJobs, Dispatch(c) \/ Reclaim(c) \/ Rerun(c) \/ Publish(c)
       PROVE  Kept
  BY <1>10, <1>2 DEF Dispatch, Reclaim, Rerun, Publish, frontVars
<1>11. CASE Terminate \/ Drained \/ MainReturns
  BY <1>11, <1>l DEF Terminate, Drained, MainReturns, frontVars
<1>12. CASE Start
  BY <1>12, <1>l, <1>c DEF Start, NormalizeSecret
<1>13. CASE UNCHANGED nodeVars
  BY <1>13, <1>2 DEF nodeVars, frontVars
<1>14. CASE Active /\ proc = "running"
  BY <1>14, <1>3, <1>4, <1>5, <1>6, <1>7, <1>8, <1>9, <1>10, <1>11
     DEF Active, Serve, Shutdown
<1> QED
  BY <1>12, <1>13, <1>14 DEF NodeNext, Alive

\* With JUDGE_REQUIRE_AUTH no request is ever served without the secret, whatever
\* JUDGE_SECRET was set to.
THEOREM NodeStaysLocked == NodeSpec => []LockedIsLocked
<1>1. NodeInit => Locked
  BY DEF NodeInit, Locked
<1>2. Locked => LockedIsLocked
  BY DEF Locked, LockedIsLocked
<1> QED
  BY <1>1, <1>2, NextLocked, PTL DEF NodeSpec
-----------------------------------------------------------------------------
\* Who is inside submit() for the consumer is a task of it.
TaskCalls == \A c \in StreamJobs : call[c] # "idle" => job[c] = "task"

\* The semaphore holds: never more tasks than permits.
WithinPermits == Cardinality(InFlight) <= Permits

\* The tasks of the consumer are finitely many, now and after a step.
LEMMA FiniteInFlight == /\ IsFiniteSet(InFlight) /\ Cardinality(InFlight) \in Nat
                        /\ IsFiniteSet(InFlight') /\ Cardinality(InFlight') \in Nat
<1>1. IsFiniteSet(StreamJobs)
  BY FS_Subset, PoolAssumption, NodeAssumption, StreamJobs \subseteq Calls
<1>2. InFlight \subseteq StreamJobs /\ InFlight' \subseteq StreamJobs
  BY DEF InFlight
<1> QED
  BY <1>1, <1>2, FS_Subset, FS_CardinalityType

\* When calls return that are tasks of the consumer (or of nobody), the tasks that hold
\* a permit stay the same.
LEMMA ReturnedKeeps ==
  ASSUME NodeTypeOK, NEW S, NEW as \in {"judged", "unrun"}, Returned(S, as),
         \A c \in S \cap StreamJobs : job[c] = "task"
  PROVE  InFlight' = InFlight
  BY DEF NodeTypeOK, Returned, InFlight

\* A call that is answered by a worker or loses its receiver is one that waits.
LEMMA HeldIsTask ==
  ASSUME Envelope, TaskCalls, NEW w \in Workers, wpc[w] = "run"
  PROVE  /\ holds[w] \in Calls
         /\ \A c \in {holds[w]} \cap StreamJobs : job[c] = "task"
<1>1. holds[w] # NoCall /\ holds[w] \in Calls
  BY DEF Envelope, HoldsMatch, TypeOK
<1>2. call[holds[w]] \in {"sent", "gone"}
  BY <1>1 DEF Envelope, AwaitedHasEnvelope, Held
<1> QED
  BY <1>1, <1>2 DEF TaskCalls

\* Every step keeps the consumer's calls with its tasks.
LEMMA NextTaskCalls ==
  ASSUME NodeTypeOK, Envelope, TaskCalls, [NodeNext]_nodeVars
  PROVE  TaskCalls'
<1>t. call \in [Calls -> CallStates] /\ job \in [StreamJobs -> JobStates]
  BY DEF NodeTypeOK, TypeOK
<1>a. StreamJobs \subseteq Calls /\ StreamJobs \cap Requests = {}
  BY NodeAssumption
<1>1. ASSUME UNCHANGED <<call, job>> PROVE TaskCalls'
  BY <1>1 DEF TaskCalls
<1>2. ASSUME NEW c \in Calls, SubmitStep(c) PROVE TaskCalls'
  <2>1. CASE Pending(c)
    <3>1. job' = job /\ \A d \in Calls \ {c} : call'[d] = call[d]
      BY <2>1, <1>t DEF Pending, CheckFull, CountQueued, Send
    <3>2. c \in StreamJobs => job[c] = "task"
      BY <1>2, <1>a DEF SubmitStep, Submitting
    <3> QED
      BY <3>1, <3>2, <1>a DEF TaskCalls
  <2>2. CASE QueueFull(c)
    BY <2>2, <1>a, <1>t DEF QueueFull, Returned, TaskCalls, vars, moving
  <2>3. CASE Refuse(c) /\ Returned({c}, "unrun")
    BY <2>3, <1>a, <1>t DEF Refuse, Returned, TaskCalls
  <2> QED
    BY <1>2, <2>1, <2>2, <2>3 DEF SubmitStep
<1>3. ASSUME NEW r \in Requests, HangUp(r) PROVE TaskCalls'
  BY <1>3, <1>a, <1>t DEF HangUp, CancelCall, Returned, TaskCalls
<1>4. ASSUME NEW w \in Workers, WorkStep(w) PROVE TaskCalls'
  <2>1. CASE Reply(w) /\ Returned({holds[w]}, "judged")
    <3>1. holds[w] \in Calls
      BY <2>1, HeldIsTask DEF Reply
    <3> QED
      BY <2>1, <3>1, <1>a, <1>t DEF Reply, Returned, TaskCalls
  <2> QED
    BY <1>4, <2>1, <1>1 DEF WorkStep, Recv, Dequeue, BeginRun, EndRun
<1>5. CASE NoWorkers
  BY <1>5, <1>a, <1>t DEF NoWorkers, DropReceiver, Returned, TaskCalls
<1>6. ASSUME NEW c \in StreamJobs, Dispatch(c) \/ Reclaim(c) \/ Rerun(c) \/ Publish(c)
      PROVE  TaskCalls'
  BY <1>6, <1>t DEF Dispatch, Reclaim, Rerun, Publish, TaskCalls, vars, moving
<1>7. CASE Read
  BY <1>7, <1>t DEF Read, TaskCalls, vars, moving
<1>8. CASE Active
  BY <1>8, <1>1, <1>2, <1>3, <1>4, <1>5, <1>6, <1>7
     DEF Active, Serve, Shutdown, OpenRequest, Connect, Beat, Tick, Terminate, Drained, MainReturns,
         vars, moving
<1> QED
  BY <1>1, <1>8 DEF NodeNext, Alive, Start, nodeVars, vars, moving

\* A task is begun only with a permit, and keeps it to its end.
LEMMA NextWithinPermits ==
  ASSUME NodeTypeOK, Envelope, TaskCalls, WithinPermits, [NodeNext]_nodeVars
  PROVE  WithinPermits'
<1>t. job \in [StreamJobs -> JobStates] /\ Permits \in Nat
  BY NodeAssumption DEF NodeTypeOK
<1>a. StreamJobs \subseteq Calls /\ StreamJobs \cap Requests = {}
  BY NodeAssumption
<1>1. ASSUME InFlight' = InFlight PROVE WithinPermits'
  BY <1>1 DEF WithinPermits
<1>2. ASSUME job' = job PROVE WithinPermits'
  BY <1>1, <1>2 DEF InFlight
<1>3. ASSUME NEW c \in Calls, SubmitStep(c) PROVE WithinPermits'
  <2>1. CASE Pending(c)
    BY <2>1, <1>2 DEF Pending
  <2>2. CASE Returned({c}, "unrun")
    <3>1. \A d \in {c} \cap StreamJobs : job[d] = "task"
      BY <1>3, <1>a DEF SubmitStep, Submitting
    <3> QED
      BY <2>2, <3>1, <1>1, ReturnedKeeps
  <2> QED
    BY <1>3, <2>1, <2>2 DEF SubmitStep, QueueFull
<1>4. ASSUME NEW r \in Requests, HangUp(r) PROVE WithinPermits'
  <2>1. Returned({r}, "unrun") /\ \A d \in {r} \cap StreamJobs : job[d] = "task"
    BY <1>4, <1>a DEF HangUp
  <2> QED
    BY <2>1, <1>1, ReturnedKeeps
<1>5. ASSUME NEW w \in Workers, WorkStep(w) PROVE WithinPermits'
  <2>1. CASE Reply(w) /\ Returned({holds[w]}, "judged")
    BY <2>1, <1>1, ReturnedKeeps, HeldIsTask DEF Reply
  <2> QED
    BY <1>5, <2>1, <1>2 DEF WorkStep
<1>6. CASE NoWorkers
  <2> DEFINE S == {c \in Calls : call[c] = "sent"}
  <2>1. Returned(S, "unrun")
    BY <1>6 DEF NoWorkers
  <2>2. \A c \in S \cap StreamJobs : job[c] = "task"
    BY DEF TaskCalls
  <2> HIDE DEF S
  <2> QED
    BY <2>1, <2>2, <1>1, ReturnedKeeps
<1>7. ASSUME NEW c \in StreamJobs, Dispatch(c) \/ Rerun(c) PROVE WithinPermits'
  <2>1. c \notin InFlight /\ FreePermits > 0
    BY <1>7 DEF Dispatch, Rerun, InFlight
  <2>2. InFlight' = InFlight \cup {c}
    BY <1>7, <1>t DEF Dispatch, Rerun, InFlight
  <2>3. Cardinality(InFlight') = Cardinality(InFlight) + 1
    BY <2>1, <2>2, FiniteInFlight, FS_AddElement
  <2> QED
    BY <2>1, <2>3, <1>t, FiniteInFlight DEF FreePermits, WithinPermits
<1>8. ASSUME NEW c \in StreamJobs, Publish(c) PROVE WithinPermits'
  <2>1. InFlight' \subseteq InFlight
    BY <1>8, <1>t DEF Publish, InFlight
  <2>2. Cardinality(InFlight') <= Cardinality(InFlight)
    BY <2>1, FiniteInFlight, FS_Subset
  <2> QED
    BY <2>2, <1>t, FiniteInFlight DEF WithinPermits
<1>9. ASSUME NEW c \in StreamJobs, Reclaim(c) PROVE WithinPermits'
  BY <1>9, <1>1, <1>t DEF Reclaim, InFlight
<1>10. CASE Read
  BY <1>10, <1>1, <1>t DEF Read, InFlight
<1>11. CASE Active
  BY <1>11, <1>2, <1>3, <1>4, <1>5, <1>6, <1>7, <1>8, <1>9, <1>10
     DEF Active, Serve, Shutdown, OpenRequest, Connect, Beat, Tick, Terminate, Drained, MainReturns
<1> QED
  BY <1>2, <1>11 DEF NodeNext, Alive, Start, nodeVars

\* What the consumer's bookkeeping rests on, as one inductive invariant.
Consumer == NodeTypeOK /\ Envelope /\ TaskCalls /\ WithinPermits

\* Nothing is in flight at the start, and every step keeps the conjunction.
LEMMA ConsumerInvariant == /\ NodeInit => Consumer
                           /\ Consumer /\ [NodeNext]_nodeVars => Consumer'
<1>1. NodeInit => Consumer
  <2> SUFFICES ASSUME NodeInit PROVE TaskCalls /\ WithinPermits
    BY NodeInitType, InitEnvelope DEF NodeInit, Consumer
  <2>1. InFlight = {}
    BY DEF NodeInit, InFlight
  <2>2. WithinPermits
    BY <2>1, FS_EmptySet, NodeAssumption DEF WithinPermits
  <2> QED
    BY <2>2, NodeAssumption DEF NodeInit, Init, TaskCalls
<1>2. Consumer /\ [NodeNext]_nodeVars => Consumer'
  BY NodeNextType, NodeStepIsPoolStep, NextEnvelope, NextTaskCalls, NextWithinPermits
     DEF Consumer
<1> QED
  BY <1>1, <1>2
-----------------------------------------------------------------------------
\* A loop that waits for messages and took its heartbeat to Redis has its whole TTL.
Fresh == turn = "renewed" => ttl = HeartbeatTtl

\* Only Beat begins a turn, and a tick ends the freshness.
LEMMA NextFresh == Fresh /\ [NodeNext]_nodeVars => Fresh'
<1> SUFFICES ASSUME Fresh, [NodeNext]_nodeVars PROVE Fresh'
  OBVIOUS
<1>1. ASSUME UNCHANGED loopVars PROVE Fresh'
  BY <1>1 DEF Fresh, loopVars
<1>2. CASE Beat
  BY <1>2 DEF Beat, Fresh
<1>3. CASE Tick
  BY <1>3 DEF Tick, Fresh
<1>4. CASE Start \/ Connect
  BY <1>4 DEF Start, Connect, Fresh
<1>5. CASE Read
  BY <1>5 DEF Read, Fresh
<1>6. ASSUME NEW c \in StreamJobs, Dispatch(c) PROVE Fresh'
  BY <1>6 DEF Dispatch, Fresh
<1>7. CASE Active
  BY <1>1, <1>2, <1>3, <1>4, <1>5, <1>6, <1>7
     DEF Active, Serve, Shutdown, OpenRequest, SubmitStep, Pending, QueueFull, Returned, HangUp,
         WorkStep, NoWorkers, Reclaim, Rerun, Publish, Terminate, Drained, MainReturns
<1> QED
  BY <1>1, <1>4, <1>7 DEF NodeNext, Alive, nodeVars

\* Only a tick lets the heartbeat lapse.
LEMMA LapseIsTick ==
  ASSUME [NodeNext]_nodeVars, ttl > 0, ttl' = 0
  PROVE  Tick
<1>1. HeartbeatTtl # 0 /\ ttl # 0 /\ ttl' # ttl
  BY NodeAssumption
<1> QED
  BY <1>1
     DEF NodeNext, Alive, Start, Active, Serve, Shutdown, OpenRequest, SubmitStep, Pending,
         QueueFull, Returned, HangUp, WorkStep, NoWorkers, Connect, Beat, Read, Dispatch, Reclaim,
         Rerun, Publish, Terminate, Drained, MainReturns, loopVars, nodeVars

\* The heartbeat of a node whose last SET reached Redis lapses only while all its permits
\* are out and the read loop waits for one, for any number of permits and any TTL longer
\* than a turn.
THEOREM NodeStaysListed == NodeSpec => LapsesOnlySaturated
<1>1. NodeInit => Consumer /\ Fresh
  BY ConsumerInvariant DEF NodeInit, Fresh
<1>2. Consumer /\ Fresh /\ [NodeNext]_nodeVars => (Consumer /\ Fresh)'
  BY ConsumerInvariant, NextFresh
<1>3. Consumer /\ Fresh /\ [NodeNext]_nodeVars =>
        ((ttl > 0 /\ ttl' = 0) =>
           turn = "missed" \/ (loop = "dispatch" /\ Cardinality(InFlight) = Permits))
  <2> SUFFICES ASSUME Consumer, Fresh, [NodeNext]_nodeVars, ttl > 0, ttl' = 0,
                      turn # "missed"
               PROVE  loop = "dispatch" /\ Cardinality(InFlight) = Permits
    OBVIOUS
  <2>1. Tick
    BY LapseIsTick
  <2>2. ~(loop = "read" /\ turn # "none")
    BY <2>1, NodeAssumption DEF Tick, Fresh, Consumer, NodeTypeOK
  <2>3. loop = "dispatch" /\ FreePermits <= 0
    BY <2>1, <2>2 DEF Tick
  <2> QED
    BY <2>3, FiniteInFlight, NodeAssumption DEF Consumer, WithinPermits, FreePermits
<1> QED
  BY <1>1, <1>2, <1>3, PTL DEF NodeSpec, LapsesOnlySaturated
-----------------------------------------------------------------------------
\* The receiver is gone only where there are no workers, and only then is a send refused.
Opened == /\ ~open => crew = {}
          /\ \A c \in Calls : call[c] = "refused" => ~open

\* Only DropReceiver closes the channel.
LEMMA NextOpened == TypeOK /\ Opened /\ [Next]_vars => Opened'
<1> SUFFICES ASSUME TypeOK, Opened, [Next]_vars PROVE Opened'
  OBVIOUS
<1>c. crew' = crew /\ call \in [Calls -> CallStates]
  BY DEF Next, vars, TypeOK
<1>1. ASSUME NEW c \in Calls, Submit(c) \/ CancelCall(c) PROVE Opened'
  BY <1>1, <1>c DEF Submit, CheckFull, CountQueued, Send, Refuse, CancelCall, Opened
<1>2. ASSUME NEW w \in Workers, Work(w) PROVE Opened'
  BY <1>2, <1>c DEF Work, Recv, Dequeue, BeginRun, Reply, EndRun, Opened
<1>3. CASE DropReceiver
  BY <1>3, <1>c DEF DropReceiver, Opened
<1>4. CASE UNCHANGED vars
  BY <1>4 DEF vars, moving, Opened
<1> QED
  BY <1>1, <1>2, <1>3, <1>4 DEF Next, Step

\* The calls inside submit().
Inside == {c \in Calls : call[c] # "idle"}

\* queued_jobs never exceeds the number of calls inside submit(), those whose client
\* is gone included: what it counts are different calls.
LEMMA QueuedWithinCalls ==
  ASSUME Envelope, QueueAccounting, open
  PROVE  queued <= Cardinality(Inside)
<1> DEFINE Queue == {c \in Calls : InChan(c)}
           Fetched == {c \in Calls : \E w \in Taken : holds[w] = c}
<1>t. TypeOK /\ HoldsMatch /\ AwaitedHasEnvelope /\ Len(chan) \in Nat
  BY DEF Envelope, TypeOK
<1>1. Len(chan) = Cardinality(Queue)
  <2> DEFINE f == [i \in 1 .. Len(chan) |-> chan[i]]
  <2>1. f \in [1 .. Len(chan) -> Queue]
    BY <1>t DEF TypeOK, InChan
  <2>2. \A i, k \in 1 .. Len(chan) : f[i] = f[k] => i = k
    BY <1>t DEF AwaitedHasEnvelope
  <2>3. \A c \in Queue : \E i \in 1 .. Len(chan) : f[i] = c
    BY DEF InChan
  <2> HIDE DEF f, Queue
  <2>4. f \in Bijection(1 .. Len(chan), Queue)
    BY <2>1, <2>2, <2>3, Fun_IsBij
  <2> QED
    BY <2>4, <1>t, FS_CountingElements DEF ExistsBijection
<1>2. Cardinality(Taken) = Cardinality(Fetched)
  <2> DEFINE f == [w \in Taken |-> holds[w]]
  <2>1. \A w \in Taken : w \in Workers /\ holds[w] \in Calls /\ holds[w] # NoCall
    BY <1>t, PoolAssumption DEF Taken, HoldsMatch, TypeOK
  <2>2. f \in [Taken -> Fetched]
    BY <2>1
  <2>3. \A v, w \in Taken : f[v] = f[w] => v = w
    BY <2>1, <1>t DEF AwaitedHasEnvelope
  <2>4. \A c \in Fetched : \E w \in Taken : f[w] = c
    OBVIOUS
  <2> HIDE DEF f, Fetched
  <2>5. f \in Bijection(Taken, Fetched)
    BY <2>2, <2>3, <2>4, Fun_IsBij
  <2> QED
    BY <2>5, FiniteParts, FS_Bijection DEF ExistsBijection
<1>3. \A c \in Queue \cup Fetched : call[c] \in {"sent", "gone"}
  BY <1>t DEF AwaitedHasEnvelope, Held, Taken
<1>4. Queue \cap Fetched = {}
  BY <1>t DEF AwaitedHasEnvelope, Held, Taken
<1>5. Counted \cap (Queue \cup Fetched) = {}
  BY <1>3 DEF Counted
<1>6. Counted \cup (Queue \cup Fetched) \subseteq Inside
  BY <1>3 DEF Counted, Inside
<1>7. IsFiniteSet(Queue) /\ IsFiniteSet(Fetched) /\ IsFiniteSet(Inside)
  BY PoolAssumption, FS_Subset, Queue \subseteq Calls, Fetched \subseteq Calls, Inside \subseteq Calls
     DEF Inside
<1> HIDE DEF Queue, Fetched
<1>8. Cardinality(Queue \cup Fetched) = Len(chan) + Cardinality(Taken)
  <2>1. Cardinality(Queue \cup Fetched) = Cardinality(Queue) + Cardinality(Fetched) - Cardinality({})
    BY <1>4, <1>7, FS_Union
  <2> QED
    BY <2>1, <1>1, <1>2, <1>7, FS_EmptySet, FS_CardinalityType
<1>9. Cardinality(Counted \cup (Queue \cup Fetched)) = queued
  <2>1. IsFiniteSet(Queue \cup Fetched)
    BY <1>7, FS_Union
  <2>2. Cardinality(Counted \cup (Queue \cup Fetched))
          = Cardinality(Counted) + Cardinality(Queue \cup Fetched) - Cardinality({})
    BY <2>1, <1>5, FiniteParts, FS_Union
  <2> QED
    BY <2>2, <1>8, <1>t, FiniteParts, FS_EmptySet DEF QueueAccounting
<1> QED
  BY <1>6, <1>7, <1>9, FS_Subset

\* A consumer alone cannot saturate its pool: with a task still to submit, the others
\* are fewer than the permits.
LEMMA ConsumerNeverFills ==
  ASSUME Consumer, Accounting, Opened, crew # {}, Permits <= MaxQueue,
         NEW c \in StreamJobs, job[c] = "task", call[c] = "idle",
         \A r \in Requests : call[r] = "idle"
  PROVE  queued < MaxQueue
<1>1. open
  BY DEF Opened, Consumer, NodeTypeOK, TypeOK
<1>2. queued <= Cardinality(Inside)
  BY <1>1, QueuedWithinCalls DEF Consumer, Accounting
<1>3. Inside \subseteq InFlight \ {c} /\ c \in InFlight
  BY NodeAssumption DEF Inside, InFlight, Consumer, TaskCalls
<1>4. /\ IsFiniteSet(InFlight \ {c})
      /\ Cardinality(InFlight \ {c}) = Cardinality(InFlight) - 1
  BY <1>3, FiniteInFlight, FS_RemoveElement
<1>5. Cardinality(Inside) <= Cardinality(InFlight \ {c})
  BY <1>3, <1>4, FS_Subset
<1>6. IsFiniteSet(Inside) /\ Cardinality(Inside) \in Nat
  BY <1>3, <1>4, FS_Subset, FS_CardinalityType
<1>7. Cardinality(InFlight) <= Permits /\ queued \in Nat
  BY DEF Consumer, WithinPermits, NodeTypeOK, TypeOK
<1> QED
  BY <1>2, <1>4, <1>5, <1>6, <1>7, FiniteInFlight, NodeAssumption, PoolAssumption

\* A step that gives a task a made-up verdict is a refusal by the pool.
LEMMA UnrunStep ==
  ASSUME NodeTypeOK, [NodeNext]_nodeVars, NEW c \in StreamJobs,
         job[c] = "task", job'[c] = "unrun"
  PROVE  \/ call[c] = "idle" /\ queued >= MaxQueue
         \/ call[c] = "refused"
         \/ crew = {}
<1>t. job \in [StreamJobs -> JobStates]
  BY DEF NodeTypeOK
<1>a. StreamJobs \cap Requests = {}
  BY NodeAssumption
<1>1. job' # job
  OBVIOUS
<1>2. ASSUME NEW S, NEW as, Returned(S, as) PROVE c \in S /\ as = "unrun"
  BY <1>2 DEF Returned
<1>3. ASSUME NEW d \in Calls, SubmitStep(d)
      PROVE  (call[c] = "idle" /\ queued >= MaxQueue) \/ call[c] = "refused"
  BY <1>3, <1>1, <1>2 DEF SubmitStep, Pending, QueueFull, Refuse
<1>4. ASSUME NEW r \in Requests, HangUp(r) PROVE FALSE
  BY <1>4, <1>2, <1>a DEF HangUp
<1>5. ASSUME NEW w \in Workers, WorkStep(w) PROVE FALSE
  BY <1>5, <1>1, <1>2 DEF WorkStep
<1>6. ASSUME NEW d \in StreamJobs, Dispatch(d) \/ Reclaim(d) \/ Rerun(d) \/ Publish(d)
      PROVE  FALSE
  BY <1>6, <1>t DEF Dispatch, Reclaim, Rerun, Publish
<1>7. ~Read
  BY <1>t DEF Read
<1>8. CASE Active
  BY <1>1, <1>3, <1>4, <1>5, <1>6, <1>7, <1>8
     DEF Active, Serve, Shutdown, OpenRequest, NoWorkers, DropReceiver, Connect, Beat, Tick,
         Terminate, Drained, MainReturns
<1> QED
  BY <1>1, <1>8 DEF NodeNext, Alive, Start, nodeVars

\* With workers, no local clients and a queue at least as long as there are permits,
\* no stream job is ever given a verdict without having run.
THEOREM NodeRunsItsJobs == NodeSpec => RefusedOnlyByLocals
<1> DEFINE Inv == Consumer /\ Accounting /\ Opened
<1>1. NodeInit => Inv
  BY ConsumerInvariant, InitAccounting DEF NodeInit, Init, Opened
<1>2. Inv /\ [NodeNext]_nodeVars => Inv'
  BY ConsumerInvariant, NodeStepIsPoolStep, NextAccounting, NextOpened
     DEF Consumer, Accounting
<1>3. Inv /\ [NodeNext]_nodeVars =>
        \A c \in StreamJobs :
          (job[c] = "task" /\ job'[c] = "unrun") =>
             \/ crew = {} \/ Permits > MaxQueue
             \/ \E r \in Requests : call[r] # "idle"
  <2> SUFFICES ASSUME Inv, [NodeNext]_nodeVars, NEW c \in StreamJobs,
                      job[c] = "task", job'[c] = "unrun", crew # {}, ~(Permits > MaxQueue),
                      \A r \in Requests : call[r] = "idle"
               PROVE  FALSE
    OBVIOUS
  <2>1. Permits <= MaxQueue /\ queued \in Nat /\ MaxQueue \in Nat
    BY NodeAssumption, PoolAssumption DEF Accounting, TypeOK
  <2>2. c \in Calls /\ call[c] # "refused"
    BY NodeAssumption DEF Opened
  <2>3. call[c] = "idle" /\ queued >= MaxQueue
    BY <2>2, UnrunStep DEF Consumer
  <2> QED
    BY <2>1, <2>3, ConsumerNeverFills
<1> HIDE DEF Inv
<1> QED
  BY <1>1, <1>2, <1>3, PTL DEF NodeSpec, RefusedOnlyByLocals
=============================================================================
