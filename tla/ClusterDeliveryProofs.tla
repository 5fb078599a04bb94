------------------------ MODULE ClusterDeliveryProofs ------------------------
(***************************************************************************)
(* More proofs about ClusterQueue, on top of QueueInv: who holds a message *)
(* (Exclusive), what is stored when a message is acknowledged (Stored,     *)
(* Marked), and, while nothing worse than a lost client happens, that a    *)
(* job_id has one run at a time, every marker an owner and every answer is *)
(* fresh (Orderly, Open, Owned, Fresh).                                    *)
(***************************************************************************)
EXTENDS ClusterQueueProofs

\* One holder per message, and an idle entry has none.
Exclusive ==
    "slow" \notin struck =>
        /\ \A m \in idle : Orphan(m)
        /\ \A w, v \in Workers : w # v => inbox[w] \cap inbox[v] = {}
        /\ \A w, v \in Workers : w # v => recl[w].todo \cap recl[v].todo = {}
        /\ \A w, v \in Workers : inbox[w] \cap recl[v].todo = {}
        /\ \A t \in tasks : \A w \in Workers : t.m \notin inbox[w] /\ t.m \notin recl[w].todo
        /\ \A t, u \in tasks : t.m = u.m => t = u

OneIdEach == \A s, r \in Subs : JobOf[s] = JobOf[r] => s = r
KeysKept  == struck \cap {"expire", "wipe"} = {}

\* Past the SET, or past the GET of a sweep, the result is stored.
Stored ==
    KeysKept =>
        /\ \A t \in tasks : t.pc \in {"del", "ack", "bell"} => results[JobOfMsg(t.m)] # None
        /\ \A w \in Workers : recl[w].pc \in {"del", "ack", "bell"} =>
                                  results[JobOfMsg(First(recl[w].todo))] # None

Acked == KeysKept => (group # -1 /\ AckedWasReported)

\* A submission that is about to be queued, or was, has its marker until its result.
Marked ==
    KeysKept =>
        \A s \in Subs : (sub[s] \in {"add", "wait", "queued"} /\ results[JobOf[s]] = None)
                            => pending[JobOf[s]]

Calm == struck \subseteq {"cancel"}

\* Without worse faults, a job stays in its task until the result is reported, and the
\* sweeps find garbled payloads only.
Orderly ==
    Calm =>
        /\ \A m \in pel : Valid(m) => (m \notin idle /\ ~Orphan(m))
        /\ \A w \in Workers : \A m \in recl[w].todo : ~Valid(m)
        /\ \A t \in tasks : t.pc # "bell" => t.m \in pel
        /\ \A w \in Workers : inbox[w] \subseteq pel
        /\ \A s \in Subs : sub[s] \notin {"rollback", "local"}

\* A message whose marker has not been deleted yet.
Open(m) == /\ m \in 1 .. Len(stream)
           /\ \/ m > group /\ m > floor
              \/ m \in pel /\ \A t \in tasks : t.m = m => t.pc \in {"run", "set", "del"}

\* The marker admits one submission of a job_id at a time, the latest of its messages.
OneOpen ==
    Calm =>
        /\ \A s \in Subs : sub[s] = "add" => pending[JobOf[s]]
        /\ \A m \in 1 .. Len(stream) : Open(m) => pending[JobOfMsg(m)]
        /\ \A s, r \in Subs : (sub[s] = "add" /\ sub[r] = "add" /\ JobOf[s] = JobOf[r]) => s = r
        /\ \A s \in Subs : \A m \in 1 .. Len(stream) :
               (sub[s] = "add" /\ Open(m)) => JobOf[s] # JobOfMsg(m)
        /\ \A m, k \in 1 .. Len(stream) : (Open(m) /\ JobOfMsg(m) = JobOfMsg(k)) => k <= m

\* Behind every marker stands a submission about to be queued, or one that was abandoned
\* there, or a message that is open or was missed.
Owned ==
    Calm =>
        \A j \in Jobs : pending[j] =>
            \/ \E s \in Subs : JobOf[s] = j /\ sub[s] \in {"add", "abandoned"}
            \/ \E m \in 1 .. Len(stream) : JobOfMsg(m) = j /\ (Open(m) \/ Missed(m))

\* With whole pipes the result is stored when its marker goes, so no duplicate is left
\* with neither.
Served ==
    Undisturbed =>
        /\ \A t \in tasks : t.pc \in {"del", "ack", "bell"} => results[JobOfMsg(t.m)] # None
        /\ DuplicateHasSource

\* With whole pipes a submission is queued without a result, and what it finds later is
\* the result of its own message or of a later one.
Fresh ==
    Undisturbed =>
        /\ \A s \in Subs : sub[s] \in {"claim", "add"} => results[JobOf[s]] = None
        /\ \A m, k \in 1 .. Len(stream) :
               (sub[stream[m]] = "wait" /\ results[JobOfMsg(m)] = stream[k]) => k >= m
        /\ \A m \in 1 .. Len(stream) : sub[stream[m]] # "dup"
        /\ NeverStale

(***************************************************************************)
(* One holder per message.                                                 *)
(***************************************************************************)
\* Letting go of messages, or of idle entries, disturbs nothing.
LEMMA ExclusiveShrinks ==
    ASSUME Exclusive, struck \subseteq struck', idle' \subseteq idle, tasks' \subseteq tasks,
           \A w \in Workers : inbox'[w] \subseteq inbox[w] /\ recl'[w].todo \subseteq recl[w].todo
    PROVE  Exclusive'
<1> SUFFICES ASSUME "slow" \notin struck' PROVE Exclusive'
  BY DEF Exclusive
<1>1. /\ \A m \in idle : Orphan(m)
      /\ \A w, v \in Workers : w # v => inbox[w] \cap inbox[v] = {}
      /\ \A w, v \in Workers : w # v => recl[w].todo \cap recl[v].todo = {}
      /\ \A w, v \in Workers : inbox[w] \cap recl[v].todo = {}
      /\ \A t \in tasks : \A w \in Workers : t.m \notin inbox[w] /\ t.m \notin recl[w].todo
      /\ \A t, u \in tasks : t.m = u.m => t = u
  BY DEF Exclusive
<1>2. \A m \in idle' : Orphan(m)'
  BY <1>1 DEF Orphan
<1>3. /\ \A w, v \in Workers : w # v => inbox'[w] \cap inbox'[v] = {}
      /\ \A w, v \in Workers : w # v => recl'[w].todo \cap recl'[v].todo = {}
      /\ \A w, v \in Workers : inbox'[w] \cap recl'[v].todo = {}
  BY <1>1
<1>4. /\ \A t \in tasks' : \A w \in Workers : t.m \notin inbox'[w] /\ t.m \notin recl'[w].todo
      /\ \A t, u \in tasks' : t.m = u.m => t = u
  BY <1>1
<1> QED BY <1>2, <1>3, <1>4 DEF Exclusive

\* Every step keeps a message in one hand: a read hands out what nobody had, a sweep what
\* is idle.
LEMMA ExclusiveStep ==
    ASSUME QueueInv, Exclusive, Next
    PROVE  Exclusive'
<1>0. MessagesOK /\ NodesOK /\ CountsOK /\ IsFiniteSet(tasks)
  BY TypeParts DEF QueueInv, Held
<1>1. /\ recl \in [Workers -> SweepType] /\ inbox \in [Workers -> SUBSET MsgIds]
      /\ \A w \in Workers : recl[w].todo \subseteq MsgIds
  BY <1>0 DEF NodesOK, SweepType
<1>2. ASSUME Counted PROVE struck \subseteq struck'
  BY <1>0, <1>2, StepCases, CountsType
<1>3. ASSUME UNCHANGED <<inbox, tasks, recl>>, idle' \subseteq idle, Counted PROVE Exclusive'
  BY <1>2, <1>3, ExclusiveShrinks
<1>4. ASSUME NEW s \in Subs, GatewayStep(s) PROVE Exclusive'
  <2>1. UNCHANGED <<inbox, tasks, recl, idle>> /\ Counted
    BY <1>4, GatewayEffect
  <2> QED BY <1>3, <2>1
<1>5. CASE ExpireStep
  BY <1>3, <1>5, ExpireEffect
<1>6. ASSUME NEW m \in MsgIds, GrowIdle(m) PROVE Exclusive'
  <2>1. UNCHANGED <<inbox, tasks, recl>> /\ idle' = idle \cup {m} /\ Counted
    BY <1>0, <1>6, GrowIdleType DEF nodes
  <2>2. Orphan(m) \/ "slow" \in struck'
    BY <1>6 DEF GrowIdle, Fault
  <2>3. CASE "slow" \notin struck'
    <3>1. "slow" \notin struck
      BY <1>2, <2>1, <2>3
    <3>2. \A k \in idle' : Orphan(k)'
      BY <2>1, <2>2, <2>3, <3>1 DEF Exclusive, Orphan
    <3> QED BY <2>1, <3>1, <3>2 DEF Exclusive
  <2> QED BY <2>3 DEF Exclusive
<1>7. CASE RedisWipe
  BY <1>3, <1>7 DEF RedisWipe, nodes, Counted, Fault
<1>8. ASSUME NEW w \in Workers, NodeStep(w) PROVE Exclusive'
  <2>0. Counted /\ struck \subseteq struck'
    BY <1>2, <1>8, NodeEffect
  <2>1. CASE StartNode(w) \/ Reconnect(w)
    BY <1>3, <2>0, <2>1 DEF StartNode, Reconnect, nodes
  <2>2. CASE ReadNew(w)
    <3> SUFFICES ASSUME "slow" \notin struck' PROVE Exclusive'
      BY DEF Exclusive
    <3>1. /\ inbox[w] = {} /\ UNCHANGED <<idle, tasks, recl>>
          /\ inbox' = [inbox EXCEPT ![w] = Batch(w)] \/ inbox' = inbox
      BY <2>2, ReadNewEffect
    <3>2. Batch(w) \subseteq MsgIds /\ \A m \in Batch(w) : m \notin Passed
      BY <1>0, <2>2, BatchType DEF Passed, MessagesOK
    <3>3. /\ \A v \in Workers : inbox[v] \cap Batch(w) = {} /\ recl[v].todo \cap Batch(w) = {}
          /\ \A t \in tasks : t.m \notin Batch(w)
          /\ idle \cap Batch(w) = {}
      BY <1>0, <3>2 DEF QueueInv, Held, MessagesOK
    <3>4. /\ \A v \in Workers \ {w} : inbox'[v] = inbox[v]
          /\ inbox'[w] \subseteq Batch(w)
      BY <1>1, <3>1
    <3>5. \A m \in idle' : Orphan(m)'
      BY <2>0, <3>1, <3>3, <3>4 DEF Exclusive, Orphan
    <3> QED BY <2>0, <3>1, <3>3, <3>4, <3>5 DEF Exclusive
  <2>3. CASE Dispatch(w)
    <3> SUFFICES ASSUME "slow" \notin struck' PROVE Exclusive'
      BY DEF Exclusive
    <3> DEFINE m == First(inbox[w])
               n == NewTask(w, m)
    <3>1. m \in inbox[w]
      BY <1>1, <2>3, FirstOfIds DEF Dispatch
    <3>2. /\ inbox' = [inbox EXCEPT ![w] = @ \ {m}] /\ UNCHANGED <<idle, recl>>
          /\ tasks' = tasks \/ tasks' = tasks \cup {n}
      BY <2>3 DEF Dispatch, redis
    <3>3. n.m = m
      BY DEF NewTask
    <3> HIDE DEF m, n
    <3>4. /\ \A v \in Workers \ {w} : inbox'[v] = inbox[v]
          /\ inbox'[w] = inbox[w] \ {m}
      BY <1>1, <3>2
    <3>5. /\ \A v \in Workers : m \notin inbox'[v] /\ m \notin recl[v].todo
          /\ \A t \in tasks : t.m # m
      BY <2>0, <3>1, <3>4 DEF Exclusive
    <3>6. m \notin idle
      BY <2>0, <3>1 DEF Exclusive, Orphan
    <3>7. \A k \in idle' : Orphan(k)'
      BY <2>0, <3>2, <3>3, <3>4, <3>6 DEF Exclusive, Orphan
    <3> QED BY <2>0, <3>2, <3>3, <3>4, <3>5, <3>7 DEF Exclusive
  <2>4. CASE SweepClaim(w)
    <3> SUFFICES ASSUME "slow" \notin struck' PROVE Exclusive'
      BY DEF Exclusive
    <3>1. /\ recl[w].todo = {} /\ idle' = idle \ Claimed(w)
          /\ Kept(w) \subseteq idle /\ Kept(w) \subseteq Claimed(w)
          /\ recl'[w].todo \subseteq Kept(w)
          /\ \A v \in Workers \ {w} : recl'[v] = recl[v]
          /\ UNCHANGED <<inbox, tasks>>
      BY <1>1, <2>4, SweepClaimEffect DEF Kept, QueueInv, Shape
    <3>2. /\ \A v \in Workers : inbox[v] \cap Kept(w) = {} /\ recl[v].todo \cap Kept(w) = {}
          /\ \A t \in tasks : t.m \notin Kept(w)
      BY <2>0, <3>1 DEF Exclusive, Orphan
    <3>3. \A k \in idle' : Orphan(k)'
      BY <2>0, <3>1 DEF Exclusive, Orphan
    <3> QED BY <2>0, <3>1, <3>2, <3>3 DEF Exclusive
  <2>5. ASSUME UNCHANGED <<inbox, tasks>>, idle' \subseteq idle,
               \A v \in Workers : recl'[v].todo = recl[v].todo
        PROVE  Exclusive'
    BY <2>0, <2>5, ExclusiveShrinks
  <2>6. ASSUME UNCHANGED <<inbox, tasks>>, idle' \subseteq idle, SweepNext(w) PROVE Exclusive'
    <3>1. \A v \in Workers : recl'[v].todo \subseteq recl[v].todo
      BY <1>1, <2>6, SweepNextEffect
    <3> QED BY <2>0, <2>6, <3>1, ExclusiveShrinks
  <2>8. CASE SweepNoGroup(w)
    <3>1. /\ UNCHANGED <<inbox, tasks, idle>>
          /\ \A v \in Workers : recl'[v].todo = recl[v].todo
      BY <1>1, <2>8 DEF SweepNoGroup, redis, SweepType
    <3> QED BY <2>5, <3>1
  <2>9. CASE SweepDiscard(w)
    BY <2>6, <2>9 DEF SweepDiscard
  <2>10. CASE SweepGet(w)
    <3>1. SweepTo(w, "del") \/ SweepTo(w, "rerun")
      BY <2>10 DEF SweepGet
    <3>2. \A v \in Workers : recl'[v].todo = recl[v].todo
      BY <1>1, <3>1, SweepToEffect
    <3> QED BY <2>5, <2>10, <3>2 DEF SweepGet, redis
  <2>11. CASE SweepRerun(w)
    <3> SUFFICES ASSUME "slow" \notin struck' PROVE Exclusive'
      BY DEF Exclusive
    <3> DEFINE m == First(recl[w].todo)
               n == NewTask(w, m)
    <3>1. /\ UNCHANGED <<inbox, idle>> /\ SweepNext(w) /\ recl[w].pc = "rerun"
          /\ tasks' = tasks \cup {n}
      BY <2>11 DEF SweepRerun, redis
    <3>2. n.m = m
      BY DEF NewTask
    <3>3. m \in recl[w].todo
      BY <1>1, <3>1, FirstOfIds DEF QueueInv, Shape
    <3>4. /\ recl'[w].todo = recl[w].todo \ {m}
          /\ \A v \in Workers \ {w} : recl'[v] = recl[v]
      BY <1>1, <3>1, SweepNextEffect
    <3> HIDE DEF m, n
    <3>5. /\ \A v \in Workers : m \notin inbox[v] /\ m \notin recl'[v].todo
          /\ \A t \in tasks : t.m # m
      BY <2>0, <3>3, <3>4 DEF Exclusive
    <3>6. m \notin idle
      BY <2>0, <3>3 DEF Exclusive, Orphan
    <3>7. \A k \in idle' : Orphan(k)'
      BY <2>0, <3>1, <3>2, <3>4, <3>6 DEF Exclusive, Orphan
    <3> QED BY <2>0, <3>1, <3>2, <3>4, <3>5, <3>7 DEF Exclusive
  <2>12. CASE AckDel(w)
    <3>1. \A v \in Workers : recl'[v].todo = recl[v].todo
      BY <1>1, <2>12, SweepToEffect DEF AckDel
    <3> QED BY <2>5, <2>12, <3>1 DEF AckDel
  <2>13. CASE AckAck(w)
    <3>1. \A v \in Workers : recl'[v].todo = recl[v].todo
      BY <1>1, <2>13, SweepToEffect DEF AckAck
    <3> QED BY <2>5, <2>13, <3>1 DEF AckAck
  <2>14. CASE AckBell(w)
    BY <2>6, <2>14 DEF AckBell, redis
  <2>15. CASE AckDrop(w)
    <3>1. UNCHANGED <<inbox, tasks, idle>>
      BY <2>15 DEF AckDrop, redis
    <3>2. CASE SweepNext(w)
      BY <2>6, <3>1, <3>2
    <3>3. CASE recl' = [recl EXCEPT ![w].pc = "del", ![w].tries = @ + 1]
      <4>1. \A v \in Workers : recl'[v].todo = recl[v].todo
        BY <1>1, <3>3 DEF SweepType
      <4> QED BY <2>5, <3>1, <4>1
    <3> QED BY <2>15, <3>2, <3>3 DEF AckDrop
  <2>16. CASE Crash(w)
    <3>1. /\ UNCHANGED idle /\ tasks' \subseteq tasks
          /\ inbox' = [inbox EXCEPT ![w] = {}] /\ recl' = [recl EXCEPT ![w] = SweepIdle]
      BY <2>16 DEF Crash, redis
    <3>2. SweepIdle.todo = {}
      BY DEF SweepIdle
    <3>3. \A v \in Workers : inbox'[v] \subseteq inbox[v] /\ recl'[v].todo \subseteq recl[v].todo
      BY <1>1, <3>1, <3>2
    <3> QED BY <2>0, <3>1, <3>3, ExclusiveShrinks
  <2> QED BY <1>8, <2>1, <2>2, <2>3, <2>4, <2>8, <2>9, <2>10, <2>11, <2>12, <2>13, <2>14,
             <2>15, <2>16 DEF NodeStep, ReadLoop, Sweep
<1>9. ASSUME NEW t \in tasks, TaskStep(t) PROVE Exclusive'
  <2>1. UNCHANGED <<inbox, recl>> /\ idle' \subseteq idle /\ struck \subseteq struck'
    BY <1>2, <1>9, TaskEffect
  <2>2. CASE tasks' = tasks \ {t}
    BY <2>1, <2>2, ExclusiveShrinks
  <2>3. ASSUME NEW u \in TaskType, tasks' = (tasks \ {t}) \cup {u}, u.m = t.m PROVE Exclusive'
    <3> SUFFICES ASSUME "slow" \notin struck' PROVE Exclusive'
      BY DEF Exclusive
    <3>1. \A k \in idle' : Orphan(k)'
      BY <2>1, <2>3 DEF Exclusive, Orphan
    <3>2. \A x, y \in tasks' : x.m = y.m => x = y
      BY <2>1, <2>3 DEF Exclusive
    <3> QED BY <2>1, <2>3, <3>1, <3>2 DEF Exclusive
  <2> QED BY <1>0, <1>9, <2>2, <2>3, TaskReplaced
<1> QED BY <1>4, <1>5, <1>6, <1>7, <1>8, <1>9, StepCases

\* A set all of whose elements are equal has at most one.
LEMMA AtMostOne ==
    ASSUME NEW S, \A x, y \in S : x = y
    PROVE  IsFiniteSet(S) /\ Cardinality(S) \in {0, 1} /\ (S = {} => Cardinality(S) = 0)
<1>1. CASE S = {}
  BY <1>1, FS_EmptySet
<1>2. ASSUME NEW x \in S PROVE IsFiniteSet(S) /\ Cardinality(S) = 1 /\ S # {}
  <2>1. S = {x}
    BY <1>2
  <2> QED BY <2>1, FS_Singleton
<1> QED BY <1>1, <1>2

\* Where no two hands hold a message, it has at most one holder.
LEMMA ExclusiveHolders ==
    ASSUME Exclusive, "slow" \notin struck, NEW m \in MsgIds
    PROVE  Cardinality(Holders(m)) <= 1
<1>1. \A x, y \in Holders(m) : x = y
  <2> DEFINE A == {<<"inbox", w, 0>> : w \in {w \in Workers : m \in inbox[w]}}
             B == {<<"sweep", w, 0>> : w \in {w \in Workers : m \in recl[w].todo}}
             C == {<<"task", t.w, t.n>> : t \in {t \in tasks : t.m = m}}
  <2>1. \A x, y \in A : x = y
    BY DEF Exclusive
  <2>2. \A x, y \in B : x = y
    BY DEF Exclusive
  <2>3. \A x, y \in C : x = y
    BY DEF Exclusive
  <2>4. (A = {} \/ B = {}) /\ (A = {} \/ C = {}) /\ (B = {} \/ C = {})
    BY DEF Exclusive
  <2>5. Holders(m) = A \cup B \cup C
    BY DEF Holders
  <2> HIDE DEF A, B, C
  <2> QED BY <2>1, <2>2, <2>3, <2>4, <2>5
<1>2. Cardinality(Holders(m)) \in {0, 1}
  BY <1>1, AtMostOne
<1> QED BY <1>2

\* Exclusive holds in every behaviour.
LEMMA ExclusiveInvariant == Spec => []Exclusive
<1>1. Init => Exclusive
  <2> SUFFICES ASSUME Init PROVE Exclusive
    OBVIOUS
  <2>1. /\ idle = {} /\ tasks = {} /\ \A w \in Workers : inbox[w] = {} /\ recl[w].todo = {}
    BY DEF Init, SweepIdle
  <2> QED BY <2>1 DEF Exclusive
<1>2. QueueInv /\ Exclusive /\ [Next]_vars => Exclusive'
  <2> SUFFICES ASSUME QueueInv, Exclusive, [Next]_vars PROVE Exclusive'
    OBVIOUS
  <2>1. CASE UNCHANGED vars
    <3>1. UNCHANGED <<inbox, tasks, recl, idle, struck>>
      BY <2>1 DEF vars, moving, redis, nodes
    <3> QED BY <3>1, ExclusiveShrinks
  <2> QED BY <2>1, ExclusiveStep
<1> QED BY <1>1, <1>2, QueueInvariant, PTL DEF Spec

\* ExclusiveDelivery for every instance: a message is in one batch, one sweep list or one
\* task of one node at a time, unless a job outlived min_idle_ms (redis.rs).
THEOREM QueueDeliversExclusively == Spec => []ExclusiveDelivery
<1>1. Exclusive => ExclusiveDelivery
  BY ExclusiveHolders DEF ExclusiveDelivery
<1> QED BY <1>1, ExclusiveInvariant, PTL

(***************************************************************************)
(* Keys: who stores, deletes and clears them.                              *)
(***************************************************************************)
\* A handler clears a result when it starts, claims the marker, and drops it on a rollback.
LEMMA GatewayKeys ==
    ASSUME KeysOK, HandlersOK, NEW s \in Subs, GatewayStep(s)
    PROVE  /\ \/ UNCHANGED results
              \/ /\ sub[s] = "new" /\ sub'[s] = "claim"
                 /\ results' = [results EXCEPT ![JobOf[s]] = None]
           /\ \A j \in Jobs : pending[j] =>
                 (pending'[j] \/ (j = JobOf[s] /\ sub[s] = "rollback" /\ sub'[s] = "local"))
           /\ sub'[s] = "add" => /\ sub[s] = "claim" /\ ~pending[JobOf[s]]
                                 /\ pending'[JobOf[s]] /\ UNCHANGED <<results, stream>>
           /\ sub'[s] = "wait" => sub[s] = "add" /\ UNCHANGED <<results, pending>> /\ Xadd(s)
           /\ sub'[s] = "queued" => sub[s] = "wait" /\ UNCHANGED <<results, pending>>
<1>0. /\ JobOf[s] \in Jobs /\ pending \in [Jobs -> BOOLEAN] /\ s \in DOMAIN sub
      /\ \A pc : Goto(s, pc) => sub'[s] = pc
  BY DEF Jobs, KeysOK, HandlersOK, Goto
<1>1. CASE EnqueueDel(s)
  BY <1>0, <1>1 DEF EnqueueDel
<1>2. CASE EnqueueClaim(s)
  BY <1>0, <1>2 DEF EnqueueClaim
<1>3. CASE EnqueueAdd(s)
  BY <1>0, <1>3 DEF EnqueueAdd
<1>4. CASE EnqueueRollback(s)
  BY <1>0, <1>4 DEF EnqueueRollback
<1>5. CASE SubmitLocal(s)
  BY <1>0, <1>5 DEF SubmitLocal, redis
<1>6. CASE AsyncReply(s)
  BY <1>0, <1>6 DEF AsyncReply, redis
<1>7. CASE EnqueueClaimFails(s)
  BY <1>0, <1>7 DEF EnqueueClaimFails
<1>8. CASE EnqueueAddFails(s)
  BY <1>0, <1>8 DEF EnqueueAddFails
<1>9. CASE Cancel(s)
  BY <1>0, <1>9 DEF Cancel, redis
<1>10. CASE WaitGet(s)
  BY <1>0, <1>10 DEF WaitGet, redis
<1>11. CASE WaitTimeout(s)
  BY <1>0, <1>11 DEF WaitTimeout, redis
<1> QED BY <1>1, <1>2, <1>3, <1>4, <1>5, <1>6, <1>7, <1>8, <1>9, <1>10, <1>11
        DEF GatewayStep, Enqueue, EnqueueFault, Wait

\* A node stores no result, and deletes a marker only when it re-acknowledges.
LEMMA NodeKeys ==
    ASSUME NEW w \in Workers, NodeStep(w)
    PROVE  /\ UNCHANGED results
           /\ \/ UNCHANGED pending
              \/ /\ recl[w].pc = "del"
                 /\ pending' = [pending EXCEPT ![JobOfMsg(First(recl[w].todo))] = FALSE]
<1>1. UNCHANGED results
  BY DEF NodeStep, ReadLoop, Sweep, StartNode, Reconnect, ReadNew, Dispatch, SweepClaim,
         SweepNoGroup, SweepDiscard, SweepGet, SweepRerun, AckDel, AckAck, AckBell,
         AckDrop, Crash, redis
<1>2. AckDel(w) \/ UNCHANGED pending
  BY DEF NodeStep, ReadLoop, Sweep, StartNode, Reconnect, ReadNew, Dispatch, SweepClaim,
         SweepNoGroup, SweepDiscard, SweepGet, SweepRerun, AckAck, AckBell,
         AckDrop, Crash, redis
<1> QED BY <1>1, <1>2 DEF AckDel

\* A task stores its result at set, deletes the marker at del, and goes on in that order.
LEMMA TaskKeys ==
    ASSUME NodesOK, NEW t \in tasks, TaskStep(t)
    PROVE  /\ \/ UNCHANGED results
              \/ /\ t.pc = "set" /\ results' = [results EXCEPT ![JobOfMsg(t.m)] = stream[t.m]]
                 /\ UNCHANGED pending
           /\ \/ UNCHANGED pending
              \/ /\ t.pc = "del" /\ pending' = [pending EXCEPT ![JobOfMsg(t.m)] = FALSE]
                 /\ TaskTo(t, "ack")
           /\ \A u \in tasks' \ tasks :
                 /\ u.m = t.m
                 /\ u.pc = "del" => PublishSet(t)
                 /\ u.pc \in {"ack", "bell"} => (t.pc \in {"del", "ack"} /\ UNCHANGED results)
<1>0. t \in TaskType
  BY DEF NodesOK
<1>1. ASSUME NEW pc \in {"run", "set", "del", "ack", "bell"}, TaskTo(t, pc)
      PROVE  \A u \in tasks' \ tasks : u.m = t.m /\ u.pc = pc
  <2>1. [t EXCEPT !.pc = pc].m = t.m /\ [t EXCEPT !.pc = pc].pc = pc
    BY <1>0, TaskMoves
  <2> QED BY <1>1, <2>1 DEF TaskTo
<1>2. CASE RunJob(t)
  BY <1>1, <1>2 DEF RunJob, redis
<1>3. CASE PublishSet(t)
  BY <1>1, <1>3 DEF PublishSet
<1>4. CASE PublishDel(t)
  BY <1>1, <1>4 DEF PublishDel
<1>5. CASE PublishAck(t)
  BY <1>1, <1>5 DEF PublishAck
<1>6. CASE PublishBell(t)
  BY <1>6 DEF PublishBell, redis, TaskEnds
<1>7. CASE PublishDrop(t)
  <2>1. UNCHANGED <<results, pending>>
    BY <1>7 DEF PublishDrop, redis
  <2>2. \A u \in tasks' \ tasks : u.m = t.m /\ u.pc = "set"
    <3>1. CASE TaskEnds(t)
      BY <3>1 DEF TaskEnds
    <3>2. CASE /\ t.tries # MaxAttempts
               /\ tasks' = (tasks \ {t}) \cup {[t EXCEPT !.pc = "set", !.tries = @ + 1]}
      BY <1>0, <3>2, TaskRetries
    <3> QED BY <1>7, <3>1, <3>2 DEF PublishDrop
  <2> QED BY <2>1, <2>2
<1> QED BY <1>2, <1>3, <1>4, <1>5, <1>6, <1>7 DEF TaskStep, Publish

\* A sweep that re-acknowledges goes on with its message, or has just found the result.
Reacks(v) == /\ recl'[v].todo = recl[v].todo /\ recl[v].pc # "sleep"
             /\ \/ recl[v].pc \in {"del", "ack", "bell"}
                \/ results[JobOfMsg(First(recl[v].todo))] # None

\* A sweep gets to re-acknowledge only through a result that it found.
LEMMA SweepMoves ==
    ASSUME recl \in [Workers -> SweepType], NEW w \in Workers, NodeStep(w), NEW v \in Workers,
           recl'[v].pc \in {"del", "ack", "bell"}
    PROVE  Reacks(v)
<1>1. CASE recl'[v] = recl[v]
  BY <1>1 DEF Reacks
<1>2. CASE UNCHANGED recl
  BY <1>2 DEF Reacks
<1>3. CASE SweepClaim(w)
  <2>1. /\ recl[w].pc = "sleep" /\ \A x \in Workers \ {w} : recl'[x] = recl[x]
        /\ recl'[w].pc \in {"sleep", "get"}
    BY <1>3, SweepClaimEffect
  <2> QED BY <1>1, <2>1
<1>4. CASE SweepNoGroup(w)
  <2>1. /\ recl[w].pc = "sleep" /\ recl' = [recl EXCEPT ![w].cursor = 0]
    BY <1>4 DEF SweepNoGroup
  <2>2. recl'[w].pc = "sleep" /\ \A x \in Workers \ {w} : recl'[x] = recl[x]
    BY <2>1 DEF SweepType
  <2> QED BY <1>1, <2>2
<1>5. CASE SweepNext(w)
  <2>1. /\ recl'[w].pc \in {"sleep", "get"} /\ \A x \in Workers \ {w} : recl'[x] = recl[x]
    BY <1>5, SweepNextEffect
  <2> QED BY <1>1, <2>1
<1>6. ASSUME NEW pc \in {"rerun", "del", "ack", "bell"}, SweepTo(w, pc),
             pc # "rerun" => /\ recl[w].pc # "sleep"
                             /\ \/ recl[w].pc \in {"del", "ack", "bell"}
                                \/ results[JobOfMsg(First(recl[w].todo))] # None
      PROVE  Reacks(v)
  <2>1. /\ recl'[w].pc = pc /\ recl'[w].todo = recl[w].todo
        /\ \A x \in Workers \ {w} : recl'[x] = recl[x]
    BY <1>6, SweepToEffect
  <2> QED BY <1>1, <1>6, <2>1 DEF Reacks
<1>7. CASE SweepGet(w)
  BY <1>6, <1>7 DEF SweepGet
<1>8. CASE AckDel(w)
  BY <1>6, <1>8 DEF AckDel
<1>9. CASE AckAck(w)
  BY <1>6, <1>9 DEF AckAck
<1>10. CASE AckDrop(w)
  <2>1. CASE recl' = [recl EXCEPT ![w].pc = "del", ![w].tries = @ + 1]
    <3>1. /\ recl'[w].todo = recl[w].todo /\ recl[w].pc \in {"del", "ack", "bell"}
          /\ \A x \in Workers \ {w} : recl'[x] = recl[x]
      BY <1>10, <2>1 DEF AckDrop, SweepType
    <3> QED BY <1>1, <3>1 DEF Reacks
  <2> QED BY <1>5, <1>10, <2>1 DEF AckDrop
<1>11. CASE Crash(w)
  <2>1. recl'[w].pc = "sleep" /\ \A x \in Workers \ {w} : recl'[x] = recl[x]
    BY <1>11 DEF Crash, SweepIdle
  <2> QED BY <1>1, <2>1
<1>12. \/ UNCHANGED recl \/ SweepNext(w) \/ SweepClaim(w) \/ SweepNoGroup(w) \/ SweepGet(w)
       \/ AckDel(w) \/ AckAck(w) \/ AckDrop(w) \/ Crash(w)
  BY DEF NodeStep, ReadLoop, Sweep, StartNode, Reconnect, ReadNew, Dispatch, SweepDiscard,
         SweepRerun, AckBell, nodes
<1> QED BY <1>2, <1>3, <1>4, <1>5, <1>7, <1>8, <1>9, <1>10, <1>11, <1>12

\* Nodes start tasks, and end them only by dying.
LEMMA NodeTasks ==
    ASSUME NEW w \in Workers, NodeStep(w)
    PROVE  \A u \in tasks' \ tasks : u.pc = "run"
<1>1. \A m : NewTask(w, m).pc = "run"
  BY DEF NewTask
<1>2. \/ tasks' \subseteq tasks \/ \E m : tasks' = tasks \cup {NewTask(w, m)}
  BY DEF NodeStep, ReadLoop, Sweep, StartNode, Reconnect, ReadNew, Dispatch, SweepClaim,
         SweepNoGroup, SweepDiscard, SweepGet, SweepRerun, AckDel, AckAck, AckBell,
         AckDrop, Crash, nodes
<1> QED BY <1>1, <1>2

(***************************************************************************)
(* Stored before acknowledged, for job ids that are submitted once.        *)
(***************************************************************************)
\* While no key is lost, only a new submission of the same id clears a result.
LEMMA ResultsStay ==
    ASSUME QueueInv, OneIdEach, Next, KeysKept'
    PROVE  \A m \in 1 .. Len(stream) :
              /\ stream'[m] = stream[m] /\ JobOf[stream[m]] \in Jobs
              /\ results[JobOf[stream[m]]] # None => results'[JobOf[stream[m]]] # None
<1>0. MessagesOK /\ KeysOK /\ HandlersOK /\ NodesOK /\ IsFiniteSet(tasks)
  BY TypeParts DEF QueueInv, Held
<1>1. \A m \in 1 .. Len(stream) : stream'[m] = stream[m]
  BY <1>0, PassedGrows
<1>2. \A m \in 1 .. Len(stream) : stream[m] \in Subs /\ JobOf[stream[m]] \in Jobs
  BY <1>0 DEF MessagesOK, Jobs
<1>3. ASSUME UNCHANGED results
      PROVE  \A m \in 1 .. Len(stream) :
                results[JobOf[stream[m]]] # None => results'[JobOf[stream[m]]] # None
  BY <1>3
<1>4. ASSUME NEW s \in Subs, GatewayStep(s)
      PROVE  \A m \in 1 .. Len(stream) :
                results[JobOf[stream[m]]] # None => results'[JobOf[stream[m]]] # None
  <2>1. CASE sub[s] = "new" /\ results' = [results EXCEPT ![JobOf[s]] = None]
    <3>1. \A m \in 1 .. Len(stream) : stream[m] # s
      BY <2>1 DEF QueueInv, Added
    <3>2. \A m \in 1 .. Len(stream) : JobOf[stream[m]] # JobOf[s]
      BY <1>2, <3>1 DEF OneIdEach
    <3> QED BY <1>0, <1>2, <2>1, <3>2 DEF KeysOK
  <2> QED BY <1>0, <1>3, <1>4, <2>1, GatewayKeys
<1>5. ~ExpireStep /\ ~RedisWipe
  BY DEF ExpireStep, ExpirePending, ExpireResult, RedisWipe, Fault, KeysKept
<1>6. ASSUME NEW m \in MsgIds, GrowIdle(m) PROVE UNCHANGED results
  BY <1>6 DEF GrowIdle
<1>7. ASSUME NEW w \in Workers, NodeStep(w) PROVE UNCHANGED results
  BY <1>7, NodeKeys
<1>8. ASSUME NEW t \in tasks, TaskStep(t)
      PROVE  \A m \in 1 .. Len(stream) :
                results[JobOf[stream[m]]] # None => results'[JobOf[stream[m]]] # None
  <2>1. t.m \in 1 .. Len(stream)
    BY DEF QueueInv, Held, Passed
  <2>2. CASE results' = [results EXCEPT ![JobOfMsg(t.m)] = stream[t.m]]
    BY <1>0, <1>2, <2>1, <2>2, SubsAssumption DEF KeysOK
  <2> QED BY <1>0, <1>3, <1>8, <2>2, TaskKeys
<1>9. \A m \in 1 .. Len(stream) :
         results[JobOf[stream[m]]] # None => results'[JobOf[stream[m]]] # None
  BY <1>3, <1>4, <1>5, <1>6, <1>7, <1>8, StepCases
<1> QED BY <1>1, <1>2, <1>9

\* Keys that are kept after a step were kept before it.
LEMMA KeysKeptBefore ==
    ASSUME CountsOK, Next, KeysKept'
    PROVE  KeysKept
<1>1. Counted
  <2>1. ASSUME NEW m \in MsgIds, GrowIdle(m) PROVE Counted
    BY <2>1 DEF GrowIdle, Counted, Fault
  <2>2. CASE RedisWipe
    BY <2>2 DEF RedisWipe, Counted, Fault
  <2> QED BY <2>1, <2>2, StepCases, GatewayEffect, ExpireEffect, NodeEffect, TaskEffect
<1>2. struck \subseteq struck'
  BY <1>1, StepCases, CountsType
<1> QED BY <1>2 DEF KeysKept

\* Stored is inductive for job ids that are submitted once.
LEMMA StoredStep ==
    ASSUME QueueInv, OneIdEach, Stored, Next
    PROVE  Stored'
<1> SUFFICES ASSUME KeysKept' PROVE Stored'
  BY DEF Stored
<1>0. MessagesOK /\ KeysOK /\ NodesOK /\ CountsOK /\ recl \in [Workers -> SweepType]
  BY TypeParts DEF QueueInv, NodesOK
<1>1. KeysKept
  BY <1>0, KeysKeptBefore
<1>2. \A m \in 1 .. Len(stream) :
         /\ stream'[m] = stream[m] /\ JobOf[stream[m]] \in Jobs
         /\ results[JobOf[stream[m]]] # None => results'[JobOf[stream[m]]] # None
  BY ResultsStay
<1>3. /\ \A t \in tasks : t.m \in 1 .. Len(stream)
      /\ \A w \in Workers : recl[w].pc # "sleep" => First(recl[w].todo) \in 1 .. Len(stream)
  <2>1. \A w \in Workers : recl[w].todo \subseteq MsgIds /\ recl[w].todo \subseteq 1 .. Len(stream)
    BY <1>0 DEF SweepType, QueueInv, Held, Passed
  <2> QED BY <2>1, FirstOfIds DEF QueueInv, Held, Passed, Shape
<1>4. /\ \A t \in tasks : t.pc \in {"del", "ack", "bell"} => results[JobOf[stream[t.m]]] # None
      /\ \A w \in Workers : recl[w].pc \in {"del", "ack", "bell"} =>
                                results[JobOf[stream[First(recl[w].todo)]]] # None
  BY <1>1 DEF Stored, JobOfMsg
<1>5. ASSUME NEW t \in tasks', t.pc \in {"del", "ack", "bell"}
      PROVE  results'[JobOf[stream'[t.m]]] # None
  <2>1. CASE t \in tasks
    BY <1>2, <1>3, <1>4, <1>5, <2>1
  <2>2. ASSUME t \notin tasks, NEW u \in tasks, TaskStep(u)
        PROVE  results'[JobOf[stream'[t.m]]] # None
    <3>1. /\ t.m = u.m /\ (t.pc = "del" => PublishSet(u))
          /\ t.pc \in {"ack", "bell"} => u.pc \in {"del", "ack"}
      BY <1>0, <2>2, TaskKeys
    <3>2. CASE PublishSet(u)
      <4>1. results' = [results EXCEPT ![JobOf[stream[u.m]]] = stream[u.m]]
        BY <3>2 DEF PublishSet, JobOfMsg
      <4>2. stream[u.m] \in Subs /\ DOMAIN results = Jobs
        BY <1>0, <1>3 DEF MessagesOK, KeysOK
      <4> QED BY <1>2, <1>3, <3>1, <4>1, <4>2, SubsAssumption
    <3>3. CASE u.pc \in {"del", "ack"}
      BY <1>2, <1>3, <1>4, <3>1, <3>3
    <3> QED BY <1>5, <3>1, <3>2, <3>3
  <2>3. ASSUME NEW w \in Workers, NodeStep(w) PROVE t \in tasks
    BY <1>5, <2>3, NodeTasks
  <2>4. ASSUME NEW m \in MsgIds, GrowIdle(m) PROVE t \in tasks
    BY <2>4 DEF GrowIdle, nodes
  <2>5. CASE RedisWipe
    BY <2>1, <2>5 DEF RedisWipe, nodes
  <2>6. CASE ExpireStep
    BY <2>1, <2>6, ExpireEffect
  <2>7. ASSUME NEW s \in Subs, GatewayStep(s) PROVE t \in tasks
    BY <2>7, GatewayEffect
  <2> QED BY <2>1, <2>2, <2>3, <2>4, <2>5, <2>6, <2>7, StepCases
<1>6. ASSUME NEW v \in Workers, recl'[v].pc \in {"del", "ack", "bell"}
      PROVE  results'[JobOf[stream'[First(recl'[v].todo)]]] # None
  <2>1. CASE recl' = recl
    BY <1>2, <1>3, <1>4, <1>6, <2>1
  <2>2. ASSUME NEW w \in Workers, NodeStep(w)
        PROVE  results'[JobOf[stream'[First(recl'[v].todo)]]] # None
    <3>1. Reacks(v)
      BY <1>0, <1>6, <2>2, SweepMoves
    <3>2. /\ recl'[v].todo = recl[v].todo
          /\ results[JobOf[stream[First(recl[v].todo)]]] # None
          /\ First(recl[v].todo) \in 1 .. Len(stream)
      BY <1>3, <1>4, <3>1 DEF Reacks, JobOfMsg
    <3> QED BY <1>2, <3>2
  <2>3. ASSUME NEW t \in tasks, TaskStep(t) PROVE recl' = recl
    BY <2>3, TaskEffect
  <2>4. ASSUME NEW m \in MsgIds, GrowIdle(m) PROVE recl' = recl
    BY <2>4 DEF GrowIdle, nodes
  <2>5. RedisWipe => recl' = recl
    BY DEF RedisWipe, nodes
  <2>6. ExpireStep => recl' = recl
    BY ExpireEffect
  <2>7. ASSUME NEW s \in Subs, GatewayStep(s) PROVE recl' = recl
    BY <2>7, GatewayEffect
  <2> QED BY <2>1, <2>2, <2>3, <2>4, <2>5, <2>6, <2>7, StepCases
<1> QED BY <1>5, <1>6 DEF Stored, JobOfMsg

\* What a node takes off the PEL: payloads that are gone or garbled, and what its sweep
\* acknowledges.  What it reads it puts there.
LEMMA NodeDelivers ==
    ASSUME MessagesOK, IsFiniteSet(tasks), recl \in [Workers -> SweepType],
           NEW w \in Workers, NodeStep(w), group # -1
    PROVE  /\ group' # -1
           /\ \A m \in 1 .. Len(stream) :
                 (m > floor /\ m <= group' /\ m \notin pel' /\ Valid(m)) =>
                    \/ m <= group /\ m \notin pel
                    \/ recl[w].pc = "ack" /\ m = First(recl[w].todo)
<1>0. Len(stream) \in Nat /\ group \in Int /\ floor \in Int
  BY DEF MessagesOK
<1>1. CASE group' = group /\ pel' = pel
  BY <1>1
<1>2. CASE StartNode(w) \/ Reconnect(w)
  BY <1>1, <1>2 DEF StartNode, Reconnect, CreateGroup
<1>3. CASE ReadNew(w)
  <2>1. pel' = pel \cup Batch(w) /\ floor' = floor
    BY <1>3, ReadNewEffect
  <2>2. /\ group' \in 0 .. Len(stream)
        /\ \A m \in 1 .. Len(stream) :
              (m <= group' \/ m <= floor') <=> (m <= group \/ m <= floor \/ m \in Batch(w))
    BY <1>3, BatchType
  <2> QED BY <1>0, <2>1, <2>2
<1>4. CASE SweepClaim(w)
  <2>1. group' = group /\ pel' = pel \ (Claimed(w) \ Kept(w))
    BY <1>4, SweepClaimEffect
  <2>2. \A m \in Claimed(w) : m > floor => m \in Kept(w)
    BY DEF Kept
  <2> QED BY <2>1, <2>2
<1>5. CASE SweepDiscard(w)
  <2>1. /\ group' = group /\ pel \ {First(recl[w].todo)} \subseteq pel'
        /\ ~Valid(First(recl[w].todo))
    BY <1>5 DEF SweepDiscard
  <2> QED BY <2>1
<1>6. CASE AckAck(w)
  BY <1>6 DEF AckAck
<1>7. \/ StartNode(w) \/ Reconnect(w) \/ ReadNew(w) \/ SweepClaim(w) \/ SweepDiscard(w)
      \/ AckAck(w) \/ (group' = group /\ pel' = pel)
  BY DEF NodeStep, ReadLoop, Sweep, Dispatch, SweepNoGroup, SweepGet, SweepRerun, AckDel,
         AckBell, AckDrop, Crash, redis
<1> QED BY <1>1, <1>2, <1>3, <1>4, <1>5, <1>6, <1>7

\* Acked is inductive: what leaves the PEL was stored, discarded or gone.
LEMMA AckedStep ==
    ASSUME QueueInv, OneIdEach, Stored, Acked, Next
    PROVE  Acked'
<1> SUFFICES ASSUME KeysKept' PROVE Acked'
  BY DEF Acked
<1>0. /\ MessagesOK /\ NodesOK /\ CountsOK /\ recl \in [Workers -> SweepType]
      /\ IsFiniteSet(tasks) /\ Len(stream) \in Nat /\ group \in -1 .. Len(stream)
      /\ floor \in 0 .. Len(stream)
  BY TypeParts DEF QueueInv, NodesOK, MessagesOK, Held
<1>1. KeysKept
  BY <1>0, KeysKeptBefore
<1>2. \A m \in 1 .. Len(stream) :
         /\ stream'[m] = stream[m]
         /\ results[JobOf[stream[m]]] # None => results'[JobOf[stream[m]]] # None
  BY ResultsStay
<1>3. /\ group # -1
      /\ \A m \in 1 .. Len(stream) :
            (m > floor /\ m <= group /\ m \notin pel /\ stream[m] \notin Garbled)
                => results[JobOf[stream[m]]] # None
  BY <1>1 DEF Acked, AckedWasReported, Valid, JobOfMsg
<1>4. ASSUME floor' \in Int, floor' >= floor, Len(stream') \in Nat, group' \in Int, group' # -1,
             group' <= Len(stream),
             \A m \in 1 .. Len(stream) :
                (m > floor /\ m <= group' /\ m \notin pel' /\ stream[m] \notin Garbled) =>
                    \/ m <= group /\ m \notin pel
                    \/ results[JobOf[stream[m]]] # None
      PROVE  Acked'
  <2>1. ASSUME NEW m \in 1 .. Len(stream'), m > floor', m <= group', m \notin pel',
               stream'[m] \notin Garbled
        PROVE  results'[JobOf[stream'[m]]] # None
    <3>1. m \in 1 .. Len(stream) /\ m > floor
      BY <1>0, <1>4, <2>1
    <3>2. results[JobOf[stream[m]]] # None
      BY <1>2, <1>3, <1>4, <2>1, <3>1
    <3> QED BY <1>2, <3>1, <3>2
  <2> QED BY <1>4, <2>1 DEF Acked, AckedWasReported, Valid, JobOfMsg
<1>5. ASSUME NEW s \in Subs, GatewayStep(s) PROVE Acked'
  <2>1. group' = group /\ pel' = pel
    BY <1>5, GatewayEffect
  <2>2. floor' \in Int /\ floor' >= floor /\ Len(stream') \in Nat
    <3>1. CASE UNCHANGED <<stream, floor>>
      BY <1>0, <3>1
    <3>2. CASE Xadd(s)
      BY <1>0, <3>2, XaddType
    <3> QED BY <1>5, <3>1, <3>2, GatewayEffect
  <2> QED BY <1>0, <1>3, <1>4, <2>1, <2>2
<1>6. ~ExpireStep /\ ~RedisWipe
  BY DEF ExpireStep, ExpirePending, ExpireResult, RedisWipe, Fault, KeysKept
<1>7. ASSUME NEW m \in MsgIds, GrowIdle(m) PROVE Acked'
  <2>1. UNCHANGED <<stream, floor, group, pel>>
    BY <1>7 DEF GrowIdle
  <2> QED BY <1>0, <1>3, <1>4, <2>1
<1>8. ASSUME NEW w \in Workers, NodeStep(w) PROVE Acked'
  <2>1. UNCHANGED <<stream, floor>>
    BY <1>8, NodeEffect
  <2>2. /\ group' # -1
        /\ \A m \in 1 .. Len(stream) :
              (m > floor /\ m <= group' /\ m \notin pel' /\ stream[m] \notin Garbled) =>
                 \/ m <= group /\ m \notin pel
                 \/ recl[w].pc = "ack" /\ m = First(recl[w].todo)
    BY <1>0, <1>3, <1>8, NodeDelivers DEF Valid
  <2>3. recl[w].pc = "ack" => results[JobOf[stream[First(recl[w].todo)]]] # None
    BY <1>1 DEF Stored, JobOfMsg
  <2>4. group' \in Int /\ group' <= Len(stream)
    <3>1. MessagesOK'
      BY <1>0, <1>8, NodeMessagesType
    <3> QED BY <2>1, <3>1, <1>0 DEF MessagesOK
  <2> QED BY <1>0, <1>4, <2>1, <2>2, <2>3, <2>4
<1>9. ASSUME NEW t \in tasks, TaskStep(t) PROVE Acked'
  <2>1. /\ UNCHANGED <<stream, floor, group>>
        /\ pel' = pel \/ (t.pc = "ack" /\ pel' = pel \ {t.m})
    BY <1>9, TaskEffect
  <2>2. t.pc = "ack" => results[JobOf[stream[t.m]]] # None
    BY <1>1 DEF Stored, JobOfMsg
  <2> QED BY <1>0, <1>3, <1>4, <2>1, <2>2
<1> QED BY <1>5, <1>6, <1>7, <1>8, <1>9, StepCases

\* Marked is inductive: a marker goes only after its result was stored.
LEMMA MarkedStep ==
    ASSUME QueueInv, OneIdEach, Stored, Marked, Next
    PROVE  Marked'
<1> SUFFICES ASSUME KeysKept', NEW r \in Subs, sub'[r] \in {"add", "wait", "queued"},
                    results'[JobOf[r]] = None
             PROVE  pending'[JobOf[r]]
  BY DEF Marked
<1>0. MessagesOK /\ KeysOK /\ HandlersOK /\ NodesOK /\ CountsOK /\ JobOf[r] \in Jobs
  BY TypeParts DEF QueueInv, Jobs
<1>1. KeysKept /\ results \in [Jobs -> Subs \cup {None}] /\ pending \in [Jobs -> BOOLEAN]
  BY <1>0, KeysKeptBefore DEF KeysOK
<1>2. ASSUME sub[r] \in {"add", "wait", "queued"}, results[JobOf[r]] = None
      PROVE  pending[JobOf[r]]
  BY <1>1, <1>2 DEF Marked
<1>3. ASSUME NEW s \in Subs, GatewayStep(s) PROVE pending'[JobOf[r]]
  <2>1. CASE r = s
    <3>1. CASE sub'[s] = "add"
      BY <1>0, <1>3, <2>1, <3>1, GatewayKeys
    <3>2. CASE sub'[s] \in {"wait", "queued"}
      <4>1. sub[s] \in {"add", "wait"} /\ UNCHANGED <<results, pending>>
        BY <1>0, <1>3, <3>2, GatewayKeys
      <4> QED BY <1>2, <2>1, <4>1
    <3> QED BY <2>1, <3>1, <3>2
  <2>2. CASE r # s
    <3>1. JobOf[r] # JobOf[s] /\ sub'[r] = sub[r]
      BY <1>0, <1>3, <2>2, HandlerMoves DEF OneIdEach
    <3>2. results[JobOf[r]] = None
      BY <1>0, <1>1, <1>3, <3>1, GatewayKeys
    <3> QED BY <1>0, <1>2, <1>3, <3>1, <3>2, GatewayKeys
  <2> QED BY <2>1, <2>2
<1>4. ~ExpireStep /\ ~RedisWipe
  BY DEF ExpireStep, ExpirePending, ExpireResult, RedisWipe, Fault, KeysKept
<1>5. ASSUME NEW m \in MsgIds, GrowIdle(m) PROVE pending'[JobOf[r]]
  BY <1>2, <1>5 DEF GrowIdle, gateway
<1>6. ASSUME NEW w \in Workers, NodeStep(w) PROVE pending'[JobOf[r]]
  <2>1. UNCHANGED sub /\ UNCHANGED results
    BY <1>6, NodeEffect, NodeKeys
  <2>2. pending[JobOf[r]]
    BY <1>2, <2>1
  <2>3. recl[w].pc = "del" => JobOfMsg(First(recl[w].todo)) # JobOf[r]
    BY <1>1, <2>1 DEF Stored
  <2> QED BY <1>0, <1>1, <1>6, <2>2, <2>3, NodeKeys
<1>7. ASSUME NEW t \in tasks, TaskStep(t) PROVE pending'[JobOf[r]]
  <2>0. t.m \in 1 .. Len(stream) /\ stream[t.m] \in Subs /\ sub' = sub
    <3>1. t.m \in 1 .. Len(stream) /\ stream \in Seq(Subs)
      BY <1>0 DEF QueueInv, Held, Passed, MessagesOK
    <3>2. sub' = sub
      BY <1>7, TaskEffect
    <3> QED BY <3>1, <3>2
  <2>1. results[JobOf[r]] = None
    BY <1>0, <1>1, <1>7, <2>0, TaskKeys, SubsAssumption
  <2>2. pending[JobOf[r]]
    BY <1>2, <2>0, <2>1
  <2>3. t.pc = "del" => JobOfMsg(t.m) # JobOf[r]
    BY <1>1, <2>1 DEF Stored
  <2> QED BY <1>0, <1>1, <1>7, <2>2, <2>3, TaskKeys
<1> QED BY <1>3, <1>4, <1>5, <1>6, <1>7, StepCases

\* Stored holds in every behaviour.
LEMMA StoredInvariant ==
    ASSUME OneIdEach
    PROVE  Spec => []Stored
<1>1. Init => Stored
  <2> SUFFICES ASSUME Init PROVE Stored
    OBVIOUS
  <2>1. tasks = {} /\ \A w \in Workers : recl[w].pc = "sleep"
    BY DEF Init, SweepIdle
  <2> QED BY <2>1 DEF Stored
<1>2. QueueInv /\ Stored /\ [Next]_vars => Stored'
  <2> SUFFICES ASSUME QueueInv, Stored, [Next]_vars PROVE Stored'
    OBVIOUS
  <2>1. CASE UNCHANGED vars
    <3>1. UNCHANGED <<stream, results, tasks, recl, struck>>
      BY <2>1 DEF vars, moving, redis, nodes
    <3> QED BY <3>1 DEF Stored, KeysKept, JobOfMsg
  <2> QED BY <2>1, StoredStep
<1> QED BY <1>1, <1>2, QueueInvariant, PTL DEF Spec

\* AckedWasReported for every instance whose job ids are submitted once and whose group
\* exists before the first submission: while no key expired and Redis kept its data, a
\* message that left the PEL has its result stored, since publish_result stores before
\* it acknowledges and the sweep re-acknowledges only what it found stored (redis.rs).
THEOREM QueueReportsBeforeAck ==
    ASSUME GroupReady, OneIdEach
    PROVE  Spec => [](KeysKept => AckedWasReported)
<1>1. Init => Acked
  <2> SUFFICES ASSUME Init PROVE Acked
    OBVIOUS
  <2>1. stream = <<>> /\ group = 0
    BY DEF Init
  <2> QED BY <2>1 DEF Acked, AckedWasReported
<1>2. QueueInv /\ Stored /\ Acked /\ [Next]_vars => Acked'
  <2> SUFFICES ASSUME QueueInv, Stored, Acked, [Next]_vars PROVE Acked'
    OBVIOUS
  <2>1. CASE UNCHANGED vars
    <3>1. UNCHANGED <<stream, floor, group, pel, results, struck>>
      BY <2>1 DEF vars, moving, redis
    <3> QED BY <3>1 DEF Acked, KeysKept, AckedWasReported, Valid, JobOfMsg
  <2> QED BY <2>1, AckedStep
<1>3. Acked => (KeysKept => AckedWasReported)
  BY DEF Acked
<1> QED BY <1>1, <1>2, <1>3, QueueInvariant, StoredInvariant, PTL DEF Spec

\* WaitingIsPending for every instance whose job ids are submitted once: while no key
\* expired and Redis kept its data, a queued submission without a result has its
\* pending marker, so that GET /result says 202 and not 404 (result_bus.rs).
THEOREM QueueKeepsMarker ==
    ASSUME OneIdEach
    PROVE  Spec => [](KeysKept => WaitingIsPending)
<1>1. Init => Marked
  <2> SUFFICES ASSUME Init PROVE Marked
    OBVIOUS
  <2>1. \A s \in Subs : sub[s] = "new"
    BY DEF Init
  <2> QED BY <2>1 DEF Marked
<1>2. QueueInv /\ Stored /\ Marked /\ [Next]_vars => Marked'
  <2> SUFFICES ASSUME QueueInv, Stored, Marked, [Next]_vars PROVE Marked'
    OBVIOUS
  <2>1. CASE UNCHANGED vars
    <3>1. UNCHANGED <<sub, results, pending, struck>>
      BY <2>1 DEF vars, moving, redis, gateway
    <3> QED BY <3>1 DEF Marked, KeysKept
  <2> QED BY <2>1, MarkedStep
<1>3. Marked => (KeysKept => WaitingIsPending)
  BY DEF Marked, WaitingIsPending, WasQueued
<1> QED BY <1>1, <1>2, <1>3, QueueInvariant, StoredInvariant, PTL DEF Spec

(***************************************************************************)
(* One run at a time: what happens while nothing worse than a lost client  *)
(* strikes.                                                                *)
(***************************************************************************)
\* Every step counts the fault it takes, if any.
LEMMA NextIsCounted ==
    ASSUME Next
    PROVE  Counted
<1>1. ASSUME NEW m \in MsgIds, GrowIdle(m) PROVE Counted
  BY <1>1 DEF GrowIdle, Counted, Fault
<1>2. CASE RedisWipe
  BY <1>2 DEF RedisWipe, Counted, Fault
<1> QED BY <1>1, <1>2, StepCases, GatewayEffect, ExpireEffect, NodeEffect, TaskEffect

\* Calm ends for good, and only a lost client leaves it.
LEMMA CalmBefore ==
    ASSUME CountsOK, Next, Calm'
    PROVE  Calm /\ "slow" \notin struck /\ \A kind : Fault(kind) => kind = "cancel"
<1>1. struck \subseteq struck'
  BY NextIsCounted, StepCases, CountsType
<1> QED BY <1>1 DEF Calm, Fault

\* The steps of a calm system, by actor.
CalmGateway(s) == EnqueueDel(s) \/ EnqueueClaim(s) \/ EnqueueAdd(s) \/ AsyncReply(s)
                  \/ Cancel(s) \/ Wait(s)

\* Without broken connections a handler neither rolls back nor runs its job itself.
LEMMA CalmGatewaySteps ==
    ASSUME Orderly, Calm, \A kind : Fault(kind) => kind = "cancel", NEW s \in Subs, GatewayStep(s)
    PROVE  CalmGateway(s)
<1>1. ~EnqueueClaimFails(s) /\ ~EnqueueAddFails(s)
  BY DEF EnqueueClaimFails, EnqueueAddFails
<1>2. ~EnqueueRollback(s) /\ ~SubmitLocal(s)
  BY DEF EnqueueRollback, SubmitLocal, Orderly
<1> QED BY <1>1, <1>2, Zenon DEF GatewayStep, Enqueue, EnqueueFault, CalmGateway

CalmNode(w) == \/ (StartNode(w) \/ Reconnect(w))
               \/ ReadNew(w) /\ inbox' = [inbox EXCEPT ![w] = Batch(w)]
               \/ Dispatch(w) \/ SweepNoGroup(w)
               \/ SweepClaim(w) /\ recl'[w].todo = Kept(w)
               \/ SweepDiscard(w) /\ pel' = pel \ {First(recl[w].todo)}

\* Without broken connections and crashes a node reads, dispatches and discards garbled
\* payloads.
LEMMA CalmNodeSteps ==
    ASSUME recl \in [Workers -> SweepType], Orderly, Shape, Calm,
           \A kind : Fault(kind) => kind = "cancel", NEW w \in Workers, NodeStep(w)
    PROVE  CalmNode(w)
<1>1. recl[w].todo # {} => First(recl[w].todo) \in recl[w].todo
  <2>1. recl[w].todo \in SUBSET MsgIds
    BY DEF SweepType
  <2> QED BY <2>1, FirstOfIds
<1>2. ~Fault("drop") /\ ~Fault("crash")
  OBVIOUS
<1>3. recl[w].pc \notin {"rerun", "del", "ack", "bell"}
  BY <1>1 DEF Orderly, Shape
<1>4. ~SweepGet(w)
  BY <1>1 DEF SweepGet, Orderly, Shape
<1>5. ~SweepRerun(w) /\ ~AckDel(w) /\ ~AckAck(w) /\ ~AckBell(w)
  BY <1>3 DEF SweepRerun, AckDel, AckAck, AckBell
<1>6. ~AckDrop(w) /\ ~Crash(w)
  BY <1>2 DEF AckDrop, Crash
<1>7. ReadNew(w) => inbox' = [inbox EXCEPT ![w] = Batch(w)]
  BY <1>2, ReadNewEffect
<1>8. SweepClaim(w) => recl'[w].todo = Kept(w)
  BY <1>2, SweepClaimEffect
<1>9. SweepDiscard(w) => pel' = pel \ {First(recl[w].todo)}
  BY <1>2 DEF SweepDiscard
<1> QED BY <1>4, <1>5, <1>6, <1>7, <1>8, <1>9 DEF NodeStep, ReadLoop, Sweep, CalmNode

\* A calm task keeps its message until it has acknowledged it.
LEMMA CalmTaskSteps ==
    ASSUME NodesOK, Rung, \A kind : Fault(kind) => kind = "cancel", NEW t \in tasks, TaskStep(t)
    PROVE  \/ tasks' = tasks \ {t} /\ t.m \notin pel /\ pel' = pel
           \/ \E u \in TaskType :
                /\ tasks' = (tasks \ {t}) \cup {u} /\ u.m = t.m
                /\ \/ u.pc \in {"set", "del"} /\ t.pc \in {"run", "set"} /\ pel' = pel
                   \/ u.pc = "ack" /\ t.pc = "del" /\ pel' = pel
                   \/ u.pc = "bell" /\ t.pc = "ack" /\ pel' = pel \ {t.m}
<1>0. t \in TaskType
  BY DEF NodesOK
<1>1. ASSUME NEW pc \in {"run", "set", "del", "ack", "bell"}, TaskTo(t, pc)
      PROVE  \E u \in TaskType : tasks' = (tasks \ {t}) \cup {u} /\ u.m = t.m /\ u.pc = pc
  <2>1. /\ [t EXCEPT !.pc = pc] \in TaskType /\ [t EXCEPT !.pc = pc].m = t.m
        /\ [t EXCEPT !.pc = pc].pc = pc
    BY <1>0, TaskMoves
  <2> QED BY <1>1, <2>1 DEF TaskTo
<1>2. CASE RunJob(t)
  BY <1>1, <1>2 DEF RunJob, redis
<1>3. CASE PublishSet(t)
  BY <1>1, <1>3 DEF PublishSet
<1>4. CASE PublishDel(t)
  BY <1>1, <1>4 DEF PublishDel
<1>5. CASE PublishAck(t)
  BY <1>1, <1>5 DEF PublishAck
<1>6. CASE PublishBell(t)
  BY <1>6 DEF PublishBell, redis, TaskEnds, Rung
<1>7. CASE PublishDrop(t)
  BY <1>7 DEF PublishDrop
<1> QED BY <1>2, <1>3, <1>4, <1>5, <1>6, <1>7 DEF TaskStep, Publish

\* Orderly is inductive.
LEMMA OrderlyStep ==
    ASSUME QueueInv, Exclusive, Orderly, Next
    PROVE  Orderly'
<1> SUFFICES ASSUME Calm' PROVE Orderly'
  BY DEF Orderly
<1>0. /\ MessagesOK /\ HandlersOK /\ NodesOK /\ CountsOK /\ IsFiniteSet(tasks) /\ Shape /\ Rung
      /\ recl \in [Workers -> SweepType] /\ inbox \in [Workers -> SUBSET MsgIds]
      /\ \A w \in Workers : recl[w].todo \subseteq MsgIds
  BY TypeParts DEF QueueInv, Held, NodesOK, SweepType
<1>1. Calm /\ "slow" \notin struck /\ \A kind : Fault(kind) => kind = "cancel"
  BY <1>0, CalmBefore
<1>2. \A m \in Passed : Valid(m) <=> stream'[m] \notin Garbled
  BY <1>0, PassedGrows DEF Passed, Valid
<1>3. /\ pel \subseteq Passed /\ idle \subseteq pel
      /\ \A w \in Workers : recl[w].todo \subseteq Passed /\ inbox[w] \subseteq Passed
      /\ \A t \in tasks : t.m \in Passed
  BY <1>0 DEF QueueInv, Held, MessagesOK
<1>4. /\ \A m \in pel : Valid(m) => (m \notin idle /\ ~Orphan(m))
      /\ \A w \in Workers : \A m \in recl[w].todo : ~Valid(m)
      /\ \A t \in tasks : t.pc # "bell" => t.m \in pel
      /\ \A w \in Workers : inbox[w] \subseteq pel
      /\ \A s \in Subs : sub[s] \notin {"rollback", "local"}
  BY <1>1 DEF Orderly
<1>5. ASSUME UNCHANGED <<pel, idle, inbox, tasks>>, \A w \in Workers : recl'[w].todo = recl[w].todo,
             \A s \in Subs : sub'[s] \notin {"rollback", "local"}
      PROVE  Orderly'
  <2>1. \A m : Orphan(m)' <=> Orphan(m)
    BY <1>5 DEF Orphan
  <2> QED BY <1>2, <1>3, <1>4, <1>5, <2>1 DEF Orderly, Valid
<1>6. ASSUME NEW s \in Subs, GatewayStep(s) PROVE Orderly'
  <2>1. UNCHANGED <<pel, idle, inbox, tasks, recl>>
    BY <1>6, GatewayEffect
  <2>2. CalmGateway(s)
    BY <1>1, <1>6, CalmGatewaySteps
  <2>3. \A r \in Subs : sub'[r] \notin {"rollback", "local"}
    <3>1. \A pc : Goto(s, pc) => sub'[s] = pc
      BY <1>0 DEF HandlersOK, Goto
    <3>2. sub'[s] \notin {"rollback", "local"}
      BY <1>4, <2>2, <3>1 DEF CalmGateway, EnqueueDel, EnqueueClaim, EnqueueAdd, AsyncReply,
                              Cancel, Wait, WaitGet, WaitTimeout
    <3> QED BY <1>0, <1>4, <1>6, <3>2, HandlerMoves
  <2> QED BY <1>5, <2>1, <2>3
<1>7. ~ExpireStep /\ ~RedisWipe
  BY <1>1 DEF ExpireStep, ExpirePending, ExpireResult, RedisWipe
<1>8. ASSUME NEW m \in MsgIds, GrowIdle(m) PROVE Orderly'
  <2>1. Orphan(m) /\ m \in pel
    BY <1>1, <1>8 DEF GrowIdle
  <2>2. ~Valid(m)
    BY <1>4, <2>1
  <2>3. idle' = idle \cup {m} /\ UNCHANGED <<stream, pel, inbox, tasks, recl, sub>>
    BY <1>0, <1>8, GrowIdleType DEF nodes
  <2>4. \A k : Orphan(k)' <=> Orphan(k)
    BY <2>3 DEF Orphan
  <2> QED BY <1>4, <2>2, <2>3, <2>4 DEF Orderly, Valid
<1>9. ASSUME NEW w \in Workers, NodeStep(w) PROVE Orderly'
  <2>0. UNCHANGED <<stream, floor, sub>> /\ CalmNode(w)
    BY <1>0, <1>1, <1>9, NodeEffect, CalmNodeSteps
  <2>1. CASE StartNode(w) \/ Reconnect(w)
    BY <1>4, <1>5, <2>0, <2>1 DEF StartNode, Reconnect, nodes
  <2>2. CASE ReadNew(w) /\ inbox' = [inbox EXCEPT ![w] = Batch(w)]
    <3>1. pel' = pel \cup Batch(w) /\ UNCHANGED <<idle, tasks, recl>> /\ inbox[w] = {}
      BY <2>2, ReadNewEffect
    <3>2. \A m \in Batch(w) : m \notin Passed
      BY <1>0, <2>2, BatchType DEF Passed, MessagesOK
    <3>3. \A v \in Workers : inbox'[v] = IF v = w THEN Batch(w) ELSE inbox[v]
      BY <1>0, <2>2
    <3>4. \A m \in pel' : stream[m] \notin Garbled => (m \notin idle' /\ ~Orphan(m)')
      BY <1>3, <1>4, <3>1, <3>2, <3>3 DEF Orphan, Valid
    <3> QED BY <1>4, <2>0, <3>1, <3>3, <3>4 DEF Orderly, Valid
  <2>3. CASE Dispatch(w)
    <3> DEFINE m == First(inbox[w])
               n == NewTask(w, m)
    <3>1. m \in inbox[w]
      BY <1>0, <2>3, FirstOfIds DEF Dispatch
    <3>2. /\ inbox' = [inbox EXCEPT ![w] = @ \ {m}] /\ UNCHANGED <<idle, recl, pel>>
          /\ (tasks' = tasks /\ ~Valid(m)) \/ tasks' = tasks \cup {n}
      BY <2>3 DEF Dispatch, redis
    <3>3. n.m = m
      BY DEF NewTask
    <3> HIDE DEF m, n
    <3>4. \A v \in Workers : inbox'[v] = IF v = w THEN inbox[w] \ {m} ELSE inbox[v]
      BY <1>0, <3>2
    <3>5. \A k \in pel' : Valid(k) => (k \notin idle' /\ ~Orphan(k)')
      BY <1>4, <3>1, <3>2, <3>3, <3>4 DEF Orphan
    <3>6. \A t \in tasks' : t.pc # "bell" => t.m \in pel'
      BY <1>4, <3>1, <3>2, <3>3
    <3> QED BY <1>4, <2>0, <3>2, <3>4, <3>5, <3>6 DEF Orderly, Valid
  <2>4. CASE SweepNoGroup(w)
    <3>1. /\ UNCHANGED <<inbox, tasks, pel, idle>>
          /\ \A v \in Workers : recl'[v].todo = recl[v].todo
      BY <1>0, <2>4 DEF SweepNoGroup, redis, SweepType
    <3> QED BY <1>4, <1>5, <2>0, <3>1
  <2>5. CASE SweepClaim(w) /\ recl'[w].todo = Kept(w)
    <3>1. /\ idle' = idle \ Claimed(w) /\ pel' = pel \ (Claimed(w) \ Kept(w))
          /\ Claimed(w) \subseteq idle /\ Kept(w) \subseteq idle /\ recl[w].todo = {}
          /\ UNCHANGED <<inbox, tasks>>
          /\ \A v \in Workers \ {w} : recl'[v] = recl[v]
      BY <1>0, <2>5, SweepClaimEffect DEF Kept, Shape
    <3>2. \A m \in Kept(w) : ~Valid(m)
      BY <1>3, <1>4, <3>1
    <3>3. /\ \A t \in tasks : t.m \notin Claimed(w)
          /\ \A v \in Workers : inbox[v] \cap Claimed(w) = {}
      BY <1>1, <3>1 DEF Exclusive, Orphan
    <3>4. \A k \in pel' : Valid(k) => (k \notin idle' /\ ~Orphan(k)')
      BY <1>3, <1>4, <2>5, <3>1, <3>2 DEF Orphan
    <3> QED BY <1>4, <2>0, <2>5, <3>1, <3>2, <3>3, <3>4 DEF Orderly, Valid
  <2>6. CASE SweepDiscard(w) /\ pel' = pel \ {First(recl[w].todo)}
    <3> DEFINE m == First(recl[w].todo)
    <3>1. /\ idle' \subseteq idle /\ UNCHANGED <<inbox, tasks>> /\ SweepNext(w) /\ ~Valid(m)
          /\ pel' = pel \ {m} /\ recl[w].pc = "get"
      BY <2>6 DEF SweepDiscard
    <3>2. m \in recl[w].todo
      BY <1>0, <3>1, FirstOfIds DEF Shape
    <3>3. /\ recl'[w].todo = recl[w].todo \ {m} /\ \A v \in Workers \ {w} : recl'[v] = recl[v]
      BY <1>0, <3>1, SweepNextEffect
    <3> HIDE DEF m
    <3>4. (\A t \in tasks : t.m # m) /\ \A v \in Workers : m \notin inbox[v]
      BY <1>1, <3>2 DEF Exclusive
    <3>5. \A k \in pel' : Valid(k) => (k \notin idle' /\ ~Orphan(k)')
      BY <1>4, <3>1, <3>3 DEF Orphan
    <3> QED BY <1>4, <2>0, <3>1, <3>3, <3>4, <3>5 DEF Orderly, Valid
  <2> QED BY <2>0, <2>1, <2>2, <2>3, <2>4, <2>5, <2>6 DEF CalmNode
<1>10. ASSUME NEW t \in tasks, TaskStep(t) PROVE Orderly'
  <2>1. UNCHANGED <<stream, inbox, recl, sub>> /\ idle' \subseteq idle
    BY <1>10, TaskEffect
  <2>2. CASE tasks' = tasks \ {t} /\ t.m \notin pel /\ pel' = pel
    <3>1. \A k \in pel' : Valid(k) => (k \notin idle' /\ ~Orphan(k)')
      BY <1>4, <2>1, <2>2 DEF Orphan
    <3> QED BY <1>4, <2>1, <2>2, <3>1 DEF Orderly, Valid
  <2>3. ASSUME NEW u \in TaskType, tasks' = (tasks \ {t}) \cup {u}, u.m = t.m,
               \/ u.pc # "bell" /\ t.pc # "bell" /\ pel' = pel
               \/ u.pc = "bell" /\ pel' = pel \ {t.m}
        PROVE  Orderly'
    <3>1. \A k \in pel' : Valid(k) => (k \notin idle' /\ ~Orphan(k)')
      BY <1>4, <2>1, <2>3 DEF Orphan
    <3>2. /\ \A x \in tasks : x.m = t.m => x = t
          /\ \A v \in Workers : t.m \notin inbox[v]
      BY <1>1 DEF Exclusive
    <3>3. \A x \in tasks' : x.pc # "bell" => x.m \in pel'
      BY <1>4, <2>3, <3>2
    <3>4. \A v \in Workers : inbox'[v] \subseteq pel'
      BY <1>4, <2>1, <2>3, <3>2
    <3> QED BY <1>4, <2>1, <3>1, <3>3, <3>4 DEF Orderly, Valid
  <2>4. \/ tasks' = tasks \ {t} /\ t.m \notin pel /\ pel' = pel
        \/ \E u \in TaskType :
             /\ tasks' = (tasks \ {t}) \cup {u} /\ u.m = t.m
             /\ \/ u.pc # "bell" /\ t.pc # "bell" /\ pel' = pel
                \/ u.pc = "bell" /\ pel' = pel \ {t.m}
    BY <1>0, <1>1, <1>10, CalmTaskSteps
  <2> QED BY <2>2, <2>3, <2>4
<1> QED BY <1>6, <1>7, <1>8, <1>9, <1>10, StepCases

\* A message is opened by its XADD only.
LEMMA OpenBefore ==
    ASSUME QueueInv, Exclusive, Orderly, Next, Calm'
    PROVE  \A m \in 1 .. Len(stream) : Open(m)' => Open(m)
<1> SUFFICES ASSUME NEW m \in 1 .. Len(stream), Open(m)' PROVE Open(m)
  OBVIOUS
<1>0. /\ MessagesOK /\ HandlersOK /\ NodesOK /\ CountsOK /\ IsFiniteSet(tasks) /\ Shape /\ Rung
      /\ recl \in [Workers -> SweepType] /\ Len(stream) \in Nat /\ floor \in Int /\ group \in Int
  BY TypeParts DEF QueueInv, Held, NodesOK, MessagesOK
<1>1. Calm /\ "slow" \notin struck /\ \A kind : Fault(kind) => kind = "cancel"
  BY <1>0, CalmBefore
<1>2. \/ m > group' /\ m > floor'
      \/ m \in pel' /\ \A t \in tasks' : t.m = m => t.pc \in {"run", "set", "del"}
  BY DEF Open
<1>3. ASSUME floor' \in Int, floor' >= floor, group' \in Int, group' >= group, pel' \subseteq pel,
             tasks \subseteq tasks'
      PROVE  Open(m)
  <2>1. CASE m > group' /\ m > floor'
    BY <1>0, <1>3, <2>1 DEF Open
  <2>2. CASE m \in pel' /\ \A t \in tasks' : t.m = m => t.pc \in {"run", "set", "del"}
    BY <1>3, <2>2 DEF Open
  <2> QED BY <1>2, <2>1, <2>2
<1>4. ASSUME NEW s \in Subs, GatewayStep(s) PROVE Open(m)
  <2>1. UNCHANGED <<group, pel, tasks>>
    BY <1>4, GatewayEffect
  <2>2. floor' \in Int /\ floor' >= floor
    <3>1. CASE UNCHANGED <<stream, floor>>
      BY <1>0, <3>1
    <3>2. CASE Xadd(s)
      BY <1>0, <3>2, XaddType
    <3> QED BY <1>4, <3>1, <3>2, GatewayEffect
  <2> QED BY <1>0, <1>3, <2>1, <2>2
<1>5. ~ExpireStep /\ ~RedisWipe
  BY <1>1 DEF ExpireStep, ExpirePending, ExpireResult, RedisWipe
<1>6. ASSUME NEW k \in MsgIds, GrowIdle(k) PROVE Open(m)
  <2>1. UNCHANGED <<floor, group, pel, tasks>>
    BY <1>6 DEF GrowIdle, nodes
  <2> QED BY <1>0, <1>3, <2>1
<1>7. ASSUME NEW w \in Workers, NodeStep(w) PROVE Open(m)
  <2>0. UNCHANGED <<stream, floor>> /\ CalmNode(w)
    BY <1>0, <1>1, <1>7, NodeEffect, CalmNodeSteps
  <2>1. CASE ReadNew(w)
    <3>1. pel' = pel \cup Batch(w) /\ UNCHANGED tasks
      BY <2>1, ReadNewEffect
    <3>2. group' \in Int /\ group' >= group /\ \A k \in Batch(w) : k > group /\ k > floor
      BY <1>0, <2>1, BatchType
    <3>3. CASE m \in Batch(w)
      BY <3>2, <3>3 DEF Open
    <3>4. CASE m \notin Batch(w)
      <4>1. CASE m > group' /\ m > floor'
        BY <1>0, <2>0, <3>2, <4>1 DEF Open
      <4>2. CASE m \in pel' /\ \A t \in tasks' : t.m = m => t.pc \in {"run", "set", "del"}
        BY <3>1, <3>4, <4>2 DEF Open
      <4> QED BY <1>2, <4>1, <4>2
    <3> QED BY <3>3, <3>4
  <2>2. CASE StartNode(w) \/ Reconnect(w)
    <3>1. pel' = pel /\ tasks' = tasks
      BY <2>2 DEF StartNode, Reconnect, nodes
    <3>2. CreateGroup
      BY <2>2 DEF StartNode, Reconnect
    <3>3. group' \in Int /\ group' >= group
      BY <1>0, <3>2 DEF CreateGroup, MessagesOK
    <3> QED BY <1>0, <1>3, <2>0, <3>1, <3>3
  <2>3. CASE Dispatch(w)
    <3>1. UNCHANGED <<pel, group>> /\ tasks \subseteq tasks'
      BY <2>3 DEF Dispatch, redis
    <3> QED BY <1>0, <1>3, <2>0, <3>1
  <2>4. CASE SweepNoGroup(w)
    <3>1. UNCHANGED <<pel, group, tasks>>
      BY <2>4 DEF SweepNoGroup, redis
    <3> QED BY <1>0, <1>3, <2>0, <3>1
  <2>5. CASE SweepClaim(w)
    <3>1. pel' \subseteq pel /\ UNCHANGED <<group, tasks>>
      BY <1>0, <2>5, SweepClaimEffect
    <3> QED BY <1>0, <1>3, <2>0, <3>1
  <2>6. CASE SweepDiscard(w) /\ pel' = pel \ {First(recl[w].todo)}
    <3>1. pel' \subseteq pel /\ UNCHANGED <<group, tasks>>
      BY <2>6 DEF SweepDiscard
    <3> QED BY <1>0, <1>3, <2>0, <3>1
  <2> QED BY <2>0, <2>1, <2>2, <2>3, <2>4, <2>5, <2>6 DEF CalmNode
<1>8. ASSUME NEW t \in tasks, TaskStep(t) PROVE Open(m)
  <2>1. UNCHANGED <<stream, floor, group>>
    BY <1>8, TaskEffect
  <2>2. CASE m > group' /\ m > floor'
    BY <2>1, <2>2 DEF Open
  <2>3. CASE m \in pel' /\ \A x \in tasks' : x.m = m => x.pc \in {"run", "set", "del"}
    <3>1. ASSUME tasks' = tasks \ {t}, t.m \notin pel, pel' = pel PROVE Open(m)
      BY <2>3, <3>1 DEF Open
    <3>2. ASSUME NEW u \in TaskType, tasks' = (tasks \ {t}) \cup {u}, u.m = t.m, pel' \subseteq pel,
                 u.pc \in {"run", "set", "del"} => t.pc \in {"run", "set", "del"}
          PROVE  Open(m)
      BY <2>3, <3>2 DEF Open
    <3> QED BY <1>0, <1>1, <1>8, <3>1, <3>2, CalmTaskSteps
  <2> QED BY <1>2, <2>2, <2>3
<1> QED BY <1>4, <1>5, <1>6, <1>7, <1>8, StepCases

\* OneOpen is inductive: SET NX keeps others out until DEL closes the message it admitted.
LEMMA OneOpenStep ==
    ASSUME QueueInv, Exclusive, Orderly, OneOpen, Next
    PROVE  OneOpen'
<1> SUFFICES ASSUME Calm' PROVE OneOpen'
  BY DEF OneOpen
<1>0. /\ MessagesOK /\ KeysOK /\ HandlersOK /\ NodesOK /\ CountsOK /\ IsFiniteSet(tasks)
      /\ Shape /\ recl \in [Workers -> SweepType]
      /\ stream \in Seq(Subs) /\ Len(stream) \in Nat /\ floor \in Int /\ group \in Int
      /\ pending \in [Jobs -> BOOLEAN]
  BY TypeParts DEF QueueInv, Held, NodesOK, MessagesOK, KeysOK
<1>1. Calm /\ "slow" \notin struck /\ \A kind : Fault(kind) => kind = "cancel"
  BY <1>0, CalmBefore
<1>2. \A m \in 1 .. Len(stream) : Open(m)' => Open(m)
  BY OpenBefore
<1>3. /\ \A m \in 1 .. Len(stream) : stream[m] \in Subs /\ JobOf[stream[m]] \in Jobs
      /\ \A s \in Subs : JobOf[s] \in Jobs
  BY <1>0 DEF Jobs
<1>4. /\ \A s \in Subs : sub[s] = "add" => pending[JobOf[s]]
      /\ \A m \in 1 .. Len(stream) : Open(m) => pending[JobOf[stream[m]]]
      /\ \A s, r \in Subs : (sub[s] = "add" /\ sub[r] = "add" /\ JobOf[s] = JobOf[r]) => s = r
      /\ \A s \in Subs : \A m \in 1 .. Len(stream) :
             (sub[s] = "add" /\ Open(m)) => JobOf[s] # JobOf[stream[m]]
      /\ \A m, k \in 1 .. Len(stream) :
             (Open(m) /\ JobOf[stream[m]] = JobOf[stream[k]]) => k <= m
  BY <1>1 DEF OneOpen, JobOfMsg
<1>5. ASSUME UNCHANGED <<stream, sub>>,
             \A s \in Subs : (sub[s] = "add" /\ pending[JobOf[s]]) => pending'[JobOf[s]],
             \A m \in 1 .. Len(stream) :
                (Open(m)' /\ pending[JobOf[stream[m]]]) => pending'[JobOf[stream[m]]]
      PROVE  OneOpen'
  <2>1. \A s \in Subs : sub'[s] = "add" => pending'[JobOf[s]]
    BY <1>4, <1>5
  <2>2. \A m \in 1 .. Len(stream) : Open(m)' => pending'[JobOf[stream[m]]]
    BY <1>2, <1>4, <1>5
  <2> QED BY <1>2, <1>4, <1>5, <2>1, <2>2 DEF OneOpen, JobOfMsg
<1>6. ASSUME NEW s \in Subs, GatewayStep(s) PROVE OneOpen'
  <2>1. \A j \in Jobs : pending[j] => pending'[j]
    BY <1>0, <1>1, <1>6, GatewayKeys DEF Orderly
  <2>2. sub'[s] = "add" => /\ sub[s] = "claim" /\ ~pending[JobOf[s]]
                           /\ pending'[JobOf[s]] /\ UNCHANGED stream
    BY <1>0, <1>6, GatewayKeys
  <2>3. \A r \in Subs : r # s => sub'[r] = sub[r]
    BY <1>0, <1>6, HandlerMoves
  <2>4. \/ UNCHANGED stream
        \/ /\ sub[s] = "add" /\ Len(stream') = Len(stream) + 1
           /\ \A m \in 1 .. Len(stream) : stream'[m] = stream[m]
           /\ stream'[Len(stream) + 1] = s
    <3>1. UNCHANGED stream \/ (sub[s] = "add" /\ Xadd(s))
      BY <1>6, GatewayEffect
    <3> QED BY <1>0, <3>1, XaddType
  <2>5. \A r \in Subs : sub'[r] = "add" => pending'[JobOf[r]]
    BY <1>3, <1>4, <2>1, <2>2, <2>3
  <2>6. \A r, x \in Subs : (sub'[r] = "add" /\ sub'[x] = "add" /\ JobOf[r] = JobOf[x]) => r = x
    BY <1>4, <2>2, <2>3
  <2>7. CASE UNCHANGED stream
    <3>1. \A m \in 1 .. Len(stream) : Open(m)' => pending'[JobOf[stream[m]]]
      BY <1>2, <1>3, <1>4, <2>1
    <3>2. \A r \in Subs : \A m \in 1 .. Len(stream) :
             (sub'[r] = "add" /\ Open(m)') => JobOf[r] # JobOf[stream[m]]
      BY <1>2, <1>4, <2>2, <2>3
    <3>3. \A m, k \in 1 .. Len(stream) :
             (Open(m)' /\ JobOf[stream[m]] = JobOf[stream[k]]) => k <= m
      BY <1>2, <1>4
    <3> QED BY <2>5, <2>6, <2>7, <3>1, <3>2, <3>3 DEF OneOpen, JobOfMsg
  <2>8. CASE /\ sub[s] = "add" /\ Len(stream') = Len(stream) + 1
             /\ \A m \in 1 .. Len(stream) : stream'[m] = stream[m]
             /\ stream'[Len(stream) + 1] = s
    <3>0. \A m \in 1 .. Len(stream') :
             \/ m \in 1 .. Len(stream) /\ stream'[m] = stream[m]
             \/ m = Len(stream) + 1 /\ stream'[m] = s
      BY <1>0, <2>8
    <3>1. \A m \in 1 .. Len(stream') : Open(m)' => pending'[JobOf[stream'[m]]]
      BY <1>2, <1>3, <1>4, <2>1, <2>8, <3>0
    <3>2. \A r \in Subs : \A m \in 1 .. Len(stream') :
             (sub'[r] = "add" /\ Open(m)') => JobOf[r] # JobOf[stream'[m]]
      BY <1>2, <1>4, <2>2, <2>3, <2>8, <3>0
    <3>3. \A m, k \in 1 .. Len(stream') :
             (Open(m)' /\ JobOf[stream'[m]] = JobOf[stream'[k]]) => k <= m
      <4> SUFFICES ASSUME NEW m \in 1 .. Len(stream'), NEW k \in 1 .. Len(stream'),
                          Open(m)', JobOf[stream'[m]] = JobOf[stream'[k]]
                   PROVE  k <= m
        OBVIOUS
      <4>1. CASE m = Len(stream) + 1
        BY <1>0, <2>8, <4>1
      <4>2. CASE m \in 1 .. Len(stream) /\ k \in 1 .. Len(stream)
        BY <1>2, <1>4, <3>0, <4>2, <1>0
      <4>3. CASE m \in 1 .. Len(stream) /\ k = Len(stream) + 1
        BY <1>2, <1>4, <2>8, <3>0, <4>3
      <4> QED BY <3>0, <4>1, <4>2, <4>3
    <3> QED BY <2>5, <2>6, <3>1, <3>2, <3>3 DEF OneOpen, JobOfMsg
  <2> QED BY <2>4, <2>7, <2>8
<1>7. ~ExpireStep /\ ~RedisWipe
  BY <1>1 DEF ExpireStep, ExpirePending, ExpireResult, RedisWipe
<1>8. ASSUME NEW m \in MsgIds, GrowIdle(m) PROVE OneOpen'
  <2>1. UNCHANGED <<stream, sub, pending>>
    BY <1>8 DEF GrowIdle, gateway
  <2> QED BY <1>5, <2>1
<1>9. ASSUME NEW w \in Workers, NodeStep(w) PROVE OneOpen'
  <2>1. UNCHANGED <<stream, sub>> /\ CalmNode(w)
    BY <1>0, <1>1, <1>9, NodeEffect, CalmNodeSteps
  <2>2. UNCHANGED pending
    BY <2>1 DEF CalmNode, StartNode, Reconnect, ReadNew, Dispatch, SweepNoGroup, SweepClaim,
                SweepDiscard, redis
  <2> QED BY <1>5, <2>1, <2>2
<1>10. ASSUME NEW t \in tasks, TaskStep(t) PROVE OneOpen'
  <2>1. UNCHANGED <<stream, sub>>
    BY <1>10, TaskEffect
  <2>2. CASE UNCHANGED pending
    BY <1>5, <2>1, <2>2
  <2>3. CASE /\ t.pc = "del" /\ pending' = [pending EXCEPT ![JobOfMsg(t.m)] = FALSE]
             /\ TaskTo(t, "ack")
    <3>1. t.m \in 1 .. Len(stream) /\ ~(t.m > group /\ t.m > floor) /\ t \in TaskType
      BY <1>0 DEF QueueInv, Held, Passed, NodesOK
    <3>2. t.m \in pel /\ \A x \in tasks : x.m = t.m => x = t
      BY <1>1, <2>3 DEF Orderly, Exclusive
    <3>3. Open(t.m)
      BY <2>3, <3>1, <3>2 DEF Open
    <3>4. PICK u \in tasks' : u.m = t.m /\ u.pc = "ack"
      BY <2>3, <3>1, TaskMoves DEF TaskTo
    <3>5. UNCHANGED <<floor, group>>
      BY <1>10, TaskEffect
    <3>6. \A m \in 1 .. Len(stream) : Open(m)' => m # t.m
      BY <3>1, <3>4, <3>5 DEF Open
    <3>7. \A m \in 1 .. Len(stream) : Open(m)' => JobOf[stream[m]] # JobOf[stream[t.m]]
      BY <1>2, <1>4, <3>1, <3>3, <3>6
    <3>8. \A s \in Subs : sub[s] = "add" => JobOf[s] # JobOf[stream[t.m]]
      BY <1>4, <3>1, <3>3
    <3>9. \A j \in Jobs : j # JobOf[stream[t.m]] => pending'[j] = pending[j]
      BY <1>0, <2>3 DEF JobOfMsg
    <3> QED BY <1>3, <1>5, <2>1, <3>7, <3>8, <3>9
  <2> QED BY <1>0, <1>10, <2>2, <2>3, TaskKeys
<1> QED BY <1>6, <1>7, <1>8, <1>9, <1>10, StepCases

\* Who holds a message, and which are open, in every behaviour.
LEMMA OneOpenInvariant == Spec => [](Exclusive /\ Orderly /\ OneOpen)
<1>1. Init => Orderly /\ OneOpen
  <2> SUFFICES ASSUME Init PROVE Orderly /\ OneOpen
    OBVIOUS
  <2>1. /\ stream = <<>> /\ pel = {} /\ tasks = {} /\ \A s \in Subs : sub[s] = "new"
        /\ \A w \in Workers : inbox[w] = {} /\ recl[w].todo = {}
    BY DEF Init, SweepIdle
  <2> QED BY <2>1 DEF Orderly, OneOpen
<1>2. QueueInv /\ Exclusive /\ Orderly /\ OneOpen /\ [Next]_vars => (Orderly /\ OneOpen)'
  <2> SUFFICES ASSUME QueueInv, Exclusive, Orderly, OneOpen, [Next]_vars
               PROVE  Orderly' /\ OneOpen'
    OBVIOUS
  <2>1. CASE UNCHANGED vars
    <3>1. UNCHANGED <<stream, floor, group, pel, idle, pending, sub, inbox, tasks, recl, struck>>
      BY <2>1 DEF vars, moving, redis, gateway, nodes
    <3>2. Orderly'
      BY <3>1 DEF Orderly, Calm, Valid, Orphan
    <3>3. OneOpen'
      BY <3>1 DEF OneOpen, Calm, Open, JobOfMsg
    <3> QED BY <3>2, <3>3
  <2> QED BY <2>1, OrderlyStep, OneOpenStep
<1> QED BY <1>1, <1>2, QueueInvariant, ExclusiveInvariant, PTL DEF Spec

\* OneRunPerJob for every instance: as long as nothing worse than lost clients happens,
\* the SET NX of enqueue (result_bus.rs) lets one submission of a job_id be queued or
\* running at a time, since publish_result (redis.rs) deletes the marker only after the
\* result of the message that is queued was stored.
THEOREM QueueRunsOnce == Spec => []OneRunPerJob
<1>1. TypeOK /\ OneOpen => OneRunPerJob
  <2> SUFFICES ASSUME TypeOK, OneOpen, struck \subseteq {"cancel"}, NEW j \in Jobs
               PROVE  Cardinality({s \in Subs : JobOf[s] = j /\ sub[s] = "add"})
                        + Cardinality({m \in 1 .. Len(stream) : JobOfMsg(m) = j /\ Unreported(m)})
                          <= 1
    BY DEF OneRunPerJob
  <2> DEFINE A == {s \in Subs : JobOf[s] = j /\ sub[s] = "add"}
             B == {m \in 1 .. Len(stream) : JobOfMsg(m) = j /\ Unreported(m)}
  <2>0. Len(stream) \in Nat /\ floor \in Int /\ group \in Int
    BY DEF TypeOK
  <2>1. \A m \in 1 .. Len(stream) : Unreported(m) => Open(m)
    <3> SUFFICES ASSUME NEW m \in 1 .. Len(stream), Unreported(m) PROVE Open(m)
      OBVIOUS
    <3>1. CASE m > LargerOf(group, floor)
      BY <2>0, <3>1 DEF LargerOf, Open
    <3>2. CASE m \in pel /\ \A t \in tasks : t.m = m => t.pc \in {"run", "set"}
      BY <3>2 DEF Open
    <3> QED BY <3>1, <3>2 DEF Unreported
  <2>2. /\ \A s, r \in A : s = r
        /\ A = {} \/ B = {}
        /\ \A m, k \in B : m <= k
    BY <2>1 DEF OneOpen, Calm
  <2>3. \A m, k \in B : m = k
    <3>1. B \subseteq Int
      BY <2>0
    <3> HIDE DEF B
    <3> QED BY <2>2, <3>1
  <2> HIDE DEF A, B
  <2>4. /\ Cardinality(A) \in {0, 1} /\ (A = {} => Cardinality(A) = 0)
        /\ Cardinality(B) \in {0, 1} /\ (B = {} => Cardinality(B) = 0)
    BY <2>2, <2>3, AtMostOne
  <2>5. Cardinality(A) + Cardinality(B) <= 1
    BY <2>2, <2>4
  <2> QED BY <2>5 DEF A, B
<1> QED BY <1>1, OneOpenInvariant, QueueTypeCorrect, PTL

(***************************************************************************)
(* Answers: what a duplicate waits for, and how fresh a result is, when    *)
(* the commands of a pipe are not interleaved.                             *)
(***************************************************************************)
\* Which step of a handler leads where, and whose answer it writes.
LEMMA CalmHandler ==
    ASSUME HandlersOK, NEW s \in Subs, CalmGateway(s)
    PROVE  /\ sub'[s] = "claim" => EnqueueDel(s)
           /\ sub[s] = "claim" => EnqueueClaim(s)
           /\ sub'[s] = "dup" => EnqueueClaim(s)
           /\ sub'[s] = "done" => WaitGet(s)
           /\ \A r \in Subs \ {s} : got'[r] = got[r]
<1>1. \A pc : Goto(s, pc) => sub'[s] = pc
  BY DEF HandlersOK, Goto
<1>2. CASE EnqueueDel(s)
  BY <1>1, <1>2 DEF EnqueueDel
<1>3. CASE EnqueueClaim(s)
  BY <1>1, <1>3 DEF EnqueueClaim
<1>4. CASE EnqueueAdd(s)
  BY <1>1, <1>4 DEF EnqueueAdd
<1>5. CASE AsyncReply(s)
  <2>1. sub[s] # "claim" /\ sub'[s] \in {"queued", "conflict", "unavailable"} /\ got' = got
    BY <1>1, <1>5 DEF AsyncReply
  <2> QED BY <2>1
<1>6. CASE Cancel(s)
  BY <1>1, <1>6 DEF Cancel
<1>7. CASE WaitGet(s)
  <2>1. got' = [got EXCEPT ![s] = results[JobOf[s]]] /\ sub'[s] = "done" /\ sub[s] # "claim"
    BY <1>1, <1>7 DEF WaitGet
  <2>2. \A r \in Subs \ {s} : got'[r] = got[r]
    BY <2>1 DEF HandlersOK
  <2> QED BY <1>7, <2>1, <2>2
<1>8. CASE WaitTimeout(s)
  BY <1>1, <1>8 DEF WaitTimeout
<1> QED BY <1>2, <1>3, <1>4, <1>5, <1>6, <1>7, <1>8 DEF CalmGateway, Wait

\* A step between two commands of a pipe is the pipe's own.
LEMMA WholeBefore ==
    ASSUME CountsOK, Next, Undisturbed'
    PROVE  /\ Undisturbed /\ Calm' /\ Calm
           /\ \A s \in Subs : sub[s] = "claim" => sub'[s] # "claim"
           /\ \A t \in tasks \cap tasks' : t.pc \notin {"del", "ack", "bell"}
<1>1. whole /\ Calm' /\ Calm
  BY CalmBefore DEF Next, Undisturbed, Calm
<1>2. PipesRunWhole
  BY <1>1 DEF Next
<1> QED BY <1>1, <1>2 DEF PipesRunWhole, Undisturbed, Calm

\* Served is inductive.
LEMMA ServedStep ==
    ASSUME QueueInv, Orderly, Served, Next
    PROVE  Served'
<1> SUFFICES ASSUME Undisturbed' PROVE Served'
  BY DEF Served
<1>0. /\ MessagesOK /\ KeysOK /\ HandlersOK /\ NodesOK /\ CountsOK /\ IsFiniteSet(tasks)
      /\ Shape /\ recl \in [Workers -> SweepType] /\ None \notin Subs
      /\ results \in [Jobs -> Subs \cup {None}] /\ pending \in [Jobs -> BOOLEAN]
      /\ \A s \in Subs : JobOf[s] \in Jobs
      /\ \A t \in tasks : t.m \in 1 .. Len(stream) /\ stream[t.m] \in Subs
  <2>1. /\ MessagesOK /\ KeysOK /\ HandlersOK /\ NodesOK /\ CountsOK /\ IsFiniteSet(tasks)
        /\ Shape /\ recl \in [Workers -> SweepType]
    BY TypeParts DEF QueueInv, Held, NodesOK
  <2>2. \A t \in tasks : t.m \in 1 .. Len(stream)
    BY DEF QueueInv, Held, Passed
  <2>3. stream \in Seq(Subs)
    BY <2>1 DEF MessagesOK
  <2> QED BY <2>1, <2>2, <2>3, SubsAssumption DEF KeysOK, Jobs
<1>1. /\ Undisturbed /\ Calm' /\ Calm
      /\ \A s \in Subs : sub[s] = "claim" => sub'[s] # "claim"
      /\ \A t \in tasks \cap tasks' : t.pc \notin {"del", "ack", "bell"}
  BY <1>0, WholeBefore
<1>2. \A kind : Fault(kind) => kind = "cancel"
  BY <1>0, <1>1, CalmBefore
<1>3. /\ \A t \in tasks : t.pc \in {"del", "ack", "bell"} => results[JobOf[stream[t.m]]] # None
      /\ \A s \in Subs : sub[s] = "dup" =>
            \/ results[JobOf[s]] # None \/ pending[JobOf[s]]
            \/ \E r \in Subs : JobOf[r] = JobOf[s] /\ sub[r] = "claim"
  BY <1>1 DEF Served, JobOfMsg, DuplicateHasSource
<1>4. ASSUME UNCHANGED <<stream, sub>>, \A u \in tasks' \ tasks : u.pc = "run",
             UNCHANGED <<results, pending>>
      PROVE  Served'
  BY <1>1, <1>3, <1>4 DEF Served, DuplicateHasSource, JobOfMsg
<1>5. ASSUME NEW g \in Subs, GatewayStep(g) PROVE Served'
  <2>1. UNCHANGED tasks /\ CalmGateway(g)
    BY <1>1, <1>2, <1>5, GatewayEffect, CalmGatewaySteps
  <2>2. \A r \in Subs \ {g} : sub'[r] = sub[r] /\ sub'[r] # "claim"
    BY <1>0, <1>1, <1>5, HandlerMoves
  <2>3. \A j \in Jobs : pending[j] => pending'[j]
    BY <1>0, <1>1, <1>5, GatewayKeys DEF Orderly
  <2>4. \/ UNCHANGED results
        \/ sub'[g] = "claim" /\ results' = [results EXCEPT ![JobOf[g]] = None]
    BY <1>0, <1>5, GatewayKeys
  <2>5. sub[g] = "claim" \/ sub'[g] = "dup" => pending'[JobOf[g]]
    <3>1. sub[g] = "claim" \/ sub'[g] = "dup" => EnqueueClaim(g)
      BY <1>0, <2>1, CalmHandler
    <3>2. EnqueueClaim(g) => pending'[JobOf[g]]
      BY <1>0 DEF EnqueueClaim
    <3> QED BY <3>1, <3>2
  <2>6. \A s \in Subs : sub'[s] = "dup" =>
           \/ results'[JobOf[s]] # None \/ pending'[JobOf[s]]
           \/ \E r \in Subs : JobOf[r] = JobOf[s] /\ sub'[r] = "claim"
    <3> SUFFICES ASSUME NEW s \in Subs, sub'[s] = "dup", s # g, ~pending'[JobOf[s]]
                 PROVE  \/ results'[JobOf[s]] # None
                        \/ \E r \in Subs : JobOf[r] = JobOf[s] /\ sub'[r] = "claim"
      BY <2>5
    <3>1. sub[s] = "dup" /\ ~pending[JobOf[s]]
      BY <1>0, <2>2, <2>3
    <3>2. \A r \in Subs : JobOf[r] = JobOf[s] => sub[r] # "claim"
      BY <2>2, <2>5
    <3>3. results[JobOf[s]] # None
      BY <1>3, <3>1, <3>2
    <3> QED BY <1>0, <2>4, <3>3
  <2> QED BY <1>1, <2>1, <2>6 DEF Served, DuplicateHasSource
<1>6. ~ExpireStep /\ ~RedisWipe
  BY <1>2 DEF ExpireStep, ExpirePending, ExpireResult, RedisWipe
<1>7. ASSUME NEW m \in MsgIds, GrowIdle(m) PROVE Served'
  <2>1. UNCHANGED <<stream, sub, tasks, results, pending>>
    BY <1>7 DEF GrowIdle, gateway, nodes
  <2> QED BY <1>4, <2>1
<1>8. ASSUME NEW w \in Workers, NodeStep(w) PROVE Served'
  <2>1. UNCHANGED <<stream, sub>> /\ CalmNode(w)
    BY <1>0, <1>1, <1>2, <1>8, NodeEffect, CalmNodeSteps
  <2>2. UNCHANGED <<results, pending>>
    BY <2>1 DEF CalmNode, StartNode, Reconnect, ReadNew, Dispatch, SweepNoGroup, SweepClaim,
                SweepDiscard, redis
  <2> QED BY <1>4, <1>8, <2>1, <2>2, NodeTasks
<1>9. ASSUME NEW t \in tasks, TaskStep(t) PROVE Served'
  <2>1. UNCHANGED <<stream, sub>>
    BY <1>9, TaskEffect
  <2>2. \A j \in Jobs : results[j] # None => results'[j] # None
    BY <1>0, <1>9, TaskKeys
  <2>3. \A u \in tasks' : u.pc \in {"del", "ack", "bell"} => results'[JobOf[stream[u.m]]] # None
    <3> SUFFICES ASSUME NEW u \in tasks' \ tasks, u.pc \in {"del", "ack", "bell"}
                 PROVE  results'[JobOf[stream[u.m]]] # None
      BY <1>1
    <3>1. /\ u.m = t.m
          /\ u.pc = "del" => PublishSet(t)
          /\ u.pc \in {"ack", "bell"} => (t.pc \in {"del", "ack"} /\ UNCHANGED results)
      BY <1>0, <1>9, TaskKeys
    <3>2. JobOf[stream[t.m]] \in Jobs
      BY <1>0
    <3>3. CASE PublishSet(t)
      <4>1. results' = [results EXCEPT ![JobOf[stream[t.m]]] = stream[t.m]]
        BY <3>3 DEF PublishSet, JobOfMsg
      <4>2. results'[JobOf[stream[t.m]]] = stream[t.m]
        BY <1>0, <3>2, <4>1
      <4> QED BY <1>0, <3>1, <4>2
    <3>4. CASE t.pc \in {"del", "ack"} /\ UNCHANGED results
      BY <1>3, <3>1, <3>4
    <3> QED BY <3>1, <3>3, <3>4
  <2>4. \A j \in Jobs : pending[j] => pending'[j] \/ results'[j] # None
    <3>1. CASE UNCHANGED pending
      BY <3>1
    <3>2. CASE t.pc = "del" /\ pending' = [pending EXCEPT ![JobOfMsg(t.m)] = FALSE]
      <4>1. results'[JobOf[stream[t.m]]] # None
        BY <1>0, <1>3, <2>2, <3>2
      <4> QED BY <1>0, <3>2, <4>1 DEF JobOfMsg
    <3> QED BY <1>0, <1>9, <3>1, <3>2, TaskKeys
  <2>5. \A s \in Subs : sub'[s] = "dup" =>
           \/ results'[JobOf[s]] # None \/ pending'[JobOf[s]]
           \/ \E r \in Subs : JobOf[r] = JobOf[s] /\ sub'[r] = "claim"
    BY <1>0, <1>3, <2>1, <2>2, <2>4
  <2> QED BY <2>1, <2>3, <2>5 DEF Served, DuplicateHasSource, JobOfMsg
<1> QED BY <1>5, <1>6, <1>7, <1>8, <1>9, StepCases

\* A step keeps the types of stream and PEL.
LEMMA StepTypes ==
    ASSUME QueueInv, Next
    PROVE  MessagesOK'
<1>1. QueueInv'
  BY QueueStep
<1> QED BY <1>1, Zenon DEF QueueInv, TypeOK, MessagesOK

\* While an open message, or a missed one, has its marker, it stays so: a read hands an
\* open message on, a trim or a group at $ misses it, and DEL pending ends it.
LEMMA OpenAfter ==
    ASSUME QueueInv, Exclusive, Orderly, Next, Calm',
           NEW m \in 1 .. Len(stream), Open(m) \/ Missed(m)
    PROVE  Open(m)' \/ Missed(m)' \/ ~pending'[JobOfMsg(m)]
<1>0. /\ MessagesOK /\ KeysOK /\ HandlersOK /\ NodesOK /\ CountsOK /\ IsFiniteSet(tasks)
      /\ Shape /\ Rung /\ recl \in [Workers -> SweepType]
      /\ stream \in Seq(Subs) /\ Len(stream) \in Nat /\ floor \in Int /\ group \in Int
      /\ floor \in 0 .. Len(stream) /\ group \in -1 .. Len(stream)
      /\ nth \in [MsgIds -> 0 .. MaxDeliveries] /\ m \in MsgIds /\ idle \subseteq pel
      /\ \A t \in tasks : t.m \in Passed
  BY TypeParts, SubsFinite DEF QueueInv, Held, NodesOK, MessagesOK, MsgIds
<1>1. Calm /\ "slow" \notin struck /\ \A kind : Fault(kind) => kind = "cancel"
  BY <1>0, CalmBefore
<1>2. /\ Passed \subseteq Passed' /\ Len(stream') >= Len(stream) /\ stream'[m] = stream[m]
      /\ Len(stream') \in Int /\ group' \in Int /\ floor' \in Int /\ m \in 1 .. Len(stream')
  <2>1. Passed \subseteq Passed' /\ Len(stream') >= Len(stream) /\ stream'[m] = stream[m]
    BY <1>0, PassedGrows
  <2>2. MessagesOK'
    BY StepTypes
  <2>3. Len(stream') \in Int /\ group' \in Int /\ floor' \in Int
    BY <2>2 DEF MessagesOK
  <2> QED BY <1>0, <2>1, <2>3
<1>3. CASE ~Valid(m)
  BY <1>2, <1>3 DEF Missed, Valid
<1>4. ASSUME Valid(m), m \in Passed', nth'[m] = 0 PROVE Missed(m)'
  BY <1>2, <1>4 DEF Missed, Passed, LargerOf
<1>5. ASSUME Valid(m), m \in pel PROVE m \notin idle /\ nth[m] >= 1
  <2>1. m \notin idle /\ ~Orphan(m) /\ m \in Passed
    BY <1>1, <1>5 DEF Orderly, QueueInv, Held
  <2> QED BY <1>0, <2>1 DEF QueueInv, Paid, PaidMsg
<1>6. CASE Valid(m) /\ Missed(m)
  <2>1. m \in Passed /\ nth[m] = 0 /\ m \notin pel /\ ~(m > group /\ m > floor)
    BY <1>0, <1>5, <1>6 DEF Missed, Passed, LargerOf
  <2>2. CASE nth' = nth
    BY <1>2, <1>4, <1>6, <2>1, <2>2
  <2>3. ASSUME NEW w \in Workers, ReadNew(w) PROVE nth'[m] = 0
    <3>1. nth' = Delivered(Batch(w)) /\ m \notin Batch(w)
      BY <1>0, <2>1, <2>3, ReadNewEffect, BatchType
    <3> QED BY <1>0, <2>1, <3>1, DeliveredType
  <2>4. ASSUME NEW w \in Workers, SweepClaim(w) PROVE nth'[m] = 0
    <3>1. nth' = Delivered(Kept(w)) /\ m \notin Kept(w)
      BY <1>0, <2>1, <2>4, SweepClaimEffect DEF Kept
    <3> QED BY <1>0, <2>1, <3>1, DeliveredType
  <2>5. ASSUME NEW w \in Workers, NodeStep(w)
        PROVE  nth' = nth \/ ReadNew(w) \/ SweepClaim(w)
    <3>1. CalmNode(w)
      BY <1>0, <1>1, <2>5, CalmNodeSteps
    <3> QED BY <3>1 DEF CalmNode, StartNode, Reconnect, Dispatch, SweepNoGroup, SweepDiscard, redis
  <2>6. \/ nth' = nth \/ \E w \in Workers : ReadNew(w) \/ SweepClaim(w)
    <3>1. ~ExpireStep /\ ~RedisWipe
      BY <1>1 DEF ExpireStep, ExpirePending, ExpireResult, RedisWipe
    <3>2. \A k \in MsgIds : GrowIdle(k) => nth' = nth
      BY DEF GrowIdle
    <3> QED BY <2>5, <3>1, <3>2, StepCases, GatewayEffect, TaskEffect
  <2> QED BY <1>2, <1>4, <1>6, <2>1, <2>2, <2>3, <2>4, <2>6
<1>7. CASE Valid(m) /\ Open(m)
  <2>0. /\ m \in pel \/ (m \notin Passed /\ nth[m] = 0)
        /\ m \in pel => \A t \in tasks : t.m = m => t.pc \in {"run", "set", "del"}
        /\ m \notin pel => (m > group /\ m > floor)
    <3>1. m \in pel => m \in Passed
      BY DEF QueueInv, Held
    <3>2. m \notin Passed => nth[m] = 0
      BY <1>0 DEF QueueInv, Paid, PaidMsg
    <3>3. m \in Passed => ~(m > group /\ m > floor)
      BY <1>0 DEF Passed
    <3>4. m > group /\ m > floor => m \notin Passed
      BY <1>0 DEF Passed
    <3> QED BY <1>7, <3>1, <3>2, <3>3, <3>4 DEF Open
  <2>1. ASSUME m \in pel => m \in pel',
               \A t \in tasks' : t \in tasks \/ t.m # m \/ t.pc \in {"run", "set", "del"},
               m \notin pel => (m \in pel' \/ nth'[m] = nth[m])
        PROVE  Open(m)' \/ Missed(m)'
    <3>1. \A t \in tasks' : t.m = m => t.pc \in {"run", "set", "del"}
      BY <1>0, <2>0, <2>1
    <3>2. CASE m \in pel'
      BY <1>2, <3>1, <3>2 DEF Open
    <3>3. CASE m \notin pel' /\ m \in Passed'
      BY <1>4, <1>7, <2>0, <2>1, <3>3
    <3>4. CASE m \notin pel' /\ m \notin Passed'
      BY <1>2, <3>4 DEF Open, Passed
    <3> QED BY <3>2, <3>3, <3>4
  <2>2. ASSUME NEW s \in Subs, GatewayStep(s) PROVE Open(m)' \/ Missed(m)'
    BY <2>1, <2>2, GatewayEffect
  <2>3. ~ExpireStep /\ ~RedisWipe
    BY <1>1 DEF ExpireStep, ExpirePending, ExpireResult, RedisWipe
  <2>4. ASSUME NEW k \in MsgIds, GrowIdle(k) PROVE Open(m)' \/ Missed(m)'
    <3>1. UNCHANGED <<pel, nth, tasks>>
      BY <2>4 DEF GrowIdle, nodes
    <3> QED BY <2>1, <3>1
  <2>5. ASSUME NEW w \in Workers, NodeStep(w) PROVE Open(m)' \/ Missed(m)'
    <3>0. CalmNode(w) /\ \A u \in tasks' \ tasks : u.pc = "run"
      BY <1>0, <1>1, <2>5, CalmNodeSteps, NodeTasks
    <3>1. CASE ReadNew(w)
      <4>1. pel' = pel \cup Batch(w) /\ nth' = Delivered(Batch(w))
        BY <3>1, ReadNewEffect
      <4>2. m \notin Batch(w) => nth'[m] = nth[m]
        BY <1>0, <4>1, DeliveredType
      <4> QED BY <2>1, <3>0, <4>1, <4>2
    <3>2. CASE StartNode(w) \/ Reconnect(w) \/ Dispatch(w) \/ SweepNoGroup(w)
      <4>1. UNCHANGED <<pel, nth>>
        BY <3>2 DEF StartNode, Reconnect, Dispatch, SweepNoGroup, redis
      <4> QED BY <2>1, <3>0, <4>1
    <3>3. CASE SweepClaim(w)
      <4>1. /\ pel' = pel \ (Claimed(w) \ Kept(w)) /\ nth' = Delivered(Kept(w))
            /\ Claimed(w) \subseteq idle /\ Kept(w) \subseteq Claimed(w)
        BY <1>0, <3>3, SweepClaimEffect DEF Kept
      <4>2. m \notin Claimed(w)
        BY <1>0, <1>5, <1>7, <4>1
      <4>3. nth'[m] = nth[m]
        BY <1>0, <4>1, <4>2, DeliveredType
      <4> QED BY <2>1, <3>0, <4>1, <4>2, <4>3
    <3>4. CASE SweepDiscard(w)
      <4>1. ~Valid(First(recl[w].todo)) /\ UNCHANGED nth
        BY <3>4 DEF SweepDiscard
      <4>2. pel' = pel \ {First(recl[w].todo)} \/ pel' = pel
        BY <3>4 DEF SweepDiscard
      <4> QED BY <1>7, <2>1, <3>0, <4>1, <4>2
    <3> QED BY <3>0, <3>1, <3>2, <3>3, <3>4 DEF CalmNode
  <2>6. ASSUME NEW t \in tasks, TaskStep(t) PROVE Open(m)' \/ Missed(m)' \/ ~pending'[JobOfMsg(m)]
    <3>0. UNCHANGED nth
      BY <2>6, TaskEffect
    <3>1. CASE t.m = m /\ t.pc = "del"
      <4>1. PublishDel(t)
        BY <1>1, <2>6, <3>1 DEF TaskStep, Publish, RunJob, PublishSet, PublishAck, PublishBell,
                                PublishDrop
      <4>2. JobOfMsg(m) \in Jobs
        BY <1>0 DEF JobOfMsg, Jobs
      <4> QED BY <1>0, <3>1, <4>1, <4>2 DEF PublishDel, KeysOK
    <3>2. CASE t.m # m
      <4>1. (m \in pel => m \in pel') /\ \A u \in tasks' : u \in tasks \/ u.m # m
        BY <1>0, <1>1, <2>6, <3>2, CalmTaskSteps
      <4> QED BY <2>1, <3>0, <4>1
    <3>3. CASE t.m = m /\ t.pc # "del"
      <4>1. m \in pel /\ t.pc \in {"run", "set"}
        BY <1>0, <2>0, <3>3
      <4>2. pel' = pel /\ \A u \in tasks' : u \in tasks \/ u.pc \in {"set", "del"}
        BY <1>0, <1>1, <2>6, <3>3, <4>1, CalmTaskSteps
      <4> QED BY <2>1, <3>0, <4>2
    <3> QED BY <3>1, <3>2, <3>3
  <2> QED BY <2>2, <2>3, <2>4, <2>5, <2>6, StepCases
<1> QED BY <1>3, <1>6, <1>7

\* Which step of a handler claims a marker, and what becomes of the claim.
LEMMA ClaimOwner ==
    ASSUME KeysOK, HandlersOK, NEW s \in Subs, CalmGateway(s)
    PROVE  /\ \A j \in Jobs : (pending'[j] /\ ~pending[j]) => (j = JobOf[s] /\ sub'[s] = "add")
           /\ sub[s] = "add" => (sub'[s] = "abandoned" \/ Xadd(s))
           /\ sub[s] # "abandoned"
<1>0. /\ JobOf[s] \in Jobs /\ pending \in [Jobs -> BOOLEAN]
      /\ \A pc : Goto(s, pc) => sub'[s] = pc
  BY DEF Jobs, KeysOK, HandlersOK, Goto
<1>1. CASE EnqueueDel(s)
  BY <1>1 DEF EnqueueDel
<1>2. CASE EnqueueClaim(s)
  BY <1>0, <1>2 DEF EnqueueClaim
<1>3. CASE EnqueueAdd(s)
  BY <1>3 DEF EnqueueAdd
<1>4. CASE AsyncReply(s)
  BY <1>4 DEF AsyncReply, redis
<1>5. CASE Cancel(s)
  BY <1>0, <1>5 DEF Cancel, redis
<1>6. CASE WaitGet(s)
  BY <1>6 DEF WaitGet, redis
<1>7. CASE WaitTimeout(s)
  BY <1>7 DEF WaitTimeout, redis
<1> QED BY <1>1, <1>2, <1>3, <1>4, <1>5, <1>6, <1>7 DEF CalmGateway, Wait

\* Owned is inductive.
LEMMA OwnedStep ==
    ASSUME QueueInv, Exclusive, Orderly, Owned, Next
    PROVE  Owned'
<1> SUFFICES ASSUME Calm', NEW j \in Jobs, pending'[j]
             PROVE  \/ \E s \in Subs : JobOf[s] = j /\ sub'[s] \in {"add", "abandoned"}
                    \/ \E m \in 1 .. Len(stream') : JobOfMsg(m)' = j /\ (Open(m) \/ Missed(m))'
  BY DEF Owned
<1>0. /\ MessagesOK /\ KeysOK /\ HandlersOK /\ NodesOK /\ CountsOK /\ IsFiniteSet(tasks)
      /\ Len(stream) \in Nat /\ group <= Len(stream) /\ group \in Int
      /\ Len(stream') >= Len(stream) /\ Len(stream') \in Int
      /\ \A m \in 1 .. Len(stream) : stream'[m] = stream[m]
  <2>1. MessagesOK /\ KeysOK /\ HandlersOK /\ NodesOK /\ CountsOK /\ IsFiniteSet(tasks)
    BY TypeParts DEF QueueInv, Held
  <2>2. MessagesOK'
    BY StepTypes
  <2> QED BY <2>1, <2>2, PassedGrows DEF MessagesOK
<1>1. Calm /\ \A kind : Fault(kind) => kind = "cancel"
  BY <1>0, CalmBefore
<1>2. ASSUME NEW m \in 1 .. Len(stream), JobOfMsg(m) = j, Open(m) \/ Missed(m)
      PROVE  \E k \in 1 .. Len(stream') : JobOfMsg(k)' = j /\ (Open(k) \/ Missed(k))'
  <2>1. Open(m)' \/ Missed(m)'
    BY <1>2, OpenAfter
  <2>2. m \in 1 .. Len(stream') /\ JobOfMsg(m)' = j
    BY <1>0, <1>2 DEF JobOfMsg
  <2> QED BY <2>1, <2>2
<1>3. CASE pending[j] /\ UNCHANGED sub
  BY <1>1, <1>2, <1>3 DEF Owned
<1>4. ASSUME NEW g \in Subs, GatewayStep(g)
      PROVE  \/ \E s \in Subs : JobOf[s] = j /\ sub'[s] \in {"add", "abandoned"}
             \/ \E m \in 1 .. Len(stream') : JobOfMsg(m)' = j /\ (Open(m) \/ Missed(m))'
  <2>1. CalmGateway(g)
    BY <1>1, <1>4, CalmGatewaySteps
  <2>2. CASE ~pending[j]
    BY <1>0, <2>1, <2>2, ClaimOwner
  <2>3. ASSUME NEW s \in Subs, JobOf[s] = j, sub[s] \in {"add", "abandoned"}, s # g
        PROVE  sub'[s] \in {"add", "abandoned"}
    BY <1>0, <1>4, <2>3, HandlerMoves
  <2>4. CASE sub[g] \in {"add", "abandoned"} /\ JobOf[g] = j
    <3>1. CASE sub'[g] = "abandoned"
      BY <2>4, <3>1
    <3>2. CASE Xadd(g)
      <4>0. PICK k \in Nat : k = Len(stream) + 1
        BY <1>0
      <4>1. /\ Len(stream') = k /\ stream'[k] = g /\ floor' \in 0 .. Len(stream)
            /\ group' = group
        BY <1>0, <1>4, <3>2, <4>0, XaddType, GatewayEffect
      <4>2. k \in 1 .. Len(stream') /\ k > group' /\ k > floor'
        BY <1>0, <4>0, <4>1
      <4>3. Open(k)' /\ JobOfMsg(k)' = j
        BY <2>4, <4>1, <4>2 DEF Open, JobOfMsg
      <4> QED BY <4>2, <4>3
    <3> QED BY <1>0, <2>1, <2>4, <3>1, <3>2, ClaimOwner
  <2> QED BY <1>1, <1>2, <2>2, <2>3, <2>4 DEF Owned
<1>5. ~ExpireStep /\ ~RedisWipe
  BY <1>1 DEF ExpireStep, ExpirePending, ExpireResult, RedisWipe
<1>6. ASSUME NEW m \in MsgIds, GrowIdle(m) PROVE pending[j] /\ UNCHANGED sub
  BY <1>6 DEF GrowIdle, gateway
<1>7. ASSUME NEW w \in Workers, NodeStep(w) PROVE pending[j] /\ UNCHANGED sub
  <2>1. UNCHANGED sub
    BY <1>7, NodeEffect
  <2>2. pending[j]
    BY <1>0, <1>7, NodeKeys DEF KeysOK
  <2> QED BY <2>1, <2>2
<1>8. ASSUME NEW t \in tasks, TaskStep(t) PROVE pending[j] /\ UNCHANGED sub
  <2>1. UNCHANGED sub
    BY <1>8, TaskEffect
  <2>2. pending[j]
    BY <1>0, <1>8, TaskKeys DEF KeysOK
  <2> QED BY <2>1, <2>2
<1> QED BY <1>3, <1>4, <1>5, <1>6, <1>7, <1>8, StepCases

\* Who stands behind a marker, in every behaviour.
LEMMA OwnedInvariant == Spec => []Owned
<1>1. Init => Owned
  <2> SUFFICES ASSUME Init, NEW j \in Jobs PROVE ~pending[j]
    BY DEF Owned
  <2> QED BY DEF Init
<1>2. QueueInv /\ (Exclusive /\ Orderly /\ OneOpen) /\ Owned /\ [Next]_vars => Owned'
  <2> SUFFICES ASSUME QueueInv, Exclusive, Orderly, Owned, [Next]_vars PROVE Owned'
    OBVIOUS
  <2>1. CASE UNCHANGED vars
    <3>1. UNCHANGED <<stream, floor, group, pel, nth, pending, sub, tasks, struck>>
      BY <2>1 DEF vars, moving, redis, gateway, nodes
    <3> QED BY <3>1 DEF Owned, Calm, Open, Missed, Valid, JobOfMsg, LargerOf
  <2> QED BY <2>1, OwnedStep
<1> QED BY <1>1, <1>2, QueueInvariant, OneOpenInvariant, PTL DEF Spec

\* DuplicateIsServed for every instance: with pipes that run whole and no fault but lost
\* clients, a duplicate of enqueue (result_bus.rs) has a result to read or a run to come,
\* unless the marker it met is bare: abandoned before XADD, trimmed or skipped unread, or
\* of a payload that does not parse.
THEOREM QueueServesDuplicates == Spec => []DuplicateIsServed
<1>1. Init => Served
  <2> SUFFICES ASSUME Init PROVE Served
    OBVIOUS
  <2>1. tasks = {} /\ \A s \in Subs : sub[s] = "new"
    BY DEF Init
  <2> QED BY <2>1 DEF Served, DuplicateHasSource
<1>2. QueueInv /\ Orderly /\ Served /\ [Next]_vars => Served'
  <2> SUFFICES ASSUME QueueInv, Orderly, Served, [Next]_vars PROVE Served'
    OBVIOUS
  <2>1. CASE UNCHANGED vars
    <3>1. UNCHANGED <<stream, results, pending, sub, tasks, whole, struck>>
      BY <2>1 DEF vars, moving, redis, gateway, nodes
    <3> QED BY <3>1 DEF Served, Undisturbed, DuplicateHasSource, JobOfMsg
  <2> QED BY <2>1, ServedStep
<1>3. QueueInv /\ Served /\ Owned => DuplicateIsServed
  <2> SUFFICES ASSUME QueueInv, Served, Owned, Undisturbed, NEW s \in Subs, sub[s] = "dup",
                      results[JobOf[s]] = None
               PROVE  RunToCome(JobOf[s]) \/ BareMarker(JobOf[s])
    BY DEF DuplicateIsServed
  <2>0. /\ Calm /\ JobOf[s] \in Jobs
        /\ Len(stream) \in Nat /\ floor \in Int /\ group \in Int
    BY DEF Undisturbed, Calm, Jobs, QueueInv, TypeOK
  <2>1. CASE ~pending[JobOf[s]]
    BY <2>1 DEF Served, DuplicateHasSource, RunToCome
  <2>2. CASE pending[JobOf[s]]
    <3>1. ASSUME NEW m \in 1 .. Len(stream), JobOfMsg(m) = JobOf[s], Open(m) PROVE Unreported(m)
      <4>1. \A t \in tasks : t.m = m => t.pc # "del"
        BY <3>1 DEF Served
      <4> QED BY <2>0, <3>1, <4>1 DEF Open, Unreported, LargerOf
    <3>2. \/ \E r \in Subs : JobOf[r] = JobOf[s] /\ sub[r] \in {"add", "abandoned"}
          \/ \E m \in 1 .. Len(stream) : JobOfMsg(m) = JobOf[s] /\ (Open(m) \/ Missed(m))
      BY <2>0, <2>2 DEF Owned
    <3> QED BY <2>2, <3>1, <3>2 DEF RunToCome, BareMarker
  <2> QED BY <2>1, <2>2
<1> QED BY <1>1, <1>2, <1>3, QueueInvariant, OneOpenInvariant, OwnedInvariant, PTL DEF Spec

\* Fresh is inductive.
LEMMA FreshStep ==
    ASSUME QueueInv, Exclusive, Orderly, OneOpen, Fresh, Next
    PROVE  Fresh'
<1> SUFFICES ASSUME Undisturbed' PROVE Fresh'
  BY DEF Fresh
<1>0. /\ MessagesOK /\ KeysOK /\ HandlersOK /\ NodesOK /\ CountsOK /\ IsFiniteSet(tasks)
      /\ None \notin Subs /\ Len(stream) \in Nat
      /\ results \in [Jobs -> Subs \cup {None}]
      /\ \A s \in Subs : JobOf[s] \in Jobs
      /\ \A m \in 1 .. Len(stream) : stream[m] \in Subs
      /\ \A t \in tasks : t.m \in 1 .. Len(stream)
  <2>1. /\ MessagesOK /\ KeysOK /\ HandlersOK /\ NodesOK /\ CountsOK /\ IsFiniteSet(tasks)
    BY TypeParts DEF QueueInv, Held
  <2>2. \A t \in tasks : t.m \in 1 .. Len(stream)
    BY DEF QueueInv, Held, Passed
  <2>3. stream \in Seq(Subs)
    BY <2>1 DEF MessagesOK
  <2> QED BY <2>1, <2>2, <2>3, SubsAssumption DEF KeysOK, Jobs
<1>1. /\ Undisturbed /\ Calm' /\ Calm /\ "slow" \notin struck
      /\ \A s \in Subs : sub[s] = "claim" => sub'[s] # "claim"
  BY <1>0, WholeBefore, CalmBefore
<1>2. \A kind : Fault(kind) => kind = "cancel"
  BY <1>0, <1>1, CalmBefore
<1>3. /\ \A s \in Subs : sub[s] \in {"claim", "add"} => results[JobOf[s]] = None
      /\ \A m, k \in 1 .. Len(stream) :
            (sub[stream[m]] = "wait" /\ results[JobOf[stream[m]]] = stream[k]) => k >= m
      /\ \A m \in 1 .. Len(stream) : sub[stream[m]] # "dup"
      /\ \A m, k \in 1 .. Len(stream) :
            (sub[stream[m]] = "done" /\ got[stream[m]] = stream[k]) => k >= m
  BY <1>1 DEF Fresh, NeverStale, JobOfMsg
<1>4. /\ \A i, k \in 1 .. Len(stream) : stream[i] = stream[k] => i = k
      /\ \A i \in 1 .. Len(stream) : sub[stream[i]] \notin {"new", "claim", "add"}
  BY DEF QueueInv, Added
<1>5. ASSUME UNCHANGED <<stream, sub, got, results>> PROVE Fresh'
  BY <1>3, <1>5 DEF Fresh, NeverStale, JobOfMsg
<1>6. ASSUME NEW g \in Subs, GatewayStep(g) PROVE Fresh'
  <2>1. CalmGateway(g)
    BY <1>1, <1>2, <1>6, CalmGatewaySteps
  <2>2. \A r \in Subs \ {g} : sub'[r] = sub[r] /\ got'[r] = got[r]
    BY <1>0, <1>6, <2>1, HandlerMoves, CalmHandler
  <2>3. \/ UNCHANGED results
        \/ sub'[g] = "claim" /\ results' = [results EXCEPT ![JobOf[g]] = None]
    BY <1>0, <1>6, GatewayKeys
  <2>4. \A j \in Jobs : results'[j] = results[j] \/ results'[j] = None
    BY <1>0, <2>3
  <2>5. /\ sub'[g] = "claim" => results'[JobOf[g]] = None
        /\ sub'[g] = "add" => (sub[g] = "claim" /\ UNCHANGED results)
        /\ sub'[g] = "wait" => (sub[g] = "add" /\ UNCHANGED results)
        /\ sub'[g] = "dup" => sub[g] = "claim"
    <3>1. sub'[g] = "claim" => EnqueueDel(g)
      BY <1>0, <2>1, CalmHandler
    <3>2. EnqueueDel(g) => results'[JobOf[g]] = None
      BY <1>0 DEF EnqueueDel
    <3>3. sub'[g] = "dup" => EnqueueClaim(g)
      BY <1>0, <2>1, CalmHandler
    <3>4. EnqueueClaim(g) => sub[g] = "claim"
      BY DEF EnqueueClaim
    <3> QED BY <1>0, <1>6, <3>1, <3>2, <3>3, <3>4, GatewayKeys
  <2>6. sub'[g] = "done" => /\ sub[g] \in {"wait", "dup"} /\ got'[g] = results[JobOf[g]]
                            /\ UNCHANGED stream
    <3>1. sub'[g] = "done" => WaitGet(g)
      BY <1>0, <2>1, CalmHandler
    <3>2. WaitGet(g) => got' = [got EXCEPT ![g] = results[JobOf[g]]] /\ UNCHANGED stream
                        /\ sub[g] \in {"wait", "dup"}
      BY DEF WaitGet, redis
    <3> QED BY <1>0, <3>1, <3>2 DEF HandlersOK
  <2>7. \/ UNCHANGED stream
        \/ /\ sub[g] = "add" /\ Len(stream') = Len(stream) + 1
           /\ \A m \in 1 .. Len(stream) : stream'[m] = stream[m]
           /\ stream'[Len(stream) + 1] = g
    <3>1. UNCHANGED stream \/ (sub[g] = "add" /\ Xadd(g))
      BY <1>6, GatewayEffect
    <3> QED BY <1>0, <3>1, XaddType
  <2>8. \A m \in 1 .. Len(stream') :
           \/ m \in 1 .. Len(stream) /\ stream'[m] = stream[m]
           \/ m = Len(stream) + 1 /\ stream'[m] = g /\ sub[g] = "add"
    BY <1>0, <2>7
  <2>9. \A s \in Subs : sub'[s] \in {"claim", "add"} => results'[JobOf[s]] = None
    BY <1>0, <1>3, <2>2, <2>4, <2>5
  <2>10. ASSUME NEW m \in 1 .. Len(stream'), NEW k \in 1 .. Len(stream')
         PROVE  /\ (sub'[stream'[m]] = "wait" /\ results'[JobOf[stream'[m]]] = stream'[k]) => k >= m
                /\ sub'[stream'[m]] # "dup"
                /\ (sub'[stream'[m]] = "done" /\ got'[stream'[m]] = stream'[k]) => k >= m
    <3>1. CASE k = Len(stream) + 1 /\ m \in 1 .. Len(stream) + 1
      <4>1. sub'[stream'[m]] # "dup"
        BY <1>0, <1>3, <1>4, <2>2, <2>5, <2>8
      <4> QED BY <1>0, <3>1, <4>1
    <3>2. CASE k \in 1 .. Len(stream) /\ m \in 1 .. Len(stream)
      <4>0. /\ stream'[m] = stream[m] /\ stream'[k] = stream[k] /\ stream[m] \in Subs
            /\ stream[k] \in Subs /\ stream[k] # None
        BY <1>0, <2>7, <3>2
      <4>1. CASE stream[m] # g
        <5>1. sub'[stream[m]] = sub[stream[m]] /\ got'[stream[m]] = got[stream[m]]
          BY <2>2, <4>0, <4>1
        <5>2. results'[JobOf[stream[m]]] = stream[k] => results[JobOf[stream[m]]] = stream[k]
          BY <1>0, <2>4, <4>0
        <5> QED BY <1>3, <3>2, <4>0, <5>1, <5>2
      <4>2. CASE stream[m] = g
        <5>1. sub[g] \notin {"new", "claim", "add", "dup"}
          BY <1>3, <1>4, <3>2, <4>2
        <5>2. sub'[g] # "wait" /\ sub'[g] # "dup"
          BY <2>5, <5>1
        <5>3. sub'[g] = "done" => sub[g] = "wait" /\ got'[g] = results[JobOf[g]]
          BY <2>6, <5>1
        <5> QED BY <1>3, <3>2, <4>0, <4>2, <5>2, <5>3
      <4> QED BY <4>1, <4>2
    <3>3. CASE k \in 1 .. Len(stream) /\ m = Len(stream) + 1
      <4>1. stream'[m] = g /\ sub[g] = "add" /\ stream'[k] \in Subs
        BY <1>0, <2>8, <3>3
      <4>2. sub'[g] # "dup" /\ sub'[g] # "done"
        BY <2>5, <2>6, <4>1
      <4>3. sub'[g] = "wait" => results'[JobOf[g]] = None
        BY <1>3, <2>5, <4>1
      <4> QED BY <1>0, <4>1, <4>2, <4>3
    <3> QED BY <1>0, <2>8, <3>1, <3>2, <3>3
  <2> QED BY <2>9, <2>10 DEF Fresh, NeverStale, JobOfMsg
<1>7. ~ExpireStep /\ ~RedisWipe
  BY <1>2 DEF ExpireStep, ExpirePending, ExpireResult, RedisWipe
<1>8. ASSUME NEW m \in MsgIds, GrowIdle(m) PROVE Fresh'
  BY <1>5, <1>8 DEF GrowIdle, gateway
<1>9. ASSUME NEW w \in Workers, NodeStep(w) PROVE Fresh'
  BY <1>5, <1>9, NodeEffect, NodeKeys
<1>10. ASSUME NEW t \in tasks, TaskStep(t) PROVE Fresh'
  <2>1. UNCHANGED <<stream, sub, got>>
    BY <1>10, TaskEffect
  <2>2. CASE UNCHANGED results
    BY <1>5, <2>1, <2>2
  <2>3. CASE t.pc = "set" /\ results' = [results EXCEPT ![JobOfMsg(t.m)] = stream[t.m]]
    <3>1. t.m \in pel /\ \A x \in tasks : x.m = t.m => x = t
      BY <1>1, <2>3 DEF Orderly, Exclusive
    <3>2. Open(t.m)
      BY <1>0, <2>3, <3>1 DEF Open
    <3>3. /\ \A s \in Subs : sub[s] = "add" => JobOf[s] # JobOf[stream[t.m]]
          /\ \A m \in 1 .. Len(stream) : JobOf[stream[t.m]] = JobOf[stream[m]] => m <= t.m
      BY <1>0, <1>1, <3>2 DEF OneOpen, JobOfMsg
    <3>4. \A j \in Jobs : results'[j] = IF j = JobOf[stream[t.m]] THEN stream[t.m] ELSE results[j]
      BY <1>0, <2>3 DEF JobOfMsg
    <3>5. \A s \in Subs : sub[s] # "claim"
      BY <1>1, <2>1
    <3>6. \A s \in Subs : sub[s] \in {"claim", "add"} => results'[JobOf[s]] = None
      BY <1>0, <1>3, <3>3, <3>4, <3>5
    <3>7. \A m, k \in 1 .. Len(stream) :
             (sub[stream[m]] = "wait" /\ results'[JobOf[stream[m]]] = stream[k]) => k >= m
      <4> SUFFICES ASSUME NEW m \in 1 .. Len(stream), NEW k \in 1 .. Len(stream),
                          sub[stream[m]] = "wait", results'[JobOf[stream[m]]] = stream[k]
                   PROVE  k >= m
        OBVIOUS
      <4>1. CASE JobOf[stream[m]] = JobOf[stream[t.m]]
        <5>1. k = t.m /\ m <= t.m
          BY <1>0, <1>4, <3>3, <3>4, <4>1
        <5> QED BY <1>0, <5>1
      <4>2. CASE JobOf[stream[m]] # JobOf[stream[t.m]]
        BY <1>0, <1>3, <3>4, <4>2
      <4> QED BY <4>1, <4>2
    <3> QED BY <1>3, <2>1, <3>6, <3>7 DEF Fresh, NeverStale, JobOfMsg
  <2> QED BY <1>0, <1>10, <2>2, <2>3, TaskKeys
<1> QED BY <1>6, <1>7, <1>8, <1>9, <1>10, StepCases

\* NeverStale for every instance: with pipes that run whole and no fault but lost clients,
\* wait_for (result_bus.rs) never answers a queued submission with the result of an
\* earlier message of the same job_id, since enqueue cleared it.
THEOREM QueueAnswersFresh == Spec => []NeverStale
<1>1. Init => Fresh
  <2> SUFFICES ASSUME Init PROVE Fresh
    OBVIOUS
  <2>1. stream = <<>> /\ \A s \in Subs : sub[s] = "new"
    BY DEF Init
  <2> QED BY <2>1 DEF Fresh, NeverStale
<1>2. QueueInv /\ (Exclusive /\ Orderly /\ OneOpen) /\ Fresh /\ [Next]_vars => Fresh'
  <2> SUFFICES ASSUME QueueInv, Exclusive, Orderly, OneOpen, Fresh, [Next]_vars PROVE Fresh'
    OBVIOUS
  <2>1. CASE UNCHANGED vars
    <3>1. UNCHANGED <<stream, results, sub, got, whole, struck>>
      BY <2>1 DEF vars, moving, redis, gateway
    <3> QED BY <3>1 DEF Fresh, Undisturbed, NeverStale, JobOfMsg
  <2> QED BY <2>1, FreshStep
<1>3. Fresh => NeverStale
  BY DEF Fresh, NeverStale
<1> QED BY <1>1, <1>2, <1>3, QueueInvariant, OneOpenInvariant, PTL DEF Spec
=============================================================================
