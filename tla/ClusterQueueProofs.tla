------------------------- MODULE ClusterQueueProofs -------------------------
(***************************************************************************)
(* Proofs about ClusterQueue, for any number of submissions, job ids,      *)
(* worker nodes and faults, and for every bound.                           *)
(*                                                                         *)
(* QueueInv accounts for every message: Added says which submissions are   *)
(* in the stream, Held who may have a message in hand, Shape where a sweep *)
(* is with its list, and Paid and Rung that every further delivery of a    *)
(* message is owed to a fault of its own.                                  *)
(***************************************************************************)
EXTENDS ClusterQueue, FiniteSetTheorems, FunctionTheorems, SequenceTheorems,
        WellFoundedInduction, TLAPS

\* The stream holds each submission once, and only those past their XADD.
Added ==
    /\ \A i, k \in 1 .. Len(stream) : stream[i] = stream[k] => i = k
    /\ \A i \in 1 .. Len(stream) : sub[stream[i]] \notin {"new", "claim", "add"}

\* The messages that were read, trimmed or wiped.
Passed == {m \in 1 .. Len(stream) : m <= group \/ m <= floor}

\* What is in the PEL, or in the hands of a node, has passed; only jobs become tasks.
Held ==
    /\ pel \subseteq Passed
    /\ \A w \in Workers : inbox[w] \subseteq Passed
    /\ \A w \in Workers : recl[w].todo \subseteq Passed
    /\ \A t \in tasks : t.m \in Passed /\ Valid(t.m)
    /\ IsFiniteSet(tasks)

\* A sweep sleeps when its list is done, and works on the head of the list.
Shape ==
    \A w \in Workers :
        /\ recl[w].pc = "sleep" <=> recl[w].todo = {}
        /\ recl[w].pc \in {"rerun", "del", "ack", "bell"} => Valid(First(recl[w].todo))

\* Deliveries of a message: none before it is read, one for the read and one for each
\* fault; the one that an orphan, or an idle entry, is about to get is paid already.
PaidMsg(m) ==
    /\ m \notin Passed => nth[m] = 0
    /\ (m \in Passed /\ ~Orphan(m)) => nth[m] >= 1
    /\ (m \in Passed /\ Valid(m)) => nth[m] <= faults + 1
    /\ (m \in pel /\ Valid(m) /\ (m \in idle \/ Orphan(m))) => nth[m] <= faults
Paid == \A m \in MsgIds : PaidMsg(m)

\* Whoever is about to ring the bell has acknowledged its message.
Rung ==
    /\ \A t \in tasks : t.pc = "bell" => t.m \notin pel
    /\ \A w \in Workers : recl[w].pc = "bell" => First(recl[w].todo) \notin pel

QueueInv == TypeOK /\ Added /\ Held /\ Shape /\ Paid /\ Rung

(***************************************************************************)
(* Operators of the model.                                                 *)
(***************************************************************************)
\* First picks the least of a non-empty set of naturals.
LEMMA FirstIsLeast ==
    ASSUME NEW S \in SUBSET Nat, S # {}
    PROVE  First(S) \in S /\ \A k \in S : First(S) <= k
<1>1. PICK x \in S : \A y \in S : ~(<<y, x>> \in OpToRel(<, Nat))
  BY NatLessThanWellFounded, WFMin
<1>2. \A y \in S : ~(<<y, x>> \in {ss \in Nat \X Nat : ss[1] < ss[2]})
  BY <1>1, Zenon DEF OpToRel
<1>3. ASSUME NEW k \in S, k < x PROVE FALSE
  <2>1. <<k, x>> \in {ss \in Nat \X Nat : ss[1] < ss[2]}
    BY <1>3
  <2> QED BY <1>2, <2>1
<1>4. \A k \in S : x <= k
  BY <1>3
<1> QED BY <1>1, <1>4 DEF First

\* There are finitely many submissions.
LEMMA SubsFinite == IsFiniteSet(Subs) /\ Cardinality(Subs) \in Nat
BY SubsAssumption, FS_CardinalityType

\* The read batch is a positive number of messages.
LEMMA BatchSizeType ==
    ASSUME IsFiniteSet(tasks), NEW w
    PROVE  BatchSize(w) \in Nat \ {0}
<1> DEFINE Mine == {t \in tasks : t.w = w}
<1>1. Cardinality(Mine) \in Nat
  BY FS_Subset, FS_CardinalityType
<1> HIDE DEF Mine
<1>2. Permits - Cardinality(Mine) \in Int
  BY <1>1, BoundAssumption
<1>3. Available(w) \in Int
  BY <1>2 DEF Available, Mine
<1> QED BY <1>3, BoundAssumption DEF BatchSize, SmallerOf, LargerOf

\* A delivery raises the counts of its messages by one, up to the bound.
LEMMA DeliveredType ==
    ASSUME nth \in [MsgIds -> 0 .. MaxDeliveries], NEW S
    PROVE  /\ Delivered(S) \in [MsgIds -> 0 .. MaxDeliveries]
           /\ \A m \in MsgIds \ S : Delivered(S)[m] = nth[m]
           /\ \A m \in MsgIds \cap S : /\ Delivered(S)[m] <= nth[m] + 1
                                       /\ Delivered(S)[m] >= 1
                                       /\ Delivered(S)[m] >= nth[m]
BY BoundAssumption DEF Delivered, SmallerOf, MaxDeliveries

\* A stream without repetition is no longer than the set of submissions.
LEMMA StreamFits ==
    ASSUME NEW q \in Seq(Subs), \A i, k \in 1 .. Len(q) : q[i] = q[k] => i = k
    PROVE  Len(q) \in 0 .. Cardinality(Subs)
<1>1. q \in Injection(1 .. Len(q), Subs)
  BY DEF Injection, IsInjective
<1>2. Cardinality(1 .. Len(q)) <= Cardinality(Subs)
  BY <1>1, SubsFinite, FS_Injection
<1>3. Cardinality(1 .. Len(q)) = Len(q) /\ Len(q) \in Nat
  BY FS_Interval
<1> QED BY <1>2, <1>3, SubsFinite

(***************************************************************************)
(* What a step of each actor leaves alone.                                 *)
(***************************************************************************)
GatewayStep(s) == Enqueue(s) \/ EnqueueFault(s) \/ Wait(s)
ExpireStep     == \E j \in Jobs : ExpirePending(j) \/ ExpireResult(j)
NodeStep(w)    == StartNode(w) \/ ReadLoop(w) \/ Sweep(w) \/ AckDrop(w) \/ Crash(w)
TaskStep(t)    == Publish(t) \/ PublishDrop(t)
Counted        == NoFault \/ \E kind \in Faults : Fault(kind)

\* The handler of s adds its message when it is due, and touches nobody's hands.
LEMMA GatewayEffect ==
    ASSUME NEW s \in Subs, GatewayStep(s)
    PROVE  /\ UNCHANGED <<group, pel, idle, nth, up, inbox, tasks, recl>>
           /\ UNCHANGED <<stream, floor>> \/ (sub[s] = "add" /\ Xadd(s))
           /\ Counted
<1>1. CASE EnqueueDel(s)
  BY <1>1 DEF EnqueueDel, nodes, Counted
<1>2. CASE EnqueueClaim(s)
  BY <1>2 DEF EnqueueClaim, nodes, Counted
<1>3. CASE EnqueueAdd(s)
  BY <1>3 DEF EnqueueAdd, nodes, Counted
<1>4. CASE EnqueueRollback(s)
  BY <1>4 DEF EnqueueRollback, nodes, Counted, Fault
<1>5. CASE SubmitLocal(s)
  BY <1>5 DEF SubmitLocal, redis, nodes, Counted
<1>6. CASE AsyncReply(s)
  BY <1>6 DEF AsyncReply, redis, nodes, Counted
<1>7. CASE EnqueueClaimFails(s)
  BY <1>7 DEF EnqueueClaimFails, nodes, Counted, Fault
<1>8. CASE EnqueueAddFails(s)
  BY <1>8 DEF EnqueueAddFails, nodes, Counted, Fault
<1>9. CASE Cancel(s)
  BY <1>9 DEF Cancel, redis, nodes, Counted, Fault
<1>10. CASE WaitGet(s)
  BY <1>10 DEF WaitGet, redis, nodes, Counted
<1>11. CASE WaitTimeout(s)
  BY <1>11 DEF WaitTimeout, redis, nodes, Counted
<1> QED BY <1>1, <1>2, <1>3, <1>4, <1>5, <1>6, <1>7, <1>8, <1>9, <1>10, <1>11
        DEF GatewayStep, Enqueue, EnqueueFault, Wait

\* A TTL that ends touches the keys only.
LEMMA ExpireEffect ==
    ASSUME ExpireStep
    PROVE  /\ UNCHANGED <<stream, floor, group, pel, idle, nth, sub, got, up, inbox, tasks, recl>>
           /\ Counted
BY DEF ExpireStep, ExpirePending, ExpireResult, gateway, nodes, Counted, Fault

\* Nodes add nothing to the stream and talk to no client.
LEMMA NodeEffect ==
    ASSUME NEW w \in Workers, NodeStep(w)
    PROVE  UNCHANGED <<stream, floor, sub, got>> /\ Counted
<1>1. CASE StartNode(w)
  BY <1>1 DEF StartNode, gateway, Counted
<1>2. CASE Reconnect(w)
  BY <1>2 DEF Reconnect, gateway, Counted
<1>3. CASE ReadNew(w)
  BY <1>3 DEF ReadNew, gateway, Counted, Fault
<1>4. CASE Dispatch(w)
  BY <1>4 DEF Dispatch, redis, gateway, Counted
<1>5. CASE SweepClaim(w)
  BY <1>5 DEF SweepClaim, gateway, Counted, Fault
<1>6. CASE SweepNoGroup(w)
  BY <1>6 DEF SweepNoGroup, redis, gateway, Counted
<1>7. CASE SweepDiscard(w)
  BY <1>7 DEF SweepDiscard, gateway, Counted, Fault
<1>8. CASE SweepGet(w)
  BY <1>8 DEF SweepGet, redis, gateway, Counted, Fault
<1>9. CASE SweepRerun(w)
  BY <1>9 DEF SweepRerun, redis, gateway, Counted
<1>10. CASE AckDel(w)
  BY <1>10 DEF AckDel, gateway, Counted
<1>11. CASE AckAck(w)
  BY <1>11 DEF AckAck, gateway, Counted
<1>12. CASE AckBell(w)
  BY <1>12 DEF AckBell, redis, gateway, Counted
<1>13. CASE AckDrop(w)
  BY <1>13 DEF AckDrop, redis, gateway, Counted, Fault
<1>14. CASE Crash(w)
  BY <1>14 DEF Crash, redis, gateway, Counted, Fault
<1> QED BY <1>1, <1>2, <1>3, <1>4, <1>5, <1>6, <1>7, <1>8, <1>9, <1>10, <1>11, <1>12,
           <1>13, <1>14 DEF NodeStep, ReadLoop, Sweep

\* A task moves on with its message, or ends; at most it acknowledges that message.
LEMMA TaskEffect ==
    ASSUME NEW t \in tasks, TaskStep(t)
    PROVE  /\ UNCHANGED <<stream, floor, group, nth, sub, got, up, inbox, recl>> /\ Counted
           /\ \/ UNCHANGED <<pel, idle>> /\ TaskEnds(t)
              \/ UNCHANGED <<pel, idle>> /\ \E pc \in {"set", "del", "ack"} : TaskTo(t, pc)
              \/ /\ t.pc = "ack"
                 /\ pel' = pel \ {t.m} /\ idle' = idle \ {t.m} /\ TaskTo(t, "bell")
              \/ /\ UNCHANGED <<pel, idle>> /\ t.tries # MaxAttempts
                 /\ tasks' = (tasks \ {t}) \cup {[t EXCEPT !.pc = "set", !.tries = @ + 1]}
<1>1. CASE RunJob(t)
  BY <1>1 DEF RunJob, redis, gateway, Counted
<1>2. CASE PublishSet(t)
  BY <1>2 DEF PublishSet, gateway, Counted
<1>3. CASE PublishDel(t)
  BY <1>3 DEF PublishDel, gateway, Counted
<1>4. CASE PublishAck(t)
  BY <1>4 DEF PublishAck, gateway, Counted
<1>5. CASE PublishBell(t)
  BY <1>5 DEF PublishBell, redis, gateway, Counted
<1>6. CASE PublishDrop(t)
  BY <1>6 DEF PublishDrop, redis, gateway, Counted, Fault
<1> QED BY <1>1, <1>2, <1>3, <1>4, <1>5, <1>6 DEF TaskStep, Publish

\* Every step is a step of one actor.
LEMMA StepCases ==
    ASSUME Next
    PROVE  /\ UNCHANGED whole
           /\ \/ \E s \in Subs : GatewayStep(s)
              \/ ExpireStep
              \/ \E m \in MsgIds : GrowIdle(m)
              \/ RedisWipe
              \/ \E w \in Workers : NodeStep(w)
              \/ \E t \in tasks : TaskStep(t)
BY Zenon DEF Next, Step, GatewayStep, ExpireStep, NodeStep, TaskStep

(***************************************************************************)
(* Types, by the part of the state they are about.                         *)
(***************************************************************************)
TaskType  == [w : Workers, m : MsgIds, n : 1 .. MaxFaults + 1, tries : 1 .. MaxAttempts,
              pc : {"run", "set", "del", "ack", "bell"}]
SweepType == [pc : {"sleep", "get", "rerun", "del", "ack", "bell"}, todo : SUBSET MsgIds,
              tries : 1 .. MaxAttempts, cursor : 0 .. Cardinality(Subs)]

MessagesOK == /\ stream \in Seq(Subs) /\ Len(stream) \in 0 .. Cardinality(Subs)
              /\ floor \in 0 .. Len(stream) /\ group \in -1 .. Len(stream)
              /\ pel \in SUBSET MsgIds /\ idle \in SUBSET pel
              /\ nth \in [MsgIds -> 0 .. MaxDeliveries]
KeysOK     == results \in [Jobs -> Subs \cup {None}] /\ pending \in [Jobs -> BOOLEAN]
HandlersOK == /\ sub \in [Subs -> {"new", "claim", "add", "rollback", "wait", "dup",
                                   "local", "done", "timeout", "gone", "abandoned",
                                   "queued", "conflict", "unavailable"}]
              /\ got \in [Subs -> Subs \cup {None}]
NodesOK    == /\ up \in [Workers -> BOOLEAN] /\ inbox \in [Workers -> SUBSET MsgIds]
              /\ tasks \subseteq TaskType /\ recl \in [Workers -> SweepType]
CountsOK   == whole \in BOOLEAN /\ faults \in 0 .. MaxFaults /\ struck \subseteq Faults

\* TypeOK is the conjunction of the types of its parts.
LEMMA TypeParts == TypeOK <=> (MessagesOK /\ KeysOK /\ HandlersOK /\ NodesOK /\ CountsOK)
BY Zenon DEF TypeOK, MessagesOK, KeysOK, HandlersOK, NodesOK, CountsOK, TaskType, SweepType

\* Faults are counted within their bound, and none is forgotten.
LEMMA CountsType ==
    ASSUME CountsOK, Counted, UNCHANGED whole
    PROVE  CountsOK' /\ faults' >= faults /\ struck \subseteq struck'
<1>1. CASE NoFault
  BY <1>1 DEF CountsOK, NoFault
<1>2. ASSUME NEW kind \in Faults, Fault(kind)
      PROVE  CountsOK' /\ faults' >= faults /\ struck \subseteq struck'
  BY <1>2, BoundAssumption DEF CountsOK, Fault
<1> QED BY <1>1, <1>2 DEF Counted

\* A step of a handler keeps the types of the handlers.
LEMMA HandlersType ==
    ASSUME HandlersOK, KeysOK, NEW s \in Subs, GatewayStep(s)
    PROVE  HandlersOK'
<1>0. JobOf[s] \in Jobs
  BY DEF Jobs
<1>1. CASE EnqueueDel(s)
  BY <1>1 DEF EnqueueDel, HandlersOK, Goto
<1>2. CASE EnqueueClaim(s)
  BY <1>2 DEF EnqueueClaim, HandlersOK, Goto
<1>3. CASE EnqueueAdd(s)
  BY <1>3 DEF EnqueueAdd, HandlersOK, Goto
<1>4. CASE EnqueueRollback(s)
  BY <1>4 DEF EnqueueRollback, HandlersOK, Goto
<1>5. CASE SubmitLocal(s)
  BY <1>5 DEF SubmitLocal, HandlersOK, Goto
<1>6. CASE AsyncReply(s)
  BY <1>6 DEF AsyncReply, HandlersOK, Goto
<1>7. CASE EnqueueClaimFails(s)
  BY <1>7 DEF EnqueueClaimFails, HandlersOK, Goto
<1>8. CASE EnqueueAddFails(s)
  BY <1>8 DEF EnqueueAddFails, HandlersOK, Goto
<1>9. CASE Cancel(s)
  BY <1>9 DEF Cancel, HandlersOK, Goto
<1>10. CASE WaitGet(s)
  BY <1>0, <1>10 DEF WaitGet, HandlersOK, KeysOK, Goto
<1>11. CASE WaitTimeout(s)
  BY <1>11 DEF WaitTimeout, HandlersOK, Goto
<1> QED BY <1>1, <1>2, <1>3, <1>4, <1>5, <1>6, <1>7, <1>8, <1>9, <1>10, <1>11
        DEF GatewayStep, Enqueue, EnqueueFault, Wait

\* A step of a handler keeps the types of the keys.
LEMMA GatewayKeysType ==
    ASSUME KeysOK, NEW s \in Subs, GatewayStep(s)
    PROVE  KeysOK'
<1>0. JobOf[s] \in Jobs
  BY DEF Jobs
<1>1. CASE EnqueueDel(s)
  BY <1>0, <1>1 DEF EnqueueDel, KeysOK
<1>2. CASE EnqueueClaim(s)
  BY <1>0, <1>2 DEF EnqueueClaim, KeysOK
<1>3. CASE EnqueueAdd(s)
  BY <1>3 DEF EnqueueAdd, KeysOK
<1>4. CASE EnqueueRollback(s)
  BY <1>0, <1>4 DEF EnqueueRollback, KeysOK
<1>5. CASE SubmitLocal(s)
  BY <1>5 DEF SubmitLocal, KeysOK, redis
<1>6. CASE AsyncReply(s)
  BY <1>6 DEF AsyncReply, KeysOK, redis
<1>7. CASE EnqueueClaimFails(s)
  BY <1>0, <1>7 DEF EnqueueClaimFails, KeysOK
<1>8. CASE EnqueueAddFails(s)
  BY <1>8 DEF EnqueueAddFails, KeysOK
<1>9. CASE Cancel(s)
  BY <1>9 DEF Cancel, KeysOK, redis
<1>10. CASE WaitGet(s)
  BY <1>10 DEF WaitGet, KeysOK, redis
<1>11. CASE WaitTimeout(s)
  BY <1>11 DEF WaitTimeout, KeysOK, redis
<1> QED BY <1>1, <1>2, <1>3, <1>4, <1>5, <1>6, <1>7, <1>8, <1>9, <1>10, <1>11
        DEF GatewayStep, Enqueue, EnqueueFault, Wait

\* A TTL that ends keeps the types of the keys.
LEMMA ExpireKeysType ==
    ASSUME KeysOK, ExpireStep
    PROVE  KeysOK'
BY DEF ExpireStep, ExpirePending, ExpireResult, KeysOK

\* A step of a node keeps the types of the keys.
LEMMA NodeKeysType ==
    ASSUME KeysOK, NEW w \in Workers, NodeStep(w)
    PROVE  KeysOK'
<1>1. CASE StartNode(w)
  BY <1>1 DEF StartNode, KeysOK
<1>2. CASE Reconnect(w)
  BY <1>2 DEF Reconnect, KeysOK
<1>3. CASE ReadNew(w)
  BY <1>3 DEF ReadNew, KeysOK
<1>4. CASE Dispatch(w)
  BY <1>4 DEF Dispatch, KeysOK, redis
<1>5. CASE SweepClaim(w)
  BY <1>5 DEF SweepClaim, KeysOK
<1>6. CASE SweepNoGroup(w)
  BY <1>6 DEF SweepNoGroup, KeysOK, redis
<1>7. CASE SweepDiscard(w)
  BY <1>7 DEF SweepDiscard, KeysOK
<1>8. CASE SweepGet(w)
  BY <1>8 DEF SweepGet, KeysOK, redis
<1>9. CASE SweepRerun(w)
  BY <1>9 DEF SweepRerun, KeysOK, redis
<1>10. CASE AckDel(w)
  BY <1>10 DEF AckDel, KeysOK
<1>11. CASE AckAck(w)
  BY <1>11 DEF AckAck, KeysOK
<1>12. CASE AckBell(w)
  BY <1>12 DEF AckBell, KeysOK, redis
<1>13. CASE AckDrop(w)
  BY <1>13 DEF AckDrop, KeysOK, redis
<1>14. CASE Crash(w)
  BY <1>14 DEF Crash, KeysOK, redis
<1> QED BY <1>1, <1>2, <1>3, <1>4, <1>5, <1>6, <1>7, <1>8, <1>9, <1>10, <1>11, <1>12,
           <1>13, <1>14 DEF NodeStep, ReadLoop, Sweep

\* A step of a task keeps the types of the keys.
LEMMA TaskKeysType ==
    ASSUME KeysOK, stream \in Seq(Subs), NEW t \in tasks, t.m \in 1 .. Len(stream), TaskStep(t)
    PROVE  KeysOK'
<1>0. stream[t.m] \in Subs
  OBVIOUS
<1>1. CASE RunJob(t)
  BY <1>1 DEF RunJob, KeysOK, redis
<1>2. CASE PublishSet(t)
  BY <1>0, <1>2 DEF PublishSet, KeysOK
<1>3. CASE PublishDel(t)
  BY <1>3 DEF PublishDel, KeysOK
<1>4. CASE PublishAck(t)
  BY <1>4 DEF PublishAck, KeysOK
<1>5. CASE PublishBell(t)
  BY <1>5 DEF PublishBell, KeysOK, redis
<1>6. CASE PublishDrop(t)
  BY <1>6 DEF PublishDrop, KeysOK, redis
<1> QED BY <1>1, <1>2, <1>3, <1>4, <1>5, <1>6 DEF TaskStep, Publish

\* XADD appends, and trims no message that is not there.
LEMMA XaddType ==
    ASSUME MessagesOK, NEW s \in Subs, Xadd(s)
    PROVE  /\ stream' \in Seq(Subs) /\ Len(stream') = Len(stream) + 1
           /\ \A i \in 1 .. Len(stream) : stream'[i] = stream[i]
           /\ stream'[Len(stream) + 1] = s
           /\ floor' \in 0 .. Len(stream) /\ floor' >= floor
<1>1. stream' = Append(stream, s) /\ stream \in Seq(Subs) /\ Len(stream) \in Nat
  BY DEF Xadd, MessagesOK
<1>2. floor' \in 0 .. Len(stream) /\ floor' >= floor
  BY <1>1, BoundAssumption DEF Xadd, MessagesOK, LargerOf
<1> QED BY <1>1, <1>2

\* A step of a handler keeps the types of stream and PEL, if the stream has room.
LEMMA GatewayMessagesType ==
    ASSUME MessagesOK, Added', NEW s \in Subs, GatewayStep(s)
    PROVE  MessagesOK'
<1>0. UNCHANGED <<group, pel, idle, nth>>
  BY GatewayEffect
<1>1. CASE UNCHANGED <<stream, floor>>
  BY <1>0, <1>1 DEF MessagesOK
<1>2. CASE Xadd(s)
  <2>1. stream' \in Seq(Subs) /\ Len(stream') = Len(stream) + 1 /\ floor' \in 0 .. Len(stream)
    BY <1>2, XaddType
  <2>2. Len(stream') \in 0 .. Cardinality(Subs)
    BY <2>1, StreamFits DEF Added
  <2> QED BY <1>0, <2>1, <2>2 DEF MessagesOK
<1> QED BY <1>1, <1>2, GatewayEffect

\* The idle clock keeps the types of stream and PEL.
LEMMA GrowIdleType ==
    ASSUME MessagesOK, NEW m \in MsgIds, GrowIdle(m)
    PROVE  /\ MessagesOK' /\ idle' = idle \cup {m} /\ m \in pel /\ Counted
           /\ UNCHANGED <<stream, floor, group, pel, nth, results, pending, sub, got, nodes>>
<1>1. /\ idle' = idle \cup {m} /\ m \in pel
      /\ UNCHANGED <<stream, floor, group, pel, nth, results, pending, sub, got, nodes>>
  BY DEF GrowIdle, gateway
<1>2. Counted
  BY DEF GrowIdle, Counted, Fault
<1> QED BY <1>1, <1>2 DEF MessagesOK

\* The loss of the dataset keeps the types of what Redis holds.
LEMMA WipeType ==
    ASSUME MessagesOK, KeysOK, RedisWipe
    PROVE  MessagesOK' /\ KeysOK' /\ Counted /\ UNCHANGED <<stream, nth, sub, got, nodes>>
<1>1. /\ floor' = Len(stream) /\ group' = -1 /\ pel' = {} /\ idle' = {}
      /\ UNCHANGED <<stream, nth, sub, got, nodes>>
  BY DEF RedisWipe, gateway
<1>2. MessagesOK'
  BY <1>1 DEF MessagesOK
<1>3. KeysOK'
  BY DEF RedisWipe, KeysOK
<1> QED BY <1>1, <1>2, <1>3 DEF RedisWipe, Counted, Fault

\* What a read takes: the messages after those that passed.
Batch(w) == LargerOf(group, floor) + 1 ..
                SmallerOf(LargerOf(group, floor) + BatchSize(w), Len(stream))

\* What a read does, flat.
LEMMA ReadNewEffect ==
    ASSUME NEW w \in Workers, ReadNew(w)
    PROVE  /\ inbox[w] = {} /\ group # -1 /\ Batch(w) # {}
           /\ group' = SmallerOf(LargerOf(group, floor) + BatchSize(w), Len(stream))
           /\ pel' = pel \cup Batch(w) /\ nth' = Delivered(Batch(w))
           /\ \/ inbox' = [inbox EXCEPT ![w] = Batch(w)] /\ NoFault
              \/ UNCHANGED inbox /\ Fault("drop")
           /\ UNCHANGED <<stream, floor, idle, up, tasks, recl>>
BY DEF ReadNew, Batch

\* A read delivers exactly what lies between the last delivered id and the new one.
LEMMA BatchType ==
    ASSUME MessagesOK, IsFiniteSet(tasks), NEW w \in Workers, ReadNew(w)
    PROVE  /\ Batch(w) \subseteq MsgIds /\ Batch(w) \subseteq 1 .. Len(stream)
           /\ group' \in 0 .. Len(stream) /\ group' >= group /\ group' >= floor
           /\ \A m \in Batch(w) : m > group /\ m > floor
           /\ \A m \in 1 .. Len(stream) :
                 (m <= group' \/ m <= floor') <=> (m <= group \/ m <= floor \/ m \in Batch(w))
<1>0. /\ Len(stream) \in 0 .. Cardinality(Subs) /\ Cardinality(Subs) \in Nat
      /\ floor \in 0 .. Len(stream) /\ group \in -1 .. Len(stream) /\ Len(stream) \in Nat
  BY SubsFinite DEF MessagesOK
<1>1. BatchSize(w) \in Nat \ {0}
  BY BatchSizeType
<1>2. /\ group' = SmallerOf(LargerOf(group, floor) + BatchSize(w), Len(stream))
      /\ floor' = floor /\ Batch(w) # {}
  BY ReadNewEffect
<1> QED BY <1>0, <1>1, <1>2 DEF Batch, SmallerOf, LargerOf, MsgIds

\* A step of a node keeps the types of stream and PEL.
LEMMA NodeMessagesType ==
    ASSUME MessagesOK, IsFiniteSet(tasks), NEW w \in Workers, NodeStep(w)
    PROVE  MessagesOK'
<1>0. UNCHANGED <<stream, floor>>
  BY NodeEffect
<1>1. CASE StartNode(w) \/ Reconnect(w)
  <2>1. UNCHANGED <<pel, idle, nth>> /\ CreateGroup
    BY <1>1 DEF StartNode, Reconnect
  <2> QED BY <1>0, <2>1 DEF MessagesOK, CreateGroup
<1>3. CASE ReadNew(w)
  <2>1. pel' = pel \cup Batch(w) /\ nth' = Delivered(Batch(w)) /\ UNCHANGED idle
    BY <1>3, ReadNewEffect
  <2>2. nth' \in [MsgIds -> 0 .. MaxDeliveries]
    BY <2>1, DeliveredType DEF MessagesOK
  <2>3. Batch(w) \subseteq MsgIds /\ group' \in 0 .. Len(stream)
    BY <1>3, BatchType
  <2> QED BY <1>0, <2>1, <2>2, <2>3 DEF MessagesOK
<1>4. CASE Dispatch(w)
  BY <1>4 DEF Dispatch, MessagesOK, redis
<1>5. CASE SweepClaim(w)
  <2>1. /\ idle' \subseteq idle /\ pel' \subseteq pel /\ group' = group
        /\ idle' \subseteq pel'
    BY <1>5 DEF SweepClaim, MessagesOK
  <2>2. nth' \in [MsgIds -> 0 .. MaxDeliveries]
    BY <1>5, DeliveredType DEF MessagesOK, SweepClaim
  <2> QED BY <1>0, <2>1, <2>2 DEF MessagesOK
<1>6. CASE SweepNoGroup(w)
  BY <1>6 DEF SweepNoGroup, MessagesOK, redis
<1>7. CASE SweepDiscard(w)
  <2>1. UNCHANGED <<stream, floor, group, nth>>
    BY <1>7 DEF SweepDiscard
  <2>2. \/ UNCHANGED <<pel, idle>>
        \/ \E m \in {First(recl[w].todo)} : pel' = pel \ {m} /\ idle' = idle \ {m}
    BY <1>7 DEF SweepDiscard
  <2> QED BY <2>1, <2>2 DEF MessagesOK
<1>8. CASE SweepGet(w)
  BY <1>8 DEF SweepGet, MessagesOK, redis
<1>9. CASE SweepRerun(w)
  BY <1>9 DEF SweepRerun, MessagesOK, redis
<1>10. CASE AckDel(w)
  BY <1>10 DEF AckDel, MessagesOK
<1>11. CASE AckAck(w)
  BY <1>11 DEF AckAck, MessagesOK
<1>12. CASE AckBell(w)
  BY <1>12 DEF AckBell, MessagesOK, redis
<1>13. CASE AckDrop(w)
  BY <1>13 DEF AckDrop, MessagesOK, redis
<1>14. CASE Crash(w)
  BY <1>14 DEF Crash, MessagesOK, redis
<1> QED BY <1>1, <1>3, <1>4, <1>5, <1>6, <1>7, <1>8, <1>9, <1>10, <1>11, <1>12,
           <1>13, <1>14 DEF NodeStep, ReadLoop, Sweep

\* A step of a task keeps the types of stream and PEL.
LEMMA TaskMessagesType ==
    ASSUME MessagesOK, NEW t \in tasks, TaskStep(t)
    PROVE  MessagesOK'
<1>1. UNCHANGED <<stream, floor, group, nth>>
  BY TaskEffect
<1>2. UNCHANGED <<pel, idle>> \/ (pel' = pel \ {t.m} /\ idle' = idle \ {t.m})
  BY TaskEffect
<1> QED BY <1>1, <1>2 DEF MessagesOK

\* The head of a sweep's list, or of a read batch, is one of its messages.
LEMMA FirstOfIds ==
    ASSUME NEW S \in SUBSET MsgIds, S # {}
    PROVE  First(S) \in S
<1>1. S \in SUBSET Nat
  BY SubsFinite DEF MsgIds
<1> QED BY <1>1, FirstIsLeast

\* A sweep goes on with its message, or with the rest of its list.
LEMMA SweepToEffect ==
    ASSUME recl \in [Workers -> SweepType], NEW w \in Workers,
           NEW pc \in {"get", "rerun", "del", "ack", "bell"}, SweepTo(w, pc)
    PROVE  /\ recl' \in [Workers -> SweepType]
           /\ \A v \in Workers : recl'[v].todo = recl[v].todo
           /\ recl'[w].pc = pc /\ \A v \in Workers \ {w} : recl'[v] = recl[v]
BY DEF SweepTo, SweepType

\* The sweep drops the head of its list, and sleeps when nothing is left.
LEMMA SweepNextEffect ==
    ASSUME recl \in [Workers -> SweepType], NEW w \in Workers, SweepNext(w)
    PROVE  /\ recl' \in [Workers -> SweepType]
           /\ recl'[w].todo = recl[w].todo \ {First(recl[w].todo)}
           /\ recl'[w].pc = IF recl'[w].todo = {} THEN "sleep" ELSE "get"
           /\ \A v \in Workers \ {w} : recl'[v] = recl[v]
<1> DEFINE rest == recl[w].todo \ {First(recl[w].todo)}
<1>1. rest \subseteq MsgIds
  BY DEF SweepType
<1>2. recl' = [recl EXCEPT ![w].todo = rest, ![w].tries = 1,
                           ![w].pc = IF rest = {} THEN "sleep" ELSE "get"]
  BY DEF SweepNext
<1> HIDE DEF rest
<1>3. 1 \in 1 .. MaxAttempts
  BY BoundAssumption
<1>4. /\ recl' \in [Workers -> SweepType] /\ recl'[w].todo = rest
      /\ recl'[w].pc = (IF rest = {} THEN "sleep" ELSE "get")
      /\ \A v \in Workers \ {w} : recl'[v] = recl[v]
  BY <1>1, <1>2, <1>3 DEF SweepType
<1> QED BY <1>4 DEF rest

\* A new task is a task, if its message was delivered and paid for.
LEMMA NewTaskType ==
    ASSUME nth \in [MsgIds -> 0 .. MaxDeliveries], Paid, NEW w \in Workers, NEW m \in MsgIds,
           m \in Passed, Valid(m), ~Orphan(m), faults \in 0 .. MaxFaults
    PROVE  NewTask(w, m) \in TaskType
<1>1. nth[m] >= 1 /\ nth[m] <= faults + 1
  BY DEF Paid, PaidMsg
<1>2. nth[m] \in 1 .. MaxFaults + 1 /\ 1 \in 1 .. MaxAttempts
  BY <1>1, BoundAssumption DEF MaxDeliveries
<1> QED BY <1>2 DEF NewTask, TaskType

\* The claim: what it takes, and what of it is still in the stream.
Claimed(w) == Take(Due(w), ClaimCount)
Kept(w)    == {m \in Claimed(w) : m > floor}

\* What a claim does, flat.
LEMMA SweepClaimEffect ==
    ASSUME recl \in [Workers -> SweepType], NEW w \in Workers, SweepClaim(w)
    PROVE  /\ recl[w].pc = "sleep" /\ Claimed(w) \subseteq idle
           /\ idle' = idle \ Claimed(w) /\ pel' = pel \ (Claimed(w) \ Kept(w))
           /\ nth' = Delivered(Kept(w))
           /\ \/ /\ recl'[w].todo = Kept(w) /\ NoFault
                 /\ recl'[w].pc = IF Kept(w) = {} THEN "sleep" ELSE "get"
              \/ /\ recl'[w].todo = recl[w].todo /\ Fault("drop")
                 /\ recl'[w].pc = recl[w].pc
           /\ \A v \in Workers \ {w} : recl'[v] = recl[v]
           /\ UNCHANGED <<stream, floor, group, up, inbox, tasks>>
<1>1. Claimed(w) \subseteq idle
  BY DEF Claimed, Take, Due
<1>2. /\ recl[w].pc = "sleep" /\ idle' = idle \ Claimed(w)
      /\ pel' = pel \ (Claimed(w) \ Kept(w)) /\ nth' = Delivered(Kept(w))
      /\ UNCHANGED <<stream, floor, group, up, inbox, tasks>>
  BY DEF SweepClaim, Claimed, Kept
<1>3. \/ /\ \E next : recl' = [recl EXCEPT ![w] = [pc |-> IF Kept(w) = {} THEN "sleep" ELSE "get",
                                                   todo |-> Kept(w), tries |-> 1, cursor |-> next]]
         /\ NoFault
      \/ recl' = [recl EXCEPT ![w].cursor = 0] /\ Fault("drop")
  BY DEF SweepClaim, Claimed, Kept
<1>4. /\ \/ /\ recl'[w].todo = Kept(w) /\ NoFault
            /\ recl'[w].pc = IF Kept(w) = {} THEN "sleep" ELSE "get"
         \/ /\ recl'[w].todo = recl[w].todo /\ Fault("drop")
            /\ recl'[w].pc = recl[w].pc
      /\ \A v \in Workers \ {w} : recl'[v] = recl[v]
  BY <1>3 DEF SweepType
<1> QED BY <1>1, <1>2, <1>4

\* A claim leaves the sweep with a list of messages and a cursor within the stream.
LEMMA SweepClaimType ==
    ASSUME MessagesOK, recl \in [Workers -> SweepType], NEW w \in Workers, SweepClaim(w)
    PROVE  recl' \in [Workers -> SweepType]
<1> DEFINE claimed == Take(Due(w), ClaimCount)
           later   == {m \in pel : \A k \in claimed : k < m}
           kept    == {m \in claimed : m > floor}
           next    == IF Cardinality(Due(w)) < ClaimCount \/ later = {} THEN 0 ELSE First(later)
<1>1. \/ recl' = [recl EXCEPT ![w] = [pc |-> IF kept = {} THEN "sleep" ELSE "get",
                                      todo |-> kept, tries |-> 1, cursor |-> next]]
      \/ recl' = [recl EXCEPT ![w].cursor = 0]
  BY DEF SweepClaim
<1>2. kept \subseteq MsgIds
  BY DEF Take, Due, MessagesOK
<1>3. next \in 0 .. Cardinality(Subs)
  <2>1. later \in SUBSET MsgIds
    BY DEF MessagesOK
  <2> HIDE DEF later
  <2>2. later # {} => First(later) \in MsgIds
    BY <2>1, FirstOfIds
  <2> QED BY <2>2, SubsFinite DEF MsgIds
<1> HIDE DEF claimed, later, kept, next
<1>4. 1 \in 1 .. MaxAttempts /\ 0 \in 0 .. Cardinality(Subs)
  BY BoundAssumption, SubsFinite
<1> QED BY <1>1, <1>2, <1>3, <1>4 DEF SweepType

\* A step of a node keeps the types of the nodes.
LEMMA NodeNodesType ==
    ASSUME QueueInv, NEW w \in Workers, NodeStep(w)
    PROVE  NodesOK'
<1>0. NodesOK /\ MessagesOK /\ faults \in 0 .. MaxFaults
  BY TypeParts DEF QueueInv, CountsOK
<1>1. /\ recl \in [Workers -> SweepType] /\ inbox \in [Workers -> SUBSET MsgIds]
      /\ up \in [Workers -> BOOLEAN] /\ tasks \subseteq TaskType
      /\ nth \in [MsgIds -> 0 .. MaxDeliveries] /\ IsFiniteSet(tasks)
  BY <1>0 DEF NodesOK, MessagesOK, QueueInv, Held
<1>2. CASE StartNode(w) \/ Reconnect(w)
  BY <1>1, <1>2 DEF StartNode, Reconnect, nodes, NodesOK
<1>3. CASE ReadNew(w)
  <2>1. Batch(w) \subseteq MsgIds
    BY <1>0, <1>1, <1>3, BatchType
  <2>2. /\ inbox' = [inbox EXCEPT ![w] = Batch(w)] \/ inbox' = inbox
        /\ UNCHANGED <<up, tasks, recl>>
    BY <1>3, ReadNewEffect
  <2> QED BY <1>1, <2>1, <2>2 DEF NodesOK
<1>4. CASE Dispatch(w)
  <2> DEFINE m == First(inbox[w])
  <2>1. m \in inbox[w] /\ m \in MsgIds /\ m \in Passed /\ ~Orphan(m)
    BY <1>1, <1>4, FirstOfIds DEF Dispatch, QueueInv, Held, Orphan
  <2>2. Valid(m) => NewTask(w, m) \in TaskType
    BY <1>0, <1>1, <2>1, NewTaskType DEF QueueInv
  <2>3. /\ inbox' = [inbox EXCEPT ![w] = @ \ {m}] /\ UNCHANGED <<up, recl>>
        /\ tasks' = tasks \/ (Valid(m) /\ tasks' = tasks \cup {NewTask(w, m)})
    BY <1>4 DEF Dispatch
  <2> HIDE DEF m
  <2> QED BY <1>1, <2>2, <2>3 DEF NodesOK
<1>5. CASE SweepClaim(w)
  BY <1>0, <1>1, <1>5, SweepClaimType DEF SweepClaim, NodesOK
<1>6. CASE SweepNoGroup(w)
  <2>1. recl' = [recl EXCEPT ![w].cursor = 0] /\ UNCHANGED <<up, inbox, tasks>>
    BY <1>6 DEF SweepNoGroup
  <2>2. 0 \in 0 .. Cardinality(Subs)
    BY SubsFinite
  <2> QED BY <1>1, <2>1, <2>2 DEF NodesOK, SweepType
<1>7. CASE SweepDiscard(w)
  <2>1. SweepNext(w) /\ UNCHANGED <<up, inbox, tasks>>
    BY <1>7 DEF SweepDiscard
  <2> QED BY <1>1, <2>1, SweepNextEffect DEF NodesOK
<1>8. CASE SweepGet(w)
  <2>1. SweepTo(w, "del") \/ SweepTo(w, "rerun")
    BY <1>8 DEF SweepGet
  <2>2. UNCHANGED <<up, inbox, tasks>>
    BY <1>8 DEF SweepGet
  <2> QED BY <1>1, <2>1, <2>2, SweepToEffect DEF NodesOK
<1>9. CASE SweepRerun(w)
  <2> DEFINE m == First(recl[w].todo)
  <2>1. /\ recl[w].pc = "rerun" /\ SweepNext(w) /\ tasks' = tasks \cup {NewTask(w, m)}
        /\ UNCHANGED <<up, inbox>>
    BY <1>9 DEF SweepRerun
  <2>2. recl[w].todo # {} /\ Valid(m)
    BY <2>1 DEF QueueInv, Shape
  <2>3. m \in recl[w].todo /\ m \in MsgIds
    BY <1>1, <2>2, FirstOfIds DEF SweepType
  <2>4. m \in Passed /\ ~Orphan(m)
    BY <2>3 DEF QueueInv, Held, Orphan
  <2>5. NewTask(w, m) \in TaskType
    BY <1>0, <1>1, <2>2, <2>3, <2>4, NewTaskType DEF QueueInv
  <2>6. recl' \in [Workers -> SweepType]
    BY <1>1, <2>1, SweepNextEffect
  <2> QED BY <1>1, <2>1, <2>5, <2>6 DEF NodesOK
<1>10. CASE AckDel(w)
  BY <1>1, <1>10, SweepToEffect DEF AckDel, NodesOK
<1>11. CASE AckAck(w)
  BY <1>1, <1>11, SweepToEffect DEF AckAck, NodesOK
<1>12. CASE AckBell(w)
  BY <1>1, <1>12, SweepNextEffect DEF AckBell, NodesOK
<1>13. CASE AckDrop(w)
  <2>1. UNCHANGED <<up, inbox, tasks>>
    BY <1>13 DEF AckDrop
  <2>2. CASE SweepNext(w)
    BY <1>1, <2>1, <2>2, SweepNextEffect DEF NodesOK
  <2>3. CASE /\ recl[w].tries # MaxAttempts
             /\ recl' = [recl EXCEPT ![w].pc = "del", ![w].tries = @ + 1]
    BY <1>1, <2>1, <2>3, BoundAssumption DEF NodesOK, SweepType
  <2> QED BY <1>13, <2>2, <2>3 DEF AckDrop
<1>14. CASE Crash(w)
  <2>1. /\ up' = [up EXCEPT ![w] = FALSE] /\ inbox' = [inbox EXCEPT ![w] = {}]
        /\ tasks' = {t \in tasks : t.w # w} /\ recl' = [recl EXCEPT ![w] = SweepIdle]
    BY <1>14 DEF Crash
  <2>2. SweepIdle \in SweepType
    BY BoundAssumption, SubsFinite DEF SweepIdle, SweepType
  <2> QED BY <1>1, <2>1, <2>2 DEF NodesOK
<1> QED BY <1>2, <1>3, <1>4, <1>5, <1>6, <1>7, <1>8, <1>9, <1>10, <1>11, <1>12,
           <1>13, <1>14 DEF NodeStep, ReadLoop, Sweep

\* What a task becomes is still a task, with the same node, message and delivery.
LEMMA TaskMoves ==
    ASSUME NEW t \in TaskType, NEW pc \in {"run", "set", "del", "ack", "bell"}
    PROVE  LET u == [t EXCEPT !.pc = pc]
           IN  u \in TaskType /\ u.m = t.m /\ u.pc = pc
BY DEF TaskType

\* A task that retries is a task with one attempt more.
LEMMA TaskRetries ==
    ASSUME NEW t \in TaskType, t.tries # MaxAttempts
    PROVE  LET u == [t EXCEPT !.pc = "set", !.tries = @ + 1]
           IN  u \in TaskType /\ u.m = t.m /\ u.pc = "set"
<1>1. t.tries + 1 \in 1 .. MaxAttempts
  BY BoundAssumption DEF TaskType
<1> QED BY <1>1 DEF TaskType

\* A task step in short: t is gone, or u stands for it.
LEMMA TaskReplaced ==
    ASSUME NodesOK, NEW t \in tasks, TaskStep(t)
    PROVE  \/ tasks' = tasks \ {t}
           \/ \E u \in TaskType :
                /\ tasks' = (tasks \ {t}) \cup {u} /\ u.m = t.m
                /\ u.pc # "run" /\ (u.pc = "bell" => pel' = pel \ {t.m})
<1>0. t \in TaskType
  BY DEF NodesOK
<1>1. CASE TaskEnds(t)
  BY <1>1 DEF TaskEnds
<1>2. ASSUME NEW pc \in {"set", "del", "ack"}, TaskTo(t, pc)
      PROVE  \E u \in TaskType : /\ tasks' = (tasks \ {t}) \cup {u} /\ u.m = t.m
                                 /\ u.pc # "run" /\ (u.pc = "bell" => pel' = pel \ {t.m})
  BY <1>0, <1>2, TaskMoves DEF TaskTo
<1>3. CASE pel' = pel \ {t.m} /\ TaskTo(t, "bell")
  BY <1>0, <1>3, TaskMoves DEF TaskTo
<1>4. CASE /\ t.tries # MaxAttempts
           /\ tasks' = (tasks \ {t}) \cup {[t EXCEPT !.pc = "set", !.tries = @ + 1]}
  BY <1>0, <1>4, TaskRetries
<1> QED BY <1>1, <1>2, <1>3, <1>4, TaskEffect

\* A step of a task keeps the types of the nodes.
LEMMA TaskNodesType ==
    ASSUME NodesOK, NEW t \in tasks, TaskStep(t)
    PROVE  NodesOK'
<1>1. UNCHANGED <<up, inbox, recl>>
  BY TaskEffect
<1>2. tasks' \subseteq TaskType
  BY TaskReplaced DEF NodesOK
<1> QED BY <1>1, <1>2 DEF NodesOK

(***************************************************************************)
(* The stream and what has passed.                                         *)
(***************************************************************************)
\* A handler that has added its message, or is past adding it, does not go back.
LEMMA HandlerMoves ==
    ASSUME HandlersOK, NEW s \in Subs, GatewayStep(s)
    PROVE  /\ \A r \in Subs \ {s} : sub'[r] = sub[r]
           /\ sub'[s] \in {"new", "claim", "add"} => sub[s] \in {"new", "claim"}
<1>0. sub \in [Subs -> {"new", "claim", "add", "rollback", "wait", "dup", "local", "done",
                        "timeout", "gone", "abandoned", "queued", "conflict", "unavailable"}]
  BY DEF HandlersOK
<1>1. CASE EnqueueDel(s)
  BY <1>0, <1>1 DEF EnqueueDel, Goto
<1>2. CASE EnqueueClaim(s)
  BY <1>0, <1>2 DEF EnqueueClaim, Goto
<1>3. CASE EnqueueAdd(s)
  BY <1>0, <1>3 DEF EnqueueAdd, Goto
<1>4. CASE EnqueueRollback(s)
  BY <1>0, <1>4 DEF EnqueueRollback, Goto
<1>5. CASE SubmitLocal(s)
  BY <1>0, <1>5 DEF SubmitLocal, Goto
<1>6. CASE AsyncReply(s)
  BY <1>0, <1>6 DEF AsyncReply, Goto
<1>7. CASE EnqueueClaimFails(s)
  BY <1>0, <1>7 DEF EnqueueClaimFails, Goto
<1>8. CASE EnqueueAddFails(s)
  BY <1>0, <1>8 DEF EnqueueAddFails, Goto
<1>9. CASE Cancel(s)
  BY <1>0, <1>9 DEF Cancel, Goto
<1>10. CASE WaitGet(s)
  BY <1>0, <1>10 DEF WaitGet, Goto
<1>11. CASE WaitTimeout(s)
  BY <1>0, <1>11 DEF WaitTimeout, Goto
<1> QED BY <1>1, <1>2, <1>3, <1>4, <1>5, <1>6, <1>7, <1>8, <1>9, <1>10, <1>11
        DEF GatewayStep, Enqueue, EnqueueFault, Wait

\* A handler adds its submission once.
LEMMA GatewayAdded ==
    ASSUME MessagesOK, HandlersOK, Added, NEW s \in Subs, GatewayStep(s)
    PROVE  Added'
<1>0. stream \in Seq(Subs) /\ Len(stream) \in Nat
  BY DEF MessagesOK
<1>1. /\ \A r \in Subs \ {s} : sub'[r] = sub[r]
      /\ sub'[s] \in {"new", "claim", "add"} => sub[s] \in {"new", "claim"}
  BY HandlerMoves
<1>2. CASE UNCHANGED stream
  BY <1>0, <1>1, <1>2 DEF Added
<1>3. CASE sub[s] = "add" /\ Xadd(s)
  <2>1. /\ Len(stream') = Len(stream) + 1 /\ stream'[Len(stream) + 1] = s
        /\ \A i \in 1 .. Len(stream) : stream'[i] = stream[i]
    BY <1>3, XaddType
  <2>2. \A i \in 1 .. Len(stream) : stream[i] # s
    BY <1>3 DEF Added
  <2> QED BY <1>0, <1>1, <1>3, <2>1, <2>2 DEF Added
<1> QED BY <1>2, <1>3, GatewayEffect

\* The stream only grows, and what has passed has passed for good.
LEMMA PassedGrows ==
    ASSUME MessagesOK, IsFiniteSet(tasks), Next
    PROVE  /\ Passed \subseteq Passed' /\ Len(stream') >= Len(stream)
           /\ \A m \in 1 .. Len(stream) : stream'[m] = stream[m]
<1>0. stream \in Seq(Subs) /\ Len(stream) \in Nat /\ floor \in Int /\ group \in Int
      /\ group <= Len(stream) /\ floor <= Len(stream) /\ floor >= 0
  BY DEF MessagesOK
<1>1. ASSUME NEW s \in Subs, GatewayStep(s)
      PROVE  /\ Passed \subseteq Passed' /\ Len(stream') >= Len(stream)
             /\ \A m \in 1 .. Len(stream) : stream'[m] = stream[m]
  <2>1. group' = group
    BY <1>1, GatewayEffect
  <2>2. CASE UNCHANGED <<stream, floor>>
    BY <1>0, <2>1, <2>2 DEF Passed
  <2>3. CASE Xadd(s)
    BY <1>0, <2>1, <2>3, XaddType DEF Passed
  <2> QED BY <1>1, <2>2, <2>3, GatewayEffect
<1>2. CASE ExpireStep
  BY <1>0, <1>2, ExpireEffect DEF Passed
<1>3. ASSUME NEW m \in MsgIds, GrowIdle(m)
      PROVE  /\ Passed \subseteq Passed' /\ Len(stream') >= Len(stream)
             /\ \A k \in 1 .. Len(stream) : stream'[k] = stream[k]
  BY <1>0, <1>3 DEF GrowIdle, Passed
<1>4. CASE RedisWipe
  BY <1>0, <1>4 DEF RedisWipe, Passed
<1>5. ASSUME NEW w \in Workers, NodeStep(w)
      PROVE  /\ Passed \subseteq Passed' /\ Len(stream') >= Len(stream)
             /\ \A m \in 1 .. Len(stream) : stream'[m] = stream[m]
  <2>1. UNCHANGED <<stream, floor>>
    BY <1>5, NodeEffect
  <2>2. group' >= group
    <3>1. CASE StartNode(w) \/ Reconnect(w)
      BY <1>0, <3>1 DEF StartNode, Reconnect, CreateGroup
    <3>2. CASE ReadNew(w)
      BY <3>2, BatchType
    <3>3. CASE group' = group
      BY <1>0, <3>3
    <3>4. \/ StartNode(w) \/ Reconnect(w) \/ ReadNew(w) \/ group' = group
      BY <1>5 DEF NodeStep, ReadLoop, Sweep, Dispatch, SweepClaim, SweepNoGroup, SweepDiscard,
                  SweepGet, SweepRerun, AckDel, AckAck, AckBell, AckDrop, Crash, redis
    <3> QED BY <3>1, <3>2, <3>3, <3>4
  <2>3. group' \in Int
    BY <1>5, NodeMessagesType DEF MessagesOK
  <2> QED BY <1>0, <2>1, <2>2, <2>3 DEF Passed
<1>6. ASSUME NEW t \in tasks, TaskStep(t)
      PROVE  /\ Passed \subseteq Passed' /\ Len(stream') >= Len(stream)
             /\ \A m \in 1 .. Len(stream) : stream'[m] = stream[m]
  <2>1. UNCHANGED <<stream, floor, group>>
    BY <1>6, TaskEffect
  <2> QED BY <1>0, <2>1 DEF Passed
<1> QED BY <1>1, <1>2, <1>3, <1>4, <1>5, <1>6, StepCases

(***************************************************************************)
(* Who has a message in hand.                                              *)
(***************************************************************************)
\* Held is inductive.
LEMMA HeldStep ==
    ASSUME QueueInv, Next
    PROVE  Held'
<1>0. MessagesOK /\ NodesOK /\ IsFiniteSet(tasks)
  BY TypeParts DEF QueueInv, Held
<1>1. /\ Passed \subseteq Passed' /\ Passed \subseteq 1 .. Len(stream)
      /\ \A m \in Passed : Valid(m) => Valid(m)'
  BY <1>0, PassedGrows DEF Passed, Valid
<1>2. /\ pel \subseteq Passed
      /\ \A w \in Workers : inbox[w] \subseteq Passed /\ recl[w].todo \subseteq Passed
      /\ \A t \in tasks : t.m \in Passed /\ Valid(t.m)
  BY DEF QueueInv, Held
<1>3. ASSUME UNCHANGED <<inbox, tasks, recl>>, pel' \subseteq pel PROVE Held'
  BY <1>0, <1>1, <1>2, <1>3 DEF Held
<1>4. ASSUME NEW s \in Subs, GatewayStep(s) PROVE Held'
  <2>1. UNCHANGED <<inbox, tasks, recl, pel>>
    BY <1>4, GatewayEffect
  <2> QED BY <1>3, <2>1
<1>5. CASE ExpireStep
  BY <1>3, <1>5, ExpireEffect
<1>6. ASSUME NEW m \in MsgIds, GrowIdle(m) PROVE Held'
  BY <1>3, <1>6 DEF GrowIdle, nodes
<1>7. CASE RedisWipe
  BY <1>3, <1>7 DEF RedisWipe, nodes
<1>8. ASSUME NEW w \in Workers, NodeStep(w) PROVE Held'
  <2>0. /\ recl \in [Workers -> SweepType] /\ inbox \in [Workers -> SUBSET MsgIds]
        /\ \A v \in Workers : recl[v].todo \subseteq MsgIds
    BY <1>0 DEF NodesOK, SweepType
  <2>1. CASE StartNode(w) \/ Reconnect(w)
    BY <1>3, <2>1 DEF StartNode, Reconnect, nodes
  <2>2. CASE ReadNew(w)
    <3>1. Batch(w) \subseteq Passed'
      BY <1>0, <2>2, BatchType, NodeEffect, <1>8 DEF Passed
    <3>2. /\ pel' = pel \cup Batch(w) /\ UNCHANGED <<tasks, recl>>
          /\ inbox' = [inbox EXCEPT ![w] = Batch(w)] \/ inbox' = inbox
      BY <2>2, ReadNewEffect
    <3>3. \A v \in Workers : inbox'[v] \subseteq Passed'
      BY <1>1, <1>2, <2>0, <3>1, <3>2
    <3> QED BY <1>0, <1>1, <1>2, <3>1, <3>2, <3>3 DEF Held
  <2>3. CASE Dispatch(w)
    <3> DEFINE m == First(inbox[w])
    <3>1. m \in Passed
      BY <1>2, <2>0, <2>3, FirstOfIds DEF Dispatch
    <3>2. /\ inbox' = [inbox EXCEPT ![w] = @ \ {m}] /\ UNCHANGED <<pel, recl>>
          /\ tasks' = tasks \/ (Valid(m) /\ tasks' = tasks \cup {NewTask(w, m)})
      BY <2>3 DEF Dispatch, redis
    <3>3. NewTask(w, m).m = m
      BY DEF NewTask
    <3>4. IsFiniteSet(tasks')
      BY <1>0, <3>2, FS_AddElement
    <3> HIDE DEF m
    <3>5. \A v \in Workers : inbox'[v] \subseteq Passed'
      BY <1>1, <1>2, <2>0, <3>2
    <3>6. \A t \in tasks' : t.m \in Passed' /\ Valid(t.m)'
      BY <1>1, <1>2, <3>1, <3>2, <3>3
    <3> QED BY <1>1, <1>2, <3>2, <3>4, <3>5, <3>6 DEF Held
  <2>4. CASE SweepClaim(w)
    <3>1. \A v \in Workers : recl'[v].todo \subseteq recl[v].todo \cup Kept(w)
      BY <2>0, <2>4, SweepClaimEffect
    <3>2. pel' \subseteq pel /\ Kept(w) \subseteq pel /\ UNCHANGED <<inbox, tasks>>
      BY <1>0, <2>0, <2>4, SweepClaimEffect DEF MessagesOK, Kept
    <3> QED BY <1>0, <1>1, <1>2, <3>1, <3>2 DEF Held
  <2>5. CASE SweepNoGroup(w)
    <3>1. UNCHANGED <<inbox, tasks, pel>> /\ \A v \in Workers : recl'[v].todo = recl[v].todo
      BY <2>0, <2>5 DEF SweepNoGroup, redis
    <3> QED BY <1>0, <1>1, <1>2, <3>1 DEF Held
  <2>6. ASSUME UNCHANGED <<inbox, tasks>>, pel' \subseteq pel, SweepNext(w) PROVE Held'
    <3>1. \A v \in Workers : recl'[v].todo \subseteq recl[v].todo
      BY <2>0, <2>6, SweepNextEffect
    <3> QED BY <1>0, <1>1, <1>2, <2>6, <3>1 DEF Held
  <2>7. ASSUME NEW pc \in {"get", "rerun", "del", "ack", "bell"},
               UNCHANGED <<inbox, tasks>>, pel' \subseteq pel, SweepTo(w, pc)
        PROVE  Held'
    <3>1. \A v \in Workers : recl'[v].todo \subseteq recl[v].todo
      BY <2>0, <2>7, SweepToEffect
    <3> QED BY <1>0, <1>1, <1>2, <2>7, <3>1 DEF Held
  <2>8. CASE SweepDiscard(w)
    BY <2>6, <2>8 DEF SweepDiscard
  <2>9. CASE SweepGet(w)
    BY <2>7, <2>9 DEF SweepGet, redis
  <2>10. CASE SweepRerun(w)
    <3> DEFINE m == First(recl[w].todo)
    <3>1. /\ recl[w].pc = "rerun" /\ SweepNext(w) /\ tasks' = tasks \cup {NewTask(w, m)}
          /\ UNCHANGED <<pel, inbox>>
      BY <2>10 DEF SweepRerun, redis
    <3>2. recl[w].todo # {} /\ Valid(m)
      BY <3>1 DEF QueueInv, Shape
    <3>3. m \in Passed
      BY <1>2, <2>0, <3>2, FirstOfIds
    <3>4. NewTask(w, m).m = m
      BY DEF NewTask
    <3>5. IsFiniteSet(tasks')
      BY <1>0, <3>1, FS_AddElement
    <3>6. \A v \in Workers : recl'[v].todo \subseteq recl[v].todo
      BY <2>0, <3>1, SweepNextEffect
    <3> HIDE DEF m
    <3>7. \A t \in tasks' : t.m \in Passed' /\ Valid(t.m)'
      BY <1>1, <1>2, <3>1, <3>2, <3>3, <3>4
    <3> QED BY <1>1, <1>2, <3>1, <3>5, <3>6, <3>7 DEF Held
  <2>11. CASE AckDel(w)
    BY <2>7, <2>11 DEF AckDel
  <2>12. CASE AckAck(w)
    BY <2>7, <2>12 DEF AckAck
  <2>13. CASE AckBell(w)
    BY <2>6, <2>13 DEF AckBell, redis
  <2>14. CASE AckDrop(w)
    <3>1. UNCHANGED <<inbox, tasks, pel>>
      BY <2>14 DEF AckDrop, redis
    <3>2. CASE SweepNext(w)
      BY <2>6, <3>1, <3>2
    <3>3. CASE recl' = [recl EXCEPT ![w].pc = "del", ![w].tries = @ + 1]
      <4>1. \A v \in Workers : recl'[v].todo = recl[v].todo
        BY <2>0, <3>3
      <4> QED BY <1>0, <1>1, <1>2, <3>1, <4>1 DEF Held
    <3> QED BY <2>14, <3>2, <3>3 DEF AckDrop
  <2>15. CASE Crash(w)
    <3>1. /\ inbox' = [inbox EXCEPT ![w] = {}] /\ UNCHANGED pel
          /\ tasks' = {t \in tasks : t.w # w} /\ recl' = [recl EXCEPT ![w] = SweepIdle]
      BY <2>15 DEF Crash, redis
    <3>2. SweepIdle.todo = {}
      BY DEF SweepIdle
    <3>3. /\ \A v \in Workers : inbox'[v] \subseteq inbox[v] /\ recl'[v].todo \subseteq recl[v].todo
          /\ tasks' \subseteq tasks
      BY <2>0, <3>1, <3>2
    <3>4. IsFiniteSet(tasks')
      BY <1>0, <3>3, FS_Subset
    <3> QED BY <1>1, <1>2, <3>1, <3>3, <3>4 DEF Held
  <2> QED BY <1>8, <2>1, <2>2, <2>3, <2>4, <2>5, <2>8, <2>9, <2>10, <2>11, <2>12, <2>13, <2>14,
             <2>15 DEF NodeStep, ReadLoop, Sweep
<1>9. ASSUME NEW t \in tasks, TaskStep(t) PROVE Held'
  <2>1. UNCHANGED <<inbox, recl>> /\ pel' \subseteq pel
    BY <1>9, TaskEffect
  <2>2. \/ tasks' = tasks \ {t}
        \/ \E u \in TaskType : tasks' = (tasks \ {t}) \cup {u} /\ u.m = t.m
    BY <1>0, <1>9, TaskReplaced
  <2>3. IsFiniteSet(tasks')
    <3>1. IsFiniteSet(tasks \ {t}) /\ \A u : IsFiniteSet((tasks \ {t}) \cup {u})
      BY <1>0, FS_AddElement, FS_RemoveElement
    <3> QED BY <2>2, <3>1
  <2>4. \A u \in tasks' : u.m \in Passed' /\ Valid(u.m)'
    BY <1>1, <1>2, <2>2
  <2> QED BY <1>1, <1>2, <2>1, <2>3, <2>4 DEF Held
<1> QED BY <1>4, <1>5, <1>6, <1>7, <1>8, <1>9, StepCases

(***************************************************************************)
(* Where a sweep is with its list, and who has acknowledged.               *)
(***************************************************************************)
\* Shape and Rung are inductive.
LEMMA ShapeAndRungStep ==
    ASSUME QueueInv, Next
    PROVE  Shape' /\ Rung'
<1>0. MessagesOK /\ NodesOK /\ IsFiniteSet(tasks)
  BY TypeParts DEF QueueInv, Held
<1>1. \A m \in Passed : Valid(m) => stream'[m] \notin Garbled
  BY <1>0, PassedGrows DEF Passed, Valid
<1>2. /\ recl \in [Workers -> SweepType]
      /\ \A w \in Workers : recl[w].todo \subseteq MsgIds /\ recl[w].todo \subseteq Passed
      /\ \A t \in tasks : t.m \in Passed
  BY <1>0 DEF NodesOK, SweepType, QueueInv, Held
<1>3. \A w \in Workers : recl[w].todo # {} => First(recl[w].todo) \in Passed
  BY <1>2, FirstOfIds
<1>4. \A w \in Workers :
         /\ recl[w].pc = "sleep" <=> recl[w].todo = {}
         /\ recl[w].pc \in {"rerun", "del", "ack", "bell"} =>
              /\ First(recl[w].todo) \in Passed
              /\ Valid(First(recl[w].todo)) /\ stream'[First(recl[w].todo)] \notin Garbled
  BY <1>1, <1>3 DEF QueueInv, Shape
<1>5. /\ \A t \in tasks : t.pc = "bell" => t.m \notin pel
      /\ \A w \in Workers : recl[w].pc = "bell" => First(recl[w].todo) \notin pel
  BY DEF QueueInv, Rung
<1>6. ASSUME UNCHANGED <<tasks, recl>>, pel' \subseteq pel PROVE Shape' /\ Rung'
  BY <1>4, <1>5, <1>6 DEF Shape, Rung, Valid
<1>7. ASSUME NEW s \in Subs, GatewayStep(s) PROVE Shape' /\ Rung'
  <2>1. UNCHANGED <<tasks, recl, pel>>
    BY <1>7, GatewayEffect
  <2> QED BY <1>6, <2>1
<1>8. CASE ExpireStep
  BY <1>6, <1>8, ExpireEffect
<1>9. ASSUME NEW m \in MsgIds, GrowIdle(m) PROVE Shape' /\ Rung'
  BY <1>6, <1>9 DEF GrowIdle, nodes
<1>10. CASE RedisWipe
  BY <1>6, <1>10 DEF RedisWipe, nodes
<1>11. ASSUME NEW w \in Workers, NodeStep(w) PROVE Shape' /\ Rung'
  <2>1. CASE StartNode(w) \/ Reconnect(w)
    BY <1>6, <2>1 DEF StartNode, Reconnect, nodes
  <2>2. CASE ReadNew(w)
    <3>1. pel' = pel \cup Batch(w) /\ UNCHANGED <<tasks, recl>>
      BY <2>2, ReadNewEffect
    <3>2. \A m \in Passed : m \notin Batch(w)
      BY <1>0, <2>2, BatchType DEF Passed, MessagesOK
    <3>3. Shape'
      BY <1>4, <3>1 DEF Shape, Valid
    <3>4. Rung'
      BY <1>2, <1>4, <1>5, <3>1, <3>2 DEF Rung
    <3> QED BY <3>3, <3>4
  <2>3. CASE Dispatch(w)
    <3>1. /\ UNCHANGED <<pel, recl>>
          /\ tasks' = tasks \/ tasks' = tasks \cup {NewTask(w, First(inbox[w]))}
      BY <2>3 DEF Dispatch, redis
    <3>2. NewTask(w, First(inbox[w])).pc = "run"
      BY DEF NewTask
    <3>3. Shape'
      BY <1>4, <3>1 DEF Shape, Valid
    <3>4. Rung'
      BY <1>5, <3>1, <3>2 DEF Rung
    <3> QED BY <3>3, <3>4
  <2>4. CASE SweepClaim(w)
    <3>1. /\ recl[w].pc = "sleep" /\ pel' \subseteq pel /\ UNCHANGED tasks
          /\ \A v \in Workers \ {w} : recl'[v] = recl[v]
          /\ \/ recl'[w].pc = IF recl'[w].todo = {} THEN "sleep" ELSE "get"
             \/ recl'[w].todo = recl[w].todo /\ recl'[w].pc = recl[w].pc
      BY <1>2, <2>4, SweepClaimEffect
    <3>2. Shape'
      BY <1>4, <3>1 DEF Shape, Valid
    <3>3. Rung'
      BY <1>4, <1>5, <3>1 DEF Rung
    <3> QED BY <3>2, <3>3
  <2>5. CASE SweepNoGroup(w)
    <3>1. /\ UNCHANGED <<tasks, pel>>
          /\ \A v \in Workers : recl'[v].todo = recl[v].todo /\ recl'[v].pc = recl[v].pc
      BY <1>2, <2>5 DEF SweepNoGroup, redis, SweepType
    <3> QED BY <1>4, <1>5, <3>1 DEF Shape, Rung, Valid
  <2>6. ASSUME UNCHANGED tasks, pel' \subseteq pel, SweepNext(w) PROVE Shape' /\ Rung'
    <3>1. /\ recl'[w].pc = IF recl'[w].todo = {} THEN "sleep" ELSE "get"
          /\ \A v \in Workers \ {w} : recl'[v] = recl[v]
      BY <1>2, <2>6, SweepNextEffect
    <3>2. Shape'
      BY <1>4, <3>1 DEF Shape, Valid
    <3>3. Rung'
      BY <1>5, <2>6, <3>1 DEF Rung
    <3> QED BY <3>2, <3>3
  <2>7. ASSUME NEW pc \in {"rerun", "del", "ack", "bell"}, UNCHANGED tasks, pel' \subseteq pel,
               SweepTo(w, pc), recl[w].pc # "sleep", Valid(First(recl[w].todo)),
               pc = "bell" => First(recl[w].todo) \notin pel'
        PROVE  Shape' /\ Rung'
    <3>1. /\ recl'[w].pc = pc /\ recl'[w].todo = recl[w].todo
          /\ \A v \in Workers \ {w} : recl'[v] = recl[v]
      BY <1>2, <2>7, SweepToEffect
    <3>2. stream'[First(recl[w].todo)] \notin Garbled /\ recl[w].todo # {}
      BY <1>1, <1>3, <1>4, <2>7
    <3>3. Shape'
      BY <1>4, <2>7, <3>1, <3>2 DEF Shape, Valid
    <3>4. Rung'
      BY <1>5, <2>7, <3>1 DEF Rung
    <3> QED BY <3>3, <3>4
  <2>8. CASE SweepDiscard(w)
    BY <2>6, <2>8 DEF SweepDiscard
  <2>9. CASE SweepGet(w)
    BY <2>7, <2>9 DEF SweepGet, redis
  <2>10. CASE SweepRerun(w)
    <3>1. /\ SweepNext(w) /\ tasks' = tasks \cup {NewTask(w, First(recl[w].todo))}
          /\ UNCHANGED pel
      BY <2>10 DEF SweepRerun, redis
    <3>2. NewTask(w, First(recl[w].todo)).pc = "run"
      BY DEF NewTask
    <3>3. /\ recl'[w].pc = IF recl'[w].todo = {} THEN "sleep" ELSE "get"
          /\ \A v \in Workers \ {w} : recl'[v] = recl[v]
      BY <1>2, <3>1, SweepNextEffect
    <3>4. Shape'
      BY <1>4, <3>3 DEF Shape, Valid
    <3>5. Rung'
      BY <1>5, <3>1, <3>2, <3>3 DEF Rung
    <3> QED BY <3>4, <3>5
  <2>11. CASE AckDel(w)
    BY <1>4, <2>7, <2>11 DEF AckDel
  <2>12. CASE AckAck(w)
    BY <1>4, <2>7, <2>12 DEF AckAck
  <2>13. CASE AckBell(w)
    BY <2>6, <2>13 DEF AckBell, redis
  <2>14. CASE AckDrop(w)
    <3>1. UNCHANGED <<tasks, pel>> /\ recl[w].pc \in {"del", "ack", "bell"}
      BY <2>14 DEF AckDrop, redis
    <3>2. CASE SweepNext(w)
      BY <2>6, <3>1, <3>2
    <3>3. CASE recl' = [recl EXCEPT ![w].pc = "del", ![w].tries = @ + 1]
      <4>1. /\ recl'[w].pc = "del" /\ recl'[w].todo = recl[w].todo
            /\ \A v \in Workers \ {w} : recl'[v] = recl[v]
        BY <1>2, <3>3 DEF SweepType
      <4>2. Shape'
        BY <1>4, <3>1, <4>1 DEF Shape, Valid
      <4>3. Rung'
        BY <1>5, <3>1, <4>1 DEF Rung
      <4> QED BY <4>2, <4>3
    <3> QED BY <2>14, <3>2, <3>3 DEF AckDrop
  <2>15. CASE Crash(w)
    <3>1. /\ UNCHANGED pel /\ tasks' \subseteq tasks /\ recl' = [recl EXCEPT ![w] = SweepIdle]
      BY <2>15 DEF Crash, redis
    <3>2. SweepIdle.todo = {} /\ SweepIdle.pc = "sleep"
      BY DEF SweepIdle
    <3>3. recl'[w].todo = {} /\ recl'[w].pc = "sleep" /\ \A v \in Workers \ {w} : recl'[v] = recl[v]
      BY <1>2, <3>1, <3>2
    <3>4. Shape'
      BY <1>4, <3>3 DEF Shape, Valid
    <3>5. Rung'
      BY <1>5, <3>1, <3>3 DEF Rung
    <3> QED BY <3>4, <3>5
  <2> QED BY <1>11, <2>1, <2>2, <2>3, <2>4, <2>5, <2>8, <2>9, <2>10, <2>11, <2>12, <2>13, <2>14,
             <2>15 DEF NodeStep, ReadLoop, Sweep
<1>12. ASSUME NEW t \in tasks, TaskStep(t) PROVE Shape' /\ Rung'
  <2>1. UNCHANGED recl /\ pel' \subseteq pel
    BY <1>12, TaskEffect
  <2>2. \/ tasks' = tasks \ {t}
        \/ \E u \in TaskType : /\ tasks' = (tasks \ {t}) \cup {u} /\ u.m = t.m
                               /\ u.pc = "bell" => pel' = pel \ {t.m}
    BY <1>0, <1>12, TaskReplaced
  <2>3. Shape'
    BY <1>4, <2>1 DEF Shape, Valid
  <2>4. Rung'
    BY <1>5, <2>1, <2>2 DEF Rung
  <2> QED BY <2>3, <2>4
<1> QED BY <1>7, <1>8, <1>9, <1>10, <1>11, <1>12, StepCases

(***************************************************************************)
(* Deliveries.                                                             *)
(***************************************************************************)
\* A message that a step does not deliver stays paid for: it may lose its last
\* holder, or grow idle while it is held, only at the price of a fault.
LEMMA PaidKept ==
    ASSUME NEW m \in MsgIds, PaidMsg(m), nth[m] \in Nat, faults \in Nat, faults' \in Nat,
           nth'[m] = nth[m], faults' >= faults, m \in pel => m \in Passed,
           ~Orphan(m) => m \in Passed, m \in Passed => m \in Passed',
           m \in Passed => (Valid(m)' <=> Valid(m)), ~Orphan(m)' => ~Orphan(m),
           m \in pel' => m \in pel,
           m \in idle' => (m \in idle \/ Orphan(m) \/ faults' = faults + 1),
           Orphan(m)' => (Orphan(m) \/ m \notin pel' \/ ~Valid(m) \/ faults' = faults + 1)
    PROVE  PaidMsg(m)'
<1>1. m \notin Passed' => nth'[m] = 0
  BY DEF PaidMsg
<1>2. (m \in Passed' /\ ~Orphan(m)') => nth'[m] >= 1
  BY DEF PaidMsg
<1>3. (m \in Passed' /\ Valid(m)') => nth'[m] <= faults' + 1
  BY DEF PaidMsg
<1>4. (m \in pel' /\ Valid(m)' /\ (m \in idle' \/ Orphan(m)')) => nth'[m] <= faults'
  BY DEF PaidMsg
<1> QED BY <1>1, <1>2, <1>3, <1>4 DEF PaidMsg

\* Paid is inductive: a delivery after the first uses up a fault that left the message
\* orphaned or idle.
LEMMA PaidStep ==
    ASSUME QueueInv, Next
    PROVE  Paid'
<1>0. MessagesOK /\ NodesOK /\ CountsOK /\ IsFiniteSet(tasks)
  BY TypeParts DEF QueueInv, Held
<1>1. /\ Passed \subseteq Passed' /\ Passed \subseteq 1 .. Len(stream)
      /\ \A m \in Passed : Valid(m)' <=> Valid(m)
  BY <1>0, PassedGrows DEF Passed, Valid
<1>2. /\ recl \in [Workers -> SweepType] /\ inbox \in [Workers -> SUBSET MsgIds]
      /\ \A w \in Workers : recl[w].todo \subseteq MsgIds
      /\ faults \in Nat /\ \A m \in MsgIds : nth[m] \in Nat
      /\ idle \subseteq pel
  BY <1>0, BoundAssumption DEF NodesOK, SweepType, CountsOK, MessagesOK, MaxDeliveries
<1>3. /\ \A m \in MsgIds : PaidMsg(m) /\ (m \in pel => m \in Passed)
      /\ \A m \in MsgIds : ~Orphan(m) => m \in Passed
  BY DEF QueueInv, Paid, Held, Orphan
<1>4. ASSUME Counted PROVE faults' \in Nat /\ faults' >= faults
  BY <1>0, <1>4, StepCases, CountsType, BoundAssumption DEF CountsOK
<1>5. ASSUME NEW m \in MsgIds, Counted, nth'[m] = nth[m], m \in pel' => m \in pel,
             ~Orphan(m)' => ~Orphan(m),
             m \in idle' => (m \in idle \/ Orphan(m) \/ faults' = faults + 1),
             Orphan(m)' => (Orphan(m) \/ m \notin pel' \/ ~Valid(m) \/ faults' = faults + 1)
      PROVE  PaidMsg(m)'
  BY <1>1, <1>2, <1>3, <1>4, <1>5, PaidKept
<1>6. ASSUME Counted, nth' = nth, UNCHANGED <<inbox, tasks, recl>>, pel' \subseteq pel,
             idle' \subseteq idle
      PROVE  Paid'
  <2>1. \A m \in MsgIds : Orphan(m)' <=> Orphan(m)
    BY <1>6 DEF Orphan
  <2> QED BY <1>5, <1>6, <2>1 DEF Paid
<1>7. ASSUME NEW s \in Subs, GatewayStep(s) PROVE Paid'
  <2>1. UNCHANGED <<inbox, tasks, recl, pel, idle, nth>> /\ Counted
    BY <1>7, GatewayEffect
  <2> QED BY <1>6, <2>1
<1>8. CASE ExpireStep
  BY <1>6, <1>8, ExpireEffect
<1>9. ASSUME NEW m \in MsgIds, GrowIdle(m) PROVE Paid'
  <2>1. UNCHANGED <<pel, nth, inbox, tasks, recl>> /\ Counted /\ idle' = idle \cup {m}
    BY <1>0, <1>9, GrowIdleType DEF nodes
  <2>2. Orphan(m) \/ faults' = faults + 1
    BY <1>9 DEF GrowIdle, Fault
  <2>3. \A k \in MsgIds : Orphan(k)' <=> Orphan(k)
    BY <2>1 DEF Orphan
  <2> QED BY <1>5, <2>1, <2>2, <2>3 DEF Paid
<1>10. CASE RedisWipe
  <2>1. UNCHANGED <<nth, inbox, tasks, recl>> /\ Counted /\ pel' = {} /\ idle' = {}
    BY <1>10 DEF RedisWipe, nodes, Counted, Fault
  <2> QED BY <1>6, <2>1
<1>11. ASSUME NEW w \in Workers, NodeStep(w) PROVE Paid'
  <2>0. Counted
    BY <1>11, NodeEffect
  <2>1. CASE StartNode(w) \/ Reconnect(w)
    BY <1>6, <2>0, <2>1 DEF StartNode, Reconnect, nodes
  <2>2. CASE ReadNew(w)
    <3>1. /\ inbox[w] = {} /\ pel' = pel \cup Batch(w) /\ nth' = Delivered(Batch(w))
          /\ \/ inbox' = [inbox EXCEPT ![w] = Batch(w)]
             \/ UNCHANGED inbox /\ faults' = faults + 1
          /\ UNCHANGED <<stream, floor, idle, tasks, recl>>
      BY <2>2, ReadNewEffect DEF Fault
    <3>2. Batch(w) \subseteq MsgIds /\ \A m \in Batch(w) : m \notin Passed
      BY <1>0, <2>2, BatchType DEF Passed, MessagesOK
    <3>3. \A m \in MsgIds \ Batch(w) : nth'[m] = nth[m]
      BY <1>0, <3>1, DeliveredType DEF MessagesOK
    <3>4. \A m \in MsgIds \ Batch(w) : Orphan(m)' <=> Orphan(m)
      BY <1>2, <3>1 DEF Orphan
    <3>5. ASSUME NEW m \in MsgIds \ Batch(w) PROVE PaidMsg(m)'
      BY <1>5, <2>0, <3>1, <3>3, <3>4
    <3>6. ASSUME NEW m \in Batch(w) PROVE PaidMsg(m)'
      <4>1. m \in MsgIds /\ m \notin Passed /\ m \notin idle /\ nth[m] = 0
        BY <1>2, <1>3, <3>2, <3>6 DEF PaidMsg
      <4>2. nth'[m] = 1
        <5>1. nth'[m] <= nth[m] + 1 /\ nth'[m] >= 1
          BY <1>0, <3>1, <3>6, <4>1, DeliveredType DEF MessagesOK
        <5>2. nth'[m] \in Nat
          BY <1>0, <3>1, <4>1, DeliveredType, BoundAssumption DEF MessagesOK, MaxDeliveries
        <5> QED BY <4>1, <5>1, <5>2
      <4>3. m \in Passed'
        BY <1>0, <1>11, <2>2, <3>6, BatchType, NodeEffect DEF Passed
      <4>4. faults' = faults + 1 \/ ~Orphan(m)'
        BY <1>2, <3>1, <3>6 DEF Orphan
      <4> QED BY <1>2, <1>4, <2>0, <3>1, <4>1, <4>2, <4>3, <4>4 DEF PaidMsg
    <3> QED BY <3>5, <3>6 DEF Paid
  <2>3. CASE Dispatch(w)
    <3> DEFINE m == First(inbox[w])
    <3>1. m \in inbox[w]
      BY <1>2, <2>3, FirstOfIds DEF Dispatch
    <3>2. /\ inbox' = [inbox EXCEPT ![w] = @ \ {m}] /\ UNCHANGED <<pel, idle, nth, recl>>
          /\ \/ tasks' = tasks /\ ~Valid(m)
             \/ tasks' = tasks \cup {NewTask(w, m)}
      BY <2>3 DEF Dispatch, redis
    <3>3. NewTask(w, m).m = m
      BY DEF NewTask
    <3> HIDE DEF m
    <3>4. ASSUME NEW k \in MsgIds
          PROVE  /\ ~Orphan(k)' => ~Orphan(k)
                 /\ Orphan(k)' => (Orphan(k) \/ ~Valid(k))
      <4>1. CASE k # m
        BY <1>2, <3>2, <3>3, <4>1 DEF Orphan
      <4>2. CASE k = m
        BY <1>2, <3>1, <3>2, <3>3, <4>2 DEF Orphan
      <4> QED BY <4>1, <4>2
    <3> QED BY <1>5, <2>0, <3>2, <3>4 DEF Paid
  <2>4. CASE SweepClaim(w)
    <3>1. /\ recl[w].todo = {} /\ idle' = idle \ Claimed(w)
          /\ pel' = pel \ (Claimed(w) \ Kept(w)) /\ nth' = Delivered(Kept(w))
          /\ Kept(w) \subseteq idle /\ Kept(w) \subseteq Claimed(w)
          /\ recl'[w].todo = Kept(w) \/ (recl'[w].todo = {} /\ faults' = faults + 1)
          /\ \A v \in Workers \ {w} : recl'[v] = recl[v]
          /\ UNCHANGED <<inbox, tasks>>
      BY <1>2, <2>4, SweepClaimEffect DEF Kept, Fault, QueueInv, Shape
    <3>2. \A k \in MsgIds \ Kept(w) : nth'[k] = nth[k]
      BY <1>0, <3>1, DeliveredType DEF MessagesOK
    <3>3. \A k \in MsgIds \ Kept(w) : Orphan(k)' <=> Orphan(k)
      BY <1>2, <3>1 DEF Orphan
    <3>4. ASSUME NEW k \in MsgIds \ Kept(w) PROVE PaidMsg(k)'
      BY <1>5, <2>0, <3>1, <3>2, <3>3
    <3>5. ASSUME NEW k \in Kept(w) PROVE PaidMsg(k)'
      <4>1. k \in MsgIds /\ k \in idle /\ k \in pel /\ k \in Passed /\ k \in Passed'
        BY <1>0, <1>1, <1>2, <1>3, <3>1, <3>5 DEF MessagesOK
      <4>2. nth'[k] <= nth[k] + 1 /\ nth'[k] >= 1 /\ nth'[k] \in Nat
        BY <1>0, <3>1, <3>5, <4>1, DeliveredType, BoundAssumption DEF MessagesOK, MaxDeliveries
      <4>3. Valid(k) => nth[k] <= faults
        BY <1>3, <4>1 DEF PaidMsg
      <4>4. Valid(k)' => nth'[k] <= faults + 1
        BY <1>1, <1>2, <4>1, <4>2, <4>3
      <4>5. k \notin idle' /\ (faults' = faults + 1 \/ ~Orphan(k)')
        BY <3>1, <3>5 DEF Orphan
      <4> QED BY <1>2, <1>4, <2>0, <4>1, <4>2, <4>4, <4>5 DEF PaidMsg
    <3> QED BY <3>4, <3>5 DEF Paid
  <2>5. ASSUME UNCHANGED <<inbox, tasks, nth>>, pel' \subseteq pel, idle' \subseteq idle,
               \A v \in Workers : recl'[v].todo = recl[v].todo
        PROVE  Paid'
    <3>1. \A k \in MsgIds : Orphan(k)' <=> Orphan(k)
      BY <2>5 DEF Orphan
    <3> QED BY <1>5, <2>0, <2>5, <3>1 DEF Paid
  <2>6. ASSUME UNCHANGED <<inbox, nth>>, pel' \subseteq pel, idle' \subseteq idle,
               tasks \subseteq tasks', \A t \in tasks' \ tasks : t.m = First(recl[w].todo),
               SweepNext(w), recl[w].todo # {},
               \/ ~Valid(First(recl[w].todo)) \/ First(recl[w].todo) \notin pel
               \/ faults' = faults + 1 \/ \E t \in tasks' : t.m = First(recl[w].todo)
        PROVE  Paid'
    <3> DEFINE m == First(recl[w].todo)
    <3>1. /\ recl'[w].todo = recl[w].todo \ {m}
          /\ \A v \in Workers \ {w} : recl'[v] = recl[v]
      BY <1>2, <2>6, SweepNextEffect
    <3>2. m \in recl[w].todo
      BY <1>2, <2>6, FirstOfIds
    <3>3. ~Valid(m) \/ m \notin pel \/ faults' = faults + 1 \/ \E t \in tasks' : t.m = m
      BY <2>6
    <3>4. tasks \subseteq tasks' /\ \A t \in tasks' \ tasks : t.m = m
      BY <2>6
    <3> HIDE DEF m
    <3>5. ASSUME NEW k \in MsgIds
          PROVE  /\ ~Orphan(k)' => ~Orphan(k)
                 /\ Orphan(k)' => (Orphan(k) \/ k \notin pel' \/ ~Valid(k) \/ faults' = faults + 1)
      <4>1. CASE k # m
        BY <2>6, <3>1, <3>4, <4>1 DEF Orphan
      <4>2. CASE k = m
        BY <2>6, <3>1, <3>2, <3>3, <4>2 DEF Orphan
      <4> QED BY <4>1, <4>2
    <3> QED BY <1>5, <2>0, <2>6, <3>5 DEF Paid
  <2>7. recl[w].pc # "sleep" => recl[w].todo # {}
    BY DEF QueueInv, Shape
  <2>8. CASE SweepNoGroup(w)
    <3>1. /\ UNCHANGED <<inbox, tasks, nth, pel, idle>>
          /\ \A v \in Workers : recl'[v].todo = recl[v].todo
      BY <1>2, <2>8 DEF SweepNoGroup, redis, SweepType
    <3> QED BY <2>5, <3>1
  <2>9. CASE SweepDiscard(w)
    BY <2>6, <2>7, <2>9 DEF SweepDiscard
  <2>10. CASE SweepGet(w)
    <3>1. SweepTo(w, "del") \/ SweepTo(w, "rerun")
      BY <2>10 DEF SweepGet
    <3>2. \A v \in Workers : recl'[v].todo = recl[v].todo
      BY <1>2, <3>1, SweepToEffect
    <3> QED BY <2>5, <2>10, <3>2 DEF SweepGet, redis
  <2>11. CASE SweepRerun(w)
    <3>1. NewTask(w, First(recl[w].todo)).m = First(recl[w].todo)
      BY DEF NewTask
    <3>2. /\ UNCHANGED <<inbox, nth, pel, idle>> /\ SweepNext(w) /\ recl[w].pc = "rerun"
          /\ tasks' = tasks \cup {NewTask(w, First(recl[w].todo))}
      BY <2>11 DEF SweepRerun, redis
    <3> QED BY <2>6, <2>7, <3>1, <3>2
  <2>12. CASE AckDel(w)
    <3>1. \A v \in Workers : recl'[v].todo = recl[v].todo
      BY <1>2, <2>12, SweepToEffect DEF AckDel
    <3> QED BY <2>5, <2>12, <3>1 DEF AckDel
  <2>13. CASE AckAck(w)
    <3>1. \A v \in Workers : recl'[v].todo = recl[v].todo
      BY <1>2, <2>13, SweepToEffect DEF AckAck
    <3> QED BY <2>5, <2>13, <3>1 DEF AckAck
  <2>14. CASE AckBell(w)
    <3>1. First(recl[w].todo) \notin pel
      BY <2>14 DEF QueueInv, Rung, AckBell
    <3> QED BY <2>6, <2>7, <2>14, <3>1 DEF AckBell, redis
  <2>15. CASE AckDrop(w)
    <3>1. /\ UNCHANGED <<inbox, tasks, nth, pel, idle>> /\ faults' = faults + 1
          /\ recl[w].pc # "sleep"
      BY <2>15 DEF AckDrop, redis, Fault
    <3>2. CASE SweepNext(w)
      BY <2>6, <2>7, <3>1, <3>2
    <3>3. CASE recl' = [recl EXCEPT ![w].pc = "del", ![w].tries = @ + 1]
      <4>1. \A v \in Workers : recl'[v].todo = recl[v].todo
        BY <1>2, <3>3 DEF SweepType
      <4> QED BY <2>5, <3>1, <4>1
    <3> QED BY <2>15, <3>2, <3>3 DEF AckDrop
  <2>16. CASE Crash(w)
    <3>1. /\ UNCHANGED <<nth, pel, idle>> /\ faults' = faults + 1
          /\ inbox' = [inbox EXCEPT ![w] = {}]
          /\ tasks' = {t \in tasks : t.w # w} /\ recl' = [recl EXCEPT ![w] = SweepIdle]
      BY <2>16 DEF Crash, redis, Fault
    <3>2. SweepIdle.todo = {}
      BY DEF SweepIdle
    <3>3. \A k \in MsgIds : ~Orphan(k)' => ~Orphan(k)
      BY <1>2, <3>1, <3>2 DEF Orphan
    <3> QED BY <1>5, <2>0, <3>1, <3>3 DEF Paid
  <2> QED BY <1>11, <2>1, <2>2, <2>3, <2>4, <2>8, <2>9, <2>10, <2>11, <2>12, <2>13, <2>14,
             <2>15, <2>16 DEF NodeStep, ReadLoop, Sweep
<1>12. ASSUME NEW t \in tasks, TaskStep(t) PROVE Paid'
  <2>1. /\ UNCHANGED <<nth, inbox, recl>> /\ pel' \subseteq pel /\ idle' \subseteq idle
        /\ Counted
    BY <1>12, TaskEffect
  <2>2. \/ tasks' = tasks \ {t} /\ (faults' = faults + 1 \/ t.m \notin pel)
        \/ \E u \in TaskType : tasks' = (tasks \ {t}) \cup {u} /\ u.m = t.m
    <3>1. CASE PublishBell(t)
      BY <3>1 DEF PublishBell, TaskEnds, QueueInv, Rung
    <3>2. CASE PublishDrop(t)
      BY <1>0, <1>12, <3>2, TaskReplaced DEF PublishDrop, Fault
    <3>3. CASE \E pc \in {"run", "set", "del", "ack", "bell"} : TaskTo(t, pc)
      <4>1. PICK pc \in {"run", "set", "del", "ack", "bell"} :
               tasks' = (tasks \ {t}) \cup {[t EXCEPT !.pc = pc]}
        BY <3>3 DEF TaskTo
      <4>2. t \in TaskType
        BY <1>0 DEF NodesOK
      <4>3. [t EXCEPT !.pc = pc] \in TaskType /\ [t EXCEPT !.pc = pc].m = t.m
        BY <4>2, TaskMoves
      <4> QED BY <4>1, <4>3
    <3> QED BY <1>12, <3>1, <3>2, <3>3
            DEF TaskStep, Publish, RunJob, PublishSet, PublishDel, PublishAck
  <2>3. ASSUME NEW k \in MsgIds
        PROVE  /\ ~Orphan(k)' => ~Orphan(k)
               /\ Orphan(k)' => (Orphan(k) \/ k \notin pel' \/ faults' = faults + 1)
    BY <2>1, <2>2 DEF Orphan
  <2> QED BY <1>5, <2>1, <2>3 DEF Paid
<1> QED BY <1>7, <1>8, <1>9, <1>10, <1>11, <1>12, StepCases

(***************************************************************************)
(* The inductive invariant.                                                *)
(***************************************************************************)
\* The invariant holds at the start.
LEMMA QueueInit == Init => QueueInv
<1> SUFFICES ASSUME Init PROVE QueueInv
  OBVIOUS
<1>1. /\ stream = <<>> /\ floor = 0 /\ pel = {} /\ idle = {} /\ tasks = {} /\ faults = 0
      /\ struck = {} /\ nth = [m \in MsgIds |-> 0] /\ group \in {-1, 0}
      /\ inbox = [w \in Workers |-> {}] /\ recl = [w \in Workers |-> SweepIdle]
  BY DEF Init
<1>2. SweepIdle.todo = {} /\ SweepIdle.pc = "sleep" /\ SweepIdle \in SweepType
  BY BoundAssumption, SubsFinite DEF SweepIdle, SweepType
<1>3. Passed = {}
  BY <1>1 DEF Passed
<1>4. TypeOK
  <2>1. MessagesOK
    BY <1>1, SubsFinite, BoundAssumption DEF MessagesOK, MaxDeliveries
  <2>2. KeysOK /\ HandlersOK
    BY DEF Init, KeysOK, HandlersOK
  <2>3. NodesOK
    BY <1>1, <1>2 DEF Init, NodesOK
  <2>4. CountsOK
    BY <1>1, BoundAssumption DEF Init, CountsOK
  <2> QED BY <2>1, <2>2, <2>3, <2>4, TypeParts
<1>5. Added
  BY <1>1 DEF Added
<1>6. Held
  BY <1>1, <1>2, FS_EmptySet DEF Held
<1>7. Shape /\ Rung
  BY <1>1, <1>2 DEF Shape, Rung
<1>8. Paid
  BY <1>1, <1>3 DEF Paid, PaidMsg
<1> QED BY <1>4, <1>5, <1>6, <1>7, <1>8 DEF QueueInv

\* The invariant is kept by every step.
LEMMA QueueStep == QueueInv /\ [Next]_vars => QueueInv'
<1> SUFFICES ASSUME QueueInv, [Next]_vars PROVE QueueInv'
  OBVIOUS
<1>1. CASE UNCHANGED vars
  <2>1. /\ UNCHANGED <<stream, floor, group, pel, idle, nth, results, pending>>
        /\ UNCHANGED <<sub, got, up, inbox, tasks, recl, whole, faults, struck>>
    BY <1>1 DEF vars, moving, redis, gateway, nodes
  <2>2. TypeOK'
    BY <2>1, Zenon DEF QueueInv, TypeOK
  <2>3. Added'
    BY <2>1, Zenon DEF QueueInv, Added
  <2>4. Held'
    BY <2>1, Zenon DEF QueueInv, Held, Passed, Valid
  <2>5. Shape'
    BY <2>1, Zenon DEF QueueInv, Shape, Valid
  <2>6. Paid'
    BY <2>1, Zenon DEF QueueInv, Paid, PaidMsg, Passed, Valid, Orphan
  <2>7. Rung'
    BY <2>1 DEF QueueInv, Rung
  <2> QED BY <2>2, <2>3, <2>4, <2>5, <2>6, <2>7 DEF QueueInv
<1>2. CASE Next
  <2>0. /\ MessagesOK /\ KeysOK /\ HandlersOK /\ NodesOK /\ CountsOK /\ Added
        /\ IsFiniteSet(tasks)
    BY TypeParts DEF QueueInv, Held
  <2>1. UNCHANGED whole
    BY <1>2, StepCases
  <2>2. Held' /\ Shape' /\ Rung' /\ Paid'
    BY <1>2, HeldStep, ShapeAndRungStep, PaidStep
  <2>3. ASSUME Added', MessagesOK', KeysOK', HandlersOK', NodesOK', Counted PROVE QueueInv'
    <3>1. CountsOK'
      BY <2>0, <2>1, <2>3, CountsType
    <3>2. TypeOK'
      BY <2>3, <3>1, Zenon DEF TypeOK, MessagesOK, KeysOK, HandlersOK, NodesOK, CountsOK,
                               TaskType, SweepType
    <3> QED BY <2>2, <2>3, <3>2 DEF QueueInv
  <2>4. ASSUME UNCHANGED <<stream, sub>> PROVE Added'
    BY <2>0, <2>4 DEF Added
  <2>5. ASSUME UNCHANGED <<sub, got>> PROVE HandlersOK'
    BY <2>0, <2>5 DEF HandlersOK
  <2>6. ASSUME UNCHANGED <<up, inbox, tasks, recl>> PROVE NodesOK'
    BY <2>0, <2>6 DEF NodesOK
  <2>7. ASSUME NEW s \in Subs, GatewayStep(s) PROVE QueueInv'
    <3>1. Added' /\ KeysOK' /\ HandlersOK'
      BY <2>0, <2>7, GatewayAdded, GatewayKeysType, HandlersType
    <3>2. MessagesOK'
      BY <2>0, <2>7, <3>1, GatewayMessagesType
    <3>3. NodesOK' /\ Counted
      BY <2>6, <2>7, GatewayEffect
    <3> QED BY <2>3, <3>1, <3>2, <3>3
  <2>8. CASE ExpireStep
    <3>1. KeysOK' /\ Added' /\ HandlersOK' /\ NodesOK' /\ Counted
      BY <2>0, <2>4, <2>5, <2>6, <2>8, ExpireEffect, ExpireKeysType
    <3>2. MessagesOK'
      BY <2>0, <2>8, ExpireEffect DEF MessagesOK
    <3> QED BY <2>3, <3>1, <3>2
  <2>9. ASSUME NEW m \in MsgIds, GrowIdle(m) PROVE QueueInv'
    <3>1. /\ MessagesOK' /\ Counted
          /\ UNCHANGED <<stream, results, pending, sub, got, up, inbox, tasks, recl>>
      BY <2>0, <2>9, GrowIdleType DEF nodes
    <3>2. KeysOK'
      BY <2>0, <3>1 DEF KeysOK
    <3> QED BY <2>3, <2>4, <2>5, <2>6, <3>1, <3>2
  <2>10. CASE RedisWipe
    <3>1. /\ MessagesOK' /\ KeysOK' /\ Counted
          /\ UNCHANGED <<stream, sub, got, up, inbox, tasks, recl>>
      BY <2>0, <2>10, WipeType DEF nodes
    <3> QED BY <2>3, <2>4, <2>5, <2>6, <3>1
  <2>11. ASSUME NEW w \in Workers, NodeStep(w) PROVE QueueInv'
    <3>1. MessagesOK' /\ KeysOK' /\ NodesOK'
      BY <2>0, <2>11, NodeMessagesType, NodeKeysType, NodeNodesType
    <3>2. UNCHANGED <<stream, sub, got>> /\ Counted
      BY <2>11, NodeEffect
    <3> QED BY <2>3, <2>4, <2>5, <3>1, <3>2
  <2>12. ASSUME NEW t \in tasks, TaskStep(t) PROVE QueueInv'
    <3>1. t.m \in 1 .. Len(stream)
      BY DEF QueueInv, Held, Passed
    <3>2. MessagesOK' /\ KeysOK' /\ NodesOK'
      BY <2>0, <2>12, <3>1, TaskMessagesType, TaskKeysType, TaskNodesType DEF MessagesOK
    <3>3. UNCHANGED <<stream, sub, got>> /\ Counted
      BY <2>12, TaskEffect
    <3> QED BY <2>3, <2>4, <2>5, <3>2, <3>3
  <2> QED BY <1>2, <2>7, <2>8, <2>9, <2>10, <2>11, <2>12, StepCases
<1> QED BY <1>1, <1>2

\* QueueInv for every instance: what the gateways (result_bus.rs) and the nodes (redis.rs)
\* do to stream, PEL, batches, sweep lists and tasks keeps every message accounted for.
THEOREM QueueInvariant == Spec => []QueueInv
BY QueueInit, QueueStep, PTL DEF Spec

\* TypeOK for every instance: the stream holds each submission at most once however
\* enqueue() fails (result_bus.rs), and a job is never delivered more often than once
\* plus once per fault, whatever the sweeps do (redis.rs).
THEOREM QueueTypeCorrect == Spec => []TypeOK
<1>1. QueueInv => TypeOK
  BY DEF QueueInv
<1> QED BY <1>1, QueueInvariant, PTL

(***************************************************************************)
(* The cluster implements JobService.                                      *)
(***************************************************************************)
\* The refinement mapping, by the names of the abstract state.
SPhase  == [s \in Subs |-> PhaseOf(s)]
SQueued == {stream[m] : m \in 1 .. Len(stream)}
SOffers == [s \in Subs |-> IF PhaseOf(s) \in {"asking", "waiting"}
                           THEN {results[JobOf[s]]} \ {None} ELSE {}]

\* The initial states of the cluster are initial states of the service.
LEMMA ServiceInit == Init => Service!Init
<1> SUFFICES ASSUME Init PROVE Service!Init
  OBVIOUS
<1>1. SPhase = [s \in Subs |-> "idle"] /\ SOffers = [s \in Subs |-> {}]
  BY DEF Init, SPhase, SOffers, PhaseOf
<1>2. SQueued = {}
  BY DEF Init, SQueued
<1> QED BY <1>1, <1>2 DEF Init, Service!Init, SPhase, SOffers, SQueued

Phase(pc) == CASE pc = "new" -> "idle"
               [] pc \in {"claim", "add"} -> "asking"
               [] pc \in {"rollback", "local"} -> "fallback"
               [] pc \in {"wait", "dup"} -> "waiting"
               [] OTHER -> "over"

\* What a handler's move is to its client: one phase changes, and with it the offers
\* that the client may still be answered with.
LEMMA PhaseAfter ==
    ASSUME HandlersOK, NEW s \in Subs, NEW pc, Goto(s, pc)
    PROVE  SPhase[s] = Phase(sub[s]) /\ SPhase' = [SPhase EXCEPT ![s] = Phase(pc)]
<1>1. sub' = [sub EXCEPT ![s] = pc] /\ DOMAIN sub = Subs
  BY DEF Goto, HandlersOK
<1>2. \A r \in Subs : PhaseOf(r) = Phase(sub[r]) /\ PhaseOf(r)' = Phase(sub'[r])
  BY Zenon DEF PhaseOf, Phase
<1>3. \A r \in Subs : Phase(sub'[r]) = IF r = s THEN Phase(pc) ELSE Phase(sub[r])
  BY <1>1
<1>4. SPhase' = [r \in Subs |-> Phase(sub'[r])] /\ SPhase = [r \in Subs |-> Phase(sub[r])]
  BY <1>2 DEF SPhase
<1> QED BY <1>3, <1>4

Live == {"asking", "waiting"}

\* The offers after a step, from the phases and the results after it.
LEMMA OffersAfter ==
    ASSUME HandlersOK, NEW s \in Subs, NEW pc, Goto(s, pc), results' = results
    PROVE  /\ (Phase(pc) \in Live /\ Phase(sub[s]) \in Live) => SOffers' = SOffers
           /\ Phase(pc) \notin Live => SOffers' = [SOffers EXCEPT ![s] = {}]
           /\ Phase(sub[s]) \notin Live => SOffers[s] = {}
<1>1. sub' = [sub EXCEPT ![s] = pc] /\ DOMAIN sub = Subs
  BY DEF Goto, HandlersOK
<1>2. \A r \in Subs : PhaseOf(r) = Phase(sub[r]) /\ PhaseOf(r)' = Phase(sub'[r])
  BY Zenon DEF PhaseOf, Phase
<1>3. \A r \in Subs : Phase(sub'[r]) = IF r = s THEN Phase(pc) ELSE Phase(sub[r])
  BY <1>1
<1>4. /\ SOffers' = [r \in Subs |-> IF Phase(sub'[r]) \in Live
                                    THEN {results[JobOf[r]]} \ {None} ELSE {}]
      /\ SOffers = [r \in Subs |-> IF Phase(sub[r]) \in Live
                                   THEN {results[JobOf[r]]} \ {None} ELSE {}]
  BY <1>2 DEF SOffers, Live
<1> QED BY <1>3, <1>4

\* The queued submissions after an XADD.
LEMMA QueuedAfter ==
    ASSUME MessagesOK, NEW s \in Subs
    PROVE  /\ UNCHANGED stream => SQueued' = SQueued
           /\ Xadd(s) => SQueued' = SQueued \cup {s}
<1>1. UNCHANGED stream => SQueued' = SQueued
  BY DEF SQueued
<1>2. ASSUME Xadd(s) PROVE SQueued' = SQueued \cup {s}
  <2>1. /\ Len(stream') = Len(stream) + 1 /\ stream'[Len(stream) + 1] = s
        /\ \A i \in 1 .. Len(stream) : stream'[i] = stream[i] /\ Len(stream) \in Nat
    BY <1>2, XaddType DEF MessagesOK
  <2>2. 1 .. Len(stream') = (1 .. Len(stream)) \cup {Len(stream) + 1}
    BY <2>1, SubsFinite DEF MessagesOK
  <2> QED BY <2>1, <2>2 DEF SQueued
<1> QED BY <1>1, <1>2

\* Each step of a handler is a step of the service, or none.
LEMMA GatewayRefines ==
    ASSUME MessagesOK, KeysOK, HandlersOK, NEW s \in Subs, GatewayStep(s)
    PROVE  [Service!Next]_(Service!vars)
<1> USE DEF Phase, Live
<1>0. JobOf[s] \in Jobs /\ UNCHANGED stream => SQueued' = SQueued
  BY QueuedAfter DEF Jobs
<1>1. CASE EnqueueDel(s)
  <2>1. SPhase[s] = "idle" /\ SPhase' = [SPhase EXCEPT ![s] = "asking"]
    BY <1>1, PhaseAfter DEF EnqueueDel
  <2>2. SQueued' = SQueued /\ got' = got
    BY <1>1, QueuedAfter DEF EnqueueDel
  <2>3. SOffers' = [r \in Subs |-> IF r \in {q \in Subs : JobOf[q] = JobOf[s]}
                                   THEN {} ELSE SOffers[r]]
    <3>1. /\ results' = [results EXCEPT ![JobOf[s]] = None] /\ DOMAIN results = Jobs
          /\ \A r \in Subs \ {s} : sub'[r] = sub[r]
      BY <1>1, HandlerMoves DEF EnqueueDel, KeysOK, GatewayStep, Enqueue
    <3>2. \A r \in Subs : results'[JobOf[r]] = IF JobOf[r] = JobOf[s] THEN None ELSE results[JobOf[r]]
      BY <3>1 DEF Jobs
    <3>3. \A r \in Subs \ {s} : PhaseOf(r)' = PhaseOf(r)
      BY <3>1 DEF PhaseOf
    <3> QED BY <3>2, <3>3 DEF SOffers
  <2>4. Service!Ask(s)
    BY <2>1, <2>2, <2>3 DEF Service!Ask, Service!Goto, Service!SameJob, SPhase, SQueued, SOffers
  <2> QED BY <2>4 DEF Service!Next
<1>2. CASE EnqueueClaim(s)
  <2>1. SQueued' = SQueued /\ got' = got /\ SPhase[s] = "asking" /\ results' = results
    BY <1>2, QueuedAfter, PhaseAfter DEF EnqueueClaim
  <2>2. CASE Goto(s, "dup")
    <3>1. SPhase' = [SPhase EXCEPT ![s] = "waiting"] /\ SOffers' = SOffers
      BY <1>2, <2>1, <2>2, PhaseAfter, OffersAfter DEF EnqueueClaim
    <3>2. Service!Enter(s)
      BY <2>1, <3>1 DEF Service!Enter, Service!Goto, SPhase, SQueued, SOffers
    <3> QED BY <3>2 DEF Service!Next
  <2>3. CASE Goto(s, "add")
    <3>1. SPhase' = [SPhase EXCEPT ![s] = "asking"] /\ SOffers' = SOffers
      BY <1>2, <2>1, <2>3, PhaseAfter, OffersAfter DEF EnqueueClaim
    <3>2. SPhase' = SPhase
      BY <2>1, <3>1 DEF SPhase
    <3> QED BY <2>1, <3>1, <3>2 DEF Service!vars, SPhase, SQueued, SOffers
  <2> QED BY <1>2, <2>2, <2>3 DEF EnqueueClaim
<1>3. CASE EnqueueAdd(s)
  <2>1. SQueued' = SQueued \cup {s} /\ got' = got
    BY <1>3, QueuedAfter DEF EnqueueAdd
  <2>2. /\ SPhase[s] = "asking" /\ SPhase' = [SPhase EXCEPT ![s] = "waiting"]
        /\ SOffers' = SOffers
    BY <1>3, PhaseAfter, OffersAfter DEF EnqueueAdd
  <2>3. Service!Enter(s)
    BY <2>1, <2>2 DEF Service!Enter, Service!Goto, SPhase, SQueued, SOffers
  <2> QED BY <2>3 DEF Service!Next
<1>4. CASE EnqueueRollback(s)
  <2>1. /\ SPhase[s] = "fallback" /\ SPhase' = [SPhase EXCEPT ![s] = "fallback"]
        /\ SOffers' = [SOffers EXCEPT ![s] = {}] /\ SOffers[s] = {}
    BY <1>4, PhaseAfter, OffersAfter DEF EnqueueRollback
  <2>2. SPhase' = SPhase /\ SOffers' = SOffers
    BY <2>1 DEF SPhase, SOffers
  <2>3. SQueued' = SQueued /\ got' = got
    BY <1>4, QueuedAfter DEF EnqueueRollback
  <2> QED BY <2>2, <2>3 DEF Service!vars, SPhase, SQueued, SOffers
<1>5. CASE SubmitLocal(s)
  <2>1. SQueued' = SQueued /\ got' = [got EXCEPT ![s] = s] /\ results' = results
    BY <1>5, QueuedAfter DEF SubmitLocal, redis
  <2>2. /\ SPhase[s] = "fallback" /\ SPhase' = [SPhase EXCEPT ![s] = "over"]
        /\ SOffers' = [SOffers EXCEPT ![s] = {}] /\ SOffers[s] = {}
    BY <1>5, <2>1, PhaseAfter, OffersAfter DEF SubmitLocal
  <2>3. SOffers' = SOffers
    BY <2>2 DEF SOffers
  <2>4. Service!AnswerOwn(s)
    BY <2>1, <2>2, <2>3 DEF Service!AnswerOwn, Service!Goto, SPhase, SQueued, SOffers
  <2> QED BY <2>4 DEF Service!Next
<1>6. ASSUME NEW pc \in {"timeout", "queued", "conflict", "unavailable", "gone", "abandoned"},
             Goto(s, pc),
             sub[s] \in {"add", "rollback", "wait", "dup", "local"},
             UNCHANGED <<stream, results, got>>
      PROVE  [Service!Next]_(Service!vars)
  <2>1. SQueued' = SQueued /\ got' = got
    BY <1>6, QueuedAfter
  <2>2. /\ SPhase[s] \in {"asking", "fallback", "waiting"}
        /\ SPhase' = [SPhase EXCEPT ![s] = "over"]
        /\ SOffers' = [SOffers EXCEPT ![s] = {}]
    BY <1>6, PhaseAfter, OffersAfter
  <2>3. Service!Leave(s)
    BY <2>1, <2>2 DEF Service!Leave, Service!Goto, SPhase, SQueued, SOffers
  <2> QED BY <2>3 DEF Service!Next
<1>7. CASE AsyncReply(s)
  BY <1>6, <1>7 DEF AsyncReply, redis
<1>8. CASE EnqueueClaimFails(s)
  <2>1. SQueued' = SQueued /\ got' = got /\ results' = results
    BY <1>8, QueuedAfter DEF EnqueueClaimFails
  <2>2. /\ SPhase[s] \in {"idle", "asking"} /\ SPhase' = [SPhase EXCEPT ![s] = "fallback"]
        /\ SOffers' = [SOffers EXCEPT ![s] = {}]
    BY <1>8, <2>1, PhaseAfter, OffersAfter DEF EnqueueClaimFails
  <2>3. Service!Detour(s)
    BY <2>1, <2>2 DEF Service!Detour, Service!Goto, SPhase, SQueued, SOffers
  <2> QED BY <2>3 DEF Service!Next
<1>9. CASE EnqueueAddFails(s)
  <2>1. /\ SPhase[s] = "asking" /\ SPhase' = [SPhase EXCEPT ![s] = "fallback"]
        /\ SOffers' = [SOffers EXCEPT ![s] = {}] /\ got' = got
    BY <1>9, PhaseAfter, OffersAfter DEF EnqueueAddFails
  <2>2. SQueued' = SQueued \/ SQueued' = SQueued \cup {s}
    BY <1>9, QueuedAfter DEF EnqueueAddFails
  <2>3. Service!Detour(s)
    BY <2>1, <2>2 DEF Service!Detour, Service!Goto, SPhase, SQueued, SOffers
  <2> QED BY <2>3 DEF Service!Next
<1>10. CASE Cancel(s)
  BY <1>6, <1>10 DEF Cancel, redis
<1>11. CASE WaitGet(s)
  <2>1. /\ SQueued' = SQueued /\ results' = results /\ results[JobOf[s]] # None
        /\ got' = [got EXCEPT ![s] = results[JobOf[s]]] /\ sub[s] \in {"wait", "dup"}
    BY <1>11, QueuedAfter DEF WaitGet, redis
  <2>2. /\ SPhase[s] = "waiting" /\ SPhase' = [SPhase EXCEPT ![s] = "over"]
        /\ SOffers' = [SOffers EXCEPT ![s] = {}]
    BY <1>11, <2>1, PhaseAfter, OffersAfter DEF WaitGet
  <2>3. results[JobOf[s]] \in SOffers[s]
    BY <2>1 DEF SOffers, PhaseOf
  <2>4. Service!Answer(s)
    BY <2>1, <2>2, <2>3 DEF Service!Answer, Service!Goto, SPhase, SQueued, SOffers
  <2> QED BY <2>4 DEF Service!Next
<1>12. CASE WaitTimeout(s)
  BY <1>6, <1>12 DEF WaitTimeout, redis
<1> QED BY <1>1, <1>2, <1>3, <1>4, <1>5, <1>7, <1>8, <1>9, <1>10, <1>11, <1>12
        DEF GatewayStep, Enqueue, EnqueueFault, Wait

\* A step that no client can see.
LEMMA Unseen ==
    ASSUME UNCHANGED <<stream, results, sub, got>>
    PROVE  [Service!Next]_(Service!vars)
<1>1. SPhase' = SPhase
  BY DEF SPhase, PhaseOf
<1>2. SQueued' = SQueued /\ SOffers' = SOffers
  BY DEF SQueued, SOffers, PhaseOf
<1> QED BY <1>1, <1>2 DEF Service!vars, SPhase, SQueued, SOffers

\* Verdicts that are gone are gone for every submission of the job.
LEMMA Forgotten ==
    ASSUME KeysOK, UNCHANGED <<stream, sub, got>>, NEW J \in SUBSET Jobs,
           results' = [j \in Jobs |-> IF j \in J THEN None ELSE results[j]]
    PROVE  [Service!Next]_(Service!vars)
<1> DEFINE R == {s \in Subs : JobOf[s] \in J}
<1>1. SPhase' = SPhase /\ SQueued' = SQueued /\ \A s \in Subs : PhaseOf(s)' = PhaseOf(s)
  BY DEF SPhase, SQueued, PhaseOf
<1>2. \A s \in Subs : results'[JobOf[s]] = IF s \in R THEN None ELSE results[JobOf[s]]
  BY DEF Jobs
<1>3. SOffers' = [s \in Subs |-> IF s \in R THEN {} ELSE SOffers[s]]
  BY <1>1, <1>2 DEF SOffers
<1>4. R \in SUBSET Subs
  OBVIOUS
<1> HIDE DEF R
<1>5. Service!Forget(R)
  BY <1>1, <1>3 DEF Service!Forget, SPhase, SQueued, SOffers
<1> QED BY <1>4, <1>5 DEF Service!Next

\* SET of the result: a verdict of a queued submission, for all who wait for its job.
LEMMA PublishSetRefines ==
    ASSUME MessagesOK, KeysOK, NEW t \in tasks, t.m \in 1 .. Len(stream), PublishSet(t)
    PROVE  [Service!Next]_(Service!vars)
<1>0. PICK r \in Subs : r = stream[t.m]
  BY DEF MessagesOK
<1>1. r \in SQueued
  BY <1>0 DEF SQueued
<1>2. /\ results' = [results EXCEPT ![JobOf[r]] = r] /\ UNCHANGED <<stream, sub, got>>
      /\ DOMAIN results = Jobs /\ r # None
  BY <1>0, SubsAssumption DEF PublishSet, JobOfMsg, gateway, KeysOK
<1>3. SPhase' = SPhase /\ SQueued' = SQueued /\ \A s \in Subs : PhaseOf(s)' = PhaseOf(s)
  BY <1>2 DEF SPhase, SQueued, PhaseOf
<1>4. \A s \in Subs : results'[JobOf[s]] = IF JobOf[s] = JobOf[r] THEN r ELSE results[JobOf[s]]
  BY <1>2 DEF Jobs
<1>5. SOffers' = [s \in Subs |-> IF /\ s \in {q \in Subs : JobOf[q] = JobOf[r]}
                                    /\ SPhase[s] \in {"asking", "waiting"}
                                 THEN {r} ELSE SOffers[s]]
  <2>1. \A s \in Subs : SPhase[s] = PhaseOf(s)
    BY DEF SPhase
  <2>2. \A s \in Subs : SOffers[s] = IF SPhase[s] \in {"asking", "waiting"}
                                     THEN {results[JobOf[s]]} \ {None} ELSE {}
    BY <2>1 DEF SOffers
  <2>3. SOffers' = [s \in Subs |-> IF SPhase[s] \in {"asking", "waiting"}
                                   THEN {results'[JobOf[s]]} \ {None} ELSE {}]
    BY <1>3, <2>1 DEF SOffers
  <2>4. \A s \in Subs : {results'[JobOf[s]]} \ {None}
                           = IF JobOf[s] = JobOf[r] THEN {r} ELSE {results[JobOf[s]]} \ {None}
    BY <1>2, <1>4
  <2> QED BY <2>2, <2>3, <2>4
<1>6. Service!Judge(r)
  BY <1>1, <1>2, <1>3, <1>5 DEF Service!Judge, Service!SameJob, SPhase, SQueued, SOffers
<1> QED BY <1>6 DEF Service!Next

\* Every step of the cluster is a step of the service or a stutter.
LEMMA ServiceStep == QueueInv /\ [Next]_vars => [Service!Next]_(Service!vars)
<1> SUFFICES ASSUME QueueInv, [Next]_vars PROVE [Service!Next]_(Service!vars)
  OBVIOUS
<1>0. MessagesOK /\ KeysOK /\ HandlersOK
  BY TypeParts DEF QueueInv
<1>1. CASE UNCHANGED vars
  BY <1>1, Unseen DEF vars, moving, redis, gateway
<1>2. ASSUME NEW s \in Subs, GatewayStep(s) PROVE [Service!Next]_(Service!vars)
  BY <1>0, <1>2, GatewayRefines
<1>3. CASE ExpireStep
  <2>1. UNCHANGED <<stream, sub, got>> /\ DOMAIN results = Jobs
    BY <1>0, <1>3, ExpireEffect DEF KeysOK
  <2>2. ASSUME NEW j \in Jobs, ExpireResult(j) PROVE [Service!Next]_(Service!vars)
    <3>1. results' = [i \in Jobs |-> IF i \in {j} THEN None ELSE results[i]]
      BY <1>0, <2>2 DEF ExpireResult, KeysOK
    <3>2. {j} \in SUBSET Jobs
      OBVIOUS
    <3> QED BY <1>0, <2>1, <3>1, <3>2, Forgotten
  <2>3. ASSUME NEW j \in Jobs, ExpirePending(j) PROVE [Service!Next]_(Service!vars)
    BY <2>3, Unseen DEF ExpirePending, gateway
  <2> QED BY <1>3, <2>2, <2>3 DEF ExpireStep
<1>4. ASSUME NEW m \in MsgIds, GrowIdle(m) PROVE [Service!Next]_(Service!vars)
  BY <1>4, Unseen DEF GrowIdle, gateway
<1>5. CASE RedisWipe
  <2>1. /\ UNCHANGED <<stream, sub, got>>
        /\ results' = [j \in Jobs |-> IF j \in Jobs THEN None ELSE results[j]]
    BY <1>5 DEF RedisWipe, gateway
  <2> QED BY <1>0, <2>1, Forgotten
<1>6. ASSUME NEW w \in Workers, NodeStep(w) PROVE [Service!Next]_(Service!vars)
  <2>1. UNCHANGED <<stream, sub, got>>
    BY <1>6, NodeEffect
  <2>2. UNCHANGED results
    BY <1>6 DEF NodeStep, ReadLoop, Sweep, StartNode, Reconnect, ReadNew, Dispatch, SweepClaim,
                SweepNoGroup, SweepDiscard, SweepGet, SweepRerun, AckDel, AckAck, AckBell,
                AckDrop, Crash, redis
  <2> QED BY <2>1, <2>2, Unseen
<1>7. ASSUME NEW t \in tasks, TaskStep(t) PROVE [Service!Next]_(Service!vars)
  <2>1. t.m \in 1 .. Len(stream)
    BY DEF QueueInv, Held, Passed
  <2>2. UNCHANGED <<stream, sub, got>>
    BY <1>7, TaskEffect
  <2>3. CASE PublishSet(t)
    BY <1>0, <2>1, <2>3, PublishSetRefines
  <2>4. ~PublishSet(t) => UNCHANGED results
    BY <1>7 DEF TaskStep, Publish, RunJob, PublishDel, PublishAck, PublishBell, PublishDrop, redis
  <2> QED BY <2>2, <2>3, <2>4, Unseen
<1> QED BY <1>1, <1>2, <1>3, <1>4, <1>5, <1>6, <1>7, StepCases

\* The cluster implements JobService, for every instance: whatever crashes, drops,
\* re-runs and races happen between result_bus.rs and redis.rs, a client is answered
\* at most once, with a verdict of its own job, of a submission that was queued,
\* reported after the client asked; and a gateway runs a job itself only when
\* queueing it failed.
THEOREM QueueImplementsService == Spec => ImplementsJobService
<1>1. Spec => Service!Init /\ [][Service!Next]_(Service!vars)
  BY ServiceInit, ServiceStep, QueueInvariant, PTL DEF Spec
<1> QED BY <1>1 DEF ImplementsJobService, Service!Spec
=============================================================================
