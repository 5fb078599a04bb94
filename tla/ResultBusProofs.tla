--------------------------- MODULE ResultBusProofs ---------------------------
(***************************************************************************)
(* Proofs about ResultBus, for any number of jobs, posts, waiters and      *)
(* readers and for any mix of faults.                                      *)
(*                                                                         *)
(* Four invariants carry them.  Routing: a receiver that exists belongs to *)
(* the channel its job's registry entry names, no channel serves two jobs, *)
(* and a channel in the listener's hand is still the registered one.       *)
(* SetFirst: everything that announces a result (the wire, the listener's  *)
(* hand, an unread bell) comes from a post whose SET was sent, and as long *)
(* as nobody else posted the id that SET is what Redis holds.  Marked: the *)
(* pending marker belongs to at most one post, and is there as long as the *)
(* post is in flight.  Awake: a sleeper with a stored result has a bell    *)
(* coming.                                                                 *)
(***************************************************************************)
EXTENDS ResultBus, TLAPS

\* Channels and registry.
Routing ==
    /\ \A w \in Waiters : rx[w] # 0 <=> wait[w] \in Waiting \cup Leaving
    /\ \A w \in Waiters : rx[w] # 0 => registry[JobOf[w]] = rx[w]
    /\ \A j, k \in Jobs : (registry[j] = registry[k] /\ registry[j] # 0) => j = k
    /\ ringing # NoRing => /\ ringing[2] # 0
                           /\ registry[ringing[1]] = ringing[2]

\* The post's SET was sent.
Sent(p) == pub[p] \in {"set", "del", "bell", "published"}

\* What is announced was sent, and is stored if the id was posted once.
SetFirst ==
    /\ \A p \in Posts : wait[p] \in {"idle", "claim", "add"} => pub[p] = "none"
    /\ \A j \in wire : \E p \in Posts : JobOf[p] = j /\ Sent(p)
    /\ ringing # NoRing => \E p \in Posts : JobOf[p] = ringing[1] /\ Sent(p)
    /\ \A w \in Waiters : bell[w] => \E p \in Posts : JobOf[p] = JobOf[w] /\ Sent(p)
    /\ "expire" \notin struck =>
          \A p \in Posts : (Sent(p) /\ PostedOnce(JobOf[p])) => result[JobOf[p]]

\* A post in flight has the marker, and no other post of its id is in flight.
Marked ==
    struck \cap {"publish", "expire"} = {} =>
        \A p \in Posts : InFlight(p) =>
            /\ pending[JobOf[p]]
            /\ \A q \in Posts : (InFlight(q) /\ JobOf[q] = JobOf[p]) => q = p

\* While no listener fault struck, the subscription holds.
Awake == ("listener" \notin struck => conn) /\ NoLostWakeup

BusInv == TypeOK /\ Routing /\ SetFirst /\ Marked /\ Awake

\* Everybody asks for one of the jobs.
LEMMA Callers ==
    /\ Posts \subseteq Waiters
    /\ \A w \in Waiters : JobOf[w] \in Jobs
    /\ \A p \in Posts : JobOf[p] \in Jobs
    /\ \A r \in Readers : JobOf[r] \in Jobs
BY BusAssumption DEF Waiters

(***************************************************************************)
(* Initially.                                                              *)
(***************************************************************************)
\* Nobody waits, nothing is stored and the subscription is up.
LEMMA InitBusInv == Init => BusInv
<1> SUFFICES ASSUME Init PROVE BusInv
  OBVIOUS
<1> USE BusAssumption, Callers DEF Init
<1>1. TypeOK
  BY DEF TypeOK
<1>2. Routing
  BY DEF Routing, Waiting, Leaving
<1>3. SetFirst
  BY DEF SetFirst, Sent
<1>4. Marked /\ Awake
  BY DEF Marked, InFlight, Awake, NoLostWakeup
<1> QED BY <1>1, <1>2, <1>3, <1>4 DEF BusInv

(***************************************************************************)
(* Types.                                                                  *)
(***************************************************************************)
\* A counted fault keeps the two fault variables in their bounds.
LEMMA FaultTypeOK ==
    ASSUME TypeOK, NEW kind, Fault(kind) \/ NoFault
    PROVE  faults' \in 0 .. MaxFaults /\ struck' \subseteq Faults
<1>1. CASE Fault(kind)
  BY <1>1, BusAssumption DEF TypeOK, Fault
<1>2. CASE NoFault
  BY <1>2 DEF TypeOK, NoFault
<1> QED BY <1>1, <1>2

\* Every step keeps the types; only Register makes the channel numbers grow.
LEMMA NextTypeOK == TypeOK /\ [Next]_vars => TypeOK'
<1> SUFFICES ASSUME TypeOK, [Next]_vars PROVE TypeOK'
  OBVIOUS
<1> USE BusAssumption, Callers DEF TypeOK, redisVars, busVars, waitVars, Enqueueing, Waiting, Leaving
<1>1. ASSUME NEW p \in Posts, Enqueue(p) PROVE TypeOK'
  <2>1. CASE EnqueueDel(p)
    BY <2>1 DEF EnqueueDel, NoFault
  <2>2. CASE EnqueueClaim(p)
    BY <2>2 DEF EnqueueClaim, NoFault
  <2>3. CASE EnqueueAdd(p)
    BY <2>3 DEF EnqueueAdd, NoFault
  <2>4. CASE AsyncReply(p)
    BY <2>4 DEF AsyncReply, NoFault
  <2> QED BY <1>1, <2>1, <2>2, <2>3, <2>4 DEF Enqueue
<1>2. ASSUME NEW p \in Posts, PublishSet(p) PROVE TypeOK'
  BY <1>2 DEF PublishSet, NoFault
<1>3. ASSUME NEW p \in Posts, PublishDel(p) PROVE TypeOK'
  BY <1>3 DEF PublishDel, NoFault
<1>4. ASSUME NEW p \in Posts, PublishBell(p) PROVE TypeOK'
  BY <1>4 DEF PublishBell, NoFault
<1>5. ASSUME NEW p \in Posts, PublishRetry(p) PROVE TypeOK'
  BY <1>5 DEF PublishRetry, Fault
<1>6. ASSUME NEW j \in Jobs, Expire(j) PROVE TypeOK'
  <2>1. faults' \in 0 .. MaxFaults /\ struck' \subseteq Faults
    BY <1>6, FaultTypeOK DEF Expire
  <2>2. /\ \/ result' = [result EXCEPT ![j] = FALSE] /\ pending' = pending
           \/ pending' = [pending EXCEPT ![j] = FALSE] /\ result' = result
        /\ UNCHANGED <<pub, busVars, waitVars, look>>
    BY <1>6 DEF Expire
  <2> QED BY <2>1, <2>2
<1>7. ASSUME NEW j \in Jobs, ListenerRoute(j) PROVE TypeOK'
  BY <1>7 DEF ListenerRoute, NoFault
<1>8. ASSUME ListenerSend PROVE TypeOK'
  <2>1. bell' \in [Waiters -> BOOLEAN]
    BY <1>8, Zenon DEF ListenerSend
  <2> QED BY <1>8, <2>1 DEF ListenerSend, NoFault
<1>9. ASSUME ListenerDown PROVE TypeOK'
  <2>1. faults' \in 0 .. MaxFaults /\ struck' \subseteq Faults
    BY <1>9, FaultTypeOK DEF ListenerDown
  <2>2. /\ conn' = FALSE /\ wire' = {}
        /\ UNCHANGED <<redisVars, ringing, registry, channels, waitVars, look>>
    BY <1>9 DEF ListenerDown
  <2> QED BY <2>1, <2>2
<1>10. ASSUME ListenerUp PROVE TypeOK'
  BY <1>10 DEF ListenerUp, NoFault
<1>11. ASSUME NEW w \in Waiters, Register(w) PROVE TypeOK'
  BY <1>11 DEF Register, NoFault
<1>12. ASSUME NEW w \in Waiters, WaitGet(w) PROVE TypeOK'
  <2>1. /\ \/ wait' = [wait EXCEPT ![w] = "dropping"] /\ outcome' = [outcome EXCEPT ![w] = "result"]
           \/ wait' = [wait EXCEPT ![w] = "select"] /\ outcome' = outcome
        /\ UNCHANGED <<redisVars, busVars, rx, bell, look>>
    BY <1>12 DEF WaitGet, Return
  <2>2. faults' \in 0 .. MaxFaults /\ struck' \subseteq Faults
    BY <1>12, FaultTypeOK DEF WaitGet
  <2> QED BY <2>1, <2>2
<1>13. ASSUME NEW w \in Waiters, WakeByBell(w) \/ WakeByPoll(w) PROVE TypeOK'
  BY <1>13 DEF WakeByBell, WakeByPoll, NoFault
<1>14. ASSUME NEW w \in Waiters, Deadline(w) PROVE TypeOK'
  BY <1>14 DEF Deadline, Return, NoFault
<1>15. ASSUME NEW w \in Waiters, CancelWait(w) PROVE TypeOK'
  BY <1>15 DEF CancelWait, Fault
<1>16. ASSUME NEW w \in Waiters, DropGuard(w) PROVE TypeOK'
  BY <1>16 DEF DropGuard, NoFault
<1>17. ASSUME NEW w \in Waiters, DropReceiver(w) PROVE TypeOK'
  BY <1>17 DEF DropReceiver, NoFault
<1>18. ASSUME NEW r \in Readers, LookGet(r) PROVE TypeOK'
  <2>1. /\ look' \in {[look EXCEPT ![r] = v] : v \in {"200", "exists"}}
        /\ UNCHANGED <<redisVars, busVars, waitVars>>
    BY <1>18 DEF LookGet
  <2>2. faults' \in 0 .. MaxFaults /\ struck' \subseteq Faults
    BY <1>18, FaultTypeOK DEF LookGet
  <2> QED BY <2>1, <2>2
<1>19. ASSUME NEW r \in Readers, LookExists(r) PROVE TypeOK'
  <2>1. /\ look' \in {[look EXCEPT ![r] = v] : v \in {"202", "404"}}
        /\ UNCHANGED <<redisVars, busVars, waitVars>>
    BY <1>19 DEF LookExists
  <2>2. faults' \in 0 .. MaxFaults /\ struck' \subseteq Faults
    BY <1>19, FaultTypeOK DEF LookExists
  <2> QED BY <2>1, <2>2
<1>20. ASSUME UNCHANGED vars PROVE TypeOK'
  BY <1>20 DEF vars
<1> QED
  BY <1>1, <1>2, <1>3, <1>4, <1>5, <1>6, <1>7, <1>8, <1>9, <1>10, <1>11, <1>12,
     <1>13, <1>14, <1>15, <1>16, <1>17, <1>18, <1>19, <1>20
     DEF Next, Worker, Listener, Leave, Lookup

(***************************************************************************)
(* Frames: what the steps of each party leave alone.                       *)
(***************************************************************************)
\* A fault is only ever added to those that struck.
LEMMA StruckGrows ==
    ASSUME NEW kind, Fault(kind) \/ NoFault
    PROVE  struck \subseteq struck'
BY DEF Fault, NoFault

\* A step of enqueue moves its post towards "accepted" and touches no channel.
LEMMA EnqueueSteps ==
    ASSUME TypeOK, NEW p \in Posts, Enqueue(p)
    PROVE  /\ UNCHANGED <<busVars, rx, bell, outcome, look, faults, struck>>
           /\ wait[p] \in {"idle"} \cup Enqueueing
           /\ \E to \in {"claim", "add", "accepted", "done"} : wait' = [wait EXCEPT ![p] = to]
<1> USE DEF NoFault, Enqueueing
<1>1. CASE EnqueueDel(p)
  BY <1>1 DEF EnqueueDel
<1>2. CASE EnqueueClaim(p)
  BY <1>2 DEF EnqueueClaim
<1>3. CASE EnqueueAdd(p)
  BY <1>3 DEF EnqueueAdd
<1>4. CASE AsyncReply(p)
  BY <1>4 DEF AsyncReply
<1> QED BY <1>1, <1>2, <1>3, <1>4 DEF Enqueue

\* A waiter between its registration and its return leaves Redis, the listener
\* and the registry alone; so does a post cancelled before it registered.
LEMMA WaitingSteps ==
    ASSUME TypeOK, NEW w \in Waiters,
           \/ WaitGet(w) \/ WakeByBell(w) \/ WakeByPoll(w) \/ Deadline(w) \/ CancelWait(w)
    PROVE  /\ UNCHANGED <<redisVars, busVars, rx, look>>
           /\ \/ /\ wait[w] \in Waiting
                 /\ \E to \in {"select", "get", "dropping"} : wait' = [wait EXCEPT ![w] = to]
              \/ /\ wait[w] \in {"add", "accepted"}
                 /\ wait' = [wait EXCEPT ![w] = "done"]
           /\ bell' = bell \/ bell' = [bell EXCEPT ![w] = FALSE]
           /\ struck \subseteq struck'
<1> USE DEF Waiting
<1>1. CASE WaitGet(w)
  BY <1>1, StruckGrows DEF WaitGet, Return
<1>2. CASE WakeByBell(w)
  BY <1>2, StruckGrows DEF WakeByBell
<1>3. CASE WakeByPoll(w)
  BY <1>3, StruckGrows DEF WakeByPoll
<1>4. CASE Deadline(w)
  BY <1>4, StruckGrows DEF Deadline, Return
<1>5. CASE CancelWait(w)
  BY <1>5, StruckGrows DEF CancelWait
<1> QED BY <1>1, <1>2, <1>3, <1>4, <1>5

\* A lookup changes nothing but its own answer.
LEMMA LookupSteps ==
    ASSUME NEW r \in Readers, Lookup(r)
    PROVE  UNCHANGED <<redisVars, busVars, waitVars>> /\ struck \subseteq struck'
BY StruckGrows DEF Lookup, LookGet, LookExists

(***************************************************************************)
(* Routing.                                                                *)
(***************************************************************************)
\* The guard of wait_for never removes an entry: it is dropped before the receiver
\* it was declared after, so its own caller still counts as a receiver.
LEMMA GuardSeesItsReceiver ==
    ASSUME TypeOK, Routing, NEW w \in Waiters, DropGuard(w)
    PROVE  registry' = registry
<1>1. wait[w] = "dropping" /\ w \in Receivers(registry[JobOf[w]])
  BY DEF DropGuard, Routing, Receivers, TypeOK, Leaving
<1> QED BY <1>1 DEF DropGuard

\* Every step keeps the routing.
LEMMA NextRouting == TypeOK /\ Routing /\ [Next]_vars => Routing'
<1> SUFFICES ASSUME TypeOK, Routing, [Next]_vars PROVE Routing'
  OBVIOUS
<1> USE BusAssumption, Callers DEF TypeOK, Routing, Waiting, Leaving, redisVars, busVars, waitVars
<1>1. ASSUME UNCHANGED <<wait, rx, registry, ringing>> PROVE Routing'
  BY <1>1
<1>2. ASSUME NEW p \in Posts, Enqueue(p) PROVE Routing'
  BY <1>2, EnqueueSteps DEF Enqueueing
<1>3. ASSUME NEW p \in Posts, Worker(p) \/ PublishRetry(p) PROVE Routing'
  BY <1>1, <1>3 DEF Worker, PublishSet, PublishDel, PublishBell, PublishRetry
<1>4. ASSUME NEW j \in Jobs, Expire(j) PROVE Routing'
  BY <1>1, <1>4 DEF Expire
<1>5. ASSUME NEW j \in Jobs, ListenerRoute(j) PROVE Routing'
  BY <1>5 DEF ListenerRoute
<1>6. ASSUME ListenerSend PROVE Routing'
  BY <1>6 DEF ListenerSend
<1>7. ASSUME ListenerDown \/ ListenerUp PROVE Routing'
  BY <1>1, <1>7 DEF ListenerDown, ListenerUp
<1>8. ASSUME NEW w \in Waiters, Register(w) PROVE Routing'
  BY <1>8 DEF Register, MayWait
<1>9. ASSUME NEW w \in Waiters,
             \/ WaitGet(w) \/ WakeByBell(w) \/ WakeByPoll(w) \/ Deadline(w) \/ CancelWait(w)
      PROVE  Routing'
  BY <1>9, WaitingSteps
<1>10. ASSUME NEW w \in Waiters, DropGuard(w) PROVE Routing'
  <2>1. registry' = registry
    BY <1>10, GuardSeesItsReceiver
  <2> QED BY <1>10, <2>1 DEF DropGuard
<1>11. ASSUME NEW w \in Waiters, DropReceiver(w) PROVE Routing'
  BY <1>11 DEF DropReceiver
<1>12. ASSUME NEW r \in Readers, Lookup(r) PROVE Routing'
  BY <1>1, <1>12, LookupSteps
<1>13. ASSUME UNCHANGED vars PROVE Routing'
  BY <1>1, <1>13 DEF vars
<1> QED
  BY <1>2, <1>3, <1>4, <1>5, <1>6, <1>7, <1>8, <1>9, <1>10, <1>11, <1>12, <1>13
     DEF Next, Listener, Leave

(***************************************************************************)
(* SetFirst.                                                               *)
(***************************************************************************)
\* A second post of an id is never forgotten: who left "idle" does not return.
LEMMA PostsStay ==
    ASSUME NEW j, PostedOnce(j)', \A p \in Posts : wait[p] # "idle" => wait'[p] # "idle"
    PROVE  PostedOnce(j)
BY DEF PostedOnce

\* Every step keeps what is announced sent, and stored for an id posted once.
LEMMA NextSetFirst == TypeOK /\ Routing /\ SetFirst /\ [Next]_vars => SetFirst'
<1> SUFFICES ASSUME TypeOK, Routing, SetFirst, [Next]_vars PROVE SetFirst'
  OBVIOUS
<1> USE BusAssumption, Callers DEF TypeOK, SetFirst, Sent, redisVars, busVars, waitVars
<1>1. ASSUME UNCHANGED <<result, pub, wire, ringing>>, struck \subseteq struck',
             \A w \in Waiters : bell'[w] => bell[w],
             \A p \in Posts : /\ wait[p] # "idle" => wait'[p] # "idle"
                              /\ wait'[p] \in {"idle", "claim", "add"} =>
                                     wait[p] \in {"idle", "claim", "add"}
      PROVE  SetFirst'
  <2>1. \A p \in Posts : PostedOnce(JobOf[p])' => PostedOnce(JobOf[p])
    BY <1>1, PostsStay
  <2> QED BY <1>1, <2>1
<1>2. ASSUME NEW p \in Posts, EnqueueDel(p) PROVE SetFirst'
  <2> USE <1>2 DEF EnqueueDel, NoFault
  <2>1. \A j \in Jobs : PostedOnce(j)' => PostedOnce(j)
    BY PostsStay
  <2>2. ASSUME NEW q \in Posts, Sent(q), PostedOnce(JobOf[q])' PROVE JobOf[q] # JobOf[p]
    BY <2>2 DEF PostedOnce
  <2> QED BY <2>1, <2>2
<1>3. ASSUME NEW p \in Posts, EnqueueClaim(p) PROVE SetFirst'
  BY <1>1, <1>3 DEF EnqueueClaim, NoFault
<1>4. ASSUME NEW p \in Posts, EnqueueAdd(p) PROVE SetFirst'
  <2> USE <1>4 DEF EnqueueAdd, NoFault
  <2>1. \A j \in Jobs : PostedOnce(j)' => PostedOnce(j)
    BY PostsStay
  <2> QED BY <2>1
<1>5. ASSUME NEW p \in Posts, AsyncReply(p) PROVE SetFirst'
  BY <1>1, <1>5 DEF AsyncReply, NoFault
<1>6. ASSUME NEW p \in Posts, Worker(p) \/ PublishRetry(p) PROVE SetFirst'
  <2>0. wait' = wait /\ struck \subseteq struck' /\ \A j \in Jobs : PostedOnce(j)' = PostedOnce(j)
    BY <1>6, StruckGrows DEF Worker, PublishSet, PublishDel, PublishBell, PublishRetry, PostedOnce
  <2>1. CASE PublishSet(p)
    BY <2>0, <2>1 DEF PublishSet
  <2>2. CASE PublishDel(p)
    BY <2>0, <2>2 DEF PublishDel
  <2>3. CASE PublishBell(p)
    BY <2>0, <2>3 DEF PublishBell
  <2>4. CASE PublishRetry(p)
    BY <2>0, <2>4 DEF PublishRetry
  <2> QED BY <1>6, <2>1, <2>2, <2>3, <2>4 DEF Worker
<1>7. ASSUME NEW j \in Jobs, Expire(j) PROVE SetFirst'
  BY <1>7 DEF Expire, Fault
<1>8. ASSUME NEW j \in Jobs, ListenerRoute(j) PROVE SetFirst'
  BY <1>8 DEF ListenerRoute, NoFault, PostedOnce
<1>9. ASSUME ListenerSend PROVE SetFirst'
  <2>1. ASSUME NEW w \in Waiters, rx[w] = ringing[2]
        PROVE  \E p \in Posts : JobOf[p] = JobOf[w] /\ Sent(p)
    BY <1>9, <2>1 DEF ListenerSend, Routing
  <2> QED BY <1>9, <2>1 DEF ListenerSend, NoFault, PostedOnce
<1>10. ASSUME ListenerDown \/ ListenerUp PROVE SetFirst'
  BY <1>10, StruckGrows DEF ListenerDown, ListenerUp, PostedOnce
<1>11. ASSUME NEW w \in Waiters, Register(w) PROVE SetFirst'
  BY <1>1, <1>11 DEF Register, NoFault
<1>12. ASSUME NEW w \in Waiters,
              \/ WaitGet(w) \/ WakeByBell(w) \/ WakeByPoll(w) \/ Deadline(w) \/ CancelWait(w)
       PROVE  SetFirst'
  BY <1>1, <1>12, WaitingSteps DEF Waiting
<1>13. ASSUME NEW w \in Waiters, Leave(w) PROVE SetFirst'
  BY <1>1, <1>13 DEF Leave, DropGuard, DropReceiver, NoFault
<1>14. ASSUME NEW r \in Readers, Lookup(r) PROVE SetFirst'
  BY <1>1, <1>14, LookupSteps
<1>15. ASSUME UNCHANGED vars PROVE SetFirst'
  BY <1>1, <1>15 DEF vars
<1> QED
  BY <1>2, <1>3, <1>4, <1>5, <1>6, <1>7, <1>8, <1>9, <1>10, <1>11, <1>12, <1>13, <1>14, <1>15
     DEF Next, Enqueue, Listener

(***************************************************************************)
(* Marked.                                                                 *)
(***************************************************************************)
\* Every step keeps the marker with the one post in flight.
LEMMA NextMarked == TypeOK /\ SetFirst /\ Marked /\ [Next]_vars => Marked'
<1> SUFFICES ASSUME TypeOK, SetFirst, Marked, [Next]_vars PROVE Marked'
  OBVIOUS
<1> USE BusAssumption, Callers DEF TypeOK, Marked, InFlight, redisVars, busVars, waitVars
<1>1. ASSUME UNCHANGED <<pending, pub>>, struck \subseteq struck',
             \A p \in Posts : wait'[p] = "add" => wait[p] = "add"
      PROVE  Marked'
  BY <1>1
<1>2. ASSUME NEW p \in Posts, EnqueueDel(p) PROVE Marked'
  BY <1>1, <1>2 DEF EnqueueDel, NoFault
<1>3. ASSUME NEW p \in Posts, EnqueueClaim(p) PROVE Marked'
  BY <1>3 DEF EnqueueClaim, NoFault
<1>4. ASSUME NEW p \in Posts, EnqueueAdd(p) PROVE Marked'
  BY <1>4 DEF EnqueueAdd, NoFault
<1>5. ASSUME NEW p \in Posts, AsyncReply(p) PROVE Marked'
  BY <1>1, <1>5 DEF AsyncReply, NoFault
<1>6. ASSUME NEW p \in Posts, PublishSet(p) PROVE Marked'
  BY <1>6 DEF PublishSet, NoFault
<1>7. ASSUME NEW p \in Posts, PublishDel(p) PROVE Marked'
  BY <1>7 DEF PublishDel, NoFault, SetFirst
<1>8. ASSUME NEW p \in Posts, PublishBell(p) PROVE Marked'
  BY <1>8 DEF PublishBell, NoFault
<1>9. ASSUME NEW p \in Posts, PublishRetry(p) PROVE Marked'
  BY <1>9 DEF PublishRetry, Fault
<1>10. ASSUME NEW j \in Jobs, Expire(j) PROVE Marked'
  BY <1>10 DEF Expire, Fault
<1>11. ASSUME Listener \/ ListenerDown PROVE Marked'
  BY <1>1, <1>11, StruckGrows DEF Listener, ListenerRoute, ListenerSend, ListenerUp, ListenerDown
<1>12. ASSUME NEW w \in Waiters, Register(w) PROVE Marked'
  BY <1>1, <1>12 DEF Register, NoFault
<1>13. ASSUME NEW w \in Waiters,
              \/ WaitGet(w) \/ WakeByBell(w) \/ WakeByPoll(w) \/ Deadline(w) \/ CancelWait(w)
       PROVE  Marked'
  BY <1>1, <1>13, WaitingSteps
<1>14. ASSUME NEW w \in Waiters, Leave(w) PROVE Marked'
  BY <1>1, <1>14 DEF Leave, DropGuard, DropReceiver, NoFault
<1>15. ASSUME NEW r \in Readers, Lookup(r) PROVE Marked'
  BY <1>1, <1>15, LookupSteps
<1>16. ASSUME UNCHANGED vars PROVE Marked'
  BY <1>1, <1>16 DEF vars
<1> QED
  BY <1>2, <1>3, <1>4, <1>5, <1>6, <1>7, <1>8, <1>9, <1>10, <1>11, <1>12, <1>13, <1>14, <1>15,
     <1>16 DEF Next, Enqueue, Worker

(***************************************************************************)
(* Awake.                                                                  *)
(***************************************************************************)
\* Every step keeps a bell coming for the waiters that sleep although their result
\* is stored.
LEMMA NextAwake == TypeOK /\ Routing /\ SetFirst /\ Awake /\ [Next]_vars => Awake'
<1> SUFFICES ASSUME TypeOK, Routing, SetFirst, Awake, [Next]_vars PROVE Awake'
  OBVIOUS
<1> USE BusAssumption, Callers DEF TypeOK, Awake, NoLostWakeup, redisVars, busVars, waitVars
<1>1. ASSUME UNCHANGED <<pub, wire, conn, ringing, rx, bell>>, struck \subseteq struck',
             \A w \in Waiters : wait'[w] = "select" => wait[w] = "select",
             \A j \in Jobs : result'[j] => result[j]
      PROVE  Awake'
  BY <1>1
<1>2. ASSUME NEW p \in Posts, EnqueueDel(p) PROVE Awake'
  BY <1>1, <1>2 DEF EnqueueDel, NoFault
<1>3. ASSUME NEW p \in Posts, EnqueueClaim(p) PROVE Awake'
  BY <1>1, <1>3 DEF EnqueueClaim, NoFault
<1>4. ASSUME NEW p \in Posts, EnqueueAdd(p) PROVE Awake'
  BY <1>4 DEF EnqueueAdd, NoFault, SetFirst
<1>5. ASSUME NEW p \in Posts, AsyncReply(p) PROVE Awake'
  BY <1>1, <1>5 DEF AsyncReply, NoFault
<1>6. ASSUME NEW p \in Posts, PublishSet(p) PROVE Awake'
  BY <1>6 DEF PublishSet, NoFault
<1>7. ASSUME NEW p \in Posts, PublishDel(p) PROVE Awake'
  BY <1>7 DEF PublishDel, NoFault
<1>8. ASSUME NEW p \in Posts, PublishBell(p) PROVE Awake'
  BY <1>8 DEF PublishBell, NoFault
<1>9. ASSUME NEW p \in Posts, PublishRetry(p) PROVE Awake'
  BY <1>9 DEF PublishRetry, Fault
<1>10. ASSUME NEW j \in Jobs, Expire(j) PROVE Awake'
  BY <1>1, <1>10, StruckGrows DEF Expire
<1>11. ASSUME NEW j \in Jobs, ListenerRoute(j) PROVE Awake'
  BY <1>11 DEF ListenerRoute, Routing, Waiting, NoFault
<1>12. ASSUME ListenerSend PROVE Awake'
  BY <1>12 DEF ListenerSend, NoFault
<1>13. ASSUME ListenerDown PROVE Awake'
  BY <1>13 DEF ListenerDown, Fault
<1>14. ASSUME ListenerUp PROVE Awake'
  BY <1>14 DEF ListenerUp, NoFault
<1>15. ASSUME NEW w \in Waiters, Register(w) PROVE Awake'
  BY <1>15 DEF Register, MayWait, NoFault
<1>16. ASSUME NEW w \in Waiters, WaitGet(w) PROVE Awake'
  <2>1. CASE /\ IF result[JobOf[w]]
                THEN Return(w, "result")
                ELSE wait' = [wait EXCEPT ![w] = "select"] /\ UNCHANGED outcome
             /\ NoFault
    BY <1>16, <2>1 DEF WaitGet, Return, NoFault
  <2>2. CASE wait' = [wait EXCEPT ![w] = "select"] /\ UNCHANGED outcome /\ Fault("get")
    BY <1>16, <2>2 DEF WaitGet, Fault
  <2> QED BY <1>16, <2>1, <2>2 DEF WaitGet
<1>17. ASSUME NEW w \in Waiters, WakeByBell(w) PROVE Awake'
  BY <1>17 DEF WakeByBell, NoFault
<1>18. ASSUME NEW w \in Waiters, WakeByPoll(w) PROVE Awake'
  BY <1>1, <1>18 DEF WakeByPoll, NoFault
<1>19. ASSUME NEW w \in Waiters, Deadline(w) PROVE Awake'
  BY <1>1, <1>19 DEF Deadline, Return, NoFault
<1>20. ASSUME NEW w \in Waiters, CancelWait(w) PROVE Awake'
  BY <1>1, <1>20, StruckGrows DEF CancelWait
<1>21. ASSUME NEW w \in Waiters, DropGuard(w) PROVE Awake'
  BY <1>1, <1>21 DEF DropGuard, NoFault
<1>22. ASSUME NEW w \in Waiters, DropReceiver(w) PROVE Awake'
  BY <1>22 DEF DropReceiver, NoFault
<1>23. ASSUME NEW r \in Readers, Lookup(r) PROVE Awake'
  BY <1>1, <1>23, LookupSteps
<1>24. ASSUME UNCHANGED vars PROVE Awake'
  BY <1>1, <1>24 DEF vars
<1> QED
  BY <1>2, <1>3, <1>4, <1>5, <1>6, <1>7, <1>8, <1>9, <1>10, <1>11, <1>12, <1>13, <1>14, <1>15,
     <1>16, <1>17, <1>18, <1>19, <1>20, <1>21, <1>22, <1>23, <1>24
     DEF Next, Enqueue, Worker, Listener, Leave

\* The invariant holds in every reachable state.
LEMMA BusInvHolds == Spec => []BusInv
<1>1. BusInv /\ [Next]_vars => BusInv'
  BY NextTypeOK, NextRouting, NextSetFirst, NextMarked, NextAwake DEF BusInv
<1> QED BY <1>1, InitBusInv, PTL DEF Spec

(***************************************************************************)
(* The properties.                                                         *)
(***************************************************************************)
\* Every variable keeps its type, with any number of channels.
THEOREM BusTypeCorrect == Spec => []TypeOK
<1>1. BusInv => TypeOK
  BY DEF BusInv
<1> QED BY <1>1, BusInvHolds, PTL

\* Nobody waits on a dead channel, whoever else registers, leaves or is cancelled.
THEOREM BusRoutesWaiters == Spec => []WaiterIsRouted
<1>1. BusInv => WaiterIsRouted
  BY DEF BusInv, Routing, WaiterIsRouted
<1> QED BY <1>1, BusInvHolds, PTL

\* A waiter that sleeps while its result is stored has a bell coming, as long as
\* the subscription held and no GET failed, however often the id is resubmitted.
THEOREM BusLosesNoWakeup == Spec => []NoLostWakeup
<1>1. BusInv => NoLostWakeup
  BY DEF BusInv, Awake
<1> QED BY <1>1, BusInvHolds, PTL

\* A waiter woken by the bell reads a stored result (queue/redis.rs 288), if the
\* id was posted once and no key expired.
THEOREM BusBellMeansResult == Spec => []BellMeansResult
<1>1. BusInv => BellMeansResult
  <2> SUFFICES ASSUME BusInv, "expire" \notin struck, NEW w \in Waiters, bell[w],
                      PostedOnce(JobOf[w])
               PROVE  result[JobOf[w]]
    BY DEF BellMeansResult
  <2>1. PICK p \in Posts : JobOf[p] = JobOf[w] /\ Sent(p)
    BY DEF BusInv, SetFirst
  <2> QED BY <2>1 DEF BusInv, SetFirst
<1> QED BY <1>1, BusInvHolds, PTL

\* A lookup answers 404 only when no post of the id is in flight.
THEOREM BusNotFoundIsFinished == Spec => NotFoundIsFinished
<1> DEFINE Said404 ==
      \A r \in Readers :
          (look[r] = "exists" /\ look'[r] = "404" /\ struck' \cap {"get", "publish", "expire"} = {})
          => \A p \in Posts : JobOf[p] = JobOf[r] => ~InFlight(p)
<1>1. ASSUME BusInv, Next PROVE Said404
  <2> SUFFICES ASSUME NEW r \in Readers, look[r] = "exists", look'[r] = "404",
                      struck' \cap {"get", "publish", "expire"} = {},
                      NEW p \in Posts, JobOf[p] = JobOf[r], InFlight(p)
               PROVE  FALSE
    OBVIOUS
  <2> USE Callers DEF redisVars, busVars, waitVars
  <2>0. TypeOK /\ Marked
    BY <1>1 DEF BusInv
  <2>1. ASSUME UNCHANGED look PROVE FALSE
    BY <2>1
  <2>2. ASSUME NEW q \in Posts, Enqueue(q) PROVE FALSE
    BY <2>0, <2>1, <2>2, EnqueueSteps
  <2>3. ASSUME NEW q \in Posts, Worker(q) \/ PublishRetry(q) PROVE FALSE
    BY <2>1, <2>3 DEF Worker, PublishSet, PublishDel, PublishBell, PublishRetry
  <2>4. ASSUME NEW j \in Jobs, Expire(j) PROVE FALSE
    BY <2>1, <2>4 DEF Expire
  <2>5. ASSUME Listener \/ ListenerDown PROVE FALSE
    BY <2>1, <2>5 DEF Listener, ListenerRoute, ListenerSend, ListenerUp, ListenerDown
  <2>6. ASSUME NEW w \in Waiters, Register(w) \/ Leave(w) PROVE FALSE
    BY <2>1, <2>6 DEF Register, Leave, DropGuard, DropReceiver
  <2>7. ASSUME NEW w \in Waiters,
               \/ WaitGet(w) \/ WakeByBell(w) \/ WakeByPoll(w) \/ Deadline(w) \/ CancelWait(w)
        PROVE  FALSE
    BY <2>0, <2>1, <2>7, WaitingSteps
  <2>8. ASSUME NEW s \in Readers, LookGet(s) PROVE FALSE
    BY <2>0, <2>8 DEF LookGet, TypeOK
  <2>9. ASSUME NEW s \in Readers, LookExists(s) PROVE FALSE
    <3>1. s = r
      BY <2>0, <2>9 DEF LookExists, TypeOK
    <3>2. struck' = struck /\ ~pending[JobOf[r]]
      BY <2>0, <2>9, <3>1 DEF LookExists, TypeOK, NoFault, Fault
    <3> QED BY <2>0, <3>2 DEF Marked
  <2> QED BY <1>1, <2>2, <2>3, <2>4, <2>5, <2>6, <2>7, <2>8, <2>9 DEF Next, Lookup
<1>2. BusInv /\ [Next]_vars => [Said404]_vars
  BY <1>1
<1>3. Spec => [][Said404]_vars
  BY <1>2, BusInvHolds, PTL DEF Spec
<1> QED BY <1>3 DEF NotFoundIsFinished

\* No step ever removes a registry entry: result_bus.rs 55 leaves it to the guard,
\* and GuardSeesItsReceiver shows why the guard finds a receiver every time.
THEOREM BusKeepsEveryEntry ==
    Spec => [][\A j \in Jobs : registry[j] # 0 => registry'[j] = registry[j]]_vars
<1> DEFINE Kept == \A j \in Jobs : registry[j] # 0 => registry'[j] = registry[j]
<1>1. ASSUME BusInv, Next PROVE Kept
  <2>0. TypeOK /\ Routing
    BY <1>1 DEF BusInv
  <2> USE DEF redisVars, busVars, waitVars
  <2>1. ASSUME UNCHANGED registry PROVE Kept
    BY <2>1
  <2>2. ASSUME NEW p \in Posts, Enqueue(p) PROVE Kept
    BY <2>0, <2>1, <2>2, EnqueueSteps
  <2>3. ASSUME NEW p \in Posts, Worker(p) \/ PublishRetry(p) PROVE Kept
    BY <2>1, <2>3 DEF Worker, PublishSet, PublishDel, PublishBell, PublishRetry
  <2>4. ASSUME NEW j \in Jobs, Expire(j) PROVE Kept
    BY <2>1, <2>4 DEF Expire
  <2>5. ASSUME Listener \/ ListenerDown PROVE Kept
    BY <2>1, <2>5 DEF Listener, ListenerRoute, ListenerSend, ListenerUp, ListenerDown
  <2>6. ASSUME NEW w \in Waiters, Register(w) PROVE Kept
    BY <2>0, <2>6, Callers DEF Register, TypeOK
  <2>7. ASSUME NEW w \in Waiters,
               \/ WaitGet(w) \/ WakeByBell(w) \/ WakeByPoll(w) \/ Deadline(w) \/ CancelWait(w)
        PROVE  Kept
    BY <2>0, <2>1, <2>7, WaitingSteps
  <2>8. ASSUME NEW w \in Waiters, Leave(w) PROVE Kept
    <3>1. CASE DropGuard(w)
      BY <2>0, <2>1, <3>1, GuardSeesItsReceiver
    <3>2. CASE DropReceiver(w)
      BY <2>1, <3>2 DEF DropReceiver
    <3> QED BY <2>8, <3>1, <3>2 DEF Leave
  <2>9. ASSUME NEW r \in Readers, Lookup(r) PROVE Kept
    BY <2>1, <2>9, LookupSteps
  <2> QED BY <1>1, <2>2, <2>3, <2>4, <2>5, <2>6, <2>7, <2>8, <2>9 DEF Next
<1>2. BusInv /\ [Next]_vars => [Kept]_vars
  BY <1>1
<1> QED BY <1>2, BusInvHolds, PTL DEF Spec
=============================================================================
