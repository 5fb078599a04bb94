---------------------------- MODULE SandboxProofs ----------------------------
(***************************************************************************)
(* Proofs about Sandbox, for any finite set of executions, any budget, any *)
(* memory limits and outputs, and every interleaving with the reaper, the  *)
(* deadline, cancellation and the blocking tasks.                          *)
(*                                                                         *)
(* Queue and Budget account for the permits of the semaphore; Stages says  *)
(* which child, slot and cgroup go with each place in execute(); Status    *)
(* follows a wait status from the child through the reaper's hand and the  *)
(* slot to the result; Output accounts for what the child wrote.           *)
(***************************************************************************)
EXTENDS Sandbox, FiniteSetTheorems, SequenceTheorems, TLAPS

\* The execution has not forked yet.
PreFork == {"idle", "queued", "admitted", "pipe_in", "pipe_out", "sealed", "confined"}
Holders == {e \in Execs : exec[e] \in Holding}

\* The semaphore's queue holds executions that wait, each once.
Queue ==
    /\ \A i \in 1 .. Len(waitq) : exec[waitq[i]] = "queued"
    /\ \A i, k \in 1 .. Len(waitq) : waitq[i] = waitq[k] => i = k

\* Every permit is free or belongs to an execution that holds it.
Budget == free + Cardinality(Units(Holders)) = Total

\* Where execute() is and what its child, slot and cgroup are.
Stages ==
    /\ \A e \in Execs : exec[e] \in PreFork => child[e] = "none" /\ kept[e] = {}
    /\ \A e \in Execs : child[e] = "alive" => exec[e] \in {"forked", "registered", "supervise"}
    /\ \A e \in Execs : exec[e] \in {"registered", "supervise"} <=> slot[e] # "unregistered"
    /\ \A e \in Execs : cgroup[e] = "offloaded" => exec[e] \in {"drain", "done"}
    /\ hand # Nobody => child[hand] = "reaped"
    /\ \A e \in Execs : exec[e] \in PreFork => ~grace[e]
    /\ \A e \in Execs : grace[e] => child[e] # "alive"

\* A wait status on its way from the child to the result.
Status ==
    /\ \A e \in Execs : how[e] = "none" <=> child[e] \in {"none", "alive"}
    /\ \A e \in Execs : slot[e] \in {"exit", "kill"} =>
                            child[e] = "reaped" /\ slot[e] = how[e]
    /\ \A e \in Execs : exec[e] \notin {"drain", "done"} => outcome[e] = "none"
    /\ \A e \in Execs : (exec[e] = "supervise" /\ slot[e] = "empty" /\ child[e] = "reaped") =>
                            hand = e
    /\ StatusIsTheChilds

\* What the child wrote is in the pipe until the drain, and nobody but a child that
\* inherited the end unsealed can hold the drain up.
Output ==
    /\ \A e \in Execs : exec[e] # "done" => left[e] + pipe[e] = Volume[e]
    /\ \A e \in Execs : how[e] = "exit" => left[e] = 0
    /\ \A e \in Execs : exec[e] \in {"registered", "supervise", "drain"} =>
                            "out_w" \notin fds[e]
    /\ OutputIsWhole

SandboxInv == TypeOK /\ Queue /\ Budget /\ Stages /\ Status /\ Output

(***************************************************************************)
(* The semaphore: what a step does to it.                                  *)
(***************************************************************************)
\* Units of the budget: at least one, at most all.
LEMMA UnitsForType ==
    ASSUME need \in [Execs -> Nat], NEW e \in Execs
    PROVE  UnitsFor(e) \in 1 .. Total
BY SandboxAssumption DEF UnitsFor

\* A set of executions stands for finitely many units.
LEMMA UnitsFinite ==
    ASSUME need \in [Execs -> Nat], NEW S \in SUBSET Execs
    PROVE  IsFiniteSet(Units(S))
<1>1. IsFiniteSet(1 .. Total)
  BY SandboxAssumption, FS_Interval
<1>2. IsFiniteSet(Execs \X (1 .. Total))
  BY <1>1, SandboxAssumption, FS_Product
<1>3. Units(S) \subseteq Execs \X (1 .. Total)
  BY UnitsForType, SandboxAssumption DEF Units
<1> QED BY <1>2, <1>3, FS_Subset

\* The units of one more execution add up.
LEMMA UnitsOfOneMore ==
    ASSUME need \in [Execs -> Nat], NEW S \in SUBSET Execs, NEW e \in Execs, e \notin S
    PROVE  /\ IsFiniteSet(Units(S)) /\ Cardinality(Units(S)) \in Nat
           /\ Cardinality(Units(S \cup {e})) = Cardinality(Units(S)) + UnitsFor(e)
<1> DEFINE Block == {e} \X (1 .. UnitsFor(e))
<1>2. UnitsFor(e) \in Nat /\ UnitsFor(e) >= 1
  BY UnitsForType
<1>3. IsFiniteSet(Block) /\ Cardinality(Block) = UnitsFor(e)
  <2>1. IsFiniteSet(1 .. UnitsFor(e)) /\ Cardinality(1 .. UnitsFor(e)) = UnitsFor(e)
    BY <1>2, FS_Interval
  <2>2. IsFiniteSet({e}) /\ Cardinality({e}) = 1
    BY FS_Singleton
  <2>3. IsFiniteSet(Block) /\ Cardinality(Block) = 1 * UnitsFor(e)
    BY <2>1, <2>2, FS_Product
  <2> QED BY <1>2, <2>3
<1>4. Units(S \cup {e}) = Units(S) \cup Block
  BY DEF Units
<1>5. Units(S) \cap Block = {}
  BY DEF Units
<1> HIDE DEF Block
<1>6. IsFiniteSet(Units(S)) /\ Cardinality(Units(S)) \in Nat
  BY UnitsFinite, FS_CardinalityType
<1>7. Cardinality(Units(S) \cup Block)
        = Cardinality(Units(S)) + Cardinality(Block) - Cardinality(Units(S) \cap Block)
  BY <1>3, <1>6, FS_Union
<1>8. Cardinality(Units(S) \cap Block) = 0
  BY <1>5, FS_EmptySet
<1>9. Cardinality(Units(S \cup {e})) = Cardinality(Units(S)) + UnitsFor(e)
  <2>1. Cardinality(Units(S \cup {e})) = Cardinality(Units(S)) + UnitsFor(e) - 0
    BY <1>3, <1>4, <1>7, <1>8
  <2> QED BY <1>2, <1>6, <2>1
<1> QED BY <1>6, <1>9

\* An execution moves on with its permit, or returns it.
Moves(e) == /\ exec[e] \in Holding
            /\ \E to \in Holding : exec' = [exec EXCEPT ![e] = to]
            /\ UNCHANGED <<free, waitq>>
Returns(e) == /\ exec[e] \in Holding
              /\ exec' = [exec EXCEPT ![e] = "done"]
              /\ free' = free + UnitsFor(e)
              /\ UNCHANGED waitq
\* A queued execution is cancelled and unlinked from the queue.
Unlinks(e) == /\ exec[e] = "queued"
              /\ exec' = [exec EXCEPT ![e] = "done"]
              /\ UNCHANGED free
              /\ \E i \in 1 .. Len(waitq) :
                     /\ waitq[i] = e
                     /\ waitq' = SubSeq(waitq, 1, i - 1) \o SubSeq(waitq, i + 1, Len(waitq))

\* Every step asks for admission, is admitted, moves on, returns its permit, is
\* cancelled in the queue, or leaves the semaphore alone.
LEMMA SemaphoreSteps ==
    ASSUME TypeOK, [Next]_vars
    PROVE  \/ UNCHANGED <<exec, free, waitq>>
           \/ \E e \in Execs : Acquire(e) \/ Admit(e) \/ Moves(e) \/ Returns(e) \/ Unlinks(e)
<1> DEFINE Known == \/ UNCHANGED <<exec, free, waitq>>
                    \/ \E e \in Execs : Acquire(e) \/ Admit(e) \/ Moves(e) \/ Returns(e)
                                            \/ Unlinks(e)
<1>1. ASSUME NEW e \in Execs,
             \/ PipeIn(e) \/ PipeOut(e) \/ Seal(e) \/ Confine(e) \/ Fork(e) \/ Register(e)
             \/ Attach(e) \/ TakeExit(e) \/ GraceEnds(e)
      PROVE  Moves(e)
  BY <1>1 DEF PipeIn, PipeOut, Seal, Confine, Fork, Register, Attach, TakeExit, GraceEnds,
     Supervised, Goto, Moves, Holding
<1>2. ASSUME NEW e \in Execs,
             \/ PipesFail(e) \/ ConfineFails(e) \/ ForkFails(e) \/ AttachFails(e) \/ Drain(e)
             \/ DrainTimesOut(e)
      PROVE  Returns(e)
  BY <1>2 DEF PipesFail, ConfineFails, ForkFails, AttachFails, Drain, DrainTimesOut, Return, Goto,
     Returns, Holding
<1>3. ASSUME NEW e \in Execs,
             \/ Deadline(e) \/ Teardown(e) \/ StdinDone(e) \/ ReadEnds(e) \/ ChildWrites(e)
             \/ ChildExits(e) \/ Wait4(e) \/ Route(e)
      PROVE  UNCHANGED <<exec, free, waitq>>
  BY <1>3 DEF Deadline, Teardown, StdinDone, ReadEnds, ChildWrites, ChildExits, Wait4, Route
<1>4. ASSUME NEW e \in Execs, Cancel(e) PROVE Returns(e) \/ Unlinks(e)
  BY <1>4 DEF Cancel, Goto, Returns, Unlinks, Holding
<1>5. ASSUME ReaperWakes \/ ReaperSleeps PROVE UNCHANGED <<exec, free, waitq>>
  BY <1>5 DEF ReaperWakes, ReaperSleeps
<1>6. ASSUME UNCHANGED vars PROVE UNCHANGED <<exec, free, waitq>>
  BY <1>6 DEF vars, moving
<1> QED
  BY <1>1, <1>2, <1>3, <1>4, <1>5, <1>6 DEF Next, Step, Setup, Supervise, Reaper

\* What is left of a sequence when its front and its back are put together.
LEMMA Joined ==
    ASSUME NEW S, NEW n \in Nat, NEW i \in 1 .. n, NEW q,
           NEW front \in Seq(S), Len(front) = i - 1, \A k \in 1 .. i - 1 : front[k] = q[k],
           NEW back \in Seq(S), Len(back) = n - i, \A k \in 1 .. n - i : back[k] = q[i + k],
           NEW r, r = front \o back
    PROVE  /\ r \in Seq(S) /\ Len(r) = n - 1
           /\ \A k \in 1 .. n - 1 : r[k] = IF k < i THEN q[k] ELSE q[k + 1]
<1>1. /\ r \in Seq(S) /\ Len(r) = Len(front) + Len(back)
      /\ \A k \in 1 .. Len(front) + Len(back) :
             r[k] = IF k <= Len(front) THEN front[k] ELSE back[k - Len(front)]
  BY ConcatProperties, Zenon
<1>2. Len(front) + Len(back) = n - 1
  OBVIOUS
<1>3. ASSUME NEW k \in 1 .. n - 1 PROVE r[k] = IF k < i THEN q[k] ELSE q[k + 1]
  <2>0. k \in 1 .. Len(front) + Len(back)
    BY <1>2, Zenon
  <2>1. CASE k < i
    <3>1. k <= Len(front) /\ k \in 1 .. i - 1
      BY <2>1
    <3>2. r[k] = front[k]
      BY <1>1, <2>0, <3>1, Zenon
    <3>3. front[k] = q[k]
      BY <3>1, Zenon
    <3> QED BY <2>1, <3>2, <3>3, Zenon
  <2>2. CASE ~(k < i)
    <3> DEFINE b == k - Len(front)
    <3>1. b \in 1 .. n - i /\ i + b = k + 1 /\ ~(k <= Len(front))
      BY <2>2
    <3>2. r[k] = back[b]
      BY <1>1, <2>0, <3>1, Zenon
    <3>3. back[b] = q[i + b]
      BY <3>1, Zenon
    <3> QED BY <2>2, <3>1, <3>2, <3>3, Zenon
  <2> QED BY <2>1, <2>2, Zenon
<1> QED BY <1>1, <1>2, <1>3, Zenon

\* Every step keeps the queue: it holds waiting executions, each once.
LEMMA NextQueue == TypeOK /\ Queue /\ [Next]_vars => Queue' /\ waitq' \in Seq(Execs)
<1> SUFFICES ASSUME TypeOK, Queue, [Next]_vars PROVE Queue' /\ waitq' \in Seq(Execs)
  OBVIOUS
<1>t. /\ waitq \in Seq(Execs) /\ Len(waitq) \in Nat
      /\ \A i \in 1 .. Len(waitq) : waitq[i] \in Execs
      /\ DOMAIN exec = Execs
  BY DEF TypeOK
<1>1. ASSUME UNCHANGED <<exec, free, waitq>> PROVE Queue' /\ waitq' \in Seq(Execs)
  BY <1>1, <1>t DEF Queue
<1>2. ASSUME NEW e \in Execs, Acquire(e) PROVE Queue' /\ waitq' \in Seq(Execs)
  <2>1. /\ Len(waitq') = Len(waitq) + 1 /\ waitq' \in Seq(Execs)
        /\ \A i \in 1 .. Len(waitq) : waitq'[i] = waitq[i]
        /\ waitq'[Len(waitq) + 1] = e
    BY <1>2, <1>t DEF Acquire
  <2>2. exec[e] = "idle" /\ exec'[e] = "queued" /\ \A f \in Execs : f # e => exec'[f] = exec[f]
    BY <1>2, <1>t DEF Acquire, Goto
  <2> QED BY <1>t, <2>1, <2>2 DEF Queue
<1>3. ASSUME NEW e \in Execs, Admit(e) PROVE Queue' /\ waitq' \in Seq(Execs)
  <2>1. /\ Len(waitq) # 0 /\ Len(waitq') = Len(waitq) - 1 /\ waitq' \in Seq(Execs)
        /\ \A i \in 1 .. Len(waitq) - 1 : waitq'[i] = waitq[i + 1]
        /\ waitq[1] = e
    BY <1>3, <1>t DEF Admit
  <2>2. \A f \in Execs : f # e => exec'[f] = exec[f]
    BY <1>3, <1>t DEF Admit, Goto
  <2>3. ASSUME NEW i \in 1 .. Len(waitq')
        PROVE  /\ i \in 1 .. Len(waitq) - 1
               /\ i + 1 \in 1 .. Len(waitq) /\ i + 1 # 1 /\ 1 \in 1 .. Len(waitq)
    BY <1>t, <2>1
  <2>4. ASSUME NEW i \in 1 .. Len(waitq') PROVE exec'[waitq'[i]] = "queued"
    <3>1. waitq'[i] = waitq[i + 1] /\ waitq[i + 1] \in Execs
      BY <1>t, <2>1, <2>3, Zenon
    <3>2. waitq[i + 1] # e /\ exec[waitq[i + 1]] = "queued"
      BY <2>1, <2>3, Zenon DEF Queue
    <3> QED BY <2>2, <3>1, <3>2, Zenon
  <2>5. ASSUME NEW i \in 1 .. Len(waitq'), NEW k \in 1 .. Len(waitq'), waitq'[i] = waitq'[k]
        PROVE  i = k
    <3>1. waitq[i + 1] = waitq[k + 1]
      BY <2>1, <2>3, <2>5, Zenon
    <3>2. i + 1 = k + 1
      BY <2>3, <3>1, Zenon DEF Queue
    <3> QED BY <1>t, <2>1, <3>2
  <2> QED BY <2>1, <2>4, <2>5, Zenon DEF Queue
<1>4. ASSUME NEW e \in Execs, Moves(e) \/ Returns(e) PROVE Queue' /\ waitq' \in Seq(Execs)
  <2>1. /\ waitq' = waitq /\ exec[e] # "queued"
        /\ \A f \in Execs : f # e => exec'[f] = exec[f]
    BY <1>4, <1>t DEF Moves, Returns, Holding
  <2> QED BY <1>t, <2>1 DEF Queue
<1>5. ASSUME NEW e \in Execs, Unlinks(e) PROVE Queue' /\ waitq' \in Seq(Execs)
  <2>1. PICK i \in 1 .. Len(waitq) :
            waitq[i] = e /\ waitq' = SubSeq(waitq, 1, i - 1) \o SubSeq(waitq, i + 1, Len(waitq))
    BY <1>5 DEF Unlinks
  <2> DEFINE n     == Len(waitq)
             front == SubSeq(waitq, 1, i - 1)
             back  == SubSeq(waitq, i + 1, n)
  <2>2. n \in Nat /\ i \in 1 .. n /\ waitq' = front \o back
    BY <1>t, <2>1
  <2>3. front \in Seq(Execs) /\ Len(front) = i - 1 /\ \A k \in 1 .. i - 1 : front[k] = waitq[k]
    BY <1>t, SubSeqProperties
  <2>4. /\ back \in Seq(Execs) /\ Len(back) = n - i
        /\ \A k \in 1 .. n - i : back[k] = waitq[i + k]
    BY <1>t, SubSeqProperties
  <2> HIDE DEF front, back
  <2>5. /\ waitq' \in Seq(Execs) /\ Len(waitq') = n - 1
        /\ \A k \in 1 .. n - 1 : waitq'[k] = IF k < i THEN waitq[k] ELSE waitq[k + 1]
    <3> HIDE DEF n
    <3> QED BY <2>2, <2>3, <2>4, Joined
  <2>6. \A a, b \in 1 .. n : waitq[a] = waitq[b] => a = b
    BY DEF Queue
  <2>7. /\ \A k \in 1 .. n - 1 : \E m \in 1 .. n : m # i /\ waitq'[k] = waitq[m]
        /\ \A a, b \in 1 .. n - 1 : waitq'[a] = waitq'[b] => a = b
    <3> HIDE DEF n
    <3>1. n \in Nat /\ i \in 1 .. n
      BY <2>2
    <3> QED BY <2>5, <2>6, <3>1
  <2>8. \A f \in Execs : f # e => exec'[f] = exec[f]
    BY <1>5, <1>t DEF Unlinks
  <2>9. ASSUME NEW k \in 1 .. n - 1 PROVE exec'[waitq'[k]] = "queued"
    <3>1. PICK m \in 1 .. n : m # i /\ waitq'[k] = waitq[m]
      BY <2>7
    <3>2. waitq[m] # e /\ waitq[m] \in Execs /\ exec[waitq[m]] = "queued"
      BY <1>t, <2>1, <2>6, <3>1 DEF Queue
    <3> QED BY <2>8, <3>1, <3>2
  <2> QED BY <2>5, <2>7, <2>9 DEF Queue
<1> QED BY <1>1, <1>2, <1>3, <1>4, <1>5, SemaphoreSteps

\* Who is admitted was waiting.
LEMMA AdmitsQueued ==
    ASSUME TypeOK, Queue, NEW e \in Execs, Admit(e)
    PROVE  exec[e] = "queued"
BY DEF Admit, Queue, TypeOK

\* Every step keeps the budget: a permit is either free or held.
LEMMA NextBudget ==
    TypeOK /\ Queue /\ Budget /\ [Next]_vars => Budget' /\ free' \in 0 .. Total
<1> SUFFICES ASSUME TypeOK, Queue, Budget, [Next]_vars PROVE Budget' /\ free' \in 0 .. Total
  OBVIOUS
<1> DEFINE After == {e \in Execs : exec'[e] \in Holding}
<1>0. need' = need
  BY DEF Next, vars
<1>1. Budget' <=> free' + Cardinality(Units(After)) = Total
  BY <1>0 DEF Budget, Units, UnitsFor, Holders
<1>2. /\ Holders \in SUBSET Execs /\ After \in SUBSET Execs
      /\ free \in 0 .. Total /\ free + Cardinality(Units(Holders)) = Total
      /\ need \in [Execs -> Nat] /\ Total \in Nat
  BY SandboxAssumption DEF Holders, TypeOK, Budget
<1>3. ASSUME After = Holders, free' = free PROVE Budget' /\ free' \in 0 .. Total
  BY <1>1, <1>2, <1>3
<1>4. ASSUME NEW e \in Execs, e \notin Holders, After = Holders \cup {e},
             free >= UnitsFor(e), free' = free - UnitsFor(e)
      PROVE  Budget' /\ free' \in 0 .. Total
  <2>1. /\ Cardinality(Units(Holders)) \in Nat
        /\ Cardinality(Units(After)) = Cardinality(Units(Holders)) + UnitsFor(e)
    BY <1>2, <1>4, UnitsOfOneMore
  <2>2. UnitsFor(e) \in 1 .. Total
    BY <1>2, UnitsForType
  <2> HIDE DEF After
  <2> QED BY <1>1, <1>2, <1>4, <2>1, <2>2
<1>5. ASSUME NEW e \in Execs, e \in Holders, After = Holders \ {e},
             free' = free + UnitsFor(e)
      PROVE  Budget' /\ free' \in 0 .. Total
  <2>0. After \cup {e} = Holders /\ e \notin After
    BY <1>2, <1>5
  <2>1. /\ Cardinality(Units(After)) \in Nat
        /\ Cardinality(Units(Holders)) = Cardinality(Units(After)) + UnitsFor(e)
    BY <1>2, <2>0, UnitsOfOneMore
  <2>2. UnitsFor(e) \in 1 .. Total
    BY <1>2, UnitsForType
  <2> HIDE DEF After
  <2> QED BY <1>1, <1>2, <1>5, <2>1, <2>2
<1>6. CASE UNCHANGED <<exec, free, waitq>>
  BY <1>3, <1>6 DEF Holders
<1>7. ASSUME NEW e \in Execs, Acquire(e) PROVE Budget' /\ free' \in 0 .. Total
  <2>1. After = Holders /\ free' = free
    BY <1>7 DEF Acquire, Goto, Holders, Holding, TypeOK
  <2> QED BY <1>3, <2>1
<1>8. ASSUME NEW e \in Execs, Admit(e) PROVE Budget' /\ free' \in 0 .. Total
  <2>1. exec[e] = "queued"
    BY <1>8, AdmitsQueued
  <2>2. e \notin Holders /\ After = Holders \cup {e}
    BY <1>8, <2>1 DEF Admit, Goto, Holders, Holding, TypeOK
  <2> QED BY <1>4, <1>8, <2>2 DEF Admit
<1>9. ASSUME NEW e \in Execs, Moves(e) PROVE Budget' /\ free' \in 0 .. Total
  <2>1. After = Holders /\ free' = free
    BY <1>9 DEF Moves, Holders, TypeOK
  <2> QED BY <1>3, <2>1
<1>10. ASSUME NEW e \in Execs, Returns(e) PROVE Budget' /\ free' \in 0 .. Total
  <2>1. e \in Holders /\ After = Holders \ {e}
    BY <1>10 DEF Returns, Holders, Holding, TypeOK
  <2> QED BY <1>5, <1>10, <2>1 DEF Returns
<1>11. ASSUME NEW e \in Execs, Unlinks(e) PROVE Budget' /\ free' \in 0 .. Total
  <2>1. After = Holders /\ free' = free
    BY <1>11 DEF Unlinks, Holders, Holding, TypeOK
  <2> QED BY <1>3, <2>1
<1> QED BY <1>6, <1>7, <1>8, <1>9, <1>10, <1>11, SemaphoreSteps

(***************************************************************************)
(* Kills.                                                                  *)
(***************************************************************************)
\* SIGKILL ends a living child and does nothing to any other.
LEMMA KillSteps ==
    ASSUME NEW e \in Execs, Kill(e)
    PROVE  \/ /\ child[e] = "alive"
              /\ child' = [child EXCEPT ![e] = "zombie"] /\ how' = [how EXCEPT ![e] = "kill"]
           \/ child[e] # "alive" /\ child' = child /\ how' = how
BY DEF Kill

(***************************************************************************)
(* Types.                                                                  *)
(***************************************************************************)
\* Every step keeps the types; the bounds of the semaphore come from Budget.
LEMMA NextTypeOK == TypeOK /\ Queue /\ Budget /\ Stages /\ Status /\ [Next]_vars => TypeOK'
<1> SUFFICES ASSUME TypeOK, Queue, Budget, Stages, Status, [Next]_vars PROVE TypeOK'
  OBVIOUS
<1>0. /\ free' \in 0 .. Total /\ waitq' \in Seq(Execs)
      /\ need' = need /\ late' = late
  BY NextQueue, NextBudget DEF Next, vars
<1> USE SandboxAssumption DEF TypeOK, Holding, outputVars, fdVars, taskVars, reaperVars
<1>1. ASSUME NEW e \in Execs, Acquire(e) PROVE TypeOK'
  BY <1>1, <1>0 DEF Acquire, Goto
<1>2. ASSUME NEW e \in Execs, Admit(e) PROVE TypeOK'
  BY <1>2, <1>0 DEF Admit, Goto
<1>3. ASSUME NEW e \in Execs, PipeIn(e) PROVE TypeOK'
  BY <1>3, <1>0 DEF PipeIn, Goto, Ends, StdinEnds, StdoutEnds
<1>4. ASSUME NEW e \in Execs, PipeOut(e) PROVE TypeOK'
  BY <1>4, <1>0 DEF PipeOut, Goto, Ends, StdinEnds, StdoutEnds
<1>5. ASSUME NEW e \in Execs, Seal(e) PROVE TypeOK'
  BY <1>5, <1>0 DEF Seal, Goto
<1>6. ASSUME NEW e \in Execs, PipesFail(e) PROVE TypeOK'
  BY <1>6, <1>0 DEF PipesFail, Goto, Return
<1>7. ASSUME NEW e \in Execs, Confine(e) PROVE TypeOK'
  BY <1>7, <1>0 DEF Confine, Goto
<1>8. ASSUME NEW e \in Execs, ConfineFails(e) PROVE TypeOK'
  BY <1>8, <1>0 DEF ConfineFails, Goto, Return
<1>9. ASSUME NEW e \in Execs, Fork(e) PROVE TypeOK'
  BY <1>9, <1>0 DEF Fork, Goto
<1>10. ASSUME NEW e \in Execs, ForkFails(e) PROVE TypeOK'
  BY <1>10, <1>0 DEF ForkFails, Goto, Return
<1>11. ASSUME NEW e \in Execs, Register(e) PROVE TypeOK'
  BY <1>11, <1>0 DEF Register, Goto
<1>12. ASSUME NEW e \in Execs, Attach(e) PROVE TypeOK'
  BY <1>12, <1>0 DEF Attach, Goto
<1>13. ASSUME NEW e \in Execs, AttachFails(e) PROVE TypeOK'
  <2>1. CASE child[e] = "alive"
    BY <1>13, <2>1, <1>0 DEF AttachFails, Goto, Return, Kill
  <2>2. CASE child[e] # "alive"
    BY <1>13, <2>2, <1>0 DEF AttachFails, Goto, Return, Kill
  <2> QED BY <2>1, <2>2
<1>14. ASSUME NEW e \in Execs, TakeExit(e) PROVE TypeOK'
  BY <1>14, <1>0 DEF TakeExit, Goto, Supervised
<1>15. ASSUME NEW e \in Execs, Deadline(e) PROVE TypeOK'
  <2>1. CASE child[e] = "alive"
    BY <1>15, <2>1, <1>0 DEF Deadline, Goto, Kill
  <2>2. CASE child[e] # "alive"
    BY <1>15, <2>2, <1>0 DEF Deadline, Goto, Kill
  <2> QED BY <2>1, <2>2
<1>16. ASSUME NEW e \in Execs, GraceEnds(e) PROVE TypeOK'
  BY <1>16, <1>0 DEF GraceEnds, Goto, Supervised
<1>17. ASSUME NEW e \in Execs, Drain(e) PROVE TypeOK'
  <2>1. captured' \in [Execs -> 0 .. MaxOut] /\ pipe' \in [Execs -> 0 .. PipeCap]
    BY <1>17 DEF Drain
  <2>2. outcome' \in [Execs -> {"none", "exit", "kill", "synthesised", "output_limit",
                                "error", "cancelled"}]
    BY <1>17 DEF Drain, Return
  <2>3. /\ exec' = [exec EXCEPT ![e] = "done"]
        /\ fds' = [fds EXCEPT ![e] = @ \ {"out_r"}]
        /\ UNCHANGED <<child, how, left, kept, taskVars, cgroup, slot, grace, reaperVars>>
    BY <1>17 DEF Drain, Return, Goto
  <2> QED BY <1>0, <2>1, <2>2, <2>3
<1>18. ASSUME NEW e \in Execs, DrainTimesOut(e) PROVE TypeOK'
  <2>1. pipe' \in [Execs -> 0 .. PipeCap]
    BY <1>18 DEF DrainTimesOut
  <2>2. /\ outcome' = [outcome EXCEPT ![e] = outcome[e]]
        /\ exec' = [exec EXCEPT ![e] = "done"]
        /\ reading' = reading \cup {e}
        /\ UNCHANGED <<child, how, left, captured, fds, kept, feeding, cgroup, slot, grace,
                       reaperVars>>
    BY <1>18 DEF DrainTimesOut, Return, Goto
  <2> QED BY <1>0, <2>1, <2>2
<1>19. ASSUME NEW e \in Execs, Teardown(e) PROVE TypeOK'
  <2>1. CASE child[e] = "alive"
    BY <1>19, <2>1, <1>0 DEF Teardown, Goto, Kill
  <2>2. CASE child[e] # "alive"
    BY <1>19, <2>2, <1>0 DEF Teardown, Goto, Kill
  <2> QED BY <2>1, <2>2
<1>20. ASSUME NEW e \in Execs, Cancel(e) PROVE TypeOK'
  <2>1. CASE child[e] = "alive"
    BY <1>20, <2>1, <1>0 DEF Cancel, Goto, Kill
  <2>2. CASE child[e] # "alive"
    BY <1>20, <2>2, <1>0 DEF Cancel, Goto, Kill
  <2> QED BY <2>1, <2>2
<1>21. ASSUME NEW e \in Execs, StdinDone(e) PROVE TypeOK'
  BY <1>21, <1>0 DEF StdinDone, Goto
<1>22. ASSUME NEW e \in Execs, ReadEnds(e) PROVE TypeOK'
  BY <1>22, <1>0 DEF ReadEnds, Goto
<1>23. ASSUME NEW e \in Execs, ChildWrites(e) PROVE TypeOK'
  <2>1. /\ left \in [Execs -> Nat] /\ pipe \in [Execs -> 0 .. PipeCap] /\ PipeCap \in Nat
        /\ left[e] > 0 /\ left' = [left EXCEPT ![e] = left[e] - 1]
        /\ pipe[e] < PipeCap /\ pipe' = [pipe EXCEPT ![e] = pipe[e] + 1]
    BY <1>23 DEF ChildWrites
  <2>2. left[e] - 1 \in Nat /\ pipe[e] + 1 \in 0 .. PipeCap
    BY <2>1
  <2>3. left' \in [Execs -> Nat] /\ pipe' \in [Execs -> 0 .. PipeCap]
    BY <2>1, <2>2
  <2> QED BY <1>23, <1>0, <2>3 DEF ChildWrites
<1>24. ASSUME NEW e \in Execs, ChildExits(e) PROVE TypeOK'
  BY <1>24, <1>0 DEF ChildExits, Goto
<1>25. ASSUME ReaperWakes PROVE TypeOK'
  BY <1>25, <1>0 DEF ReaperWakes
<1>26. ASSUME ReaperSleeps PROVE TypeOK'
  BY <1>26, <1>0 DEF ReaperSleeps
<1>27. ASSUME NEW e \in Execs, Wait4(e) PROVE TypeOK'
  BY <1>27, <1>0 DEF Wait4, Goto
<1>28. ASSUME NEW e \in Execs, Route(e) PROVE TypeOK'
  <2>0. hand = e /\ hand # Nobody /\ how[e] \in {"none", "exit", "kill"}
    BY <1>28 DEF Route
  <2>1. how[e] \in {"exit", "kill"}
    BY <2>0 DEF Stages, Status
  <2> QED BY <1>28, <1>0, <2>1 DEF Route
<1>29. ASSUME UNCHANGED vars PROVE TypeOK'
  BY <1>29, <1>0 DEF vars, moving
<1> QED
  BY <1>1, <1>2, <1>3, <1>4, <1>5, <1>6, <1>7, <1>8, <1>9, <1>10, <1>11, <1>12, <1>13, <1>14,
     <1>15, <1>16, <1>17, <1>18, <1>19, <1>20, <1>21, <1>22, <1>23, <1>24, <1>25, <1>26, <1>27,
     <1>28, <1>29
     DEF Next, Step, Setup, Supervise, Reaper

(***************************************************************************)
(* Stages and Status.                                                      *)
(***************************************************************************)
\* Every step keeps child, slot and cgroup in step with execute(), and a wait status
\* the child's own on its whole way to the result.
LEMMA NextStages == TypeOK /\ Queue /\ Stages /\ Status /\ [Next]_vars => (Stages /\ Status)'
<1> SUFFICES ASSUME TypeOK, Queue, Stages, Status, [Next]_vars PROVE (Stages /\ Status)'
  OBVIOUS
<1>0. /\ late' = late
      /\ exec \in [Execs -> {"idle", "queued", "done"} \cup Holding]
      /\ child \in [Execs -> {"none", "alive", "zombie", "reaped"}]
      /\ how \in [Execs -> {"none", "exit", "kill"}]
      /\ slot \in [Execs -> {"unregistered", "empty", "exit", "kill"}]
      /\ DOMAIN outcome = Execs /\ DOMAIN kept = Execs /\ DOMAIN cgroup = Execs
      /\ DOMAIN grace = Execs
      /\ Nobody \notin Execs /\ hand \in Execs \cup {Nobody}
  BY SandboxAssumption DEF TypeOK, Next, vars
<1> USE DEF Stages, Status, StatusIsTheChilds, PreFork, Holding,
        outputVars, fdVars, taskVars, reaperVars
<1>1. ASSUME NEW e \in Execs, Acquire(e) PROVE (Stages /\ Status)'
  <2>1. /\ exec[e] = "idle" /\ exec' = [exec EXCEPT ![e] = "queued"]
        /\ UNCHANGED <<child, how, kept, slot, cgroup, hand, outcome, grace>>
    BY <1>1 DEF Acquire, Goto
  <2> QED BY <1>0, <2>1
<1>2. ASSUME NEW e \in Execs, Admit(e) PROVE (Stages /\ Status)'
  <2>1. /\ exec[e] = "queued" /\ exec' = [exec EXCEPT ![e] = "admitted"]
        /\ UNCHANGED <<child, how, kept, slot, cgroup, hand, outcome, grace>>
    BY <1>2, AdmitsQueued DEF Admit, Goto
  <2> QED BY <1>0, <2>1
<1>3. ASSUME NEW e \in Execs, PipeIn(e) PROVE (Stages /\ Status)'
  <2>1. /\ exec[e] = "admitted" /\ exec' = [exec EXCEPT ![e] = "pipe_in"]
        /\ UNCHANGED <<child, how, kept, slot, cgroup, hand, outcome, grace>>
    BY <1>3 DEF PipeIn, Goto
  <2> QED BY <1>0, <2>1
<1>4. ASSUME NEW e \in Execs, PipeOut(e) PROVE (Stages /\ Status)'
  <2>1. /\ exec[e] = "pipe_in" /\ exec' = [exec EXCEPT ![e] = "pipe_out"]
        /\ UNCHANGED <<child, how, kept, slot, cgroup, hand, outcome, grace>>
    BY <1>4 DEF PipeOut, Goto
  <2> QED BY <1>0, <2>1
<1>5. ASSUME NEW e \in Execs, Seal(e) PROVE (Stages /\ Status)'
  BY <1>5, <1>0 DEF Seal, Goto
<1>6. ASSUME NEW e \in Execs, PipesFail(e) PROVE (Stages /\ Status)'
  BY <1>6, <1>0 DEF PipesFail, Goto, Return
<1>7. ASSUME NEW e \in Execs, Confine(e) PROVE (Stages /\ Status)'
  BY <1>7, <1>0 DEF Confine, Goto
<1>8. ASSUME NEW e \in Execs, ConfineFails(e) PROVE (Stages /\ Status)'
  BY <1>8, <1>0 DEF ConfineFails, Goto, Return
<1>9. ASSUME NEW e \in Execs, Fork(e) PROVE (Stages /\ Status)'
  BY <1>9, <1>0 DEF Fork, Goto
<1>10. ASSUME NEW e \in Execs, ForkFails(e) PROVE (Stages /\ Status)'
  BY <1>10, <1>0 DEF ForkFails, Goto, Return
<1>11. ASSUME NEW e \in Execs, Register(e) PROVE (Stages /\ Status)'
  BY <1>11, <1>0 DEF Register, Goto
<1>12. ASSUME NEW e \in Execs, Attach(e) PROVE (Stages /\ Status)'
  BY <1>12, <1>0 DEF Attach, Goto
<1>13. ASSUME NEW e \in Execs, AttachFails(e) PROVE (Stages /\ Status)'
  <2>1. /\ exec[e] = "registered" /\ exec' = [exec EXCEPT ![e] = "done"]
        /\ outcome' = [outcome EXCEPT ![e] = "error"]
        /\ cgroup' = [cgroup EXCEPT ![e] = "removed"]
        /\ slot' = [slot EXCEPT ![e] = "unregistered"]
        /\ UNCHANGED <<kept, hand, grace>>
    BY <1>13 DEF AttachFails, Return, Goto
  <2>2. Kill(e)
    BY <1>13 DEF AttachFails
  <2> QED BY <1>0, <2>1, <2>2, KillSteps
<1>14. ASSUME NEW e \in Execs, TakeExit(e) PROVE (Stages /\ Status)'
  BY <1>14, <1>0 DEF TakeExit, Goto, Supervised
<1>15. ASSUME NEW e \in Execs, Deadline(e) PROVE (Stages /\ Status)'
  <2>1. /\ exec[e] = "supervise" /\ slot[e] = "empty"
        /\ grace' = [grace EXCEPT ![e] = TRUE]
        /\ UNCHANGED <<exec, kept, slot, cgroup, hand, outcome>>
    BY <1>15 DEF Deadline
  <2>2. Kill(e)
    BY <1>15 DEF Deadline
  <2> QED BY <1>0, <2>1, <2>2, KillSteps
<1>16. ASSUME NEW e \in Execs, GraceEnds(e) PROVE (Stages /\ Status)'
  <2>1. /\ exec[e] = "supervise" /\ slot[e] = "empty" /\ e \in late
        /\ exec' = [exec EXCEPT ![e] = "drain"]
        /\ outcome' = [outcome EXCEPT ![e] = "synthesised"]
        /\ slot' = [slot EXCEPT ![e] = "unregistered"]
        /\ cgroup' = [cgroup EXCEPT ![e] = "offloaded"]
        /\ UNCHANGED <<child, how, hand, kept, grace>>
    BY <1>16 DEF GraceEnds, Goto, Supervised
  <2>2. child[e] # "alive"
    BY <1>16, <1>0 DEF GraceEnds
  <2> QED BY <1>0, <2>1, <2>2
<1>17. ASSUME NEW e \in Execs, Drain(e) PROVE (Stages /\ Status)'
  <2>1. /\ exec[e] = "drain" /\ exec' = [exec EXCEPT ![e] = "done"]
        /\ \E out \in {"output_limit", outcome[e]} : outcome' = [outcome EXCEPT ![e] = out]
        /\ UNCHANGED <<child, how, kept, slot, cgroup, hand, grace>>
    BY <1>17 DEF Drain, Return, Goto
  <2> QED BY <1>0, <2>1
<1>18. ASSUME NEW e \in Execs, DrainTimesOut(e) PROVE (Stages /\ Status)'
  BY <1>18, <1>0 DEF DrainTimesOut, Goto, Return
<1>19. ASSUME NEW e \in Execs, Teardown(e) PROVE (Stages /\ Status)'
  <2>1. CASE child[e] = "alive"
    BY <1>19, <2>1, <1>0 DEF Teardown, Goto, Kill
  <2>2. CASE child[e] # "alive"
    BY <1>19, <2>2, <1>0 DEF Teardown, Goto, Kill
  <2> QED BY <2>1, <2>2
<1>20. ASSUME NEW e \in Execs, Cancel(e) PROVE (Stages /\ Status)'
  <2>1. /\ exec[e] \in {"queued", "sealed", "confined", "supervise", "drain"}
        /\ exec' = [exec EXCEPT ![e] = "done"]
        /\ outcome' = [outcome EXCEPT ![e] = "cancelled"]
        /\ UNCHANGED <<kept, hand, grace>>
    BY <1>20 DEF Cancel, Goto
  <2>2. CASE exec[e] \in {"confined", "supervise"}
    <3>1. /\ cgroup' = [cgroup EXCEPT ![e] = "removed"]
          /\ slot' = [slot EXCEPT ![e] = "unregistered"]
          /\ Kill(e)
      BY <1>20, <2>2 DEF Cancel
    <3> QED BY <1>0, <2>1, <3>1, KillSteps
  <2>3. CASE exec[e] \notin {"confined", "supervise"}
    <3>1. UNCHANGED <<child, how, sigchld, cgroup, slot>>
      BY <1>20, <2>3 DEF Cancel
    <3> QED BY <1>0, <2>1, <2>3, <3>1
  <2> QED BY <2>2, <2>3
<1>21. ASSUME NEW e \in Execs, StdinDone(e) PROVE (Stages /\ Status)'
  BY <1>21, <1>0 DEF StdinDone, Goto
<1>22. ASSUME NEW e \in Execs, ReadEnds(e) PROVE (Stages /\ Status)'
  BY <1>22, <1>0 DEF ReadEnds, Goto
<1>23. ASSUME NEW e \in Execs, ChildWrites(e) PROVE (Stages /\ Status)'
  BY <1>23, <1>0 DEF ChildWrites, Goto
<1>24. ASSUME NEW e \in Execs, ChildExits(e) PROVE (Stages /\ Status)'
  BY <1>24, <1>0 DEF ChildExits, Goto
<1>25. ASSUME ReaperWakes PROVE (Stages /\ Status)'
  BY <1>25, <1>0 DEF ReaperWakes
<1>26. ASSUME ReaperSleeps PROVE (Stages /\ Status)'
  BY <1>26, <1>0 DEF ReaperSleeps
<1>27. ASSUME NEW e \in Execs, Wait4(e) PROVE (Stages /\ Status)'
  BY <1>27, <1>0 DEF Wait4, Goto
<1>28. ASSUME NEW e \in Execs, Route(e) PROVE (Stages /\ Status)'
  BY <1>28, <1>0 DEF Route, Goto
<1>29. ASSUME UNCHANGED vars PROVE (Stages /\ Status)'
  BY <1>29, <1>0 DEF vars, moving
<1> QED
  BY <1>1, <1>2, <1>3, <1>4, <1>5, <1>6, <1>7, <1>8, <1>9, <1>10, <1>11, <1>12, <1>13, <1>14,
     <1>15, <1>16, <1>17, <1>18, <1>19, <1>20, <1>21, <1>22, <1>23, <1>24, <1>25, <1>26, <1>27,
     <1>28, <1>29
     DEF Next, Step, Setup, Supervise, Reaper

(***************************************************************************)
(* Output.                                                                 *)
(***************************************************************************)
\* Every step keeps account of the output.
LEMMA NextOutput == TypeOK /\ Queue /\ Stages /\ Status /\ Output /\ [Next]_vars => Output'
<1> SUFFICES ASSUME TypeOK, Queue, Stages, Status, Output, [Next]_vars PROVE Output'
  OBVIOUS
<1>0. /\ late' = late
      /\ exec \in [Execs -> {"idle", "queued", "done"} \cup Holding]
      /\ child \in [Execs -> {"none", "alive", "zombie", "reaped"}]
      /\ how \in [Execs -> {"none", "exit", "kill"}]
      /\ left \in [Execs -> Nat] /\ pipe \in [Execs -> Nat] /\ captured \in [Execs -> Nat]
      /\ Volume \in [Execs -> Nat] /\ PipeCap \in Nat /\ MaxOut \in Nat
      /\ DOMAIN outcome = Execs /\ DOMAIN kept = Execs /\ DOMAIN fds = Execs
  BY SandboxAssumption DEF TypeOK, Next, vars
<1> USE DEF Stages, Status, StatusIsTheChilds, Output, OutputIsWhole,
        PreFork, Holding, outputVars, fdVars, taskVars, reaperVars
<1>1. ASSUME NEW e \in Execs, Acquire(e) PROVE Output'
  BY <1>1, <1>0 DEF Acquire, Goto
<1>2. ASSUME NEW e \in Execs, Admit(e) PROVE Output'
  <2>1. /\ exec' = [exec EXCEPT ![e] = "admitted"]
        /\ UNCHANGED <<how, left, pipe, captured, fds, kept, outcome>>
    BY <1>2, <1>0 DEF Admit, Goto
  <2>2. exec[e] = "queued"
    BY <1>2, AdmitsQueued
  <2> QED BY <1>0, <2>1, <2>2
<1>3. ASSUME NEW e \in Execs, PipeIn(e) PROVE Output'
  BY <1>3, <1>0 DEF PipeIn, Goto
<1>4. ASSUME NEW e \in Execs, PipeOut(e) PROVE Output'
  BY <1>4, <1>0 DEF PipeOut, Goto
<1>5. ASSUME NEW e \in Execs, Seal(e) PROVE Output'
  BY <1>5, <1>0 DEF Seal, Goto
<1>6. ASSUME NEW e \in Execs, PipesFail(e) PROVE Output'
  BY <1>6, <1>0 DEF PipesFail, Goto, Return
<1>7. ASSUME NEW e \in Execs, Confine(e) PROVE Output'
  BY <1>7, <1>0 DEF Confine, Goto
<1>8. ASSUME NEW e \in Execs, ConfineFails(e) PROVE Output'
  BY <1>8, <1>0 DEF ConfineFails, Goto, Return
<1>9. ASSUME NEW e \in Execs, Fork(e) PROVE Output'
  <2>1. /\ exec[e] = "confined" /\ exec' = [exec EXCEPT ![e] = "forked"]
        /\ kept[e] = {} /\ \A f \in Execs : f # e => kept'[f] = kept[f]
        /\ UNCHANGED <<how, left, pipe, captured, fds, outcome>>
    BY <1>9, <1>0 DEF Fork, Goto
  <2> QED BY <1>0, <2>1
<1>10. ASSUME NEW e \in Execs, ForkFails(e) PROVE Output'
  BY <1>10, <1>0 DEF ForkFails, Goto, Return
<1>11. ASSUME NEW e \in Execs, Register(e) PROVE Output'
  BY <1>11, <1>0 DEF Register, Goto
<1>12. ASSUME NEW e \in Execs, Attach(e) PROVE Output'
  BY <1>12, <1>0 DEF Attach, Goto
<1>13. ASSUME NEW e \in Execs, AttachFails(e) PROVE Output'
  <2>1. CASE child[e] = "alive"
    BY <1>13, <2>1, <1>0 DEF AttachFails, Goto, Return, Kill
  <2>2. CASE child[e] # "alive"
    BY <1>13, <2>2, <1>0 DEF AttachFails, Goto, Return, Kill
  <2> QED BY <2>1, <2>2
<1>14. ASSUME NEW e \in Execs, TakeExit(e) PROVE Output'
  BY <1>14, <1>0 DEF TakeExit, Goto, Supervised
<1>15. ASSUME NEW e \in Execs, Deadline(e) PROVE Output'
  <2>1. CASE child[e] = "alive"
    BY <1>15, <2>1, <1>0 DEF Deadline, Goto, Kill
  <2>2. CASE child[e] # "alive"
    BY <1>15, <2>2, <1>0 DEF Deadline, Goto, Kill
  <2> QED BY <2>1, <2>2
<1>16. ASSUME NEW e \in Execs, GraceEnds(e) PROVE Output'
  BY <1>16, <1>0 DEF GraceEnds, Goto, Supervised
<1>17. ASSUME NEW e \in Execs, Drain(e) PROVE Output'
  BY <1>17, <1>0 DEF Drain, Goto, Return
<1>18. ASSUME NEW e \in Execs, DrainTimesOut(e) PROVE Output'
  <2>1. /\ exec[e] = "drain" /\ exec' = [exec EXCEPT ![e] = "done"]
        /\ outcome' = [outcome EXCEPT ![e] = outcome[e]] /\ pipe' = [pipe EXCEPT ![e] = 0]
        /\ UNCHANGED <<how, left, captured, fds, kept>>
    BY <1>18, <1>0 DEF DrainTimesOut, Return, Goto
  <2>2. e \in late \/ \E f \in Execs : <<e, "out_w">> \in kept[f]
    BY <1>18, <1>0 DEF DrainTimesOut, HasEof, HeldOutside
  <2> QED BY <1>0, <2>1, <2>2
<1>19. ASSUME NEW e \in Execs, Teardown(e) PROVE Output'
  <2>1. CASE child[e] = "alive"
    BY <1>19, <2>1, <1>0 DEF Teardown, Goto, Kill
  <2>2. CASE child[e] # "alive"
    BY <1>19, <2>2, <1>0 DEF Teardown, Goto, Kill
  <2> QED BY <2>1, <2>2
<1>20. ASSUME NEW e \in Execs, Cancel(e) PROVE Output'
  <2>1. CASE child[e] = "alive"
    BY <1>20, <2>1, <1>0 DEF Cancel, Goto, Kill
  <2>2. CASE child[e] # "alive"
    BY <1>20, <2>2, <1>0 DEF Cancel, Goto, Kill
  <2> QED BY <2>1, <2>2
<1>21. ASSUME NEW e \in Execs, StdinDone(e) PROVE Output'
  BY <1>21, <1>0 DEF StdinDone, Goto
<1>22. ASSUME NEW e \in Execs, ReadEnds(e) PROVE Output'
  BY <1>22, <1>0 DEF ReadEnds, Goto
<1>23. ASSUME NEW e \in Execs, ChildWrites(e) PROVE Output'
  <2>1. /\ child[e] = "alive" /\ left[e] > 0
        /\ left' = [left EXCEPT ![e] = @ - 1] /\ pipe' = [pipe EXCEPT ![e] = @ + 1]
        /\ UNCHANGED <<exec, how, captured, fds, kept, outcome>>
    BY <1>23, <1>0 DEF ChildWrites
  <2>2. left'[e] + pipe'[e] = left[e] + pipe[e] /\ how[e] # "exit"
    <3>1. left'[e] = left[e] - 1 /\ pipe'[e] = pipe[e] + 1 /\ left[e] \in Nat /\ pipe[e] \in Nat
      BY <1>0, <2>1
    <3>2. how[e] # "exit"
      BY <1>0, <2>1
    <3> QED BY <3>1, <3>2
  <2>3. \A f \in Execs \ {e} : left'[f] = left[f] /\ pipe'[f] = pipe[f]
    BY <1>0, <2>1
  <2> QED BY <1>0, <2>1, <2>2, <2>3
<1>24. ASSUME NEW e \in Execs, ChildExits(e) PROVE Output'
  BY <1>24, <1>0 DEF ChildExits, Goto
<1>25. ASSUME ReaperWakes PROVE Output'
  BY <1>25, <1>0 DEF ReaperWakes
<1>26. ASSUME ReaperSleeps PROVE Output'
  BY <1>26, <1>0 DEF ReaperSleeps
<1>27. ASSUME NEW e \in Execs, Wait4(e) PROVE Output'
  BY <1>27, <1>0 DEF Wait4, Goto
<1>28. ASSUME NEW e \in Execs, Route(e) PROVE Output'
  BY <1>28, <1>0 DEF Route, Goto
<1>29. ASSUME UNCHANGED vars PROVE Output'
  BY <1>29, <1>0 DEF vars, moving
<1> QED
  BY <1>1, <1>2, <1>3, <1>4, <1>5, <1>6, <1>7, <1>8, <1>9, <1>10, <1>11, <1>12, <1>13, <1>14,
     <1>15, <1>16, <1>17, <1>18, <1>19, <1>20, <1>21, <1>22, <1>23, <1>24, <1>25, <1>26, <1>27,
     <1>28, <1>29
     DEF Next, Step, Setup, Supervise, Reaper

(***************************************************************************)
(* The invariant and the properties.                                       *)
(***************************************************************************)
\* Before the first execution everything is free, empty and unregistered.
LEMMA InitSandboxInv == Init => SandboxInv
<1> SUFFICES ASSUME Init PROVE SandboxInv
  OBVIOUS
<1> USE SandboxAssumption DEF Init
<1>1. TypeOK
  <2>1. PICK s \in Settings : need = s.need /\ late = s.late
    OBVIOUS
  <2>2. s \in [need : [Execs -> Nat], late : SUBSET Execs]
    OBVIOUS
  <2>3. need \in [Execs -> Nat] /\ late \subseteq Execs
    BY <2>1, <2>2
  <2>4. free \in 0 .. Total /\ waitq \in Seq(Execs)
    OBVIOUS
  <2>5. /\ left \in [Execs -> Nat] /\ pipe \in [Execs -> 0 .. PipeCap]
        /\ captured \in [Execs -> 0 .. MaxOut]
    OBVIOUS
  <2> QED BY <2>3, <2>4, <2>5 DEF TypeOK, Holding
<1>2. Queue
  BY DEF Queue
<1>3. Budget
  <2>1. Units(Holders) = {}
    BY DEF Holders, Holding, Units
  <2>2. Cardinality(Units(Holders)) = 0
    BY <2>1, FS_EmptySet
  <2> QED BY <2>2 DEF Budget
<1>4. Stages
  BY DEF Stages, PreFork
<1>5. Status
  BY DEF Status, StatusIsTheChilds
<1>6. Output
  BY DEF Output, OutputIsWhole
<1> QED BY <1>1, <1>2, <1>3, <1>4, <1>5, <1>6 DEF SandboxInv

\* The invariant holds in every reachable state.
LEMMA SandboxInvHolds == Spec => []SandboxInv
<1>1. SandboxInv /\ [Next]_vars => SandboxInv'
  BY NextQueue, NextBudget, NextTypeOK, NextStages, NextOutput DEF SandboxInv
<1> QED BY <1>1, InitSandboxInv, PTL DEF Spec

\* Every variable keeps its type; in particular the semaphore never holds more
\* permits than the budget and the captured output never exceeds its limit.
THEOREM SandboxTypeCorrect == Spec => []TypeOK
<1>1. SandboxInv => TypeOK
  BY DEF SandboxInv
<1> QED BY <1>1, SandboxInvHolds, PTL

\* The living children never need more than the budget, and no permit is lost or
\* made up (admission.rs), for any number of executions of any size.
THEOREM SandboxStaysInBudget == Spec => []AliveWithinBudget
<1>1. ASSUME SandboxInv PROVE AliveWithinBudget
  <2> DEFINE living == {e \in Execs : child[e] = "alive"}
  <2>1. need \in [Execs -> Nat] /\ free \in 0 .. Total /\ Total \in Nat
    BY <1>1, SandboxAssumption DEF SandboxInv, TypeOK
  <2>2. living \subseteq Holders /\ Holders \in SUBSET Execs
    BY <1>1 DEF SandboxInv, Stages, Holders, Holding
  <2>3. Units(living) \subseteq Units(Holders)
    BY <2>2 DEF Units
  <2>4. IsFiniteSet(Units(Holders))
    BY <2>1, <2>2, UnitsFinite
  <2>5. /\ Cardinality(Units(living)) <= Cardinality(Units(Holders))
        /\ Cardinality(Units(living)) \in Nat /\ Cardinality(Units(Holders)) \in Nat
    BY <2>3, <2>4, FS_Subset, FS_CardinalityType
  <2>6. free + Cardinality(Units(Holders)) = Total
    BY <1>1 DEF SandboxInv, Budget
  <2>7. Cardinality(Units(living)) <= Total
    <3> HIDE DEF living
    <3> QED BY <2>1, <2>5, <2>6
  <2> QED BY <2>6, <2>7 DEF AliveWithinBudget, Holders
<1> QED BY <1>1, SandboxInvHolds, PTL

\* The status in the result is the child's own (reaper.rs 13), and the supervisor
\* makes one up only where the grace second ends before the reaper was scheduled.
THEOREM SandboxReportsTheChild == Spec => []StatusIsTheChilds
<1>1. SandboxInv => StatusIsTheChilds
  BY DEF SandboxInv, Status
<1> QED BY <1>1, SandboxInvHolds, PTL

\* A program that ended by itself is judged on all it wrote, unless another child
\* inherited the write end of its pipe or the read was starved past its timeout.
THEOREM SandboxKeepsOutput == Spec => []OutputIsWhole
<1>1. SandboxInv => OutputIsWhole
  BY DEF SandboxInv, Output
<1> QED BY <1>1, SandboxInvHolds, PTL
=============================================================================
