-------------------------- MODULE WorkerPoolProofs --------------------------
(***************************************************************************)
(* Proofs about WorkerPool, for any number of callers and workers, any     *)
(* queue limit and any width of the counters.                              *)
(***************************************************************************)
EXTENDS WorkerPool, FiniteSetTheorems, TLAPS

-----------------------------------------------------------------------------
\* The type invariant is inductive.
LEMMA InitType == Init => TypeOK
  BY PoolAssumption DEF Init, TypeOK, CallStates, WorkerStates

\* Every step of a caller, of a worker and of DropReceiver keeps the types.
LEMMA NextType == TypeOK /\ [Next]_vars => TypeOK'
<1> SUFFICES ASSUME TypeOK, [Next]_vars PROVE TypeOK'
  OBVIOUS
<1> USE PoolAssumption DEF TypeOK, CallStates, WorkerStates
<1>c. crew' = crew
  BY DEF Next, vars
<1>1. ASSUME NEW c \in Calls, CheckFull(c) PROVE TypeOK'
  BY <1>1, <1>c DEF CheckFull
<1>2. ASSUME NEW c \in Calls, CountQueued(c) PROVE TypeOK'
  BY <1>2, <1>c DEF CountQueued
<1>3. ASSUME NEW c \in Calls, Send(c) PROVE TypeOK'
  <2>1. CASE open
    BY <1>3, <1>c, <2>1 DEF Send
  <2>2. CASE ~open
    BY <1>3, <1>c, <2>2 DEF Send
  <2> QED
    BY <2>1, <2>2
<1>4. ASSUME NEW c \in Calls, Refuse(c) PROVE TypeOK'
  BY <1>4, <1>c DEF Refuse, FetchSub
<1>5. ASSUME NEW c \in Calls, CancelCall(c) PROVE TypeOK'
  BY <1>5, <1>c DEF CancelCall
<1>6. ASSUME NEW w \in Workers, Recv(w) PROVE TypeOK'
  BY <1>6, <1>c DEF Recv
<1>7. ASSUME NEW w \in Workers, Dequeue(w) PROVE TypeOK'
  BY <1>7, <1>c DEF Dequeue, FetchSub
<1>8. ASSUME NEW w \in Workers, BeginRun(w) PROVE TypeOK'
  BY <1>8, <1>c DEF BeginRun
<1>9. ASSUME NEW w \in Workers, Reply(w) PROVE TypeOK'
  BY <1>9, <1>c DEF Reply
<1>10. ASSUME NEW w \in Workers, EndRun(w) PROVE TypeOK'
  BY <1>10, <1>c DEF EndRun, FetchSub
<1>11. CASE DropReceiver
  <2>1. call' \in [Calls -> CallStates] /\ open' \in BOOLEAN
    BY <1>11, <1>c DEF DropReceiver
  <2>2. chan' \in Seq(Calls)
    BY <1>11, <1>c DEF DropReceiver
  <2> QED
    BY <1>11, <1>c, <2>1, <2>2 DEF DropReceiver
<1>12. CASE UNCHANGED vars
  BY <1>12 DEF vars, moving
<1> QED
  BY <1>1, <1>2, <1>3, <1>4, <1>5, <1>6, <1>7, <1>8, <1>9, <1>10, <1>11, <1>12
     DEF Next, Step, Submit, Work

\* The pool's counters stay natural numbers and its channel a sequence of calls,
\* whatever the interleaving of callers and workers.
THEOREM PoolTypeCorrect == Spec => []TypeOK
  BY InitType, NextType, PTL DEF Spec

-----------------------------------------------------------------------------
\* A worker holds an envelope from recv to the reply, and only then; whoever is
\* not of the crew never leaves recv.
HoldsMatch ==
    /\ \A w \in Workers : holds[w] # NoCall <=> wpc[w] \in {"got", "dequeued", "run"}
    /\ \A w \in Workers \ crew : wpc[w] = "recv"

\* Where the envelopes are: inductive without the counters.
Envelope == TypeOK /\ HoldsMatch /\ AwaitedHasEnvelope

\* At the start nobody awaits and no envelope exists.
LEMMA InitEnvelope == Init => Envelope
<1> SUFFICES ASSUME Init PROVE HoldsMatch /\ AwaitedHasEnvelope
  BY InitType DEF Envelope
<1>1. HoldsMatch
  BY DEF Init, HoldsMatch
<1>2. AwaitedHasEnvelope
  BY PoolAssumption DEF Init, AwaitedHasEnvelope, InChan, Held
<1> QED
  BY <1>1, <1>2

\* What Append and Tail do to the contents of a sequence.
LEMMA AppendFacts ==
  ASSUME NEW S, NEW q \in Seq(S), NEW x \in S
  PROVE  /\ Len(Append(q, x)) = Len(q) + 1
         /\ \A i \in 1 .. Len(q) : Append(q, x)[i] = q[i]
         /\ Append(q, x)[Len(q) + 1] = x
  OBVIOUS

\* Dropping the head of a sequence without repetitions drops exactly that element.
LEMMA TailFacts ==
  ASSUME NEW S, NEW q \in Seq(S), q # <<>>
  PROVE  /\ Len(q) \in Nat \ {0} /\ Head(q) = q[1] /\ Head(q) \in S
         /\ Len(Tail(q)) = Len(q) - 1
         /\ \A i \in 1 .. Len(q) - 1 : Tail(q)[i] = q[i + 1]
  OBVIOUS

\* Every step keeps one envelope per awaiting caller (inductive with HoldsMatch).
LEMMA NextEnvelope == Envelope /\ [Next]_vars => Envelope'
<1> SUFFICES ASSUME Envelope, [Next]_vars PROVE HoldsMatch' /\ AwaitedHasEnvelope'
  BY NextType DEF Envelope
<1>t. TypeOK /\ TypeOK' /\ HoldsMatch /\ AwaitedHasEnvelope
  BY NextType DEF Envelope
<1> USE PoolAssumption
<1>c. crew' = crew
  BY DEF Next, vars
<1>1. ASSUME NEW c \in Calls, CheckFull(c) \/ CountQueued(c) \/ Refuse(c) \/ CancelCall(c)
      PROVE  HoldsMatch' /\ AwaitedHasEnvelope'
  <2>1. chan' = chan /\ holds' = holds /\ wpc' = wpc
    BY <1>1 DEF CheckFull, CountQueued, Refuse, CancelCall
  <2>2. \A d \in Calls : call'[d] \in {"sent", "gone"} <=> call[d] \in {"sent", "gone"}
    BY <1>1, <1>t DEF CheckFull, CountQueued, Refuse, CancelCall, TypeOK
  <2> QED
    BY <2>1, <2>2, <1>c, <1>t DEF HoldsMatch, AwaitedHasEnvelope, InChan, Held
<1>2. ASSUME NEW c \in Calls, Send(c), ~open PROVE HoldsMatch' /\ AwaitedHasEnvelope'
  <2>1. chan' = chan /\ holds' = holds /\ wpc' = wpc
    BY <1>2 DEF Send
  <2>2. \A d \in Calls : call'[d] \in {"sent", "gone"} <=> call[d] \in {"sent", "gone"}
    BY <1>2, <1>t DEF Send, TypeOK
  <2> QED
    BY <2>1, <2>2, <1>c, <1>t DEF HoldsMatch, AwaitedHasEnvelope, InChan, Held
<1>3. ASSUME NEW c \in Calls, Send(c), open PROVE HoldsMatch' /\ AwaitedHasEnvelope'
  <2>1. holds' = holds /\ wpc' = wpc /\ chan' = Append(chan, c) /\ call[c] = "counted"
    BY <1>3 DEF Send
  <2>2. /\ call'[c] = "sent"
        /\ \A d \in Calls : d # c => call'[d] = call[d]
    BY <1>3, <1>t DEF Send, TypeOK
  <2>3. ~InChan(c) /\ ~Held(c)
    BY <2>1, <1>t DEF AwaitedHasEnvelope
  <2>4. /\ Len(chan) \in Nat /\ Len(chan') = Len(chan) + 1 /\ chan'[Len(chan) + 1] = c
        /\ \A i \in 1 .. Len(chan) : chan'[i] = chan[i]
    BY <2>1, <1>t, AppendFacts DEF TypeOK
  <2>5. \A d \in Calls : InChan(d)' <=> (InChan(d) \/ d = c)
    BY <2>4 DEF InChan
  <2>6. \A d \in Calls : Held(d)' <=> Held(d)
    BY <2>1 DEF Held
  <2>7. \A i, k \in 1 .. Len(chan') : chan'[i] = chan'[k] => i = k
    BY <2>3, <2>4, <1>t DEF AwaitedHasEnvelope, InChan
  <2> QED
    BY <2>1, <2>2, <2>3, <2>5, <2>6, <2>7, <1>c, <1>t DEF HoldsMatch, AwaitedHasEnvelope
<1>4. ASSUME NEW w \in Workers, w \in crew, Recv(w) PROVE HoldsMatch' /\ AwaitedHasEnvelope'
  <2> DEFINE c == Head(chan)
  <2>1. /\ Len(chan) \in Nat \ {0} /\ c = chan[1] /\ c \in Calls
        /\ Len(chan') = Len(chan) - 1
        /\ \A i \in 1 .. Len(chan) - 1 : chan'[i] = chan[i + 1]
    BY <1>4, <1>t, TailFacts DEF Recv, TypeOK
  <2>2. /\ call' = call /\ holds'[w] = c /\ holds[w] = NoCall /\ c # NoCall
        /\ \A v \in Workers : v # w => holds'[v] = holds[v]
    BY <1>4, <1>t, <2>1 DEF Recv, TypeOK, HoldsMatch
  <2>3. HoldsMatch'
    BY <1>4, <1>c, <1>t, <2>2 DEF Recv, HoldsMatch, TypeOK
  <2>4. InChan(c) /\ ~Held(c)
    BY <2>1, <1>t DEF InChan, AwaitedHasEnvelope
  <2>5. \A d \in Calls : InChan(d)' <=> (InChan(d) /\ d # c)
    <3>1. ASSUME NEW d \in Calls, InChan(d)' PROVE InChan(d) /\ d # c
      BY <3>1, <2>1, <1>t DEF InChan, AwaitedHasEnvelope
    <3>2. ASSUME NEW d \in Calls, InChan(d), d # c PROVE InChan(d)'
      <4>1. PICK i \in 1 .. Len(chan) : chan[i] = d
        BY <3>2 DEF InChan
      <4>2. i - 1 \in 1 .. Len(chan') /\ chan'[i - 1] = d
        BY <4>1, <3>2, <2>1
      <4> QED
        BY <4>2 DEF InChan
    <3> QED
      BY <3>1, <3>2
  <2>6. \A d \in Calls : Held(d)' <=> (Held(d) \/ d = c)
    BY <2>2 DEF Held
  <2>7. \A i, k \in 1 .. Len(chan') : chan'[i] = chan'[k] => i = k
    BY <2>1, <1>t DEF AwaitedHasEnvelope
  <2>8. \A v, u \in Workers : (holds'[v] = holds'[u] /\ holds'[u] # NoCall) => v = u
    BY <2>2, <2>4, <1>t DEF AwaitedHasEnvelope, Held
  <2> HIDE DEF c
  <2> QED
    BY <2>2, <2>3, <2>4, <2>5, <2>6, <2>7, <2>8, <1>t DEF AwaitedHasEnvelope
<1>5. ASSUME NEW w \in Workers, w \in crew, Dequeue(w) \/ BeginRun(w) \/ EndRun(w)
      PROVE  HoldsMatch' /\ AwaitedHasEnvelope'
  <2>1. call' = call /\ chan' = chan /\ holds' = holds
    BY <1>5 DEF Dequeue, BeginRun, EndRun
  <2>2. HoldsMatch'
    BY <1>5, <1>c, <1>t DEF Dequeue, BeginRun, EndRun, HoldsMatch, TypeOK
  <2> QED
    BY <2>1, <2>2, <1>t DEF AwaitedHasEnvelope, InChan, Held
<1>6. ASSUME NEW w \in Workers, w \in crew, Reply(w) PROVE HoldsMatch' /\ AwaitedHasEnvelope'
  <2> DEFINE c == holds[w]
  <2>1. c \in Calls /\ Held(c) /\ ~InChan(c)
    BY <1>6, <1>t DEF Reply, HoldsMatch, TypeOK, Held, AwaitedHasEnvelope
  <2>2. /\ chan' = chan /\ holds'[w] = NoCall /\ call'[c] = "idle"
        /\ \A v \in Workers : v # w => holds'[v] = holds[v] /\ holds[v] # c
        /\ \A d \in Calls : d # c => call'[d] = call[d]
    BY <1>6, <1>t, <2>1 DEF Reply, TypeOK, AwaitedHasEnvelope
  <2>3. HoldsMatch'
    BY <1>6, <1>c, <1>t, <2>2 DEF Reply, HoldsMatch, TypeOK
  <2>4. \A d \in Calls : InChan(d)' <=> InChan(d)
    BY <2>2 DEF InChan
  <2>5. \A d \in Calls : Held(d)' <=> (Held(d) /\ d # c)
    BY <2>2 DEF Held
  <2>6. \A v, u \in Workers : (holds'[v] = holds'[u] /\ holds'[u] # NoCall) => v = u
    BY <2>2, <1>t DEF AwaitedHasEnvelope
  <2> HIDE DEF c
  <2> QED
    BY <2>1, <2>2, <2>3, <2>4, <2>5, <2>6, <1>t DEF AwaitedHasEnvelope
<1>7. CASE DropReceiver
  <2>1. chan' = <<>> /\ wpc' = wpc /\ holds' = holds
    BY <1>7 DEF DropReceiver
  <2>4. \A w \in Workers : holds[w] = NoCall
    BY <1>7, <1>t DEF DropReceiver, HoldsMatch
  <2>2. \A d \in Calls : call'[d] \notin {"sent", "gone"}
    BY <1>7, <1>t DEF DropReceiver, TypeOK, CallStates
  <2>3. \A d \in Calls : ~InChan(d)' /\ ~Held(d)'
    BY <2>1, <2>4 DEF InChan, Held
  <2> QED
    BY <2>1, <2>2, <2>3, <1>c, <1>t DEF HoldsMatch, AwaitedHasEnvelope
<1>8. CASE UNCHANGED vars
  BY <1>8, <1>t DEF vars, moving, HoldsMatch, AwaitedHasEnvelope, InChan, Held
<1> QED
  BY <1>t, <1>1, <1>2, <1>3, <1>4, <1>5, <1>6, <1>7, <1>8 DEF TypeOK, Next, Step, Submit, Work

\* Every caller awaiting its result has exactly one envelope, in the channel or
\* with one worker: no submission is answered twice or stranded by the pool.
THEOREM PoolKeepsEnvelopes == Spec => []AwaitedHasEnvelope
<1>1. Envelope => AwaitedHasEnvelope
  BY DEF Envelope
<1> QED
  BY InitEnvelope, NextEnvelope, <1>1, PTL DEF Spec

-----------------------------------------------------------------------------
\* Adding or removing one member moves a finite set's cardinality by one.
LEMMA CardPlus ==
  ASSUME NEW S, IsFiniteSet(S), NEW T, NEW x, x \notin S, T = S \cup {x}
  PROVE  Cardinality(T) = Cardinality(S) + 1
  BY FS_AddElement

\* Removing one member takes one off the cardinality.
LEMMA CardMinus ==
  ASSUME NEW S, IsFiniteSet(S), NEW T, NEW x, x \in S, T = S \ {x}
  PROVE  Cardinality(T) = Cardinality(S) - 1 /\ Cardinality(S) > 0
<1>1. IsFiniteSet(T) /\ Cardinality(T) \in Nat
  BY FS_Subset, FS_CardinalityType, T \subseteq S
<1>2. S = T \cup {x} /\ x \notin T
  OBVIOUS
<1> QED
  BY <1>1, <1>2, FS_AddElement

\* The three sets the counters stand for are finite.
LEMMA FiniteParts ==
  /\ IsFiniteSet(Counted) /\ Cardinality(Counted) \in Nat
  /\ IsFiniteSet(Taken) /\ Cardinality(Taken) \in Nat
  /\ IsFiniteSet(Running) /\ Cardinality(Running) \in Nat
<1>1. Counted \subseteq Calls /\ Taken \subseteq Workers /\ Running \subseteq Workers
  BY DEF Counted, Taken, Running
<1> QED
  BY <1>1, FS_Subset, FS_CardinalityType, PoolAssumption

\* The same three sets after a step.
LEMMA FinitePartsNext ==
  /\ IsFiniteSet(Counted') /\ Cardinality(Counted') \in Nat
  /\ IsFiniteSet(Taken') /\ Cardinality(Taken') \in Nat
  /\ IsFiniteSet(Running') /\ Cardinality(Running') \in Nat
<1>1. Counted' \subseteq Calls /\ Taken' \subseteq Workers /\ Running' \subseteq Workers
  BY DEF Counted, Taken, Running
<1> QED
  BY <1>1, FS_Subset, FS_CardinalityType, PoolAssumption

-----------------------------------------------------------------------------
\* Both accounting equations together are inductive.
Accounting == TypeOK /\ QueueAccounting /\ BusyAccounting

\* At the start both counters are zero, and so are the sets they count.
LEMMA InitAccounting == Init => Accounting
<1> SUFFICES ASSUME Init PROVE Accounting
  OBVIOUS
<1>1. Counted = {} /\ Taken = {} /\ Running = {}
  BY DEF Init, Counted, Taken, Running
<1>2. Cardinality({}) = 0
  BY FS_EmptySet
<1>3. Cardinality(crew) \in Nat
  BY PoolAssumption, FS_Subset, FS_CardinalityType DEF Init
<1>4. Len(chan) = 0 /\ queued = 0 /\ busy = 0
  BY DEF Init
<1> QED
  BY InitType, <1>1, <1>2, <1>3, <1>4 DEF Accounting, QueueAccounting, BusyAccounting

\* Every step moves each counter together with the set it counts.
LEMMA NextAccounting == Envelope /\ Accounting /\ [Next]_vars => Accounting'
<1> SUFFICES ASSUME Envelope, Accounting, [Next]_vars PROVE QueueAccounting' /\ BusyAccounting'
  BY NextType DEF Accounting
<1>e. Envelope
  OBVIOUS
<1>t. TypeOK /\ TypeOK'
  BY NextType DEF Accounting
<1>c. crew' = crew /\ crew \subseteq Workers
  BY <1>t DEF Next, vars, TypeOK
<1>f. /\ Cardinality(Counted) \in Nat /\ Cardinality(Taken) \in Nat
      /\ Cardinality(Running) \in Nat /\ Cardinality(crew) \in Nat
      /\ Cardinality(Counted') \in Nat /\ Cardinality(Taken') \in Nat
      /\ Cardinality(Running') \in Nat
      /\ Len(chan) \in Nat /\ Len(chan') \in Nat
  BY FiniteParts, FinitePartsNext, FS_Subset, FS_CardinalityType, PoolAssumption, <1>c, <1>t DEF TypeOK
<1>r. Cardinality(Running') <= Cardinality(crew')
  <2>1. Running' \subseteq crew'
    BY NextEnvelope DEF Running, Envelope, HoldsMatch
  <2> QED
    BY <2>1, <1>c, FS_Subset, PoolAssumption
<1>q. /\ queued >= Cardinality(Counted) + Len(chan) + Cardinality(Taken)
      /\ open => queued = Cardinality(Counted) + Len(chan) + Cardinality(Taken)
      /\ busy = Cardinality(Running)
      /\ queued \in Nat /\ busy \in Nat
  BY DEF Accounting, QueueAccounting, BusyAccounting, TypeOK
<1>1. ASSUME NEW c \in Calls, CheckFull(c) PROVE QueueAccounting' /\ BusyAccounting'
  <2>1. Counted' = Counted /\ Taken' = Taken /\ Running' = Running
    BY <1>1, <1>t DEF CheckFull, Counted, Taken, Running, TypeOK
  <2> QED
    BY <1>1, <2>1, <1>q, <1>c, <1>f, <1>r DEF CheckFull, QueueAccounting, BusyAccounting
<1>2. ASSUME NEW c \in Calls, CountQueued(c) PROVE QueueAccounting' /\ BusyAccounting'
  <2>1. Taken' = Taken /\ Running' = Running
    BY <1>2 DEF CountQueued, Taken, Running
  <2>2. Counted' = Counted \cup {c} /\ c \notin Counted
    BY <1>2, <1>t DEF CountQueued, Counted, TypeOK
  <2>3. Cardinality(Counted') = Cardinality(Counted) + 1
    BY <2>2, CardPlus, FiniteParts
  <2> QED
    BY <1>2, <2>1, <2>3, <1>q, <1>c, <1>f, <1>r DEF CountQueued, QueueAccounting, BusyAccounting
<1>3. ASSUME NEW c \in Calls, Send(c) PROVE QueueAccounting' /\ BusyAccounting'
  <2>1. Taken' = Taken /\ Running' = Running
    BY <1>3 DEF Send, Taken, Running
  <2>2. CASE open
    <3>1. Counted' = Counted \ {c} /\ c \in Counted
      BY <1>3, <2>2, <1>t DEF Send, Counted, TypeOK
    <3>2. Cardinality(Counted') = Cardinality(Counted) - 1
      BY <3>1, CardMinus, FiniteParts
    <3>3. Len(chan') = Len(chan) + 1
      BY <1>3, <2>2, <1>t DEF Send, TypeOK
    <3> QED
      BY <1>3, <2>1, <2>2, <3>2, <3>3, <1>q, <1>c, <1>f, <1>r
         DEF Send, QueueAccounting, BusyAccounting
  <2>3. CASE ~open
    <3>1. Counted' = Counted
      BY <1>3, <2>3, <1>t DEF Send, Counted, TypeOK
    <3> QED
      BY <1>3, <2>1, <2>3, <3>1, <1>q, <1>c, <1>f, <1>r DEF Send, QueueAccounting, BusyAccounting
  <2> QED
    BY <2>2, <2>3
<1>4. ASSUME NEW c \in Calls, Refuse(c) PROVE QueueAccounting' /\ BusyAccounting'
  <2>1. Taken' = Taken /\ Running' = Running
    BY <1>4 DEF Refuse, Taken, Running
  <2>2. Counted' = Counted \ {c} /\ c \in Counted
    BY <1>4, <1>t DEF Refuse, Counted, TypeOK
  <2>3. Cardinality(Counted') = Cardinality(Counted) - 1 /\ Cardinality(Counted) > 0
    BY <2>2, CardMinus, FiniteParts
  <2> QED
    BY <1>4, <2>1, <2>3, <1>q, <1>c, <1>f, <1>r DEF Refuse, FetchSub, QueueAccounting, BusyAccounting
<1>5. ASSUME NEW c \in Calls, CancelCall(c) PROVE QueueAccounting' /\ BusyAccounting'
  <2>1. Counted' = Counted /\ Taken' = Taken /\ Running' = Running
    BY <1>5, <1>t DEF CancelCall, Counted, Taken, Running, TypeOK
  <2> QED
    BY <1>5, <2>1, <1>q, <1>c, <1>f, <1>r DEF CancelCall, QueueAccounting, BusyAccounting
<1>6. ASSUME NEW w \in Workers, w \in crew, Recv(w) PROVE QueueAccounting' /\ BusyAccounting'
  <2>1. Counted' = Counted /\ Running' = Running
    BY <1>6, <1>t DEF Recv, Counted, Running, TypeOK
  <2>2. Taken' = Taken \cup {w} /\ w \notin Taken
    BY <1>6, <1>t DEF Recv, Taken, TypeOK
  <2>3. Cardinality(Taken') = Cardinality(Taken) + 1
    BY <2>2, CardPlus, FiniteParts
  <2>4. Len(chan') = Len(chan) - 1
    BY <1>6, <1>t DEF Recv, TypeOK
  <2> QED
    BY <1>6, <2>1, <2>3, <2>4, <1>q, <1>c, <1>f, <1>r DEF Recv, QueueAccounting, BusyAccounting
<1>7. ASSUME NEW w \in Workers, w \in crew, Dequeue(w) PROVE QueueAccounting' /\ BusyAccounting'
  <2>1. Counted' = Counted /\ Running' = Running
    BY <1>7, <1>t DEF Dequeue, Counted, Running, TypeOK
  <2>2. Taken' = Taken \ {w} /\ w \in Taken
    BY <1>7, <1>t DEF Dequeue, Taken, TypeOK
  <2>3. Cardinality(Taken') = Cardinality(Taken) - 1 /\ Cardinality(Taken) > 0
    BY <2>2, CardMinus, FiniteParts
  <2> QED
    BY <1>7, <2>1, <2>3, <1>q, <1>c, <1>f, <1>r DEF Dequeue, FetchSub, QueueAccounting, BusyAccounting
<1>8. ASSUME NEW w \in Workers, w \in crew, BeginRun(w) PROVE QueueAccounting' /\ BusyAccounting'
  <2>1. Counted' = Counted /\ Taken' = Taken
    BY <1>8, <1>t DEF BeginRun, Counted, Taken, TypeOK
  <2>2. Running' = Running \cup {w} /\ w \notin Running
    BY <1>8, <1>t DEF BeginRun, Running, TypeOK
  <2>3. Cardinality(Running') = Cardinality(Running) + 1
    BY <2>2, CardPlus, FiniteParts
  <2> QED
    BY <1>8, <2>1, <2>3, <1>q, <1>c, <1>f, <1>r DEF BeginRun, QueueAccounting, BusyAccounting
<1>9. ASSUME NEW w \in Workers, w \in crew, Reply(w) PROVE QueueAccounting' /\ BusyAccounting'
  <2>1. Taken' = Taken /\ Running' = Running
    BY <1>9, <1>t DEF Reply, Taken, Running, TypeOK
  <2>2. call[holds[w]] \in {"sent", "gone"}
    BY <1>9, <1>e DEF Reply, Envelope, HoldsMatch, AwaitedHasEnvelope, Held, TypeOK
  <2>3. Counted' = Counted
    BY <1>9, <2>2, <1>t DEF Reply, Counted, TypeOK
  <2> QED
    BY <1>9, <2>1, <2>3, <1>q, <1>c, <1>f, <1>r DEF Reply, QueueAccounting, BusyAccounting
<1>10. ASSUME NEW w \in Workers, w \in crew, EndRun(w) PROVE QueueAccounting' /\ BusyAccounting'
  <2>1. Counted' = Counted /\ Taken' = Taken
    BY <1>10, <1>t DEF EndRun, Counted, Taken, TypeOK
  <2>2. Running' = Running \ {w} /\ w \in Running
    BY <1>10, <1>t DEF EndRun, Running, TypeOK
  <2>3. Cardinality(Running') = Cardinality(Running) - 1 /\ Cardinality(Running) > 0
    BY <2>2, CardMinus, FiniteParts
  <2> QED
    BY <1>10, <2>1, <2>3, <1>q, <1>c, <1>f, <1>r DEF EndRun, FetchSub, QueueAccounting, BusyAccounting
<1>11. CASE DropReceiver
  <2>1. Counted' = Counted /\ Taken' = Taken /\ Running' = Running
    BY <1>11, <1>t DEF DropReceiver, Counted, Taken, Running, TypeOK
  <2>2. Len(chan') = 0
    BY <1>11 DEF DropReceiver
  <2> QED
    BY <1>11, <2>1, <2>2, <1>q, <1>c, <1>f, <1>r DEF DropReceiver, QueueAccounting, BusyAccounting
<1>12. CASE UNCHANGED vars
  <2>1. Counted' = Counted /\ Taken' = Taken /\ Running' = Running
    BY <1>12 DEF vars, moving, Counted, Taken, Running
  <2> QED
    BY <1>12, <2>1, <1>q, <1>c, <1>f, <1>r DEF vars, moving, QueueAccounting, BusyAccounting
<1> QED
  BY <1>1, <1>2, <1>3, <1>4, <1>5, <1>6, <1>7, <1>8, <1>9, <1>10, <1>11, <1>12, <1>c
     DEF Next, Step, Submit, Work

\* queued_jobs and busy_workers say the truth in every state: the first counts
\* the envelopes not yet started, the second the workers between their two
\* updates, for any number of callers and workers.
THEOREM PoolCountersExact == Spec => []CountersExact
<1>1. Envelope /\ Accounting => CountersExact
  BY DEF Accounting, CountersExact
<1>2. Init => Envelope /\ Accounting
  BY InitEnvelope, InitAccounting
<1>3. Envelope /\ Accounting /\ [Next]_vars => (Envelope /\ Accounting)'
  BY NextEnvelope, NextAccounting
<1> QED
  BY <1>1, <1>2, <1>3, PTL DEF Spec

\* A counter is above zero whenever a fetch_sub is next, so neither counter
\* ever wraps to usize::MAX.
THEOREM PoolNeverUnderflows == Spec => []NoUnderflow
<1>1. Accounting => NoUnderflow
  <2> SUFFICES ASSUME Accounting PROVE NoUnderflow
    OBVIOUS
  <2>t. /\ queued \in Nat /\ busy \in Nat /\ Len(chan) \in Nat
        /\ queued >= Cardinality(Counted) + Len(chan) + Cardinality(Taken)
        /\ busy = Cardinality(Running)
    BY DEF Accounting, TypeOK, QueueAccounting, BusyAccounting
  <2>1. ASSUME NEW c \in Calls, call[c] = "refused" PROVE queued > 0
    <3>1. c \in Counted
      BY <2>1 DEF Counted
    <3>2. Cardinality(Counted) > 0
      BY <3>1, CardMinus, FiniteParts
    <3> QED
      BY <3>2, <2>t, FiniteParts
  <2>2. ASSUME NEW w \in Taken PROVE queued > 0
    <3>1. Cardinality(Taken) > 0
      BY CardMinus, FiniteParts
    <3> QED
      BY <3>1, <2>t, FiniteParts
  <2>3. ASSUME NEW w \in Workers, wpc[w] = "reply" PROVE busy > 0
    <3>1. w \in Running
      BY <2>3 DEF Running
    <3>2. Cardinality(Running) > 0
      BY <3>1, CardMinus, FiniteParts
    <3> QED
      BY <3>2, <2>t
  <2> QED
    BY <2>1, <2>2, <2>3 DEF NoUnderflow
<1>2. Init => Envelope /\ Accounting
  BY InitEnvelope, InitAccounting
<1>3. Envelope /\ Accounting /\ [Next]_vars => (Envelope /\ Accounting)'
  BY NextEnvelope, NextAccounting
<1> QED
  BY <1>1, <1>2, <1>3, PTL DEF Spec
=============================================================================
