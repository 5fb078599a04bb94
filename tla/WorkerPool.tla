----------------------------- MODULE WorkerPool -----------------------------
(***************************************************************************)
(* JudgeWorkerPool (src/src/orchestrator/pool.rs): submit() puts an        *)
(* envelope into an unbounded channel, num_workers tasks drain it, two     *)
(* relaxed atomic counters (queued_jobs, busy_workers) drive back-pressure *)
(* and the statistics.  Every atomic access and every channel operation is *)
(* one step: callers and workers run on different threads.                 *)
(***************************************************************************)
EXTENDS Integers, Sequences, FiniteSets

CONSTANTS
    Calls,      \* slots of submit() calls; a slot is reused when its envelope is gone
    Workers,    \* the worker ids a node may configure
    Crews,      \* the crews a node may start with
    MaxQueue,   \* JUDGE_MAX_QUEUE
    MaxUsize,   \* usize::MAX, what fetch_sub leaves behind at 0
    NoCall      \* a worker without an envelope

ASSUME PoolAssumption == /\ IsFiniteSet(Calls)
                         /\ IsFiniteSet(Workers)
                         /\ Crews \subseteq SUBSET Workers
                         /\ MaxQueue \in Nat
                         /\ MaxUsize \in Nat
                         /\ NoCall \notin Calls

VARIABLES
    crew,     \* 0 .. num_workers-1; empty on a control-plane-only node
    call,     \* where each submit() call is
    chan,     \* the mpsc channel: envelopes, named by their call
    open,     \* the receiver exists
    queued,   \* queued_jobs
    busy,     \* busy_workers
    wpc,      \* where each worker is
    holds     \* the call whose envelope a worker has taken

moving == <<call, chan, open, queued, busy, wpc, holds>>
vars == <<crew, moving>>

CallStates == {"idle",      \* not in submit()
               "checked",   \* passed the saturation check
               "counted",   \* after fetch_add, before send
               "refused",   \* send failed, before fetch_sub
               "sent",      \* awaiting the oneshot
               "gone"}      \* future dropped while its envelope lives on
WorkerStates == {"recv",    \* lock().await, recv().await
                 "got",     \* envelope taken, counters not yet moved
                 "dequeued",\* after queued.fetch_sub
                 "run",     \* ExecutionPipeline::execute
                 "reply"}   \* result sent, busy not yet decremented

TypeOK ==
    /\ crew \subseteq Workers
    /\ call \in [Calls -> CallStates]
    /\ chan \in Seq(Calls)
    /\ open \in BOOLEAN
    /\ queued \in Nat
    /\ busy \in Nat
    /\ wpc \in [Workers -> WorkerStates]
    /\ holds \in [Workers -> Calls \cup {NoCall}]

Init ==
    /\ crew \in Crews
    /\ call = [c \in Calls |-> "idle"]
    /\ chan = <<>>
    /\ open = TRUE
    /\ queued = 0
    /\ busy = 0
    /\ wpc = [w \in Workers |-> "recv"]
    /\ holds = [w \in Workers |-> NoCall]

\* fetch_sub wraps at zero; fetch_add is never near usize::MAX.
FetchSub(n) == IF n = 0 THEN MaxUsize ELSE n - 1

(***************************************************************************)
(* submit(): nothing is awaited before the oneshot, so a call can only be  *)
(* cancelled there; but other threads run between any two of its steps.    *)
(***************************************************************************)

\* Mutant: a refused caller is parked instead of answered.
CheckFullParks(c) ==
    /\ call[c] = "idle"
    /\ call' = [call EXCEPT ![c] = IF queued < MaxQueue THEN "checked" ELSE "parked"]
    /\ UNCHANGED <<chan, open, queued, busy, wpc, holds>>

\* queued_jobs.load() >= max_queue_size: Err("QUEUE_FULL"), the slot stays idle.
CheckFull(c) ==
    /\ call[c] = "idle"
    /\ queued < MaxQueue
    /\ call' = [call EXCEPT ![c] = "checked"]
    /\ UNCHANGED <<chan, open, queued, busy, wpc, holds>>

\* Mutant: fetch_add is forgotten.
CountQueuedNot(c) ==
    /\ call[c] = "checked"
    /\ call' = [call EXCEPT ![c] = "counted"]
    /\ UNCHANGED <<chan, open, queued, busy, wpc, holds>>

CountQueued(c) ==
    /\ call[c] = "checked"
    /\ call' = [call EXCEPT ![c] = "counted"]
    /\ queued' = queued + 1
    /\ UNCHANGED <<chan, open, busy, wpc, holds>>

\* sender.send(envelope): fails only when the receiver was dropped.
Send(c) ==
    /\ call[c] = "counted"
    /\ IF open
       THEN /\ call' = [call EXCEPT ![c] = "sent"]
            /\ chan' = Append(chan, c)
       ELSE /\ call' = [call EXCEPT ![c] = "refused"]
            /\ UNCHANGED chan
    /\ UNCHANGED <<open, queued, busy, wpc, holds>>

\* Err("Failed to submit job to worker pool").
Refuse(c) ==
    /\ call[c] = "refused"
    /\ call' = [call EXCEPT ![c] = "idle"]
    /\ queued' = FetchSub(queued)
    /\ UNCHANGED <<chan, open, busy, wpc, holds>>

\* The caller's future is dropped at result_rx.await; the envelope stays.
CancelCall(c) ==
    /\ call[c] = "sent"
    /\ call' = [call EXCEPT ![c] = "gone"]
    /\ UNCHANGED <<chan, open, queued, busy, wpc, holds>>

(***************************************************************************)
(* run_workers(): the loop of one worker.  The mutex is held only across   *)
(* recv, so lock-and-receive is one step of whichever worker gets it.      *)
(***************************************************************************)
Recv(w) ==
    /\ wpc[w] = "recv"
    /\ open /\ chan # <<>>
    /\ holds' = [holds EXCEPT ![w] = Head(chan)]
    /\ chan' = Tail(chan)
    /\ wpc' = [wpc EXCEPT ![w] = "got"]
    /\ UNCHANGED <<call, open, queued, busy>>

Dequeue(w) ==
    /\ wpc[w] = "got"
    /\ queued' = FetchSub(queued)
    /\ wpc' = [wpc EXCEPT ![w] = "dequeued"]
    /\ UNCHANGED <<call, chan, open, busy, holds>>

BeginRun(w) ==
    /\ wpc[w] = "dequeued"
    /\ busy' = busy + 1
    /\ wpc' = [wpc EXCEPT ![w] = "run"]
    /\ UNCHANGED <<call, chan, open, queued, holds>>

\* execute() returns; result_tx.send resolves the caller's await (or fails,
\* ignored, when the caller is gone).  Either way the envelope is consumed.
Reply(w) ==
    /\ wpc[w] = "run"
    /\ call' = [call EXCEPT ![holds[w]] = "idle"]
    /\ holds' = [holds EXCEPT ![w] = NoCall]
    /\ wpc' = [wpc EXCEPT ![w] = "reply"]
    /\ UNCHANGED <<chan, open, queued, busy>>

EndRun(w) ==
    /\ wpc[w] = "reply"
    /\ busy' = FetchSub(busy)
    /\ wpc' = [wpc EXCEPT ![w] = "recv"]
    /\ UNCHANGED <<call, chan, open, queued, holds>>

\* Mutant: the envelopes are dropped and their callers keep waiting.
DropReceiverStrands ==
    /\ open /\ crew = {}
    /\ open' = FALSE
    /\ chan' = <<>>
    /\ UNCHANGED <<call, queued, busy, wpc, holds>>

\* With no workers run_workers returns at once and drops the receiver: what is
\* in the channel is dropped and its callers get "Worker lost connection".
DropReceiver ==
    /\ open /\ crew = {}
    /\ open' = FALSE
    /\ chan' = <<>>
    /\ call' = [c \in Calls |-> IF call[c] \in {"sent", "gone"} THEN "idle" ELSE call[c]]
    /\ UNCHANGED <<queued, busy, wpc, holds>>

Submit(c) == CheckFull(c) \/ CountQueued(c) \/ Send(c) \/ Refuse(c)
Work(w) == /\ w \in crew
           /\ Recv(w) \/ Dequeue(w) \/ BeginRun(w) \/ Reply(w) \/ EndRun(w)

Step == \/ \E c \in Calls : Submit(c) \/ CancelCall(c)
        \/ \E w \in Workers : Work(w)
        \/ DropReceiver

\* num_workers is read once, at start.
Next == Step /\ UNCHANGED crew

Spec == Init /\ [][Next]_vars

(***************************************************************************)
(* Properties.                                                             *)
(***************************************************************************)
Counted == {c \in Calls : call[c] \in {"counted", "refused"}}
Taken   == {w \in Workers : wpc[w] = "got"}
Running == {w \in Workers : wpc[w] \in {"run", "reply"}}

\* queued_jobs counts exactly the calls between fetch_add and send, the
\* envelopes in the channel and the envelopes a worker has taken but not yet
\* uncounted.  (With no workers the envelopes dropped with the receiver stay
\* counted, so there it is only a lower bound.)
QueueAccounting ==
    LET n == Cardinality(Counted) + Len(chan) + Cardinality(Taken)
    IN  queued >= n /\ (open => queued = n)

\* busy_workers counts exactly the workers between fetch_add and fetch_sub, so
\* idle_workers = num_workers - busy_workers never has to saturate.
BusyAccounting == busy = Cardinality(Running) /\ busy <= Cardinality(crew)

\* Both counters say the truth between any two atomic updates.
CountersExact == QueueAccounting /\ BusyAccounting

\* No fetch_sub ever wraps a counter to usize::MAX (which would answer
\* QUEUE_FULL to every caller): whoever is about to decrement is counted.
NoUnderflow ==
    /\ (\E c \in Calls : call[c] = "refused") \/ Taken # {} => queued > 0
    /\ (\E w \in Workers : wpc[w] = "reply") => busy > 0

\* A caller that awaits its oneshot has its envelope in the channel or with a
\* worker, never both, never twice: it is answered once and not stranded.
InChan(c) == \E i \in 1 .. Len(chan) : chan[i] = c
Held(c)   == \E w \in Workers : holds[w] = c
AwaitedHasEnvelope ==
    /\ \A c \in Calls : call[c] \in {"sent", "gone"} <=> InChan(c) \/ Held(c)
    /\ \A c \in Calls : ~(InChan(c) /\ Held(c))
    /\ \A i, k \in 1 .. Len(chan) : chan[i] = chan[k] => i = k
    /\ \A v, w \in Workers : (holds[v] = holds[w] /\ holds[w] # NoCall) => v = w

=============================================================================
