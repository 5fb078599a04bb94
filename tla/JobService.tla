----------------------------- MODULE JobService -----------------------------
(***************************************************************************)
(* What the cluster promises to its clients, without streams, consumers,   *)
(* markers or retries: a submission asks, is queued or attached to a run   *)
(* in flight, and is answered at most once, with the verdict of a queued   *)
(* submission of its own job_id that came in after it asked.  Only when    *)
(* queueing failed does a gateway run the job itself.                      *)
(***************************************************************************)
CONSTANTS Subs, JobOf, None

VARIABLES
    phase,    \* where each submission is, as its client sees it
    queued,   \* the submissions the cluster may judge
    offers,   \* the verdict (by the submission judged) each may be answered with
    answer    \* the verdict each was answered with, or None

vars == <<phase, queued, offers, answer>>

Phases == {"idle", "asking", "fallback", "waiting", "over"}
SameJob(s) == {r \in Subs : JobOf[r] = JobOf[s]}
Goto(s, p) == phase' = [phase EXCEPT ![s] = p]

Init ==
    /\ phase = [s \in Subs |-> "idle"]
    /\ queued = {}
    /\ offers = [s \in Subs |-> {}]
    /\ answer = [s \in Subs |-> None]

\* A new question: what is known of the job until now answers nobody any more.
Ask(s) ==
    /\ phase[s] = "idle"
    /\ Goto(s, "asking")
    /\ offers' = [r \in Subs |-> IF r \in SameJob(s) THEN {} ELSE offers[r]]
    /\ UNCHANGED <<queued, answer>>

\* The submission is queued, or attached to the run of another one.
Enter(s) ==
    /\ phase[s] = "asking"
    /\ Goto(s, "waiting")
    /\ queued' \in {queued, queued \cup {s}}
    /\ UNCHANGED <<offers, answer>>

\* Queueing failed, as far as the gateway knows.
Detour(s) ==
    /\ phase[s] \in {"idle", "asking"}
    /\ Goto(s, "fallback")
    /\ queued' \in {queued} \cup {queued \cup {s} : x \in {phase[s]} \ {"idle"}}
    /\ offers' = [offers EXCEPT ![s] = {}]
    /\ UNCHANGED answer

\* Some worker reports the verdict of a queued submission: a first time, or again.
Judge(r) ==
    /\ r \in queued
    /\ offers' = [s \in Subs |-> IF s \in SameJob(r) /\ phase[s] \in {"asking", "waiting"}
                                 THEN {r} ELSE offers[s]]
    /\ UNCHANGED <<phase, queued, answer>>

\* Verdicts expire, or are lost with the store.
Forget(R) ==
    /\ offers' = [s \in Subs |-> IF s \in R THEN {} ELSE offers[s]]
    /\ UNCHANGED <<phase, queued, answer>>

Answer(s) ==
    /\ phase[s] = "waiting"
    /\ \E r \in offers[s] : answer' = [answer EXCEPT ![s] = r]
    /\ Goto(s, "over")
    /\ offers' = [offers EXCEPT ![s] = {}]
    /\ UNCHANGED queued

\* The gateway's own run: only where queueing failed, never for a duplicate and
\* never after a time-out.
AnswerOwn(s) ==
    /\ phase[s] = "fallback"
    /\ answer' = [answer EXCEPT ![s] = s]
    /\ Goto(s, "over")
    /\ UNCHANGED <<queued, offers>>

\* Time-out, refusal, immediate answer of an asynchronous one, lost client.
Leave(s) ==
    /\ phase[s] \in {"asking", "fallback", "waiting"}
    /\ Goto(s, "over")
    /\ offers' = [offers EXCEPT ![s] = {}]
    /\ UNCHANGED <<queued, answer>>

Next == \/ \E s \in Subs : \/ Ask(s) \/ Enter(s) \/ Detour(s) \/ Judge(s)
                           \/ Answer(s) \/ AnswerOwn(s) \/ Leave(s)
        \/ \E R \in SUBSET Subs : Forget(R)

Spec == Init /\ [][Next]_vars
=============================================================================
