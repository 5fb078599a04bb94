--------------------------- MODULE PipelineProofs ---------------------------
(***************************************************************************)
(* Proofs about Pipeline, for any number of tests, any concurrency, any    *)
(* limits and whatever the kernel reports.                                 *)
(*                                                                         *)
(* Judging follows a job until it is aggregated: Untouched says that       *)
(* nothing is decided before, Looked which tests were completed and how,   *)
(* and Told what was announced of them.  Aggregate then decides everything *)
(* at once, from rows that Nth puts in order: NthSorts shows that there is *)
(* a k-th smallest index for every k, and that every completed test has    *)
(* its row.                                                                *)
(***************************************************************************)
EXTENDS Pipeline, FiniteSetTheorems, FunctionTheorems, SequenceTheorems,
        WellFoundedInduction, TLAPS

Failed(i) == VerdictOf(runs[i]) # "Accepted"
TestResults == {k \in DOMAIN events : events[k].kind = "TestResult"}

\* Nothing is decided before the aggregation, or an error.
Untouched == pc # "ok" => verdict = "Accepted" /\ results = <<>> /\ counted = <<>>

\* Every completed test was reported.  With stop_on_first_fail the loop goes on only
\* while they are accepted; it ends with all tests, or with its only failing one.
Looked ==
    /\ \A i \in Completed : runs[i] # NoReport
    /\ pc \in {"validate", "start", "compile"} => raw = <<>>
    /\ (pc = "tests" /\ stop) => \A i \in Completed : ~Failed(i)
    /\ pc = "aggregate" =>
          \/ Completed = 1 .. n /\ (stop => \A i \in Completed : ~Failed(i))
          \/ stop /\ \E i \in Completed : Failed(i) /\ \A j \in Completed \ {i} : ~Failed(j)

\* One event for each completed test, and no last one yet.
Told ==
    /\ IsFiniteSet(TestResults)
    /\ pc \in {"validate", "start", "compile", "tests", "aggregate"} =>
          /\ \A k \in DOMAIN events : events[k].kind # "Finished"
          /\ Cardinality(TestResults) = Len(raw)

Decided == AcceptedIffAllClean /\ RowsExplainVerdict /\ ReportsAgree

Judging == TypeOK /\ Untouched /\ Looked /\ Told /\ Decided

(***************************************************************************)
(* Verdicts.                                                               *)
(***************************************************************************)
\* Whatever is reported becomes a verdict, and Accepted exactly when the run was clean.
LEMMA VerdictIsFair ==
    ASSUME NEW r \in Report
    PROVE  /\ VerdictOf(r) \in Verdicts \ {"CompilationError"}
           /\ VerdictOf(r) = "Accepted" <=> Clean(r)
<1>0. /\ r.term \in {"exit", "kill", "signal"} /\ r.oom \in BOOLEAN /\ r.mem \in Nat
      /\ r.out \in 0 .. MaxOut - 1 /\ r.right \in BOOLEAN /\ r.code \in Int
  BY DEF Report
<1>1. Status(r) = BuildResult(r)
  BY <1>0, PipelineAssumption DEF Status
<1>2. CASE r.oom
  <2>1. BuildResult(r) = "MemoryLimitExceeded"
    BY <1>2 DEF BuildResult
  <2> QED BY <1>1, <1>2, <2>1 DEF VerdictOf, Clean, Verdicts
<1>3. CASE ~r.oom /\ r.term = "exit" /\ r.code # 0
  <2>1. BuildResult(r) = "RuntimeError"
    BY <1>3 DEF BuildResult
  <2> QED BY <1>1, <1>3, <2>1 DEF VerdictOf, Clean, Verdicts
<1>4. CASE ~r.oom /\ r.term = "exit" /\ r.code = 0
  <2>1. BuildResult(r) = IF OverMemory(r) THEN "MemoryLimitExceeded" ELSE "Ok"
    BY <1>4 DEF BuildResult
  <2>2. OverMemory(r) <=> ~(MemLimit > 0 => r.mem <= MemLimit)
    BY <1>0, PipelineAssumption DEF OverMemory
  <2>3. CASE OverMemory(r)
    BY <1>1, <2>1, <2>2, <2>3 DEF VerdictOf, Clean, Verdicts
  <2>4. CASE ~OverMemory(r)
    <3>1. VerdictOf(r) = IF r.right THEN "Accepted" ELSE "WrongAnswer"
      BY <1>1, <2>1, <2>4 DEF VerdictOf
    <3> QED BY <1>0, <1>4, <2>2, <2>4, <3>1 DEF Clean, Verdicts
  <2> QED BY <2>3, <2>4
<1>5. CASE ~r.oom /\ r.term = "kill"
  <2>1. BuildResult(r) \in {"MemoryLimitExceeded", "TimeLimitExceeded"}
    BY <1>5 DEF BuildResult
  <2> QED BY <1>1, <1>5, <2>1 DEF VerdictOf, Clean, Verdicts
<1>6. CASE ~r.oom /\ r.term = "signal"
  <2>1. BuildResult(r) = "Signaled"
    BY <1>6 DEF BuildResult
  <2> QED BY <1>1, <1>6, <2>1 DEF VerdictOf, Clean, Verdicts
<1> QED BY <1>0, <1>2, <1>3, <1>4, <1>5, <1>6

(***************************************************************************)
(* The order of the rows.                                                  *)
(***************************************************************************)
\* A non-empty set of naturals has a least element.
LEMMA LeastOf ==
    ASSUME NEW S \in SUBSET Nat, S # {}
    PROVE  \E x \in S : \A y \in S : x <= y
<1>1. PICK x \in S : \A y \in S : ~(<<y, x>> \in OpToRel(<, Nat))
  BY NatLessThanWellFounded, WFMin
<1>2. \A y \in S : ~(<<y, x>> \in {ss \in Nat \X Nat : ss[1] < ss[2]})
  BY <1>1, Zenon DEF OpToRel
<1>3. ASSUME NEW y \in S, y < x PROVE FALSE
  <2>1. <<y, x>> \in {ss \in Nat \X Nat : ss[1] < ss[2]}
    BY <1>3
  <2> QED BY <1>2, <2>1
<1> QED BY <1>3

\* The elements of a finite set are counted by how many are smaller.
LEMMA RankCounts ==
    ASSUME NEW C \in SUBSET Nat, IsFiniteSet(C)
    PROVE  LET Rank(i) == Cardinality({j \in C : j < i})
           IN  /\ \A i, k \in C : i < k => Rank(i) < Rank(k)
               /\ \A k \in 1 .. Cardinality(C) : \E i \in C : Rank(i) = k - 1
               /\ \A i \in C : Rank(i) \in 0 .. Cardinality(C) - 1
<1> DEFINE Below(i) == {j \in C : j < i}
           N == Cardinality(C)
           rank == [i \in C |-> Cardinality(Below(i))]
<1>1. N \in Nat /\ \A i : IsFiniteSet(Below(i)) /\ Cardinality(Below(i)) \in Nat
  BY FS_CardinalityType, FS_Subset
<1>2. ASSUME NEW i \in C, NEW k \in C, i < k
      PROVE  Cardinality(Below(i)) < Cardinality(Below(k))
  <2>0. ~(i < i) /\ \A j \in C : j < i => j < k
    BY <1>2
  <2>1. Below(i) \cup {i} \subseteq Below(k) /\ i \notin Below(i)
    BY <1>2, <2>0, Zenon
  <2> HIDE DEF Below
  <2>2. Cardinality(Below(i) \cup {i}) = Cardinality(Below(i)) + 1
    BY <1>1, <2>1, FS_AddElement
  <2>3. Cardinality(Below(i) \cup {i}) <= Cardinality(Below(k))
    BY <1>1, <2>1, FS_Subset
  <2> QED BY <1>1, <2>2, <2>3
<1>3. ASSUME NEW i \in C PROVE Cardinality(Below(i)) \in 0 .. N - 1
  <2>1. Below(i) \subseteq C \ {i}
    BY <1>3
  <2>2. IsFiniteSet(C \ {i}) /\ Cardinality(C \ {i}) = N - 1
    BY <1>3, FS_RemoveElement
  <2> HIDE DEF Below, N
  <2>3. Cardinality(Below(i)) <= N - 1
    BY <2>1, <2>2, FS_Subset
  <2> QED BY <1>1, <2>3
<1> HIDE DEF Below, N
<1>4. rank \in Injection(C, 0 .. N - 1)
  <2>1. rank \in [C -> 0 .. N - 1]
    BY <1>3
  <2>2. \A i, k \in C : rank[i] = rank[k] => i = k
    <3> SUFFICES ASSUME NEW i \in C, NEW k \in C, i # k PROVE rank[i] # rank[k]
      OBVIOUS
    <3>1. i < k \/ k < i
      OBVIOUS
    <3> QED BY <1>1, <1>2, <3>1
  <2> QED BY <2>1, <2>2 DEF Injection, IsInjective
<1>5. IsFiniteSet(0 .. N - 1) /\ Cardinality(0 .. N - 1) = N
  BY <1>1, FS_Interval
<1>6. rank \in Surjection(C, 0 .. N - 1)
  BY <1>4, <1>5, FS_Injection DEF N
<1>7. ASSUME NEW k \in 1 .. N PROVE \E i \in C : Cardinality(Below(i)) = k - 1
  <2>1. k - 1 \in 0 .. N - 1
    BY <1>1
  <2>2. \E i \in C : rank[i] = k - 1
    BY <1>6, <2>1 DEF Surjection
  <2> QED BY <2>2
<1> QED BY <1>2, <1>3, <1>7 DEF Below, N

\* raw holds each completed test once, so the rows are those tests in increasing order.
LEMMA RawCounts ==
    ASSUME TypeOK
    PROVE  /\ Completed \subseteq 1 .. n /\ Completed \in SUBSET Nat /\ IsFiniteSet(Completed)
           /\ Len(raw) \in Nat /\ Cardinality(Completed) = Len(raw) /\ n \in Nat
           /\ \A i \in DOMAIN raw : raw[i] \in Completed
<1>0. raw \in Seq(1 .. n) /\ IsInjective(raw) /\ n \in Nat
  BY PipelineAssumption DEF TypeOK
<1>1. Len(raw) \in Nat /\ DOMAIN raw = 1 .. Len(raw) /\ raw \in [1 .. Len(raw) -> 1 .. n]
  BY <1>0
<1>2. Completed = {raw[i] : i \in 1 .. Len(raw)}
  BY <1>1 DEF Completed, Range
<1>3. Completed \subseteq 1 .. n
  BY <1>1, <1>2
<1>4. raw \in Bijection(1 .. Len(raw), Completed)
  BY <1>0, <1>1, <1>2 DEF Bijection, Injection, Surjection, IsInjective
<1>5. IsFiniteSet(1 .. Len(raw)) /\ Cardinality(1 .. Len(raw)) = Len(raw)
  BY <1>1, FS_Interval
<1>6. IsFiniteSet(Completed) /\ Cardinality(Completed) = Len(raw)
  <2>1. ExistsBijection(1 .. Len(raw), Completed)
    BY <1>4 DEF ExistsBijection
  <2> QED BY <1>5, <2>1, FS_Bijection
<1>7. Completed \in SUBSET Nat
  BY <1>3
<1>8. \A i \in DOMAIN raw : raw[i] \in Completed
  BY <1>1, <1>2
<1> QED BY <1>0, <1>1, <1>3, <1>6, <1>7, <1>8

\* The rows run through the completed tests in increasing order, and leave none out.
LEMMA NthSorts ==
    ASSUME TypeOK
    PROVE  /\ \A k \in 1 .. Len(raw) : SortedRaw[k] \in Completed
           /\ \A k, m \in 1 .. Len(raw) : k < m => SortedRaw[k] < SortedRaw[m]
           /\ \A i \in Completed : \E k \in 1 .. Len(raw) : SortedRaw[k] = i
<1> DEFINE Rank(i) == Cardinality({j \in Completed : j < i})
<1>0. /\ Completed \in SUBSET Nat /\ IsFiniteSet(Completed)
      /\ Len(raw) \in Nat /\ Cardinality(Completed) = Len(raw)
  BY RawCounts
<1>1. /\ \A i, k \in Completed : i < k => Rank(i) < Rank(k)
      /\ \A k \in 1 .. Len(raw) : \E i \in Completed : Rank(i) = k - 1
      /\ \A i \in Completed : Rank(i) \in 0 .. Len(raw) - 1
  BY <1>0, RankCounts
<1>2. \A k \in 1 .. Len(raw) : SortedRaw[k] = CHOOSE i \in Completed : Rank(i) = k - 1
  BY DEF SortedRaw, Nth
<1> HIDE DEF Rank
<1>3. \A k \in 1 .. Len(raw) : SortedRaw[k] \in Completed /\ Rank(SortedRaw[k]) = k - 1
  BY <1>1, <1>2
<1>4. ASSUME NEW k \in 1 .. Len(raw), NEW m \in 1 .. Len(raw), k < m
      PROVE  SortedRaw[k] < SortedRaw[m]
  <2>1. PICK i \in Completed : i = SortedRaw[k] /\ Rank(i) = k - 1
    BY <1>3
  <2>2. PICK j \in Completed : j = SortedRaw[m] /\ Rank(j) = m - 1
    BY <1>3
  <2>3. i \in Nat /\ j \in Nat /\ i # j
    BY <1>0, <1>4, <2>1, <2>2
  <2>4. ~(j < i)
    BY <1>0, <1>1, <1>4, <2>1, <2>2
  <2> QED BY <2>1, <2>2, <2>3, <2>4
<1>5. ASSUME NEW i \in Completed PROVE \E k \in 1 .. Len(raw) : SortedRaw[k] = i
  <2>1. PICK k \in 1 .. Len(raw) : Rank(i) = k - 1
    <3>1. Rank(i) \in 0 .. Len(raw) - 1
      BY <1>1
    <3>2. Rank(i) + 1 \in 1 .. Len(raw) /\ Rank(i) = (Rank(i) + 1) - 1
      BY <1>0, <3>1
    <3> QED BY <3>2
  <2>2. PICK j \in Completed : j = SortedRaw[k] /\ Rank(j) = k - 1
    BY <1>3
  <2>3. Rank(i) \in Int /\ i \in Nat /\ j \in Nat
    BY <1>0, <1>1
  <2>4. ~(i < j) /\ ~(j < i)
    BY <1>1, <2>1, <2>2, <2>3
  <2> QED BY <2>2, <2>3, <2>4
<1> QED BY <1>3, <1>4, <1>5

(***************************************************************************)
(* The loop over the stream.                                               *)
(***************************************************************************)
\* Something runs until every test has completed.
LEMMA StreamEndsWithAll ==
    ASSUME TypeOK, Running = {}
    PROVE  Completed = 1 .. n
<1>1. Completed \subseteq 1 .. n /\ n \in Nat
  BY RawCounts
<1>2. SUFFICES ASSUME 1 .. n \ Completed # {} PROVE FALSE
  BY <1>1
<1>3. PICK x \in 1 .. n \ Completed : \A y \in 1 .. n \ Completed : x <= y
  <2>1. 1 .. n \ Completed \in SUBSET Nat
    OBVIOUS
  <2> QED BY <1>2, <2>1, LeastOf
<1>4. {k \in 1 .. n \ Completed : k < x} = {}
  BY <1>1, <1>3
<1>5. Cardinality({k \in 1 .. n \ Completed : k < x}) < Concurrency
  BY <1>4, FS_EmptySet, PipelineAssumption
<1> QED BY <1>3, <1>5 DEF Running

\* A completed test that failed, by its report.
LEMMA FailedIsDirty ==
    ASSUME TypeOK, NEW i \in 1 .. n, runs[i] # NoReport
    PROVE  /\ VerdictOf(runs[i]) \in Verdicts \ {"CompilationError"}
           /\ ~Failed(i) <=> Clean(runs[i])
<1>1. runs[i] \in Report
  BY ReportsAssumption DEF TypeOK
<1> QED BY <1>1, VerdictIsFair DEF Failed

\* A further event is counted if it is a TestResult.
LEMMA EventCounts ==
    ASSUME TypeOK, IsFiniteSet(TestResults), NEW kind, NEW v, Event(kind, v)
    PROVE  /\ Len(events') = Len(events) + 1 /\ DOMAIN events' = 1 .. Len(events) + 1
           /\ DOMAIN events = 1 .. Len(events) /\ Len(events) \in Nat
           /\ \A k \in DOMAIN events : events'[k] = events[k]
           /\ events'[Len(events) + 1] = [kind |-> kind, verdict |-> v]
           /\ IsFiniteSet(TestResults')
           /\ Cardinality(TestResults') = Cardinality(TestResults)
                                            + IF kind = "TestResult" THEN 1 ELSE 0
<1>0. /\ events \in Seq([kind : {"Compiling", "TestResult", "Finished"}, verdict : Verdicts])
      /\ events' = Append(events, [kind |-> kind, verdict |-> v])
  BY DEF TypeOK, Event
<1>1. /\ Len(events') = Len(events) + 1 /\ DOMAIN events' = 1 .. Len(events) + 1
      /\ DOMAIN events = 1 .. Len(events) /\ Len(events) \in Nat
      /\ \A k \in DOMAIN events : events'[k] = events[k]
      /\ events'[Len(events) + 1] = [kind |-> kind, verdict |-> v]
  BY <1>0
<1>2. TestResults' = {k \in DOMAIN events' : events'[k].kind = "TestResult"}
  BY DEF TestResults
<1>3. Cardinality(TestResults) \in Nat
  BY FS_CardinalityType
<1>4. CASE kind = "TestResult"
  <2>1. TestResults' = TestResults \cup {Len(events) + 1} /\ Len(events) + 1 \notin TestResults
    BY <1>1, <1>2, <1>4 DEF TestResults
  <2>2. /\ IsFiniteSet(TestResults \cup {Len(events) + 1})
        /\ Cardinality(TestResults \cup {Len(events) + 1}) = Cardinality(TestResults) + 1
    BY <2>1, FS_AddElement
  <2> QED BY <1>1, <1>4, <2>1, <2>2
<1>5. CASE kind # "TestResult"
  <2>1. TestResults' = TestResults
    BY <1>1, <1>2, <1>5 DEF TestResults
  <2> QED BY <1>1, <1>3, <1>5, <2>1
<1> QED BY <1>4, <1>5

\* What the aggregation decides, from the rows in order.
LEMMA RowsOf ==
    ASSUME Judging, Aggregate
    PROVE  /\ results' \in Seq([idx : 1 .. n, status : Verdicts])
           /\ Len(results') = Len(raw) /\ DOMAIN results' = 1 .. Len(raw)
           /\ \A k \in 1 .. Len(raw) : /\ results'[k].idx = SortedRaw[k]
                                       /\ results'[k].status = VerdictOf(runs[SortedRaw[k]])
           /\ IF \A i \in Completed : ~Failed(i)
              THEN verdict' = "Accepted"
              ELSE \E k \in 1 .. Len(raw) :
                     /\ verdict' = results'[k].status /\ results'[k].status # "Accepted"
                     /\ \A m \in 1 .. Len(raw) : m < k => results'[m].status = "Accepted"
           /\ verdict' \in Verdicts \ {"CompilationError"}
<1> DEFINE rows == [k \in 1 .. Len(raw) |-> [idx |-> SortedRaw[k],
                                             status |-> VerdictOf(runs[SortedRaw[k]])]]
<1>0. TypeOK /\ Completed \subseteq 1 .. n /\ Len(raw) \in Nat
  BY RawCounts DEF Judging
<1>1. \A k \in 1 .. Len(raw) :
         /\ SortedRaw[k] \in Completed /\ SortedRaw[k] \in 1 .. n
         /\ VerdictOf(runs[SortedRaw[k]]) \in Verdicts \ {"CompilationError"}
  <2>1. \A k \in 1 .. Len(raw) : SortedRaw[k] \in Completed
    BY <1>0, NthSorts
  <2>2. \A i \in Completed : VerdictOf(runs[i]) \in Verdicts \ {"CompilationError"}
    BY <1>0, FailedIsDirty DEF Judging, Looked
  <2> QED BY <1>0, <2>1, <2>2
<1>2. /\ results' = rows /\ pc = "aggregate"
      /\ verdict' = IF \A k \in DOMAIN rows : rows[k].status = "Accepted"
                    THEN "Accepted"
                    ELSE IF verdict = "Accepted" THEN FirstFailing(rows) ELSE verdict
  BY DEF Aggregate
<1>3. /\ rows \in Seq([idx : 1 .. n, status : Verdicts])
      /\ Len(rows) = Len(raw) /\ DOMAIN rows = 1 .. Len(raw)
  <2>1. \A k \in 1 .. Len(raw) : rows[k] \in [idx : 1 .. n, status : Verdicts]
    BY <1>1
  <2> QED BY <1>0, <2>1
<1>4. \A k \in 1 .. Len(raw) : /\ rows[k].idx = SortedRaw[k]
                               /\ rows[k].status = VerdictOf(runs[SortedRaw[k]])
  OBVIOUS
<1> HIDE DEF rows
<1>5. verdict = "Accepted"
  BY <1>2 DEF Judging, Untouched
<1>6. (\A k \in DOMAIN rows : rows[k].status = "Accepted") <=> \A i \in Completed : ~Failed(i)
  <2>1. \A i \in Completed : \E k \in 1 .. Len(raw) : SortedRaw[k] = i
    BY <1>0, NthSorts
  <2>2. \A k \in 1 .. Len(raw) : rows[k].status = "Accepted" <=> ~Failed(SortedRaw[k])
    BY <1>4 DEF Failed
  <2>3. ASSUME \A k \in DOMAIN rows : rows[k].status = "Accepted", NEW i \in Completed
        PROVE  ~Failed(i)
    BY <1>3, <2>1, <2>2, <2>3
  <2>4. ASSUME \A i \in Completed : ~Failed(i), NEW k \in DOMAIN rows
        PROVE  rows[k].status = "Accepted"
    BY <1>1, <1>3, <2>2, <2>4
  <2> QED BY <2>3, <2>4
<1>7. CASE \A i \in Completed : ~Failed(i)
  <2>1. verdict' = "Accepted"
    BY <1>2, <1>6, <1>7
  <2> QED BY <1>2, <1>3, <1>4, <1>7, <2>1 DEF Verdicts
<1>8. CASE ~\A i \in Completed : ~Failed(i)
  <2> DEFINE Bad == {k \in 1 .. Len(raw) : rows[k].status # "Accepted"}
             First(k) == /\ rows[k].status # "Accepted"
                         /\ \A m \in DOMAIN rows : m < k => rows[m].status = "Accepted"
  <2>1. Bad # {} /\ Bad \in SUBSET Nat
    BY <1>0, <1>3, <1>6, <1>8
  <2>2. PICK x \in Bad : \A y \in Bad : x <= y
    BY <2>1, LeastOf
  <2>3. x \in DOMAIN rows /\ First(x)
    BY <1>0, <1>3, <2>2
  <2>4. FirstFailing(rows) = rows[CHOOSE k \in DOMAIN rows : First(k)].status
    BY DEF FirstFailing
  <2> HIDE DEF First
  <2>5. PICK k \in DOMAIN rows : First(k) /\ FirstFailing(rows) = rows[k].status
    BY <2>3, <2>4
  <2>6. verdict' = rows[k].status
    BY <1>2, <1>5, <1>6, <1>8, <2>5
  <2>7. rows[k].status # "Accepted" /\ \A m \in 1 .. Len(raw) : m < k => rows[m].status = "Accepted"
    BY <1>3, <2>5 DEF First
  <2>8. verdict' \in Verdicts \ {"CompilationError"}
    BY <1>1, <1>3, <1>4, <2>6
  <2> QED BY <1>2, <1>3, <1>4, <1>8, <2>6, <2>7, <2>8
<1> QED BY <1>7, <1>8

\* How the completed tests that the aggregation finds stand for all of them.
LEMMA AggregateDecides ==
    ASSUME Judging, Aggregate
    PROVE  TypeOK' /\ Decided'
<1>0. /\ TypeOK /\ Completed \subseteq 1 .. n /\ IsFiniteSet(Completed)
      /\ Len(raw) \in Nat /\ Cardinality(Completed) = Len(raw) /\ n \in Nat
  BY RawCounts DEF Judging
<1>1. /\ UNCHANGED request /\ UNCHANGED raw /\ pc = "aggregate" /\ pc' = "ok"
      /\ counted' = Append(counted, [verdict |-> verdict', passed |-> Passed,
                                     failed |-> Len(results') - Passed])
      /\ Event("Finished", verdict')
  BY DEF Aggregate
<1>2. UNCHANGED <<lang, n, stop, build, runs>>
  BY <1>1 DEF request
<1>3. /\ results' \in Seq([idx : 1 .. n, status : Verdicts])
      /\ Len(results') = Len(raw) /\ DOMAIN results' = 1 .. Len(raw)
      /\ \A k \in 1 .. Len(raw) : /\ results'[k].idx = SortedRaw[k]
                                  /\ results'[k].status = VerdictOf(runs[SortedRaw[k]])
      /\ verdict' \in Verdicts \ {"CompilationError"}
  BY RowsOf
<1>4. IF \A i \in Completed : ~Failed(i)
      THEN verdict' = "Accepted"
      ELSE \E k \in 1 .. Len(raw) :
              /\ verdict' = results'[k].status /\ results'[k].status # "Accepted"
              /\ \A m \in 1 .. Len(raw) : m < k => results'[m].status = "Accepted"
  BY RowsOf
<1>5. verdict' = "Accepted" <=> \A i \in Completed : ~Failed(i)
  BY <1>4
<1>6. /\ counted = <<>>
      /\ \A i \in Completed : runs[i] # NoReport
      /\ \/ Completed = 1 .. n /\ (stop => \A i \in Completed : ~Failed(i))
         \/ stop /\ \E i \in Completed : Failed(i) /\ \A j \in Completed \ {i} : ~Failed(j)
  BY <1>1 DEF Judging, Untouched, Looked
<1>7. \A i \in Completed : ~Failed(i) <=> Clean(runs[i])
  BY <1>0, <1>6, FailedIsDirty
<1>8. AcceptedIffAllClean'
  <2>1. verdict' = "Accepted" <=> \A i \in 1 .. n : runs[i] # NoReport /\ Clean(runs[i])
    BY <1>0, <1>5, <1>6, <1>7
  <2>2. \A r : Clean(r)' <=> Clean(r)
    BY DEF Clean
  <2> QED BY <1>2, <2>1 DEF AcceptedIffAllClean, Clean
<1>9. RowsExplainVerdict'
  <2>1. \A k \in 1 .. Len(results') - 1 : results'[k].idx < results'[k + 1].idx
    <3> SUFFICES ASSUME NEW k \in 1 .. Len(raw) - 1
                 PROVE  results'[k].idx < results'[k + 1].idx
      BY <1>3
    <3>1. k \in 1 .. Len(raw) /\ k + 1 \in 1 .. Len(raw) /\ k < k + 1
      BY <1>0
    <3>2. SortedRaw[k] < SortedRaw[k + 1]
      BY <1>0, <3>1, NthSorts
    <3> QED BY <1>3, <3>1, <3>2
  <2>2. ~stop => Len(results') = n
    <3> SUFFICES ASSUME ~stop PROVE Len(raw) = n
      BY <1>3
    <3>1. Completed = 1 .. n
      BY <1>6
    <3>2. Cardinality(1 .. n) = n
      BY <1>0, FS_Interval
    <3> QED BY <1>0, <3>1, <3>2
  <2>3. verdict' # "Accepted" =>
          \E k \in DOMAIN results' :
             /\ results'[k].status = verdict'
             /\ \A m \in DOMAIN results' :
                   (IF stop THEN m # k ELSE m < k) => results'[m].status = "Accepted"
    <3> SUFFICES ASSUME verdict' # "Accepted"
                 PROVE  \E k \in DOMAIN results' :
                           /\ results'[k].status = verdict'
                           /\ \A m \in DOMAIN results' :
                                 (IF stop THEN m # k ELSE m < k) => results'[m].status = "Accepted"
      OBVIOUS
    <3>1. PICK k \in 1 .. Len(raw) :
             /\ verdict' = results'[k].status /\ results'[k].status # "Accepted"
             /\ \A m \in 1 .. Len(raw) : m < k => results'[m].status = "Accepted"
      BY <1>4
    <3>2. CASE ~stop
      BY <1>3, <3>1, <3>2
    <3>3. CASE stop
      <4>1. PICK i \in Completed : Failed(i) /\ \A j \in Completed \ {i} : ~Failed(j)
        BY <1>5, <1>6, <3>3
      <4>2. \A m \in 1 .. Len(raw) : SortedRaw[m] \in Completed
        BY <1>0, NthSorts
      <4>3. SortedRaw[k] = i
        BY <1>3, <3>1, <4>1, <4>2 DEF Failed
      <4>4. \A m \in 1 .. Len(raw) : m # k => SortedRaw[m] # i
        <5> SUFFICES ASSUME NEW m \in 1 .. Len(raw), m # k PROVE SortedRaw[m] # i
          OBVIOUS
        <5>1. m < k \/ k < m
          OBVIOUS
        <5>2. SortedRaw[m] < SortedRaw[k] \/ SortedRaw[k] < SortedRaw[m]
          BY <1>0, <5>1, NthSorts
        <5>3. i \in Int
          BY <1>0
        <5> QED BY <4>3, <5>2, <5>3
      <4>5. \A m \in 1 .. Len(raw) : m # k => results'[m].status = "Accepted"
        BY <1>3, <4>1, <4>2, <4>4 DEF Failed
      <4> QED BY <1>3, <3>1, <3>3, <4>5
    <3> QED BY <3>2, <3>3
  <2> QED BY <1>2, <2>1, <2>2, <2>3 DEF RowsExplainVerdict
<1>10. /\ Passed \in Nat /\ Passed <= Len(raw)
       /\ Passed = Len(raw) <=> \A i \in Completed : ~Failed(i)
  <2> DEFINE Good == {i \in Completed : VerdictOf(runs[i]) = "Accepted"}
  <2>1. Good \subseteq Completed /\ (Good = Completed <=> \A i \in Completed : ~Failed(i))
    BY DEF Failed
  <2>2. Passed = Cardinality(Good)
    BY DEF Passed
  <2> HIDE DEF Good
  <2>3. IsFiniteSet(Good) /\ Cardinality(Good) \in Nat
    BY <1>0, <2>1, FS_Subset, FS_CardinalityType
  <2>4. Cardinality(Good) <= Len(raw) /\ (Cardinality(Good) = Len(raw) => Good = Completed)
    <3>1. IsFiniteSet(Completed) /\ Good \in SUBSET Completed
      BY <1>0, <2>1
    <3>2. /\ Cardinality(Good) <= Cardinality(Completed)
          /\ Cardinality(Completed) = Cardinality(Good) => Completed = Good
      BY <3>1, FS_Subset
    <3> QED BY <1>0, <3>2
  <2>5. Good = Completed => Cardinality(Good) = Len(raw)
    BY <1>0
  <2> QED BY <2>1, <2>2, <2>3, <2>4, <2>5
<1>11. /\ Len(counted') = 1 /\ counted'[1].verdict = verdict'
       /\ counted'[1].passed = Passed /\ counted'[1].failed = Len(raw) - Passed
       /\ counted' \in Seq([verdict : Verdicts, passed : Nat, failed : Nat])
  <2> DEFINE row == [verdict |-> verdict', passed |-> Passed, failed |-> Len(results') - Passed]
  <2>1. row \in [verdict : Verdicts, passed : Nat, failed : Nat] /\ counted' = <<row>>
    BY <1>0, <1>1, <1>3, <1>6, <1>10
  <2>2. row.verdict = verdict' /\ row.passed = Passed /\ row.failed = Len(raw) - Passed
    BY <1>3
  <2> HIDE DEF row
  <2> QED BY <2>1, <2>2
<1>12. /\ IsFiniteSet(TestResults) /\ Cardinality(TestResults) = Len(raw)
       /\ \A k \in DOMAIN events : events[k].kind # "Finished"
  BY <1>1 DEF Judging, Told
<1>13. /\ Len(events') = Len(events) + 1 /\ DOMAIN events' = 1 .. Len(events) + 1
       /\ DOMAIN events = 1 .. Len(events) /\ Len(events) \in Nat
       /\ \A k \in DOMAIN events : events'[k] = events[k]
       /\ events'[Len(events) + 1] = [kind |-> "Finished", verdict |-> verdict']
       /\ Cardinality(TestResults') = Cardinality(TestResults) + 0
  BY <1>0, <1>1, <1>12, EventCounts
<1>14. ReportsAgree'
  <2>1. /\ events'[Len(events')] = [kind |-> "Finished", verdict |-> verdict'] /\ events' # <<>>
        /\ \A k \in 1 .. Len(events') - 1 : events'[k].kind # "Finished"
    BY <1>12, <1>13
  <2>2. Cardinality({k \in DOMAIN events' : events'[k].kind = "TestResult"}) = Len(results')
    BY <1>0, <1>3, <1>12, <1>13 DEF TestResults
  <2>3. counted'[1].passed + counted'[1].failed = Len(results')
    BY <1>0, <1>3, <1>10, <1>11
  <2>4. counted'[1].failed = 0 <=> verdict' = "Accepted"
    BY <1>0, <1>5, <1>10, <1>11
  <2> QED BY <1>11, <2>1, <2>2, <2>3, <2>4 DEF ReportsAgree
<1>15. TypeOK'
  <2>1. events' \in Seq([kind : {"Compiling", "TestResult", "Finished"}, verdict : Verdicts])
    <3>1. [kind |-> "Finished", verdict |-> verdict']
            \in [kind : {"Compiling", "TestResult", "Finished"}, verdict : Verdicts]
      BY <1>3
    <3> QED BY <1>0, <1>1, <3>1, AppendProperties DEF TypeOK, Event
  <2> QED BY <1>0, <1>1, <1>2, <1>3, <1>11, <2>1 DEF TypeOK
<1> QED BY <1>8, <1>9, <1>14, <1>15 DEF Decided

(***************************************************************************)
(* The steps before the aggregation.                                       *)
(***************************************************************************)
\* A test that completes is looked at once, told once, and ends the loop if it is to.
LEMMA TestStep ==
    ASSUME Judging, NEW i \in 1 .. n, TestCompletes(i)
    PROVE  Judging'
<1>0. /\ TypeOK /\ Completed \subseteq 1 .. n /\ Len(raw) \in Nat /\ n \in Nat
      /\ raw \in Seq(1 .. n) /\ IsInjective(raw) /\ \A k \in DOMAIN raw : raw[k] \in Completed
  <2>1. TypeOK
    BY DEF Judging
  <2> QED BY <2>1, RawCounts DEF TypeOK
<1>1. /\ UNCHANGED request /\ UNCHANGED <<verdict, results, counted>>
      /\ pc = "tests" /\ i \in Running
      /\ IF runs[i] = NoReport
         THEN pc' = "error" /\ UNCHANGED <<raw, events>>
         ELSE /\ raw' = Append(raw, i)
              /\ Event("TestResult", VerdictOf(runs[i]))
              /\ pc' = IF stop /\ VerdictOf(runs[i]) # "Accepted" THEN "aggregate" ELSE "tests"
  BY DEF TestCompletes
<1>2. UNCHANGED <<lang, n, stop, build, runs>>
  BY <1>1 DEF request
<1>3. /\ verdict = "Accepted" /\ results = <<>> /\ counted = <<>>
      /\ \A k \in Completed : runs[k] # NoReport
      /\ stop => \A k \in Completed : ~Failed(k)
      /\ \A k \in DOMAIN events : events[k].kind # "Finished"
      /\ IsFiniteSet(TestResults) /\ Cardinality(TestResults) = Len(raw)
  BY <1>1 DEF Judging, Untouched, Looked, Told
<1>4. pc' # "ok" /\ pc' \in {"error", "aggregate", "tests"}
  BY <1>1
<1>5. Untouched' /\ Decided'
  BY <1>1, <1>3, <1>4 DEF Untouched, Decided, AcceptedIffAllClean, RowsExplainVerdict,
                          ReportsAgree, Judged
<1>6. \A k : Failed(k)' <=> Failed(k)
  BY <1>2 DEF Failed, VerdictOf, Status, BuildResult, OverMemory
<1>7. CASE runs[i] = NoReport
  <2>1. UNCHANGED <<raw, events>> /\ pc' = "error"
    BY <1>1, <1>7
  <2>2. Completed' = Completed /\ TestResults' = TestResults
    BY <2>1 DEF Completed, TestResults
  <2>3. TypeOK'
    BY <1>0, <1>1, <1>2, <2>1 DEF TypeOK
  <2>4. Looked' /\ Told'
    BY <1>2, <1>3, <2>1, <2>2 DEF Looked, Told
  <2> QED BY <1>5, <2>3, <2>4 DEF Judging
<1>8. CASE runs[i] # NoReport
  <2>1. /\ raw' = Append(raw, i) /\ Event("TestResult", VerdictOf(runs[i]))
        /\ pc' = IF stop /\ Failed(i) THEN "aggregate" ELSE "tests"
    BY <1>1, <1>8 DEF Failed
  <2>2. i \notin Completed
    BY <1>1 DEF Running
  <2>3. /\ raw' \in Seq(1 .. n) /\ Len(raw') = Len(raw) + 1 /\ DOMAIN raw' = 1 .. Len(raw) + 1
        /\ DOMAIN raw = 1 .. Len(raw)
        /\ \A k \in 1 .. Len(raw) : raw'[k] = raw[k]
        /\ raw'[Len(raw) + 1] = i
    BY <1>0, <2>1
  <2>4. Completed' = Completed \cup {i}
    <3>1. Completed = {raw[k] : k \in 1 .. Len(raw)}
      BY <2>3 DEF Completed, Range
    <3>2. Completed' = {raw'[k] : k \in 1 .. Len(raw) + 1}
      BY <2>3 DEF Completed, Range
    <3>3. 1 .. Len(raw) + 1 = 1 .. Len(raw) \cup {Len(raw) + 1}
      BY <1>0
    <3>4. Completed' = {raw'[k] : k \in 1 .. Len(raw)} \cup {raw'[Len(raw) + 1]}
      BY <3>2, <3>3
    <3>5. {raw'[k] : k \in 1 .. Len(raw)} = {raw[k] : k \in 1 .. Len(raw)}
      BY <2>3
    <3> QED BY <2>3, <3>1, <3>4, <3>5
  <2>5. IsInjective(raw')
    <3>1. \A a, b \in 1 .. Len(raw) : raw[a] = raw[b] => a = b
      BY <1>0, <2>3 DEF IsInjective
    <3>2. \A a \in 1 .. Len(raw) : raw[a] # i
      BY <1>0, <2>2, <2>3
    <3>3. \A a, b \in 1 .. Len(raw) + 1 : raw'[a] = raw'[b] => a = b
      <4> SUFFICES ASSUME NEW a \in 1 .. Len(raw) + 1, NEW b \in 1 .. Len(raw) + 1,
                          raw'[a] = raw'[b]
                   PROVE  a = b
        OBVIOUS
      <4>1. \A c \in 1 .. Len(raw) + 1 : c \in 1 .. Len(raw) \/ c = Len(raw) + 1
        BY <1>0
      <4>2. \A c \in 1 .. Len(raw) : raw'[c] = raw[c] /\ raw[c] # i
        BY <2>3, <3>2
      <4>3. raw'[Len(raw) + 1] = i
        BY <2>3
      <4> QED BY <3>1, <4>1, <4>2, <4>3
    <3> QED BY <2>3, <3>3 DEF IsInjective
  <2>6. VerdictOf(runs[i]) \in Verdicts
    BY <1>0, <1>8, FailedIsDirty
  <2>7. events' \in Seq([kind : {"Compiling", "TestResult", "Finished"}, verdict : Verdicts])
    <3>1. [kind |-> "TestResult", verdict |-> VerdictOf(runs[i])]
            \in [kind : {"Compiling", "TestResult", "Finished"}, verdict : Verdicts]
      BY <2>6
    <3> QED BY <1>0, <2>1, <3>1, AppendProperties DEF TypeOK, Event
  <2>8. TypeOK'
    <3>1. pc' \in {"validate", "rejected", "start", "compile", "tests", "aggregate", "ok", "error"}
      BY <1>4
    <3> QED BY <1>0, <1>1, <1>2, <2>3, <2>5, <2>7, <3>1 DEF TypeOK
  <2>9. Looked'
    <3>1. \A k \in Completed' : runs'[k] # NoReport
      BY <1>2, <1>3, <1>8, <2>4
    <3>2. CASE stop /\ Failed(i)
      <4>1. i \in Completed' /\ Failed(i)' /\ \A j \in Completed' \ {i} : ~Failed(j)'
        BY <1>3, <1>6, <2>4, <3>2
      <4>2. pc' = "aggregate" /\ stop'
        BY <1>2, <2>1, <3>2
      <4> QED BY <3>1, <4>1, <4>2 DEF Looked
    <3>3. CASE ~(stop /\ Failed(i))
      <4>1. pc' = "tests"
        BY <2>1, <3>3
      <4>2. stop => \A k \in Completed' : ~Failed(k)'
        BY <1>3, <1>6, <2>4, <3>3
      <4> QED BY <1>2, <3>1, <4>1, <4>2 DEF Looked
    <3> QED BY <3>2, <3>3
  <2>10. Told'
    <3>1. /\ DOMAIN events' = 1 .. Len(events) + 1 /\ DOMAIN events = 1 .. Len(events)
          /\ Len(events) \in Nat
          /\ \A k \in DOMAIN events : events'[k] = events[k]
          /\ events'[Len(events) + 1] = [kind |-> "TestResult", verdict |-> VerdictOf(runs[i])]
          /\ IsFiniteSet(TestResults')
          /\ Cardinality(TestResults') = Cardinality(TestResults) + 1
      BY <1>0, <1>3, <2>1, EventCounts
    <3>2. \A k \in DOMAIN events' : events'[k].kind # "Finished"
      BY <1>3, <3>1
    <3> QED BY <1>3, <2>3, <3>1, <3>2 DEF Told
  <2> QED BY <1>5, <2>8, <2>9, <2>10 DEF Judging
<1> QED BY <1>7, <1>8

\* Compile decides on its own when the compiler refuses the source.
LEMMA CompileStep ==
    ASSUME Judging, Compile
    PROVE  Judging'
<1>0. TypeOK /\ Len(raw) \in Nat
  <2>1. TypeOK
    BY DEF Judging
  <2> QED BY <2>1, RawCounts
<1>1. /\ UNCHANGED request /\ UNCHANGED <<raw, results, counted>> /\ pc = "compile"
      /\ \/ pc' \in {"error", "tests"} /\ UNCHANGED <<verdict, events>>
         \/ /\ pc' = "ok" /\ verdict' = "CompilationError"
            /\ Event("Finished", "CompilationError")
  BY DEF Compile
<1>2. UNCHANGED <<lang, n, stop, build, runs>>
  BY <1>1 DEF request
<1>3. /\ verdict = "Accepted" /\ results = <<>> /\ counted = <<>> /\ raw = <<>>
      /\ \A k \in DOMAIN events : events[k].kind # "Finished"
      /\ IsFiniteSet(TestResults) /\ Cardinality(TestResults) = 0
  BY <1>1 DEF Judging, Untouched, Looked, Told
<1>4. Completed = {} /\ Completed' = {}
  BY <1>1, <1>3 DEF Completed, Range
<1>5. CASE pc' \in {"error", "tests"} /\ UNCHANGED <<verdict, events>>
  <2>1. TypeOK'
    BY <1>0, <1>1, <1>2, <1>5 DEF TypeOK
  <2>2. Untouched' /\ Decided'
    BY <1>1, <1>3, <1>5 DEF Untouched, Decided, AcceptedIffAllClean, RowsExplainVerdict,
                            ReportsAgree, Judged
  <2>3. Looked'
    BY <1>4, <1>5 DEF Looked
  <2>4. TestResults' = TestResults
    BY <1>5 DEF TestResults
  <2>5. Told'
    BY <1>1, <1>3, <1>5, <2>4 DEF Told
  <2> QED BY <2>1, <2>2, <2>3, <2>5 DEF Judging
<1>6. CASE /\ pc' = "ok" /\ verdict' = "CompilationError"
           /\ Event("Finished", "CompilationError")
  <2>1. /\ Len(events') = Len(events) + 1 /\ DOMAIN events' = 1 .. Len(events) + 1
        /\ DOMAIN events = 1 .. Len(events) /\ Len(events) \in Nat
        /\ \A k \in DOMAIN events : events'[k] = events[k]
        /\ events'[Len(events) + 1] = [kind |-> "Finished", verdict |-> "CompilationError"]
        /\ IsFiniteSet(TestResults')
        /\ Cardinality(TestResults') = Cardinality(TestResults) + 0
    BY <1>0, <1>3, <1>6, EventCounts
  <2>2. events' \in Seq([kind : {"Compiling", "TestResult", "Finished"}, verdict : Verdicts])
    <3>1. [kind |-> "Finished", verdict |-> "CompilationError"]
            \in [kind : {"Compiling", "TestResult", "Finished"}, verdict : Verdicts]
      BY DEF Verdicts
    <3> QED BY <1>0, <1>6, <3>1, AppendProperties DEF TypeOK, Event
  <2>3. TypeOK'
    BY <1>0, <1>1, <1>2, <1>6, <2>2 DEF TypeOK, Verdicts
  <2>4. Untouched' /\ Looked' /\ Told'
    BY <1>4, <1>6, <2>1 DEF Untouched, Looked, Told
  <2>5. /\ events'[Len(events')] = [kind |-> "Finished", verdict |-> verdict'] /\ events' # <<>>
        /\ \A k \in 1 .. Len(events') - 1 : events'[k].kind # "Finished"
    BY <1>3, <1>6, <2>1
  <2>6. Cardinality({k \in DOMAIN events' : events'[k].kind = "TestResult"}) = Len(results')
    BY <1>1, <1>3, <2>1 DEF TestResults
  <2>7. Decided'
    BY <1>6, <2>5, <2>6 DEF Decided, AcceptedIffAllClean, RowsExplainVerdict, ReportsAgree, Judged
  <2> QED BY <2>3, <2>4, <2>7 DEF Judging
<1> QED BY <1>1, <1>5, <1>6

\* Validation, start and the end of the stream decide nothing.
LEMMA EarlyStep ==
    ASSUME Judging, Validate \/ Start \/ StreamEnds
    PROVE  Judging'
<1>0. TypeOK
  BY DEF Judging
<1>1. /\ UNCHANGED request /\ UNCHANGED <<raw, verdict, results, counted>>
      /\ pc \in {"validate", "start", "tests"}
      /\ pc' \in {"rejected", "start", "error", "compile", "tests", "aggregate"}
      /\ pc' \in {"start", "compile"} => pc \in {"validate", "start"}
      /\ pc' = "tests" => pc = "start"
      /\ pc' = "aggregate" => Running = {} /\ pc = "tests"
      /\ UNCHANGED events \/ Event("Compiling", verdict)
  BY DEF Validate, Start, StreamEnds
<1>2. UNCHANGED <<lang, n, stop, build, runs>>
  BY <1>1 DEF request
<1>3. /\ verdict = "Accepted" /\ results = <<>> /\ counted = <<>>
      /\ \A k \in DOMAIN events : events[k].kind # "Finished"
      /\ IsFiniteSet(TestResults) /\ Cardinality(TestResults) = Len(raw)
  BY <1>1 DEF Judging, Untouched, Told
<1>4. Untouched' /\ Decided'
  BY <1>1, <1>3 DEF Untouched, Decided, AcceptedIffAllClean, RowsExplainVerdict,
                    ReportsAgree, Judged
<1>5. Looked'
  <2>1. (\A k : Failed(k)' <=> Failed(k)) /\ Completed' = Completed
    BY <1>1, <1>2 DEF Failed, VerdictOf, Status, BuildResult, OverMemory, Completed
  <2>2. \A k \in Completed' : runs'[k] # NoReport
    BY <1>2, <2>1 DEF Judging, Looked
  <2>3. CASE pc = "tests"
    <3>1. pc' \in {"rejected", "error", "aggregate"}
      BY <1>1, <2>3
    <3>2. pc' = "aggregate" => Completed' = 1 .. n'
      BY <1>0, <1>1, <1>2, <2>1, StreamEndsWithAll
    <3>3. stop => \A k \in Completed' : ~Failed(k)'
      BY <2>1, <2>3 DEF Judging, Looked
    <3> QED BY <1>2, <2>2, <3>1, <3>2, <3>3 DEF Looked
  <2>4. CASE pc \in {"validate", "start"}
    <3>1. raw' = <<>> /\ pc' # "aggregate"
      BY <1>1, <2>4 DEF Judging, Looked
    <3>2. Completed' = {}
      BY <3>1 DEF Completed, Range
    <3> QED BY <2>2, <3>1, <3>2 DEF Looked
  <2> QED BY <1>1, <2>3, <2>4
<1>6. CASE UNCHANGED events
  <2>1. TypeOK'
    BY <1>0, <1>1, <1>2, <1>6 DEF TypeOK
  <2>2. TestResults' = TestResults
    BY <1>6 DEF TestResults
  <2>3. Told'
    BY <1>1, <1>3, <1>6, <2>2 DEF Told
  <2> QED BY <1>4, <1>5, <2>1, <2>3 DEF Judging
<1>7. CASE Event("Compiling", verdict)
  <2>1. /\ DOMAIN events' = 1 .. Len(events) + 1 /\ DOMAIN events = 1 .. Len(events)
        /\ Len(events) \in Nat
        /\ \A k \in DOMAIN events : events'[k] = events[k]
        /\ events'[Len(events) + 1] = [kind |-> "Compiling", verdict |-> verdict]
        /\ IsFiniteSet(TestResults')
        /\ Cardinality(TestResults') = Cardinality(TestResults) + 0
    BY <1>0, <1>3, <1>7, EventCounts
  <2>2. events' \in Seq([kind : {"Compiling", "TestResult", "Finished"}, verdict : Verdicts])
    <3>1. [kind |-> "Compiling", verdict |-> verdict]
            \in [kind : {"Compiling", "TestResult", "Finished"}, verdict : Verdicts]
      BY <1>0 DEF TypeOK
    <3> QED BY <1>0, <1>7, <3>1, AppendProperties DEF TypeOK, Event
  <2>3. TypeOK'
    BY <1>0, <1>1, <1>2, <2>2 DEF TypeOK
  <2>4. \A k \in DOMAIN events' : events'[k].kind # "Finished"
    BY <1>3, <2>1
  <2>5. Len(raw) \in Nat
    BY <1>0, RawCounts
  <2>6. Told'
    BY <1>1, <1>3, <2>1, <2>4, <2>5 DEF Told
  <2> QED BY <1>4, <1>5, <2>3, <2>6 DEF Judging
<1> QED BY <1>1, <1>6, <1>7

\* The aggregation decides, and leaves what was looked at alone.
LEMMA AggregateStep ==
    ASSUME Judging, Aggregate
    PROVE  Judging'
<1>1. /\ UNCHANGED request /\ UNCHANGED raw /\ pc' = "ok" /\ pc = "aggregate"
      /\ Event("Finished", verdict')
  BY DEF Aggregate
<1>2. TypeOK /\ IsFiniteSet(TestResults)
  BY DEF Judging, Told
<1>3. Untouched'
  BY <1>1 DEF Untouched
<1>4. Looked'
  BY <1>1 DEF Judging, Looked, Completed, request
<1>5. IsFiniteSet(TestResults')
  BY <1>1, <1>2, EventCounts
<1>6. Told'
  BY <1>1, <1>5 DEF Told
<1> QED BY <1>3, <1>4, <1>6, AggregateDecides DEF Judging

\* Judging holds in every behaviour.
LEMMA JudgingInvariant == Spec => []Judging
<1>1. Init => Judging
  <2> SUFFICES ASSUME Init PROVE Judging
    OBVIOUS
  <2>1. raw = <<>> /\ events = <<>> /\ pc = "validate"
    BY DEF Init
  <2>2. Completed = {} /\ TestResults = {}
    BY <2>1 DEF Completed, Range, TestResults
  <2>3. Looked /\ Untouched
    BY <2>2 DEF Init, Looked, Untouched
  <2>4. Told
    BY <2>1, <2>2, FS_EmptySet DEF Told
  <2>5. Decided
    BY <2>1 DEF Decided, AcceptedIffAllClean, RowsExplainVerdict, ReportsAgree, Judged
  <2>6. TypeOK
    BY DEF Init, TypeOK, Verdicts, IsInjective
  <2> QED BY <2>3, <2>4, <2>5, <2>6 DEF Judging
<1>2. Judging /\ [Next]_vars => Judging'
  <2> SUFFICES ASSUME Judging, [Next]_vars PROVE Judging'
    OBVIOUS
  <2>1. CASE UNCHANGED vars
    BY <2>1 DEF vars, request, Judging, TypeOK, Untouched, Looked, Told, Decided, Completed,
                Failed, TestResults, AcceptedIffAllClean, RowsExplainVerdict, ReportsAgree, Judged
  <2> QED BY <2>1, EarlyStep, CompileStep, TestStep, AggregateStep DEF Next
<1> QED BY <1>1, <1>2, PTL DEF Spec

\* TypeOK for every instance: the loop of run_tests (pipeline.rs) completes each test at
\* most once and makes of whatever is reported one of the verdicts.
THEOREM PipelineTypeCorrect == Spec => []TypeOK
BY JudgingInvariant, PTL DEF Judging

\* AcceptedIffAllClean for every number of tests, concurrency and limits: whatever order
\* the tests complete in and whether or not the loop of run_tests (pipeline.rs) stops at a
\* failure, a judged job is Accepted exactly when all its tests ran clean.
THEOREM PipelineAcceptsFairly == Spec => []AcceptedIffAllClean
BY JudgingInvariant, PTL DEF Judging, Decided

\* RowsExplainVerdict for every instance: run_tests (pipeline.rs) sorts the rows by test
\* index and takes the verdict of the first failing one, or of the only failing one when
\* it stopped there.
THEOREM PipelineExplainsVerdict == Spec => []RowsExplainVerdict
BY JudgingInvariant, PTL DEF Judging, Decided

\* ReportsAgree for every instance: the progress events, the rows of the result and the
\* call of record_job at the end of run_tests (pipeline.rs) say the same of a job.
THEOREM PipelineReportsAgree == Spec => []ReportsAgree
BY JudgingInvariant, PTL DEF Judging, Decided
=============================================================================
