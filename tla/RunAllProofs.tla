---------------------------- MODULE RunAllProofs ----------------------------
(***************************************************************************)
(* For every probe graph: the loop of RunAll keeps its counters exact,     *)
(* runs a row only on satisfied prerequisites, leaves nothing decidable    *)
(* undecided and implements the rule of ProbeDag.                          *)
(***************************************************************************)
EXTENDS MCRunAll, FiniteSetTheorems, SequenceTheorems, TLAPS

\* The inductive invariant: what the runs check, together.
IInv ==
  /\ TypeOK
  /\ CountsMatchResults
  /\ QueueIsTheReadyRows
  /\ StartedOnce
  /\ DrainedBeforeReceive
  /\ RunsOnSatisfiedInputs
  /\ NothingRunnableIsMissing

-----------------------------------------------------------------------------
\* Facts about the data of one pass.

LEMMA StatusFacts ==
  /\ NoResult \notin Status /\ Blocking \subseteq Status
  /\ \A s \in Outcome : s # NoResult => s \in Status
BY DEF NoResult, Status, Blocking, Outcome

LEMMA RowFacts ==
  ASSUME probes \in ProbeSlices
  PROVE  /\ Len(probes) \in Nat /\ Rows = 1..Len(probes)
         /\ IsFiniteSet(Rows) /\ Rows \subseteq Nat
         /\ \A i \in Rows : /\ probes[i].id \in ProbeID
                            /\ probes[i].deps \subseteq ProbeID
                            /\ IsFiniteSet(probes[i].deps)
<1>1. probes \in Seq(Row)
  BY SlicesAssumption
<1>2. Len(probes) \in Nat /\ Rows = 1..Len(probes) /\ probes \in [1..Len(probes) -> Row]
  BY <1>1, LenProperties DEF Rows
<1>3. IsFiniteSet(Rows) /\ Rows \subseteq Nat
  BY <1>2, FS_Interval
<1>4. ASSUME NEW i \in Rows
      PROVE  /\ probes[i].id \in ProbeID
             /\ probes[i].deps \subseteq ProbeID
             /\ IsFiniteSet(probes[i].deps)
  <2>1. probes[i] \in Row
    BY <1>2
  <2>2. probes[i].id \in ProbeID /\ probes[i].deps \in SUBSET ProbeID
    BY <2>1 DEF Row
  <2> QED
    BY <2>2, FS_Subset, SlicesAssumption
<1> QED
  BY <1>2, <1>3, <1>4

\* An enumeration in slice order lists every row of the set, once.
LEMMA EnumerationFacts ==
  ASSUME NEW S, IsFiniteSet(S), S \subseteq Nat, NEW q \in InRowOrder(S)
  PROVE  /\ q \in Seq(S)
         /\ \A i \in S : \E k \in 1..Len(q) : q[k] = i
         /\ \A j, k \in 1..Len(q) : q[j] = q[k] => j = k
<1>1. Cardinality(S) \in Nat
  BY FS_CardinalityType
<1>2. /\ q \in [1..Cardinality(S) -> S]
      /\ \A j, k \in DOMAIN q : j < k => q[j] < q[k]
      /\ \A i \in S : \E k \in DOMAIN q : q[k] = i
  BY DEF InRowOrder
<1>3. q \in Seq(S) /\ Len(q) = Cardinality(S) /\ DOMAIN q = 1..Len(q)
  BY <1>1, <1>2
<1>4. ASSUME NEW j \in 1..Len(q), NEW k \in 1..Len(q), q[j] = q[k]
      PROVE  j = k
  <2>1. q[j] \in Nat /\ q[k] \in Nat
    BY <1>2, <1>3
  <2>2. ~(q[j] < q[k]) /\ ~(q[k] < q[j])
    BY <2>1, <1>4
  <2>3. j \in Int /\ k \in Int
    BY <1>3
  <2> QED
    BY <1>2, <1>3, <2>2, <2>3
<1> QED
  BY <1>2, <1>3, <1>4

LEMMA MissingFacts ==
  ASSUME TypeOK, NEW i \in Rows
  PROVE  /\ IsFiniteSet(Missing(i)) /\ Cardinality(Missing(i)) \in Nat
         /\ Cardinality(Missing(i)) = 0 <=> Missing(i) = {}
<1>1. IsFiniteSet(probes[i].deps) /\ Missing(i) \in SUBSET probes[i].deps
  BY RowFacts DEF TypeOK, Missing
<1>2. IsFiniteSet(Missing(i))
  BY <1>1, FS_Subset
<1> QED
  BY <1>2, FS_CardinalityType, FS_EmptySet

LEMMA InitIInv == Init => IInv
<1> SUFFICES ASSUME Init PROVE IInv
  OBVIOUS
<1> USE DEF Init, NewProbeScheduler
<1> DEFINE Roots == {i \in Rows : probes[i].deps = {}}
<1>1. IsFiniteSet(Rows) /\ Rows \subseteq Nat
      /\ \A i \in Rows : IsFiniteSet(probes[i].deps) /\ probes[i].deps \subseteq ProbeID
  BY RowFacts
<1>2. Roots \in SUBSET Rows /\ IsFiniteSet(Roots) /\ Roots \subseteq Nat
  BY <1>1, FS_Subset
<1>3. /\ ready \in Seq(Roots)
      /\ \A i \in Roots : \E k \in 1..Len(ready) : ready[k] = i
      /\ \A j, k \in 1..Len(ready) : ready[j] = ready[k] => j = k
  BY <1>2, EnumerationFacts
<1>4. /\ ready \in Seq(Rows) /\ DOMAIN ready = 1..Len(ready) /\ Len(ready) \in Nat
      /\ \A k \in DOMAIN ready : ready[k] \in Roots
  <2>1. ready \in Seq(Rows)
    BY <1>2, <1>3, SeqMonotonic
  <2> QED
    BY <1>3, <2>1, LenProperties
<1>5. TypeOK
  <2>1. \A i \in Rows : Cardinality(probes[i].deps) \in Int
    BY <1>1, FS_CardinalityType
  <2> QED
    BY <1>4, <2>1 DEF TypeOK, NoInputs, Idle, Outcome
<1>6. CountsMatchResults
  <2>1. \A i \in Rows : Missing(i) = probes[i].deps
    BY <1>1 DEF Missing, NoInputs
  <2> QED
    BY <1>1, <2>1, StatusFacts DEF CountsMatchResults, NoInputs
<1>7. QueueIsTheReadyRows
  <2>1. \A i \in Rows : remaining[i] = 0 <=> i \in Roots
    BY <1>1, FS_EmptySet
  <2> QED
    BY <1>3, <1>4, <2>1 DEF QueueIsTheReadyRows
<1>8. StartedOnce
  BY FS_EmptySet DEF StartedOnce, NoInputs
<1> QED
  BY <1>5, <1>6, <1>7, <1>8
     DEF IInv, DrainedBeforeReceive, RunsOnSatisfiedInputs, NothingRunnableIsMissing

-----------------------------------------------------------------------------
\* Complete, called with the result it just recorded: the counters follow, and
\* the queue grows by exactly the rows that became ready.
LEMMA CompleteFacts ==
  ASSUME IInv, pc # "returned", pc' # "returned",
         NEW id \in ProbeID, NEW status \in Status,
         results[id] = NoResult,
         results' = [results EXCEPT ![id] = status],
         probes' = probes,
         Complete(id, status)
  PROVE  /\ remaining' \in [Rows -> Int] /\ blocked' \subseteq Rows
         /\ completed' \subseteq ProbeID /\ results' \in [ProbeID -> Outcome]
         /\ ready' \in Seq(Rows) /\ Len(ready) <= Len(ready') /\ Len(ready') \in Nat
         /\ \A k \in 1..Len(ready) : ready'[k] = ready[k]
         /\ CountsMatchResults'
         /\ QueueIsTheReadyRows'
<1> DEFINE Waiting == {i \in Rows : id \in probes[i].deps}
           Woken == {i \in Waiting : remaining[i] = 1}
<1>1. TypeOK /\ CountsMatchResults /\ QueueIsTheReadyRows
  BY DEF IInv
<1>2. id \notin completed
  BY <1>1 DEF CountsMatchResults
<1>3. /\ completed' = completed \cup {id}
      /\ blocked' = IF status \in Blocking THEN blocked \cup Waiting ELSE blocked
      /\ remaining' = [i \in Rows |-> IF i \in Waiting THEN remaining[i] - 1 ELSE remaining[i]]
      /\ \E q \in InRowOrder(Woken) : ready' = ready \o q
  BY <1>2 DEF Complete
<1>4. PICK q \in InRowOrder(Woken) : ready' = ready \o q
  BY <1>3
<1>5. /\ IsFiniteSet(Rows) /\ Rows \subseteq Nat
      /\ \A i \in Rows : probes[i].deps \subseteq ProbeID
  BY <1>1, RowFacts DEF TypeOK
<1>6. Woken \in SUBSET Rows /\ IsFiniteSet(Woken) /\ Woken \subseteq Nat
  BY <1>5, FS_Subset
<1>7. /\ q \in Seq(Woken)
      /\ \A i \in Woken : \E k \in 1..Len(q) : q[k] = i
      /\ \A j, k \in 1..Len(q) : q[j] = q[k] => j = k
  BY <1>6, EnumerationFacts
<1>8. q \in Seq(Rows) /\ Len(q) \in Nat /\ \A k \in 1..Len(q) : q[k] \in Woken
  <2>1. q \in Seq(Rows)
    BY <1>6, <1>7, SeqMonotonic
  <2> QED
    BY <1>7, <2>1, LenProperties
<1>9. ready \in Seq(Rows) /\ Len(ready) \in Nat /\ DOMAIN ready = 1..Len(ready)
  BY <1>1, LenProperties DEF TypeOK
<1>10. /\ ready' \in Seq(Rows)
       /\ Len(ready') = Len(ready) + Len(q) /\ DOMAIN ready' = 1..Len(ready')
       /\ \A k \in 1..Len(ready') :
            ready'[k] = IF k <= Len(ready) THEN ready[k] ELSE q[k - Len(ready)]
  <2>1. /\ ready \o q \in Seq(Rows) /\ Len(ready \o q) = Len(ready) + Len(q)
        /\ \A k \in 1..(Len(ready) + Len(q)) :
             (ready \o q)[k] = IF k <= Len(ready) THEN ready[k] ELSE q[k - Len(ready)]
    BY <1>8, <1>9, ConcatProperties
  <2> QED
    BY <1>4, <2>1, LenProperties
<1>11. remaining' \in [Rows -> Int] /\ blocked' \subseteq Rows
       /\ completed' \subseteq ProbeID /\ results' \in [ProbeID -> Outcome]
  BY <1>1, <1>3 DEF TypeOK, Outcome
<1>12. CountsMatchResults'
  <2>1. completed' = {x \in ProbeID : results'[x] # NoResult}
    BY <1>1, <1>3, StatusFacts DEF TypeOK, CountsMatchResults
  <2>2. ASSUME NEW i \in Rows
        PROVE  remaining'[i] = Cardinality(Missing(i)')
    <3>1. IsFiniteSet(Missing(i)) /\ Cardinality(Missing(i)) \in Nat
          /\ remaining[i] = Cardinality(Missing(i))
      BY <1>1, <2>2, MissingFacts DEF CountsMatchResults
    <3>2. Missing(i)' = Missing(i) \ {id}
      BY <1>1, StatusFacts, <1>5 DEF Missing, TypeOK
    <3>3. i \in Waiting <=> id \in Missing(i)
      BY DEF Missing
    <3>4. Cardinality(Missing(i) \ {id}) =
            IF id \in Missing(i) THEN Cardinality(Missing(i)) - 1 ELSE Cardinality(Missing(i))
      BY <3>1, FS_RemoveElement
    <3>5. remaining'[i] = IF i \in Waiting THEN remaining[i] - 1 ELSE remaining[i]
      BY <1>3, <2>2
    <3> QED
      BY <3>1, <3>2, <3>3, <3>4, <3>5
  <2>3. ASSUME NEW i \in Rows
        PROVE  i \in blocked' <=> \E d \in probes[i].deps : results'[d] \in Blocking
    <3>1. i \in blocked <=> \E d \in probes[i].deps : results[d] \in Blocking
      BY <1>1, <2>3 DEF CountsMatchResults
    <3>2. \A d \in probes[i].deps : results'[d] = IF d = id THEN status ELSE results[d]
      BY <1>1, <1>5, <2>3 DEF TypeOK
    <3>3. NoResult \notin Blocking
      BY StatusFacts
    <3> QED
      BY <1>3, <2>3, <3>1, <3>2, <3>3
  <2> QED
    BY <2>1, <2>2, <2>3 DEF CountsMatchResults, Rows
<1>13. \A i \in Rows : remaining'[i] = 0 <=> (remaining[i] = 0 \/ i \in Woken)
  <2> SUFFICES ASSUME NEW i \in Rows
               PROVE  remaining'[i] = 0 <=> (remaining[i] = 0 \/ i \in Woken)
    OBVIOUS
  <2>1. remaining[i] = Cardinality(Missing(i)) /\ remaining[i] \in Nat
        /\ (remaining[i] = 0 <=> Missing(i) = {})
    BY <1>1, MissingFacts DEF CountsMatchResults
  <2>2. i \in Waiting => id \in Missing(i)
    BY DEF Missing
  <2> QED
    BY <1>3, <2>1, <2>2
<1>14. QueueIsTheReadyRows'
  <2>1. \A i \in Rows : remaining[i] = 0 <=> \E k \in 1..Len(ready) : ready[k] = i
    BY <1>1, <1>9 DEF QueueIsTheReadyRows
  <2>2. ASSUME NEW i \in Rows, remaining'[i] = 0
        PROVE  \E k \in 1..Len(ready') : ready'[k] = i
    <3>1. CASE remaining[i] = 0
      <4>1. PICK k \in 1..Len(ready) : ready[k] = i
        BY <2>1, <3>1
      <4>2. k \in 1..Len(ready') /\ ready'[k] = i
        BY <1>8, <1>9, <1>10, <4>1
      <4> QED BY <4>2
    <3>2. CASE i \in Woken
      <4>1. PICK k \in 1..Len(q) : q[k] = i
        BY <1>7, <3>2
      <4>2. PICK m \in Nat : m = Len(ready) + k
        BY <1>9
      <4>3. m \in 1..Len(ready') /\ ~(m <= Len(ready)) /\ m - Len(ready) = k
        BY <1>8, <1>9, <1>10, <4>1, <4>2
      <4>4. ready'[m] = i
        BY <1>10, <4>1, <4>3
      <4> QED BY <4>3, <4>4
    <3> QED BY <1>13, <2>2, <3>1, <3>2
  <2>3. ASSUME NEW k \in 1..Len(ready')
        PROVE  /\ k > Len(ready) => k - Len(ready) \in 1..Len(q) /\ ready'[k] \in Woken
               /\ k <= Len(ready) => k \in 1..Len(ready) /\ ready'[k] = ready[k]
                                     /\ ready'[k] \notin Woken /\ remaining[ready'[k]] = 0
    <3>1. CASE k > Len(ready)
      BY <1>8, <1>9, <1>10, <3>1
    <3>2. CASE k <= Len(ready)
      <4>1. k \in 1..Len(ready) /\ ready'[k] = ready[k]
        BY <1>8, <1>9, <1>10, <3>2
      <4>2. ready[k] \in Rows
        BY <1>9, <4>1, ElementOfSeq
      <4>3. remaining[ready[k]] = 0
        BY <2>1, <4>1, <4>2
      <4> QED BY <3>2, <4>1, <4>2, <4>3, <1>9
    <3> QED BY <1>9, <3>1, <3>2
  <2>4. \A k \in 1..Len(ready') : ready'[k] \in Rows /\ remaining'[ready'[k]] = 0
    BY <1>6, <1>9, <1>10, <1>13, <2>3, ElementOfSeq
  <2>5. ASSUME NEW j \in 1..Len(ready'), NEW k \in 1..Len(ready'), ready'[j] = ready'[k]
        PROVE  j = k
    <3>1. CASE j <= Len(ready) /\ k <= Len(ready)
      BY <1>1, <1>9, <2>3, <2>5, <3>1 DEF QueueIsTheReadyRows
    <3>2. CASE j > Len(ready) /\ k > Len(ready)
      <4>1. j - Len(ready) \in 1..Len(q) /\ k - Len(ready) \in 1..Len(q)
        BY <2>3, <3>2
      <4>2. ready'[j] = q[j - Len(ready)] /\ ready'[k] = q[k - Len(ready)]
        BY <1>9, <1>10, <3>2
      <4>3. j - Len(ready) = k - Len(ready)
        BY <1>7, <2>5, <4>1, <4>2
      <4>4. j \in Int /\ k \in Int
        OBVIOUS
      <4> QED
        BY <1>9, <4>3, <4>4
    <3>3. CASE ~(j <= Len(ready) <=> k <= Len(ready))
      BY <1>9, <2>3, <2>5, <3>3
    <3> QED BY <1>9, <3>1, <3>2, <3>3
  <2> QED
    <3>1. Rows' = Rows
      BY DEF Rows
    <3>2. \A i \in Rows : remaining'[i] = 0 <=> \E k \in 1..Len(ready') : ready'[k] = i
      BY <2>2, <2>4
    <3> QED
      BY <2>5, <3>1, <3>2 DEF QueueIsTheReadyRows
<1>15. Len(ready) <= Len(ready') /\ Len(ready') \in Nat
  BY <1>8, <1>9, <1>10
<1>16. \A k \in 1..Len(ready) : ready'[k] = ready[k]
  BY <1>8, <1>9, <1>10
<1> QED
  BY <1>10, <1>11, <1>12, <1>14, <1>15, <1>16

-----------------------------------------------------------------------------
\* One lemma per action of the loop and of the workers.

\* What Next returns is a row whose dependencies all have a result, with an ID
\* that has none and is not in flight.
LEMMA NextReturnsFacts ==
  ASSUME IInv, pc # "returned", NEW k \in DOMAIN ready, NextReturns(k)
  PROVE  /\ k \in 1..Len(ready) /\ ready[k] \in Rows
         /\ probes[ready[k]].id \in ProbeID /\ probes[ready[k]].deps \subseteq ProbeID
         /\ Missing(ready[k]) = {}
         /\ results[probes[ready[k]].id] = NoResult
         /\ \A w \in workers : probes[w].id # probes[ready[k]].id
         /\ ready[k] \notin workers
         /\ \A j \in 1..head' : probes[ready[j]].id \in started'
<1>1. TypeOK /\ CountsMatchResults /\ QueueIsTheReadyRows /\ StartedOnce
      /\ DrainedBeforeReceive
  BY DEF IInv
<1>2. k \in 1..Len(ready) /\ ready[k] \in Rows
  BY <1>1, LenProperties, ElementOfSeq DEF TypeOK
<1>3. probes[ready[k]].id \in ProbeID /\ probes[ready[k]].deps \subseteq ProbeID
  BY <1>1, <1>2, RowFacts DEF TypeOK
<1>4. remaining[ready[k]] = 0
  BY <1>1, <1>2 DEF QueueIsTheReadyRows
<1>5. Missing(ready[k]) = {}
  BY <1>1, <1>2, <1>4, MissingFacts DEF CountsMatchResults
<1>6. probes[ready[k]].id \notin started
  BY DEF NextReturns
<1>7. ASSUME NEW j \in 1..head' PROVE probes[ready[j]].id \in started'
  <2>1. head' = k /\ started' = started \cup {probes[ready[k]].id}
        /\ \A n \in (head + 1)..(k - 1) : probes[ready[n]].id \in started
    BY DEF NextReturns
  <2>2. head \in Nat /\ Len(ready) \in Nat
    BY <1>1, LenProperties DEF TypeOK
  <2>3. j = k \/ j \in 1..head \/ j \in (head + 1)..(k - 1)
    BY <1>2, <2>1, <2>2, <1>7
  <2> QED
    BY <1>1, <2>1, <2>3 DEF DrainedBeforeReceive
<1> QED
  BY <1>1, <1>2, <1>3, <1>5, <1>6, <1>7 DEF StartedOnce

LEMMA SkipPrereqIInv ==
  ASSUME IInv, NEW k \in DOMAIN ready, SkipPrereq(k)
  PROVE  IInv'
<1> DEFINE i == ready[k]
           id == probes[i].id
<1>1. TypeOK /\ StartedOnce /\ RunsOnSatisfiedInputs /\ pc = "schedule"
  BY DEF IInv, SkipPrereq
<1>2. NextReturns(k) /\ results' = [results EXCEPT ![id] = "skip"] /\ Complete(id, "skip")
      /\ UNCHANGED <<probes, running, workers, inputs, answer, pc>>
  BY DEF SkipPrereq
<1>3. /\ k \in 1..Len(ready) /\ i \in Rows /\ id \in ProbeID
      /\ results[id] = NoResult
      /\ \A w \in workers : probes[w].id # id
      /\ \A j \in 1..head' : probes[ready[j]].id \in started'
  BY <1>1, <1>2, NextReturnsFacts
<1>4. /\ remaining' \in [Rows -> Int] /\ blocked' \subseteq Rows
      /\ completed' \subseteq ProbeID /\ results' \in [ProbeID -> Outcome]
      /\ ready' \in Seq(Rows) /\ Len(ready) <= Len(ready') /\ Len(ready') \in Nat
      /\ \A j \in 1..Len(ready) : ready'[j] = ready[j]
      /\ CountsMatchResults' /\ QueueIsTheReadyRows'
  BY <1>1, <1>2, <1>3, CompleteFacts DEF Status
<1>5. Rows' = Rows /\ pc' = "schedule"
  BY <1>1, <1>2 DEF Rows
<1>6. TypeOK'
  <2>1. head' = k /\ started' = started \cup {id}
    BY <1>2 DEF NextReturns
  <2>2. head' \in 0..Len(ready') /\ started' \subseteq ProbeID
    <3>1. Len(ready) \in Nat
      BY <1>1, LenProperties DEF TypeOK
    <3>2. k \in 0..Len(ready')
      BY <1>3, <1>4, <3>1
    <3> QED
      BY <1>1, <1>3, <2>1, <3>2 DEF TypeOK
  <2> QED
    BY <1>1, <1>2, <1>4, <1>5, <2>2 DEF TypeOK
<1>7. \A x \in ProbeID : results'[x] = IF x = id THEN "skip" ELSE results[x]
  BY <1>1, <1>2 DEF TypeOK
<1>8. StartedOnce'
  <2>1. started' = started \cup {id}
    BY <1>2 DEF NextReturns
  <2>2. \A w \in workers : probes[w].id \in ProbeID
    BY <1>1, RowFacts DEF TypeOK
  <2> QED
    BY <1>1, <1>2, <1>3, <1>7, <2>1, <2>2, StatusFacts DEF StartedOnce, NoResult
<1>9. RunsOnSatisfiedInputs'
  <2> SUFFICES ASSUME NEW w \in workers, NEW d \in probes[w].deps
               PROVE  inputs[w][d] \in Status \ Blocking /\ inputs[w][d] = results'[d]
    BY <1>2 DEF RunsOnSatisfiedInputs
  <2>1. inputs[w][d] \in Status \ Blocking /\ inputs[w][d] = results[d]
    BY <1>1 DEF RunsOnSatisfiedInputs
  <2>2. d \in ProbeID
    BY <1>1, RowFacts DEF TypeOK
  <2>3. d # id
    BY <1>3, <2>1, StatusFacts
  <2> QED
    BY <1>7, <2>1, <2>2, <2>3
<1>10. DrainedBeforeReceive'
  <2>1. head' = k /\ probes' = probes /\ Len(ready) \in Nat
    BY <1>1, <1>2, LenProperties DEF NextReturns, TypeOK
  <2>2. \A j \in 1..head' : j \in 1..Len(ready) /\ ready'[j] = ready[j]
    BY <1>3, <1>4, <2>1
  <2> QED
    BY <1>3, <1>5, <2>1, <2>2 DEF DrainedBeforeReceive
<1> QED
  BY <1>4, <1>5, <1>6, <1>8, <1>9, <1>10 DEF IInv, NothingRunnableIsMissing

LEMMA DispatchIInv ==
  ASSUME IInv, NEW k \in DOMAIN ready, Dispatch(k)
  PROVE  IInv'
<1> DEFINE i == ready[k]
           id == probes[i].id
<1>1. TypeOK /\ CountsMatchResults /\ QueueIsTheReadyRows /\ StartedOnce
      /\ RunsOnSatisfiedInputs /\ pc = "schedule"
  BY DEF IInv, Dispatch
<1>2. /\ NextReturns(k) /\ i \notin blocked
      /\ inputs' = [inputs EXCEPT ![i] = [d \in ProbeID |->
                      IF d \in probes[i].deps THEN results[d] ELSE NoResult]]
      /\ running' = running + 1
      /\ workers' = workers \cup {i}
      /\ UNCHANGED <<probes, remaining, blocked, completed, ready, results, answer, pc>>
  BY DEF Dispatch
<1>3. /\ k \in 1..Len(ready) /\ i \in Rows /\ id \in ProbeID /\ probes[i].deps \subseteq ProbeID
      /\ Missing(i) = {} /\ results[id] = NoResult
      /\ \A w \in workers : probes[w].id # id
      /\ i \notin workers
      /\ \A j \in 1..head' : probes[ready[j]].id \in started'
  BY <1>1, <1>2, NextReturnsFacts
<1>4. head' = k /\ started' = started \cup {id}
  BY <1>2 DEF NextReturns
<1>5. Rows' = Rows
  BY <1>2 DEF Rows
<1>6. TypeOK'
  <2>1. head' \in 0..Len(ready')
    BY <1>1, <1>2, <1>3, <1>4, LenProperties DEF TypeOK
  <2>2. inputs' \in [Rows -> [ProbeID -> Outcome]]
    BY <1>1, <1>2 DEF TypeOK, Outcome
  <2> QED
    BY <1>1, <1>2, <1>3, <1>4, <1>5, <2>1, <2>2 DEF TypeOK
<1>7. CountsMatchResults' /\ QueueIsTheReadyRows'
  BY <1>1, <1>2, <1>5 DEF CountsMatchResults, QueueIsTheReadyRows, Missing
<1>8. StartedOnce'
  <2>1. IsFiniteSet(workers) /\ IsFiniteSet(Rows)
    BY <1>1, RowFacts, FS_Subset DEF TypeOK
  <2>2. Cardinality(workers') = Cardinality(workers) + 1
    BY <1>2, <1>3, <2>1, FS_AddElement
  <2> QED
    BY <1>1, <1>2, <1>3, <1>4, <2>2 DEF StartedOnce
<1>9. RunsOnSatisfiedInputs'
  <2> SUFFICES ASSUME NEW w \in workers', NEW d \in probes[w].deps
               PROVE  inputs'[w][d] \in Status \ Blocking /\ inputs'[w][d] = results[d]
    BY <1>2 DEF RunsOnSatisfiedInputs
  <2>1. CASE w = i
    <3>1. d \in ProbeID /\ inputs'[w][d] = results[d]
      BY <1>1, <1>2, <1>3, <2>1 DEF TypeOK
    <3>2. results[d] # NoResult
      BY <1>3, <2>1 DEF Missing
    <3>3. results[d] \notin Blocking
      BY <1>1, <1>2, <1>3, <2>1 DEF CountsMatchResults
    <3>4. results[d] \in Status
      BY <1>1, <3>1, <3>2, StatusFacts DEF TypeOK
    <3> QED
      BY <3>1, <3>3, <3>4
  <2>2. CASE w # i
    <3>1. w \in workers /\ inputs'[w] = inputs[w]
      BY <1>1, <1>2, <2>2 DEF TypeOK
    <3> QED
      BY <1>1, <3>1 DEF RunsOnSatisfiedInputs
  <2> QED
    BY <2>1, <2>2
<1>10. DrainedBeforeReceive'
  BY <1>1, <1>2, <1>3 DEF DrainedBeforeReceive
<1> QED
  BY <1>1, <1>2, <1>6, <1>7, <1>8, <1>9, <1>10 DEF IInv, NothingRunnableIsMissing

LEMMA DrainedIInv ==
  ASSUME IInv, Drained
  PROVE  IInv'
<1>1. TypeOK /\ CountsMatchResults /\ QueueIsTheReadyRows /\ StartedOnce
      /\ RunsOnSatisfiedInputs /\ pc = "schedule"
  BY DEF IInv, Drained
<1>2. /\ NextReturnsNone /\ pc' = "receive"
      /\ UNCHANGED <<probes, remaining, blocked, completed, ready,
                     results, running, workers, inputs, answer>>
  BY DEF Drained
<1>3. head' = Len(ready) /\ started' = started
      /\ \A j \in (head + 1)..Len(ready) : probes[ready[j]].id \in started
  BY <1>2 DEF NextReturnsNone
<1>4. TypeOK'
  BY <1>1, <1>2, <1>3, LenProperties DEF TypeOK, Rows
<1>5. CountsMatchResults' /\ QueueIsTheReadyRows' /\ StartedOnce' /\ RunsOnSatisfiedInputs'
  BY <1>1, <1>2, <1>3
     DEF CountsMatchResults, QueueIsTheReadyRows, StartedOnce, RunsOnSatisfiedInputs, Missing, Rows
<1>6. DrainedBeforeReceive'
  <2>1. head \in Nat /\ Len(ready) \in Nat
    BY <1>1, LenProperties DEF TypeOK
  <2>2. \A j \in 1..Len(ready) : j \in 1..head \/ j \in (head + 1)..Len(ready)
    BY <2>1
  <2> QED
    BY <1>1, <1>2, <1>3, <2>2 DEF IInv, DrainedBeforeReceive
<1> QED
  BY <1>2, <1>4, <1>5, <1>6 DEF IInv, NothingRunnableIsMissing

LEMMA RunIInv ==
  ASSUME IInv, NEW i \in workers, NEW status \in Status, Run(i, status)
  PROVE  IInv'
<1>1. /\ answer' = [answer EXCEPT ![i] = status]
      /\ UNCHANGED <<probes, remaining, blocked, started, completed, ready, head,
                     results, running, workers, inputs, pc>>
  BY DEF Run
<1>2. TypeOK'
  BY <1>1 DEF IInv, TypeOK, Rows, Outcome
<1> QED
  BY <1>1, <1>2
     DEF IInv, CountsMatchResults, QueueIsTheReadyRows, StartedOnce, DrainedBeforeReceive,
         RunsOnSatisfiedInputs, NothingRunnableIsMissing, Missing, Rows

LEMMA ReceiveIInv ==
  ASSUME IInv, NEW i \in workers, Receive(i)
  PROVE  IInv'
<1> DEFINE id == probes[i].id
           status == answer[i]
<1>1. TypeOK /\ StartedOnce /\ RunsOnSatisfiedInputs /\ DrainedBeforeReceive /\ pc = "receive"
  BY DEF IInv, Receive
<1>2. /\ status # NoResult
      /\ results' = [results EXCEPT ![id] = status]
      /\ running' = running - 1
      /\ workers' = workers \ {i}
      /\ Complete(id, status)
      /\ pc' = "schedule"
      /\ UNCHANGED <<probes, started, head, inputs, answer>>
  BY DEF Receive
<1>3. i \in Rows /\ id \in ProbeID /\ status \in Status /\ results[id] = NoResult
  BY <1>1, <1>2, RowFacts, StatusFacts DEF TypeOK, StartedOnce
<1>4. /\ remaining' \in [Rows -> Int] /\ blocked' \subseteq Rows
      /\ completed' \subseteq ProbeID /\ results' \in [ProbeID -> Outcome]
      /\ ready' \in Seq(Rows) /\ Len(ready) <= Len(ready') /\ Len(ready') \in Nat
      /\ \A j \in 1..Len(ready) : ready'[j] = ready[j]
      /\ CountsMatchResults' /\ QueueIsTheReadyRows'
  BY <1>1, <1>2, <1>3, CompleteFacts
<1>5. Rows' = Rows
  BY <1>2 DEF Rows
<1>6. head \in Nat /\ head <= Len(ready) /\ Len(ready) \in Nat
  BY <1>1, LenProperties DEF TypeOK
<1>7. TypeOK'
  <2>1. head' \in 0..Len(ready')
    BY <1>1, <1>2, <1>4, <1>6 DEF TypeOK
  <2>2. /\ probes' \in ProbeSlices /\ started' \subseteq ProbeID /\ running' \in Int
        /\ workers' \subseteq Rows'
    BY <1>1, <1>2, <1>5 DEF TypeOK
  <2>3. /\ inputs' \in [Rows' -> [ProbeID -> Outcome]] /\ answer' \in [Rows' -> Outcome]
        /\ pc' \in {"schedule", "receive", "returned"}
    BY <1>1, <1>2, <1>5 DEF TypeOK
  <2> QED
    BY <1>4, <1>5, <2>1, <2>2, <2>3 DEF TypeOK
<1>8. \A x \in ProbeID : results'[x] = IF x = id THEN status ELSE results[x]
  BY <1>1, <1>2 DEF TypeOK
<1>9. StartedOnce'
  <2>1. IsFiniteSet(workers)
    BY <1>1, RowFacts, FS_Subset DEF TypeOK
  <2>2. Cardinality(workers') = Cardinality(workers) - 1
    BY <1>2, <2>1, FS_RemoveElement
  <2>3. \A w \in workers' : w \in workers /\ probes[w].id # id /\ probes[w].id \in ProbeID
    BY <1>1, <1>2, RowFacts DEF StartedOnce, TypeOK
  <2>4. started' = {x \in ProbeID : results'[x] # NoResult} \cup {probes[w].id : w \in workers'}
    BY <1>1, <1>2, <1>3, <1>8 DEF StartedOnce
  <2> QED
    BY <1>1, <1>2, <1>8, <2>2, <2>3, <2>4 DEF StartedOnce
<1>10. DrainedBeforeReceive'
  <2>1. \A j \in 1..head : j \in 1..Len(ready) /\ ready'[j] = ready[j]
    BY <1>4, <1>6
  <2> QED
    BY <1>1, <1>2, <2>1 DEF DrainedBeforeReceive
<1>11. RunsOnSatisfiedInputs'
  <2> SUFFICES ASSUME NEW w \in workers', NEW d \in probes[w].deps
               PROVE  inputs[w][d] \in Status \ Blocking /\ inputs[w][d] = results'[d]
    BY <1>2 DEF RunsOnSatisfiedInputs
  <2>1. inputs[w][d] \in Status \ Blocking /\ inputs[w][d] = results[d]
    BY <1>1, <1>2 DEF RunsOnSatisfiedInputs
  <2>2. d \in ProbeID
    BY <1>1, <1>2, RowFacts DEF TypeOK
  <2>3. d # id
    BY <1>3, <2>1, StatusFacts
  <2> QED
    BY <1>8, <2>1, <2>2, <2>3
<1> QED
  BY <1>2, <1>4, <1>7, <1>9, <1>10, <1>11 DEF IInv, NothingRunnableIsMissing

\* Finalize turns recorded statuses into recorded statuses and invents none.
LEMMA FinalizeFacts ==
  ASSUME TypeOK, Finalize
  PROVE  /\ results' \in [ProbeID -> Outcome]
         /\ \A x \in ProbeID : (results'[x] = NoResult) <=> (results[x] = NoResult)
         /\ \A x \in ProbeID : results'[x] # results[x] =>
              results[x] \in {"pass", "fail"} /\ results'[x] = "warn"
<1>1. PICK rows \in SUBSET Downgradable :
        results' = [x \in ProbeID |-> IF x \in rows THEN "warn" ELSE results[x]]
  BY DEF Finalize
<1>2. \A x \in Downgradable : results[x] \in {"pass", "warn", "fail"}
  BY DEF Downgradable, Functional
<1>3. \A x \in ProbeID : results'[x] = IF x \in rows THEN "warn" ELSE results[x]
  BY <1>1
<1>4. results' \in [ProbeID -> Outcome]
  BY <1>1 DEF TypeOK, Outcome, Status
<1> QED
  BY <1>2, <1>3, <1>4 DEF NoResult

LEMMA ReturnIInv ==
  ASSUME IInv, Return
  PROVE  IInv'
<1>1. TypeOK /\ CountsMatchResults /\ QueueIsTheReadyRows /\ StartedOnce
      /\ DrainedBeforeReceive /\ pc = "receive"
  BY DEF IInv, Return
<1>2. /\ running = 0 /\ Finalize /\ pc' = "returned"
      /\ UNCHANGED <<probes, remaining, blocked, started, completed, ready, head,
                     running, workers, inputs, answer>>
  BY DEF Return
<1>3. /\ results' \in [ProbeID -> Outcome]
      /\ \A x \in ProbeID : (results'[x] = NoResult) <=> (results[x] = NoResult)
  BY <1>1, <1>2, FinalizeFacts
<1>4. workers = {}
  <2>1. IsFiniteSet(workers) /\ Cardinality(workers) = 0
    BY <1>1, <1>2, RowFacts, FS_Subset DEF TypeOK, StartedOnce
  <2> QED
    BY <2>1, FS_EmptySet
<1>5. Rows' = Rows /\ \A i \in Rows : Missing(i)' = Missing(i)
  <2>1. \A i \in Rows : probes[i].deps \subseteq ProbeID
    BY <1>1, RowFacts DEF TypeOK
  <2> QED
    BY <1>2, <1>3, <2>1 DEF Rows, Missing
<1>6. TypeOK'
  BY <1>1, <1>2, <1>3, <1>5 DEF TypeOK
<1>7. CountsMatchResults'
  BY <1>1, <1>2, <1>3, <1>5 DEF CountsMatchResults
<1>8. QueueIsTheReadyRows' /\ DrainedBeforeReceive'
  BY <1>1, <1>2, <1>5 DEF QueueIsTheReadyRows, DrainedBeforeReceive
<1>9. StartedOnce' /\ RunsOnSatisfiedInputs'
  BY <1>1, <1>2, <1>3, <1>4 DEF StartedOnce, RunsOnSatisfiedInputs
<1>10. NothingRunnableIsMissing'
  <2> SUFFICES ASSUME NEW i \in Rows, Missing(i) = {}
               PROVE  results'[probes[i].id] # NoResult
    BY <1>2, <1>4, <1>5 DEF NothingRunnableIsMissing
  <2>1. remaining[i] = 0
    BY <1>1, MissingFacts DEF CountsMatchResults
  <2>2. PICK k \in DOMAIN ready : ready[k] = i
    BY <1>1, <2>1 DEF QueueIsTheReadyRows
  <2>3. k \in 1..head
    BY <1>1, <2>2, LenProperties DEF TypeOK, DrainedBeforeReceive
  <2>4. probes[i].id \in started /\ probes[i].id \in ProbeID
    BY <1>1, <2>2, <2>3, RowFacts DEF DrainedBeforeReceive, TypeOK
  <2> QED
    BY <1>1, <1>3, <1>4, <2>4 DEF StartedOnce
<1> QED
  BY <1>6, <1>7, <1>8, <1>9, <1>10 DEF IInv

-----------------------------------------------------------------------------
\* The invariant is inductive.
LEMMA StepIInv == IInv /\ [Next]_vars => IInv'
<1> SUFFICES ASSUME IInv, [Next]_vars PROVE IInv'
  OBVIOUS
<1>1. CASE Loop
  <2>1. ASSUME NEW k \in DOMAIN ready, SkipPrereq(k) \/ Dispatch(k) PROVE IInv'
    BY <2>1, SkipPrereqIInv, DispatchIInv
  <2>2. CASE Drained
    BY <2>2, DrainedIInv
  <2>3. ASSUME NEW i \in workers, Receive(i) PROVE IInv'
    BY <2>3, ReceiveIInv
  <2>4. CASE Return
    BY <2>4, ReturnIInv
  <2> QED
    BY <1>1, <2>1, <2>2, <2>3, <2>4 DEF Loop
<1>2. ASSUME NEW i \in workers, Worker(i) PROVE IInv'
  BY <1>2, RunIInv DEF Worker
<1>3. CASE UNCHANGED vars
  BY <1>3 DEF vars, IInv, TypeOK, CountsMatchResults, QueueIsTheReadyRows, StartedOnce,
       DrainedBeforeReceive, RunsOnSatisfiedInputs, NothingRunnableIsMissing, Missing, Rows
<1> QED
  BY <1>1, <1>2, <1>3 DEF Next, Done

\* The state of a pass of RunAll stays within its types.
THEOREM TypeCorrect == Spec => []TypeOK
<1>1. IInv => TypeOK
  BY DEF IInv
<1> QED
  BY <1>1, InitIInv, StepIInv, PTL DEF Spec

THEOREM Invariance == Spec => []IInv
BY InitIInv, StepIInv, PTL DEF Spec

\* The scheduler's counters and its queue say exactly what the results say, in
\* every graph and for every order of answers.
THEOREM CountersExact == Spec => [](CountsMatchResults /\ QueueIsTheReadyRows)
<1>1. IInv => CountsMatchResults /\ QueueIsTheReadyRows
  BY DEF IInv
<1> QED
  BY <1>1, Invariance, PTL

\* Each ID is dispatched at most once, and the loop sleeps only when it has
\* consumed its queue.
THEOREM DispatchedOnce == Spec => [](StartedOnce /\ DrainedBeforeReceive)
<1>1. IInv => StartedOnce /\ DrainedBeforeReceive
  BY DEF IInv
<1> QED
  BY <1>1, Invariance, PTL

\* A row only ever runs on prerequisites that have all produced output.
THEOREM InputsSatisfied == Spec => []RunsOnSatisfiedInputs
<1>1. IInv => RunsOnSatisfiedInputs
  BY DEF IInv
<1> QED
  BY <1>1, Invariance, PTL

\* The returned map misses only what could not be decided.
THEOREM ReportIsMaximal == Spec => []NothingRunnableIsMissing
<1>1. IInv => NothingRunnableIsMissing
  BY DEF IInv
<1> QED
  BY <1>1, Invariance, PTL

-----------------------------------------------------------------------------
\* Why rows were skipped, once Finalize has rewritten what it rewrites.

\* Of the statuses that block, Finalize gives up only the one of ProbeInternet.
SkipsReported ==
  pc = "returned" =>
    \A i \in blocked : \E d \in probes[i].deps : results[d] \in Blocking \/ d = ProbeInternet

LEMMA StepSkips ==
  ASSUME IInv, SkipsReported, [Next]_vars
  PROVE  SkipsReported'
<1>1. TypeOK /\ CountsMatchResults /\ NothingRunnableIsMissing
  BY DEF IInv
<1>2. CASE Return
  <2>1. /\ Finalize /\ pc = "receive" /\ blocked' = blocked /\ probes' = probes
    BY <1>2 DEF Return
  <2>2. PICK rows \in SUBSET Downgradable :
          results' = [x \in ProbeID |-> IF x \in rows THEN "warn" ELSE results[x]]
    BY <2>1 DEF Finalize
  <2>3. \A x \in Downgradable : results[x] \in Blocking => x = ProbeInternet
    BY DEF Downgradable, Functional, Blocking
  <2>4. \A x \in ProbeID : results[x] \in Blocking => results'[x] \in Blocking \/ x = ProbeInternet
    BY <2>2, <2>3
  <2>5. ASSUME NEW i \in blocked
        PROVE  \E d \in probes[i].deps : results'[d] \in Blocking \/ d = ProbeInternet
    <3>1. i \in Rows /\ probes[i].deps \subseteq ProbeID
      BY <1>1, RowFacts DEF TypeOK
    <3>2. PICK d \in probes[i].deps : results[d] \in Blocking
      BY <1>1, <2>1, <3>1 DEF CountsMatchResults
    <3> QED
      BY <2>4, <3>1, <3>2
  <2> QED
    BY <2>1, <2>5 DEF SkipsReported
<1>3. ASSUME NEW k \in DOMAIN ready, SkipPrereq(k) \/ Dispatch(k) PROVE SkipsReported'
  BY <1>3 DEF SkipPrereq, Dispatch, SkipsReported
<1>4. CASE Drained
  BY <1>4 DEF Drained, SkipsReported
<1>5. ASSUME NEW i \in workers, Receive(i) PROVE SkipsReported'
  BY <1>5 DEF Receive, SkipsReported
<1>6. ASSUME NEW i \in workers, Worker(i) PROVE SkipsReported'
  <2>1. pc # "returned"
    BY <1>1, <1>6 DEF NothingRunnableIsMissing
  <2> QED
    BY <1>6, <2>1 DEF Worker, Run, SkipsReported
<1>7. CASE UNCHANGED vars
  BY <1>7 DEF vars, SkipsReported
<1> QED
  BY <1>2, <1>3, <1>4, <1>5, <1>6, <1>7 DEF Next, Loop, Done

LEMMA SkipsInvariance == Spec => []SkipsReported
<1>1. Init => SkipsReported
  BY DEF Init, SkipsReported
<1> QED
  BY <1>1, StepSkips, Invariance, PTL DEF Spec

\* Finalize rewrites statuses after the gating (runall.go): in every graph in which
\* nothing depends on the reference connect, which it may clear of a failure, a row
\* skipped for a prerequisite is still shown beside one that failed or was skipped.
THEOREM SkipsExplained ==
  Spec => []((\A i \in Rows : ProbeInternet \notin probes[i].deps) => SkipsAreExplained)
<1>1. IInv /\ SkipsReported =>
        ((\A i \in Rows : ProbeInternet \notin probes[i].deps) => SkipsAreExplained)
  BY DEF IInv, TypeOK, SkipsReported, SkipsAreExplained
<1> QED
  BY <1>1, Invariance, SkipsInvariance, PTL

\* So it is for the graph BuildProbes makes for an https target.
THEOREM TargetSkips == Spec => []TargetSkipsAreExplained
<1>1. ASSUME probes \in TargetGraph PROVE \A i \in Rows : ProbeInternet \notin probes[i].deps
  <2>1. /\ Rows = 1..6
        /\ probes[1].deps = {} /\ probes[2].deps = {"iface"} /\ probes[3].deps = {"iface"}
        /\ probes[4].deps = {"iface"} /\ probes[5].deps = {"dns"} /\ probes[6].deps = {"target_tcp"}
    BY <1>1 DEF TargetGraph, ProbeRow, Rows
  <2>2. ASSUME NEW i \in Rows PROVE probes[i].deps \subseteq {"iface", "dns", "target_tcp"}
    <3>1. i = 1 \/ i = 2 \/ i = 3 \/ i = 4 \/ i = 5 \/ i = 6
      BY <2>1
    <3> QED
      BY <2>1, <3>1
  <2> QED
    BY <2>2, NamesAssumption
<1>2. ((\A i \in Rows : ProbeInternet \notin probes[i].deps) => SkipsAreExplained)
        => TargetSkipsAreExplained
  BY <1>1 DEF TargetSkipsAreExplained
<1> QED
  BY <1>2, SkipsExplained, PTL

-----------------------------------------------------------------------------
\* The refinement of ProbeDag, action by action.
LEMMA DagInit == Init => Dag!Init
BY DEF Init, NewProbeScheduler, NoInputs, Dag!Init, Dag!NoResult, NoResult

LEMMA DagStep ==
  ASSUME IInv, [Next]_vars
  PROVE  [Dag!Next]_(Dag!dagVars)
<1> USE DEF Dag!NoResult, Dag!Blocking, Dag!Status, Dag!dagVars
<1>1. TypeOK /\ CountsMatchResults /\ StartedOnce /\ NothingRunnableIsMissing
  BY DEF IInv
<1>2. ASSUME NEW k \in DOMAIN ready, SkipPrereq(k) \/ Dispatch(k)
      PROVE  Dag!Next
  <2>1. pc = "schedule" /\ NextReturns(k) /\ ready[k] \in Rows
    BY <1>2, NextReturnsFacts DEF SkipPrereq, Dispatch
  <2> PICK i \in Rows : i = ready[k]
    BY <2>1
  <2>2. /\ Missing(i) = {} /\ results[probes[i].id] = NoResult
        /\ \A w \in workers : probes[w].id # probes[i].id
    BY <2>1, NextReturnsFacts
  <2>3. Dag!DepsReady(i) /\ Dag!Undecided(probes[i].id) /\ i \in DOMAIN probes
    BY <2>2 DEF Dag!DepsReady, Dag!Undecided, Missing, NoResult, Rows
  <2>4. i \in blocked <=> Dag!DepsBlock(i)
    BY <1>1, <2>1, <2>2 DEF CountsMatchResults, Dag!DepsBlock, Blocking
  <2>5. CASE SkipPrereq(k)
    <3>1. Dag!Skip(i)
      BY <2>1, <2>3, <2>4, <2>5 DEF SkipPrereq, Dag!Skip
    <3> QED
      BY <2>3, <3>1 DEF Dag!Next
  <2>6. CASE Dispatch(k)
    <3>1. {probes'[w].id : w \in workers'} = {probes[w].id : w \in workers} \cup {probes[i].id}
      BY <2>6 DEF Dispatch
    <3>2. Dag!Start(i)
      BY <2>1, <2>3, <2>4, <2>6, <3>1 DEF Dispatch, Dag!Start
    <3> QED
      BY <2>3, <3>2 DEF Dag!Next
  <2> QED
    BY <1>2, <2>5, <2>6
<1>3. ASSUME NEW i \in workers, Receive(i)
      PROVE  Dag!Next
  <2>1. PICK id \in ProbeID : id = probes[i].id
    BY <1>1, RowFacts DEF TypeOK
  <2>2. /\ pc = "receive" /\ pc' = "schedule" /\ answer[i] # NoResult
        /\ results' = [results EXCEPT ![id] = answer[i]]
        /\ workers' = workers \ {i} /\ probes' = probes
    BY <1>3, <2>1 DEF Receive
  <2>3. answer[i] \in Status
    BY <1>1, <2>2, StatusFacts DEF TypeOK
  <2>4. {probes'[w].id : w \in workers'} = {probes[w].id : w \in workers} \ {id}
    BY <1>1, <2>1, <2>2 DEF StartedOnce
  <2>5. Dag!Finish(id)
    BY <2>1, <2>2, <2>3, <2>4 DEF Dag!Finish, Status
  <2> QED
    BY <2>1, <2>5 DEF Dag!Next
<1>4. CASE Return
  <2>1. pc = "receive" /\ Finalize /\ pc' = "returned" /\ UNCHANGED <<probes, workers>>
    BY <1>4 DEF Return
  <2>2. /\ results' \in [ProbeID -> Outcome]
        /\ \A x \in ProbeID : (results'[x] = NoResult) <=> (results[x] = NoResult)
        /\ \A x \in ProbeID : results'[x] # results[x] =>
             results[x] \in {"pass", "fail"} /\ results'[x] = "warn"
    BY <1>1, <2>1, FinalizeFacts
  <2>3. NothingRunnableIsMissing'
    BY <1>4, ReturnIInv DEF IInv
  <2>4. \A i \in Rows : probes[i].id \in ProbeID /\ probes[i].deps \subseteq ProbeID
    BY <1>1, RowFacts DEF TypeOK
  <2>5. workers = {} /\ \A i \in DOMAIN probes : Dag!DepsReady(i) => results[probes[i].id] # NoResult
    BY <2>1, <2>2, <2>3, <2>4 DEF NothingRunnableIsMissing, Dag!DepsReady, Missing, Rows, NoResult
  <2>6. Dag!Return
    BY <2>1, <2>2, <2>5 DEF Dag!Return, Outcome, Status, NoResult
  <2> QED
    BY <2>6 DEF Dag!Next
<1>5. CASE Drained \/ UNCHANGED vars \/ \E i \in workers : Worker(i)
  BY <1>5 DEF Drained, vars, Worker, Run
<1> QED
  BY <1>2, <1>3, <1>4, <1>5 DEF Next, Loop, Done

\* RunAll implements the DepsState rule: a row starts only with every
\* prerequisite in hand and none blocking, is skipped only for one that blocks,
\* and the report is handed back only when nothing more can be decided.
THEOREM Refinement == Spec => ImplementsDag
BY DagInit, DagStep, InitIInv, StepIInv, PTL DEF Spec, ImplementsDag, Dag!Spec
=============================================================================
