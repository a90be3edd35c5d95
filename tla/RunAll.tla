------------------------------- MODULE RunAll -------------------------------
(***************************************************************************)
(* The headless executor of a probe graph: diagnostic.RunAll               *)
(* (internal/diagnostic/runall.go). One scheduling loop owns the results   *)
(* and the scheduler; every dispatched row runs in a goroutine of its own  *)
(* on a snapshot of its dependencies' results and hands its answer over an *)
(* unbuffered channel. When nothing is in flight the loop finalizes the    *)
(* results and returns them.                                               *)
(***************************************************************************)
EXTENDS ProbeScheduler

CONSTANTS ProbeInternet, ProbeProxy, ProbeDNS, ProbeDNSPublic, ProbeTargetTCP

ASSUME ReferenceRowsAssumption ==
  {ProbeInternet, ProbeProxy, ProbeDNS, ProbeDNSPublic, ProbeTargetTCP} \subseteq ProbeID

VARIABLES
  results,  \* per ID: the recorded status, NoResult while there is none
  running,  \* RunAll's counter of rows in flight
  workers,  \* the rows whose goroutine has not handed its answer over
  inputs,   \* per row: the dependency snapshot its goroutine was given
  answer,   \* per row: what its goroutine is offering on the channel
  pc        \* where the loop is: "schedule", "receive" or "returned"

vars == <<probes, remaining, blocked, started, completed, ready, head,
          results, running, workers, inputs, answer, pc>>

NoInputs == [d \in ProbeID |-> NoResult]
Idle == [i \in Rows |-> NoResult]

Init ==
  /\ NewProbeScheduler
  /\ results = NoInputs
  /\ running = 0
  /\ workers = {}
  /\ inputs = [i \in Rows |-> NoInputs]
  /\ answer = Idle
  /\ pc = "schedule"

-----------------------------------------------------------------------------
\* schedule(), a row that is ready and blocked: it is recorded as skipped and
\* completed on the spot.
SkipPrereq(k) ==
  LET i == ready[k] IN
  /\ pc = "schedule"
  /\ NextReturns(k)
  /\ i \in blocked
  /\ results' = [results EXCEPT ![probes[i].id] = "skip"]
  /\ Complete(probes[i].id, "skip")
  /\ UNCHANGED <<probes, running, workers, inputs, answer, pc>>

\* schedule(), a row that is ready: a goroutine gets a copy of what the row
\* depends on.
Dispatch(k) ==
  LET i == ready[k] IN
  /\ pc = "schedule"
  /\ NextReturns(k)
  /\ i \notin blocked
  /\ inputs' = [inputs EXCEPT ![i] = [d \in ProbeID |->
                   IF d \in probes[i].deps THEN results[d] ELSE NoResult]]
  /\ running' = running + 1
  /\ workers' = workers \cup {i}
  /\ UNCHANGED <<probes, remaining, blocked, completed, ready, results, answer, pc>>

\* A fault: schedule() keeps polling the drained queue.
DrainedSpins ==
  /\ pc = "schedule"
  /\ NextReturnsNone
  /\ UNCHANGED <<probes, remaining, blocked, completed, ready,
                 results, running, workers, inputs, answer, pc>>

\* schedule() returns once the queue is drained.
Drained ==
  /\ pc = "schedule"
  /\ NextReturnsNone
  /\ pc' = "receive"
  /\ UNCHANGED <<probes, remaining, blocked, completed, ready,
                 results, running, workers, inputs, answer>>

\* A row's Run answers, at the latest because its timeout or the context ended.
\* A row may report any status, Skip included.
Run(i, status) ==
  /\ i \in workers
  /\ answer[i] = NoResult
  /\ answer' = [answer EXCEPT ![i] = status]
  /\ UNCHANGED <<probes, remaining, blocked, started, completed, ready, head,
                 results, running, workers, inputs, pc>>

\* The loop receives one answer, records it and schedules again.
Receive(i) ==
  /\ pc = "receive"
  /\ running > 0
  /\ i \in workers
  /\ answer[i] # NoResult
  /\ results' = [results EXCEPT ![probes[i].id] = answer[i]]
  /\ running' = running - 1
  /\ workers' = workers \ {i}
  /\ Complete(probes[i].id, answer[i])
  /\ pc' = "schedule"
  /\ UNCHANGED <<probes, started, head, inputs, answer>>

\* The statuses Finalize may leave in place of the recorded ones. Details,
\* causes and fixes are left out, so whether a rewrite that the statuses allow
\* takes place is a choice.
Functional(status) == status \in {"pass", "warn"}

Downgradable ==
  {id \in {ProbeDNSPublic} : results[id] = "pass" /\ results[ProbeDNS] # NoResult}
    \cup {id \in {ProbeInternet} : results[id] = "fail"
             /\ (Functional(results[ProbeTargetTCP]) \/ Functional(results[ProbeProxy]))}
    \cup {id \in {ProbeTargetTCP} : Functional(results[id])}

\* A fault: a target that failed outright is shown as degraded.
FinalizeHidesFailure ==
  \E rows \in SUBSET (Downgradable \cup {ProbeTargetTCP}) :
    results' = [id \in ProbeID |-> IF id \in rows /\ results[id] # NoResult
                                      THEN "warn" ELSE results[id]]

Finalize ==
  \E rows \in SUBSET Downgradable :
    results' = [id \in ProbeID |-> IF id \in rows THEN "warn" ELSE results[id]]

\* Nothing is in flight: the results are finalized and returned.
Return ==
  /\ pc = "receive"
  /\ running = 0
  /\ Finalize
  /\ pc' = "returned"
  /\ UNCHANGED <<probes, remaining, blocked, started, completed, ready, head,
                 running, workers, inputs, answer>>

Loop ==
  \/ \E k \in DOMAIN ready : SkipPrereq(k) \/ Dispatch(k)
  \/ Drained
  \/ \E i \in workers : Receive(i)
  \/ Return

Worker(i) == \E s \in Status : Run(i, s)

\* The caller has its map.
Done == pc = "returned" /\ UNCHANGED vars

Next == Loop \/ (\E i \in workers : Worker(i)) \/ Done

\* The loop is one goroutine that is always scheduled again. A row's Run ends
\* because it runs under its own timeout, and its goroutine then sends.
Fairness == WF_vars(Loop) /\ WF_vars(\E i \in workers : Worker(i))

Spec == Init /\ [][Next]_vars
FairSpec == Spec /\ Fairness

-----------------------------------------------------------------------------
TypeOK ==
  /\ probes \in ProbeSlices
  /\ remaining \in [Rows -> Int]
  /\ blocked \subseteq Rows
  /\ started \subseteq ProbeID
  /\ completed \subseteq ProbeID
  /\ ready \in Seq(Rows)
  /\ head \in 0..Len(ready)
  /\ results \in [ProbeID -> Outcome]
  /\ running \in Int
  /\ workers \subseteq Rows
  /\ inputs \in [Rows -> [ProbeID -> Outcome]]
  /\ answer \in [Rows -> Outcome]
  /\ pc \in {"schedule", "receive", "returned"}

Missing(i) == {d \in probes[i].deps : results[d] = NoResult}

\* The counters agree with the results they stand for: a row waits for exactly
\* the dependencies without a result and is blocked by exactly those that
\* failed, whatever order the answers arrived in.
CountsMatchResults ==
  /\ completed = {id \in ProbeID : results[id] # NoResult}
  /\ \A i \in Rows : remaining[i] = Cardinality(Missing(i))
  /\ pc # "returned" =>
       \A i \in Rows : i \in blocked <=> \E d \in probes[i].deps : results[d] \in Blocking

\* Every row with nothing left to wait for is in the queue, every entry of the
\* queue has nothing left to wait for, and a row is queued once.
QueueIsTheReadyRows ==
  /\ \A i \in Rows : remaining[i] = 0 <=> \E k \in DOMAIN ready : ready[k] = i
  /\ \A j, k \in DOMAIN ready : ready[j] = ready[k] => j = k

\* What Next handed out is in flight or has its result, never both, and no two
\* goroutines run the same ID.
StartedOnce ==
  /\ started = {id \in ProbeID : results[id] # NoResult} \cup {probes[i].id : i \in workers}
  /\ \A i \in workers : results[probes[i].id] = NoResult
  /\ \A i, j \in workers : probes[i].id = probes[j].id => i = j
  /\ running = Cardinality(workers)

\* What the loop has consumed of the queue is started, and when it waits it has
\* consumed all of it: it never sleeps on a row it could have started.
DrainedBeforeReceive ==
  /\ \A k \in 1..head : probes[ready[k]].id \in started
  /\ pc # "schedule" => head = Len(ready)

\* A row runs only on a complete snapshot of prerequisites that all produced
\* output, and nothing recorded later replaces what the snapshot says.
RunsOnSatisfiedInputs ==
  \A i \in workers : \A d \in probes[i].deps :
    /\ inputs[i][d] \in Status \ Blocking
    /\ inputs[i][d] = results[d]

\* No goroutine is left when the map is returned, and the map leaves out
\* exactly the rows whose prerequisites it leaves out too: nothing that could
\* have been decided is missing.
NothingRunnableIsMissing ==
  pc = "returned" =>
    /\ workers = {}
    /\ \A i \in Rows : Missing(i) = {} => results[probes[i].id] # NoResult

\* Finalize runs after the gating, and still leaves no row skipped for a
\* prerequisite that the returned map shows as usable. It holds for the graphs
\* whose downgraded rows gate nothing.
SkipsAreExplained ==
  pc = "returned" =>
    \A i \in blocked : \E d \in probes[i].deps : results[d] \in Blocking

\* The loop, its queue and its counters implement the rule of ProbeDag.
Dag == INSTANCE ProbeDag WITH
         inFlight <- {probes[i].id : i \in workers},
         returned <- (pc = "returned")

ImplementsDag == Dag!Spec

\* RunAll returns, whatever the graph and the answers.
EventuallyReturns == <>(pc = "returned")
=============================================================================
