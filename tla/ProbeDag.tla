------------------------------ MODULE ProbeDag ------------------------------
(***************************************************************************)
(* What the executors of a probe graph promise, without queues, counters   *)
(* or channels: the rule of diagnostic.DepsState over the recorded results *)
(* (internal/diagnostic/runall.go). A row starts once all its dependencies *)
(* have a result and none blocks, is skipped once all have one and some    *)
(* blocks, and each ID starts at most once. The results are handed back    *)
(* only when nothing is in flight and no row is decidable any more.        *)
(***************************************************************************)
EXTENDS Integers, Sequences

CONSTANTS ProbeID, ProbeSlices

Status == {"pass", "warn", "fail", "skip", "na"}
NoResult == "none"
Blocking == {"fail", "skip"}

VARIABLES
  probes,    \* the slice
  results,   \* per ID: its status, or NoResult
  inFlight,  \* the IDs that are running
  returned   \* the results were handed back

dagVars == <<probes, results, inFlight, returned>>

Init ==
  /\ probes \in ProbeSlices
  /\ results = [id \in ProbeID |-> NoResult]
  /\ inFlight = {}
  /\ returned = FALSE

\* DepsState: every dependency is there, and whether one of them blocks.
DepsReady(i) == \A d \in probes[i].deps : results[d] # NoResult
DepsBlock(i) == \E d \in probes[i].deps : results[d] \in Blocking

Undecided(id) == results[id] = NoResult /\ id \notin inFlight

Start(i) ==
  /\ ~returned
  /\ DepsReady(i) /\ ~DepsBlock(i) /\ Undecided(probes[i].id)
  /\ inFlight' = inFlight \cup {probes[i].id}
  /\ UNCHANGED <<probes, results, returned>>

Skip(i) ==
  /\ ~returned
  /\ DepsReady(i) /\ DepsBlock(i) /\ Undecided(probes[i].id)
  /\ results' = [results EXCEPT ![probes[i].id] = "skip"]
  /\ UNCHANGED <<probes, inFlight, returned>>

Finish(id) ==
  /\ id \in inFlight
  /\ inFlight' = inFlight \ {id}
  /\ \E s \in Status : results' = [results EXCEPT ![id] = s]
  /\ UNCHANGED <<probes, returned>>

\* Handing the results back may improve or qualify a status, but it neither
\* invents a result nor drops one, and never turns a usable row into a failure.
Return ==
  /\ ~returned
  /\ inFlight = {}
  /\ \A i \in DOMAIN probes : DepsReady(i) => results[probes[i].id] # NoResult
  /\ returned' = TRUE
  /\ results' \in [ProbeID -> Status \cup {NoResult}]
  /\ \A id \in ProbeID :
       results'[id] # results[id] => results[id] \in {"pass", "fail"} /\ results'[id] = "warn"
  /\ UNCHANGED <<probes, inFlight>>

Next ==
  \/ \E i \in DOMAIN probes : Start(i) \/ Skip(i)
  \/ \E id \in inFlight : Finish(id)
  \/ Return

Spec == Init /\ [][Next]_dagVars
FairSpec == Spec /\ WF_dagVars(Next)
=============================================================================
