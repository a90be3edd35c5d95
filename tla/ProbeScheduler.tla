--------------------------- MODULE ProbeScheduler ---------------------------
(***************************************************************************)
(* The dependency counts and the ready queue of one pass:                  *)
(* diagnostic.ProbeScheduler (internal/diagnostic/scheduler.go).           *)
(*                                                                         *)
(* `probes` is the slice the caller passes. Any slice is allowed: two rows *)
(* may carry one ID, a row may depend on an ID no row has, and the         *)
(* dependencies may form a cycle. A row's Deps is a set here: a            *)
(* dependency declared twice is counted twice and decremented twice, so    *)
(* the duplicate changes nothing. Only the executor's loop calls the       *)
(* scheduler, so each call is one step of the executor.                    *)
(***************************************************************************)
EXTENDS Integers, Sequences, FiniteSets

CONSTANTS
  ProbeID,      \* the identifiers that rows and dependencies may name
  ProbeSlices   \* the probe slices a pass may be built from

Row == [id : ProbeID, deps : SUBSET ProbeID]

ASSUME SlicesAssumption == IsFiniteSet(ProbeID) /\ ProbeSlices \subseteq Seq(Row)

Status == {"pass", "warn", "fail", "skip", "na"}
NoResult == "none"
Outcome == Status \cup {NoResult}

\* A prerequisite that produced no output blocks the rows that need it.
Blocking == {"fail", "skip"}

VARIABLES
  probes,     \* the slice, fixed for the pass
  remaining,  \* per row: how many dependencies have no result yet
  blocked,    \* the rows with a completed dependency that blocks them
  started,    \* the IDs Next has handed out
  completed,  \* the IDs Complete has seen
  ready,      \* the queue of rows with nothing left to wait for
  head        \* how many entries of the queue Next has consumed

schedVars == <<probes, remaining, blocked, started, completed, ready, head>>

Rows == DOMAIN probes

\* The enumeration of a set of row numbers in slice order, which is the order
\* both loops append in. It is a set with exactly one member.
InRowOrder(S) ==
  {q \in [1..Cardinality(S) -> S] :
      /\ \A j, k \in DOMAIN q : j < k => q[j] < q[k]
      /\ \A i \in S : \E k \in DOMAIN q : q[k] = i}

-----------------------------------------------------------------------------
\* NewProbeScheduler over a slice with no results yet, as RunAll and a new
\* pass of the TUI call it: every dependency counts.
NewProbeScheduler ==
  /\ probes \in ProbeSlices
  /\ remaining = [i \in Rows |-> Cardinality(probes[i].deps)]
  /\ blocked = {}
  /\ started = {}
  /\ completed = {}
  /\ ready \in InRowOrder({i \in Rows : probes[i].deps = {}})
  /\ head = 0

\* A fault: the entry is handed out whether or not its ID was started.
NextUnchecked(k) ==
  /\ k = head + 1 /\ k <= Len(ready)
  /\ started' = started \cup {probes[ready[k]].id}
  /\ head' = k

\* Next skips the entries whose ID was already started and returns the first
\* one that was not, ...
NextReturns(k) ==
  /\ k \in (head + 1)..Len(ready)
  /\ probes[ready[k]].id \notin started
  /\ \A j \in (head + 1)..(k - 1) : probes[ready[j]].id \in started
  /\ started' = started \cup {probes[ready[k]].id}
  /\ head' = k

\* ... or reports that the queue is drained.
NextReturnsNone ==
  /\ \A j \in (head + 1)..Len(ready) : probes[ready[j]].id \in started
  /\ head' = Len(ready)
  /\ UNCHANGED started

\* A fault: a row is queued on its first answered dependency.
CompleteQueuesEarly(id, status) ==
  LET waiting == {i \in Rows : id \in probes[i].deps}
  IN /\ completed' = completed \cup {id}
     /\ blocked' = IF status \in Blocking THEN blocked \cup waiting ELSE blocked
     /\ remaining' = [i \in Rows |-> IF i \in waiting THEN remaining[i] - 1 ELSE remaining[i]]
     /\ \E q \in InRowOrder({i \in waiting : remaining[i] = Cardinality(probes[i].deps)}) :
           ready' = ready \o q

\* Complete visits the rows waiting for the ID, once per ID.
Complete(id, status) ==
  LET waiting == {i \in Rows : id \in probes[i].deps}
  IN IF id \in completed
       THEN UNCHANGED <<completed, blocked, remaining, ready>>
       ELSE /\ completed' = completed \cup {id}
            /\ blocked' = IF status \in Blocking THEN blocked \cup waiting ELSE blocked
            /\ remaining' = [i \in Rows |-> IF i \in waiting THEN remaining[i] - 1
                                                              ELSE remaining[i]]
            /\ \E q \in InRowOrder({i \in waiting : remaining[i] = 1}) :
                  ready' = ready \o q
=============================================================================
