-------------------------- MODULE IncidentTimeline --------------------------
(***************************************************************************)
(* The incident history of a watch session (internal/incident.Timeline)    *)
(* and the viewer over it (internal/ui/incidents.go).                      *)
(*                                                                         *)
(* Every published pass is offered to the timeline; the ones that are no   *)
(* evidence of one network state are turned away. What is retained is      *)
(* bounded, and a reader may have an incident open while the bound drops   *)
(* it.                                                                     *)
(***************************************************************************)
EXTENDS Integers, Sequences, FiniteSets

CONSTANTS
  Shape,         \* what compare.Snapshots tells apart in failing runs
  MaxIncidents,  \* maxIncidents, 10 in the code
  MaxSteps,      \* maxSteps, 8 in the code
  MaxPasses      \* bound: recorded passes

ASSUME BoundsAssumption ==
  {MaxIncidents, MaxSteps, MaxPasses} \subseteq Nat \ {0}

VARIABLES
  incidents, open, baseline, dropped,  \* Timeline
  viewing, selected,                   \* incidentViewing; incidentSelected + 1
  told,                                \* history: the last step set the discard notice
  now,                                 \* the clock: recorded passes so far
  log                                  \* history: the passes recorded for this target

timeline == <<incidents, open, baseline, dropped>>
viewer == <<viewing, selected>>
vars == <<timeline, viewer, told, now, log>>

None == [at |-> 0]
Absent == 0

Passes == [failing : BOOLEAN, shape : Shape, straddled : BOOLEAN, fresh : BOOLEAN]

Init ==
  /\ incidents = <<>> /\ open = FALSE /\ baseline = None /\ dropped = 0
  /\ viewing = FALSE /\ selected = 1
  /\ told = FALSE /\ now = 0 /\ log = <<>>

-----------------------------------------------------------------------------
\* The newest entries of a list.
KeepNewest(items, limit) ==
  SubSeq(items, 1 + (IF Len(items) > limit THEN Len(items) - limit ELSE 0), Len(items))

Active == incidents[Len(incidents)]

Latest(i) == IF i.during = None THEN i.onset ELSE i.during

Begin(state) ==
  LET all == Append(incidents,
               [started |-> state.at, ended |-> Absent, passes |-> 1,
                before |-> baseline, onset |-> state, during |-> None,
                steps |-> <<>>, stepsDropped |-> 0, recovered |-> None])
  IN /\ incidents' = KeepNewest(all, MaxIncidents)
     /\ dropped' = dropped + Len(all) - Len(incidents')
     /\ open' = TRUE
     /\ UNCHANGED baseline

ReplaceActive(i) ==
  /\ incidents' = [incidents EXCEPT ![Len(incidents)] = i]
  /\ UNCHANGED dropped

\* A fault: every failing pass is compared with the one the incident began in.
ContinuedFromOnset(state) ==
  LET steps == Append(Active.steps, state.at)
      moved == [Active EXCEPT !.during = state, !.steps = KeepNewest(steps, MaxSteps),
                              !.stepsDropped = @ + Len(steps) - Len(KeepNewest(steps, MaxSteps))]
  IN /\ ReplaceActive([(IF Active.onset.shape = state.shape THEN Active ELSE moved)
                         EXCEPT !.passes = @ + 1])
     /\ UNCHANGED <<open, baseline>>

\* A failing pass of the open incident: it replaces the latest failing state,
\* and is a step, only where it moved.
Continued(state) ==
  LET steps == Append(Active.steps, state.at)
      moved == [Active EXCEPT !.during = state, !.steps = KeepNewest(steps, MaxSteps),
                              !.stepsDropped = @ + Len(steps) - Len(KeepNewest(steps, MaxSteps))]
  IN /\ ReplaceActive([(IF Latest(Active).shape = state.shape THEN Active ELSE moved)
                         EXCEPT !.passes = @ + 1])
     /\ UNCHANGED <<open, baseline>>

\* A pass that does not fail closes the open incident and is the next baseline.
NotFailing(state) ==
  /\ IF open
       THEN ReplaceActive([Active EXCEPT !.ended = state.at, !.recovered = state])
       ELSE UNCHANGED <<incidents, dropped>>
  /\ open' = FALSE
  /\ baseline' = state

Observe(state) ==
  \/ state.failing /\ ~open /\ Begin(state)
  \/ state.failing /\ open /\ Continued(state)
  \/ ~state.failing /\ NotFailing(state)

-----------------------------------------------------------------------------
Clamp(i, n) == IF n = 0 THEN 1 ELSE IF i > n THEN n ELSE i

\* A fault: the row is kept, whichever incident slid into it.
ReselectRow ==
  /\ UNCHANGED viewing
  /\ selected' = IF viewing THEN Clamp(selected, Len(incidents')) ELSE Clamp(Len(incidents'), Len(incidents'))
  /\ told' = FALSE

\* The incident being read is followed when the bound moves it, and its reader
\* is told when the bound drops it, which is all that removes one.
Reselect ==
  LET kept == {i \in DOMAIN incidents' : incidents'[i].started = incidents[selected].started}
  IN /\ UNCHANGED viewing
     /\ \/ /\ ~viewing
           /\ selected' = Clamp(Len(incidents'), Len(incidents'))
           /\ told' = FALSE
        \/ /\ viewing /\ kept # {}
           /\ selected' \in kept
           /\ told' = FALSE
        \/ /\ viewing /\ kept = {}
           /\ selected' = 1
           /\ told' = TRUE

\* A fault: the pass is taken whatever network states it saw.
AnyPass(p) == p.fresh

\* A pass that measured every row, and if it did not fail, under one route
\* generation.
Evidence(p) == p.fresh /\ (p.failing \/ ~p.straddled)

\* A pass is published.
Publish ==
  \E p \in Passes :
    IF Evidence(p)
      THEN LET state == [at |-> now + 1, failing |-> p.failing, shape |-> p.shape,
                         straddled |-> p.straddled, fresh |-> p.fresh]
           IN /\ now < MaxPasses
              /\ now' = now + 1
              /\ Observe(state)
              /\ Reselect
              /\ log' = Append(log, state)
      ELSE UNCHANGED vars

OpenViewer ==
  /\ ~viewing /\ incidents # <<>>
  /\ viewing' = TRUE /\ selected' = Len(incidents)
  /\ told' = FALSE
  /\ UNCHANGED <<timeline, now, log>>

CloseViewer ==
  /\ viewing
  /\ viewing' = FALSE
  /\ told' = FALSE
  /\ UNCHANGED <<timeline, selected, now, log>>

Turn ==
  /\ viewing
  /\ selected' \in {selected - 1, selected + 1} \cap DOMAIN incidents
  /\ told' = FALSE
  /\ UNCHANGED <<timeline, viewing, now, log>>

\* Another target: the session starts over.
NewQuestion ==
  /\ incidents' = <<>> /\ open' = FALSE /\ baseline' = None /\ dropped' = 0
  /\ viewing' = FALSE /\ selected' = 1
  /\ told' = FALSE /\ log' = <<>>
  /\ UNCHANGED now

Next == Publish \/ OpenViewer \/ CloseViewer \/ Turn \/ NewQuestion

Spec == Init /\ [][Next]_vars

-----------------------------------------------------------------------------
\* What the log says, worked out from it alone.

Onsets == {i \in DOMAIN log : log[i].failing /\ (i > 1 => ~log[i-1].failing)}

\* The first recorded pass after onset i that did not fail, or the one to come.
IsEnd(i, e) ==
  /\ e \in i+1..Len(log)+1
  /\ e \in DOMAIN log => ~log[e].failing
  /\ \A k \in i+1..e-1 : log[k].failing
EndOf(i) == CHOOSE e \in i+1..Len(log)+1 : IsEnd(i, e)

\* The failing passes that differ from the pass just before them.
Moves(i, e) == {k \in i+1..e-1 : log[k].shape # log[k-1].shape}

\* The place of i among S, counted from the oldest.
Place(i, S) == Cardinality({j \in S : j <= i})

\* A list holds n places of S, the newest that the limit leaves, and not the rest.
IsNewest(n, rest, S, limit) ==
  /\ n + rest = Cardinality(S)
  /\ n = IF Cardinality(S) > limit THEN limit ELSE Cardinality(S)

\* The incident is the failure that began at i and was over at e.
IsFailure(inc, i, e) ==
  LET moves == Moves(i, e)
      at(k) == Place(k, moves) - inc.stepsDropped
  IN /\ inc.started = log[i].at /\ inc.passes = e - i
     /\ inc.before = (IF i = 1 THEN None ELSE log[i-1]) /\ inc.onset = log[i]
     /\ moves = {} => inc.during = None
     /\ \A k \in moves :
          /\ (\A j \in moves : j <= k) => inc.during = log[k]
          /\ at(k) > 0 => inc.steps[at(k)] = log[k].at
     /\ IsNewest(Len(inc.steps), inc.stepsDropped, moves, MaxSteps)
     /\ inc.ended = (IF e \in DOMAIN log THEN log[e].at ELSE Absent)
     /\ inc.recovered = (IF e \in DOMAIN log THEN log[e] ELSE None)

-----------------------------------------------------------------------------
TypeOK ==
  /\ Len(incidents) <= MaxIncidents
  /\ \A i \in DOMAIN incidents : Len(incidents[i].steps) <= MaxSteps
  /\ {open, viewing, told} \subseteq BOOLEAN
  /\ dropped \in Nat
  /\ now \in 0..MaxPasses
  /\ selected \in 1..MaxIncidents

\* The timeline, which sees a pass at a time and keeps few, holds exactly the
\* newest of the maximal failing stretches of the whole log, each with the pass
\* before it, the pass that ended it, the latest state it moved to and the newest
\* of its moves, and counts the rest; the last is open as long as it lasts.
IncidentsAreTheFailures ==
  LET at(i) == Place(i, Onsets) - dropped
  IN /\ IsNewest(Len(incidents), dropped, Onsets, MaxIncidents)
     /\ \A i \in Onsets : at(i) > 0 => IsFailure(incidents[at(i)], i, EndOf(i))
     /\ open <=> log # <<>> /\ log[Len(log)].failing

\* No incident is measured against, or closed by, a pass that saw two network
\* states, and no retained pass answers a row from the cache.
EvidenceIsOneState ==
  /\ baseline # None => ~baseline.straddled
  /\ \A i \in DOMAIN incidents :
       LET inc == incidents[i] IN
         /\ \A s \in {inc.before, inc.recovered} \ {None} : ~s.straddled /\ s.fresh
         /\ Latest(inc).fresh /\ inc.onset.fresh

\* A pass never turns the page of an open viewer: it shows the same incident, or
\* the oldest one kept once the bound dropped it, and then says so.
ReaderIsNotMoved ==
  [][now' # now /\ viewing =>
       /\ viewing'
       /\ LET reading == incidents[selected].started
              gone == \A i \in DOMAIN incidents' : incidents'[i].started # reading
          IN IF gone THEN told' /\ selected' = 1
                     ELSE incidents'[selected'].started = reading]_vars

=============================================================================
