--------------------------- MODULE ScheduledFaults ---------------------------
(***************************************************************************)
(* The simulator's scheduler (internal/simulation/timeline.go) against the *)
(* run that owns the environment it changes (Run, runner.go): the events   *)
(* of a timeline are applied one after the other in a goroutine while the  *)
(* tests run, and the run stops and joins it before it collects evidence   *)
(* and takes the environment down. The length of the waits between events  *)
(* is nondeterministic.                                                    *)
(***************************************************************************)
EXTENDS Naturals, Sequences

CONSTANT Events    \* length of the timeline

VARIABLES
  baseline,  \* how many events, the first ones, have offset zero
  hold,      \* the run has a Hold
  ctx,       \* the context of the run
  ended,     \* endSchedule has been called
  sched,     \* the goroutine's control state
  next,      \* the event it is at
  ready,     \* closed when the baseline is in place
  evidence,  \* one entry per event decided: its result
  runner     \* the run's control state

timeVars == <<baseline, hold>>
schedVars == <<sched, next, ready, evidence>>
vars == <<timeVars, ctx, ended, schedVars, runner>>

Init ==
  /\ baseline \in 0..Events /\ hold \in BOOLEAN
  /\ ctx = "live" /\ ended = FALSE
  /\ sched = "next" /\ next = 1 /\ ready = FALSE /\ evidence = <<>>
  /\ runner = "starting"

\* The run is cancelled, or the environment's time is up.
ContextEnds ==
  /\ ctx = "live" /\ runner # "over"
  /\ ctx' = "ended"
  /\ UNCHANGED <<timeVars, ended, schedVars, runner>>

\* scheduleCtx
Stopped == ctx = "ended" \/ ended

-----------------------------------------------------------------------------
\* The goroutine. On its way out it closes ready and then done.

Leave == sched' = "done" /\ ready' = TRUE

\* An event at offset zero is due; for a later one the baseline is complete, and
\* it may be due already.
Reach ==
  /\ sched = "next" /\ next <= Events
  /\ \/ sched' = "due"
     \/ next > baseline /\ sched' = "waiting"
  /\ ready' = (ready \/ next > baseline)
  /\ UNCHANGED <<timeVars, ctx, ended, next, evidence, runner>>

TimerFires ==
  /\ sched = "waiting"
  /\ sched' = "due"
  /\ UNCHANGED <<timeVars, ctx, ended, next, ready, evidence, runner>>

\* Stopped while waiting, or between the timer and the apply.
Skip ==
  /\ sched \in {"waiting", "due"} /\ Stopped
  /\ evidence' = evidence \o [e \in 1..(Events + 1 - next) |-> "skipped"]
  /\ Leave
  /\ UNCHANGED <<timeVars, ctx, ended, next, runner>>

BeginApply ==
  /\ sched = "due" /\ ~Stopped
  /\ sched' = "applying"
  /\ UNCHANGED <<timeVars, ctx, ended, next, ready, evidence, runner>>

\* ApplyTimedEvent has changed the environment, or failed to.
EndApply ==
  /\ sched = "applying"
  /\ \E r \in {"applied", "failed"} : evidence' = Append(evidence, r)
  /\ next' = next + 1
  /\ sched' = "next"
  /\ UNCHANGED <<timeVars, ctx, ended, ready, runner>>

Finish ==
  /\ sched = "next" /\ next > Events
  /\ Leave
  /\ UNCHANGED <<timeVars, ctx, ended, next, evidence, runner>>

Scheduler == Reach \/ TimerFires \/ Skip \/ BeginApply \/ EndApply \/ Finish

-----------------------------------------------------------------------------
\* Run, from startScheduler on.

Started ==
  /\ runner = "starting" /\ ready
  /\ runner' = IF hold THEN "holding" ELSE "testing"
  /\ UNCHANGED <<timeVars, ctx, ended, schedVars>>

Stop == ended' = TRUE

\* The holder lets the tests go on, or abandons the run.
HoldEnds ==
  /\ runner = "holding"
  /\ \/ runner' = "testing" /\ UNCHANGED ended
     \/ runner' = "abandoning" /\ Stop
  /\ UNCHANGED <<timeVars, ctx, schedVars>>

\* The tests end; a panic in one of them goes the way of an abandoned run, by the
\* deferred stop.
TestsEnd ==
  /\ runner = "testing"
  /\ runner' \in {"stopping", "abandoning"}
  /\ Stop
  /\ UNCHANGED <<timeVars, ctx, schedVars>>

\* wait
Joined ==
  /\ runner \in {"stopping", "abandoning"} /\ sched = "done"
  /\ runner' = IF runner = "stopping" THEN "collecting" ELSE "cleaning"
  /\ UNCHANGED <<timeVars, ctx, ended, schedVars>>

Collected ==
  /\ runner = "collecting"
  /\ runner' = "cleaning"
  /\ UNCHANGED <<timeVars, ctx, ended, schedVars>>

Cleaned ==
  /\ runner = "cleaning"
  /\ runner' = "over"
  /\ UNCHANGED <<timeVars, ctx, ended, schedVars>>

\* A holder is a user and may stay.
RunStep == Started \/ TestsEnd \/ Joined \/ Collected \/ Cleaned

Next ==
  \/ ContextEnds \/ Scheduler \/ RunStep \/ HoldEnds
  \/ runner = "over" /\ UNCHANGED vars

-----------------------------------------------------------------------------
TypeOK ==
  /\ baseline \in 0..Events /\ {hold, ended, ready} \subseteq BOOLEAN
  /\ ctx \in {"live", "ended"}
  /\ sched \in {"next", "waiting", "due", "applying", "done"}
  /\ next \in 1..(Events + 1)
  /\ evidence \in Seq({"applied", "failed", "skipped"})
  /\ runner \in {"starting", "holding", "testing", "stopping", "abandoning", "collecting",
                 "cleaning", "over"}

\* No event reaches an environment that is being examined or taken down, no test
\* runs before the baseline has been decided, and what the run reports of its
\* timeline is complete: every event once, in order, the skipped ones last.
TimelineIsTrue ==
  /\ runner # "starting" => Len(evidence) >= baseline
  /\ runner \in {"collecting", "cleaning", "over"} =>
       /\ sched = "done" /\ Len(evidence) = Events
       /\ \A e \in 1..(Events - 1) : evidence[e] = "skipped" => evidence[e + 1] = "skipped"
=============================================================================
