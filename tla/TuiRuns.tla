------------------------------ MODULE TuiRuns ------------------------------
(***************************************************************************)
(* The life of runs and tool jobs in the terminal UI: the messages of      *)
(* ui.model's Update that start, finish, repeat, replace and end a run     *)
(* (internal/ui/model.go, keys.go, scheduler.go, joblist.go, app.go).      *)
(*                                                                         *)
(* Update is one goroutine. Probes, timers and tool processes run beside   *)
(* it and reach it only through messages, delivered in any order; each     *)
(* carries the generation it was born in, and a stale one is dropped.      *)
(*                                                                         *)
(* The rows of a run are independent here: ProbeScheduler models the       *)
(* gating. What Publish answers is a choice here: WatchSession models it.  *)
(***************************************************************************)
EXTENDS Naturals, FiniteSets

CONSTANTS
  Row, Job,
  Watch,            \* the run repeats, under a Watch session
  Refusals,         \* Publish may refuse a pass
  MaxActiveJobs,    \* maxActiveJobs
  MaxGeneration     \* bound: a run after the first counts one

ASSUME SetupAssumption ==
  /\ IsFiniteSet(Row) /\ Row # {} /\ IsFiniteSet(Job)
  /\ {Watch, Refusals} \subseteq BOOLEAN
  /\ Refusals => Watch
  /\ MaxActiveJobs \in Nat \ {0} /\ MaxGeneration \in Nat \ {0}

VARIABLES
  generation, question,  \* the run, and the target it is about
  ctx,          \* the run has a context that was not cancelled
  cancelled,    \* generations whose context was cancelled
  results,      \* per row: the run that measured it, or None
  schedules,    \* scheduleMsgs under way
  inflight,     \* probes under way: their row and the run they were started for
  ticks,        \* per generation: watch timers under way
  history,      \* the runs recorded in runHistory and the incident timeline
  discarded,    \* history: the generations Publish refused
  jobs,         \* per job: the run it was started in, and how far it is
  pending,      \* pendingAction, or None
  exited

runVars == <<generation, question, ctx, cancelled, results, schedules, inflight, ticks>>
recordVars == <<history, discarded>>
vars == <<generation, question, ctx, cancelled, results, schedules, inflight, ticks,
          history, discarded, jobs, pending, exited>>

None == [kind |-> "none"]
Generation == 0..MaxGeneration
Question == 0..MaxGeneration
Run == [generation : Generation, question : Question]
CurrentRun == [generation |-> generation, question |-> question]

\* proc: the process; held: a jobState still has the handle; told: cancelled on
\* its own; delivered: Update has received its ToolDoneMsg.
NoJob == [proc |-> "none", generation |-> 0, held |-> FALSE, told |-> FALSE, delivered |-> FALSE]

Init ==
  /\ generation = 0 /\ question = 0
  /\ ctx = FALSE /\ cancelled = {}
  /\ results = [r \in Row |-> None]
  /\ schedules \in {{0}, {}}    \* the toolbox starts without the chain
  /\ inflight = {}
  /\ ticks = [g \in Generation |-> 0]
  /\ history = {} /\ discarded = {}
  /\ jobs = [j \in Job |-> NoJob]
  /\ pending = None
  /\ exited = FALSE

AllDone(res) == \A r \in Row : res[r] # None

JobsRunning == \E j \in Job : jobs[j].held

\* A process that was asked to stop, by its own cancel or by its run's.
Signalled(j) == jobs[j].told \/ jobs[j].generation \in cancelled

-----------------------------------------------------------------------------
\* Restarting.

\* A fault: the old run's context is forgotten, not cancelled.
ForgetContext ==
  /\ ctx' = FALSE
  /\ UNCHANGED cancelled

\* clearCancel.
ClearCancel ==
  /\ ctx' = FALSE
  /\ cancelled' = IF ctx THEN cancelled \cup {generation} ELSE cancelled

\* applyTarget: another question starts the recorded session over.
ApplyTarget(new) ==
  /\ question' = IF new THEN question + 1 ELSE question
  /\ history' = IF new THEN {} ELSE history

\* restartRun: the generation moves on and its messages with it.
RestartRun ==
  /\ ClearCancel
  /\ generation' = generation + 1
  /\ results' = [r \in Row |-> None]
  /\ schedules' = schedules \cup {generation + 1}

\* doRestart after applyTarget: the presentation starts over too, and the jobs
\* of the old run are forgotten.
DoRestart(new) ==
  /\ ApplyTarget(new)
  /\ RestartRun
  /\ pending' = None
  /\ jobs' = [j \in Job |-> [jobs[j] EXCEPT !.held = FALSE]]

\* cancelJobs.
CancelJobs == jobs' = [j \in Job |-> [jobs[j] EXCEPT !.told = @ \/ jobs[j].held]]

-----------------------------------------------------------------------------
\* Messages.

\* scheduleMsg: every row is dispatched.
Schedule(g) ==
  /\ ~exited /\ g \in schedules
  /\ schedules' = schedules \ {g}
  /\ IF g = generation
       THEN /\ ctx' = TRUE
            /\ inflight' = inflight \cup {[row |-> r, run |-> CurrentRun] : r \in Row}
       ELSE UNCHANGED <<ctx, inflight>>
  /\ UNCHANGED <<generation, question, cancelled, results, ticks, recordVars, jobs, pending, exited>>

\* probeDoneMsg of a run that was replaced.
DropResult(p) ==
  /\ ~exited /\ p \in inflight
  /\ p.run.generation # generation
  /\ inflight' = inflight \ {p}
  /\ UNCHANGED <<generation, question, ctx, cancelled, results, schedules, ticks,
                 recordVars, jobs, pending, exited>>

\* A fault: a result is taken whatever run it belongs to.
TakeAny(p) == TRUE

Accepts(p) == p.run.generation = generation

Report(p) ==
  /\ ~exited /\ p \in inflight
  /\ Accepts(p)
  /\ inflight' = inflight \ {p}

\* probeDoneMsg that leaves rows to report.
RowDone(p) ==
  /\ Report(p)
  /\ results' = [results EXCEPT ![p.row] = p.run]
  /\ ~AllDone(results')
  /\ UNCHANGED <<generation, question, ctx, cancelled, schedules, ticks,
                 recordVars, jobs, pending, exited>>

\* probeDoneMsg that completes a run: it is recorded, and a watch timer armed.
RunDone(p) ==
  /\ Report(p)
  /\ results' = [results EXCEPT ![p.row] = p.run]
  /\ AllDone(results')
  /\ IF Watch THEN /\ history' = history \cup {CurrentRun}
                   /\ ticks' = [ticks EXCEPT ![generation] = @ + 1]
              ELSE UNCHANGED <<history, ticks>>
  /\ UNCHANGED <<generation, question, ctx, cancelled, schedules, discarded,
                 jobs, pending, exited>>

\* Bound: the last generation is kept for a restart the user asked for.
MayRepeat == generation < MaxGeneration - 1

\* A fault: a refused pass is recorded before the next one starts.
DiscardRecorded(p) ==
  /\ Refusals /\ MayRepeat
  /\ Report(p)
  /\ AllDone([results EXCEPT ![p.row] = p.run])
  /\ discarded' = discarded \cup {generation}
  /\ question' = question
  /\ history' = history \cup {CurrentRun}
  /\ RestartRun
  /\ UNCHANGED <<ticks, jobs, pending, exited>>

\* probeDoneMsg that completes a pass Publish refuses: nothing is recorded, and
\* the next pass starts at once.
Discard(p) ==
  /\ Refusals /\ MayRepeat
  /\ Report(p)
  /\ AllDone([results EXCEPT ![p.row] = p.run])
  /\ discarded' = discarded \cup {generation}
  /\ ApplyTarget(FALSE)
  /\ RestartRun
  /\ UNCHANGED <<ticks, jobs, pending, exited>>

Tick(g) ==
  /\ ~exited /\ ticks[g] > 0

\* watchMsg of a replaced run.
DropTick(g) ==
  /\ Tick(g) /\ g # generation
  /\ ticks' = [ticks EXCEPT ![g] = @ - 1]
  /\ UNCHANGED <<generation, question, ctx, cancelled, results, schedules, inflight,
                 recordVars, jobs, pending, exited>>

\* A fault: a timer that finds a job running is not re-armed.
LetTickGo(g) ==
  /\ Tick(g) /\ g = generation /\ JobsRunning
  /\ ticks' = [ticks EXCEPT ![g] = @ - 1]
  /\ UNCHANGED <<generation, question, ctx, cancelled, results, schedules, inflight,
                 recordVars, jobs, pending, exited>>

\* watchMsg while a job runs: the timer is armed again.
Rearm(g) ==
  /\ Tick(g) /\ g = generation /\ JobsRunning
  /\ UNCHANGED <<runVars, recordVars, jobs, pending, exited>>

\* watchMsg: the next pass of the same question.
Repeat(g) ==
  /\ Tick(g) /\ g = generation /\ ~JobsRunning
  /\ MayRepeat
  /\ ticks' = [ticks EXCEPT ![g] = @ - 1]
  /\ ApplyTarget(FALSE)
  /\ RestartRun
  /\ UNCHANGED <<inflight, discarded, jobs, pending, exited>>

-----------------------------------------------------------------------------
\* Jobs.

\* launchTool, within the limit. A tool may come before the chain was run.
Launch(j) ==
  /\ ~exited /\ jobs[j] = NoJob
  /\ Cardinality({k \in Job : jobs[k].held}) < MaxActiveJobs
  /\ ctx' = TRUE
  /\ jobs' = [jobs EXCEPT ![j] = [@ EXCEPT !.proc = "running", !.held = TRUE,
                                            !.generation = generation]]
  /\ UNCHANGED <<generation, question, cancelled, results, schedules, inflight, ticks,
                 recordVars, pending, exited>>

\* The selected job is cancelled.
CancelJob(j) ==
  /\ ~exited /\ jobs[j].held /\ ~jobs[j].told
  /\ jobs' = [jobs EXCEPT ![j].told = TRUE]
  /\ UNCHANGED <<runVars, recordVars, pending, exited>>

\* The process ends, by itself, at its timeout or because it was asked to.
ProcessEnds(j) ==
  /\ jobs[j].proc = "running"
  /\ jobs' = [jobs EXCEPT ![j].proc = "over"]
  /\ UNCHANGED <<runVars, recordVars, pending, exited>>

Terminal(j) == ~exited /\ jobs[j].proc = "over" /\ ~jobs[j].delivered

\* ToolDoneMsg of an earlier generation, or of a job no longer held.
DropToolDone(j) ==
  /\ Terminal(j)
  /\ jobs[j].generation # generation \/ ~jobs[j].held
  /\ jobs' = [jobs EXCEPT ![j].delivered = TRUE]
  /\ UNCHANGED <<runVars, recordVars, pending, exited>>

Ended(j) == [jobs EXCEPT ![j].delivered = TRUE, ![j].held = FALSE]
LastOne(j) == \A k \in Job \ {j} : ~jobs[k].held
Delivers(j) == Terminal(j) /\ jobs[j].generation = generation /\ jobs[j].held

\* ToolDoneMsg with nothing waiting for it.
ToolDone(j) ==
  /\ Delivers(j)
  /\ pending = None \/ ~LastOne(j)
  /\ jobs' = Ended(j)
  /\ UNCHANGED <<runVars, recordVars, pending, exited>>

\* A fault: the deferred action is not taken up.
ToolDoneLast(j) ==
  /\ Delivers(j) /\ LastOne(j)
  /\ pending # None /\ pending.kind = "restart"
  /\ jobs' = Ended(j)
  /\ UNCHANGED <<runVars, recordVars, pending, exited>>

\* ToolDoneMsg of the last job a restart waits for.
RestartDeferred(j) ==
  /\ Delivers(j) /\ LastOne(j)
  /\ pending # None /\ pending.kind = "restart"
  /\ ApplyTarget(pending.new)
  /\ RestartRun
  /\ pending' = None
  /\ jobs' = [k \in Job |-> [Ended(j)[k] EXCEPT !.held = FALSE]]
  /\ UNCHANGED <<inflight, ticks, discarded, exited>>

\* ToolDoneMsg of the last job a quit waits for.
QuitDeferred(j) ==
  /\ Delivers(j) /\ LastOne(j)
  /\ pending # None /\ pending.kind = "quit"
  /\ jobs' = Ended(j)
  /\ ClearCancel
  /\ pending' = None
  /\ exited' = TRUE
  /\ UNCHANGED <<generation, question, results, schedules, inflight, ticks, recordVars>>

-----------------------------------------------------------------------------
\* The user.

Quit ==
  /\ ~exited /\ ~JobsRunning
  /\ ClearCancel
  /\ exited' = TRUE
  /\ UNCHANGED <<generation, question, results, schedules, inflight, ticks, recordVars,
                 jobs, pending>>

QuitLater ==
  /\ ~exited /\ JobsRunning
  /\ CancelJobs
  /\ pending' = [kind |-> "quit"]
  /\ UNCHANGED <<runVars, recordVars, exited>>

\* A retest, or a restart with another target.
Restart(new) ==
  /\ ~exited /\ ~JobsRunning
  /\ generation < MaxGeneration
  /\ DoRestart(new)
  /\ UNCHANGED <<inflight, ticks, discarded, exited>>

RestartLater(new) ==
  /\ ~exited /\ JobsRunning
  /\ generation < MaxGeneration
  /\ CancelJobs
  /\ pending' = [kind |-> "restart", new |-> new]
  /\ UNCHANGED <<runVars, recordVars, exited>>

\* The program leaves without a quit: a signal, a renderer failure, a panic.
\* Cleanup cancels what is left.
Leave ==
  /\ ~exited
  /\ CancelJobs
  /\ ClearCancel
  /\ exited' = TRUE
  /\ UNCHANGED <<generation, question, results, schedules, inflight, ticks, recordVars, pending>>

Exited == exited /\ (\A j \in Job : jobs[j].proc # "running") /\ UNCHANGED vars

-----------------------------------------------------------------------------
Probing == (\E g \in Generation : Schedule(g))
  \/ (\E p \in inflight : DropResult(p) \/ RowDone(p) \/ RunDone(p) \/ Discard(p))
Timers == \E g \in Generation : DropTick(g) \/ Repeat(g)
JobEvents(j) == DropToolDone(j) \/ ToolDone(j) \/ RestartDeferred(j) \/ QuitDeferred(j)
User ==
  \/ Quit \/ QuitLater \/ Leave
  \/ \E new \in BOOLEAN : Restart(new) \/ RestartLater(new)
  \/ \E j \in Job : Launch(j) \/ CancelJob(j)

Next ==
  \/ Probing \/ Timers \/ User \/ Exited
  \/ \E g \in Generation : Rearm(g)
  \/ \E j \in Job : ProcessEnds(j) \/ JobEvents(j)

\* Every message is delivered; a probe and a tool run under a timeout.
Fairness ==
  /\ WF_vars(Probing) /\ WF_vars(Timers)
  /\ \A j \in Job : WF_vars(ProcessEnds(j)) /\ WF_vars(JobEvents(j))

Spec == Init /\ [][Next]_vars
FairSpec == Spec /\ Fairness

-----------------------------------------------------------------------------
TypeOK ==
  /\ generation \in Generation /\ question \in 0..generation
  /\ ctx \in BOOLEAN /\ cancelled \subseteq 0..generation
  /\ \A r \in Row : results[r] \in Run \cup {None}
  /\ schedules \subseteq Generation
  /\ \A p \in inflight : p.row \in Row /\ p.run \in Run
  /\ \A g \in Generation : ticks[g] \in Nat
  /\ history \subseteq Run /\ discarded \subseteq Generation
  /\ \A j \in Job : jobs[j].proc \in {"none", "running", "over"}
  /\ pending \in {None, [kind |-> "quit"]} \cup [kind : {"restart"}, new : BOOLEAN]
  /\ exited \in BOOLEAN

\* Whatever is on screen was measured by the run on screen and for its target:
\* no answer of a replaced run is shown under the next one's name.
ResultsAreOfThisRun == \A r \in Row : results[r] \in {None, CurrentRun}

\* The history the sparklines and incidents are drawn from is of the target on
\* screen, and holds no pass that Publish refused.
HistoryIsOfThisQuestion ==
  \A h \in history : h.question = question /\ h.generation \notin discarded

\* A process that was not asked to stop belongs to the run on screen and can
\* still be cancelled from it; none outlives the program.
NoStrayProcess ==
  \A j \in Job : jobs[j].proc = "running" /\ ~Signalled(j) =>
    ~exited /\ jobs[j].held /\ jobs[j].generation = generation

\* A refused pass restarted the run under a job, whose terminal event will be
\* dropped: QuitIsServed.
JobLost == \E j \in Job : jobs[j].held /\ jobs[j].generation # generation

\* What waits for the jobs to end is done: their terminal events land.
PendingIsServed == (pending # None) ~> (pending = None \/ exited \/ JobLost)

\* A quit deferred for running jobs ends the program, unless the user asks for
\* something else meanwhile.
QuitIsServed ==
  (pending # None /\ pending.kind = "quit") ~> (exited \/ pending # [kind |-> "quit"])

\* A watched run that was started is always followed by another, whatever passes
\* are refused and whatever jobs and restarts come between, until the program ends.
WatchGoesOn ==
  \A g \in Generation :
    g < MaxGeneration - 1 => ((g \in schedules) ~> (generation > g \/ exited \/ JobLost))
=============================================================================
