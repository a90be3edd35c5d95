--------------------------- MODULE TuiRunsProofs ---------------------------
(***************************************************************************)
(* The life of runs and jobs in the terminal UI, for any rows and jobs and *)
(* any number of runs: what is shown and recorded is of the run and the    *)
(* target on screen, and no process is out of its reach.                   *)
(***************************************************************************)
EXTENDS TuiRuns, TLAPS

\* What TypeOK leaves out: functions and records are whole.
JobState == [proc : {"none", "running", "over"}, generation : Generation, held : BOOLEAN,
             told : BOOLEAN, delivered : BOOLEAN]

Typed ==
  /\ TypeOK
  /\ inflight \subseteq [row : Row, run : Run] /\ jobs \in [Job -> JobState]
  /\ results \in [Row -> Run \cup {None}] /\ ticks \in [Generation -> Nat]
  /\ pending # None /\ pending.kind = "restart" => generation < MaxGeneration

\* A run is scheduled once: a probe of the run on screen is of its target, and its
\* row has nothing to show yet.
Reports ==
  /\ \A p \in inflight :
       /\ p.run.generation <= generation
       /\ p.run.generation = generation =>
            p.run.question = question /\ generation \notin schedules /\ results[p.row] = None
  /\ generation \in schedules => \A r \in Row : results[r] = None

\* What is recorded was complete, and what was refused is not the run on screen.
Records ==
  /\ \A h \in history :
       /\ h.question = question /\ h.generation \notin discarded /\ h.generation <= generation
       /\ h.generation = generation => AllDone(results)
  /\ \A g \in discarded : g < generation

\* The context of the run on screen covers the processes it started.
Processes ==
  \A j \in Job : jobs[j].proc = "running" /\ ~Signalled(j) =>
    ~exited /\ jobs[j].held /\ jobs[j].generation = generation /\ ctx

IInv == Typed /\ Reports /\ ResultsAreOfThisRun /\ Records /\ Processes

-----------------------------------------------------------------------------
LEMMA Bounds ==
  /\ MaxGeneration \in Nat \ {0}
  /\ \A g : g \in Generation <=> g \in Nat /\ g <= MaxGeneration
BY SetupAssumption DEF Generation

LEMMA InitInv == Init => IInv
<1> SUFFICES ASSUME Init PROVE IInv
  OBVIOUS
<1>0. 0 \in Generation /\ MaxGeneration \in Nat \ {0} /\ 0 \in 0..0
  BY Bounds
<1>1. NoJob \in JobState /\ NoJob.proc = "none"
  BY <1>0 DEF NoJob, JobState
<1>2. Typed
  <2>1. \A j \in Job : jobs[j].proc \in {"none", "running", "over"}
    BY <1>1 DEF Init, JobState
  <2>2. ticks \in [Generation -> Nat] /\ results \in [Row -> Run \cup {None}]
    BY DEF Init
  <2>3. schedules \subseteq Generation
    BY <1>0 DEF Init
  <2>4. TypeOK
    BY <1>0, <2>1, <2>2, <2>3 DEF Init, TypeOK
  <2> QED
    BY <1>1, <2>2, <2>4 DEF Init, Typed
<1>3. Reports /\ ResultsAreOfThisRun /\ Records /\ Processes
  BY <1>1 DEF Init, Reports, ResultsAreOfThisRun, Records, Processes
<1> QED
  BY <1>2, <1>3 DEF IInv

-----------------------------------------------------------------------------
\* The steps that replace the run on screen.

Replaces ==
  /\ generation < MaxGeneration /\ RestartRun
  /\ inflight' \subseteq inflight
  /\ \/ question' = question + 1 /\ history' = {}
     \/ question' = question /\ history' = history
  /\ \/ discarded' = discarded
     \/ /\ discarded' = discarded \cup {generation}
        /\ \E p \in inflight : p.run.generation = generation
  /\ jobs' \in [Job -> JobState]
  /\ \A j \in Job :
       /\ jobs'[j].generation = jobs[j].generation /\ jobs'[j].told = jobs[j].told
       /\ jobs'[j].proc = jobs[j].proc
       /\ jobs[j].proc = "running" => jobs'[j].held = jobs[j].held \/ ~jobs'[j].held
  /\ pending' = None \/ (pending' = pending /\ generation + 1 < MaxGeneration)
  /\ ticks' \in [Generation -> Nat]
  /\ exited' = exited

LEMMA ReplacesFacts ==
  ASSUME IInv,
         \/ \E p \in inflight : Discard(p)
         \/ \E g \in Generation : Repeat(g)
         \/ \E j \in Job : RestartDeferred(j)
         \/ \E new \in BOOLEAN : Restart(new)
  PROVE  Replaces
<1>0. /\ generation \in Nat /\ jobs \in [Job -> JobState] /\ ticks \in [Generation -> Nat]
      /\ MaxGeneration \in Nat
  BY Bounds DEF IInv, Typed, TypeOK
<1>1. ASSUME NEW p \in inflight, Discard(p) PROVE Replaces
  <2>1. generation < MaxGeneration /\ generation + 1 < MaxGeneration
    BY <1>0, <1>1 DEF Discard, MayRepeat
  <2>2. p.run.generation = generation
    BY <1>1 DEF Discard, Report, Accepts
  <2> QED
    BY <1>0, <1>1, <2>1, <2>2 DEF Discard, Report, ApplyTarget, Replaces
<1>2. ASSUME NEW g \in Generation, Repeat(g) PROVE Replaces
  <2>1. generation < MaxGeneration /\ generation + 1 < MaxGeneration
    BY <1>0, <1>2 DEF Repeat, MayRepeat
  <2>2. ticks' = [ticks EXCEPT ![g] = @ - 1] /\ ticks[g] \in Nat /\ ticks[g] > 0
    BY <1>0, <1>2 DEF Repeat, Tick
  <2>3. ticks' \in [Generation -> Nat]
    BY <1>0, <2>2
  <2> QED
    BY <1>0, <1>2, <2>1, <2>3 DEF Repeat, ApplyTarget, Replaces
<1>3. ASSUME NEW j \in Job, RestartDeferred(j) PROVE Replaces
  <2>1. generation < MaxGeneration
    BY <1>3 DEF RestartDeferred, IInv, Typed
  <2>2. /\ Ended(j) \in [Job -> JobState]
        /\ \A k \in Job : /\ Ended(j)[k].generation = jobs[k].generation
                          /\ Ended(j)[k].told = jobs[k].told /\ Ended(j)[k].proc = jobs[k].proc
    BY <1>0 DEF Ended, JobState
  <2>3. jobs' = [k \in Job |-> [Ended(j)[k] EXCEPT !.held = FALSE]]
    BY <1>3 DEF RestartDeferred
  <2>4. /\ jobs' \in [Job -> JobState]
        /\ \A k \in Job : /\ jobs'[k].generation = Ended(j)[k].generation
                          /\ jobs'[k].told = Ended(j)[k].told /\ jobs'[k].proc = Ended(j)[k].proc
                          /\ ~jobs'[k].held
    <3>1. \A k \in Job : Ended(j)[k] \in JobState
      BY <2>2
    <3>2. \A k \in Job : jobs'[k] = [Ended(j)[k] EXCEPT !.held = FALSE]
      BY <2>3
    <3>3. ASSUME NEW k \in Job
          PROVE  /\ jobs'[k] \in JobState
                 /\ jobs'[k].generation = Ended(j)[k].generation
                 /\ jobs'[k].told = Ended(j)[k].told /\ jobs'[k].proc = Ended(j)[k].proc
                 /\ ~jobs'[k].held
      BY <3>1, <3>2 DEF JobState
    <3> QED
      BY <2>3, <3>3
  <2> QED
    BY <1>0, <1>3, <2>1, <2>2, <2>4 DEF RestartDeferred, ApplyTarget, Replaces
<1>4. ASSUME NEW new \in BOOLEAN, Restart(new) PROVE Replaces
  <2>1. generation < MaxGeneration
    BY <1>4 DEF Restart
  <2>2. jobs' = [j \in Job |-> [jobs[j] EXCEPT !.held = FALSE]]
    BY <1>4 DEF Restart, DoRestart
  <2>3. /\ jobs' \in [Job -> JobState]
        /\ \A k \in Job : /\ jobs'[k].generation = jobs[k].generation
                          /\ jobs'[k].told = jobs[k].told /\ jobs'[k].proc = jobs[k].proc
                          /\ ~jobs'[k].held
    BY <1>0, <2>2 DEF JobState
  <2> QED
    BY <1>0, <1>4, <2>1, <2>3 DEF Restart, DoRestart, ApplyTarget, Replaces
<1> QED
  BY <1>1, <1>2, <1>3, <1>4

\* What a replaced run leaves: nothing on screen, and its context cancelled.
LEMMA RestartFacts ==
  ASSUME IInv, Replaces
  PROVE  /\ generation' = generation + 1 /\ generation \in Nat /\ generation' \in Generation
         /\ ctx' = FALSE /\ (ctx => generation \in cancelled') /\ cancelled \subseteq cancelled'
         /\ cancelled' \subseteq 0..generation'
         /\ results' = [r \in Row |-> None]
         /\ schedules' \subseteq Generation
<1>1. generation \in Nat /\ generation < MaxGeneration /\ cancelled \subseteq 0..generation
  BY Bounds DEF IInv, Typed, TypeOK, Replaces
<1>2. generation + 1 \in Generation
  BY <1>1, Bounds
<1> QED
  BY <1>1, <1>2 DEF Replaces, RestartRun, ClearCancel, IInv, Typed, TypeOK

\* A run that was complete before Discard has no probe left.
LEMMA CompleteHasNoProbe ==
  ASSUME IInv, NEW p \in inflight, p.run.generation = generation
  PROVE  ~AllDone(results) /\ results[p.row] = None
BY DEF IInv, Typed, Reports, AllDone

LEMMA ReplacesKeeps == IInv /\ Replaces => IInv'
<1> SUFFICES ASSUME IInv, Replaces PROVE IInv'
  OBVIOUS
<1>0. /\ generation' = generation + 1 /\ generation \in Nat /\ generation' \in Generation
      /\ ctx' = FALSE /\ (ctx => generation \in cancelled') /\ cancelled \subseteq cancelled'
      /\ cancelled' \subseteq 0..generation'
      /\ results' = [r \in Row |-> None]
      /\ schedules' \subseteq Generation
  BY RestartFacts
<1>1. Typed'
  <2>1. question' \in 0..generation'
    BY <1>0 DEF Replaces, IInv, Typed, TypeOK
  <2>2. results' \in [Row -> Run \cup {None}]
    BY <1>0
  <2>3. discarded' \subseteq Generation /\ history' \subseteq Run
    BY DEF Replaces, IInv, Typed, TypeOK
  <2>4. \A j \in Job : jobs'[j].proc \in {"none", "running", "over"}
    BY DEF Replaces, JobState
  <2>5. pending' # None /\ pending'.kind = "restart" => generation' < MaxGeneration
    BY <1>0 DEF Replaces
  <2>6. pending' \in {None, [kind |-> "quit"]} \cup [kind : {"restart"}, new : BOOLEAN]
    BY DEF Replaces, IInv, Typed, TypeOK
  <2>7. inflight' \subseteq [row : Row, run : Run]
    BY DEF Replaces, IInv, Typed
  <2>8. TypeOK'
    BY <1>0, <2>1, <2>2, <2>3, <2>4, <2>6, <2>7 DEF Replaces, IInv, Typed, TypeOK
  <2> QED
    BY <2>2, <2>5, <2>7, <2>8 DEF Replaces, Typed
<1>2. Reports'
  <2>1. \A p \in inflight' : p.run.generation <= generation /\ p.run.generation \in Nat
    BY Bounds DEF Replaces, IInv, Reports, Typed, Run
  <2> QED
    BY <1>0, <2>1 DEF Reports
<1>3. ResultsAreOfThisRun'
  BY <1>0 DEF ResultsAreOfThisRun
<1>4. Records'
  <2>1. \A h \in history : h.generation # generation \/ discarded' = discarded
    BY CompleteHasNoProbe DEF Replaces, IInv, Records
  <2>2. \A h \in history : h.generation <= generation /\ h.generation \in Nat
    BY Bounds DEF IInv, Records, Typed, TypeOK, Run
  <2>3. \A g \in discarded' : g < generation'
    <3>1. \A g \in discarded : g \in Nat /\ g < generation
      BY Bounds DEF IInv, Records, Typed, TypeOK
    <3> QED
      BY <1>0, <3>1 DEF Replaces
  <2> QED
    BY <1>0, <2>1, <2>2, <2>3 DEF Replaces, IInv, Records
<1>5. Processes'
  <2>1. \A j \in Job : /\ jobs'[j].proc = jobs[j].proc /\ jobs'[j].told = jobs[j].told
                        /\ jobs'[j].generation = jobs[j].generation
    BY <1>0 DEF Replaces
  <2>2. ASSUME NEW j \in Job, jobs[j].proc = "running" PROVE Signalled(j)'
    <3>1. CASE Signalled(j)
      BY <1>0, <2>1, <3>1 DEF Replaces, Signalled, RestartRun, ClearCancel
    <3>2. CASE ~Signalled(j)
      <4>1. jobs[j].generation = generation /\ ctx
        BY <2>2, <3>2 DEF IInv, Processes
      <4>2. generation \in cancelled'
        BY <1>0, <4>1 DEF Replaces, RestartRun, ClearCancel
      <4> QED
        BY <2>1, <4>1, <4>2 DEF Signalled
    <3> QED
      BY <3>1, <3>2
  <2> QED
    BY <2>1, <2>2 DEF Processes
<1> QED
  BY <1>1, <1>2, <1>3, <1>4, <1>5 DEF IInv

-----------------------------------------------------------------------------
\* The steps of jobs alone.

JobStep ==
  /\ UNCHANGED <<runVars, recordVars, exited>>
  /\ jobs' \in [Job -> JobState]
  /\ \A j \in Job :
       /\ jobs'[j].generation = jobs[j].generation /\ (jobs[j].told => jobs'[j].told)
       /\ jobs'[j].proc = "running" => jobs[j].proc = "running" /\ jobs'[j].held = jobs[j].held
  /\ pending' # None /\ pending'.kind = "restart" => generation < MaxGeneration
  /\ pending' \in {None, [kind |-> "quit"]} \cup [kind : {"restart"}, new : BOOLEAN]

LEMMA JobStepFacts ==
  ASSUME IInv,
         \/ \E j \in Job : ProcessEnds(j) \/ DropToolDone(j) \/ ToolDone(j) \/ CancelJob(j)
         \/ QuitLater
         \/ \E new \in BOOLEAN : RestartLater(new)
  PROVE  JobStep
<1>0. /\ jobs \in [Job -> JobState]
      /\ pending # None /\ pending.kind = "restart" => generation < MaxGeneration
      /\ pending \in {None, [kind |-> "quit"]} \cup [kind : {"restart"}, new : BOOLEAN]
  BY DEF IInv, Typed, TypeOK
<1>1. ASSUME NEW j \in Job, ProcessEnds(j) PROVE JobStep
  BY <1>0, <1>1 DEF ProcessEnds, JobStep, JobState
<1>2. ASSUME NEW j \in Job, DropToolDone(j) PROVE JobStep
  BY <1>0, <1>2 DEF DropToolDone, Terminal, JobStep, JobState
<1>3. ASSUME NEW j \in Job, ToolDone(j) PROVE JobStep
  BY <1>0, <1>3 DEF ToolDone, Delivers, Terminal, Ended, JobStep, JobState
<1>4. ASSUME NEW j \in Job, CancelJob(j) PROVE JobStep
  BY <1>0, <1>4 DEF CancelJob, JobStep, JobState
<1>5. ASSUME CancelJobs
      PROVE  /\ jobs' \in [Job -> JobState]
             /\ \A j \in Job :
                  /\ jobs'[j].generation = jobs[j].generation /\ (jobs[j].told => jobs'[j].told)
                  /\ jobs'[j].proc = jobs[j].proc /\ jobs'[j].held = jobs[j].held
  BY <1>0, <1>5 DEF CancelJobs, JobState
<1>6. CASE QuitLater
  BY <1>0, <1>5, <1>6 DEF QuitLater, JobStep, None
<1>7. ASSUME NEW new \in BOOLEAN, RestartLater(new) PROVE JobStep
  <2>1. pending' = [kind |-> "restart", new |-> new]
    BY <1>7 DEF RestartLater
  <2> QED
    BY <1>0, <1>5, <1>7, <2>1 DEF RestartLater, JobStep
<1> QED
  BY <1>1, <1>2, <1>3, <1>4, <1>6, <1>7

LEMMA JobStepKeeps == IInv /\ JobStep => IInv'
<1> SUFFICES ASSUME IInv, JobStep PROVE IInv'
  OBVIOUS
<1> USE DEF JobStep, runVars, recordVars
<1>1. Typed'
  <2>1. \A j \in Job : jobs'[j].proc \in {"none", "running", "over"}
    BY DEF JobState
  <2> QED
    BY <2>1 DEF IInv, Typed, TypeOK
<1>2. Reports' /\ ResultsAreOfThisRun'
  BY DEF IInv, Reports, ResultsAreOfThisRun, CurrentRun
<1>3. Records'
  BY DEF IInv, Records, AllDone
<1>4. Processes'
  BY DEF IInv, Processes, Signalled
<1> QED
  BY <1>1, <1>2, <1>3, <1>4 DEF IInv

-----------------------------------------------------------------------------
\* The steps that end the program.

Exits ==
  /\ UNCHANGED <<generation, question, results, schedules, inflight, ticks, recordVars>>
  /\ ClearCancel
  /\ exited' = TRUE /\ pending' \in {pending, None}
  /\ jobs' \in [Job -> JobState]
  /\ \A j \in Job :
       /\ jobs'[j].generation = jobs[j].generation /\ (jobs[j].told => jobs'[j].told)
       /\ jobs'[j].proc = jobs[j].proc

LEMMA ExitsFacts ==
  ASSUME IInv, Quit \/ Leave \/ (\E j \in Job : QuitDeferred(j))
  PROVE  Exits
<1>0. jobs \in [Job -> JobState]
  BY DEF IInv, Typed
<1>1. CASE Quit
  BY <1>0, <1>1 DEF Quit, Exits
<1>2. CASE Leave
  <2>1. /\ jobs' \in [Job -> JobState]
        /\ \A j \in Job :
             /\ jobs'[j].generation = jobs[j].generation /\ (jobs[j].told => jobs'[j].told)
             /\ jobs'[j].proc = jobs[j].proc
    BY <1>0, <1>2 DEF Leave, CancelJobs, JobState
  <2> QED
    BY <1>2, <2>1 DEF Leave, Exits
<1>3. ASSUME NEW j \in Job, QuitDeferred(j) PROVE Exits
  <2>1. /\ jobs' \in [Job -> JobState]
        /\ \A k \in Job :
             /\ jobs'[k].generation = jobs[k].generation /\ (jobs[k].told => jobs'[k].told)
             /\ jobs'[k].proc = jobs[k].proc
    <3>1. jobs' = Ended(j)
      BY <1>3 DEF QuitDeferred
    <3> QED
      BY <1>0, <3>1 DEF Ended, JobState
  <2> QED
    BY <1>3, <2>1 DEF QuitDeferred, Exits
<1> QED
  BY <1>1, <1>2, <1>3

LEMMA ExitsKeeps == IInv /\ Exits => IInv'
<1> SUFFICES ASSUME IInv, Exits PROVE IInv'
  OBVIOUS
<1> USE DEF Exits, recordVars
<1>0. ctx' = FALSE /\ (ctx => generation \in cancelled') /\ cancelled \subseteq cancelled'
  BY DEF ClearCancel
<1>1. Typed'
  <2>1. \A j \in Job : jobs'[j].proc \in {"none", "running", "over"}
    BY DEF JobState
  <2>2. cancelled' \subseteq 0..generation'
    <3>1. cancelled \subseteq 0..generation /\ generation \in 0..generation
      BY Bounds DEF IInv, Typed, TypeOK
    <3> QED
      BY <3>1 DEF ClearCancel
  <2> QED
    BY <1>0, <2>1, <2>2 DEF IInv, Typed, TypeOK
<1>2. Reports' /\ ResultsAreOfThisRun'
  BY DEF IInv, Reports, ResultsAreOfThisRun, CurrentRun
<1>3. Records'
  BY DEF IInv, Records, AllDone
<1>4. Processes'
  BY <1>0 DEF IInv, Processes, Signalled
<1> QED
  BY <1>1, <1>2, <1>3, <1>4 DEF IInv

-----------------------------------------------------------------------------
\* The steps of one run.

LEMMA ScheduleKeeps == ASSUME IInv, NEW g \in Generation, Schedule(g) PROVE IInv'
<1> USE DEF Schedule, recordVars
<1>0. generation \in Nat /\ question \in 0..generation /\ generation \in Generation /\ question \in Question
  BY Bounds DEF IInv, Typed, TypeOK, Question, Generation
<1>r. CurrentRun \in Run /\ CurrentRun.generation = generation /\ CurrentRun.question = question
  BY <1>0 DEF CurrentRun, Run
<1>1. CASE g # generation
  <2>1. Typed'
    BY <1>1 DEF IInv, Typed, TypeOK
  <2>2. Reports' /\ ResultsAreOfThisRun'
    BY <1>1 DEF IInv, Reports, ResultsAreOfThisRun, CurrentRun
  <2>3. Records' /\ Processes'
    BY <1>1 DEF IInv, Records, AllDone, Processes, Signalled
  <2> QED
    BY <2>1, <2>2, <2>3 DEF IInv
<1>2. CASE g = generation
  <2>0. /\ inflight' = inflight \cup {[row |-> r, run |-> CurrentRun] : r \in Row}
        /\ ctx' = TRUE /\ schedules' = schedules \ {generation}
        /\ \A r \in Row : results[r] = None
    BY <1>2 DEF IInv, Reports
  <2>1. inflight' \subseteq [row : Row, run : Run]
    BY <1>r, <2>0 DEF IInv, Typed
  <2>2. Typed'
    BY <2>0, <2>1 DEF IInv, Typed, TypeOK
  <2>3. Reports'
    <3>1. \A p \in inflight : p.row \in Row
      BY DEF IInv, Typed
    <3> QED
      BY <1>0, <1>r, <2>0, <3>1 DEF IInv, Reports
  <2>4. ResultsAreOfThisRun'
    BY <2>0 DEF ResultsAreOfThisRun
  <2>5. Records' /\ Processes'
    BY <2>0 DEF IInv, Records, AllDone, Processes, Signalled
  <2> QED
    BY <2>2, <2>3, <2>4, <2>5 DEF IInv
<1> QED
  BY <1>1, <1>2

\* A probe that reports is one of the run on screen and for its target, and every
\* other one has another row.
LEMMA ReportFacts ==
  ASSUME IInv, NEW p \in inflight, Report(p)
  PROVE  /\ p.run = CurrentRun /\ p.row \in Row /\ results[p.row] = None
         /\ generation \notin schedules /\ ~AllDone(results) /\ CurrentRun # None
         /\ \A q \in inflight' : q \in inflight /\ (q.run.generation = generation => q.row # p.row)
<1>1. p.run.generation = generation /\ inflight' = inflight \ {p}
  BY DEF Report, Accepts
<1>2. p.run.question = question /\ generation \notin schedules /\ results[p.row] = None
  BY <1>1 DEF IInv, Reports
<1>3. \A q \in inflight : q \in [row : Row, run : Run]
  BY DEF IInv, Typed
<1>4. \A q \in inflight : q.run.generation = generation => q.run = CurrentRun
  BY <1>3 DEF IInv, Reports, CurrentRun, Run
<1>5. \A q \in inflight : q.run = CurrentRun /\ q.row = p.row => q = p
  BY <1>1, <1>3, <1>4
<1> QED
  BY <1>1, <1>2, <1>3, <1>4, <1>5, CompleteHasNoProbe DEF CurrentRun, None

LEMMA ReportKeeps == ASSUME IInv, NEW p \in inflight, RowDone(p) \/ RunDone(p) PROVE IInv'
<1>0. Report(p) /\ results' = [results EXCEPT ![p.row] = p.run]
      /\ UNCHANGED <<generation, question, ctx, cancelled, schedules, discarded, jobs, pending, exited>>
  BY DEF RowDone, RunDone, recordVars
<1>1. /\ p.run = CurrentRun /\ p.row \in Row /\ results[p.row] = None
      /\ generation \notin schedules /\ ~AllDone(results) /\ CurrentRun # None
      /\ \A q \in inflight' : q \in inflight /\ (q.run.generation = generation => q.row # p.row)
  BY <1>0, ReportFacts
<1>2. /\ results \in [Row -> Run \cup {None}] /\ p.run \in Run
      /\ results' \in [Row -> Run \cup {None}]
      /\ results'[p.row] = CurrentRun
      /\ \A r \in Row : r # p.row => results'[r] = results[r]
  BY <1>0, <1>1 DEF IInv, Typed
<1>3. /\ history' \subseteq history \cup {CurrentRun} /\ ticks' \in [Generation -> Nat]
      /\ history' # history => AllDone(results')
  <2>1. ticks \in [Generation -> Nat] /\ generation \in Generation
    BY DEF IInv, Typed, TypeOK
  <2> QED
    BY <2>1 DEF RowDone, RunDone, recordVars
<1>4. Typed'
  BY <1>0, <1>1, <1>2, <1>3 DEF IInv, Typed, TypeOK
<1>5. Reports'
  <2>1. \A q \in inflight' : q \in inflight /\ q.row \in Row
    BY <1>1 DEF IInv, Typed
  <2> QED
    BY <1>0, <1>1, <1>2, <2>1 DEF IInv, Reports
<1>6. ResultsAreOfThisRun'
  BY <1>0, <1>2 DEF IInv, ResultsAreOfThisRun, CurrentRun
<1>7. Records'
  <2>1. generation \notin discarded /\ generation \in Nat
    BY Bounds DEF IInv, Records, Typed, TypeOK
  <2>2. \A h \in history : h.generation # generation
    BY <1>1 DEF IInv, Records
  <2> QED
    BY <1>0, <1>3, <2>1, <2>2 DEF IInv, Records, CurrentRun
<1>8. Processes'
  BY <1>0 DEF IInv, Processes, Signalled
<1> QED
  BY <1>4, <1>5, <1>6, <1>7, <1>8 DEF IInv

LEMMA DropKeeps ==
  ASSUME IInv, (\E p \in inflight : DropResult(p)) \/ (\E g \in Generation : DropTick(g) \/ Rearm(g))
  PROVE  IInv'
<1>1. /\ inflight' \subseteq inflight
      /\ UNCHANGED <<generation, question, ctx, cancelled, results, schedules, history, discarded,
                     jobs, pending, exited>>
  BY DEF DropResult, DropTick, Rearm, runVars, recordVars
<1>2. ticks' \in [Generation -> Nat]
  <2>1. ticks \in [Generation -> Nat]
    BY DEF IInv, Typed
  <2>2. ASSUME NEW g \in Generation, DropTick(g) PROVE ticks' \in [Generation -> Nat]
    <3>1. ticks[g] \in Nat /\ ticks[g] > 0 /\ ticks' = [ticks EXCEPT ![g] = @ - 1]
      BY <2>1, <2>2 DEF DropTick, Tick
    <3> QED
      BY <2>1, <3>1
  <2> QED
    BY <2>1, <2>2 DEF DropResult, Rearm, runVars
<1>3. Typed'
  BY <1>1, <1>2 DEF IInv, Typed, TypeOK
<1>4. Reports' /\ ResultsAreOfThisRun'
  BY <1>1 DEF IInv, Reports, ResultsAreOfThisRun, CurrentRun
<1>5. Records' /\ Processes'
  BY <1>1 DEF IInv, Records, AllDone, Processes, Signalled
<1> QED
  BY <1>3, <1>4, <1>5 DEF IInv

LEMMA LaunchKeeps == ASSUME IInv, NEW j \in Job, Launch(j) PROVE IInv'
<1>0. /\ generation \in Generation /\ jobs \in [Job -> JobState]
      /\ ~exited /\ ctx' = TRUE
      /\ UNCHANGED <<generation, question, cancelled, results, schedules, inflight, ticks,
                     history, discarded, pending, exited>>
  BY DEF Launch, IInv, Typed, TypeOK, recordVars
<1>1. /\ jobs' = [jobs EXCEPT ![j] = [@ EXCEPT !.proc = "running", !.held = TRUE,
                                                !.generation = generation]]
  BY DEF Launch
<1>2. /\ jobs' \in [Job -> JobState] /\ jobs'[j].held /\ jobs'[j].generation = generation
      /\ \A k \in Job : k # j => jobs'[k] = jobs[k]
  BY <1>0, <1>1 DEF JobState
<1>3. Typed'
  <2>1. \A k \in Job : jobs'[k].proc \in {"none", "running", "over"}
    BY <1>2 DEF JobState
  <2> QED
    BY <1>0, <1>2, <2>1 DEF IInv, Typed, TypeOK
<1>4. Reports' /\ ResultsAreOfThisRun'
  BY <1>0 DEF IInv, Reports, ResultsAreOfThisRun, CurrentRun
<1>5. Records' /\ Processes'
  BY <1>0, <1>2 DEF IInv, Records, AllDone, Processes, Signalled
<1> QED
  BY <1>3, <1>4, <1>5 DEF IInv

LEMMA StutterKeeps == IInv /\ UNCHANGED vars => IInv'
BY DEF IInv, Typed, TypeOK, Reports, ResultsAreOfThisRun, CurrentRun, Records, AllDone, Processes,
       Signalled, vars

-----------------------------------------------------------------------------
LEMMA Invariance == Spec => []IInv
<1>1. IInv /\ [Next]_vars => IInv'
  <2> SUFFICES ASSUME IInv, [Next]_vars PROVE IInv'
    OBVIOUS
  <2>1. CASE UNCHANGED vars \/ Exited
    BY <2>1, StutterKeeps DEF Exited
  <2>2. CASE Probing
    BY <2>2, ScheduleKeeps, DropKeeps, ReportKeeps, ReplacesFacts, ReplacesKeeps DEF Probing
  <2>3. CASE Timers \/ (\E g \in Generation : Rearm(g))
    BY <2>3, DropKeeps, ReplacesFacts, ReplacesKeeps DEF Timers
  <2>4. CASE User
    BY <2>4, ExitsFacts, ExitsKeeps, JobStepFacts, JobStepKeeps, ReplacesFacts, ReplacesKeeps,
       LaunchKeeps DEF User
  <2>5. CASE \E j \in Job : ProcessEnds(j) \/ JobEvents(j)
    BY <2>5, ExitsFacts, ExitsKeeps, JobStepFacts, JobStepKeeps, ReplacesFacts, ReplacesKeeps
       DEF JobEvents
  <2> QED
    BY <2>1, <2>2, <2>3, <2>4, <2>5 DEF Next
<1> QED
  BY <1>1, InitInv, PTL DEF Spec

\* Type correctness.
THEOREM TypeCorrect == Spec => []TypeOK
<1>1. IInv => TypeOK
  BY DEF IInv, Typed
<1> QED
  BY <1>1, Invariance, PTL

\* No answer of a replaced run is shown under the next one's name (probeDoneMsg in
\* model.go).
THEOREM ResultsOfThisRun == Spec => []ResultsAreOfThisRun
<1>1. IInv => ResultsAreOfThisRun
  BY DEF IInv
<1> QED
  BY <1>1, Invariance, PTL

\* The recorded history is of the target on screen and holds no refused pass
\* (applyTarget, recordRun and the discarded pass in model.go).
THEOREM HistoryOfThisQuestion == Spec => []HistoryIsOfThisQuestion
<1>1. IInv => HistoryIsOfThisQuestion
  BY DEF IInv, Records, HistoryIsOfThisQuestion
<1> QED
  BY <1>1, Invariance, PTL

\* A process that was not asked to stop belongs to the run on screen and can still
\* be cancelled from it; none outlives the program (clearCancel, cancelJobs).
THEOREM ProcessesAreHeld == Spec => []NoStrayProcess
<1>1. IInv => NoStrayProcess
  BY DEF IInv, Processes, NoStrayProcess
<1> QED
  BY <1>1, Invariance, PTL
=============================================================================
