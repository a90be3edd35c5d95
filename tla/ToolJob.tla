------------------------------ MODULE ToolJob ------------------------------
(***************************************************************************)
(* One external tool: its process, the goroutines that read it, and the    *)
(* bounded channel to the UI (internal/ui/jobs.go, and the part of         *)
(* model.Update and Cleanup that reads the channel).                       *)
(*                                                                         *)
(* The process writes lines on two pipes. A reader per pipe always         *)
(* consumes them and drops the message when the channel is full. When both *)
(* pipes are at their end the job waits for the process and sends one      *)
(* terminal event, last, blocking. Update reads one message at a time; on  *)
(* the way out of the program Cleanup reads instead, beside the read       *)
(* Update left under way, for at most exitGrace.                           *)
(***************************************************************************)
EXTENDS Naturals, Sequences

CONSTANTS
  MaxLines,     \* bound: lines the process writes on one pipe
  ChanBuf       \* chanBuf

ASSUME BoundAssumption == MaxLines \in Nat /\ ChanBuf \in Nat \ {0}

VARIABLES
  proc,       \* the process: running, or how it ended
  cause,      \* what ended its context first
  pipe,       \* per pipe: lines written and not read
  written,    \* lines written so far, per pipe
  reader,     \* per pipe: its reader
  channel,    \* the messages sent and not received
  dropped,    \* lines dropped
  job,        \* the job's goroutine
  update,     \* Update's read of the channel
  shown,      \* lines Update has received
  terminal,   \* the terminal event received, by whom and what it says
  cleanup     \* Cleanup's wait

vars == <<proc, cause, pipe, written, reader, channel, dropped, job, update, shown, terminal, cleanup>>

Pipe == {"stdout", "stderr"}
Line == [done |-> FALSE]
Terminal(status, lost) == [done |-> TRUE, status |-> status, dropped |-> lost]
NoTerminal == [done |-> FALSE]

Init ==
  /\ proc = "running" /\ cause = "none"
  /\ pipe = [p \in Pipe |-> 0]
  /\ written = [p \in Pipe |-> 0]
  /\ reader = [p \in Pipe |-> "reading"]
  /\ channel = <<>>
  /\ dropped = 0
  /\ job = "draining"
  /\ update = "reading"
  /\ shown = 0
  /\ terminal = NoTerminal
  /\ cleanup = "no"

-----------------------------------------------------------------------------
\* The process and its context.

Write(p) ==
  /\ proc = "running" /\ written[p] < MaxLines
  /\ pipe' = [pipe EXCEPT ![p] = @ + 1]
  /\ written' = [written EXCEPT ![p] = @ + 1]
  /\ UNCHANGED <<proc, cause, reader, channel, dropped, job, update, shown, terminal, cleanup>>

\* The user cancels, the run is replaced, or the timeout fires.
EndContext(why) ==
  /\ cause = "none"
  /\ cause' = why
  /\ UNCHANGED <<proc, pipe, written, reader, channel, dropped, job, update, shown, terminal, cleanup>>

\* The process ends. One that is being killed may still exit zero first.
ProcessEnds ==
  /\ proc = "running"
  /\ proc' \in {"zero", "nonzero"}
  /\ UNCHANGED <<cause, pipe, written, reader, channel, dropped, job, update, shown, terminal, cleanup>>

-----------------------------------------------------------------------------
\* streamReader and the job's goroutine.

StreamLine(p) ==
  /\ reader[p] = "reading" /\ pipe[p] > 0
  /\ pipe' = [pipe EXCEPT ![p] = @ - 1]
  /\ IF Len(channel) < ChanBuf
       THEN channel' = Append(channel, Line) /\ UNCHANGED dropped
       ELSE dropped' = dropped + 1 /\ UNCHANGED channel
  /\ UNCHANGED <<proc, cause, written, reader, job, update, shown, terminal, cleanup>>

StreamEnds(p) ==
  /\ reader[p] = "reading" /\ pipe[p] = 0 /\ proc # "running"
  /\ reader' = [reader EXCEPT ![p] = "done"]
  /\ UNCHANGED <<proc, cause, pipe, written, channel, dropped, job, update, shown, terminal, cleanup>>

\* wg.Wait: both pipes are drained before the process is waited for.
Drained ==
  /\ job = "draining" /\ \A p \in Pipe : reader[p] = "done"
  /\ job' = "waiting"
  /\ UNCHANGED <<proc, cause, pipe, written, reader, channel, dropped, update, shown, terminal, cleanup>>

\* classifyJob: success wins.
Classify ==
  CASE proc = "zero" -> "done"
    [] proc # "zero" /\ cause = "canceled" -> "canceled"
    [] proc # "zero" /\ cause = "deadline" -> "timed out"
    [] OTHER -> "failed"

\* The job's result is fixed before the send that may block.
Classified ==
  /\ job = "waiting" /\ proc # "running"
  /\ job' = Classify
  /\ UNCHANGED <<proc, cause, pipe, written, reader, channel, dropped, update, shown, terminal, cleanup>>

Sending == job \in {"done", "failed", "canceled", "timed out"}

Send ==
  /\ Sending /\ Len(channel) < ChanBuf
  /\ channel' = Append(channel, Terminal(job, dropped))
  /\ job' = "gone"
  /\ UNCHANGED <<proc, cause, pipe, written, reader, dropped, update, shown, terminal, cleanup>>

-----------------------------------------------------------------------------
\* Receivers.

First == Head(channel)

Take ==
  /\ channel # <<>>
  /\ channel' = Tail(channel)
  /\ terminal' = IF First.done THEN First ELSE terminal

\* waitForMsg delivers, and Update asks for the next line. Once the program is
\* leaving, the read under way still takes its message, which Update never sees.
UpdateReads ==
  /\ update = "reading"
  /\ Take
  /\ shown' = IF First.done \/ cleanup # "no" THEN shown ELSE shown + 1
  /\ update' = IF First.done \/ cleanup # "no" THEN "stopped" ELSE "reading"
  /\ UNCHANGED <<proc, cause, pipe, written, reader, dropped, job, cleanup>>

\* The program leaves: Cleanup cancels the job and waits for its end.
Leave ==
  /\ cleanup = "no" /\ ~terminal.done
  /\ cause' = IF cause = "none" THEN "canceled" ELSE cause
  /\ cleanup' = "waiting"
  /\ UNCHANGED <<proc, pipe, written, reader, channel, dropped, job, update, shown, terminal>>

CleanupReads ==
  /\ cleanup = "waiting"
  /\ Take
  /\ cleanup' = IF First.done THEN "over" ELSE "waiting"
  /\ UNCHANGED <<proc, cause, pipe, written, reader, dropped, job, update, shown>>

\* exitGrace has passed.
GraceEnds ==
  /\ cleanup = "waiting"
  /\ cleanup' = "late"
  /\ UNCHANGED <<proc, cause, pipe, written, reader, channel, dropped, job, update, shown, terminal>>

\* Update or Cleanup has seen the job end, or the program has left without.
JobOver == (terminal.done /\ cleanup # "waiting") \/ cleanup \in {"over", "late"}
Over == JobOver /\ UNCHANGED vars

-----------------------------------------------------------------------------
Streams == \E p \in Pipe : StreamLine(p) \/ StreamEnds(p)
JobSteps == Drained \/ Classified \/ Send
Next ==
  \/ \E p \in Pipe : Write(p)
  \/ \E why \in {"canceled", "deadline"} : EndContext(why)
  \/ ProcessEnds \/ Streams \/ JobSteps \/ UpdateReads \/ Leave
  \/ CleanupReads \/ GraceEnds \/ Over

\* The process runs under a timeout, and WaitDelay after that its pipes are given
\* up, so what it started itself cannot hold them.
Fairness ==
  /\ WF_vars(ProcessEnds) /\ WF_vars(Streams) /\ WF_vars(JobSteps)
  /\ WF_vars(UpdateReads) /\ WF_vars(CleanupReads \/ GraceEnds)

Spec == Init /\ [][Next]_vars
FairSpec == Spec /\ Fairness

-----------------------------------------------------------------------------
Messages ==
  [done : {FALSE}] \cup
  [done : {TRUE}, status : {"done", "failed", "canceled", "timed out"}, dropped : 0..(2 * MaxLines)]

TypeOK ==
  /\ proc \in {"running", "zero", "nonzero"}
  /\ cause \in {"none", "canceled", "deadline"}
  /\ \A p \in Pipe : pipe[p] \in 0..MaxLines /\ written[p] \in 0..MaxLines
  /\ Len(channel) <= ChanBuf
  /\ \A i \in 1..Len(channel) : channel[i] \in Messages
  /\ terminal \in Messages
  /\ cleanup \in {"no", "waiting", "over", "late"}

\* The terminal event tells the truth about the tool: every line it wrote was
\* shown or is counted as dropped, however fast it wrote and whichever pipe ended
\* last, and it is shown as done exactly if it exited with success, although its
\* timeout or a cancel may have come first.
TerminalIsTrue ==
  terminal.done /\ cleanup = "no" =>
    /\ shown + terminal.dropped = written["stdout"] + written["stderr"]
    /\ terminal.status = "done" <=> proc = "zero"

\* Update receives the terminal event of every job, however full the channel is
\* when the tool ends, unless the program leaves; and the way out of the program
\* is never held up by a job.
JobEnds == <>JobOver
=============================================================================
