-------------------------- MODULE RemoteExchange --------------------------
(***************************************************************************)
(* One diagnosis on another machine (internal/remote): run starts ssh,     *)
(* writes a request, decodes one response, makes sure that nothing follows *)
(* it, and reaps ssh; Serve answers at the other end. The local half of a  *)
(* two-sided run (app/headless_mode.go) goes on beside it under the same   *)
(* context, and a remote failure cancels it.                               *)
(*                                                                         *)
(* ssh and the network are the environment: ssh may fail, stall, lose the  *)
(* connection half-way through a response, deliver prose of the remote     *)
(* shell before or after it, and stay up after the worker has gone.        *)
(***************************************************************************)
EXTENDS Naturals

VARIABLES
  call,      \* where run is
  stdin,     \* the worker's standard input: "open", "closed"
  ssh,       \* the child: "up", "exited", "failed" (status 255), "killed", "reaped"
  worker,    \* Serve: "starting", "diagnosing", then what it answered
  stdout,    \* how much of a response ssh delivered
  followed,  \* and whether prose of the remote shell came behind it
  decoded,   \* what decodeResponse and the framing check made of it
  deadline,  \* opCtx has reached its own deadline
  signalled, \* signalCtx has ended
  cancelled, \* runLiveTwoSided called cancel
  outcome,   \* what run returned
  local,     \* the local diagnosis
  verdict    \* what runLiveTwoSided reported

callVars == <<call, decoded, outcome>>
peerVars == <<stdin, ssh, worker, stdout, followed>>
contexts == <<deadline, signalled, cancelled>>
sideVars == <<local, verdict>>
remoteVars == <<callVars, peerVars, contexts, sideVars>>

Answers == {"diagnosis", "refusal", "interrupted"}

ctxEnded == signalled \/ cancelled
opEnded == ctxEnded \/ deadline

Init ==
  /\ call = "writing" /\ decoded = "nothing" /\ outcome = "none"
  /\ stdin = "open" /\ ssh = "up" /\ worker = "starting" /\ stdout = "nothing" /\ followed = FALSE
  /\ deadline = FALSE /\ signalled = FALSE /\ cancelled = FALSE
  /\ local = "running" /\ verdict = "none"

-----------------------------------------------------------------------------
\* ssh, and the worker it started.

\* The worker reads its request once, and from then on the end of its input as
\* the end of the wish for an answer.
WorkerReads ==
  /\ worker = "starting" /\ ssh = "up" /\ call # "writing"
  /\ worker' = "diagnosing"
  /\ UNCHANGED <<callVars, contexts, sideVars, stdin, ssh, stdout, followed>>

WorkerAnswers ==
  /\ worker = "diagnosing"
  /\ worker' \in IF stdin = "closed" \/ ssh # "up" THEN Answers ELSE {"diagnosis", "refusal"}
  /\ UNCHANGED <<callVars, contexts, sideVars, stdin, ssh, stdout, followed>>

Deliver ==
  /\ ssh = "up" /\ worker \in Answers
  /\ \/ stdout = "nothing" /\ stdout' = "part"
     \/ stdout = "part" /\ stdout' = "whole"
  /\ UNCHANGED <<callVars, contexts, sideVars, stdin, ssh, worker, followed>>

\* The remote shell writes something of its own, before or after the response.
ShellSpeaks ==
  /\ ssh = "up"
  /\ \/ stdout = "nothing" /\ stdout' = "noise" /\ UNCHANGED followed
     \/ stdout = "whole" /\ followed' = TRUE /\ UNCHANGED stdout
  /\ UNCHANGED <<callVars, contexts, sideVars, stdin, ssh, worker>>

\* ssh ends by itself: a login that failed, a lost connection, a worker that is
\* not there, or one that has answered and gone.
SshEnds ==
  /\ ssh = "up"
  /\ ssh' \in {"exited", "failed"}
  /\ UNCHANGED <<callVars, contexts, sideVars, stdin, worker, stdout, followed>>

\* exec.CommandContext kills the child when its context ends.
ContextKills ==
  /\ opEnded /\ ssh = "up"
  /\ ssh' = "killed"
  /\ UNCHANGED <<callVars, contexts, sideVars, stdin, worker, stdout, followed>>

DeadlinePasses ==
  /\ ~deadline /\ call # "returned"
  /\ deadline' = TRUE
  /\ UNCHANGED <<callVars, peerVars, sideVars, signalled, cancelled>>

UserInterrupts ==
  /\ ~signalled /\ verdict = "none"
  /\ signalled' = TRUE
  /\ UNCHANGED <<callVars, peerVars, sideVars, deadline, cancelled>>

-----------------------------------------------------------------------------
\* run.

WriteRequest ==
  /\ call = "writing"
  /\ IF ssh = "up"
       THEN call' = "decoding" /\ UNCHANGED decoded
       ELSE call' = "closing" /\ decoded' = "no response"
  /\ UNCHANGED <<peerVars, contexts, sideVars, outcome>>

\* decodeResponse reads the first value, and waits for one while ssh is up. The
\* end of the stream before any byte is "no response".
DecodeResponse ==
  /\ call = "decoding"
  /\ ssh = "up" => stdout \in {"whole", "noise"}
  /\ decoded' = CASE stdout = "whole" -> worker
                  [] stdout = "nothing" -> "no response"
                  [] stdout \in {"part", "noise"} -> "unreadable"
  /\ call' = "closing"
  /\ UNCHANGED <<peerVars, contexts, sideVars, outcome>>

CloseStdin ==
  /\ call = "closing"
  /\ stdin' = "closed"
  /\ call' = IF decoded \in Answers THEN "checking" ELSE "stopping"
  /\ UNCHANGED <<contexts, sideVars, ssh, worker, stdout, followed, decoded, outcome>>

Kill == ssh' = IF ssh = "up" THEN "killed" ELSE ssh

\* A failed exchange gets no grace.
StopSSH ==
  /\ call = "stopping"
  /\ Kill /\ call' = "waiting"
  /\ UNCHANGED <<contexts, sideVars, stdin, worker, stdout, followed, decoded, outcome>>

\* confirmNoTrailingData ends with what follows the response, or with the stream.
ConfirmNoTrailingData ==
  /\ call \in {"checking", "ending"}
  /\ \/ followed /\ decoded' = "unreadable" /\ Kill
     \/ ~followed /\ ssh # "up" /\ UNCHANGED <<decoded, ssh>>
  /\ call' = "waiting"
  /\ UNCHANGED <<contexts, sideVars, stdin, worker, stdout, followed, outcome>>

\* A fault: the answer is returned without what the check would have found.
GraceTakesAnswer ==
  /\ call = "checking"
  /\ Kill /\ call' = "waiting"
  /\ UNCHANGED <<contexts, sideVars, stdin, worker, stdout, followed, decoded, outcome>>

\* responseEOFGrace has passed: ssh is killed and the check left to finish.
GraceEnds ==
  /\ call = "checking"
  /\ Kill /\ call' = "ending"
  /\ UNCHANGED <<contexts, sideVars, stdin, worker, stdout, followed, decoded, outcome>>

\* transportError: the caller's context is asked before the operation's own.
TransportError ==
  CASE ctxEnded -> "interrupted"
    [] ~ctxEnded /\ deadline -> "timed out"
    [] ~opEnded /\ ssh = "failed" -> "ssh failed"
    [] ~opEnded /\ ssh # "failed" -> decoded

Wait ==
  /\ call = "waiting" /\ ssh # "up"
  /\ ssh' = "reaped" /\ call' = "returned"
  /\ outcome' = IF decoded \in Answers THEN decoded ELSE TransportError
  /\ cancelled' = (cancelled \/ outcome' # "diagnosis")
  /\ UNCHANGED <<sideVars, stdin, worker, stdout, followed, decoded, deadline, signalled>>

RunStep ==
  \/ WriteRequest \/ DecodeResponse \/ CloseStdin \/ StopSSH
  \/ ConfirmNoTrailingData \/ GraceEnds \/ Wait

-----------------------------------------------------------------------------
\* runLiveTwoSided.

\* The local probes end, and end early when their context does: a pass that was
\* cancelled is not a diagnosis.
LocalEnds ==
  /\ local = "running"
  /\ local' = IF ctxEnded THEN "interrupted" ELSE "diagnosis"
  /\ cancelled' = (cancelled \/ ctxEnded)
  /\ UNCHANGED <<callVars, peerVars, deadline, signalled, verdict>>

Report ==
  /\ verdict = "none" /\ call = "returned" /\ local # "running"
  /\ verdict' = CASE signalled -> "interrupted"
                  [] ~signalled /\ outcome # "diagnosis" -> "remote failed"
                  [] ~signalled /\ outcome = "diagnosis" /\ local # "diagnosis" -> "local failed"
                  [] OTHER -> "compared"
  /\ UNCHANGED <<callVars, peerVars, contexts, local>>

ExchangeOver == verdict # "none"
Reported == ExchangeOver /\ UNCHANGED remoteVars

Next ==
  \/ WorkerReads \/ WorkerAnswers \/ Deliver \/ ShellSpeaks \/ SshEnds
  \/ ContextKills \/ DeadlinePasses \/ UserInterrupts
  \/ RunStep \/ LocalEnds \/ Report \/ Reported

\* The goroutines of run and of the local diagnosis go on, and os/exec kills at
\* the end of the context. The deadline is relied on only while nothing has come
\* back; ssh, the network and the user are not relied on at all.
DeadlineEnds == call \in {"writing", "decoding"} /\ DeadlinePasses
Fairness ==
  /\ WF_remoteVars(RunStep) /\ WF_remoteVars(LocalEnds) /\ WF_remoteVars(Report)
  /\ WF_remoteVars(ContextKills) /\ WF_remoteVars(DeadlineEnds)

Spec == Init /\ [][Next]_remoteVars
FairSpec == Spec /\ Fairness

-----------------------------------------------------------------------------
TypeOK ==
  /\ call \in {"writing", "decoding", "closing", "stopping", "checking", "ending", "waiting", "returned"}
  /\ stdin \in {"open", "closed"}
  /\ ssh \in {"up", "exited", "failed", "killed", "reaped"}
  /\ worker \in {"starting", "diagnosing"} \cup Answers
  /\ stdout \in {"nothing", "noise", "part", "whole"} /\ followed \in BOOLEAN
  /\ decoded \in {"nothing", "no response", "unreadable"} \cup Answers
  /\ {deadline, signalled, cancelled} \subseteq BOOLEAN
  /\ outcome \in {"none", "timed out", "ssh failed", "no response", "unreadable"} \cup Answers
  /\ local \in {"running", "diagnosis", "interrupted"}
  /\ verdict \in {"none", "interrupted", "remote failed", "local failed", "compared"}

\* What run returns as the worker's answer is all that ssh delivered, and the
\* worker gave it of its own accord: the client closes the worker's input only
\* when it no longer takes that for a cancellation. ssh is reaped either way.
AnswersAreWhole ==
  call = "returned" =>
    /\ ssh = "reaped"
    /\ outcome \in {"diagnosis", "refusal"} => outcome = worker /\ stdout = "whole" /\ ~followed
    /\ decoded # "interrupted"

\* Who is blamed for a failed run: the user only when the user interrupted it,
\* not for a deadline or for the cancellation one side's failure brings on the
\* other, and the remote side only for a failure of its own.
BlameIsTrue ==
  /\ outcome = "interrupted" => signalled
  /\ outcome = "timed out" => deadline
  /\ verdict = "remote failed" => outcome \notin {"diagnosis", "interrupted"}
  /\ verdict # "local failed"
  /\ verdict = "compared" => outcome = "diagnosis" /\ local = "diagnosis"

\* The exchange ends whatever ssh and the network do, and once run knows what it
\* will return it does not wait for its deadline.
ExchangeEnds == <>ExchangeOver
=============================================================================
