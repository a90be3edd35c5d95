--------------------------- MODULE ChildrenProofs ---------------------------
(***************************************************************************)
(* The owners of child processes, for any children, lines and faults: what *)
(* they say of a child is true, the supervisor signals no process that is  *)
(* not its own, and what it has closed has left nothing behind.            *)
(***************************************************************************)
EXTENDS MCChildren, Integers, TLAPS

-----------------------------------------------------------------------------
\* A tool of the UI.

Told(message) ==
  message.dropped = dropped /\ (message.status = "done" <=> proc = "zero")

ToolTyped ==
  /\ proc \in {"running", "zero", "nonzero"} /\ cause \in {"none", "canceled", "deadline"}
  /\ pipe \in [Pipe -> 0..MaxLines] /\ written \in [Pipe -> 0..MaxLines]
  /\ reader \in [Pipe -> {"reading", "done"}]
  /\ channel \in Seq(Messages) /\ Len(channel) <= ChanBuf /\ terminal \in Messages
  /\ job \in {"draining", "waiting", "done", "failed", "canceled", "timed out", "gone"}
  /\ cleanup \in {"no", "waiting", "over", "late"}
  /\ dropped \in Nat /\ shown \in Nat

\* A reader stops at the end of its pipe, the job after both readers.
Drains ==
  /\ \A p \in Pipe : reader[p] = "done" => pipe[p] = 0 /\ proc # "running"
  /\ job # "draining" => \A p \in Pipe : reader[p] = "done"
  /\ Sending => (job = "done" <=> proc = "zero")

\* The terminal event is the last of the channel, and the only one.
Queue ==
  /\ \A i \in 1..Len(channel) : channel[i].done = (job = "gone" /\ i = Len(channel))
  /\ job = "gone" /\ ~terminal.done => channel # <<>> /\ Told(channel[Len(channel)])
  /\ terminal.done => job = "gone" /\ channel = <<>> /\ Told(terminal)

\* Where the lines are that were written.
Underway == IF job # "gone" THEN Len(channel) ELSE IF terminal.done THEN 0 ELSE Len(channel) - 1
Written == written["stdout"] + written["stderr"]
Unread == pipe["stdout"] + pipe["stderr"]
Accounts ==
  /\ \A p \in Pipe : pipe[p] <= written[p]
  /\ Unread + dropped <= Written
  /\ cleanup = "no" => Written = Unread + dropped + shown + Underway

ToolInv == ToolTyped /\ Drains /\ Queue /\ Accounts

-----------------------------------------------------------------------------
\* A remote diagnosis.

Phases ==
  /\ call \in {"writing", "decoding", "closing", "stopping", "checking", "ending", "waiting", "returned"}
  /\ stdin \in {"open", "closed"}
  /\ ssh \in {"up", "exited", "failed", "killed", "reaped"}
  /\ stdout \in {"nothing", "noise", "part", "whole"}
  /\ local \in {"running", "diagnosis", "interrupted"}
  /\ verdict \in {"none", "interrupted", "remote failed", "local failed", "compared"}
Results ==
  /\ worker \in {"starting", "diagnosing", "diagnosis", "refusal", "interrupted"}
  /\ decoded \in {"nothing", "no response", "unreadable", "diagnosis", "refusal", "interrupted"}
  /\ outcome \in {"none", "timed out", "ssh failed", "no response", "unreadable",
                  "diagnosis", "refusal", "interrupted"}
Flags ==
  followed \in BOOLEAN /\ deadline \in BOOLEAN /\ signalled \in BOOLEAN /\ cancelled \in BOOLEAN

\* What was delivered the worker had answered before it was told to stop.
Delivered ==
  /\ call \in {"writing", "decoding", "closing"} => stdin = "open"
  /\ stdout \in {"part", "whole"} => worker \in Exchange!Answers
  /\ worker = "interrupted" /\ stdin = "open" => ssh # "up" /\ stdout \in {"nothing", "noise"}
  /\ followed => stdout = "whole"

\* How far the exchange is, and what is known of the answer.
Decoded ==
  /\ decoded = "nothing" <=> call \in {"writing", "decoding"}
  /\ decoded # "interrupted"
  /\ decoded \in Exchange!Answers => worker = decoded /\ stdout = "whole"
  /\ call \in {"checking", "ending"} => decoded \in Exchange!Answers
  /\ call = "stopping" => decoded \notin Exchange!Answers
  /\ call \in {"ending", "waiting", "returned"} => ssh # "up"
  /\ call \in {"waiting", "returned"} /\ decoded \in Exchange!Answers => ~followed
  /\ ssh = "reaped" <=> call = "returned"

\* Nobody is cancelled but by the user or by the remote side's failure.
Blamed ==
  /\ outcome = "none" <=> call # "returned"
  /\ outcome \in {"diagnosis", "refusal"} => outcome = decoded
  /\ cancelled \/ local = "interrupted" => signalled \/ (call = "returned" /\ outcome # "diagnosis")
  /\ verdict # "none" => call = "returned" /\ local # "running"
  /\ Exchange!BlameIsTrue

ExchangeInv == Phases /\ Results /\ Flags /\ Delivered /\ Decoded /\ Blamed

-----------------------------------------------------------------------------
\* The supervisor.

Stopping == {"look", "send", "wait", "reap", "join"}

\* Stop has the child's lock from the moment it knows that the child is not reaped.
Locked ==
  /\ \A x \in Frr!Caller : at[x].stage \in Stopping =>
       /\ at[x].child \in Child /\ stopMu[at[x].child] = x
       /\ at[x].round # "none"
  /\ \A c \in Child, x \in Frr!Caller :
       stopMu[c] = x => at[x].stage \in Stopping /\ at[x].child = c
  /\ \A x \in Frr!Caller : at[x].stage \in {"verify", "lock"} =>
       at[x].child \in Child /\ leader[at[x].child] # "none"
  /\ at["owner"].stage \notin {"stopping", "release"} /\ at["closer"].stage # "verify"

\* How far a Stop is with the child it has locked.
Progressed(x) ==
  /\ at[x].stage \in {"look", "send", "wait"} => leader[at[x].child] \in {"running", "zombie"}
  /\ at[x].stage \in {"look", "send"} /\ at[x].round = "sweep" => leader[at[x].child] = "zombie"
  /\ at[x].stage = "wait" => at[x].round # "sweep"
  /\ at[x].stage = "reap" => leader[at[x].child] = "zombie" /\ ~kin[at[x].child]
  /\ at[x].stage = "join" => leader[at[x].child] = "reaped" /\ ~kin[at[x].child]
Progress == \A x \in Frr!Caller : Progressed(x)

\* What is known of a child at any time.
Known(c) ==
  /\ leader[c] = "none" =>
       /\ c \notin children \cup mine \cup todo \cup reaped
       /\ pidfd[c] = "none" /\ watch[c] = "off" /\ stopMu[c] = "free"
  /\ leader[c] # "none" /\ c \notin reaped => c \in children /\ pidfd[c] = "open"
  /\ stopMu[c] = "free" /\ c \notin reaped => leader[c] # "reaped"
  /\ c \in reaped =>
       /\ leader[c] = "reaped" /\ ~kin[c] /\ c \notin children
       /\ pidfd[c] = "closed" /\ watch[c] # "watching" /\ stopMu[c] = "free"
Registered == \A c \in Child : Known(c)

\* A Close that has not failed has yet to stop whatever is registered.
Closes ==
  /\ at["closer"].stage # "idle" => closing /\ (failed \/ children \subseteq todo)
  /\ at["closer"].stage = "release" => ~failed /\ todo = {}
  /\ closed => closing /\ holder = "reaped" /\ children = {}
  /\ ~pins => closed

FrrInv == Frr!TypeOK /\ Locked /\ Progress /\ Registered /\ Closes

-----------------------------------------------------------------------------
\* A remote diagnosis.

LEMMA ExchangeBegins == Exchange!Init => ExchangeInv
  BY DEF Exchange!Init, ExchangeInv, Phases, Results, Flags, Delivered, Decoded, Blamed,
     Exchange!BlameIsTrue, Exchange!Answers

\* No step of run, of ssh, of the worker or of the local side breaks it.
LEMMA ExchangeSteps == ASSUME ExchangeInv, Exchange!Next \/ UNCHANGED exchangeVars PROVE ExchangeInv'
<1> USE DEF ExchangeInv, Exchange!callVars, Exchange!peerVars, Exchange!contexts, Exchange!sideVars,
            Phases, Results, Flags, Delivered, Decoded, Blamed, Exchange!BlameIsTrue, Exchange!Answers
<1>1. ASSUME Exchange!WorkerReads PROVE ExchangeInv'
  <2>1. Phases'
    BY <1>1 DEF Exchange!WorkerReads
  <2>2. Delivered'
    BY <1>1 DEF Exchange!WorkerReads
  <2>3. Decoded'
    BY <1>1 DEF Exchange!WorkerReads
  <2>4. Blamed'
    BY <1>1 DEF Exchange!WorkerReads
  <2>5. Results'
    BY <1>1 DEF Exchange!WorkerReads
  <2>6. Flags'
    BY <1>1 DEF Exchange!WorkerReads
  <2> QED
    BY <2>1, <2>2, <2>3, <2>4, <2>5, <2>6
<1>2. ASSUME Exchange!WorkerAnswers PROVE ExchangeInv'
  <2>1. Phases'
    BY <1>2 DEF Exchange!WorkerAnswers
  <2>2. Delivered'
    BY <1>2 DEF Exchange!WorkerAnswers
  <2>3. Decoded'
    BY <1>2 DEF Exchange!WorkerAnswers
  <2>4. Blamed'
    BY <1>2 DEF Exchange!WorkerAnswers
  <2>5. Results'
    BY <1>2 DEF Exchange!WorkerAnswers
  <2>6. Flags'
    BY <1>2 DEF Exchange!WorkerAnswers
  <2> QED
    BY <2>1, <2>2, <2>3, <2>4, <2>5, <2>6
<1>3. ASSUME Exchange!Deliver PROVE ExchangeInv'
  <2>1. Phases'
    BY <1>3 DEF Exchange!Deliver
  <2>2. Delivered'
    BY <1>3 DEF Exchange!Deliver
  <2>3. Decoded'
    BY <1>3 DEF Exchange!Deliver
  <2>4. Blamed'
    BY <1>3 DEF Exchange!Deliver
  <2>5. Results'
    BY <1>3 DEF Exchange!Deliver
  <2>6. Flags'
    BY <1>3 DEF Exchange!Deliver
  <2> QED
    BY <2>1, <2>2, <2>3, <2>4, <2>5, <2>6
<1>4. ASSUME Exchange!ShellSpeaks PROVE ExchangeInv'
  <2>1. CASE stdout = "nothing" /\ stdout' = "noise" /\ UNCHANGED followed
    <3>1. ~followed /\ ~followed'
      BY <2>1 DEF Delivered
    <3>2. Phases'
      BY <1>4, <2>1, <3>1 DEF Exchange!ShellSpeaks
    <3>3. Results'
      BY <1>4, <2>1, <3>1 DEF Exchange!ShellSpeaks
    <3>4. Flags'
      BY <1>4, <2>1, <3>1 DEF Exchange!ShellSpeaks
    <3>5. Delivered'
      BY <1>4, <2>1, <3>1 DEF Exchange!ShellSpeaks
    <3>6. Decoded'
      BY <1>4, <2>1, <3>1 DEF Exchange!ShellSpeaks
    <3>7. Blamed'
      BY <1>4, <2>1, <3>1 DEF Exchange!ShellSpeaks
    <3> QED
      BY <3>2, <3>3, <3>4, <3>5, <3>6, <3>7
  <2>2. CASE stdout = "whole" /\ followed' = TRUE /\ UNCHANGED stdout
    <3>1. followed' /\ call \notin {"waiting", "returned"}
      BY <1>4, <2>2 DEF Exchange!ShellSpeaks, Decoded
    <3>2. Phases'
      BY <1>4, <2>2, <3>1 DEF Exchange!ShellSpeaks
    <3>3. Results'
      BY <1>4, <2>2, <3>1 DEF Exchange!ShellSpeaks
    <3>4. Flags'
      BY <1>4, <2>2, <3>1 DEF Exchange!ShellSpeaks
    <3>5. Delivered'
      BY <1>4, <2>2, <3>1 DEF Exchange!ShellSpeaks
    <3>6. Decoded'
      BY <1>4, <2>2, <3>1 DEF Exchange!ShellSpeaks
    <3>7. Blamed'
      BY <1>4, <2>2, <3>1 DEF Exchange!ShellSpeaks
    <3> QED
      BY <3>2, <3>3, <3>4, <3>5, <3>6, <3>7
  <2> QED
    BY <1>4, <2>1, <2>2 DEF Exchange!ShellSpeaks
<1>5. ASSUME Exchange!SshEnds PROVE ExchangeInv'
  <2>1. Phases'
    BY <1>5 DEF Exchange!SshEnds
  <2>2. Delivered'
    BY <1>5 DEF Exchange!SshEnds
  <2>3. Decoded'
    BY <1>5 DEF Exchange!SshEnds
  <2>4. Blamed'
    BY <1>5 DEF Exchange!SshEnds
  <2>5. Results'
    BY <1>5 DEF Exchange!SshEnds
  <2>6. Flags'
    BY <1>5 DEF Exchange!SshEnds
  <2> QED
    BY <2>1, <2>2, <2>3, <2>4, <2>5, <2>6
<1>6. ASSUME Exchange!ContextKills PROVE ExchangeInv'
  <2>1. Phases'
    BY <1>6 DEF Exchange!ContextKills, Exchange!opEnded, Exchange!ctxEnded
  <2>2. Delivered'
    BY <1>6 DEF Exchange!ContextKills, Exchange!opEnded, Exchange!ctxEnded
  <2>3. Decoded'
    BY <1>6 DEF Exchange!ContextKills, Exchange!opEnded, Exchange!ctxEnded
  <2>4. Blamed'
    BY <1>6 DEF Exchange!ContextKills, Exchange!opEnded, Exchange!ctxEnded
  <2>5. Results'
    BY <1>6 DEF Exchange!ContextKills, Exchange!opEnded, Exchange!ctxEnded
  <2>6. Flags'
    BY <1>6 DEF Exchange!ContextKills, Exchange!opEnded, Exchange!ctxEnded
  <2> QED
    BY <2>1, <2>2, <2>3, <2>4, <2>5, <2>6
<1>7. ASSUME Exchange!DeadlinePasses PROVE ExchangeInv'
  <2>1. UNCHANGED <<Exchange!callVars, Exchange!peerVars, Exchange!sideVars, cancelled>>
    BY <1>7 DEF Exchange!DeadlinePasses
  <2>2. Flags'
    BY <1>7, <2>1 DEF Exchange!DeadlinePasses, Flags
  <2>3. Phases'
    BY <2>1, Zenon DEF Phases
  <2>5. Results'
    BY <2>1, Zenon DEF Results
  <2>4. Delivered'
    BY <2>1 DEF Delivered
  <2>6. Decoded'
    BY <2>1 DEF Decoded, Exchange!Answers
  <2>7. Blamed'
    <3>1. (signalled => signalled') /\ (deadline => deadline')
      BY <1>7 DEF Exchange!DeadlinePasses
    <3>2. verdict # "none" => signalled' = signalled
      BY <1>7 DEF Exchange!DeadlinePasses, Blamed
    <3>3. (outcome = "none" <=> call # "returned")'
      BY <2>1 DEF Blamed
    <3>4. /\ (outcome \in {"diagnosis", "refusal"} => outcome = decoded)'
          /\ (verdict # "none" => call = "returned" /\ local # "running")'
      BY <2>1 DEF Blamed
    <3>5. (cancelled \/ local = "interrupted" => signalled \/ (call = "returned" /\ outcome # "diagnosis"))'
      BY <2>1, <3>1 DEF Blamed
    <3>6. Exchange!BlameIsTrue'
      BY <2>1, <3>1 DEF Blamed, Exchange!BlameIsTrue
    <3> QED
      BY <3>3, <3>4, <3>5, <3>6 DEF Blamed
  <2> QED
    BY <2>2, <2>3, <2>4, <2>5, <2>6, <2>7
<1>8. ASSUME Exchange!UserInterrupts PROVE ExchangeInv'
  <2>1. UNCHANGED <<Exchange!callVars, Exchange!peerVars, Exchange!sideVars, cancelled>>
    BY <1>8 DEF Exchange!UserInterrupts
  <2>2. Flags'
    BY <1>8, <2>1 DEF Exchange!UserInterrupts, Flags
  <2>3. Phases'
    BY <2>1, Zenon DEF Phases
  <2>5. Results'
    BY <2>1, Zenon DEF Results
  <2>4. Delivered'
    BY <2>1 DEF Delivered
  <2>6. Decoded'
    BY <2>1 DEF Decoded, Exchange!Answers
  <2>7. Blamed'
    <3>1. (signalled => signalled') /\ (deadline => deadline')
      BY <1>8 DEF Exchange!UserInterrupts
    <3>2. verdict # "none" => signalled' = signalled
      BY <1>8 DEF Exchange!UserInterrupts, Blamed
    <3>3. (outcome = "none" <=> call # "returned")'
      BY <2>1 DEF Blamed
    <3>4. /\ (outcome \in {"diagnosis", "refusal"} => outcome = decoded)'
          /\ (verdict # "none" => call = "returned" /\ local # "running")'
      BY <2>1 DEF Blamed
    <3>5. (cancelled \/ local = "interrupted" => signalled \/ (call = "returned" /\ outcome # "diagnosis"))'
      BY <2>1, <3>1 DEF Blamed
    <3>6. Exchange!BlameIsTrue'
      BY <2>1, <3>1 DEF Blamed, Exchange!BlameIsTrue
    <3> QED
      BY <3>3, <3>4, <3>5, <3>6 DEF Blamed
  <2> QED
    BY <2>2, <2>3, <2>4, <2>5, <2>6, <2>7
<1>9. ASSUME Exchange!WriteRequest PROVE ExchangeInv'
  <2>1. Phases'
    BY <1>9 DEF Exchange!WriteRequest
  <2>2. Delivered'
    BY <1>9 DEF Exchange!WriteRequest
  <2>3. Decoded'
    BY <1>9 DEF Exchange!WriteRequest
  <2>4. Blamed'
    BY <1>9 DEF Exchange!WriteRequest
  <2>5. Results'
    BY <1>9 DEF Exchange!WriteRequest
  <2>6. Flags'
    BY <1>9 DEF Exchange!WriteRequest
  <2> QED
    BY <2>1, <2>2, <2>3, <2>4, <2>5, <2>6
<1>10. ASSUME Exchange!DecodeResponse PROVE ExchangeInv'
  <2>1. Phases'
    BY <1>10 DEF Exchange!DecodeResponse
  <2>2. Delivered'
    BY <1>10 DEF Exchange!DecodeResponse
  <2>3. Decoded'
    BY <1>10 DEF Exchange!DecodeResponse
  <2>4. Blamed'
    BY <1>10 DEF Exchange!DecodeResponse
  <2>5. Results'
    BY <1>10 DEF Exchange!DecodeResponse
  <2>6. Flags'
    BY <1>10 DEF Exchange!DecodeResponse
  <2> QED
    BY <2>1, <2>2, <2>3, <2>4, <2>5, <2>6
<1>11. ASSUME Exchange!CloseStdin PROVE ExchangeInv'
  <2>1. Phases'
    BY <1>11 DEF Exchange!CloseStdin
  <2>2. Delivered'
    BY <1>11 DEF Exchange!CloseStdin
  <2>3. Decoded'
    BY <1>11 DEF Exchange!CloseStdin
  <2>4. Blamed'
    BY <1>11 DEF Exchange!CloseStdin
  <2>5. Results'
    BY <1>11 DEF Exchange!CloseStdin
  <2>6. Flags'
    BY <1>11 DEF Exchange!CloseStdin
  <2> QED
    BY <2>1, <2>2, <2>3, <2>4, <2>5, <2>6
<1>12. ASSUME Exchange!StopSSH PROVE ExchangeInv'
  <2>1. Phases'
    BY <1>12 DEF Exchange!StopSSH, Exchange!Kill
  <2>2. Delivered'
    BY <1>12 DEF Exchange!StopSSH, Exchange!Kill
  <2>3. Decoded'
    BY <1>12 DEF Exchange!StopSSH, Exchange!Kill
  <2>4. Blamed'
    BY <1>12 DEF Exchange!StopSSH, Exchange!Kill
  <2>5. Results'
    BY <1>12 DEF Exchange!StopSSH, Exchange!Kill
  <2>6. Flags'
    BY <1>12 DEF Exchange!StopSSH, Exchange!Kill
  <2> QED
    BY <2>1, <2>2, <2>3, <2>4, <2>5, <2>6
<1>13. ASSUME Exchange!ConfirmNoTrailingData PROVE ExchangeInv'
  <2>1. Phases'
    BY <1>13 DEF Exchange!ConfirmNoTrailingData, Exchange!Kill
  <2>2. Delivered'
    BY <1>13 DEF Exchange!ConfirmNoTrailingData, Exchange!Kill
  <2>3. Decoded'
    BY <1>13 DEF Exchange!ConfirmNoTrailingData, Exchange!Kill
  <2>4. Blamed'
    BY <1>13 DEF Exchange!ConfirmNoTrailingData, Exchange!Kill
  <2>5. Results'
    BY <1>13 DEF Exchange!ConfirmNoTrailingData, Exchange!Kill
  <2>6. Flags'
    BY <1>13 DEF Exchange!ConfirmNoTrailingData, Exchange!Kill
  <2> QED
    BY <2>1, <2>2, <2>3, <2>4, <2>5, <2>6
<1>14. ASSUME Exchange!GraceEnds PROVE ExchangeInv'
  <2>1. Phases'
    BY <1>14 DEF Exchange!GraceEnds, Exchange!Kill
  <2>2. Delivered'
    BY <1>14 DEF Exchange!GraceEnds, Exchange!Kill
  <2>3. Decoded'
    BY <1>14 DEF Exchange!GraceEnds, Exchange!Kill
  <2>4. Blamed'
    BY <1>14 DEF Exchange!GraceEnds, Exchange!Kill
  <2>5. Results'
    BY <1>14 DEF Exchange!GraceEnds, Exchange!Kill
  <2>6. Flags'
    BY <1>14 DEF Exchange!GraceEnds, Exchange!Kill
  <2> QED
    BY <2>1, <2>2, <2>3, <2>4, <2>5, <2>6
<1>15. ASSUME Exchange!Wait PROVE ExchangeInv'
  <2>1. Phases'
    BY <1>15 DEF Exchange!Wait, Exchange!TransportError, Exchange!opEnded, Exchange!ctxEnded
  <2>2. Delivered'
    BY <1>15 DEF Exchange!Wait, Exchange!TransportError, Exchange!opEnded, Exchange!ctxEnded
  <2>3. Decoded'
    BY <1>15 DEF Exchange!Wait, Exchange!TransportError, Exchange!opEnded, Exchange!ctxEnded
  <2>4. Blamed'
    BY <1>15 DEF Exchange!Wait, Exchange!TransportError, Exchange!opEnded, Exchange!ctxEnded
  <2>5. Results'
    BY <1>15 DEF Exchange!Wait, Exchange!TransportError, Exchange!opEnded, Exchange!ctxEnded
  <2>6. Flags'
    BY <1>15 DEF Exchange!Wait, Exchange!TransportError, Exchange!opEnded, Exchange!ctxEnded
  <2> QED
    BY <2>1, <2>2, <2>3, <2>4, <2>5, <2>6
<1>16. ASSUME Exchange!LocalEnds PROVE ExchangeInv'
  <2>1. Phases'
    BY <1>16 DEF Exchange!LocalEnds, Exchange!ctxEnded
  <2>2. Delivered'
    BY <1>16 DEF Exchange!LocalEnds, Exchange!ctxEnded
  <2>3. Decoded'
    BY <1>16 DEF Exchange!LocalEnds, Exchange!ctxEnded
  <2>4. Blamed'
    BY <1>16 DEF Exchange!LocalEnds, Exchange!ctxEnded
  <2>5. Results'
    BY <1>16 DEF Exchange!LocalEnds, Exchange!ctxEnded
  <2>6. Flags'
    BY <1>16 DEF Exchange!LocalEnds, Exchange!ctxEnded
  <2> QED
    BY <2>1, <2>2, <2>3, <2>4, <2>5, <2>6
<1>17. ASSUME Exchange!Report PROVE ExchangeInv'
  <2>1. Phases'
    BY <1>17 DEF Exchange!Report
  <2>2. Delivered'
    BY <1>17 DEF Exchange!Report
  <2>3. Decoded'
    BY <1>17 DEF Exchange!Report
  <2>4. Blamed'
    BY <1>17 DEF Exchange!Report
  <2>5. Results'
    BY <1>17 DEF Exchange!Report
  <2>6. Flags'
    BY <1>17 DEF Exchange!Report
  <2> QED
    BY <2>1, <2>2, <2>3, <2>4, <2>5, <2>6
<1>18. ASSUME Exchange!Reported \/ UNCHANGED exchangeVars PROVE ExchangeInv'
  <2>1. UNCHANGED exchangeVars
    BY <1>18 DEF Exchange!Reported, Exchange!remoteVars, exchangeVars
  <2>2. Phases'
    BY <2>1, Zenon DEF exchangeVars, Phases
  <2>5. Results' /\ Flags'
    BY <2>1, Zenon DEF exchangeVars, Results, Flags
  <2>3. Delivered'
    BY <2>1 DEF exchangeVars, Delivered
  <2>6. Decoded'
    BY <2>1 DEF exchangeVars, Decoded, Exchange!Answers
  <2>4. Blamed'
    BY <2>1 DEF exchangeVars, Blamed, Exchange!BlameIsTrue
  <2> QED
    BY <2>2, <2>3, <2>4, <2>5, <2>6
<1> QED
  BY <1>1, <1>2, <1>3, <1>4, <1>5, <1>6, <1>7, <1>8, <1>9,
     <1>10, <1>11, <1>12, <1>13, <1>14, <1>15, <1>16, <1>17, <1>18
     DEF Exchange!Next, Exchange!RunStep

-----------------------------------------------------------------------------
\* A tool of the UI.

LEMMA MessageFacts ==
  /\ Line \in Messages /\ Line.done = FALSE /\ NoTerminal \in Messages /\ NoTerminal.done = FALSE
  /\ \A status, lost :
       /\ Terminal(status, lost).done = TRUE /\ Terminal(status, lost).status = status
       /\ Terminal(status, lost).dropped = lost
  /\ \A status \in {"done", "failed", "canceled", "timed out"}, lost \in 0..(2 * MaxLines) :
       Terminal(status, lost) \in Messages
  BY DEF Line, NoTerminal, Terminal, Messages

LEMMA ToolFacts ==
  ASSUME ToolInv
  PROVE  /\ channel \in Seq(Messages) /\ Len(channel) \in Nat
         /\ pipe["stdout"] \in 0..MaxLines /\ pipe["stderr"] \in 0..MaxLines
         /\ written["stdout"] \in 0..MaxLines /\ written["stderr"] \in 0..MaxLines
         /\ dropped \in Nat /\ shown \in Nat /\ MaxLines \in Nat
         /\ Written \in Nat /\ Unread \in Nat /\ dropped <= 2 * MaxLines
<1>1. /\ channel \in Seq(Messages) /\ Len(channel) \in Nat
      /\ pipe["stdout"] \in 0..MaxLines /\ pipe["stderr"] \in 0..MaxLines
      /\ written["stdout"] \in 0..MaxLines /\ written["stderr"] \in 0..MaxLines
      /\ dropped \in Nat /\ shown \in Nat /\ MaxLines \in Nat
  <2>1. channel \in Seq(Messages) /\ dropped \in Nat /\ shown \in Nat
    BY DEF ToolInv, ToolTyped
  <2>2. pipe \in [Pipe -> 0..MaxLines] /\ written \in [Pipe -> 0..MaxLines]
    BY DEF ToolInv, ToolTyped
  <2>3. "stdout" \in Pipe /\ "stderr" \in Pipe
    BY DEF Pipe
  <2>4. Len(channel) \in Nat
    BY <2>1
  <2> QED
    BY <2>1, <2>2, <2>3, <2>4, BoundAssumption
<1>2. Unread + dropped <= Written
  BY DEF ToolInv, Accounts
<1>3. Written \in Nat /\ Unread \in Nat /\ Written <= 2 * MaxLines
  BY <1>1 DEF Written, Unread
<1>4. dropped <= 2 * MaxLines
  BY <1>1, <1>2, <1>3
<1> QED
  BY <1>1, <1>3, <1>4

LEMMA ToolBegins == Init => ToolInv
<1> SUFFICES ASSUME Init PROVE ToolInv
  OBVIOUS
<1>0. MaxLines \in Nat /\ ChanBuf \in Nat /\ 0 \in 0..MaxLines /\ Len(channel) = 0 /\ channel = <<>>
  BY BoundAssumption DEF Init
<1>1. ToolTyped
  <2>1. terminal \in Messages
    BY MessageFacts DEF Init
  <2>2. channel \in Seq(Messages) /\ Len(channel) <= ChanBuf
    BY <1>0
  <2>3. pipe \in [Pipe -> 0..MaxLines] /\ written \in [Pipe -> 0..MaxLines]
    BY <1>0 DEF Init
  <2> QED
    BY <2>1, <2>2, <2>3 DEF Init, ToolTyped
<1>2. Drains
  BY DEF Init, Drains, Sending
<1>3. Queue
  <2>1. ~terminal.done /\ job # "gone"
    BY MessageFacts DEF Init
  <2> QED
    BY <1>0, <2>1 DEF Queue
<1>4. Accounts
  BY <1>0 DEF Init, Accounts, Underway, Written, Unread, Pipe
<1> QED
  BY <1>1, <1>2, <1>3, <1>4 DEF ToolInv

\* The channel is a queue of one end.
LEMMA Appended ==
  ASSUME ToolInv, NEW m \in Messages, channel' = Append(channel, m)
  PROVE  /\ channel' \in Seq(Messages) /\ Len(channel') = Len(channel) + 1
         /\ \A i \in 1..Len(channel) : channel'[i] = channel[i]
         /\ channel'[Len(channel) + 1] = m
         /\ channel' # <<>>
<1>1. channel \in Seq(Messages)
  BY DEF ToolInv, ToolTyped
<1> QED
  BY <1>1

LEMMA Taken ==
  ASSUME ToolInv, Take
  PROVE  /\ channel' \in Seq(Messages) /\ Len(channel) > 0 /\ Len(channel') = Len(channel) - 1
         /\ \A i \in 1..Len(channel') : channel'[i] = channel[i + 1]
         /\ First \in Messages /\ First = channel[1]
         /\ ~terminal.done /\ First.done = (job = "gone" /\ Len(channel) = 1)
         /\ terminal' = IF First.done THEN First ELSE terminal
         /\ Len(channel') = 0 => channel' = <<>>
         /\ Len(channel') # 0 => channel' # <<>>
<1>1. channel \in Seq(Messages) /\ channel # <<>> /\ channel' = Tail(channel) /\ Len(channel) \in Nat
  BY ToolFacts DEF Take
<1>2. Len(channel) > 0 /\ 1 \in 1..Len(channel)
  BY <1>1
<1>3. First = channel[1] /\ First \in Messages
  BY <1>1, <1>2 DEF First
<1>4. /\ channel' \in Seq(Messages) /\ Len(channel') = Len(channel) - 1
      /\ \A i \in 1..Len(channel') : channel'[i] = channel[i + 1]
  BY <1>1, <1>2
<1>5. First.done = (job = "gone" /\ 1 = Len(channel))
  BY <1>2, <1>3 DEF ToolInv, Queue
<1>6. ~terminal.done
  BY <1>1 DEF ToolInv, Queue
<1>7. terminal' = IF First.done THEN First ELSE terminal
  BY DEF Take
<1>8. (Len(channel') = 0 => channel' = <<>>) /\ (Len(channel') # 0 => channel' # <<>>)
  BY <1>4
<1> QED
  BY <1>2, <1>3, <1>4, <1>5, <1>6, <1>7, <1>8

\* A receive keeps the terminal event last.
LEMMA TakeKeepsQueue ==
  ASSUME ToolInv, Take, UNCHANGED <<job, dropped, proc>>
  PROVE  Queue'
<1>0. Len(channel) \in Nat /\ Queue
  BY ToolFacts DEF ToolInv
<1>1. \A i \in 1..Len(channel') : channel'[i].done = (job' = "gone" /\ i = Len(channel'))
  <2> SUFFICES ASSUME NEW i \in 1..Len(channel')
               PROVE  channel'[i].done = (job = "gone" /\ i = Len(channel'))
    OBVIOUS
  <2>1. i + 1 \in 1..Len(channel) /\ channel'[i] = channel[i + 1] /\ Len(channel') = Len(channel) - 1
    BY <1>0, Taken
  <2>2. channel[i + 1].done = (job = "gone" /\ i + 1 = Len(channel))
    BY <1>0, <2>1 DEF Queue
  <2>3. i + 1 = Len(channel) <=> i = Len(channel')
    BY <1>0, <2>1
  <2> QED
    BY <2>1, <2>2, <2>3
<1>2. CASE First.done
  <2>1. job = "gone" /\ Len(channel) = 1 /\ terminal' = channel[1] /\ terminal'.done
    BY <1>2, Taken
  <2>2. channel' = <<>>
    BY <1>0, <2>1, Taken
  <2>3. channel # <<>> /\ ~terminal.done
    BY Taken DEF Take
  <2>4. Told(channel[Len(channel)])
    BY <1>0, <2>1, <2>3 DEF Queue
  <2>5. Told(terminal')
    BY <2>1, <2>4
  <2>6. Told(terminal)'
    BY <2>5 DEF Told
  <2> QED
    BY <1>1, <2>1, <2>2, <2>6 DEF Queue
<1>3. CASE ~First.done
  <2>1. terminal' = terminal /\ ~terminal'.done
    BY <1>3, Taken
  <2>2. ASSUME job = "gone"
        PROVE  channel' # <<>> /\ Told(channel[Len(channel)])'
    <3>0. Len(channel) > 0 /\ Len(channel') = Len(channel) - 1 /\ Len(channel) # 1
      BY <1>3, <2>2, Taken
    <3>1. Len(channel) > 1 /\ Len(channel') = Len(channel) - 1
      BY <1>0, <3>0
    <3>2. channel' # <<>> /\ channel'[Len(channel')] = channel[Len(channel)]
      BY <1>0, <3>1, Taken
    <3>3. Told(channel[Len(channel)])
      BY <1>0, <2>2, <2>1, Taken DEF Queue, Take
    <3> QED
      BY <3>2, <3>3 DEF Told
  <2> QED
    BY <1>1, <2>1, <2>2 DEF Queue
<1> QED
  BY <1>2, <1>3

\* The steps that leave the messages alone.
LEMMA QueueStays ==
  ASSUME ToolInv, UNCHANGED <<channel, terminal>>,
         (job = "gone") <=> (job' = "gone"),
         job = "gone" => dropped' = dropped /\ (proc' = "zero" <=> proc = "zero")
  PROVE  Queue'
<1>1. \A i \in 1..Len(channel') : channel'[i].done = (job' = "gone" /\ i = Len(channel'))
  BY DEF ToolInv, Queue
<1>2. \A m : job = "gone" /\ Told(m) => m.dropped = dropped' /\ (m.status = "done" <=> proc' = "zero")
  BY DEF Told
<1>3. job' = "gone" /\ ~terminal'.done => channel' # <<>> /\ Told(channel[Len(channel)])'
  <2>1. job = "gone" /\ ~terminal.done => channel # <<>> /\ Told(channel[Len(channel)])
    BY DEF ToolInv, Queue
  <2> QED
    BY <1>2, <2>1 DEF Told
<1>4. terminal'.done => job' = "gone" /\ channel' = <<>> /\ Told(terminal)'
  <2>1. terminal.done => job = "gone" /\ channel = <<>> /\ Told(terminal)
    BY DEF ToolInv, Queue
  <2> QED
    BY <1>2, <2>1 DEF Told
<1> QED
  BY <1>1, <1>3, <1>4 DEF Queue

\* What a pipe and its writer or reader do to the accounts.
LEMMA Typed ==
  ASSUME ToolInv
  PROVE  /\ pipe \in [Pipe -> 0..MaxLines] /\ written \in [Pipe -> 0..MaxLines]
         /\ reader \in [Pipe -> {"reading", "done"}]
         /\ "stdout" \in Pipe /\ "stderr" \in Pipe /\ \A p \in Pipe : p \in {"stdout", "stderr"}
  BY DEF ToolInv, ToolTyped, Pipe

\* Every step of the tool, its readers, its job and its receivers.
LEMMA ToolSteps == ASSUME ToolInv, Next \/ UNCHANGED vars PROVE ToolInv'
<1>1. ASSUME NEW p \in Pipe, Write(p) PROVE ToolInv'
  <2>0. /\ pipe[p] \in 0..MaxLines /\ written[p] \in 0..MaxLines /\ written[p] < MaxLines
        /\ pipe[p] < MaxLines
    <3>1. written[p] < MaxLines
      BY <1>1 DEF Write
    <3>2. pipe[p] <= written[p]
      BY DEF ToolInv, Accounts
    <3> QED
      BY <3>1, <3>2, ToolFacts, Typed
  <2>1. ToolTyped'
    <3>1. pipe[p] + 1 \in 0..MaxLines /\ written[p] + 1 \in 0..MaxLines
      <4>1. pipe[p] \in Nat /\ written[p] \in Nat /\ MaxLines \in Nat
        BY <2>0, ToolFacts
      <4> QED
        BY <2>0, <4>1
    <3>2. pipe' \in [Pipe -> 0..MaxLines] /\ written' \in [Pipe -> 0..MaxLines]
      BY <1>1, <3>1, Typed DEF Write
    <3> QED
      BY <1>1, <3>2 DEF Write, ToolInv, ToolTyped
  <2>2. Drains'
    BY <1>1, Typed DEF Write, ToolInv, Drains, ToolTyped, Sending
  <2>3. Queue'
    BY <1>1, QueueStays DEF Write, ToolInv, Drains
  <2>4. Accounts'
    <3>1. Unread' = Unread + 1 /\ Written' = Written + 1
      <4>1. CASE p = "stdout"
        <5>1. pipe'["stdout"] = pipe["stdout"] + 1 /\ pipe'["stderr"] = pipe["stderr"]
          BY <1>1, <4>1, Typed DEF Write
        <5>2. written'["stdout"] = written["stdout"] + 1 /\ written'["stderr"] = written["stderr"]
          BY <1>1, <4>1, Typed DEF Write
        <5>3. /\ pipe["stdout"] \in Nat /\ pipe["stderr"] \in Nat
              /\ written["stdout"] \in Nat /\ written["stderr"] \in Nat
          BY ToolFacts
        <5>4. Unread' = Unread + 1
          BY <5>1, <5>3 DEF Unread
        <5>5. Written' = Written + 1
          BY <5>2, <5>3 DEF Written
        <5> QED
          BY <5>4, <5>5
      <4>2. CASE p = "stderr"
        <5>1. pipe'["stdout"] = pipe["stdout"] /\ pipe'["stderr"] = pipe["stderr"] + 1
          BY <1>1, <4>2, Typed DEF Write
        <5>2. written'["stdout"] = written["stdout"] /\ written'["stderr"] = written["stderr"] + 1
          BY <1>1, <4>2, Typed DEF Write
        <5>3. /\ pipe["stdout"] \in Nat /\ pipe["stderr"] \in Nat
              /\ written["stdout"] \in Nat /\ written["stderr"] \in Nat
          BY ToolFacts
        <5>4. Unread' = Unread + 1
          BY <5>1, <5>3 DEF Unread
        <5>5. Written' = Written + 1
          BY <5>2, <5>3 DEF Written
        <5> QED
          BY <5>4, <5>5
      <4> QED
        BY <4>1, <4>2 DEF Pipe
    <3>2. Underway' = Underway /\ Underway \in Int /\ UNCHANGED <<dropped, shown, cleanup>>
      BY <1>1, ToolFacts DEF Write, Underway
    <3>3. ASSUME NEW q \in Pipe PROVE pipe'[q] <= written'[q]
      <4>1. /\ pipe[q] <= written[q] /\ pipe[q] \in Nat /\ written[q] \in Nat
        BY Typed DEF ToolInv, Accounts
      <4>2. /\ pipe'[q] = (IF q = p THEN pipe[q] + 1 ELSE pipe[q])
            /\ written'[q] = (IF q = p THEN written[q] + 1 ELSE written[q])
        BY <1>1, Typed DEF Write
      <4> QED
        BY <4>1, <4>2
    <3>4. Unread \in Nat /\ Written \in Nat /\ dropped \in Nat /\ shown \in Nat
      BY ToolFacts
    <3>5. Unread + dropped <= Written
      BY DEF ToolInv, Accounts
    <3>6. Unread' + dropped' <= Written'
      BY <3>1, <3>2, <3>4, <3>5
    <3>7. ASSUME cleanup' = "no" PROVE Written' = Unread' + dropped' + shown' + Underway'
      <4>1. Written = Unread + dropped + shown + Underway
        BY <3>2, <3>7 DEF ToolInv, Accounts
      <4> QED
        BY <3>1, <3>2, <3>4, <4>1
    <3> QED
      BY <3>3, <3>6, <3>7 DEF Accounts
  <2> QED
    BY <2>1, <2>2, <2>3, <2>4 DEF ToolInv
<1>2. ASSUME NEW why \in {"canceled", "deadline"}, EndContext(why) PROVE ToolInv'
  <2>1. ToolTyped'
    BY <1>2, Typed DEF EndContext, ToolInv, ToolTyped
  <2>2. Drains'
    BY <1>2, Typed DEF EndContext, ToolInv, Drains, ToolTyped, Sending
  <2>3. Queue'
    BY <1>2, QueueStays DEF EndContext, ToolInv, Drains
  <2>4. Accounts'
    BY <1>2, ToolFacts DEF EndContext, ToolInv, Accounts, Underway, Written, Unread
  <2> QED
    BY <2>1, <2>2, <2>3, <2>4 DEF ToolInv
<1>3. ASSUME ProcessEnds PROVE ToolInv'
  <2>1. ToolTyped'
    BY <1>3, Typed DEF ProcessEnds, ToolInv, ToolTyped
  <2>2. Drains'
    BY <1>3, Typed DEF ProcessEnds, ToolInv, Drains, ToolTyped, Sending
  <2>3. Queue'
    <3>1. job = "draining"
      BY <1>3, Typed DEF ProcessEnds, ToolInv, Drains
    <3> QED
      BY <1>3, <3>1, QueueStays DEF ProcessEnds
  <2>4. Accounts'
    BY <1>3, ToolFacts DEF ProcessEnds, ToolInv, Accounts, Underway, Written, Unread
  <2> QED
    BY <2>1, <2>2, <2>3, <2>4 DEF ToolInv
<1>4. ASSUME NEW p \in Pipe, StreamLine(p) PROVE ToolInv'
  <2>b. \/ channel' = Append(channel, Line) /\ Len(channel) < ChanBuf /\ UNCHANGED dropped
        \/ dropped' = dropped + 1 /\ UNCHANGED channel
    BY <1>4 DEF StreamLine
  <2>0. job = "draining" /\ pipe[p] - 1 \in 0..MaxLines
    <3>1. reader[p] = "reading" /\ pipe[p] > 0
      BY <1>4 DEF StreamLine
    <3>2. job = "draining"
      BY <3>1 DEF ToolInv, Drains
    <3> QED
      BY <3>1, <3>2, Typed, BoundAssumption
  <2>1. ToolTyped'
    <3>1. pipe' \in [Pipe -> 0..MaxLines]
      BY <1>4, <2>0, Typed DEF StreamLine
    <3>2. channel' \in Seq(Messages) /\ Len(channel') <= ChanBuf /\ dropped' \in Nat
      <4>1. CASE channel' = Append(channel, Line) /\ Len(channel) < ChanBuf /\ UNCHANGED dropped
        <5>1. channel' \in Seq(Messages) /\ Len(channel') = Len(channel) + 1
          BY <4>1, Appended, MessageFacts
        <5>2. Len(channel) \in Nat /\ ChanBuf \in Nat /\ dropped \in Nat
          BY ToolFacts, BoundAssumption
        <5> QED
          BY <4>1, <5>1, <5>2
      <4>2. CASE dropped' = dropped + 1 /\ UNCHANGED channel
        <5>1. channel \in Seq(Messages) /\ Len(channel) <= ChanBuf /\ dropped \in Nat
          BY DEF ToolInv, ToolTyped
        <5> QED
          BY <4>2, <5>1
      <4> QED
        BY <2>b, <4>1, <4>2
    <3> QED
      BY <1>4, <3>1, <3>2 DEF StreamLine, ToolInv, ToolTyped
  <2>2. Drains'
    <3>1. \A q \in Pipe : q # p => pipe'[q] = pipe[q]
      BY <1>4, Typed DEF StreamLine
    <3>2. \A q \in Pipe : reader'[q] = "done" => q # p
      BY <1>4 DEF StreamLine
    <3> QED
      BY <1>4, <2>0, <3>1, <3>2 DEF StreamLine, ToolInv, Drains, Sending
  <2>3. Queue'
    <3>1. ~terminal.done /\ ~terminal'.done /\ job' = "draining"
      BY <1>4, <2>0 DEF StreamLine, ToolInv, Queue
    <3>2. \A i \in 1..Len(channel') : channel'[i].done = FALSE
      <4>1. \A i \in 1..Len(channel) : channel[i].done = FALSE
        BY <2>0 DEF ToolInv, Queue
      <4>2. CASE channel' = Append(channel, Line) /\ Len(channel) < ChanBuf /\ UNCHANGED dropped
        <5>1. /\ Len(channel') = Len(channel) + 1 /\ channel'[Len(channel) + 1].done = FALSE
              /\ \A i \in 1..Len(channel) : channel'[i] = channel[i]
          BY <4>2, Appended, MessageFacts
        <5>2. \A i \in 1..Len(channel') : i \in 1..Len(channel) \/ i = Len(channel) + 1
          BY <5>1, ToolFacts
        <5> QED
          BY <4>1, <5>1, <5>2
      <4>3. CASE dropped' = dropped + 1 /\ UNCHANGED channel
        BY <4>1, <4>3
      <4> QED
        BY <2>b, <4>2, <4>3
    <3> QED
      BY <3>1, <3>2 DEF Queue
  <2>4. Accounts'
    <3>1. Unread' = Unread - 1 /\ Written' = Written
      <4>1. CASE p = "stdout"
        <5>1. pipe'["stdout"] = pipe["stdout"] - 1 /\ pipe'["stderr"] = pipe["stderr"]
          BY <1>4, <4>1, Typed DEF StreamLine
        <5>2. pipe["stdout"] \in Nat /\ pipe["stderr"] \in Nat /\ written' = written
          BY <1>4, ToolFacts DEF StreamLine
        <5> QED
          BY <5>1, <5>2 DEF Unread, Written
      <4>2. CASE p = "stderr"
        <5>1. pipe'["stdout"] = pipe["stdout"] /\ pipe'["stderr"] = pipe["stderr"] - 1
          BY <1>4, <4>2, Typed DEF StreamLine
        <5>2. pipe["stdout"] \in Nat /\ pipe["stderr"] \in Nat /\ written' = written
          BY <1>4, ToolFacts DEF StreamLine
        <5> QED
          BY <5>1, <5>2 DEF Unread, Written
      <4> QED
        BY <4>1, <4>2 DEF Pipe
    <3>2. /\ Underway = Len(channel) /\ Underway' = Len(channel')
          /\ UNCHANGED <<written, shown, cleanup>>
      BY <1>4, <2>0 DEF StreamLine, Underway
    <3>3. Len(channel') + dropped' = Len(channel) + dropped + 1
      <4>1. CASE channel' = Append(channel, Line) /\ Len(channel) < ChanBuf /\ UNCHANGED dropped
        <5>1. channel' \in Seq(Messages) /\ Len(channel') = Len(channel) + 1
          BY <4>1, Appended, MessageFacts
        <5>2. Len(channel) \in Nat /\ ChanBuf \in Nat /\ dropped \in Nat
          BY ToolFacts, BoundAssumption
        <5> QED
          BY <4>1, <5>1, <5>2
      <4>2. CASE dropped' = dropped + 1 /\ UNCHANGED channel
        BY <4>2, ToolFacts
      <4> QED
        BY <2>b, <4>1, <4>2
    <3>4. dropped' \in Nat /\ dropped' <= dropped + 1 /\ Len(channel') \in Nat
      <4>1. CASE channel' = Append(channel, Line) /\ Len(channel) < ChanBuf /\ UNCHANGED dropped
        <5>1. channel' \in Seq(Messages) /\ Len(channel') = Len(channel) + 1
          BY <4>1, Appended, MessageFacts
        <5>2. Len(channel) \in Nat /\ ChanBuf \in Nat /\ dropped \in Nat
          BY ToolFacts, BoundAssumption
        <5> QED
          BY <4>1, <5>1, <5>2
      <4>2. CASE dropped' = dropped + 1 /\ UNCHANGED channel
        BY <4>2, ToolFacts
      <4> QED
        BY <2>b, <4>1, <4>2
    <3>5. ASSUME NEW q \in Pipe PROVE pipe'[q] <= written'[q]
      <4>1. /\ pipe[q] <= written[q] /\ pipe[q] \in Nat /\ written[q] \in Nat
        BY Typed DEF ToolInv, Accounts
      <4>2. pipe'[q] = (IF q = p THEN pipe[q] - 1 ELSE pipe[q])
        BY <1>4, Typed DEF StreamLine
      <4> QED
        BY <3>2, <4>1, <4>2
    <3>6. Unread + dropped <= Written
      BY DEF ToolInv, Accounts
    <3>7. cleanup = "no" => Written = Unread + dropped + shown + Len(channel)
      BY <3>2 DEF ToolInv, Accounts
    <3>8. Unread' + dropped' <= Written'
      BY <3>1, <3>4, <3>6, ToolFacts
    <3>9. ASSUME cleanup' = "no" PROVE Written' = Unread' + dropped' + shown' + Len(channel')
      <4>1. Written = Unread + dropped + shown + Underway /\ shown' = shown
        BY <3>2, <3>7, <3>9
      <4>2. /\ Unread \in Nat /\ Written \in Nat /\ dropped \in Nat /\ shown \in Nat
            /\ Underway \in Nat /\ Underway' \in Nat /\ dropped' \in Nat
        BY <3>2, <3>4, ToolFacts
      <4>3. Underway' + dropped' = Underway + dropped + 1
        BY <3>2, <3>3
      <4>4. PICK w \in Int, u \in Int, u2 \in Int, d \in Int, d2 \in Int, s \in Int, n \in Int, n2 \in Int :
              /\ w = Written /\ u = Unread /\ d = dropped /\ s = shown /\ n = Underway
              /\ u2 = Unread - 1 /\ d2 = dropped' /\ n2 = Underway'
        BY <4>2
      <4>5. w = u + d + s + n /\ n2 + d2 = n + d + 1 /\ u2 = u - 1
        BY <4>1, <4>3, <4>4
      <4>6. w = u2 + d2 + s + n2
        BY <4>5
      <4>7. Written' = Unread' + dropped' + shown' + Underway'
        BY <3>1, <4>1, <4>4, <4>6
      <4> QED
        BY <3>2, <4>7
    <3> QED
      BY <3>2, <3>5, <3>8, <3>9 DEF Accounts
  <2> QED
    BY <2>1, <2>2, <2>3, <2>4 DEF ToolInv
<1>5. ASSUME NEW p \in Pipe, StreamEnds(p) PROVE ToolInv'
  <2>1. ToolTyped'
    BY <1>5, Typed DEF StreamEnds, ToolInv, ToolTyped
  <2>2. Drains'
    BY <1>5, Typed DEF StreamEnds, ToolInv, Drains, ToolTyped, Sending
  <2>3. Queue'
    BY <1>5, QueueStays DEF StreamEnds, ToolInv, Drains
  <2>4. Accounts'
    BY <1>5, ToolFacts DEF StreamEnds, ToolInv, Accounts, Underway, Written, Unread
  <2> QED
    BY <2>1, <2>2, <2>3, <2>4 DEF ToolInv
<1>6. ASSUME Drained PROVE ToolInv'
  <2>1. ToolTyped'
    BY <1>6, Typed DEF Drained, ToolInv, ToolTyped
  <2>2. Drains'
    BY <1>6, Typed DEF Drained, ToolInv, Drains, ToolTyped, Sending
  <2>3. Queue'
    BY <1>6, QueueStays DEF Drained, ToolInv, Drains
  <2>4. Accounts'
    BY <1>6, ToolFacts DEF Drained, ToolInv, Accounts, Underway, Written, Unread
  <2> QED
    BY <2>1, <2>2, <2>3, <2>4 DEF ToolInv
<1>7. ASSUME Classified PROVE ToolInv'
  <2>0. /\ job = "waiting" /\ job' \in {"done", "failed", "canceled", "timed out"}
        /\ job' = "done" <=> proc = "zero"
    <3>1. job = "waiting" /\ job' = Classify
      BY <1>7 DEF Classified
    <3>2. CASE proc = "zero"
      BY <3>1, <3>2 DEF Classify
    <3>3. CASE proc # "zero" /\ cause = "canceled"
      BY <3>1, <3>3 DEF Classify
    <3>4. CASE proc # "zero" /\ cause = "deadline"
      BY <3>1, <3>4 DEF Classify
    <3>5. CASE proc # "zero" /\ cause \notin {"canceled", "deadline"}
      BY <3>1, <3>5 DEF Classify
    <3> QED
      BY <3>1, <3>2, <3>3, <3>4, <3>5
  <2>1. ToolTyped'
    BY <1>7, <2>0 DEF Classified, ToolInv, ToolTyped
  <2>2. Drains'
    BY <1>7, <2>0 DEF Classified, ToolInv, Drains, Sending
  <2>3. Queue'
    BY <1>7, <2>0, QueueStays DEF Classified
  <2>4. Accounts'
    <3>1. Underway' = Underway
      BY <1>7, <2>0 DEF Classified, Underway
    <3> QED
      BY <1>7, <3>1 DEF Classified, ToolInv, Accounts, Written, Unread
  <2> QED
    BY <2>1, <2>2, <2>3, <2>4 DEF ToolInv
<1>8. ASSUME Send PROVE ToolInv'
  <2>0. /\ job \in {"done", "failed", "canceled", "timed out"} /\ job' = "gone"
        /\ Len(channel) < ChanBuf /\ channel' = Append(channel, Terminal(job, dropped))
        /\ Terminal(job, dropped) \in Messages
        /\ ~terminal.done /\ terminal' = terminal
    <3>1. /\ job \in {"done", "failed", "canceled", "timed out"} /\ job' = "gone"
          /\ Len(channel) < ChanBuf /\ channel' = Append(channel, Terminal(job, dropped))
          /\ terminal' = terminal
      BY <1>8 DEF Send, Sending
    <3>2. dropped \in 0..(2 * MaxLines)
      BY ToolFacts
    <3>3. ~terminal.done
      BY <3>1 DEF ToolInv, Queue
    <3> QED
      BY <3>1, <3>2, <3>3, MessageFacts
  <2>1. ToolTyped'
    <3>1. channel' \in Seq(Messages) /\ Len(channel') <= ChanBuf
      <4>1. channel' \in Seq(Messages) /\ Len(channel') = Len(channel) + 1
        BY <2>0, Appended
      <4>2. Len(channel) \in Nat /\ ChanBuf \in Nat
        BY ToolFacts, BoundAssumption
      <4>3. Len(channel) < ChanBuf
        BY <2>0
      <4> QED
        BY <4>1, <4>2, <4>3
    <3> QED
      BY <1>8, <3>1 DEF Send, ToolInv, ToolTyped
  <2>2. Drains'
    BY <1>8, Typed DEF Send, ToolInv, Drains, ToolTyped, Sending
  <2>3. Queue'
    <3>1. /\ Len(channel') = Len(channel) + 1 /\ channel'[Len(channel) + 1] = Terminal(job, dropped)
          /\ \A i \in 1..Len(channel) : channel'[i] = channel[i]
          /\ channel' # <<>>
      BY <2>0, Appended
    <3>2. \A i \in 1..Len(channel) : channel[i].done = FALSE
      BY <2>0 DEF ToolInv, Queue
    <3>3. \A i \in 1..Len(channel') : i \in 1..Len(channel) \/ i = Len(channel')
      BY <3>1, ToolFacts
    <3>4. \A i \in 1..Len(channel) : i # Len(channel')
      BY <3>1, ToolFacts
    <3>5. \A i \in 1..Len(channel') : channel'[i].done = (job' = "gone" /\ i = Len(channel'))
      <4> SUFFICES ASSUME NEW i \in 1..Len(channel')
                   PROVE  channel'[i].done = (i = Len(channel'))
        BY <2>0
      <4>1. CASE i \in 1..Len(channel)
        BY <3>1, <3>2, <3>4, <4>1
      <4>2. CASE i = Len(channel')
        <5>1. channel'[i] = Terminal(job, dropped)
          BY <3>1, <4>2
        <5>2. Terminal(job, dropped).done = TRUE
          BY MessageFacts
        <5> QED
          BY <4>2, <5>1, <5>2
      <4> QED
        BY <3>3, <4>1, <4>2
    <3>6. /\ Terminal(job, dropped).dropped = dropped'
          /\ Terminal(job, dropped).status = "done" <=> proc' = "zero"
      <4>1. (job = "done" <=> proc = "zero") /\ UNCHANGED <<dropped, proc>>
        BY <1>8 DEF Send, ToolInv, Drains
      <4>2. Terminal(job, dropped).dropped = dropped /\ Terminal(job, dropped).status = job
        BY MessageFacts
      <4> QED
        BY <4>1, <4>2
    <3>7. channel'[Len(channel')] = Terminal(job, dropped) /\ ~terminal'.done
      BY <2>0, <3>1
    <3>8. Told(channel[Len(channel)])'
      BY <3>6, <3>7 DEF Told
    <3> QED
      BY <3>1, <3>5, <3>7, <3>8 DEF Queue
  <2>4. Accounts'
    <3>1. Underway = Len(channel) /\ Underway' = Len(channel') - 1 /\ Len(channel') = Len(channel) + 1
      BY <2>0, Appended DEF Underway
    <3>2. Underway' = Underway
      BY <3>1, ToolFacts
    <3> QED
      BY <1>8, <3>2 DEF Send, ToolInv, Accounts, Written, Unread
  <2> QED
    BY <2>1, <2>2, <2>3, <2>4 DEF ToolInv
<1>9. ASSUME UpdateReads PROVE ToolInv'
  <2>0. Take /\ UNCHANGED <<job, dropped, proc>>
    BY <1>9 DEF UpdateReads
  <2>1. ToolTyped'
    <3>1. terminal' \in Messages
      BY <2>0, Taken DEF ToolInv, ToolTyped
    <3>2. channel' \in Seq(Messages) /\ Len(channel') <= ChanBuf
      <4>1. channel' \in Seq(Messages) /\ Len(channel') = Len(channel) - 1
        BY <2>0, Taken
      <4>2. Len(channel) \in Nat /\ ChanBuf \in Nat /\ Len(channel) <= ChanBuf
        BY ToolFacts, BoundAssumption DEF ToolInv, ToolTyped
      <4> QED
        BY <4>1, <4>2
    <3>3. shown' \in Nat
      BY <1>9, ToolFacts DEF UpdateReads
    <3> QED
      BY <1>9, <3>1, <3>2, <3>3 DEF UpdateReads, ToolInv, ToolTyped
  <2>2. Drains'
    BY <1>9, Typed DEF UpdateReads, ToolInv, Drains, ToolTyped, Sending
  <2>3. Queue'
    BY <2>0, TakeKeepsQueue
  <2>4. Accounts'
    <3>1. UNCHANGED <<pipe, written, dropped, cleanup>>
      BY <1>9 DEF UpdateReads
    <3>2. cleanup = "no" => shown' = IF First.done THEN shown ELSE shown + 1
      BY <1>9 DEF UpdateReads
    <3>3. shown' + Underway' = shown + Underway \/ cleanup # "no"
      <4>1. CASE First.done
        <5>1. job = "gone" /\ Len(channel) = 1 /\ ~terminal.done /\ terminal'.done /\ job' = job
          BY <2>0, <4>1, Taken
        <5>2. Underway = 0 /\ Underway' = 0
          BY <5>1 DEF Underway
        <5> QED
          BY <3>2, <4>1, <5>2
      <4>2. CASE ~First.done
        <5>1. ~terminal.done /\ terminal' = terminal /\ Len(channel') = Len(channel) - 1 /\ job' = job
          BY <2>0, <4>2, Taken
        <5>2. Underway' = Underway - 1 /\ Underway \in Int
          BY <5>1, ToolFacts DEF Underway
        <5> QED
          BY <3>2, <4>2, <5>2, ToolFacts
      <4> QED
        BY <4>1, <4>2
    <3>4. Underway \in Int /\ Underway' \in Int /\ shown' \in Int
      <4>1. Len(channel') \in Nat /\ Len(channel) \in Nat
        BY <2>0, Taken, ToolFacts
      <4> QED
        BY <1>9, <4>1, ToolFacts DEF Underway, UpdateReads
    <3>5. cleanup = "no" => Written = Unread + dropped + shown + Underway
      BY DEF ToolInv, Accounts
    <3>6. ASSUME cleanup = "no" PROVE Written = Unread + dropped + shown' + Underway'
      <4>1. /\ Written = Unread + dropped + shown + Underway
            /\ shown' + Underway' = shown + Underway
        BY <3>3, <3>5, <3>6
      <4>2. Unread \in Nat /\ Written \in Nat /\ dropped \in Nat /\ shown \in Nat
        BY ToolFacts
      <4>3. PICK w \in Int, u \in Int, d \in Int, s \in Int, s2 \in Int, n \in Int, n2 \in Int :
              /\ w = Written /\ u = Unread /\ d = dropped /\ s = shown /\ n = Underway
              /\ s2 = shown' /\ n2 = Underway'
        BY <3>4, <4>2
      <4>4. w = u + d + s + n /\ s2 + n2 = s + n
        BY <4>1, <4>3
      <4>5. w = u + d + s2 + n2
        BY <4>4
      <4> QED
        BY <4>3, <4>5
    <3>7. Written' = Written /\ Unread' = Unread
      BY <3>1 DEF Written, Unread
    <3> QED
      BY <3>1, <3>6, <3>7 DEF ToolInv, Accounts
  <2> QED
    BY <2>1, <2>2, <2>3, <2>4 DEF ToolInv
<1>10. ASSUME Leave PROVE ToolInv'
  <2>1. ToolTyped'
    BY <1>10, Typed DEF Leave, ToolInv, ToolTyped
  <2>2. Drains'
    BY <1>10, Typed DEF Leave, ToolInv, Drains, ToolTyped, Sending
  <2>3. Queue'
    BY <1>10, QueueStays DEF Leave, ToolInv, Drains
  <2>4. Accounts'
    BY <1>10, ToolFacts DEF Leave, ToolInv, Accounts, Underway, Written, Unread
  <2> QED
    BY <2>1, <2>2, <2>3, <2>4 DEF ToolInv
<1>11. ASSUME CleanupReads PROVE ToolInv'
  <2>0. Take /\ UNCHANGED <<job, dropped, proc>>
    BY <1>11 DEF CleanupReads
  <2>1. ToolTyped'
    <3>1. terminal' \in Messages
      BY <2>0, Taken DEF ToolInv, ToolTyped
    <3>2. channel' \in Seq(Messages) /\ Len(channel') <= ChanBuf
      <4>1. channel' \in Seq(Messages) /\ Len(channel') = Len(channel) - 1
        BY <2>0, Taken
      <4>2. Len(channel) \in Nat /\ ChanBuf \in Nat /\ Len(channel) <= ChanBuf
        BY ToolFacts, BoundAssumption DEF ToolInv, ToolTyped
      <4> QED
        BY <4>1, <4>2
    <3>3. cleanup' \in {"waiting", "over"}
      BY <1>11, ToolFacts DEF CleanupReads
    <3> QED
      BY <1>11, <3>1, <3>2, <3>3 DEF CleanupReads, ToolInv, ToolTyped
  <2>2. Drains'
    BY <1>11, Typed DEF CleanupReads, ToolInv, Drains, ToolTyped, Sending
  <2>3. Queue'
    BY <2>0, TakeKeepsQueue
  <2>4. Accounts'
    <3>1. UNCHANGED <<pipe, written, dropped>> /\ cleanup' # "no"
      BY <1>11 DEF CleanupReads
    <3> QED
      BY <3>1 DEF ToolInv, Accounts, Written, Unread
  <2> QED
    BY <2>1, <2>2, <2>3, <2>4 DEF ToolInv
<1>12. ASSUME GraceEnds PROVE ToolInv'
  <2>1. ToolTyped'
    BY <1>12, Typed DEF GraceEnds, ToolInv, ToolTyped
  <2>2. Drains'
    BY <1>12, Typed DEF GraceEnds, ToolInv, Drains, ToolTyped, Sending
  <2>3. Queue'
    BY <1>12, QueueStays DEF GraceEnds, ToolInv, Drains
  <2>4. Accounts'
    BY <1>12, ToolFacts DEF GraceEnds, ToolInv, Accounts, Underway, Written, Unread
  <2> QED
    BY <2>1, <2>2, <2>3, <2>4 DEF ToolInv
<1>13. ASSUME UNCHANGED vars PROVE ToolInv'
  <2>1. ToolTyped'
    BY <1>13 DEF vars, ToolInv, ToolTyped
  <2>2. Drains'
    BY <1>13 DEF vars, ToolInv, Drains, Sending
  <2>3. Queue'
    BY <1>13, QueueStays DEF vars
  <2>4. Accounts'
    BY <1>13 DEF vars, ToolInv, Accounts, Underway, Written, Unread
  <2> QED
    BY <2>1, <2>2, <2>3, <2>4 DEF ToolInv
<1> QED
  BY <1>1, <1>2, <1>3, <1>4, <1>5, <1>6, <1>7, <1>8, <1>9, <1>10, <1>11, <1>12, <1>13
     DEF Next, Streams, JobSteps, Over

-----------------------------------------------------------------------------
\* The supervisor.

Places == [stage : Frr!Stages, child : Child \cup {Frr!Holder},
           round : {"none", "term", "kill", "sweep"}, starting : BOOLEAN]

\* Where a goroutine goes the other does not.
LEMMA GoesFacts ==
  ASSUME at \in [Frr!Caller -> Places], NEW x \in Frr!Caller, NEW stage \in Frr!Stages, Frr!Goes(x, stage)
  PROVE  /\ at' \in [Frr!Caller -> Places]
         /\ at'[x].stage = stage /\ at'[x].child = at[x].child /\ at'[x].round = at[x].round
         /\ \A y \in Frr!Caller \ {x} : at'[y] = at[y]
<1>1. at' = [at EXCEPT ![x] = [at[x] EXCEPT !.stage = stage]]
  BY DEF Frr!Goes
<1>2. at[x] \in Places
  OBVIOUS
<1>3. [at[x] EXCEPT !.stage = stage] \in Places
  BY <1>2 DEF Places
<1>4. at'[x] = [at[x] EXCEPT !.stage = stage]
  BY <1>1
<1>5. /\ at'[x].stage = stage /\ at'[x].child = at[x].child /\ at'[x].round = at[x].round
  BY <1>2, <1>4 DEF Places
<1> QED
  BY <1>1, <1>3, <1>5

LEMMA LooksFacts ==
  ASSUME at \in [Frr!Caller -> Places], NEW x \in Frr!Caller, NEW round \in {"term", "kill", "sweep"},
         Frr!Looks(x, round)
  PROVE  /\ at' \in [Frr!Caller -> Places]
         /\ at'[x].stage = "look" /\ at'[x].child = at[x].child /\ at'[x].round = round
         /\ \A y \in Frr!Caller \ {x} : at'[y] = at[y]
<1>1. at' = [at EXCEPT ![x] = [at[x] EXCEPT !.stage = "look", !.round = round]]
  BY DEF Frr!Looks
<1>2. at[x] \in Places /\ "look" \in Frr!Stages
  BY DEF Frr!Stages
<1>3. [at[x] EXCEPT !.stage = "look", !.round = round] \in Places
  BY <1>2 DEF Places
<1>4. at'[x] = [at[x] EXCEPT !.stage = "look", !.round = round]
  BY <1>1
<1>5. at'[x].stage = "look" /\ at'[x].child = at[x].child /\ at'[x].round = round
  BY <1>2, <1>4 DEF Places
<1> QED
  BY <1>1, <1>3, <1>5

\* What a goroutine does that begins, or ends, a call.
LEMMA PlaceFacts ==
  /\ Frr!Idle \in Places /\ Frr!Idle.stage = "idle"
  /\ \A stage \in Frr!Stages : [Frr!Idle EXCEPT !.stage = stage] \in Places
                               /\ [Frr!Idle EXCEPT !.stage = stage].stage = stage
  BY DEF Frr!Idle, Places, Frr!Stages

LEMMA Settles ==
  ASSUME at \in [Frr!Caller -> Places], NEW x \in Frr!Caller, NEW place \in Places,
         at' = [at EXCEPT ![x] = place]
  PROVE  /\ at' \in [Frr!Caller -> Places] /\ at'[x] = place
         /\ \A y \in Frr!Caller \ {x} : at'[y] = at[y]
  OBVIOUS

LEMMA ReturnsFacts ==
  ASSUME Frr!TypeOK, NEW x \in Frr!Caller, NEW ok \in BOOLEAN, Frr!Returns(x, ok)
  PROVE  /\ at' \in [Frr!Caller -> Places]
         /\ at'[x].stage = IF x = "closer" THEN "stopping" ELSE "idle"
         /\ \A y \in Frr!Caller \ {x} : at'[y] = at[y]
         /\ nsMu' \in Frr!Caller \cup {"free"} /\ todo' \subseteq todo /\ failed' \in BOOLEAN
         /\ x = "closer" => todo' = todo \ {at[x].child} /\ (~ok => failed') /\ (failed => failed')
         /\ x = "owner" => todo' = todo /\ failed' = failed
<1>0. at \in [Frr!Caller -> Places] /\ nsMu \in Frr!Caller \cup {"free"} /\ failed \in BOOLEAN
  BY DEF Frr!TypeOK, Places
<1>1. CASE x = "closer"
  <2>1. /\ at' = [at EXCEPT ![x] = [Frr!Idle EXCEPT !.stage = "stopping"]]
        /\ todo' = todo \ {at[x].child} /\ failed' = (failed \/ ~ok) /\ nsMu' = nsMu
    BY <1>1 DEF Frr!Returns
  <2>2. "stopping" \in Frr!Stages
    BY DEF Frr!Stages
  <2>3. at' \in [Frr!Caller -> Places] /\ at'[x].stage = "stopping"
    BY <1>0, <2>1, <2>2, PlaceFacts
  <2> QED
    BY <1>0, <1>1, <2>1, <2>3
<1>2. CASE x # "closer"
  <2>1. /\ at' = [at EXCEPT ![x] = Frr!Idle] /\ nsMu' \in {"free", nsMu}
        /\ todo' = todo /\ failed' = failed
    BY <1>2 DEF Frr!Returns
  <2>2. at' \in [Frr!Caller -> Places] /\ at'[x].stage = "idle"
    BY <1>0, <2>1, PlaceFacts
  <2> QED
    BY <1>0, <1>2, <2>1, <2>2
<1> QED
  BY <1>1, <1>2

\* The types of the supervisor's state, one by one.
LEMMA LabTyped ==
  ASSUME Frr!TypeOK
  PROVE  /\ at \in [Frr!Caller -> Places] /\ leader \in [Child -> {"none", "running", "zombie", "reaped"}]
         /\ kin \in [Child -> BOOLEAN] /\ killed \subseteq Child \cup {Frr!Holder}
         /\ watch \in [Child -> {"off", "watching", "done", "lost"}]
         /\ pidfd \in [Child -> {"none", "open", "closed"}]
         /\ stopMu \in [Child -> Frr!Caller \cup {"free"}]
         /\ reaped \subseteq Child /\ children \subseteq Child /\ mine \subseteq Child /\ todo \subseteq Child
         /\ nsMu \in Frr!Caller \cup {"free"} /\ holder \in {"running", "zombie", "reaped"}
         /\ closing \in BOOLEAN /\ closed \in BOOLEAN /\ unclean \in BOOLEAN /\ pins \in BOOLEAN
         /\ failed \in BOOLEAN /\ faults \in 0..MaxFaults
  BY DEF Frr!TypeOK, Places

LEMMA CallerFacts ==
  /\ "owner" \in Frr!Caller /\ "closer" \in Frr!Caller
  /\ \A x \in Frr!Caller : x = "owner" \/ x = "closer"
  /\ "free" \notin Frr!Caller
  /\ Stopping \cap {"idle", "verify", "lock", "stopping", "release"} = {}
  BY DEF Frr!Caller, Stopping

\* The child a Stop has locked.
LEMMA LockFacts ==
  ASSUME FrrInv, NEW x \in Frr!Caller, at[x].stage \in Stopping
  PROVE  /\ at[x].child \in Child /\ stopMu[at[x].child] = x /\ at[x].round # "none"
         /\ at[x].child \notin reaped /\ leader[at[x].child] # "none"
         /\ Progressed(x)
         /\ \A y \in Frr!Caller \ {x} : at[y].stage \in Stopping => at[y].child # at[x].child
<1>1. /\ at[x].child \in Child /\ stopMu[at[x].child] = x /\ at[x].round # "none"
      /\ \A y \in Frr!Caller : at[y].stage \in Stopping => stopMu[at[y].child] = y
  BY DEF FrrInv, Locked
<1>2. Known(at[x].child) /\ Progressed(x)
  BY <1>1 DEF FrrInv, Registered, Progress
<1>3. stopMu[at[x].child] # "free"
  BY <1>1, CallerFacts
<1> QED
  BY <1>1, <1>2, <1>3 DEF Known

-----------------------------------------------------------------------------
\* The locks.

LEMMA KeepsLock ==
  ASSUME FrrInv, NEW x \in Frr!Caller, at[x].stage \in Stopping, at'[x].stage \in Stopping,
         at'[x].child = at[x].child, at'[x].round # "none",
         \A y \in Frr!Caller \ {x} : at'[y] = at[y],
         stopMu' = stopMu, \A c \in Child : leader[c] # "none" => leader'[c] # "none"
  PROVE  Locked'
<1>1. \A y \in Frr!Caller : at'[y].child = at[y].child /\ (at'[y] = at[y] \/ y = x)
  OBVIOUS
<1>2. \A y \in Frr!Caller : at'[y].stage \in Stopping <=> at[y].stage \in Stopping
  OBVIOUS
<1>3. at'[x].stage \notin {"verify", "lock", "stopping", "release"}
  BY CallerFacts
<1> QED
  BY <1>1, <1>2, <1>3, CallerFacts DEF FrrInv, Locked

LEMMA DropsLock ==
  ASSUME FrrInv, NEW x \in Frr!Caller, at[x].stage \in Stopping,
         at'[x].stage = IF x = "closer" THEN "stopping" ELSE "idle",
         \A y \in Frr!Caller \ {x} : at'[y] = at[y],
         stopMu' = [stopMu EXCEPT ![at[x].child] = "free"],
         \A c \in Child : leader[c] # "none" => leader'[c] # "none"
  PROVE  Locked'
<1>1. PICK c \in Child : c = at[x].child /\ stopMu[c] = x
  BY LockFacts
<1>2. stopMu \in [Child -> Frr!Caller \cup {"free"}]
  BY LabTyped DEF FrrInv
<1>3. stopMu'[c] = "free" /\ \A d \in Child \ {c} : stopMu'[d] = stopMu[d]
  BY <1>1, <1>2
<1>4. at'[x].stage \notin Stopping /\ at'[x].stage \notin {"verify", "lock"}
  BY CallerFacts
<1>5. ASSUME NEW y \in Frr!Caller, at'[y].stage \in Stopping
      PROVE  at'[y].child \in Child /\ stopMu'[at'[y].child] = y /\ at'[y].round # "none"
  <2>1. y # x /\ at'[y] = at[y]
    BY <1>4, <1>5
  <2>2. at[y].child \in Child \ {c} /\ stopMu[at[y].child] = y /\ at[y].round # "none"
    BY <1>1, <1>5, <2>1 DEF FrrInv, Locked
  <2> QED
    BY <1>3, <2>1, <2>2
<1>6. ASSUME NEW d \in Child, NEW y \in Frr!Caller, stopMu'[d] = y
      PROVE  at'[y].stage \in Stopping /\ at'[y].child = d
  <2>1. d # c /\ stopMu[d] = y
    BY <1>3, <1>6, CallerFacts
  <2>2. at[y].stage \in Stopping /\ at[y].child = d
    BY <2>1 DEF FrrInv, Locked
  <2>3. y # x
    BY <1>1, <2>1, <2>2
  <2> QED
    BY <2>2, <2>3
<1>7. \A y \in Frr!Caller : at'[y].stage \in {"verify", "lock"} =>
        at'[y].child \in Child /\ leader'[at'[y].child] # "none"
  BY <1>4 DEF FrrInv, Locked
<1>8. at'["owner"].stage \notin {"stopping", "release"} /\ at'["closer"].stage # "verify"
  BY CallerFacts DEF FrrInv, Locked
<1> QED
  BY <1>5, <1>6, <1>7, <1>8 DEF Locked

LEMMA Elsewhere ==
  ASSUME FrrInv, NEW x \in Frr!Caller, at[x].stage \notin Stopping, at'[x].stage \notin Stopping,
         \A y \in Frr!Caller \ {x} : at'[y] = at[y],
         at'[x].stage \in {"verify", "lock"} =>
           at'[x].child \in Child /\ leader'[at'[x].child] # "none",
         IF x = "owner" THEN at'[x].stage \notin {"stopping", "release"} ELSE at'[x].stage # "verify",
         stopMu' = stopMu, \A c \in Child : leader[c] # "none" => leader'[c] # "none"
  PROVE  Locked'
<1>1. \A y \in Frr!Caller : at'[y].stage \in Stopping => at'[y] = at[y]
  OBVIOUS
<1>2. \A y \in Frr!Caller : at[y].stage \in Stopping => at'[y] = at[y]
  OBVIOUS
<1>3. \A y \in Frr!Caller : at'[y].stage \in {"verify", "lock"} =>
        at'[y].child \in Child /\ leader'[at'[y].child] # "none"
  BY DEF FrrInv, Locked
<1>4. at'["owner"].stage \notin {"stopping", "release"} /\ at'["closer"].stage # "verify"
  BY CallerFacts DEF FrrInv, Locked
<1>5. \A y \in Frr!Caller : at'[y].stage \in Stopping =>
        at'[y].child \in Child /\ stopMu'[at'[y].child] = y /\ at'[y].round # "none"
  BY <1>1 DEF FrrInv, Locked
<1>6. \A c \in Child, y \in Frr!Caller : stopMu'[c] = y => at'[y].stage \in Stopping /\ at'[y].child = c
  BY <1>2 DEF FrrInv, Locked
<1> QED
  BY <1>3, <1>4, <1>5, <1>6 DEF Locked

LEMMA NobodyMoves ==
  ASSUME FrrInv, at' = at, stopMu' = stopMu, \A c \in Child : leader[c] # "none" => leader'[c] # "none"
  PROVE  Locked'
  BY DEF FrrInv, Locked

-----------------------------------------------------------------------------
\* What is known of a child nobody touches.

LEMMA KnownKept ==
  ASSUME FrrInv, NEW c \in Child, leader'[c] = leader[c], kin'[c] => kin[c], pidfd'[c] = pidfd[c],
         watch'[c] = watch[c] \/ (watch[c] = "watching" /\ watch'[c] # "watching"),
         stopMu'[c] = stopMu[c], c \in reaped' <=> c \in reaped, c \in children' <=> c \in children,
         c \in mine' => c \in mine \/ leader[c] # "none", c \in todo' => c \in todo \cup children
  PROVE  Known(c)'
  BY DEF FrrInv, Registered, Known

-----------------------------------------------------------------------------
\* The two ways of a step of Stop: it goes on with its child, or gives up.

LEMMA GoesOn ==
  ASSUME FrrInv, NEW x \in Frr!Caller, at[x].stage \in Stopping, at'[x].stage \in Stopping,
         at'[x].child = at[x].child, at'[x].round # "none",
         \A y \in Frr!Caller \ {x} : at'[y] = at[y], Progressed(x)',
         UNCHANGED <<leader, watch, pidfd, stopMu, reaped, children, mine, closing, closed, holder, pins,
                     todo, failed>>,
         \A c \in Child : kin'[c] => kin[c]
  PROVE  Locked' /\ Progress' /\ Registered' /\ Closes'
<1>1. Locked'
  BY KeepsLock
<1>2. Progress'
  <2> SUFFICES ASSUME NEW y \in Frr!Caller, y # x PROVE Progressed(y)'
    BY DEF Progress
  <2>1. at[y].stage \in Stopping =>
          leader'[at[y].child] = leader[at[y].child] /\ (kin'[at[y].child] => kin[at[y].child])
    BY LockFacts
  <2>2. at'[y] = at[y]
    OBVIOUS
  <2> QED
    BY <2>1, <2>2 DEF FrrInv, Progress, Progressed, Stopping
<1>3. Registered'
  BY KnownKept DEF Registered
<1>4. Closes'
  <2>1. at'["closer"].stage # "idle" => at["closer"].stage # "idle"
    BY CallerFacts
  <2>2. at'["closer"].stage = "release" => at["closer"].stage = "release"
    BY CallerFacts
  <2> QED
    BY <2>1, <2>2 DEF FrrInv, Closes
<1> QED
  BY <1>1, <1>2, <1>3, <1>4

LEMMA GivesUp ==
  ASSUME FrrInv, NEW x \in Frr!Caller, at[x].stage \in Stopping \ {"join"}, Frr!Incomplete(x),
         UNCHANGED <<leader, kin, watch, pidfd, reaped, children, mine, closing, closed, holder, pins>>
  PROVE  /\ Locked' /\ Progress' /\ Registered' /\ Closes'
         /\ at' \in [Frr!Caller -> Places] /\ stopMu' \in [Child -> Frr!Caller \cup {"free"}]
         /\ nsMu' \in Frr!Caller \cup {"free"} /\ todo' \subseteq Child /\ failed' \in BOOLEAN
         /\ unclean' \in BOOLEAN
<1>1. /\ unclean' = TRUE /\ stopMu' = [stopMu EXCEPT ![at[x].child] = "free"] /\ Frr!Returns(x, FALSE)
  BY DEF Frr!Incomplete
<1>2. Frr!TypeOK
  BY DEF FrrInv
<1>3. /\ at' \in [Frr!Caller -> Places]
      /\ at'[x].stage = IF x = "closer" THEN "stopping" ELSE "idle"
      /\ \A y \in Frr!Caller \ {x} : at'[y] = at[y]
      /\ nsMu' \in Frr!Caller \cup {"free"} /\ todo' \subseteq todo /\ failed' \in BOOLEAN
      /\ x = "closer" => failed'
      /\ x = "owner" => todo' = todo /\ failed' = failed
  BY <1>1, <1>2, ReturnsFacts
<1>4. PICK c \in Child : c = at[x].child /\ stopMu[c] = x
  BY LockFacts
<1>5. stopMu \in [Child -> Frr!Caller \cup {"free"}] /\ todo \subseteq Child
  BY <1>2, LabTyped
<1>6. stopMu'[c] = "free" /\ \A d \in Child \ {c} : stopMu'[d] = stopMu[d]
  BY <1>1, <1>4, <1>5
<1>7. stopMu' \in [Child -> Frr!Caller \cup {"free"}]
  BY <1>1, <1>4, <1>5
<1>8. Locked'
  BY <1>1, <1>3, DropsLock
<1>9. Progress'
  <2>1. Progressed(x)'
    BY <1>3 DEF Progressed
  <2>2. ASSUME NEW y \in Frr!Caller, y # x PROVE Progressed(y)'
    <3>1. at'[y] = at[y]
      BY <1>3, <2>2
    <3>2. leader'[at[y].child] = leader[at[y].child] /\ (kin'[at[y].child] => kin[at[y].child])
      OBVIOUS
    <3> QED
      BY <3>1, <3>2 DEF FrrInv, Progress, Progressed, Stopping
  <2> QED
    BY <2>1, <2>2 DEF Progress
<1>10. Registered'
  <2>1. ASSUME NEW d \in Child, d # c PROVE Known(d)'
    BY <1>3, <1>6, <2>1, KnownKept
  <2>2. Known(c)'
    <3>1. Known(c) /\ c \notin reaped /\ leader[c] # "none" /\ Progressed(x)
      BY <1>4, LockFacts DEF FrrInv, Registered
    <3>2. leader[c] # "reaped"
      BY <1>4, <3>1 DEF Progressed, Stopping
    <3> QED
      BY <3>1, <3>2 DEF Known
  <2> QED
    BY <2>1, <2>2 DEF Registered
<1>11. Closes'
  <2>1. CASE x = "closer"
    <3>1. closing /\ at'["closer"].stage = "stopping" /\ failed'
      BY <1>3, <2>1, CallerFacts DEF FrrInv, Closes
    <3> QED
      BY <3>1 DEF FrrInv, Closes
  <2>2. CASE x = "owner"
    <3>1. at'["closer"] = at["closer"] /\ todo' = todo /\ failed' = failed
      BY <1>3, <2>2, CallerFacts
    <3> QED
      BY <3>1 DEF FrrInv, Closes
  <2> QED
    BY <2>1, <2>2, CallerFacts
<1> QED
  BY <1>1, <1>3, <1>5, <1>7, <1>8, <1>9, <1>10, <1>11

-----------------------------------------------------------------------------
LEMMA FrrBegins ==
  ASSUME Frr!Init PROVE FrrInv
<1>1. Frr!TypeOK
  <2>1. at \in [Frr!Caller -> Places]
    BY PlaceFacts DEF Frr!Init
  <2>2. faults \in 0..MaxFaults
    BY LabAssumption DEF Frr!Init
  <2>3. /\ leader \in [Child -> {"none", "running", "zombie", "reaped"}] /\ kin \in [Child -> BOOLEAN]
        /\ watch \in [Child -> {"off", "watching", "done", "lost"}]
        /\ pidfd \in [Child -> {"none", "open", "closed"}]
        /\ stopMu \in [Child -> Frr!Caller \cup {"free"}]
    BY DEF Frr!Init
  <2> QED
    BY <2>1, <2>2, <2>3 DEF Frr!Init, Frr!TypeOK, Places
<1>2. \A x \in Frr!Caller : at[x].stage = "idle"
  BY PlaceFacts DEF Frr!Init
<1>3. Locked /\ Progress
  <2>1. \A c \in Child : stopMu[c] = "free"
    BY DEF Frr!Init
  <2> QED
    BY <1>2, <2>1, CallerFacts DEF Locked, Progress, Progressed
<1>4. Registered
  BY DEF Frr!Init, Registered, Known
<1>5. Closes
  BY <1>2, CallerFacts DEF Frr!Init, Closes
<1> QED
  BY <1>1, <1>3, <1>4, <1>5 DEF FrrInv

\* The kernel and the watchers.
LEMMA KernelSteps ==
  ASSUME FrrInv, NEW c \in Child, Frr!Exits(c) \/ Frr!Watch(c)
  PROVE  FrrInv'
<1>0. Frr!TypeOK
  BY DEF FrrInv
<1>1. CASE Frr!Exits(c)
  <2>0. /\ leader[c] = "running" /\ leader' = [leader EXCEPT ![c] = "zombie"]
        /\ UNCHANGED <<kin, killed, watch, pidfd, stopMu, reaped, children, mine, nsMu, closing, closed,
                       unclean, holder, pins, at, todo, failed, faults>>
    BY <1>1 DEF Frr!Exits, Frr!stopVars, Frr!nsVars
  <2>1. leader'[c] = "zombie" /\ \A d \in Child \ {c} : leader'[d] = leader[d]
    BY <1>0, <2>0, LabTyped
  <2>2. Frr!TypeOK'
    BY <1>0, <2>0 DEF Frr!TypeOK
  <2>3. Locked'
    BY <2>0, <2>1, NobodyMoves
  <2>4. Progress'
    <3>1. \A x \in Frr!Caller : at[x].stage \in Stopping => at[x].child \in Child
      BY LockFacts
    <3> QED
      BY <2>0, <2>1, <3>1 DEF FrrInv, Progress, Progressed, Stopping
  <2>5. Registered'
    BY <2>0, <2>1 DEF FrrInv, Registered, Known
  <2>6. Closes'
    BY <2>0 DEF FrrInv, Closes
  <2> QED
    BY <2>2, <2>3, <2>4, <2>5, <2>6 DEF FrrInv
<1>2. CASE Frr!Watch(c)
  <2>0. /\ watch[c] = "watching" /\ \E seen \in {"done", "lost"} : watch' = [watch EXCEPT ![c] = seen]
        /\ faults' = faults \/ (faults < MaxFaults /\ faults' = faults + 1)
        /\ UNCHANGED <<leader, kin, killed, pidfd, stopMu, reaped, children, mine, nsMu, closing, closed,
                       unclean, holder, pins, at, todo, failed>>
    BY <1>2 DEF Frr!Watch, Frr!Fault, Frr!NoFault, Frr!stopVars, Frr!nsVars
  <2>1. /\ watch'[c] \in {"done", "lost"} /\ \A d \in Child \ {c} : watch'[d] = watch[d]
        /\ watch' \in [Child -> {"off", "watching", "done", "lost"}]
    BY <1>0, <2>0, LabTyped
  <2>2. Frr!TypeOK'
    <3>1. faults' \in 0..MaxFaults
      BY <1>0, <2>0, LabTyped, LabAssumption
    <3> QED
      BY <1>0, <2>0, <2>1, <3>1 DEF Frr!TypeOK
  <2>3. Locked'
    BY <2>0, NobodyMoves
  <2>4. Progress'
    BY <2>0 DEF FrrInv, Progress, Progressed
  <2>5. Registered'
    BY <2>0, <2>1 DEF FrrInv, Registered, Known
  <2>6. Closes'
    BY <2>0 DEF FrrInv, Closes
  <2> QED
    BY <2>2, <2>3, <2>4, <2>5, <2>6 DEF FrrInv
<1> QED
  BY <1>1, <1>2

LEMMA HolderStep ==
  ASSUME FrrInv, Frr!HolderExits PROVE FrrInv'
<1>1. /\ holder = "running" /\ holder' = "zombie"
      /\ UNCHANGED <<leader, kin, killed, watch, pidfd, stopMu, reaped, children, mine, nsMu, closing,
                     closed, unclean, pins, at, todo, failed, faults>>
  BY DEF Frr!HolderExits, Frr!procVars, Frr!stopVars
<1>2. Frr!TypeOK'
  BY <1>1 DEF FrrInv, Frr!TypeOK
<1>3. Locked'
  BY <1>1, NobodyMoves
<1>4. Progress'
  BY <1>1 DEF FrrInv, Progress, Progressed
<1>5. Registered'
  BY <1>1 DEF FrrInv, Registered, Known
<1>6. Closes'
  BY <1>1 DEF FrrInv, Closes
<1> QED
  BY <1>2, <1>3, <1>4, <1>5, <1>6 DEF FrrInv

\* Stop, up to the child's exit.
LEMMA StopSteps ==
  ASSUME FrrInv, NEW x \in Frr!Caller,
         Frr!Look(x) \/ Frr!Send(x) \/ Frr!ExitSeen(x) \/ Frr!TimePasses(x)
  PROVE  FrrInv'
<1>0. Frr!TypeOK
  BY DEF FrrInv
<1>1. at[x].stage \in {"look", "send", "wait"} /\ at[x].stage \in Stopping /\ at[x].stage # "join"
  BY DEF Frr!Look, Frr!Send, Frr!ExitSeen, Frr!TimePasses, Stopping
<1>2. PICK c \in Child :
        /\ c = at[x].child /\ stopMu[c] = x /\ c \notin reaped /\ leader[c] \in {"running", "zombie"}
        /\ at[x].round # "none" /\ Progressed(x)
  BY <1>1, LockFacts DEF Progressed
<1>3. /\ UNCHANGED <<leader, watch, pidfd, reaped, children, mine, closing, closed, holder, pins>>
      /\ faults' = faults \/ (faults < MaxFaults /\ faults' = faults + 1)
      /\ kin' = kin \/ kin' = [kin EXCEPT ![c] = FALSE]
      /\ killed' = killed \/ killed' = killed \cup {c}
  BY <1>2 DEF Frr!Look, Frr!Send, Frr!ExitSeen, Frr!TimePasses, Frr!Fault, Frr!NoFault,
              Frr!procVars, Frr!stopVars, Frr!nsVars
<1>4. /\ faults' \in 0..MaxFaults /\ killed' \subseteq Child \cup {Frr!Holder}
      /\ kin' \in [Child -> BOOLEAN] /\ \A d \in Child : kin'[d] => kin[d]
  <2>1. faults' \in 0..MaxFaults
    BY <1>0, <1>3, LabTyped, LabAssumption
  <2>2. killed' \subseteq Child \cup {Frr!Holder}
    BY <1>0, <1>3, LabTyped
  <2>3. kin' \in [Child -> BOOLEAN] /\ \A d \in Child : kin'[d] => kin[d]
    BY <1>0, <1>3, LabTyped
  <2> QED
    BY <2>1, <2>2, <2>3
<1>5. ASSUME at' \in [Frr!Caller -> Places], stopMu' \in [Child -> Frr!Caller \cup {"free"}],
             nsMu' \in Frr!Caller \cup {"free"}, todo' \subseteq Child, failed' \in BOOLEAN,
             unclean' \in BOOLEAN
      PROVE  Frr!TypeOK'
  BY <1>0, <1>3, <1>4, <1>5 DEF Frr!TypeOK, Places
<1>6. ASSUME Frr!Incomplete(x), kin' = kin PROVE FrrInv'
  <2>1. at[x].stage \in Stopping \ {"join"}
    BY <1>1
  <2> QED
    BY <1>3, <1>5, <1>6, <2>1, GivesUp DEF FrrInv
<1>7. ASSUME UNCHANGED <<stopMu, unclean, nsMu, todo, failed>>,
             at' \in [Frr!Caller -> Places], at'[x].stage \in Stopping, at'[x].child = at[x].child,
             at'[x].round # "none", \A y \in Frr!Caller \ {x} : at'[y] = at[y], Progressed(x)'
      PROVE  FrrInv'
  <2>1. Locked' /\ Progress' /\ Registered' /\ Closes'
    BY <1>1, <1>3, <1>4, <1>7, GoesOn
  <2> QED
    BY <1>0, <1>5, <1>7, <2>1, LabTyped DEF FrrInv
<1>8. ASSUME NEW stage \in {"send", "wait", "reap"}, Frr!Goes(x, stage),
             UNCHANGED <<stopMu, unclean, nsMu, todo, failed>>,
             stage = "wait" => at[x].round # "sweep",
             stage = "send" /\ at[x].round = "sweep" => leader[c] = "zombie",
             stage = "reap" => leader[c] = "zombie" /\ ~kin'[c]
      PROVE  FrrInv'
  <2>1. stage \in Frr!Stages /\ stage \in Stopping
    BY DEF Frr!Stages, Stopping
  <2>2. /\ at' \in [Frr!Caller -> Places]
        /\ at'[x].stage = stage /\ at'[x].child = c /\ at'[x].round = at[x].round
        /\ \A y \in Frr!Caller \ {x} : at'[y] = at[y]
    BY <1>0, <1>2, <1>8, <2>1, GoesFacts, LabTyped
  <2>3. Progressed(x)'
    BY <1>2, <1>3, <1>8, <2>2 DEF Progressed
  <2> QED
    BY <1>2, <1>7, <1>8, <2>1, <2>2, <2>3
<1>9. ASSUME NEW round \in {"kill", "sweep"}, Frr!Looks(x, round), kin' = kin,
             UNCHANGED <<stopMu, unclean, nsMu, todo, failed>>,
             round = "sweep" => leader[c] = "zombie"
      PROVE  FrrInv'
  <2>2. /\ at' \in [Frr!Caller -> Places]
        /\ at'[x].stage = "look" /\ at'[x].child = c /\ at'[x].round = round
        /\ \A y \in Frr!Caller \ {x} : at'[y] = at[y]
    BY <1>0, <1>2, <1>9, LooksFacts, LabTyped
  <2>3. Progressed(x)'
    BY <1>2, <1>3, <1>9, <2>2 DEF Progressed
  <2> QED
    BY <1>2, <1>7, <1>9, <2>2, <2>3 DEF Stopping
<1>10. CASE Frr!Look(x)
  <2>1. /\ kin' = kin /\ at[x].stage = "look"
        /\ \/ Frr!Goes(x, "send") /\ UNCHANGED <<stopMu, unclean, nsMu, todo, failed>>
           \/ Frr!Incomplete(x)
           \/ /\ at[x].round # "sweep" /\ Frr!Goes(x, "wait")
              /\ UNCHANGED <<stopMu, unclean, nsMu, todo, failed>>
    BY <1>10 DEF Frr!Look
  <2>2. at[x].round = "sweep" => leader[c] = "zombie"
    BY <1>2, <2>1 DEF Progressed
  <2> QED
    BY <1>6, <1>8, <2>1, <2>2
<1>11. CASE Frr!Send(x)
  <2>1. /\ at[x].stage = "send"
        /\ \/ /\ IF at[x].round = "term" THEN kin' = kin ELSE kin' = [kin EXCEPT ![c] = FALSE]
              /\ Frr!Goes(x, IF at[x].round = "sweep" THEN "reap" ELSE "wait")
              /\ UNCHANGED <<stopMu, unclean, nsMu, todo, failed>>
           \/ kin' = kin /\ Frr!Incomplete(x)
           \/ /\ at[x].round # "sweep" /\ Frr!Goes(x, "wait")
              /\ UNCHANGED <<stopMu, unclean, nsMu, todo, failed>>
    BY <1>2, <1>11 DEF Frr!Send
  <2>2. at[x].round = "sweep" => leader[c] = "zombie"
    BY <1>2, <2>1 DEF Progressed
  <2>3. kin' = [kin EXCEPT ![c] = FALSE] => ~kin'[c]
    BY <1>0, LabTyped
  <2> QED
    BY <1>6, <1>8, <2>1, <2>2, <2>3
<1>12. CASE Frr!ExitSeen(x)
  BY <1>2, <1>9, <1>12 DEF Frr!ExitSeen, Frr!procVars, Frr!stopVars, Frr!nsVars
<1>13. CASE Frr!TimePasses(x)
  <2>1. /\ kin' = kin
        /\ Frr!Incomplete(x) \/ (Frr!Looks(x, "kill") /\ UNCHANGED <<stopMu, unclean, nsMu, todo, failed>>)
    BY <1>13 DEF Frr!TimePasses, Frr!procVars
  <2> QED
    BY <1>6, <1>9, <2>1
<1> QED
  BY <1>10, <1>11, <1>12, <1>13

\* Reaping the leader and joining the watcher.
LEMMA ReapSteps ==
  ASSUME FrrInv, NEW x \in Frr!Caller, Frr!Reap(x)
  PROVE  FrrInv'
<1>0. Frr!TypeOK
  BY DEF FrrInv
<1>1. at[x].stage = "reap" /\ at[x].stage \in Stopping
  BY DEF Frr!Reap, Stopping
<1>2. PICK c \in Child :
        /\ c = at[x].child /\ stopMu[c] = x /\ c \notin reaped /\ leader[c] = "zombie" /\ ~kin[c]
        /\ at[x].round # "none" /\ \A y \in Frr!Caller \ {x} : at[y].stage \in Stopping => at[y].child # c
  BY <1>1, LockFacts DEF Progressed
<1>3. UNCHANGED <<kin, killed, watch, pidfd, reaped, children, mine, closing, closed, holder, pins>>
  BY DEF Frr!Reap
<1>4. CASE Frr!Goes(x, "join")
  <2>1. /\ leader' = [leader EXCEPT ![c] = "reaped"]
        /\ UNCHANGED <<stopMu, unclean, nsMu, todo, failed, faults>>
    <3>1. Frr!Goes(x, "join") /\ ~Frr!Incomplete(x)
      <4>1. "join" \in Frr!Stages /\ at \in [Frr!Caller -> Places]
        BY <1>0, LabTyped DEF Frr!Stages
      <4>2. at'[x].stage = "join"
        BY <1>4, <4>1, GoesFacts
      <4>3. ASSUME Frr!Incomplete(x) PROVE FALSE
        <5>1. Frr!Returns(x, FALSE)
          BY <4>3 DEF Frr!Incomplete
        <5>2. at'[x].stage \in {"stopping", "idle"}
          BY <1>0, <5>1, ReturnsFacts
        <5> QED
          BY <4>2, <5>2
      <4> QED
        BY <1>4, <4>3
    <3> QED
      BY <1>2, <3>1 DEF Frr!Reap, Frr!NoFault
  <2>2. leader'[c] = "reaped" /\ \A d \in Child \ {c} : leader'[d] = leader[d]
    BY <1>0, <2>1, LabTyped
  <2>3. /\ at' \in [Frr!Caller -> Places]
        /\ at'[x].stage = "join" /\ at'[x].child = c /\ at'[x].round = at[x].round
        /\ \A y \in Frr!Caller \ {x} : at'[y] = at[y]
    <3>1. "join" \in Frr!Stages /\ at \in [Frr!Caller -> Places]
      BY <1>0, LabTyped DEF Frr!Stages
    <3> QED
      BY <1>2, <1>4, <3>1, GoesFacts
  <2>4. Frr!TypeOK'
    <3>1. leader' \in [Child -> {"none", "running", "zombie", "reaped"}]
      BY <1>0, <2>1, LabTyped
    <3> QED
      BY <1>0, <1>3, <2>1, <2>3, <3>1 DEF Frr!TypeOK, Places
  <2>5. Locked'
    BY <1>1, <1>2, <2>1, <2>2, <2>3, KeepsLock DEF Stopping
  <2>6. Progress'
    <3>1. Progressed(x)'
      BY <1>2, <1>3, <2>2, <2>3 DEF Progressed
    <3>2. ASSUME NEW y \in Frr!Caller, y # x PROVE Progressed(y)'
      <4>1. at'[y] = at[y]
        BY <2>3, <3>2
      <4>2. at[y].stage \in Stopping => leader'[at[y].child] = leader[at[y].child]
        BY <1>2, <2>2, <3>2, LockFacts
      <4> QED
        BY <1>3, <4>1, <4>2 DEF FrrInv, Progress, Progressed, Stopping
    <3> QED
      BY <3>1, <3>2 DEF Progress
  <2>7. Registered'
    <3>1. ASSUME NEW d \in Child, d # c PROVE Known(d)'
      BY <1>3, <2>1, <2>2, <3>1 DEF FrrInv, Registered, Known
    <3>2. Known(c)'
      BY <1>2, <1>3, <2>1, <2>2, CallerFacts DEF FrrInv, Registered, Known
    <3> QED
      BY <3>1, <3>2 DEF Registered
  <2>8. Closes'
    <3>1. /\ at'["closer"].stage # "idle" => at["closer"].stage # "idle"
          /\ at'["closer"].stage = "release" => at["closer"].stage = "release"
      BY <1>1, <2>3, CallerFacts
    <3> QED
      BY <1>3, <2>1, <3>1 DEF FrrInv, Closes
  <2> QED
    BY <2>4, <2>5, <2>6, <2>7, <2>8 DEF FrrInv
<1>5. CASE Frr!Incomplete(x) /\ leader' = leader
  <2>1. at[x].stage \in Stopping \ {"join"}
    BY <1>1
  <2>2. /\ Locked' /\ Progress' /\ Registered' /\ Closes'
        /\ at' \in [Frr!Caller -> Places] /\ stopMu' \in [Child -> Frr!Caller \cup {"free"}]
        /\ nsMu' \in Frr!Caller \cup {"free"} /\ todo' \subseteq Child /\ failed' \in BOOLEAN
        /\ unclean' \in BOOLEAN
    BY <1>3, <1>5, <2>1, GivesUp
  <2>3. faults' \in 0..MaxFaults
    BY <1>0, LabTyped, LabAssumption DEF Frr!Reap, Frr!Fault, Frr!NoFault
  <2>4. Frr!TypeOK'
    BY <1>0, <1>3, <1>5, <2>2, <2>3 DEF Frr!TypeOK, Places
  <2> QED
    BY <2>2, <2>4 DEF FrrInv
<1> QED
  BY <1>4, <1>5 DEF Frr!Reap

LEMMA JoinSteps ==
  ASSUME FrrInv, NEW x \in Frr!Caller, Frr!Join(x)
  PROVE  FrrInv'
<1>0. Frr!TypeOK
  BY DEF FrrInv
<1>1. at[x].stage = "join" /\ at[x].stage \in Stopping
  BY DEF Frr!Join, Stopping
<1>2. PICK c \in Child :
        /\ c = at[x].child /\ stopMu[c] = x /\ c \notin reaped /\ leader[c] = "reaped" /\ ~kin[c]
  BY <1>1, LockFacts DEF Progressed
<1>3. /\ watch[c] # "watching"
      /\ pidfd' = [pidfd EXCEPT ![c] = "closed"]
      /\ reaped' = reaped \cup {c} /\ children' = children \ {c}
      /\ stopMu' = [stopMu EXCEPT ![c] = "free"]
      /\ Frr!Returns(x, TRUE)
      /\ UNCHANGED <<leader, kin, killed, watch, mine, closing, closed, unclean, holder, pins, faults>>
  BY <1>2 DEF Frr!Join
<1>4. /\ at' \in [Frr!Caller -> Places]
      /\ at'[x].stage = IF x = "closer" THEN "stopping" ELSE "idle"
      /\ \A y \in Frr!Caller \ {x} : at'[y] = at[y]
      /\ nsMu' \in Frr!Caller \cup {"free"} /\ todo' \subseteq todo /\ failed' \in BOOLEAN
      /\ x = "closer" => todo' = todo \ {c} /\ (failed => failed')
      /\ x = "owner" => todo' = todo /\ failed' = failed
  BY <1>0, <1>2, <1>3, ReturnsFacts
<1>5. /\ pidfd'[c] = "closed" /\ stopMu'[c] = "free"
      /\ \A d \in Child \ {c} : pidfd'[d] = pidfd[d] /\ stopMu'[d] = stopMu[d]
      /\ pidfd' \in [Child -> {"none", "open", "closed"}]
      /\ stopMu' \in [Child -> Frr!Caller \cup {"free"}]
  BY <1>0, <1>3, LabTyped
<1>6. Frr!TypeOK'
  BY <1>0, <1>3, <1>4, <1>5 DEF Frr!TypeOK, Places
<1>7. Locked'
  BY <1>1, <1>2, <1>3, <1>4, DropsLock
<1>8. Progress'
  <2>1. Progressed(x)'
    BY <1>4 DEF Progressed
  <2>2. ASSUME NEW y \in Frr!Caller, y # x PROVE Progressed(y)'
    <3>1. at'[y] = at[y]
      BY <1>4, <2>2
    <3> QED
      BY <1>3, <3>1 DEF FrrInv, Progress, Progressed, Stopping
  <2> QED
    BY <2>1, <2>2 DEF Progress
<1>9. Registered'
  <2>1. ASSUME NEW d \in Child, d # c PROVE Known(d)'
    BY <1>3, <1>4, <1>5, <2>1 DEF FrrInv, Registered, Known
  <2>2. Known(c)'
    BY <1>2, <1>3, <1>5 DEF Known
  <2> QED
    BY <2>1, <2>2 DEF Registered
<1>10. Closes'
  <2>1. CASE x = "closer"
    <3>1. closing /\ (failed \/ children \subseteq todo)
      BY <1>1, <2>1 DEF FrrInv, Closes
    <3>2. failed' \/ children' \subseteq todo'
      BY <1>3, <1>4, <2>1, <3>1
    <3>3. at'["closer"].stage = "stopping"
      BY <1>4, <2>1
    <3>4. (closed => holder = "reaped" /\ children = {}) /\ (~pins => closed)
      BY DEF FrrInv, Closes
    <3> QED
      BY <1>3, <3>1, <3>2, <3>3, <3>4 DEF Closes
  <2>2. CASE x = "owner"
    <3>1. at'["closer"] = at["closer"] /\ todo' = todo /\ failed' = failed
      BY <1>4, <2>2, CallerFacts
    <3> QED
      BY <1>3, <3>1 DEF FrrInv, Closes
  <2> QED
    BY <2>1, <2>2, CallerFacts
<1> QED
  BY <1>6, <1>7, <1>8, <1>9, <1>10 DEF FrrInv

\* Taking the lock of a child: only a child that is not reaped is locked.
LEMMA LockSteps ==
  ASSUME FrrInv, NEW x \in Frr!Caller, Frr!Locks(x)
  PROVE  FrrInv'
<1>0. Frr!TypeOK /\ at[x].stage = "lock" /\ at[x].stage \notin Stopping
  BY CallerFacts DEF FrrInv, Frr!Locks
<1>1. PICK c \in Child : c = at[x].child /\ leader[c] # "none" /\ stopMu[c] = "free"
  BY <1>0 DEF FrrInv, Locked, Frr!Locks
<1>2. UNCHANGED <<leader, kin, killed, watch, pidfd, reaped, children, mine, closing, closed, unclean,
                  holder, pins, faults>>
  BY DEF Frr!Locks, Frr!procVars
<1>3. CASE c \in reaped
  <2>1. Frr!Returns(x, TRUE) /\ stopMu' = stopMu
    BY <1>1, <1>3 DEF Frr!Locks
  <2>2. /\ at' \in [Frr!Caller -> Places]
        /\ at'[x].stage = IF x = "closer" THEN "stopping" ELSE "idle"
        /\ \A y \in Frr!Caller \ {x} : at'[y] = at[y]
        /\ nsMu' \in Frr!Caller \cup {"free"} /\ todo' \subseteq todo /\ failed' \in BOOLEAN
        /\ x = "closer" => todo' = todo \ {c} /\ (failed => failed')
        /\ x = "owner" => todo' = todo /\ failed' = failed
    BY <1>0, <1>1, <2>1, ReturnsFacts
  <2>3. Frr!TypeOK'
    BY <1>0, <1>2, <2>1, <2>2 DEF Frr!TypeOK, Places
  <2>4. Locked'
    <3>1. at'[x].stage \notin Stopping /\ at'[x].stage \notin {"verify", "lock", "release"}
      BY <2>2, CallerFacts
    <3> QED
      BY <1>0, <1>2, <2>1, <2>2, <3>1, CallerFacts, Elsewhere
  <2>5. Progress'
    BY <1>2, <2>2 DEF FrrInv, Progress, Progressed
  <2>6. Registered'
    BY <1>2, <2>1, <2>2 DEF FrrInv, Registered, Known
  <2>7. Closes'
    <3>0. c \notin children
      BY <1>3 DEF FrrInv, Registered, Known
    <3>1. CASE x = "closer"
      <4>1. closing /\ (failed \/ children \subseteq todo)
        BY <1>0, <3>1 DEF FrrInv, Closes
      <4>2. failed' \/ children' \subseteq todo'
        BY <1>2, <2>2, <3>0, <3>1, <4>1
      <4>3. at'["closer"].stage = "stopping"
        BY <2>2, <3>1
      <4>4. (closed => holder = "reaped" /\ children = {}) /\ (~pins => closed)
        BY DEF FrrInv, Closes
      <4> QED
        BY <1>2, <4>1, <4>2, <4>3, <4>4 DEF Closes
    <3>2. CASE x = "owner"
      <4>1. at'["closer"] = at["closer"] /\ todo' = todo /\ failed' = failed
        BY <2>2, <3>2, CallerFacts
      <4> QED
        BY <1>2, <4>1 DEF FrrInv, Closes
    <3> QED
      BY <3>1, <3>2, CallerFacts
  <2> QED
    BY <2>3, <2>4, <2>5, <2>6, <2>7 DEF FrrInv
<1>4. CASE c \notin reaped
  <2>1. /\ stopMu' = [stopMu EXCEPT ![c] = x] /\ Frr!Looks(x, "term")
        /\ UNCHANGED <<nsMu, todo, failed>>
    BY <1>1, <1>4 DEF Frr!Locks
  <2>2. /\ at' \in [Frr!Caller -> Places]
        /\ at'[x].stage = "look" /\ at'[x].child = c /\ at'[x].round = "term"
        /\ \A y \in Frr!Caller \ {x} : at'[y] = at[y]
    BY <1>0, <1>1, <2>1, LooksFacts, LabTyped
  <2>3. /\ stopMu'[c] = x /\ \A d \in Child \ {c} : stopMu'[d] = stopMu[d]
        /\ stopMu' \in [Child -> Frr!Caller \cup {"free"}]
    BY <1>0, <2>1, LabTyped
  <2>4. Frr!TypeOK'
    BY <1>0, <1>2, <2>1, <2>2, <2>3 DEF Frr!TypeOK, Places
  <2>5. Locked'
    <3>1. ASSUME NEW y \in Frr!Caller, at'[y].stage \in Stopping
          PROVE  at'[y].child \in Child /\ stopMu'[at'[y].child] = y /\ at'[y].round # "none"
      <4>1. CASE y = x
        BY <2>2, <2>3, <4>1
      <4>2. CASE y # x
        <5>1. at'[y] = at[y]
          BY <2>2, <4>2
        <5>2. at[y].child \in Child /\ stopMu[at[y].child] = y /\ at[y].round # "none"
          BY <3>1, <5>1 DEF FrrInv, Locked
        <5>3. at[y].child # c
          BY <1>1, <5>2, CallerFacts
        <5> QED
          BY <2>3, <5>1, <5>2, <5>3
      <4> QED
        BY <4>1, <4>2
    <3>2. ASSUME NEW d \in Child, NEW y \in Frr!Caller, stopMu'[d] = y
          PROVE  at'[y].stage \in Stopping /\ at'[y].child = d
      <4>1. CASE d = c
        BY <2>2, <2>3, <3>2, <4>1 DEF Stopping
      <4>2. CASE d # c
        <5>1. at[y].stage \in Stopping /\ at[y].child = d
          BY <2>3, <3>2, <4>2 DEF FrrInv, Locked
        <5>2. y # x
          BY <1>0, <5>1
        <5> QED
          BY <2>2, <5>1, <5>2
      <4> QED
        BY <4>1, <4>2
    <3>3. \A y \in Frr!Caller : at'[y].stage \in {"verify", "lock"} =>
            at'[y].child \in Child /\ leader'[at'[y].child] # "none"
      BY <1>2, <2>2 DEF FrrInv, Locked
    <3>4. at'["owner"].stage \notin {"stopping", "release"} /\ at'["closer"].stage # "verify"
      BY <2>2, CallerFacts DEF FrrInv, Locked
    <3> QED
      BY <3>1, <3>2, <3>3, <3>4 DEF Locked
  <2>6. Progress'
    <3>1. Known(c) /\ leader[c] \in {"running", "zombie"}
      <4>1. leader[c] \in {"none", "running", "zombie", "reaped"}
        BY <1>0, LabTyped
      <4> QED
        BY <1>1, <1>4, <4>1 DEF FrrInv, Registered, Known
    <3>2. Progressed(x)'
      BY <1>2, <2>2, <3>1 DEF Progressed
    <3>3. ASSUME NEW y \in Frr!Caller, y # x PROVE Progressed(y)'
      <4>1. at'[y] = at[y]
        BY <2>2, <3>3
      <4> QED
        BY <1>2, <4>1 DEF FrrInv, Progress, Progressed, Stopping
    <3> QED
      BY <3>2, <3>3 DEF Progress
  <2>7. Registered'
    <3>1. ASSUME NEW d \in Child, d # c PROVE Known(d)'
      BY <1>2, <2>1, <2>3, <3>1 DEF FrrInv, Registered, Known
    <3>2. Known(c)'
      BY <1>1, <1>2, <1>4, <2>1, <2>3, CallerFacts DEF FrrInv, Registered, Known
    <3> QED
      BY <3>1, <3>2 DEF Registered
  <2>8. Closes'
    <3>1. /\ at'["closer"].stage # "idle" => at["closer"].stage # "idle"
          /\ at'["closer"].stage = "release" => at["closer"].stage = "release"
      BY <1>0, <2>2, CallerFacts
    <3> QED
      BY <1>2, <2>1, <3>1 DEF FrrInv, Closes
  <2> QED
    BY <2>4, <2>5, <2>6, <2>7, <2>8 DEF FrrInv
<1> QED
  BY <1>3, <1>4

-----------------------------------------------------------------------------
\* The owner's other steps: a start, its verification, and a call of Stop.
LEMMA OwnerSteps ==
  ASSUME FrrInv,
         Frr!VerifyPasses \/ Frr!VerifyFails
         \/ \E c \in Child : Frr!Start(c) \/ Frr!OwnerStops(c)
  PROVE  FrrInv'
<1>0. Frr!TypeOK /\ "owner" \in Frr!Caller /\ "closer" \in Frr!Caller \ {"owner"}
  BY CallerFacts DEF FrrInv
<1>1. ASSUME NEW c \in Child, Frr!Start(c) PROVE FrrInv'
  <2>0. /\ at["owner"].stage = "idle" /\ leader[c] = "none" /\ ~closing /\ ~closed
        /\ nsMu' = "owner" /\ leader' = [leader EXCEPT ![c] = "running"] /\ kin' = [kin EXCEPT ![c] = TRUE]
        /\ watch' = [watch EXCEPT ![c] = "watching"] /\ pidfd' = [pidfd EXCEPT ![c] = "open"]
        /\ children' = children \cup {c}
        /\ at' = [at EXCEPT !["owner"] =
                    [Frr!Idle EXCEPT !.stage = "verify", !.child = c, !.starting = TRUE]]
        /\ UNCHANGED <<killed, stopMu, reaped, mine, closing, closed, unclean, holder, pins, todo, failed,
                       faults>>
    BY <1>1 DEF Frr!Start
  <2>1. /\ leader'[c] = "running" /\ pidfd'[c] = "open" /\ kin'[c] /\ watch'[c] = "watching"
        /\ \A d \in Child \ {c} : /\ leader'[d] = leader[d] /\ kin'[d] = kin[d]
                                  /\ watch'[d] = watch[d] /\ pidfd'[d] = pidfd[d]
    BY <1>0, <2>0, LabTyped
  <2>2. /\ at' \in [Frr!Caller -> Places] /\ at'["owner"].stage = "verify" /\ at'["owner"].child = c
        /\ at'["closer"] = at["closer"]
    <3>1. "verify" \in Frr!Stages
      BY DEF Frr!Stages
    <3>2. PICK place : place = [Frr!Idle EXCEPT !.stage = "verify", !.child = c, !.starting = TRUE]
      OBVIOUS
    <3>3. Frr!Idle \in Places
      BY PlaceFacts
    <3>4. place \in Places /\ place.stage = "verify" /\ place.child = c
      BY <3>1, <3>2, <3>3 DEF Places
    <3>5. at' = [at EXCEPT !["owner"] = place]
      BY <2>0, <3>2
    <3> QED
      BY <1>0, <3>4, <3>5, LabTyped, Settles
  <2>3. Frr!TypeOK'
    <3>1. /\ leader' \in [Child -> {"none", "running", "zombie", "reaped"}]
          /\ kin' \in [Child -> BOOLEAN]
          /\ watch' \in [Child -> {"off", "watching", "done", "lost"}]
          /\ pidfd' \in [Child -> {"none", "open", "closed"}]
      BY <1>0, <2>0, LabTyped
    <3> QED
      BY <1>0, <2>0, <2>2, <3>1 DEF Frr!TypeOK, Places
  <2>4. Locked'
    <3>1. \A d \in Child : leader[d] # "none" => leader'[d] # "none"
      BY <2>1
    <3>2. at["owner"].stage \notin Stopping /\ at'["owner"].stage \notin Stopping
      BY <2>0, <2>2, CallerFacts
    <3>3. \A y \in Frr!Caller \ {"owner"} : at'[y] = at[y]
      BY <2>2, CallerFacts
    <3> QED
      BY <1>0, <2>0, <2>1, <2>2, <3>1, <3>2, <3>3, Elsewhere
  <2>5. Progress'
    <3>1. Progressed("owner")'
      BY <2>2 DEF Progressed
    <3>2. at["closer"].stage \in Stopping => at["closer"].child \in Child \ {c}
      BY <1>0, <2>0, LockFacts
    <3>3. Progressed("closer")'
      BY <1>0, <2>1, <2>2, <3>2 DEF FrrInv, Progress, Progressed, Stopping
    <3> QED
      BY <3>1, <3>3, CallerFacts DEF Progress
  <2>6. Registered'
    <3>1. ASSUME NEW d \in Child, d # c PROVE Known(d)'
      BY <2>0, <2>1, <3>1 DEF FrrInv, Registered, Known
    <3>2. Known(c)'
      BY <2>0, <2>1 DEF FrrInv, Registered, Known
    <3> QED
      BY <3>1, <3>2 DEF Registered
  <2>7. Closes'
    BY <2>0, <2>2 DEF FrrInv, Closes
  <2> QED
    BY <2>3, <2>4, <2>5, <2>6, <2>7 DEF FrrInv
<1>2. CASE Frr!VerifyPasses
  <2>0. /\ at["owner"].stage = "verify" /\ nsMu' = "free" /\ mine' = mine \cup {at["owner"].child}
        /\ at' = [at EXCEPT !["owner"] = Frr!Idle]
        /\ UNCHANGED <<leader, kin, killed, watch, pidfd, stopMu, reaped, children, closing, closed, unclean,
                       holder, pins, todo, failed, faults>>
    BY <1>2 DEF Frr!VerifyPasses, Frr!procVars, Frr!stopVars
  <2>1. at["owner"].child \in Child /\ leader[at["owner"].child] # "none"
    BY <1>0, <2>0 DEF FrrInv, Locked
  <2>2. /\ at' \in [Frr!Caller -> Places] /\ at'["owner"].stage = "idle" /\ at'["closer"] = at["closer"]
    <3>1. PICK place \in Places : place = Frr!Idle /\ place.stage = "idle"
      BY PlaceFacts
    <3>2. at' = [at EXCEPT !["owner"] = place]
      BY <2>0, <3>1
    <3> QED
      BY <1>0, <3>1, <3>2, LabTyped, Settles
  <2>3. Frr!TypeOK'
    BY <1>0, <2>0, <2>1, <2>2 DEF Frr!TypeOK, Places
  <2>4. Locked'
    <3>2. at["owner"].stage \notin Stopping /\ at'["owner"].stage \notin Stopping
      BY <2>0, <2>2, CallerFacts
    <3>3. \A y \in Frr!Caller \ {"owner"} : at'[y] = at[y]
      BY <2>2, CallerFacts
    <3> QED
      BY <1>0, <2>0, <2>2, <3>2, <3>3, Elsewhere
  <2>5. Progress'
    <3>1. Progressed("owner")'
      BY <2>2 DEF Progressed
    <3>2. Progressed("closer")'
      BY <1>0, <2>0, <2>2 DEF FrrInv, Progress, Progressed
    <3> QED
      BY <3>1, <3>2, CallerFacts DEF Progress
  <2>6. Registered'
    BY <2>0, <2>1 DEF FrrInv, Registered, Known
  <2>7. Closes'
    BY <2>0, <2>2 DEF FrrInv, Closes
  <2> QED
    BY <2>3, <2>4, <2>5, <2>6, <2>7 DEF FrrInv
<1>3. CASE Frr!VerifyFails
  <2>0. /\ at["owner"].stage = "verify" /\ Frr!Goes("owner", "lock")
        /\ UNCHANGED <<leader, kin, killed, watch, pidfd, stopMu, reaped, children, mine, nsMu, closing,
                       closed, unclean, holder, pins, todo, failed, faults>>
    BY <1>3 DEF Frr!VerifyFails, Frr!procVars, Frr!stopVars, Frr!nsVars
  <2>1. at["owner"].child \in Child /\ leader[at["owner"].child] # "none"
    BY <1>0, <2>0 DEF FrrInv, Locked
  <2>2. /\ at' \in [Frr!Caller -> Places] /\ at'["owner"].stage = "lock"
        /\ at'["owner"].child = at["owner"].child /\ at'["closer"] = at["closer"]
    <3>1. "lock" \in Frr!Stages
      BY DEF Frr!Stages
    <3> QED
      BY <1>0, <2>0, <3>1, LabTyped, GoesFacts
  <2>3. Frr!TypeOK'
    BY <1>0, <2>0, <2>2 DEF Frr!TypeOK, Places
  <2>4. Locked'
    <3>2. at["owner"].stage \notin Stopping /\ at'["owner"].stage \notin Stopping
      BY <2>0, <2>2, CallerFacts
    <3>3. \A y \in Frr!Caller \ {"owner"} : at'[y] = at[y]
      BY <2>2, CallerFacts
    <3> QED
      BY <1>0, <2>0, <2>1, <2>2, <3>2, <3>3, Elsewhere
  <2>5. Progress'
    <3>1. Progressed("owner")'
      BY <2>2 DEF Progressed
    <3>2. Progressed("closer")'
      BY <1>0, <2>0, <2>2 DEF FrrInv, Progress, Progressed
    <3> QED
      BY <3>1, <3>2, CallerFacts DEF Progress
  <2>6. Registered'
    BY <2>0 DEF FrrInv, Registered, Known
  <2>7. Closes'
    BY <2>0, <2>2 DEF FrrInv, Closes
  <2> QED
    BY <2>3, <2>4, <2>5, <2>6, <2>7 DEF FrrInv
<1>4. ASSUME NEW c \in Child, Frr!OwnerStops(c) PROVE FrrInv'
  <2>0. /\ at["owner"].stage = "idle" /\ c \in mine
        /\ at' = [at EXCEPT !["owner"] = [Frr!Idle EXCEPT !.stage = "lock", !.child = c]]
        /\ UNCHANGED <<leader, kin, killed, watch, pidfd, stopMu, reaped, children, mine, nsMu, closing,
                       closed, unclean, holder, pins, todo, failed, faults>>
    BY <1>4 DEF Frr!OwnerStops, Frr!procVars, Frr!stopVars, Frr!nsVars
  <2>1. leader[c] # "none"
    BY <2>0 DEF FrrInv, Registered, Known
  <2>2. /\ at' \in [Frr!Caller -> Places] /\ at'["owner"].stage = "lock" /\ at'["owner"].child = c
        /\ at'["closer"] = at["closer"]
    <3>1. "lock" \in Frr!Stages
      BY DEF Frr!Stages
    <3>2. PICK place : place = [Frr!Idle EXCEPT !.stage = "lock", !.child = c]
      OBVIOUS
    <3>3. Frr!Idle \in Places
      BY PlaceFacts
    <3>4. place \in Places /\ place.stage = "lock" /\ place.child = c
      BY <3>1, <3>2, <3>3 DEF Places
    <3>5. at' = [at EXCEPT !["owner"] = place]
      BY <2>0, <3>2
    <3> QED
      BY <1>0, <3>4, <3>5, LabTyped, Settles
  <2>3. Frr!TypeOK'
    BY <1>0, <2>0, <2>2 DEF Frr!TypeOK, Places
  <2>4. Locked'
    <3>2. at["owner"].stage \notin Stopping /\ at'["owner"].stage \notin Stopping
      BY <2>0, <2>2, CallerFacts
    <3>3. \A y \in Frr!Caller \ {"owner"} : at'[y] = at[y]
      BY <2>2, CallerFacts
    <3> QED
      BY <1>0, <2>0, <2>1, <2>2, <3>2, <3>3, Elsewhere
  <2>5. Progress'
    <3>1. Progressed("owner")'
      BY <2>2 DEF Progressed
    <3>2. Progressed("closer")'
      BY <1>0, <2>0, <2>2 DEF FrrInv, Progress, Progressed
    <3> QED
      BY <3>1, <3>2, CallerFacts DEF Progress
  <2>6. Registered'
    BY <2>0 DEF FrrInv, Registered, Known
  <2>7. Closes'
    BY <2>0, <2>2 DEF FrrInv, Closes
  <2> QED
    BY <2>3, <2>4, <2>5, <2>6, <2>7 DEF FrrInv
<1> QED
  BY <1>1, <1>2, <1>3, <1>4

\* Close moves between its children: nobody is locked, and only the closer moves.
LEMMA CloserMoves ==
  ASSUME FrrInv, at["closer"].stage \notin Stopping, at'["closer"].stage \notin Stopping,
         at' \in [Frr!Caller -> Places], at'["owner"] = at["owner"],
         at'["closer"].stage # "verify",
         at'["closer"].stage = "lock" =>
           at'["closer"].child \in Child /\ leader[at'["closer"].child] # "none",
         UNCHANGED <<leader, kin, watch, pidfd, stopMu, reaped, children, mine>>,
         todo' \subseteq todo \cup children
  PROVE  Locked' /\ Progress' /\ Registered'
<1>1. Locked'
  <2>1. \A y \in Frr!Caller \ {"closer"} : at'[y] = at[y]
    BY CallerFacts
  <2>2. "closer" \in Frr!Caller /\ "closer" # "owner"
    BY CallerFacts
  <2> QED
    BY <2>1, <2>2, Elsewhere
<1>2. Progress'
  <2>1. Progressed("closer")'
    BY DEF Progressed, Stopping
  <2>2. Progressed("owner")'
    BY CallerFacts DEF FrrInv, Progress, Progressed
  <2> QED
    BY <2>1, <2>2, CallerFacts DEF Progress
<1>3. Registered'
  BY DEF FrrInv, Registered, Known
<1> QED
  BY <1>1, <1>2, <1>3

LEMMA CloseSteps ==
  ASSUME FrrInv,
         Frr!CloseBegins \/ Frr!CloseFails \/ Frr!KillHolder \/ Frr!Release
         \/ \E c \in Child : Frr!CloseStops(c)
  PROVE  FrrInv'
<1>0. Frr!TypeOK /\ "closer" \in Frr!Caller /\ "owner" \in Frr!Caller \ {"closer"}
  BY CallerFacts DEF FrrInv
<1>s. /\ "idle" \notin Stopping /\ "stopping" \notin Stopping /\ "release" \notin Stopping
      /\ "lock" \notin Stopping
      /\ "idle" \in Frr!Stages /\ "stopping" \in Frr!Stages /\ "release" \in Frr!Stages
      /\ "lock" \in Frr!Stages
  BY CallerFacts DEF Frr!Stages
<1>1. CASE Frr!CloseBegins
  <2>0. /\ at["closer"].stage = "idle" /\ ~closed /\ closing' = TRUE /\ todo' = children /\ failed' = FALSE
        /\ Frr!Goes("closer", "stopping")
        /\ UNCHANGED <<leader, kin, killed, watch, pidfd, stopMu, reaped, children, mine, nsMu, closed,
                       unclean, holder, pins, faults>>
    BY <1>1 DEF Frr!CloseBegins, Frr!procVars, Frr!stopVars
  <2>1. /\ at' \in [Frr!Caller -> Places] /\ at'["closer"].stage = "stopping"
        /\ at'["owner"] = at["owner"]
    BY <1>0, <1>s, <2>0, LabTyped, GoesFacts
  <2>2. Locked' /\ Progress' /\ Registered'
    BY <1>s, <2>0, <2>1, CloserMoves
  <2>3. Frr!TypeOK'
    BY <1>0, <2>0, <2>1 DEF Frr!TypeOK, Places
  <2>4. Closes'
    BY <2>0, <2>1 DEF FrrInv, Closes
  <2> QED
    BY <2>2, <2>3, <2>4 DEF FrrInv
<1>2. ASSUME NEW c \in Child, Frr!CloseStops(c) PROVE FrrInv'
  <2>0. /\ at["closer"].stage = "stopping" /\ c \in todo
        /\ at' = [at EXCEPT !["closer"] = [Frr!Idle EXCEPT !.stage = "lock", !.child = c]]
        /\ UNCHANGED <<leader, kin, killed, watch, pidfd, stopMu, reaped, children, mine, nsMu, closing,
                       closed, unclean, holder, pins, todo, failed, faults>>
    BY <1>2 DEF Frr!CloseStops, Frr!procVars, Frr!stopVars, Frr!nsVars
  <2>1. /\ at' \in [Frr!Caller -> Places] /\ at'["closer"].stage = "lock" /\ at'["closer"].child = c
        /\ at'["owner"] = at["owner"] /\ leader[c] # "none"
    <3>1. leader[c] # "none"
      BY <2>0 DEF FrrInv, Registered, Known
    <3>2. PICK place : place = [Frr!Idle EXCEPT !.stage = "lock", !.child = c]
      OBVIOUS
    <3>3. Frr!Idle \in Places
      BY PlaceFacts
    <3>4. place \in Places /\ place.stage = "lock" /\ place.child = c
      BY <1>s, <3>2, <3>3 DEF Places
    <3>5. at' = [at EXCEPT !["closer"] = place]
      BY <2>0, <3>2
    <3> QED
      BY <1>0, <3>1, <3>4, <3>5, LabTyped, Settles
  <2>2. Locked' /\ Progress' /\ Registered'
    BY <1>s, <2>0, <2>1, CloserMoves
  <2>3. Frr!TypeOK'
    BY <1>0, <2>0, <2>1 DEF Frr!TypeOK, Places
  <2>4. Closes'
    BY <2>0, <2>1 DEF FrrInv, Closes
  <2> QED
    BY <2>2, <2>3, <2>4 DEF FrrInv
<1>3. CASE Frr!CloseFails
  <2>0. /\ at["closer"].stage = "stopping" /\ unclean' = TRUE
        /\ at' = [at EXCEPT !["closer"] = Frr!Idle]
        /\ UNCHANGED <<leader, kin, killed, watch, pidfd, stopMu, reaped, children, mine, nsMu, closing,
                       closed, holder, pins, todo, failed, faults>>
    BY <1>3 DEF Frr!CloseFails, Frr!procVars, Frr!stopVars
  <2>1. /\ at' \in [Frr!Caller -> Places] /\ at'["closer"].stage = "idle" /\ at'["owner"] = at["owner"]
    <3>1. PICK place \in Places : place = Frr!Idle /\ place.stage = "idle"
      BY PlaceFacts
    <3>2. at' = [at EXCEPT !["closer"] = place]
      BY <2>0, <3>1
    <3> QED
      BY <1>0, <3>1, <3>2, LabTyped, Settles
  <2>2. Locked' /\ Progress' /\ Registered'
    BY <1>s, <2>0, <2>1, CloserMoves
  <2>3. Frr!TypeOK'
    BY <1>0, <2>0, <2>1 DEF Frr!TypeOK, Places
  <2>4. Closes'
    BY <2>0, <2>1 DEF FrrInv, Closes
  <2> QED
    BY <2>2, <2>3, <2>4 DEF FrrInv
<1>4. CASE Frr!KillHolder
  <2>0. /\ at["closer"].stage = "stopping" /\ todo = {} /\ ~failed /\ nsMu' = "closer"
        /\ Frr!Goes("closer", "release")
        /\ killed' = killed \cup {Frr!Holder} \/ killed' = killed
        /\ faults' = faults \/ (faults < MaxFaults /\ faults' = faults + 1)
        /\ UNCHANGED <<leader, kin, watch, pidfd, stopMu, reaped, children, mine, closing, closed, unclean,
                       holder, pins, todo, failed>>
    BY <1>4 DEF Frr!KillHolder, Frr!Fault, Frr!NoFault, Frr!stopVars
  <2>1. /\ at' \in [Frr!Caller -> Places] /\ at'["closer"].stage = "release" /\ at'["owner"] = at["owner"]
    BY <1>0, <1>s, <2>0, LabTyped, GoesFacts
  <2>2. Locked' /\ Progress' /\ Registered'
    BY <1>s, <2>0, <2>1, CloserMoves
  <2>3. Frr!TypeOK'
    <3>1. faults' \in 0..MaxFaults
      BY <1>0, <2>0, LabTyped, LabAssumption
    <3>2. killed' \subseteq Child \cup {Frr!Holder}
      BY <1>0, <2>0, LabTyped
    <3>3. nsMu' \in Frr!Caller \cup {"free"}
      BY <1>0, <2>0
    <3> QED
      BY <1>0, <2>0, <2>1, <3>1, <3>2, <3>3 DEF Frr!TypeOK, Places
  <2>4. Closes'
    BY <2>0, <2>1 DEF FrrInv, Closes
  <2> QED
    BY <2>2, <2>3, <2>4 DEF FrrInv
<1>5. CASE Frr!Release
  <2>0. /\ at["closer"].stage = "release" /\ nsMu' = "free" /\ at' = [at EXCEPT !["closer"] = Frr!Idle]
        /\ \/ holder' = "reaped" /\ pins' = FALSE /\ closed' = TRUE /\ unclean' = unclean
           \/ unclean' = TRUE /\ UNCHANGED <<holder, pins, closed>>
        /\ faults' = faults \/ (faults < MaxFaults /\ faults' = faults + 1)
        /\ UNCHANGED <<leader, kin, killed, watch, pidfd, stopMu, reaped, children, mine, closing, todo,
                       failed>>
    BY <1>5 DEF Frr!Release, Frr!Fault, Frr!NoFault, Frr!procVars, Frr!stopVars
  <2>1. /\ at' \in [Frr!Caller -> Places] /\ at'["closer"].stage = "idle" /\ at'["owner"] = at["owner"]
    <3>1. PICK place \in Places : place = Frr!Idle /\ place.stage = "idle"
      BY PlaceFacts
    <3>2. at' = [at EXCEPT !["closer"] = place]
      BY <2>0, <3>1
    <3> QED
      BY <1>0, <3>1, <3>2, LabTyped, Settles
  <2>2. Locked' /\ Progress' /\ Registered'
    BY <1>s, <2>0, <2>1, CloserMoves
  <2>3. Frr!TypeOK'
    <3>1. faults' \in 0..MaxFaults
      BY <1>0, <2>0, LabTyped, LabAssumption
    <3>2. /\ holder' \in {"running", "zombie", "reaped"} /\ pins' \in BOOLEAN /\ closed' \in BOOLEAN
          /\ unclean' \in BOOLEAN
      BY <1>0, <2>0, LabTyped
    <3> QED
      BY <1>0, <2>0, <2>1, <3>1, <3>2 DEF Frr!TypeOK, Places
  <2>4. Closes'
    <3>1. closing /\ children = {}
      BY <2>0 DEF FrrInv, Closes
    <3> QED
      BY <2>0, <2>1, <3>1 DEF FrrInv, Closes
  <2> QED
    BY <2>2, <2>3, <2>4 DEF FrrInv
<1> QED
  BY <1>1, <1>2, <1>3, <1>4, <1>5

LEMMA FrrSteps ==
  ASSUME FrrInv, Frr!Next \/ UNCHANGED labVars
  PROVE  FrrInv'
<1>1. ASSUME UNCHANGED labVars PROVE FrrInv'
  <2>1. Frr!TypeOK'
    BY <1>1 DEF labVars, FrrInv, Frr!TypeOK
  <2>2. Locked' /\ Progress'
    BY <1>1 DEF labVars, FrrInv, Locked, Progress, Progressed
  <2>3. Registered'
    BY <1>1 DEF labVars, FrrInv, Registered, Known
  <2>4. Closes'
    BY <1>1 DEF labVars, FrrInv, Closes
  <2> QED
    BY <2>1, <2>2, <2>3, <2>4 DEF FrrInv
<1>2. ASSUME Frr!Over PROVE UNCHANGED labVars
  BY <1>2 DEF Frr!Over, Frr!supervisorVars, Frr!procVars, Frr!stopVars, Frr!nsVars, labVars
<1>3. ASSUME NEW x \in Frr!Caller, Frr!StopStep(x) PROVE FrrInv'
  BY <1>3, LockSteps, StopSteps, ReapSteps, JoinSteps DEF Frr!StopStep
<1>4. ASSUME Frr!OwnerStep PROVE FrrInv'
  BY <1>3, <1>4, OwnerSteps, CallerFacts DEF Frr!OwnerStep
<1>5. ASSUME Frr!CloseStep PROVE FrrInv'
  BY <1>3, <1>5, CloseSteps, CallerFacts DEF Frr!CloseStep
<1>6. ASSUME NEW c \in Child, Frr!Exits(c) \/ Frr!Watch(c) PROVE FrrInv'
  BY <1>6, KernelSteps
<1>7. ASSUME Frr!HolderExits PROVE FrrInv'
  BY <1>7, HolderStep
<1>8. ASSUME NEW c \in Child, Frr!Start(c) \/ Frr!OwnerStops(c) PROVE FrrInv'
  BY <1>8, OwnerSteps
<1> QED
  BY <1>1, <1>2, <1>4, <1>5, <1>6, <1>7, <1>8 DEF Frr!Next

-----------------------------------------------------------------------------
\* Each part keeps its own invariant, and leaves the others' alone.

ChildrenInv == ToolInv /\ ExchangeInv /\ FrrInv

LEMMA ChildrenBegin == InitChildren => ChildrenInv
<1> SUFFICES ASSUME InitChildren PROVE ChildrenInv
  OBVIOUS
<1>1. Init /\ Exchange!Init /\ Frr!Init
  BY DEF InitChildren
<1> QED
  BY <1>1, ToolBegins, ExchangeBegins, FrrBegins DEF ChildrenInv

LEMMA ChildrenSteps == ChildrenInv /\ [NextChildren]_childrenVars => ChildrenInv'
<1> SUFFICES ASSUME ChildrenInv, [NextChildren]_childrenVars PROVE ChildrenInv'
  OBVIOUS
<1>1. /\ Next \/ UNCHANGED vars
      /\ Exchange!Next \/ UNCHANGED exchangeVars
      /\ Frr!Next \/ UNCHANGED labVars
  BY DEF NextChildren, Tool, Remote, Lab, childrenVars, toolVars
<1> QED
  BY <1>1, ToolSteps, ExchangeSteps, FrrSteps DEF ChildrenInv

LEMMA ChildrenAlways == ChildrenSpec => []ChildrenInv
<1>1. ChildrenSpec => InitChildren /\ [][NextChildren]_childrenVars
  BY DEF ChildrenSpec
<1> QED
  BY <1>1, ChildrenBegin, ChildrenSteps, PTL

\* The terminal event of a tool says how its process ended and how many lines it lost
\* (jobs.go); a remote diagnosis returns an answer only when it received the whole of
\* one and the worker gave it, and blames the side that failed (remote/client.go, run,
\* transportError, runLiveTwoSided): for any number of lines and any channel.
THEOREM OutcomesTrue == ChildrenSpec => []OutcomesAreTrue
<1>1. ChildrenInv => OutcomesAreTrue
  <2> SUFFICES ASSUME ChildrenInv PROVE OutcomesAreTrue
    OBVIOUS
  <2>1. TerminalIsTrue
    <3> SUFFICES ASSUME terminal.done, cleanup = "no"
                 PROVE  /\ shown + terminal.dropped = written["stdout"] + written["stderr"]
                        /\ terminal.status = "done" <=> proc = "zero"
      BY DEF TerminalIsTrue
    <3>0. ToolInv
      BY DEF ChildrenInv
    <3>1. /\ job = "gone" /\ terminal.dropped = dropped /\ (terminal.status = "done" <=> proc = "zero")
      BY <3>0 DEF ToolInv, Queue, Told
    <3>2. Unread = 0
      <4>1. pipe["stdout"] = 0 /\ pipe["stderr"] = 0
        BY <3>0, <3>1 DEF ToolInv, Drains, Pipe
      <4> QED
        BY <4>1 DEF Unread
    <3>3. Underway = 0
      BY <3>1 DEF Underway
    <3>4. Written = Unread + dropped + shown + Underway
      BY <3>0 DEF ToolInv, Accounts
    <3>5. dropped \in Nat /\ shown \in Nat
      BY <3>0, ToolFacts
    <3>6. Written = shown + dropped
      BY <3>2, <3>3, <3>4, <3>5
    <3> QED
      BY <3>1, <3>6 DEF Written
  <2>2. Exchange!AnswersAreWhole
    BY DEF ChildrenInv, ExchangeInv, Delivered, Decoded, Blamed, Exchange!AnswersAreWhole,
       Exchange!Answers
  <2>3. Exchange!BlameIsTrue
    BY DEF ChildrenInv, ExchangeInv, Blamed
  <2> QED
    BY <2>1, <2>2, <2>3 DEF OutcomesAreTrue
<1> QED
  BY <1>1, ChildrenAlways, PTL

\* A child's group is signalled only while its leader is unreaped, and its pidfd is
\* closed only when the watcher and every Stop are done with it (child_linux.go, Stop
\* and signalGroup): for any number of children, and however often the kernel fails.
THEOREM HandlesCurrent == ChildrenSpec => []NoStaleHandle
<1>1. ChildrenInv => NoStaleHandle
  <2> SUFFICES ASSUME ChildrenInv PROVE NoStaleHandle
    OBVIOUS
  <2>0. FrrInv
    BY DEF ChildrenInv
  <2> SUFFICES ASSUME NEW c \in Child
               PROVE  /\ \A x \in Frr!Caller : at[x].stage = "send" /\ at[x].child = c =>
                                                 leader[c] \in {"running", "zombie"}
                      /\ pidfd[c] = "closed" => watch[c] # "watching" /\ stopMu[c] = "free" /\ c \in reaped
                      /\ leader[c] \in {"running", "zombie"} => pidfd[c] = "open" /\ c \in children
    BY DEF NoStaleHandle, Frr!NoStaleHandle
  <2>1. Known(c) /\ leader[c] \in {"none", "running", "zombie", "reaped"}
    BY <2>0, LabTyped DEF FrrInv, Registered
  <2>2. \A x \in Frr!Caller : at[x].stage = "send" => leader[at[x].child] \in {"running", "zombie"}
    BY <2>0 DEF FrrInv, Progress, Progressed
  <2> QED
    BY <2>1, <2>2 DEF Known
<1> QED
  BY <1>1, ChildrenAlways, PTL

\* A Stop that succeeds leaves nothing of the group, and a closed namespace leaves no
\* child, no holder and nothing that pins it (namespace_linux.go, Close and release):
\* for any number of children, and however often the kernel fails.
THEOREM CleanAfterClose == ChildrenSpec => []ClosedIsClean
<1>1. ChildrenInv => ClosedIsClean
  <2> SUFFICES ASSUME ChildrenInv PROVE ClosedIsClean
    OBVIOUS
  <2>0. FrrInv
    BY DEF ChildrenInv
  <2>1. \A c \in Child : Known(c) /\ leader[c] \in {"none", "running", "zombie", "reaped"}
    BY <2>0, LabTyped DEF FrrInv, Registered
  <2>2. reaped \subseteq Child
    BY <2>0, LabTyped DEF FrrInv
  <2>3. \A c \in reaped : leader[c] = "reaped" /\ ~kin[c] /\ c \notin children
    BY <2>1, <2>2 DEF Known
  <2>4. (closed => holder = "reaped" /\ children = {}) /\ (~pins => closed)
    BY <2>0 DEF FrrInv, Closes
  <2>5. closed => \A c \in Child : leader[c] \in {"none", "reaped"}
    <3> SUFFICES ASSUME closed, NEW c \in Child, leader[c] # "none" PROVE leader[c] = "reaped"
      BY <2>1
    <3>1. c \in reaped
      BY <2>1, <2>4 DEF Known
    <3> QED
      BY <2>3, <3>1
  <2> QED
    BY <2>3, <2>4, <2>5 DEF ClosedIsClean, Frr!ClosedIsClean
<1> QED
  BY <1>1, ChildrenAlways, PTL

\* The types of the three parts.
THEOREM ChildrenTypeCorrect == ChildrenSpec => [](TypeOK /\ Exchange!TypeOK /\ Frr!TypeOK)
<1>1. ChildrenInv => TypeOK /\ Exchange!TypeOK /\ Frr!TypeOK
  <2> SUFFICES ASSUME ChildrenInv PROVE TypeOK /\ Exchange!TypeOK /\ Frr!TypeOK
    OBVIOUS
  <2>1. ToolInv /\ Frr!TypeOK
    BY DEF ChildrenInv, FrrInv
  <2>2. \A i \in 1..Len(channel) : channel[i] \in Messages
    <3>1. channel \in Seq(Messages)
      BY <2>1 DEF ToolInv, ToolTyped
    <3> QED
      BY <3>1
  <2>3. \A p \in Pipe : pipe[p] \in 0..MaxLines /\ written[p] \in 0..MaxLines
    BY <2>1 DEF ToolInv, ToolTyped
  <2>4. TypeOK
    BY <2>1, <2>2, <2>3 DEF ToolInv, ToolTyped, TypeOK
  <2>5. Exchange!TypeOK
    <3>1. Phases /\ Results /\ Flags
      BY DEF ChildrenInv, ExchangeInv
    <3>2. /\ worker \in {"starting", "diagnosing"} \cup Exchange!Answers
          /\ decoded \in {"nothing", "no response", "unreadable"} \cup Exchange!Answers
          /\ outcome \in {"none", "timed out", "ssh failed", "no response", "unreadable"}
                        \cup Exchange!Answers
      BY <3>1 DEF Results, Exchange!Answers
    <3>3. {deadline, signalled, cancelled} \subseteq BOOLEAN /\ followed \in BOOLEAN
      BY <3>1 DEF Flags
    <3> QED
      BY <3>1, <3>2, <3>3, Zenon DEF Phases, Exchange!TypeOK
  <2> QED
    BY <2>1, <2>4, <2>5
<1> QED
  BY <1>1, ChildrenAlways, PTL

=============================================================================
