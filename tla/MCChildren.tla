---------------------------- MODULE MCChildren ----------------------------
(***************************************************************************)
(* The parts of the repository that own child processes, for TLC: a tool   *)
(* of the UI (ToolJob), the ssh of a remote diagnosis (RemoteExchange) and *)
(* the children of the FRR supervisor (Supervisor). They share no state:   *)
(* a behaviour is one of one part, and the others stay as they begin.      *)
(***************************************************************************)
EXTENDS ToolJob

CONSTANTS Child, MaxFaults

ASSUME LabAssumption == MaxFaults \in Nat

VARIABLES
  part,
  call, stdin, ssh, worker, stdout, followed, decoded, deadline, signalled, cancelled,
  outcome, local, verdict,
  leader, kin, killed, watch, pidfd, stopMu, reaped, children, mine, nsMu,
  closing, closed, unclean, holder, pins, at, todo, failed, faults

Exchange == INSTANCE RemoteExchange
Frr == INSTANCE Supervisor WITH proc <- leader

toolVars == vars
exchangeVars == <<call, stdin, ssh, worker, stdout, followed, decoded, deadline, signalled,
                  cancelled, outcome, local, verdict>>
labVars == <<leader, kin, killed, watch, pidfd, stopMu, reaped, children, mine, nsMu, closing,
             closed, unclean, holder, pins, at, todo, failed, faults>>
childrenVars == <<part, toolVars, exchangeVars, labVars>>

InitChildren ==
  /\ part \in {"tool", "exchange", "supervisor"}
  /\ Init /\ Exchange!Init /\ Frr!Init
  /\ part # "supervisor" => ~unclean

Tool == part = "tool" /\ UNCHANGED <<part, exchangeVars, labVars>>
Remote == part = "exchange" /\ UNCHANGED <<part, toolVars, labVars>>
Lab == part = "supervisor" /\ UNCHANGED <<part, toolVars, exchangeVars>>

NextChildren ==
  \/ Tool /\ Next
  \/ Remote /\ Exchange!Next
  \/ Lab /\ Frr!Next

\* The fairness of each module, for the behaviours that are its own.
FairTool ==
  /\ WF_childrenVars(Tool /\ ProcessEnds) /\ WF_childrenVars(Tool /\ Streams)
  /\ WF_childrenVars(Tool /\ JobSteps) /\ WF_childrenVars(Tool /\ UpdateReads)
  /\ WF_childrenVars(Tool /\ (CleanupReads \/ GraceEnds))
FairRemote ==
  /\ WF_childrenVars(Remote /\ Exchange!RunStep) /\ WF_childrenVars(Remote /\ Exchange!LocalEnds)
  /\ WF_childrenVars(Remote /\ Exchange!Report) /\ WF_childrenVars(Remote /\ Exchange!ContextKills)
  /\ WF_childrenVars(Remote /\ Exchange!DeadlineEnds)
FairLab ==
  /\ WF_childrenVars(Lab /\ Frr!OwnerStep) /\ WF_childrenVars(Lab /\ Frr!CloseStep)
  /\ WF_childrenVars(Lab /\ Frr!KilledHolderExits)
  /\ \A c \in Child :
       WF_childrenVars(Lab /\ Frr!KilledExits(c)) /\ WF_childrenVars(Lab /\ Frr!Watch(c))

ChildrenSpec ==
  /\ InitChildren /\ [][NextChildren]_childrenVars
  /\ FairTool /\ FairRemote /\ FairLab

-----------------------------------------------------------------------------
\* The properties of the parts, stated and explained in their modules.

\* What is said of a child is true: the terminal event of a tool (jobs.go), and of
\* a remote diagnosis the answer it returns (remote/client.go, run) and the side it
\* blames (transportError, runLiveTwoSided).
OutcomesAreTrue == TerminalIsTrue /\ Exchange!AnswersAreWhole /\ Exchange!BlameIsTrue

\* Process numbers and pidfds of the supervisor (child_linux.go).
NoStaleHandle == Frr!NoStaleHandle

\* What a successful Stop and Close of the supervisor leave behind.
ClosedIsClean == Frr!ClosedIsClean

\* Every part gets rid of its children: a tool's terminal event arrives unless the
\* program leaves, which no job holds up (jobs.go), a remote run reports whatever
\* ssh does, and the supervisor's Close succeeds however the kernel fails.
ChildrenEnd ==
  <>(CASE part = "tool" -> JobOver
       [] part = "exchange" -> Exchange!ExchangeOver
       [] part = "supervisor" -> Frr!CleanupOver)
=============================================================================
