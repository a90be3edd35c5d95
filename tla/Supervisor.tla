----------------------------- MODULE Supervisor -----------------------------
(***************************************************************************)
(* The FRR evidence supervisor (contrib/frr-correlation/supervisor): a     *)
(* namespace kept by a holder process, the children started in it, and     *)
(* their cleanup, which can fail half-way and be tried again.              *)
(*                                                                         *)
(* Two goroutines use it: an owner that starts and stops children, and one *)
(* that closes the namespace. A process is running, a zombie, or reaped,   *)
(* and from then on its number may name another process or group; the      *)
(* supervisor is the only reaper of its children, as the code requires.    *)
(* Looking at a process, signalling its group and reaping it may fail.     *)
(***************************************************************************)
EXTENDS Naturals, FiniteSets

CONSTANTS
  Child,      \* the children the owner may start
  MaxFaults   \* bound: how often the kernel refuses or cannot say

VARIABLES
  proc,       \* per child: its leader
  kin,        \* per child: its group has members beside the leader
  killed,     \* processes that were sent SIGKILL
  watch,      \* per child: the watch goroutine
  pidfd,      \* per child: the descriptor
  stopMu,     \* per child: who is in Stop
  reaped,     \* children whose reaped flag is set
  children,   \* the registry
  mine,       \* the children whose handle Start returned
  nsMu,       \* who holds n.mu
  closing, closed, unclean,
  holder,     \* the holder process
  pins,       \* the descriptors of the namespaces and the holder are open
  at,         \* per goroutine: where it is
  todo,       \* the children Close has yet to stop
  failed,     \* a step of this Close has failed
  faults

procVars == <<proc, kin, killed, watch, pidfd>>
stopVars == <<stopMu, reaped, children>>
nsVars == <<mine, nsMu, closing, closed, unclean, holder, pins>>
supervisorVars == <<procVars, stopVars, nsVars, at, todo, failed, faults>>

Caller == {"owner", "closer"}
Holder == "holder"
Idle == [stage |-> "idle", child |-> Holder, round |-> "none", starting |-> FALSE]
Stages == {"idle", "verify", "lock", "look", "send", "wait", "reap", "join", "stopping", "release"}

\* NewNamespace may have failed, and have failed to clean up after itself.
Init ==
  /\ proc = [c \in Child |-> "none"] /\ kin = [c \in Child |-> FALSE] /\ killed = {}
  /\ watch = [c \in Child |-> "off"] /\ pidfd = [c \in Child |-> "none"]
  /\ stopMu = [c \in Child |-> "free"] /\ reaped = {} /\ children = {} /\ mine = {}
  /\ nsMu = "free" /\ closing = FALSE /\ closed = FALSE /\ unclean \in BOOLEAN
  /\ holder = "running" /\ pins = TRUE
  /\ at = [x \in Caller |-> Idle] /\ todo = {} /\ failed = FALSE
  /\ faults = 0

Fault == faults < MaxFaults /\ faults' = faults + 1
NoFault == UNCHANGED faults

-----------------------------------------------------------------------------
\* The kernel, and the watch goroutines.

Exits(c) ==
  /\ proc[c] = "running"
  /\ proc' = [proc EXCEPT ![c] = "zombie"]
  /\ UNCHANGED <<kin, killed, watch, pidfd, stopVars, nsVars, at, todo, failed, faults>>

HolderExits ==
  /\ holder = "running"
  /\ holder' = "zombie"
  /\ UNCHANGED <<procVars, stopVars, mine, nsMu, closing, closed, unclean, pins, at, todo, failed, faults>>

\* watch: a waitid that fails, on a leader that was reaped before it was seen
\* too, closes lost instead of done.
Watch(c) ==
  /\ watch[c] = "watching"
  /\ \/ proc[c] = "zombie" /\ watch' = [watch EXCEPT ![c] = "done"] /\ NoFault
     \/ proc[c] = "reaped" /\ watch' = [watch EXCEPT ![c] = "lost"] /\ NoFault
     \/ Fault /\ watch' = [watch EXCEPT ![c] = "lost"]
  /\ UNCHANGED <<proc, kin, killed, pidfd, stopVars, nsVars, at, todo, failed>>

-----------------------------------------------------------------------------
\* Child.Stop, called by the owner, by a Start that failed, and by Close.

Goes(x, stage) == at' = [at EXCEPT ![x].stage = stage]
Looks(x, round) == at' = [at EXCEPT ![x].stage = "look", ![x].round = round]

\* Stop returns to its caller. A Start that failed returns no handle.
Returns(x, ok) ==
  IF x = "closer"
    THEN /\ at' = [at EXCEPT ![x] = [Idle EXCEPT !.stage = "stopping"]]
         /\ todo' = todo \ {at[x].child} /\ failed' = (failed \/ ~ok)
         /\ UNCHANGED nsMu
    ELSE /\ at' = [at EXCEPT ![x] = Idle]
         /\ nsMu' = IF at[x].starting THEN "free" ELSE nsMu
         /\ UNCHANGED <<todo, failed>>

\* The child stays registered, with its pidfd, for another attempt.
Incomplete(x) ==
  /\ unclean' = TRUE
  /\ stopMu' = [stopMu EXCEPT ![at[x].child] = "free"]
  /\ Returns(x, FALSE)

Locks(x) ==
  /\ at[x].stage = "lock" /\ stopMu[at[x].child] = "free"
  /\ IF at[x].child \in reaped
       THEN Returns(x, TRUE) /\ UNCHANGED stopMu
       ELSE /\ stopMu' = [stopMu EXCEPT ![at[x].child] = x]
            /\ Looks(x, "term")
            /\ UNCHANGED <<nsMu, todo, failed>>
  /\ UNCHANGED <<procVars, reaped, children, mine, closing, closed, unclean, holder, pins, faults>>

\* signalGroup first proves the leader unreaped. Without the proof it signals
\* the leader alone, through the pidfd.
Look(x) ==
  /\ at[x].stage = "look"
  /\ \/ /\ NoFault /\ proc[at[x].child] \in {"running", "zombie"}
        /\ Goes(x, "send") /\ UNCHANGED <<killed, stopMu, unclean, nsMu, todo, failed>>
     \/ /\ Fault
        /\ killed' = IF at[x].round = "term" THEN killed ELSE killed \cup {at[x].child}
        /\ IF at[x].round = "sweep"
             THEN Incomplete(x)
             ELSE Goes(x, "wait") /\ UNCHANGED <<stopMu, unclean, nsMu, todo, failed>>
  /\ UNCHANGED <<proc, kin, watch, pidfd, reaped, children, mine, closing, closed, holder, pins>>

\* killGroup, by number. SIGKILL reaches every member at once; SIGTERM may be
\* ignored.
Send(x) ==
  /\ at[x].stage = "send"
  /\ \/ /\ NoFault
        /\ IF at[x].round = "term"
             THEN UNCHANGED <<kin, killed>>
             ELSE /\ kin' = [kin EXCEPT ![at[x].child] = FALSE]
                  /\ killed' = killed \cup {at[x].child}
        /\ Goes(x, IF at[x].round = "sweep" THEN "reap" ELSE "wait")
        /\ UNCHANGED <<stopMu, unclean, nsMu, todo, failed>>
     \/ /\ Fault /\ UNCHANGED <<kin, killed>>
        /\ IF at[x].round = "sweep"
             THEN Incomplete(x)
             ELSE Goes(x, "wait") /\ UNCHANGED <<stopMu, unclean, nsMu, todo, failed>>
  /\ UNCHANGED <<proc, watch, pidfd, reaped, children, mine, closing, closed, holder, pins>>

\* A fault: a leader that exits in its grace has nothing left to sweep.
ExitSuffices(x) ==
  /\ at[x].stage = "wait" /\ proc[at[x].child] = "zombie"
  /\ Goes(x, "reap")
  /\ UNCHANGED <<procVars, stopVars, nsVars, todo, failed, faults>>

\* waitDone: the watcher saw the exit or the pidfd shows a zombie, or the time
\* passes without either.
ExitSeen(x) ==
  /\ at[x].stage = "wait" /\ proc[at[x].child] = "zombie"
  /\ Looks(x, "sweep")
  /\ UNCHANGED <<procVars, stopVars, nsVars, todo, failed, faults>>

TimePasses(x) ==
  /\ at[x].stage = "wait"
  /\ \/ proc[at[x].child] = "running" /\ NoFault
     \/ proc[at[x].child] = "zombie" /\ watch[at[x].child] # "done" /\ Fault
  /\ IF at[x].round = "term"
       THEN Looks(x, "kill") /\ UNCHANGED <<stopMu, unclean, nsMu, todo, failed>>
       ELSE Incomplete(x)
  /\ UNCHANGED <<procVars, reaped, children, mine, closing, closed, holder, pins>>

Reap(x) ==
  /\ at[x].stage = "reap"
  /\ \/ /\ NoFault /\ proc[at[x].child] = "zombie"
        /\ proc' = [proc EXCEPT ![at[x].child] = "reaped"]
        /\ Goes(x, "join") /\ UNCHANGED <<stopMu, unclean, nsMu, todo, failed>>
     \/ Fault /\ Incomplete(x) /\ UNCHANGED proc
  /\ UNCHANGED <<kin, killed, watch, pidfd, reaped, children, mine, closing, closed, holder, pins>>

\* A fault: the pidfd is closed beside the watcher's waitid.
JoinsNobody(x) ==
  /\ at[x].stage = "join"
  /\ pidfd' = [pidfd EXCEPT ![at[x].child] = "closed"]
  /\ reaped' = reaped \cup {at[x].child} /\ children' = children \ {at[x].child}
  /\ stopMu' = [stopMu EXCEPT ![at[x].child] = "free"]
  /\ Returns(x, TRUE)
  /\ UNCHANGED <<proc, kin, killed, watch, mine, closing, closed, unclean, holder, pins, faults>>

\* A fault: only a watcher that saw the exit counts as ended.
JoinsDone(x) ==
  /\ at[x].stage = "join" /\ watch[at[x].child] = "done"
  /\ pidfd' = [pidfd EXCEPT ![at[x].child] = "closed"]
  /\ reaped' = reaped \cup {at[x].child} /\ children' = children \ {at[x].child}
  /\ stopMu' = [stopMu EXCEPT ![at[x].child] = "free"]
  /\ Returns(x, TRUE)
  /\ UNCHANGED <<proc, kin, killed, watch, mine, closing, closed, unclean, holder, pins, faults>>

\* The watcher ends once the child is reaped.
Join(x) ==
  /\ at[x].stage = "join" /\ watch[at[x].child] # "watching"
  /\ pidfd' = [pidfd EXCEPT ![at[x].child] = "closed"]
  /\ reaped' = reaped \cup {at[x].child} /\ children' = children \ {at[x].child}
  /\ stopMu' = [stopMu EXCEPT ![at[x].child] = "free"]
  /\ Returns(x, TRUE)
  /\ UNCHANGED <<proc, kin, killed, watch, mine, closing, closed, unclean, holder, pins, faults>>

StopStep(x) == Locks(x) \/ Look(x) \/ Send(x) \/ ExitSeen(x) \/ TimePasses(x) \/ Reap(x) \/ Join(x)

-----------------------------------------------------------------------------
\* The owner: Namespace.Start and Stop. Every child is taken to start others, which
\* stay in its group.

Start(c) ==
  /\ at["owner"].stage = "idle" /\ nsMu = "free" /\ proc[c] = "none"
  /\ ~closing /\ ~closed /\ ~unclean /\ holder = "running"
  /\ nsMu' = "owner"
  /\ proc' = [proc EXCEPT ![c] = "running"] /\ kin' = [kin EXCEPT ![c] = TRUE]
  /\ watch' = [watch EXCEPT ![c] = "watching"] /\ pidfd' = [pidfd EXCEPT ![c] = "open"]
  /\ children' = children \cup {c}
  /\ at' = [at EXCEPT !["owner"] = [Idle EXCEPT !.stage = "verify", !.child = c, !.starting = TRUE]]
  /\ UNCHANGED <<killed, stopMu, reaped, mine, closing, closed, unclean, holder, pins, todo, failed, faults>>

\* verify finds the child in the namespaces, or refuses it for whatever reason.
VerifyPasses ==
  /\ at["owner"].stage = "verify"
  /\ nsMu' = "free" /\ mine' = mine \cup {at["owner"].child}
  /\ at' = [at EXCEPT !["owner"] = Idle]
  /\ UNCHANGED <<procVars, stopVars, closing, closed, unclean, holder, pins, todo, failed, faults>>

VerifyFails ==
  /\ at["owner"].stage = "verify"
  /\ Goes("owner", "lock")
  /\ UNCHANGED <<procVars, stopVars, nsVars, todo, failed, faults>>

OwnerStops(c) ==
  /\ at["owner"].stage = "idle" /\ c \in mine
  /\ at' = [at EXCEPT !["owner"] = [Idle EXCEPT !.stage = "lock", !.child = c]]
  /\ UNCHANGED <<procVars, stopVars, nsVars, todo, failed, faults>>

-----------------------------------------------------------------------------
\* Namespace.Close, called again until it returns nil.

CloseBegins ==
  /\ at["closer"].stage = "idle" /\ nsMu = "free" /\ ~closed
  /\ closing' = TRUE
  /\ todo' = children /\ failed' = FALSE
  /\ Goes("closer", "stopping")
  /\ UNCHANGED <<procVars, stopVars, mine, nsMu, closed, unclean, holder, pins, faults>>

CloseStops(c) ==
  /\ at["closer"].stage = "stopping" /\ c \in todo
  /\ at' = [at EXCEPT !["closer"] = [Idle EXCEPT !.stage = "lock", !.child = c]]
  /\ UNCHANGED <<procVars, stopVars, nsVars, todo, failed, faults>>

CloseFails ==
  /\ at["closer"].stage = "stopping" /\ todo = {} /\ failed /\ nsMu = "free"
  /\ unclean' = TRUE
  /\ at' = [at EXCEPT !["closer"] = Idle]
  /\ UNCHANGED <<procVars, stopVars, mine, nsMu, closing, closed, holder, pins, todo, failed, faults>>

\* release: the holder's group, or the holder alone, is killed.
KillHolder ==
  /\ at["closer"].stage = "stopping" /\ todo = {} /\ ~failed /\ nsMu = "free"
  /\ nsMu' = "closer" /\ Goes("closer", "release")
  /\ \/ killed' = killed \cup {Holder} /\ NoFault
     \/ UNCHANGED killed /\ Fault
  /\ UNCHANGED <<proc, kin, watch, pidfd, stopVars, mine, closing, closed, unclean, holder, pins, todo, failed>>

Release ==
  /\ at["closer"].stage = "release"
  /\ \/ /\ holder = "zombie" /\ NoFault
        /\ holder' = "reaped" /\ pins' = FALSE /\ closed' = TRUE /\ UNCHANGED unclean
     \/ /\ (holder = "running" /\ NoFault) \/ Fault
        /\ unclean' = TRUE /\ UNCHANGED <<holder, pins, closed>>
  /\ nsMu' = "free" /\ at' = [at EXCEPT !["closer"] = Idle]
  /\ UNCHANGED <<procVars, stopVars, mine, closing, todo, failed>>

CloseStep ==
  \/ CloseBegins \/ (\E c \in Child : CloseStops(c)) \/ CloseFails \/ KillHolder \/ Release
  \/ StopStep("closer")

-----------------------------------------------------------------------------
OwnerStep == VerifyPasses \/ VerifyFails \/ StopStep("owner")

CleanupOver == closed
Over == CleanupOver /\ at["owner"].stage = "idle" /\ UNCHANGED supervisorVars

Next ==
  \/ \E c \in Child : Exits(c) \/ Watch(c) \/ Start(c) \/ OwnerStops(c)
  \/ HolderExits \/ OwnerStep \/ CloseStep \/ Over

\* Goroutines go on, a process that was sent SIGKILL exits, and Close is called
\* again while it fails. Processes that were not killed may run for ever.
KilledExits(c) == c \in killed /\ Exits(c)
KilledHolderExits == Holder \in killed /\ HolderExits
Fairness ==
  /\ WF_supervisorVars(OwnerStep) /\ WF_supervisorVars(CloseStep)
  /\ WF_supervisorVars(KilledHolderExits)
  /\ \A c \in Child : WF_supervisorVars(KilledExits(c)) /\ WF_supervisorVars(Watch(c))

Spec == Init /\ [][Next]_supervisorVars
FairSpec == Spec /\ Fairness

-----------------------------------------------------------------------------
TypeOK ==
  /\ proc \in [Child -> {"none", "running", "zombie", "reaped"}]
  /\ kin \in [Child -> BOOLEAN] /\ killed \subseteq Child \cup {Holder}
  /\ watch \in [Child -> {"off", "watching", "done", "lost"}]
  /\ pidfd \in [Child -> {"none", "open", "closed"}]
  /\ stopMu \in [Child -> Caller \cup {"free"}]
  /\ reaped \subseteq Child /\ children \subseteq Child /\ mine \subseteq Child /\ todo \subseteq Child
  /\ nsMu \in Caller \cup {"free"}
  /\ {closing, closed, unclean, pins, failed} \subseteq BOOLEAN
  /\ holder \in {"running", "zombie", "reaped"}
  /\ at \in [Caller -> [stage : Stages, child : Child \cup {Holder},
                        round : {"none", "term", "kill", "sweep"}, starting : BOOLEAN]]
  /\ faults \in 0..MaxFaults

\* Neither number outlives what it names: a group is signalled only while its
\* leader is unreaped, through any failed attempt and any second caller, and the
\* pidfd is closed only when the watcher and every Stop are done with it.
NoStaleHandle ==
  \A c \in Child :
    /\ \A x \in Caller : at[x].stage = "send" /\ at[x].child = c => proc[c] \in {"running", "zombie"}
    /\ pidfd[c] = "closed" => watch[c] # "watching" /\ stopMu[c] = "free" /\ c \in reaped
    /\ proc[c] \in {"running", "zombie"} => pidfd[c] = "open" /\ c \in children

\* A Stop that succeeds leaves nothing of the group, and a namespace that is
\* closed leaves nothing at all: no child escapes a Close that races its start,
\* and what pins the namespace goes last.
ClosedIsClean ==
  /\ \A c \in reaped : proc[c] = "reaped" /\ ~kin[c] /\ c \notin children
  /\ closed => holder = "reaped" /\ children = {} /\ \A c \in Child : proc[c] \in {"none", "reaped"}
  /\ ~pins => closed

\* However often the kernel fails, Close succeeds in the end.
CleanupFinishes == <>CleanupOver
=============================================================================
