------------------------------ MODULE DialRace ------------------------------
(***************************************************************************)
(* netops.dialIPs (internal/diagnostic/probe_network.go): the addresses of *)
(* a name are dialed one after another without waiting for each other, the *)
(* first connection wins and the rest is cancelled and drained.            *)
(*                                                                         *)
(* A scheduling goroutine starts the dials, each in a goroutine that puts  *)
(* its result on a channel; the caller receives them. The context of the   *)
(* row may end at any point; the dials' context ends with it, a moment     *)
(* later, or when the caller cancels it. The stagger between dials is      *)
(* nondeterministic. Dials are numbered in the order they start.           *)
(***************************************************************************)
EXTENDS Naturals, Sequences, FiniteSets

CONSTANT N    \* addresses; maxAttempts, 16, in the code

ASSUME NAssumption == N \in Nat \ {0}

VARIABLES
  ctx,        \* the row's context
  dctx,       \* the dials' context
  started,    \* len(started)
  scheduled,  \* closed when the scheduling goroutine has returned
  dial,       \* per dial: where its goroutine is
  err,        \* per dial: what ended it, if it failed
  aborted,    \* per dial: Attempt.Aborted
  results,    \* the channel
  open,       \* connections open now
  completed,  \* results received
  caller,     \* the caller's control state
  attempts,   \* failed dials it recorded
  before,     \* what it had recorded when it saw the context end
  winner      \* the connection it returns

schedVars == <<started, scheduled>>
callerVars == <<completed, caller, attempts, before, winner>>
vars == <<ctx, dctx, schedVars, dial, err, aborted, results, open, callerVars>>

Dial == 1..N
None == 0
Ends == {"deadline", "canceled"}

Init ==
  /\ ctx \in {"live"} \cup Ends /\ dctx = ctx
  /\ started = 0 /\ scheduled = FALSE
  /\ dial = [d \in Dial |-> "unstarted"]
  /\ err = [d \in Dial |-> "none"]
  /\ aborted = [d \in Dial |-> FALSE]
  /\ results = <<>> /\ open = {}
  /\ completed = 0 /\ caller = "receiving"
  /\ attempts = {} /\ before = {} /\ winner = None

-----------------------------------------------------------------------------
\* Contexts.

ContextEnds ==
  /\ ctx = "live" /\ caller # "returned"
  /\ ctx' \in Ends
  /\ UNCHANGED <<dctx, schedVars, dial, err, aborted, results, open, callerVars>>

\* The end of the row's context reaches the dials' context.
Propagate ==
  /\ ctx # "live" /\ dctx = "live"
  /\ dctx' = ctx
  /\ UNCHANGED <<ctx, schedVars, dial, err, aborted, results, open, callerVars>>

Cancel == dctx' = IF dctx = "live" THEN "canceled" ELSE dctx

-----------------------------------------------------------------------------
\* The scheduling goroutine.

Start ==
  /\ ~scheduled /\ started < N /\ dctx = "live"
  /\ started' = started + 1
  /\ dial' = [dial EXCEPT ![started + 1] = "dialing"]
  /\ UNCHANGED <<ctx, dctx, scheduled, err, aborted, results, open, callerVars>>

SchedulingEnds ==
  /\ ~scheduled /\ (started = N \/ dctx # "live")
  /\ scheduled' = TRUE
  /\ UNCHANGED <<ctx, dctx, started, dial, err, aborted, results, open, callerVars>>

-----------------------------------------------------------------------------
\* A dial's goroutine.

\* The connection may come through as its context ends.
Connects(d) ==
  /\ dial[d] = "dialing"
  /\ dial' = [dial EXCEPT ![d] = "connected"]
  /\ open' = open \cup {d}
  /\ UNCHANGED <<ctx, dctx, schedVars, err, aborted, results, callerVars>>

\* The address answers with an error of its own, or the context ends the dial.
Fails(d) ==
  /\ dial[d] = "dialing"
  /\ dial' = [dial EXCEPT ![d] = "failed"]
  /\ \E e \in ({"own", dctx} \ {"live"}) : err' = [err EXCEPT ![d] = e]
  /\ UNCHANGED <<ctx, dctx, schedVars, aborted, results, open, callerVars>>

\* A fault: whether the dial was cut short is read off its error alone.
DeliverByError(d) ==
  /\ dial[d] \in {"connected", "failed"}
  /\ aborted' = [aborted EXCEPT ![d] = (err[d] = "canceled")]
  /\ results' = Append(results, d)
  /\ dial' = [dial EXCEPT ![d] = "delivered"]
  /\ UNCHANGED <<ctx, dctx, schedVars, err, open, callerVars>>

\* The goroutine looks at its context and hands its result over.
Deliver(d) ==
  /\ dial[d] \in {"connected", "failed"}
  /\ aborted' = [aborted EXCEPT ![d] = (dial[d] = "failed" /\ dctx # "live")]
  /\ results' = Append(results, d)
  /\ dial' = [dial EXCEPT ![d] = "delivered"]
  /\ UNCHANGED <<ctx, dctx, schedVars, err, open, callerVars>>

-----------------------------------------------------------------------------
\* The caller.

Take ==
  /\ results # <<>>
  /\ results' = Tail(results)
  /\ completed' = completed + 1

Receiving == caller = "receiving" /\ completed < N

ReceiveFailure ==
  /\ Receiving /\ Take
  /\ err[Head(results)] # "none"
  /\ attempts' = attempts \cup {Head(results)}
  /\ UNCHANGED <<ctx, dctx, schedVars, dial, err, aborted, open, caller, before, winner>>

\* The first connection received wins; the dials still under way are cancelled.
ReceiveWinner ==
  /\ Receiving /\ Take
  /\ err[Head(results)] = "none"
  /\ winner' = Head(results)
  /\ caller' = "draining"
  /\ Cancel
  /\ UNCHANGED <<ctx, schedVars, dial, err, aborted, open, attempts, before>>

\* The row's context ended; a result on the channel may be passed over.
SeesContextEnd ==
  /\ Receiving /\ ctx # "live"
  /\ before' = attempts
  /\ caller' = "draining"
  /\ Cancel
  /\ UNCHANGED <<ctx, schedVars, dial, err, aborted, results, open, completed, attempts, winner>>

\* A fault: a connection that lost the race is dropped.
DrainLeaks ==
  /\ caller = "draining" /\ scheduled /\ completed < started
  /\ Take
  /\ attempts' = IF err[Head(results)] # "none" THEN attempts \cup {Head(results)} ELSE attempts
  /\ UNCHANGED <<ctx, dctx, schedVars, dial, err, aborted, open, caller, before, winner>>

\* Every dial that was started is waited for: its failure is recorded, its
\* connection closed.
Drain ==
  /\ caller = "draining" /\ scheduled /\ completed < started
  /\ Take
  /\ open' = open \ {Head(results)}
  /\ attempts' = IF err[Head(results)] # "none" THEN attempts \cup {Head(results)} ELSE attempts
  /\ UNCHANGED <<ctx, dctx, schedVars, dial, err, aborted, caller, before, winner>>

ReturnWinner ==
  /\ caller = "draining" /\ scheduled /\ completed = started
  /\ winner # None
  /\ caller' = "returned"
  /\ UNCHANGED <<ctx, dctx, schedVars, dial, err, aborted, results, open, completed, attempts, before, winner>>

\* What was drained after the context ended is marked aborted, and a
\* cancellation among it renamed after what ended the context.
ReturnCutShort ==
  /\ caller = "draining" /\ scheduled /\ completed = started
  /\ winner = None
  /\ aborted' = [d \in Dial |-> aborted[d] \/ d \in attempts \ before]
  /\ err' = [d \in Dial |-> IF d \in attempts \ before /\ err[d] = "canceled" THEN ctx ELSE err[d]]
  /\ caller' = "returned"
  /\ UNCHANGED <<ctx, dctx, schedVars, dial, results, open, completed, attempts, before, winner>>

\* A fault: the caller waits for one result more than there are dials.
WaitForOneMore ==
  /\ caller = "receiving" /\ completed = N /\ scheduled
  /\ UNCHANGED vars

\* Every address failed.
ReturnNothing ==
  /\ caller = "receiving" /\ completed = N /\ scheduled
  /\ caller' = "returned"
  /\ Cancel
  /\ UNCHANGED <<ctx, schedVars, dial, err, aborted, results, open, completed, attempts, before, winner>>

Scheduling == Start \/ SchedulingEnds
DialStep(d) == Connects(d) \/ Fails(d) \/ Deliver(d)
Caller ==
  \/ ReceiveFailure \/ ReceiveWinner \/ SeesContextEnd
  \/ Drain \/ ReturnWinner \/ ReturnCutShort \/ ReturnNothing

Returned == caller = "returned" /\ UNCHANGED vars

Next == ContextEnds \/ Propagate \/ Scheduling \/ (\E d \in Dial : DialStep(d)) \/ Caller \/ Returned

\* The stagger and the dials run under timers, the goroutines are scheduled; that
\* the row's context ends is not assumed.
Fairness ==
  /\ WF_vars(Propagate) /\ WF_vars(Scheduling) /\ WF_vars(Caller)
  /\ \A d \in Dial : WF_vars(DialStep(d))

Spec == Init /\ [][Next]_vars
FairSpec == Spec /\ Fairness

-----------------------------------------------------------------------------
TypeOK ==
  /\ {ctx, dctx} \subseteq {"live"} \cup Ends
  /\ started \in 0..N /\ completed \in 0..started /\ scheduled \in BOOLEAN
  /\ dial \in [Dial -> {"unstarted", "dialing", "connected", "failed", "delivered"}]
  /\ err \in [Dial -> {"none", "own"} \cup Ends]
  /\ aborted \in [Dial -> BOOLEAN]
  /\ results \in Seq(Dial) /\ Len(results) <= N
  /\ open \subseteq Dial /\ attempts \subseteq Dial /\ before \subseteq attempts
  /\ caller \in {"receiving", "draining", "returned"}
  /\ winner \in Dial \cup {None}

\* When dialIPs returns, nothing of the race is left behind it: no goroutine, no
\* unread result and no connection but the one it returns, which is open.
NothingLeftBehind ==
  caller = "returned" =>
    /\ open = {winner} \ {None}
    /\ scheduled /\ results = <<>>
    /\ \A d \in Dial : dial[d] \in {"unstarted", "delivered"}

\* Every dial that was started and failed is reported, the ones cut short too.
EveryFailureIsReported ==
  caller = "returned" => attempts = {d \in Dial : dial[d] # "unstarted" /\ err[d] # "none"}

\* A failure reported as the address's own doing, not aborted, was: neither the
\* winner's cancellation nor the row's deadline is held against an address.
OnlyTheAddressIsBlamed ==
  caller = "returned" => \A d \in attempts : ~aborted[d] => err[d] = "own"

\* A race cut short by the row's deadline says so, although the dials were ended
\* by the caller's own cancellation.
ExpiryIsNamed ==
  caller = "returned" /\ winner = None => \A d \in attempts : err[d] \in {"own", ctx}

\* The race ends, whatever the context does.
Returns == <>(caller = "returned")
=============================================================================
