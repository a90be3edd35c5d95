------------------------------ MODULE QuicRace ------------------------------
(***************************************************************************)
(* netops.dialQUICIPs and the verdict quicProbe draws from it              *)
(* (internal/diagnostic/quic.go): the addresses are dialed one after the   *)
(* other, a failure calls the next one early, and the first completed      *)
(* handshake wins. Unlike dialIPs the caller does not drain: every         *)
(* goroutine closes its own socket, and the channels have room for all of  *)
(* them. The stagger between dials is nondeterministic.                    *)
(***************************************************************************)
EXTENDS Naturals, Sequences, FiniteSets

CONSTANT Addresses    \* how many are dialed; maxAttempts, 16, in the code

VARIABLES
  ctx,       \* the row's context
  dctx,      \* the dials' context
  started,   \* dials started
  attempt,   \* per dial: where its goroutine is, or how it ended
  sockets,   \* sockets open now
  results,   \* the channel
  received,  \* dials whose result the caller took
  verdict    \* the row's verdict

Dial == 1..Addresses
Ends == {"deadline", "canceled"}
Own == {"refused", "idle"}    \* an address's own failures; the second is a timeout

vars == <<ctx, dctx, started, attempt, sockets, results, received, verdict>>

Init ==
  /\ ctx = "live" /\ dctx = "live"
  /\ started = 0
  /\ attempt = [d \in Dial |-> "unstarted"]
  /\ sockets = {} /\ results = <<>> /\ received = {}
  /\ verdict = "none"

Returned == verdict # "none"

\* The row's context ends, and with it the dials'.
ContextEnds ==
  /\ ctx = "live" /\ ~Returned
  /\ ctx' \in Ends /\ dctx' = ctx'
  /\ UNCHANGED <<started, attempt, sockets, results, received, verdict>>

\* The scheduling goroutine; when the dials' context has ended it starts no more.
Start ==
  /\ started < Addresses /\ dctx = "live"
  /\ started' = started + 1
  /\ attempt' = [attempt EXCEPT ![started + 1] = "opening"]
  /\ UNCHANGED <<ctx, dctx, sockets, results, received, verdict>>

-----------------------------------------------------------------------------
\* A dial's goroutine.

Opens(d) ==
  /\ attempt[d] = "opening"
  /\ attempt' = [attempt EXCEPT ![d] = "shaking"]
  /\ sockets' = sockets \cup {d}
  /\ UNCHANGED <<ctx, dctx, started, results, received, verdict>>

Deliver(d, outcome) ==
  /\ attempt' = [attempt EXCEPT ![d] = outcome]
  /\ results' = Append(results, d)

\* No socket, for a reason of its own or because the context has ended.
OpenFails(d) ==
  /\ attempt[d] = "opening"
  /\ \E o \in Own \cup ({dctx} \ {"live"}) : Deliver(d, o)
  /\ UNCHANGED <<ctx, dctx, started, sockets, received, verdict>>

\* The handshake ends, the socket is closed, and the result is handed over.
Shakes(d) ==
  /\ attempt[d] = "shaking"
  /\ \E o \in {"done"} \cup Own \cup ({dctx} \ {"live"}) : Deliver(d, o)
  /\ sockets' = sockets \ {d}
  /\ UNCHANGED <<ctx, dctx, started, received, verdict>>

DialStep(d) == Opens(d) \/ OpenFails(d) \/ Shakes(d)

-----------------------------------------------------------------------------
\* The caller: one result for each address, or the context's end. Its return
\* cancels what is left.

Take ==
  /\ results # <<>>
  /\ received' = received \cup {Head(results)}
  /\ results' = Tail(results)

Cancel == dctx' = IF dctx = "live" THEN "canceled" ELSE dctx

TakeFailure ==
  /\ ~Returned /\ Take
  /\ attempt[Head(results)] # "done"
  /\ UNCHANGED <<ctx, dctx, started, attempt, sockets, verdict>>

TakeWinner ==
  /\ ~Returned /\ Take
  /\ attempt[Head(results)] = "done"
  /\ verdict' = "pass"
  /\ Cancel
  /\ UNCHANGED <<ctx, started, attempt, sockets>>

\* What quicProbe calls a race that was not won, from the context, which it reads
\* once more, and from whether the error it was given is a timeout.
Unproven(timeout) ==
  IF ctx = "canceled" THEN "n/a"
  ELSE IF ctx = "deadline" \/ timeout THEN "timed out" ELSE "failed"

SeesContextEnd ==
  /\ ~Returned /\ ctx # "live" /\ Cardinality(received) < Addresses
  /\ verdict' = Unproven(FALSE)
  /\ UNCHANGED <<ctx, dctx, started, attempt, sockets, results, received>>

\* The error of the first address stands for all.
AllFailed ==
  /\ ~Returned /\ Cardinality(received) = Addresses
  /\ verdict' = Unproven(attempt[1] \in {"idle", "deadline"})
  /\ Cancel
  /\ UNCHANGED <<ctx, started, attempt, sockets, results, received>>

Caller == TakeFailure \/ TakeWinner \/ SeesContextEnd \/ AllFailed

\* Every goroutine of the race is gone.
Settled ==
  Returned /\ \A d \in Dial : attempt[d] \in {"unstarted", "done"} \cup Own \cup Ends

Next ==
  \/ ContextEnds \/ Start
  \/ \E d \in Dial : DialStep(d)
  \/ Caller
  \/ Settled /\ UNCHANGED vars

-----------------------------------------------------------------------------
TypeOK ==
  /\ {ctx, dctx} \subseteq {"live"} \cup Ends
  /\ started \in 0..Addresses
  /\ attempt \in [Dial -> {"unstarted", "opening", "shaking", "done"} \cup Own \cup Ends]
  /\ sockets \subseteq Dial /\ received \subseteq Dial
  /\ results \in Seq(Dial)
  /\ verdict \in {"none", "pass", "failed", "timed out", "n/a"}

\* The verdict is true of the handshakes: a pass had one complete, "failed" says
\* that every address was dialed and failed for a reason of its own, a timeout is
\* the row's or the first address's, and n/a a run that was
\* stopped. When the race has settled no socket is open.
QuicIsTrue ==
  /\ verdict = "pass" => \E d \in received : attempt[d] = "done"
  /\ verdict = "failed" => \A d \in Dial : attempt[d] \in Own
  /\ verdict = "timed out" => ctx = "deadline" \/ attempt[1] = "idle"
  /\ verdict = "n/a" => ctx = "canceled"
  /\ Settled => sockets = {}
=============================================================================
