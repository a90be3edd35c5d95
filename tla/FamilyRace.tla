----------------------------- MODULE FamilyRace -----------------------------
(***************************************************************************)
(* dialContextFromSources (internal/diagnostic/probe_network.go): a name   *)
(* is dialed from the selected interface over both address families at     *)
(* once. A goroutine per family claims the flag won or closes what it      *)
(* opened; the caller takes the first report that is a connection.         *)
(***************************************************************************)
EXTENDS Naturals, Sequences

VARIABLES
  families,  \* the families the interface has a source address for
  ctx,       \* the context made for the two dials
  dial,      \* per family: where its goroutine is
  err,       \* per family: what it reports, "none" for a connection
  won,       \* the flag both goroutines swap
  open,      \* connections open now
  results,   \* the channel
  errs,      \* families whose error the caller has collected
  conn       \* what the caller returned: a family, "error", or nothing yet

Family == {"IPv4", "IPv6"}

dialVars == <<dial, err, won, open, results>>
vars == <<families, ctx, dialVars, errs, conn>>

Init ==
  /\ families \in (SUBSET Family) \ {{}}
  /\ ctx = "live"
  /\ dial = [f \in Family |-> IF f \in families THEN "dialing" ELSE "absent"]
  /\ err = [f \in Family |-> "none"]
  /\ won = FALSE /\ open = {} /\ results = <<>>
  /\ errs = {} /\ conn = "pending"

Returned == conn # "pending"

\* The row's context ends, and with it the one made for the dials.
ContextEnds ==
  /\ ctx = "live"
  /\ ctx' = "ended"
  /\ UNCHANGED <<families, dialVars, errs, conn>>

-----------------------------------------------------------------------------
\* A family's goroutine.

Connects(f) ==
  /\ dial[f] = "dialing"
  /\ dial' = [dial EXCEPT ![f] = "connected"]
  /\ open' = open \cup {f}
  /\ UNCHANGED <<families, ctx, err, won, results, errs, conn>>

Fails(f) ==
  /\ dial[f] = "dialing"
  /\ dial' = [dial EXCEPT ![f] = "finished"]
  /\ \E e \in {"own"} \cup (IF ctx = "ended" THEN {"ended"} ELSE {}) : err' = [err EXCEPT ![f] = e]
  /\ UNCHANGED <<families, ctx, won, open, results, errs, conn>>

\* A connection is looked at once for the context and then for the flag; the
\* context may end in between.
ReadsContext(f) ==
  /\ dial[f] = "connected"
  /\ dial' = [dial EXCEPT ![f] = IF ctx = "ended" THEN "losing" ELSE "claiming"]
  /\ UNCHANGED <<families, ctx, err, won, open, results, errs, conn>>

\* A fault: the flag is set without being looked at.
ClaimsAnyway(f) ==
  /\ dial[f] = "claiming"
  /\ won' = TRUE
  /\ dial' = [dial EXCEPT ![f] = "finished"]
  /\ UNCHANGED <<families, ctx, err, open, results, errs, conn>>

\* The swap: the first to come owns the answer.
Claims(f) ==
  /\ dial[f] = "claiming"
  /\ won' = TRUE
  /\ dial' = [dial EXCEPT ![f] = IF won THEN "losing" ELSE "finished"]
  /\ UNCHANGED <<families, ctx, err, open, results, errs, conn>>

\* Who lost closes its own connection, and reports the context or the defeat.
Closes(f) ==
  /\ dial[f] = "losing"
  /\ open' = open \ {f}
  /\ err' = [err EXCEPT ![f] = IF ctx = "ended" THEN "ended" ELSE "lost"]
  /\ dial' = [dial EXCEPT ![f] = "finished"]
  /\ UNCHANGED <<families, ctx, won, results, errs, conn>>

Reports(f) ==
  /\ dial[f] = "finished"
  /\ results' = Append(results, f)
  /\ dial' = [dial EXCEPT ![f] = "reported"]
  /\ UNCHANGED <<families, ctx, err, won, open, errs, conn>>

DialStep(f) == Connects(f) \/ Fails(f) \/ ReadsContext(f) \/ Claims(f) \/ Closes(f) \/ Reports(f)

-----------------------------------------------------------------------------
\* The caller. Its return ends the context of a family still dialing.

ReceiveConnection ==
  /\ ~Returned /\ results # <<>>
  /\ err[Head(results)] = "none"
  /\ conn' = Head(results)
  /\ results' = Tail(results)
  /\ ctx' = "ended"
  /\ UNCHANGED <<families, dial, err, won, open, errs>>

ReceiveError ==
  /\ ~Returned /\ results # <<>>
  /\ err[Head(results)] # "none"
  /\ errs' = errs \cup {Head(results)}
  /\ results' = Tail(results)
  /\ UNCHANGED <<families, ctx, dial, err, won, open, conn>>

GiveUp ==
  /\ ~Returned /\ errs = families
  /\ conn' = "error"
  /\ ctx' = "ended"
  /\ UNCHANGED <<families, dialVars, errs>>

Caller == ReceiveConnection \/ ReceiveError \/ GiveUp

\* Both goroutines are gone.
Settled == Returned /\ \A f \in families : dial[f] = "reported"

Next ==
  \/ ContextEnds
  \/ \E f \in Family : DialStep(f)
  \/ Caller
  \/ Settled /\ UNCHANGED vars

-----------------------------------------------------------------------------
TypeOK ==
  /\ families \subseteq Family /\ ctx \in {"live", "ended"} /\ won \in BOOLEAN
  /\ dial \in [Family -> {"absent", "dialing", "connected", "claiming", "losing", "finished", "reported"}]
  /\ err \in [Family -> {"none", "own", "ended", "lost"}]
  /\ open \subseteq families /\ errs \subseteq families
  /\ results \in Seq(families)
  /\ conn \in Family \cup {"pending", "error"}

\* What the race returns is what its goroutines did: a connection is the claimed
\* one and still open, an error means that none was claimed and never that one was
\* discarded in favour of the other; and once both goroutines are gone no other
\* connection is open.
FamilyIsTrue ==
  /\ conn \in Family => conn \in open /\ won
  /\ conn = "error" => ~won /\ \A f \in families : err[f] \in {"own", "ended"}
  /\ Settled => open = {conn} \cap Family
=============================================================================
