---------------------------- MODULE EncryptedDns ----------------------------
(***************************************************************************)
(* netops.encryptedDNSProbe (internal/diagnostic/encrypteddns.go): one     *)
(* query over DoH and over DoT at once. The first success cancels the      *)
(* other transport, unless that one has already finished; the row's        *)
(* verdict has to tell a transport that failed from one that was cut       *)
(* short by the row itself.                                                *)
(***************************************************************************)
VARIABLES
  ctx,       \* the row's context
  exchange,  \* per transport: "running", or how it ended
  landed,    \* transports whose outcome is on its channel
  first,     \* the transport received first
  canceled,  \* the row has given the other transport up
  held,      \* outcomes received
  status,    \* the row's status
  names,     \* the transport whose address the row names
  says       \* per transport: what the row says of it

Transport == {"doh", "dot"}
Other(t) == IF t = "doh" THEN "dot" ELSE "doh"
Ends == {"deadline", "canceled"}

rowVars == <<status, names, says>>
vars == <<ctx, exchange, landed, first, canceled, held, rowVars>>

Init ==
  /\ ctx = "live"
  /\ exchange = [t \in Transport |-> "running"]
  /\ landed = {} /\ held = {}
  /\ first = "none" /\ canceled = FALSE
  /\ status = "none" /\ names = "none"
  /\ says = [t \in Transport |-> "nothing"]

\* The row's time runs out, or its pass is stopped.
ContextEnds ==
  /\ ctx = "live" /\ status = "none"
  /\ ctx' \in Ends
  /\ UNCHANGED <<exchange, landed, first, canceled, held, rowVars>>

\* dohExchange, dotExchange: a verified answer, an error the resolver sent, or a
\* failure, which is "cut" when the row has given the transport up before. An
\* answer may still come although the context has ended.
ExchangeEnds(t) ==
  /\ exchange[t] = "running"
  /\ \E o \in {"ok", "refused"}
              \cup (IF canceled THEN {"cut"} ELSE {"failed"} \cup ({ctx} \ {"live"})) :
       exchange' = [exchange EXCEPT ![t] = o]
  /\ landed' = landed \cup {t}
  /\ UNCHANGED <<ctx, first, canceled, held, rowVars>>

-----------------------------------------------------------------------------
Ok(t) == exchange[t] = "ok"
resolverAnswered(t) == exchange[t] \in {"ok", "refused"}

\* firstVerified
TakeFirst ==
  /\ first = "none"
  /\ \E t \in landed : first' = t /\ held' = {t}
  /\ UNCHANGED <<ctx, exchange, landed, canceled, rowVars>>

\* settleSibling. An outcome already there is kept as observed; a failure waits.
SettleSibling ==
  /\ first # "none" /\ Other(first) \notin held /\ ~canceled
  /\ \/ /\ Other(first) \in landed
        /\ held' = Transport
        /\ UNCHANGED canceled
     \/ /\ Ok(first) /\ Other(first) \notin landed
        /\ canceled' = TRUE
        /\ UNCHANGED held
  /\ UNCHANGED <<ctx, exchange, landed, first, rowVars>>

\* The transport that was cancelled still hands its outcome over.
TakeSibling ==
  /\ canceled /\ held # Transport /\ Other(first) \in landed
  /\ held' = Transport
  /\ UNCHANGED <<ctx, exchange, landed, first, canceled, rowVars>>

-----------------------------------------------------------------------------
\* The row, from the two outcomes.

Preferred ==
  IF ~Ok("doh") /\ (Ok("dot") \/ ~resolverAnswered("doh")) THEN "dot" ELSE "doh"

\* How a row that passed speaks of the transport that did not.
SaysOf(t) ==
  IF resolverAnswered(t) THEN "answered" ELSE IF canceled THEN "nothing" ELSE "unavailable"

Verdict ==
  /\ status = "none" /\ held = Transport
  /\ names' = IF resolverAnswered(Preferred) THEN Preferred ELSE "none"
  /\ \/ /\ \E t \in Transport : Ok(t)
        /\ status' = "pass"
        /\ says' = [t \in Transport |-> SaysOf(t)]
     \/ /\ \A t \in Transport : ~Ok(t)
        /\ status' = IF \E t \in Transport : resolverAnswered(t) THEN "warn"
                     ELSE IF ctx = "canceled" THEN "n/a" ELSE "fail"
        /\ says' = says
  /\ UNCHANGED <<ctx, exchange, landed, first, canceled, held>>

Row == TakeFirst \/ SettleSibling \/ TakeSibling \/ Verdict

Settled == status # "none" /\ UNCHANGED vars

Next == ContextEnds \/ (\E t \in Transport : ExchangeEnds(t)) \/ Row \/ Settled

-----------------------------------------------------------------------------
TypeOK ==
  /\ ctx \in {"live"} \cup Ends /\ canceled \in BOOLEAN
  /\ exchange \in [Transport -> {"running", "ok", "refused", "failed", "cut"} \cup Ends]
  /\ held \subseteq landed /\ landed \subseteq Transport
  /\ {first, names} \subseteq Transport \cup {"none"}
  /\ status \in {"none", "pass", "warn", "fail", "n/a"}
  /\ says \in [Transport -> {"nothing", "answered", "unavailable"}]

\* The row tells of the two exchanges as they went: it calls a transport
\* unavailable exactly when that one failed without the row's doing, passes over
\* exactly the one it gave up, fails only when neither reached the resolver, and
\* names the address of the transport that made it pass or was answered.
EncryptedIsTrue ==
  /\ status = "pass" =>
       /\ names \in Transport /\ Ok(names)
       /\ \A t \in Transport :
            /\ says[t] = "unavailable" <=> exchange[t] \in {"failed"} \cup Ends
            /\ says[t] = "nothing" <=> exchange[t] = "cut"
  /\ status = "warn" => names \in Transport /\ exchange[names] = "refused"
  /\ status \in {"fail", "n/a"} => \A t \in Transport : exchange[t] \in {"failed"} \cup Ends
=============================================================================
