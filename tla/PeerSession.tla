---------------------------- MODULE PeerSession ----------------------------
(***************************************************************************)
(* A peer session (internal/peer/session.go): a listener and a connector,  *)
(* each with an endpoint server of its own, measure both directions and    *)
(* exchange what they saw over one control connection.                     *)
(*                                                                         *)
(* The connector says hello on one of the listener's addresses, probes     *)
(* every address, and sends its evidence; the listener checks it against   *)
(* the probes its own server answered, probes the connector's server back, *)
(* and sends its evidence, which the connector checks likewise before it   *)
(* says done. A server accepts at most Limit connections at a time, a      *)
(* handler goroutine for each; anybody may connect to the listener.        *)
(*                                                                         *)
(* Every dial, read and write may fail, when its timeout passes or the     *)
(* connection breaks; a message that was sent may still be lost. A write   *)
(* that fails has not delivered its message.                               *)
(***************************************************************************)
EXTENDS Naturals, FiniteSets

CONSTANTS
  Family,     \* ipv4 and ipv6
  Limit,      \* maxConnections, 8 in the code
  Sessions    \* what the two ends are started with, and whether it is disturbed

ASSUME LimitAssumption == Limit \in Nat \ {0}

VARIABLES
  offered,      \* per end: the families its server listens on
  disturbed,    \* a stranger connects, and contexts may end
  requests,     \* the listener's families that the connector dials
  server,       \* per end: its server
  closer,       \* per end: who closes the server, its owner or the context's end
  doomed,       \* per end: the connections its Close found and has yet to close
  tracked,      \* server.connections, of both ends
  open,         \* sockets the servers hold open
  handler,      \* per connection: its handler
  client,       \* per connection: the dialing side
  inbound,      \* per end: the families it answered a probe of
  controlUsed,  \* the listener has accepted a hello
  controls,     \* the queue of accepted controls, of one place
  timer,        \* expiryTimer
  run,          \* Run
  control,      \* the control connection Run took
  connect,      \* Connect
  evidence,     \* per end: what it reports, once sent
  done,         \* the connector said done
  outcome       \* per end: what Run or Connect returns

serverVars == <<server, closer, doomed>>
connVars == <<tracked, open, handler, inbound, controlUsed, controls>>
started == <<offered, disturbed, requests>>
runVars == <<timer, run, control>>
vars == <<started, serverVars, connVars, client, runVars, connect, evidence, done, outcome>>

End == {"listener", "connector"}
Conn == ({"hello", "probe", "back"} \X Family) \cup {<<"stranger", CHOOSE f \in Family : TRUE>>}
ServerOf(c) == IF c[1] = "back" THEN "connector" ELSE "listener"
Of(e) == {c \in Conn : ServerOf(c) = e}
NoConn == <<"none", "none">>
NotSent == [f \in Family |-> "untested"]

ASSUME SessionAssumption ==
  \A s \in Sessions :
    /\ s.offered \in [End -> SUBSET Family] /\ s.requests \subseteq Family
    /\ s.disturbed \in BOOLEAN

Init ==
  /\ \E s \in Sessions :
       /\ offered = s.offered /\ requests = s.requests /\ disturbed = s.disturbed
       /\ client = [c \in Conn |-> IF c[1] = "stranger" /\ s.disturbed THEN "dialing" ELSE "idle"]
  /\ server = [e \in End |-> "serving"] /\ closer = [e \in End |-> "nobody"]
  /\ doomed = [e \in End |-> {}]
  /\ tracked = {} /\ open = {}
  /\ handler = [c \in Conn |-> "none"]
  /\ inbound = [e \in End |-> {}]
  /\ controlUsed = FALSE /\ controls = NoConn
  /\ timer = "armed" /\ run = "waiting" /\ control = NoConn
  /\ connect = "greeting"
  /\ evidence = [e \in End |-> NotSent] /\ done = FALSE
  /\ outcome = [e \in End |-> "none"]

Settled(cs) == \A c \in cs : client[c] \notin {"dialing", "asked"}

-----------------------------------------------------------------------------
\* A connection fails on its dialing side: connectControl, probeEndpoint.

ClientFails(c) ==
  /\ c[1] # "stranger" /\ client[c] \in {"dialing", "asked"}
  /\ client' = [client EXCEPT ![c] = "fail"]
  /\ UNCHANGED <<started, serverVars, connVars, runVars, connect, evidence, done, outcome>>

-----------------------------------------------------------------------------
\* endpointServer.accept and endpointServer.handle.

\* A connection is closed and forgotten. Its dialing side, when it still waits
\* for something, fails.
Ends(c) ==
  /\ handler' = [handler EXCEPT ![c] = "gone"]
  /\ open' = open \ {c} /\ tracked' = tracked \ {c}
Drops(c) ==
  /\ Ends(c)
  /\ client' = [client EXCEPT ![c] = IF @ \in {"dialing", "asked"} THEN "fail" ELSE @]

\* An accept may still go through until Close has closed the listeners.
Accept(c) ==
  /\ client[c] = "dialing" /\ handler[c] = "none"
  /\ server[ServerOf(c)] # "joined"
  /\ IF Cardinality(tracked \cap Of(ServerOf(c))) < Limit
       THEN /\ tracked' = tracked \cup {c} /\ open' = open \cup {c}
            /\ handler' = [handler EXCEPT ![c] = "accepted"] /\ UNCHANGED client
       ELSE Drops(c)
  /\ UNCHANGED <<started, serverVars, inbound, controlUsed, controls,
                 runVars, connect, evidence, done, outcome>>

\* The handshake or the read fails.
HandlerFails(c) ==
  /\ handler[c] = "accepted"
  /\ Drops(c)
  /\ UNCHANGED <<started, serverVars, inbound, controlUsed, controls,
                 runVars, connect, evidence, done, outcome>>

Claimable(c) ==
  /\ ServerOf(c) = "connector" \/ controlUsed
  /\ c[2] \notin inbound[ServerOf(c)]

\* A fault: the read does not ask whether the server is closing.
ReadsAnyway(c, kinds) ==
  /\ handler[c] = "accepted"
  /\ c[1] \in kinds /\ client[c] = "dialing"

\* The handshake and the read of the request: the read does not begin once the
\* server's context has ended.
Reads(c, kinds) ==
  /\ handler[c] = "accepted" /\ server[ServerOf(c)] = "serving"
  /\ c[1] \in kinds /\ client[c] = "dialing"

Keeps(c, state) ==
  /\ handler' = [handler EXCEPT ![c] = state]
  /\ client' = [client EXCEPT ![c] = "asked"]
  /\ UNCHANGED <<open, tracked>>

\* A probe is entered as witnessed before it is answered.
Serve(c) ==
  /\ Reads(c, {"probe", "back"})
  /\ IF Claimable(c)
       THEN Keeps(c, "claimed") /\ inbound' = [inbound EXCEPT ![ServerOf(c)] = @ \cup {c[2]}]
       ELSE Drops(c) /\ UNCHANGED inbound
  /\ UNCHANGED <<started, serverVars, controlUsed, controls, runVars, connect, evidence, done, outcome>>

\* The answer is read, unless the dialing side has given up.
Delivered(c) == client' = [client EXCEPT ![c] = IF @ = "asked" THEN "pass" ELSE @]

\* A fault: the entry is withdrawn on every return of the handler.
AnswerAndForget(c) ==
  /\ handler[c] = "claimed"
  /\ inbound' = [inbound EXCEPT ![ServerOf(c)] = @ \ {c[2]}]
  /\ (c \in open /\ Ends(c) /\ Delivered(c)) \/ Drops(c)
  /\ UNCHANGED <<started, serverVars, controlUsed, controls, runVars, connect, evidence, done, outcome>>

\* When the answer cannot be written the entry is withdrawn.
Answer(c) ==
  /\ handler[c] = "claimed"
  /\ \/ c \in open /\ Ends(c) /\ Delivered(c) /\ UNCHANGED inbound
     \/ Drops(c) /\ inbound' = [inbound EXCEPT ![ServerOf(c)] = @ \ {c[2]}]
  /\ UNCHANGED <<started, serverVars, controlUsed, controls, runVars, connect, evidence, done, outcome>>

\* The first hello that is read has the session.
ServeHello(c) ==
  /\ Reads(c, {"hello", "stranger"})
  /\ IF controlUsed
       THEN Drops(c) /\ UNCHANGED controlUsed
       ELSE Keeps(c, "handing") /\ controlUsed' = TRUE
  /\ UNCHANGED <<started, serverVars, inbound, controls, runVars, connect, evidence, done, outcome>>

\* The connection is handed to Run and outlives its handler, or, when the
\* server's context has ended, may be dropped instead.
HandOver(c) ==
  /\ handler[c] = "handing"
  /\ \/ /\ controls = NoConn /\ controls' = c
        /\ handler' = [handler EXCEPT ![c] = "gone"] /\ UNCHANGED <<open, tracked, client>>
     \/ /\ server["listener"] # "serving"
        /\ Drops(c) /\ UNCHANGED controls
  /\ UNCHANGED <<started, serverVars, inbound, controlUsed,
                 runVars, connect, evidence, done, outcome>>

HandlerStep(c) ==
  \/ Accept(c) \/ HandlerFails(c) \/ Serve(c) \/ Answer(c) \/ ServeHello(c) \/ HandOver(c)

-----------------------------------------------------------------------------
\* endpointServer.Close, of which only the first call does anything: the context
\* is cancelled under the lock, the listeners and the connections found then are
\* closed, and the accept loops and handlers waited for.

BeginClose(e, who) ==
  /\ server[e] = "serving"
  /\ server' = [server EXCEPT ![e] = "closing"]
  /\ closer' = [closer EXCEPT ![e] = who]
  /\ doomed' = [doomed EXCEPT ![e] = tracked \cap Of(e)]

\* The end of an end's context closes its server: a cancel, or a session that
\* has lasted too long. Bound: one of the two contexts ends.
ContextEnds(e) ==
  /\ (IF e = "listener" THEN run ELSE connect) # "returned"
  /\ disturbed /\ \A o \in End : closer[o] # "context"
  /\ BeginClose(e, "context")
  /\ UNCHANGED <<started, connVars, client, runVars, connect, evidence, done, outcome>>

\* What a handler does between the closing of its socket and its return it may
\* as well do before.
CloseAndJoin(e) ==
  /\ server[e] = "closing" /\ \A c \in Of(e) : handler[c] \in {"none", "gone"}
  /\ server' = [server EXCEPT ![e] = "joined"]
  /\ open' = open \ doomed[e]
  /\ doomed' = [doomed EXCEPT ![e] = {}]
  /\ UNCHANGED <<started, closer, tracked, handler, inbound, controlUsed,
                 controls, client, runVars, connect, evidence, done, outcome>>

\* A caller of Close waits for a Close of its own; it does not wait for the one
\* that the end of the context started.
Closed(e) == server[e] = "joined" \/ (server[e] # "serving" /\ closer[e] = "context")

-----------------------------------------------------------------------------
\* Listener.Run.

\* A fault: nothing closes a listener that nobody connects to.
NeverExpires == timer = "armed" /\ run = "waiting" /\ UNCHANGED vars

\* PairingLifetime has passed. Stop does not call back a timer that has fired.
Expires ==
  /\ timer = "armed" /\ run = "waiting"
  /\ timer' = "fired"
  /\ UNCHANGED <<started, serverVars, connVars, client, run, control, connect, evidence, done, outcome>>

ExpiryCloses ==
  /\ timer = "fired" /\ BeginClose("listener", "owner")
  /\ UNCHANGED <<started, connVars, client, runVars, connect, evidence, done, outcome>>

TakeControl ==
  /\ run = "waiting" /\ controls # NoConn
  /\ control' = controls /\ controls' = NoConn
  /\ timer' = IF timer = "armed" THEN "stopped" ELSE timer
  /\ run' = "greeting"
  /\ UNCHANGED <<started, serverVars, tracked, open, handler, inbound, controlUsed,
                 client, connect, evidence, done, outcome>>

RunEnds(what) ==
  /\ run' = "leaving"
  /\ outcome' = [outcome EXCEPT !["listener"] = what]

Greet ==
  /\ run = "greeting" /\ control \in open
  /\ Delivered(control)
  /\ run' = "reading"
  /\ UNCHANGED <<started, serverVars, tracked, open, handler, inbound, controlUsed, controls,
                 timer, control, connect, evidence, done, outcome>>

\* verifyReported: a pass needs a probe this server answered, and a direction
\* that was not tested must not have been probed.
Verified(e, reported) ==
  \A f \in Family :
    /\ reported[f] = "pass" => f \in inbound[e]
    /\ reported[f] = "na" => f \notin inbound[e]

ReadEvidence ==
  /\ run = "reading" /\ client[control] = "pass" /\ evidence["connector"] # NotSent
  /\ IF Verified("listener", evidence["connector"])
       THEN run' = "verified" /\ UNCHANGED outcome
       ELSE RunEnds("refuted")
  /\ UNCHANGED <<started, serverVars, connVars, client, timer, control, connect, evidence, done>>

\* probeOffer: the connector's server is probed in the families in which the
\* listener has seen the connector.
ProbeBack ==
  /\ run = "verified"
  /\ LET observed == offered["connector"] \cap (inbound["listener"] \cup {control[2]}) IN
     client' = [c \in Conn |-> IF c[1] = "back" /\ c[2] \in observed THEN "dialing" ELSE client[c]]
  /\ run' = "probing"
  /\ UNCHANGED <<started, serverVars, connVars, timer, control, connect, evidence, done, outcome>>

BackEvidence ==
  [f \in Family |-> CASE f \notin offered["connector"] -> "untested"
                      [] f \in offered["connector"] /\ client[<<"back", f>>] = "idle" -> "na"
                      [] OTHER -> client[<<"back", f>>]]

SendEvidence ==
  /\ run = "probing" /\ Settled({"back"} \X Family) /\ control \in open
  /\ evidence' = [evidence EXCEPT !["listener"] = BackEvidence]
  /\ run' = "finishing"
  /\ UNCHANGED <<started, serverVars, connVars, client, timer, control, connect, done, outcome>>

\* A fault: the listener does not wait for the connector's done.
FinishUnconfirmed ==
  /\ run = "finishing"
  /\ RunEnds("result")
  /\ UNCHANGED <<started, serverVars, connVars, client, timer, control, connect, evidence, done>>

Finish ==
  /\ run = "finishing" /\ done
  /\ RunEnds("result")
  /\ UNCHANGED <<started, serverVars, connVars, client, timer, control, connect, evidence, done>>

\* The wait for a control ends with the server's context or an accept that
\* failed; later, a read or a write fails.
RunFails ==
  /\ run \in {"waiting", "greeting", "reading", "finishing"} \/ (run = "probing" /\ Settled({"back"} \X Family))
  /\ run = "waiting" => server["listener"] # "serving"
  /\ RunEnds("error")
  /\ UNCHANGED <<started, serverVars, connVars, client, timer, control, connect, evidence, done>>

CloseControl ==
  /\ run = "leaving"
  /\ open' = open \ {control} /\ tracked' = tracked \ {control}
  /\ run' = "closing"
  /\ UNCHANGED <<started, serverVars, handler, inbound, controlUsed, controls,
                 client, timer, control, connect, evidence, done, outcome>>

RunCloses ==
  /\ run = "closing" /\ BeginClose("listener", "owner")
  /\ UNCHANGED <<started, connVars, client, runVars, connect, evidence, done, outcome>>

RunReturns ==
  /\ run = "closing" /\ Closed("listener")
  /\ run' = "returned"
  /\ UNCHANGED <<started, serverVars, connVars, client, timer, control, connect, evidence, done, outcome>>

-----------------------------------------------------------------------------
\* Connect.

ConnectEnds(what) ==
  /\ connect' = "leaving"
  /\ outcome' = [outcome EXCEPT !["connector"] = what]

Hello(f) == <<"hello", f>>
Untried == {f \in requests : client[Hello(f)] = "idle"}
Unanswered == \A f \in Family : client[Hello(f)] \in {"idle", "fail"}

\* connectControl tries one address at a time.
DialControl(f) ==
  /\ connect = "greeting" /\ f \in Untried /\ Unanswered
  /\ server["connector"] = "serving"
  /\ client' = [client EXCEPT ![Hello(f)] = "dialing"]
  /\ UNCHANGED <<started, serverVars, connVars, runVars, connect, evidence, done, outcome>>

\* hello_ok: the listener's addresses are probed at once.
Greeted(f) ==
  /\ connect = "greeting" /\ client[Hello(f)] = "pass"
  /\ client' = [c \in Conn |-> IF c[1] = "probe" /\ c[2] \in requests THEN "dialing" ELSE client[c]]
  /\ connect' = "probing"
  /\ UNCHANGED <<started, serverVars, connVars, runVars, evidence, done, outcome>>

Report ==
  /\ connect = "probing" /\ Settled({"probe"} \X Family)
  /\ evidence' = [evidence EXCEPT !["connector"] =
                    [f \in Family |-> IF f \in requests THEN client[<<"probe", f>>] ELSE "untested"]]
  /\ connect' = "awaiting"
  /\ UNCHANGED <<started, serverVars, connVars, client, runVars, done, outcome>>

ReadAnswer ==
  /\ connect = "awaiting" /\ evidence["listener"] # NotSent
  /\ IF Verified("connector", evidence["listener"])
       THEN connect' = "finishing" /\ UNCHANGED outcome
       ELSE ConnectEnds("refuted")
  /\ UNCHANGED <<started, serverVars, connVars, client, runVars, evidence, done>>

SayDone ==
  /\ connect = "finishing"
  /\ done' = TRUE
  /\ ConnectEnds("result")
  /\ UNCHANGED <<started, serverVars, connVars, client, runVars, evidence>>

\* No address answered the hello, or a read or a write failed.
ConnectFails ==
  /\ \/ connect = "greeting" /\ Unanswered /\ (Untried = {} \/ server["connector"] # "serving")
     \/ connect = "probing" /\ Settled({"probe"} \X Family)
     \/ connect \in {"awaiting", "finishing"}
  /\ ConnectEnds("error")
  /\ UNCHANGED <<started, serverVars, connVars, client, runVars, evidence, done>>

ConnectCloses ==
  /\ connect = "leaving" /\ BeginClose("connector", "owner")
  /\ UNCHANGED <<started, connVars, client, runVars, connect, evidence, done, outcome>>

ConnectReturns ==
  /\ connect = "leaving" /\ Closed("connector")
  /\ connect' = "returned"
  /\ UNCHANGED <<started, serverVars, connVars, client, runVars, evidence, done, outcome>>

-----------------------------------------------------------------------------
Expiry == Expires \/ ExpiryCloses
RunStep ==
  \/ TakeControl \/ Greet \/ ReadEvidence \/ ProbeBack \/ SendEvidence \/ Finish
  \/ RunFails \/ CloseControl \/ RunCloses \/ RunReturns
ConnectStep ==
  \/ \E f \in Family : DialControl(f) \/ Greeted(f)
  \/ Report \/ ReadAnswer \/ SayDone \/ ConnectFails \/ ConnectCloses \/ ConnectReturns

Over ==
  /\ run = "returned" /\ connect = "returned" /\ \A e \in End : server[e] = "joined"
  /\ UNCHANGED vars

Next ==
  \/ \E c \in Conn : ClientFails(c) \/ HandlerStep(c)
  \/ \E e \in End : ContextEnds(e) \/ CloseAndJoin(e)
  \/ Expiry \/ RunStep \/ ConnectStep \/ Over

\* Every dial, handshake, read and write runs under a timeout, and the expiry
\* timer fires; that a context ends is not assumed.
Fairness ==
  /\ WF_vars(Expiry) /\ WF_vars(RunStep) /\ WF_vars(ConnectStep)
  /\ \A c \in Conn : WF_vars(ClientFails(c)) /\ WF_vars(HandlerStep(c))
  /\ \A e \in End : WF_vars(CloseAndJoin(e))

Spec == Init /\ [][Next]_vars
FairSpec == Spec /\ Fairness

-----------------------------------------------------------------------------
Statuses == {"untested", "pass", "fail", "na"}

TypeOK ==
  /\ offered \in [End -> SUBSET Family] /\ requests \subseteq Family
  /\ server \in [End -> {"serving", "closing", "joined"}]
  /\ closer \in [End -> {"nobody", "owner", "context"}]
  /\ doomed \in [End -> SUBSET Conn]
  /\ tracked \subseteq Conn /\ open \subseteq Conn
  /\ handler \in [Conn -> {"none", "accepted", "claimed", "handing", "gone"}]
  /\ client \in [Conn -> {"idle", "dialing", "asked", "pass", "fail"}]
  /\ inbound \in [End -> SUBSET Family]
  /\ controlUsed \in BOOLEAN /\ done \in BOOLEAN
  /\ {controls, control} \subseteq Conn \cup {NoConn}
  /\ timer \in {"armed", "fired", "stopped"}
  /\ run \in {"waiting", "greeting", "reading", "verified", "probing", "finishing", "leaving", "closing", "returned"}
  /\ connect \in {"greeting", "probing", "awaiting", "finishing", "leaving", "returned"}
  /\ evidence \in [End -> [Family -> Statuses]]
  /\ outcome \in [End -> {"none", "error", "refuted", "result"}]

\* Two ends that follow the protocol never refute each other: a pass reaches the
\* other end after the probe it answers was entered there, and an address left
\* untested was not probed, whatever was lost, late or closed in between.
EvidenceStands == \A e \in End : outcome[e] # "refuted"

\* The listener has no verdict of its own: when it returns a result, the
\* connector has checked the same evidence and returns the same result, and every
\* pass in it is one the server it was aimed at answered.
ResultsAreTwoEnded ==
  outcome["listener"] = "result" =>
    /\ outcome["connector"] = "result"
    /\ Verified("listener", evidence["connector"]) /\ Verified("connector", evidence["listener"])
    /\ \E f \in Family : evidence["connector"][f] # "untested"

\* No socket escapes Close: those open are all tracked, within the limit, and
\* when Close has joined the handlers none is open, the control connection that
\* nobody took and the connection accepted while it was closing included.
NoSocketEscapesClose ==
  \A e \in End :
    /\ open \cap Of(e) \subseteq tracked /\ Cardinality(open \cap Of(e)) <= Limit
    /\ server[e] = "joined" => open \cap Of(e) = {}

\* Both ends return, and their servers are gone, whoever connects, and whatever
\* is lost: also when nobody says hello, or the one who did goes away.
SessionEnds == <>(run = "returned" /\ connect = "returned" /\ \A e \in End : server[e] = "joined")
=============================================================================
