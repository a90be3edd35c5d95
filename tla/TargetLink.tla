----------------------------- MODULE TargetLink -----------------------------
(***************************************************************************)
(* The one socket to the target that the TCP, TLS and HTTPS rows of a      *)
(* graph hand along (internal/diagnostic/acquisition.go, probe_target.go). *)
(*                                                                         *)
(* The rows run one after another, but each in a goroutine of its own; the *)
(* HTTPS row's transport dials in one that may outlive the row; the owner  *)
(* may discard the graph while rows are in flight; and in a Watch pass a   *)
(* row may be answered from the cache and never look at the link.          *)
(*                                                                         *)
(* A socket is named after the dial that opened it: each dial of a graph   *)
(* happens at most once.                                                   *)
(***************************************************************************)
EXTENDS FiniteSets

VARIABLES
  watch,           \* a Watch pass: rows may be answered from the cache
  toTLS, toHTTPS,  \* the consumers armLinks found in the graph
  slot,            \* targetLink.conn
  closed,          \* targetLink.closed
  alive,           \* the rows' context
  open,            \* sockets open now
  dialed,          \* dials made
  secured,         \* sockets with a TLS session
  row,             \* per row: where it is
  conn,            \* per holder: the socket it holds
  transport,       \* the HTTPS row's transport
  reused,          \* httpProbe's reused: its transport used the shared socket
  acquired,        \* rows whose result names the link (acquisition # 0)
  via              \* history, per row: the socket its answer came over

graph == <<watch, toTLS, toHTTPS>>
linkVars == <<slot, closed>>
vars == <<graph, slot, closed, alive, open, dialed, secured,
          row, conn, transport, reused, acquired, via>>

Row == {"tcp", "tls", "https"}
Socket == {"tcp", "tls", "https", "retry"}
None == "none"
Ended == {"passed", "failed", "skipped"}

Init ==
  /\ watch \in BOOLEAN
  /\ toTLS \in BOOLEAN /\ toHTTPS \in BOOLEAN
  /\ slot = None /\ closed = FALSE /\ alive = TRUE
  /\ open = {} /\ dialed = {} /\ secured = {}
  /\ row = [r \in Row |-> "waiting"]
  /\ conn = [r \in Row |-> None]
  /\ transport = "idle" /\ reused = FALSE
  /\ acquired = {}
  /\ via = [r \in Row |-> None]

-----------------------------------------------------------------------------
\* The link.

\* offer succeeds.
Offered(c) == ~closed /\ slot = None

\* A fault: the stored connection is forgotten, not closed.
ReleaseForgets(also) ==
  /\ closed' = TRUE
  /\ slot' = None
  /\ open' = open \ also

\* release: the stored connection is closed and later offers are refused. The
\* caller may close a socket of its own besides.
Release(also) ==
  /\ closed' = TRUE
  /\ slot' = None
  /\ open' = open \ ({slot} \cup also)

\* The row ends with the socket stored, or closed.
HandOn(r) ==
  /\ IF Offered(conn[r]) THEN slot' = conn[r] /\ UNCHANGED open
                         ELSE open' = open \ {conn[r]} /\ UNCHANGED slot
  /\ UNCHANGED closed

CloseOwn(r) ==
  /\ open' = open \ {conn[r]}
  /\ UNCHANGED linkVars

Move(r, to) == row' = [row EXCEPT ![r] = to]
Drop(r) == conn' = [conn EXCEPT ![r] = None]

-----------------------------------------------------------------------------
\* Target TCP.

TcpConnects ==
  /\ row["tcp"] = "waiting"
  /\ open' = open \cup {"tcp"} /\ dialed' = dialed \cup {"tcp"}
  /\ conn' = [conn EXCEPT !["tcp"] = "tcp"]
  /\ Move("tcp", "connected")
  /\ UNCHANGED <<graph, linkVars, alive, secured, transport, acquired, via, reused>>

TcpFails ==
  /\ row["tcp"] = "waiting"
  /\ Move("tcp", "failed")
  /\ UNCHANGED <<graph, linkVars, alive, open, dialed, secured, conn,
                 transport, acquired, via, reused>>

\* The row passes and its socket goes to the TLS row of the graph.
TcpHandsOn ==
  /\ row["tcp"] = "connected" /\ toTLS
  /\ HandOn("tcp")
  /\ acquired' = IF Offered("tcp") THEN acquired \cup {"tcp"} ELSE acquired
  /\ via' = [via EXCEPT !["tcp"] = "tcp"]
  /\ Move("tcp", "passed") /\ Drop("tcp")
  /\ UNCHANGED <<graph, alive, dialed, secured, transport, reused>>

\* No TLS row was selected.
TcpCloses ==
  /\ row["tcp"] = "connected" /\ ~toTLS
  /\ CloseOwn("tcp")
  /\ via' = [via EXCEPT !["tcp"] = "tcp"]
  /\ Move("tcp", "passed") /\ Drop("tcp")
  /\ UNCHANGED <<graph, alive, dialed, secured, transport, acquired, reused>>

-----------------------------------------------------------------------------
\* TLS.

Ready(r, dep) == row[r] = "waiting" /\ row[dep] = "passed"

\* The executor skips a row behind one that did not pass.
Skip(r, dep) ==
  /\ row[r] = "waiting" /\ row[dep] \in Ended \ {"passed"}
  /\ Move(r, "skipped")
  /\ UNCHANGED <<graph, linkVars, alive, open, dialed, secured, conn,
                 transport, acquired, via, reused>>

\* A Watch pass answers the row from its cache.
Cached(r, dep) ==
  /\ watch /\ Ready(r, dep)
  /\ Move(r, "passed")
  /\ UNCHANGED <<graph, linkVars, alive, open, dialed, secured, conn,
                 transport, acquired, via, reused>>

\* take, by the TLS row: it shakes hands on what it took, or dials.
TlsTakes ==
  /\ toTLS /\ Ready("tls", "tcp")
  /\ conn' = [conn EXCEPT !["tls"] = slot]
  /\ slot' = None
  /\ Move("tls", IF slot = None THEN "dialing" ELSE "handshake")
  /\ UNCHANGED <<graph, closed, alive, open, dialed, secured,
                 transport, acquired, via, reused>>

HandshakePasses ==
  /\ row["tls"] = "handshake"
  /\ secured' = secured \cup {conn["tls"]}
  /\ Move("tls", "secure")
  /\ UNCHANGED <<graph, linkVars, alive, open, dialed, conn,
                 transport, acquired, via, reused>>

\* A certificate, an alert, a deadline: the row's answer, over the shared socket.
HandshakeFails ==
  /\ row["tls"] = "handshake"
  /\ CloseOwn("tls")
  /\ acquired' = acquired \cup {"tls"}
  /\ via' = [via EXCEPT !["tls"] = conn["tls"]]
  /\ Move("tls", "failed") /\ Drop("tls")
  /\ UNCHANGED <<graph, alive, dialed, secured, transport, reused>>

\* The shared socket was dead: the row dials for itself.
HandshakeOnDead ==
  /\ row["tls"] = "handshake" /\ alive
  /\ CloseOwn("tls")
  /\ Move("tls", "dialing") /\ Drop("tls")
  /\ UNCHANGED <<graph, alive, dialed, secured, transport, acquired, via, reused>>

TlsDials ==
  /\ row["tls"] = "dialing"
  /\ open' = open \cup {"tls"} /\ dialed' = dialed \cup {"tls"}
  /\ secured' = secured \cup {"tls"}
  /\ conn' = [conn EXCEPT !["tls"] = "tls"]
  /\ Move("tls", "secure")
  /\ UNCHANGED <<graph, linkVars, alive, transport, acquired, via, reused>>

TlsDialFails ==
  /\ row["tls"] = "dialing"
  /\ Move("tls", "failed")
  /\ UNCHANGED <<graph, linkVars, alive, open, dialed, secured, conn,
                 transport, acquired, via, reused>>

\* A session over the shared socket goes on to HTTPS, where the graph has it.
SharedOn == conn["tls"] = "tcp" /\ toHTTPS

\* A fault: the row names the link whatever socket it used.
TlsAcquiresAlways == acquired' = acquired \cup {"tls"}

TlsAcquires == acquired' = IF conn["tls"] = "tcp" THEN acquired \cup {"tls"} ELSE acquired

TlsPasses ==
  /\ row["tls"] = "secure"
  /\ IF SharedOn THEN HandOn("tls") ELSE CloseOwn("tls")
  /\ TlsAcquires
  /\ via' = [via EXCEPT !["tls"] = conn["tls"]]
  /\ Move("tls", "passed") /\ Drop("tls")
  /\ UNCHANGED <<graph, alive, dialed, secured, transport, reused>>

-----------------------------------------------------------------------------
\* HTTPS.

HttpsStarts ==
  /\ toHTTPS /\ Ready("https", "tls")
  /\ Move("https", "request")
  /\ transport' = "taking"
  /\ UNCHANGED <<graph, linkVars, alive, open, dialed, secured, conn, acquired, via, reused>>

\* take, by the transport: a TLS session is used; a bare socket the TLS row left
\* because it was answered from the cache is closed.
TransportTakes ==
  /\ transport = "taking"
  /\ slot' = None
  /\ IF slot \in secured
       THEN /\ conn' = [conn EXCEPT !["https"] = slot]
            /\ transport' = "connected"
            /\ reused' = TRUE
            /\ UNCHANGED open
       ELSE /\ open' = open \ {slot}
            /\ transport' = "dialing"
            /\ UNCHANGED <<conn, reused>>
  /\ UNCHANGED <<graph, closed, alive, dialed, secured, row, acquired, via>>

NextDial == IF transport = "redialing" THEN "retry" ELSE "https"

TransportDials ==
  /\ transport \in {"dialing", "redialing"}
  /\ open' = open \cup {NextDial} /\ dialed' = dialed \cup {NextDial}
  /\ secured' = secured \cup {NextDial}
  /\ conn' = [conn EXCEPT !["https"] = NextDial]
  /\ transport' = "connected" /\ reused' = FALSE
  /\ UNCHANGED <<graph, linkVars, alive, row, acquired, via>>

\* The row returns, with what the slot still holds closed behind it.
HttpsEnds(to, used, shared) ==
  /\ row["https"] = "request"
  /\ Move("https", to)
  /\ via' = [via EXCEPT !["https"] = used]
  /\ acquired' = IF shared THEN acquired \cup {"https"} ELSE acquired
  /\ UNCHANGED <<graph, alive, dialed, secured>>

\* The request was answered, or failed for good, over a connection.
HttpsAnswered ==
  /\ transport = "connected"
  /\ \E to \in {"passed", "failed"} : HttpsEnds(to, conn["https"], reused)
  /\ Release({conn["https"]})
  /\ transport' = "over" /\ Drop("https") /\ UNCHANGED reused

\* The dial failed.
HttpsDialFails ==
  /\ transport \in {"dialing", "redialing"}
  /\ HttpsEnds("failed", None, FALSE)
  /\ Release({})
  /\ transport' = "over" /\ reused' = FALSE /\ UNCHANGED conn

\* The shared socket died before any answer: one retry, which finds the slot
\* empty.
RetryOnDead ==
  /\ row["https"] = "request" /\ alive
  /\ transport = "connected" /\ reused
  /\ CloseOwn("https")
  /\ transport' = "redialing" /\ Drop("https")
  /\ UNCHANGED <<graph, alive, dialed, secured, row, acquired, via, reused>>

\* The row's time is up while its transport is still dialing: it reports what
\* the dials that returned have left.
HttpsTimesOut ==
  /\ transport \in {"taking", "dialing", "redialing"}
  /\ HttpsEnds("failed", None, reused)
  /\ Release({})
  /\ UNCHANGED <<transport, reused, conn>>

\* A transport without a row closes what it has and gives up.
TransportGivesUp ==
  /\ row["https"] \in Ended /\ transport \in {"dialing", "redialing", "connected"}
  /\ CloseOwn("https")
  /\ transport' = "over" /\ Drop("https")
  /\ UNCHANGED <<graph, alive, dialed, secured, row, acquired, via, reused>>

-----------------------------------------------------------------------------
\* The graph is discarded: by RunAll when it returns, by the UI at any moment,
\* which also cancels the rows still in flight.
Discard ==
  /\ ~closed \/ alive
  /\ Release({})
  /\ alive' = FALSE
  /\ UNCHANGED <<graph, dialed, secured, row, conn, transport, acquired, via, reused>>

Tcp == TcpConnects \/ TcpFails \/ TcpHandsOn \/ TcpCloses
Tls ==
  \/ toTLS /\ (Skip("tls", "tcp") \/ Cached("tls", "tcp"))
  \/ TlsTakes \/ HandshakePasses \/ HandshakeFails \/ HandshakeOnDead
  \/ TlsDials \/ TlsDialFails \/ TlsPasses
Https ==
  \/ toHTTPS /\ (Skip("https", "tls") \/ Cached("https", "tls"))
  \/ HttpsStarts \/ HttpsAnswered \/ HttpsDialFails \/ RetryOnDead \/ HttpsTimesOut
Transport == TransportTakes \/ TransportDials \/ TransportGivesUp

Selected == {"tcp"} \cup (IF toTLS THEN {"tls"} ELSE {})
                    \cup (IF toTLS /\ toHTTPS THEN {"https"} ELSE {})
GraphOver == (\A r \in Selected : row[r] \in Ended) /\ transport \in {"idle", "over"}
Over == GraphOver /\ closed /\ ~alive /\ UNCHANGED vars

Next == Tcp \/ Tls \/ Https \/ Transport \/ Discard \/ Over

Spec == Init /\ [][Next]_vars

-----------------------------------------------------------------------------
TypeOK ==
  /\ {watch, toTLS, toHTTPS, closed, alive, reused} \subseteq BOOLEAN
  /\ slot \in Socket \cup {None}
  /\ open \subseteq dialed /\ dialed \subseteq Socket /\ secured \subseteq dialed
  /\ row \in [Row -> Ended \cup {"waiting", "connected", "handshake", "dialing", "secure", "request"}]
  /\ conn \in [Row -> Socket \cup {None}]
  /\ transport \in {"idle", "taking", "dialing", "redialing", "connected", "over"}
  /\ acquired \subseteq Row
  /\ via \in [Row -> Socket \cup {None}]

\* A socket that is open is held by exactly one row, or by the slot of a link
\* that was not released, and what is held is open: none is leaked or closed
\* under its holder by a row that ends, a graph that is discarded under it or a
\* row the cache answered, and no two rows use one.
Holders(c) == {r \in Row : conn[r] = c} \cup {s \in {"slot"} : slot = c}
EverySocketHasOneOwner ==
  \A c \in Socket : Cardinality(Holders(c)) = IF c \in open THEN 1 ELSE 0

\* A row that answered over a socket names the link in its result exactly when
\* that is the socket Target TCP opened, so rows that claim to be independent are;
\* and a request goes out over a socket with a TLS session only, although the TLS
\* row may have been answered from the cache and left a bare one.
ProvenanceIsTrue ==
  /\ transport = "connected" => conn["https"] \in secured
  /\ \A r \in {"tls", "https"} : via[r] # None => (r \in acquired <=> via[r] = "tcp")

\* What the tests say of a row that fell back to a connection of its own: it
\* carries no provenance. The code keeps the dead socket's when the second dial
\* outlasts the row.
FallbackCarriesNoProvenance == "https" \in acquired => via["https"] = "tcp"
=============================================================================
