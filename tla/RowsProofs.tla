----------------------------- MODULE RowsProofs -----------------------------
(***************************************************************************)
(* What rows share. The socket of one graph's rows: in every interleaving  *)
(* of the rows, the transport and the discarding owner it has one holder   *)
(* while it is open, and a result names the link exactly when it rests on  *)
(* it. The samples the components of a profile share, and the routes the   *)
(* rows of a pass share: whatever is shown together rests on one of each.  *)
(***************************************************************************)
EXTENDS MCProbeRows, Integers, FiniteSetTheorems, TLAPS

-----------------------------------------------------------------------------
\* The socket of a target: the inductive invariant.

\* What is held is open, what is open is held, and nothing is held twice.
HeldIsOpen ==
  /\ slot # None => slot \in open
  /\ \A r \in Row : conn[r] # None => conn[r] \in open
OpenIsHeld == \A c \in open : slot = c \/ \E r \in Row : conn[r] = c
HeldOnce ==
  /\ slot # None => \A r \in Row : conn[r] # slot
  /\ \A q, r \in Row : conn[q] = conn[r] /\ conn[q] # None => q = r

\* Where a holder is tells which socket it can hold.
PlacedByRow ==
  /\ slot \in {None, "tcp"}
  /\ closed => slot = None
  /\ conn["tcp"] = IF row["tcp"] = "connected" THEN "tcp" ELSE None
  /\ conn["tls"] \in IF row["tls"] = "handshake" THEN {"tcp"}
                     ELSE IF row["tls"] = "secure" THEN {"tcp", "tls"} ELSE {None}
  /\ conn["https"] \in IF transport = "connected" THEN {"tcp", "https", "retry"} ELSE {None}
  /\ "tcp" \in open => row["tcp"] \in {"connected", "passed"}

\* The rows begin in order, and the transport with its row.
Started ==
  /\ row["tls"] \notin {"waiting", "skipped"} => row["tcp"] = "passed"
  /\ row["https"] = "waiting" => transport = "idle"
  /\ row["https"] = "request" => transport # "over"

\* A row has left no provenance before it ends; a session is what TLS made.
Provenance ==
  /\ \A r \in Row : row[r] \notin Ended => r \notin acquired /\ via[r] = None
  /\ row["tls"] = "secure" => conn["tls"] \in secured
  /\ transport \in {"idle", "taking", "dialing"} => ~reused
  /\ transport = "connected" => (reused <=> conn["https"] = "tcp")
  /\ transport = "over" => row["https"] \in Ended

Sockets == open \subseteq dialed /\ dialed \subseteq Socket /\ secured \subseteq dialed
Ownership == HeldIsOpen /\ OpenIsHeld /\ HeldOnce
Placement == PlacedByRow /\ Started

IInv ==
  /\ TypeOK
  /\ Ownership
  /\ Placement
  /\ Provenance
  /\ ProvenanceIsTrue

-----------------------------------------------------------------------------
\* The rows that move over without touching the link.
PassedOver ==
  \/ Skip("tls", "tcp") \/ Skip("https", "tls")
  \/ Cached("tls", "tcp") \/ Cached("https", "tls")

LEMMA InitIInv == Init => IInv
<1> SUFFICES ASSUME Init PROVE IInv
  OBVIOUS
<1> USE DEF Init, Row, None, Socket, Ended
<1>1. TypeOK
  BY DEF TypeOK
<1>2. Ownership /\ Placement
  BY DEF Ownership, HeldIsOpen, OpenIsHeld, HeldOnce, Placement, PlacedByRow, Started
<1>3. Provenance /\ ProvenanceIsTrue
  BY DEF Provenance, ProvenanceIsTrue
<1> QED
  BY <1>1, <1>2, <1>3 DEF IInv

\* Only what was dialed is open or secured.
LEMMA SocketsKept == IInv /\ [Next]_vars => Sockets'
<1> SUFFICES ASSUME IInv, [Next]_vars PROVE Sockets'
  OBVIOUS
<1> USE DEF IInv, TypeOK, Sockets, graph, linkVars
<1>1. CASE TcpConnects
  BY <1>1 DEF TcpConnects, Socket
<1>2. CASE TcpFails
  BY <1>2 DEF TcpFails
<1>3. CASE TcpHandsOn
  BY <1>3 DEF TcpHandsOn, HandOn
<1>4. CASE TcpCloses
  BY <1>4 DEF TcpCloses, CloseOwn
<1>5. CASE TlsTakes
  BY <1>5 DEF TlsTakes
<1>6. CASE HandshakePasses
  BY <1>6 DEF HandshakePasses, Ownership, HeldIsOpen, Placement, PlacedByRow, None, Row
<1>7. CASE HandshakeFails
  BY <1>7 DEF HandshakeFails, CloseOwn
<1>8. CASE HandshakeOnDead
  BY <1>8 DEF HandshakeOnDead, CloseOwn
<1>9. CASE TlsDials
  BY <1>9 DEF TlsDials, Socket
<1>10. CASE TlsDialFails
  BY <1>10 DEF TlsDialFails
<1>11. CASE TlsPasses
  BY <1>11 DEF TlsPasses, HandOn, CloseOwn
<1>12. CASE HttpsStarts
  BY <1>12 DEF HttpsStarts
<1>13. CASE HttpsAnswered
  BY <1>13 DEF HttpsAnswered, HttpsEnds, Release
<1>14. CASE HttpsDialFails
  BY <1>14 DEF HttpsDialFails, HttpsEnds, Release
<1>15. CASE RetryOnDead
  BY <1>15 DEF RetryOnDead, CloseOwn
<1>16. CASE HttpsTimesOut
  BY <1>16 DEF HttpsTimesOut, HttpsEnds, Release
<1>17. CASE TransportTakes
  BY <1>17 DEF TransportTakes
<1>18. CASE TransportDials
  BY <1>18 DEF TransportDials, NextDial, Socket
<1>19. CASE TransportGivesUp
  BY <1>19 DEF TransportGivesUp, CloseOwn
<1>20. CASE Discard
  BY <1>20 DEF Discard, Release
<1>21. CASE PassedOver
  BY <1>21 DEF PassedOver, Skip, Cached
<1>22. CASE UNCHANGED vars
  BY <1>22 DEF vars
<1> QED
  BY <1>1, <1>2, <1>3, <1>4, <1>5, <1>6, <1>7, <1>8, <1>9, <1>10, <1>11, <1>12,
     <1>13, <1>14, <1>15, <1>16, <1>17, <1>18, <1>19, <1>20, <1>21, <1>22
     DEF Next, Tcp, Tls, Https, Transport, Over, PassedOver

\* A step takes a socket from one holder to the next, or closes it.
LEMMA OwnershipKept == IInv /\ [Next]_vars => Ownership'
<1> SUFFICES ASSUME IInv, [Next]_vars PROVE Ownership'
  OBVIOUS
<1> USE DEF IInv, TypeOK, Ownership, HeldIsOpen, OpenIsHeld, HeldOnce, Placement, PlacedByRow,
       Started, Row, Socket, None, Ended, graph, linkVars, Move, Drop
<1>1. CASE TcpConnects
  BY <1>1 DEF TcpConnects
<1>2. CASE TcpFails
  BY <1>2 DEF TcpFails
<1>3. CASE TcpHandsOn
  <2>1. CASE slot' = "tcp" /\ UNCHANGED open
    BY <1>3, <2>1 DEF TcpHandsOn
  <2>2. CASE open' = open \ {"tcp"} /\ UNCHANGED slot
    BY <1>3, <2>2 DEF TcpHandsOn
  <2> QED
    BY <1>3, <2>1, <2>2 DEF TcpHandsOn, HandOn, Offered
<1>4. CASE TcpCloses
  BY <1>4 DEF TcpCloses, CloseOwn
<1>5. CASE TlsTakes
  BY <1>5 DEF TlsTakes, Ready
<1>6. CASE HandshakePasses
  BY <1>6 DEF HandshakePasses
<1>7. CASE HandshakeFails
  BY <1>7 DEF HandshakeFails, CloseOwn
<1>8. CASE HandshakeOnDead
  BY <1>8 DEF HandshakeOnDead, CloseOwn
<1>9. CASE TlsDials
  BY <1>9 DEF TlsDials
<1>10. CASE TlsDialFails
  BY <1>10 DEF TlsDialFails
<1>11. CASE TlsPasses
  <2>1. conn["tls"] # None /\ conn' = [conn EXCEPT !["tls"] = None]
    BY <1>11 DEF TlsPasses
  <2>2. CASE slot = None /\ slot' = conn["tls"] /\ UNCHANGED open
    BY <2>1, <2>2
  <2>3. CASE open' = open \ {conn["tls"]} /\ UNCHANGED slot
    BY <2>1, <2>3
  <2> QED
    BY <1>11, <2>2, <2>3 DEF TlsPasses, HandOn, CloseOwn, Offered
<1>12. CASE HttpsStarts
  BY <1>12 DEF HttpsStarts, Ready
<1>13. CASE HttpsAnswered
  BY <1>13 DEF HttpsAnswered, HttpsEnds, Release
<1>14. CASE HttpsDialFails
  BY <1>14 DEF HttpsDialFails, HttpsEnds, Release
<1>15. CASE RetryOnDead
  BY <1>15 DEF RetryOnDead, CloseOwn
<1>16. CASE HttpsTimesOut
  BY <1>16 DEF HttpsTimesOut, HttpsEnds, Release
<1>17. CASE TransportTakes
  <2>1. conn["https"] = None /\ slot' = None
    BY <1>17 DEF TransportTakes
  <2>2. CASE slot \in secured
    <3>1. slot # None /\ conn' = [conn EXCEPT !["https"] = slot] /\ UNCHANGED open
      BY <1>17, <2>2 DEF TransportTakes
    <3> QED
      BY <2>1, <3>1
  <2>3. CASE slot \notin secured
    <3>1. open' = open \ {slot} /\ UNCHANGED conn
      BY <1>17, <2>3 DEF TransportTakes
    <3> QED
      BY <2>1, <3>1
  <2> QED
    BY <2>2, <2>3
<1>18. CASE TransportDials
  BY <1>18 DEF TransportDials, NextDial
<1>19. CASE TransportGivesUp
  BY <1>19 DEF TransportGivesUp, CloseOwn
<1>20. CASE Discard
  BY <1>20 DEF Discard, Release
<1>21. CASE PassedOver
  BY <1>21 DEF PassedOver, Skip, Cached, Ready
<1>22. CASE UNCHANGED vars
  BY <1>22 DEF vars
<1> QED
  BY <1>1, <1>2, <1>3, <1>4, <1>5, <1>6, <1>7, <1>8, <1>9, <1>10, <1>11, <1>12,
     <1>13, <1>14, <1>15, <1>16, <1>17, <1>18, <1>19, <1>20, <1>21, <1>22
     DEF Next, Tcp, Tls, Https, Transport, Over, PassedOver

\* A row moves with its socket.
LEMMA PlacementKept == IInv /\ [Next]_vars => Placement'
<1> SUFFICES ASSUME IInv, [Next]_vars PROVE Placement'
  OBVIOUS
<1> USE DEF IInv, TypeOK, Ownership, HeldIsOpen, Placement, PlacedByRow, Started, Provenance, Row,
       Socket, None, Ended, graph, linkVars, Move, Drop
<1>1. CASE TcpConnects
  BY <1>1 DEF TcpConnects
<1>2. CASE TcpFails
  BY <1>2 DEF TcpFails
<1>3. CASE TcpHandsOn
  BY <1>3 DEF TcpHandsOn, HandOn, Offered
<1>4. CASE TcpCloses
  BY <1>4 DEF TcpCloses, CloseOwn
<1>5. CASE TlsTakes
  BY <1>5 DEF TlsTakes, Ready
<1>6. CASE HandshakePasses
  BY <1>6 DEF HandshakePasses
<1>7. CASE HandshakeFails
  BY <1>7 DEF HandshakeFails, CloseOwn
<1>8. CASE HandshakeOnDead
  BY <1>8 DEF HandshakeOnDead, CloseOwn
<1>9. CASE TlsDials
  BY <1>9 DEF TlsDials
<1>10. CASE TlsDialFails
  BY <1>10 DEF TlsDialFails
<1>11. CASE TlsPasses
  BY <1>11 DEF TlsPasses, HandOn, CloseOwn, Offered, SharedOn, TlsAcquires
<1>12. CASE HttpsStarts
  BY <1>12 DEF HttpsStarts, Ready
<1>13. CASE HttpsAnswered
  BY <1>13 DEF HttpsAnswered, HttpsEnds, Release
<1>14. CASE HttpsDialFails
  BY <1>14 DEF HttpsDialFails, HttpsEnds, Release
<1>15. CASE RetryOnDead
  BY <1>15 DEF RetryOnDead, CloseOwn
<1>16. CASE HttpsTimesOut
  BY <1>16 DEF HttpsTimesOut, HttpsEnds, Release
<1>17. CASE TransportTakes
  BY <1>17 DEF TransportTakes
<1>18. CASE TransportDials
  BY <1>18 DEF TransportDials, NextDial
<1>19. CASE TransportGivesUp
  BY <1>19 DEF TransportGivesUp, CloseOwn
<1>20. CASE Discard
  BY <1>20 DEF Discard, Release
<1>21. CASE PassedOver
  BY <1>21 DEF PassedOver, Skip, Cached, Ready
<1>22. CASE UNCHANGED vars
  BY <1>22 DEF vars
<1> QED
  BY <1>1, <1>2, <1>3, <1>4, <1>5, <1>6, <1>7, <1>8, <1>9, <1>10, <1>11, <1>12,
     <1>13, <1>14, <1>15, <1>16, <1>17, <1>18, <1>19, <1>20, <1>21, <1>22
     DEF Next, Tcp, Tls, Https, Transport, Over, PassedOver

\* A row names the link as it ends, when it answers over the socket of Target TCP.
LEMMA ProvenanceKept == IInv /\ [Next]_vars => (Provenance /\ ProvenanceIsTrue)'
<1> SUFFICES ASSUME IInv, [Next]_vars PROVE (Provenance /\ ProvenanceIsTrue)'
  OBVIOUS
<1> USE DEF IInv, TypeOK, Placement, PlacedByRow, Started, Provenance, ProvenanceIsTrue, Row,
       Socket, None, Ended, graph, linkVars, Move, Drop
<1>1. CASE TcpConnects
  BY <1>1 DEF TcpConnects
<1>2. CASE TcpFails
  BY <1>2 DEF TcpFails
<1>3. CASE TcpHandsOn
  BY <1>3 DEF TcpHandsOn, HandOn, Offered
<1>4. CASE TcpCloses
  BY <1>4 DEF TcpCloses, CloseOwn
<1>5. CASE TlsTakes
  BY <1>5 DEF TlsTakes, Ready
<1>6. CASE HandshakePasses
  BY <1>6 DEF HandshakePasses
<1>7. CASE HandshakeFails
  BY <1>7 DEF HandshakeFails, CloseOwn
<1>8. CASE HandshakeOnDead
  BY <1>8 DEF HandshakeOnDead, CloseOwn
<1>9. CASE TlsDials
  BY <1>9 DEF TlsDials
<1>10. CASE TlsDialFails
  BY <1>10 DEF TlsDialFails
<1>11. CASE TlsPasses
  BY <1>11 DEF TlsPasses, HandOn, CloseOwn, Offered, SharedOn, TlsAcquires
<1>12. CASE HttpsStarts
  BY <1>12 DEF HttpsStarts, Ready
<1>13. CASE HttpsAnswered
  BY <1>13 DEF HttpsAnswered, HttpsEnds, Release
<1>14. CASE HttpsDialFails
  BY <1>14 DEF HttpsDialFails, HttpsEnds, Release
<1>15. CASE RetryOnDead
  BY <1>15 DEF RetryOnDead, CloseOwn
<1>16. CASE HttpsTimesOut
  BY <1>16 DEF HttpsTimesOut, HttpsEnds, Release
<1>17. CASE TransportTakes
  BY <1>17 DEF TransportTakes
<1>18. CASE TransportDials
  BY <1>18 DEF TransportDials, NextDial
<1>19. CASE TransportGivesUp
  BY <1>19 DEF TransportGivesUp, CloseOwn
<1>20. CASE Discard
  BY <1>20 DEF Discard, Release
<1>21. CASE PassedOver
  BY <1>21 DEF PassedOver, Skip, Cached, Ready
<1>22. CASE UNCHANGED vars
  BY <1>22 DEF vars
<1> QED
  BY <1>1, <1>2, <1>3, <1>4, <1>5, <1>6, <1>7, <1>8, <1>9, <1>10, <1>11, <1>12,
     <1>13, <1>14, <1>15, <1>16, <1>17, <1>18, <1>19, <1>20, <1>21, <1>22
     DEF Next, Tcp, Tls, Https, Transport, Over, PassedOver

\* Every variable stays in its range.
LEMMA TypeKept == IInv /\ [Next]_vars => TypeOK'
<1> SUFFICES ASSUME IInv, [Next]_vars PROVE TypeOK'
  OBVIOUS
<1> USE DEF IInv, TypeOK, Sockets, Row, Socket, None, Ended, graph, linkVars, Move, Drop
<1>0. Sockets'
  BY SocketsKept
<1>1. CASE TcpConnects
  BY <1>0, <1>1 DEF TcpConnects
<1>2. CASE TcpFails
  BY <1>0, <1>2 DEF TcpFails
<1>3. CASE TcpHandsOn
  BY <1>0, <1>3 DEF TcpHandsOn, HandOn, Offered
<1>4. CASE TcpCloses
  BY <1>0, <1>4 DEF TcpCloses, CloseOwn
<1>5. CASE TlsTakes
  BY <1>0, <1>5 DEF TlsTakes, Ready
<1>6. CASE HandshakePasses
  BY <1>0, <1>6 DEF HandshakePasses
<1>7. CASE HandshakeFails
  BY <1>0, <1>7 DEF HandshakeFails, CloseOwn
<1>8. CASE HandshakeOnDead
  BY <1>0, <1>8 DEF HandshakeOnDead, CloseOwn
<1>9. CASE TlsDials
  BY <1>0, <1>9 DEF TlsDials
<1>10. CASE TlsDialFails
  BY <1>0, <1>10 DEF TlsDialFails
<1>11. CASE TlsPasses
  BY <1>0, <1>11 DEF TlsPasses, HandOn, CloseOwn, Offered, SharedOn, TlsAcquires
<1>12. CASE HttpsStarts
  BY <1>0, <1>12 DEF HttpsStarts, Ready
<1>13. CASE HttpsAnswered
  BY <1>0, <1>13 DEF HttpsAnswered, HttpsEnds, Release
<1>14. CASE HttpsDialFails
  BY <1>0, <1>14 DEF HttpsDialFails, HttpsEnds, Release
<1>15. CASE RetryOnDead
  BY <1>0, <1>15 DEF RetryOnDead, CloseOwn
<1>16. CASE HttpsTimesOut
  BY <1>0, <1>16 DEF HttpsTimesOut, HttpsEnds, Release
<1>17. CASE TransportTakes
  <2>1. /\ UNCHANGED <<watch, toTLS, toHTTPS, closed, alive, dialed, secured, row, acquired, via>>
        /\ slot' = None
    BY <1>17 DEF TransportTakes
  <2>2. /\ conn' \in [Row -> Socket \cup {None}]
        /\ transport' \in {"connected", "dialing"} /\ reused' \in BOOLEAN
    BY <1>17 DEF TransportTakes
  <2> QED
    BY <1>0, <2>1, <2>2
<1>18. CASE TransportDials
  BY <1>0, <1>18 DEF TransportDials, NextDial
<1>19. CASE TransportGivesUp
  BY <1>0, <1>19 DEF TransportGivesUp, CloseOwn
<1>20. CASE Discard
  BY <1>0, <1>20 DEF Discard, Release
<1>21. CASE PassedOver
  <2>1. PICK r \in Row, s \in Ended : row' = [row EXCEPT ![r] = s]
    BY <1>21 DEF PassedOver, Skip, Cached
  <2>2. UNCHANGED <<watch, toTLS, toHTTPS, closed, slot, alive, open, dialed, secured, conn,
                    transport, acquired, via, reused>>
    BY <1>21 DEF PassedOver, Skip, Cached
  <2> QED
    BY <1>0, <2>1, <2>2
<1>22. CASE UNCHANGED vars
  BY <1>0, <1>22 DEF vars
<1> QED
  BY <1>1, <1>2, <1>3, <1>4, <1>5, <1>6, <1>7, <1>8, <1>9, <1>10, <1>11, <1>12,
     <1>13, <1>14, <1>15, <1>16, <1>17, <1>18, <1>19, <1>20, <1>21, <1>22
     DEF Next, Tcp, Tls, Https, Transport, Over, PassedOver

LEMMA StepIInv == IInv /\ [Next]_vars => IInv'
BY SocketsKept, TypeKept, OwnershipKept, PlacementKept, ProvenanceKept DEF IInv

\* One holder, counted: the set of holders is a singleton or empty.
LEMMA OneHolder == Ownership /\ slot \in Socket \cup {None} => EverySocketHasOneOwner
<1> SUFFICES ASSUME Ownership, NEW c \in Socket
             PROVE  Cardinality(Holders(c)) = IF c \in open THEN 1 ELSE 0
  BY DEF EverySocketHasOneOwner
<1> USE DEF Ownership, HeldIsOpen, OpenIsHeld, HeldOnce
<1>0. c # None
  BY DEF Socket, None
<1>1. CASE c \notin open
  <2>1. Holders(c) = {}
    BY <1>0, <1>1 DEF Holders
  <2> QED
    BY <1>1, <2>1, FS_EmptySet
<1>2. CASE c \in open /\ slot = c
  <2>1. Holders(c) = {"slot"}
    BY <1>0, <1>2 DEF Holders
  <2> QED
    BY <1>2, <2>1, FS_Singleton
<1>3. CASE c \in open /\ slot # c
  <2>1. PICK r \in Row : conn[r] = c
    BY <1>3
  <2>2. Holders(c) = {r}
    BY <1>0, <1>3, <2>1 DEF Holders
  <2> QED
    BY <1>3, <2>2, FS_Singleton
<1> QED
  BY <1>1, <1>2, <1>3

-----------------------------------------------------------------------------
LEMMA Invariance == Spec => []IInv
<1> QED
  BY InitIInv, StepIInv, PTL DEF Spec

\* Type correctness of the rows, the link and the transport.
THEOREM TypeCorrect == Spec => []TypeOK
<1>1. IInv => TypeOK
  BY DEF IInv
<1> QED
  BY <1>1, Invariance, PTL

\* Whatever the rows, the transport and the discarding owner do to each other,
\* an open socket of the graph has exactly one holder and a held one is open
\* (take, offer and release of acquisition.go): none leaks, and none is closed
\* under a row that uses it.
THEOREM OneOwner == Spec => []EverySocketHasOneOwner
<1>1. IInv => EverySocketHasOneOwner
  BY OneHolder DEF IInv, TypeOK
<1> QED
  BY <1>1, Invariance, PTL

\* A TLS or HTTPS result names the link exactly when its answer came over the
\* socket Target TCP opened, and a request never goes out over a bare socket
\* (probe_target.go), although a row before it may be answered from the cache.
THEOREM ProvenanceHolds == Spec => []ProvenanceIsTrue
<1>1. IInv => ProvenanceIsTrue
  BY DEF IInv
<1> QED
  BY <1>1, Invariance, PTL

-----------------------------------------------------------------------------
\* The components of a profile.

\* A row that measures is the one its observation is waiting for, and a row with a
\* sample shows the observation's.
Observed ==
  \A c \in Profile!Component, s \in Profile!Shared :
    LET shows == sharedRow[<<c, s>>] IN
    /\ shows = "measuring" =>
         flight[s] = "measuring" /\ \A d \in Profile!Component : sharedRow[<<d, s>>] = "measuring" => d = c
    /\ shows = "joined" => flight[s] # "none"
    /\ shows \in Profile!Good \cup {"failed"} => shows = flight[s]
    /\ shows = "cut" => cancelled \/ <<c, s>> \in expired \/ flight[s] = "cut"
    /\ shows = "skipped" => s = "internet"

\* The yardstick of a component is its interface row's sample.
Referenced ==
  \A c \in Profile!Component :
    /\ reference[c] = IF sharedRow[<<c, "iface">>] \in Profile!Samples
                        THEN sharedRow[<<c, "iface">>] ELSE "none"
    /\ measured[c] # "none" =>
         sharedRow[<<c, "iface">>] \in Profile!Good /\ measured[c] = sharedRow[<<c, "iface">>]

\* A component over ssh starts no row, and a local one is over when its rows are.
Acquiring ==
  \A c \in Profile!Component :
    /\ run[c] = "rows" => way = "local"
    /\ run[c] = "ssh" => way # "local"
    /\ run[c] = "over" => output[c] # "none"
    /\ run[c] = "over" /\ way = "local" =>
         \A s \in Profile!Shared : sharedRow[<<c, s>>] \in Profile!Ended

\* Where the pass is: who has run, and over which transport.
Turns ==
  /\ stage = "start" => batch = {} /\ \A c \in Profile!Component : run[c] = "waiting"
  /\ stage = "first" => batch = {1} /\ \A c \in Profile!Component : c # 1 => run[c] = "waiting"
  /\ stage = "together" => \A c \in Profile!Component : run[c] = "ssh" => c \in batch
  /\ stage = "one by one" =>
       \A c, d \in Profile!Component : c < d /\ run[d] # "waiting" => run[c] = "over"
  /\ verdict = "reported" =>
       /\ ~cancelled /\ stage \in {"together", "one by one"}
       /\ \A c \in Profile!Component : run[c] = "over" /\ output[c] = "answer"

ProfileInv == Profile!TypeOK /\ Observed /\ Referenced /\ Acquiring /\ Turns

-----------------------------------------------------------------------------
\* The routes of a pass.

\* Who has claimed an entry of the route cache, and of the link cache.
Asking(r) == pc[r] \in {"lookup", "acquire", "link"}
Claims ==
  /\ \A r \in Asker : Asking(r) => answers[dst[r]] = Routes!Claimed
  /\ \A q, r \in Asker : Asking(q) /\ Asking(r) /\ dst[q] = dst[r] => q = r
  /\ \A r \in Asker : pc[r] = "acquire" => links[routeVia[r]] = Routes!Claimed
  /\ \A q, r \in Asker : pc[q] = "acquire" /\ pc[r] = "acquire" /\ routeVia[q] = routeVia[r] => q = r

\* A decision rests on the one answer about its link.
Decisions ==
  \A d \in Dst : answers[d].ok =>
    /\ answers[d].link \in Link /\ links[answers[d].link].ok
    /\ links[answers[d].link].facts = answers[d].facts

\* What is shown is what the cache holds, and the yardstick is, too.
Shows ==
  /\ \A r \in Asker : \A x \in shown[r] : Routes!Filled(answers[x[1]]) /\ answers[x[1]] = x[2]
  /\ once = "done" => Routes!Filled(answers[Yard]) /\ yardstick = answers[Yard]
  /\ \A r \in forOnce : pc[r] # "idle" /\ dst[r] = Yard

RoutesInv == Routes!TypeOK /\ Claims /\ Decisions /\ Shows

-----------------------------------------------------------------------------
RowStates == {"waiting", "started", "measuring", "joined"} \cup Profile!Ended

\* What a row shows of its observation, one row at a time.
ObservedAt(c, s) ==
  /\ sharedRow[<<c, s>>] = "measuring" =>
       flight[s] = "measuring" /\ \A d \in Profile!Component : sharedRow[<<d, s>>] = "measuring" => d = c
  /\ sharedRow[<<c, s>>] = "joined" => flight[s] # "none"
  /\ sharedRow[<<c, s>>] \in Profile!Good \cup {"failed"} => sharedRow[<<c, s>>] = flight[s]
  /\ sharedRow[<<c, s>>] = "cut" => cancelled \/ <<c, s>> \in expired \/ flight[s] = "cut"
  /\ sharedRow[<<c, s>>] = "skipped" => s = "internet"
ReferencedAt(c) ==
  /\ reference[c] = IF sharedRow[<<c, "iface">>] \in Profile!Samples
                      THEN sharedRow[<<c, "iface">>] ELSE "none"
  /\ measured[c] # "none" =>
       sharedRow[<<c, "iface">>] \in Profile!Good /\ measured[c] = sharedRow[<<c, "iface">>]

LEMMA ProfileTyped ==
  ASSUME Profile!TypeOK
  PROVE  /\ way \in {"local", "careful", "direct"}
         /\ stage \in {"start", "first", "one by one", "together"}
         /\ run \in [Profile!Component -> {"waiting", "rows", "ssh", "over"}]
         /\ batch \subseteq Profile!Component
         /\ output \in [Profile!Component -> {"none", "answer", "error"}]
         /\ sharedRow \in [Profile!Rows -> RowStates] /\ expired \subseteq Profile!Rows
         /\ flight \in [Profile!Shared -> {"none", "measuring"} \cup Profile!Samples]
         /\ reference \in [Profile!Component -> {"none"} \cup Profile!Samples]
         /\ measured \in [Profile!Component -> {"none"} \cup Profile!Samples]
         /\ cancelled \in BOOLEAN /\ verdict \in {"none", "interrupted", "failed", "reported"}
  BY DEF Profile!TypeOK, RowStates

LEMMA RowAt ==
  ASSUME Profile!TypeOK, NEW c \in Profile!Component, NEW s \in Profile!Shared,
         NEW state \in RowStates, Profile!At(c, s, state)
  PROVE  /\ sharedRow' \in [Profile!Rows -> RowStates] /\ sharedRow'[<<c, s>>] = state
         /\ \A d \in Profile!Component, t \in Profile!Shared :
              d # c \/ t # s => sharedRow'[<<d, t>>] = sharedRow[<<d, t>>]
<1>1. /\ sharedRow' = [sharedRow EXCEPT ![<<c, s>>] = state] /\ sharedRow \in [Profile!Rows -> RowStates]
      /\ <<c, s>> \in Profile!Rows
  BY ProfileTyped DEF Profile!At, Profile!Rows
<1>2. \A d \in Profile!Component, t \in Profile!Shared :
        <<d, t>> \in Profile!Rows /\ (d # c \/ t # s => <<d, t>> # <<c, s>>)
  BY DEF Profile!Rows
<1> QED
  BY <1>1, <1>2

\* A row that has not ended goes on: the pass is not touched.
LEMMA RowGoesOn ==
  ASSUME ProfileInv, NEW c \in Profile!Component, NEW s \in Profile!Shared,
         NEW state \in RowStates, Profile!At(c, s, state), sharedRow[<<c, s>>] \notin Profile!Ended,
         UNCHANGED <<way, stage, run, batch, output, verdict, cancelled>>
  PROVE  Acquiring' /\ Turns'
<1>1. Profile!TypeOK
  BY DEF ProfileInv
<1>2. \A d \in Profile!Component, t \in Profile!Shared :
        d # c \/ t # s => sharedRow'[<<d, t>>] = sharedRow[<<d, t>>]
  BY <1>1, RowAt
<1>3. ~(run[c] = "over" /\ way = "local")
  BY DEF ProfileInv, Acquiring
<1>4. Acquiring'
  BY <1>2, <1>3 DEF ProfileInv, Acquiring
<1>5. Turns'
  BY DEF ProfileInv, Turns
<1> QED
  BY <1>4, <1>5

LEMMA ProfileBegins == ASSUME Profile!Init PROVE ProfileInv
<1>1. Profile!TypeOK
  BY DEF Profile!Init, Profile!TypeOK
<1>2. \A c \in Profile!Component, s \in Profile!Shared : sharedRow[<<c, s>>] = "waiting"
  BY DEF Profile!Init, Profile!Rows
<1>3. Observed
  BY <1>2 DEF Observed, Profile!Good
<1>4. Referenced
  <2>1. "iface" \in Profile!Shared
    BY DEF Profile!Shared
  <2> QED
    BY <1>2, <2>1 DEF Profile!Init, Referenced, Profile!Samples, Profile!Good
<1>5. Acquiring /\ Turns
  BY DEF Profile!Init, Acquiring, Turns
<1> QED
  BY <1>1, <1>3, <1>4, <1>5 DEF ProfileInv

\* The rows: starting, waiting, measuring, and their time.
LEMMA RowSteps ==
  ASSUME ProfileInv, NEW c \in Profile!Component, NEW s \in Profile!Shared,
         Profile!RowStarts(c, s) \/ Profile!RowSkips(c) \/ Profile!Expires(c, s) \/ Profile!Joins(c, s)
         \/ Profile!Measures(c, s) \/ Profile!Waits(c, s) \/ Profile!Explains(c)
  PROVE  ProfileInv'
<1>0. Profile!TypeOK /\ "iface" \in Profile!Shared /\ "internet" \in Profile!Shared
  BY DEF ProfileInv, Profile!Shared
<1>a. \A d \in Profile!Component, t \in Profile!Shared : ObservedAt(d, t)
  BY DEF ProfileInv, Observed, ObservedAt
<1>b. \A d \in Profile!Component : ReferencedAt(d)
  BY DEF ProfileInv, Referenced, ReferencedAt
<1>c. UNCHANGED <<way, stage, run, batch, output, verdict, cancelled>>
  BY DEF Profile!RowStarts, Profile!RowSkips, Profile!Expires, Profile!Joins, Profile!Measures,
         Profile!Waits, Profile!Explains, Profile!passVars
<1>d. ASSUME Profile!TypeOK', Acquiring' /\ Turns',
             \A d \in Profile!Component, t \in Profile!Shared : ObservedAt(d, t)',
             \A d \in Profile!Component : ReferencedAt(d)'
      PROVE  ProfileInv'
  <2>1. Observed'
    BY <1>d DEF Observed, ObservedAt
  <2>2. Referenced'
    BY <1>d DEF Referenced, ReferencedAt
  <2> QED
    BY <1>d, <2>1, <2>2 DEF ProfileInv
<1>1. CASE Profile!RowStarts(c, s)
  <2>0. /\ sharedRow[<<c, s>>] = "waiting" /\ Profile!At(c, s, "started")
        /\ UNCHANGED <<expired, flight, reference, measured>>
    BY <1>1 DEF Profile!RowStarts
  <2>1. "started" \in RowStates /\ sharedRow[<<c, s>>] \notin Profile!Ended
    BY <2>0 DEF RowStates, Profile!Ended, Profile!Samples, Profile!Good
  <2>2. /\ sharedRow' \in [Profile!Rows -> RowStates] /\ sharedRow'[<<c, s>>] = "started"
        /\ \A d \in Profile!Component, t \in Profile!Shared :
             d # c \/ t # s => sharedRow'[<<d, t>>] = sharedRow[<<d, t>>]
    BY <1>0, <2>0, <2>1, RowAt
  <2>3. Profile!TypeOK'
    BY <1>0, <1>c, <2>0, <2>2 DEF Profile!TypeOK, RowStates
  <2>4. Acquiring' /\ Turns'
    BY <1>0, <1>c, <2>0, <2>1, RowGoesOn
  <2>5. \A d \in Profile!Component, t \in Profile!Shared : ObservedAt(d, t)'
    <3> SUFFICES ASSUME NEW d \in Profile!Component, NEW t \in Profile!Shared PROVE ObservedAt(d, t)'
      OBVIOUS
    <3>1. CASE d = c /\ t = s
      BY <2>2, <3>1 DEF ObservedAt, Profile!Good
    <3>2. CASE d # c \/ t # s
      <4>1. sharedRow'[<<d, t>>] = sharedRow[<<d, t>>] /\ ObservedAt(d, t)
        BY <1>a, <2>2, <3>2
      <4>2. \A e \in Profile!Component : sharedRow'[<<e, t>>] = "measuring" => sharedRow[<<e, t>>] = "measuring"
        BY <2>2
      <4> QED
        BY <1>c, <2>0, <4>1, <4>2 DEF ObservedAt
    <3> QED
      BY <3>1, <3>2
  <2>6. \A d \in Profile!Component : ReferencedAt(d)'
    BY <1>0, <1>b, <2>0, <2>2 DEF ReferencedAt, Profile!Samples, Profile!Good
  <2> QED
    BY <1>d, <2>3, <2>4, <2>5, <2>6
<1>2. CASE Profile!RowSkips(c)
  <2>0. /\ sharedRow[<<c, "internet">>] = "waiting" /\ Profile!At(c, "internet", "skipped")
        /\ UNCHANGED <<expired, flight, reference, measured>>
    BY <1>2 DEF Profile!RowSkips
  <2>1. "skipped" \in RowStates /\ sharedRow[<<c, "internet">>] \notin Profile!Ended
    BY <2>0 DEF RowStates, Profile!Ended, Profile!Samples, Profile!Good
  <2>2. /\ sharedRow' \in [Profile!Rows -> RowStates] /\ sharedRow'[<<c, "internet">>] = "skipped"
        /\ \A d \in Profile!Component, t \in Profile!Shared :
             d # c \/ t # "internet" => sharedRow'[<<d, t>>] = sharedRow[<<d, t>>]
    BY <1>0, <2>0, <2>1, RowAt
  <2>3. Profile!TypeOK'
    BY <1>0, <1>c, <2>0, <2>2 DEF Profile!TypeOK, RowStates
  <2>4. Acquiring' /\ Turns'
    BY <1>0, <1>c, <2>0, <2>1, RowGoesOn
  <2>5. \A d \in Profile!Component, t \in Profile!Shared : ObservedAt(d, t)'
    <3> SUFFICES ASSUME NEW d \in Profile!Component, NEW t \in Profile!Shared PROVE ObservedAt(d, t)'
      OBVIOUS
    <3>1. CASE d = c /\ t = "internet"
      BY <2>2, <3>1 DEF ObservedAt, Profile!Good
    <3>2. CASE d # c \/ t # "internet"
      <4>1. sharedRow'[<<d, t>>] = sharedRow[<<d, t>>] /\ ObservedAt(d, t)
        BY <1>a, <2>2, <3>2
      <4>2. \A e \in Profile!Component : sharedRow'[<<e, t>>] = "measuring" => sharedRow[<<e, t>>] = "measuring"
        BY <2>2
      <4> QED
        BY <1>c, <2>0, <4>1, <4>2 DEF ObservedAt
    <3> QED
      BY <3>1, <3>2
  <2>6. \A d \in Profile!Component : ReferencedAt(d)'
    BY <1>0, <1>b, <2>0, <2>2 DEF ReferencedAt, Profile!Samples, Profile!Good
  <2> QED
    BY <1>d, <2>3, <2>4, <2>5, <2>6
<1>3. CASE Profile!Expires(c, s)
  <2>0. /\ expired' = expired \cup {<<c, s>>} /\ UNCHANGED <<sharedRow, flight, reference, measured>>
    BY <1>3 DEF Profile!Expires
  <2>1. Profile!TypeOK'
    <3>1. expired' \subseteq Profile!Rows
      BY <1>0, <2>0, ProfileTyped DEF Profile!Rows
    <3> QED
      BY <1>0, <1>c, <2>0, <3>1 DEF Profile!TypeOK
  <2>2. Acquiring' /\ Turns'
    BY <1>c, <2>0 DEF ProfileInv, Acquiring, Turns
  <2>3. ASSUME NEW d \in Profile!Component, NEW t \in Profile!Shared PROVE ObservedAt(d, t)'
    <3>1. ObservedAt(d, t)
      BY <1>a
    <3> QED
      BY <1>c, <2>0, <3>1 DEF ObservedAt
  <2>4. \A d \in Profile!Component : ReferencedAt(d)'
    BY <1>b, <2>0 DEF ReferencedAt
  <2> QED
    BY <1>d, <2>1, <2>2, <2>3, <2>4
<1>4. CASE Profile!Joins(c, s)
  <2>0. /\ sharedRow[<<c, s>>] = "started"
        /\ \/ flight[s] = "none" /\ flight' = [flight EXCEPT ![s] = "measuring"] /\ Profile!At(c, s, "measuring")
           \/ flight[s] # "none" /\ flight' = flight /\ Profile!At(c, s, "joined")
        /\ UNCHANGED <<expired, reference, measured>>
    BY <1>4 DEF Profile!Joins
  <2>1. PICK state \in {"measuring", "joined"} :
          /\ Profile!At(c, s, state) /\ (state = "measuring" <=> flight[s] = "none")
          /\ IF flight[s] = "none" THEN flight' = [flight EXCEPT ![s] = "measuring"] ELSE flight' = flight
    BY <2>0
  <2>2. state \in RowStates /\ sharedRow[<<c, s>>] \notin Profile!Ended
    BY <2>0 DEF RowStates, Profile!Ended, Profile!Samples, Profile!Good
  <2>3. /\ sharedRow' \in [Profile!Rows -> RowStates] /\ sharedRow'[<<c, s>>] = state
        /\ \A d \in Profile!Component, t \in Profile!Shared :
             d # c \/ t # s => sharedRow'[<<d, t>>] = sharedRow[<<d, t>>]
    BY <1>0, <2>1, <2>2, RowAt
  <2>4. /\ flight' \in [Profile!Shared -> {"none", "measuring"} \cup Profile!Samples]
        /\ flight'[s] = IF flight[s] = "none" THEN "measuring" ELSE flight[s]
        /\ \A t \in Profile!Shared : t # s => flight'[t] = flight[t]
    BY <1>0, <2>1, ProfileTyped
  <2>5. Profile!TypeOK'
    BY <1>0, <1>c, <2>0, <2>3, <2>4 DEF Profile!TypeOK, RowStates
  <2>6. Acquiring' /\ Turns'
    BY <1>0, <1>c, <2>1, <2>2, RowGoesOn
  <2>7. \A d \in Profile!Component, t \in Profile!Shared : ObservedAt(d, t)'
    <3> SUFFICES ASSUME NEW d \in Profile!Component, NEW t \in Profile!Shared PROVE ObservedAt(d, t)'
      OBVIOUS
    <3>1. CASE d = c /\ t = s
      <4>1. \A e \in Profile!Component : e # c /\ flight[s] = "none" => sharedRow'[<<e, s>>] # "measuring"
        BY <1>a, <2>3 DEF ObservedAt
      <4> QED
        BY <2>1, <2>3, <2>4, <3>1, <4>1 DEF ObservedAt, Profile!Good
    <3>2. CASE t # s
      BY <1>a, <1>c, <2>0, <2>3, <2>4, <3>2 DEF ObservedAt
    <3>3. CASE d # c /\ t = s
      <4>1. sharedRow'[<<d, s>>] = sharedRow[<<d, s>>] /\ ObservedAt(d, s)
        BY <1>a, <2>3, <3>3
      <4>2. sharedRow[<<d, s>>] = "measuring" => flight[s] = "measuring" /\ state = "joined"
        BY <2>1, <4>1 DEF ObservedAt
      <4>3. sharedRow[<<d, s>>] \in Profile!Good \cup {"failed"} => flight[s] # "none"
        BY <4>1 DEF ObservedAt, Profile!Good
      <4> QED
        BY <1>c, <2>0, <2>1, <2>3, <2>4, <3>3, <4>1, <4>2, <4>3 DEF ObservedAt
    <3> QED
      BY <3>1, <3>2, <3>3
  <2>8. \A d \in Profile!Component : ReferencedAt(d)'
    BY <1>0, <1>b, <2>0, <2>1, <2>3 DEF ReferencedAt, Profile!Samples, Profile!Good
  <2> QED
    BY <1>d, <2>5, <2>6, <2>7, <2>8
<1>5. ASSUME NEW sample \in Profile!Samples, Profile!At(c, s, sample), Profile!TakeReference(c, s, sample),
             sharedRow[<<c, s>>] \in {"measuring", "joined"}, UNCHANGED measured
      PROVE  /\ sharedRow' \in [Profile!Rows -> RowStates] /\ sharedRow'[<<c, s>>] = sample
             /\ \A d \in Profile!Component, t \in Profile!Shared :
                  d # c \/ t # s => sharedRow'[<<d, t>>] = sharedRow[<<d, t>>]
             /\ Acquiring' /\ Turns'
             /\ \A d \in Profile!Component : ReferencedAt(d)'
             /\ reference' \in [Profile!Component -> {"none"} \cup Profile!Samples]
  <2>1. sample \in RowStates /\ sharedRow[<<c, s>>] \notin Profile!Ended /\ sharedRow[<<c, s>>] \notin Profile!Samples
    BY <1>5 DEF RowStates, Profile!Ended, Profile!Samples, Profile!Good
  <2>2. /\ sharedRow' \in [Profile!Rows -> RowStates] /\ sharedRow'[<<c, s>>] = sample
        /\ \A d \in Profile!Component, t \in Profile!Shared :
             d # c \/ t # s => sharedRow'[<<d, t>>] = sharedRow[<<d, t>>]
    BY <1>0, <1>5, <2>1, RowAt
  <2>3. Acquiring' /\ Turns'
    BY <1>0, <1>c, <1>5, <2>1, RowGoesOn
  <2>4. reference \in [Profile!Component -> {"none"} \cup Profile!Samples]
    BY <1>0, ProfileTyped
  <2>5. reference' \in [Profile!Component -> {"none"} \cup Profile!Samples]
    BY <1>5, <2>4 DEF Profile!TakeReference
  <2>6. \A d \in Profile!Component : d # c => reference'[d] = reference[d]
    BY <1>5, <2>4 DEF Profile!TakeReference
  <2>7. CASE s = "iface"
    <3>1. ReferencedAt(c) /\ reference[c] = "none" /\ measured[c] = "none"
      BY <1>b, <2>1, <2>7 DEF ReferencedAt, Profile!Samples
    <3>2. reference'[c] = sample
      BY <1>5, <2>4, <2>7, <3>1 DEF Profile!TakeReference
    <3>3. \A d \in Profile!Component : ReferencedAt(d)'
      BY <1>0, <1>b, <1>5, <2>2, <2>6, <2>7, <3>1, <3>2 DEF ReferencedAt
    <3> QED
      BY <2>2, <2>3, <2>5, <3>3
  <2>8. CASE s # "iface"
    <3>1. reference' = reference
      BY <1>5, <2>8 DEF Profile!TakeReference
    <3>2. \A d \in Profile!Component : ReferencedAt(d)'
      BY <1>0, <1>b, <1>5, <2>2, <2>8, <3>1 DEF ReferencedAt
    <3> QED
      BY <2>2, <2>3, <2>5, <3>2
  <2> QED
    BY <2>7, <2>8
<1>6. CASE Profile!Measures(c, s)
  <2>0. /\ sharedRow[<<c, s>>] = "measuring" /\ UNCHANGED <<expired, measured>>
    BY <1>6 DEF Profile!Measures
  <2>1. PICK sample \in Profile!Samples :
          /\ flight' = [flight EXCEPT ![s] = sample] /\ Profile!At(c, s, sample)
          /\ Profile!TakeReference(c, s, sample)
    BY <1>6 DEF Profile!Measures, Profile!Samples
  <2>2. /\ sharedRow' \in [Profile!Rows -> RowStates] /\ sharedRow'[<<c, s>>] = sample
        /\ \A d \in Profile!Component, t \in Profile!Shared :
             d # c \/ t # s => sharedRow'[<<d, t>>] = sharedRow[<<d, t>>]
        /\ Acquiring' /\ Turns'
        /\ \A d \in Profile!Component : ReferencedAt(d)'
        /\ reference' \in [Profile!Component -> {"none"} \cup Profile!Samples]
    BY <1>5, <2>0, <2>1
  <2>3. /\ flight' \in [Profile!Shared -> {"none", "measuring"} \cup Profile!Samples]
        /\ flight'[s] = sample /\ \A t \in Profile!Shared : t # s => flight'[t] = flight[t]
    BY <1>0, <2>1, ProfileTyped
  <2>4. Profile!TypeOK'
    BY <1>0, <1>c, <2>0, <2>2, <2>3 DEF Profile!TypeOK, RowStates
  <2>5. \A d \in Profile!Component, t \in Profile!Shared : ObservedAt(d, t)'
    <3> SUFFICES ASSUME NEW d \in Profile!Component, NEW t \in Profile!Shared PROVE ObservedAt(d, t)'
      OBVIOUS
    <3>0. flight[s] = "measuring" /\ \A e \in Profile!Component : sharedRow[<<e, s>>] = "measuring" => e = c
      BY <1>a, <2>0 DEF ObservedAt
    <3>1. CASE d = c /\ t = s
      BY <2>2, <2>3, <3>1 DEF ObservedAt, Profile!Good, Profile!Samples
    <3>2. CASE t # s
      BY <1>a, <1>c, <2>0, <2>2, <2>3, <3>2 DEF ObservedAt
    <3>3. CASE d # c /\ t = s
      <4>1. sharedRow'[<<d, s>>] = sharedRow[<<d, s>>] /\ ObservedAt(d, s) /\ sharedRow[<<d, s>>] # "measuring"
        BY <1>a, <2>2, <3>0, <3>3
      <4>2. sharedRow[<<d, s>>] \notin Profile!Good \cup {"failed"}
        BY <3>0, <4>1 DEF ObservedAt, Profile!Good
      <4>3. sharedRow[<<d, s>>] = "cut" => cancelled \/ <<d, s>> \in expired
        BY <3>0, <4>1 DEF ObservedAt
      <4>4. flight'[s] # "none"
        BY <2>3 DEF Profile!Samples, Profile!Good
      <4> QED
        BY <1>c, <2>0, <3>3, <4>1, <4>2, <4>3, <4>4 DEF ObservedAt
    <3> QED
      BY <3>1, <3>2, <3>3
  <2> QED
    BY <1>d, <2>2, <2>4, <2>5
<1>7. CASE Profile!Waits(c, s)
  <2>0. /\ sharedRow[<<c, s>>] = "joined" /\ UNCHANGED <<expired, measured, flight>>
    BY <1>7 DEF Profile!Waits
  <2>1. PICK sample :
          /\ \/ sample = flight[s] /\ flight[s] # "measuring"
             \/ sample = "cut" /\ (cancelled \/ <<c, s>> \in expired)
          /\ Profile!At(c, s, sample) /\ Profile!TakeReference(c, s, sample)
    <3>1. PICK sample \in {f \in {flight[s]} : f # "measuring"} \cup {x \in {"cut"} : Profile!CtxEnded(c, s)} :
            Profile!At(c, s, sample) /\ Profile!TakeReference(c, s, sample)
      BY <1>7 DEF Profile!Waits
    <3>2. \/ sample = flight[s] /\ flight[s] # "measuring"
          \/ sample = "cut" /\ Profile!CtxEnded(c, s)
      BY <3>1
    <3>3. Profile!CtxEnded(c, s) => cancelled \/ <<c, s>> \in expired
      BY DEF Profile!CtxEnded
    <3> QED
      BY <3>1, <3>2, <3>3
  <2>2. sample \in Profile!Samples
    <3>1. flight[s] # "none" /\ flight[s] \in {"none", "measuring"} \cup Profile!Samples
      BY <1>0, <1>a, <2>0, ProfileTyped DEF ObservedAt
    <3> QED
      BY <2>1, <3>1 DEF Profile!Samples
  <2>3. /\ sharedRow' \in [Profile!Rows -> RowStates] /\ sharedRow'[<<c, s>>] = sample
        /\ \A d \in Profile!Component, t \in Profile!Shared :
             d # c \/ t # s => sharedRow'[<<d, t>>] = sharedRow[<<d, t>>]
        /\ Acquiring' /\ Turns'
        /\ \A d \in Profile!Component : ReferencedAt(d)'
        /\ reference' \in [Profile!Component -> {"none"} \cup Profile!Samples]
    BY <1>5, <2>0, <2>1, <2>2
  <2>4. Profile!TypeOK'
    BY <1>0, <1>c, <2>0, <2>3 DEF Profile!TypeOK, RowStates
  <2>5. \A d \in Profile!Component, t \in Profile!Shared : ObservedAt(d, t)'
    <3> SUFFICES ASSUME NEW d \in Profile!Component, NEW t \in Profile!Shared PROVE ObservedAt(d, t)'
      OBVIOUS
    <3>0. sample \notin {"measuring", "joined", "skipped"}
      BY <2>2 DEF Profile!Samples, Profile!Good
    <3>1. CASE d = c /\ t = s
      BY <1>c, <2>0, <2>1, <2>3, <3>0, <3>1 DEF ObservedAt, Profile!Good
    <3>2. CASE d # c \/ t # s
      <4>1. sharedRow'[<<d, t>>] = sharedRow[<<d, t>>] /\ ObservedAt(d, t)
        BY <1>a, <2>3, <3>2
      <4>2. \A e \in Profile!Component : sharedRow'[<<e, t>>] = "measuring" => sharedRow[<<e, t>>] = "measuring"
        BY <2>3, <3>0
      <4> QED
        BY <1>c, <2>0, <4>1, <4>2 DEF ObservedAt
    <3> QED
      BY <3>1, <3>2
  <2> QED
    BY <1>d, <2>3, <2>4, <2>5
<1>8. CASE Profile!Explains(c)
  <2>0. /\ sharedRow[<<c, "iface">>] \in Profile!Good /\ UNCHANGED <<sharedRow, expired, flight, reference>>
    BY <1>8 DEF Profile!Explains
  <2>1. reference[c] = sharedRow[<<c, "iface">>] /\ reference[c] # "none" /\ reference[c] \in Profile!Samples
    BY <1>b, <2>0 DEF ReferencedAt, Profile!Samples, Profile!Good
  <2>2. measured' = [measured EXCEPT ![c] = reference[c]]
    BY <1>8, <2>1 DEF Profile!Explains
  <2>3. /\ measured' \in [Profile!Component -> {"none"} \cup Profile!Samples]
        /\ measured'[c] = reference[c] /\ \A d \in Profile!Component : d # c => measured'[d] = measured[d]
    BY <1>0, <2>1, <2>2, ProfileTyped
  <2>4. Profile!TypeOK'
    BY <1>0, <1>c, <2>0, <2>3 DEF Profile!TypeOK
  <2>5. Acquiring' /\ Turns'
    BY <1>c, <2>0 DEF ProfileInv, Acquiring, Turns
  <2>6. ASSUME NEW d \in Profile!Component, NEW t \in Profile!Shared PROVE ObservedAt(d, t)'
    <3>1. ObservedAt(d, t)
      BY <1>a
    <3> QED
      BY <1>c, <2>0, <3>1 DEF ObservedAt
  <2>7. \A d \in Profile!Component : ReferencedAt(d)'
    BY <1>b, <2>0, <2>1, <2>3 DEF ReferencedAt
  <2> QED
    BY <1>d, <2>4, <2>5, <2>6, <2>7
<1> QED
  BY <1>1, <1>2, <1>3, <1>4, <1>6, <1>7, <1>8

-----------------------------------------------------------------------------
\* The pass over the components.

\* What a step of the pass leaves of the rows.
LEMMA RowsStay ==
  ASSUME ProfileInv, UNCHANGED <<sharedRow, expired, flight, reference, measured>>, cancelled => cancelled'
  PROVE  Observed' /\ Referenced'
<1>1. Observed /\ Referenced
  BY DEF ProfileInv
<1>2. Observed'
  <2> SUFFICES ASSUME NEW c \in Profile!Component, NEW s \in Profile!Shared PROVE ObservedAt(c, s)'
    BY DEF Observed, ObservedAt
  <2>1. ObservedAt(c, s)
    BY <1>1 DEF Observed, ObservedAt
  <2> QED
    BY <2>1 DEF ObservedAt
<1>3. Referenced'
  BY <1>1 DEF Referenced
<1> QED
  BY <1>2, <1>3

LEMMA PassSteps ==
  ASSUME ProfileInv,
         Profile!Overlap \/ Profile!TryFirst \/ Profile!Refused \/ Profile!Accepted \/ Profile!OneByOne
         \/ Profile!Returns \/ Profile!Cancel
         \/ \E c \in Profile!Component :
              Profile!RowsEnd(c) \/ Profile!RemoteEnds(c) \/ Profile!NextOne(c)
  PROVE  ProfileInv'
<1>0. Profile!TypeOK /\ N \in Nat /\ \A c \in Profile!Component : c \in Nat
  BY RowsAssumption DEF ProfileInv, Profile!Component
<1>a. UNCHANGED <<sharedRow, expired, flight, reference, measured>> /\ (cancelled => cancelled')
  <2>1. CASE Profile!Overlap
    <3>1. UNCHANGED Profile!rowVars /\ (cancelled => cancelled')
      BY <2>1 DEF Profile!Overlap
    <3> QED
      BY <3>1 DEF Profile!rowVars
  <2>2. CASE Profile!TryFirst
    <3>1. UNCHANGED Profile!rowVars /\ (cancelled => cancelled')
      BY <2>2 DEF Profile!TryFirst
    <3> QED
      BY <3>1 DEF Profile!rowVars
  <2>3. CASE Profile!OneByOne
    <3>1. UNCHANGED Profile!rowVars /\ (cancelled => cancelled')
      BY <2>3 DEF Profile!OneByOne
    <3> QED
      BY <3>1 DEF Profile!rowVars
  <2>4. CASE Profile!Refused
    <3>1. UNCHANGED Profile!rowVars /\ (cancelled => cancelled')
      BY <2>4 DEF Profile!Refused
    <3> QED
      BY <3>1 DEF Profile!rowVars
  <2>5. CASE Profile!Accepted
    <3>1. UNCHANGED Profile!rowVars /\ (cancelled => cancelled')
      BY <2>5 DEF Profile!Accepted
    <3> QED
      BY <3>1 DEF Profile!rowVars
  <2>6. CASE \E c \in Profile!Component : Profile!NextOne(c)
    <3>0. PICK c \in Profile!Component : Profile!NextOne(c)
      BY <2>6
    <3>1. UNCHANGED Profile!rowVars /\ (cancelled => cancelled')
      BY <3>0 DEF Profile!NextOne
    <3> QED
      BY <3>1 DEF Profile!rowVars
  <2>7. CASE Profile!Returns
    <3>1. UNCHANGED Profile!rowVars /\ (cancelled => cancelled')
      BY <2>7 DEF Profile!Returns
    <3> QED
      BY <3>1 DEF Profile!rowVars
  <2>8. CASE Profile!Cancel
    <3>1. UNCHANGED Profile!rowVars /\ (cancelled => cancelled')
      BY <2>8 DEF Profile!Cancel
    <3> QED
      BY <3>1 DEF Profile!rowVars
  <2>9. CASE \E c \in Profile!Component : Profile!RowsEnd(c) \/ Profile!RemoteEnds(c)
    <3>1. UNCHANGED Profile!rowVars /\ (cancelled => cancelled')
      BY <2>9 DEF Profile!RowsEnd, Profile!RemoteEnds
    <3> QED
      BY <3>1 DEF Profile!rowVars
  <2> QED
    BY <2>1, <2>2, <2>3, <2>4, <2>5, <2>6, <2>7, <2>8, <2>9
<1>b. Observed' /\ Referenced'
  BY <1>a, RowsStay
<1>c. ASSUME way' = way, stage' \in {"start", "first", "one by one", "together"},
             run' \in [Profile!Component -> {"waiting", "rows", "ssh", "over"}],
             batch' \subseteq Profile!Component,
             output' \in [Profile!Component -> {"none", "answer", "error"}],
             cancelled' \in BOOLEAN, verdict' \in {"none", "interrupted", "failed", "reported"},
             Acquiring', Turns'
      PROVE  ProfileInv'
  <2>1. Profile!TypeOK'
    BY <1>0, <1>a, <1>c DEF Profile!TypeOK
  <2> QED
    BY <1>b, <1>c, <2>1 DEF ProfileInv
<1>d. ASSUME NEW C, NEW quiet \in BOOLEAN, Profile!Starts(C, quiet), quiet => C \subseteq Profile!Component
      PROVE  /\ run' \in [Profile!Component -> {"waiting", "rows", "ssh", "over"}]
             /\ batch' \subseteq Profile!Component
             /\ batch' = IF quiet THEN batch \cup C ELSE batch \ C
             /\ \A c \in Profile!Component :
                  run'[c] = IF c \in C THEN (IF way = "local" THEN "rows" ELSE "ssh") ELSE run[c]
  <2>1. run \in [Profile!Component -> {"waiting", "rows", "ssh", "over"}] /\ batch \subseteq Profile!Component
    BY <1>0, ProfileTyped
  <2> QED
    BY <1>d, <2>1 DEF Profile!Starts
<1>e. /\ stage \in {"start", "first", "one by one", "together"}
      /\ run \in [Profile!Component -> {"waiting", "rows", "ssh", "over"}]
      /\ batch \subseteq Profile!Component
      /\ output \in [Profile!Component -> {"none", "answer", "error"}]
      /\ cancelled \in BOOLEAN /\ verdict \in {"none", "interrupted", "failed", "reported"}
  BY <1>0, ProfileTyped
\* Components are started at a stage in which nothing is reported yet.
<1>f. ASSUME NEW C, NEW quiet \in BOOLEAN, Profile!Starts(C, quiet), quiet => C \subseteq Profile!Component,
             stage' \in {"start", "first", "one by one", "together"},
             UNCHANGED <<way, output, verdict, cancelled>>, Turns'
      PROVE  ProfileInv'
  <2>1. /\ run' \in [Profile!Component -> {"waiting", "rows", "ssh", "over"}]
        /\ batch' \subseteq Profile!Component
        /\ \A c \in Profile!Component :
             run'[c] = IF c \in C THEN (IF way = "local" THEN "rows" ELSE "ssh") ELSE run[c]
    BY <1>d, <1>f
  <2>2. Acquiring'
    BY <1>a, <1>f, <2>1 DEF ProfileInv, Acquiring
  <2> QED
    BY <1>c, <1>e, <1>f, <2>1, <2>2
<1>1. CASE Profile!Overlap
  <2>0. /\ stage = "start" /\ way = "local" /\ Profile!Starts(Profile!Component, FALSE)
        /\ stage' = "together" /\ UNCHANGED <<way, output, verdict, cancelled>>
    BY <1>1 DEF Profile!Overlap
  <2>1. \A c \in Profile!Component : run'[c] = "rows"
    BY <1>d, <2>0
  <2>2. verdict # "reported"
    BY <2>0 DEF ProfileInv, Turns
  <2>3. Turns'
    BY <2>0, <2>1, <2>2 DEF Turns
  <2> QED
    BY <1>f, <2>0, <2>3
<1>2. CASE Profile!TryFirst
  <2>0. /\ stage = "start" /\ way = "direct" /\ N > 1 /\ Profile!Starts({1}, TRUE)
        /\ stage' = "first" /\ UNCHANGED <<way, output, verdict, cancelled>>
    BY <1>2 DEF Profile!TryFirst
  <2>1. {1} \subseteq Profile!Component
    BY <1>0, <2>0 DEF Profile!Component
  <2>2. /\ batch' = batch \cup {1}
        /\ \A c \in Profile!Component : run'[c] = IF c = 1 THEN "ssh" ELSE run[c]
    BY <1>d, <2>0, <2>1
  <2>3. verdict # "reported" /\ \A c \in Profile!Component : run[c] = "waiting"
    BY <2>0 DEF ProfileInv, Turns
  <2>4. batch = {}
    BY <2>0 DEF ProfileInv, Turns
  <2>5. Turns'
    BY <2>0, <2>2, <2>3, <2>4 DEF Turns
  <2> QED
    BY <1>f, <2>0, <2>1, <2>5
<1>3. CASE Profile!Refused
  <2>0. /\ stage = "first" /\ Profile!Starts({1}, FALSE) /\ stage' = "one by one"
        /\ UNCHANGED <<way, output, verdict, cancelled>>
    BY <1>3 DEF Profile!Refused
  <2>2. \A c \in Profile!Component : c # 1 => run'[c] = run[c]
    BY <1>d, <2>0
  <2>3. verdict # "reported" /\ \A c \in Profile!Component : c # 1 => run[c] = "waiting"
    BY <2>0 DEF ProfileInv, Turns
  <2>4. \A c, d \in Profile!Component : c < d /\ run'[d] # "waiting" => run'[c] = "over"
    <3>1. \A c, d \in Profile!Component : c < d => d # 1
      BY <1>0 DEF Profile!Component
    <3> QED
      BY <2>2, <2>3, <3>1
  <2>5. Turns'
    BY <2>0, <2>3, <2>4 DEF Turns
  <2> QED
    BY <1>f, <2>0, <2>5
<1>4. CASE Profile!Accepted
  <2>0. /\ stage = "first" /\ run[1] = "over" /\ Profile!Starts(2..N, TRUE) /\ stage' = "together"
        /\ UNCHANGED <<way, output, verdict, cancelled>>
    BY <1>4 DEF Profile!Accepted
  <2>1. 2..N \subseteq Profile!Component /\ \A c \in Profile!Component : c \notin 2..N => c = 1
    BY <1>0 DEF Profile!Component
  <2>2. /\ batch' = batch \cup 2..N
        /\ \A c \in Profile!Component : c \notin 2..N => run'[c] = run[c]
    <3>1. PICK C : C = 2..N
      OBVIOUS
    <3>2. Profile!Starts(C, TRUE) /\ C \subseteq Profile!Component
      BY <2>0, <2>1, <3>1
    <3>3. /\ batch' = batch \cup C
          /\ \A c \in Profile!Component : c \notin C => run'[c] = run[c]
      BY <1>d, <3>2
    <3> QED
      BY <3>1, <3>3
  <2>3. verdict # "reported"
    BY <2>0 DEF ProfileInv, Turns
  <2>4. \A c \in Profile!Component : run'[c] = "ssh" => c \in batch'
    BY <2>0, <2>1, <2>2
  <2>5. Turns'
    BY <2>0, <2>3, <2>4 DEF Turns
  <2> QED
    BY <1>f, <2>0, <2>1, <2>5
<1>5. CASE Profile!OneByOne
  <2>0. /\ stage = "start" /\ Profile!Starts({1}, FALSE) /\ stage' = "one by one"
        /\ UNCHANGED <<way, output, verdict, cancelled>>
    BY <1>5 DEF Profile!OneByOne
  <2>3. verdict # "reported" /\ \A c \in Profile!Component : run[c] = "waiting"
    BY <2>0 DEF ProfileInv, Turns
  <2>4. \A c, d \in Profile!Component : c < d => d # 1
    BY <1>0 DEF Profile!Component
  <2>2. \A c \in Profile!Component : c # 1 => run'[c] = "waiting"
    BY <1>d, <2>0, <2>3
  <2>5. Turns'
    BY <2>0, <2>2, <2>3, <2>4 DEF Turns
  <2> QED
    BY <1>f, <2>0, <2>5
<1>6. ASSUME NEW c \in Profile!Component, Profile!NextOne(c) PROVE ProfileInv'
  <2>0. /\ stage = "one by one" /\ run[c] = "over" /\ c < N /\ run[c + 1] = "waiting"
        /\ Profile!Starts({c + 1}, FALSE) /\ UNCHANGED <<way, stage, output, verdict, cancelled>>
    BY <1>6 DEF Profile!NextOne
  <2>1. c + 1 \in Profile!Component
    <3>1. c \in 1..N /\ N \in Nat /\ c < N
      BY <1>0, <2>0 DEF Profile!Component
    <3>2. c + 1 \in 1..N
      BY <3>1
    <3> QED
      BY <3>2 DEF Profile!Component
  <2>2. \A d \in Profile!Component : d # c + 1 => run'[d] = run[d]
    <3>1. PICK C : C = {c + 1}
      OBVIOUS
    <3>2. Profile!Starts(C, FALSE)
      BY <2>0, <3>1
    <3> QED
      BY <1>d, <3>1, <3>2
  <2>3. \A d \in Profile!Component : d < c + 1 => run[d] = "over"
    <3>1. \A d \in Profile!Component : d < c + 1 => d < c \/ d = c
      BY <1>0
    <3> QED
      BY <2>0, <3>1 DEF ProfileInv, Turns
  <2>4. \A d, e \in Profile!Component : d < e /\ run'[e] # "waiting" => run'[d] = "over"
    <3> SUFFICES ASSUME NEW d \in Profile!Component, NEW e \in Profile!Component, d < e, run'[e] # "waiting"
                 PROVE  run'[d] = "over"
      OBVIOUS
    <3>1. CASE e = c + 1
      <4>1. d < c + 1 /\ d # c + 1
        BY <1>0, <3>1
      <4> QED
        BY <2>2, <2>3, <4>1
    <3>2. CASE e # c + 1
      <4>1. run[e] # "waiting" /\ run[d] = "over"
        BY <2>0, <2>2, <3>2 DEF ProfileInv, Turns
      <4>2. d # c + 1
        BY <2>0, <4>1
      <4> QED
        BY <2>2, <4>1, <4>2
    <3> QED
      BY <3>1, <3>2
  <2>5. verdict # "reported"
    BY <2>0, <2>1 DEF ProfileInv, Turns
  <2>6. Turns'
    BY <2>0, <2>4, <2>5 DEF Turns
  <2> QED
    BY <1>e, <1>f, <2>0, <2>1, <2>6
<1>7. ASSUME NEW c \in Profile!Component, Profile!RowsEnd(c) \/ Profile!RemoteEnds(c) PROVE ProfileInv'
  <2>0. /\ run[c] \in {"rows", "ssh"} /\ run' = [run EXCEPT ![c] = "over"]
        /\ \E o \in {"answer", "error"} : output' = [output EXCEPT ![c] = o]
        /\ UNCHANGED <<way, stage, batch, verdict, cancelled>>
    BY <1>7 DEF Profile!RowsEnd, Profile!RemoteEnds
  <2>1. /\ run' \in [Profile!Component -> {"waiting", "rows", "ssh", "over"}] /\ run'[c] = "over"
        /\ \A d \in Profile!Component : d # c => run'[d] = run[d]
    BY <1>e, <2>0
  <2>2. /\ output' \in [Profile!Component -> {"none", "answer", "error"}] /\ output'[c] # "none"
        /\ \A d \in Profile!Component : d # c => output'[d] = output[d]
    BY <1>e, <2>0
  <2>3. way = "local" => \A s \in Profile!Shared : sharedRow[<<c, s>>] \in Profile!Ended
    <3>1. run[c] = "ssh" => way # "local"
      BY DEF ProfileInv, Acquiring
    <3> QED
      BY <1>7, <3>1 DEF Profile!RowsEnd, Profile!RemoteEnds
  <2>4. Acquiring'
    BY <1>a, <2>0, <2>1, <2>2, <2>3 DEF ProfileInv, Acquiring
  <2>5. Turns'
    <3>1. stage # "start" /\ verdict # "reported"
      BY <2>0 DEF ProfileInv, Turns
    <3>2. stage = "first" => c = 1
      BY <2>0 DEF ProfileInv, Turns
    <3> QED
      BY <2>0, <2>1, <3>1, <3>2 DEF ProfileInv, Turns
  <2> QED
    BY <1>c, <1>e, <2>0, <2>1, <2>2, <2>4, <2>5
<1>8. CASE Profile!Returns
  <2>0. /\ Profile!Acquired /\ verdict = "none"
        /\ verdict' = CASE cancelled -> "interrupted"
                        [] ~cancelled /\ (\E c \in Profile!Component : Profile!Failed(c)) -> "failed"
                        [] OTHER -> "reported"
        /\ UNCHANGED <<way, stage, run, batch, output, cancelled>>
    BY <1>8 DEF Profile!Returns
  <2>1. /\ verdict' \in {"none", "interrupted", "failed", "reported"}
        /\ verdict' = "reported" => ~cancelled /\ ~\E c \in Profile!Component : Profile!Failed(c)
    BY <1>e, <2>0
  <2>2. verdict' = "reported" =>
          /\ stage \in {"together", "one by one"}
          /\ \A c \in Profile!Component : run[c] = "over" /\ output[c] = "answer"
    <3> SUFFICES ASSUME verdict' = "reported"
                 PROVE  /\ stage \in {"together", "one by one"}
                        /\ \A c \in Profile!Component : run[c] = "over" /\ output[c] = "answer"
      OBVIOUS
    <3>1. stage \in {"together", "one by one"} /\ \A c \in Profile!Component : run[c] = "over"
      BY <2>0, <2>1 DEF Profile!Acquired
    <3>2. \A c \in Profile!Component : output[c] # "none" /\ output[c] # "error"
      BY <2>1, <3>1 DEF ProfileInv, Acquiring, Profile!Failed
    <3> QED
      BY <1>e, <3>1, <3>2
  <2>3. Acquiring'
    BY <1>a, <2>0 DEF ProfileInv, Acquiring
  <2>4. Turns'
    BY <2>0, <2>1, <2>2 DEF ProfileInv, Turns
  <2> QED
    BY <1>c, <1>e, <2>0, <2>1, <2>3, <2>4
<1>9. CASE Profile!Cancel
  <2>0. verdict = "none" /\ cancelled' = TRUE /\ UNCHANGED <<way, stage, run, batch, output, verdict>>
    BY <1>9 DEF Profile!Cancel, Profile!passVars
  <2>1. Acquiring' /\ Turns'
    BY <1>a, <2>0 DEF ProfileInv, Acquiring, Turns
  <2> QED
    BY <1>c, <1>e, <2>0, <2>1
<1> QED
  BY <1>1, <1>2, <1>3, <1>4, <1>5, <1>6, <1>7, <1>8, <1>9

LEMMA ProfileSteps ==
  ASSUME ProfileInv, Profile!Next \/ UNCHANGED profileVars
  PROVE  ProfileInv'
<1>1. ASSUME UNCHANGED profileVars PROVE ProfileInv'
  <2>1. UNCHANGED <<way, stage, run, batch, output, sharedRow, expired, flight, reference, measured,
                    cancelled, verdict>>
    BY <1>1 DEF profileVars
  <2>2. Observed' /\ Referenced'
    BY <2>1, RowsStay
  <2>3. Profile!TypeOK' /\ Acquiring' /\ Turns'
    BY <2>1 DEF ProfileInv, Profile!TypeOK, Acquiring, Turns
  <2> QED
    BY <2>2, <2>3 DEF ProfileInv
<1>2. ASSUME Profile!Over PROVE UNCHANGED profileVars
  BY <1>2 DEF Profile!Over, Profile!profileVars, Profile!passVars, Profile!rowVars, profileVars
<1>3. ASSUME NEW c \in Profile!Component, Profile!ComponentStep(c) PROVE ProfileInv'
  <2>1. "iface" \in Profile!Shared
    BY DEF Profile!Shared
  <2> QED
    BY <1>3, <2>1, RowSteps, PassSteps DEF Profile!ComponentStep
<1> QED
  BY <1>1, <1>2, <1>3, PassSteps DEF Profile!Next

-----------------------------------------------------------------------------
\* The routes of a pass.

RouteDecisions == {Routes!NoRoute} \cup [ok : {TRUE}, link : Link, facts : 0..MaxChanges]
LinkFacts == [ok : {TRUE}, facts : 0..MaxChanges]

\* An entry is vacant, claimed or filled, and no two of these.
LEMMA Entries ==
  /\ Routes!Vacant # Routes!Claimed /\ Routes!Vacant.ok = FALSE /\ Routes!Claimed.ok = FALSE
  /\ Routes!NoRoute.ok = FALSE
  /\ \A v \in RouteDecisions \cup LinkFacts : v # Routes!Vacant /\ v # Routes!Claimed
  /\ \A l \in Link, f \in 0..MaxChanges :
       /\ Routes!Decision(l, f) \in RouteDecisions /\ Routes!Decision(l, f).ok = TRUE
       /\ Routes!Decision(l, f).link = l /\ Routes!Decision(l, f).facts = f
       /\ [ok |-> TRUE, facts |-> f] \in LinkFacts
  /\ \A v \in LinkFacts : v.ok = TRUE /\ v.facts \in 0..MaxChanges
  /\ \A v \in RouteDecisions : v.ok = TRUE => v.link \in Link /\ v.facts \in 0..MaxChanges
<1>1. /\ Routes!Vacant.ok = FALSE /\ Routes!Claimed.ok = FALSE /\ Routes!NoRoute.ok = FALSE
      /\ Routes!Vacant.held = "vacant" /\ Routes!Claimed.held = "claimed"
  BY DEF Routes!Vacant, Routes!Claimed, Routes!NoRoute
<1>2. Routes!NoRoute # Routes!Vacant /\ Routes!NoRoute # Routes!Claimed
  <2>1. DOMAIN Routes!NoRoute = {"ok"}
    BY DEF Routes!NoRoute
  <2>2. DOMAIN Routes!Vacant = {"ok", "held"} /\ DOMAIN Routes!Claimed = {"ok", "held"}
    BY DEF Routes!Vacant, Routes!Claimed
  <2>3. {"ok"} # {"ok", "held"}
    OBVIOUS
  <2> QED
    BY <2>1, <2>2, <2>3
<1>3. \A v \in [ok : {TRUE}, link : Link, facts : 0..MaxChanges] \cup LinkFacts : v.ok = TRUE
  BY DEF LinkFacts
<1>4. \A v \in RouteDecisions \cup LinkFacts : v # Routes!Vacant /\ v # Routes!Claimed
  BY <1>1, <1>2, <1>3 DEF RouteDecisions
<1>5. \A l \in Link, f \in 0..MaxChanges :
        /\ Routes!Decision(l, f) \in RouteDecisions /\ Routes!Decision(l, f).ok = TRUE
        /\ Routes!Decision(l, f).link = l /\ Routes!Decision(l, f).facts = f
        /\ [ok |-> TRUE, facts |-> f] \in LinkFacts
  BY DEF Routes!Decision, RouteDecisions, LinkFacts
<1>6. /\ \A v \in LinkFacts : v.ok = TRUE /\ v.facts \in 0..MaxChanges
      /\ \A v \in RouteDecisions : v.ok = TRUE => v.link \in Link /\ v.facts \in 0..MaxChanges
  BY <1>1 DEF LinkFacts, RouteDecisions
<1> QED
  BY <1>1, <1>4, <1>5, <1>6

LEMMA RoutesTyped ==
  ASSUME Routes!TypeOK
  PROVE  /\ route \in [Dst -> Link] /\ facts \in [Link -> 0..MaxChanges] /\ changes \in 0..MaxChanges
         /\ answers \in [Dst -> {Routes!Vacant, Routes!Claimed} \cup RouteDecisions]
         /\ links \in [Link -> {Routes!Vacant, Routes!Claimed} \cup LinkFacts]
         /\ once \in {"unused", "running", "done"} /\ yardstick \in {Routes!Vacant} \cup RouteDecisions
         /\ pc \in [Asker -> {"idle", "lookup", "await", "acquire", "link"}]
         /\ dst \in [Asker -> Dst] /\ routeVia \in [Asker -> Link]
         /\ forOnce \subseteq Asker /\ asked \in [Asker -> 0..MaxQuestions]
         /\ shown \in [Asker -> SUBSET (Dst \X RouteDecisions)]
  BY DEF Routes!TypeOK, RouteDecisions, LinkFacts

\* A filled entry holds a decision, or facts.
LEMMA FilledFacts ==
  ASSUME RoutesInv
  PROVE  /\ \A d \in Dst : Routes!Filled(answers[d]) => answers[d] \in RouteDecisions
         /\ \A l \in Link : Routes!Filled(links[l]) => links[l] \in LinkFacts
         /\ \A v \in RouteDecisions : Routes!Filled(v)
         /\ \A d \in Dst : answers[d].ok => Routes!Filled(answers[d])
         /\ ~Routes!Filled(Routes!Vacant) /\ ~Routes!Filled(Routes!Claimed)
<1>1. Routes!TypeOK
  BY DEF RoutesInv
<1> QED
  BY <1>1, RoutesTyped, Entries DEF Routes!Filled

LEMMA RoutesBegin == ASSUME Routes!Init PROVE RoutesInv
<1>1. /\ route \in [Dst -> Link] /\ facts = [l \in Link |-> 0] /\ changes = 0
      /\ answers = [d \in Dst |-> Routes!Vacant] /\ links = [l \in Link |-> Routes!Vacant]
      /\ once = "unused" /\ yardstick = Routes!Vacant
      /\ pc = [r \in Asker |-> "idle"] /\ dst = [r \in Asker |-> Yard] /\ routeVia \in [Asker -> Link]
      /\ forOnce = {} /\ asked = [r \in Asker |-> 0] /\ shown = [r \in Asker |-> {}]
  BY DEF Routes!Init
<1>2. 0 \in 0..MaxChanges /\ 0 \in 0..MaxQuestions /\ Yard \in Dst
  BY RowsAssumption
<1>3. Routes!TypeOK
  BY <1>1, <1>2 DEF Routes!TypeOK
<1>4. Claims
  BY <1>1 DEF Claims, Asking
<1>5. Decisions
  BY <1>1, Entries DEF Decisions
<1>6. Shows
  BY <1>1 DEF Shows
<1> QED
  BY <1>3, <1>4, <1>5, <1>6 DEF RoutesInv

LEMMA Asks ==
  ASSUME RoutesInv, NEW r \in Asker, NEW d \in Dst, Routes!Claim(r, d), pc[r] = "idle"
  PROVE  /\ answers' \in [Dst -> {Routes!Vacant, Routes!Claimed} \cup RouteDecisions]
         /\ pc' \in [Asker -> {"idle", "lookup", "await", "acquire", "link"}] /\ dst' \in [Asker -> Dst]
         /\ dst'[r] = d /\ pc'[r] = (IF answers[d] = Routes!Vacant THEN "lookup" ELSE "await")
         /\ answers'[d] = (IF answers[d] = Routes!Vacant THEN Routes!Claimed ELSE answers[d])
         /\ \A e \in Dst : e # d => answers'[e] = answers[e]
         /\ \A q \in Asker : q # r => pc'[q] = pc[q] /\ dst'[q] = dst[q]
<1>1. Routes!TypeOK
  BY DEF RoutesInv
<1>2. /\ answers \in [Dst -> {Routes!Vacant, Routes!Claimed} \cup RouteDecisions]
      /\ pc \in [Asker -> {"idle", "lookup", "await", "acquire", "link"}] /\ dst \in [Asker -> Dst]
  BY <1>1, RoutesTyped
<1>3. dst' = [dst EXCEPT ![r] = d]
  BY DEF Routes!Claim
<1>4. CASE answers[d] = Routes!Vacant
  <2>1. answers' = [answers EXCEPT ![d] = Routes!Claimed] /\ pc' = [pc EXCEPT ![r] = "lookup"]
    BY <1>4 DEF Routes!Claim, Routes!Go
  <2> QED
    BY <1>2, <1>3, <1>4, <2>1
<1>5. CASE answers[d] # Routes!Vacant
  <2>1. answers' = answers /\ pc' = [pc EXCEPT ![r] = "await"]
    BY <1>5 DEF Routes!Claim, Routes!Go
  <2> QED
    BY <1>2, <1>3, <1>5, <2>1
<1> QED
  BY <1>4, <1>5

\* Claiming keeps the claims apart.
LEMMA AsksKeeps ==
  ASSUME RoutesInv, NEW r \in Asker, NEW d \in Dst, Routes!Claim(r, d), pc[r] = "idle",
         UNCHANGED <<links, routeVia>>
  PROVE  /\ Claims' /\ Decisions'
         /\ \A e \in Dst : Routes!Filled(answers[e]) => answers'[e] = answers[e]
<1>0. Routes!TypeOK
  BY DEF RoutesInv
<1>1. /\ dst'[r] = d /\ pc'[r] = (IF answers[d] = Routes!Vacant THEN "lookup" ELSE "await")
      /\ answers'[d] = (IF answers[d] = Routes!Vacant THEN Routes!Claimed ELSE answers[d])
      /\ \A e \in Dst : e # d => answers'[e] = answers[e]
      /\ \A q \in Asker : q # r => pc'[q] = pc[q] /\ dst'[q] = dst[q]
  BY Asks
<1>2. dst \in [Asker -> Dst] /\ Routes!Vacant # Routes!Claimed
  BY <1>0, RoutesTyped, Entries
<1>3. \A q \in Asker : Asking(q)' =>
        \/ q # r /\ Asking(q)
        \/ q = r /\ answers[d] = Routes!Vacant
  BY <1>1 DEF Asking
<1>4. \A q \in Asker : Asking(q) => answers[dst[q]] = Routes!Claimed
  BY DEF RoutesInv, Claims
<1>5. \A q \in Asker : Asking(q)' => answers'[dst'[q]] = Routes!Claimed
  BY <1>1, <1>2, <1>3, <1>4
<1>6. ASSUME NEW p \in Asker, NEW q \in Asker, Asking(p)', Asking(q)', dst'[p] = dst'[q] PROVE p = q
  <2>1. CASE p # r /\ q # r
    BY <1>1, <1>3, <1>6, <2>1 DEF RoutesInv, Claims
  <2>2. CASE p = r /\ q # r
    BY <1>1, <1>2, <1>3, <1>4, <1>6, <2>2
  <2>3. CASE q = r /\ p # r
    BY <1>1, <1>2, <1>3, <1>4, <1>6, <2>3
  <2> QED
    BY <2>1, <2>2, <2>3
<1>7. \A q \in Asker : pc'[q] = "acquire" => pc[q] = "acquire"
  BY <1>1
<1>8. Claims'
  BY <1>5, <1>6, <1>7 DEF RoutesInv, Claims, Asking
<1>9. \A e \in Dst : Routes!Filled(answers[e]) => answers'[e] = answers[e]
  BY <1>1, FilledFacts
<1>10. Decisions'
  BY <1>1, Entries DEF RoutesInv, Decisions
<1> QED
  BY <1>8, <1>9, <1>10

\* What an answer does to the row, and to the yardstick it may be.
LEMMA Answering ==
  ASSUME RoutesInv, NEW r \in Asker, NEW v \in RouteDecisions, Routes!Answer(r, v)
  PROVE  /\ pc' = [pc EXCEPT ![r] = "idle"] /\ forOnce' = forOnce \ {r}
         /\ pc' \in [Asker -> {"idle", "lookup", "await", "acquire", "link"}]
         /\ shown' \in [Asker -> SUBSET (Dst \X RouteDecisions)]
         /\ once' \in {"unused", "running", "done"} /\ yardstick' \in {Routes!Vacant} \cup RouteDecisions
         /\ \A q \in Asker : \A x \in shown'[q] : x \in shown[q] \/ x = <<dst[r], v>>
         /\ once' = "done" => (once = "done" /\ yardstick' = yardstick) \/ (dst[r] = Yard /\ yardstick' = v)
<1>1. Routes!TypeOK /\ Shows
  BY DEF RoutesInv
<1>2. /\ once \in {"unused", "running", "done"} /\ yardstick \in {Routes!Vacant} \cup RouteDecisions
      /\ pc \in [Asker -> {"idle", "lookup", "await", "acquire", "link"}]
      /\ dst \in [Asker -> Dst] /\ shown \in [Asker -> SUBSET (Dst \X RouteDecisions)]
  BY <1>1, RoutesTyped
<1>3. /\ pc' = [pc EXCEPT ![r] = "idle"] /\ forOnce' = forOnce \ {r}
      /\ shown' = [shown EXCEPT ![r] = @ \cup {<<dst[r], v>>}]
      /\ IF r \in forOnce THEN once' = "done" /\ yardstick' = v
           ELSE once' = once /\ yardstick' = yardstick
  BY DEF Routes!Answer, Routes!Go
<1>4. r \in forOnce => dst[r] = Yard
  BY <1>1 DEF Shows
<1>5. once' \in {"unused", "running", "done"} /\ yardstick' \in {Routes!Vacant} \cup RouteDecisions
  BY <1>2, <1>3
<1>6. pc' \in [Asker -> {"idle", "lookup", "await", "acquire", "link"}]
  BY <1>2, <1>3
<1>7. <<dst[r], v>> \in Dst \X RouteDecisions
  BY <1>2
<1>8. shown' \in [Asker -> SUBSET (Dst \X RouteDecisions)]
  BY <1>2, <1>3, <1>7
<1>9. \A q \in Asker : \A x \in shown'[q] : x \in shown[q] \/ x = <<dst[r], v>>
  BY <1>2, <1>3
<1>10. once' = "done" => (once = "done" /\ yardstick' = yardstick) \/ (dst[r] = Yard /\ yardstick' = v)
  <2>1. CASE r \in forOnce
    BY <1>3, <1>4, <2>1
  <2>2. CASE r \notin forOnce
    BY <1>3, <2>2
  <2> QED
    BY <2>1, <2>2
<1> QED
  BY <1>3, <1>5, <1>6, <1>8, <1>9, <1>10

\* An answer fills what its row had claimed, or is what the row has waited for.
LEMMA Answers ==
  ASSUME RoutesInv, NEW r \in Asker, NEW v \in RouteDecisions, Routes!Answer(r, v),
         UNCHANGED <<route, facts, changes, dst, routeVia, asked>>,
         \/ Asking(r) /\ answers' = [answers EXCEPT ![dst[r]] = v]
         \/ pc[r] = "await" /\ answers' = answers /\ answers[dst[r]] = v,
         links' \in [Link -> {Routes!Vacant, Routes!Claimed} \cup LinkFacts],
         \A l \in Link : Routes!Filled(links[l]) => links'[l] = links[l],
         \A q \in Asker : q # r /\ pc[q] = "acquire" => links'[routeVia[q]] = Routes!Claimed,
         v.ok => v.link \in Link /\ links'[v.link].ok /\ links'[v.link].facts = v.facts
  PROVE  RoutesInv'
<1>1. Routes!TypeOK /\ Claims /\ Decisions /\ Shows
  BY DEF RoutesInv
<1>2. /\ answers \in [Dst -> {Routes!Vacant, Routes!Claimed} \cup RouteDecisions]
      /\ links \in [Link -> {Routes!Vacant, Routes!Claimed} \cup LinkFacts]
      /\ pc \in [Asker -> {"idle", "lookup", "await", "acquire", "link"}]
      /\ dst \in [Asker -> Dst] /\ routeVia \in [Asker -> Link] /\ forOnce \subseteq Asker
      /\ route \in [Dst -> Link] /\ facts \in [Link -> 0..MaxChanges] /\ changes \in 0..MaxChanges
      /\ asked \in [Asker -> 0..MaxQuestions]
  BY <1>1, RoutesTyped
<1>3. /\ pc' = [pc EXCEPT ![r] = "idle"] /\ forOnce' = forOnce \ {r}
      /\ pc' \in [Asker -> {"idle", "lookup", "await", "acquire", "link"}]
      /\ shown' \in [Asker -> SUBSET (Dst \X RouteDecisions)]
      /\ once' \in {"unused", "running", "done"} /\ yardstick' \in {Routes!Vacant} \cup RouteDecisions
      /\ \A q \in Asker : \A x \in shown'[q] : x \in shown[q] \/ x = <<dst[r], v>>
      /\ once' = "done" => (once = "done" /\ yardstick' = yardstick) \/ (dst[r] = Yard /\ yardstick' = v)
  BY Answering
<1>4. /\ \A q \in Asker : q # r => pc'[q] = pc[q]
      /\ pc'[r] = "idle"
  BY <1>2, <1>3
<1>5. /\ answers'[dst[r]] = v /\ \A d \in Dst : d # dst[r] => answers'[d] = answers[d]
      /\ answers' \in [Dst -> {Routes!Vacant, Routes!Claimed} \cup RouteDecisions]
  BY <1>2
<1>6. Asking(r) => answers[dst[r]] = Routes!Claimed
  BY <1>1 DEF Claims
<1>7. /\ Routes!Filled(v) /\ ~Routes!Filled(Routes!Claimed) /\ v # Routes!Claimed
      /\ \A d \in Dst : answers[d].ok => Routes!Filled(answers[d])
      /\ \A l \in Link : links[l].ok => Routes!Filled(links[l])
  <2>1. \A l \in Link : links[l].ok => Routes!Filled(links[l])
    BY <1>2, Entries DEF Routes!Filled
  <2> QED
    BY <2>1, FilledFacts, Entries
<1>8. \A d \in Dst : Routes!Filled(answers[d]) => answers'[d] = answers[d]
  BY <1>5, <1>6, <1>7
<1>9. Routes!TypeOK'
  BY <1>2, <1>3, <1>5 DEF Routes!TypeOK, RouteDecisions, LinkFacts
<1>10. Claims'
  <2>1. \A q \in Asker : Asking(q)' => q # r /\ Asking(q)
    BY <1>4 DEF Asking
  <2>2. \A q \in Asker : q # r /\ Asking(q) => dst[q] # dst[r]
    BY <1>1, <1>7 DEF Claims
  <2>3. \A q \in Asker : Asking(q)' => answers'[dst'[q]] = Routes!Claimed
    BY <1>1, <1>2, <1>5, <2>1, <2>2 DEF Claims
  <2>4. \A p, q \in Asker : Asking(p)' /\ Asking(q)' /\ dst'[p] = dst'[q] => p = q
    BY <1>1, <2>1 DEF Claims
  <2>5. \A q \in Asker : pc'[q] = "acquire" => links'[routeVia'[q]] = Routes!Claimed
    BY <1>4
  <2>6. \A p, q \in Asker :
          pc'[p] = "acquire" /\ pc'[q] = "acquire" /\ routeVia'[p] = routeVia'[q] => p = q
    BY <1>1, <1>4 DEF Claims
  <2> QED
    BY <2>3, <2>4, <2>5, <2>6 DEF Claims, Asking
<1>11. Decisions'
  <2> SUFFICES ASSUME NEW d \in Dst, answers'[d].ok
               PROVE  /\ answers'[d].link \in Link /\ links'[answers'[d].link].ok
                      /\ links'[answers'[d].link].facts = answers'[d].facts
    BY DEF Decisions
  <2>1. CASE d = dst[r]
    BY <1>5, <2>1
  <2>2. CASE d # dst[r]
    <3>1. answers'[d] = answers[d]
      BY <1>5, <2>2
    <3>2. /\ answers[d].link \in Link /\ links[answers[d].link].ok
          /\ links[answers[d].link].facts = answers[d].facts
      BY <1>1, <3>1 DEF Decisions
    <3>3. links'[answers[d].link] = links[answers[d].link]
      BY <1>7, <3>2
    <3> QED
      BY <3>1, <3>2, <3>3
  <2> QED
    BY <2>1, <2>2
<1>12. Shows'
  <2>1. \A q \in Asker : \A x \in shown'[q] : Routes!Filled(answers'[x[1]]) /\ answers'[x[1]] = x[2]
    <3> SUFFICES ASSUME NEW q \in Asker, NEW x \in shown'[q]
                 PROVE  Routes!Filled(answers'[x[1]]) /\ answers'[x[1]] = x[2]
      OBVIOUS
    <3>1. x[1] \in Dst
      BY <1>3
    <3>2. CASE x \in shown[q]
      BY <1>1, <1>8, <3>1, <3>2 DEF Shows
    <3>3. CASE x = <<dst[r], v>>
      BY <1>5, <1>7, <3>3
    <3> QED
      BY <1>3, <3>2, <3>3
  <2>2. once' = "done" => Routes!Filled(answers'[Yard]) /\ yardstick' = answers'[Yard]
    <3>1. CASE once = "done" /\ yardstick' = yardstick
      BY <1>1, <1>8, <3>1, RowsAssumption DEF Shows
    <3>2. CASE dst[r] = Yard /\ yardstick' = v
      BY <1>5, <1>7, <3>2
    <3> QED
      BY <1>3, <3>1, <3>2
  <2>3. \A q \in forOnce' : pc'[q] # "idle" /\ dst'[q] = Yard
    BY <1>1, <1>2, <1>3, <1>4 DEF Shows
  <2>4. Shows' = (/\ \A q \in Asker : \A x \in shown'[q] : Routes!Filled(answers'[x[1]]) /\ answers'[x[1]] = x[2]
                  /\ once' = "done" => Routes!Filled(answers'[Yard]) /\ yardstick' = answers'[Yard]
                  /\ \A q \in forOnce' : pc'[q] # "idle" /\ dst'[q] = Yard)
    BY DEF Shows, Routes!Filled
  <2> QED
    BY <2>1, <2>2, <2>3, <2>4
<1> QED
  BY <1>9, <1>10, <1>11, <1>12 DEF RoutesInv

\* A row asks about a destination, or for the yardstick.
LEMMA AskSteps ==
  ASSUME RoutesInv, NEW r \in Asker, Routes!Ask(r) \/ Routes!AskReference(r)
  PROVE  RoutesInv'
<1>1. Routes!TypeOK /\ Claims /\ Decisions /\ Shows
  BY DEF RoutesInv
<1>2. /\ links \in [Link -> {Routes!Vacant, Routes!Claimed} \cup LinkFacts]
      /\ once \in {"unused", "running", "done"} /\ yardstick \in {Routes!Vacant} \cup RouteDecisions
      /\ routeVia \in [Asker -> Link] /\ forOnce \subseteq Asker
      /\ route \in [Dst -> Link] /\ facts \in [Link -> 0..MaxChanges] /\ changes \in 0..MaxChanges
      /\ asked \in [Asker -> 0..MaxQuestions] /\ shown \in [Asker -> SUBSET (Dst \X RouteDecisions)]
  BY <1>1, RoutesTyped
<1>3. /\ pc[r] = "idle" /\ asked[r] < MaxQuestions /\ asked' = [asked EXCEPT ![r] = asked[r] + 1]
      /\ UNCHANGED <<route, facts, changes, links, yardstick, routeVia>>
  BY DEF Routes!Ask, Routes!AskReference, Routes!At, Routes!kernelVars
<1>4. asked' \in [Asker -> 0..MaxQuestions]
  <2>1. asked[r] + 1 \in 0..MaxQuestions
    BY <1>2, <1>3, RowsAssumption
  <2> QED
    BY <1>2, <1>3, <2>1
<1>5. r \notin forOnce
  BY <1>1, <1>3 DEF Shows
<1>6. ASSUME NEW d \in Dst, Routes!Claim(r, d), shown' = shown,
             \/ once' = once /\ forOnce' = forOnce
             \/ once' = "running" /\ forOnce' = forOnce \cup {r} /\ d = Yard
      PROVE  RoutesInv'
  <2>1. /\ answers' \in [Dst -> {Routes!Vacant, Routes!Claimed} \cup RouteDecisions]
        /\ pc' \in [Asker -> {"idle", "lookup", "await", "acquire", "link"}] /\ dst' \in [Asker -> Dst]
        /\ dst'[r] = d /\ pc'[r] = (IF answers[d] = Routes!Vacant THEN "lookup" ELSE "await")
        /\ \A q \in Asker : q # r => pc'[q] = pc[q] /\ dst'[q] = dst[q]
    BY <1>3, <1>6, Asks
  <2>2. UNCHANGED <<links, routeVia>>
    BY <1>3
  <2>3. /\ Claims' /\ Decisions'
        /\ \A e \in Dst : Routes!Filled(answers[e]) => answers'[e] = answers[e]
    BY <1>3, <1>6, <2>2, AsksKeeps
  <2>4. Routes!TypeOK'
    <3>1. forOnce' \subseteq Asker /\ once' \in {"unused", "running", "done"}
      BY <1>2, <1>6
    <3> QED
      BY <1>2, <1>3, <1>4, <1>6, <2>1, <3>1 DEF Routes!TypeOK, RouteDecisions, LinkFacts
  <2>5. \A q \in Asker : \A x \in shown'[q] : Routes!Filled(answers'[x[1]]) /\ answers'[x[1]] = x[2]
    <3> SUFFICES ASSUME NEW q \in Asker, NEW x \in shown[q]
                 PROVE  Routes!Filled(answers'[x[1]]) /\ answers'[x[1]] = x[2]
      BY <1>6
    <3>1. x[1] \in Dst /\ Routes!Filled(answers[x[1]]) /\ answers[x[1]] = x[2]
      BY <1>1, <1>2 DEF Shows
    <3> QED
      BY <2>3, <3>1
  <2>6. once' = "done" => Routes!Filled(answers'[Yard]) /\ yardstick' = answers'[Yard]
    <3>1. CASE once' = "done"
      <4>1. once = "done" /\ yardstick' = yardstick /\ Yard \in Dst
        BY <1>3, <1>6, <3>1, RowsAssumption
      <4>2. Routes!Filled(answers[Yard]) /\ yardstick = answers[Yard]
        BY <1>1, <4>1 DEF Shows
      <4> QED
        BY <2>3, <4>1, <4>2
    <3> QED
      BY <3>1
  <2>7. \A q \in forOnce' : pc'[q] # "idle" /\ dst'[q] = Yard
    BY <1>1, <1>2, <1>5, <1>6, <2>1 DEF Shows
  <2>8. Shows'
    BY <2>5, <2>6, <2>7 DEF Shows, Routes!Filled
  <2> QED
    BY <2>3, <2>4, <2>8 DEF RoutesInv
<1>7. CASE Routes!Ask(r)
  <2>1. PICK d \in Dst : Routes!Claim(r, d)
    BY <1>7 DEF Routes!Ask
  <2>2. once' = once /\ forOnce' = forOnce /\ shown' = shown
    BY <1>7 DEF Routes!Ask
  <2> QED
    BY <1>6, <2>1, <2>2
<1>8. CASE Routes!AskReference(r) /\ once = "unused"
  <2>1. once' = "running" /\ forOnce' = forOnce \cup {r} /\ Routes!Claim(r, Yard) /\ shown' = shown
    BY <1>8 DEF Routes!AskReference
  <2> QED
    BY <1>6, <2>1, RowsAssumption
<1>9. CASE Routes!AskReference(r) /\ once # "unused"
  <2>1. /\ once = "done" /\ shown' = [shown EXCEPT ![r] = @ \cup {<<Yard, yardstick>>}]
        /\ UNCHANGED <<answers, once, pc, dst, forOnce>>
    BY <1>9 DEF Routes!AskReference
  <2>2. Routes!Filled(answers[Yard]) /\ yardstick = answers[Yard]
    BY <1>1, <2>1 DEF Shows
  <2>3. <<Yard, yardstick>> \in Dst \X RouteDecisions
    BY <2>2, FilledFacts, RowsAssumption
  <2>4. shown' \in [Asker -> SUBSET (Dst \X RouteDecisions)]
    BY <1>2, <2>1, <2>3
  <2>5. \A q \in Asker : \A x \in shown'[q] : x \in shown[q] \/ x = <<Yard, yardstick>>
    BY <1>2, <2>1
  <2>6. Routes!TypeOK'
    <3>1. /\ answers \in [Dst -> {Routes!Vacant, Routes!Claimed} \cup RouteDecisions]
          /\ pc \in [Asker -> {"idle", "lookup", "await", "acquire", "link"}] /\ dst \in [Asker -> Dst]
      BY <1>1, RoutesTyped
    <3> QED
      BY <1>2, <1>3, <1>4, <2>1, <2>4, <3>1 DEF Routes!TypeOK, RouteDecisions, LinkFacts
  <2>7. Claims' /\ Decisions'
    BY <1>1, <1>3, <2>1 DEF Claims, Asking, Decisions
  <2>8. \A q \in Asker : \A x \in shown'[q] : Routes!Filled(answers[x[1]]) /\ answers[x[1]] = x[2]
    BY <1>1, <2>2, <2>5 DEF Shows
  <2>9. Shows'
    BY <1>1, <1>3, <2>1, <2>8 DEF Shows, Routes!Filled
  <2> QED
    BY <2>6, <2>7, <2>9 DEF RoutesInv
<1> QED
  BY <1>7, <1>8, <1>9

\* A lookup claims its link's entry, or waits for it.
LEMMA LookupSteps ==
  ASSUME RoutesInv, NEW r \in Asker, Routes!Lookup(r)
  PROVE  RoutesInv'
<1>1. Routes!TypeOK /\ Claims /\ Decisions /\ Shows
  BY DEF RoutesInv
<1>2. /\ answers \in [Dst -> {Routes!Vacant, Routes!Claimed} \cup RouteDecisions]
      /\ links \in [Link -> {Routes!Vacant, Routes!Claimed} \cup LinkFacts]
      /\ once \in {"unused", "running", "done"} /\ yardstick \in {Routes!Vacant} \cup RouteDecisions
      /\ pc \in [Asker -> {"idle", "lookup", "await", "acquire", "link"}]
      /\ dst \in [Asker -> Dst] /\ routeVia \in [Asker -> Link] /\ forOnce \subseteq Asker
      /\ route \in [Dst -> Link] /\ facts \in [Link -> 0..MaxChanges] /\ changes \in 0..MaxChanges
      /\ asked \in [Asker -> 0..MaxQuestions] /\ shown \in [Asker -> SUBSET (Dst \X RouteDecisions)]
  BY <1>1, RoutesTyped
<1>3. PICK l \in Link : l = route[dst[r]]
  BY <1>2
<1>4. /\ pc[r] = "lookup" /\ routeVia' = [routeVia EXCEPT ![r] = l]
      /\ UNCHANGED <<route, facts, changes, answers, once, yardstick, dst, forOnce, asked, shown>>
  BY <1>3 DEF Routes!Lookup, Routes!At, Routes!kernelVars
<1>5. /\ \/ links[l] = Routes!Vacant /\ links'[l] = Routes!Claimed /\ pc'[r] = "acquire"
         \/ links'[l] = links[l] /\ pc'[r] = "link"
      /\ \A k \in Link : k # l => links'[k] = links[k]
      /\ \A q \in Asker : q # r => pc'[q] = pc[q]
      /\ links' \in [Link -> {Routes!Vacant, Routes!Claimed} \cup LinkFacts]
      /\ pc' \in [Asker -> {"idle", "lookup", "await", "acquire", "link"}]
  <2>1. CASE links[l] = Routes!Vacant
    <3>1. links' = [links EXCEPT ![l] = Routes!Claimed] /\ pc' = [pc EXCEPT ![r] = "acquire"]
      BY <1>3, <2>1 DEF Routes!Lookup, Routes!Go
    <3> QED
      BY <1>2, <2>1, <3>1
  <2>2. CASE links[l] # Routes!Vacant
    <3>1. links' = links /\ pc' = [pc EXCEPT ![r] = "link"]
      BY <1>3, <2>2 DEF Routes!Lookup, Routes!Go
    <3> QED
      BY <1>2, <3>1
  <2> QED
    BY <2>1, <2>2
<1>6. routeVia' \in [Asker -> Link] /\ routeVia'[r] = l /\ \A q \in Asker : q # r => routeVia'[q] = routeVia[q]
  BY <1>2, <1>4
<1>7. Routes!TypeOK'
  BY <1>2, <1>4, <1>5, <1>6 DEF Routes!TypeOK, RouteDecisions, LinkFacts
<1>8. \A q \in Asker : Asking(q)' => Asking(q)
  BY <1>4, <1>5 DEF Asking
<1>9. Claims'
  <2>1. \A q \in Asker : Asking(q)' => answers'[dst'[q]] = Routes!Claimed
    BY <1>1, <1>4, <1>8 DEF Claims
  <2>2. \A p, q \in Asker : Asking(p)' /\ Asking(q)' /\ dst'[p] = dst'[q] => p = q
    BY <1>1, <1>4, <1>8 DEF Claims
  <2>3. Routes!Vacant # Routes!Claimed
    BY Entries
  <2>4. \A q \in Asker : q # r /\ pc[q] = "acquire" => links[routeVia[q]] = Routes!Claimed
    BY <1>1 DEF Claims
  <2>5. \A q \in Asker : pc'[q] = "acquire" => links'[routeVia'[q]] = Routes!Claimed
    <3> SUFFICES ASSUME NEW q \in Asker, pc'[q] = "acquire" PROVE links'[routeVia'[q]] = Routes!Claimed
      OBVIOUS
    <3>1. CASE q = r
      BY <1>5, <1>6, <3>1
    <3>2. CASE q # r
      BY <1>2, <1>5, <1>6, <2>3, <2>4, <3>2
    <3> QED
      BY <3>1, <3>2
  <2>6. \A p, q \in Asker :
          pc'[p] = "acquire" /\ pc'[q] = "acquire" /\ routeVia'[p] = routeVia'[q] => p = q
    <3> SUFFICES ASSUME NEW p \in Asker, NEW q \in Asker, pc'[p] = "acquire", pc'[q] = "acquire",
                        routeVia'[p] = routeVia'[q]
                 PROVE  p = q
      OBVIOUS
    <3>1. CASE p # r /\ q # r
      BY <1>1, <1>5, <1>6, <3>1 DEF Claims
    <3>2. CASE p = r /\ q # r
      BY <1>2, <1>5, <1>6, <2>3, <2>4, <3>2
    <3>3. CASE q = r /\ p # r
      BY <1>2, <1>5, <1>6, <2>3, <2>4, <3>3
    <3> QED
      BY <3>1, <3>2, <3>3
  <2> QED
    BY <2>1, <2>2, <2>5, <2>6 DEF Claims, Asking
<1>10. Decisions'
  <2>1. \A k \in Link : links[k].ok => links'[k] = links[k]
    BY <1>5, Entries
  <2> QED
    BY <1>1, <1>4, <2>1 DEF Decisions
<1>11. Shows'
  <2>1. \A q \in forOnce : pc'[q] # "idle"
    BY <1>1, <1>2, <1>5 DEF Shows
  <2> QED
    BY <1>1, <1>4, <2>1 DEF Shows, Routes!Filled
<1> QED
  BY <1>7, <1>9, <1>10, <1>11 DEF RoutesInv

LEMMA RoutesSteps ==
  ASSUME RoutesInv, Routes!Next \/ UNCHANGED routeVars
  PROVE  RoutesInv'
<1>1. Routes!TypeOK /\ Claims /\ Decisions /\ Shows
  BY DEF RoutesInv
<1>2. /\ answers \in [Dst -> {Routes!Vacant, Routes!Claimed} \cup RouteDecisions]
      /\ links \in [Link -> {Routes!Vacant, Routes!Claimed} \cup LinkFacts]
      /\ once \in {"unused", "running", "done"} /\ yardstick \in {Routes!Vacant} \cup RouteDecisions
      /\ pc \in [Asker -> {"idle", "lookup", "await", "acquire", "link"}]
      /\ dst \in [Asker -> Dst] /\ routeVia \in [Asker -> Link] /\ forOnce \subseteq Asker
      /\ route \in [Dst -> Link] /\ facts \in [Link -> 0..MaxChanges] /\ changes \in 0..MaxChanges
      /\ asked \in [Asker -> 0..MaxQuestions] /\ shown \in [Asker -> SUBSET (Dst \X RouteDecisions)]
  BY <1>1, RoutesTyped
<1>3. CASE Routes!KernelChanges
  <2>1. UNCHANGED <<answers, links, once, yardstick, pc, dst, routeVia, forOnce, asked, shown>>
    BY <1>3 DEF Routes!KernelChanges, Routes!cacheVars, Routes!rowVars
  <2>2. changes < MaxChanges /\ changes' = changes + 1
    BY <1>3 DEF Routes!KernelChanges
  <2>3. changes' \in 0..MaxChanges
    BY <1>2, <2>2, RowsAssumption
  <2>4. route' \in [Dst -> Link] /\ facts' \in [Link -> 0..MaxChanges]
    <3>1. CASE (\E d \in Dst, l \in Link : route' = [route EXCEPT ![d] = l]) /\ UNCHANGED facts
      BY <1>2, <3>1
    <3>2. CASE (\E l \in Link : facts' = [facts EXCEPT ![l] = changes']) /\ UNCHANGED route
      BY <1>2, <2>3, <3>2
    <3> QED
      BY <1>3, <3>1, <3>2 DEF Routes!KernelChanges
  <2>5. Routes!TypeOK'
    BY <1>2, <2>1, <2>3, <2>4 DEF Routes!TypeOK, RouteDecisions, LinkFacts
  <2>6. Claims' /\ Decisions'
    BY <1>1, <2>1 DEF Claims, Asking, Decisions
  <2>7. Shows'
    BY <1>1, <2>1 DEF Shows, Routes!Filled
  <2> QED
    BY <2>5, <2>6, <2>7 DEF RoutesInv
<1>4. ASSUME NEW r \in Asker, Routes!Ask(r) \/ Routes!AskReference(r) PROVE RoutesInv'
  BY <1>4, AskSteps
<1>5. ASSUME NEW r \in Asker, Routes!Lookup(r) PROVE RoutesInv'
  BY <1>5, LookupSteps
<1>6. ASSUME links' = links
      PROVE  /\ links' \in [Link -> {Routes!Vacant, Routes!Claimed} \cup LinkFacts]
             /\ \A l \in Link : Routes!Filled(links[l]) => links'[l] = links[l]
             /\ \A q \in Asker : pc[q] = "acquire" => links'[routeVia[q]] = Routes!Claimed
  BY <1>1, <1>2, <1>6 DEF Claims
<1>7. ASSUME NEW r \in Asker, Routes!Await(r) PROVE RoutesInv'
  <2>1. PICK v \in RouteDecisions : v = answers[dst[r]]
    BY <1>2, <1>7, FilledFacts DEF Routes!Await
  <2>2. /\ Routes!Answer(r, v) /\ pc[r] = "await" /\ answers' = answers /\ links' = links
        /\ UNCHANGED <<route, facts, changes, dst, routeVia, asked>>
    BY <1>7, <2>1 DEF Routes!Await, Routes!At, Routes!kernelVars
  <2>3. v.ok => v.link \in Link /\ links'[v.link].ok /\ links'[v.link].facts = v.facts
    BY <1>1, <1>2, <2>1, <2>2 DEF Decisions
  <2> QED
    BY <1>6, <2>1, <2>2, <2>3, Answers
<1>8. ASSUME NEW r \in Asker, Routes!LookupFails(r) PROVE RoutesInv'
  <2>1. PICK v \in RouteDecisions : v = Routes!NoRoute
    BY DEF RouteDecisions
  <2>2. /\ Routes!Answer(r, v) /\ Asking(r) /\ answers' = [answers EXCEPT ![dst[r]] = v] /\ links' = links
        /\ UNCHANGED <<route, facts, changes, dst, routeVia, asked>>
    BY <1>8, <2>1 DEF Routes!LookupFails, Routes!At, Routes!kernelVars, Asking
  <2>3. v.ok = FALSE
    BY <2>1, Entries
  <2> QED
    BY <1>6, <2>1, <2>2, <2>3, Answers
<1>9. ASSUME NEW r \in Asker, Routes!Acquire(r) PROVE RoutesInv'
  <2>1. PICK l \in Link, f \in 0..MaxChanges : l = routeVia[r] /\ f = facts[l]
    BY <1>2
  <2>2. PICK v \in RouteDecisions : v = Routes!Decision(l, f)
    BY Entries
  <2>3. PICK e \in LinkFacts : e = [ok |-> TRUE, facts |-> f]
    BY Entries
  <2>4. v.ok = TRUE /\ v.link = l /\ v.facts = f /\ e.ok = TRUE /\ e.facts = f
    BY <2>2, <2>3, Entries
  <2>5. /\ Routes!Answer(r, v) /\ pc[r] = "acquire" /\ Asking(r) /\ answers' = [answers EXCEPT ![dst[r]] = v]
        /\ links' = [links EXCEPT ![l] = e]
        /\ UNCHANGED <<route, facts, changes, dst, routeVia, asked>>
    BY <1>9, <2>1, <2>2, <2>3
    DEF Routes!Acquire, Routes!Decide, Routes!At, Routes!kernelVars, Asking
  <2>6. /\ links' \in [Link -> {Routes!Vacant, Routes!Claimed} \cup LinkFacts]
        /\ links'[l] = e /\ \A k \in Link : k # l => links'[k] = links[k]
    BY <1>2, <2>5
  <2>7. links[l] = Routes!Claimed
    BY <1>1, <2>1, <2>5 DEF Claims
  <2>8. \A k \in Link : Routes!Filled(links[k]) => links'[k] = links[k]
    BY <2>6, <2>7, FilledFacts
  <2>9. \A q \in Asker : q # r /\ pc[q] = "acquire" => links'[routeVia[q]] = Routes!Claimed
    BY <1>1, <1>2, <2>1, <2>5, <2>6 DEF Claims
  <2>10. v.link \in Link /\ links'[v.link].ok /\ links'[v.link].facts = v.facts
    BY <2>4, <2>6
  <2> QED
    BY <2>5, <2>6, <2>8, <2>9, <2>10, Answers
<1>10. ASSUME NEW r \in Asker, Routes!AwaitLink(r) PROVE RoutesInv'
  <2>1. PICK l \in Link : l = routeVia[r]
    BY <1>2
  <2>2. links[l] \in LinkFacts
    BY <1>10, <2>1, FilledFacts DEF Routes!AwaitLink
  <2>3. PICK f \in 0..MaxChanges : f = links[l].facts
    BY <2>2, Entries
  <2>4. PICK v \in RouteDecisions : v = Routes!Decision(l, f)
    BY Entries
  <2>5. v.ok = TRUE /\ v.link = l /\ v.facts = f /\ links[l].ok = TRUE
    BY <2>2, <2>4, Entries
  <2>6. /\ Routes!Answer(r, v) /\ Asking(r) /\ answers' = [answers EXCEPT ![dst[r]] = v] /\ links' = links
        /\ UNCHANGED <<route, facts, changes, dst, routeVia, asked>>
    BY <1>10, <2>1, <2>3, <2>4
    DEF Routes!AwaitLink, Routes!Decide, Routes!At, Routes!kernelVars, Asking
  <2> QED
    BY <1>6, <2>3, <2>5, <2>6, Answers
<1>11. CASE Routes!Finished \/ UNCHANGED routeVars
  <2>1. UNCHANGED routeVars
    BY <1>11 DEF Routes!Finished, Routes!vars, Routes!kernelVars, Routes!cacheVars, Routes!rowVars,
       routeVars
  <2>2. UNCHANGED <<route, facts, changes, answers, links, once, yardstick, pc, dst, routeVia, forOnce,
                    asked, shown>>
    BY <2>1 DEF routeVars
  <2>3. Routes!TypeOK'
    BY <1>1, <2>2 DEF Routes!TypeOK
  <2>4. Claims' /\ Decisions'
    BY <1>1, <2>2 DEF Claims, Asking, Decisions
  <2>5. Shows'
    BY <1>1, <2>2 DEF Shows, Routes!Filled
  <2> QED
    BY <2>3, <2>4, <2>5 DEF RoutesInv
<1> QED
  BY <1>3, <1>4, <1>5, <1>7, <1>8, <1>9, <1>10, <1>11 DEF Routes!Next, Routes!RowStep

-----------------------------------------------------------------------------
\* What is shown together.

LEMMA SampleShared == ASSUME ProfileInv PROVE Profile!OneSample
<1> SUFFICES ASSUME verdict = "reported", way = "local"
             PROVE  /\ \A c \in Profile!Component, s \in Profile!Shared :
                         \/ sharedRow[<<c, s>>] \in {flight[s], "skipped"}
                         \/ sharedRow[<<c, s>>] = "cut" /\ <<c, s>> \in expired
                    /\ \A c \in Profile!Component : measured[c] \in {"none", flight["iface"]}
  BY DEF Profile!OneSample
<1>1. /\ ~cancelled
      /\ \A c \in Profile!Component, s \in Profile!Shared : sharedRow[<<c, s>>] \in Profile!Ended
  BY DEF ProfileInv, Turns, Acquiring
<1>2. ASSUME NEW c \in Profile!Component, NEW s \in Profile!Shared
      PROVE  /\ \/ sharedRow[<<c, s>>] \in {flight[s], "skipped"}
                \/ sharedRow[<<c, s>>] = "cut" /\ <<c, s>> \in expired
             /\ sharedRow[<<c, s>>] \in Profile!Good => sharedRow[<<c, s>>] = flight[s]
  <2>1. /\ sharedRow[<<c, s>>] \in Profile!Good \cup {"failed"} => sharedRow[<<c, s>>] = flight[s]
        /\ sharedRow[<<c, s>>] = "cut" => cancelled \/ <<c, s>> \in expired \/ flight[s] = "cut"
    BY DEF ProfileInv, Observed
  <2>2. sharedRow[<<c, s>>] \in Profile!Good \cup {"failed", "cut", "skipped"}
    BY <1>1 DEF Profile!Ended, Profile!Samples
  <2> QED
    BY <1>1, <2>1, <2>2
<1>3. \A c \in Profile!Component : measured[c] \in {"none", flight["iface"]}
  <2> SUFFICES ASSUME NEW c \in Profile!Component, measured[c] # "none" PROVE measured[c] = flight["iface"]
    OBVIOUS
  <2>1. sharedRow[<<c, "iface">>] \in Profile!Good /\ measured[c] = sharedRow[<<c, "iface">>]
    BY DEF ProfileInv, Referenced
  <2>2. "iface" \in Profile!Shared
    BY DEF Profile!Shared
  <2> QED
    BY <1>2, <2>1, <2>2
<1> QED
  BY <1>2, <1>3

LEMMA AnswerShared == ASSUME RoutesInv PROVE Routes!OneAnswer
<1>1. Routes!TypeOK /\ Decisions /\ Shows
  BY DEF RoutesInv
<1>2. shown \in [Asker -> SUBSET (Dst \X RouteDecisions)]
  BY <1>1, RoutesTyped
<1>3. \A x \in UNION {shown[r] : r \in Asker} : x[1] \in Dst /\ answers[x[1]] = x[2]
  BY <1>1, <1>2 DEF Shows
<1>4. ASSUME NEW x \in UNION {shown[r] : r \in Asker}, NEW y \in UNION {shown[r] : r \in Asker}
      PROVE  /\ x[1] = y[1] => x[2] = y[2]
             /\ x[2].ok /\ y[2].ok /\ x[2].link = y[2].link => x[2].facts = y[2].facts
  <2>1. /\ x[1] \in Dst /\ answers[x[1]] = x[2]
        /\ y[1] \in Dst /\ answers[y[1]] = y[2]
    BY <1>3
  <2>2. /\ x[2].ok => links[x[2].link].facts = x[2].facts
        /\ y[2].ok => links[y[2].link].facts = y[2].facts
    BY <1>1, <2>1 DEF Decisions
  <2> QED
    BY <2>1, <2>2
<1> QED
  BY <1>4 DEF Routes!OneAnswer

\* The ssh processes that may ask: the first component's before the others start,
\* and the one that is on in a pass one by one.
LEMMA OneAsks == ASSUME ProfileInv PROVE OneQuestionAtATime
<1> DEFINE asks == {c \in Profile!Component : run[c] = "ssh" /\ c \notin batch}
<1>1. Profile!TypeOK /\ Acquiring /\ Turns
  BY DEF ProfileInv
<1>2. \A c, d \in asks : c = d
  <2> SUFFICES ASSUME NEW c \in asks, NEW d \in asks PROVE c = d
    OBVIOUS
  <2>1. stage \in {"start", "first", "one by one", "together"}
    BY <1>1, ProfileTyped
  <2>2. CASE stage = "start"
    BY <1>1, <2>2 DEF Turns
  <2>3. CASE stage = "first"
    BY <1>1, <2>3 DEF Turns
  <2>4. CASE stage = "together"
    BY <1>1, <2>4 DEF Turns
  <2>5. CASE stage = "one by one"
    <3>1. c \in Int /\ d \in Int
      BY DEF Profile!Component
    <3>2. ~(c < d) /\ ~(d < c)
      BY <1>1, <2>5 DEF Turns
    <3> QED
      BY <3>1, <3>2
  <2> QED
    BY <2>1, <2>2, <2>3, <2>4, <2>5
<1>3. Cardinality(asks) <= 1
  <2>1. CASE asks = {}
    BY <2>1, FS_EmptySet
  <2>2. CASE asks # {}
    <3>1. PICK c \in asks : TRUE
      BY <2>2
    <3>2. asks = {c}
      BY <1>2, <3>1
    <3>3. Cardinality(asks) = 1
      BY <3>2, FS_Singleton
    <3> QED
      BY <3>3
  <2> QED
    BY <2>1, <2>2
<1>4. verdict = "reported" => \A c \in Profile!Component : run[c] = "over" /\ output[c] = "answer"
  BY <1>1 DEF Turns
<1>5. Profile!Cardinality(asks) = Cardinality(asks)
  BY Zenon DEF Profile!Cardinality, Cardinality
<1> QED
  BY <1>3, <1>4, <1>5 DEF OneQuestionAtATime, Profile!OneQuestionAtATime

\* No part's step touches another's state.
RowsInv == IInv /\ ProfileInv /\ RoutesInv

LEMMA RowsInvariance == RowsSpec => []RowsInv
<1>1. InitRows => RowsInv
  BY InitIInv, ProfileBegins, RoutesBegin DEF InitRows, RowsInv
<1>2. RowsInv /\ [NextRows]_<<part, vars, profileVars, routeVars>> => RowsInv'
  <2> SUFFICES ASSUME RowsInv, [NextRows]_<<part, vars, profileVars, routeVars>> PROVE RowsInv'
    OBVIOUS
  <2>1. /\ [Next]_vars
        /\ Profile!Next \/ UNCHANGED profileVars
        /\ Routes!Next \/ UNCHANGED routeVars
    BY DEF NextRows
  <2>2. IInv'
    BY <2>1, StepIInv DEF RowsInv
  <2>3. ProfileInv'
    BY <2>1, ProfileSteps DEF RowsInv
  <2>4. RoutesInv'
    BY <2>1, RoutesSteps DEF RowsInv
  <2> QED
    BY <2>2, <2>3, <2>4 DEF RowsInv
<1> QED
  BY <1>1, <1>2, PTL DEF RowsSpec

\* Type correctness of what rows share.
THEOREM RowsTypeCorrect == RowsSpec => [](TypeOK /\ Profile!TypeOK /\ Routes!TypeOK)
<1>1. RowsInv => TypeOK /\ Profile!TypeOK /\ Routes!TypeOK
  BY DEF RowsInv, IInv, ProfileInv, RoutesInv
<1> QED
  BY <1>1, RowsInvariance, PTL

\* In a reported profile every component shows the one sample of a shared row, or
\* that its own time was up (profileObservation.run, profile_pass.go), and all rows
\* of a pass show one decision about a destination and one set of facts of a link
\* (routeCache.get, route.go), whatever number of rows ask and however the kernel
\* changes meanwhile.
THEOREM MeasuredOnce == RowsSpec => []OneMeasurement
<1>1. RowsInv => OneMeasurement
  BY SampleShared, AnswerShared DEF RowsInv, OneMeasurement
<1> QED
  BY <1>1, RowsInvariance, PTL

\* However runProfilePass (profile_mode.go) falls back, for any number of
\* components, at most one ssh that may ask runs at a time, and a reported pass has
\* an answer of every component.
THEOREM OneAtATime == RowsSpec => []OneQuestionAtATime
<1>1. RowsInv => OneQuestionAtATime
  BY OneAsks DEF RowsInv
<1> QED
  BY <1>1, RowsInvariance, PTL
=============================================================================
