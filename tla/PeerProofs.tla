---------------------------- MODULE PeerProofs ----------------------------
(***************************************************************************)
(* A peer session, for any families, any limit and any sessions: neither   *)
(* end refutes the other, a result of the listener is one both ends have,  *)
(* and no socket of a server escapes its Close.                            *)
(***************************************************************************)
EXTENDS PeerSession, FiniteSetTheorems, TLAPS

\* The connection in which a server is probed in a family.
ProbeOf(e, f) == IF e = "listener" THEN <<"probe", f>> ELSE <<"back", f>>

\* Whether a server has witnessed a probe, how far its handler is, and what the
\* dialing side knows.
Consistent(witnessed, h, c) ==
  /\ h = "claimed" => witnessed /\ c \in {"asked", "fail"}
  /\ c = "pass" => witnessed /\ h = "gone"
  /\ c = "asked" => h = "claimed"
  /\ witnessed => h \in {"claimed", "gone"} /\ c \notin {"idle", "dialing"}
  /\ c = "idle" => h = "none"

Witnessed ==
  \A e \in End, f \in Family :
    Consistent(f \in inbound[e], handler[ProbeOf(e, f)], client[ProbeOf(e, f)])

\* Only a connection that said hello is handed over.
IsControl(c) == c[1] \in {"hello", "stranger"}
Controls ==
  /\ \A c \in Conn : handler[c] = "handing" => IsControl(c)
  /\ \A c \in Conn : handler[c] = "claimed" => ~IsControl(c)
  /\ controls # NoConn => IsControl(controls)
  /\ control # NoConn => IsControl(control)

\* What was sent is what was seen, and stays so.
BeforeProbes ==
  /\ connect = "greeting" => \A f \in Family : client[<<"probe", f>>] = "idle"
  /\ connect = "probing" => requests # {} /\ \A f \in requests : client[<<"probe", f>>] # "idle"
  /\ run \in {"waiting", "greeting", "reading", "verified"} =>
       evidence["listener"] = NotSent /\ \A f \in Family : client[<<"back", f>>] = "idle"
SentIsSeen ==
  \A f \in Family :
    /\ evidence["connector"][f] = "pass" => client[<<"probe", f>>] = "pass"
    /\ evidence["connector"][f] # "na"
    /\ evidence["listener"][f] = "pass" => client[<<"back", f>>] = "pass"
    /\ evidence["listener"][f] = "na" => client[<<"back", f>>] = "idle"
    /\ client[Hello(f)] # "idle" => f \in requests

\* The listener's result waits for the connector's.
Agreed ==
  /\ connect \in {"awaiting", "finishing"} \/ done =>
       \E f \in Family : evidence["connector"][f] # "untested"
  /\ done => connect \in {"leaving", "returned"} /\ outcome["connector"] = "result"
  /\ outcome["listener"] = "result" => done
  /\ EvidenceStands

\* Whatever is open while a server closes was found by Close or is not past its
\* handshake.
Sockets ==
  /\ open \subseteq tracked /\ IsFiniteSet(tracked)
  /\ \A c \in open : handler[c] # "none"
  /\ \A e \in End :
       /\ Cardinality(tracked \cap Of(e)) <= Limit
       /\ server[e] = "closing" =>
            \A c \in open \cap Of(e) : c \in doomed[e] \/ handler[c] = "accepted"
       /\ server[e] = "joined" => open \cap Of(e) = {}

IInv ==
  /\ TypeOK /\ Witnessed /\ Controls
  /\ BeforeProbes /\ SentIsSeen /\ Agreed
  /\ Sockets

-----------------------------------------------------------------------------
\* Connections.

LEMMA ConnFacts ==
  /\ \A e \in End, f \in Family :
       /\ ProbeOf(e, f) \in Conn /\ ServerOf(ProbeOf(e, f)) = e /\ ~IsControl(ProbeOf(e, f))
       /\ ProbeOf(e, f)[2] = f
  /\ \A f \in Family :
       /\ Hello(f) \in Conn /\ <<"probe", f>> \in Conn /\ <<"back", f>> \in Conn
       /\ IsControl(Hello(f)) /\ ~IsControl(<<"probe", f>>) /\ ~IsControl(<<"back", f>>)
  /\ \A c \in Conn :
       /\ c[1] \in {"hello", "probe", "back", "stranger"} /\ c # NoConn
       /\ ServerOf(c) \in End
       /\ ~IsControl(c) => c[2] \in Family /\ c = ProbeOf(ServerOf(c), c[2])
       /\ \A e \in End : c \in Of(e) <=> ServerOf(c) = e
<1> USE DEF Conn, ProbeOf, ServerOf, End, IsControl, Hello, NoConn, Of
<1>1. \A e \in End, f \in Family :
        /\ ProbeOf(e, f) \in Conn /\ ServerOf(ProbeOf(e, f)) = e /\ ~IsControl(ProbeOf(e, f))
        /\ ProbeOf(e, f)[2] = f
  OBVIOUS
<1>2. \A f \in Family :
        /\ Hello(f) \in Conn /\ <<"probe", f>> \in Conn /\ <<"back", f>> \in Conn
        /\ IsControl(Hello(f)) /\ ~IsControl(<<"probe", f>>) /\ ~IsControl(<<"back", f>>)
  OBVIOUS
<1>3. ASSUME NEW c \in Conn
      PROVE  /\ c[1] \in {"hello", "probe", "back", "stranger"} /\ c # NoConn
             /\ ServerOf(c) \in End
             /\ ~IsControl(c) => c[2] \in Family /\ c = ProbeOf(ServerOf(c), c[2])
             /\ \A e \in End : c \in Of(e) <=> ServerOf(c) = e
  OBVIOUS
<1> QED
  BY <1>1, <1>2, <1>3

LEMMA InitInv == Init => IInv
<1> SUFFICES ASSUME Init PROVE IInv
  OBVIOUS
<1>0. /\ \A c \in Conn : handler[c] = "none" /\ client[c] \in {"idle", "dialing"}
      /\ \A c \in Conn : c[1] # "stranger" => client[c] = "idle"
      /\ \A e \in End : inbound[e] = {} /\ evidence[e] = NotSent /\ outcome[e] = "none"
      /\ client \in [Conn -> {"idle", "dialing", "asked", "pass", "fail"}]
      /\ offered \in [End -> SUBSET Family] /\ requests \subseteq Family
  BY SessionAssumption DEF Init
<1>1. TypeOK
  <2>1. NotSent \in [Family -> Statuses]
    BY DEF NotSent, Statuses
  <2> QED
    BY <1>0, <2>1 DEF Init, TypeOK
<1>2. Witnessed
  <2> SUFFICES ASSUME NEW e \in End, NEW f \in Family
               PROVE  Consistent(f \in inbound[e], handler[ProbeOf(e, f)], client[ProbeOf(e, f)])
    BY DEF Witnessed
  <2>1. client[ProbeOf(e, f)] = "idle" /\ handler[ProbeOf(e, f)] = "none"
    BY <1>0, ConnFacts DEF IsControl
  <2> QED
    BY <1>0, <2>1 DEF Consistent
<1>3. Controls
  BY <1>0 DEF Init, Controls
<1>4. BeforeProbes /\ SentIsSeen
  <2>1. \A f \in Family : NotSent[f] = "untested"
    BY DEF NotSent
  <2>2. \A f \in Family : /\ client[<<"probe", f>>] = "idle" /\ client[<<"back", f>>] = "idle"
                          /\ client[Hello(f)] = "idle"
    BY <1>0, ConnFacts DEF Hello
  <2> QED
    BY <1>0, <2>1, <2>2 DEF Init, BeforeProbes, SentIsSeen, End
<1>5. Agreed
  BY <1>0 DEF Init, Agreed, EvidenceStands, End
<1>6. Sockets
  <2>1. Cardinality({}) = 0 /\ IsFiniteSet({}) /\ 0 <= Limit
    BY FS_EmptySet, LimitAssumption
  <2>2. \A e \in End : tracked \cap Of(e) = {}
    BY DEF Init
  <2> QED
    BY <2>1, <2>2 DEF Init, Sockets
<1> QED
  BY <1>1, <1>2, <1>3, <1>4, <1>5, <1>6 DEF IInv

-----------------------------------------------------------------------------
\* The steps.

Stutters == UNCHANGED vars

LEMMA Steps ==
  ASSUME [Next]_vars
  PROVE  \/ \E c \in Conn : \/ ClientFails(c) \/ Accept(c) \/ HandlerFails(c) \/ Serve(c)
                            \/ Answer(c) \/ ServeHello(c) \/ HandOver(c)
         \/ \E e \in End : ContextEnds(e) \/ CloseAndJoin(e)
         \/ Expires \/ ExpiryCloses \/ TakeControl \/ Greet \/ ReadEvidence \/ ProbeBack
         \/ SendEvidence \/ Finish \/ RunFails \/ CloseControl \/ RunCloses \/ RunReturns
         \/ \E f \in Family : DialControl(f) \/ Greeted(f)
         \/ Report \/ ReadAnswer \/ SayDone \/ ConnectFails \/ ConnectCloses \/ ConnectReturns
         \/ Stutters
  BY DEF Next, HandlerStep, Expiry, RunStep, ConnectStep, Over, Stutters

HandlerStates == {"none", "accepted", "claimed", "handing", "gone"}
ClientStates == {"idle", "dialing", "asked", "pass", "fail"}

\* A dropped connection is closed and forgotten, and a dialing side that waits
\* fails.
LEMMA DropFacts ==
  ASSUME TypeOK, NEW c \in Conn, Drops(c)
  PROVE  /\ handler' \in [Conn -> HandlerStates] /\ client' \in [Conn -> ClientStates]
         /\ open' = open \ {c} /\ tracked' = tracked \ {c}
         /\ handler'[c] = "gone" /\ \A d \in Conn \ {c} : handler'[d] = handler[d]
         /\ client'[c] = IF client[c] \in {"dialing", "asked"} THEN "fail" ELSE client[c]
         /\ \A d \in Conn \ {c} : client'[d] = client[d]
<1>1. handler \in [Conn -> HandlerStates] /\ client \in [Conn -> ClientStates]
  BY DEF TypeOK, HandlerStates, ClientStates
<1>2. /\ handler' = [handler EXCEPT ![c] = "gone"] /\ open' = open \ {c} /\ tracked' = tracked \ {c}
      /\ client' = [client EXCEPT ![c] = IF client[c] \in {"dialing", "asked"} THEN "fail" ELSE client[c]]
  BY DEF Drops, Ends
<1>3. /\ handler' \in [Conn -> HandlerStates]
      /\ handler'[c] = "gone" /\ \A d \in Conn \ {c} : handler'[d] = handler[d]
  BY <1>1, <1>2 DEF HandlerStates
<1>4. /\ client' \in [Conn -> ClientStates]
      /\ client'[c] = IF client[c] \in {"dialing", "asked"} THEN "fail" ELSE client[c]
      /\ \A d \in Conn \ {c} : client'[d] = client[d]
  BY <1>1, <1>2 DEF ClientStates
<1> QED
  BY <1>2, <1>3, <1>4

\* Every variable keeps its type.
LEMMA TypeKept ==
  ASSUME IInv, [Next]_vars
  PROVE  TypeOK'
<1> USE DEF started, serverVars, connVars, runVars
<1>0. TypeOK
  BY DEF IInv
<1>1. ASSUME NEW c \in Conn, ClientFails(c) PROVE TypeOK'
  BY <1>1, <1>0 DEF ClientFails, TypeOK
<1>2. ASSUME NEW c \in Conn, Accept(c) PROVE TypeOK'
  <2>1. handler' \in [Conn -> HandlerStates]
    BY <1>2, <1>0, DropFacts DEF Accept, HandlerStates, TypeOK
  <2>2. client' \in [Conn -> ClientStates]
    BY <1>2, <1>0, DropFacts DEF Accept, ClientStates, TypeOK
  <2>3. open' \subseteq Conn /\ tracked' \subseteq Conn
    BY <1>2, <1>0, DropFacts DEF Accept, TypeOK
  <2> QED
    BY <1>2, <1>0, <2>1, <2>2, <2>3 DEF Accept, TypeOK, HandlerStates, ClientStates
<1>3. ASSUME NEW c \in Conn, HandlerFails(c) PROVE TypeOK'
  BY <1>3, <1>0 DEF HandlerFails, Drops, Ends, TypeOK
<1>4. ASSUME NEW c \in Conn, Serve(c) PROVE TypeOK'
  <2>1. handler' \in [Conn -> HandlerStates]
    BY <1>4, <1>0, DropFacts DEF Serve, Keeps, HandlerStates, TypeOK
  <2>2. client' \in [Conn -> ClientStates]
    BY <1>4, <1>0, DropFacts DEF Serve, Keeps, ClientStates, TypeOK
  <2>3. open' \subseteq Conn /\ tracked' \subseteq Conn
    BY <1>4, <1>0, DropFacts DEF Serve, Keeps, TypeOK
  <2>4. c[2] \in Family /\ ServerOf(c) \in End
    BY <1>4, ConnFacts DEF Serve, Reads, IsControl
  <2>6. inbound' = [inbound EXCEPT ![ServerOf(c)] = @ \cup {c[2]}] \/ inbound' = inbound
    BY <1>4 DEF Serve, Keeps
  <2>5. inbound' \in [End -> SUBSET Family]
    BY <1>0, <2>4, <2>6 DEF TypeOK
  <2> QED
    BY <1>4, <1>0, <2>1, <2>2, <2>3, <2>5 DEF Serve, Keeps, TypeOK, HandlerStates, ClientStates
<1>5. ASSUME NEW c \in Conn, Answer(c) PROVE TypeOK'
  <2>1. \/ Ends(c) /\ Delivered(c) /\ UNCHANGED inbound
        \/ Drops(c) /\ inbound' = [inbound EXCEPT ![ServerOf(c)] = @ \ {c[2]}]
    BY <1>5 DEF Answer
  <2>2. handler' \in [Conn -> HandlerStates]
    BY <2>1, <1>0, DropFacts DEF Ends, HandlerStates, TypeOK
  <2>3. client' \in [Conn -> ClientStates]
    BY <2>1, <1>0, DropFacts DEF Delivered, ClientStates, TypeOK
  <2>4. open' \subseteq Conn /\ tracked' \subseteq Conn
    BY <2>1, <1>0, DropFacts DEF Ends, TypeOK
  <2>5. inbound' \in [End -> SUBSET Family]
    BY <2>1, <1>0 DEF TypeOK
  <2> QED
    BY <1>5, <1>0, <2>2, <2>3, <2>4, <2>5 DEF Answer, TypeOK, HandlerStates, ClientStates
<1>6. ASSUME NEW c \in Conn, ServeHello(c) PROVE TypeOK'
  <2>1. handler' \in [Conn -> HandlerStates]
    BY <1>6, <1>0, DropFacts DEF ServeHello, Keeps, HandlerStates, TypeOK
  <2>2. client' \in [Conn -> ClientStates]
    BY <1>6, <1>0, DropFacts DEF ServeHello, Keeps, ClientStates, TypeOK
  <2>3. open' \subseteq Conn /\ tracked' \subseteq Conn
    BY <1>6, <1>0, DropFacts DEF ServeHello, Keeps, TypeOK
  <2>4. controlUsed' \in BOOLEAN
    BY <1>6, <1>0 DEF ServeHello, TypeOK
  <2> QED
    BY <1>6, <1>0, <2>1, <2>2, <2>3, <2>4 DEF ServeHello, TypeOK, HandlerStates, ClientStates
<1>7. ASSUME NEW c \in Conn, HandOver(c) PROVE TypeOK'
  <2>1. handler' \in [Conn -> HandlerStates]
    BY <1>7, <1>0, DropFacts DEF HandOver, HandlerStates, TypeOK
  <2>2. client' \in [Conn -> ClientStates]
    BY <1>7, <1>0, DropFacts DEF HandOver, ClientStates, TypeOK
  <2>3. open' \subseteq Conn /\ tracked' \subseteq Conn
    BY <1>7, <1>0, DropFacts DEF HandOver, TypeOK
  <2>4. {controls, control}' \subseteq Conn \cup {NoConn}
    BY <1>7, <1>0 DEF HandOver, TypeOK
  <2> QED
    BY <1>7, <1>0, <2>1, <2>2, <2>3, <2>4 DEF HandOver, TypeOK, HandlerStates, ClientStates
<1>8. ASSUME NEW e \in End, ContextEnds(e) PROVE TypeOK'
  <2>1. PICK w \in {"owner", "context"} : BeginClose(e, w)
    BY <1>8 DEF ContextEnds
  <2>2. server' \in [End -> {"serving", "closing", "joined"}] /\ closer' \in [End -> {"nobody", "owner", "context"}]
    BY <1>0, <2>1 DEF TypeOK, BeginClose
  <2>3. doomed' \in [End -> SUBSET Conn]
    BY <1>0, <2>1 DEF TypeOK, BeginClose
  <2> QED
    BY <1>8, <1>0, <2>2, <2>3 DEF ContextEnds, TypeOK
<1>9. ASSUME NEW e \in End, CloseAndJoin(e) PROVE TypeOK'
  BY <1>9, <1>0 DEF CloseAndJoin, TypeOK
<1>10. ASSUME Expires PROVE TypeOK'
  BY <1>10, <1>0 DEF Expires, TypeOK
<1>11. ASSUME ExpiryCloses PROVE TypeOK'
  <2>1. PICK w \in {"owner", "context"} : BeginClose("listener", w)
    BY <1>11 DEF ExpiryCloses
  <2>2. server' \in [End -> {"serving", "closing", "joined"}] /\ closer' \in [End -> {"nobody", "owner", "context"}]
    BY <1>0, <2>1 DEF TypeOK, BeginClose
  <2>3. doomed' \in [End -> SUBSET Conn]
    BY <1>0, <2>1 DEF TypeOK, BeginClose
  <2> QED
    BY <1>11, <1>0, <2>2, <2>3 DEF ExpiryCloses, TypeOK
<1>12. ASSUME TakeControl PROVE TypeOK'
  BY <1>12, <1>0 DEF TakeControl, TypeOK
<1>13. ASSUME Greet PROVE TypeOK'
  BY <1>13, <1>0 DEF Greet, Delivered, TypeOK
<1>14. ASSUME ReadEvidence PROVE TypeOK'
  BY <1>14, <1>0 DEF ReadEvidence, RunEnds, TypeOK
<1>15. ASSUME ProbeBack PROVE TypeOK'
  BY <1>15, <1>0 DEF ProbeBack, TypeOK
<1>16. ASSUME SendEvidence PROVE TypeOK'
  <2>1. ASSUME NEW f \in Family PROVE BackEvidence[f] \in Statuses
    <3>1. <<"back", f>> \in {"back"} \X Family /\ <<"back", f>> \in Conn
      BY ConnFacts
    <3>2. client[<<"back", f>>] \notin {"dialing", "asked"}
      BY <1>16, <3>1 DEF SendEvidence, Settled
    <3>3. client[<<"back", f>>] \in {"idle", "pass", "fail"}
      BY <1>0, <3>1, <3>2 DEF TypeOK
    <3> QED
      BY <3>3 DEF BackEvidence, Statuses
  <2>2. BackEvidence \in [Family -> Statuses]
    BY <2>1 DEF BackEvidence
  <2>3. evidence' \in [End -> [Family -> Statuses]]
    BY <1>16, <1>0, <2>2 DEF SendEvidence, TypeOK, End
  <2> QED
    BY <1>16, <1>0, <2>3 DEF SendEvidence, TypeOK
<1>17. ASSUME Finish PROVE TypeOK'
  BY <1>17, <1>0 DEF Finish, RunEnds, TypeOK
<1>18. ASSUME RunFails PROVE TypeOK'
  BY <1>18, <1>0 DEF RunFails, RunEnds, TypeOK
<1>19. ASSUME CloseControl PROVE TypeOK'
  BY <1>19, <1>0 DEF CloseControl, TypeOK
<1>20. ASSUME RunCloses PROVE TypeOK'
  <2>1. PICK w \in {"owner", "context"} : BeginClose("listener", w)
    BY <1>20 DEF RunCloses
  <2>2. server' \in [End -> {"serving", "closing", "joined"}] /\ closer' \in [End -> {"nobody", "owner", "context"}]
    BY <1>0, <2>1 DEF TypeOK, BeginClose
  <2>3. doomed' \in [End -> SUBSET Conn]
    BY <1>0, <2>1 DEF TypeOK, BeginClose
  <2> QED
    BY <1>20, <1>0, <2>2, <2>3 DEF RunCloses, TypeOK
<1>21. ASSUME RunReturns PROVE TypeOK'
  BY <1>21, <1>0 DEF RunReturns, TypeOK
<1>22. ASSUME NEW f \in Family, DialControl(f) PROVE TypeOK'
  BY <1>22, <1>0 DEF DialControl, TypeOK
<1>23. ASSUME NEW f \in Family, Greeted(f) PROVE TypeOK'
  BY <1>23, <1>0 DEF Greeted, TypeOK
<1>24. ASSUME Report PROVE TypeOK'
  <2> DEFINE Seen == [f \in Family |-> IF f \in requests THEN client[<<"probe", f>>] ELSE "untested"]
  <2>1. evidence' = [evidence EXCEPT !["connector"] = Seen]
    BY <1>24 DEF Report
  <2>2. Seen \in [Family -> Statuses]
    <3>1. ASSUME NEW f \in Family PROVE Seen[f] \in Statuses
      <4>1. CASE f \in requests
        <5>1. connect = "probing" /\ <<"probe", f>> \in {"probe"} \X Family /\ <<"probe", f>> \in Conn
          BY <1>24, ConnFacts DEF Report
        <5>2. client[<<"probe", f>>] \notin {"dialing", "asked", "idle"}
          BY <1>24, <4>1, <5>1 DEF Report, Settled, IInv, BeforeProbes
        <5> QED
          BY <1>0, <4>1, <5>1, <5>2 DEF TypeOK, Statuses
      <4> QED
        BY <4>1 DEF Statuses
    <3> QED
      BY <3>1
  <2> HIDE DEF Seen
  <2>3. evidence' \in [End -> [Family -> Statuses]]
    BY <1>0, <2>1, <2>2 DEF TypeOK, End
  <2> QED
    BY <1>24, <1>0, <2>3 DEF Report, TypeOK
<1>25. ASSUME ReadAnswer PROVE TypeOK'
  BY <1>25, <1>0 DEF ReadAnswer, ConnectEnds, TypeOK
<1>26. ASSUME SayDone PROVE TypeOK'
  BY <1>26, <1>0 DEF SayDone, ConnectEnds, TypeOK
<1>27. ASSUME ConnectFails PROVE TypeOK'
  BY <1>27, <1>0 DEF ConnectFails, ConnectEnds, TypeOK
<1>28. ASSUME ConnectCloses PROVE TypeOK'
  <2>1. PICK w \in {"owner", "context"} : BeginClose("connector", w)
    BY <1>28 DEF ConnectCloses
  <2>2. server' \in [End -> {"serving", "closing", "joined"}] /\ closer' \in [End -> {"nobody", "owner", "context"}]
    BY <1>0, <2>1 DEF TypeOK, BeginClose
  <2>3. doomed' \in [End -> SUBSET Conn]
    BY <1>0, <2>1 DEF TypeOK, BeginClose
  <2> QED
    BY <1>28, <1>0, <2>2, <2>3 DEF ConnectCloses, TypeOK
<1>29. ASSUME ConnectReturns PROVE TypeOK'
  BY <1>29, <1>0 DEF ConnectReturns, TypeOK
<1>30. ASSUME Stutters PROVE TypeOK'
  BY <1>30, <1>0 DEF Stutters, vars, TypeOK
<1> QED
  BY <1>1, <1>2, <1>3, <1>4, <1>5, <1>6, <1>7, <1>8, <1>9, <1>10, <1>11, <1>12, <1>13, 
     <1>14, <1>15, <1>16, <1>17, <1>18, <1>19, <1>20, <1>21, <1>22, <1>23, <1>24, <1>25, 
     <1>26, <1>27, <1>28, <1>29, <1>30, Steps

\* How the dialing side of a connection moves.
Moved(c) ==
  \/ client'[c] = client[c]
  \/ client[c] \in {"dialing", "asked"} /\ client'[c] \in {"asked", "pass", "fail"}
  \/ c[1] = "back" /\ run = "verified" /\ run' = "probing" /\ client'[c] = "dialing"
  \/ c[1] = "probe" /\ c[2] \in requests /\ connect = "greeting" /\ connect' = "probing"
       /\ client'[c] = "dialing"
  \/ c[1] = "hello" /\ c[2] \in requests /\ client'[c] = "dialing"

\* One dialing side moves.
Advances(c) ==
  \/ UNCHANGED client
  \/ client' = [client EXCEPT ![c] = IF @ \in {"dialing", "asked"} THEN "fail" ELSE @]
  \/ client' = [client EXCEPT ![c] = IF @ = "asked" THEN "pass" ELSE @]
  \/ client[c] = "dialing" /\ client' = [client EXCEPT ![c] = "asked"]

LEMMA Advance ==
  ASSUME TypeOK, NEW c, Advances(c)
  PROVE  \A d \in Conn : Moved(d) /\ (d # c => client'[d] = client[d])
<1> SUFFICES ASSUME NEW d \in Conn
             PROVE  /\ \/ client'[d] = client[d]
                       \/ client[d] \in {"dialing", "asked"} /\ client'[d] \in {"asked", "pass", "fail"}
                    /\ d # c => client'[d] = client[d]
  BY DEF Moved
<1>1. client \in [Conn -> ClientStates]
  BY DEF TypeOK, ClientStates
<1>2. CASE UNCHANGED client
  BY <1>2
<1>3. CASE client' = [client EXCEPT ![c] = IF @ \in {"dialing", "asked"} THEN "fail" ELSE @]
  BY <1>1, <1>3
<1>4. CASE client' = [client EXCEPT ![c] = IF @ = "asked" THEN "pass" ELSE @]
  BY <1>1, <1>4
<1>5. CASE client[c] = "dialing" /\ client' = [client EXCEPT ![c] = "asked"]
  BY <1>1, <1>5
<1> QED
  BY <1>2, <1>3, <1>4, <1>5 DEF Advances

\* A dialing side waits, is answered or fails; a new dial begins when Run or Connect says so.
LEMMA ClientMoves ==
  ASSUME IInv, [Next]_vars
  PROVE  \A c \in Conn : Moved(c)
<1> USE DEF started, serverVars, connVars, runVars
<1>0. TypeOK
  BY DEF IInv
<1>1. ASSUME NEW c \in Conn, ClientFails(c) PROVE \A k \in Conn : Moved(k)
  <2>1. client' = [client EXCEPT ![c] = IF @ \in {"dialing", "asked"} THEN "fail" ELSE @]
    BY <1>1 DEF ClientFails
  <2> QED
    BY <1>0, <2>1, Advance DEF Advances
<1>2. ASSUME NEW c \in Conn, Accept(c) PROVE \A k \in Conn : Moved(k)
  <2>1. Advances(c)
    BY <1>2 DEF Advances, Accept, Drops
  <2> QED
    BY <1>0, <2>1, Advance
<1>3. ASSUME NEW c \in Conn, HandlerFails(c) PROVE \A k \in Conn : Moved(k)
  <2>1. Advances(c)
    BY <1>3 DEF Advances, HandlerFails, Drops
  <2> QED
    BY <1>0, <2>1, Advance
<1>4. ASSUME NEW c \in Conn, Serve(c) PROVE \A k \in Conn : Moved(k)
  <2>1. Advances(c)
    BY <1>4 DEF Advances, Serve, Reads, Keeps, Drops
  <2> QED
    BY <1>0, <2>1, Advance
<1>5. ASSUME NEW c \in Conn, Answer(c) PROVE \A k \in Conn : Moved(k)
  <2>1. Advances(c)
    BY <1>5 DEF Advances, Answer, Delivered, Drops
  <2> QED
    BY <1>0, <2>1, Advance
<1>6. ASSUME NEW c \in Conn, ServeHello(c) PROVE \A k \in Conn : Moved(k)
  <2>1. Advances(c)
    BY <1>6 DEF Advances, ServeHello, Reads, Keeps, Drops
  <2> QED
    BY <1>0, <2>1, Advance
<1>7. ASSUME NEW c \in Conn, HandOver(c) PROVE \A k \in Conn : Moved(k)
  <2>1. Advances(c)
    BY <1>7 DEF Advances, HandOver, Drops
  <2> QED
    BY <1>0, <2>1, Advance
<1>8. ASSUME NEW e \in End, ContextEnds(e) PROVE \A c \in Conn : Moved(c)
  BY <1>8, <1>0 DEF ContextEnds, BeginClose, Moved
<1>9. ASSUME NEW e \in End, CloseAndJoin(e) PROVE \A c \in Conn : Moved(c)
  BY <1>9, <1>0 DEF CloseAndJoin, Moved
<1>10. ASSUME Expires PROVE \A c \in Conn : Moved(c)
  BY <1>10, <1>0 DEF Expires, Moved
<1>11. ASSUME ExpiryCloses PROVE \A c \in Conn : Moved(c)
  BY <1>11, <1>0 DEF ExpiryCloses, BeginClose, Moved
<1>12. ASSUME TakeControl PROVE \A c \in Conn : Moved(c)
  BY <1>12, <1>0 DEF TakeControl, Moved
<1>13. ASSUME Greet PROVE \A c \in Conn : Moved(c)
  <2>1. Advances(control)
    BY <1>13 DEF Advances, Greet, Delivered
  <2> QED
    BY <1>0, <2>1, Advance
<1>14. ASSUME ReadEvidence PROVE \A c \in Conn : Moved(c)
  BY <1>14, <1>0 DEF ReadEvidence, RunEnds, Moved
<1>15. ASSUME ProbeBack PROVE \A c \in Conn : Moved(c)
  <2> SUFFICES ASSUME NEW d \in Conn PROVE Moved(d)
    OBVIOUS
  <2>1. PICK S : client' = [c \in Conn |-> IF c[1] = "back" /\ c[2] \in S THEN "dialing" ELSE client[c]]
    BY <1>15 DEF ProbeBack
  <2>2. run = "verified" /\ run' = "probing"
    BY <1>15 DEF ProbeBack
  <2> QED
    BY <2>1, <2>2 DEF Moved
<1>16. ASSUME SendEvidence PROVE \A c \in Conn : Moved(c)
  BY <1>16, <1>0 DEF SendEvidence, Moved
<1>17. ASSUME Finish PROVE \A c \in Conn : Moved(c)
  BY <1>17, <1>0 DEF Finish, RunEnds, Moved
<1>18. ASSUME RunFails PROVE \A c \in Conn : Moved(c)
  BY <1>18, <1>0 DEF RunFails, RunEnds, Moved
<1>19. ASSUME CloseControl PROVE \A c \in Conn : Moved(c)
  BY <1>19, <1>0 DEF CloseControl, Moved
<1>20. ASSUME RunCloses PROVE \A c \in Conn : Moved(c)
  BY <1>20, <1>0 DEF RunCloses, BeginClose, Moved
<1>21. ASSUME RunReturns PROVE \A c \in Conn : Moved(c)
  BY <1>21, <1>0 DEF RunReturns, Moved
<1>22. ASSUME NEW f \in Family, DialControl(f) PROVE \A c \in Conn : Moved(c)
  <2> SUFFICES ASSUME NEW d \in Conn PROVE Moved(d)
    OBVIOUS
  <2>1. client' = [client EXCEPT ![Hello(f)] = "dialing"] /\ f \in requests
    BY <1>22 DEF DialControl, Untried
  <2>2. Hello(f)[1] = "hello" /\ Hello(f)[2] = f /\ Hello(f) \in Conn
    BY ConnFacts DEF Hello
  <2> QED
    BY <1>0, <2>1, <2>2 DEF Moved, TypeOK
<1>23. ASSUME NEW f \in Family, Greeted(f) PROVE \A c \in Conn : Moved(c)
  <2> SUFFICES ASSUME NEW d \in Conn PROVE Moved(d)
    OBVIOUS
  <2> QED
    BY <1>23 DEF Greeted, Moved
<1>24. ASSUME Report PROVE \A c \in Conn : Moved(c)
  BY <1>24, <1>0 DEF Report, Moved
<1>25. ASSUME ReadAnswer PROVE \A c \in Conn : Moved(c)
  BY <1>25, <1>0 DEF ReadAnswer, ConnectEnds, Moved
<1>26. ASSUME SayDone PROVE \A c \in Conn : Moved(c)
  BY <1>26, <1>0 DEF SayDone, ConnectEnds, Moved
<1>27. ASSUME ConnectFails PROVE \A c \in Conn : Moved(c)
  BY <1>27, <1>0 DEF ConnectFails, ConnectEnds, Moved
<1>28. ASSUME ConnectCloses PROVE \A c \in Conn : Moved(c)
  BY <1>28, <1>0 DEF ConnectCloses, BeginClose, Moved
<1>29. ASSUME ConnectReturns PROVE \A c \in Conn : Moved(c)
  BY <1>29, <1>0 DEF ConnectReturns, Moved
<1>30. ASSUME Stutters PROVE \A c \in Conn : Moved(c)
  BY <1>30, <1>0 DEF Stutters, vars, Moved
<1> QED
  BY <1>1, <1>2, <1>3, <1>4, <1>5, <1>6, <1>7, <1>8, <1>9, <1>10, <1>11, <1>12, <1>13, 
     <1>14, <1>15, <1>16, <1>17, <1>18, <1>19, <1>20, <1>21, <1>22, <1>23, <1>24, <1>25, 
     <1>26, <1>27, <1>28, <1>29, <1>30, Steps

Early == {"waiting", "greeting", "reading", "verified"}

\* The phases Run and Connect leave they do not enter again, and each sends its
\* evidence once.
Phased ==
  /\ requests' = requests
  /\ connect' = "greeting" => connect = "greeting"
  /\ connect' = "probing" => connect = "probing" \/ \E f \in Family : Greeted(f)
  /\ run' \in Early => run \in Early
  /\ evidence' = evidence \/ SendEvidence \/ Report

\* Every step is one of them.
LEMMA PhasesKept ==
  ASSUME IInv, [Next]_vars
  PROVE  Phased
<1> USE DEF started, serverVars, connVars, runVars
<1>1. ASSUME NEW c \in Conn, ClientFails(c) PROVE Phased
  BY <1>1 DEF ClientFails, Phased, Early
<1>2. ASSUME NEW c \in Conn, Accept(c) PROVE Phased
  BY <1>2 DEF Accept, Drops, Ends, Phased, Early
<1>3. ASSUME NEW c \in Conn, HandlerFails(c) PROVE Phased
  BY <1>3 DEF HandlerFails, Drops, Ends, Phased, Early
<1>4. ASSUME NEW c \in Conn, Serve(c) PROVE Phased
  BY <1>4 DEF Serve, Reads, Keeps, Drops, Ends, Phased, Early
<1>5. ASSUME NEW c \in Conn, Answer(c) PROVE Phased
  BY <1>5 DEF Answer, Drops, Ends, Delivered, Phased, Early
<1>6. ASSUME NEW c \in Conn, ServeHello(c) PROVE Phased
  BY <1>6 DEF ServeHello, Reads, Keeps, Drops, Ends, Phased, Early
<1>7. ASSUME NEW c \in Conn, HandOver(c) PROVE Phased
  BY <1>7 DEF HandOver, Drops, Ends, Phased, Early
<1>8. ASSUME NEW e \in End, ContextEnds(e) PROVE Phased
  BY <1>8 DEF ContextEnds, BeginClose, Phased, Early
<1>9. ASSUME NEW e \in End, CloseAndJoin(e) PROVE Phased
  BY <1>9 DEF CloseAndJoin, Phased, Early
<1>10. ASSUME Expires PROVE Phased
  BY <1>10 DEF Expires, Phased, Early
<1>11. ASSUME ExpiryCloses PROVE Phased
  BY <1>11 DEF ExpiryCloses, BeginClose, Phased, Early
<1>12. ASSUME TakeControl PROVE Phased
  BY <1>12 DEF TakeControl, Phased, Early
<1>13. ASSUME Greet PROVE Phased
  BY <1>13 DEF Greet, Delivered, Phased, Early
<1>14. ASSUME ReadEvidence PROVE Phased
  BY <1>14 DEF ReadEvidence, RunEnds, Phased, Early
<1>15. ASSUME ProbeBack PROVE Phased
  BY <1>15 DEF ProbeBack, Phased, Early
<1>16. ASSUME SendEvidence PROVE Phased
  <2>1. run' = "finishing" /\ connect' = connect /\ requests' = requests
    BY <1>16 DEF SendEvidence
  <2> QED
    BY <1>16, <2>1 DEF Phased, Early
<1>17. ASSUME Finish PROVE Phased
  BY <1>17 DEF Finish, RunEnds, Phased, Early
<1>18. ASSUME RunFails PROVE Phased
  BY <1>18 DEF RunFails, RunEnds, Phased, Early
<1>19. ASSUME CloseControl PROVE Phased
  BY <1>19 DEF CloseControl, Phased, Early
<1>20. ASSUME RunCloses PROVE Phased
  BY <1>20 DEF RunCloses, BeginClose, Phased, Early
<1>21. ASSUME RunReturns PROVE Phased
  BY <1>21 DEF RunReturns, Phased, Early
<1>22. ASSUME NEW f \in Family, DialControl(f) PROVE Phased
  BY <1>22 DEF DialControl, Phased, Early
<1>23. ASSUME NEW f \in Family, Greeted(f) PROVE Phased
  <2>1. connect' = "probing" /\ run' = run /\ requests' = requests /\ evidence' = evidence
    BY <1>23 DEF Greeted
  <2> QED
    BY <1>23, <2>1 DEF Phased, Early
<1>24. ASSUME Report PROVE Phased
  <2>1. connect' = "awaiting" /\ run' = run /\ requests' = requests
    BY <1>24 DEF Report
  <2> QED
    BY <1>24, <2>1 DEF Phased, Early
<1>25. ASSUME ReadAnswer PROVE Phased
  BY <1>25 DEF ReadAnswer, ConnectEnds, Phased, Early
<1>26. ASSUME SayDone PROVE Phased
  BY <1>26 DEF SayDone, ConnectEnds, Phased, Early
<1>27. ASSUME ConnectFails PROVE Phased
  BY <1>27 DEF ConnectFails, ConnectEnds, Phased, Early
<1>28. ASSUME ConnectCloses PROVE Phased
  BY <1>28 DEF ConnectCloses, BeginClose, Phased, Early
<1>29. ASSUME ConnectReturns PROVE Phased
  BY <1>29 DEF ConnectReturns, Phased, Early
<1>30. ASSUME Stutters PROVE Phased
  BY <1>30 DEF Stutters, vars, Phased, Early
<1> QED
  BY <1>1, <1>2, <1>3, <1>4, <1>5, <1>6, <1>7, <1>8, <1>9, <1>10, <1>11, <1>12, <1>13, 
     <1>14, <1>15, <1>16, <1>17, <1>18, <1>19, <1>20, <1>21, <1>22, <1>23, <1>24, <1>25, 
     <1>26, <1>27, <1>28, <1>29, <1>30, Steps

\* Nobody dials before its time.
LEMMA BeforeProbesKept ==
  ASSUME IInv, [Next]_vars
  PROVE  BeforeProbes'
<1>0. TypeOK /\ BeforeProbes /\ SentIsSeen /\ Phased /\ \A c \in Conn : Moved(c)
  BY ClientMoves, PhasesKept DEF IInv
<1>1. ASSUME connect' = "greeting", NEW f \in Family PROVE client'[<<"probe", f>>] = "idle"
  <2>1. connect = "greeting" /\ Moved(<<"probe", f>>) /\ client[<<"probe", f>>] = "idle"
    BY <1>0, <1>1, ConnFacts DEF Phased, BeforeProbes
  <2> QED
    BY <1>1, <2>1 DEF Moved
<1>2. ASSUME connect' = "probing"
      PROVE  requests' # {} /\ \A f \in requests' : client'[<<"probe", f>>] # "idle"
  <2>0. requests' = requests /\ requests \subseteq Family
    BY <1>0 DEF Phased, TypeOK
  <2>1. CASE connect = "probing"
    <3>1. requests # {} /\ \A f \in requests : client[<<"probe", f>>] # "idle"
      BY <1>0, <2>1 DEF BeforeProbes
    <3>2. \A f \in requests : Moved(<<"probe", f>>)
      BY <1>0, <2>0, ConnFacts
    <3> QED
      BY <2>0, <3>1, <3>2 DEF Moved
  <2>2. CASE \E f \in Family : Greeted(f)
    <3>1. PICK f \in Family : Greeted(f)
      BY <2>2
    <3>2. f \in requests
      BY <1>0, <3>1 DEF Greeted, SentIsSeen
    <3>3. client' = [c \in Conn |-> IF c[1] = "probe" /\ c[2] \in requests THEN "dialing" ELSE client[c]]
      BY <3>1 DEF Greeted
    <3>4. \A g \in requests : client'[<<"probe", g>>] = "dialing"
      BY <2>0, <3>3, ConnFacts
    <3> QED
      BY <2>0, <3>2, <3>4
  <2> QED
    BY <1>0, <1>2, <2>1, <2>2 DEF Phased
<1>3. ASSUME run' \in Early
      PROVE  evidence'["listener"] = NotSent /\ \A f \in Family : client'[<<"back", f>>] = "idle"
  <2>1. /\ run \in Early /\ evidence["listener"] = NotSent
        /\ \A f \in Family : client[<<"back", f>>] = "idle" /\ Moved(<<"back", f>>)
    BY <1>0, <1>3, ConnFacts DEF Phased, BeforeProbes, Early
  <2>2. evidence'["listener"] = evidence["listener"]
    <3>1. CASE SendEvidence
      BY <3>1, <2>1 DEF SendEvidence, Early
    <3>2. CASE Report
      BY <3>2, <1>0 DEF Report, TypeOK, End
    <3> QED
      BY <1>0, <3>1, <3>2 DEF Phased
  <2> QED
    BY <1>3, <2>1, <2>2 DEF Moved, Early
<1> QED
  BY <1>1, <1>2, <1>3 DEF BeforeProbes, Early

\* An answer that was sent is not taken back.
LEMMA SentIsSeenKept ==
  ASSUME IInv, [Next]_vars
  PROVE  SentIsSeen'
<1>0. TypeOK /\ BeforeProbes /\ SentIsSeen /\ Phased /\ \A c \in Conn : Moved(c)
  BY ClientMoves, PhasesKept DEF IInv
<1> SUFFICES ASSUME NEW f \in Family
             PROVE  /\ evidence'["connector"][f] = "pass" => client'[<<"probe", f>>] = "pass"
                    /\ evidence'["connector"][f] # "na"
                    /\ evidence'["listener"][f] = "pass" => client'[<<"back", f>>] = "pass"
                    /\ evidence'["listener"][f] = "na" => client'[<<"back", f>>] = "idle"
                    /\ client'[Hello(f)] # "idle" => f \in requests'
  BY DEF SentIsSeen
<1>1. /\ Moved(<<"probe", f>>) /\ Moved(<<"back", f>>) /\ Moved(Hello(f))
      /\ requests' = requests
      /\ evidence["connector"][f] = "pass" => client[<<"probe", f>>] = "pass"
      /\ evidence["connector"][f] # "na"
      /\ evidence["listener"][f] = "pass" => client[<<"back", f>>] = "pass"
      /\ evidence["listener"][f] = "na" => client[<<"back", f>>] = "idle"
      /\ client[Hello(f)] # "idle" => f \in requests
  BY <1>0, ConnFacts DEF SentIsSeen, Phased
<1>2. client'[Hello(f)] # "idle" => f \in requests'
  BY <1>1 DEF Moved, Hello
<1>3. client[<<"probe", f>>] = "pass" => client'[<<"probe", f>>] = "pass"
  <2>1. connect = "greeting" => client[<<"probe", f>>] = "idle"
    BY <1>0 DEF BeforeProbes
  <2> QED
    BY <1>1, <2>1 DEF Moved
<1>4. client[<<"back", f>>] = "pass" => client'[<<"back", f>>] = "pass"
  <2>1. run = "verified" => client[<<"back", f>>] = "idle"
    BY <1>0 DEF BeforeProbes
  <2> QED
    BY <1>1, <2>1 DEF Moved
<1>5. CASE evidence' = evidence
  <2>1. client[<<"back", f>>] = "idle" /\ run # "verified" => client'[<<"back", f>>] = "idle"
    BY <1>1 DEF Moved
  <2>2. evidence["listener"][f] = "na" => run # "verified"
    <3>1. NotSent[f] = "untested"
      BY DEF NotSent
    <3> QED
      BY <1>0, <3>1 DEF BeforeProbes
  <2> QED
    BY <1>1, <1>2, <1>3, <1>4, <1>5, <2>1, <2>2
<1>6. CASE SendEvidence
  <2>1. /\ evidence'["connector"] = evidence["connector"] /\ evidence'["listener"] = BackEvidence
        /\ client' = client
    BY <1>0, <1>6 DEF SendEvidence, TypeOK, End, started, serverVars, connVars
  <2>2. BackEvidence[f] \in {"untested", "na"} \/ BackEvidence[f] = client[<<"back", f>>]
    BY DEF BackEvidence
  <2>3. BackEvidence[f] = "na" => client[<<"back", f>>] \in {"idle", "na"}
    BY DEF BackEvidence
  <2>4. client[<<"back", f>>] # "na"
    BY <1>0, ConnFacts DEF TypeOK
  <2> QED
    BY <1>1, <1>2, <2>1, <2>2, <2>3, <2>4
<1>7. CASE Report
  <2>1. /\ evidence'["listener"] = evidence["listener"]
        /\ evidence'["connector"] = [g \in Family |-> IF g \in requests THEN client[<<"probe", g>>] ELSE "untested"]
        /\ client' = client
    BY <1>0, <1>7 DEF Report, TypeOK, End, started, serverVars, connVars
  <2>2. client[<<"probe", f>>] # "na"
    BY <1>0, ConnFacts DEF TypeOK
  <2> QED
    BY <1>1, <1>2, <2>1, <2>2
<1> QED
  BY <1>0, <1>5, <1>6, <1>7 DEF Phased

\* A probe is answered after it was entered, and an entry is withdrawn with the answer.
LEMMA WitnessedKept ==
  ASSUME IInv, [Next]_vars
  PROVE  Witnessed'
<1> USE DEF started, serverVars, connVars, runVars
<1>0. TypeOK /\ Witnessed /\ Controls /\ BeforeProbes
  BY DEF IInv
<1>a. UNCHANGED <<handler, client, inbound>> => Witnessed'
  BY <1>0 DEF Witnessed, Consistent
<1>1. ASSUME NEW c \in Conn, ClientFails(c) PROVE Witnessed'
  <2> SUFFICES ASSUME NEW e \in End, NEW f \in Family
               PROVE  Consistent(f \in inbound'[e], handler'[ProbeOf(e, f)], client'[ProbeOf(e, f)])
    BY DEF Witnessed
  <2>1. /\ Consistent(f \in inbound[e], handler[ProbeOf(e, f)], client[ProbeOf(e, f)])
        /\ ProbeOf(e, f) \in Conn /\ ServerOf(ProbeOf(e, f)) = e /\ ~IsControl(ProbeOf(e, f))
        /\ ProbeOf(e, f)[2] = f
    BY <1>0, ConnFacts DEF Witnessed
  <2>2. CASE c # ProbeOf(e, f)
    <3>1. handler'[ProbeOf(e, f)] = handler[ProbeOf(e, f)] /\ client'[ProbeOf(e, f)] = client[ProbeOf(e, f)]
      BY <1>1, <1>0, <2>1, <2>2, DropFacts DEF ClientFails, TypeOK
    <3>2. f \in inbound'[e] <=> f \in inbound[e]
      BY <1>1 DEF ClientFails
    <3> QED
      BY <2>1, <3>1, <3>2
  <2>3. CASE c = ProbeOf(e, f)
    <3>1. /\ client[c] \in {"dialing", "asked"} /\ client'[c] = "fail"
          /\ handler' = handler /\ inbound' = inbound
      BY <1>1, <1>0 DEF ClientFails, TypeOK
    <3> QED
      BY <2>1, <2>3, <3>1 DEF Consistent
  <2> QED
    BY <2>2, <2>3
<1>2. ASSUME NEW c \in Conn, Accept(c) PROVE Witnessed'
  <2> SUFFICES ASSUME NEW e \in End, NEW f \in Family
               PROVE  Consistent(f \in inbound'[e], handler'[ProbeOf(e, f)], client'[ProbeOf(e, f)])
    BY DEF Witnessed
  <2>1. /\ Consistent(f \in inbound[e], handler[ProbeOf(e, f)], client[ProbeOf(e, f)])
        /\ ProbeOf(e, f) \in Conn /\ ServerOf(ProbeOf(e, f)) = e /\ ~IsControl(ProbeOf(e, f))
        /\ ProbeOf(e, f)[2] = f
    BY <1>0, ConnFacts DEF Witnessed
  <2>2. CASE c # ProbeOf(e, f)
    <3>1. handler'[ProbeOf(e, f)] = handler[ProbeOf(e, f)] /\ client'[ProbeOf(e, f)] = client[ProbeOf(e, f)]
      BY <1>2, <1>0, <2>1, <2>2, DropFacts DEF Accept, TypeOK
    <3>2. f \in inbound'[e] <=> f \in inbound[e]
      BY <1>2 DEF Accept
    <3> QED
      BY <2>1, <3>1, <3>2
  <2>3. CASE c = ProbeOf(e, f)
    <3>1. client[c] = "dialing" /\ inbound' = inbound
      BY <1>2 DEF Accept
    <3>2. \/ handler'[c] = "accepted" /\ client'[c] = "dialing"
          \/ handler'[c] = "gone" /\ client'[c] = "fail"
      BY <1>2, <1>0, <3>1, DropFacts DEF Accept, TypeOK
    <3> QED
      BY <2>1, <2>3, <3>1, <3>2 DEF Consistent
  <2> QED
    BY <2>2, <2>3
<1>3. ASSUME NEW c \in Conn, HandlerFails(c) PROVE Witnessed'
  <2> SUFFICES ASSUME NEW e \in End, NEW f \in Family
               PROVE  Consistent(f \in inbound'[e], handler'[ProbeOf(e, f)], client'[ProbeOf(e, f)])
    BY DEF Witnessed
  <2>1. /\ Consistent(f \in inbound[e], handler[ProbeOf(e, f)], client[ProbeOf(e, f)])
        /\ ProbeOf(e, f) \in Conn /\ ServerOf(ProbeOf(e, f)) = e /\ ~IsControl(ProbeOf(e, f))
        /\ ProbeOf(e, f)[2] = f
    BY <1>0, ConnFacts DEF Witnessed
  <2>2. CASE c # ProbeOf(e, f)
    <3>1. handler'[ProbeOf(e, f)] = handler[ProbeOf(e, f)] /\ client'[ProbeOf(e, f)] = client[ProbeOf(e, f)]
      BY <1>3, <1>0, <2>1, <2>2, DropFacts DEF HandlerFails, TypeOK
    <3>2. f \in inbound'[e] <=> f \in inbound[e]
      BY <1>3 DEF HandlerFails
    <3> QED
      BY <2>1, <3>1, <3>2
  <2>3. CASE c = ProbeOf(e, f)
    <3>1. handler[c] = "accepted" /\ inbound' = inbound
      BY <1>3 DEF HandlerFails
    <3>2. /\ handler'[c] = "gone"
          /\ client'[c] = IF client[c] \in {"dialing", "asked"} THEN "fail" ELSE client[c]
      BY <1>3, <1>0, DropFacts DEF HandlerFails
    <3> QED
      BY <2>1, <2>3, <3>1, <3>2 DEF Consistent
  <2> QED
    BY <2>2, <2>3
<1>4. ASSUME NEW c \in Conn, Serve(c) PROVE Witnessed'
  <2> SUFFICES ASSUME NEW e \in End, NEW f \in Family
               PROVE  Consistent(f \in inbound'[e], handler'[ProbeOf(e, f)], client'[ProbeOf(e, f)])
    BY DEF Witnessed
  <2>1. /\ Consistent(f \in inbound[e], handler[ProbeOf(e, f)], client[ProbeOf(e, f)])
        /\ ProbeOf(e, f) \in Conn /\ ServerOf(ProbeOf(e, f)) = e /\ ~IsControl(ProbeOf(e, f))
        /\ ProbeOf(e, f)[2] = f
    BY <1>0, ConnFacts DEF Witnessed
  <2>2. CASE c # ProbeOf(e, f)
    <3>1. handler'[ProbeOf(e, f)] = handler[ProbeOf(e, f)] /\ client'[ProbeOf(e, f)] = client[ProbeOf(e, f)]
      BY <1>4, <1>0, <2>1, <2>2, DropFacts DEF Serve, Reads, Keeps, TypeOK
    <3>2. f \in inbound'[e] <=> f \in inbound[e]
      <4>1. \/ inbound' = inbound
            \/ inbound' = [inbound EXCEPT ![ServerOf(c)] = @ \cup {c[2]}]
        BY <1>4 DEF Serve
      <4>2. c[2] \in Family /\ c = ProbeOf(ServerOf(c), c[2]) /\ ServerOf(c) \in End
        BY <1>4, <1>0, ConnFacts DEF Serve, Reads, IsControl, Controls
      <4> QED
        BY <1>0, <2>2, <4>1, <4>2 DEF TypeOK
    <3> QED
      BY <2>1, <3>1, <3>2
  <2>3. CASE c = ProbeOf(e, f)
    <3>1. client[c] = "dialing" /\ handler[c] = "accepted"
      BY <1>4 DEF Serve, Reads
    <3>2. \/ /\ handler'[c] = "claimed" /\ client'[c] = "asked"
             /\ inbound' = [inbound EXCEPT ![ServerOf(c)] = @ \cup {c[2]}]
          \/ handler'[c] = "gone" /\ client'[c] = "fail" /\ inbound' = inbound
      BY <1>4, <1>0, <3>1, DropFacts DEF Serve, Keeps, TypeOK
    <3>3. f \in inbound'[e] <=> (handler'[c] = "claimed" \/ f \in inbound[e])
      BY <1>0, <2>1, <2>3, <3>2 DEF TypeOK
    <3> QED
      BY <2>1, <2>3, <3>1, <3>2, <3>3 DEF Consistent
  <2> QED
    BY <2>2, <2>3
<1>5. ASSUME NEW c \in Conn, Answer(c) PROVE Witnessed'
  <2> SUFFICES ASSUME NEW e \in End, NEW f \in Family
               PROVE  Consistent(f \in inbound'[e], handler'[ProbeOf(e, f)], client'[ProbeOf(e, f)])
    BY DEF Witnessed
  <2>1. /\ Consistent(f \in inbound[e], handler[ProbeOf(e, f)], client[ProbeOf(e, f)])
        /\ ProbeOf(e, f) \in Conn /\ ServerOf(ProbeOf(e, f)) = e /\ ~IsControl(ProbeOf(e, f))
        /\ ProbeOf(e, f)[2] = f
    BY <1>0, ConnFacts DEF Witnessed
  <2>2. CASE c # ProbeOf(e, f)
    <3>1. handler'[ProbeOf(e, f)] = handler[ProbeOf(e, f)] /\ client'[ProbeOf(e, f)] = client[ProbeOf(e, f)]
      BY <1>5, <1>0, <2>1, <2>2, DropFacts DEF Answer, Ends, Delivered, TypeOK
    <3>2. f \in inbound'[e] <=> f \in inbound[e]
      <4>1. \/ inbound' = inbound
            \/ inbound' = [inbound EXCEPT ![ServerOf(c)] = @ \ {c[2]}]
        BY <1>5 DEF Answer
      <4>2. ServerOf(c) = e /\ c[2] = f => c = ProbeOf(e, f)
        BY <1>5, <1>0, ConnFacts DEF Answer, Controls
      <4> QED
        BY <1>0, <2>2, <4>1, <4>2 DEF TypeOK
    <3> QED
      BY <2>1, <3>1, <3>2
  <2>3. CASE c = ProbeOf(e, f)
    <3>1. handler[c] = "claimed" /\ handler'[c] = "gone"
      BY <1>5, <1>0, DropFacts DEF Answer, Ends, TypeOK
    <3>2. \/ /\ inbound' = inbound
             /\ client'[c] = IF client[c] = "asked" THEN "pass" ELSE client[c]
          \/ /\ inbound' = [inbound EXCEPT ![ServerOf(c)] = @ \ {c[2]}]
             /\ client'[c] = IF client[c] \in {"dialing", "asked"} THEN "fail" ELSE client[c]
      BY <1>5, <1>0, DropFacts DEF Answer, Delivered, TypeOK
    <3>3. CASE /\ inbound' = inbound
               /\ client'[c] = IF client[c] = "asked" THEN "pass" ELSE client[c]
      BY <2>1, <2>3, <3>1, <3>3 DEF Consistent
    <3>4. CASE /\ inbound' = [inbound EXCEPT ![ServerOf(c)] = @ \ {c[2]}]
               /\ client'[c] = IF client[c] \in {"dialing", "asked"} THEN "fail" ELSE client[c]
      <4>1. f \notin inbound'[e]
        BY <1>0, <2>1, <2>3, <3>4 DEF TypeOK
      <4> QED
        BY <2>1, <2>3, <3>1, <3>4, <4>1 DEF Consistent
    <3> QED
      BY <3>2, <3>3, <3>4
  <2> QED
    BY <2>2, <2>3
<1>6. ASSUME NEW c \in Conn, ServeHello(c) PROVE Witnessed'
  <2> SUFFICES ASSUME NEW e \in End, NEW f \in Family
               PROVE  Consistent(f \in inbound'[e], handler'[ProbeOf(e, f)], client'[ProbeOf(e, f)])
    BY DEF Witnessed
  <2>1. /\ Consistent(f \in inbound[e], handler[ProbeOf(e, f)], client[ProbeOf(e, f)])
        /\ ProbeOf(e, f) \in Conn /\ ServerOf(ProbeOf(e, f)) = e /\ ~IsControl(ProbeOf(e, f))
        /\ ProbeOf(e, f)[2] = f
    BY <1>0, ConnFacts DEF Witnessed
  <2>2. CASE c # ProbeOf(e, f)
    <3>1. handler'[ProbeOf(e, f)] = handler[ProbeOf(e, f)] /\ client'[ProbeOf(e, f)] = client[ProbeOf(e, f)]
      BY <1>6, <1>0, <2>1, <2>2, DropFacts DEF ServeHello, Reads, Keeps, TypeOK
    <3>2. f \in inbound'[e] <=> f \in inbound[e]
      BY <1>6 DEF ServeHello
    <3> QED
      BY <2>1, <3>1, <3>2
  <2>3. CASE c = ProbeOf(e, f)
    <3>1. IsControl(c)
      BY <1>6 DEF ServeHello, Reads, IsControl
    <3> QED
      BY <2>1, <2>3, <3>1
  <2> QED
    BY <2>2, <2>3
<1>7. ASSUME NEW c \in Conn, HandOver(c) PROVE Witnessed'
  <2> SUFFICES ASSUME NEW e \in End, NEW f \in Family
               PROVE  Consistent(f \in inbound'[e], handler'[ProbeOf(e, f)], client'[ProbeOf(e, f)])
    BY DEF Witnessed
  <2>1. /\ Consistent(f \in inbound[e], handler[ProbeOf(e, f)], client[ProbeOf(e, f)])
        /\ ProbeOf(e, f) \in Conn /\ ServerOf(ProbeOf(e, f)) = e /\ ~IsControl(ProbeOf(e, f))
        /\ ProbeOf(e, f)[2] = f
    BY <1>0, ConnFacts DEF Witnessed
  <2>2. CASE c # ProbeOf(e, f)
    <3>1. handler'[ProbeOf(e, f)] = handler[ProbeOf(e, f)] /\ client'[ProbeOf(e, f)] = client[ProbeOf(e, f)]
      BY <1>7, <1>0, <2>1, <2>2, DropFacts DEF HandOver, TypeOK
    <3>2. f \in inbound'[e] <=> f \in inbound[e]
      BY <1>7 DEF HandOver
    <3> QED
      BY <2>1, <3>1, <3>2
  <2>3. CASE c = ProbeOf(e, f)
    <3>1. IsControl(c)
      BY <1>7, <1>0 DEF HandOver, Controls
    <3> QED
      BY <2>1, <2>3, <3>1
  <2> QED
    BY <2>2, <2>3
<1>8. ASSUME NEW e \in End, ContextEnds(e) PROVE Witnessed'
  BY <1>8, <1>a DEF ContextEnds, BeginClose
<1>9. ASSUME NEW e \in End, CloseAndJoin(e) PROVE Witnessed'
  BY <1>9, <1>a DEF CloseAndJoin
<1>10. ASSUME Expires PROVE Witnessed'
  BY <1>10, <1>a DEF Expires
<1>11. ASSUME ExpiryCloses PROVE Witnessed'
  BY <1>11, <1>a DEF ExpiryCloses, BeginClose
<1>12. ASSUME TakeControl PROVE Witnessed'
  BY <1>12, <1>a DEF TakeControl
<1>13. ASSUME Greet PROVE Witnessed'
  <2> SUFFICES ASSUME NEW e \in End, NEW f \in Family
               PROVE  Consistent(f \in inbound'[e], handler'[ProbeOf(e, f)], client'[ProbeOf(e, f)])
    BY DEF Witnessed
  <2>1. /\ Consistent(f \in inbound[e], handler[ProbeOf(e, f)], client[ProbeOf(e, f)])
        /\ ProbeOf(e, f) \in Conn /\ ServerOf(ProbeOf(e, f)) = e /\ ~IsControl(ProbeOf(e, f))
        /\ ProbeOf(e, f)[2] = f
    BY <1>0, ConnFacts DEF Witnessed
  <2>2. control # NoConn => IsControl(control)
    BY <1>0 DEF Controls
  <2>3. control # ProbeOf(e, f)
    BY <2>1, <2>2, ConnFacts
  <2>4. client' = [client EXCEPT ![control] = IF @ = "asked" THEN "pass" ELSE @]
    BY <1>13 DEF Greet, Delivered
  <2>5. client'[ProbeOf(e, f)] = client[ProbeOf(e, f)]
    BY <1>0, <2>1, <2>3, <2>4 DEF TypeOK
  <2>6. handler' = handler /\ inbound' = inbound
    BY <1>13 DEF Greet
  <2> QED
    BY <2>1, <2>5, <2>6
<1>14. ASSUME ReadEvidence PROVE Witnessed'
  BY <1>14, <1>a DEF ReadEvidence, RunEnds
<1>15. ASSUME ProbeBack PROVE Witnessed'
  <2> SUFFICES ASSUME NEW e \in End, NEW g \in Family
               PROVE  Consistent(g \in inbound'[e], handler'[ProbeOf(e, g)], client'[ProbeOf(e, g)])
    BY DEF Witnessed
  <2>1. /\ Consistent(g \in inbound[e], handler[ProbeOf(e, g)], client[ProbeOf(e, g)])
        /\ ProbeOf(e, g) \in Conn /\ ServerOf(ProbeOf(e, g)) = e /\ ~IsControl(ProbeOf(e, g))
        /\ ProbeOf(e, g)[2] = g
    BY <1>0, ConnFacts DEF Witnessed
  <2>2. handler' = handler /\ inbound' = inbound
    BY <1>15 DEF ProbeBack
  <2>3. \/ client'[ProbeOf(e, g)] = client[ProbeOf(e, g)]
        \/ client'[ProbeOf(e, g)] = "dialing" /\ ProbeOf(e, g)[1] = "back"
    BY <1>15, <2>1 DEF ProbeBack
  <2>4. ProbeOf(e, g)[1] = "back" => client[ProbeOf(e, g)] = "idle"
    BY <1>15, <1>0 DEF ProbeBack, BeforeProbes, ProbeOf, End
  <2> QED
    BY <2>1, <2>2, <2>3, <2>4 DEF Consistent
<1>16. ASSUME SendEvidence PROVE Witnessed'
  BY <1>16, <1>a DEF SendEvidence
<1>17. ASSUME Finish PROVE Witnessed'
  BY <1>17, <1>a DEF Finish, RunEnds
<1>18. ASSUME RunFails PROVE Witnessed'
  BY <1>18, <1>a DEF RunFails, RunEnds
<1>19. ASSUME CloseControl PROVE Witnessed'
  BY <1>19, <1>a DEF CloseControl
<1>20. ASSUME RunCloses PROVE Witnessed'
  BY <1>20, <1>a DEF RunCloses, BeginClose
<1>21. ASSUME RunReturns PROVE Witnessed'
  BY <1>21, <1>a DEF RunReturns
<1>22. ASSUME NEW f \in Family, DialControl(f) PROVE Witnessed'
  <2> SUFFICES ASSUME NEW e \in End, NEW g \in Family
               PROVE  Consistent(g \in inbound'[e], handler'[ProbeOf(e, g)], client'[ProbeOf(e, g)])
    BY DEF Witnessed
  <2>1. /\ Consistent(g \in inbound[e], handler[ProbeOf(e, g)], client[ProbeOf(e, g)])
        /\ ProbeOf(e, g) \in Conn /\ ServerOf(ProbeOf(e, g)) = e /\ ~IsControl(ProbeOf(e, g))
        /\ ProbeOf(e, g)[2] = g
    BY <1>0, ConnFacts DEF Witnessed
  <2>2. Hello(f) # ProbeOf(e, g)
    BY <2>1, ConnFacts
  <2>3. client' = [client EXCEPT ![Hello(f)] = "dialing"] /\ handler' = handler /\ inbound' = inbound
    BY <1>22 DEF DialControl
  <2>4. client'[ProbeOf(e, g)] = client[ProbeOf(e, g)]
    BY <1>0, <2>1, <2>2, <2>3 DEF TypeOK
  <2> QED
    BY <2>1, <2>3, <2>4
<1>23. ASSUME NEW f \in Family, Greeted(f) PROVE Witnessed'
  <2> SUFFICES ASSUME NEW e \in End, NEW g \in Family
               PROVE  Consistent(g \in inbound'[e], handler'[ProbeOf(e, g)], client'[ProbeOf(e, g)])
    BY DEF Witnessed
  <2>1. /\ Consistent(g \in inbound[e], handler[ProbeOf(e, g)], client[ProbeOf(e, g)])
        /\ ProbeOf(e, g) \in Conn /\ ServerOf(ProbeOf(e, g)) = e /\ ~IsControl(ProbeOf(e, g))
        /\ ProbeOf(e, g)[2] = g
    BY <1>0, ConnFacts DEF Witnessed
  <2>2. handler' = handler /\ inbound' = inbound
    BY <1>23 DEF Greeted
  <2>3. \/ client'[ProbeOf(e, g)] = client[ProbeOf(e, g)]
        \/ client'[ProbeOf(e, g)] = "dialing" /\ ProbeOf(e, g)[1] = "probe"
    BY <1>23, <2>1 DEF Greeted
  <2>4. ProbeOf(e, g)[1] = "probe" => client[ProbeOf(e, g)] = "idle"
    BY <1>23, <1>0 DEF Greeted, BeforeProbes, ProbeOf, End
  <2> QED
    BY <2>1, <2>2, <2>3, <2>4 DEF Consistent
<1>24. ASSUME Report PROVE Witnessed'
  BY <1>24, <1>a DEF Report
<1>25. ASSUME ReadAnswer PROVE Witnessed'
  BY <1>25, <1>a DEF ReadAnswer, ConnectEnds
<1>26. ASSUME SayDone PROVE Witnessed'
  BY <1>26, <1>a DEF SayDone, ConnectEnds
<1>27. ASSUME ConnectFails PROVE Witnessed'
  BY <1>27, <1>a DEF ConnectFails, ConnectEnds
<1>28. ASSUME ConnectCloses PROVE Witnessed'
  BY <1>28, <1>a DEF ConnectCloses, BeginClose
<1>29. ASSUME ConnectReturns PROVE Witnessed'
  BY <1>29, <1>a DEF ConnectReturns
<1>30. ASSUME Stutters PROVE Witnessed'
  BY <1>30, <1>a DEF Stutters, vars
<1> QED
  BY <1>1, <1>2, <1>3, <1>4, <1>5, <1>6, <1>7, <1>8, <1>9, <1>10, <1>11, <1>12, <1>13, 
     <1>14, <1>15, <1>16, <1>17, <1>18, <1>19, <1>20, <1>21, <1>22, <1>23, <1>24, <1>25, 
     <1>26, <1>27, <1>28, <1>29, <1>30, Steps

\* Only what said hello is handed over, and only a probe is entered.
LEMMA ControlsKept ==
  ASSUME IInv, [Next]_vars
  PROVE  Controls'
<1> USE DEF started, serverVars, connVars, runVars
<1>0. TypeOK /\ Controls
  BY DEF IInv
<1>a. UNCHANGED <<handler, controls, control>> => Controls'
  BY <1>0 DEF Controls, IsControl
<1>1. ASSUME NEW c \in Conn, ClientFails(c) PROVE Controls'
  BY <1>1, <1>a DEF ClientFails
<1>2. ASSUME NEW c \in Conn, Accept(c) PROVE Controls'
  <2>1. \A d \in Conn : d # c => handler'[d] = handler[d]
    BY <1>2, <1>0, DropFacts DEF Accept, TypeOK
  <2>2. (handler'[c] = "handing" => IsControl(c)) /\ (handler'[c] = "claimed" => ~IsControl(c))
    BY <1>2, <1>0, DropFacts, ConnFacts DEF Accept, TypeOK
  <2>3. controls' \in {controls, c} /\ (controls' = c => IsControl(c) \/ controls' = controls) /\ control' = control
    BY <1>2, <1>0 DEF Accept
  <2> QED
    BY <1>0, <2>1, <2>2, <2>3 DEF Controls
<1>3. ASSUME NEW c \in Conn, HandlerFails(c) PROVE Controls'
  <2>1. \A d \in Conn : d # c => handler'[d] = handler[d]
    BY <1>3, <1>0, DropFacts DEF HandlerFails, TypeOK
  <2>2. (handler'[c] = "handing" => IsControl(c)) /\ (handler'[c] = "claimed" => ~IsControl(c))
    BY <1>3, <1>0, DropFacts, ConnFacts DEF HandlerFails, TypeOK
  <2>3. controls' \in {controls, c} /\ (controls' = c => IsControl(c) \/ controls' = controls) /\ control' = control
    BY <1>3, <1>0 DEF HandlerFails
  <2> QED
    BY <1>0, <2>1, <2>2, <2>3 DEF Controls
<1>4. ASSUME NEW c \in Conn, Serve(c) PROVE Controls'
  <2>1. \A d \in Conn : d # c => handler'[d] = handler[d]
    BY <1>4, <1>0, DropFacts DEF Serve, Keeps, TypeOK
  <2>2. (handler'[c] = "handing" => IsControl(c)) /\ (handler'[c] = "claimed" => ~IsControl(c))
    BY <1>4, <1>0, DropFacts, ConnFacts DEF Serve, Keeps, Reads, IsControl, TypeOK
  <2>3. controls' \in {controls, c} /\ (controls' = c => IsControl(c) \/ controls' = controls) /\ control' = control
    BY <1>4, <1>0 DEF Serve
  <2> QED
    BY <1>0, <2>1, <2>2, <2>3 DEF Controls
<1>5. ASSUME NEW c \in Conn, Answer(c) PROVE Controls'
  <2>1. \A d \in Conn : d # c => handler'[d] = handler[d]
    BY <1>5, <1>0, DropFacts DEF Answer, Ends, TypeOK
  <2>2. (handler'[c] = "handing" => IsControl(c)) /\ (handler'[c] = "claimed" => ~IsControl(c))
    BY <1>5, <1>0, DropFacts, ConnFacts DEF Answer, Ends, TypeOK
  <2>3. controls' \in {controls, c} /\ (controls' = c => IsControl(c) \/ controls' = controls) /\ control' = control
    BY <1>5, <1>0 DEF Answer
  <2> QED
    BY <1>0, <2>1, <2>2, <2>3 DEF Controls
<1>6. ASSUME NEW c \in Conn, ServeHello(c) PROVE Controls'
  <2>1. \A d \in Conn : d # c => handler'[d] = handler[d]
    BY <1>6, <1>0, DropFacts DEF ServeHello, Keeps, TypeOK
  <2>2. (handler'[c] = "handing" => IsControl(c)) /\ (handler'[c] = "claimed" => ~IsControl(c))
    BY <1>6, <1>0, DropFacts, ConnFacts DEF ServeHello, Keeps, Reads, IsControl, TypeOK
  <2>3. controls' \in {controls, c} /\ (controls' = c => IsControl(c) \/ controls' = controls) /\ control' = control
    BY <1>6, <1>0 DEF ServeHello
  <2> QED
    BY <1>0, <2>1, <2>2, <2>3 DEF Controls
<1>7. ASSUME NEW c \in Conn, HandOver(c) PROVE Controls'
  <2>1. \A d \in Conn : d # c => handler'[d] = handler[d]
    BY <1>7, <1>0, DropFacts DEF HandOver, TypeOK
  <2>2. (handler'[c] = "handing" => IsControl(c)) /\ (handler'[c] = "claimed" => ~IsControl(c))
    BY <1>7, <1>0, DropFacts, ConnFacts DEF HandOver, TypeOK
  <2>3. controls' \in {controls, c} /\ (controls' = c => IsControl(c) \/ controls' = controls) /\ control' = control
    BY <1>7, <1>0 DEF HandOver, Controls
  <2> QED
    BY <1>0, <2>1, <2>2, <2>3 DEF Controls
<1>8. ASSUME NEW e \in End, ContextEnds(e) PROVE Controls'
  BY <1>8, <1>a DEF ContextEnds, BeginClose
<1>9. ASSUME NEW e \in End, CloseAndJoin(e) PROVE Controls'
  BY <1>9, <1>a DEF CloseAndJoin
<1>10. ASSUME Expires PROVE Controls'
  BY <1>10, <1>a DEF Expires
<1>11. ASSUME ExpiryCloses PROVE Controls'
  BY <1>11, <1>a DEF ExpiryCloses, BeginClose
<1>12. ASSUME TakeControl PROVE Controls'
  <2>1. control' = controls /\ controls' = NoConn /\ handler' = handler
    BY <1>12 DEF TakeControl
  <2> QED
    BY <1>0, <2>1 DEF Controls
<1>13. ASSUME Greet PROVE Controls'
  BY <1>13, <1>a DEF Greet, Delivered
<1>14. ASSUME ReadEvidence PROVE Controls'
  BY <1>14, <1>a DEF ReadEvidence, RunEnds
<1>15. ASSUME ProbeBack PROVE Controls'
  BY <1>15, <1>a DEF ProbeBack
<1>16. ASSUME SendEvidence PROVE Controls'
  BY <1>16, <1>a DEF SendEvidence
<1>17. ASSUME Finish PROVE Controls'
  BY <1>17, <1>a DEF Finish, RunEnds
<1>18. ASSUME RunFails PROVE Controls'
  BY <1>18, <1>a DEF RunFails, RunEnds
<1>19. ASSUME CloseControl PROVE Controls'
  BY <1>19, <1>a DEF CloseControl
<1>20. ASSUME RunCloses PROVE Controls'
  BY <1>20, <1>a DEF RunCloses, BeginClose
<1>21. ASSUME RunReturns PROVE Controls'
  BY <1>21, <1>a DEF RunReturns
<1>22. ASSUME NEW f \in Family, DialControl(f) PROVE Controls'
  BY <1>22, <1>a DEF DialControl
<1>23. ASSUME NEW f \in Family, Greeted(f) PROVE Controls'
  BY <1>23, <1>a DEF Greeted
<1>24. ASSUME Report PROVE Controls'
  BY <1>24, <1>a DEF Report
<1>25. ASSUME ReadAnswer PROVE Controls'
  BY <1>25, <1>a DEF ReadAnswer, ConnectEnds
<1>26. ASSUME SayDone PROVE Controls'
  BY <1>26, <1>a DEF SayDone, ConnectEnds
<1>27. ASSUME ConnectFails PROVE Controls'
  BY <1>27, <1>a DEF ConnectFails, ConnectEnds
<1>28. ASSUME ConnectCloses PROVE Controls'
  BY <1>28, <1>a DEF ConnectCloses, BeginClose
<1>29. ASSUME ConnectReturns PROVE Controls'
  BY <1>29, <1>a DEF ConnectReturns
<1>30. ASSUME Stutters PROVE Controls'
  BY <1>30, <1>a DEF Stutters, vars
<1> QED
  BY <1>1, <1>2, <1>3, <1>4, <1>5, <1>6, <1>7, <1>8, <1>9, <1>10, <1>11, <1>12, <1>13, 
     <1>14, <1>15, <1>16, <1>17, <1>18, <1>19, <1>20, <1>21, <1>22, <1>23, <1>24, <1>25, 
     <1>26, <1>27, <1>28, <1>29, <1>30, Steps

-----------------------------------------------------------------------------
\* What an end was sent agrees with what its own server witnessed.

LEMMA AlwaysVerified ==
  ASSUME IInv
  PROVE  Verified("listener", evidence["connector"]) /\ Verified("connector", evidence["listener"])
<1> SUFFICES ASSUME NEW f \in Family
             PROVE  /\ evidence["connector"][f] = "pass" => f \in inbound["listener"]
                    /\ evidence["connector"][f] # "na"
                    /\ evidence["listener"][f] = "pass" => f \in inbound["connector"]
                    /\ evidence["listener"][f] = "na" => f \notin inbound["connector"]
  BY DEF Verified
<1>1. /\ Consistent(f \in inbound["listener"], handler[<<"probe", f>>], client[<<"probe", f>>])
      /\ Consistent(f \in inbound["connector"], handler[<<"back", f>>], client[<<"back", f>>])
  BY DEF IInv, Witnessed, ProbeOf, End
<1> QED
  BY <1>1 DEF IInv, SentIsSeen, Consistent

\* The connector has its result before the listener has one.
LEMMA AgreedKept ==
  ASSUME IInv, [Next]_vars
  PROVE  Agreed'
<1> USE DEF started, serverVars, connVars, runVars
<1>0. TypeOK /\ Agreed /\ BeforeProbes
  BY DEF IInv
<1>a. UNCHANGED <<connect, done, outcome, evidence>> => Agreed'
  BY <1>0 DEF Agreed, EvidenceStands
<1>1. ASSUME NEW c \in Conn, ClientFails(c) PROVE Agreed'
  BY <1>1, <1>a DEF ClientFails
<1>2. ASSUME NEW c \in Conn, Accept(c) PROVE Agreed'
  BY <1>2, <1>a DEF Accept, Drops, Ends
<1>3. ASSUME NEW c \in Conn, HandlerFails(c) PROVE Agreed'
  BY <1>3, <1>a DEF HandlerFails, Drops, Ends
<1>4. ASSUME NEW c \in Conn, Serve(c) PROVE Agreed'
  BY <1>4, <1>a DEF Serve, Reads, Keeps, Drops, Ends
<1>5. ASSUME NEW c \in Conn, Answer(c) PROVE Agreed'
  BY <1>5, <1>a DEF Answer, Drops, Ends, Delivered
<1>6. ASSUME NEW c \in Conn, ServeHello(c) PROVE Agreed'
  BY <1>6, <1>a DEF ServeHello, Reads, Keeps, Drops, Ends
<1>7. ASSUME NEW c \in Conn, HandOver(c) PROVE Agreed'
  BY <1>7, <1>a DEF HandOver, Drops, Ends
<1>8. ASSUME NEW e \in End, ContextEnds(e) PROVE Agreed'
  BY <1>8, <1>a DEF ContextEnds, BeginClose
<1>9. ASSUME NEW e \in End, CloseAndJoin(e) PROVE Agreed'
  BY <1>9, <1>a DEF CloseAndJoin
<1>10. ASSUME Expires PROVE Agreed'
  BY <1>10, <1>a DEF Expires
<1>11. ASSUME ExpiryCloses PROVE Agreed'
  BY <1>11, <1>a DEF ExpiryCloses, BeginClose
<1>12. ASSUME TakeControl PROVE Agreed'
  BY <1>12, <1>a DEF TakeControl
<1>13. ASSUME Greet PROVE Agreed'
  BY <1>13, <1>a DEF Greet, Delivered
<1>14. ASSUME ReadEvidence PROVE Agreed'
  <2>1. outcome' = outcome /\ connect' = connect /\ done' = done /\ evidence' = evidence
    BY <1>14, AlwaysVerified DEF ReadEvidence
  <2> QED
    BY <1>a, <2>1
<1>15. ASSUME ProbeBack PROVE Agreed'
  BY <1>15, <1>a DEF ProbeBack
<1>16. ASSUME SendEvidence PROVE Agreed'
  <2>1. evidence'["connector"] = evidence["connector"]
    BY <1>16, <1>0 DEF SendEvidence, TypeOK, End
  <2>2. outcome' = outcome /\ connect' = connect /\ done' = done
    BY <1>16 DEF SendEvidence
  <2> QED
    BY <1>0, <2>1, <2>2 DEF Agreed, EvidenceStands
<1>17. ASSUME Finish PROVE Agreed'
  <2>1. connect' = connect /\ done' = done /\ evidence' = evidence /\ done
    BY <1>17 DEF Finish
  <2>2. outcome'["connector"] = outcome["connector"] /\ outcome'["listener"] = "result"
    BY <1>17, <1>0 DEF Finish, RunEnds, TypeOK, End
  <2> QED
    BY <1>0, <2>1, <2>2 DEF Agreed, EvidenceStands, End
<1>18. ASSUME RunFails PROVE Agreed'
  <2>1. connect' = connect /\ done' = done /\ evidence' = evidence
    BY <1>18 DEF RunFails
  <2>2. outcome'["connector"] = outcome["connector"] /\ outcome'["listener"] = "error"
    BY <1>18, <1>0 DEF RunFails, RunEnds, TypeOK, End
  <2> QED
    BY <1>0, <2>1, <2>2 DEF Agreed, EvidenceStands, End
<1>19. ASSUME CloseControl PROVE Agreed'
  BY <1>19, <1>a DEF CloseControl
<1>20. ASSUME RunCloses PROVE Agreed'
  BY <1>20, <1>a DEF RunCloses, BeginClose
<1>21. ASSUME RunReturns PROVE Agreed'
  BY <1>21, <1>a DEF RunReturns
<1>22. ASSUME NEW f \in Family, DialControl(f) PROVE Agreed'
  BY <1>22, <1>a DEF DialControl
<1>23. ASSUME NEW f \in Family, Greeted(f) PROVE Agreed'
  <2>1. outcome' = outcome /\ connect = "greeting" /\ connect' = "probing" /\ done' = done /\ evidence' = evidence
    BY <1>23 DEF Greeted
  <2> QED
    BY <1>0, <2>1 DEF Agreed, EvidenceStands
<1>24. ASSUME Report PROVE Agreed'
  <2>1. evidence'["connector"] = [f \in Family |-> IF f \in requests THEN client[<<"probe", f>>] ELSE "untested"]
    BY <1>24, <1>0 DEF Report, TypeOK, End
  <2>2. outcome' = outcome /\ connect = "probing" /\ connect' = "awaiting" /\ done' = done
    BY <1>24 DEF Report
  <2>3. PICK f \in requests : TRUE
    BY <1>0, <2>2 DEF BeforeProbes
  <2>4. f \in Family /\ client[<<"probe", f>>] # "untested"
    BY <1>0, ConnFacts DEF TypeOK
  <2>5. evidence'["connector"][f] # "untested"
    BY <2>1, <2>4
  <2> QED
    BY <1>0, <2>2, <2>4, <2>5 DEF Agreed, EvidenceStands
<1>25. ASSUME ReadAnswer PROVE Agreed'
  <2>1. outcome' = outcome /\ connect = "awaiting" /\ connect' = "finishing" /\ done' = done /\ evidence' = evidence
    BY <1>25, AlwaysVerified DEF ReadAnswer
  <2> QED
    BY <1>0, <2>1 DEF Agreed, EvidenceStands
<1>26. ASSUME SayDone PROVE Agreed'
  <2>1. connect = "finishing" /\ connect' = "leaving" /\ done' = TRUE /\ evidence' = evidence
    BY <1>26 DEF SayDone, ConnectEnds
  <2>2. outcome'["listener"] = outcome["listener"] /\ outcome'["connector"] = "result"
    BY <1>26, <1>0 DEF SayDone, ConnectEnds, TypeOK, End
  <2> QED
    BY <1>0, <2>1, <2>2 DEF Agreed, EvidenceStands, End
<1>27. ASSUME ConnectFails PROVE Agreed'
  <2>1. /\ connect \notin {"leaving", "returned"} /\ connect' = "leaving"
        /\ done' = done /\ evidence' = evidence
    BY <1>27 DEF ConnectFails, ConnectEnds
  <2>2. ~done
    BY <1>0, <2>1 DEF Agreed
  <2>3. outcome'["listener"] = outcome["listener"] /\ outcome'["connector"] = "error"
    BY <1>27, <1>0 DEF ConnectFails, ConnectEnds, TypeOK, End
  <2> QED
    BY <1>0, <2>1, <2>2, <2>3 DEF Agreed, EvidenceStands, End
<1>28. ASSUME ConnectCloses PROVE Agreed'
  BY <1>28, <1>a DEF ConnectCloses, BeginClose
<1>29. ASSUME ConnectReturns PROVE Agreed'
  <2>1. outcome' = outcome /\ connect = "leaving" /\ connect' = "returned" /\ done' = done /\ evidence' = evidence
    BY <1>29 DEF ConnectReturns
  <2> QED
    BY <1>0, <2>1 DEF Agreed, EvidenceStands
<1>30. ASSUME Stutters PROVE Agreed'
  BY <1>30, <1>a DEF Stutters, vars
<1> QED
  BY <1>1, <1>2, <1>3, <1>4, <1>5, <1>6, <1>7, <1>8, <1>9, <1>10, <1>11, <1>12, <1>13, 
     <1>14, <1>15, <1>16, <1>17, <1>18, <1>19, <1>20, <1>21, <1>22, <1>23, <1>24, <1>25, 
     <1>26, <1>27, <1>28, <1>29, <1>30, Steps

-----------------------------------------------------------------------------
\* Sockets.

\* Nothing new is tracked, and a handler that still holds a socket while its
\* server closes has moved only where Close finds the socket.
LEMMA Fewer ==
  ASSUME IInv,
         open' \subseteq open, tracked' \subseteq tracked, open' \subseteq tracked',
         server' = server, doomed' = doomed,
         \A c \in open' : /\ handler'[c] # "none"
                          /\ \/ handler'[c] = handler[c] \/ handler[c] # "accepted"
                             \/ server[ServerOf(c)] # "closing"
  PROVE  Sockets'
<1>0. TypeOK /\ Sockets
  BY DEF IInv
<1>1. IsFiniteSet(tracked) /\ IsFiniteSet(tracked')
  BY <1>0, FS_Subset DEF Sockets
<1>2. ASSUME NEW e \in End
      PROVE  /\ Cardinality(tracked' \cap Of(e)) <= Limit
             /\ server'[e] = "closing" =>
                  \A c \in open' \cap Of(e) : c \in doomed'[e] \/ handler'[c] = "accepted"
             /\ server'[e] = "joined" => open' \cap Of(e) = {}
  <2>1. Cardinality(tracked \cap Of(e)) <= Limit
    BY <1>0 DEF Sockets
  <2>2. IsFiniteSet(tracked \cap Of(e)) /\ IsFiniteSet(tracked' \cap Of(e))
    BY <1>1, FS_Intersection
  <2>3. Cardinality(tracked' \cap Of(e)) <= Cardinality(tracked \cap Of(e))
    BY <2>2, FS_Subset
  <2>4. Cardinality(tracked' \cap Of(e)) \in Nat /\ Cardinality(tracked \cap Of(e)) \in Nat
    BY <2>2, FS_CardinalityType
  <2>5. Cardinality(tracked' \cap Of(e)) <= Limit
    BY <2>1, <2>3, <2>4, LimitAssumption
  <2>6. ASSUME server[e] = "closing", NEW c \in open' \cap Of(e)
        PROVE  c \in doomed[e] \/ handler'[c] = "accepted"
    <3>1. c \in open \cap Of(e) /\ c \in Conn /\ ServerOf(c) = e
      BY <1>0 DEF TypeOK, Of
    <3>2. c \in doomed[e] \/ handler[c] = "accepted"
      BY <1>0, <2>6, <3>1 DEF Sockets
    <3> QED
      BY <2>6, <3>1, <3>2
  <2>7. server[e] = "joined" => open' \cap Of(e) = {}
    BY <1>0 DEF Sockets
  <2> QED
    BY <2>5, <2>6, <2>7
<1>3. \A c \in open' : handler'[c] # "none"
  OBVIOUS
<1> QED
  BY <1>1, <1>2, <1>3 DEF Sockets

\* A connection is accepted while there is room and the listeners are open.
LEMMA More ==
  ASSUME IInv, NEW c \in Conn,
         Cardinality(tracked \cap Of(ServerOf(c))) < Limit,
         open' = open \cup {c}, tracked' = tracked \cup {c},
         handler'[c] = "accepted", \A d \in Conn \ {c} : handler'[d] = handler[d],
         server[ServerOf(c)] # "joined", server' = server, doomed' = doomed
  PROVE  Sockets'
<1>0. TypeOK /\ Sockets
  BY DEF IInv
<1>1. open' \subseteq tracked' /\ IsFiniteSet(tracked) /\ IsFiniteSet(tracked')
  BY <1>0, FS_AddElement DEF Sockets
<1>2. \A d \in open' : handler'[d] # "none"
  BY <1>0 DEF Sockets, TypeOK
<1>3. ASSUME NEW e \in End
      PROVE  Cardinality(tracked' \cap Of(e)) <= Limit
  <2>1. Cardinality(tracked \cap Of(e)) <= Limit
    BY <1>0 DEF Sockets
  <2>2. CASE ServerOf(c) # e
    <3>1. tracked' \cap Of(e) = tracked \cap Of(e)
      BY <2>2 DEF Of
    <3> QED
      BY <2>1, <3>1
  <2>3. CASE ServerOf(c) = e
    <3>1. tracked' \cap Of(e) = (tracked \cap Of(e)) \cup {c}
      BY <2>3 DEF Of
    <3>2. IsFiniteSet(tracked \cap Of(e))
      BY <1>1, FS_Intersection
    <3>3. Cardinality(tracked \cap Of(e)) \in Nat
      BY <3>2, FS_CardinalityType
    <3>4. Cardinality(tracked' \cap Of(e)) \in {Cardinality(tracked \cap Of(e)), Cardinality(tracked \cap Of(e)) + 1}
      BY <3>1, <3>2, FS_AddElement
    <3> QED
      BY <2>3, <3>3, <3>4, LimitAssumption
  <2> QED
    BY <2>2, <2>3
<1>4. ASSUME NEW e \in End, server'[e] = "closing", NEW d \in open' \cap Of(e)
      PROVE  d \in doomed'[e] \/ handler'[d] = "accepted"
  <2>1. d = c \/ d \in open \cap Of(e)
    OBVIOUS
  <2>2. d \in open => d \in Conn
    BY <1>0 DEF TypeOK
  <2> QED
    BY <1>0, <1>4, <2>1, <2>2 DEF Sockets
<1>5. ASSUME NEW e \in End, server'[e] = "joined"
      PROVE  open' \cap Of(e) = {}
  <2>1. open \cap Of(e) = {} /\ c \notin Of(e)
    BY <1>0, <1>5 DEF Sockets, Of
  <2> QED
    BY <2>1
<1> QED
  BY <1>1, <1>2, <1>3, <1>4, <1>5 DEF Sockets

\* Close finds every socket that is open.
LEMMA Begins ==
  ASSUME IInv, NEW e \in End, NEW who, BeginClose(e, who), UNCHANGED <<open, tracked, handler>>
  PROVE  Sockets'
<1>0. TypeOK /\ Sockets
  BY DEF IInv
<1>1. /\ server' = [server EXCEPT ![e] = "closing"]
      /\ doomed' = [doomed EXCEPT ![e] = tracked \cap Of(e)]
  BY DEF BeginClose
<1>2. ASSUME NEW o \in End
      PROVE  /\ server'[o] = "closing" =>
                  \A c \in open \cap Of(o) : c \in doomed'[o] \/ handler[c] = "accepted"
             /\ server'[o] = "joined" => open \cap Of(o) = {}
  <2>1. CASE o = e
    <3>1. server'[o] = "closing" /\ doomed'[o] = tracked \cap Of(o)
      BY <1>0, <1>1, <2>1 DEF TypeOK
    <3>2. open \subseteq tracked
      BY <1>0 DEF Sockets
    <3> QED
      BY <3>1, <3>2
  <2>2. CASE o # e
    <3>1. server'[o] = server[o] /\ doomed'[o] = doomed[o]
      BY <1>0, <1>1, <2>2 DEF TypeOK
    <3> QED
      BY <1>0, <3>1 DEF Sockets
  <2> QED
    BY <2>1, <2>2
<1> QED
  BY <1>0, <1>2 DEF Sockets

\* Every step keeps the sockets where Close finds them.
LEMMA SocketsKept ==
  ASSUME IInv, [Next]_vars
  PROVE  Sockets'
<1> USE DEF started, serverVars, connVars, runVars
<1>0. TypeOK /\ Sockets
  BY DEF IInv
<1>b. open \subseteq Conn /\ open \subseteq tracked /\ \A c \in open : handler[c] # "none"
  BY <1>0 DEF TypeOK, Sockets
<1>a. UNCHANGED <<open, tracked, handler, server, doomed>> => Sockets'
  BY <1>b, Fewer
<1>1. ASSUME NEW c \in Conn, ClientFails(c) PROVE Sockets'
  BY <1>1, <1>a DEF ClientFails
<1>2. ASSUME NEW c \in Conn, Accept(c) PROVE Sockets'
  <2>1. server' = server /\ doomed' = doomed
    BY <1>2 DEF Accept
  <2>2. CASE Drops(c)
    <3>1. /\ open' = open \ {c} /\ tracked' = tracked \ {c}
          /\ \A d \in Conn \ {c} : handler'[d] = handler[d]
      BY <1>0, <2>2, DropFacts
    <3> QED
      BY <1>b, <2>1, <3>1, Fewer
  <2>3. CASE ~Drops(c)
    <3>1. /\ Cardinality(tracked \cap Of(ServerOf(c))) < Limit
          /\ open' = open \cup {c} /\ tracked' = tracked \cup {c}
          /\ handler' = [handler EXCEPT ![c] = "accepted"] /\ server[ServerOf(c)] # "joined"
      BY <1>2, <2>3 DEF Accept
    <3>2. handler'[c] = "accepted" /\ \A d \in Conn \ {c} : handler'[d] = handler[d]
      BY <1>0, <3>1 DEF TypeOK
    <3> QED
      BY <2>1, <3>1, <3>2, More
  <2> QED
    BY <2>2, <2>3
<1>3. ASSUME NEW c \in Conn, HandlerFails(c) PROVE Sockets'
  <2>1. /\ open' = open \ {c} /\ tracked' = tracked \ {c}
        /\ \A d \in Conn \ {c} : handler'[d] = handler[d]
    BY <1>3, <1>0, DropFacts DEF HandlerFails
  <2>2. server' = server /\ doomed' = doomed
    BY <1>3 DEF HandlerFails
  <2> QED
    BY <1>b, <2>1, <2>2, Fewer
<1>4. ASSUME NEW c \in Conn, Serve(c) PROVE Sockets'
  <2>1. server' = server /\ doomed' = doomed
    BY <1>4 DEF Serve
  <2>2. CASE Drops(c)
    <3>1. /\ open' = open \ {c} /\ tracked' = tracked \ {c}
          /\ \A d \in Conn \ {c} : handler'[d] = handler[d]
      BY <1>0, <2>2, DropFacts
    <3> QED
      BY <1>b, <2>1, <3>1, Fewer
  <2>3. CASE ~Drops(c)
    <3>1. PICK s \in {"claimed", "handing"} : handler' = [handler EXCEPT ![c] = s]
      BY <1>4, <2>3 DEF Serve, Keeps
    <3>2. open' = open /\ tracked' = tracked /\ server[ServerOf(c)] = "serving"
      BY <1>4, <2>3 DEF Serve, Keeps, Reads
    <3>3. handler'[c] = s /\ \A d \in Conn \ {c} : handler'[d] = handler[d]
      BY <1>0, <3>1 DEF TypeOK
    <3> QED
      BY <1>b, <2>1, <3>2, <3>3, Fewer
  <2> QED
    BY <2>2, <2>3
<1>5. ASSUME NEW c \in Conn, Answer(c) PROVE Sockets'
  <2>1. server' = server /\ doomed' = doomed
    BY <1>5 DEF Answer
  <2>2. CASE Drops(c)
    <3>1. /\ open' = open \ {c} /\ tracked' = tracked \ {c}
          /\ \A d \in Conn \ {c} : handler'[d] = handler[d]
      BY <1>0, <2>2, DropFacts
    <3> QED
      BY <1>b, <2>1, <3>1, Fewer
  <2>3. CASE ~Drops(c)
    <3>1. open' = open \ {c} /\ tracked' = tracked \ {c} /\ handler' = [handler EXCEPT ![c] = "gone"]
      BY <1>5, <2>3 DEF Answer, Ends
    <3>2. \A d \in Conn \ {c} : handler'[d] = handler[d]
      BY <1>0, <3>1 DEF TypeOK
    <3> QED
      BY <1>b, <2>1, <3>1, <3>2, Fewer
  <2> QED
    BY <2>2, <2>3
<1>6. ASSUME NEW c \in Conn, ServeHello(c) PROVE Sockets'
  <2>1. server' = server /\ doomed' = doomed
    BY <1>6 DEF ServeHello
  <2>2. CASE Drops(c)
    <3>1. /\ open' = open \ {c} /\ tracked' = tracked \ {c}
          /\ \A d \in Conn \ {c} : handler'[d] = handler[d]
      BY <1>0, <2>2, DropFacts
    <3> QED
      BY <1>b, <2>1, <3>1, Fewer
  <2>3. CASE ~Drops(c)
    <3>1. PICK s \in {"claimed", "handing"} : handler' = [handler EXCEPT ![c] = s]
      BY <1>6, <2>3 DEF ServeHello, Keeps
    <3>2. open' = open /\ tracked' = tracked /\ server[ServerOf(c)] = "serving"
      BY <1>6, <2>3 DEF ServeHello, Keeps, Reads
    <3>3. handler'[c] = s /\ \A d \in Conn \ {c} : handler'[d] = handler[d]
      BY <1>0, <3>1 DEF TypeOK
    <3> QED
      BY <1>b, <2>1, <3>2, <3>3, Fewer
  <2> QED
    BY <2>2, <2>3
<1>7. ASSUME NEW c \in Conn, HandOver(c) PROVE Sockets'
  <2>1. server' = server /\ doomed' = doomed
    BY <1>7 DEF HandOver
  <2>2. CASE Drops(c)
    <3>1. /\ open' = open \ {c} /\ tracked' = tracked \ {c}
          /\ \A d \in Conn \ {c} : handler'[d] = handler[d]
      BY <1>0, <2>2, DropFacts
    <3> QED
      BY <1>b, <2>1, <3>1, Fewer
  <2>3. CASE ~Drops(c)
    <3>1. open' = open /\ tracked' = tracked /\ handler' = [handler EXCEPT ![c] = "gone"]
      BY <1>7, <2>3 DEF HandOver
    <3>2. \A d \in Conn \ {c} : handler'[d] = handler[d]
      BY <1>0, <3>1 DEF TypeOK
    <3>3. handler[c] = "handing" /\ handler'[c] = "gone"
      BY <1>7, <1>0, <3>1 DEF HandOver, TypeOK
    <3> QED
      BY <1>b, <2>1, <3>1, <3>2, <3>3, Fewer
  <2> QED
    BY <2>2, <2>3
<1>8. ASSUME NEW e \in End, ContextEnds(e) PROVE Sockets'
  <2>1. \E who : BeginClose(e, who)
    BY <1>8 DEF ContextEnds
  <2>2. UNCHANGED <<open, tracked, handler>> /\ e \in End
    BY <1>8 DEF ContextEnds, End
  <2> QED
    BY <2>1, <2>2, Begins
<1>9. ASSUME NEW e \in End, CloseAndJoin(e) PROVE Sockets'
  <2>1. /\ server[e] = "closing" /\ \A c \in Of(e) : handler[c] \in {"none", "gone"}
        /\ server' = [server EXCEPT ![e] = "joined"] /\ doomed' = [doomed EXCEPT ![e] = {}]
        /\ open' = open \ doomed[e] /\ tracked' = tracked /\ handler' = handler
    BY <1>9 DEF CloseAndJoin
  <2>2. open' \cap Of(e) = {}
    <3>1. \A c \in open \cap Of(e) : c \in doomed[e]
      BY <1>0, <2>1 DEF Sockets
    <3> QED
      BY <2>1, <3>1
  <2>3. ASSUME NEW o \in End
        PROVE  /\ server'[o] = "closing" =>
                    \A c \in open' \cap Of(o) : c \in doomed'[o] \/ handler[c] = "accepted"
               /\ server'[o] = "joined" => open' \cap Of(o) = {}
    <3>1. CASE o = e
      <4>1. server'[o] = "joined"
        BY <1>0, <2>1, <3>1 DEF TypeOK
      <4> QED
        BY <2>2, <3>1, <4>1
    <3>2. CASE o # e
      <4>1. server'[o] = server[o] /\ doomed'[o] = doomed[o] /\ open' \subseteq open
        BY <1>0, <2>1, <3>2 DEF TypeOK
      <4> QED
        BY <1>0, <4>1 DEF Sockets
    <3> QED
      BY <3>1, <3>2
  <2> QED
    BY <1>0, <2>1, <2>3 DEF Sockets
<1>10. ASSUME Expires PROVE Sockets'
  BY <1>10, <1>a DEF Expires
<1>11. ASSUME ExpiryCloses PROVE Sockets'
  <2>1. \E who : BeginClose("listener", who)
    BY <1>11 DEF ExpiryCloses
  <2>2. UNCHANGED <<open, tracked, handler>> /\ "listener" \in End
    BY <1>11 DEF ExpiryCloses, End
  <2> QED
    BY <2>1, <2>2, Begins
<1>12. ASSUME TakeControl PROVE Sockets'
  BY <1>12, <1>a DEF TakeControl
<1>13. ASSUME Greet PROVE Sockets'
  BY <1>13, <1>a DEF Greet, Delivered
<1>14. ASSUME ReadEvidence PROVE Sockets'
  BY <1>14, <1>a DEF ReadEvidence, RunEnds
<1>15. ASSUME ProbeBack PROVE Sockets'
  BY <1>15, <1>a DEF ProbeBack
<1>16. ASSUME SendEvidence PROVE Sockets'
  BY <1>16, <1>a DEF SendEvidence
<1>17. ASSUME Finish PROVE Sockets'
  BY <1>17, <1>a DEF Finish, RunEnds
<1>18. ASSUME RunFails PROVE Sockets'
  BY <1>18, <1>a DEF RunFails, RunEnds
<1>19. ASSUME CloseControl PROVE Sockets'
  <2>1. /\ open' = open \ {control} /\ tracked' = tracked \ {control}
        /\ server' = server /\ doomed' = doomed /\ handler' = handler
    BY <1>19 DEF CloseControl
  <2> QED
    BY <1>b, <2>1, Fewer
<1>20. ASSUME RunCloses PROVE Sockets'
  <2>1. \E who : BeginClose("listener", who)
    BY <1>20 DEF RunCloses
  <2>2. UNCHANGED <<open, tracked, handler>> /\ "listener" \in End
    BY <1>20 DEF RunCloses, End
  <2> QED
    BY <2>1, <2>2, Begins
<1>21. ASSUME RunReturns PROVE Sockets'
  BY <1>21, <1>a DEF RunReturns
<1>22. ASSUME NEW f \in Family, DialControl(f) PROVE Sockets'
  BY <1>22, <1>a DEF DialControl
<1>23. ASSUME NEW f \in Family, Greeted(f) PROVE Sockets'
  BY <1>23, <1>a DEF Greeted
<1>24. ASSUME Report PROVE Sockets'
  BY <1>24, <1>a DEF Report
<1>25. ASSUME ReadAnswer PROVE Sockets'
  BY <1>25, <1>a DEF ReadAnswer, ConnectEnds
<1>26. ASSUME SayDone PROVE Sockets'
  BY <1>26, <1>a DEF SayDone, ConnectEnds
<1>27. ASSUME ConnectFails PROVE Sockets'
  BY <1>27, <1>a DEF ConnectFails, ConnectEnds
<1>28. ASSUME ConnectCloses PROVE Sockets'
  <2>1. \E who : BeginClose("connector", who)
    BY <1>28 DEF ConnectCloses
  <2>2. UNCHANGED <<open, tracked, handler>> /\ "connector" \in End
    BY <1>28 DEF ConnectCloses, End
  <2> QED
    BY <2>1, <2>2, Begins
<1>29. ASSUME ConnectReturns PROVE Sockets'
  BY <1>29, <1>a DEF ConnectReturns
<1>30. ASSUME Stutters PROVE Sockets'
  BY <1>30, <1>a DEF Stutters, vars
<1> QED
  BY <1>1, <1>2, <1>3, <1>4, <1>5, <1>6, <1>7, <1>8, <1>9, <1>10, <1>11, <1>12, <1>13, 
     <1>14, <1>15, <1>16, <1>17, <1>18, <1>19, <1>20, <1>21, <1>22, <1>23, <1>24, <1>25, 
     <1>26, <1>27, <1>28, <1>29, <1>30, Steps

-----------------------------------------------------------------------------
LEMMA Invariance == Spec => []IInv
<1>1. IInv /\ [Next]_vars => IInv'
  BY TypeKept, WitnessedKept, ControlsKept, BeforeProbesKept, SentIsSeenKept, AgreedKept, SocketsKept
     DEF IInv
<1> QED
  BY <1>1, InitInv, PTL DEF Spec

\* Every variable keeps to the values the code gives it.
THEOREM TypeCorrect == Spec => []TypeOK
<1>1. IInv => TypeOK
  BY DEF IInv
<1> QED
  BY <1>1, Invariance, PTL

\* verifyReported never finds the two ends in disagreement, whatever was lost,
\* late or closed: a pass that was reported was entered at the other end first.
THEOREM EvidenceHolds == Spec => []EvidenceStands
<1>1. IInv => EvidenceStands
  BY DEF IInv, Agreed
<1> QED
  BY <1>1, Invariance, PTL

\* A result that Run returns is a result Connect returns, about the same evidence,
\* each half of which is one the other end's server witnessed.
THEOREM TwoEnded == Spec => []ResultsAreTwoEnded
<1>1. IInv => ResultsAreTwoEnded
  BY AlwaysVerified DEF IInv, Agreed, ResultsAreTwoEnded
<1> QED
  BY <1>1, Invariance, PTL

\* endpointServer.Close leaves no socket open, and none was open beyond the limit
\* before, whichever connections were being accepted or handed over meanwhile.
THEOREM NoEscape == Spec => []NoSocketEscapesClose
<1>1. IInv => NoSocketEscapesClose
  <2> SUFFICES ASSUME IInv, NEW e \in End
               PROVE  /\ open \cap Of(e) \subseteq tracked /\ Cardinality(open \cap Of(e)) <= Limit
                      /\ server[e] = "joined" => open \cap Of(e) = {}
    BY DEF NoSocketEscapesClose
  <2>1. /\ open \subseteq tracked /\ IsFiniteSet(tracked) /\ Cardinality(tracked \cap Of(e)) <= Limit
        /\ server[e] = "joined" => open \cap Of(e) = {}
    BY DEF IInv, Sockets
  <2>2. IsFiniteSet(tracked \cap Of(e))
    BY <2>1, FS_Intersection
  <2>3. /\ IsFiniteSet(open \cap Of(e))
        /\ Cardinality(open \cap Of(e)) <= Cardinality(tracked \cap Of(e))
    BY <2>1, <2>2, FS_Subset
  <2>4. Cardinality(open \cap Of(e)) \in Nat /\ Cardinality(tracked \cap Of(e)) \in Nat
    BY <2>2, <2>3, FS_CardinalityType
  <2> QED
    BY <2>1, <2>3, <2>4, LimitAssumption
<1> QED
  BY <1>1, Invariance, PTL

=============================================================================
