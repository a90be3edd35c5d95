----------------------------- MODULE MCEvidence -----------------------------
(***************************************************************************)
(* What may be concluded from recorded evidence, for TLC: the incidents of *)
(* a watch session (IncidentTimeline), and what is read from a topology    *)
(* file (ReadNetwork) of two small networks. They share no state: a        *)
(* behaviour is one of one of them, and the other stays as it begins.      *)
(***************************************************************************)
EXTENDS IncidentTimeline, SequencesExt

CONSTANTS MaxDepth, MaxStates, MaxFanout

VARIABLES part, obs, checks, tunnels, adjacencies, scene, fib, phase, fail, said, was

-----------------------------------------------------------------------------
\* Names. Domains of one node differ in their vrf.
At(n) == [node |-> n, vrf |-> "default"]
Under(n) == [node |-> n, vrf |-> "under"]
Base(n) == [node |-> n, vrf |-> "base"]

Hop(addr, iface) == [addr |-> addr, iface |-> iface]
Iface(name, addr, net) == [name |-> name, addrs |-> {[addr |-> addr, net |-> net]}]
Route(bits, covers, hops, origin) ==
  [prefix |-> [bits |-> bits, covers |-> covers], hops |-> hops, discard |-> FALSE, origin |-> origin]

Failure0 == [kind |-> "none", at |-> At(""), iface |-> "", addr |-> "", remote |-> ""]
Router(n) == [Failure0 EXCEPT !.kind = "router", !.at = At(n)]
Down(n, iface) == [Failure0 EXCEPT !.kind = "interface", !.at = At(n), !.iface = iface]
NextHopLost(at, addr) == [Failure0 EXCEPT !.kind = "next_hop", !.at = at, !.addr = addr]
AdjacencyLost(at, iface, remote) ==
  [Failure0 EXCEPT !.kind = "adjacency", !.at = at, !.iface = iface, !.remote = remote]

-----------------------------------------------------------------------------
\* What a file holds of the table of one domain.
Observation(at, plane, complete, routes, ifaces) ==
  [at |-> at, plane |-> plane, complete |-> complete, routes |-> routes, ifaces |-> ifaces]

Blank(r) == [r EXCEPT !.hops = [i \in DOMAIN @ |-> [@[i] EXCEPT !.iface = ""]]]

\* An old record: a longer match elsewhere, or other next hops for the same one.
Sight(view, at, routes, old, ifaces) ==
  LET table == SetToSeq(routes)
      fibView(complete, rows) == Observation(at, "fib", complete, rows, ifaces)
  IN CASE view = "whole" -> <<fibView(TRUE, table)>>
       [] view = "unnamed" -> <<fibView(TRUE, [i \in DOMAIN table |-> Blank(table[i])])>>
       [] view = "mixed" -> <<fibView(TRUE, table), fibView(FALSE, [i \in DOMAIN table |-> Blank(table[i])])>>
       [] view = "part" -> <<fibView(FALSE, SelectSeq(table, LAMBDA r : r.prefix.bits = 0 \/ Cardinality(routes) = 1))>>
       [] view = "silent" -> <<fibView(FALSE, <<>>)>>
       [] view = "old" -> <<fibView(TRUE, table), fibView(TRUE, old)>>
       [] view = "empty" -> <<fibView(TRUE, table), fibView(TRUE, <<>>)>>
       [] view = "unlisted" -> <<Observation(at, "fib", TRUE, table, {})>>

Views == {"unnamed", "mixed", "part", "silent", "old", "empty", "unlisted"}

\* The domains, each with its view; the tables of the other planes as they are.
File(ifaces, fibs, rib, intent, partial, old, view) ==
  LET domains == SetToSeq(DOMAIN fibs)
      of(d) ==
        Sight(view[d], d, fibs[d], old[d], ifaces[d])
        \o (IF rib[d] = {} THEN <<>> ELSE <<Observation(d, "control", TRUE, SetToSeq(rib[d]), ifaces[d])>>)
        \o (IF d \notin DOMAIN intent THEN <<>>
            ELSE <<Observation(d, "intended", ~partial, SetToSeq(intent[d]), {})>>)
  IN FlattenSeq([i \in DOMAIN domains |-> of(domains[i])])

-----------------------------------------------------------------------------
\* The diamond: s reaches d by a, which has two links to it, and by b.
Nets == [l1 |-> {"s1", "a1"}, l2 |-> {"s2", "b2"}, l3 |-> {"a3", "d3"}, l4 |-> {"b4", "d4"},
         l5 |-> {"a5", "d5"}, lo |-> {"x"}]
S == At("s")
A == At("a")
B == At("b")
D == At("d")
DiamondIfaces ==
  (S :> {Iface("i1", "s1", Nets.l1), Iface("i2", "s2", Nets.l2)}) @@
  (A :> {Iface("i1", "a1", Nets.l1), Iface("i3", "a3", Nets.l3), Iface("i5", "a5", Nets.l5)}) @@
  (B :> {Iface("i2", "b2", Nets.l2), Iface("i4", "b4", Nets.l4)}) @@
  (D :> {Iface("i3", "d3", Nets.l3), Iface("i4", "d4", Nets.l4), Iface("i5", "d5", Nets.l5),
         Iface("lo", "x", Nets.lo)})

Far == {"x", "d3"}
All == Far \cup {"s1", "a1", "s2", "b2", "d4", "d5"}
Long(hops, origin) == Route(24, Far, hops, origin)
Default(hops, origin) == Route(0, All, hops, origin)
ToA == Hop("a1", "i1")
ToB == Hop("b2", "i2")

AtS(o) == {{Long(<<ToA, ToB>>, o)}, {Long(<<ToA>>, o)},
           {Long(<<ToA>>, o), Default(<<ToB>>, "static")}}
AtA(o) == {{Long(<<Hop("d3", "i3")>>, o)}, {Long(<<Hop("d3", "i3"), Hop("d5", "i5")>>, o)},
           {Long(<<Hop("d3", "i3"), Hop("d5", "i5"), Hop("s1", "i1")>>, o)},
           {Long(<<Hop("d3", "i3")>>, o), Default(<<Hop("d5", "i5")>>, "static")}}
OnLink == {Route(30, {"d3"}, <<Hop("", "i3")>>, "connected")}
AtB(o) == {{Long(<<Hop("d4", "i4")>>, o)}, {[Long(<<>>, o) EXCEPT !.discard = TRUE]},
           {Long(<<Hop("s2", "i2")>>, o)}, {}}

Tables(s, a, b) == (S :> s) @@ (A :> a) @@ (B :> b) @@ (D :> {})
Protocols(tables) == [d \in DOMAIN tables |-> {r \in tables[d] : r.origin \in {"ospf", "bgp"}}]
Old == Tables({}, {}, {})
OldRows == [d \in {S, A, B, D} |-> IF d = S THEN <<Route(30, {"x"}, <<ToB>>, "static")>>
                                   ELSE IF d = A THEN <<Route(24, Far, <<Hop("d5", "i5")>>, "static")>>
                                   ELSE <<>>]

Neighbor(type) == [at |-> S, iface |-> "i1", remote |-> "a", addr |-> "a1", state |-> "full", type |-> type]
DiamondFailures ==
  {Router("a"), Router("b"), Router("d"), Down("s", "i1"), Down("a", "i1"), Down("a", "i3"), Down("d", "i3"),
   Down("d", "lo"), NextHopLost(S, "a1"), NextHopLost(A, "d3"), AdjacencyLost(S, "i1", "a")}

Diamond(tables, rib, dest, intent, partial, view, type, broken) ==
  [source |-> S, dest |-> dest, ifaces |-> DiamondIfaces, fib |-> tables, rib |-> rib,
   intent |-> intent, failures |-> IF DOMAIN intent = {} THEN DiamondFailures ELSE {},
   backups |-> (S :> {Long(<<ToB>>, "ospf")}) @@ (A :> {Long(<<Hop("d5", "i5")>>, "ospf")})
               @@ (B :> {}) @@ (D :> {}),
   broken |-> IF broken = "no" THEN {} ELSE {[at |-> S, hop |-> ToA]},
   obs |-> File(DiamondIfaces, tables, rib, intent, partial, OldRows, view),
   checks |-> IF broken = "no" THEN {}
              ELSE {[at |-> S, iface |-> "i1", dest |-> dest, result |-> "fail",
                     hop |-> IF broken = "named" THEN "a1" ELSE ""]},
   tunnels |-> <<>>, adjacencies |-> {Neighbor(type)}, reply |-> "", boundaries |-> {}]

Seen(x, v) == [d \in {S, A, B, D} |-> IF d = x THEN v ELSE "whole"]
Whole == Seen(D, "whole")
NoIntent == <<>>

\* Whatever decides at s and a, with or without OSPF behind a static route of a,
\* and all of it recorded.
Origins ==
  {Diamond(t, [Protocols(t) EXCEPT ![A] = @ \cup hidden], "x", NoIntent, FALSE, Whole, type, "no") :
     t \in UNION {{Tables(s, a, b) : s \in AtS(os), a \in AtA(oa), b \in AtB(oa)} :
                    os \in {"static", "ospf", "bgp"}, oa \in {"static", "ospf"}},
     hidden \in {{}, {Long(<<Hop("d5", "i5")>>, "ospf")}},
     type \in {"point-to-point", "broadcast"}}

\* One domain of which less, or more than is true, is recorded.
Partial ==
  {Diamond(Tables(s, a, b), Old, "x", NoIntent, FALSE, Seen(x, v), "broadcast", "no") :
     s \in AtS("static"), a \in AtA("static"), b \in AtB("static"), x \in {S, A, B, D}, v \in Views}

\* A link that drops packets, and the check that says so; an address of a link.
Checked ==
  {Diamond(Tables(s, a, b), Old, "x", NoIntent, FALSE, Whole, "broadcast", k) :
     s \in AtS("static"), a \in AtA("static"), b \in AtB("static"), k \in {"named", "unnamed"}}
  \cup {Diamond(Tables(s, OnLink, b), Old, "d3", NoIntent, FALSE, Seen(D, v), "broadcast", "no") :
          s \in AtS("static"), b \in AtB("static"), v \in {"whole", "unlisted"}}

\* Intent at s, at a or at both, and a control plane that holds it too.
Meant ==
  {Diamond(Tables(s, a, b), rib, "x", intent, partial, Seen(S, v), "broadcast", "no") :
     s \in AtS("static") \cup {{}}, a \in AtA("static") \cup {{}}, b \in AtB("static"),
     rib \in {Old, Tables({Long(<<ToB>>, "ospf")}, {}, {})},
     intent \in {S :> {Long(<<ToA, ToB>>, "static")}, A :> {Long(<<Hop("d3", "i3")>>, "static")},
                 (S :> {Long(<<ToB>>, "static")}) @@ (B :> {Long(<<Hop("d4", "i4")>>, "static")})},
     partial \in BOOLEAN, v \in {"whole", "part"}}

-----------------------------------------------------------------------------
\* The diamond with a way back to s, over b in a routing domain of its own or not.
\* The file may give an address of another node for the source's.
Near == {"s1", "a1"}
BackAtD == {<<Hop("a3", "i3")>>, <<Hop("a5", "i5")>>, <<Hop("b4", "i4")>>,
            <<Hop("a3", "i3"), Hop("a5", "i5")>>, <<>>}

Returning(toA, a, back, b, x, v, reply, boundaries, checked) ==
  LET ifaces == [d \in {S, A, b, D} |-> DiamondIfaces[IF d = b THEN B ELSE d]]
      tables ==
        (S :> {Long(<<IF toA THEN ToA ELSE ToB>>, "static")}) @@
        (A :> {Long(<<a>>, "static"), Route(30, Near, <<Hop("", "i1")>>, "connected")}) @@
        (b :> {Long(<<Hop("d4", "i4")>>, "static"), Route(24, Near, <<Hop("s2", "i2")>>, "static")}) @@
        (D :> IF back = <<>> THEN {} ELSE {Route(24, Near, back, "static")})
      none == [d \in DOMAIN tables |-> {}]
      old == [d \in DOMAIN tables |->
                IF d = S THEN <<Long(<<ToB>>, "static")>>
                ELSE IF d = D THEN <<Route(30, Near, <<Hop("b4", "i4")>>, "static")>> ELSE <<>>]
  IN [source |-> S, dest |-> "x", ifaces |-> ifaces, fib |-> tables, rib |-> none, intent |-> NoIntent,
      failures |-> {}, backups |-> none, broken |-> {},
      obs |-> File(ifaces, tables, none, NoIntent, FALSE, old, [d \in DOMAIN tables |-> IF d = x THEN v ELSE "whole"]),
      checks |-> IF checked THEN {[at |-> A, iface |-> "i1", dest |-> "s1", result |-> "fail", hop |-> ""]} ELSE {},
      tunnels |-> <<>>, adjacencies |-> {}, reply |-> reply, boundaries |-> boundaries]

Answered ==
  {Returning(toA, a, back, b, x, v, "s1", boundaries, checked) :
     toA \in BOOLEAN, a \in {Hop("d3", "i3"), Hop("d5", "i5")}, back \in BackAtD,
     b \in {B, Under("b")}, x \in {S, A, D}, v \in {"whole"} \cup Views,
     boundaries \in {{}, {A}, {D}}, checked \in BOOLEAN}
  \cup {Returning(toA, Hop("d3", "i3"), back, B, x, v, "a1", {}, FALSE) :
          toA \in BOOLEAN, back \in BackAtD, x \in {S, A, D}, v \in {"whole"} \cup Views}

-----------------------------------------------------------------------------
\* The tunnel: s reaches d through t0, over m, and perhaps by a link of its own;
\* its underlay may ride another.
TunnelNets == [t |-> {"ts", "td"}, n |-> {"s9", "d9"}, u1 |-> {"s1", "m1"}, u2 |-> {"m2", "d2"},
               b |-> {"s7", "m7"}, x |-> {"x"}]
TunnelIfaces ==
  (S :> {Iface("t0", "ts", TunnelNets.t), Iface("i9", "s9", TunnelNets.n)}) @@
  (Under("s") :> {Iface("u1", "s1", TunnelNets.u1)}) @@
  (Base("s") :> {Iface("b1", "s7", TunnelNets.b)}) @@
  (Base("m") :> {Iface("b1", "m7", TunnelNets.b)}) @@
  (Under("m") :> {Iface("u1", "m1", TunnelNets.u1), Iface("u2", "m2", TunnelNets.u2)}) @@
  (Under("d") :> {Iface("u2", "d2", TunnelNets.u2)}) @@
  (D :> {Iface("t0", "td", TunnelNets.t), Iface("i9", "d9", TunnelNets.n), Iface("lo", "x", TunnelNets.x)})

TunnelTables(over, under) ==
  (S :> {Route(24, {"x"}, over, "static")}) @@
  (Under("s") :> {Route(24, {"m2", "d2"}, <<Hop("m1", "u1")>>, under)}) @@
  (Under("m") :> {Route(24, {"m2", "d2"}, <<Hop("", "u2")>>, "connected")}) @@
  (Base("s") :> {Route(24, {"s7", "m7"}, <<Hop("", "b1")>>, "connected")}) @@
  (Base("m") :> {}) @@ (Under("d") :> {}) @@ (D :> {})

Tunnel(over, under, x, v, nested) ==
  LET tables == TunnelTables(over, under)
      ds == DOMAIN tables
      none == [d \in ds |-> {}]
  IN [source |-> S, dest |-> "x", ifaces |-> TunnelIfaces, fib |-> tables,
      rib |-> Protocols(tables), intent |-> NoIntent, broken |-> {}, backups |-> none,
      failures |-> {Router("m"), Router("d"), Down("s", "u1"), Down("m", "u2"), Down("d", "u2"), Down("s", "t0"),
                    Down("d", "t0"), Down("s", "i9"), Down("d", "i9"), Down("m", "b1"), NextHopLost(S, "td"),
                    NextHopLost(Under("s"), "m1"), AdjacencyLost(Under("s"), "u1", "m")},
      obs |-> File(TunnelIfaces, tables, Protocols(tables), NoIntent, FALSE, [d \in ds |-> <<>>],
                   [d \in ds |-> IF d = x THEN v ELSE "whole"]),
      checks |-> {},
      tunnels |-> <<[at |-> S, iface |-> "t0", remote |-> "d2", underlay |-> Under("s")]>>
                  \o (IF nested THEN <<[at |-> Under("s"), iface |-> "u1", remote |-> "m7", underlay |-> Base("s")]>>
                      ELSE <<>>),
      adjacencies |-> {[at |-> Under("s"), iface |-> "u1", remote |-> "m", addr |-> "m1",
                        state |-> "full", type |-> "point-to-point"]},
      reply |-> "", boundaries |-> {}]

Tunnelled ==
  {Tunnel(over, under, x, v, nested) :
     over \in {<<Hop("td", "t0")>>, <<Hop("d9", "i9")>>, <<Hop("d9", "i9"), Hop("td", "t0")>>},
     under \in {"static", "ospf", "bgp"}, x \in {S, Under("s"), Under("m")},
     v \in {"whole", "unnamed", "silent"}, nested \in BOOLEAN}

Networks == Origins \cup Partial \cup Checked \cup Meant \cup Answered \cup Tunnelled

Network == INSTANCE ReadNetwork WITH Scenes <- Networks

-----------------------------------------------------------------------------
networkVars == <<obs, checks, tunnels, adjacencies, scene, fib, phase, fail, said, was>>

InitEvidence ==
  \/ part = "incidents" /\ Init
     /\ obs = <<>> /\ checks = {} /\ tunnels = <<>> /\ adjacencies = {}
     /\ scene = <<>> /\ fib = <<>> /\ phase = "idle" /\ fail = <<>> /\ said = <<>> /\ was = {}
  \/ part = "network" /\ Init /\ Network!Init

NextEvidence ==
  \/ part = "incidents" /\ Next /\ UNCHANGED <<part, networkVars>>
  \/ part = "network" /\ Network!Next /\ UNCHANGED <<part, vars>>

EvidenceSpec == InitEvidence /\ [][NextEvidence]_<<part, vars, networkVars>>

\* What is concluded from a topology file (routepath: compare.go, drift.go,
\* failure.go); stated and explained in ReadNetwork.
ExplanationIsTrue == Network!ExplanationIsTrue
RatingsAreTrue == Network!RatingsAreTrue
NoneIsUnchanged == Network!NoneIsUnchanged
=============================================================================
