----------------------------- MODULE HopVerdicts -----------------------------
(***************************************************************************)
(* What internal/routepath says of one domain or of one segment, before    *)
(* any walk: where two decisions of a domain disagree (compare.go), what   *)
(* drift that is (drift.go), and whether a failure cuts a segment          *)
(* (failure.go).                                                           *)
(***************************************************************************)
EXTENDS ForwardingEvidence

VARIABLE
  adjacencies  \* control-plane OSPF neighbor records: [at, iface, remote, addr, state, type]

ForwardingPlanes == <<"fib">>
ExpectedPlanes == <<"control", "configured">>
IntendedPlanes == <<"intended", "fib">>

\* A failure: of a router, of an interface, of a next hop of one domain, or of an
\* OSPF adjacency. Fields that do not apply are empty.
NoFailure == [kind |-> "none", at |-> Nowhere, iface |-> Unnamed, addr |-> NoAddr, remote |-> ""]

-----------------------------------------------------------------------------
\* Two decisions of one domain.

Concrete(d) == d.kind \in {"forward", "discard", "no_route"}
Drops(d) == d.kind \in {"no_route", "discard"}

\* What the two decisions of one domain disagree on, or "none".
Disagreement(exp, fib) ==
  IF ~Concrete(exp) \/ ~Concrete(fib) \/ (exp.kind = "no_route" /\ fib.kind = "no_route")
    THEN "none"
  ELSE IF fib.kind = "no_route"
    THEN "control_route_not_in_fib"
  ELSE IF exp.kind = "no_route"
    THEN "fib_differs_from_control"
  ELSE IF exp.prefix.bits > fib.prefix.bits
    THEN "control_route_not_in_fib"
  ELSE IF exp.proven /\ (exp.prefix # fib.prefix \/ exp.kind # fib.kind \/ ~SameHops(exp.hops, fib.hops))
    THEN "fib_differs_from_control"
  ELSE "none"

\* What a walk shows about delivery. Failure outranks doubt, and doubt delivery.
Delivers == 0
Unproven == 1
Fails == 2

\* One domain, by what intent and the FIB decide there. on: the FIB walk from the
\* source visits it; sub: the reach of the FIB from it; want: the reach when intent
\* decides here and the FIB after; root: the reach from the source.
Classify(int, fib, on, sub, want, root) ==
  LET same == \/ Drops(int) /\ Drops(fib)
              \/ int.kind = fib.kind /\ CoversHops(fib.hops, int.hops) /\ CoversHops(int.hops, fib.hops)
      fewer == fib.hops # <<>> /\ CoversHops(int.hops, fib.hops) /\ ~CoversHops(fib.hops, int.hops)
      lost == sub = Fails /\ want = Delivers
  IN IF ~Concrete(int) \/ ~Concrete(fib) \/ ~int.proven THEN "unknown"
     ELSE IF same THEN IF int.prefix = fib.prefix THEN "none" ELSE "benign"
     ELSE IF Drops(int) THEN "unknown"
     ELSE IF on /\ lost THEN "reachability_lost"
     ELSE IF root # Delivers THEN "unknown"
     ELSE IF fewer \/ (~on /\ lost) THEN "redundancy_lost"
     ELSE IF sub = Delivers THEN "benign"
     ELSE "unknown"

-----------------------------------------------------------------------------
\* What the failure does to the segment that leaves at through hop: "kept",
\* "cut", or "unknown" where the evidence cannot say.

\* Where the segment crosses the failed interface. It leaves its domain by it,
\* or arrives on the interface far.
Crosses(f, iface) ==
  IF iface = Unnamed THEN "unknown" ELSE IF iface = f.iface THEN "cut" ELSE "kept"

CrossesLink(f, at, hop, dest, leaves, to) ==
  CASE leaves -> Crosses(f, hop.iface)
    [] ~leaves /\ to = Nowhere -> "kept"
    [] OTHER -> Crosses(f, FarEnd(at, hop, to, dest))

Sole(owners) == IF Cardinality(owners) = 1 THEN CHOOSE d \in owners : TRUE ELSE Nowhere
Holder(addr) == Sole(Owners(addr))

\* to is the one domain that owns the segment's target.
SeverElement(f, at, hop, dest, to) ==
  CASE f.kind = "router" -> IF to.node = f.at.node THEN "cut" ELSE "kept"
    [] f.kind = "interface" -> CrossesLink(f, at, hop, dest, at.node = f.at.node,
                                           IF to.node = f.at.node THEN to ELSE Nowhere)

\* Only the failed domain loses the next hop, on the named interface.
SeverNextHop(f, at, hop, dest) ==
  IF at # f.at \/ Target(hop, dest) # f.addr \/ (f.iface # Unnamed /\ hop.iface \notin {Unnamed, f.iface})
    THEN "kept"
  ELSE IF hop.addr = NoAddr \/ (f.iface # Unnamed /\ hop.iface = Unnamed)
    THEN "unknown"
    ELSE "cut"

\* The records prove that the link is of no use to OSPF without the adjacency.
Records(f) == {r \in adjacencies : r.at = f.at /\ r.iface = f.iface}
TransitProven(f) ==
  /\ \A r \in Records(f) : r.remote = f.remote /\ r.state = "full" /\ r.type = "point-to-point"
  /\ Cardinality({r.addr : r \in Records(f)}) = 1

SeverAdjacency(f, at, hop, origins, crosses) ==
  LET ofTheLink == IF at = f.at THEN \E r \in Records(f) : hop.addr = r.addr ELSE at.node = f.remote
  IN CASE "bgp" \in origins -> "unknown"
       [] "bgp" \notin origins /\ (crosses = "kept" \/ origins \subseteq {"connected", "static"}) -> "kept"
       [] OTHER -> IF crosses = "cut" /\ origins = {"ospf"} /\ TransitProven(f) /\ ofTheLink
                     THEN "cut" ELSE "unknown"

Sever(f, at, hop, dest, origins) ==
  CASE f.kind = "none" -> "kept"
    [] f.kind \in {"router", "interface"} ->
         SeverElement(f, at, hop, dest, Holder(Target(hop, dest)))
    [] f.kind = "next_hop" -> SeverNextHop(f, at, hop, dest)
    [] f.kind = "adjacency" ->
         SeverAdjacency(f, at, hop, origins,
                        CrossesLink(f, at, hop, dest, at = f.at,
                                    IF Holder(Target(hop, dest)) = f.at THEN f.at ELSE Nowhere))

\* An address of the interface that is down: whether it is still answered for
\* depends on the platform.
HeldOnFailure(f, at, dest) ==
  f.kind = "interface" /\ f.at.node = at.node /\ f.iface \in OwnerIfaces(at, dest)
=============================================================================
