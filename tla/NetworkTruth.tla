---------------------------- MODULE NetworkTruth ----------------------------
(***************************************************************************)
(* A network that forwards by tables of its own, and what it is for a      *)
(* topology file to tell the truth of it. The network is external: this is *)
(* what the verdicts of HopVerdicts are about.                             *)
(***************************************************************************)
EXTENDS HopVerdicts

-----------------------------------------------------------------------------
\* The network: of a domain the routes of its table, and its interfaces.

Best(routes, dest) ==
  LET cover == {r \in routes : dest \in r.prefix.covers}
  IN {r \in cover : \A q \in cover : q.prefix.bits <= r.prefix.bits}

\* How a table forwards, in whatever order its next hops are kept.
Ways(routes, dest) ==
  {[prefix |-> r.prefix, discard |-> r.discard, hops |-> ToSet(r.hops)] : r \in Best(routes, dest)}

Holders(ifaces, d, addr) == {i \in ifaces[d] : \E a \in i.addrs : a.addr = addr}

NetsOf(ifaces, d, name) == UNION {{a.net : a \in i.addrs} : i \in {j \in ifaces[d] : j.name = name}}

\* The interfaces a packet for target reaches over interface out of d.
Landings(ifaces, d, out, target) ==
  {l \in [at : DOMAIN ifaces, iface : UNION {{i.name : i \in ifaces[e]} : e \in DOMAIN ifaces}] :
     \E i \in Holders(ifaces, l.at, target) :
       i.name = l.iface /\ \E a \in i.addrs : a.net \in NetsOf(ifaces, d, out)}

\* The segment runs into the failure f.
RunsInto(f, d, hop, origin, target, land) ==
  CASE f.kind = "none" -> FALSE
    [] f.kind = "router" -> land.at.node = f.at.node
    [] f.kind = "interface" -> \/ d.node = f.at.node /\ hop.iface = f.iface
                               \/ land.at.node = f.at.node /\ land.iface = f.iface
    [] f.kind = "next_hop" -> d = f.at /\ target = f.addr /\ f.iface \in {Unnamed, hop.iface}
    [] f.kind = "adjacency" -> /\ origin = "ospf"
                               /\ \/ d = f.at /\ hop.iface = f.iface
                                  \/ land.at = f.at /\ land.iface = f.iface

\* A flow for dest goes from one domain to the next until one holds dest. It ends
\* early where a table drops it, or where no one answers for its next hop.
SendsOn(ifaces, tables, dest, d, e) ==
  /\ Holders(ifaces, d, dest) = {}
  /\ \E r \in Best(tables[d], dest) : \E hop \in ToSet(r.hops) :
       ~r.discard /\ \E l \in Landings(ifaces, d, hop.iface, Target(hop, dest)) : l.at = e

IsFlow(ifaces, tables, dest, flow) ==
  /\ flow \in Seq(DOMAIN ifaces) /\ flow # <<>>
  /\ \A k \in 1..Len(flow) - 1 : SendsOn(ifaces, tables, dest, flow[k], flow[k + 1])

DropsAt(ifaces, tables, dest, d) ==
  /\ Holders(ifaces, d, dest) = {}
  /\ Best(tables[d], dest) = {} \/ \E r \in Best(tables[d], dest) : r.discard \/ r.hops = <<>>

Strands(ifaces, tables, dest, d) ==
  /\ Holders(ifaces, d, dest) = {}
  /\ \E r \in Best(tables[d], dest) : \E hop \in ToSet(r.hops) :
       ~r.discard /\ Landings(ifaces, d, hop.iface, Target(hop, dest)) = {}

-----------------------------------------------------------------------------
\* What a record tells of a table.

\* A hop as recorded may leave its interface out.
IsHop(told, hop) == told.addr = hop.addr /\ told.iface \in {Unnamed, hop.iface}

TellsHops(told, hops) ==
  /\ Len(told) = Len(hops)
  /\ \E pair \in [DOMAIN told -> DOMAIN hops] :
       /\ \A i, j \in DOMAIN told : i # j => pair[i] # pair[j]
       /\ \A i \in DOMAIN told : IsHop(told[i], hops[pair[i]])

Tells(row, r) ==
  /\ row.prefix = r.prefix /\ row.discard = r.discard /\ row.origin = r.origin
  /\ TellsHops(row.hops, r.hops)

\* Its rows are of the table, and are the table if it is complete.
IsTrue(o, routes) ==
  /\ \A row \in ToSet(o.routes) : \E r \in routes : Tells(row, r)
  /\ o.complete => \A r \in routes : \E row \in ToSet(o.routes) : Tells(row, r)

AllNamed(hops) == \A i \in DOMAIN hops : hops[i].iface # Unnamed

IsExact(o, routes) ==
  o.complete /\ IsTrue(o, routes) /\ \A row \in ToSet(o.routes) : AllNamed(row.hops)

-----------------------------------------------------------------------------
\* What the records of a domain on a plane tell of its table.

\* An address has at most one prefix of each length.
MaxBits == 128
Proper(prefixes) ==
  /\ \A p \in prefixes : p.bits \in 0..MaxBits
  /\ \A p, q \in prefixes : p.bits = q.bits /\ p.covers \cap q.covers # {} => p = q

\* A route has no next hop twice; a FIB, unlike a RIB, one route for a prefix.
IsRoute(r) == r.discard \in BOOLEAN /\ r.hops \in Seq(ToSet(r.hops))
IsTable(routes) ==
  \A r \in routes : IsRoute(r) /\ \A i, j \in DOMAIN r.hops : r.hops[i] = r.hops[j] => i = j
IsFib(routes) == \A r, q \in routes : r.prefix = q.prefix => r = q

\* Every record is true, or a complete one is exact: then the others may be old,
\* and tell of prefixes and next hops that are no longer there.
Truthful(at, plane, routes) ==
  /\ IsTable(routes)
  /\ \A p \in Places(at, plane) : IsRoute(Row(p))
  /\ Proper({r.prefix : r \in routes} \cup {Row(p).prefix : p \in Places(at, plane)})
  /\ \/ \A i \in Tables(at, plane) : IsTrue(obs[i], routes)
     \/ \E i \in Tables(at, plane) : IsExact(obs[i], routes)

\* The records of a file are sequences.
IsFile == obs \in Seq(ToSet(obs)) /\ \A o \in ToSet(obs) : o.routes \in Seq(ToSet(o.routes))

\* A record lists the interfaces of its domain or none; domains share no address.
Located(ifaces) ==
  /\ Nowhere \notin DOMAIN ifaces /\ \A d \in DOMAIN ifaces : IsFiniteSet(ifaces[d])
  /\ \A o \in ToSet(obs) :
       o.plane \in ReadPlanes => o.at \in DOMAIN ifaces /\ o.ifaces \in {{}, ifaces[o.at]}
  /\ \A d, e \in DOMAIN ifaces : \A i \in ifaces[d], j \in ifaces[e] : \A a \in i.addrs, b \in j.addrs :
       a.addr = b.addr => d = e

-----------------------------------------------------------------------------
\* What is said, held against the network.

\* A decision claims a route of the table it is read from: the one that decides,
\* if it is proven, as in the FIB it always is; or that the table has none.
DecisionIsTrue(d, dest, routes) ==
  /\ d.kind = "no_route" => d.proven /\ Best(routes, dest) = {}
  /\ d.kind \in {"forward", "discard"} =>
       \E r \in routes :
         /\ dest \in r.prefix.covers /\ r.prefix = d.prefix /\ r.origin \in d.origins
         /\ r.discard = (d.kind = "discard")
         /\ d.kind = "forward" => TellsHops(d.hops, r.hops)
         /\ d.proven => r \in Best(routes, dest)
  /\ Concrete(d) /\ d.basis = "fib" => d.proven

\* A disagreement is one of the tables, not of what was recorded of them.
DisagreementIsTrue(exp, fib, dest, rib, routes) ==
  Disagreement(exp, fib) # "none" => Ways(rib, dest) # Ways(routes, dest)

\* A FIB keeps to intent in a domain: both drop, or both forward to the same next
\* hops by the same prefix.
Addresses(hops) == {hop.addr : hop \in ToSet(hops)}

KeepsIntent(intent, routes, dest) ==
  \/ Best(intent, dest) = {} /\ Best(routes, dest) = {}
  \/ \E r \in Best(intent, dest), q \in Best(routes, dest) :
       /\ r.prefix = q.prefix /\ r.discard = q.discard
       /\ r.discard \/ Addresses(r.hops) = Addresses(q.hops)

\* No drift there is none of the tables, wherever the walks lead.
DriftIsNone(int, fib, dest, intent, routes) ==
  (\E on \in BOOLEAN, sub, want, root \in {Delivers, Unproven, Fails} :
     Classify(int, fib, on, sub, want, root) = "none")
  => KeepsIntent(intent, routes, dest)

\* What shows that a walk over the FIBs delivers, of its domains: each owns dest, or
\* is decided to forward to others of them; and of however few of them, one owns dest
\* or forwards to none of these.
Forwarded(d, dest) == Decide(ForwardingPlanes, d, dest).hops

Onward(d, dest) ==
  UNION {Owners(Target(hop, dest)) : hop \in ToSet(Forwarded(d, dest))}

ShownToDeliver(ds, dest) ==
  /\ \A d \in ds \ Owners(dest) :
       /\ Decide(ForwardingPlanes, d, dest).kind = "forward"
       /\ \A hop \in ToSet(Forwarded(d, dest)) : \E e \in ds : Owners(Target(hop, dest)) = {e}
  /\ \A some \in SUBSET ds : some # {} =>
       \E d \in some : d \in Owners(dest) \/ Onward(d, dest) \cap some = {}

\* What shows that it fails, of the domains of a branch: each is decided to forward
\* to the next, and the last has no route, discards, or was there before.
ShownToFail(branch, dest) ==
  /\ branch # <<>>
  /\ \A k \in 1..Len(branch) : branch[k] \notin Owners(dest)
  /\ \A k \in 1..Len(branch) - 1 :
       /\ Decide(ForwardingPlanes, branch[k], dest).kind = "forward"
       /\ \E hop \in ToSet(Forwarded(branch[k], dest)) : Owners(Target(hop, dest)) = {branch[k + 1]}
  /\ \/ Drops(Decide(ForwardingPlanes, branch[Len(branch)], dest))
     \/ \E k \in 1..Len(branch) - 1 : branch[k] = branch[Len(branch)]

\* The failure cuts none of the segments of a walk.
Spared(f, ds, dest) ==
  \A d \in ds \ Owners(dest) : \A hop \in ToSet(Forwarded(d, dest)) :
    Sever(f, d, hop, dest, Decide(ForwardingPlanes, d, dest).origins) = "kept"

\* Cut is the segment that runs into the failure, and kept the one that does not.
SeverIsTrue(f, at, told, dest, origins, hop, origin, land) ==
  LET runs == RunsInto(f, at, hop, origin, Target(hop, dest), land)
      cut == Sever(f, at, told, dest, origins)
  IN (cut = "cut" => runs) /\ (cut = "kept" => ~runs)
=============================================================================
