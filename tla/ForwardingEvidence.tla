------------------------- MODULE ForwardingEvidence -------------------------
(***************************************************************************)
(* What a topology file says about one routing domain (internal/netmodel,  *)
(* internal/routepath/walk.go): the recorded tables of a plane, the        *)
(* decision they support, who owns an address, the two ends of a segment   *)
(* and the checks recorded on it.                                          *)
(*                                                                         *)
(* An observation is one reporter's view of one domain on one plane. Only  *)
(* a complete one proves an absence, and rows may disagree.                *)
(***************************************************************************)
EXTENDS Integers, Sequences, FiniteSets, SequencesExt

VARIABLES
  obs,     \* Model.Observations(): in canonical order
  checks   \* File.Checks

ReadPlanes == {"control", "configured", "fib"}

\* A domain is a routing domain of a node; an address, an interface and an
\* origin are names. A prefix is its length and the addresses it covers.
Nowhere == [node |-> "", vrf |-> ""]
NoAddr == ""
Unnamed == ""
NoPrefix == [bits |-> -1, covers |-> {}]

-----------------------------------------------------------------------------
\* Next hops. An interface a row does not name matches any.

Compatible(a, b) ==
  a.addr = b.addr /\ (a.iface = Unnamed \/ b.iface = Unnamed \/ a.iface = b.iface)

\* Every hop of the one list has a counterpart in the other, and back.
CoversHops(have, want) ==
  \A w \in ToSet(want) : \E h \in ToSet(have) : Compatible(w, h)

\* The counterparts are distinct, too: two lists of one width.
SameHops(a, b) ==
  /\ Len(a) = Len(b)
  /\ \E pair \in [DOMAIN a -> DOMAIN b] :
       /\ \A i, j \in DOMAIN a : i # j => pair[i] # pair[j]
       /\ \A i \in DOMAIN a : Compatible(a[i], b[pair[i]])

SameForwarding(a, b) == a.discard = b.discard /\ SameHops(a.hops, b.hops)

-----------------------------------------------------------------------------
\* The tables of one domain on one plane: their places in obs.

Tables(at, plane) == {i \in DOMAIN obs : obs[i].at = at /\ obs[i].plane = plane}

Complete(at, plane) == \E i \in Tables(at, plane) : obs[i].complete

\* The rows of these tables: a place is that of the table and that in it.
Places(at, plane) == UNION {{i} \X DOMAIN obs[i].routes : i \in Tables(at, plane)}
Row(p) == obs[p[1]].routes[p[2]]

Covering(at, plane, dest) == {p \in Places(at, plane) : dest \in Row(p).prefix.covers}

\* The prefixes that cover the destination; of two, one is longer.
Candidates(at, plane, dest) == {Row(p).prefix : p \in Covering(at, plane, dest)}

Longest(prefixes) == CHOOSE p \in prefixes : \A q \in prefixes : q.bits <= p.bits

Rows(at, plane, prefix) == {p \in Places(at, plane) : Row(p).prefix = prefix}

\* A fault: a table that lacks the prefix is passed over.
LookupPresent(at, plane, prefix) ==
  IF Rows(at, plane, prefix) = {} THEN "unknown" ELSE "present"

Disagree(a, b) ==
  LET forwards(r) == r.discard \/ r.hops # <<>>
  IN /\ a.origin = b.origin /\ forwards(a) /\ forwards(b)
     /\ a.discard # b.discard \/ ~CoversHops(a.hops, b.hops) \/ ~CoversHops(b.hops, a.hops)

\* What the plane knows of a prefix. Time never picks a winner.
Lookup(at, plane, prefix) ==
  LET rows == Rows(at, plane, prefix)
      lacking == \E i \in Tables(at, plane) : obs[i].complete /\ \A p \in rows : p[1] # i
      conflict == \E p, q \in rows : Disagree(Row(p), Row(q))
  IN CASE rows = {} /\ lacking -> "absent"
       [] rows = {} /\ ~lacking -> "unknown"
       [] rows # {} /\ (lacking \/ conflict) -> "conflicting"
       [] OTHER -> "present"

-----------------------------------------------------------------------------
\* The decision of one domain.

Undecided(kind, plane) ==
  [kind |-> kind, basis |-> plane, prefix |-> NoPrefix, proven |-> FALSE, shadowed |-> FALSE,
   hops |-> <<>>, origins |-> {}]

Named(hops) == Cardinality({i \in DOMAIN hops : hops[i].iface # Unnamed})

\* Of places, the first in canonical order.
Earlier(p, q) == p[1] < q[1] \/ (p[1] = q[1] /\ p[2] <= q[2])
First(places) == CHOOSE p \in places : \A q \in places : Earlier(p, q)

\* The first of the rows that name the most interfaces.
MostNamed(rows) ==
  Row(First({p \in rows : \A q \in rows : Named(Row(q).hops) <= Named(Row(p).hops)}))

\* The rows of the longest match decide. In the FIB they decide only if a complete
\* table stands behind them: a partial one may lack a longer match.
PickRow(at, plane, prefix, rows, best) ==
  LET agree == \A p, q \in rows : SameForwarding(Row(p), Row(q))
      kind == IF Lookup(at, plane, prefix) # "present" \/ ~agree THEN "conflicting"
              ELSE IF plane = "fib" /\ ~Complete(at, plane) THEN "unknown"
              ELSE IF best.discard THEN "discard"
              ELSE IF best.hops = <<>> THEN "unknown" ELSE "forward"
  IN [Undecided(kind, plane) EXCEPT
        !.prefix = prefix, !.proven = Complete(at, plane), !.origins = {Row(p).origin : p \in rows},
        !.hops = IF kind = "forward" THEN best.hops ELSE <<>>]

PickPrefix(at, plane, prefix, rows) == PickRow(at, plane, prefix, rows, MostNamed(rows))

\* A complete table without a match decides that there is no route.
Pick(at, plane, prefixes) ==
  IF prefixes = {}
    THEN [Undecided("no_route", plane) EXCEPT !.proven = TRUE]
    ELSE [PickPrefix(at, plane, Longest(prefixes), Rows(at, plane, Longest(prefixes)))
            EXCEPT !.shadowed = Cardinality(prefixes) > 1]

\* The first plane that holds a route for the destination, or a complete table
\* without one, decides.
DecideBy(planes, speaking, at, dest) ==
  IF speaking = {}
    THEN Undecided("unknown", planes[1])
    ELSE Pick(at, planes[Min(speaking)], Candidates(at, planes[Min(speaking)], dest))

Decide(planes, at, dest) ==
  DecideBy(planes,
           {i \in DOMAIN planes : Candidates(at, planes[i], dest) # {} \/ Complete(at, planes[i])},
           at, dest)

-----------------------------------------------------------------------------
\* Addresses. Only the planes of ReadPlanes own one.

Listed(at) == UNION {o.ifaces : o \in {q \in ToSet(obs) : q.at = at /\ q.plane \in ReadPlanes}}

Owners(addr) ==
  {at \in {o.at : o \in ToSet(obs)} : \E i \in Listed(at) : \E a \in i.addrs : a.addr = addr}

OwnerIfaces(at, addr) == {i.name : i \in {j \in Listed(at) : \E a \in j.addrs : a.addr = addr}}

SubnetsOf(at, iface, target) ==
  UNION {{a.net : a \in {b \in i.addrs : target \in b.net}} :
           i \in {j \in Listed(at) : j.name = iface}}

Target(hop, dest) == IF hop.addr = NoAddr THEN dest ELSE hop.addr

\* The interface a segment arrives on, or Unnamed: the one interface of the far
\* domain that holds the target, on a subnet the egress holds too.
ArrivesOn(to, target, held, near) ==
  IF Cardinality(held) = 1 /\ \A i \in held : SubnetsOf(to, i, target) \cap near # {}
    THEN CHOOSE i \in held : TRUE
    ELSE Unnamed

FarEnd(from, hop, to, dest) ==
  LET target == Target(hop, dest)
  IN IF hop.iface = Unnamed
       THEN Unnamed
       ELSE ArrivesOn(to, target, OwnerIfaces(to, target), SubnetsOf(from, hop.iface, target))

-----------------------------------------------------------------------------
\* The recorded checks of the segment that leaves at through hop. A check that
\* names no next hop is about the interface, and if several hops share it, about
\* none of them in particular.

ResultOf(found) ==
  LET results == {c.result : c \in found}
  IN CASE results = {"pass", "fail"} -> "conflicting"
       [] results = {"fail"} -> "fail"
       [] OTHER -> "pass"

Outcome(at, hop, dest, shared) ==
  LET on == {c \in checks : c.at = at /\ c.iface = hop.iface /\ c.dest = dest}
      unnamed == {c \in on : c.hop = NoAddr}
      named == {c \in on : c.hop # NoAddr /\ c.hop = hop.addr}
  IN CASE shared /\ unnamed # {} ->
            IF named # {} /\ ResultOf(named) # "pass" THEN ResultOf(named) ELSE "unattributed"
       [] ~(shared /\ unnamed # {}) /\ named \cup unnamed = {} -> "none"
       [] OTHER -> ResultOf(named \cup unnamed)
=============================================================================
