----------------------------- MODULE ReadNetwork -----------------------------
(***************************************************************************)
(* A network, the topology file recorded from it, what the program says    *)
(* from the file (ReturnPath), and what then happens to the network.       *)
(*                                                                         *)
(* The file never changes and may be partial or doubled by an old record;  *)
(* what it records is otherwise true. The network forwards by tables of    *)
(* its own. Once the failure asked about happens, domains may notice it in *)
(* any order, or never, and protocols may compute other routes. The        *)
(* network is external: this is what the verdicts are about, not code.     *)
(***************************************************************************)
EXTENDS ReturnPath, NetworkTruth

\* The networks and their files: [source, dest, ifaces, fib, rib, intent, backups,
\* broken, failures] and [obs, checks, tunnels, adjacencies, reply, boundaries].
CONSTANT Scenes

VARIABLES
  scene,   \* the network, but for its tables
  fib,     \* the table each domain forwards by: a set of routes
  phase,   \* "recorded"; "explained"; "asked", about a failure; "struck" by it
  fail,    \* the failure asked about
  said,    \* what the program said, and of which domains
  was      \* history: how packets ended before the failure

vars == <<file, scene, fib, phase, fail, said, was>>

Domains == DOMAIN fib
Silent == [reach |-> Unproven, drift |-> "unknown", compared |-> {}, differ |-> {}, symmetry |-> "none",
           impact |-> "unknown", half |-> FALSE]

Init ==
  /\ scene \in Scenes
  /\ obs = scene.obs /\ checks = scene.checks
  /\ tunnels = scene.tunnels /\ adjacencies = scene.adjacencies
  /\ fib = scene.fib
  /\ phase = "recorded" /\ fail = NoFailure /\ said = Silent /\ was = {}

-----------------------------------------------------------------------------
\* Where packets end. Over several next hops a flow takes either, so an end is
\* possible: [end, met], and met if the flow met the failure.

End(end, met) == [end |-> end, met |-> met]

Holding(d, addr) == Holders(scene.ifaces, d, addr)
Reached(d, out, target) == Landings(scene.ifaces, d, out, target)

RECURSIVE Flows(_, _, _, _, _, _)

\* A lost adjacency leaves its link up: packets still cross it.
Legs(tables, f, d, dest, route, path, riding) ==
  LET rides(hop) == {t \in ToSet(tunnels) : t.at = d /\ t.iface = hop.iface}
      under(hop) ==
        IF rides(hop) = {} THEN {End("delivered", FALSE)}
        ELSE IF rides(hop) \subseteq riding THEN {End("dropped", FALSE)}
        ELSE UNION {Flows(tables, f, t.underlay, t.remote, {}, riding \cup {t}) : t \in rides(hop)}
      over(hop) ==
        LET target == Target(hop, dest)
            broken == [at |-> d, hop |-> hop] \in scene.broken
            lands == Reached(d, hop.iface, target)
            into(l) == RunsInto(f, d, hop, route.origin, target, l)
            onward(l) == IF (into(l) /\ f.kind # "adjacency") \/ broken
                           THEN {End("dropped", into(l))}
                           ELSE {End(o.end, o.met \/ into(l)) : o \in Flows(tables, f, l.at, dest, path, riding)}
        IN IF lands = {} THEN {End("dropped", FALSE)} ELSE UNION {onward(l) : l \in lands}
  IN UNION {{End(IF u.end = "dropped" THEN "dropped" ELSE o.end, u.met \/ o.met) :
               u \in under(hop), o \in over(hop)} : hop \in ToSet(route.hops)}

\* The ends of the flows for dest from d, with the failure f in force.
Flows(tables, f, d, dest, path, riding) ==
  LET best == Best(tables[d], dest)
      route == CHOOSE r \in best : TRUE
      held == {i.name : i \in Holding(d, dest)}
  IN IF held # {}
       THEN {End("delivered", FALSE)} \cup
            (IF f.kind = "interface" /\ f.at.node = d.node /\ f.iface \in held
               THEN {End("dropped", TRUE)} ELSE {})
     ELSE IF d \in path \/ best = {} \/ (best # {} /\ route.discard)
       THEN {End("dropped", FALSE)}
     ELSE IF route.hops = <<>>
       THEN {End("dropped", TRUE)}
     ELSE Legs(tables, f, d, dest, route, path \cup {d}, riding)

Force == IF phase = "struck" THEN fail ELSE NoFailure

Ends(tables) == {o.end : o \in Flows(tables, Force, scene.source, scene.dest, {}, {})}

-----------------------------------------------------------------------------
\* The program reads the file.

Explained(fwd, overlay) ==
  [Silent EXCEPT !.reach = ReachOf(fwd.hop, <<>>),
                 !.drift = DriftLevel(scene.source, scene.dest, overlay, fwd),
                 !.compared = {h.at : h \in Compared(overlay.hop)},
                 !.differ = Disagreements(scene.source, scene.dest, fwd),
                 !.symmetry = Asymmetry(fwd, scene.source, scene.dest, scene.reply, scene.boundaries)]

Explain ==
  /\ phase = "recorded" /\ phase' = "explained"
  /\ said' = Explained(Recorded(scene.source, scene.dest),
                       Run(IntendedPlanes, scene.source, scene.dest, NoFailure))
  /\ UNCHANGED <<file, scene, fib, fail, was>>

\* One branch is shown to fail while another goes where the file cannot say.
HalfRead(hop) ==
  LET open(x) == \/ x.decision.kind = "forward" /\ ~x.decision.proven
                 \/ x.decision.kind \notin {"local", "forward", "no_route", "discard", "loop"}
                 \/ x.via.outcome \notin {"none", "pass"}
  IN ReachOf(hop, <<>>) = Fails /\ \E x \in Hops(hop) : open(x)

Simulate ==
  /\ phase = "recorded" /\ phase' = "asked"
  /\ fail' \in scene.failures
  /\ said' = [Silent EXCEPT !.impact = Impact(scene.source, scene.dest, fail'),
                            !.half = HalfRead(Recorded(scene.source, scene.dest).hop)]
  /\ was' = Ends(fib)
  /\ UNCHANGED <<file, scene, fib>>

-----------------------------------------------------------------------------
\* The network. A route whose every leg is gone stays a while as a dead one.

Cuts(f, d, r, hop) ==
  \E l \in Reached(d, hop.iface, Target(hop, scene.dest)) :
    RunsInto(f, d, hop, r.origin, Target(hop, scene.dest), l)

Without(r, lost(_)) == [r EXCEPT !.hops = SelectSeq(@, LAMBDA hop : ~lost(hop))]

Change(d, routes) ==
  /\ routes # fib[d]
  /\ fib' = [fib EXCEPT ![d] = routes]
  /\ UNCHANGED <<file, scene, phase, fail, said, was>>

\* The failure. A domain whose own interface goes down stops using it at once.
Strike ==
  /\ phase = "asked" /\ phase' = "struck"
  /\ fib' = [d \in Domains |->
       IF fail.kind = "interface" /\ fail.at.node = d.node
         THEN {Without(r, LAMBDA hop : hop.iface = fail.iface) : r \in fib[d]}
         ELSE fib[d]]
  /\ UNCHANGED <<file, scene, fail, said, was>>

\* A domain learns of it, and stops using what it cuts.
Notice ==
  /\ phase = "struck" /\ fail.kind # "adjacency"
  /\ \E d \in Domains : Change(d, {Without(r, LAMBDA hop : Cuts(fail, d, r, hop)) : r \in fib[d]})

\* A dead route is withdrawn: a shorter one may take over.
Withdraw ==
  /\ phase = "struck"
  /\ \E d \in Domains : Change(d, {r \in fib[d] : r.discard \/ r.hops # <<>>})

\* A protocol of d puts another route, or none, in place of r.
Replace(d, r) ==
  \E new \in {{}} \cup {{b} : b \in scene.backups[d]} : Change(d, (fib[d] \ {r}) \cup new)

\* OSPF computes again what the failure took from it. What avoids the failure
\* costs what it did: only a route with no such leg is replaced.
Recompute ==
  /\ phase = "struck" /\ fail.kind # "next_hop"
  /\ \E d \in Domains : \E r \in Best(fib[d], scene.dest) :
       LET met(hop) == \E o \in Legs(fib, fail, d, scene.dest, [r EXCEPT !.hops = <<hop>>], {d}, {}) : o.met
           offers == r.origin = "ospf" \/ \E q \in scene.rib[d] : q.origin \in {"ospf", "bgp"}
       IN \/ /\ r.origin = "ospf" /\ \E hop \in ToSet(r.hops) : ~met(hop)
             /\ Change(d, (fib[d] \ {r}) \cup {Without(r, met)})
          \/ /\ r.origin = "ospf" /\ \A hop \in ToSet(r.hops) : met(hop)
             /\ Replace(d, r)
          \/ offers /\ r.hops = <<>> /\ ~r.discard /\ Replace(d, r)

\* BGP may lose a session or a next hop over anything that failed.
Reroute ==
  /\ phase = "struck" /\ fail.kind # "next_hop"
  /\ \E d \in Domains : \E r \in fib[d] : r.origin = "bgp" /\ Replace(d, r)

\* Repaired, and asked again.
Again ==
  /\ phase \in {"explained", "struck"} /\ phase' = "recorded"
  /\ fib' = scene.fib /\ fail' = NoFailure /\ said' = Silent /\ was' = {}
  /\ UNCHANGED <<file, scene>>

Next ==
  Explain \/ Simulate \/ Strike \/ Notice \/ Withdraw \/ Recompute \/ Reroute \/ Again

Spec == Init /\ [][Next]_vars

-----------------------------------------------------------------------------
TypeOK ==
  /\ phase \in {"recorded", "explained", "asked", "struck"}
  /\ said.reach \in {Delivers, Unproven, Fails}
  /\ said.drift \in ToSet(DriftRank)
  /\ said.symmetry \in {"none", "symmetric", "asymmetric_benign", "asymmetric_risk", "unknown"}
  /\ said.impact \in {"none", "redundancy_lost", "reachability_lost", "unknown"}
  /\ was \subseteq {"delivered", "dropped"}

\* The table the network would forward by if the domains in ds followed intent.
Intended(ds) == [d \in Domains |-> IF d \in ds THEN scene.intent[d] ELSE fib[d]]

\* The branches of a walk: the domains of each.
RECURSIVE Branches(_)
Branches(h) ==
  IF h.next = <<>> THEN {<<h.at>>}
  ELSE UNION {{<<h.at>> \o more : more \in Branches(c)} : c \in ToSet(h.next)}

\* Whatever the file leaves out, what an explanation decides is so: a path shown
\* to deliver delivers every flow, one shown to fail drops some. And the domains of
\* the walk show it as the theorems about flows need (EvidenceProofs).
WalkIsTrue ==
  /\ said.reach = Delivers =>
       /\ Ends(fib) = {"delivered"}
       /\ ShownToDeliver({h.at : h \in Hops(Recorded(scene.source, scene.dest).hop)}, scene.dest)
  /\ said.reach = Fails =>
       /\ "dropped" \in Ends(fib)
       /\ \E b \in Branches(Recorded(scene.source, scene.dest).hop) : ShownToFail(b, scene.dest)

\* Drift: where the FIB is said to keep to intent, either nothing is lost or
\* following intent at the domains compared would change nothing; redundancy is
\* lost only while everything arrives, and reachability only if something does
\* not that intent would deliver.
DriftIsTrue ==
  /\ said.drift \in {"none", "benign"} =>
       Ends(fib) = {"delivered"} \/ Ends(Intended(said.compared)) = Ends(fib)
  /\ said.drift = "redundancy_lost" => Ends(fib) = {"delivered"}
  /\ said.drift = "reachability_lost" => "dropped" \in Ends(fib)

\* A disagreement is one of the tables, not of what was recorded of them.
FindingsAreTrue ==
  \A x \in said.differ : Ways(scene.rib[x.at], scene.dest) # Ways(fib[x.at], scene.dest)

\* The links a flow for dest crosses from d before it arrives: one sequence for
\* each way it may go.
RECURSIVE Crossings(_, _, _)
Crossings(d, dest, path) ==
  LET legs == UNION {ToSet(r.hops) : r \in Best(fib[d], dest)}
      over(hop, l) == [near |-> [at |-> d, iface |-> hop.iface], far |-> l]
      beyond(hop) ==
        UNION {{<<over(hop, l)>> \o more : more \in Crossings(l.at, dest, path \cup {d})} :
                 l \in Reached(d, hop.iface, Target(hop, dest))}
  IN IF Holding(d, dest) # {} THEN {<<>>}
     ELSE IF d \in path THEN {}
     ELSE UNION {beyond(hop) : hop \in legs}

Turned(links) == Reverse([i \in DOMAIN links |-> Back(links[i])])
Visited(links) == UNION {{l.near.at, l.far.at} : l \in ToSet(links)}

\* Symmetric means that whatever way a flow goes, the answer takes the same links
\* back; asymmetric, that it reaches the source and never does; and benign, that no
\* boundary and no other routing domain is met in one direction only.
ReturnIsTrue ==
  LET ways == Crossings(scene.source, scene.dest, {})
      replies == UNION {Crossings(d, scene.reply, {}) :
                          d \in {e \in Domains : Holding(e, scene.dest) # {}}}
  IN /\ said.symmetry = "symmetric" =>
          ways # {} /\ replies # {} /\ \A w \in ways, r \in replies : r = Turned(w)
     /\ said.symmetry \in {"asymmetric_benign", "asymmetric_risk"} =>
          /\ ways # {} /\ replies # {}
          /\ \A w \in ways, r \in replies : r # Turned(w) /\ Last(r).far.at = scene.source
     /\ said.symmetry = "asymmetric_benign" =>
          \A w \in ways, r \in replies :
            /\ Visited(w) \cap scene.boundaries = Visited(r) \cap scene.boundaries
            /\ {d.vrf : d \in Visited(w)} = {d.vrf : d \in Visited(r)}

\* The file is a true one, and the question is asked from elsewhere than the
\* destination: so it is for the theorems of EvidenceProofs, whatever the file.
FileIsTrue ==
  /\ IsFile /\ Located(scene.ifaces) /\ Holding(scene.source, scene.dest) = {}
  /\ \A d \in Domains :
       /\ IsFib(scene.fib[d]) /\ Truthful(d, "fib", scene.fib[d])
       /\ \A plane \in ToSet(ExpectedPlanes) : Truthful(d, plane, scene.rib[d])
       /\ d \in DOMAIN scene.intent => Truthful(d, "intended", scene.intent[d])

\* What is decided of a domain is true of the tables it is read from, what two
\* decisions disagree on, of the tables, and where they do not drift, neither do
\* the tables.
HopsAreTrue ==
  \A d \in Domains :
    LET exp == Decide(ExpectedPlanes, d, scene.dest)
        now == Decide(ForwardingPlanes, d, scene.dest)
    IN /\ DecisionIsTrue(exp, scene.dest, scene.rib[d]) /\ DecisionIsTrue(now, scene.dest, fib[d])
       /\ DisagreementIsTrue(exp, now, scene.dest, scene.rib[d], fib[d])
       /\ d \in DOMAIN scene.intent =>
            DriftIsNone(Decide(<<"intended">>, d, scene.dest), now, scene.dest, scene.intent[d], fib[d])

ExplanationIsTrue ==
  phase = "explained" =>
    FileIsTrue /\ HopsAreTrue /\ WalkIsTrue /\ DriftIsTrue /\ FindingsAreTrue /\ ReturnIsTrue

\* What the failure is said to cut, or to keep, of the segments it is read from.
SegmentsAreTrue ==
  \A d \in Domains : \A r \in Best(fib[d], scene.dest) : \A i \in DOMAIN r.hops :
    LET hop == r.hops[i]
        owners == Owners(Target(hop, scene.dest))
    IN Cardinality(owners) = 1 =>
         \A told \in {hop, [hop EXCEPT !.iface = Unnamed]} :
           \A land \in Reached(d, hop.iface, Target(hop, scene.dest)) :
             SeverIsTrue(fail, d, told, scene.dest, {r.origin}, hop, r.origin, land)

\* A rating holds from the moment the failure strikes, whoever has noticed and
\* whatever a protocol has computed by then: none changes nothing, but for a path
\* half read; redundancy lost still delivers every flow; and reachability lost
\* drops one that arrived.
RatingsAreTrue ==
  /\ phase = "asked" =>
       /\ SegmentsAreTrue
       /\ LET walk == Recorded(scene.source, scene.dest).hop
          IN said.impact = "none" /\ ReachOf(walk, <<>>) = Delivers =>
               Spared(fail, {h.at : h \in Hops(walk)}, scene.dest)
  /\ phase = "struck" =>
       /\ said.impact = "none" => Ends(fib) = was \/ said.half
       /\ said.impact = "redundancy_lost" => Ends(fib) = {"delivered"}
       /\ said.impact = "reachability_lost" => was = {"delivered"} /\ "dropped" \in Ends(fib)

\* As docs/reference.md:1946 has it: none says that no recorded branch crosses
\* the failure and that the forwarding before it is proven, whether it delivers
\* or not, so the failure changes nothing.
NoneIsUnchanged == phase = "struck" /\ said.impact = "none" => Ends(fib) = was
=============================================================================
