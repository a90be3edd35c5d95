---------------------------- MODULE RouteVerdicts ----------------------------
(***************************************************************************)
(* What is concluded from the walks of RoutePath: the places where the     *)
(* control plane and the FIB disagree (compare.go), the drift of the FIB   *)
(* from intent (drift.go), and the impact of one failure (failure.go).     *)
(***************************************************************************)
EXTENDS RoutePath

Recorded(source, dest) == Run(ForwardingPlanes, source, dest, NoFailure)
FibReach(source, dest) == ReachOf(Recorded(source, dest).hop, <<>>)

-----------------------------------------------------------------------------
\* Control plane and FIB.

\* Each domain the FIB decided, against the first decision the expected walk
\* made there.
Compare(expected, fib) ==
  LET first(at) == SelectSeq(expected, LAMBDA h : h.at = at)[1].decision
      met == {h \in fib : /\ h.decision.basis = "fib" /\ h.at # Nowhere
                          /\ \E e \in ToSet(expected) : e.at = h.at}
  IN {d \in {[at |-> h.at, kind |-> Disagreement(first(h.at), h.decision)] : h \in met} :
        d.kind # "none"}

Disagreements(source, dest, fwd) ==
  Compare(Walked(Run(ExpectedPlanes, source, dest, NoFailure).hop), Hops(fwd.hop))

-----------------------------------------------------------------------------
\* Drift.

DriftRank == <<"none", "benign", "unknown", "redundancy_lost", "reachability_lost">>

IntentStated == \E o \in ToSet(obs) : o.plane = "intended" /\ (o.routes # <<>> \/ o.complete)

\* The hops of the intended walk where intent decided.
Compared(overlay) ==
  {h \in Hops(overlay) : /\ h.decision.basis = "intended"
                         /\ ~(h.decision.kind = "unknown" /\ h.decision.prefix = NoPrefix)}

\* The worst of several findings.
WorstDrift(found) ==
  DriftRank[CHOOSE i \in DOMAIN DriftRank :
              /\ DriftRank[i] \in {"none"} \cup found
              /\ \A j \in i+1..Len(DriftRank) : DriftRank[j] \notin found]

\* Several domains' intent may deliver together where no one's does.
DriftOver(overlay, fwd, dest, root) ==
  LET on == {h.at : h \in Hops(fwd.hop)}
      after(h) == [d \in {c.at : c \in ToSet(h.next)} \ {Nowhere} |-> FibReach(d, dest)]
      found == {Classify(Decide(<<"intended">>, h.at, dest), Decide(ForwardingPlanes, h.at, dest),
                         h.at \in on, FibReach(h.at, dest), ReachOf(h, after(h)), root) :
                  h \in Compared(overlay.hop)}
      doubt == IF overlay.st.truncated \/ fwd.st.truncated \/ Compared(overlay.hop) = {}
                 THEN {"unknown"} ELSE {}
  IN IF root = Fails /\ ReachOf(overlay.hop, <<>>) = Delivers
       THEN "reachability_lost" ELSE WorstDrift(found \cup doubt)

DriftLevel(source, dest, overlay, fwd) ==
  IF IntentStated THEN DriftOver(overlay, fwd, dest, ReachOf(fwd.hop, <<>>)) ELSE "unknown"

-----------------------------------------------------------------------------
\* The impact of one failure on one destination.

Rate(before, after, touched) ==
  IF before = Unproven THEN "unknown"
  ELSE IF ~touched THEN "none"
  ELSE IF before = Fails THEN "unknown"
  ELSE IF after = Delivers THEN "redundancy_lost"
  ELSE IF after = Fails THEN "reachability_lost"
  ELSE "unknown"

\* A leg was cut at a node whose own link stays up.
FarCut(f, h) == \E x \in Hops(h) : x.decision.kind = "failed" /\ x.via.from.node # f.at.node

\* OSPF or BGP decides at the hop, or may once the cut route is gone.
ProtocolAt(h, dest) ==
  LET protocols == {"ospf", "bgp"}
      held == {Row(p).origin : p \in Covering(h.at, "control", dest)}
  IN h.decision.kind = "forward" /\ (h.decision.origins \cup held) \cap protocols # {}

\* The branches that end with no surviving next hop: for each, whether a
\* protocol holds a route on it.
RECURSIVE LostBranches(_, _, _)
LostBranches(h, dest, held) ==
  LET here == held \/ ProtocolAt(h, dest)
      lost == h.next # <<>> /\ \A c \in ToSet(h.next) : c.decision.kind = "failed"
  IN IF lost THEN IF ReachOf(h, <<>>) = Fails THEN {here} ELSE {}
             ELSE UNION {LostBranches(c, dest, here) : c \in ToSet(h.next)}

RatedOver(source, dest, after) ==
  Rate(ReachOf((IF after.st.touched THEN Recorded(source, dest) ELSE after).hop, <<>>),
       ReachOf(after.hop, <<>>), after.st.touched)

\* A fault: a protocol beside the lost branch is not asked about.
ImpactUnguarded(source, dest, f) ==
  RatedOver(source, dest, Run(ForwardingPlanes, source, dest, f))

\* What a rating may not claim: that a protocol finds no other path, that a node
\* stops using a leg whose link stays up, that a failure off the path leaves BGP
\* alone.
Doubtful(dest, f, after, rated) ==
  LET element == f.kind \in {"router", "interface"}
      gone == /\ f.kind = "router" /\ Owners(dest) # {}
              /\ \A o \in Owners(dest) : o.node = f.at.node
  IN \/ /\ rated = "reachability_lost"
        /\ f.kind = "adjacency" \/ (element /\ ~gone /\ LostBranches(after.hop, dest, FALSE) = {TRUE})
     \/ /\ rated = "redundancy_lost"
        /\ f.kind = "next_hop" \/ (element /\ FarCut(f, after.hop))
     \/ /\ rated \in {"none", "redundancy_lost"}
        /\ element /\ BgpForwards(after.hop)

Guarded(dest, f, after, rated) == IF Doubtful(dest, f, after, rated) THEN "unknown" ELSE rated

ImpactAfter(source, dest, f, after) == Guarded(dest, f, after, RatedOver(source, dest, after))

Impact(source, dest, f) ==
  ImpactAfter(source, dest, f, Run(ForwardingPlanes, source, dest, f))
=============================================================================
