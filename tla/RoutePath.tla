------------------------------ MODULE RoutePath ------------------------------
(***************************************************************************)
(* The walk of internal/routepath (walk.go, and failure.go where a         *)
(* simulated failure cuts it): from a domain toward a destination over the *)
(* decisions of ForwardingEvidence, branching at several next hops, within *)
(* bounds on depth, visits and fan-out.                                    *)
(*                                                                         *)
(* A hop is [at, via, decision, next]; a leaf past the last known domain   *)
(* is at Nowhere. A walk returns its hop and what the walker has left:     *)
(* budget, and the flags truncated, touched (a walk met the failure) and   *)
(* nested (an underlay walk met a tunnel).                                 *)
(***************************************************************************)
EXTENDS HopVerdicts

CONSTANTS
  MaxDepth, MaxStates, MaxFanout  \* maxDepth, maxStates, maxFanout: 32, 512 and 64

VARIABLE
  tunnels  \* File.Tunnels: [at, iface, remote, underlay]

file == <<obs, checks, tunnels, adjacencies>>

Source0 == [from |-> Nowhere, hop |-> [addr |-> NoAddr, iface |-> Unnamed], outcome |-> "none"]
Leaf(at, via, decision) == [at |-> at, via |-> via, decision |-> decision, next |-> <<>>]
Stop(kind) == Undecided(kind, "")

Fresh == [budget |-> MaxStates, truncated |-> FALSE, touched |-> FALSE, nested |-> FALSE]

\* The hops of a walk, parents before children.
RECURSIVE Walked(_)
Walked(h) == <<h>> \o FlattenSeq([i \in DOMAIN h.next |-> Walked(h.next[i])])

Hops(h) == ToSet(Walked(h))

-----------------------------------------------------------------------------
\* What a walk shows about delivery, the worst of its branches.
Worst(reaches) == CHOOSE r \in reaches : \A q \in reaches : q <= r

\* below gives the reach of a domain in place of the walk under it. A leg that
\* was cut counts only if none survives; then a shorter prefix, or a leg past
\* the fan-out bound, may take over.
RECURSIVE ReachOf(_, _)
ReachOf(h, below) ==
  LET cut(c) == c.decision.kind = "failed"
      live == \E c \in ToSet(h.next) : ~cut(c)
      short == Len(h.next) < Len(h.decision.hops)
      own == CASE h.decision.kind = "local" \/ (h.decision.kind = "forward" /\ h.decision.proven) -> Delivers
               [] h.decision.kind \in {"no_route", "discard", "loop", "failed"} -> Fails
               [] OTHER -> Unproven
      leg(c) == Worst({IF c.at \in DOMAIN below THEN below[c.at] ELSE ReachOf(c, <<>>),
                       IF c.via.outcome \in {"none", "pass"} THEN Delivers ELSE Unproven})
  IN IF h.next # <<>> /\ ~live /\ (h.decision.shadowed \/ short)
       THEN Unproven
       ELSE Worst({own} \cup (IF short THEN {Unproven} ELSE {})
                    \cup {leg(c) : c \in {d \in ToSet(h.next) : live => ~cut(d)}})

\* A hop that still forwards by a BGP route.
BgpForwards(h) == \E x \in Hops(h) : x.decision.kind = "forward" /\ "bgp" \in x.decision.origins

-----------------------------------------------------------------------------
-----------------------------------------------------------------------------
\* A walk is asked [planes, dest, fail, underlay].

RECURSIVE Walk(_, _, _, _, _)

\* Whether the failure may disrupt the tunnel's underlay, by a walk over it that
\* spends the budget of the walk it serves.
AtRisk(f, under, st) ==
  [risky |-> \/ under.st.nested \/ under.st.touched
             \/ ReachOf(under.hop, <<>>) # Delivers
             \/ f.kind \in {"router", "interface"} /\ BgpForwards(under.hop),
   st |-> [under.st EXCEPT !.touched = st.touched, !.nested = FALSE]]

UnderlayRisk(ask, t, st) ==
  AtRisk(ask.fail,
         Walk([ask EXCEPT !.dest = t.remote, !.underlay = TRUE, !.planes = ForwardingPlanes],
              t.underlay, Source0, <<>>, [st EXCEPT !.touched = FALSE, !.nested = FALSE]),
         st)

\* Whether the segment rides a tunnel at risk: one it may leave by, unless it
\* goes elsewhere than the tunnel's single remote.
Apart(a, b) == Nowhere \notin {a, b} /\ a.node # b.node

Ride(ask, hop, t, elsewhere, acc) ==
  CASE acc.risky \/ (elsewhere /\ hop.iface = Unnamed) -> acc
    [] ~acc.risky /\ ask.underlay /\ ~(elsewhere /\ hop.iface = Unnamed) ->
         [risky |-> TRUE, st |-> [acc.st EXCEPT !.nested = TRUE]]
    [] ~acc.risky /\ ~ask.underlay /\ elsewhere /\ hop.iface # Unnamed ->
         [acc EXCEPT !.risky = TRUE]
    [] OTHER -> UnderlayRisk(ask, t, acc.st)

TunnelRisk(ask, from, hop, st) ==
  LET rides == SelectSeq(tunnels, LAMBDA t : t.at = from /\ hop.iface \in {Unnamed, t.iface})
      step(acc, t) ==
        Ride(ask, hop, t, Apart(Holder(Target(hop, ask.dest)), Holder(t.remote)), acc)
  IN FoldLeft(step, [risky |-> FALSE, st |-> st], rides)

\* One next hop, to the domain that owns its address, or to a leaf that says why
\* the walk stops.
Ended(via, kind, st) == [hop |-> Leaf(Nowhere, via, Stop(kind)), st |-> st]
Met(st) == [st EXCEPT !.touched = TRUE]

Arrive(ask, hop, via, path, owners, st) ==
  CASE Cardinality(owners) = 1 -> Walk(ask, Sole(owners), via, path, st)
    [] owners = {} -> Ended(via, IF hop.addr = NoAddr THEN "on_link" ELSE "unresolved", st)
    [] OTHER -> Ended(via, "ambiguous", st)

Cross(ask, hop, via, path, risk) ==
  IF risk.risky
    THEN Ended(via, "unknown", Met(risk.st))
    ELSE Arrive(ask, hop, via, path, Owners(Target(hop, ask.dest)), risk.st)

Leave(ask, from, hop, via, path, cut, st) ==
  CASE cut = "cut" -> Ended(via, "failed", Met(st))
    [] cut = "unknown" -> Ended(via, "unknown", Met(st))
    [] cut = "kept" -> Cross(ask, hop, via, path,
                             IF ask.fail.kind = "none" THEN [risky |-> FALSE, st |-> st]
                             ELSE TunnelRisk(ask, from, hop, st))

Resolve(ask, from, hop, via, path, origins, st) ==
  Leave(ask, from, hop, via, path, Sever(ask.fail, from, hop, ask.dest, origins), st)

\* Every next hop of a forwarding decision, up to the fan-out bound, in order.
Branch(ask, at, via, path, d, st) ==
  LET width == IF Len(d.hops) > MaxFanout THEN MaxFanout ELSE Len(d.hops)
      shared(hop) == Cardinality({i \in DOMAIN d.hops : d.hops[i].iface = hop.iface}) > 1
      add(acc, r) == [next |-> Append(acc.next, r.hop), st |-> r.st]
      follow(acc, hop) ==
        add(acc, Resolve(ask, at, hop,
                         [from |-> at, hop |-> hop, outcome |-> Outcome(at, hop, ask.dest, shared(hop))],
                         Append(path, at), d.origins, acc.st))
      whole(all) == [hop |-> [at |-> at, via |-> via, decision |-> d, next |-> all.next], st |-> all.st]
  IN whole(FoldLeft(follow,
                    [next |-> <<>>, st |-> [st EXCEPT !.truncated = @ \/ width < Len(d.hops)]],
                    SubSeq(d.hops, 1, width)))

Forward(ask, at, via, path, d, st) ==
  IF d.kind = "forward" THEN Branch(ask, at, via, path, d, st)
                        ELSE [hop |-> Leaf(at, via, d), st |-> st]

Walk(ask, at, via, path, st) ==
  LET spent == [st EXCEPT !.budget = @ - 1]
      stop(kind, s) == [hop |-> Leaf(at, via, Stop(kind)), st |-> s]
  IN CASE at \in ToSet(path) -> stop("loop", st)
       [] at \notin ToSet(path) /\ (Len(path) >= MaxDepth \/ st.budget = 0) ->
            stop("truncated", [st EXCEPT !.truncated = TRUE])
       [] OTHER ->
            IF at \in Owners(ask.dest)
              THEN IF HeldOnFailure(ask.fail, at, ask.dest)
                     THEN stop("unknown", Met(spent)) ELSE stop("local", spent)
              ELSE Forward(ask, at, via, path, Decide(ask.planes, at, ask.dest), spent)

\* One walk from a source, with a budget of its own.
Run(planes, source, dest, fail) ==
  Walk([planes |-> planes, dest |-> dest, fail |-> fail, underlay |-> FALSE],
       source, Source0, <<>>, Fresh)
=============================================================================
