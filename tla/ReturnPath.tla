------------------------------ MODULE ReturnPath ------------------------------
(***************************************************************************)
(* The return path of an explanation (asymmetry.go): the walk from the     *)
(* destination back to the source address, held against the forward one.   *)
(* A route here is the walked hops of a walk that does not branch.         *)
(***************************************************************************)
EXTENDS RouteVerdicts

\* A walk as one route, from its first domain to its last: none if it branches or
\* is not shown to arrive.
Chain(h) ==
  LET hops == Walked(h)
      goes(i) == IF i = Len(hops) THEN hops[i].decision.kind = "local"
                 ELSE hops[i].decision.kind = "forward" /\ Len(hops[i].next) = 1
  IN IF \A i \in DOMAIN hops : goes(i) THEN hops ELSE <<>>

States(route) == [i \in DOMAIN route |-> route[i].at]

\* The link segment i crosses, by the interfaces at its ends.
Link(route, i, dest) ==
  LET hop == route[i+1].via.hop
  IN [near |-> [at |-> route[i].at, iface |-> hop.iface],
      far |-> [at |-> route[i+1].at, iface |-> FarEnd(route[i].at, hop, route[i+1].at, dest)]]

NamedLink(l) == Unnamed \notin {l.near.iface, l.far.iface}
Back(l) == [near |-> l.far, far |-> l.near]

Retraces(fwd, ret) == States(ret) = Reverse(States(fwd))

\* Each forward link with the one that leads back there.
Mirrors(fwd, ret, dest, src) ==
  {<<Link(fwd, i, dest), Link(ret, Len(fwd) - i, src)>> : i \in 1..Len(fwd)-1}

\* A boundary on one direction only, other routing domains, or a failed check.
Concerned(fwd, ret, boundaries) ==
  LET there == ToSet(States(fwd))
      back == ToSet(States(ret))
  IN \/ boundaries \cap there # boundaries \cap back
     \/ {s.vrf : s \in there} # {s.vrf : s \in back}
     \/ \E h \in ToSet(fwd) \cup ToSet(ret) : h.via.outcome = "fail"

Asymmetric(concerned) == IF concerned THEN "asymmetric_risk" ELSE "asymmetric_benign"

\* The routers first, then link by link: a difference outranks an end that the
\* file does not name.
AssessLinks(mirrors, concerned) ==
  LET named(m) == NamedLink(m[1]) /\ NamedLink(m[2])
  IN CASE \E m \in mirrors : named(m) /\ m[1] # Back(m[2]) -> Asymmetric(concerned)
       [] \A m \in mirrors : named(m) /\ m[1] = Back(m[2]) -> "symmetric"
       [] OTHER -> "unknown"

Assess(fwd, ret, source, dest, src, boundaries) ==
  CASE fwd = <<>> \/ ret = <<>> -> "unknown"
    [] fwd # <<>> /\ ret # <<>> /\ Last(ret).at # source -> "unknown"
    [] OTHER -> IF Retraces(fwd, ret)
                  THEN AssessLinks(Mirrors(fwd, ret, dest, src), Concerned(fwd, ret, boundaries))
                  ELSE Asymmetric(Concerned(fwd, ret, boundaries))

Return(owners, src) ==
  IF Cardinality(owners) = 1 THEN Chain(Recorded(Sole(owners), src).hop) ELSE <<>>

\* Asked only of a file that names its source address, src.
Asymmetry(fwd, source, dest, src, boundaries) ==
  IF src = NoAddr \/ fwd.hop.decision.kind = "local"
    THEN "none"
    ELSE Assess(Chain(fwd.hop), Return(Owners(dest), src), source, dest, src, boundaries)
=============================================================================
