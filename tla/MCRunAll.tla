------------------------------ MODULE MCRunAll ------------------------------
(***************************************************************************)
(* Instances of RunAll for TLC.                                            *)
(***************************************************************************)
EXTENDS RunAll

\* Every graph of three rows over the IDs of the egress, target and DNS rows,
\* with one more ID ("proxy") that no row has: chains, forks, joins, cycles,
\* self-dependencies and dependencies nobody reports.
SmallIDs == {"internet_tcp", "target_tcp", "dns", "proxy"}

ThreeRows(idLists) ==
  {[i \in 1..3 |-> [id |-> ids[i], deps |-> d[i]]] :
     ids \in idLists, d \in [1..3 -> {s \in SUBSET SmallIDs : Cardinality(s) <= 2}]}

EveryThreeRows == ThreeRows({<<"internet_tcp", "target_tcp", "dns">>})

\* Slices in which two rows carry one ID.
RepeatedIDs == ThreeRows({<<"dns", "dns", "target_tcp">>, <<"dns", "target_tcp", "dns">>})

\* The rows of the graph BuildProbes makes for an https target that decide
\* something for each other or are rewritten by Finalize.
TargetIDs == {"iface", "internet_tcp", "proxy", "dns", "dns_public", "target_tcp", "tls"}

ProbeRow(i, d) == [id |-> i, deps |-> d]

TargetGraph ==
  {<<ProbeRow("iface", {}), ProbeRow("internet_tcp", {"iface"}), ProbeRow("dns", {"iface"}),
     ProbeRow("dns_public", {"iface"}), ProbeRow("target_tcp", {"dns"}),
     ProbeRow("tls", {"target_tcp"})>>}

\* The name that Finalize and the graph know the row by (checks.go).
ASSUME NamesAssumption == ProbeInternet = "internet_tcp"

Slices == EveryThreeRows \cup RepeatedIDs \cup TargetGraph

\* Finalize runs after the gating, and still leaves no row of a target's graph
\* skipped for a prerequisite that the returned map shows as usable.
TargetSkipsAreExplained == probes \in TargetGraph => SkipsAreExplained
=============================================================================
