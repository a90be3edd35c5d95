--------------------------- MODULE MCWatchSession ---------------------------
(***************************************************************************)
(* Instances of WatchSession for TLC.                                      *)
(***************************************************************************)
EXTENDS WatchSession

M(status, route, addr) == [status |-> status, route |-> route, addr |-> addr]

\* A reusable row beside one that runs on every pass: neither reads the other.
BesideRows == {"dns", "quic"}
BesideDeps == [r \in BesideRows |-> {}]
BesideReusable == {"quic"}
BesideAnswers == [r \in BesideRows |->
  IF r = "quic" THEN {M("pass", "none", "a"), M("fail", "none", "a")}
                ELSE {M("pass", "r1", "a"), M("pass", "r2", "a"), M("fail", "none", "a")}]

\* The two reusable rows of an https target, which fail or pass at one address;
\* the connect they stand on runs on every pass and takes no time here.
ChainRows == {"tls", "https"}
ChainDeps == [r \in ChainRows |-> IF r = "https" THEN {"tls"} ELSE {}]
ChainReusable == ChainRows
ChainAnswers == [r \in ChainRows |->
  IF r = "tls" THEN {M("pass", "none", "a"), M("fail", "none", "a")} ELSE {M("pass", "none", "a")}]

LinuxOnly == {[monoCountsSuspend |-> FALSE, hasUnbiased |-> FALSE]}
EveryPlatform == LinuxOnly \cup {[monoCountsSuspend |-> TRUE, hasUnbiased |-> TRUE]}

NoSteps == {0}
Steps == {0, -1}
=============================================================================
