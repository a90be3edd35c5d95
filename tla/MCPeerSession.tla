--------------------------- MODULE MCPeerSession ---------------------------
(***************************************************************************)
(* Instances of PeerSession for TLC.                                       *)
(***************************************************************************)
EXTENDS PeerSession

Session(listens, binds, dials, trouble) ==
  [offered |-> [e \in End |-> IF e = "listener" THEN listens ELSE binds],
   requests |-> dials, disturbed |-> trouble]

Both == {"ipv4", "ipv6"}
One == {"ipv4"}

\* One family, a stranger, contexts that may end; and two families to say hello
\* and to probe in, of which the connector listens on one, so that the listener
\* may have seen it in the other one only.
SmallSessions == {Session(One, One, One, TRUE), Session(Both, One, Both, FALSE)}
=============================================================================
