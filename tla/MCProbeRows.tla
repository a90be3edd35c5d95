---------------------------- MODULE MCProbeRows ----------------------------
(***************************************************************************)
(* What rows share, for TLC: the socket of one graph's rows (TargetLink),  *)
(* the samples of several graphs' rows (ProfilePass), and the routes of a  *)
(* pass (RouteCache). They share no state: a behaviour is one of one of    *)
(* them, and the others stay as they begin.                                *)
(***************************************************************************)
EXTENDS TargetLink, Naturals

CONSTANTS N, Asker, Dst, Yard, Link, MaxChanges, MaxQuestions

ASSUME RowsAssumption ==
  /\ N \in Nat
  /\ Yard \in Dst /\ MaxChanges \in Nat /\ MaxQuestions \in Nat

VARIABLES
  part,
  way, stage, run, batch, output, sharedRow, expired, flight, reference, measured,
  cancelled, verdict,
  route, facts, changes, answers, links, once, yardstick, pc, dst, routeVia, forOnce, asked,
  shown

Profile == INSTANCE ProfilePass WITH row <- sharedRow
Routes == INSTANCE RouteCache WITH reference <- yardstick, via <- routeVia

profileVars == <<way, stage, run, batch, output, sharedRow, expired, flight, reference,
                 measured, cancelled, verdict>>
routeVars == <<route, facts, changes, answers, links, once, yardstick, pc, dst, routeVia,
               forOnce, asked, shown>>

\* What a behaviour chooses for a part that is not its own is fixed.
InitRows ==
  /\ part \in {"link", "profile", "routes"}
  /\ Init /\ Profile!Init /\ Routes!Init
  /\ part # "link" => ~watch /\ ~toTLS /\ ~toHTTPS
  /\ part # "profile" => way = "local"
  /\ part # "routes" => route = [d \in Dst |-> CHOOSE l \in Link : TRUE]

NextRows ==
  \/ part = "link" /\ Next /\ UNCHANGED <<part, profileVars, routeVars>>
  \/ part = "profile" /\ Profile!Next /\ UNCHANGED <<part, vars, routeVars>>
  \/ part = "routes" /\ Routes!Next /\ UNCHANGED <<part, vars, profileVars>>

RowsSpec == InitRows /\ [][NextRows]_<<part, vars, profileVars, routeVars>>

-----------------------------------------------------------------------------
\* Rows shown together rest on one measurement: the components of a reported
\* profile on one sample of the rows they share (profile_pass.go), the rows of a
\* pass on one answer about each route and link (route.go, route_linux.go); stated
\* and explained in ProfilePass and RouteCache.
OneMeasurement == Profile!OneSample /\ Routes!OneAnswer

\* How the components of a profile are acquired over ssh (profile_mode.go); stated
\* and explained in ProfilePass.
OneQuestionAtATime == Profile!OneQuestionAtATime
=============================================================================
