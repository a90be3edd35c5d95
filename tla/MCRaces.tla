------------------------------ MODULE MCRaces ------------------------------
(***************************************************************************)
(* The races of the repository in which somebody collects what goroutines  *)
(* bring back while a context may end, for TLC: the dials of one name      *)
(* (DialRace), its two address families (FamilyRace), the two samples of a *)
(* lookup (LookupRetry), the two transports of encrypted DNS               *)
(* (EncryptedDns), QUIC handshakes (QuicRace) and the simulator's          *)
(* scheduled faults (ScheduledFaults); and the reader of route             *)
(* notifications, which its owner closes (RouteEvents). They share no      *)
(* state: a behaviour is one of one race, and the others stay as they      *)
(* begin.                                                                  *)
(***************************************************************************)
EXTENDS DialRace

CONSTANTS Addresses, Events, QueueLimit, MaxChanges, MaxSubscriptions, MaxFailures

\* A race of QUIC handshakes is entered with an address (dialQUICIPs).
ASSUME LimitsAssumption ==
  /\ Addresses \in Nat \ {0}
  /\ {Events, QueueLimit, MaxChanges, MaxSubscriptions, MaxFailures} \subseteq Nat

VARIABLES
  part,
  families, familyCtx, familyDial, familyErr, won, familyOpen, familyResults, errs, conn,
  query, answers, resample, outstanding, spare, last, result,
  dnsCtx, exchange, landed, first, canceled, held, status, names, says,
  quicCtx, quicDctx, quicStarted, attempt, sockets, quicResults, received, verdict,
  baseline, hold, runCtx, ended, sched, next, ready, evidence, runner,
  world, failures, generation, told, feed, subs, socket, stopped, reader, got, owner, pass,
  observation

Family == INSTANCE FamilyRace WITH ctx <- familyCtx, dial <- familyDial, err <- familyErr,
                                   open <- familyOpen, results <- familyResults
Lookup == INSTANCE LookupRetry
Dns == INSTANCE EncryptedDns WITH ctx <- dnsCtx
Quic == INSTANCE QuicRace WITH ctx <- quicCtx, dctx <- quicDctx, started <- quicStarted,
                               results <- quicResults
Faults == INSTANCE ScheduledFaults WITH ctx <- runCtx
Feed == INSTANCE RouteEvents

dialVars == <<ctx, dctx, started, scheduled, dial, err, aborted, results, open, completed,
              caller, attempts, before, winner>>
familyVars == <<families, familyCtx, familyDial, familyErr, won, familyOpen, familyResults,
                errs, conn>>
lookupVars == <<query, answers, resample, outstanding, spare, last, result>>
dnsVars == <<dnsCtx, exchange, landed, first, canceled, held, status, names, says>>
quicVars == <<quicCtx, quicDctx, quicStarted, attempt, sockets, quicResults, received, verdict>>
faultVars == <<baseline, hold, runCtx, ended, sched, next, ready, evidence, runner>>
feedVars == <<world, failures, generation, told, feed, subs, socket, stopped, reader, got,
              owner, pass, observation>>
raceVars == <<part, dialVars, familyVars, lookupVars, dnsVars, quicVars, faultVars, feedVars>>

\* What a behaviour chooses for a race that is not its own is fixed.
InitRaces ==
  /\ part \in {"dial", "family", "lookup", "dns", "quic", "faults", "feed"}
  /\ Init /\ Family!Init /\ Lookup!Init /\ Dns!Init /\ Quic!Init /\ Faults!Init
  /\ Feed!Init
  /\ part # "dial" => ctx = "live"
  /\ part # "family" => families = Family!Family
  /\ part # "faults" => baseline = 0 /\ ~hold

OfDial == part = "dial" /\ UNCHANGED <<part, familyVars, lookupVars, dnsVars, quicVars, faultVars, feedVars>>
OfFamily == part = "family" /\ UNCHANGED <<part, dialVars, lookupVars, dnsVars, quicVars, faultVars, feedVars>>
OfLookup == part = "lookup" /\ UNCHANGED <<part, dialVars, familyVars, dnsVars, quicVars, faultVars, feedVars>>
OfDns == part = "dns" /\ UNCHANGED <<part, dialVars, familyVars, lookupVars, quicVars, faultVars, feedVars>>
OfQuic == part = "quic" /\ UNCHANGED <<part, dialVars, familyVars, lookupVars, dnsVars, faultVars, feedVars>>
OfFaults == part = "faults" /\ UNCHANGED <<part, dialVars, familyVars, lookupVars, dnsVars, quicVars, feedVars>>
OfFeed == part = "feed" /\ UNCHANGED <<part, dialVars, familyVars, lookupVars, dnsVars, quicVars, faultVars>>

NextRaces ==
  \/ OfDial /\ Next
  \/ OfFamily /\ Family!Next
  \/ OfLookup /\ Lookup!Next
  \/ OfDns /\ Dns!Next
  \/ OfQuic /\ Quic!Next
  \/ OfFaults /\ Faults!Next
  \/ OfFeed /\ Feed!Next

\* The fairness of DialRace, and the same for its relatives: goroutines are
\* scheduled, dials, queries, exchanges and handshakes come to an end, the last at
\* the row's timeout. That a context ends is not assumed.
FairDial ==
  /\ WF_raceVars(OfDial /\ Propagate) /\ WF_raceVars(OfDial /\ Scheduling)
  /\ WF_raceVars(OfDial /\ Caller)
  /\ \A d \in Dial : WF_raceVars(OfDial /\ DialStep(d))
FairFamily ==
  /\ WF_raceVars(OfFamily /\ Family!Caller)
  /\ \A f \in Family!Family : WF_raceVars(OfFamily /\ Family!DialStep(f))
FairLookup ==
  /\ WF_raceVars(OfLookup /\ Lookup!Caller)
  /\ \A q \in Lookup!Query : WF_raceVars(OfLookup /\ Lookup!Answered(q))
FairDns ==
  /\ WF_raceVars(OfDns /\ Dns!Row)
  /\ \A t \in Dns!Transport : WF_raceVars(OfDns /\ Dns!ExchangeEnds(t))
FairQuic ==
  /\ WF_raceVars(OfQuic /\ Quic!Start) /\ WF_raceVars(OfQuic /\ Quic!Caller)
  /\ \A d \in Quic!Dial : WF_raceVars(OfQuic /\ Quic!DialStep(d))
FairFaults ==
  WF_raceVars(OfFaults /\ Faults!Scheduler) /\ WF_raceVars(OfFaults /\ Faults!RunStep)
FairFeed ==
  /\ WF_raceVars(OfFeed /\ Feed!Finishing)
  /\ \A s \in Feed!Subscription : WF_raceVars(OfFeed /\ Feed!Reader(s))

RacesSpec ==
  /\ InitRaces /\ [][NextRaces]_raceVars
  /\ FairDial /\ FairFamily /\ FairLookup /\ FairDns /\ FairQuic /\ FairFaults
  /\ FairFeed

-----------------------------------------------------------------------------
\* What a race reports is true of those who ran in it; the clause of each race is
\* stated and explained in its module. A connection superseded, a late answer, a
\* transport cut short by its sibling, a handshake ended by the row, and a fault
\* not applied are each told from what they could be taken for.
ReportsAreTrue ==
  /\ Family!FamilyIsTrue
  /\ Lookup!LookupIsTrue
  /\ Dns!EncryptedIsTrue
  /\ Quic!QuicIsTrue
  /\ Faults!TimelineIsTrue

\* Every race but the last ends and leaves no goroutine behind, whatever its context does; a
\* run of the simulator that a user holds may wait for the user.
RacesEnd ==
  <>(CASE part = "dial" -> caller = "returned"
       [] part = "family" -> Family!Settled
       [] part = "lookup" -> Lookup!Settled
       [] part = "dns" -> status # "none"
       [] part = "quic" -> Quic!Settled
       [] part = "faults" -> runner = "over" \/ hold
       [] part = "feed" -> TRUE)

\* Route notifications (watch_events.go, watch_events_linux.go); stated and
\* explained in RouteEvents: what may be reused is of the network as it is, closing
\* is no change, and the calls of the owner return.
ReusableIsCurrent == Feed!ReusableIsCurrent
InvalidationsAreJustified == Feed!InvalidationsAreJustified
CallsReturn == Feed!CallsReturn
=============================================================================
