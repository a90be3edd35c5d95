# Network Doctor in TLA+

This directory models the core of Network Doctor (`netdoc`), checks
it with TLC on small instances and proves its safety with TLAPS for every value
of the constants. Paths are relative to the repository; `diagnostic/` is
`internal/diagnostic/`, `ui/` is `internal/ui/`.

    tlc -config MCRunAll.cfg MCRunAll        # one run; PROJECT.json lists them all
    tlapm RunAllProofs.tla                   # the proofs of a component

`PROJECT.json` is the index: the components, the runs, the lines each
definition translates, one mutation of the model per checked property that the
property must catch, the hazards, the findings and the theorems.

## 1. The system

`netdoc` builds a graph of *probes* for a target (interface, Internet, DNS, TCP,
TLS, HTTPS, ...), runs it, and turns the finished rows into a diagnosis. It does
that once (headless), repeatedly (`--watch`), or in a terminal UI that can also
run external tools. What is hard about it is not the arithmetic of the
diagnosis but who runs when, who owns what, and which earlier answer may still
be believed.

| Part | State | Operations | Talks to | What is hard |
|---|---|---|---|---|
| Probe scheduler, `diagnostic/scheduler.go` | dependency counts, blocked flags, ready queue | `New`, `Next`, `Complete` | called by the two executors | repeated IDs, cycles, several parents answering in any order |
| Headless executor, `diagnostic/runall.go` | results map, count of rows in flight | `RunAll` and one goroutine per row | scheduler, `Finalize` | never sleeping on a row that could run; inputs copied at dispatch |
| Watch session, `diagnostic/watch.go` | cache of observations, generation, request count, force flag, last path and verdicts | `Begin`, the wrapped rows, `Publish`, `Force`, `Invalidate` | the executor runs a pass; route events invalidate from another goroutine | reuse across a change, a suspend, or a request made during the pass |
| Route event feed, `diagnostic/watch_events*.go` | subscription, stop channel, kernel socket | `FollowRouteEvents`, reader, `FollowsRouteEvents`, `Close` | kernel → reader → `Invalidate` | overflowing queue, `Close` against a blocked read |
| Target link, `diagnostic/acquisition.go`, `probe_target.go` | one slot with one socket | offer, take, release; the HTTPS transport | three rows and the owner who may discard the graph | ownership; a retry in a goroutine that outlives the row |
| Dial race, `diagnostic/probe_network.go` | started dials, result channel; a flag two families swap | `dialIPs`, `dialContextFromSources` | contexts, dialing goroutines | closing the losers; whom to blame when the time runs out |
| Lookups, encrypted DNS, QUIC, `diagnostic/probe_dns.go`, `encrypteddns.go`, `quic.go` | channels of answers | a second sample, two transports, staggered handshakes | contexts, resolvers, goroutines | a late answer lost; a transport cut short by its sibling called unavailable |
| Route answers, `diagnostic/route.go`, `route_linux.go` | two caches and a yardstick per pass | `get`, `referenceRouteDecisions` | rows of a pass at once; the kernel, which may change meanwhile | one answer per destination and link |
| UI runs, `ui/model.go`, `keys.go`, `scheduler.go`, `joblist.go`, `app.go` | generation, results, history, jobs, deferred action | `Update`'s messages and keys, `Cleanup` | probes, timers and tools send messages | stale messages, refused passes, quit and restart deferred for jobs |
| Tool job, `ui/jobs.go` | process, two pipes, bounded channel | `startTool`, readers, `waitForMsg`, `waitDone` | `Update` or `Cleanup` reads | lossy lines but never a lost end; who receives the end on the way out |
| Incident history, `internal/incident`, `ui/incidents.go` | bounded list of incidents and steps, baseline, viewer | `Observe`, `recordIncident`, viewer keys | fed by published passes | the bound dropping what is on screen; which pass may serve as evidence |
| Peer session, `internal/peer` | inbound observations, one control exchange, timers, connections under a bound | listen, connect, probe, exchange, `Close` | two processes over TLS | both ends agreeing though the last message may be lost; expiry and close against a session |
| Profile pass, `diagnostic/profile_pass.go`, `app/profile_mode.go` | shared samples, one output per component | single flight per sample; one ssh at a time or all at once | several executors at once, ssh prompts on the terminal | a waiter cut short as the sample lands; falling back after a refusal |
| Remote client, `internal/remote`, the two-sided run of `app/headless_mode.go` | one ssh child | request, response, teardown; cancelling the other half | the remote `netdoc` | decode, kill and wait in the right order; whom to blame |
| Route paths, `internal/routepath`, `internal/netmodel` | none | `Explain`, `Simulate` | a topology file recorded from a network | partial and conflicting evidence; a failure the network reacts to in its own time |
| OSPF/FRR/BGP readers, snapshots, redaction, comparison, reports | none | pure functions | files | data, not control |
| Simulator, `internal/simulation` | scenario, namespaces, timeline | timeline scheduler, runner | kernel | a scheduled fault against the end of the run |
| Hunt, challenges, lab, field cases | scenario files | generation, scoring | | a test harness outside the program |
| FRR evidence supervisor, `contrib/frr-correlation/supervisor` | children and pidfds, holder, closing and closed | `Start`, `Stop`, `Close` | kernel | cleanup that fails half-way and is tried again; numbers and descriptors that are reused |

What must hold, part by part: the scheduler runs every decidable row once, on
inputs that stay true; the session shows only what was measured recently enough
and since the last change, and answers every request for a fresh pass; the feed
misses no change; a socket always has one owner and a row names the socket it
used; the UI shows and remembers only what belongs to the run and the target on
screen, leaves no process behind and ends what it promised to end; a job's end
arrives and is true; an incident is exactly a failing stretch of the history; two
peers report a session as two-sided only if each was seen by the other, and leave
no socket behind; a remote answer is whole and a failure blames the half that
failed; a supervisor that says it has cleaned up has; whoever collects what
goroutines bring back reports what they did; rows shown together rest on one
measurement; and what is concluded from a topology file is true of every network
the file may have been recorded from, before and after the failure it is about.

## 2. The modules

| Module | Models | Correspondence |
|---|---|---|
| `ProbeDag` | the promise of an executor (the rule of `DepsState`) | abstract: results, rows in flight, returned |
| `ProbeScheduler` | `diagnostic/scheduler.go` | one operator per method; the queue and cursor as in the code |
| `RunAll` | `diagnostic/runall.go`, the statuses `Finalize` may rewrite | EXTENDS `ProbeScheduler`; `schedule()` is `SkipPrereq`/`Dispatch`/`Drained`, the receive is `Receive`, a row's goroutine is `Run` |
| `WatchSession` | `diagnostic/watch.go`, `watch_clock_*.go` | session fields and pass fields; a row's wrapper is `Reuse` or `StartRow` then `FinishRow`; environment: `Tick`, `Suspend`, `StepClock` |
| `RouteEvents` | `diagnostic/watch_events*.go` | the owner's calls in their steps, one reader per subscription, the kernel queue (external) |
| `TargetLink` | `diagnostic/acquisition.go`, the three rows of `probe_target.go` | one action per outcome of each row; the transport's dials are actions of their own because they outlive the row |
| `DialRace` | `netops.dialIPs` | scheduling goroutine, dial goroutines, caller |
| `FamilyRace` | `dialContextFromSources` | a goroutine per family, in the steps at which the context and the flag are read; the fan-in |
| `LookupRetry` | `netops.lookupIPRetrying` | two queries, the timer at half the budget, the caller's select |
| `EncryptedDns` | `encryptedDNSProbe`, `firstVerified`, `settleSibling` | two exchanges, each one step with its outcome; the row's verdict on both |
| `QuicRace` | `dialQUICIPs`, the verdict of `quicProbe` | as `DialRace`, but every goroutine closes its own socket and nobody drains |
| `RouteCache` | `routeCache`, `linkCache`, `referenceOnce` | one action per point at which a row claims, waits or fills; the kernel may change in between (external) |
| `ProfilePass` | `runProfilePass`, `profileObservation`, `ProfilePass.share` | components and their shared rows; the three ways to acquire |
| `PeerSession` | `internal/peer/session.go` | two servers, a handler per connection, the two runs, timers and contexts; a stranger |
| `RemoteExchange` | `internal/remote` `run` and `Serve`, `runLiveTwoSided` | run's steps, the worker's, ssh (external), the local half |
| `Supervisor` | `contrib/frr-correlation/supervisor` | an owner that starts and stops, a closer, watch goroutines; the kernel may refuse (bounded) |
| `ScheduledFaults` | `simulation/timeline.go` `run`, `runner.go` `Run` | the scheduler's goroutine, the run from `startScheduler` to cleanup |
| `TuiRuns` | the run and job messages of `ui/` | one action per message; messages in flight are sets, delivered in any order |
| `ToolJob` | `ui/jobs.go`, `Cleanup`'s wait | process (external), readers, job goroutine, `Update`, `Cleanup` |
| `IncidentTimeline` | `internal/incident` `Timeline`, `ui/incidents.go` | `Publish` is a pass offered through `recordRun`; the viewer's keys |
| `ForwardingEvidence` | `netmodel` `Lookup`; the decision, the owners and the checks of `routepath/walk.go`; segment ends | the recorded tables are a sequence of observations; an address, an interface and an origin are names, a prefix is its length and the addresses it covers |
| `HopVerdicts` | what `routepath` says of one domain or one segment: `disagreement`, `classify`, `sever` | operators on two decisions, or on a failure and a segment |
| `RoutePath` | `routepath/walk.go` `walk`; tunnels in `failure.go`; `reachOf` | recursive operators that hand on the walker's budget and flags |
| `RouteVerdicts` | `routepath/compare.go`, `drift.go`, `failure.go` `Simulate` for one destination | one operator per verdict |
| `ReturnPath` | `routepath/asymmetry.go` | one operator per question: one route, its links, what ties a difference to a fault |
| `NetworkTruth` | a network's tables and segments, what it is for a file to tell the truth of them, and for a verdict of `HopVerdicts` to be true (external) | what the theorems about a file assume and show |
| `ReadNetwork` | a network (external), its file, `Explain` and `Simulate` | the network forwards by tables of its own, is struck by the failure, notices and reroutes |
| `MCRunAll`, `MCWatchSession`, `MCTuiRuns`, `MCPeerSession` | instances for TLC | |
| `MCProbeRows`, `MCChildren`, `MCRaces`, `MCEvidence` | several components in one run | see below |
| `RunAllProofs` | proofs about `RunAll` | see 4 |
| `WatchProofs`, `TuiRunsProofs`, `PeerProofs` | proofs about `WatchSession`, `TuiRuns`, `PeerSession` | |
| `EvidenceProofs` | proofs about `IncidentTimeline`, and about `HopVerdicts` against `NetworkTruth` | |
| `RowsProofs`, `ChildrenProofs`, `RacesProofs` | proofs about the parts of `MCProbeRows`, `MCChildren`, `MCRaces` | |

Refinement: `RunAll` implements `ProbeDag` (`Dag == INSTANCE ProbeDag WITH
inFlight <- the IDs of the workers, returned <- pc = "returned"`). The
scheduler's counters, queue and cursor do not appear in the abstract module, so
the refinement says that they amount to the three-line rule it states.

How the modules fit: `WatchSession` takes a row's answer as an input where
`RunAll` says when it runs; `RouteEvents` details who calls `Invalidate`;
`TuiRuns` takes Publish's verdict as a choice that `WatchSession` details, and a
tool's process as one step that `ToolJob` details; `IncidentTimeline` receives
the passes that `TuiRuns` records; `ProfilePass` runs several graphs whose routes
`RouteCache` answers. They are not checked as one product. Their
interfaces are single calls (`Invalidate`, `Publish`, `ToolDoneMsg`, `Observe`):
where one module details such a call, the other takes its outcome as a choice
among all that the detailed one allows.

`MCProbeRows` (`TargetLink`, `ProfilePass`, `RouteCache`), `MCChildren`
(`ToolJob`, `RemoteExchange`, `Supervisor`), `MCRaces` (`DialRace`,
`FamilyRace`, `LookupRetry`, `EncryptedDns`, `QuicRace`, `ScheduledFaults`,
`RouteEvents`) and `MCEvidence` (`IncidentTimeline`, `ReadNetwork`) put
the question of one kind to components that share no state: what do rows share,
who gets rid of its children, what is said of a race, what does recorded evidence
show. A variable `part` picks one
of them at the start and the others stay as they begin, so the run checks each in
full and no product of them.

## 3. What the runs show

| Run | Question | Bounds, and why they are enough |
|---|---|---|
| `runall` | Do the counters, queue and gating of `RunAll` implement `ProbeDag`, does it return, and is every skip in the final map explained after `Finalize`'s rewrites? | every graph of three rows over four IDs with at most two dependencies each: chains, forks, joins, cycles, self and unknown dependencies, two rows with one ID; and the https target's graph. Scheduling is decided between a row and its parents: two parents and a child, or a skip that completes another row while the queue drains, already need only three. The theorems remove the bound. |
| `watch` | Do requests, route changes, cancellations and refusals in any order keep the session honest, and does it keep publishing? | a row that may be reused beside one that runs every time; one change, one cancellation, two ticks, a request counter that wraps at 3. A request or a change races one pass at a time, and what it leaves behind meets the next. |
| `watch_clocks` | Is what is shown recent in true time and undisturbed by a suspend? | two reusable rows, one above the other, four ticks awake, one asleep, one backward step; `MaxAge` 2: long enough for both to age out at different times twice over. Both kinds of platform: the monotonic clock stops in a suspend, or counts it and an unbiased count exists. |
| `probe_rows` | What do rows share? Who owns the target's socket and do rows tell the truth about it; do the components of a profile agree on a row they share and on its yardstick, and can two of them ask on the terminal at once; do the rows of a pass agree on a route? | `TargetLink`: one graph, complete: every combination of rows, cache answers, failures and discards. `ProfilePass`: three components, so that one may measure, one wait and one come late, and that a refusal of the first leaves two to be asked in turn. `RouteCache`: two rows of two questions each, two destinations (one of them the yardstick's) over two links, two changes in the kernel: one under the lookup, one between two askers. |
| `target_link_retry` | (violation, see 6) | one graph |
| `races` | What is left behind by a race, is what it reports true, whom does it blame, does it end? Does a change of the network ever escape the generation check, and do the calls of the feed's owner return? | three addresses in `DialRace` and `QuicRace`: a winner, a loser that connects late and one that fails; three scheduled faults of which any number are the baseline; the other races have two runners in the code. `RouteEvents`: queue of one, three changes, two subscriptions, one broken socket: a change before, during and after a subscription, an overflow, a second reader. |
| `children` | Does everybody who starts a child process learn its end, tell it truly and get rid of it? | `ToolJob`: two lines per pipe against a channel of two: it fills, it drops. `RemoteExchange`: one ssh, complete. `Supervisor`: two children and one refusal of the kernel at any point (two refusals were checked apart, with the same result): a Close that fails half-way and is tried again, beside an owner that starts and stops. |
| `peer` | Do two peers agree on what was seen, do their servers leave a socket behind, does a session end? | a session over one family with a stranger that connects and contexts that may end, and an undisturbed one over two families of which the connector listens on one; two connections at a time, so that a stranger can fill the bound and turn the control connection away. |
| `tui_runs` | Do results, history and processes belong to the run on screen; are deferred actions served; does Watch go on? | two rows, two jobs, two restarts: one refused or repeated pass and one the user asks for, either order. |
| `tui_quit_refused` | (violation, see 6) | one row, one job |
| `evidence` | Is the bounded timeline exactly the failing stretches of the log, on clean evidence, without moving the reader? Is what is said of a path, of its return, of drift and of a failure so, whatever the file leaves out and whatever the network does next? | `IncidentTimeline`: every history of six passes over two shapes, two incidents and two steps kept: the third onset and the third move drop the first. `ReadNetwork`: over nine thousand small networks with their files. A diamond in which one of the two middle nodes has two links to the far one: ECMP at either node, a shorter route behind the one in use, a discard, a loop, a missing route; static, OSPF and BGP origins; a control plane that agrees or hides another route; at one node a table that is partial, silent, doubled or nameless, or no interfaces; a link that drops packets and the check that says so; intent at one or two nodes; a way back to the source over either middle node, with a boundary, a failed check, another routing domain, or a source address that is not the source's. And a tunnel, alone or beside a direct link, whose underlay may ride another. Eleven or thirteen failures of every kind each. `MaxStates` 5 and `MaxFanout` 2 cut the widest walks short; `MaxDepth` is not reached, since no path here is that long. |
| `evidence_none` | (violation, see 6) | the same networks |

Bounds of a constraint kind are constants with names (`MaxAwake`, `MaxCancels`,
`MaxGeneration`, `MaxChanges`, `MaxPasses`, `MaxLines`, `MaxFaults`, `MaxQuestions`,
...) and appear in the
guards. `MaxAge`, `MaxActiveJobs`, `maxIncidents`, `maxSteps`, `chanBuf`, `maxStates`, `maxFanout`, the connections
of a peer's server (`Limit`), the addresses dialed and the span of the request
counter are the code's own constants scaled down.

Every module with variables of its own states their types as `TypeOK`. All but
that of `ReadNetwork` are proved; no run lists them, since the properties above are
what could be wrong.

### Fairness

No liveness property relies on a user, on the network answering, or on the
row's context ending. Weak fairness is on: `RunAll`'s loop and its rows (each
row runs under its own timeout, `timedProbes`); the owner of a Watch session and
the rows of its pass (the same timeout); the reader of a subscription and a call
already made; the goroutines of the races (the stagger and each dial have
timers; a query, an exchange and a handshake end at the latest with the row's
timeout; a test of the simulator has one, too); delivery of messages and timers
to `Update`, and the end of a tool process (it has a deadline and `WaitDelay`);
the goroutines of a tool job; the goroutines and timers of both peers, whose every
dial, read and write has a timeout; `run` of the remote client, whose write
succeeds while ssh is up, the deadline it runs under, which is relied on only
while it writes or decodes, and the exit of an ssh that was killed; the owner and
the closer of the supervisor, its watch goroutines and the exit of a process that
was killed, with Close tried again after a failure. A user who holds a simulation
open is not expected to leave. Nothing is strongly fair.

`KeepsPublishing` (`[]<>` a pass was published) holds because cancellations and
changes are bounded; it says that refused passes do not starve the display, not
that a user cannot.

## 4. What is proved

Every safety property of a passing run is a theorem, except the two about route
paths. Each proof has one shape: an inductive invariant that adds to the property
what keeps it true, `Init => IInv`, one lemma per action (or per group of actions)
that keeps it, and the property from `IInv`; `PROJECT.json` lists the theorems. The
bounds of the runs (`MaxAwake`, `MaxGeneration`, `MaxFaults`, ...) are constants like
the others, so the theorems hold whatever they are.

| Module | Theorems about the properties of the runs | Assumed of the constants |
|---|---|---|
| `RunAllProofs` | `InputsSatisfied`, `TargetSkips`, `Refinement` | finite IDs, any slices (`SlicesAssumption`, `ReferenceRowsAssumption`); the reference connect has its name (`NamesAssumption`) |
| `WatchProofs` | `RequestsHonoured`, `ReuseWithinGeneration`, `ReuseRecent`, `NoSuspend`, `WholeRecent`, `ChangesMeasured` | any graph, answers, platforms, skews; `PassWindow >= MaxAge`, as in the code (`GraphAssumption`, `ClockAssumption`, `BoundAssumption`) |
| `TuiRunsProofs` | `ResultsOfThisRun`, `HistoryOfThisQuestion`, `ProcessesAreHeld` | finite rows, at least one, and finite jobs (`SetupAssumption`) |
| `PeerProofs` | `EvidenceHolds`, `TwoEnded`, `NoEscape` | a limit of at least one, sessions of any families (`LimitAssumption`, `SessionAssumption`) |
| `EvidenceProofs` | `IncidentsExact`, `EvidenceClean`, `ReaderStays` | positive bounds, any shapes (`BoundsAssumption`); about files, see below |
| `RowsProofs` | `OneOwner`, `ProvenanceHolds`, `MeasuredOnce`, `OneAtATime` | any number of components, any askers, destinations and links (`RowsAssumption`) |
| `ChildrenProofs` | `OutcomesTrue`, `HandlesCurrent`, `CleanAfterClose` | any children, lines and refusals, a channel that holds something (`BoundAssumption` of `ToolJob`, `LabAssumption`) |
| `RacesProofs` | `LeavesNothing`, `BlamesTheAddress`, `ReportsTrue`, `ReuseIsCurrent`, `InvalidationsJustified` | at least one address in a dial and in a QUIC race, any other bounds (`NAssumption`, `LimitsAssumption`) |

Each module also proves the types of its component (`TypeCorrect`, or under the name
of its run). `EvidenceProofs` also proves what the verdicts of a route path rest on.

**`RunAllProofs`.** `TypeCorrect`, `CountersExact`, `DispatchedOnce`,
`InputsSatisfied` and `ReportIsMaximal` are the invariants of `RunAll`; `Refinement`
is `Spec => ImplementsDag`, the safety part of the refinement.

The inductive invariant `IInv` is the conjunction of the named invariants, none of
which is inductive alone: a row is queued exactly when its count is zero
(`QueueIsTheReadyRows`) needs the count to be the number of missing results
(`CountsMatchResults`), which needs that no ID is recorded twice (`StartedOnce`),
which needs the queue to be duplicate-free again. The work of the proof is in
`CompleteFacts`: what one recorded result does to the counts of all rows at once,
and that the entries appended to the queue are exactly the rows whose count drops to
zero. The refinement then needs `DrainedBeforeReceive` only at `Return`: with
nothing in flight and the queue consumed, no row is decidable.

`SkipsExplained` is about `Finalize`, which rewrites statuses after the gating: in a
graph in which no row depends on the reference connect, a skipped row still stands
beside a dependency that failed or was skipped. Without that condition it is false,
since `Finalize` may clear the reference connect of the failure others were skipped
for; `TargetSkips` shows that the https target's graph meets it.

**`WatchProofs`.** An observation is never of a later generation than the one its
row was sampled in (`Observations`), in the session's cache as in the pass's copy of
it; that a row sampled under an old generation cannot be believed under a new one
then rests on the generation never going back. A pass that may reuse anything began
while the last whole measurement was recent (`Begun`); `Requests` ties the history
variable that the property uses to the force flag and the wrapping request counter.
The rest is arithmetic on four clocks: `PublishFacts` says what `passCurrent` leaves
possible on either kind of platform.

**`TuiRunsProofs`.** A probe in flight that carries the generation on screen is of
the target on screen, and its row is still empty (`Reports`); what is recorded was
complete, and a refused generation is over (`Records`); a process nobody signalled
is covered by the context of the run on screen (`Processes`).

**`PeerProofs`.** A server has entered a probe before the dialing side can know that
it passed (`Witnessed`, per connection and family), and what was sent in the control
exchange is what was seen when it was sent and stays so (`BeforeProbes`,
`SentIsSeen`); the listener's result waits for the connector's (`Agreed`). For
Close: what is open while a server closes was found by Close or has not passed the
check it is about to fail (`Sockets`).

**`EvidenceProofs`, the timeline.** The timeline is compared with the whole log, which only the
model keeps. An onset is a failing pass after one that did not fail; `Place` says
how many onsets there are up to one, so the incident of an onset is the one at its
place less those dropped. `PlaceFacts` and the lemmas about the newest of a bounded
list carry the induction: a pass adds no onset, or one at the last place, and only
then may the bound drop the first. `Newest` says what the timeline remembers of the
last pass. `IncidentsAreTheFailures` is part of the invariant itself, since what a
step adds to an open incident is right only if the incident was. The theorems are
about the specification of `IncidentTimeline`; `MCEvidence`, which runs it, also
holds recursive operators.

**`EvidenceProofs`, the topology file.** These theorems are about any file, of any
number of records, and any tables. `Truthful` is what they assume of a plane: each
record tells of the table, or one that is complete does and names every interface,
and then the others may be as old as they like. A record may leave the interface out
of a next hop and keep next hops in another order (`TellsHops`), and one that is not
complete may leave routes out. TLC checks as part of `ExplanationIsTrue` that every
file of the run is such a one (`FileIsTrue`) and that what follows holds there.

- `DecisionsAreTrue`: what `decide` reads from any list of planes is true of the
  table of the plane it comes from: the route it names is in the table, and decides
  if it is proven, and `no_route` means that there is none. An old record cannot
  decide (`RowsTell`): a complete table that lacks its prefix makes the answer
  conflicting, and next hops that are gone disagree with those of the exact record.
  If an old row agrees with that record it is only a nameless copy, and among rows
  that agree the one that names most is chosen, so its next hops are the table's.
- `DecisionIsMade`, the converse: where each FIB record is true and one is complete,
  the decision is what the domain does. Only a route that is no discard and has no
  next hop leaves it open.
- `DisagreementsAreTrue`: where control plane and FIB are said to disagree, their
  tables forward differently. The next hops of two records are matched one to one
  (`sameHops`); that two records of one list always match is the pairing argument of
  `TellingAgrees`, an injection of a finite interval into itself.
- `NoDriftIsTrue`: a domain without drift forwards to the addresses of its intent by
  the same prefix, or drops where intent does.
- `OwnersAreTrue`: an owner of an address holds it, nobody else does, and the
  interfaces the file lists for it are all it has (`Located`).
- `SegmentsAreSeveredRightly`: for each of the four kinds of failure, a segment said
  to be cut runs into it, and one said to be kept does not. The segment goes to the
  one domain that owns its target. Left out is a segment that both leaves and enters
  the failed node (or the failed domain, for an adjacency): the code asks only which
  interface it leaves by (`failure.go:818`), so nothing is shown of the interface it
  arrives on. The run has no such segment.

Three theorems then take a whole path, over any number of domains. A *flow*
(`IsFlow`) goes from domain to domain as the tables send it, over any of several next
hops. The walk of `RoutePath` is recursive, so what it shows is stated of its domains
without it: `ShownToDeliver` (every domain owns the destination or is decided to
forward to others of them, and every nonempty set of them has a member that owns it or
forwards to none of the set, which is what excludes a loop), `ShownToFail` (the
domains of one branch) and `Spared` (no segment is cut). That each walk said to
deliver, to fail, or to be unaffected shows just that is checked by TLC (`WalkIsTrue`,
`RatingsAreTrue`).

- `DeliveryIsTrue`: no flow leaves the domains of the walk, is dropped by a table, or
  comes back to where it was.
- `FailureIsTrue`: asked from a domain that does not hold the destination, some flow
  is dropped by a table, strands at a next hop nobody answers for, or comes back.
- `SpareIsTrue`: a failure that cuts none of the segments of a delivering walk meets
  no flow at all, with the segment within the failed node left out as above.

They are about the tables before anything has failed. Links that drop packets, tunnels
and what the network does after a failure stay with TLC.

**`RowsProofs`.** `TargetLink`: what is held is open, what is open is held, nothing
is held twice (`Ownership`), and where a holder is tells which socket it may hold
(`Placement`), also for the transport's goroutine once its row is over.
`ProfilePass`: a row that measures is the only one its observation waits for, and a
row that shows a sample shows the observation's (`Observed`); one ssh at a time
follows from the order of the turns (`Turns`). `RouteCache`: one asker at a time has
claimed an entry (`Claims`), and a decision that was cached rests on the one answer
about its link (`Decisions`).

**`ChildrenProofs`.** `ToolJob`: the terminal event is the last of the channel and
the only one, and every line written is shown, underway, unread or counted as
dropped (`Accounts`). `RemoteExchange`: an answer that was decoded is the worker's,
given before anybody stopped it, and nobody is cancelled but by the user or by the
failure of the other half (`Blamed`). `Supervisor`: who is inside Stop holds that
child's lock (`Locked`), how far Stop is with it tells what is left of its group
(`Progressed`), and a Close that has not failed still has on its list every child
that is registered (`Closes`); so a refusal at any point may delay the cleanup, but
leaves nothing unaccounted for.

**`RacesProofs`.** The races share no state, so each has an invariant of its own
that its own steps keep. The dial race's theorems hold alone and beside the others
(`Spec \/ RacesSpec => ...`):

- `LeavesNothing`, `BlamesTheAddress`: the invariants of the run;
- `ReportsAll`: the attempts returned are the dials that started and failed;
- `NamesTheExpiry`: a race cut short names the deadline or the cancellation that
  ended its context, never the caller's own clean-up.

`DialInv` adds to the checked invariants: `Dials` and `Counted` (how far each dial
is, and that as many were delivered as were received or wait in the channel),
`Owned` (an open connection is the winner, still with its dial, or unread on the
channel, and those are open), `Recorded`, `Marked` (a dial its context ended is
marked aborted) and `Known` (which errors the two contexts leave possible at each
point of the caller). The drain loop ends at the number of started dials; that this
empties the channel is the counting argument of `Counted` and `AllIn`. `QuicRace`
needs the same for its queue and nothing for a drain, since every goroutine closes
its own socket.

For the route feed, `Traced` says that a change nobody was told of has left
something the reader will find, in the queue or as its overflow, or that the owner
has yet to invalidate; with an observation that is valid only if it is newer than
the last invalidation (`FreshObservation`) this gives `ReuseIsCurrent`.
`InvalidationsJustified` is a balance (`Paid`): each invalidation made or still owed
was paid for by a change, a subscription or a failure.

Left to TLC: liveness (`EventuallyReturns`, `RacesEnd`, `CallsReturn`,
`KeepsPublishing`, `PendingIsServed`, `WatchGoesOn`, `ChildrenEnd`, `SessionEnds`),
which the prover does not handle under fairness; and `ExplanationIsTrue` and
`RatingsAreTrue`, since the walk of `RoutePath` is a recursive operator, which the
prover does not take: that a walk is what the theorems on paths assume of its domains
would be an induction over it.

## 5. What the models leave out, and what that costs

- *Wording.* Details, causes, fixes and formatting, except the causes of
  `DialRace`, which a property is about.
- *Finalize.* Only which statuses it may rewrite; whether a rewrite happens is a
  choice, so the model has more outcomes than the code.
- *WatchSession.* `passWindow` and `driftAllowance` are constants (an allowance
  of 0 in `watch_clocks` makes every suspend visible). An unbiased count that was
  read at Begin and cannot be read at Publish is left out: it only refuses. `NoSuspendInShownPass` excludes a platform whose monotonic
  clock counts a suspend and that has no unbiased count: there, as the comment on
  `passCurrent` says, the window alone stands.
  `watch_clocks` leaves out the connect row that always runs, which adds states
  and no reuse.
- *RouteEvents.* What a socket still holds when `Close` wins is lost: the
  session is being closed. A subscription that cannot be made changes nothing.
- *TuiRuns.* Rows are independent (the gating is `RunAll`'s), names, prompts and
  the SSH form are absent, Publish's verdict is a choice.
- *ToolJob.* `drain` is absent: `dropJobs` is reached with no job running. On
  the way out `Cleanup` and the read `Update` left under way compete for the
  terminal event; when the old read wins, `Cleanup` waits out `exitGrace`, which
  the model shows and `ChildrenEnd` allows.
- *TargetLink.* The link's mutex makes each operation one step; addresses,
  attempts and certificates are absent.
- *IncidentTimeline.* `compare.Snapshots` is equality of shapes; the artifact,
  the report and the reset on a session mismatch (a target switch always comes
  first) are absent.
- *DialRace, QuicRace.* The stagger is arbitrary, addresses are numbers in dial
  order. The number of the winner, its latency and its path are absent.
- *EncryptedDns, LookupRetry.* An exchange or a query is one step with its
  outcome; framing, certificates and the resolver's messages are absent. A failure
  of the transport that was given up is one outcome, "cut", whatever caused it:
  the row cannot tell either.
- *RouteCache.* A decision is its link and the link's facts; zones, sources and the
  two endpoints of the yardstick are reduced to destinations.
- *ProfilePass.* A graph is two shared rows and one of its own, a remote component
  is one step that asks, refuses or answers. Aggregating the reports is data.
- *PeerSession.* A probe and a control message are one step of each end with what
  it carries (families seen, whose session); TLS, tokens and the wire format are
  absent. `Run` may return while a Close that the end of its context began is
  still closing: `NoSocketEscapesClose` and `SessionEnds` are about what that Close
  has yet to reach, not about the moment Run returns.
- *RemoteExchange.* ssh is the environment: it may fail, stall, cut a response,
  add prose, stay up. Only ssh holds its standard output.
- *Supervisor.* Every child is taken to start others in its group; a kernel that
  cannot clone with a pidfd is left out: there Start kills and reaps the child it
  cannot hold and says that it is unsupported. The
  collector and its attempt lifecycle are absent.
- *ScheduledFaults.* Setup, the tests and cleanup are one step each; the lengths of
  the waits are arbitrary.

- *ReadNetwork.* What the file does record of a table is true, but for an old
  table beside the true one. A node lists all of its interfaces or none, and the
  control plane of a node on which a protocol runs is recorded whole. A packet over several next hops may take any;
  a route's legs that a node knows to be dead are not used, and a dead route may be
  withdrawn. OSPF replaces a route only if every leg of it met the failure, as
  docs/reference.md says of a path that avoids it; BGP may replace any route after a
  router or an interface failed. A static route is never changed but for dead legs.
  A lost next hop fails for everybody's flows at that node, and nobody reroutes.
- *RoutePath, RouteVerdicts.* Policy failures, failure regions, the texts and their evidence, the findings that only repeat a decision or a failed
  check (`noteConditions`), and the list of destinations that `Simulate` goes through
  with its own bounds.

### Not modelled

`components` in `PROJECT.json` gives each part its reason. In short: diagnosis
rules, the readers of OSPF, FRR and BGP output and of topology files, snapshots, redaction, comparison, profiles' aggregation and rendering are functions over data
without state or order, most of the repository by lines; the probes, route lookups
and the namespaces of the simulator are I/O; hunt, challenges and corpus generate
and score scenarios and are no part of the program. Their outcomes enter the models
as inputs. What a model checker adds to the golden tests of such code is small
beside what it costs to restate its tables faithfully. `routepath` is the exception,
because there is something to hold it against: the network the file is about.

## 6. Findings

1. **A quit can be deferred for ever** (`tui_quit_refused`, `ui/model.go:796`).
   `ui/keys.go:47` promises that a quit waits until the jobs' terminal events
   land. A Watch pass that Publish refuses restarts the run at once, unlike the
   watch timer and the target prompt, which both wait for running jobs. The
   job's terminal event then carries an old generation and is dropped, its job
   counts as running for ever, and neither the quit nor the next watched pass
   happens. `PendingIsServed` and `WatchGoesOn` hold everywhere else: their
   exception `JobLost` is exactly this state.
2. **A row can name a dead socket** (`target_link_retry`,
   `diagnostic/probe_target.go:490`). The reused socket dies before an answer,
   the transport dials again in its own goroutine, and the row's time ends
   before that dial returns: `reused` is cleared only when it does. The failed
   row then reports the first socket's address and provenance for a timeout of
   the second. `ProvenanceIsTrue`, about rows that answered, holds.

3. **A failure rated `none` may change what arrives** (`evidence_none`,
   `internal/routepath/failure.go:336`). docs/reference.md:1946 gives `none` to a
   destination whose forwarding before the failure is proven, whether it delivers
   or not. A walk with several branches has the worst reach of them, and a branch
   shown to drop outranks one the file cannot decide. So with one of each the walk
   counts as proven to fail, and a failure it never meets is rated `none`, although
   the undecided branch may cross it: its flows arrived before and do not after.
   `RatingsAreTrue` holds with exactly that case (`HalfRead`, taken as the failure is asked about) left out.

Beside these, `DialRace` shows that the converse of `OnlyTheAddressIsBlamed`
does not hold and is not claimed: a refusal of the address's own that is still
in the channel when the row's context ends is marked `Aborted`
(`diagnostic/probe_network.go:354`), which `diagnostic/checks.go:101` documents
as "not this address". Its cause is kept.

## 7. Plan

Done, in this order: the scheduler and executor with their refinement and
proofs; the Watch session and its clocks; the route feed; the UI's runs and
tool jobs; the target link; the incident history; the dial race and its proofs;
the peer session; the remote client and the supervisor, beside the tool jobs; the
profile pass and the route answers, beside the target link; the relatives of the
dial race and the simulator's timeline, beside it; the route paths, held against
the network their file is about; the proofs of the safety of the other parts, module
by module as in 4; the proofs of what is read from a file about one domain and one
segment.

Next:

1. How verdicts are combined over the branches of one hop (`reachOf`, `rate`) as
   lemmas beside those about a single domain; the walk itself, an induction over its
   depth, stays with TLC.
2. The seams of section 2 as refinements: the pass of `WatchSession` against what
   `TuiRuns` takes as a choice, a tool's process in `TuiRuns` against `ToolJob`.
3. What `routepath` still lacks here: policy failures, and the run over many
   destinations under one bound.
