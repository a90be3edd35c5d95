---------------------------- MODULE WatchSession ----------------------------
(***************************************************************************)
(* What one Watch session may answer from an earlier pass:                 *)
(* diagnostic.WatchSession and WatchPass (internal/diagnostic/watch.go).   *)
(*                                                                         *)
(* A pass runs the rows of the probe graph concurrently. A reusable row    *)
(* first asks the copy of the cache the pass took at Begin; the session    *)
(* changes only when the owner publishes the pass. Route changes reach the *)
(* session from another goroutine (Invalidate), the user asks for a fresh  *)
(* pass (Force), the owner drops a pass it will not publish (a cancelled   *)
(* run), and the machine may be suspended or have its clock stepped at any *)
(* moment.                                                                 *)
(*                                                                         *)
(* An instant is the history so far: how long the machine was awake, how   *)
(* long asleep, by how much its wall clock was stepped, and how many       *)
(* changes were reported to the session, which is its generation. What the *)
(* code can read of an earlier instant are the monotonic, the wall and, on *)
(* some platforms, the unbiased clock.                                     *)
(***************************************************************************)
EXTENDS Integers, FiniteSets

CONSTANTS
  Row, Reusable,    \* the rows of the graph; those listed in watchReusable
  Deps,             \* per row: the rows it depends on
  Answers,          \* per row: the measurements its run may come back with
  MaxAge,           \* watchMaxAge
  PassWindow,       \* passWindow of this graph and timeout
  DriftAllowance,   \* driftAllowance, at its cap
  Platforms,        \* what the clocks of a build do: [monoCountsSuspend, hasUnbiased]
  MaxAwake, MaxAsleep, Skews, MaxGeneration, MaxCancels,  \* bounds
  RequestSpan       \* the request counter wraps here, in the code at 2^64

Status == {"pass", "warn", "fail", "skip"}
NotMeasured == [status |-> "none", route |-> "none", addr |-> "none"]
Skipped == [status |-> "skip", route |-> "none", addr |-> "none"]

ASSUME GraphAssumption ==
  /\ Reusable \subseteq Row /\ Deps \in [Row -> SUBSET Row]
  /\ \A r \in Row : \A m \in Answers[r] : m.status \in Status \ {"skip"}
ASSUME ClockAssumption ==
  /\ MaxAge \in Nat \ {0} /\ PassWindow \in Nat /\ PassWindow >= MaxAge
  /\ DriftAllowance \in Nat /\ Skews \subseteq Int
  /\ Platforms \subseteq [monoCountsSuspend : BOOLEAN, hasUnbiased : BOOLEAN]
ASSUME BoundAssumption ==
  /\ {MaxAwake, MaxAsleep, MaxGeneration, MaxCancels} \subseteq Nat
  /\ RequestSpan \in Nat /\ RequestSpan > 0

VARIABLES
  platform,    \* the platform of this build, which never changes
  now,         \* the instant
  cache, last, path, settled, lastFull, force, requests,  \* WatchSession
  pass,        \* what WatchPass took at Begin, or NoPass
  asked,       \* per row of the pass: when its Run started, or Never
  results,     \* per row of the pass: what it reported
  ran,         \* WatchPass.ran
  reused,      \* WatchPass.reused
  outcome,     \* what became of the latest pass
  owed,        \* history: whether a request is unanswered, and from when
  cancels      \* how many passes the owner dropped

sessionVars == <<cache, last, path, settled, lastFull, force, requests>>
passVars == <<pass, asked, results, ran, reused>>
vars == <<platform, now, cache, last, path, settled, lastFull, force, requests,
          pass, asked, results, ran, reused, outcome, owed, cancels>>

NoPass == [open |-> FALSE]
None == [open |-> FALSE]
Never == [awake |-> -1, asleep |-> -1, skew |-> 0, changes |-> -1]

-----------------------------------------------------------------------------
\* Clocks.

Start == [awake |-> 0, asleep |-> 0, skew |-> 0, changes |-> 0]
Generation(t) == t.changes
TrueTime(t) == t.awake + t.asleep
Mono(t) == IF platform.monoCountsSuspend THEN TrueTime(t) ELSE t.awake
Wall(t) == TrueTime(t) + t.skew
Unbiased(t) == t.awake

InWindow(age, window) == age >= 0 /\ age < window
Abs(n) == IF n < 0 THEN -n ELSE n

\* A fault: the age is taken on the monotonic clock alone.
WithinMono(at, then) ==
  then # Never /\ InWindow(Mono(at) - Mono(then), MaxAge)

\* within: inside MaxAge on both clocks. A zero time is never within.
Within(at, then) ==
  /\ then # Never
  /\ InWindow(Mono(at) - Mono(then), MaxAge)
  /\ InWindow(Wall(at) - Wall(then), MaxAge)

\* A fault: the unbiased count is not looked at.
PassCurrentTwoClocks(at, begun) ==
  LET mono == Mono(at) - Mono(begun)
      wall == Wall(at) - Wall(begun)
  IN InWindow(mono, PassWindow) /\ InWindow(wall, PassWindow) /\ Abs(wall - mono) <= DriftAllowance

\* passCurrent and unbiasedCurrent: the pass fits its window on every clock it
\* can read, and the clocks agree on how long it took.
PassCurrent(at, begun) ==
  LET mono == Mono(at) - Mono(begun)
      wall == Wall(at) - Wall(begun)
      working == Unbiased(at) - Unbiased(begun)
  IN /\ InWindow(mono, PassWindow) /\ InWindow(wall, PassWindow)
     /\ Abs(wall - mono) <= DriftAllowance
     /\ platform.hasUnbiased => /\ InWindow(working, PassWindow)
                               /\ Abs(mono - working) <= DriftAllowance

-----------------------------------------------------------------------------
\* The graph.

\* ancestorsOf: the rows a row reads, directly or through another row.
Ancestors == [r \in Row |->
  {a \in Row : \A S \in SUBSET Row :
     (Deps[r] \subseteq S /\ \A x \in S : Deps[x] \subseteq S) => a \in S}]

Measured(r) == results[r] # NotMeasured

\* A row's fingerprint is what it measured; a skipped row has none.
HasFingerprint(r) == Measured(r) /\ results[r] # Skipped

DepsReady(r) == \A d \in Deps[r] : Measured(d)
DepsBlock(r) == \E d \in Deps[r] : results[d].status \in {"fail", "skip"}

\* The row's Run may be called.
Runnable(r) ==
  pass # NoPass /\ asked[r] = Never /\ ~Measured(r) /\ DepsReady(r) /\ ~DepsBlock(r)

-----------------------------------------------------------------------------
Init ==
  /\ platform \in Platforms
  /\ now = Start
  /\ cache = [r \in Reusable |-> None]
  /\ last = [r \in Row |-> "none"]
  /\ path = {}
  /\ settled = FALSE
  /\ lastFull = Never
  /\ force = TRUE
  /\ requests = 0
  /\ pass = NoPass
  /\ asked = [r \in Row |-> Never]
  /\ results = [r \in Row |-> NotMeasured]
  /\ ran = [r \in Reusable |-> None]
  /\ reused = {}
  /\ outcome = "none"
  /\ owed = "before"
  /\ cancels = 0

CountRequest == requests' = (requests + 1) % RequestSpan

\* The user asks for a fresh pass. The guard keeps the requests of one pass
\* below the span of the counter.
ForceFresh ==
  /\ pass # NoPass => (requests + 1) % RequestSpan # pass.requested
  /\ force' = TRUE
  /\ CountRequest
  /\ owed' = IF pass = NoPass THEN "before" ELSE "during"
  /\ UNCHANGED <<platform, now, cache, last, path, settled, lastFull, passVars, outcome, cancels>>

\* A route, address, link, rule or nexthop change is reported.
Invalidate ==
  /\ Generation(now) < MaxGeneration
  /\ now' = [now EXCEPT !.changes = @ + 1]
  /\ UNCHANGED <<platform, sessionVars, passVars, outcome, owed, cancels>>

\* A fault: a pass reuses however old the last whole measurement is.
BeginWithoutRefresh ==
  /\ pass = NoPass
  /\ pass' = [open |-> TRUE, at |-> now, force |-> force \/ ~settled,
              requested |-> requests, generation |-> Generation(now), cache |-> cache]
  /\ outcome' = "running"
  /\ UNCHANGED <<platform, now, sessionVars, asked, results, ran, reused, owed, cancels>>

Begin ==
  /\ pass = NoPass
  /\ pass' = [open |-> TRUE, at |-> now,
              force |-> force \/ ~settled \/ ~Within(now, lastFull),
              requested |-> requests, generation |-> Generation(now), cache |-> cache]
  /\ outcome' = "running"
  /\ UNCHANGED <<platform, now, sessionVars, asked, results, ran, reused, owed, cancels>>

\* What reuse asks of the observation: not forced, sampled in the generation the
\* session is in now, recent on both clocks, and every ancestor unchanged.
MayReuse(r) ==
  LET ob == pass.cache[r] IN
  /\ r \in Reusable /\ ~pass.force /\ ob # None
  /\ ob.generation = Generation(now)
  /\ Within(now, ob.sampled)
  /\ \A a \in Ancestors[r] : HasFingerprint(a) /\ results[a] = ob.inputs[a]

\* A row answered from the cache.
Reuse(r) ==
  /\ Runnable(r)
  /\ MayReuse(r)
  /\ asked' = [asked EXCEPT ![r] = now]
  /\ results' = [results EXCEPT ![r] = pass.cache[r].result]
  /\ reused' = reused \cup {r}
  /\ UNCHANGED <<platform, now, sessionVars, pass, ran, outcome, owed, cancels>>

\* A row that has to be measured: its Run starts, and this is its sampling time.
StartRow(r) ==
  /\ Runnable(r)
  /\ ~MayReuse(r)
  /\ asked' = [asked EXCEPT ![r] = now]
  /\ UNCHANGED <<platform, now, sessionVars, pass, results, ran, reused, outcome, owed, cancels>>

\* A fault: an observation carries the generation it finished in.
RecordedAtFinish(r, m) ==
  [open |-> TRUE, result |-> m, sampled |-> asked[r], generation |-> Generation(now),
   inputs |-> [a \in Ancestors[r] |-> results[a]]]

\* record: the observation carries the generation the pass began with.
Recorded(r, m) ==
  [open |-> TRUE, result |-> m, sampled |-> asked[r], generation |-> pass.generation,
   inputs |-> [a \in Ancestors[r] |-> results[a]]]

\* A row's Run returns. Only a passing reusable row, all of whose ancestors have
\* a fingerprint, is kept.
FinishRow(r, m) ==
  /\ asked[r] # Never /\ ~Measured(r)
  /\ results' = [results EXCEPT ![r] = m]
  /\ ran' = IF r \in Reusable /\ m.status = "pass" /\ \A a \in Ancestors[r] : HasFingerprint(a)
              THEN [ran EXCEPT ![r] = Recorded(r, m)] ELSE ran
  /\ UNCHANGED <<platform, now, sessionVars, pass, asked, reused, outcome, owed, cancels>>

\* The executor skips a row behind a failed or skipped one.
SkipRow(r) ==
  /\ pass # NoPass
  /\ asked[r] = Never /\ ~Measured(r) /\ DepsReady(r) /\ DepsBlock(r)
  /\ results' = [results EXCEPT ![r] = Skipped]
  /\ UNCHANGED <<platform, now, sessionVars, pass, asked, ran, reused, outcome, owed, cancels>>

-----------------------------------------------------------------------------
AllReported == pass # NoPass /\ \A r \in Row : Measured(r)

PassEnds ==
  /\ pass' = NoPass
  /\ asked' = [r \in Row |-> Never]
  /\ results' = [r \in Row |-> NotMeasured]
  /\ ran' = [r \in Reusable |-> None]
  /\ reused' = {}

\* current: everything the pass would publish is still recent.
Current ==
  /\ PassCurrent(now, pass.at)
  /\ \A r \in reused : Within(now, pass.cache[r].sampled)

Verdicts == [r \in Row |-> results[r].status]

\* pathOf: the routes the rows that run on every pass measured.
PathOf == {<<r, results[r].route>> : r \in {r \in Row \ Reusable : results[r].route # "none"}}

\* A fault: a reused pass is held to its verdicts only.
ConfirmsVerdicts == pass.force \/ reused = {} \/ last = Verdicts

\* A pass with a reused row is evidence only of what the last pass already said.
Confirms == pass.force \/ reused = {} \/ (last = Verdicts /\ path = PathOf)

OkResult(r) == results[r].status # "fail"

\* A whole measurement answers the requests made before its pass began; the
\* requests made while a pass ran wait for the next one.
Answered == owed' = IF owed = "during" \/ (owed = "before" /\ reused # {}) THEN "before" ELSE "no"
Postponed == owed' = IF owed = "during" THEN "before" ELSE owed

\* A fault: publishing clears every request.
PublishForgetsRequests ==
  /\ AllReported /\ Current /\ Confirms
  /\ cache' = [r \in Reusable |-> IF r \in reused THEN pass.cache[r] ELSE ran[r]]
  /\ last' = Verdicts
  /\ path' = PathOf
  /\ settled' = \A r \in Row : OkResult(r)
  /\ lastFull' = IF reused = {} THEN pass.at ELSE lastFull
  /\ force' = FALSE
  /\ outcome' = "published"
  /\ Answered
  /\ PassEnds
  /\ UNCHANGED <<platform, now, requests, cancels>>

\* Publish, accepted.
Publish ==
  /\ AllReported /\ Current /\ Confirms
  /\ cache' = [r \in Reusable |-> IF r \in reused THEN pass.cache[r] ELSE ran[r]]
  /\ last' = Verdicts
  /\ path' = PathOf
  /\ settled' = \A r \in Row : OkResult(r)
  /\ lastFull' = IF reused = {} THEN pass.at ELSE lastFull
  /\ force' = IF requests = pass.requested THEN FALSE ELSE force
  /\ outcome' = "published"
  /\ Answered
  /\ PassEnds
  /\ UNCHANGED <<platform, now, requests, cancels>>

\* A fault: a refused pass asks for nothing.
RefuseQuietly ==
  /\ AllReported /\ ~(Current /\ Confirms)
  /\ outcome' = "refused"
  /\ owed' = "before"
  /\ PassEnds
  /\ UNCHANGED <<platform, now, sessionVars, cancels>>

\* Publish, refused: nothing is kept and the next pass runs fresh.
Refuse ==
  /\ AllReported /\ ~(Current /\ Confirms)
  /\ force' = TRUE
  /\ CountRequest
  /\ outcome' = "refused"
  /\ owed' = "before"
  /\ PassEnds
  /\ UNCHANGED <<platform, now, cache, last, path, settled, lastFull, cancels>>

\* The owner drops the pass: the run was cancelled, restarted or replaced.
Cancel ==
  /\ pass # NoPass
  /\ cancels < MaxCancels
  /\ cancels' = cancels + 1
  /\ outcome' = "cancelled"
  /\ Postponed
  /\ PassEnds
  /\ UNCHANGED <<platform, now, sessionVars>>

-----------------------------------------------------------------------------
\* Time passes, the machine sleeps, the wall clock is stepped.
Tick ==
  /\ now.awake < MaxAwake
  /\ now' = [now EXCEPT !.awake = @ + 1]
  /\ UNCHANGED <<platform, sessionVars, passVars, outcome, owed, cancels>>

Suspend ==
  /\ now.asleep < MaxAsleep
  /\ now' = [now EXCEPT !.asleep = @ + 1]
  /\ UNCHANGED <<platform, sessionVars, passVars, outcome, owed, cancels>>

StepClock ==
  /\ \E skew \in Skews \ {now.skew} : now' = [now EXCEPT !.skew = skew]
  /\ UNCHANGED <<platform, sessionVars, passVars, outcome, owed, cancels>>

RowStep(r) == Reuse(r) \/ StartRow(r) \/ (\E m \in Answers[r] : FinishRow(r, m)) \/ SkipRow(r)

Owner == Begin \/ Publish \/ Refuse
Environment == ForceFresh \/ Invalidate \/ Cancel \/ Tick \/ Suspend \/ StepClock

Next == Owner \/ (\E r \in Row : RowStep(r)) \/ Environment

\* The owner's loop begins a pass after every pass and publishes what finished;
\* a row ends because it runs under a timeout.
Fairness == WF_vars(Owner) /\ WF_vars(\E r \in Row : RowStep(r))

Spec == Init /\ [][Next]_vars
FairSpec == Spec /\ Fairness

-----------------------------------------------------------------------------
Instant == [awake : Int, asleep : Int, skew : Int, changes : Int]
Measurement == UNION {Answers[r] : r \in Row}
Observation(r) ==
  [open : {TRUE}, result : Answers[r], sampled : Instant, generation : Int,
   inputs : [Ancestors[r] -> Measurement]]
Pass ==
  [open : {TRUE}, at : Instant, force : BOOLEAN, requested : 0..(RequestSpan - 1),
   generation : Int, cache : [Reusable -> {None} \cup UNION {Observation(r) : r \in Reusable}]]

TypeOK ==
  /\ now \in Instant /\ lastFull \in Instant
  /\ \A r \in Reusable : cache[r] # None => cache[r].sampled \in Instant
  /\ last \in [Row -> Status \cup {"none"}]
  /\ settled \in BOOLEAN /\ force \in BOOLEAN
  /\ requests \in 0..(RequestSpan - 1)
  /\ pass # NoPass => pass.requested \in 0..(RequestSpan - 1) /\ pass.at \in Instant
  /\ reused \subseteq Reusable
  /\ outcome \in {"none", "running", "published", "refused", "cancelled"}
  /\ owed \in {"no", "before", "during"}

\* A request for a fresh pass is never lost: until a whole measurement begun
\* after it is published, no pass answers a row from the cache, however passes
\* are cancelled, refused or overlap with the request.
RequestsAreHonoured ==
  /\ owed = "before" /\ pass # NoPass => pass.force
  /\ owed = "during" \/ (owed = "before" /\ pass = NoPass) => force

\* No row is answered from an observation whose run began before a change the
\* session had been told of by then, even when the change landed while that run
\* was under way.
NoReuseAcrossChange ==
  [][\A r \in reused' \ reused : pass.cache[r].sampled.changes = Generation(now)]_vars

Publishes == pass # NoPass /\ outcome' = "published"

\* What is shown never rests on an observation older than MaxAge in true time,
\* through any suspend, as long as the wall clock was not stepped meanwhile.
ShownReuseIsRecent ==
  [][Publishes => \A r \in reused :
       LET sampled == pass.cache[r].sampled
       IN now.skew = sampled.skew => TrueTime(now) - TrueTime(sampled) < MaxAge]_vars

\* A published pass did not run through a suspend longer than the clocks may
\* drift apart: its rows were measured in one session of the network.
NoSuspendInShownPass ==
  [][Publishes /\ pass.at.skew = now.skew /\ (platform.monoCountsSuspend => platform.hasUnbiased) =>
       now.asleep - pass.at.asleep <= DriftAllowance]_vars

\* However rows age and are refreshed one by one, whatever is shown was measured
\* as a whole at most MaxAge and one pass ago.
WholeMeasurementIsRecent ==
  [][Publishes => Mono(now) - Mono(lastFull') < MaxAge + PassWindow]_vars

\* A change of verdict or of path is only ever shown by a pass that measured
\* every row itself.
ChangesAreMeasured ==
  [][Publishes /\ (last' # last \/ path' # path) => reused = {}]_vars

\* Discarded passes do not starve the display: a pass is published again and
\* again once the clocks stop being disturbed and nobody cancels.
KeepsPublishing == []<>(outcome = "published")
=============================================================================
