---------------------------- MODULE WatchProofs ----------------------------
(***************************************************************************)
(* What a Watch session answers from an earlier pass, for any graph, any   *)
(* answers, any window and allowance, any platform's clocks and any bound: *)
(* a request for a fresh pass is honoured, and what is reused or shown was *)
(* measured in this generation, recently, and outside of a suspend.        *)
(***************************************************************************)
EXTENDS WatchSession, TLAPS

\* What an observation says of when it was made.
Sampled(ob) ==
  ob # None =>
    /\ ob.sampled \in Instant /\ ob.generation \in Int /\ ob.result.status \in Status
    /\ ob.generation <= ob.sampled.changes /\ ob.sampled.changes <= Generation(now)

\* No observation, in the session or in the pass, is of a later generation than
\* the one its row was sampled in.
Observations ==
  /\ DOMAIN ran = Reusable
  /\ \A r \in Reusable :
       /\ Sampled(cache[r]) /\ Sampled(ran[r])
       /\ pass # NoPass => Sampled(pass.cache[r])

\* A row runs within its pass.
Runs ==
  /\ DOMAIN asked = Row /\ DOMAIN results = Row
  /\ \A r \in Row :
       /\ results[r] = NotMeasured \/ results[r].status \in Status
       /\ asked[r] # Never =>
            /\ pass # NoPass /\ asked[r] \in Instant
            /\ pass.generation <= asked[r].changes /\ asked[r].changes <= Generation(now)

\* A pass that may reuse rows began while the last whole measurement was recent.
Begun ==
  /\ pass = NoPass => reused = {}
  /\ pass # NoPass =>
       /\ pass.generation \in Int /\ pass.generation <= Generation(now)
       /\ outcome = "running"
       /\ pass.force => reused = {}
       /\ ~pass.force => Within(pass.at, lastFull)
       /\ \A r \in reused : pass.cache[r] # None

\* A request stands until a pass begun after it is published.
Requests ==
  /\ owed # "no" => force
  /\ owed = "during" => pass # NoPass /\ requests # pass.requested
  /\ owed = "before" /\ pass # NoPass => pass.force

IInv == TypeOK /\ Observations /\ Runs /\ Begun /\ Requests

-----------------------------------------------------------------------------
\* Instants.

LEMMA Instants ==
  ASSUME NEW t \in Instant
  PROVE  /\ t.awake \in Int /\ t.asleep \in Int /\ t.skew \in Int /\ t.changes \in Int
         /\ Generation(t) = t.changes /\ TrueTime(t) = t.awake + t.asleep
         /\ Wall(t) = t.awake + t.asleep + t.skew /\ Unbiased(t) = t.awake
         /\ Mono(t) = IF platform.monoCountsSuspend THEN t.awake + t.asleep ELSE t.awake
         /\ Mono(t) \in Int
BY DEF Instant, Generation, TrueTime, Wall, Unbiased, Mono

\* The session's generation, and time, never go back.
LEMMA Later ==
  ASSUME TypeOK, [Next]_vars
  PROVE  /\ now' \in Instant /\ Generation(now) <= Generation(now')
         /\ platform' = platform
<1>0. now \in Instant /\ Skews \subseteq Int
  BY ClockAssumption DEF TypeOK
<1>1. CASE Invalidate
  BY <1>0, <1>1 DEF Invalidate, Instant, Generation
<1>2. CASE Tick
  BY <1>0, <1>2 DEF Tick, Instant, Generation
<1>3. CASE Suspend
  BY <1>0, <1>3 DEF Suspend, Instant, Generation
<1>4. CASE StepClock
  BY <1>0, <1>4 DEF StepClock, Instant, Generation
<1>5. CASE UNCHANGED <<platform, now>>
  BY <1>0, <1>5 DEF Instant, Generation
<1> QED
  BY <1>1, <1>2, <1>3, <1>4, <1>5
     DEF Next, Owner, RowStep, Environment, Begin, Publish, Refuse, Reuse, StartRow, FinishRow,
         SkipRow, ForceFresh, Invalidate, Tick, Suspend, StepClock, Cancel, vars

\* An observation stays one.
LEMMA SampledStays ==
  ASSUME TypeOK, [Next]_vars, NEW ob, Sampled(ob)
  PROVE  Sampled(ob)'
<1>1. now \in Instant /\ now' \in Instant /\ Generation(now) <= Generation(now')
  BY Later DEF TypeOK
<1>2. Generation(now) \in Int /\ Generation(now') \in Int
  BY <1>1, Instants
<1>3. ob # None => ob.sampled.changes \in Int
  BY Instants DEF Sampled
<1> QED
  BY <1>1, <1>2, <1>3 DEF Sampled

-----------------------------------------------------------------------------
\* The inductive invariant, one conjunct at a time.

LEMMA InitInv == Init => IInv
<1> SUFFICES ASSUME Init PROVE IInv
  OBVIOUS
<1>1. TypeOK
  <2>1. requests = 0 /\ 0 \in 0..(RequestSpan - 1)
    BY BoundAssumption DEF Init
  <2>2. Start \in Instant /\ Never \in Instant
    BY DEF Start, Never, Instant
  <2>3. \A r \in Reusable : cache[r] = None
    BY DEF Init
  <2> QED
    BY <2>1, <2>2, <2>3 DEF Init, TypeOK
<1>2. Observations /\ Runs
  BY DEF Init, Observations, Runs, Sampled
<1>3. Begun /\ Requests
  BY DEF Init, Begun, Requests
<1> QED
  BY <1>1, <1>2, <1>3 DEF IInv

\* What the fields of a session's pass are after Begin.
LEMMA BeginFacts ==
  ASSUME TypeOK, Begin
  PROVE  /\ pass = NoPass /\ pass' # NoPass
         /\ pass'.at = now /\ pass'.requested = requests /\ pass'.generation = Generation(now)
         /\ pass'.cache = cache
         /\ pass'.force <=> force \/ ~settled \/ ~Within(now, lastFull)
         /\ UNCHANGED <<platform, now, sessionVars, asked, results, ran, reused, owed, cancels>>
BY DEF Begin, NoPass

LEMMA TypeKept == IInv /\ [Next]_vars => TypeOK'
<1> SUFFICES ASSUME IInv, [Next]_vars PROVE TypeOK'
  OBVIOUS
<1>0. TypeOK /\ now' \in Instant /\ now \in Instant
  BY Later DEF IInv, TypeOK
<1>n. (requests + 1) % RequestSpan \in 0..(RequestSpan - 1)
  BY <1>0, BoundAssumption DEF TypeOK
<1>1. CASE UNCHANGED <<sessionVars, pass, reused, outcome>> /\ owed' \in {"no", "before", "during"}
  BY <1>0, <1>1 DEF TypeOK, sessionVars
<1>2. CASE Begin
  <2>1. pass'.at = now /\ pass'.requested = requests
    BY <1>0, <1>2, BeginFacts
  <2> QED
    BY <1>0, <1>2, <2>1 DEF Begin, TypeOK, sessionVars
<1>3. ASSUME NEW r \in Row, Reuse(r) PROVE TypeOK'
  BY <1>0, <1>3 DEF Reuse, MayReuse, TypeOK, sessionVars
<1>4. CASE Publish
  <2>1. Verdicts \in [Row -> Status \cup {"none"}]
    BY <1>4 DEF Publish, AllReported, Measured, IInv, Runs, Verdicts
  <2>2. (\A r \in Row : OkResult(r)) \in BOOLEAN /\ force' \in BOOLEAN
    BY <1>0, <1>4 DEF Publish, TypeOK
  <2>3. lastFull' \in Instant
    BY <1>0, <1>4 DEF Publish, AllReported, TypeOK
  <2>4. \A r \in Reusable : cache'[r] # None => cache'[r].sampled \in Instant
    BY <1>4 DEF Publish, AllReported, IInv, Observations, Sampled
  <2>5. owed' \in {"no", "before", "during"}
    BY <1>4 DEF Publish, Answered
  <2> QED
    BY <1>0, <1>4, <2>1, <2>2, <2>3, <2>4, <2>5 DEF Publish, PassEnds, TypeOK
<1>5. CASE Refuse
  BY <1>0, <1>5, <1>n DEF Refuse, CountRequest, PassEnds, TypeOK
<1>6. CASE Cancel
  BY <1>0, <1>6 DEF Cancel, Postponed, PassEnds, TypeOK, sessionVars
<1>7. CASE ForceFresh
  BY <1>0, <1>7, <1>n DEF ForceFresh, CountRequest, passVars, TypeOK
<1> QED
  BY <1>0, <1>1, <1>2, <1>3, <1>4, <1>5, <1>6, <1>7
     DEF Next, Owner, RowStep, Environment, StartRow, FinishRow, SkipRow, Invalidate, Tick,
         Suspend, StepClock, passVars, sessionVars, vars, TypeOK

LEMMA ObservationsKept == IInv /\ [Next]_vars => Observations'
<1> SUFFICES ASSUME IInv, [Next]_vars PROVE Observations'
  OBVIOUS
<1>0. TypeOK /\ Observations /\ Runs /\ Begun
  BY DEF IInv
<1>s. \A ob : Sampled(ob) => Sampled(ob)'
  BY <1>0, SampledStays
<1>1. CASE UNCHANGED <<cache, pass, ran>>
  BY <1>0, <1>1, <1>s DEF Observations
<1>2. CASE Begin
  <2>1. pass'.cache = cache /\ UNCHANGED <<cache, ran>>
    BY <1>0, <1>2, BeginFacts DEF sessionVars
  <2> QED
    BY <1>0, <1>s, <2>1 DEF Observations
<1>3. ASSUME PassEnds, \A r \in Reusable : Sampled(cache'[r]) PROVE Observations'
  <2>1. /\ pass' = NoPass /\ DOMAIN ran' = Reusable
        /\ \A r \in Reusable : ran'[r] = None
    BY <1>3 DEF PassEnds
  <2>2. \A r \in Reusable : Sampled(ran'[r])
    BY <2>1 DEF Sampled
  <2>3. \A r \in Reusable : Sampled(cache[r])' /\ Sampled(ran[r])'
    <3> SUFFICES ASSUME NEW r \in Reusable PROVE Sampled(cache[r])' /\ Sampled(ran[r])'
      OBVIOUS
    <3>1. PICK c : c = cache'[r]
      OBVIOUS
    <3>2. PICK d : d = ran'[r]
      OBVIOUS
    <3>3. Sampled(c)' /\ Sampled(d)'
      BY <1>3, <1>s, <2>2, <3>1, <3>2
    <3> QED
      BY <3>1, <3>2, <3>3 DEF Sampled
  <2> QED
    BY <2>1, <2>3 DEF Observations
<1>4. CASE Publish
  <2>1. \A r \in Reusable : Sampled(cache'[r])
    BY <1>0, <1>4 DEF Publish, AllReported, Observations
  <2> QED
    BY <1>3, <1>4, <2>1 DEF Publish
<1>5. CASE Refuse
  BY <1>0, <1>3, <1>5 DEF Refuse, Observations
<1>6. CASE Cancel
  BY <1>0, <1>3, <1>6 DEF Cancel, sessionVars, Observations
<1>7. ASSUME NEW r \in Row, NEW m \in Answers[r], FinishRow(r, m) PROVE Observations'
  <2>1. CASE UNCHANGED ran
    BY <1>1, <1>7, <2>1 DEF FinishRow, sessionVars
  <2>2. CASE r \in Reusable /\ ran' = [ran EXCEPT ![r] = Recorded(r, m)]
    <3> DEFINE ob == Recorded(r, m)
    <3>1. /\ ob.sampled = asked[r] /\ ob.generation = pass.generation /\ ob.result = m
      BY DEF Recorded
    <3>2. /\ asked[r] \in Instant /\ pass.generation \in Int
          /\ pass.generation <= asked[r].changes /\ asked[r].changes <= Generation(now)
      BY <1>0, <1>7 DEF FinishRow, Runs, Begun
    <3>3. m.status \in Status
      BY GraphAssumption
    <3>4. Sampled(ob)
      BY <3>1, <3>2, <3>3 DEF Sampled
    <3> HIDE DEF ob
    <3>5. PICK o : o = ob /\ Sampled(o)
      BY <3>4
    <3>6. Sampled(o)' /\ ran' = [ran EXCEPT ![r] = o]
      BY <1>s, <2>2, <3>5 DEF ob
    <3>7. UNCHANGED <<cache, pass>>
      BY <1>7 DEF FinishRow, sessionVars
    <3>8. \A q \in Reusable : Sampled(ran[q])'
      <4> SUFFICES ASSUME NEW q \in Reusable PROVE Sampled(ran[q])'
        OBVIOUS
      <4>1. PICK p : p = ran'[q]
        OBVIOUS
      <4>2. Sampled(p)
        BY <1>0, <3>5, <3>6, <4>1 DEF Observations
      <4> QED
        BY <1>s, <4>1, <4>2 DEF Sampled
    <3> QED
      BY <1>0, <1>s, <3>6, <3>7, <3>8 DEF Observations
  <2> QED
    BY <1>7, <2>1, <2>2 DEF FinishRow
<1> QED
  BY <1>1, <1>2, <1>4, <1>5, <1>6, <1>7
     DEF Next, Owner, RowStep, Environment, Reuse, StartRow, SkipRow, ForceFresh, Invalidate, Tick,
         Suspend, StepClock, passVars, sessionVars, vars

LEMMA RunsKept == IInv /\ [Next]_vars => Runs'
<1> SUFFICES ASSUME IInv, [Next]_vars PROVE Runs'
  OBVIOUS
<1>0. TypeOK /\ Observations /\ Runs /\ Begun
  BY DEF IInv
<1>g. /\ Generation(now) <= Generation(now') /\ Generation(now) \in Int /\ Generation(now') \in Int
      /\ now \in Instant /\ now.changes = Generation(now)
      /\ \A r \in Row : asked[r] # Never => asked[r].changes \in Int
  BY <1>0, Later, Instants DEF TypeOK, Runs
<1>1. CASE UNCHANGED <<asked, results, pass>>
  <2>1. \A r \in Row : asked[r] # Never => asked[r].changes <= Generation(now')
    BY <1>0, <1>g DEF Runs
  <2> QED
    BY <1>0, <1>1, <2>1 DEF Runs
<1>2. CASE Begin
  BY <1>0, <1>2 DEF Begin, Runs
<1>3. CASE PassEnds
  BY <1>3 DEF PassEnds, Runs
<1>4. ASSUME NEW r \in Row, r \in Reusable, Reuse(r) PROVE Runs'
  <2>1. /\ results' = [results EXCEPT ![r] = pass.cache[r].result]
        /\ asked' = [asked EXCEPT ![r] = now] /\ pass # NoPass /\ UNCHANGED <<now, pass>>
        /\ pass.cache[r].result.status \in Status
    BY <1>0, <1>4 DEF Reuse, Runnable, MayReuse, Observations, Sampled
  <2>2. pass.generation <= now.changes
    BY <1>0, <1>g, <2>1 DEF Begun
  <2> QED
    BY <1>0, <1>g, <2>1, <2>2 DEF Runs
<1>5. ASSUME NEW r \in Row, StartRow(r) PROVE Runs'
  <2>1. /\ asked' = [asked EXCEPT ![r] = now] /\ pass # NoPass /\ UNCHANGED <<now, pass, results>>
    BY <1>5 DEF StartRow, Runnable
  <2>2. pass.generation <= now.changes
    BY <1>0, <1>g, <2>1 DEF Begun
  <2> QED
    BY <1>0, <1>g, <2>1, <2>2 DEF Runs
<1>6. ASSUME NEW r \in Row, NEW m \in Answers[r], FinishRow(r, m) PROVE Runs'
  <2>1. m.status \in Status
    BY GraphAssumption
  <2> QED
    BY <1>0, <1>6, <2>1 DEF FinishRow, Runs
<1>7. ASSUME NEW r \in Row, SkipRow(r) PROVE Runs'
  BY <1>0, <1>7 DEF SkipRow, Runs, Skipped, Status
<1> QED
  BY <1>1, <1>2, <1>3, <1>4, <1>5, <1>6, <1>7
     DEF Next, Owner, RowStep, Environment, Publish, Refuse, Cancel, Reuse, MayReuse, ForceFresh,
         Invalidate, Tick, Suspend, StepClock, passVars, vars

LEMMA BegunKept == IInv /\ [Next]_vars => Begun'
<1> SUFFICES ASSUME IInv, [Next]_vars PROVE Begun'
  OBVIOUS
<1>0. TypeOK /\ Begun
  BY DEF IInv
<1>g. /\ Generation(now) <= Generation(now') /\ Generation(now) \in Int /\ Generation(now') \in Int
      /\ platform' = platform
  BY <1>0, Later, Instants DEF TypeOK
<1>w. lastFull' = lastFull => \A t : Within(t, lastFull)' <=> Within(t, lastFull)
  BY <1>g DEF Within, Mono, Wall, TrueTime
<1>1. CASE UNCHANGED <<pass, reused, lastFull, outcome>>
  <2>1. pass # NoPass => pass.generation <= Generation(now')
    BY <1>0, <1>g DEF Begun
  <2> QED
    BY <1>0, <1>1, <1>g, <2>1 DEF Begun, Within, Mono, Wall, TrueTime
<1>2. CASE Begin
  <2>1. /\ pass = NoPass /\ pass'.generation = Generation(now) /\ reused' = reused
        /\ pass'.at = now /\ UNCHANGED <<now, lastFull>>
        /\ ~pass'.force => Within(now, lastFull)
        /\ outcome' = "running"
    BY <1>0, <1>2, BeginFacts DEF sessionVars, Begin
  <2> QED
    BY <1>0, <1>g, <2>1 DEF Begun, Within, Mono, Wall, TrueTime
<1>3. CASE PassEnds
  BY <1>3 DEF PassEnds, Begun
<1>4. ASSUME NEW r \in Row, Reuse(r) PROVE Begun'
  BY <1>0, <1>4 DEF Reuse, Runnable, MayReuse, sessionVars, Begun, Within, Mono, Wall, TrueTime
<1> QED
  BY <1>1, <1>2, <1>3, <1>4
     DEF Next, Owner, RowStep, Environment, Publish, Refuse, Cancel, StartRow, FinishRow, SkipRow,
         ForceFresh, Invalidate, Tick, Suspend, StepClock, sessionVars, passVars, vars

LEMMA RequestsKept == IInv /\ [Next]_vars => Requests'
<1> SUFFICES ASSUME IInv, [Next]_vars PROVE Requests'
  OBVIOUS
<1>0. TypeOK /\ Begun /\ Requests
  BY DEF IInv
<1>1. CASE UNCHANGED <<owed, force, requests, pass>>
  BY <1>0, <1>1 DEF Requests
<1>2. CASE Begin
  <2>1. /\ pass = NoPass /\ UNCHANGED <<owed, force, requests>> /\ (force => pass'.force)
    BY <1>0, <1>2, BeginFacts DEF sessionVars
  <2> QED
    BY <1>0, <2>1 DEF Requests
<1>3. CASE ForceFresh
  BY <1>0, <1>3 DEF ForceFresh, CountRequest, passVars, Requests
<1>4. CASE Publish
  BY <1>0, <1>4 DEF Publish, AllReported, Answered, PassEnds, Requests, Begun
<1>5. CASE Refuse
  BY <1>5 DEF Refuse, PassEnds, Requests
<1>6. CASE Cancel
  BY <1>0, <1>6 DEF Cancel, Postponed, PassEnds, sessionVars, Requests
<1> QED
  BY <1>1, <1>2, <1>3, <1>4, <1>5, <1>6
     DEF Next, Owner, RowStep, Environment, Reuse, StartRow, FinishRow, SkipRow,
         Invalidate, Tick, Suspend, StepClock, sessionVars, passVars, vars

LEMMA Invariance == Spec => []IInv
<1>1. IInv /\ [Next]_vars => IInv'
  BY TypeKept, ObservationsKept, RunsKept, BegunKept, RequestsKept DEF IInv
<1> QED
  BY <1>1, InitInv, PTL DEF Spec

-----------------------------------------------------------------------------
\* Type correctness.
THEOREM TypeCorrect == Spec => []TypeOK
<1>1. IInv => TypeOK
  BY DEF IInv
<1> QED
  BY <1>1, Invariance, PTL

\* A request for a fresh pass is never lost, however passes are cancelled,
\* refused or overlap with it (WatchSession.Force and Publish).
THEOREM RequestsHonoured == Spec => []RequestsAreHonoured
<1>1. IInv => RequestsAreHonoured
  BY DEF IInv, Requests, RequestsAreHonoured
<1> QED
  BY <1>1, Invariance, PTL

\* No row is answered from an observation begun before a change the session knew
\* of (WatchPass.reuse).
THEOREM ReuseWithinGeneration == Spec => NoReuseAcrossChange
<1> DEFINE A == \A r \in reused' \ reused : pass.cache[r].sampled.changes = Generation(now)
<1>1. IInv /\ [Next]_vars => [A]_vars
  <2> SUFFICES ASSUME IInv, Next PROVE A
    OBVIOUS
  <2>1. ASSUME NEW r \in Row, Reuse(r) PROVE A
    <3>1. /\ reused' = reused \cup {r} /\ pass # NoPass /\ r \in Reusable
          /\ pass.cache[r] # None /\ pass.cache[r].generation = Generation(now)
      BY <2>1 DEF Reuse, Runnable, MayReuse
    <3>2. /\ pass.cache[r].generation <= pass.cache[r].sampled.changes
          /\ pass.cache[r].sampled.changes <= Generation(now)
          /\ pass.cache[r].sampled \in Instant /\ now \in Instant
      BY <3>1 DEF IInv, Observations, Sampled, TypeOK
    <3>3. pass.cache[r].sampled.changes \in Int /\ Generation(now) \in Int
      BY <3>2, Instants
    <3> QED
      BY <3>1, <3>2, <3>3
  <2>2. CASE reused' = reused \/ reused' = {}
    BY <2>2
  <2> QED
    BY <2>1, <2>2
       DEF Next, Owner, RowStep, Environment, Begin, Publish, Refuse, Cancel, PassEnds, StartRow,
           FinishRow, SkipRow, ForceFresh, Invalidate, Tick, Suspend, StepClock, passVars
<1> QED
  BY <1>1, Invariance, PTL DEF Spec, NoReuseAcrossChange

\* A step that publishes is Publish.
LEMMA PublishFacts ==
  ASSUME IInv, Next, Publishes
  PROVE  /\ Current /\ Confirms /\ pass # NoPass
         /\ last' = Verdicts /\ path' = PathOf /\ UNCHANGED <<platform, now>>
         /\ lastFull' = IF reused = {} THEN pass.at ELSE lastFull
         /\ now \in Instant /\ pass.at \in Instant /\ lastFull \in Instant
         /\ reused \subseteq Reusable
         /\ \A r \in reused : pass.cache[r].sampled \in Instant
         /\ pass.force => reused = {}
         /\ ~pass.force => Within(pass.at, lastFull)
<1>1. pass # NoPass /\ outcome = "running" /\ outcome' = "published"
  BY DEF Publishes, IInv, Begun
<1>2. Publish
  BY <1>1
     DEF Next, Owner, RowStep, Environment, Begin, Refuse, Cancel, Reuse, StartRow, FinishRow,
         SkipRow, ForceFresh, Invalidate, Tick, Suspend, StepClock
<1>3. /\ now \in Instant /\ pass.at \in Instant /\ lastFull \in Instant /\ reused \subseteq Reusable
  BY <1>1 DEF IInv, TypeOK
<1>4. Current /\ Confirms
  BY <1>2 DEF Publish
<1>5. \A r \in reused : pass.cache[r] # None
  BY <1>1 DEF IInv, Begun
<1>6. \A r \in reused : pass.cache[r].sampled \in Instant
  BY <1>1, <1>3, <1>5 DEF IInv, Observations, Sampled
<1>7. /\ pass.force => reused = {}
      /\ ~pass.force => Within(pass.at, lastFull)
  BY <1>1 DEF IInv, Begun
<1> QED
  BY <1>1, <1>2, <1>3, <1>4, <1>6, <1>7 DEF Publish

\* What is shown never rests on an observation older than MaxAge in true time
\* (WatchPass.current).
THEOREM ReuseRecent == Spec => ShownReuseIsRecent
<1> DEFINE A == Publishes => \A r \in reused :
                  LET sampled == pass.cache[r].sampled
                  IN now.skew = sampled.skew => TrueTime(now) - TrueTime(sampled) < MaxAge
<1>1. IInv /\ [Next]_vars => [A]_vars
  <2> SUFFICES ASSUME IInv, Next, Publishes, NEW r \in reused,
                      now.skew = pass.cache[r].sampled.skew
               PROVE  TrueTime(now) - TrueTime(pass.cache[r].sampled) < MaxAge
    OBVIOUS
  <2> DEFINE s == pass.cache[r].sampled
  <2>1. now \in Instant /\ s \in Instant /\ Within(now, s)
    BY PublishFacts DEF Current
  <2> HIDE DEF s
  <2>2. Wall(now) - Wall(s) < MaxAge
    BY <2>1 DEF Within, InWindow
  <2> QED
    BY <2>1, <2>2, Instants, ClockAssumption DEF s
<1> QED
  BY <1>1, Invariance, PTL DEF Spec, ShownReuseIsRecent

\* A published pass did not run through a suspend (passCurrent, unbiasedCurrent).
THEOREM NoSuspend == Spec => NoSuspendInShownPass
<1> DEFINE A == Publishes /\ pass.at.skew = now.skew
                  /\ (platform.monoCountsSuspend => platform.hasUnbiased) =>
                  now.asleep - pass.at.asleep <= DriftAllowance
<1>1. IInv /\ [Next]_vars => [A]_vars
  <2> SUFFICES ASSUME IInv, Next, Publishes, pass.at.skew = now.skew,
                      platform.monoCountsSuspend => platform.hasUnbiased
               PROVE  now.asleep - pass.at.asleep <= DriftAllowance
    OBVIOUS
  <2>1. now \in Instant /\ pass.at \in Instant /\ PassCurrent(now, pass.at)
    BY PublishFacts DEF Current
  <2>2. PICK b \in Instant : b = pass.at
    BY <2>1
  <2>3. /\ Abs(Wall(now) - Wall(b) - (Mono(now) - Mono(b))) <= DriftAllowance
        /\ platform.hasUnbiased =>
             Abs(Mono(now) - Mono(b) - (Unbiased(now) - Unbiased(b))) <= DriftAllowance
    BY <2>1, <2>2 DEF PassCurrent
  <2>4. CASE platform.monoCountsSuspend
    <3>1. Mono(now) - Mono(b) - (Unbiased(now) - Unbiased(b)) = now.asleep - b.asleep
      BY <2>1, <2>2, <2>4, Instants
    <3> QED
      BY <2>1, <2>2, <2>3, <2>4, <3>1, Instants, ClockAssumption DEF Abs
  <2>5. CASE ~platform.monoCountsSuspend
    <3>1. Wall(now) - Wall(b) - (Mono(now) - Mono(b)) = now.asleep - b.asleep
      BY <2>1, <2>2, <2>5, Instants
    <3> QED
      BY <2>1, <2>2, <2>3, <3>1, Instants, ClockAssumption DEF Abs
  <2> QED
    BY <2>4, <2>5
<1> QED
  BY <1>1, Invariance, PTL DEF Spec, NoSuspendInShownPass

\* However rows are refreshed one by one, what is shown was measured as a whole at
\* most MaxAge and one pass ago (WatchSession.Begin).
THEOREM WholeRecent == Spec => WholeMeasurementIsRecent
<1> DEFINE A == Publishes => Mono(now) - Mono(lastFull') < MaxAge + PassWindow
<1>1. IInv /\ [Next]_vars => [A]_vars
  <2> SUFFICES ASSUME IInv, Next, Publishes
               PROVE  Mono(now) - Mono(lastFull') < MaxAge + PassWindow
    OBVIOUS
  <2>1. now \in Instant /\ pass.at \in Instant /\ lastFull \in Instant /\ PassCurrent(now, pass.at)
    BY PublishFacts DEF Current
  <2>2. /\ Mono(now) - Mono(pass.at) < PassWindow
        /\ Mono(now) \in Int /\ Mono(pass.at) \in Int /\ Mono(lastFull) \in Int
        /\ MaxAge \in Nat \ {0} /\ PassWindow \in Nat
    BY <2>1, Instants, ClockAssumption DEF PassCurrent, InWindow
  <2>3. CASE reused = {}
    <3>1. lastFull' = pass.at
      BY <2>3, PublishFacts
    <3> QED
      BY <2>2, <3>1
  <2>4. CASE reused # {}
    <3>1. lastFull' = lastFull /\ Within(pass.at, lastFull)
      BY <2>4, PublishFacts
    <3>2. Mono(pass.at) - Mono(lastFull) < MaxAge
      BY <3>1 DEF Within, InWindow
    <3> QED
      BY <2>2, <3>1, <3>2
  <2> QED
    BY <2>3, <2>4
<1> QED
  BY <1>1, Invariance, PTL DEF Spec, WholeMeasurementIsRecent

\* A change of verdict or of path is only shown by a pass that measured every row
\* itself (WatchPass.confirms).
THEOREM ChangesMeasured == Spec => ChangesAreMeasured
<1> DEFINE A == Publishes /\ (last' # last \/ path' # path) => reused = {}
<1>1. IInv /\ [Next]_vars => [A]_vars
  <2> SUFFICES ASSUME IInv, Next, Publishes, last' # last \/ path' # path PROVE reused = {}
    OBVIOUS
  <2> QED
    BY PublishFacts DEF Confirms
<1> QED
  BY <1>1, Invariance, PTL DEF Spec, ChangesAreMeasured
=============================================================================
