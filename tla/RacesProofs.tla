---------------------------- MODULE RacesProofs ----------------------------
(***************************************************************************)
(* What the races of MCRaces report is true, and what the reader of route  *)
(* notifications lets a session reuse is current, for any number of        *)
(* addresses, events, changes, subscriptions and failures. The races share *)
(* no state, so each has an inductive invariant of its own, kept by its    *)
(* own steps (Moves); the dial race comes last, on its own and beside the  *)
(* others: it returns with nothing left behind, reports every failure,     *)
(* blames an address for nothing but its own errors and names what ended   *)
(* it.                                                                     *)
(***************************************************************************)
EXTENDS MCRaces, FiniteSetTheorems, SequenceTheorems, TLAPS

\* Queues: who is on one, and that nobody is on it twice.
On(x, q) == \E i \in 1..Len(q) : q[i] = x
Once(q) == \A i, j \in 1..Len(q) : q[i] = q[j] => i = j

LEMMA PutFacts ==
  ASSUME NEW S, NEW q \in Seq(S), NEW x \in S
  PROVE  /\ Append(q, x) \in Seq(S) /\ Append(q, x) # <<>>
         /\ \A y : On(y, Append(q, x)) <=> (On(y, q) \/ y = x)
         /\ Once(q) /\ ~On(x, q) => Once(Append(q, x))
<1> DEFINE p == Append(q, x)
<1>1. /\ p \in Seq(S) /\ Len(q) \in Nat /\ Len(p) = Len(q) + 1
      /\ \A i \in 1..Len(q) : p[i] = q[i]
      /\ p[Len(q) + 1] = x
  OBVIOUS
<1>2. 1..Len(p) = 1..Len(q) \cup {Len(q) + 1}
  BY <1>1
<1>3. \A y : On(y, p) <=> (On(y, q) \/ y = x)
  BY <1>1, <1>2 DEF On
<1>4. ASSUME Once(q), ~On(x, q) PROVE Once(p)
  BY <1>1, <1>2, <1>4 DEF Once, On
<1> QED
  BY <1>1, <1>3, <1>4

LEMMA TakeFacts ==
  ASSUME NEW S, NEW q \in Seq(S), q # <<>>
  PROVE  /\ Head(q) \in S /\ On(Head(q), q)
         /\ Tail(q) \in Seq(S)
         /\ \A y : On(y, Tail(q)) => On(y, q)
         /\ Once(q) => /\ Once(Tail(q))
                       /\ \A y : On(y, Tail(q)) <=> (On(y, q) /\ y # Head(q))
<1> DEFINE p == Tail(q)
<1>1. /\ Len(q) \in Nat \ {0} /\ p \in Seq(S) /\ Len(p) = Len(q) - 1
      /\ \A i \in 1..Len(p) : p[i] = q[i + 1] /\ i + 1 \in 1..Len(q)
      /\ Head(q) = q[1] /\ q[1] \in S /\ 1 \in 1..Len(q)
  OBVIOUS
<1>2. \A y : On(y, p) => On(y, q)
  BY <1>1 DEF On
<1>3. ASSUME Once(q) PROVE Once(p)
  <2> SUFFICES ASSUME NEW i \in 1..Len(p), NEW j \in 1..Len(p), p[i] = p[j] PROVE i = j
    BY DEF Once
  <2>1. q[i + 1] = q[j + 1] /\ i + 1 \in 1..Len(q) /\ j + 1 \in 1..Len(q)
    BY <1>1
  <2>2. i + 1 = j + 1
    BY <1>3, <2>1 DEF Once
  <2> QED
    BY <1>1, <2>2
<1>4. ASSUME Once(q), NEW y PROVE On(y, p) <=> (On(y, q) /\ y # Head(q))
  <2>1. ASSUME NEW i \in 1..Len(p), p[i] = q[1] PROVE FALSE
    <3>1. q[i + 1] = q[1] /\ i + 1 \in 1..Len(q)
      BY <1>1, <2>1
    <3>2. i + 1 = 1
      BY <1>1, <1>4, <3>1 DEF Once
    <3> QED
      BY <1>1, <3>2
  <2>2. ASSUME NEW i \in 1..Len(q), q[i] = y, y # q[1] PROVE On(y, p)
    <3>1. i # 1 /\ i - 1 \in 1..Len(p) /\ p[i - 1] = q[i]
      BY <1>1, <2>2
    <3> QED
      BY <2>2, <3>1 DEF On
  <2> QED
    BY <1>1, <1>2, <2>1, <2>2 DEF On
<1> QED
  BY <1>1, <1>2, <1>3, <1>4 DEF On

\* A Boolean, counted.
One(b) == IF b THEN 1 ELSE 0

\* Each race moves by its own steps, whatever the others do.
LEMMA Moves ==
  ASSUME [NextRaces]_raceVars
  PROVE  /\ [Family!Next]_familyVars /\ [Lookup!Next]_lookupVars /\ [Dns!Next]_dnsVars
         /\ [Quic!Next]_quicVars /\ [Faults!Next]_faultVars /\ [Feed!Next]_feedVars
         /\ [Next]_dialVars
<1>1. CASE OfDial /\ Next
  BY <1>1 DEF OfDial
<1>2. CASE OfFamily /\ Family!Next
  BY <1>2 DEF OfFamily
<1>3. CASE OfLookup /\ Lookup!Next
  BY <1>3 DEF OfLookup
<1>4. CASE OfDns /\ Dns!Next
  BY <1>4 DEF OfDns
<1>5. CASE OfQuic /\ Quic!Next
  BY <1>5 DEF OfQuic
<1>6. CASE OfFaults /\ Faults!Next
  BY <1>6 DEF OfFaults
<1>7. CASE OfFeed /\ Feed!Next
  BY <1>7 DEF OfFeed
<1>8. CASE UNCHANGED raceVars
  BY <1>8 DEF raceVars
<1> QED
  BY <1>1, <1>2, <1>3, <1>4, <1>5, <1>6, <1>7, <1>8 DEF NextRaces

-----------------------------------------------------------------------------
\* The two address families of one name.

Winner(f) == familyDial[f] \in {"finished", "reported"} /\ familyErr[f] = "none"

\* A goroutine's connection is open until it lost, and one claims the flag.
FamilyDials ==
  \A f \in Family!Family :
    /\ familyDial[f] = "absent" <=> f \notin families
    /\ f \in familyOpen <=> \/ familyDial[f] \in {"connected", "claiming", "losing"}
                            \/ Winner(f)
    /\ familyDial[f] \in {"dialing", "connected", "claiming", "losing"} => familyErr[f] = "none"
    /\ familyDial[f] = "losing" => won \/ familyCtx = "ended"
    /\ familyErr[f] = "lost" => won

FamilyClaim ==
  /\ won <=> \E f \in families : Winner(f)
  /\ \A f, g \in families : Winner(f) /\ Winner(g) => f = g

\* What the caller has received was reported.
FamilyReports ==
  /\ \A f \in Family!Family :
       On(f, familyResults) \/ f \in errs \/ f = conn => familyDial[f] = "reported"
  /\ \A f \in errs : familyErr[f] # "none"
  /\ conn \in Family!Family => familyErr[conn] = "none" /\ conn \in families
  /\ conn = "error" => errs = families

FamilyInv == Family!TypeOK /\ FamilyDials /\ FamilyClaim /\ FamilyReports

LEMMA InitFamilyInv == InitRaces => FamilyInv
<1> SUFFICES ASSUME InitRaces PROVE FamilyInv
  OBVIOUS
<1>1. Family!Init
  BY DEF InitRaces
<1>2. ~On("IPv4", <<>>) /\ ~On("IPv6", <<>>) /\ <<>> \in Seq(families)
  BY DEF On
<1>3. Family!TypeOK
  BY <1>1, <1>2 DEF Family!Init, Family!TypeOK, Family!Family
<1>4. FamilyDials /\ FamilyClaim /\ FamilyReports
  BY <1>1, <1>2 DEF Family!Init, Family!Family, FamilyDials, FamilyClaim, FamilyReports, Winner
<1> QED
  BY <1>3, <1>4 DEF FamilyInv

\* What the channel of the families is after each kind of step.
LEMMA FamilyQueue ==
  ASSUME Family!TypeOK
  PROVE  /\ families \subseteq Family!Family /\ familyResults \in Seq(families)
         /\ \A f \in families :
              /\ Append(familyResults, f) \in Seq(families)
              /\ \A g : On(g, Append(familyResults, f)) <=> (On(g, familyResults) \/ g = f)
         /\ familyResults # <<>> =>
              /\ Head(familyResults) \in families /\ On(Head(familyResults), familyResults)
              /\ Tail(familyResults) \in Seq(families)
              /\ \A g : On(g, Tail(familyResults)) => On(g, familyResults)
<1>1. families \subseteq Family!Family /\ familyResults \in Seq(families)
  BY DEF Family!TypeOK
<1>2. ASSUME NEW f \in families
      PROVE  /\ Append(familyResults, f) \in Seq(families)
             /\ \A g : On(g, Append(familyResults, f)) <=> (On(g, familyResults) \/ g = f)
  BY <1>1, PutFacts
<1> QED
  BY <1>1, <1>2, TakeFacts

LEMMA FamilyKept == FamilyInv /\ [Family!Next]_familyVars => FamilyInv'
<1> SUFFICES ASSUME FamilyInv, [Family!Next]_familyVars PROVE FamilyInv'
  OBVIOUS
<1>0. /\ Family!TypeOK /\ FamilyDials /\ FamilyClaim /\ FamilyReports
      /\ familyDial \in [Family!Family -> {"absent", "dialing", "connected", "claiming", "losing",
                                           "finished", "reported"}]
      /\ familyErr \in [Family!Family -> {"none", "own", "ended", "lost"}]
  BY DEF FamilyInv, Family!TypeOK
<1>q. /\ families \subseteq Family!Family /\ familyResults \in Seq(families)
      /\ \A f \in families :
           /\ Append(familyResults, f) \in Seq(families)
           /\ \A g : On(g, Append(familyResults, f)) <=> (On(g, familyResults) \/ g = f)
      /\ familyResults # <<>> =>
           /\ Head(familyResults) \in families /\ On(Head(familyResults), familyResults)
           /\ Tail(familyResults) \in Seq(families)
           /\ \A g : On(g, Tail(familyResults)) => On(g, familyResults)
  BY <1>0, FamilyQueue
<1> USE <1>0
<1>1. CASE Family!ContextEnds
  <2>1. Family!TypeOK' /\ FamilyClaim' /\ FamilyReports'
    BY <1>1 DEF Family!ContextEnds, Family!dialVars, Family!TypeOK, FamilyClaim, FamilyReports, Winner
  <2> QED
    BY <1>1, <2>1 DEF Family!ContextEnds, Family!dialVars, FamilyInv, FamilyDials, Winner
<1>2. ASSUME NEW f \in Family!Family, Family!Connects(f) PROVE FamilyInv'
  BY <1>2 DEF Family!Connects, FamilyInv, Family!TypeOK, FamilyDials, FamilyClaim, FamilyReports, Winner
<1>3. ASSUME NEW f \in Family!Family, Family!Fails(f) PROVE FamilyInv'
  BY <1>3 DEF Family!Fails, FamilyInv, Family!TypeOK, FamilyDials, FamilyClaim, FamilyReports, Winner
<1>4. ASSUME NEW f \in Family!Family, Family!ReadsContext(f) PROVE FamilyInv'
  BY <1>4 DEF Family!ReadsContext, FamilyInv, Family!TypeOK, FamilyDials, FamilyClaim,
     FamilyReports, Winner
<1>5. ASSUME NEW f \in Family!Family, Family!Claims(f) PROVE FamilyInv'
  BY <1>5 DEF Family!Claims, FamilyInv, Family!TypeOK, FamilyDials, FamilyClaim, FamilyReports, Winner
<1>6. ASSUME NEW f \in Family!Family, Family!Closes(f) PROVE FamilyInv'
  BY <1>6 DEF Family!Closes, FamilyInv, Family!TypeOK, FamilyDials, FamilyClaim, FamilyReports, Winner
<1>7. ASSUME NEW f \in Family!Family, Family!Reports(f) PROVE FamilyInv'
  BY <1>7, <1>q DEF Family!Reports, FamilyInv, Family!TypeOK, FamilyDials, FamilyClaim,
     FamilyReports, Winner
<1>8. CASE Family!ReceiveConnection
  <2> USE <1>8, <1>q DEF Family!ReceiveConnection, Family!Returned
  <2>1. Family!TypeOK'
    BY DEF Family!TypeOK
  <2>2. FamilyDials' /\ FamilyClaim'
    BY DEF FamilyDials, FamilyClaim, Winner
  <2>3. FamilyReports'
    BY DEF FamilyReports, Family!Family
  <2> QED
    BY <2>1, <2>2, <2>3 DEF FamilyInv
<1>9. CASE Family!ReceiveError
  BY <1>9, <1>q DEF Family!ReceiveError, Family!Returned, FamilyInv, Family!TypeOK, FamilyDials,
     FamilyClaim, FamilyReports, Winner
<1>10. CASE Family!GiveUp
  <2> USE <1>10 DEF Family!GiveUp, Family!dialVars
  <2>1. Family!TypeOK' /\ FamilyDials' /\ FamilyClaim'
    BY DEF Family!TypeOK, FamilyDials, FamilyClaim, Winner
  <2>2. FamilyReports'
    BY DEF FamilyReports, Family!Family
  <2> QED
    BY <2>1, <2>2 DEF FamilyInv
<1>11. CASE UNCHANGED familyVars
  BY <1>11 DEF familyVars, FamilyInv, Family!TypeOK, FamilyDials, FamilyClaim, FamilyReports, Winner
<1>12. CASE UNCHANGED Family!vars
  BY <1>11, <1>12 DEF familyVars, Family!vars, Family!dialVars
<1> QED
  BY <1>1, <1>2, <1>3, <1>4, <1>5, <1>6, <1>7, <1>8, <1>9, <1>10, <1>11, <1>12
     DEF Family!Next, Family!DialStep, Family!Caller

LEMMA FamilyTrue == FamilyInv => Family!FamilyIsTrue
<1> SUFFICES ASSUME FamilyInv PROVE Family!FamilyIsTrue
  OBVIOUS
<1> USE DEF FamilyInv, Family!TypeOK
<1>1. conn \in Family!Family => Winner(conn) /\ conn \in familyOpen /\ won
  BY DEF FamilyDials, FamilyClaim, FamilyReports, Winner
<1>2. conn = "error" => ~won /\ \A f \in families : familyErr[f] \in {"own", "ended"}
  BY DEF FamilyDials, FamilyClaim, FamilyReports, Winner
<1>3. Family!Settled => familyOpen = {conn} \cap Family!Family
  <2> SUFFICES ASSUME Family!Settled, NEW f \in Family!Family
               PROVE  f \in familyOpen <=> f = conn
    OBVIOUS
  <2>1. conn # "pending" /\ \A g \in families : familyDial[g] = "reported"
    BY DEF Family!Settled, Family!Returned
  <2>2. f \in familyOpen => f \in families /\ Winner(f)
    BY <2>1 DEF FamilyDials, Winner
  <2>3. Winner(f) => won
    BY <2>1, <2>2 DEF FamilyClaim, FamilyDials, Winner
  <2>4. conn \in Family!Family \/ conn = "error"
    BY <2>1
  <2> QED
    BY <1>1, <1>2, <2>2, <2>3, <2>4 DEF FamilyClaim
<1> QED
  BY <1>1, <1>2, <1>3 DEF Family!FamilyIsTrue

-----------------------------------------------------------------------------
\* The two samples of a lookup.

\* Sent and not received.
Awaited(q) == query[q] = "asking" \/ On(q, answers)

LookupInv ==
  /\ Lookup!TypeOK
  /\ Once(answers)
  /\ \A q \in Lookup!Query : On(q, answers) => query[q] \in Lookup!Outcome
  /\ query[1] # "unsent" /\ (query[2] = "unsent" <=> spare)
  /\ outstanding = One(Awaited(1)) + One(Awaited(2))
  /\ ~Lookup!Returned =>
       /\ spare => Awaited(1)
       /\ \A q \in Lookup!Query :
            ~Awaited(q) /\ query[q] # "unsent" =>
              query[q] \in Lookup!Retryable /\ last \in Lookup!Retryable
  /\ Lookup!LookupIsTrue

LEMMA InitLookupInv == InitRaces => LookupInv
<1> SUFFICES ASSUME InitRaces PROVE LookupInv
  OBVIOUS
<1>1. Lookup!Init
  BY DEF InitRaces
<1>2. ~On(1, <<>>) /\ ~On(2, <<>>) /\ Once(<<>>) /\ <<>> \in Seq(Lookup!Query)
  BY DEF On, Once
<1>3. Lookup!TypeOK
  BY <1>1, <1>2 DEF Lookup!Init, Lookup!TypeOK, Lookup!Query
<1>4. Awaited(1) /\ ~Awaited(2)
  BY <1>1, <1>2 DEF Lookup!Init, Awaited
<1> QED
  BY <1>1, <1>2, <1>3, <1>4
     DEF LookupInv, Lookup!Init, Lookup!Query, Lookup!Returned, Lookup!LookupIsTrue, One

\* What the channel of the answers is after each kind of step.
LEMMA AnswerQueue ==
  ASSUME Lookup!TypeOK, Once(answers)
  PROVE  /\ \A q \in Lookup!Query :
              /\ Append(answers, q) \in Seq(Lookup!Query)
              /\ \A p : On(p, Append(answers, q)) <=> (On(p, answers) \/ p = q)
              /\ ~On(q, answers) => Once(Append(answers, q))
         /\ answers # <<>> =>
              /\ Head(answers) \in Lookup!Query /\ On(Head(answers), answers)
              /\ Tail(answers) \in Seq(Lookup!Query) /\ Once(Tail(answers))
              /\ \A p : On(p, Tail(answers)) <=> (On(p, answers) /\ p # Head(answers))
<1>1. answers \in Seq(Lookup!Query)
  BY DEF Lookup!TypeOK
<1>2. ASSUME NEW q \in Lookup!Query
      PROVE  /\ Append(answers, q) \in Seq(Lookup!Query)
             /\ \A p : On(p, Append(answers, q)) <=> (On(p, answers) \/ p = q)
             /\ ~On(q, answers) => Once(Append(answers, q))
  BY <1>1, PutFacts
<1> QED
  BY <1>1, <1>2, TakeFacts

LEMMA LookupKept == LookupInv /\ [Lookup!Next]_lookupVars => LookupInv'
<1> SUFFICES ASSUME LookupInv, [Lookup!Next]_lookupVars PROVE LookupInv'
  OBVIOUS
<1>0. Lookup!TypeOK /\ Once(answers)
  BY DEF LookupInv
<1>q. /\ \A q \in Lookup!Query :
           /\ Append(answers, q) \in Seq(Lookup!Query)
           /\ \A p : On(p, Append(answers, q)) <=> (On(p, answers) \/ p = q)
           /\ ~On(q, answers) => Once(Append(answers, q))
      /\ answers # <<>> =>
           /\ Head(answers) \in Lookup!Query /\ On(Head(answers), answers)
           /\ Tail(answers) \in Seq(Lookup!Query) /\ Once(Tail(answers))
           /\ \A p : On(p, Tail(answers)) <=> (On(p, answers) /\ p # Head(answers))
  BY <1>0, AnswerQueue
<1> USE <1>0 DEF Lookup!TypeOK, Lookup!Query
<1>1. ASSUME NEW q \in Lookup!Query, Lookup!Answered(q) PROVE LookupInv'
  <2>1. /\ ~On(q, answers) /\ query[q] = "asking"
        /\ \A p \in Lookup!Query : Awaited(p)' <=> Awaited(p)
    BY <1>1, <1>q DEF Lookup!Answered, LookupInv, Awaited, Lookup!Outcome, Lookup!Retryable,
       Lookup!Conclusive
  <2>2. /\ Lookup!TypeOK' /\ Once(answers)'
        /\ \A p \in Lookup!Query : On(p, answers)' => query'[p] \in Lookup!Outcome
        /\ query'[1] # "unsent" /\ (query'[2] = "unsent" <=> spare')
    BY <1>1, <1>q, <2>1 DEF Lookup!Answered, LookupInv, Lookup!Outcome, Lookup!Retryable,
       Lookup!Conclusive
  <2>3. (outstanding = One(Awaited(1)) + One(Awaited(2)))'
    BY <1>1, <2>1 DEF Lookup!Answered, LookupInv, One
  <2>4. \A p \in Lookup!Query : query[p] \in Lookup!Outcome => query'[p] = query[p]
    BY <1>1, <2>1 DEF Lookup!Answered, Lookup!Outcome, Lookup!Retryable, Lookup!Conclusive
  <2>5. ~Lookup!Returned' =>
          /\ spare' => Awaited(1)'
          /\ \A p \in Lookup!Query :
               ~Awaited(p)' /\ query'[p] # "unsent" =>
                 query'[p] \in Lookup!Retryable /\ last' \in Lookup!Retryable
    BY <1>1, <2>1, <2>4 DEF Lookup!Answered, LookupInv, Lookup!Returned, Awaited
  <2>6. Lookup!LookupIsTrue'
    BY <1>1, <2>4 DEF Lookup!Answered, LookupInv, Lookup!Returned, Lookup!LookupIsTrue, Lookup!Outcome
  <2> QED
    BY <2>2, <2>3, <2>5, <2>6 DEF LookupInv
<1>2. CASE Lookup!HalfTime
  BY <1>2 DEF Lookup!HalfTime, LookupInv, Awaited, Lookup!Returned, Lookup!LookupIsTrue
<1>3. CASE Lookup!TakeTick
  <2>0. /\ result = "none" /\ result' = "none" /\ answers' = answers /\ last' = last
        /\ resample' = "taken" /\ spare' = FALSE
        /\ outstanding' = (IF spare THEN outstanding + 1 ELSE outstanding)
        /\ query' = (IF spare THEN [query EXCEPT ![2] = "asking"] ELSE query)
    BY <1>3 DEF Lookup!TakeTick, Lookup!Send, Lookup!Returned
  <2>1. CASE spare
    <3>1. ~On(2, answers) /\ query[2] = "unsent" /\ Awaited(1)
      BY <2>0, <2>1 DEF LookupInv, Lookup!Returned, Lookup!Outcome, Lookup!Retryable, Lookup!Conclusive
    <3>2. query' = [query EXCEPT ![2] = "asking"] /\ query'[2] = "asking" /\ query'[1] = query[1]
      BY <2>0, <2>1
    <3>3. Awaited(2)' /\ ~Awaited(2) /\ Awaited(1)'
      BY <2>0, <3>1, <3>2 DEF Awaited
    <3>4. outstanding = 1 /\ outstanding' = 2
      BY <2>0, <2>1, <3>1, <3>3 DEF LookupInv, One
    <3>5. Lookup!TypeOK'
      <4>1. query' \in [Lookup!Query -> {"unsent", "asking"} \cup Lookup!Outcome]
        BY <3>2
      <4>2. outstanding' \in 0..2
        BY <3>4
      <4>3. answers' \in Seq(Lookup!Query) /\ resample' \in {"armed", "fired", "taken"}
        BY <2>0
      <4>4. spare' \in BOOLEAN /\ last' \in {"none"} \cup Lookup!Retryable
        BY <2>0
      <4>5. result' \in {"none"} \cup Lookup!Outcome
        BY <2>0
      <4> QED
        BY <4>1, <4>2, <4>3, <4>4, <4>5
    <3> QED
      BY <2>0, <3>1, <3>2, <3>3, <3>4, <3>5 DEF LookupInv, Lookup!Returned, Lookup!LookupIsTrue, One
  <2>2. CASE ~spare
    <3>1. UNCHANGED <<query, answers, outstanding, spare, last, result>>
      BY <2>0, <2>2
    <3> QED
      BY <2>0, <3>1 DEF LookupInv, Awaited, Lookup!Returned, Lookup!LookupIsTrue
  <2> QED
    BY <2>1, <2>2
<1>4. CASE Lookup!TakeConclusive
  BY <1>4, <1>q DEF Lookup!TakeConclusive, LookupInv, Awaited, Lookup!Returned, Lookup!LookupIsTrue,
     One, Lookup!Outcome, Lookup!Retryable, Lookup!Conclusive
<1>5. CASE Lookup!TakeRetryable
  <2>h. PICK h \in Lookup!Query : h = Head(answers)
    BY <1>5, <1>q DEF Lookup!TakeRetryable
  <2>0. /\ result = "none" /\ result' = "none" /\ resample' = resample
        /\ last' = query[h] /\ last' \in Lookup!Retryable
        /\ spare' = FALSE
        /\ outstanding' = (IF spare THEN (outstanding - 1) + 1 ELSE outstanding - 1)
        /\ query' = (IF spare THEN [query EXCEPT ![2] = "asking"] ELSE query)
    BY <1>5, <2>h DEF Lookup!TakeRetryable, Lookup!Send, Lookup!Returned
  <2>1. /\ h \in Lookup!Query /\ On(h, answers) /\ query[h] \in Lookup!Retryable
        /\ answers' \in Seq(Lookup!Query) /\ Once(answers')
        /\ \A p : On(p, answers') <=> On(p, answers) /\ p # h
    BY <1>5, <1>q, <2>h DEF Lookup!TakeRetryable
  <2>a. Awaited(h) /\ query[h] # "asking" /\ ~On(h, answers')
    BY <2>1 DEF Awaited, Lookup!Retryable
  <2>2. CASE spare
    <3>1. h = 1 /\ ~On(2, answers) /\ query[2] = "unsent"
      BY <2>1, <2>2 DEF LookupInv, Lookup!Outcome, Lookup!Retryable, Lookup!Conclusive
    <3>2. query' = [query EXCEPT ![2] = "asking"] /\ query'[2] = "asking" /\ query'[1] = query[1]
      BY <2>0, <2>2
    <3>3. Awaited(2)' /\ ~Awaited(2) /\ ~Awaited(1)'
      BY <2>1, <2>a, <3>1, <3>2 DEF Awaited
    <3>4. outstanding = 1 /\ outstanding' = 1
      BY <2>0, <2>2, <2>a, <3>1, <3>3 DEF LookupInv, One
    <3>5. Lookup!TypeOK'
      BY <2>0, <2>1, <3>2, <3>4
    <3>6. Lookup!LookupIsTrue'
      BY <2>0 DEF Lookup!LookupIsTrue, Lookup!Returned
    <3> QED
      BY <2>0, <2>1, <2>a, <3>1, <3>2, <3>3, <3>4, <3>5, <3>6 DEF LookupInv, One
  <2>3. CASE ~spare
    <3>1. query' = query /\ outstanding' = outstanding - 1
      BY <2>0, <2>3
    <3>2. /\ ~Awaited(h)'
          /\ \A p \in Lookup!Query : p # h => (Awaited(p)' <=> Awaited(p))
      BY <2>1, <2>a, <3>1 DEF Awaited
    <3>3. /\ (outstanding = One(Awaited(1)) + One(Awaited(2)))'
          /\ outstanding' \in 0..2
      <4>1. h = 1 \/ h = 2
        BY <2>1
      <4> QED
        BY <2>a, <3>1, <3>2, <4>1 DEF LookupInv, One
    <3>4. Lookup!TypeOK'
      BY <2>0, <2>1, <3>1, <3>3
    <3>5. Lookup!LookupIsTrue'
      BY <2>0 DEF Lookup!LookupIsTrue, Lookup!Returned
    <3> QED
      BY <2>0, <2>1, <2>3, <3>1, <3>2, <3>3, <3>4, <3>5 DEF LookupInv, Lookup!Outcome, Lookup!Returned
  <2> QED
    BY <2>2, <2>3
<1>6. CASE Lookup!GiveUp
  BY <1>6, <1>q DEF Lookup!GiveUp, LookupInv, Awaited, Lookup!Returned, Lookup!LookupIsTrue, One,
     Lookup!Outcome, Lookup!Retryable, Lookup!Conclusive
<1>7. CASE UNCHANGED lookupVars
  BY <1>7 DEF lookupVars, LookupInv, Awaited, Lookup!Returned, Lookup!LookupIsTrue
<1>8. CASE UNCHANGED Lookup!vars
  BY <1>7, <1>8 DEF lookupVars, Lookup!vars
<1> QED
  BY <1>1, <1>2, <1>3, <1>4, <1>5, <1>6, <1>7, <1>8 DEF Lookup!Next, Lookup!Caller

-----------------------------------------------------------------------------
\* The two transports of encrypted DNS.

DnsInv ==
  /\ Dns!TypeOK
  /\ \A t \in Dns!Transport : t \in landed <=> exchange[t] # "running"
  /\ first = "none" <=> held = {}
  /\ first # "none" => first \in held
  /\ canceled => first # "none" /\ Dns!Ok(first)
  /\ \A t \in Dns!Transport :
       IF canceled /\ t # first THEN exchange[t] \in {"running", "ok", "refused", "cut"}
       ELSE exchange[t] # "cut"
  /\ status # "none" => held = Dns!Transport
  /\ Dns!EncryptedIsTrue

LEMMA InitDnsInv == InitRaces => DnsInv
<1> SUFFICES ASSUME InitRaces PROVE DnsInv
  OBVIOUS
<1>1. Dns!Init
  BY DEF InitRaces
<1> QED
  BY <1>1 DEF Dns!Init, DnsInv, Dns!TypeOK, Dns!Transport, Dns!Ends, Dns!Ok, Dns!EncryptedIsTrue

LEMMA DnsKept == DnsInv /\ [Dns!Next]_dnsVars => DnsInv'
<1> SUFFICES ASSUME DnsInv, [Dns!Next]_dnsVars PROVE DnsInv'
  OBVIOUS
<1> USE DEF DnsInv, Dns!TypeOK, Dns!Transport, Dns!Ends, Dns!Ok, Dns!EncryptedIsTrue
<1>1. CASE Dns!ContextEnds
  BY <1>1 DEF Dns!ContextEnds, Dns!rowVars
<1>2. ASSUME NEW t \in Dns!Transport, Dns!ExchangeEnds(t) PROVE DnsInv'
  BY <1>2 DEF Dns!ExchangeEnds, Dns!rowVars
<1>3. CASE Dns!TakeFirst
  BY <1>3 DEF Dns!TakeFirst, Dns!rowVars
<1>4. CASE Dns!SettleSibling
  <2>1. CASE held' = Dns!Transport /\ canceled' = canceled
    BY <1>4, <2>1 DEF Dns!SettleSibling, Dns!rowVars, Dns!Other
  <2>2. CASE /\ Dns!Ok(first) /\ Dns!Other(first) \notin landed
             /\ canceled' = TRUE /\ held' = held
    <3>1. exchange[Dns!Other(first)] = "running" /\ first \in Dns!Transport /\ status = "none"
      BY <1>4, <2>2 DEF Dns!SettleSibling, Dns!Other
    <3> QED
      BY <1>4, <2>2, <3>1 DEF Dns!SettleSibling, Dns!rowVars, Dns!Other
  <2> QED
    BY <1>4, <2>1, <2>2 DEF Dns!SettleSibling
<1>5. CASE Dns!TakeSibling
  BY <1>5 DEF Dns!TakeSibling, Dns!rowVars, Dns!Other
<1>6. CASE Dns!Verdict
  BY <1>6 DEF Dns!Verdict, Dns!Preferred, Dns!resolverAnswered, Dns!SaysOf
<1>7. CASE UNCHANGED dnsVars
  BY <1>7 DEF dnsVars
<1>8. CASE UNCHANGED Dns!vars
  BY <1>7, <1>8 DEF dnsVars, Dns!vars, Dns!rowVars
<1> QED
  BY <1>1, <1>2, <1>3, <1>4, <1>5, <1>6, <1>7, <1>8 DEF Dns!Next, Dns!Row, Dns!Settled

-----------------------------------------------------------------------------
\* QUIC handshakes.

QuicDone == {"done"} \cup Quic!Own \cup Quic!Ends

QuicDials ==
  /\ \A d \in Quic!Dial : d > quicStarted => attempt[d] = "unstarted"
  /\ \A d \in Quic!Dial : d \in sockets <=> attempt[d] = "shaking"
  /\ \A d \in Quic!Dial : On(d, quicResults) \/ d \in received => attempt[d] \in QuicDone
  /\ \A d \in Quic!Dial : attempt[d] \in Quic!Ends => quicDctx # "live"

QuicInv ==
  /\ Quic!TypeOK
  /\ QuicDials
  /\ ~Quic!Returned => quicDctx = quicCtx /\ \A d \in received : attempt[d] # "done"
  /\ Quic!QuicIsTrue

LEMMA InitQuicInv == InitRaces => QuicInv
<1> SUFFICES ASSUME InitRaces PROVE QuicInv
  OBVIOUS
<1>1. Quic!Init
  BY DEF InitRaces
<1>2. /\ \A d : ~On(d, <<>>)
      /\ <<>> \in Seq(Quic!Dial) /\ Addresses \in Nat
  BY LimitsAssumption DEF On
<1>3. Quic!TypeOK
  BY <1>1, <1>2 DEF Quic!Init, Quic!TypeOK
<1>4. QuicDials
  BY <1>1, <1>2 DEF Quic!Init, QuicDials, Quic!Ends
<1> QED
  BY <1>1, <1>3, <1>4 DEF QuicInv, Quic!Init, Quic!QuicIsTrue

\* What the channel of the handshakes is after each kind of step.
LEMMA QuicQueue ==
  ASSUME Quic!TypeOK
  PROVE  /\ \A d \in Quic!Dial :
              /\ Append(quicResults, d) \in Seq(Quic!Dial)
              /\ \A e : On(e, Append(quicResults, d)) <=> (On(e, quicResults) \/ e = d)
         /\ quicResults # <<>> =>
              /\ Head(quicResults) \in Quic!Dial /\ On(Head(quicResults), quicResults)
              /\ Tail(quicResults) \in Seq(Quic!Dial)
              /\ \A e : On(e, Tail(quicResults)) => On(e, quicResults)
<1>1. quicResults \in Seq(Quic!Dial)
  BY DEF Quic!TypeOK
<1>2. ASSUME NEW d \in Quic!Dial
      PROVE  /\ Append(quicResults, d) \in Seq(Quic!Dial)
             /\ \A e : On(e, Append(quicResults, d)) <=> (On(e, quicResults) \/ e = d)
  BY <1>1, PutFacts
<1> QED
  BY <1>1, <1>2, TakeFacts

\* Who has received as many results as there are addresses has received them all.
LEMMA AllReceived ==
  ASSUME Quic!TypeOK, Cardinality(received) = Addresses
  PROVE  received = Quic!Dial /\ 1 \in Quic!Dial
<1>1. Addresses \in Nat \ {0}
  BY LimitsAssumption
<1>2. received \subseteq Quic!Dial
  BY DEF Quic!TypeOK
<1>3. IsFiniteSet(Quic!Dial) /\ Cardinality(Quic!Dial) = Addresses
  BY <1>1, FS_Interval DEF Quic!Dial
<1>4. received = Quic!Dial
  BY <1>2, <1>3, FS_Subset
<1> QED
  BY <1>1, <1>4 DEF Quic!Dial

\* A dial that was not to end yet ends: its goroutine hands the outcome over.
LEMMA QuicDelivers ==
  ASSUME QuicInv, NEW d \in Quic!Dial, attempt[d] \in {"opening", "shaking"},
         NEW o \in {"done"} \cup Quic!Own \cup ({quicDctx} \ {"live"}), Quic!Deliver(d, o),
         sockets' = sockets \ {d},
         UNCHANGED <<quicCtx, quicDctx, quicStarted, received, verdict>>
  PROVE  QuicInv'
<1>0. Quic!TypeOK /\ QuicDials
  BY DEF QuicInv
<1>1. /\ attempt \in [Quic!Dial -> {"unstarted", "opening", "shaking", "done"} \cup Quic!Own \cup Quic!Ends]
      /\ o \in QuicDone /\ (o \in Quic!Ends => quicDctx # "live") /\ o \notin {"unstarted", "shaking"}
  BY <1>0 DEF Quic!TypeOK, QuicDone, Quic!Own, Quic!Ends
<1>2. /\ attempt' = [attempt EXCEPT ![d] = o] /\ attempt'[d] = o
      /\ \A e \in Quic!Dial : e # d => attempt'[e] = attempt[e]
      /\ attempt' \in [Quic!Dial -> {"unstarted", "opening", "shaking", "done"} \cup Quic!Own \cup Quic!Ends]
  BY <1>1 DEF Quic!Deliver, QuicDone
<1>3. /\ quicResults' \in Seq(Quic!Dial)
      /\ \A e : On(e, quicResults') <=> (On(e, quicResults) \/ e = d)
  BY <1>0, QuicQueue DEF Quic!Deliver
<1>4. Quic!TypeOK'
  BY <1>0, <1>2, <1>3 DEF Quic!TypeOK
<1>5. attempt[d] \notin QuicDone /\ d \notin received
  BY <1>0 DEF QuicDials, QuicDone, Quic!Own, Quic!Ends
<1>6. ~(d > quicStarted)
  BY <1>0 DEF QuicDials
<1>7. QuicDials'
  BY <1>0, <1>1, <1>2, <1>3, <1>6 DEF QuicDials
<1>8. Quic!Returned' = Quic!Returned
  BY DEF Quic!Returned
<1>9. \A e \in received' : attempt'[e] = attempt[e]
  BY <1>0, <1>2, <1>5 DEF Quic!TypeOK
<1>10. Quic!QuicIsTrue'
  <2> USE DEF Quic!QuicIsTrue
  <2>1. (verdict = "pass" => \E e \in received : attempt[e] = "done")'
    BY <1>9 DEF QuicInv
  <2>2. (verdict # "failed")'
    BY <1>5 DEF QuicInv, QuicDone
  <2>3. (verdict = "timed out" => quicCtx = "deadline" \/ attempt[1] = "idle")'
    <3>1. attempt[1] = "idle" => d # 1
      BY <1>5 DEF QuicDone, Quic!Own
    <3>2. 1 \in Quic!Dial
      BY LimitsAssumption DEF Quic!Dial
    <3> QED
      BY <1>2, <3>1, <3>2 DEF QuicInv
  <2>4. (verdict = "n/a" => quicCtx = "canceled")'
    BY DEF QuicInv
  <2>5. (Quic!Settled => sockets = {})'
    BY <1>4, <1>7 DEF Quic!Settled, QuicDials, Quic!TypeOK, Quic!Own, Quic!Ends
  <2> QED
    BY <2>1, <2>2, <2>3, <2>4, <2>5
<1> QED
  BY <1>4, <1>7, <1>8, <1>9, <1>10 DEF QuicInv

LEMMA QuicKept == QuicInv /\ [Quic!Next]_quicVars => QuicInv'
<1> SUFFICES ASSUME QuicInv, [Quic!Next]_quicVars PROVE QuicInv'
  OBVIOUS
<1>0. /\ Quic!TypeOK /\ QuicDials /\ Quic!QuicIsTrue
      /\ ~Quic!Returned => quicDctx = quicCtx /\ \A d \in received : attempt[d] # "done"
      /\ Addresses \in Nat \ {0} /\ 1 \in Quic!Dial
  BY LimitsAssumption DEF QuicInv, Quic!Dial
<1>t. attempt \in [Quic!Dial -> {"unstarted", "opening", "shaking", "done"} \cup Quic!Own \cup Quic!Ends]
  BY <1>0 DEF Quic!TypeOK
<1>s. Quic!TypeOK' /\ QuicDials' => (Quic!Settled => sockets = {})'
  BY DEF Quic!Settled, QuicDials, Quic!TypeOK, Quic!Own, Quic!Ends
<1>1. CASE Quic!ContextEnds
  <2>1. Quic!TypeOK' /\ QuicDials'
    BY <1>0, <1>1 DEF Quic!ContextEnds, Quic!TypeOK, QuicDials, Quic!Ends
  <2> QED
    BY <1>0, <1>1, <1>s, <2>1 DEF Quic!ContextEnds, Quic!Returned, QuicInv, Quic!QuicIsTrue
<1>2. CASE Quic!Start
  <2> DEFINE n == quicStarted + 1
  <2>a. quicStarted \in 0..Addresses /\ quicStarted < Addresses
    BY <1>0, <1>2 DEF Quic!Start, Quic!TypeOK
  <2>b. n \in 1..Addresses /\ n > quicStarted /\ quicStarted \in Nat /\ quicStarted' \in 0..Addresses
    BY <1>0, <1>2, <2>a DEF Quic!Start
  <2>1. n \in Quic!Dial /\ n > quicStarted /\ quicStarted \in Nat /\ attempt[n] = "unstarted"
    BY <1>0, <2>b DEF Quic!Dial, QuicDials
  <2>2. /\ attempt' = [attempt EXCEPT ![n] = "opening"] /\ attempt'[n] = "opening"
        /\ \A e \in Quic!Dial : e # n => attempt'[e] = attempt[e]
        /\ attempt' \in [Quic!Dial -> {"unstarted", "opening", "shaking", "done"} \cup Quic!Own \cup Quic!Ends]
    BY <1>2, <1>t, <2>1 DEF Quic!Start
  <2>3. Quic!TypeOK'
    BY <1>0, <1>2, <2>b, <2>2 DEF Quic!Start, Quic!TypeOK
  <2>4. "unstarted" \notin QuicDone \cup Quic!Own /\ "opening" \notin QuicDone \cup Quic!Ends
    BY DEF QuicDone, Quic!Own, Quic!Ends
  <2>5. QuicDials'
    BY <1>0, <1>2, <2>1, <2>2, <2>4 DEF Quic!Start, QuicDials, Quic!Dial
  <2>6. n \notin received /\ attempt[n] \notin {"idle", "done"} \cup Quic!Own
    BY <1>0, <2>1, <2>4 DEF QuicDials
  <2>7. \A e \in received : attempt'[e] = attempt[e]
    BY <1>0, <2>2, <2>6 DEF Quic!TypeOK
  <2>8. verdict # "failed" /\ (attempt[1] = "idle" => attempt'[1] = "idle")
    BY <1>0, <2>1, <2>2, <2>6 DEF Quic!QuicIsTrue
  <2> QED
    BY <1>0, <1>2, <1>s, <2>3, <2>5, <2>7, <2>8 DEF Quic!Start, Quic!Returned, QuicInv, Quic!QuicIsTrue
<1>3. ASSUME NEW d \in Quic!Dial, Quic!Opens(d) PROVE QuicInv'
  <2>1. /\ attempt' = [attempt EXCEPT ![d] = "shaking"] /\ attempt'[d] = "shaking"
        /\ \A e \in Quic!Dial : e # d => attempt'[e] = attempt[e]
        /\ attempt' \in [Quic!Dial -> {"unstarted", "opening", "shaking", "done"} \cup Quic!Own \cup Quic!Ends]
    BY <1>3, <1>t DEF Quic!Opens
  <2>2. attempt[d] = "opening"
    BY <1>3 DEF Quic!Opens
  <2>3. {"opening", "shaking"} \cap (QuicDone \cup Quic!Own \cup Quic!Ends) = {}
    BY DEF QuicDone, Quic!Own, Quic!Ends
  <2>4. Quic!TypeOK'
    BY <1>0, <1>3, <2>1 DEF Quic!Opens, Quic!TypeOK
  <2>5. QuicDials'
    BY <1>0, <1>3, <2>1, <2>2, <2>3 DEF Quic!Opens, QuicDials
  <2>6. d \notin received
    BY <1>0, <2>2, <2>3 DEF QuicDials
  <2>7. \A e \in received : attempt'[e] = attempt[e]
    BY <1>0, <2>1, <2>6 DEF Quic!TypeOK
  <2>8. verdict # "failed" /\ (attempt[1] = "idle" => attempt'[1] = "idle")
    BY <1>0, <2>1, <2>2, <2>3 DEF Quic!QuicIsTrue
  <2> QED
    BY <1>0, <1>3, <1>s, <2>4, <2>5, <2>7, <2>8 DEF Quic!Opens, Quic!Returned, QuicInv, Quic!QuicIsTrue
<1>4. ASSUME NEW d \in Quic!Dial, Quic!OpenFails(d) PROVE QuicInv'
  <2>1. PICK o \in Quic!Own \cup ({quicDctx} \ {"live"}) : Quic!Deliver(d, o)
    BY <1>4 DEF Quic!OpenFails
  <2>2. attempt[d] = "opening" /\ sockets' = sockets \ {d}
    BY <1>0, <1>4 DEF Quic!OpenFails, QuicDials
  <2> QED
    BY <1>4, <2>1, <2>2, QuicDelivers DEF Quic!OpenFails
<1>5. ASSUME NEW d \in Quic!Dial, Quic!Shakes(d) PROVE QuicInv'
  <2>1. PICK o \in {"done"} \cup Quic!Own \cup ({quicDctx} \ {"live"}) : Quic!Deliver(d, o)
    BY <1>5 DEF Quic!Shakes
  <2> QED
    BY <1>5, <2>1, QuicDelivers DEF Quic!Shakes
<1>6. ASSUME Quic!Take
      PROVE  /\ quicResults' \in Seq(Quic!Dial) /\ received' \subseteq Quic!Dial
             /\ received' = received \cup {Head(quicResults)}
             /\ \A d \in Quic!Dial : On(d, quicResults') \/ d \in received' => On(d, quicResults) \/ d \in received
  BY <1>0, <1>6, QuicQueue DEF Quic!Take, Quic!TypeOK
<1>7. CASE Quic!TakeFailure
  <2>1. Quic!TypeOK' /\ QuicDials'
    BY <1>0, <1>6, <1>7 DEF Quic!TakeFailure, Quic!TypeOK, QuicDials
  <2> QED
    BY <1>0, <1>6, <1>7, <1>s, <2>1 DEF Quic!TakeFailure, Quic!Returned, QuicInv, Quic!QuicIsTrue
<1>8. CASE Quic!TakeWinner
  <2>1. Quic!TypeOK' /\ QuicDials'
    BY <1>0, <1>6, <1>8 DEF Quic!TakeWinner, Quic!Cancel, Quic!TypeOK, QuicDials, Quic!Ends
  <2> QED
    BY <1>0, <1>6, <1>8, <1>s, <2>1 DEF Quic!TakeWinner, Quic!Returned, QuicInv, Quic!QuicIsTrue
<1>9. CASE Quic!SeesContextEnd
  <2>1. /\ Quic!TypeOK' /\ QuicDials' /\ Quic!Returned'
        /\ verdict' = "n/a" => quicCtx' = "canceled"
        /\ verdict' = "timed out" => quicCtx' = "deadline"
        /\ verdict' \in {"n/a", "timed out"}
    BY <1>0, <1>9 DEF Quic!SeesContextEnd, Quic!Unproven, Quic!TypeOK, Quic!Ends, QuicDials,
       Quic!Returned
  <2> QED
    BY <1>s, <2>1 DEF QuicInv, Quic!QuicIsTrue
<1>10. CASE Quic!AllFailed
  <2>1. received = Quic!Dial
    <3>1. Cardinality(received) = Addresses
      BY <1>10 DEF Quic!AllFailed, Quic!Cardinality, Cardinality
    <3> QED
      BY <1>0, <3>1, AllReceived
  <2>2. quicDctx = quicCtx /\ \A d \in Quic!Dial : attempt[d] \in QuicDone /\ attempt[d] # "done"
    BY <1>0, <1>10, <2>1 DEF Quic!AllFailed, QuicDials
  <2>3. Quic!TypeOK' /\ QuicDials' /\ Quic!Returned'
    BY <1>0, <1>10 DEF Quic!AllFailed, Quic!Unproven, Quic!Cancel, Quic!TypeOK, Quic!Ends,
       QuicDials, Quic!Returned
  <2>4. \A d \in Quic!Dial : attempt[d] \in Quic!Ends => quicCtx # "live"
    BY <1>0, <2>2 DEF QuicDials
  <2>5. verdict' = "failed" => quicCtx = "live" /\ attempt[1] \notin {"idle", "deadline"}
    BY <1>0, <1>10 DEF Quic!AllFailed, Quic!Unproven, Quic!TypeOK, Quic!Ends
  <2>6. verdict' = "timed out" => quicCtx = "deadline" \/ attempt[1] = "idle"
    BY <1>0, <1>10, <2>4 DEF Quic!AllFailed, Quic!Unproven, Quic!TypeOK, Quic!Ends
  <2>7. verdict' = "n/a" => quicCtx = "canceled"
    BY <1>10 DEF Quic!AllFailed, Quic!Unproven
  <2>8. verdict' # "pass"
    BY <1>10 DEF Quic!AllFailed, Quic!Unproven
  <2> QED
    BY <1>10, <1>s, <2>2, <2>3, <2>4, <2>5, <2>6, <2>7, <2>8
       DEF Quic!AllFailed, QuicInv, Quic!QuicIsTrue, QuicDone
<1>11. CASE UNCHANGED quicVars
  BY <1>0, <1>11 DEF quicVars, QuicInv, Quic!TypeOK, QuicDials, Quic!Returned, Quic!QuicIsTrue,
     Quic!Settled
<1>12. CASE UNCHANGED Quic!vars
  BY <1>11, <1>12 DEF quicVars, Quic!vars
<1> QED
  BY <1>1, <1>2, <1>3, <1>4, <1>5, <1>7, <1>8, <1>9, <1>10, <1>11, <1>12
     DEF Quic!Next, Quic!DialStep, Quic!Caller

-----------------------------------------------------------------------------
\* The simulator's scheduled faults.

\* The events decided are the first ones, and those skipped come last.
FaultsInv ==
  /\ Faults!TypeOK
  /\ Len(evidence) = IF sched = "done" THEN Events ELSE next - 1
  /\ \A e \in 1..Len(evidence) : evidence[e] = "skipped" <=> e >= next
  /\ sched \in {"waiting", "due", "applying"} => next <= Events
  /\ ready => Len(evidence) >= baseline
  /\ sched = "done" => ready
  /\ runner # "starting" => ready
  /\ runner \in {"collecting", "cleaning", "over"} => sched = "done"

LEMMA InitFaultsInv == InitRaces => FaultsInv
<1> SUFFICES ASSUME InitRaces PROVE FaultsInv
  OBVIOUS
<1>1. Faults!Init /\ Events \in Nat
  BY LimitsAssumption DEF InitRaces
<1>2. <<>> \in Seq({"applied", "failed", "skipped"}) /\ Len(<<>>) = 0
  OBVIOUS
<1>3. Faults!TypeOK
  <2>1. next \in 1..(Events + 1) /\ baseline \in 0..Events /\ next = 1
    BY <1>1 DEF Faults!Init
  <2>2. {hold, ended, ready} \subseteq BOOLEAN /\ ready = FALSE
    BY <1>1 DEF Faults!Init
  <2> QED
    BY <1>1, <1>2, <2>1, <2>2 DEF Faults!Init, Faults!TypeOK
<1> QED
  BY <1>1, <1>2, <1>3 DEF Faults!Init, FaultsInv

\* The events after those decided are skipped.
LEMMA SkipFacts ==
  ASSUME FaultsInv, sched # "done",
         evidence' = evidence \o [e \in 1..(Events + 1 - next) |-> "skipped"]
  PROVE  /\ evidence' \in Seq({"applied", "failed", "skipped"}) /\ Len(evidence') = Events
         /\ \A e \in 1..Events : evidence'[e] = "skipped" <=> e >= next
<1> DEFINE left == Events + 1 - next
           rest == [e \in 1..left |-> "skipped"]
           S == {"applied", "failed", "skipped"}
<1>1. /\ Events \in Nat /\ next \in 1..(Events + 1) /\ Len(evidence) = next - 1
      /\ evidence \in Seq(S)
      /\ \A e \in 1..Len(evidence) : evidence[e] = "skipped" <=> e >= next
  BY LimitsAssumption DEF FaultsInv, Faults!TypeOK
<1>2. left \in Nat /\ Len(evidence) + left = Events
  BY <1>1
<1>3. rest \in Seq(S) /\ Len(rest) = left /\ \A e \in 1..left : rest[e] = "skipped"
  BY <1>2
<1> HIDE DEF left, rest, S
<1>4. /\ evidence \o rest \in Seq(S) /\ Len(evidence \o rest) = Len(evidence) + Len(rest)
      /\ \A e \in 1..(Len(evidence) + Len(rest)) :
           (evidence \o rest)[e] = IF e <= Len(evidence) THEN evidence[e] ELSE rest[e - Len(evidence)]
  BY <1>1, <1>3, ConcatProperties
<1>5. evidence' = evidence \o rest
  BY DEF left, rest
<1>6. \A e \in 1..Events : evidence'[e] = "skipped" <=> e >= next
  <2> SUFFICES ASSUME NEW e \in 1..Events PROVE evidence'[e] = "skipped" <=> e >= next
    OBVIOUS
  <2>1. CASE e <= Len(evidence)
    BY <1>1, <1>2, <1>3, <1>4, <1>5, <2>1
  <2>2. CASE e > Len(evidence)
    <3>1. e - Len(evidence) \in 1..left
      BY <1>1, <1>2, <2>2
    <3>2. evidence'[e] = rest[e - Len(evidence)]
      BY <1>1, <1>2, <1>3, <1>4, <1>5, <2>2
    <3> QED
      BY <1>1, <1>3, <2>2, <3>1, <3>2
  <2> QED
    BY <1>1, <2>1, <2>2
<1> QED
  BY <1>2, <1>3, <1>4, <1>5, <1>6 DEF S

LEMMA FaultsKept == FaultsInv /\ [Faults!Next]_faultVars => FaultsInv'
<1> SUFFICES ASSUME FaultsInv, [Faults!Next]_faultVars PROVE FaultsInv'
  OBVIOUS
<1>0. /\ Events \in Nat /\ Faults!TypeOK
      /\ baseline \in 0..Events /\ next \in 1..(Events + 1)
      /\ evidence \in Seq({"applied", "failed", "skipped"}) /\ Len(evidence) \in Nat
  BY LimitsAssumption DEF FaultsInv, Faults!TypeOK
<1> USE <1>0 DEF Faults!timeVars, Faults!schedVars
<1>1. CASE Faults!ContextEnds
  BY <1>1 DEF Faults!ContextEnds, FaultsInv, Faults!TypeOK
<1>2. CASE Faults!Reach
  BY <1>2 DEF Faults!Reach, FaultsInv, Faults!TypeOK
<1>3. CASE Faults!TimerFires
  BY <1>3 DEF Faults!TimerFires, FaultsInv, Faults!TypeOK
<1>4. CASE Faults!Skip
  <2>1. sched # "done"
    BY <1>4 DEF Faults!Skip
  <2>2. evidence' = evidence \o [e \in 1..(Events + 1 - next) |-> "skipped"]
    BY <1>4 DEF Faults!Skip
  <2>3. /\ evidence' \in Seq({"applied", "failed", "skipped"}) /\ Len(evidence') = Events
        /\ \A e \in 1..Events : evidence'[e] = "skipped" <=> e >= next
    BY <2>1, <2>2, SkipFacts
  <2>4. /\ sched' = "done" /\ ready' = TRUE
        /\ UNCHANGED <<baseline, hold, runCtx, ended, next, runner>>
    BY <1>4 DEF Faults!Skip, Faults!Leave
  <2>5. Faults!TypeOK'
    BY <2>3, <2>4 DEF Faults!TypeOK
  <2> QED
    BY <2>3, <2>4, <2>5 DEF FaultsInv
<1>5. CASE Faults!BeginApply
  BY <1>5 DEF Faults!BeginApply, FaultsInv, Faults!TypeOK
<1>6. CASE Faults!EndApply
  <2>1. PICK r \in {"applied", "failed"} : evidence' = Append(evidence, r)
    BY <1>6 DEF Faults!EndApply
  <2>2. /\ sched = "applying" /\ sched' = "next" /\ next' = next + 1
        /\ UNCHANGED <<baseline, hold, runCtx, ended, ready, runner>>
    BY <1>6 DEF Faults!EndApply
  <2>3. Len(evidence) = next - 1 /\ next <= Events
    BY <2>2 DEF FaultsInv
  <2> QED
    BY <2>1, <2>2, <2>3 DEF FaultsInv, Faults!TypeOK
<1>7. CASE Faults!Finish
  BY <1>7 DEF Faults!Finish, Faults!Leave, FaultsInv, Faults!TypeOK
<1>8. CASE Faults!Started
  BY <1>8 DEF Faults!Started, FaultsInv, Faults!TypeOK
<1>9. CASE Faults!HoldEnds
  BY <1>9 DEF Faults!HoldEnds, Faults!Stop, FaultsInv, Faults!TypeOK
<1>10. CASE Faults!TestsEnd
  BY <1>10 DEF Faults!TestsEnd, Faults!Stop, FaultsInv, Faults!TypeOK
<1>11. CASE Faults!Joined
  BY <1>11 DEF Faults!Joined, FaultsInv, Faults!TypeOK
<1>12. CASE Faults!Collected
  BY <1>12 DEF Faults!Collected, FaultsInv, Faults!TypeOK
<1>13. CASE Faults!Cleaned
  BY <1>13 DEF Faults!Cleaned, FaultsInv, Faults!TypeOK
<1>14. CASE UNCHANGED faultVars
  BY <1>14 DEF faultVars, FaultsInv, Faults!TypeOK
<1>15. CASE UNCHANGED Faults!vars
  BY <1>14, <1>15 DEF faultVars, Faults!vars
<1> QED
  BY <1>1, <1>2, <1>3, <1>4, <1>5, <1>6, <1>7, <1>8, <1>9, <1>10, <1>11, <1>12, <1>13, <1>14, <1>15
     DEF Faults!Next, Faults!Scheduler, Faults!RunStep

LEMMA FaultsTrue == FaultsInv => Faults!TimelineIsTrue
<1> SUFFICES ASSUME FaultsInv PROVE Faults!TimelineIsTrue
  OBVIOUS
<1>1. Events \in Nat /\ next \in 1..(Events + 1)
  BY LimitsAssumption DEF FaultsInv, Faults!TypeOK
<1>2. ASSUME runner \in {"collecting", "cleaning", "over"}
      PROVE  /\ sched = "done" /\ Len(evidence) = Events
             /\ \A e \in 1..(Events - 1) : evidence[e] = "skipped" => evidence[e + 1] = "skipped"
  BY <1>1, <1>2 DEF FaultsInv
<1> QED
  BY <1>2 DEF FaultsInv, Faults!TimelineIsTrue

-----------------------------------------------------------------------------
LEMMA RacesInvariance == RacesSpec => [](FamilyInv /\ LookupInv /\ DnsInv /\ QuicInv /\ FaultsInv)
<1> DEFINE I == FamilyInv /\ LookupInv /\ DnsInv /\ QuicInv /\ FaultsInv
<1>1. InitRaces => I
  BY InitFamilyInv, InitLookupInv, InitDnsInv, InitQuicInv, InitFaultsInv
<1>2. I /\ [NextRaces]_raceVars => I'
  BY Moves, FamilyKept, LookupKept, DnsKept, QuicKept, FaultsKept
<1> QED
  BY <1>1, <1>2, PTL DEF RacesSpec

\* Type correctness of the races that report.
THEOREM RacesTypeCorrect ==
  RacesSpec => [](Family!TypeOK /\ Lookup!TypeOK /\ Dns!TypeOK /\ Quic!TypeOK /\ Faults!TypeOK)
<1>1. FamilyInv /\ LookupInv /\ DnsInv /\ QuicInv /\ FaultsInv =>
        Family!TypeOK /\ Lookup!TypeOK /\ Dns!TypeOK /\ Quic!TypeOK /\ Faults!TypeOK
  BY DEF FamilyInv, LookupInv, DnsInv, QuicInv, FaultsInv
<1> QED
  BY <1>1, RacesInvariance, PTL

\* What a race reports is true of those who ran in it, whichever ended first and
\* whenever its context ended: the connection returned is the one claimed and open
\* (dialContextFromSources), a lookup called inconclusive was asked twice (lookupIPRetrying), the
\* encrypted DNS row tells of both exchanges as they went, a QUIC verdict is that
\* of the handshakes, and the timeline of a simulator's run is complete.
THEOREM ReportsTrue == RacesSpec => []ReportsAreTrue
<1>1. FamilyInv /\ LookupInv /\ DnsInv /\ QuicInv /\ FaultsInv => ReportsAreTrue
  BY FamilyTrue, FaultsTrue DEF LookupInv, DnsInv, QuicInv, ReportsAreTrue
<1> QED
  BY <1>1, RacesInvariance, PTL

-----------------------------------------------------------------------------
\* The reader of route notifications and its owner.

Subscription == Feed!Subscription
Closed == Feed!Closed

\* Subscriptions are made and given up one at a time.
InTurn ==
  /\ \A s \in Subscription : s > subs => reader[s] = "none" /\ socket[s] = Closed
  /\ \A s \in Subscription : s < subs => reader[s] = "done"
  /\ subs # 0 /\ owner = "idle" /\ feed = 0 => reader[subs] = "done"

\* How far a call of the owner has come tells the state of its subscription.
Phases ==
  /\ owner # "idle" => subs # 0
  /\ owner = "bound" => feed = 0 /\ reader[subs] = "none" /\ socket[subs].open
  /\ owner = "started" => feed # 0
  /\ owner \in {"stopping", "waiting"} => feed = 0 /\ stopped[subs] /\ reader[subs] # "none"
  /\ feed # 0 => /\ owner \in {"idle", "started"} /\ reader[feed] # "none"
                 /\ reader[feed] # "done" => socket[feed].open

\* What a reader has read tells why its socket is what it is.
Sockets ==
  \A s \in Subscription :
    /\ reader[s] = "done" => socket[s] = Closed
    /\ reader[s] = "reading" /\ ~socket[s].open => stopped[s]
    /\ got[s] = "end" => reader[s] \in {"decide", "exit", "done"}
    /\ ~socket[s].open => socket[s] = Closed

\* An observation that is valid was made after the last invalidation.
FreshObservation == observation.generation = generation => observation.at >= told

\* A change nobody was told of has left a trace the reader will find.
Traced ==
  feed # 0 /\ reader[feed] = "reading" /\ told < world =>
    owner = "started" \/ socket[feed].pending > 0 \/ socket[feed].dropped

\* Invalidations still to come that a change, the subscription or its failure
\* has paid for.
OfOwner == One(owner \in {"bound", "started"})
OfLoss == One(socket[subs].dropped)
OfFailure == One(socket[subs].broken /\ got[subs] # "end")
OfReader == One(reader[subs] = "decide" /\ ~Feed!Deliberate(subs))
Owed == IF subs = 0 THEN 0 ELSE OfOwner + socket[subs].pending + OfLoss + OfFailure + OfReader
Paid == generation + Owed <= world + subs + failures

FeedInv ==
  /\ Feed!TypeOK
  /\ InTurn
  /\ Phases
  /\ Sockets
  /\ FreshObservation
  /\ Traced
  /\ Paid

-----------------------------------------------------------------------------

\* The states of one socket.
SocketState == [open : BOOLEAN, pending : 0..QueueLimit, dropped : BOOLEAN, broken : BOOLEAN]

LEMMA ClosedFacts ==
  /\ Closed \in SocketState /\ Feed!Bound \in SocketState /\ Feed!Bound.open
  /\ ~Closed.open /\ Closed.pending = 0 /\ ~Closed.dropped /\ ~Closed.broken
  /\ Feed!Bound.pending = 0 /\ ~Feed!Bound.dropped /\ ~Feed!Bound.broken
<1>1. 0 \in 0..QueueLimit
  BY LimitsAssumption
<1>2. /\ Closed \in SocketState
      /\ ~Closed.open /\ Closed.pending = 0 /\ ~Closed.dropped /\ ~Closed.broken
  BY <1>1 DEF Closed, Feed!Closed, SocketState
<1>3. Feed!Bound = [Closed EXCEPT !.open = TRUE]
  BY DEF Feed!Bound, Closed
<1> QED
  BY <1>2, <1>3 DEF SocketState

\* A change is queued on an open socket or leaves the mark of its loss.
LEMMA NotifiedFacts ==
  ASSUME NEW k \in SocketState, NEW lost \in BOOLEAN
  PROVE  LET n == Feed!Notified(k, lost)
         IN  /\ n \in SocketState
             /\ ~k.open => n = k
             /\ n.open = k.open /\ n.broken = k.broken
             /\ k.open => n.pending > 0 \/ n.dropped
             /\ n.pending + One(n.dropped) <= k.pending + One(k.dropped) + 1
<1> DEFINE n == Feed!Notified(k, lost)
<1>0. /\ k.open \in BOOLEAN /\ k.dropped \in BOOLEAN /\ k.broken \in BOOLEAN
      /\ k.pending \in 0..QueueLimit /\ QueueLimit \in Nat
  BY LimitsAssumption DEF SocketState
<1>1. CASE ~k.open
  <2>1. n = k
    BY <1>1 DEF Feed!Notified
  <2> QED
    BY <1>0, <1>1, <2>1 DEF One
<1>2. CASE k.open /\ (lost \/ k.pending = QueueLimit)
  <2>1. n = [k EXCEPT !.dropped = TRUE]
    BY <1>2 DEF Feed!Notified
  <2>2. /\ n \in SocketState /\ n.dropped
        /\ n.open = k.open /\ n.broken = k.broken /\ n.pending = k.pending
    BY <2>1 DEF SocketState
  <2> QED
    BY <1>0, <1>2, <2>2 DEF One
<1>3. CASE k.open /\ ~lost /\ k.pending # QueueLimit
  <2>1. n = [k EXCEPT !.pending = k.pending + 1]
    BY <1>3 DEF Feed!Notified
  <2>2. k.pending + 1 \in 0..QueueLimit
    BY <1>0, <1>3
  <2>3. /\ n \in SocketState /\ n.pending = k.pending + 1
        /\ n.open = k.open /\ n.broken = k.broken /\ n.dropped = k.dropped
    BY <2>1, <2>2 DEF SocketState
  <2> QED
    BY <1>0, <1>3, <2>3 DEF One
<1> QED
  BY <1>1, <1>2, <1>3

SocketsTyped == socket \in [Subscription -> SocketState]

LEMMA ChangeFacts ==
  ASSUME SocketsTyped, Feed!Change
  PROVE  /\ SocketsTyped' /\ world < MaxChanges /\ world' = world + 1
         /\ UNCHANGED <<failures, generation, told, feed, subs, stopped, reader, got, owner, pass,
                        observation>>
         /\ \A s \in Subscription :
              /\ ~socket[s].open => socket'[s] = socket[s]
              /\ socket'[s].open = socket[s].open /\ socket'[s].broken = socket[s].broken
              /\ socket[s].open => socket'[s].pending > 0 \/ socket'[s].dropped
              /\ socket'[s].pending + One(socket'[s].dropped)
                   <= socket[s].pending + One(socket[s].dropped) + 1
<1>1. PICK lost \in BOOLEAN :
        socket' = [s \in Subscription |-> Feed!Notified(socket[s], lost)]
  BY DEF Feed!Change, Subscription, Feed!Subscription
<1>2. \A s \in Subscription : socket[s] \in SocketState /\ socket'[s] = Feed!Notified(socket[s], lost)
  BY <1>1 DEF SocketsTyped
<1>3. /\ world < MaxChanges /\ world' = world + 1
      /\ UNCHANGED <<failures, generation, told, feed, subs, stopped, reader, got, owner, pass,
                     observation>>
  BY DEF Feed!Change, Feed!ownerVars, Feed!readerVars, Feed!passVars
<1> QED
  BY <1>1, <1>2, <1>3, NotifiedFacts DEF SocketsTyped

\* A step that touches one socket.
LEMMA OneSocketFacts ==
  ASSUME SocketsTyped, NEW s \in Subscription, NEW k \in SocketState,
         socket' = [socket EXCEPT ![s] = k]
  PROVE  SocketsTyped' /\ socket'[s] = k /\ \A t \in Subscription : t # s => socket'[t] = socket[t]
BY DEF SocketsTyped

LEMMA BreakFacts ==
  ASSUME SocketsTyped, Feed!Break
  PROVE  /\ failures < MaxFailures /\ failures' = failures + 1
         /\ UNCHANGED <<world, generation, told, feed, subs, stopped, reader, got, owner, pass,
                        observation>>
         /\ \E s \in Subscription :
           /\ socket[s].open /\ ~socket[s].broken
           /\ SocketsTyped'
           /\ socket'[s].open /\ socket'[s].broken
           /\ socket'[s].pending = socket[s].pending /\ socket'[s].dropped = socket[s].dropped
           /\ \A t \in Subscription : t # s => socket'[t] = socket[t]
<1>0. /\ failures < MaxFailures /\ failures' = failures + 1
      /\ UNCHANGED <<world, generation, told, feed, subs, stopped, reader, got, owner, pass,
                     observation>>
  BY DEF Feed!Break, Feed!ownerVars, Feed!readerVars, Feed!passVars
<1>1. PICK s \in Subscription : /\ socket[s].open /\ ~socket[s].broken
                                /\ socket' = [socket EXCEPT ![s].broken = TRUE]
  BY DEF Feed!Break, Subscription
<1>2. [socket[s] EXCEPT !.broken = TRUE] \in SocketState
  BY DEF SocketsTyped, SocketState
<1>3. socket' = [socket EXCEPT ![s] = [socket[s] EXCEPT !.broken = TRUE]]
  BY <1>1 DEF SocketsTyped
<1>4. socket'[s] = [socket[s] EXCEPT !.broken = TRUE]
  BY <1>2, <1>3, OneSocketFacts
<1> QED
  BY <1>0, <1>1, <1>2, <1>3, <1>4, OneSocketFacts DEF SocketsTyped, SocketState

LEMMA BindFacts ==
  ASSUME SocketsTyped, Feed!Bind, subs \in Nat
  PROVE  /\ subs' \in Subscription /\ subs' = subs + 1
         /\ SocketsTyped' /\ socket'[subs'] = Feed!Bound
         /\ \A t \in Subscription : t # subs' => socket'[t] = socket[t]
<1>1. subs' \in Subscription /\ subs' = subs + 1
  BY LimitsAssumption DEF Feed!Bind, Subscription, Feed!Subscription
<1>2. socket' = [socket EXCEPT ![subs'] = Feed!Bound]
  BY DEF Feed!Bind
<1> QED
  BY <1>1, <1>2, OneSocketFacts, ClosedFacts

LEMMA NotificationFacts ==
  ASSUME SocketsTyped, NEW s \in Subscription, Feed!ReadNotification(s)
  PROVE  /\ SocketsTyped' /\ socket[s].open /\ socket'[s].open
         /\ socket'[s].pending = socket[s].pending - 1
         /\ socket'[s].dropped = socket[s].dropped /\ socket'[s].broken = socket[s].broken
         /\ \A t \in Subscription : t # s => socket'[t] = socket[t]
<1> DEFINE k == [socket[s] EXCEPT !.pending = socket[s].pending - 1]
<1>1. socket[s] \in SocketState /\ socket[s].open /\ socket[s].pending > 0
  BY DEF SocketsTyped, Feed!ReadNotification
<1>2. socket[s].pending - 1 \in 0..QueueLimit
  BY <1>1, LimitsAssumption DEF SocketState
<1>3. k \in SocketState /\ k.pending = socket[s].pending - 1 /\ k.open = socket[s].open
      /\ k.dropped = socket[s].dropped /\ k.broken = socket[s].broken
  BY <1>1, <1>2 DEF SocketState
<1>4. socket' = [socket EXCEPT ![s] = k]
  BY DEF SocketsTyped, Feed!ReadNotification
<1> QED
  BY <1>1, <1>3, <1>4, OneSocketFacts

LEMMA OverflowFacts ==
  ASSUME SocketsTyped, NEW s \in Subscription, Feed!ReadOverflow(s)
  PROVE  /\ SocketsTyped' /\ socket[s].open /\ socket'[s].open
         /\ socket'[s].pending = socket[s].pending
         /\ socket[s].dropped /\ ~socket'[s].dropped /\ socket'[s].broken = socket[s].broken
         /\ \A t \in Subscription : t # s => socket'[t] = socket[t]
<1> DEFINE k == [socket[s] EXCEPT !.dropped = FALSE]
<1>1. socket[s] \in SocketState /\ socket[s].open /\ socket[s].dropped
  BY DEF SocketsTyped, Feed!ReadOverflow
<1>2. k \in SocketState /\ k.pending = socket[s].pending /\ k.open = socket[s].open
      /\ ~k.dropped /\ k.broken = socket[s].broken
  BY <1>1 DEF SocketState
<1>3. socket' = [socket EXCEPT ![s] = k]
  BY DEF SocketsTyped, Feed!ReadOverflow
<1> QED
  BY <1>1, <1>2, <1>3, OneSocketFacts


LEMMA SocketsAreTyped == Feed!TypeOK => SocketsTyped
BY DEF Feed!TypeOK, SocketsTyped, SocketState, Subscription

\* A change and a failure of the platform touch sockets alone, and neither opens
\* nor closes one.
SocketsAlone ==
  /\ SocketsTyped'
  /\ UNCHANGED <<generation, told, feed, subs, stopped, reader, got, owner, pass, observation>>
  /\ \A s \in Subscription : /\ socket'[s].open = socket[s].open
                             /\ ~socket[s].open => socket'[s] = socket[s]

LEMMA PlatformFacts ==
  ASSUME SocketsTyped, Feed!Change \/ Feed!Break PROVE SocketsAlone
<1>1. CASE Feed!Change
  BY <1>1, ChangeFacts, Zenon DEF SocketsAlone
<1>2. CASE Feed!Break
  <2>1. PICK s \in Subscription :
          /\ socket[s].open /\ SocketsTyped' /\ socket'[s].open
          /\ \A t \in Subscription : t # s => socket'[t] = socket[t]
    BY <1>2, BreakFacts, Zenon
  <2>2. UNCHANGED <<generation, told, feed, subs, stopped, reader, got, owner, pass, observation>>
    BY <1>2, BreakFacts, Zenon
  <2>3. ASSUME NEW t \in Subscription
        PROVE  /\ socket'[t].open = socket[t].open
               /\ ~socket[t].open => socket'[t] = socket[t]
    <3>1. CASE t = s
      BY <2>1, <3>1 DEF SocketsTyped, SocketState
    <3>2. CASE t # s
      BY <2>1, <3>2, Zenon
    <3> QED
      BY <3>1, <3>2
  <2> QED
    BY <2>1, <2>2, <2>3, Zenon DEF SocketsAlone
<1> QED
  BY <1>1, <1>2

\* Every variable of the feed stays in its range.
LEMMA FeedTypeKept ==
  ASSUME FeedInv, Feed!Next \/ UNCHANGED feedVars PROVE Feed!TypeOK'
<1>0. SocketsTyped
  BY SocketsAreTyped DEF FeedInv
<1>1. ASSUME Feed!Change \/ Feed!Break PROVE Feed!TypeOK'
  <2>1. SocketsAlone
    BY <1>0, <1>1, PlatformFacts
  <2>2. world' \in 0..MaxChanges /\ world <= world' /\ failures' \in 0..MaxFailures
    <3>1. CASE Feed!Change
      <4>1. world < MaxChanges /\ world' = world + 1 /\ failures' = failures
        BY <1>0, <3>1, ChangeFacts
      <4> QED
        BY <4>1, LimitsAssumption DEF FeedInv, Feed!TypeOK
    <3>2. CASE Feed!Break
      <4>1. failures < MaxFailures /\ failures' = failures + 1 /\ world' = world
        BY <1>0, <3>2, BreakFacts
      <4> QED
        BY <4>1, LimitsAssumption DEF FeedInv, Feed!TypeOK
    <3> QED
      BY <1>1, <3>1, <3>2
  <2>3. 0..world \subseteq 0..world'
    BY <2>2, LimitsAssumption DEF FeedInv, Feed!TypeOK
  <2>4. told' \in 0..world' /\ observation' \in [generation : 0..generation', at : 0..world']
    BY <2>1, <2>3 DEF FeedInv, Feed!TypeOK, SocketsAlone
  <2>5. socket' \in [Feed!Subscription -> [open : BOOLEAN, pending : 0..QueueLimit,
                                          dropped : BOOLEAN, broken : BOOLEAN]]
    BY <2>1 DEF SocketsAlone, SocketsTyped, SocketState, Subscription
  <2> QED
    BY <2>1, <2>2, <2>4, <2>5 DEF FeedInv, Feed!TypeOK, SocketsAlone
<1> USE LimitsAssumption DEF FeedInv, Feed!TypeOK, SocketsTyped, SocketState, Feed!kernelVars,
       Feed!readerVars, Feed!ownerVars, Feed!passVars, Feed!InvalidateSession, Feed!Read,
       Subscription, Feed!Subscription
<1>3. CASE Feed!Bind
  BY <1>0, <1>3, BindFacts, ClosedFacts DEF Feed!Bind
<1>4. CASE Feed!StartReader
  BY <1>4 DEF Feed!StartReader
<1>5. CASE Feed!Followed
  BY <1>5 DEF Feed!Followed
<1>6. CASE Feed!Stop
  BY <1>6 DEF Feed!Stop
<1>7. CASE Feed!CloseSource
  BY <1>0, <1>7, ClosedFacts DEF Feed!CloseSource, Closed
<1>8. CASE Feed!CloseReturns
  BY <1>8 DEF Feed!CloseReturns
<1>9. CASE Feed!Begin
  BY <1>9 DEF Feed!Begin
<1>10. CASE Feed!Sample
  BY <1>10 DEF Feed!Sample
<1>11. ASSUME NEW s \in Feed!Subscription, Feed!ReadNotification(s) PROVE Feed!TypeOK'
  BY <1>0, <1>11, NotificationFacts DEF Feed!ReadNotification
<1>12. ASSUME NEW s \in Feed!Subscription, Feed!ReadOverflow(s) PROVE Feed!TypeOK'
  BY <1>0, <1>12, OverflowFacts DEF Feed!ReadOverflow
<1>13. ASSUME NEW s \in Feed!Subscription, Feed!ReadEnd(s) PROVE Feed!TypeOK'
  BY <1>13 DEF Feed!ReadEnd
<1>14. ASSUME NEW s \in Feed!Subscription, Feed!StopReading(s) PROVE Feed!TypeOK'
  BY <1>14 DEF Feed!StopReading
<1>15. ASSUME NEW s \in Feed!Subscription, Feed!Announce(s) PROVE Feed!TypeOK'
  BY <1>15 DEF Feed!Announce
<1>16. ASSUME NEW s \in Feed!Subscription, Feed!Exit(s) PROVE Feed!TypeOK'
  BY <1>0, <1>16, ClosedFacts DEF Feed!Exit, Closed
<1>17. CASE UNCHANGED feedVars
  BY <1>17 DEF feedVars
<1> QED
  BY <1>1, <1>3, <1>4, <1>5, <1>6, <1>7, <1>8, <1>9, <1>10, <1>11, <1>12,
     <1>13, <1>14, <1>15, <1>16, <1>17
     DEF Feed!Next, Feed!Platform, Feed!Owner, Feed!Finishing, Feed!Reader

\* A subscription is made when the one before it is over.
LEMMA InTurnKept ==
  ASSUME FeedInv, Feed!Next \/ UNCHANGED feedVars PROVE InTurn'
<1>0. SocketsTyped
  BY SocketsAreTyped DEF FeedInv
<1>1. ASSUME Feed!Change \/ Feed!Break PROVE InTurn'
  BY <1>0, <1>1, PlatformFacts, ClosedFacts DEF FeedInv, InTurn, SocketsAlone
<1> USE LimitsAssumption DEF FeedInv, Feed!TypeOK, InTurn, Phases, Sockets, SocketsTyped,
       Feed!kernelVars, Feed!readerVars, Feed!ownerVars, Feed!passVars, Feed!InvalidateSession,
       Feed!Read, Subscription, Feed!Subscription
<1>3. CASE Feed!Bind
  BY <1>0, <1>3, BindFacts, ClosedFacts DEF Feed!Bind
<1>4. CASE Feed!StartReader
  BY <1>4 DEF Feed!StartReader
<1>5. CASE Feed!Followed
  BY <1>5 DEF Feed!Followed
<1>6. CASE Feed!Stop
  BY <1>6 DEF Feed!Stop
<1>7. CASE Feed!CloseSource
  BY <1>0, <1>7, ClosedFacts DEF Feed!CloseSource, Closed
<1>8. CASE Feed!CloseReturns
  BY <1>8 DEF Feed!CloseReturns
<1>9. CASE Feed!Begin
  BY <1>9 DEF Feed!Begin
<1>10. CASE Feed!Sample
  BY <1>10 DEF Feed!Sample
<1>11. ASSUME NEW s \in Feed!Subscription, Feed!ReadNotification(s) PROVE InTurn'
  <2>1. /\ UNCHANGED <<subs, owner, feed>> /\ s \in Subscription /\ reader[s] = "reading"
        /\ \A t \in Subscription : t # s => reader'[t] = reader[t]
    BY <1>11 DEF Feed!ReadNotification
  <2>2. \A t \in Subscription : t # s => socket'[t] = socket[t]
    BY <1>0, <1>11, <2>1, NotificationFacts
  <2>3. s \in Nat /\ ~(s > subs) /\ ~(s < subs)
    BY <2>1
  <2> QED
    BY <2>1, <2>2, <2>3
<1>12. ASSUME NEW s \in Feed!Subscription, Feed!ReadOverflow(s) PROVE InTurn'
  BY <1>0, <1>12, OverflowFacts DEF Feed!ReadOverflow
<1>13. ASSUME NEW s \in Feed!Subscription, Feed!ReadEnd(s) PROVE InTurn'
  BY <1>13 DEF Feed!ReadEnd
<1>14. ASSUME NEW s \in Feed!Subscription, Feed!StopReading(s) PROVE InTurn'
  <2>1. /\ UNCHANGED <<socket, subs, owner, feed>> /\ s \in Subscription /\ reader[s] = "decide"
        /\ \A t \in Subscription : t # s => reader'[t] = reader[t]
    BY <1>14 DEF Feed!StopReading
  <2>2. s \in Nat /\ ~(s > subs) /\ ~(s < subs)
    BY <2>1
  <2> QED
    BY <2>1, <2>2
<1>15. ASSUME NEW s \in Feed!Subscription, Feed!Announce(s) PROVE InTurn'
  <2>1. /\ UNCHANGED <<socket, subs, owner, feed>> /\ s \in Subscription /\ reader[s] = "decide"
        /\ \A t \in Subscription : t # s => reader'[t] = reader[t]
    BY <1>15 DEF Feed!Announce
  <2>2. s \in Nat /\ ~(s > subs) /\ ~(s < subs)
    BY <2>1
  <2> QED
    BY <2>1, <2>2
<1>16. ASSUME NEW s \in Feed!Subscription, Feed!Exit(s) PROVE InTurn'
  BY <1>0, <1>16, ClosedFacts DEF Feed!Exit, Closed
<1>17. CASE UNCHANGED feedVars
  BY <1>17 DEF feedVars
<1> QED
  BY <1>1, <1>3, <1>4, <1>5, <1>6, <1>7, <1>8, <1>9, <1>10, <1>11, <1>12,
     <1>13, <1>14, <1>15, <1>16, <1>17
     DEF Feed!Next, Feed!Platform, Feed!Owner, Feed!Finishing, Feed!Reader

\* A call moves with the subscription it is about.
LEMMA PhasesKept ==
  ASSUME FeedInv, Feed!Next \/ UNCHANGED feedVars PROVE Phases'
<1>0. SocketsTyped
  BY SocketsAreTyped DEF FeedInv
<1>1. ASSUME Feed!Change \/ Feed!Break PROVE Phases'
  <2>1. SocketsAlone
    BY <1>0, <1>1, PlatformFacts
  <2>2. (subs # 0 => subs \in Subscription) /\ feed \in {0, subs}
    BY LimitsAssumption DEF FeedInv, Feed!TypeOK, Subscription, Feed!Subscription
  <2> QED
    BY <2>1, <2>2 DEF FeedInv, Phases, SocketsAlone
<1> USE LimitsAssumption DEF FeedInv, Feed!TypeOK, InTurn, Phases, Sockets, SocketsTyped,
       Feed!kernelVars, Feed!readerVars, Feed!ownerVars, Feed!passVars, Feed!InvalidateSession,
       Feed!Read, Subscription, Feed!Subscription
<1>3. CASE Feed!Bind
  BY <1>0, <1>3, BindFacts, ClosedFacts DEF Feed!Bind
<1>4. CASE Feed!StartReader
  BY <1>4 DEF Feed!StartReader
<1>5. CASE Feed!Followed
  BY <1>5 DEF Feed!Followed
<1>6. CASE Feed!Stop
  BY <1>6 DEF Feed!Stop
<1>7. CASE Feed!CloseSource
  BY <1>0, <1>7, ClosedFacts DEF Feed!CloseSource, Closed
<1>8. CASE Feed!CloseReturns
  BY <1>8 DEF Feed!CloseReturns
<1>9. CASE Feed!Begin
  BY <1>9 DEF Feed!Begin
<1>10. CASE Feed!Sample
  BY <1>10 DEF Feed!Sample
<1>11. ASSUME NEW s \in Feed!Subscription, Feed!ReadNotification(s) PROVE Phases'
  BY <1>0, <1>11, NotificationFacts DEF Feed!ReadNotification
<1>12. ASSUME NEW s \in Feed!Subscription, Feed!ReadOverflow(s) PROVE Phases'
  BY <1>0, <1>12, OverflowFacts DEF Feed!ReadOverflow
<1>13. ASSUME NEW s \in Feed!Subscription, Feed!ReadEnd(s) PROVE Phases'
  BY <1>13 DEF Feed!ReadEnd
<1>14. ASSUME NEW s \in Feed!Subscription, Feed!StopReading(s) PROVE Phases'
  BY <1>14 DEF Feed!StopReading
<1>15. ASSUME NEW s \in Feed!Subscription, Feed!Announce(s) PROVE Phases'
  BY <1>15 DEF Feed!Announce
<1>16. ASSUME NEW s \in Feed!Subscription, Feed!Exit(s) PROVE Phases'
  BY <1>0, <1>16, ClosedFacts DEF Feed!Exit, Closed
<1>17. CASE UNCHANGED feedVars
  BY <1>17 DEF feedVars
<1> QED
  BY <1>1, <1>3, <1>4, <1>5, <1>6, <1>7, <1>8, <1>9, <1>10, <1>11, <1>12,
     <1>13, <1>14, <1>15, <1>16, <1>17
     DEF Feed!Next, Feed!Platform, Feed!Owner, Feed!Finishing, Feed!Reader

\* A reader ends with its socket closed.
LEMMA SocketsKept ==
  ASSUME FeedInv, Feed!Next \/ UNCHANGED feedVars PROVE Sockets'
<1>0. SocketsTyped
  BY SocketsAreTyped DEF FeedInv
<1>1. ASSUME Feed!Change \/ Feed!Break PROVE Sockets'
  BY <1>0, <1>1, PlatformFacts, ClosedFacts DEF FeedInv, Sockets, SocketsAlone
<1> USE LimitsAssumption DEF FeedInv, Feed!TypeOK, InTurn, Phases, Sockets, SocketsTyped,
       Feed!kernelVars, Feed!readerVars, Feed!ownerVars, Feed!passVars, Feed!InvalidateSession,
       Feed!Read, Subscription, Feed!Subscription
<1>3. CASE Feed!Bind
  BY <1>0, <1>3, BindFacts, ClosedFacts DEF Feed!Bind
<1>4. CASE Feed!StartReader
  BY <1>4 DEF Feed!StartReader
<1>5. CASE Feed!Followed
  BY <1>5 DEF Feed!Followed
<1>6. CASE Feed!Stop
  BY <1>6 DEF Feed!Stop
<1>7. CASE Feed!CloseSource
  BY <1>0, <1>7, ClosedFacts DEF Feed!CloseSource, Closed
<1>8. CASE Feed!CloseReturns
  BY <1>8 DEF Feed!CloseReturns
<1>9. CASE Feed!Begin
  BY <1>9 DEF Feed!Begin
<1>10. CASE Feed!Sample
  BY <1>10 DEF Feed!Sample
<1>11. ASSUME NEW s \in Feed!Subscription, Feed!ReadNotification(s) PROVE Sockets'
  BY <1>0, <1>11, NotificationFacts DEF Feed!ReadNotification
<1>12. ASSUME NEW s \in Feed!Subscription, Feed!ReadOverflow(s) PROVE Sockets'
  BY <1>0, <1>12, OverflowFacts DEF Feed!ReadOverflow
<1>13. ASSUME NEW s \in Feed!Subscription, Feed!ReadEnd(s) PROVE Sockets'
  BY <1>13 DEF Feed!ReadEnd
<1>14. ASSUME NEW s \in Feed!Subscription, Feed!StopReading(s) PROVE Sockets'
  BY <1>14 DEF Feed!StopReading
<1>15. ASSUME NEW s \in Feed!Subscription, Feed!Announce(s) PROVE Sockets'
  BY <1>15 DEF Feed!Announce
<1>16. ASSUME NEW s \in Feed!Subscription, Feed!Exit(s) PROVE Sockets'
  BY <1>0, <1>16, ClosedFacts DEF Feed!Exit, Closed
<1>17. CASE UNCHANGED feedVars
  BY <1>17 DEF feedVars
<1> QED
  BY <1>1, <1>3, <1>4, <1>5, <1>6, <1>7, <1>8, <1>9, <1>10, <1>11, <1>12,
     <1>13, <1>14, <1>15, <1>16, <1>17
     DEF Feed!Next, Feed!Platform, Feed!Owner, Feed!Finishing, Feed!Reader

\* A sample is taken of the present, and an invalidation ends what was sampled before.
LEMMA ObservationKept ==
  ASSUME FeedInv, Feed!Next \/ UNCHANGED feedVars PROVE FreshObservation'
<1> USE LimitsAssumption DEF FeedInv, Feed!TypeOK, FreshObservation, Feed!kernelVars,
       Feed!readerVars, Feed!ownerVars, Feed!passVars, Feed!InvalidateSession, Feed!Read,
       Subscription, Feed!Subscription
<1>0. SocketsTyped
  BY SocketsAreTyped
<1>1. CASE Feed!Change
  BY <1>1 DEF Feed!Change
<1>2. CASE Feed!Break
  BY <1>2 DEF Feed!Break
<1>3. CASE Feed!Bind
  BY <1>3 DEF Feed!Bind
<1>4. CASE Feed!StartReader
  BY <1>4 DEF Feed!StartReader
<1>5. CASE Feed!Followed
  BY <1>5 DEF Feed!Followed
<1>6. CASE Feed!Stop
  BY <1>6 DEF Feed!Stop
<1>7. CASE Feed!CloseSource
  BY <1>7 DEF Feed!CloseSource
<1>8. CASE Feed!CloseReturns
  BY <1>8 DEF Feed!CloseReturns
<1>9. CASE Feed!Begin
  BY <1>9 DEF Feed!Begin
<1>10. CASE Feed!Sample
  BY <1>10 DEF Feed!Sample
<1>11. ASSUME NEW s \in Feed!Subscription, Feed!ReadNotification(s) PROVE FreshObservation'
  BY <1>11 DEF Feed!ReadNotification
<1>12. ASSUME NEW s \in Feed!Subscription, Feed!ReadOverflow(s) PROVE FreshObservation'
  BY <1>12 DEF Feed!ReadOverflow
<1>13. ASSUME NEW s \in Feed!Subscription, Feed!ReadEnd(s) PROVE FreshObservation'
  BY <1>13 DEF Feed!ReadEnd
<1>14. ASSUME NEW s \in Feed!Subscription, Feed!StopReading(s) PROVE FreshObservation'
  BY <1>14 DEF Feed!StopReading
<1>15. ASSUME NEW s \in Feed!Subscription, Feed!Announce(s) PROVE FreshObservation'
  BY <1>15 DEF Feed!Announce
<1>16. ASSUME NEW s \in Feed!Subscription, Feed!Exit(s) PROVE FreshObservation'
  BY <1>16 DEF Feed!Exit
<1>17. CASE UNCHANGED feedVars
  BY <1>17 DEF feedVars
<1> QED
  BY <1>1, <1>2, <1>3, <1>4, <1>5, <1>6, <1>7, <1>8, <1>9, <1>10, <1>11, <1>12,
     <1>13, <1>14, <1>15, <1>16, <1>17
     DEF Feed!Next, Feed!Platform, Feed!Owner, Feed!Finishing, Feed!Reader

\* A change reaches the socket before anything is invalidated for it.
LEMMA TracedKept ==
  ASSUME FeedInv, Feed!Next \/ UNCHANGED feedVars PROVE Traced'
<1>0. SocketsTyped
  BY SocketsAreTyped DEF FeedInv
<1>1. ASSUME Feed!Change \/ Feed!Break PROVE Traced'
  <2>1. UNCHANGED <<told, feed, reader, owner>>
    BY <1>0, <1>1, PlatformFacts DEF SocketsAlone
  <2>2. SUFFICES ASSUME feed # 0, reader[feed] = "reading", told < world', owner # "started"
                 PROVE  socket'[feed].pending > 0 \/ socket'[feed].dropped
    BY <2>1 DEF Traced
  <2>3. feed \in Subscription /\ socket[feed].open
    BY <2>2, LimitsAssumption DEF FeedInv, Feed!TypeOK, Phases, Subscription, Feed!Subscription
  <2>4. CASE Feed!Change
    BY <1>0, <2>3, <2>4, ChangeFacts
  <2>5. CASE Feed!Break
    <3>1. world' = world
      BY <1>0, <2>5, BreakFacts
    <3>2. socket[feed].pending > 0 \/ socket[feed].dropped
      BY <2>2, <3>1 DEF FeedInv, Traced
    <3>3. socket'[feed].pending = socket[feed].pending /\ socket'[feed].dropped = socket[feed].dropped
      BY <1>0, <2>3, <2>5, BreakFacts
    <3> QED
      BY <3>2, <3>3
  <2> QED
    BY <1>1, <2>4, <2>5
<1> USE LimitsAssumption DEF FeedInv, Feed!TypeOK, InTurn, Phases, Sockets, SocketsTyped,
       SocketState, Traced, Feed!kernelVars, Feed!readerVars, Feed!ownerVars, Feed!passVars,
       Feed!InvalidateSession, Feed!Read, Subscription, Feed!Subscription
<1>3. CASE Feed!Bind
  BY <1>0, <1>3, BindFacts, ClosedFacts DEF Feed!Bind
<1>4. CASE Feed!StartReader
  BY <1>4 DEF Feed!StartReader
<1>5. CASE Feed!Followed
  BY <1>5 DEF Feed!Followed
<1>6. CASE Feed!Stop
  BY <1>6 DEF Feed!Stop
<1>7. CASE Feed!CloseSource
  BY <1>0, <1>7, ClosedFacts DEF Feed!CloseSource, Closed
<1>8. CASE Feed!CloseReturns
  BY <1>8 DEF Feed!CloseReturns
<1>9. CASE Feed!Begin
  BY <1>9 DEF Feed!Begin
<1>10. CASE Feed!Sample
  BY <1>10 DEF Feed!Sample
<1>11. ASSUME NEW s \in Feed!Subscription, Feed!ReadNotification(s) PROVE Traced'
  BY <1>0, <1>11, NotificationFacts DEF Feed!ReadNotification
<1>12. ASSUME NEW s \in Feed!Subscription, Feed!ReadOverflow(s) PROVE Traced'
  BY <1>0, <1>12, OverflowFacts DEF Feed!ReadOverflow
<1>13. ASSUME NEW s \in Feed!Subscription, Feed!ReadEnd(s) PROVE Traced'
  BY <1>13 DEF Feed!ReadEnd
<1>14. ASSUME NEW s \in Feed!Subscription, Feed!StopReading(s) PROVE Traced'
  BY <1>14 DEF Feed!StopReading
<1>15. ASSUME NEW s \in Feed!Subscription, Feed!Announce(s) PROVE Traced'
  BY <1>15 DEF Feed!Announce
<1>16. ASSUME NEW s \in Feed!Subscription, Feed!Exit(s) PROVE Traced'
  BY <1>0, <1>16, ClosedFacts DEF Feed!Exit, Closed
<1>17. CASE UNCHANGED feedVars
  BY <1>17 DEF feedVars
<1> QED
  BY <1>1, <1>3, <1>4, <1>5, <1>6, <1>7, <1>8, <1>9, <1>10, <1>11, <1>12,
     <1>13, <1>14, <1>15, <1>16, <1>17
     DEF Feed!Next, Feed!Platform, Feed!Owner, Feed!Finishing, Feed!Reader

\* The terms of what is owed, by what they stand for.
Terms ==
  /\ OfOwner = IF owner \in {"bound", "started"} THEN 1 ELSE 0
  /\ OfLoss = IF socket[subs].dropped THEN 1 ELSE 0
  /\ OfFailure = IF socket[subs].broken /\ got[subs] # "end" THEN 1 ELSE 0
  /\ OfReader = IF reader[subs] = "decide" /\ (got[subs] = "change" \/ ~stopped[subs])
                  THEN 1 ELSE 0

LEMMA TermFacts == Terms /\ Terms'
BY DEF Terms, OfOwner, OfLoss, OfFailure, OfReader, One, Feed!Deliberate

\* Only the last subscription made can owe anything.
LEMMA LastFacts ==
  ASSUME FeedInv
  PROVE  /\ {world, failures, generation, subs} \subseteq Nat
         /\ subs # 0 => subs \in Subscription /\ socket[subs].pending \in Nat
         /\ \A s \in Subscription :
              socket[s].open \/ reader[s] \in {"reading", "decide", "exit"} => s = subs
<1> USE LimitsAssumption DEF FeedInv, Feed!TypeOK, Subscription, Feed!Subscription
<1>1. /\ {world, failures, generation, subs} \subseteq Nat
      /\ subs # 0 => subs \in Subscription
  OBVIOUS
<1>2. subs # 0 => socket[subs].pending \in Nat
  BY <1>1
<1>3. ASSUME NEW s \in Subscription, socket[s].open \/ reader[s] \in {"reading", "decide", "exit"}
      PROVE  s = subs
  BY <1>1, <1>3, ClosedFacts DEF InTurn, Sockets
<1> QED
  BY <1>1, <1>2, <1>3

LEMMA ReaderFacts ==
  ASSUME FeedInv
  PROVE  /\ DOMAIN reader = Subscription /\ DOMAIN got = Subscription /\ DOMAIN stopped = Subscription
         /\ \A s \in Subscription : reader[s] = "reading" => got[s] # "end"
BY DEF FeedInv, Feed!TypeOK, Sockets, Subscription

\* An invalidation was paid for by what caused it.
LEMMA PaidKept ==
  ASSUME FeedInv, Feed!Next \/ UNCHANGED feedVars PROVE Paid'
<1> USE LimitsAssumption DEF FeedInv, Feed!kernelVars, Feed!readerVars, Feed!ownerVars,
       Feed!passVars, Feed!InvalidateSession, Feed!Read, Subscription, Feed!Subscription, Paid,
       Owed, Terms
<1>0. SocketsTyped
  BY SocketsAreTyped
<1>1. CASE Feed!Change
  <2>1. /\ world' = world + 1 /\ SocketsTyped'
        /\ UNCHANGED <<failures, generation, subs, stopped, reader, got, owner>>
    BY <1>0, <1>1, ChangeFacts
  <2>2. CASE subs = 0
    BY <2>1, <2>2, LastFacts
  <2>3. CASE subs # 0
    <3>1. /\ socket'[subs].broken = socket[subs].broken
          /\ socket'[subs].pending + One(socket'[subs].dropped)
               <= socket[subs].pending + One(socket[subs].dropped) + 1
      BY <1>0, <1>1, <2>3, ChangeFacts, LastFacts
    <3>2. socket'[subs].pending \in Nat
      BY <2>1, <2>3, LastFacts DEF SocketsTyped, SocketState
    <3> QED
      BY <2>1, <2>3, <3>1, <3>2, TermFacts, LastFacts DEF OfLoss
  <2> QED
    BY <2>2, <2>3
<1>2. CASE Feed!Break
  <2>1. PICK s \in Subscription :
          /\ socket[s].open /\ ~socket[s].broken
          /\ socket'[s].pending = socket[s].pending /\ socket'[s].dropped = socket[s].dropped
          /\ \A t \in Subscription : t # s => socket'[t] = socket[t]
    BY <1>0, <1>2, BreakFacts
  <2>2. failures' = failures + 1 /\ UNCHANGED <<world, generation, subs, stopped, reader, got, owner>>
    BY <1>0, <1>2, BreakFacts
  <2>3. s = subs /\ subs # 0
    BY <2>1, LastFacts DEF Subscription, Feed!Subscription
  <2> QED
    BY <2>1, <2>2, <2>3, TermFacts, LastFacts
<1>3. CASE Feed!Bind
  <2>1. /\ subs' \in Subscription /\ subs' = subs + 1 /\ reader[subs'] = "none"
        /\ socket'[subs'].pending = 0 /\ ~socket'[subs'].dropped /\ ~socket'[subs'].broken
    BY <1>0, <1>3, BindFacts, ClosedFacts, LastFacts DEF InTurn
  <2>2. /\ owner' = "bound" /\ owner = "idle"
        /\ UNCHANGED <<world, failures, generation, stopped, reader, got>>
    BY <1>3 DEF Feed!Bind
  <2> QED
    BY <2>1, <2>2, TermFacts, LastFacts
<1>4. CASE Feed!StartReader
  <2>1. /\ subs # 0 /\ subs' = subs /\ reader'[subs] = "reading"
        /\ owner \in {"bound", "started"} /\ owner' \in {"bound", "started"}
        /\ UNCHANGED <<world, failures, generation, stopped, got, socket>>
    BY <1>4, LastFacts DEF Feed!StartReader, Feed!TypeOK, Phases
  <2> QED
    BY <2>1, TermFacts, LastFacts
<1>5. CASE Feed!Followed
  <2>1. /\ subs # 0 /\ subs' = subs /\ generation' = generation + 1
        /\ owner = "started" /\ owner' = "idle"
        /\ UNCHANGED <<world, failures, stopped, reader, got, socket>>
    BY <1>5, LastFacts DEF Feed!Followed, Phases
  <2> QED
    BY <2>1, TermFacts, LastFacts
<1>6. CASE Feed!Stop
  <2>1. /\ subs # 0 /\ subs' = subs /\ owner = "idle" /\ owner' = "stopping"
        /\ stopped'[subs] /\ feed = subs
        /\ UNCHANGED <<world, failures, generation, reader, got, socket>>
    BY <1>6, LastFacts, ReaderFacts DEF Feed!Stop, Feed!TypeOK
  <2> QED
    BY <2>1, TermFacts, LastFacts
<1>7. CASE Feed!CloseSource
  BY <1>0, <1>7, TermFacts, LastFacts, ClosedFacts DEF Phases, Feed!CloseSource, Closed
<1>8. CASE Feed!CloseReturns
  BY <1>8, TermFacts, LastFacts DEF Feed!CloseReturns, Feed!TypeOK
<1>9. CASE Feed!Begin
  BY <1>9, TermFacts, LastFacts DEF Feed!Begin, Feed!TypeOK
<1>10. CASE Feed!Sample
  BY <1>10, TermFacts, LastFacts DEF Feed!Sample, Feed!TypeOK
<1>11. ASSUME NEW s \in Feed!Subscription, Feed!ReadNotification(s) PROVE Paid'
  <2>1. /\ s = subs /\ subs # 0 /\ subs' = subs
        /\ reader[s] = "reading" /\ reader'[s] = "decide" /\ got'[s] = "change" /\ got[s] # "end"
        /\ UNCHANGED <<world, failures, generation, stopped, owner>>
    BY <1>11, LastFacts, ReaderFacts DEF Feed!ReadNotification
  <2>2. /\ socket'[s].pending = socket[s].pending - 1
        /\ socket'[s].dropped = socket[s].dropped /\ socket'[s].broken = socket[s].broken
    BY <1>0, <1>11, NotificationFacts
  <2> QED
    BY <2>1, <2>2, TermFacts, LastFacts
<1>12. ASSUME NEW s \in Feed!Subscription, Feed!ReadOverflow(s) PROVE Paid'
  <2>1. /\ s = subs /\ subs # 0 /\ subs' = subs
        /\ reader[s] = "reading" /\ reader'[s] = "decide" /\ got'[s] = "overflow" /\ got[s] # "end"
        /\ UNCHANGED <<world, failures, generation, stopped, owner>>
    BY <1>12, LastFacts, ReaderFacts DEF Feed!ReadOverflow
  <2>2. /\ socket'[s].pending = socket[s].pending
        /\ socket[s].dropped /\ ~socket'[s].dropped /\ socket'[s].broken = socket[s].broken
    BY <1>0, <1>12, OverflowFacts
  <2> QED
    BY <2>1, <2>2, TermFacts, LastFacts
<1>13. ASSUME NEW s \in Feed!Subscription, Feed!ReadEnd(s) PROVE Paid'
  <2>1. /\ s = subs /\ subs # 0 /\ subs' = subs
        /\ reader[s] = "reading" /\ reader'[s] = "decide" /\ got'[s] = "end" /\ got[s] # "end"
        /\ UNCHANGED <<world, failures, generation, stopped, owner, socket>>
    BY <1>13, LastFacts, ReaderFacts DEF Feed!ReadEnd
  <2>2. stopped[s] \/ socket[s].broken
    BY <1>13 DEF Feed!ReadEnd, Sockets
  <2> QED
    BY <2>1, <2>2, TermFacts, LastFacts
<1>14. ASSUME NEW s \in Feed!Subscription, Feed!StopReading(s) PROVE Paid'
  <2>1. /\ s = subs /\ subs # 0 /\ subs' = subs /\ reader'[s] = "exit"
        /\ UNCHANGED <<world, failures, generation, stopped, owner, got, socket>>
    BY <1>14, LastFacts, ReaderFacts DEF Feed!StopReading
  <2>2. OfReader' = 0 /\ OfReader \in {0, 1} /\ UNCHANGED <<OfOwner, OfLoss, OfFailure>>
    BY <2>1, TermFacts
  <2> QED
    BY <2>1, <2>2, TermFacts, LastFacts
<1>15. ASSUME NEW s \in Feed!Subscription, Feed!Announce(s) PROVE Paid'
  <2>1. /\ s = subs /\ subs # 0 /\ subs' = subs /\ generation' = generation + 1
        /\ reader[s] = "decide" /\ (got[s] = "change" \/ ~stopped[s])
        /\ reader'[s] \in {"exit", "reading"}
        /\ UNCHANGED <<world, failures, stopped, owner, got, socket>>
    BY <1>15, LastFacts, ReaderFacts DEF Feed!Announce, Feed!Deliberate, Feed!TypeOK
  <2> QED
    BY <2>1, TermFacts, LastFacts
<1>16. ASSUME NEW s \in Feed!Subscription, Feed!Exit(s) PROVE Paid'
  BY <1>0, <1>16, TermFacts, LastFacts, ClosedFacts DEF Feed!Exit, Closed
<1>17. CASE UNCHANGED feedVars
  BY <1>17, TermFacts, LastFacts DEF feedVars
<1> QED
  BY <1>1, <1>2, <1>3, <1>4, <1>5, <1>6, <1>7, <1>8, <1>9, <1>10, <1>11, <1>12,
     <1>13, <1>14, <1>15, <1>16, <1>17
     DEF Feed!Next, Feed!Platform, Feed!Owner, Feed!Finishing, Feed!Reader

LEMMA InitFeedInv == InitRaces => FeedInv
<1> SUFFICES ASSUME InitRaces PROVE FeedInv
  OBVIOUS
<1>0. Feed!Init
  BY DEF InitRaces
<1> USE <1>0, LimitsAssumption DEF Feed!Init
<1>1. /\ \A s \in Subscription : socket[s] = Closed /\ reader[s] = "none" /\ got[s] = "nothing"
      /\ ~Closed.open
  BY ClosedFacts DEF Subscription, Closed
<1>2. Feed!TypeOK
  BY ClosedFacts DEF Feed!TypeOK, SocketState, Closed
<1>3. InTurn /\ Phases /\ Sockets
  BY <1>1 DEF InTurn, Phases, Sockets, Subscription, Feed!Subscription
<1>4. FreshObservation /\ Traced /\ Paid
  BY DEF FreshObservation, Traced, Paid, Owed
<1> QED
  BY <1>2, <1>3, <1>4 DEF FeedInv

LEMMA FeedInvariance == RacesSpec => []FeedInv
<1>1. FeedInv /\ [NextRaces]_raceVars => FeedInv'
  BY Moves, FeedTypeKept, InTurnKept, PhasesKept, SocketsKept, ObservationKept, TracedKept,
     PaidKept DEF FeedInv
<1> QED
  BY <1>1, InitFeedInv, PTL DEF RacesSpec

\* Type correctness of the route notification feed.
THEOREM FeedTypeCorrect == RacesSpec => []Feed!TypeOK
<1>1. FeedInv => Feed!TypeOK
  BY DEF FeedInv
<1> QED
  BY <1>1, FeedInvariance, PTL

\* When the reader of the running subscription has caught up with the platform,
\* an observation that is valid by its generation is one of the network as it is
\* (FollowRouteEvents and followRoutes, watch_events.go): whatever the queue's
\* size, no change made before, while or after the subscription was made, lost in
\* an overflow or sampled over, leaves a stale observation reusable.
THEOREM ReuseIsCurrent == RacesSpec => []ReusableIsCurrent
<1>1. FeedInv => ReusableIsCurrent
  BY DEF FeedInv, Feed!TypeOK, FreshObservation, Traced, ReusableIsCurrent,
         Feed!ReusableIsCurrent, Feed!CaughtUp
<1> QED
  BY <1>1, FeedInvariance, PTL

\* A session is invalidated at most once per change, subscription and broken
\* subscription: closing one, whose read fails as well, is no change
\* (readRoutes, watch_events.go).
THEOREM InvalidationsJustified == RacesSpec => []InvalidationsAreJustified
<1>1. FeedInv => InvalidationsAreJustified
  <2> SUFFICES ASSUME FeedInv PROVE generation <= world + subs + failures
    BY DEF InvalidationsAreJustified, Feed!InvalidationsAreJustified
  <2>1. Owed \in Nat
    BY LastFacts, TermFacts DEF Owed, Terms
  <2> QED
    BY <2>1, LastFacts DEF FeedInv, Paid
<1> QED
  BY <1>1, FeedInvariance, PTL

-----------------------------------------------------------------------------
\* The race of one name's dials, by itself (DialRace's Spec) and beside the others.

Delivered == {d \in Dial : dial[d] = "delivered"}
Queued(d) == \E i \in 1..Len(results) : results[i] = d
Failed(d) == err[d] # "none"

\* Dials start in order, and each is delivered once.
Dials ==
  /\ \A d \in Dial : dial[d] = "unstarted" <=> d > started
  /\ \A d \in Dial : dial[d] \in {"unstarted", "dialing", "connected"} => err[d] = "none"
  /\ \A d \in Dial : dial[d] = "failed" => Failed(d)
  /\ \A i \in 1..Len(results) : dial[results[i]] = "delivered"
  /\ \A i, j \in 1..Len(results) : results[i] = results[j] => i = j

\* What was delivered was received or is still on the channel.
Counted == Cardinality(Delivered) = completed + Len(results)

\* An open connection is held by its goroutine, the channel or the caller.
Owned ==
  /\ \A d \in open : d = winner \/ dial[d] = "connected" \/ (Queued(d) /\ ~Failed(d))
  /\ \A d \in Dial : dial[d] = "connected" \/ (Queued(d) /\ ~Failed(d)) => d \in open
  /\ winner # None => winner \in open /\ winner \in Delivered /\ ~Queued(winner) /\ ~Failed(winner)

\* What was received and failed is recorded.
Recorded == \A d \in Dial : d \in attempts <=> (d \in Delivered /\ ~Queued(d) /\ Failed(d))

\* A dial its context ended is marked aborted.
Marked ==
  /\ \A d \in Dial : err[d] \in Ends => dctx # "live"
  /\ \A d \in Delivered : err[d] \in Ends => aborted[d]

\* What the caller knows of the contexts, and which errors that leaves.
Known ==
  /\ caller = "receiving" => winner = None /\ (dctx # "live" => dctx = ctx)
  /\ caller # "receiving" => dctx # "live"
  /\ caller = "draining" /\ winner = None =>
       /\ ctx # "live" /\ dctx \in {"canceled", ctx}
       /\ \A d \in Dial : err[d] \in {"none", "own", "canceled", ctx}
       /\ \A d \in before : err[d] \in {"own", ctx}
  /\ \A d \in Dial : caller = "receiving" => err[d] \in {"none", "own", dctx}

DialInv ==
  /\ TypeOK /\ Dials /\ Counted /\ Owned /\ Recorded /\ Marked /\ Known
  /\ NothingLeftBehind /\ ExpiryIsNamed

USE NAssumption

-----------------------------------------------------------------------------
\* The channel.

LEMMA QueueTail ==
  ASSUME results \in Seq(Dial), results # <<>>, results' = Tail(results),
         \A i, j \in 1..Len(results) : results[i] = results[j] => i = j
  PROVE  /\ Head(results) \in Dial /\ Queued(Head(results))
         /\ results' \in Seq(Dial) /\ Len(results') = Len(results) - 1
         /\ \A i \in 1..Len(results') : results'[i] = results[i+1] /\ i+1 \in 1..Len(results)
         /\ \A d \in Dial : Queued(d)' <=> (Queued(d) /\ d # Head(results))
         /\ \A i, j \in 1..Len(results') : results'[i] = results'[j] => i = j
<1>1. /\ Head(results) = results[1] /\ Len(results) \in Nat \ {0} /\ results[1] \in Dial
      /\ results' \in Seq(Dial) /\ Len(results') = Len(results) - 1
      /\ \A i \in 1..Len(results') : results'[i] = results[i+1] /\ i+1 \in 1..Len(results)
  OBVIOUS
<1>2. Queued(Head(results))
  BY <1>1 DEF Queued
<1>3. ASSUME NEW d \in Dial PROVE Queued(d)' => (Queued(d) /\ d # Head(results))
  <2>1. SUFFICES ASSUME NEW i \in 1..Len(results'), results'[i] = d PROVE Queued(d) /\ d # results[1]
    BY <1>1 DEF Queued
  <2>2. results[i+1] = d /\ i+1 \in 1..Len(results) /\ 1 \in 1..Len(results) /\ i + 1 # 1
    BY <1>1, <2>1
  <2> QED BY <2>2 DEF Queued
<1>4. ASSUME NEW d \in Dial, Queued(d), d # Head(results) PROVE Queued(d)'
  <2>1. PICK i \in 1..Len(results) : results[i] = d
    BY <1>4 DEF Queued
  <2>2. i # 1 /\ i-1 \in 1..Len(results') /\ results'[i-1] = results[(i-1)+1] /\ (i-1)+1 = i
    BY <1>1, <2>1, <1>4
  <2> QED BY <2>1, <2>2 DEF Queued
<1>5. ASSUME NEW i \in 1..Len(results'), NEW j \in 1..Len(results'), results'[i] = results'[j] PROVE i = j
  <2>1. results[i+1] = results[j+1] /\ i+1 \in 1..Len(results) /\ j+1 \in 1..Len(results)
    BY <1>1, <1>5
  <2>2. i+1 = j+1
    BY <2>1
  <2> QED BY <2>2, <1>1
<1> QED BY <1>1, <1>2, <1>3, <1>4, <1>5

LEMMA QueueAppend ==
  ASSUME NEW d \in Dial, results \in Seq(Dial), results' = Append(results, d)
  PROVE  /\ results' \in Seq(Dial) /\ Len(results') = Len(results) + 1 /\ Len(results) \in Nat
         /\ \A i \in 1..Len(results) : results'[i] = results[i]
         /\ results'[Len(results) + 1] = d
         /\ \A e \in Dial : Queued(e)' <=> (Queued(e) \/ e = d)
<1>1. /\ results' \in Seq(Dial) /\ Len(results') = Len(results) + 1 /\ Len(results) \in Nat
      /\ \A i \in 1..Len(results) : results'[i] = results[i]
      /\ results'[Len(results) + 1] = d
  OBVIOUS
<1>2. ASSUME NEW e \in Dial PROVE Queued(e)' => (Queued(e) \/ e = d)
  <2>1. SUFFICES ASSUME NEW i \in 1..Len(results'), results'[i] = e PROVE Queued(e) \/ e = d
    BY <1>1 DEF Queued
  <2>2. i \in 1..Len(results) \/ i = Len(results) + 1
    BY <1>1
  <2> QED BY <1>1, <2>1, <2>2 DEF Queued
<1>3. ASSUME NEW e \in Dial PROVE (Queued(e) \/ e = d) => Queued(e)'
  <2>1. CASE e = d
    <3>1. Len(results) + 1 \in 1..Len(results')
      BY <1>1
    <3> QED BY <1>1, <2>1, <3>1 DEF Queued
  <2>2. CASE Queued(e)
    <3>1. PICK i \in 1..Len(results) : results[i] = e
      BY <2>2 DEF Queued
    <3>2. i \in 1..Len(results') /\ results'[i] = e
      BY <1>1, <3>1
    <3> QED BY <3>2 DEF Queued
  <2> QED BY <2>1, <2>2
<1> QED BY <1>1, <1>2, <1>3

\* The caller has received no more than was delivered, nor has more been
\* delivered than was started.
LEMMA Bounds ==
  ASSUME TypeOK, Dials, Counted
  PROVE  /\ IsFiniteSet(Delivered) /\ Delivered \subseteq 1..started
         /\ completed + Len(results) <= started
<1>1. Delivered \subseteq 1..started
  BY DEF Delivered, Dials, TypeOK, Dial
<1>2. IsFiniteSet(1..started) /\ Cardinality(1..started) = started
  BY FS_Interval DEF TypeOK
<1>3. IsFiniteSet(Delivered) /\ Cardinality(Delivered) <= started
  BY <1>1, <1>2, FS_Subset
<1> QED BY <1>1, <1>3 DEF Counted

\* Once everything started was received, nothing is under way.
LEMMA AllIn ==
  ASSUME TypeOK, Dials, Counted, completed = started
  PROVE  /\ results = <<>>
         /\ \A d \in Dial : dial[d] \in {"unstarted", "delivered"}
<1>1. /\ IsFiniteSet(Delivered) /\ Delivered \subseteq 1..started
      /\ completed + Len(results) <= started
  BY Bounds
<1>2. Len(results) = 0
  BY <1>1 DEF TypeOK
<1>3. results = <<>>
  BY <1>2 DEF TypeOK
<1>4. Cardinality(Delivered) = started
  BY <1>2 DEF Counted, TypeOK
<1>5. IsFiniteSet(1..started) /\ Cardinality(1..started) = started
  BY FS_Interval DEF TypeOK
<1>6. Delivered = 1..started
  BY <1>1, <1>4, <1>5, FS_Subset
<1>7. ASSUME NEW d \in Dial PROVE dial[d] \in {"unstarted", "delivered"}
  <2>1. CASE d > started
    BY <2>1 DEF Dials
  <2>2. CASE ~(d > started)
    <3>1. d \in 1..started
      BY <2>2 DEF Dial, TypeOK
    <3> QED BY <3>1, <1>6 DEF Delivered
  <2> QED BY <2>1, <2>2
<1> QED BY <1>3, <1>7

-----------------------------------------------------------------------------
\* One lemma per action.

LEMMA DialInit == Init => DialInv
<1> SUFFICES ASSUME Init PROVE DialInv
  OBVIOUS
<1>1. TypeOK
  <2>1. results \in Seq(Dial) /\ Len(results) = 0
    BY DEF Init
  <2>2. {ctx, dctx} \subseteq {"live"} \cup Ends /\ started \in 0..N /\ completed \in 0..started
    BY DEF Init
  <2>3. /\ dial \in [Dial -> {"unstarted", "dialing", "connected", "failed", "delivered"}]
        /\ err \in [Dial -> {"none", "own"} \cup Ends] /\ aborted \in [Dial -> BOOLEAN]
    BY DEF Init
  <2>4. open \subseteq Dial /\ attempts \subseteq Dial /\ before \subseteq attempts /\ winner \in Dial \cup {None}
    BY DEF Init, None
  <2>5. Len(results) <= N
    BY <2>1 DEF NAssumption
  <2>6. scheduled \in BOOLEAN /\ caller \in {"receiving", "draining", "returned"}
    BY DEF Init
  <2> QED BY <2>1, <2>2, <2>3, <2>4, <2>5, <2>6 DEF TypeOK
<1>2. Delivered = {}
  BY DEF Init, Delivered
<1>3. Counted
  BY <1>2, FS_EmptySet DEF Counted, Init
<1>4. Dials
  BY DEF Init, Dials, Failed, Dial
<1>6. Owned /\ Recorded
  <2>1. \A d \in Dial : ~Queued(d) /\ dial[d] = "unstarted"
    BY DEF Init, Queued
  <2> QED BY <1>2, <2>1 DEF Init, Owned, Recorded
<1>7. Marked /\ Known
  BY <1>2 DEF Init, Marked, Known, Ends
<1>5. NothingLeftBehind /\ ExpiryIsNamed
  BY DEF Init, NothingLeftBehind, ExpiryIsNamed
<1> QED BY <1>1, <1>3, <1>4, <1>5, <1>6, <1>7 DEF DialInv

LEMMA StutterStep == DialInv /\ UNCHANGED vars => DialInv'
BY DEF vars, schedVars, callerVars, DialInv, TypeOK, Dials, Counted, Owned, Recorded, Marked, Known,
       NothingLeftBehind, ExpiryIsNamed, Delivered, Queued, Failed

\* The contexts are no one's property but what Known says of them.
LEMMA ContextStep == DialInv /\ (ContextEnds \/ Propagate) => DialInv'
<1> SUFFICES ASSUME DialInv, ContextEnds \/ Propagate PROVE DialInv'
  OBVIOUS
<1>1. /\ UNCHANGED <<schedVars, dial, err, aborted, results, open, callerVars>>
      /\ ctx' \in {"live"} \cup Ends /\ dctx' \in {"live"} \cup Ends
      /\ ctx # "live" => ctx' = ctx
      /\ dctx # "live" => dctx' = dctx
      /\ dctx' # "live" /\ dctx = "live" => dctx' = ctx /\ ctx' = ctx
      /\ caller = "returned" => ctx' = ctx
  BY DEF ContextEnds, Propagate, DialInv, TypeOK, Ends
<1>2. TypeOK'
  BY <1>1 DEF DialInv, TypeOK, schedVars, callerVars
<1>3. (Dials /\ Counted /\ Owned /\ Recorded /\ NothingLeftBehind)'
  BY <1>1 DEF DialInv, Dials, Counted, Owned, Recorded, NothingLeftBehind, Delivered, Queued,
     Failed, schedVars, callerVars
<1>4. Marked'
  BY <1>1 DEF DialInv, Marked, Delivered, schedVars, callerVars
<1>5. Known'
  BY <1>1 DEF DialInv, Known, TypeOK, schedVars, callerVars, Ends
<1>6. ExpiryIsNamed'
  BY <1>1 DEF DialInv, ExpiryIsNamed, schedVars, callerVars
<1> QED BY <1>2, <1>3, <1>4, <1>5, <1>6 DEF DialInv

LEMMA SchedulingStep == DialInv /\ Scheduling => DialInv'
<1> SUFFICES ASSUME DialInv, Scheduling PROVE DialInv'
  OBVIOUS
<1>1. CASE SchedulingEnds
  <2>1. UNCHANGED <<ctx, dctx, started, dial, err, aborted, results, open, callerVars>> /\ scheduled' = TRUE
    BY <1>1 DEF SchedulingEnds
  <2> QED BY <2>1 DEF callerVars, DialInv, TypeOK, Dials, Counted, Owned, Recorded, Marked, Known,
       NothingLeftBehind, ExpiryIsNamed, Delivered, Queued, Failed
<1>2. CASE Start
  <2> DEFINE s == started + 1
  <2>1. /\ UNCHANGED <<ctx, dctx, scheduled, err, aborted, results, open, callerVars>>
        /\ ~scheduled /\ dctx = "live" /\ started' = s /\ s \in Dial
        /\ dial' = [dial EXCEPT ![s] = "dialing"]
    BY <1>2 DEF Start, DialInv, TypeOK, Dial
  <2>2. dial[s] = "unstarted" /\ err[s] = "none"
    BY <2>1 DEF DialInv, Dials, Dial, TypeOK
  <2>3. \A d \in Dial : dial'[d] = IF d = s THEN "dialing" ELSE dial[d]
    BY <2>1 DEF DialInv, TypeOK
  <2>4. Delivered' = Delivered
    BY <2>2, <2>3, <2>1 DEF Delivered
  <2>5. TypeOK'
    BY <2>1 DEF DialInv, TypeOK, callerVars, Dial
  <2>6. Dials'
    <3>1. \A d \in Dial : dial'[d] = "unstarted" <=> d > started'
      BY <2>1, <2>3 DEF DialInv, Dials, TypeOK, Dial
    <3>2. \A i \in 1..Len(results) : results[i] \in Dial
      BY DEF DialInv, TypeOK
    <3> QED BY <2>1, <2>2, <2>3, <3>1, <3>2 DEF DialInv, Dials, Failed
  <2>7. (Counted /\ Recorded /\ Marked)'
    BY <2>1, <2>4 DEF DialInv, Counted, Recorded, Marked, Queued, Failed, callerVars
  <2>8. Owned'
    BY <2>1, <2>2, <2>3, <2>4 DEF DialInv, Owned, Queued, Failed, callerVars, TypeOK
  <2>9. (Known /\ ExpiryIsNamed)'
    BY <2>1 DEF DialInv, Known, ExpiryIsNamed, callerVars
  <2>10. NothingLeftBehind'
    BY <2>1 DEF DialInv, NothingLeftBehind, callerVars
  <2> QED BY <2>5, <2>6, <2>7, <2>8, <2>9, <2>10 DEF DialInv
<1> QED BY <1>1, <1>2 DEF Scheduling

LEMMA DialingStep == ASSUME DialInv, NEW d \in Dial, Connects(d) \/ Fails(d) PROVE DialInv'
<1>1. /\ UNCHANGED <<ctx, dctx, schedVars, aborted, results, callerVars>>
      /\ dial[d] = "dialing" /\ d <= started
      /\ \/ /\ dial' = [dial EXCEPT ![d] = "connected"] /\ open' = open \cup {d} /\ err' = err
         \/ /\ dial' = [dial EXCEPT ![d] = "failed"] /\ open' = open
            /\ \E e \in ({"own", dctx} \ {"live"}) : err' = [err EXCEPT ![d] = e]
  BY DEF Connects, Fails, DialInv, Dials, TypeOK, Dial
<1>2. caller # "returned"
  BY <1>1 DEF DialInv, NothingLeftBehind
<1>3. /\ \A c \in Dial \ {d} : dial'[c] = dial[c] /\ err'[c] = err[c]
      /\ dial'[d] \in {"connected", "failed"} /\ err[d] = "none"
      /\ dial'[d] = "connected" => err'[d] = "none" /\ d \in open'
      /\ dial'[d] = "failed" => err'[d] \in {"own", dctx} \ {"live"} /\ err'[d] # "none"
      /\ open \subseteq open' /\ \A c \in open' : c \in open \/ (c = d /\ dial'[d] = "connected")
  BY <1>1 DEF DialInv, TypeOK, Dials, Ends
<1>4. TypeOK'
  BY <1>1 DEF DialInv, TypeOK, schedVars, callerVars, Ends
<1>5. Delivered' = Delivered /\ d \notin Delivered /\ ~Queued(d) /\ \A c \in Dial : Queued(c)' <=> Queued(c)
  BY <1>1, <1>3 DEF Delivered, Queued, DialInv, Dials
<1>6. Dials'
  <2>1. \A i \in 1..Len(results) : results[i] \in Dial /\ results[i] # d
    BY <1>1 DEF DialInv, TypeOK, Dials
  <2> QED BY <1>1, <1>3, <2>1 DEF DialInv, Dials, Failed, schedVars, TypeOK, Dial
<1>7. (Counted /\ Recorded)'
  BY <1>1, <1>3, <1>5 DEF DialInv, Counted, Recorded, Failed, callerVars
<1>8. Marked'
  BY <1>1, <1>3, <1>5 DEF DialInv, Marked, Ends, Delivered
<1>9. Owned'
  <2>1. d # winner
    BY <1>5 DEF DialInv, Owned, None, Dial
  <2> QED BY <1>1, <1>3, <1>5, <2>1 DEF DialInv, Owned, Failed, callerVars, TypeOK
<1>10. Known'
  <2>1. caller = "draining" /\ winner = None => d \notin before
    BY <1>5 DEF DialInv, TypeOK, Recorded
  <2> QED BY <1>1, <1>3, <2>1 DEF DialInv, Known, callerVars, TypeOK, Ends
<1>11. (NothingLeftBehind /\ ExpiryIsNamed)'
  BY <1>1, <1>2 DEF NothingLeftBehind, ExpiryIsNamed, callerVars
<1> QED BY <1>4, <1>6, <1>7, <1>8, <1>9, <1>10, <1>11 DEF DialInv

LEMMA DeliverStep == ASSUME DialInv, NEW d \in Dial, Deliver(d) PROVE DialInv'
<1>1. /\ UNCHANGED <<ctx, dctx, schedVars, err, open, callerVars>>
      /\ dial[d] \in {"connected", "failed"} /\ d <= started
      /\ dial' = [dial EXCEPT ![d] = "delivered"]
      /\ aborted' = [aborted EXCEPT ![d] = (dial[d] = "failed" /\ dctx # "live")]
      /\ results' = Append(results, d)
  BY DEF Deliver, DialInv, Dials, TypeOK, Dial
<1>2. caller # "returned"
  BY <1>1 DEF DialInv, NothingLeftBehind
<1>3. /\ results' \in Seq(Dial) /\ Len(results') = Len(results) + 1 /\ Len(results) \in Nat
      /\ \A i \in 1..Len(results) : results'[i] = results[i]
      /\ results'[Len(results) + 1] = d
      /\ \A e \in Dial : Queued(e)' <=> (Queued(e) \/ e = d)
  BY <1>1, QueueAppend DEF DialInv, TypeOK
<1>4. /\ \A c \in Dial : dial'[c] = IF c = d THEN "delivered" ELSE dial[c]
      /\ Delivered' = Delivered \cup {d} /\ d \notin Delivered /\ ~Queued(d)
  BY <1>1 DEF DialInv, TypeOK, Delivered, Dials, Queued
<1>5. Dials'
  <2>1. \A i \in 1..Len(results) : results[i] \in Dial /\ results[i] # d
    BY <1>1 DEF DialInv, TypeOK, Dials
  <2>2. \A i \in 1..Len(results') : i \in 1..Len(results) \/ i = Len(results) + 1
    BY <1>3
  <2>3. \A i \in 1..Len(results') : dial'[results'[i]] = "delivered"
    BY <1>3, <1>4, <2>1, <2>2 DEF DialInv, Dials
  <2>4. ASSUME NEW i \in 1..Len(results'), NEW j \in 1..Len(results'), results'[i] = results'[j] PROVE i = j
    <3>1. CASE i \in 1..Len(results) /\ j \in 1..Len(results)
      BY <3>1, <2>4, <1>3 DEF DialInv, Dials
    <3>2. CASE i = Len(results) + 1 \/ j = Len(results) + 1
      BY <3>2, <2>4, <1>3, <2>1, <2>2
    <3> QED BY <3>1, <3>2, <2>2
  <2>5. /\ \A c \in Dial : dial'[c] = "unstarted" <=> c > started'
        /\ \A c \in Dial : dial'[c] \in {"unstarted", "dialing", "connected"} => err'[c] = "none"
        /\ \A c \in Dial : dial'[c] = "failed" => Failed(c)'
    BY <1>1, <1>4 DEF DialInv, Dials, Failed, schedVars, TypeOK, Dial
  <2> QED BY <2>3, <2>4, <2>5 DEF Dials
<1>6. Counted'
  <2>1. Cardinality(Delivered') = Cardinality(Delivered) + 1 /\ Cardinality(Delivered) \in Nat
    BY <1>4, Bounds, FS_AddElement, FS_CardinalityType DEF DialInv
  <2> QED BY <2>1, <1>1, <1>3 DEF DialInv, Counted, callerVars, TypeOK
<1>7. TypeOK'
  <2>1. Cardinality(Delivered') = completed' + Len(results')
    BY <1>6 DEF Counted
  <2>2. IsFiniteSet(1..N) /\ Cardinality(1..N) = N /\ Delivered' \subseteq 1..N
    BY FS_Interval DEF Delivered, Dial
  <2>3. Cardinality(Delivered') <= N
    BY <2>2, FS_Subset
  <2>4. Len(results') <= N
    BY <2>1, <2>3, <1>1, <1>3 DEF DialInv, TypeOK, callerVars
  <2> QED BY <1>1, <1>3, <2>4 DEF DialInv, TypeOK, schedVars, callerVars
<1>8. Recorded'
  BY <1>1, <1>3, <1>4 DEF DialInv, Recorded, Failed, callerVars
<1>9. Marked'
  <2>1. dial[d] = "connected" => err[d] = "none"
    BY DEF DialInv, Dials
  <2>2. err[d] \in Ends => aborted'[d]
    BY <1>1, <2>1 DEF DialInv, Marked, TypeOK, Ends
  <2>3. \A c \in Dial \ {d} : aborted'[c] = aborted[c]
    BY <1>1 DEF DialInv, TypeOK
  <2>4. \A c \in Delivered' : c \in Dial /\ (c = d \/ c \in Delivered)
    BY <1>4 DEF Delivered
  <2> QED BY <1>1, <2>2, <2>3, <2>4 DEF DialInv, Marked
<1>10. Owned'
  <2>1. winner # d
    BY <1>4 DEF DialInv, Owned, None, Dial
  <2>2. dial[d] = "connected" => ~Failed(d)
    BY DEF DialInv, Dials, Failed
  <2>3. \A c \in open : c \in Dial
    BY DEF DialInv, TypeOK
  <2>4. d \in open => dial[d] = "connected"
    BY <2>1, <1>4 DEF DialInv, Owned
  <2>5. winner # None => winner \in Dial
    BY DEF DialInv, TypeOK
  <2>6. /\ \A c \in Dial : Failed(c)' <=> Failed(c)
        /\ \A c \in Dial \ {d} : dial'[c] = dial[c]
        /\ winner' = winner /\ open' = open
    BY <1>1 DEF Failed, DialInv, TypeOK, callerVars
  <2>7. dial'[d] = "delivered" /\ ~Queued(d)
    BY <1>1, <1>4 DEF DialInv, TypeOK, Dials, Queued
  <2>8. d \in open <=> ~Failed(d)
    BY <1>1, <2>2, <2>4 DEF DialInv, Owned, Dials
  <2> QED BY <1>3, <1>4, <2>1, <2>3, <2>5, <2>6, <2>7, <2>8 DEF DialInv, Owned
<1>11. (Known /\ NothingLeftBehind /\ ExpiryIsNamed)'
  BY <1>1, <1>2 DEF DialInv, Known, NothingLeftBehind, ExpiryIsNamed, callerVars
<1> QED BY <1>5, <1>6, <1>7, <1>8, <1>9, <1>10, <1>11 DEF DialInv

\* What taking a result from the channel leaves of the invariant, whatever the
\* caller makes of it.
LEMMA Taken ==
  ASSUME DialInv, Take, UNCHANGED <<started, dial, err>>
  PROVE  /\ Head(results) \in Dial /\ Head(results) \in Delivered /\ Queued(Head(results))
         /\ results' \in Seq(Dial) /\ Len(results') <= N
         /\ completed' \in 0..started /\ completed' = completed + 1
         /\ \A d \in Dial : Queued(d)' <=> (Queued(d) /\ d # Head(results))
         /\ Delivered' = Delivered
         /\ Dials' /\ Counted'
<1>1. /\ results \in Seq(Dial) /\ results # <<>> /\ results' = Tail(results)
      /\ completed' = completed + 1
      /\ \A i, j \in 1..Len(results) : results[i] = results[j] => i = j
  BY DEF Take, DialInv, TypeOK, Dials
<1>2. /\ Head(results) \in Dial /\ Queued(Head(results))
      /\ results' \in Seq(Dial) /\ Len(results') = Len(results) - 1
      /\ \A i \in 1..Len(results') : results'[i] = results[i+1] /\ i+1 \in 1..Len(results)
      /\ \A d \in Dial : Queued(d)' <=> (Queued(d) /\ d # Head(results))
      /\ \A i, j \in 1..Len(results') : results'[i] = results'[j] => i = j
  BY <1>1, QueueTail
<1>3. Head(results) \in Delivered
  BY <1>2 DEF DialInv, Dials, Delivered, Queued
<1>4. Delivered' = Delivered
  BY DEF Delivered
<1>5. Len(results) \in Nat \ {0} /\ completed + Len(results) <= started
  BY <1>1, Bounds DEF DialInv
<1>6. completed' \in 0..started /\ Len(results') <= N
  BY <1>1, <1>2, <1>5 DEF DialInv, TypeOK
<1>7. Dials'
  BY <1>2 DEF DialInv, Dials, Failed
<1>8. Counted'
  BY <1>1, <1>2, <1>4, <1>5 DEF DialInv, Counted, TypeOK
<1> QED BY <1>1, <1>2, <1>3, <1>4, <1>6, <1>7, <1>8

LEMMA ReceiveFailureStep == DialInv /\ ReceiveFailure => DialInv'
<1> SUFFICES ASSUME DialInv, ReceiveFailure PROVE DialInv'
  OBVIOUS
<1> DEFINE h == Head(results)
<1>1. /\ UNCHANGED <<ctx, dctx, schedVars, dial, err, aborted, open, caller, before, winner>>
      /\ caller = "receiving" /\ Take /\ Failed(h) /\ attempts' = attempts \cup {h}
  BY DEF ReceiveFailure, Receiving, Failed
<1>2. /\ h \in Dial /\ h \in Delivered /\ Queued(h)
      /\ results' \in Seq(Dial) /\ Len(results') <= N
      /\ completed' \in 0..started
      /\ \A d \in Dial : Queued(d)' <=> (Queued(d) /\ d # h)
      /\ Delivered' = Delivered /\ Dials' /\ Counted'
  BY <1>1, Taken DEF schedVars
<1>3. TypeOK'
  BY <1>1, <1>2 DEF DialInv, TypeOK, schedVars
<1>4. Recorded'
  BY <1>1, <1>2 DEF DialInv, Recorded, Failed
<1>5. Owned'
  BY <1>1, <1>2 DEF DialInv, Owned, Failed, Known, TypeOK
<1>6. (Marked /\ Known)'
  BY <1>1, <1>2 DEF DialInv, Marked, Known
<1>7. (NothingLeftBehind /\ ExpiryIsNamed)'
  BY <1>1 DEF NothingLeftBehind, ExpiryIsNamed
<1> QED BY <1>2, <1>3, <1>4, <1>5, <1>6, <1>7 DEF DialInv

LEMMA ReceiveWinnerStep == DialInv /\ ReceiveWinner => DialInv'
<1> SUFFICES ASSUME DialInv, ReceiveWinner PROVE DialInv'
  OBVIOUS
<1> DEFINE h == Head(results)
<1>1. /\ UNCHANGED <<ctx, schedVars, dial, err, aborted, open, attempts, before>>
      /\ caller = "receiving" /\ Take /\ ~Failed(h) /\ winner' = h /\ caller' = "draining"
      /\ dctx' \in Ends /\ winner = None
  BY DEF ReceiveWinner, Receiving, Failed, Cancel, DialInv, TypeOK, Known, Ends
<1>2. /\ h \in Dial /\ h \in Delivered /\ Queued(h)
      /\ results' \in Seq(Dial) /\ Len(results') <= N
      /\ completed' \in 0..started
      /\ \A d \in Dial : Queued(d)' <=> (Queued(d) /\ d # h)
      /\ Delivered' = Delivered /\ Dials' /\ Counted'
  BY <1>1, Taken DEF schedVars
<1>3. TypeOK' /\ h # None
  BY <1>1, <1>2 DEF DialInv, TypeOK, schedVars, Dial, None
<1>4. Recorded'
  BY <1>1, <1>2 DEF DialInv, Recorded, Failed
<1>5. Owned'
  <2>1. \A d \in open : d \in Dial
    BY DEF DialInv, TypeOK
  <2>2. \A d \in Dial : d \in open <=> dial[d] = "connected" \/ (Queued(d) /\ ~Failed(d))
    BY <1>1, <2>1 DEF DialInv, Owned, None, Dial
  <2>3. \A d \in Dial : Failed(d)' <=> Failed(d)
    BY <1>1 DEF Failed
  <2>4. h \in open /\ h \in Delivered' /\ \A d \in Dial : d = h => ~Queued(d)'
    BY <1>1, <1>2, <2>2
  <2> QED BY <1>1, <1>2, <2>1, <2>2, <2>3, <2>4 DEF Owned
<1>6. (Marked /\ Known)'
  BY <1>1, <1>2, <1>3 DEF DialInv, Marked, Known, Ends
<1>7. (NothingLeftBehind /\ ExpiryIsNamed)'
  BY <1>1 DEF NothingLeftBehind, ExpiryIsNamed
<1> QED BY <1>2, <1>3, <1>4, <1>5, <1>6, <1>7 DEF DialInv

LEMMA SeesContextEndStep == DialInv /\ SeesContextEnd => DialInv'
<1> SUFFICES ASSUME DialInv, SeesContextEnd PROVE DialInv'
  OBVIOUS
<1>1. /\ UNCHANGED <<ctx, schedVars, dial, err, aborted, results, open, completed, attempts, winner>>
      /\ caller = "receiving" /\ ctx # "live" /\ before' = attempts /\ caller' = "draining"
      /\ dctx' \in {"canceled", ctx} /\ dctx' \in Ends /\ winner = None /\ (dctx # "live" => dctx' = ctx)
  BY DEF SeesContextEnd, Receiving, Cancel, DialInv, TypeOK, Known, Ends
<1>2. TypeOK'
  BY <1>1 DEF DialInv, TypeOK, schedVars
<1>3. (Dials /\ Counted /\ Recorded /\ Owned)'
  BY <1>1 DEF DialInv, Dials, Counted, Recorded, Owned, Delivered, Queued, Failed, schedVars
<1>4. Marked'
  BY <1>1 DEF DialInv, Marked, Delivered, Ends
<1>5. Known'
  <2>1. \A d \in Dial : err[d] \in {"none", "own", ctx}
    BY <1>1 DEF DialInv, Known, TypeOK, Ends
  <2>2. \A d \in attempts : d \in Dial /\ err[d] # "none"
    BY DEF DialInv, TypeOK, Recorded, Failed
  <2> QED BY <1>1, <2>1, <2>2 DEF Known, Ends
<1>6. (NothingLeftBehind /\ ExpiryIsNamed)'
  BY <1>1 DEF NothingLeftBehind, ExpiryIsNamed
<1> QED BY <1>2, <1>3, <1>4, <1>5, <1>6 DEF DialInv

LEMMA DrainStep == DialInv /\ Drain => DialInv'
<1> SUFFICES ASSUME DialInv, Drain PROVE DialInv'
  OBVIOUS
<1> DEFINE h == Head(results)
<1>1. /\ UNCHANGED <<ctx, dctx, schedVars, dial, err, aborted, caller, before, winner>>
      /\ caller = "draining" /\ Take /\ open' = open \ {h}
      /\ attempts' = IF Failed(h) THEN attempts \cup {h} ELSE attempts
  BY DEF Drain, Failed
<1>2. /\ h \in Dial /\ h \in Delivered /\ Queued(h)
      /\ results' \in Seq(Dial) /\ Len(results') <= N
      /\ completed' \in 0..started
      /\ \A d \in Dial : Queued(d)' <=> (Queued(d) /\ d # h)
      /\ Delivered' = Delivered /\ Dials' /\ Counted'
  BY <1>1, Taken DEF schedVars
<1>3. TypeOK'
  BY <1>1, <1>2 DEF DialInv, TypeOK, schedVars
<1>4. Recorded'
  BY <1>1, <1>2 DEF DialInv, Recorded, Failed
<1>5. Owned'
  <2>1. \A d \in open : d \in Dial
    BY DEF DialInv, TypeOK
  <2>2. h # winner /\ dial[h] # "connected" /\ (winner # None => winner \in Dial)
    BY <1>2 DEF DialInv, Owned, Delivered, TypeOK, None, Dial
  <2>3. \A d \in Dial : Failed(d)' <=> Failed(d)
    BY <1>1 DEF Failed
  <2> QED BY <1>1, <1>2, <2>1, <2>2, <2>3 DEF DialInv, Owned
<1>6. (Marked /\ Known)'
  BY <1>1, <1>2 DEF DialInv, Marked, Known
<1>7. (NothingLeftBehind /\ ExpiryIsNamed)'
  BY <1>1 DEF NothingLeftBehind, ExpiryIsNamed
<1> QED BY <1>2, <1>3, <1>4, <1>5, <1>6, <1>7 DEF DialInv

\* Whichever way the caller returns, it has received all that was started.
LEMMA ReturnStep == DialInv /\ (ReturnWinner \/ ReturnCutShort \/ ReturnNothing) => DialInv'
<1> SUFFICES ASSUME DialInv, ReturnWinner \/ ReturnCutShort \/ ReturnNothing PROVE DialInv'
  OBVIOUS
<1>1. /\ UNCHANGED <<ctx, schedVars, dial, results, open, completed, attempts, before, winner>>
      /\ caller' = "returned" /\ caller # "returned" /\ scheduled /\ completed = started
      /\ dctx' \in Ends
      /\ \A d \in Dial : (err'[d] \in Ends <=> err[d] \in Ends) /\ (err[d] \notin Ends => err'[d] = err[d])
      /\ \A d \in Dial : aborted[d] => aborted'[d]
      /\ err' \in [Dial -> {"none", "own"} \cup Ends] /\ aborted' \in [Dial -> BOOLEAN]
  <2>1. CASE ReturnWinner
    BY <2>1 DEF ReturnWinner, DialInv, TypeOK, Known, Ends
  <2>2. CASE ReturnCutShort
    <3>1. ctx \in Ends /\ winner = None /\ caller = "draining" /\ dctx \in Ends
      BY <2>2 DEF ReturnCutShort, DialInv, TypeOK, Known, Ends
    <3> QED BY <2>2, <3>1 DEF ReturnCutShort, DialInv, TypeOK, Ends
  <2>3. CASE ReturnNothing
    <3>1. completed = started
      BY <2>3 DEF ReturnNothing, DialInv, TypeOK
    <3> QED BY <2>3, <3>1 DEF ReturnNothing, Cancel, DialInv, TypeOK, Ends
  <2> QED BY <2>1, <2>2, <2>3
<1>2. results = <<>> /\ \A d \in Dial : dial[d] \in {"unstarted", "delivered"}
  BY <1>1, AllIn DEF DialInv
<1>3. \A d \in Dial : ~Queued(d)
  BY <1>2 DEF Queued
<1>4. \A d \in Dial : Failed(d)' <=> Failed(d)
  BY <1>1 DEF Failed, Ends
<1>5. Delivered' = Delivered /\ \A d \in Dial : Queued(d)' <=> Queued(d)
  BY <1>1 DEF Delivered, Queued
<1>6. TypeOK'
  BY <1>1 DEF DialInv, TypeOK, schedVars
<1>7. Dials'
  <2>1. Len(results) = 0
    BY <1>2
  <2> QED BY <1>1, <1>2, <1>4, <2>1 DEF DialInv, Dials, schedVars, Failed
<1>8. Counted'
  BY <1>1, <1>5 DEF DialInv, Counted
<1>9. Owned'
  BY <1>1, <1>4, <1>5 DEF DialInv, Owned, TypeOK
<1>10. Recorded'
  BY <1>1, <1>4, <1>5 DEF DialInv, Recorded
<1>11. (Marked /\ Known)'
  BY <1>1, <1>5 DEF DialInv, Marked, Known, Delivered, Ends
<1>12. NothingLeftBehind'
  <2>1. open \subseteq {winner}
    <3>1. \A d \in open : d \in Dial
      BY DEF DialInv, TypeOK
    <3> QED BY <3>1, <1>2, <1>3 DEF DialInv, Owned
  <2>2. winner # None => winner \in open
    BY DEF DialInv, Owned
  <2>3. None \notin open
    BY DEF DialInv, TypeOK, None, Dial
  <2> QED BY <1>1, <1>2, <2>1, <2>2, <2>3 DEF NothingLeftBehind, schedVars
<1>13. ExpiryIsNamed'
  <2>1. \A d \in attempts : d \in Dial /\ err[d] # "none"
    BY DEF DialInv, TypeOK, Recorded, Failed
  <2>2. CASE ReturnWinner
    BY <2>2, <1>1 DEF ReturnWinner, ExpiryIsNamed
  <2>3. CASE ReturnNothing
    BY <2>3, <2>1, <1>1 DEF ReturnNothing, ExpiryIsNamed, DialInv, Known, TypeOK, Ends
  <2>4. CASE ReturnCutShort
    <3>1. \A d \in Dial : err'[d] = IF d \in attempts \ before /\ err[d] = "canceled" THEN ctx ELSE err[d]
      BY <2>4 DEF ReturnCutShort
    <3>2. /\ \A d \in Dial : err[d] \in {"none", "own", "canceled", ctx}
          /\ \A d \in before : err[d] \in {"own", ctx}
      BY <2>4 DEF ReturnCutShort, DialInv, Known
    <3> QED BY <1>1, <2>1, <3>1, <3>2 DEF ExpiryIsNamed
  <2> QED BY <2>2, <2>3, <2>4
<1> QED BY <1>6, <1>7, <1>8, <1>9, <1>10, <1>11, <1>12, <1>13 DEF DialInv

-----------------------------------------------------------------------------
\* The theorems.

\* Every race of dials keeps the inductive invariant, on its own and beside the others.
LEMMA DialKept == DialInv /\ [Next]_vars => DialInv'
<1> SUFFICES ASSUME DialInv, [Next]_vars PROVE DialInv'
  OBVIOUS
<1>1. CASE ContextEnds \/ Propagate
  BY <1>1, ContextStep
<1>2. CASE Scheduling
  BY <1>2, SchedulingStep
<1>3. CASE \E d \in Dial : DialStep(d)
  BY <1>3, DialingStep, DeliverStep DEF DialStep
<1>4. CASE Caller
  BY <1>4, ReceiveFailureStep, ReceiveWinnerStep, SeesContextEndStep, DrainStep, ReturnStep DEF Caller
<1>5. CASE Returned \/ UNCHANGED vars
  BY <1>5, StutterStep DEF Returned
<1> QED BY <1>1, <1>2, <1>3, <1>4, <1>5 DEF Next

THEOREM DialInvariance == Spec => []DialInv
  BY DialInit, DialKept, PTL DEF Spec

THEOREM DialInRaces == RacesSpec => []DialInv
<1>1. InitRaces => DialInv
  BY DialInit DEF InitRaces
<1>2. DialInv /\ [NextRaces]_raceVars => DialInv'
  <2> SUFFICES ASSUME DialInv, [NextRaces]_raceVars PROVE DialInv'
    OBVIOUS
  <2>1. [Next]_dialVars
    BY Moves
  <2>2. [Next]_vars
    BY <2>1 DEF dialVars, vars, schedVars, callerVars
  <2> QED
    BY <2>2, DialKept
<1> QED
  BY <1>1, <1>2, PTL DEF RacesSpec

\* The variables of a race stay in their types: no more is received than was
\* started, and the channel never holds more than it was made for.
THEOREM TypeCorrect == Spec \/ RacesSpec => []TypeOK
<1>1. DialInv => TypeOK
  BY DEF DialInv
<1> QED BY DialInvariance, DialInRaces, <1>1, PTL

\* When dialIPs returns, no goroutine, no result and no connection but the one
\* it returns is left behind.
THEOREM LeavesNothing == Spec \/ RacesSpec => []NothingLeftBehind
<1>1. DialInv => NothingLeftBehind
  BY DEF DialInv
<1> QED BY DialInvariance, DialInRaces, <1>1, PTL

\* Every dial that was started and failed is among the attempts returned.
THEOREM ReportsAll == Spec \/ RacesSpec => []EveryFailureIsReported
<1>1. DialInv => EveryFailureIsReported
  <2> SUFFICES ASSUME DialInv, caller = "returned"
               PROVE  attempts = {d \in Dial : dial[d] # "unstarted" /\ err[d] # "none"}
    BY DEF EveryFailureIsReported
  <2>1. results = <<>> /\ \A d \in Dial : dial[d] \in {"unstarted", "delivered"}
    BY DEF DialInv, NothingLeftBehind
  <2>2. \A d \in Dial : ~Queued(d)
    BY <2>1 DEF Queued
  <2> QED BY <2>1, <2>2 DEF DialInv, Recorded, Delivered, Failed, TypeOK
<1> QED BY DialInvariance, DialInRaces, <1>1, PTL

\* A failure that is not marked aborted is the address's own.
THEOREM BlamesTheAddress == Spec \/ RacesSpec => []OnlyTheAddressIsBlamed
<1>1. DialInv => OnlyTheAddressIsBlamed
  <2> SUFFICES ASSUME DialInv, NEW d \in attempts, ~aborted[d] PROVE err[d] = "own"
    BY DEF OnlyTheAddressIsBlamed
  <2>1. d \in Dial /\ d \in Delivered /\ err[d] # "none"
    BY DEF DialInv, TypeOK, Recorded, Failed
  <2> QED BY <2>1 DEF DialInv, Marked, TypeOK
<1> QED BY DialInvariance, DialInRaces, <1>1, PTL

\* A race its row's context cut short names that context and not the caller's
\* own cancellation.
THEOREM NamesTheExpiry == Spec \/ RacesSpec => []ExpiryIsNamed
<1>1. DialInv => ExpiryIsNamed
  BY DEF DialInv
<1> QED BY DialInvariance, DialInRaces, <1>1, PTL

=============================================================================
