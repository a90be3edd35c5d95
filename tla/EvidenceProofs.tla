--------------------------- MODULE EvidenceProofs ---------------------------
(***************************************************************************)
(* What evidence shows, for any amount of it. First the incident history:  *)
(* a timeline that sees one pass at a time and keeps few of them holds the *)
(* newest failures of the whole log, each on evidence of one network       *)
(* state, and never turns a reader's page. Then the topology file: however *)
(* partial its records, and however old some of them, what is decided of a *)
(* domain is true of its table, what a failure is said to cut of a segment *)
(* is what it cuts, and a path shown to deliver, to fail or to be spared   *)
(* does.                                                                   *)
(***************************************************************************)
EXTENDS IncidentTimeline, NetworkTruth, FiniteSetTheorems, SequenceTheorems, TLAPS

\* What a recorded pass and an incident are.
State == [at : Nat \ {0}, failing : BOOLEAN, shape : Shape, straddled : BOOLEAN, fresh : BOOLEAN]
Incident ==
  [started : Nat, ended : Nat, passes : Nat, before : State \cup {None}, onset : State,
   during : State \cup {None}, steps : Seq(Nat), stepsDropped : Nat, recovered : State \cup {None}]

Typed ==
  /\ incidents \in Seq(Incident) /\ Len(incidents) <= MaxIncidents
  /\ \A i \in DOMAIN incidents : Len(incidents[i].steps) <= MaxSteps
  /\ open \in BOOLEAN /\ viewing \in BOOLEAN /\ told \in BOOLEAN
  /\ baseline \in State \cup {None} /\ dropped \in Nat
  /\ now \in 0..MaxPasses /\ log \in Seq(State)
  /\ open => incidents # <<>>
  /\ selected \in 1..MaxIncidents /\ (incidents # <<>> => selected \in DOMAIN incidents)
  /\ viewing => incidents # <<>>

\* Passes are recorded one after the other, incidents with them.
InOrder ==
  /\ \A i \in DOMAIN log : log[i].at <= now
  /\ \A i, j \in DOMAIN log : i < j => log[i].at < log[j].at
  /\ \A i \in DOMAIN incidents : incidents[i].started <= now
  /\ \A i, j \in DOMAIN incidents : i < j => incidents[i].started < incidents[j].started

\* An incident tells of passes that measured every row under one network state.
Sound(inc) ==
  /\ \A s \in {inc.before, inc.recovered} \ {None} : ~s.straddled /\ s.fresh
  /\ Latest(inc).fresh /\ inc.onset.fresh

\* What is recorded is of one network state, and measured.
Clean ==
  /\ \A i \in DOMAIN log : log[i].fresh /\ (log[i].failing \/ ~log[i].straddled)
  /\ baseline # None => ~baseline.straddled /\ baseline.fresh
  /\ \A i \in DOMAIN incidents : Sound(incidents[i])

\* What the timeline remembers of the last pass.
Newest ==
  /\ ~open => baseline = IF log = <<>> THEN None ELSE log[Len(log)]
  /\ open => Latest(Active).shape = log[Len(log)].shape
  /\ open => Active.ended = Absent /\ Active.recovered = None
  /\ \A i \in Onsets : \E e \in i+1..Len(log)+1 : IsEnd(i, e)
  /\ open => \E i \in Onsets : IsEnd(i, Len(log) + 1)

IInv == Typed /\ InOrder /\ Clean /\ Newest /\ IncidentsAreTheFailures

-----------------------------------------------------------------------------
\* Places.

LEMMA PlaceFacts ==
  ASSUME NEW S, IsFiniteSet(S), S \subseteq Int, NEW i \in S
  PROVE  /\ Place(i, S) \in 1..Cardinality(S) /\ Cardinality(S) \in Nat
         /\ \A j \in S : j < i => Place(j, S) < Place(i, S)
         /\ (\A j \in S : j <= i) => Place(i, S) = Cardinality(S)
<1> DEFINE upTo(k) == {j \in S : j <= k}
<1>1. \A k \in Int : IsFiniteSet(upTo(k)) /\ Cardinality(upTo(k)) \in Nat /\ Cardinality(upTo(k)) <= Cardinality(S)
  BY FS_Subset, FS_CardinalityType
<1>2. Cardinality(S) \in Nat
  BY FS_CardinalityType
<1>3. i \in upTo(i) /\ Cardinality(upTo(i)) # 0
  BY <1>1, FS_EmptySet
<1>4. ASSUME NEW j \in S, j < i PROVE Cardinality(upTo(j)) < Cardinality(upTo(i))
  <2>1. upTo(j) \subseteq upTo(i) /\ upTo(j) # upTo(i)
    <3>1. i \notin upTo(j) /\ \A k \in upTo(j) : k <= i
      BY <1>4
    <3> QED
      BY <1>3, <3>1
  <2> QED
    BY <1>1, <2>1, FS_Subset
<1>5. (\A j \in S : j <= i) => upTo(i) = S
  OBVIOUS
<1> QED
  BY <1>1, <1>2, <1>3, <1>4, <1>5 DEF Place

\* A new last place, and the others as they were.
LEMMA PlaceAdded ==
  ASSUME NEW S, IsFiniteSet(S), S \subseteq Int, NEW m \in Int, \A j \in S : j < m
  PROVE  /\ IsFiniteSet(S \cup {m}) /\ Cardinality(S \cup {m}) = Cardinality(S) + 1
         /\ Place(m, S \cup {m}) = Cardinality(S) + 1
         /\ \A i \in S : Place(i, S \cup {m}) = Place(i, S)
<1>1. m \notin S
  OBVIOUS
<1>2. IsFiniteSet(S \cup {m}) /\ Cardinality(S \cup {m}) = Cardinality(S) + 1
  BY <1>1, FS_AddElement
<1>3. {j \in S \cup {m} : j <= m} = S \cup {m}
  <2>1. \A j \in S \cup {m} : j \in Int /\ j <= m
    OBVIOUS
  <2> QED
    BY <2>1
<1>4. \A i \in S : {j \in S \cup {m} : j <= i} = {j \in S : j <= i}
  OBVIOUS
<1> QED
  BY <1>2, <1>3, <1>4 DEF Place

\* What dropping the oldest entries of a list leaves of it.
LEMMA KeepFacts ==
  ASSUME NEW S, NEW q \in Seq(S), NEW limit \in Nat \ {0}
  PROVE  LET r == KeepNewest(q, limit)
         IN /\ r \in Seq(S) /\ Len(r) = (IF Len(q) > limit THEN limit ELSE Len(q))
            /\ Len(r) \in Nat
            /\ \A k \in 1..Len(r) : r[k] = q[k + Len(q) - Len(r)] /\ k + Len(q) - Len(r) \in 1..Len(q)
<1>1. PICK n \in Nat : n = Len(q)
  BY LenProperties
<1>2. PICK d \in Nat : d = (IF n > limit THEN n - limit ELSE 0) /\ d <= n
  <2>1. CASE n > limit
    <3>1. n - limit \in Nat /\ n - limit <= n
      BY <2>1
    <3> QED
      BY <2>1, <3>1
  <2>2. CASE ~(n > limit)
    BY <2>2
  <2> QED
    BY <2>1, <2>2
<1>3. PICK r : r = SubSeq(q, 1 + d, n)
  OBVIOUS
<1>4. \A k \in 1 + d .. n : q[k] \in S
  BY <1>1
<1>5. /\ r \in Seq(S) /\ Len(r) = (IF 1 + d <= n THEN n - (1 + d) + 1 ELSE 0)
      /\ \A k \in 1..n - (1 + d) + 1 : r[k] = q[1 + d + k - 1]
  <2>1. 1 + d \in Int /\ n \in Int
    OBVIOUS
  <2> QED
    BY <1>3, <1>4, <2>1, SubSeqProperties
<1>6. PICK l \in Nat : l = Len(r) /\ l = n - d
  BY <1>2, <1>5
<1>7. \A k \in 1..l : r[k] = q[k + n - l] /\ k + n - l \in 1..n
  <2> SUFFICES ASSUME NEW k \in 1..l PROVE r[k] = q[k + n - l] /\ k + n - l \in 1..n
    OBVIOUS
  <2>1. k \in 1..n - (1 + d) + 1 /\ 1 + d + k - 1 = k + n - l /\ k + n - l \in 1..n
    BY <1>2, <1>6
  <2> QED
    BY <1>5, <2>1
<1>8. KeepNewest(q, limit) = r
  BY <1>1, <1>2, <1>3 DEF KeepNewest
<1>9. l = (IF n > limit THEN limit ELSE n)
  BY <1>2, <1>6
<1> QED
  BY <1>1, <1>5, <1>6, <1>7, <1>8, <1>9

\* What a list of the newest of S is once it took x, for place m, and kept r of it.
TakesIn(q, x, limit, rest, S, m, r, left, T) ==
  /\ r \in Seq(T) /\ Len(r) <= limit /\ Len(r) \in Nat \ {0} /\ left \in Nat
  /\ IsNewest(Len(r), left, S \cup {m}, limit)
  /\ \A i \in S : Place(i, S \cup {m}) - left > 0 =>
       /\ Place(i, S) - rest > 0 /\ Place(i, S) - rest \in 1..Len(q)
       /\ Place(i, S \cup {m}) - left \in 1..Len(r) - 1
       /\ r[Place(i, S \cup {m}) - left] = q[Place(i, S) - rest]
  /\ Place(m, S \cup {m}) - left = Len(r) /\ r[Len(r)] = x

\* A list of the newest of S takes a new one, and lets go of what no longer fits.
LEMMA KeepsNewest ==
  ASSUME NEW T, NEW q \in Seq(T), NEW x \in T, NEW limit \in Nat \ {0}, NEW rest \in Nat,
         NEW S, IsFiniteSet(S), S \subseteq Int, NEW m \in Int, \A j \in S : j < m,
         IsNewest(Len(q), rest, S, limit)
  PROVE  TakesIn(q, x, limit, rest, S, m, KeepNewest(Append(q, x), limit),
                 rest + Len(Append(q, x)) - Len(KeepNewest(Append(q, x), limit)), T)
<1>1. PICK all \in Seq(T) : all = Append(q, x)
  <2>1. Append(q, x) \in Seq(T)
    OBVIOUS
  <2> QED
    BY <2>1
<1>2. PICK r \in Seq(T) : r = KeepNewest(all, limit)
  BY KeepFacts
<1>3. PICK n \in Nat, l \in Nat : n = Len(q) /\ l = Len(r)
  BY LenProperties
<1>4. Len(all) = n + 1 /\ all[n + 1] = x /\ \A k \in 1..n : all[k] = q[k]
  BY <1>1, <1>3
<1>5. /\ l = (IF n + 1 > limit THEN limit ELSE n + 1)
      /\ \A k \in 1..l : r[k] = all[k + (n + 1) - l] /\ k + (n + 1) - l \in 1..n + 1
  <2>1. PICK la \in Nat : la = Len(all) /\ la = n + 1
    BY <1>4
  <2>2. /\ Len(r) = (IF Len(all) > limit THEN limit ELSE Len(all))
        /\ \A k \in 1..Len(r) : r[k] = all[k + Len(all) - Len(r)] /\ k + Len(all) - Len(r) \in 1..Len(all)
    BY <1>2, KeepFacts
  <2>3. /\ l = (IF la > limit THEN limit ELSE la)
        /\ \A k \in 1..l : r[k] = all[k + la - l] /\ k + la - l \in 1..la
    BY <1>3, <2>1, <2>2
  <2> QED
    BY <2>1, <2>3
<1>6. PICK c \in Nat : c = Cardinality(S)
  BY FS_CardinalityType
<1>7. n + rest = c /\ n = (IF c > limit THEN limit ELSE c)
  BY <1>3, <1>6 DEF IsNewest
<1>8. PICK left \in Int : left = rest + (n + 1) - l
  OBVIOUS
<1>9. l <= limit /\ l \in Nat \ {0} /\ left \in Nat
  BY <1>5, <1>7, <1>8
<1>10. l + left = c + 1 /\ l = (IF c + 1 > limit THEN limit ELSE c + 1)
  BY <1>5, <1>7, <1>8
<1>11. IsNewest(l, left, S \cup {m}, limit)
  BY <1>6, <1>10, PlaceAdded DEF IsNewest
<1>12. ASSUME NEW i \in S, Place(i, S \cup {m}) - left > 0
       PROVE  /\ Place(i, S) - rest > 0 /\ Place(i, S) - rest \in 1..n
              /\ Place(i, S \cup {m}) - left \in 1..l - 1
              /\ r[Place(i, S \cup {m}) - left] = q[Place(i, S) - rest]
  <2>1. PICK p \in 1..c : p = Place(i, S) /\ p = Place(i, S \cup {m})
    <3>1. Place(i, S \cup {m}) = Place(i, S)
      BY PlaceAdded, Zenon
    <3>2. Place(i, S) \in 1..Cardinality(S)
      BY PlaceFacts, Zenon
    <3> QED
      BY <1>6, <3>1, <3>2, Zenon
  <2>0. p \in Int /\ left \in Int /\ rest \in Int
    BY <1>8
  <2>2. PICK k \in Int : k = p - left
    BY <2>0
  <2>3. PICK j \in Int : j = p - rest
    BY <2>0
  <2>4. k \in 1..l - 1 /\ j \in 1..n /\ k + (n + 1) - l = j /\ k \in 1..l
    <3>1. k > 0
      BY <1>12, <2>1, <2>2
    <3>2. k + (n + 1) - l = j
      <4>1. left + l = rest + (n + 1)
        BY <1>3, <1>7, <1>8
      <4> QED
        BY <1>3, <2>0, <2>2, <2>3, <4>1
    <3>3. k <= l - 1
      BY <1>10, <2>1, <2>2
    <3>4. j <= n
      BY <1>7, <2>1, <2>3
    <3>5. j > 0
      BY <1>5, <1>7, <1>9, <3>1, <3>2
    <3> QED
      BY <1>9, <3>1, <3>2, <3>3, <3>4, <3>5
  <2>5. r[k] = q[j]
    BY <1>4, <1>5, <2>4
  <2>6. j > 0
    BY <2>4
  <2> QED
    BY <2>1, <2>2, <2>3, <2>4, <2>5, <2>6
<1>13. Place(m, S \cup {m}) - left = l /\ r[l] = x
  <2>1. Place(m, S \cup {m}) = c + 1
    BY <1>6, PlaceAdded
  <2>2. l \in 1..l /\ l + (n + 1) - l = n + 1
    BY <1>9
  <2>3. r[l] = x
    BY <1>4, <1>5, <2>2
  <2> QED
    BY <1>10, <2>1, <2>3
<1>14. left = rest + Len(all) - Len(r)
  BY <1>3, <1>4, <1>8
<1>15. TakesIn(q, x, limit, rest, S, m, r, left, T)
  BY <1>3, <1>9, <1>11, <1>12, <1>13 DEF TakesIn
<1> QED
  BY <1>1, <1>2, <1>14, <1>15

-----------------------------------------------------------------------------
\* The log and its failing stretches.

LEMMA OnsetFacts ==
  ASSUME Typed
  PROVE  /\ Len(log) \in Nat /\ DOMAIN log = 1..Len(log) /\ \A k \in 1..Len(log) : log[k] \in State
         /\ Onsets \subseteq 1..Len(log) /\ Onsets \subseteq Int /\ IsFiniteSet(Onsets)
<1>1. Len(log) \in Nat /\ DOMAIN log = 1..Len(log) /\ \A k \in 1..Len(log) : log[k] \in State
  BY LenProperties DEF Typed
<1>2. Onsets \subseteq 1..Len(log) /\ IsFiniteSet(1..Len(log))
  BY <1>1, FS_Interval DEF Onsets
<1>3. IsFiniteSet(Onsets)
  BY <1>2, FS_Subset
<1>4. Onsets \subseteq Int
  BY <1>1, <1>2
<1> QED
  BY <1>1, <1>2, <1>3, <1>4

\* A stretch has one end.
LEMMA OneEnd ==
  log \in Seq(State) => \A i \in 1..Len(log) : \A e : IsEnd(i, e) => EndOf(i) = e /\ e \in i+1..Len(log)+1
<1> SUFFICES ASSUME log \in Seq(State), NEW i \in 1..Len(log), NEW e, IsEnd(i, e)
             PROVE  EndOf(i) = e /\ e \in i+1..Len(log)+1
  OBVIOUS
<1>1. Len(log) \in Nat /\ DOMAIN log = 1..Len(log)
  BY LenProperties
<1>2. e \in i+1..Len(log)+1
  BY DEF IsEnd
<1>3. ASSUME NEW c \in i+1..Len(log)+1, NEW d \in i+1..Len(log)+1, IsEnd(i, c), IsEnd(i, d), c < d PROVE FALSE
  <2>1. c \in DOMAIN log /\ c \in i+1..d-1
    BY <1>1, <1>3
  <2> QED
    BY <1>3, <2>1 DEF IsEnd
<1>4. \A c \in i+1..Len(log)+1 : IsEnd(i, c) => c = e
  <2> SUFFICES ASSUME NEW c \in i+1..Len(log)+1, IsEnd(i, c), c # e PROVE FALSE
    OBVIOUS
  <2>1. c < e \/ e < c
    BY <1>1, <1>2
  <2> QED
    BY <1>2, <1>3, <2>1
<1> QED
  BY <1>2, <1>4 DEF EndOf

LEMMA OneEndNext ==
  (log \in Seq(State) => \A i \in 1..Len(log) : \A e : IsEnd(i, e) => EndOf(i) = e /\ e \in i+1..Len(log)+1)'
  BY OneEnd, PTL

\* A stretch that lasts is the last one.
LEMMA LastingIsLast ==
  ASSUME Typed, NEW i \in Onsets, IsEnd(i, Len(log) + 1), NEW j \in Onsets
  PROVE  /\ j <= i
         /\ j # i => \A e : IsEnd(j, e) => e \in j+1..Len(log)
<1>1. /\ Len(log) \in Nat /\ DOMAIN log = 1..Len(log) /\ \A k \in 1..Len(log) : log[k] \in State
      /\ Onsets \subseteq 1..Len(log)
  BY OnsetFacts
<1>2. ASSUME NEW c \in Onsets, NEW d \in Onsets, IsEnd(c, Len(log) + 1), d > c PROVE FALSE
  <2>1. c \in 1..Len(log) /\ d \in 1..Len(log)
    BY <1>1
  <2>2. d > 1 /\ (d - 1 = c \/ d - 1 \in c+1..Len(log)+1-1)
    BY <1>1, <1>2, <2>1
  <2>3. log[d-1].failing
    BY <1>2, <2>2 DEF IsEnd, Onsets
  <2> QED
    BY <2>2, <2>3 DEF Onsets
<1>3. i \in 1..Len(log) /\ j \in 1..Len(log)
  BY <1>1
<1>4. j <= i
  BY <1>2, <1>3
<1>5. ASSUME j # i, NEW e, IsEnd(j, e) PROVE e \in j+1..Len(log)
  <2>1. e \in j+1..Len(log)+1
    BY <1>5 DEF IsEnd
  <2>2. e # Len(log) + 1
    BY <1>2, <1>3, <1>4, <1>5
  <2> QED
    BY <1>1, <1>3, <2>1, <2>2
<1> QED
  BY <1>4, <1>5

\* Where the last pass does not fail, every stretch is over.
LEMMA AllOver ==
  ASSUME Typed, log = <<>> \/ ~log[Len(log)].failing, NEW i \in Onsets, NEW e, IsEnd(i, e)
  PROVE  e \in i+1..Len(log)
<1>1. /\ Len(log) \in Nat /\ DOMAIN log = 1..Len(log) /\ Onsets \subseteq 1..Len(log)
  BY OnsetFacts
<1>2. i \in 1..Len(log) /\ e \in i+1..Len(log)+1 /\ ~log[Len(log)].failing
  <2>1. Len(log) # 0
    BY <1>1
  <2>2. log # <<>>
    BY <2>1
  <2> QED
    BY <1>1, <2>2 DEF IsEnd
<1>3. e # Len(log) + 1
  <2> SUFFICES ASSUME e = Len(log) + 1 PROVE FALSE
    OBVIOUS
  <2>1. Len(log) = i \/ Len(log) \in i+1..e-1
    <3>1. PICK n \in Nat : n = Len(log)
      BY <1>1
    <3>2. e = n + 1 /\ i \in 1..n
      BY <1>2, <3>1
    <3>3. n = i \/ n \in i+1..e-1
      BY <3>2
    <3> QED
      BY <3>1, <3>3
  <2>2. log[Len(log)].failing
    BY <2>1 DEF IsEnd, Onsets
  <2> QED
    BY <1>2, <2>2
<1> QED
  BY <1>1, <1>2, <1>3

\* A pass is recorded.
Logs(state) == state \in State /\ log' = Append(log, state)

LEMMA LogGrows ==
  ASSUME Typed, NEW state, Logs(state)
  PROVE  /\ Len(log') = Len(log) + 1 /\ DOMAIN log' = 1..Len(log)+1 /\ log' \in Seq(State) /\ log' # <<>>
         /\ log'[Len(log) + 1] = state
         /\ \A k \in 1..Len(log) : log'[k] = log[k]
<1>1. Len(log) \in Nat /\ log \in Seq(State) /\ state \in State /\ log' = Append(log, state)
  BY OnsetFacts DEF Typed, Logs
<1>2. log' \in Seq(State) /\ Len(log') = Len(log) + 1 /\ log'[Len(log) + 1] = state
      /\ \A k \in 1..Len(log) : log'[k] = log[k]
  BY <1>1
<1>3. DOMAIN log' = 1..Len(log)+1 /\ log' # <<>>
  BY <1>1, <1>2, LenProperties
<1> QED
  BY <1>2, <1>3

\* A failing pass after one that did not fail begins a stretch, and no other does.
LEMMA OnsetsGrow ==
  ASSUME Typed, NEW state, Logs(state)
  PROVE  Onsets' = IF state.failing /\ (log = <<>> \/ ~log[Len(log)].failing)
                     THEN Onsets \cup {Len(log) + 1} ELSE Onsets
<1>1. /\ Len(log) \in Nat /\ DOMAIN log = 1..Len(log)
      /\ DOMAIN log' = 1..Len(log)+1 /\ log'[Len(log) + 1] = state
      /\ \A k \in 1..Len(log) : log'[k] = log[k]
  BY OnsetFacts, LogGrows
<1>2. \A k \in 1..Len(log) : k \in Onsets' <=> k \in Onsets
  <2> SUFFICES ASSUME NEW k \in 1..Len(log) PROVE k \in Onsets' <=> k \in Onsets
    OBVIOUS
  <2>1. log'[k] = log[k] /\ (k > 1 => log'[k-1] = log[k-1])
    BY <1>1
  <2>2. k \in DOMAIN log /\ k \in DOMAIN log'
    BY <1>1
  <2> QED
    BY <2>1, <2>2 DEF Onsets
<1>3. (Len(log) + 1 \in Onsets') <=> (state.failing /\ (log = <<>> \/ ~log[Len(log)].failing))
  <2>1. Len(log) + 1 > 1 <=> log # <<>>
    <3>1. Len(log) = 0 <=> log = <<>>
      BY EmptySeq DEF Typed
    <3> QED
      BY <1>1, <3>1
  <2>2. Len(log) + 1 > 1 => log'[Len(log) + 1 - 1] = log[Len(log)]
    BY <1>1
  <2>3. Len(log) + 1 \in DOMAIN log'
    BY <1>1
  <2> QED
    BY <1>1, <2>1, <2>2, <2>3 DEF Onsets
<1>4. \A k : k \in Onsets' => k \in 1..Len(log) \/ k = Len(log) + 1
  BY <1>1 DEF Onsets
<1>5. \A k : k \in Onsets => k \in 1..Len(log)
  BY <1>1 DEF Onsets
<1>6. CASE state.failing /\ (log = <<>> \/ ~log[Len(log)].failing)
  <2>1. \A k : k \in Onsets' <=> k \in Onsets \cup {Len(log) + 1}
    BY <1>2, <1>3, <1>4, <1>5, <1>6
  <2> QED
    BY <1>6, <2>1
<1>7. CASE ~(state.failing /\ (log = <<>> \/ ~log[Len(log)].failing))
  <2>1. \A k : k \in Onsets' <=> k \in Onsets
    BY <1>2, <1>3, <1>4, <1>5, <1>7
  <2>2. Onsets' = Onsets
    BY <2>1
  <2> QED
    BY <1>7, <2>2
<1> QED
  BY <1>6, <1>7

-----------------------------------------------------------------------------
\* What a recorded pass makes of the stretches before it.

\* The moves of a stretch.
LEMMA MovesFacts ==
  ASSUME Typed, NEW i \in 1..Len(log), NEW e \in i+1..Len(log)+1
  PROVE  Moves(i, e) \subseteq i+1..Len(log) /\ Moves(i, e) \subseteq Int /\ IsFiniteSet(Moves(i, e))
<1>1. Len(log) \in Nat
  BY OnsetFacts
<1>2. i+1..e-1 \subseteq i+1..Len(log) /\ i+1..e-1 \subseteq Int /\ IsFiniteSet(i+1..e-1)
  <2>1. PICK b \in Int, d \in Int : b = i+1 /\ d = e-1
    BY <1>1
  <2>2. IsFiniteSet(b..d)
    BY FS_Interval
  <2>3. b..d \subseteq b..Len(log)
    BY <1>1, <2>1
  <2> QED
    BY <2>1, <2>2, <2>3
<1>3. Moves(i, e) \subseteq i+1..e-1
  BY DEF Moves
<1>4. IsFiniteSet(Moves(i, e))
  BY <1>2, <1>3, FS_Subset
<1> QED
  BY <1>2, <1>3, <1>4

\* A stretch that is over stays what it was.
LEMMA OverStays ==
  ASSUME Typed, NEW state, Logs(state), NEW i \in 1..Len(log), NEW e \in i+1..Len(log), IsEnd(i, e)
  PROVE  /\ IsEnd(i, e)' /\ EndOf(i)' = e
         /\ \A inc \in Incident : IsFailure(inc, i, e) => IsFailure(inc, i, e)'
<1>1. PICK n \in Nat : n = Len(log) /\ i \in 1..n /\ e \in i+1..n
  BY OnsetFacts
<1>2. /\ DOMAIN log = 1..n /\ Len(log') = n + 1 /\ DOMAIN log' = 1..n+1 /\ log' \in Seq(State)
      /\ \A k \in 1..n : log'[k] = log[k]
  BY <1>1, OnsetFacts, LogGrows
<1>3. IsEnd(i, e)'
  <2>1. log'[e] = log[e] /\ \A k \in i+1..e-1 : log'[k] = log[k]
    BY <1>1, <1>2
  <2>2. e \in i+1..n+2
    BY <1>1
  <2> QED
    BY <1>1, <1>2, <2>1, <2>2 DEF IsEnd
<1>4. EndOf(i)' = e
  <2>1. i \in 1..Len(log')
    BY <1>1, <1>2
  <2> QED
    BY <1>2, <1>3, <2>1, OneEndNext
<1>5. ASSUME NEW inc \in Incident, IsFailure(inc, i, e) PROVE IsFailure(inc, i, e)'
  <2>1. /\ log'[i] = log[i] /\ (i # 1 => log'[i-1] = log[i-1]) /\ log'[e] = log[e]
        /\ \A k \in i+1..e-1 : log'[k] = log[k] /\ log'[k-1] = log[k-1]
    BY <1>1, <1>2
  <2>2. Moves(i, e)' = Moves(i, e)
    BY <2>1 DEF Moves
  <2>3. \A k \in Moves(i, e) : log'[k] = log[k]
    BY <2>1 DEF Moves
  <2>4. e \in DOMAIN log /\ e \in DOMAIN log'
    BY <1>1, <1>2
  <2>5. IsFailure(inc, i, e)' =
          LET moves == Moves(i, e)
              at(k) == Place(k, moves) - inc.stepsDropped
          IN /\ inc.started = log'[i].at /\ inc.passes = e - i
             /\ inc.before = (IF i = 1 THEN None ELSE log'[i-1]) /\ inc.onset = log'[i]
             /\ moves = {} => inc.during = None
             /\ \A k \in moves :
                  /\ (\A j \in moves : j <= k) => inc.during = log'[k]
                  /\ at(k) > 0 => inc.steps[at(k)] = log'[k].at
             /\ IsNewest(Len(inc.steps), inc.stepsDropped, moves, MaxSteps)
             /\ inc.ended = (IF e \in DOMAIN log' THEN log'[e].at ELSE Absent)
             /\ inc.recovered = (IF e \in DOMAIN log' THEN log'[e] ELSE None)
    BY <2>2 DEF IsFailure, Place, IsNewest, None, Absent
  <2> QED
    BY <1>5, <2>1, <2>3, <2>4, <2>5 DEF IsFailure
<1> QED
  BY <1>3, <1>4, <1>5

\* The stretch a failing pass continues, the one a pass that does not fail ends, and
\* the one a failing pass begins.
LEMMA StretchLasts ==
  ASSUME Typed, NEW n \in Nat, n = Len(log), NEW state, Logs(state), state.failing,
         NEW i \in 1..n, IsEnd(i, n + 1)
  PROVE  /\ IsEnd(i, n + 2)' /\ EndOf(i)' = n + 2
         /\ Moves(i, n + 2)' = IF state.shape # log[n].shape
                                        THEN Moves(i, n + 1) \cup {n + 1}
                                        ELSE Moves(i, n + 1)
<1>1. i \in 1..n /\ n = Len(log)
  OBVIOUS
<1>2. /\ DOMAIN log = 1..n /\ Len(log') = n + 1 /\ DOMAIN log' = 1..n+1 /\ log' \in Seq(State)
      /\ log'[n + 1] = state /\ \A k \in 1..n : log'[k] = log[k]
  BY <1>1, OnsetFacts, LogGrows
<1>3. IsEnd(i, n + 2)'
  <2>1. n + 2 \in i+1..Len(log')+1 /\ n + 2 \notin DOMAIN log'
    BY <1>1, <1>2
  <2>2. ASSUME NEW k \in i+1..(n+2)-1 PROVE log'[k].failing
    <3>1. k = n + 1 \/ (k \in 1..n /\ k \in i+1..(n+1)-1)
      BY <1>1
    <3> QED
      BY <1>1, <1>2, <3>1 DEF IsEnd
  <2> QED
    BY <2>1, <2>2 DEF IsEnd
<1>4. EndOf(i)' = n + 2
  <2>1. i \in 1..Len(log')
    BY <1>1, <1>2
  <2> QED
    BY <1>2, <1>3, <2>1, OneEndNext
<1>5. \A k : k \in Moves(i, n + 2)' <=> k \in Moves(i, n + 1) \/ (k = n + 1 /\ state.shape # log[n].shape)
  <2>1. ASSUME NEW k \in i+1..n PROVE k \in Moves(i, n + 2)' <=> k \in Moves(i, n + 1)
    <3>1. log'[k] = log[k] /\ log'[k-1] = log[k-1] /\ k \in i+1..(n+2)-1 /\ k \in i+1..(n+1)-1
      BY <1>1, <1>2
    <3> QED
      BY <3>1 DEF Moves
  <2>2. (n + 1 \in Moves(i, n + 2)') <=> state.shape # log[n].shape
    <3>1. log'[n + 1 - 1] = log[n] /\ n + 1 \in i+1..(n+2)-1
      BY <1>1, <1>2
    <3> QED
      BY <1>2, <3>1 DEF Moves
  <2>3. n + 1 \notin Moves(i, n + 1)
    BY <1>1 DEF Moves
  <2>4. \A k : k \in Moves(i, n + 2)' => k \in i+1..n \/ k = n + 1
    <3>1. \A k \in i+1..(n+2)-1 : k \in i+1..n \/ k = n + 1
      BY <1>1
    <3> QED
      BY <3>1 DEF Moves
  <2>5. \A k : k \in Moves(i, n + 1) => k \in i+1..n
    <3>1. \A k \in i+1..(n+1)-1 : k \in i+1..n
      BY <1>1
    <3> QED
      BY <3>1 DEF Moves
  <2> QED
    BY <2>1, <2>2, <2>3, <2>4, <2>5
<1>6. CASE state.shape # log[n].shape
  <2>1. Moves(i, n + 2)' = Moves(i, n + 1) \cup {n + 1}
    BY <1>5, <1>6
  <2> QED
    BY <1>1, <1>3, <1>4, <1>6, <2>1
<1>7. CASE state.shape = log[n].shape
  <2>1. Moves(i, n + 2)' = Moves(i, n + 1)
    BY <1>5, <1>7
  <2> QED
    BY <1>1, <1>3, <1>4, <1>7, <2>1
<1> QED
  BY <1>6, <1>7

LEMMA StretchEnds ==
  ASSUME Typed, NEW n \in Nat, n = Len(log), NEW state, Logs(state), ~state.failing,
         NEW i \in 1..n, IsEnd(i, n + 1)
  PROVE  /\ IsEnd(i, n + 1)' /\ EndOf(i)' = n + 1
         /\ Moves(i, n + 1)' = Moves(i, n + 1)
<1>1. i \in 1..n /\ n = Len(log)
  OBVIOUS
<1>2. /\ Len(log') = n + 1 /\ DOMAIN log' = 1..n+1 /\ log' \in Seq(State)
      /\ log'[n + 1] = state /\ \A k \in 1..n : log'[k] = log[k]
  BY <1>1, LogGrows
<1>3. \A k \in i+1..(n+1)-1 : log'[k] = log[k] /\ log'[k-1] = log[k-1]
  BY <1>1, <1>2
<1>4. IsEnd(i, n + 1)'
  <2>1. n + 1 \in i+1..Len(log')+1
    BY <1>1, <1>2
  <2> QED
    BY <1>1, <1>2, <1>3, <2>1 DEF IsEnd
<1>5. EndOf(i)' = n + 1
  <2>1. i \in 1..Len(log')
    BY <1>1, <1>2
  <2> QED
    BY <1>2, <1>4, <2>1, OneEndNext
<1>6. Moves(i, n + 1)' = Moves(i, n + 1)
  BY <1>3 DEF Moves
<1> QED
  BY <1>1, <1>4, <1>5, <1>6

LEMMA StretchBegins ==
  ASSUME Typed, NEW n \in Nat, n = Len(log), NEW state, Logs(state)
  PROVE  /\ IsEnd(n + 1, n + 2)' /\ EndOf(n + 1)' = n + 2
         /\ Moves(n + 1, n + 2)' = {}
<1>1. n = Len(log)
  OBVIOUS
<1>2. Len(log') = n + 1 /\ DOMAIN log' = 1..n+1 /\ log' \in Seq(State)
  BY <1>1, LogGrows
<1>3. (n+1)+1..(n+2)-1 = {} /\ n + 2 \in (n+1)+1..Len(log')+1 /\ n + 2 \notin DOMAIN log'
  BY <1>2
<1>4. IsEnd(n + 1, n + 2)'
  BY <1>3 DEF IsEnd
<1>5. EndOf(n + 1)' = n + 2
  <2>1. n + 1 \in 1..Len(log')
    BY <1>2
  <2> QED
    BY <1>2, <1>4, <2>1, OneEndNext
<1>6. Moves(n + 1, n + 2)' = {}
  BY <1>3 DEF Moves
<1> QED
  BY <1>1, <1>4, <1>5, <1>6

\* What IsFailure says after the pass, spelled out.
Recounts(inc, i, e, moves) ==
  LET at(k) == Place(k, moves) - inc.stepsDropped
  IN /\ inc.started = log'[i].at /\ inc.passes = e - i
     /\ inc.before = (IF i = 1 THEN None ELSE log'[i-1]) /\ inc.onset = log'[i]
     /\ moves = {} => inc.during = None
     /\ \A k \in moves :
          /\ (\A j \in moves : j <= k) => inc.during = log'[k]
          /\ at(k) > 0 => inc.steps[at(k)] = log'[k].at
     /\ IsNewest(Len(inc.steps), inc.stepsDropped, moves, MaxSteps)
     /\ inc.ended = (IF e \in DOMAIN log' THEN log'[e].at ELSE Absent)
     /\ inc.recovered = (IF e \in DOMAIN log' THEN log'[e] ELSE None)

LEMMA TellsFailure ==
  ASSUME NEW inc, NEW i, NEW e, NEW moves, Moves(i, e)' = moves, Recounts(inc, i, e, moves)
  PROVE  IsFailure(inc, i, e)'
BY DEF Recounts, IsFailure, Place, IsNewest, None, Absent

LEMMA FailureBegins ==
  ASSUME Typed, NEW n \in Nat, n = Len(log), NEW state, Logs(state),
         baseline = (IF log = <<>> THEN None ELSE log[n]), 
         NEW inc \in Incident,
         inc.started = state.at, inc.ended = Absent, inc.passes = 1, inc.before = baseline,
         inc.onset = state, inc.during = None, inc.steps = <<>>, inc.stepsDropped = 0, inc.recovered = None
  PROVE  IsFailure(inc, n + 1, n + 2)'
<1>1. n = Len(log)
  OBVIOUS
<1>2. /\ DOMAIN log' = 1..n+1 /\ log'[n + 1] = state /\ \A k \in 1..n : log'[k] = log[k]
  BY <1>1, LogGrows
<1>3. Moves(n + 1, n + 2)' = {}
  BY <1>1, StretchBegins
<1>4. inc.before = IF n + 1 = 1 THEN None ELSE log'[(n + 1) - 1]
  <2>1. n = 0 <=> log = <<>>
    BY <1>1, EmptySeq DEF Typed
  <2>2. n # 0 => log'[(n + 1) - 1] = log[n]
    BY <1>2
  <2> QED
    BY <1>1, <2>1, <2>2
<1>5. IsNewest(Len(inc.steps), inc.stepsDropped, {}, MaxSteps)
  <2>1. Cardinality({}) = 0 /\ Len(<<>>) = 0
    BY FS_EmptySet, EmptySeq
  <2> QED
    BY <2>1, BoundsAssumption DEF IsNewest
<1>6. (n + 2) - (n + 1) = 1 /\ n + 2 \notin DOMAIN log'
  BY <1>2
<1>7. Recounts(inc, n + 1, n + 2, {})
  BY <1>2, <1>4, <1>5, <1>6 DEF Recounts
<1> QED
  BY <1>1, <1>3, <1>7, TellsFailure

\* A failing pass of a lasting failure: it moves, or stays.
LEMMA FailureMoves ==
  ASSUME Typed, NEW n \in Nat, n = Len(log), NEW state, Logs(state), state.failing,
         NEW i \in 1..n, IsEnd(i, n + 1),
         NEW act \in Incident, IsFailure(act, i, n + 1), state.shape # log[n].shape,
         NEW steps, steps = Append(act.steps, state.at),
         NEW inc \in Incident,
         inc.started = act.started, inc.ended = act.ended, inc.passes = act.passes + 1,
         inc.before = act.before, inc.onset = act.onset, inc.during = state,
         inc.steps = KeepNewest(steps, MaxSteps),
         inc.stepsDropped = act.stepsDropped + Len(steps) - Len(KeepNewest(steps, MaxSteps)),
         inc.recovered = act.recovered
  PROVE  IsFailure(inc, i, n + 2)'
<1>1. /\ DOMAIN log = 1..n /\ DOMAIN log' = 1..n+1 /\ log'[n + 1] = state
      /\ \A k \in 1..n : log'[k] = log[k]
  BY OnsetFacts, LogGrows
<1>2. PICK moves : moves = Moves(i, n + 1)
  OBVIOUS
<1>3. moves \subseteq i+1..n /\ moves \subseteq Int /\ IsFiniteSet(moves)
  <2>1. n + 1 \in i+1..Len(log)+1
    OBVIOUS
  <2> QED
    BY <1>2, <2>1, MovesFacts
<1>4. \A j \in moves : j < n + 1
  BY <1>3
<1>5. Moves(i, n + 2)' = moves \cup {n + 1}
  BY <1>2, StretchLasts
<1>6. /\ act.started = log[i].at /\ act.passes = (n + 1) - i
      /\ act.before = (IF i = 1 THEN None ELSE log[i-1]) /\ act.onset = log[i]
      /\ \A k \in moves : Place(k, moves) - act.stepsDropped > 0 =>
           act.steps[Place(k, moves) - act.stepsDropped] = log[k].at
      /\ IsNewest(Len(act.steps), act.stepsDropped, moves, MaxSteps)
      /\ act.ended = Absent /\ act.recovered = None
  <2>1. n + 1 \notin DOMAIN log
    BY <1>1
  <2> QED
    BY <1>2, <2>1 DEF IsFailure
<1>7. act.steps \in Seq(Nat) /\ act.stepsDropped \in Nat /\ state.at \in Nat /\ MaxSteps \in Nat \ {0}
  BY BoundsAssumption DEF Incident, State, Logs
<1>8. /\ IsNewest(Len(inc.steps), inc.stepsDropped, moves \cup {n + 1}, MaxSteps)
      /\ \A k \in moves : Place(k, moves \cup {n + 1}) - inc.stepsDropped > 0 =>
           /\ Place(k, moves) - act.stepsDropped > 0
           /\ inc.steps[Place(k, moves \cup {n + 1}) - inc.stepsDropped]
                = act.steps[Place(k, moves) - act.stepsDropped]
      /\ inc.steps[Place(n + 1, moves \cup {n + 1}) - inc.stepsDropped] = state.at
  <2>1. PICK q, x, rest, m, limit :
          q = act.steps /\ x = state.at /\ rest = act.stepsDropped /\ m = n + 1 /\ limit = MaxSteps
    BY Zenon
  <2>3. q \in Seq(Nat) /\ x \in Nat /\ rest \in Nat /\ m \in Int /\ limit \in Nat \ {0}
    BY <1>7, <2>1
  <2>2. IsNewest(Len(q), rest, moves, limit) /\ (\A j \in moves : j < m)
    BY <1>4, <1>6, <2>1
  <2>4. PICK r, left : /\ r = KeepNewest(Append(q, x), limit)
                       /\ left = rest + Len(Append(q, x)) - Len(KeepNewest(Append(q, x), limit))
    BY Zenon
  <2>5. TakesIn(q, x, limit, rest, moves, m, KeepNewest(Append(q, x), limit),
                rest + Len(Append(q, x)) - Len(KeepNewest(Append(q, x), limit)), Nat)
    BY <1>3, <2>2, <2>3, KeepsNewest
  <2>6. TakesIn(q, x, limit, rest, moves, m, r, left, Nat)
    BY <2>4, <2>5
  <2>7. inc.steps = r /\ inc.stepsDropped = left
    BY <2>1, <2>4
  <2> QED
    BY <2>1, <2>6, <2>7 DEF TakesIn
<1>9. \A k \in moves : log'[k] = log[k]
  <2>1. \A k \in i+1..n : k \in 1..n
    OBVIOUS
  <2> QED
    BY <1>1, <1>3, <2>1
<1>10. \A k \in moves \cup {n + 1} : (\A j \in moves \cup {n + 1} : j <= k) => inc.during = log'[k]
  <2> SUFFICES ASSUME NEW k \in moves \cup {n + 1}, n + 1 <= k PROVE inc.during = log'[k]
    OBVIOUS
  <2>1. k = n + 1
    BY <1>3, <1>4
  <2> QED
    BY <1>1, <2>1
<1>11. \A k \in moves \cup {n + 1} : Place(k, moves \cup {n + 1}) - inc.stepsDropped > 0 =>
         inc.steps[Place(k, moves \cup {n + 1}) - inc.stepsDropped] = log'[k].at
  <2>1. ASSUME NEW k \in moves, Place(k, moves \cup {n + 1}) - inc.stepsDropped > 0
        PROVE  inc.steps[Place(k, moves \cup {n + 1}) - inc.stepsDropped] = log'[k].at
    <3>1. inc.steps[Place(k, moves \cup {n + 1}) - inc.stepsDropped]
            = act.steps[Place(k, moves) - act.stepsDropped]
      BY <1>8, <2>1, Zenon
    <3>2. act.steps[Place(k, moves) - act.stepsDropped] = log[k].at
      BY <1>6, <1>8, <2>1, Zenon
    <3> QED
      BY <1>9, <3>1, <3>2, Zenon
  <2>2. inc.steps[Place(n + 1, moves \cup {n + 1}) - inc.stepsDropped] = log'[n + 1].at
    BY <1>1, <1>8, Zenon
  <2> QED
    BY <2>1, <2>2, Zenon
<1>12. /\ log'[i] = log[i] /\ (i # 1 => log'[i-1] = log[i-1]) /\ n + 2 \notin DOMAIN log'
       /\ inc.passes = (n + 2) - i
  BY <1>1, <1>6
<1>13. Recounts(inc, i, n + 2, moves \cup {n + 1})
  <2>1. /\ inc.started = log'[i].at /\ inc.passes = (n + 2) - i
        /\ inc.before = (IF i = 1 THEN None ELSE log'[i-1]) /\ inc.onset = log'[i]
    BY <1>6, <1>12
  <2>2. inc.ended = Absent /\ inc.recovered = None /\ n + 2 \notin DOMAIN log'
    BY <1>6, <1>12
  <2>3. IsNewest(Len(inc.steps), inc.stepsDropped, moves \cup {n + 1}, MaxSteps)
    BY <1>8
  <2> QED
    BY <1>10, <1>11, <2>1, <2>2, <2>3, Zenon DEF Recounts
<1> QED
  BY <1>5, <1>13, TellsFailure

LEMMA FailureStays ==
  ASSUME Typed, NEW n \in Nat, n = Len(log), NEW state, Logs(state), state.failing,
         NEW i \in 1..n, IsEnd(i, n + 1),
         NEW act \in Incident, IsFailure(act, i, n + 1), state.shape = log[n].shape,
         NEW inc \in Incident,
         inc.started = act.started, inc.ended = act.ended, inc.passes = act.passes + 1,
         inc.before = act.before, inc.onset = act.onset, inc.during = act.during,
         inc.steps = act.steps, inc.stepsDropped = act.stepsDropped, inc.recovered = act.recovered
  PROVE  IsFailure(inc, i, n + 2)'
<1>1. /\ DOMAIN log = 1..n /\ DOMAIN log' = 1..n+1 /\ \A k \in 1..n : log'[k] = log[k]
  BY OnsetFacts, LogGrows
<1>2. PICK moves : moves = Moves(i, n + 1)
  OBVIOUS
<1>3. moves \subseteq i+1..n
  <2>1. n + 1 \in i+1..Len(log)+1
    OBVIOUS
  <2> QED
    BY <1>2, <2>1, MovesFacts
<1>4. Moves(i, n + 2)' = moves
  BY <1>2, StretchLasts
<1>5. n + 1 \notin DOMAIN log /\ n + 2 \notin DOMAIN log'
  BY <1>1
<1>6. \A k \in moves : log'[k] = log[k]
  BY <1>1, <1>3
<1>7. log'[i] = log[i] /\ (i # 1 => log'[i-1] = log[i-1])
  BY <1>1
<1>8. Recounts(inc, i, n + 2, moves)
  <2>1. act.passes = (n + 1) - i
    BY DEF IsFailure
  <2>2. inc.passes = (n + 2) - i
    BY <2>1
  <2> QED
    BY <1>2, <1>5, <1>6, <1>7, <2>2 DEF Recounts, IsFailure
<1> QED
  BY <1>4, <1>8, TellsFailure

\* A pass that does not fail ends it.
LEMMA FailureEnds ==
  ASSUME Typed, NEW n \in Nat, n = Len(log), NEW state, Logs(state), ~state.failing,
         NEW i \in 1..n, IsEnd(i, n + 1),
         NEW act \in Incident, IsFailure(act, i, n + 1),
         NEW inc \in Incident,
         inc.started = act.started, inc.ended = state.at, inc.passes = act.passes,
         inc.before = act.before, inc.onset = act.onset, inc.during = act.during,
         inc.steps = act.steps, inc.stepsDropped = act.stepsDropped, inc.recovered = state
  PROVE  IsFailure(inc, i, n + 1)'
<1>1. /\ DOMAIN log = 1..n /\ DOMAIN log' = 1..n+1 /\ log'[n + 1] = state
      /\ \A k \in 1..n : log'[k] = log[k]
  BY OnsetFacts, LogGrows
<1>2. PICK moves : moves = Moves(i, n + 1)
  OBVIOUS
<1>3. moves \subseteq i+1..n
  <2>1. n + 1 \in i+1..Len(log)+1
    OBVIOUS
  <2> QED
    BY <1>2, <2>1, MovesFacts
<1>4. Moves(i, n + 1)' = moves
  BY <1>2, StretchEnds
<1>5. n + 1 \in DOMAIN log'
  BY <1>1
<1>6. \A k \in moves : log'[k] = log[k]
  BY <1>1, <1>3
<1>7. log'[i] = log[i] /\ (i # 1 => log'[i-1] = log[i-1])
  BY <1>1
<1>8. Recounts(inc, i, n + 1, moves)
  BY <1>1, <1>2, <1>5, <1>6, <1>7 DEF Recounts, IsFailure
<1> QED
  BY <1>4, <1>8, TellsFailure

-----------------------------------------------------------------------------
\* The timeline takes a pass.

\* What IncidentsAreTheFailures says after the pass, spelled out.
LEMMA IncidentsNext ==
  ASSUME NEW S, Onsets' = S, IsNewest(Len(incidents'), dropped', S, MaxIncidents),
         \A i \in S : Place(i, S) - dropped' > 0 =>
           \E inc, e : inc = incidents'[Place(i, S) - dropped'] /\ EndOf(i)' = e /\ IsFailure(inc, i, e)',
         open' <=> log' # <<>> /\ log'[Len(log')].failing
  PROVE  IncidentsAreTheFailures'
BY DEF IncidentsAreTheFailures, Place, IsNewest

\* A failure that is over is told as before.
LEMMA OverTold ==
  ASSUME IInv, NEW state, Logs(state), NEW i \in Onsets, NEW e \in i+1..Len(log), IsEnd(i, e),
         Place(i, Onsets) - dropped > 0
  PROVE  /\ EndOf(i)' = e /\ IsEnd(i, e)' /\ Place(i, Onsets) - dropped \in 1..Len(incidents)
         /\ \E inc : inc = incidents[Place(i, Onsets) - dropped] /\ IsFailure(inc, i, e)'
<1>1. Typed /\ IncidentsAreTheFailures
  BY DEF IInv
<1>2. i \in 1..Len(log) /\ Onsets \subseteq Int /\ IsFiniteSet(Onsets)
  BY <1>1, OnsetFacts
<1>3. EndOf(i) = e
  BY <1>1, <1>2, OneEnd DEF Typed
<1>4. Place(i, Onsets) - dropped \in 1..Len(incidents)
  <2>1. PICK p \in Int, c \in Int, l \in Nat, d \in Nat :
          p = Place(i, Onsets) /\ c = Cardinality(Onsets) /\ p <= c /\ l = Len(incidents) /\ d = dropped
    <3>1. Place(i, Onsets) \in 1..Cardinality(Onsets) /\ Cardinality(Onsets) \in Nat
      BY <1>2, PlaceFacts
    <3>2. Len(incidents) \in Nat /\ dropped \in Nat
      BY <1>1, LenProperties DEF Typed
    <3> QED
      BY <3>1, <3>2
  <2>2. l + d = c
    BY <1>1, <2>1 DEF IncidentsAreTheFailures, IsNewest
  <2> QED
    BY <2>1, <2>2
<1>5. PICK inc \in Incident : inc = incidents[Place(i, Onsets) - dropped]
  BY <1>1, <1>4 DEF Typed
<1>6. IsFailure(inc, i, e)
  BY <1>1, <1>3, <1>5 DEF IncidentsAreTheFailures
<1>7. EndOf(i)' = e /\ IsEnd(i, e)' /\ IsFailure(inc, i, e)'
  BY <1>1, <1>2, <1>6, OverStays
<1> QED
  BY <1>4, <1>5, <1>7

\* The open incident is the last failure, and lasts.
LEMMA ActiveFacts ==
  ASSUME IInv, open, NEW n \in Nat, n = Len(log)
  PROVE  /\ n # 0 /\ log[n].failing /\ Len(incidents) \in Nat \ {0}
         /\ DOMAIN incidents = 1..Len(incidents) /\ Active \in Incident
         /\ \E i \in Onsets : /\ IsEnd(i, n + 1) /\ IsFailure(Active, i, n + 1)
                              /\ Place(i, Onsets) - dropped = Len(incidents)
                              /\ \A j \in Onsets \ {i} : /\ Place(j, Onsets) - dropped < Len(incidents)
                                                      /\ \A e : IsEnd(j, e) => e \in j+1..n
<1>1. Typed /\ Newest /\ IncidentsAreTheFailures
  BY DEF IInv
<1>2. PICK l \in Nat \ {0} : l = Len(incidents) /\ DOMAIN incidents = 1..l
  BY <1>1, LenProperties, EmptySeq DEF Typed
<1>3. Active \in Incident
  BY <1>1, <1>2 DEF Active, Typed
<1>4. log[n].failing /\ n # 0
  BY <1>1, OnsetFacts, EmptySeq DEF IncidentsAreTheFailures, Typed
<1>5. PICK i \in Onsets : IsEnd(i, n + 1)
  BY <1>1 DEF Newest
<1>6. i \in 1..n /\ Onsets \subseteq 1..n /\ Onsets \subseteq Int /\ IsFiniteSet(Onsets)
  BY <1>1, OnsetFacts
<1>7. \A j \in Onsets : j <= i /\ (j # i => \A e : IsEnd(j, e) => e \in j+1..n)
  BY <1>1, <1>5, LastingIsLast
<1>8. PICK c \in Nat, d \in Nat : c = Cardinality(Onsets) /\ d = dropped /\ l + d = c
  <2>1. Cardinality(Onsets) \in Nat /\ dropped \in Nat
    BY <1>1, <1>6, PlaceFacts DEF Typed
  <2>2. Len(incidents) + dropped = Cardinality(Onsets)
    BY <1>1 DEF IncidentsAreTheFailures, IsNewest
  <2> QED
    BY <1>2, <2>1, <2>2
<1>9. Place(i, Onsets) = c
  BY <1>6, <1>7, <1>8, PlaceFacts
<1>10. Place(i, Onsets) - dropped = l
  BY <1>8, <1>9
<1>11. EndOf(i) = n + 1
  BY <1>1, <1>5, <1>6, OneEnd DEF Typed
<1>12. IsFailure(Active, i, n + 1)
  <2>1. l > 0
    BY <1>2
  <2>2. Active = incidents[Place(i, Onsets) - dropped]
    BY <1>2, <1>10 DEF Active
  <2> QED
    BY <1>1, <1>10, <1>11, <2>1, <2>2 DEF IncidentsAreTheFailures
<1>13. \A j \in Onsets \ {i} : Place(j, Onsets) - dropped < l
  <2> SUFFICES ASSUME NEW j \in Onsets \ {i} PROVE Place(j, Onsets) - dropped < l
    OBVIOUS
  <2>1. j < i
    BY <1>6, <1>7
  <2>2. Place(j, Onsets) < c /\ Place(j, Onsets) \in Int
    <3>1. Place(j, Onsets) \in 1..Cardinality(Onsets) /\ Cardinality(Onsets) \in Nat
      BY <1>6, PlaceFacts
    <3>2. Place(j, Onsets) < Place(i, Onsets)
      BY <1>6, <2>1, PlaceFacts
    <3> QED
      BY <1>9, <3>1, <3>2
  <2>3. PICK p \in Int : p = Place(j, Onsets)
    BY <2>2
  <2> QED
    BY <1>8, <2>2, <2>3
<1> QED
  BY <1>2, <1>3, <1>4, <1>5, <1>7, <1>10, <1>12, <1>13

\* The incident a failing pass begins.
Begun(state) ==
  [started |-> state.at, ended |-> Absent, passes |-> 1, before |-> baseline, onset |-> state,
   during |-> None, steps |-> <<>>, stepsDropped |-> 0, recovered |-> None]

LEMMA BeginTakes ==
  ASSUME IInv, NEW n \in Nat, n = Len(log), NEW state, Logs(state), state.failing, ~open, Begin(state)
  PROVE  /\ Begun(state) \in Incident /\ (log = <<>> \/ ~log[n].failing)
         /\ Onsets' = Onsets \cup {n + 1} /\ Onsets \subseteq 1..n /\ Onsets \subseteq Int /\ IsFiniteSet(Onsets)
         /\ incidents' = KeepNewest(Append(incidents, Begun(state)), MaxIncidents)
         /\ TakesIn(incidents, Begun(state), MaxIncidents, dropped, Onsets, n + 1, incidents', dropped', Incident)
<1>1. Typed /\ IncidentsAreTheFailures
  BY DEF IInv
<1>2. Begun(state) \in Incident
  <2>1. state \in State /\ baseline \in State \cup {None} /\ <<>> \in Seq(Nat) /\ state.at \in Nat
    BY <1>1 DEF Typed, Logs, State
  <2> QED
    BY <2>1 DEF Begun, Incident, Absent
<1>3. log = <<>> \/ ~log[n].failing
  BY <1>1 DEF IncidentsAreTheFailures
<1>4. Onsets' = Onsets \cup {n + 1} /\ Onsets \subseteq 1..n /\ Onsets \subseteq Int /\ IsFiniteSet(Onsets)
  BY <1>1, <1>3, OnsetFacts, OnsetsGrow
<1>5. /\ incidents' = KeepNewest(Append(incidents, Begun(state)), MaxIncidents)
      /\ dropped' = dropped + Len(Append(incidents, Begun(state))) - Len(KeepNewest(Append(incidents, Begun(state)), MaxIncidents))
  BY DEF Begin, Begun
<1>6. \A j \in Onsets : j < n + 1
  BY <1>4
<1>7. incidents \in Seq(Incident) /\ dropped \in Nat /\ MaxIncidents \in Nat \ {0} /\ n + 1 \in Int
  BY <1>1, BoundsAssumption DEF Typed
<1>8. IsNewest(Len(incidents), dropped, Onsets, MaxIncidents)
  BY <1>1 DEF IncidentsAreTheFailures
<1>9. TakesIn(incidents, Begun(state), MaxIncidents, dropped, Onsets, n + 1,
              KeepNewest(Append(incidents, Begun(state)), MaxIncidents),
              dropped + Len(Append(incidents, Begun(state))) - Len(KeepNewest(Append(incidents, Begun(state)), MaxIncidents)), Incident)
  BY <1>2, <1>4, <1>6, <1>7, <1>8, KeepsNewest
<1> QED
  BY <1>2, <1>3, <1>4, <1>5, <1>9

LEMMA BeginTold ==
  ASSUME IInv, NEW n \in Nat, n = Len(log), NEW state, Logs(state), state.failing, ~open, Begin(state)
  PROVE  /\ IncidentsAreTheFailures'
         /\ \A i \in Onsets' : \E e \in i+1..Len(log')+1 : IsEnd(i, e)'
<1>1. Typed /\ Newest /\ IncidentsAreTheFailures
  BY DEF IInv
<1>2. /\ Begun(state) \in Incident /\ (log = <<>> \/ ~log[n].failing)
      /\ Onsets' = Onsets \cup {n + 1} /\ Onsets \subseteq 1..n /\ Onsets \subseteq Int
      /\ TakesIn(incidents, Begun(state), MaxIncidents, dropped, Onsets, n + 1, incidents', dropped', Incident)
  BY BeginTakes
<1>3. PICK r, left : /\ r = incidents' /\ left = dropped'
                     /\ TakesIn(incidents, Begun(state), MaxIncidents, dropped, Onsets, n + 1, r, left, Incident)
  BY <1>2
<1>4. \A i \in Onsets : \E e \in i+1..n : IsEnd(i, e)
  <2> SUFFICES ASSUME NEW i \in Onsets PROVE \E e \in i+1..n : IsEnd(i, e)
    OBVIOUS
  <2>1. PICK e : IsEnd(i, e)
    BY <1>1 DEF Newest
  <2> QED
    BY <1>1, <1>2, <2>1, AllOver
<1>5. ASSUME NEW i \in Onsets, Place(i, Onsets \cup {n + 1}) - left > 0
      PROVE  \E inc, e : inc = r[Place(i, Onsets \cup {n + 1}) - left] /\ EndOf(i)' = e /\ IsFailure(inc, i, e)'
  <2>1. PICK e \in i+1..n : IsEnd(i, e)
    BY <1>4
  <2>2. /\ Place(i, Onsets) - dropped > 0
        /\ r[Place(i, Onsets \cup {n + 1}) - left] = incidents[Place(i, Onsets) - dropped]
    BY <1>3, <1>5 DEF TakesIn
  <2>3. PICK inc : /\ EndOf(i)' = e /\ inc = incidents[Place(i, Onsets) - dropped] /\ IsFailure(inc, i, e)'
    BY <2>1, <2>2, OverTold
  <2> QED
    BY <2>2, <2>3
<1>6. \E inc, e : inc = r[Place(n + 1, Onsets \cup {n + 1}) - left] /\ EndOf(n + 1)' = e /\ IsFailure(inc, n + 1, e)'
  <2>1. PICK inc : inc = Begun(state) /\ inc \in Incident
    BY <1>2
  <2>2. r[Place(n + 1, Onsets \cup {n + 1}) - left] = inc
    BY <1>3, <2>1 DEF TakesIn
  <2>3. baseline = (IF log = <<>> THEN None ELSE log[n])
    BY <1>1 DEF Newest
  <2>4. /\ inc.started = state.at /\ inc.ended = Absent /\ inc.passes = 1 /\ inc.before = baseline
        /\ inc.onset = state /\ inc.during = None /\ inc.steps = <<>> /\ inc.stepsDropped = 0 /\ inc.recovered = None
    BY <2>1 DEF Begun
  <2>5. IsFailure(inc, n + 1, n + 2)'
    BY <1>1, <2>1, <2>3, <2>4, FailureBegins
  <2>6. EndOf(n + 1)' = n + 2
    BY <1>1, StretchBegins
  <2> QED
    BY <2>2, <2>5, <2>6
<1>7. \A i \in Onsets \cup {n + 1} : Place(i, Onsets \cup {n + 1}) - dropped' > 0 =>
        \E inc, e : inc = incidents'[Place(i, Onsets \cup {n + 1}) - dropped'] /\ EndOf(i)' = e /\ IsFailure(inc, i, e)'
  BY <1>3, <1>5, <1>6
<1>8. IsNewest(Len(incidents'), dropped', Onsets \cup {n + 1}, MaxIncidents)
  BY <1>3 DEF TakesIn
<1>9. open' <=> log' # <<>> /\ log'[Len(log')].failing
  BY <1>1, LogGrows DEF Begin
<1>10. IncidentsAreTheFailures'
  <2>1. PICK S : S = Onsets \cup {n + 1} /\ Onsets' = S
    BY <1>2
  <2> QED
    BY <1>7, <1>8, <1>9, <2>1, IncidentsNext
<1>11. \A i \in Onsets' : \E e \in i+1..Len(log')+1 : IsEnd(i, e)'
  <2> SUFFICES ASSUME NEW i \in Onsets \cup {n + 1} PROVE \E e \in i+1..Len(log')+1 : IsEnd(i, e)'
    BY <1>2
  <2>1. Len(log') = n + 1
    BY <1>1, LogGrows
  <2>2. CASE i = n + 1
    <3>1. IsEnd(n + 1, n + 2)' /\ n + 2 \in (n+1)+1..Len(log')+1
      BY <1>1, <2>1, StretchBegins
    <3> QED
      BY <2>2, <3>1
  <2>3. CASE i \in Onsets
    <3>1. PICK e \in i+1..n : IsEnd(i, e)
      BY <1>4, <2>3
    <3>2. IsEnd(i, e)'
      BY <1>1, <1>2, <2>3, <3>1, OverStays
    <3>3. e \in i+1..Len(log')+1
      BY <1>2, <2>1, <2>3
    <3> QED
      BY <3>2, <3>3
  <2> QED
    BY <2>2, <2>3
<1> QED
  BY <1>10, <1>11

\* What replacing the open incident leaves of the list.
LEMMA Replaces ==
  ASSUME Typed, NEW l \in Nat \ {0}, l = Len(incidents), NEW inc \in Incident,
         incidents' = [incidents EXCEPT ![Len(incidents)] = inc]
  PROVE  /\ incidents' \in Seq(Incident) /\ Len(incidents') = l /\ DOMAIN incidents' = 1..l
         /\ incidents'[l] = inc /\ \A k \in 1..l : k # l => incidents'[k] = incidents[k]
<1>1. incidents \in Seq(Incident) /\ l \in 1..Len(incidents)
  BY DEF Typed
<1>2. incidents' \in Seq(Incident) /\ Len(incidents') = Len(incidents)
      /\ \A k \in 1..Len(incidents) : incidents'[k] = IF k = l THEN inc ELSE incidents[k]
  BY <1>1, ExceptSeq
<1> QED
  BY <1>1, <1>2, LenProperties

\* What a failing pass makes of the open incident.
GoesOn(act, inc, state, moved) ==
  /\ inc.started = act.started /\ inc.ended = act.ended /\ inc.passes = act.passes + 1
  /\ inc.before = act.before /\ inc.onset = act.onset /\ inc.recovered = act.recovered
  /\ \/ /\ ~moved /\ inc.during = act.during
        /\ inc.steps = act.steps /\ inc.stepsDropped = act.stepsDropped
     \/ /\ moved /\ inc.during = state
        /\ inc.steps = KeepNewest(Append(act.steps, state.at), MaxSteps)
        /\ inc.stepsDropped = act.stepsDropped + Len(Append(act.steps, state.at))
                              - Len(KeepNewest(Append(act.steps, state.at), MaxSteps))

LEMMA ContinuedTakes ==
  ASSUME IInv, NEW n \in Nat, n = Len(log), NEW state, Logs(state), state.failing, open, Continued(state)
  PROVE  \E act, inc \in Incident :
           /\ act = Active /\ incidents' = [incidents EXCEPT ![Len(incidents)] = inc] /\ dropped' = dropped
           /\ Len(inc.steps) <= MaxSteps /\ GoesOn(act, inc, state, state.shape # log[n].shape)
<1>1. Typed /\ Newest
  BY DEF IInv
<1>2. PICK act : act = Active
  OBVIOUS
<1>3. /\ act \in Incident /\ Len(incidents) \in Nat \ {0} /\ DOMAIN incidents = 1..Len(incidents)
  BY <1>2, ActiveFacts
<1>4. act.steps \in Seq(Nat) /\ act.stepsDropped \in Nat /\ act.passes \in Nat /\ state \in State /\ state.at \in Nat
      /\ MaxSteps \in Nat \ {0}
  BY <1>3, BoundsAssumption DEF Incident, State, Logs
<1>5. Len(act.steps) <= MaxSteps
  BY <1>1, <1>2, <1>3 DEF Typed, Active
<1>6. Latest(act).shape = log[n].shape
  BY <1>1, <1>2 DEF Newest
<1>7. CASE state.shape = log[n].shape
  <2>1. PICK inc : inc = [act EXCEPT !.passes = @ + 1]
    OBVIOUS
  <2>2. incidents' = [incidents EXCEPT ![Len(incidents)] = inc] /\ dropped' = dropped
    BY <1>2, <1>6, <1>7, <2>1 DEF Continued, ReplaceActive
  <2>3. inc \in Incident
    <3>1. PICK p \in Nat : p = act.passes + 1
      BY <1>4
    <3>2. inc = [act EXCEPT !.passes = p]
      BY <2>1, <3>1
    <3> QED
      BY <1>3, <3>2 DEF Incident
  <2>4. /\ inc.started = act.started /\ inc.ended = act.ended /\ inc.passes = act.passes + 1
        /\ inc.before = act.before /\ inc.onset = act.onset /\ inc.recovered = act.recovered
        /\ inc.during = act.during /\ inc.steps = act.steps /\ inc.stepsDropped = act.stepsDropped
    BY <1>3, <2>1 DEF Incident
  <2> QED
    BY <1>2, <1>3, <1>5, <1>7, <2>2, <2>3, <2>4 DEF GoesOn
<1>8. CASE state.shape # log[n].shape
  <2>1. PICK all, r : all = Append(act.steps, state.at) /\ r = KeepNewest(all, MaxSteps)
    OBVIOUS
  <2>2. all \in Seq(Nat) /\ Len(all) = Len(act.steps) + 1
    BY <1>4, <2>1
  <2>3. r \in Seq(Nat) /\ Len(r) \in Nat /\ Len(r) <= MaxSteps /\ Len(r) <= Len(all)
    <3>1. r \in Seq(Nat) /\ Len(r) \in Nat /\ Len(r) = (IF Len(all) > MaxSteps THEN MaxSteps ELSE Len(all))
      BY <1>4, <2>1, <2>2, KeepFacts
    <3> QED
      BY <1>4, <2>2, <3>1, LenProperties
  <2>4. PICK left : left = act.stepsDropped + Len(all) - Len(r)
    OBVIOUS
  <2>5. left \in Nat
    <3>1. PICK a \in Nat, b \in Nat, c \in Nat : a = act.stepsDropped /\ b = Len(all) /\ c = Len(r) /\ c <= b
      BY <1>4, <2>2, <2>3, LenProperties
    <3> QED
      BY <2>4, <3>1
  <2>6. PICK inc : inc = [[act EXCEPT !.during = state, !.steps = r, !.stepsDropped = left] EXCEPT !.passes = @ + 1]
    OBVIOUS
  <2>7. incidents' = [incidents EXCEPT ![Len(incidents)] = inc] /\ dropped' = dropped
    <3>1. [act EXCEPT !.during = state, !.steps = r, !.stepsDropped = left]
            = [act EXCEPT !.during = state, !.steps = KeepNewest(Append(act.steps, state.at), MaxSteps),
                          !.stepsDropped = @ + Len(Append(act.steps, state.at))
                                             - Len(KeepNewest(Append(act.steps, state.at), MaxSteps))]
      BY <1>3, <2>1, <2>4 DEF Incident
    <3> QED
      BY <1>2, <1>6, <1>8, <2>6, <3>1 DEF Continued, ReplaceActive
  <2>8. inc \in Incident
    <3>1. PICK p \in Nat : p = act.passes + 1
      BY <1>4
    <3>2. PICK m : m = [act EXCEPT !.during = state, !.steps = r, !.stepsDropped = left]
      OBVIOUS
    <3>3. m \in Incident
      BY <1>3, <1>4, <2>3, <2>5, <3>2 DEF Incident
    <3>4. m.passes = act.passes
      BY <1>3, <3>2 DEF Incident
    <3>5. inc = [m EXCEPT !.passes = p]
      BY <2>6, <3>1, <3>2, <3>4
    <3> QED
      BY <3>1, <3>3, <3>5 DEF Incident
  <2>9. /\ inc.started = act.started /\ inc.ended = act.ended /\ inc.passes = act.passes + 1
        /\ inc.before = act.before /\ inc.onset = act.onset /\ inc.recovered = act.recovered
        /\ inc.during = state /\ inc.steps = r /\ inc.stepsDropped = left
    BY <1>3, <2>6 DEF Incident
  <2> QED
    BY <1>2, <1>3, <1>8, <2>1, <2>3, <2>4, <2>7, <2>8, <2>9 DEF GoesOn
<1> QED
  BY <1>7, <1>8

\* What a pass that does not fail makes of it.
LEMMA ClosedTakes ==
  ASSUME IInv, NEW n \in Nat, n = Len(log), NEW state, Logs(state), open, NotFailing(state)
  PROVE  \E act, inc \in Incident :
           /\ act = Active /\ incidents' = [incidents EXCEPT ![Len(incidents)] = inc] /\ dropped' = dropped
           /\ Len(inc.steps) <= MaxSteps
           /\ inc.started = act.started /\ inc.ended = state.at /\ inc.passes = act.passes
           /\ inc.before = act.before /\ inc.onset = act.onset /\ inc.during = act.during
           /\ inc.steps = act.steps /\ inc.stepsDropped = act.stepsDropped /\ inc.recovered = state
<1>1. Typed
  BY DEF IInv
<1>2. PICK act : act = Active
  OBVIOUS
<1>3. act \in Incident /\ Len(incidents) \in Nat \ {0} /\ DOMAIN incidents = 1..Len(incidents)
  BY <1>2, ActiveFacts
<1>4. Len(act.steps) <= MaxSteps
  BY <1>1, <1>2, <1>3 DEF Typed, Active
<1>5. state \in State /\ state.at \in Nat
  BY DEF Logs, State
<1>6. PICK inc : inc = [act EXCEPT !.ended = state.at, !.recovered = state]
  OBVIOUS
<1>7. incidents' = [incidents EXCEPT ![Len(incidents)] = inc] /\ dropped' = dropped
  BY <1>2, <1>6 DEF NotFailing, ReplaceActive
<1>8. inc \in Incident
  BY <1>3, <1>5, <1>6 DEF Incident
<1>9. /\ inc.started = act.started /\ inc.ended = state.at /\ inc.passes = act.passes
      /\ inc.before = act.before /\ inc.onset = act.onset /\ inc.during = act.during
      /\ inc.steps = act.steps /\ inc.stepsDropped = act.stepsDropped /\ inc.recovered = state
  BY <1>3, <1>6 DEF Incident
<1> QED
  BY <1>2, <1>3, <1>4, <1>7, <1>8, <1>9

\* The open incident is told anew and the others, which are over, as before.
LEMMA ReplacedTold ==
  ASSUME IInv, open, NEW n \in Nat, n = Len(log), NEW state, Logs(state),
         NEW inc \in Incident, incidents' = [incidents EXCEPT ![Len(incidents)] = inc], dropped' = dropped,
         NEW e \in Nat, Onsets' = Onsets, open' <=> log' # <<>> /\ log'[Len(log')].failing,
         \A i \in 1..n : IsEnd(i, n + 1) /\ IsFailure(Active, i, n + 1) =>
           e \in i+1..n+2 /\ EndOf(i)' = e /\ IsEnd(i, e)' /\ IsFailure(inc, i, e)'
  PROVE  /\ IncidentsAreTheFailures'
         /\ \A i \in Onsets' : \E d \in i+1..Len(log')+1 : IsEnd(i, d)'
         /\ \E i \in Onsets' : IsEnd(i, e)'
<1>1. Typed /\ Newest /\ IncidentsAreTheFailures
  BY DEF IInv
<1>2. PICK l \in Nat \ {0} : l = Len(incidents) /\ DOMAIN incidents = 1..l
  BY ActiveFacts
<1>3. PICK i \in Onsets : /\ IsEnd(i, n + 1) /\ IsFailure(Active, i, n + 1)
                          /\ Place(i, Onsets) - dropped = l
                          /\ \A j \in Onsets \ {i} : /\ Place(j, Onsets) - dropped < l
                                                  /\ \A d : IsEnd(j, d) => d \in j+1..n
  BY <1>2, ActiveFacts
<1>4. Onsets \subseteq 1..n /\ Len(log') = n + 1
  BY <1>1, OnsetFacts, LogGrows
<1>5. e \in i+1..n+2 /\ EndOf(i)' = e /\ IsEnd(i, e)' /\ IsFailure(inc, i, e)'
  BY <1>3, <1>4
<1>6. \A j \in Onsets \ {i} : \E d \in j+1..n : IsEnd(j, d)
  <2> SUFFICES ASSUME NEW j \in Onsets \ {i} PROVE \E d \in j+1..n : IsEnd(j, d)
    OBVIOUS
  <2>1. PICK d : IsEnd(j, d)
    BY <1>1 DEF Newest
  <2> QED
    BY <1>3, <2>1
<1>7. PICK r : /\ r = incidents' /\ r[l] = inc /\ Len(r) = l
               /\ \A k \in 1..l : k # l => r[k] = incidents[k]
  BY <1>1, <1>2, Replaces
<1>8. ASSUME NEW j \in Onsets, Place(j, Onsets) - dropped > 0
      PROVE  \E it, d : it = r[Place(j, Onsets) - dropped] /\ EndOf(j)' = d /\ IsFailure(it, j, d)'
  <2>1. CASE j = i
    BY <1>3, <1>5, <1>7, <2>1
  <2>2. CASE j # i
    <3>1. PICK d \in j+1..n : IsEnd(j, d)
      BY <1>6, <2>2
    <3>2. /\ EndOf(j)' = d /\ Place(j, Onsets) - dropped \in 1..l
          /\ \E it : it = incidents[Place(j, Onsets) - dropped] /\ IsFailure(it, j, d)'
      BY <1>2, <1>8, <3>1, OverTold
    <3>3. Place(j, Onsets) - dropped # l
      <4>1. Place(j, Onsets) - dropped < l
        BY <1>3, <2>2
      <4>2. \A k \in 1..l : k < l => k # l
        OBVIOUS
      <4> QED
        BY <3>2, <4>1, <4>2
    <3>4. r[Place(j, Onsets) - dropped] = incidents[Place(j, Onsets) - dropped]
      BY <1>7, <3>2, <3>3
    <3> QED
      BY <3>2, <3>4
  <2> QED
    BY <2>1, <2>2
<1>9. IsNewest(Len(incidents'), dropped', Onsets, MaxIncidents)
  BY <1>1, <1>2, <1>7 DEF IncidentsAreTheFailures
<1>10. IncidentsAreTheFailures'
  <2>1. PICK S : S = Onsets
    OBVIOUS
  <2>2. Onsets' = S /\ IsNewest(Len(incidents'), dropped', S, MaxIncidents)
    BY <1>9, <2>1
  <2>3. \A j \in S : Place(j, S) - dropped' > 0 =>
          \E it, d : it = incidents'[Place(j, S) - dropped'] /\ EndOf(j)' = d /\ IsFailure(it, j, d)'
    BY <1>7, <1>8, <2>1
  <2> QED
    BY <2>2, <2>3, IncidentsNext
<1>11. \A j \in Onsets' : \E d \in j+1..Len(log')+1 : IsEnd(j, d)'
  <2> SUFFICES ASSUME NEW j \in Onsets PROVE \E d \in j+1..Len(log')+1 : IsEnd(j, d)'
    OBVIOUS
  <2>1. CASE j = i
    <3>1. e \in i+1..Len(log')+1
      BY <1>4, <1>5
    <3> QED
      BY <1>5, <2>1, <3>1
  <2>2. CASE j # i
    <3>1. PICK d \in j+1..n : IsEnd(j, d)
      BY <1>6, <2>2
    <3>2. IsEnd(j, d)'
      BY <1>1, <1>4, <3>1, OverStays
    <3>3. d \in j+1..Len(log')+1
      BY <1>4, <3>1
    <3> QED
      BY <3>2, <3>3
  <2> QED
    BY <2>1, <2>2
<1>12. \E j \in Onsets' : IsEnd(j, e)'
  BY <1>5
<1> QED
  BY <1>10, <1>11, <1>12

LEMMA ContinuedTold ==
  ASSUME IInv, NEW n \in Nat, n = Len(log), NEW state, Logs(state), state.failing, open, Continued(state)
  PROVE  /\ IncidentsAreTheFailures'
         /\ \A i \in Onsets' : \E d \in i+1..Len(log')+1 : IsEnd(i, d)'
         /\ \E i \in Onsets' : IsEnd(i, n + 2)'
<1>1. Typed
  BY DEF IInv
<1>2. PICK act, inc \in Incident :
           /\ act = Active /\ incidents' = [incidents EXCEPT ![Len(incidents)] = inc] /\ dropped' = dropped
           /\ GoesOn(act, inc, state, state.shape # log[n].shape)
  BY ContinuedTakes
<1>3. log[n].failing /\ n # 0
  BY ActiveFacts
<1>4. Onsets' = Onsets
  <2>1. log # <<>>
    BY <1>1, <1>3, EmptySeq
  <2> QED
    BY <1>1, <1>3, <2>1, OnsetsGrow
<1>5. open' <=> log' # <<>> /\ log'[Len(log')].failing
  BY <1>1, LogGrows DEF Continued
<1>6. ASSUME NEW i \in 1..n, IsEnd(i, n + 1), IsFailure(act, i, n + 1)
      PROVE  n + 2 \in i+1..n+2 /\ EndOf(i)' = n + 2 /\ IsEnd(i, n + 2)' /\ IsFailure(inc, i, n + 2)'
  <2>1. EndOf(i)' = n + 2 /\ IsEnd(i, n + 2)'
    BY <1>1, <1>6, StretchLasts
  <2>2. IsFailure(inc, i, n + 2)'
    <3>1. CASE state.shape = log[n].shape
      <4>1. /\ inc.started = act.started /\ inc.ended = act.ended /\ inc.passes = act.passes + 1
            /\ inc.before = act.before /\ inc.onset = act.onset /\ inc.recovered = act.recovered
            /\ inc.during = act.during /\ inc.steps = act.steps /\ inc.stepsDropped = act.stepsDropped
        BY <1>2, <3>1 DEF GoesOn
      <4> QED
        BY <1>1, <1>2, <1>6, <3>1, <4>1, FailureStays
    <3>2. CASE state.shape # log[n].shape
      <4>1. PICK steps : steps = Append(act.steps, state.at)
        OBVIOUS
      <4>2. /\ inc.during = state /\ inc.steps = KeepNewest(steps, MaxSteps)
            /\ inc.stepsDropped = act.stepsDropped + Len(steps) - Len(KeepNewest(steps, MaxSteps))
        BY <1>2, <3>2, <4>1 DEF GoesOn
      <4>3. /\ inc.started = act.started /\ inc.ended = act.ended /\ inc.passes = act.passes + 1
            /\ inc.before = act.before /\ inc.onset = act.onset /\ inc.recovered = act.recovered
        BY <1>2 DEF GoesOn
      <4> QED
        BY <1>1, <1>2, <1>6, <3>2, <4>1, <4>2, <4>3, FailureMoves
    <3> QED
      BY <3>1, <3>2
  <2> QED
    BY <2>1, <2>2
<1>7. n + 2 \in Nat /\ \A i \in 1..n : IsEnd(i, n + 1) /\ IsFailure(Active, i, n + 1) =>
         n + 2 \in i+1..n+2 /\ EndOf(i)' = n + 2 /\ IsEnd(i, n + 2)' /\ IsFailure(inc, i, n + 2)'
  BY <1>2, <1>6
<1> QED
  BY <1>2, <1>4, <1>5, <1>7, ReplacedTold

LEMMA ClosedTold ==
  ASSUME IInv, NEW n \in Nat, n = Len(log), NEW state, Logs(state), ~state.failing, NotFailing(state)
  PROVE  /\ IncidentsAreTheFailures'
         /\ \A i \in Onsets' : \E d \in i+1..Len(log')+1 : IsEnd(i, d)'
<1>1. Typed /\ Newest /\ IncidentsAreTheFailures
  BY DEF IInv
<1>2. Onsets' = Onsets /\ Onsets \subseteq 1..n
  BY <1>1, OnsetFacts, OnsetsGrow
<1>3. open' <=> log' # <<>> /\ log'[Len(log')].failing
  BY <1>1, LogGrows DEF NotFailing
<1>4. CASE open
  <2>1. PICK act, inc \in Incident :
           /\ act = Active /\ incidents' = [incidents EXCEPT ![Len(incidents)] = inc] /\ dropped' = dropped
           /\ inc.started = act.started /\ inc.ended = state.at /\ inc.passes = act.passes
           /\ inc.before = act.before /\ inc.onset = act.onset /\ inc.during = act.during
           /\ inc.steps = act.steps /\ inc.stepsDropped = act.stepsDropped /\ inc.recovered = state
    BY <1>4, ClosedTakes
  <2>2. ASSUME NEW i \in 1..n, IsEnd(i, n + 1), IsFailure(act, i, n + 1)
        PROVE  n + 1 \in i+1..n+2 /\ EndOf(i)' = n + 1 /\ IsEnd(i, n + 1)' /\ IsFailure(inc, i, n + 1)'
    <3>1. EndOf(i)' = n + 1 /\ IsEnd(i, n + 1)'
      BY <1>1, <2>2, StretchEnds
    <3>2. IsFailure(inc, i, n + 1)'
      BY <1>1, <2>1, <2>2, FailureEnds
    <3> QED
      BY <3>1, <3>2
  <2>3. n + 1 \in Nat /\ \A i \in 1..n : IsEnd(i, n + 1) /\ IsFailure(Active, i, n + 1) =>
           n + 1 \in i+1..n+2 /\ EndOf(i)' = n + 1 /\ IsEnd(i, n + 1)' /\ IsFailure(inc, i, n + 1)'
    BY <2>1, <2>2
  <2> QED
    BY <1>2, <1>3, <1>4, <2>1, <2>3, ReplacedTold
<1>5. CASE ~open
  <2>1. incidents' = incidents /\ dropped' = dropped
    BY <1>5 DEF NotFailing
  <2>2. log = <<>> \/ ~log[Len(log)].failing
    BY <1>1, <1>5 DEF IncidentsAreTheFailures
  <2>3. \A i \in Onsets : \E e \in i+1..n : IsEnd(i, e)
    <3> SUFFICES ASSUME NEW i \in Onsets PROVE \E e \in i+1..n : IsEnd(i, e)
      OBVIOUS
    <3>1. PICK e : IsEnd(i, e)
      BY <1>1 DEF Newest
    <3> QED
      BY <1>1, <2>2, <3>1, AllOver
  <2>4. PICK r, left, S : r = incidents /\ left = dropped /\ S = Onsets
    OBVIOUS
  <2>5. ASSUME NEW i \in S, Place(i, S) - left > 0
        PROVE  \E inc, e : inc = r[Place(i, S) - left] /\ EndOf(i)' = e /\ IsFailure(inc, i, e)'
    <3>1. PICK e \in i+1..n : IsEnd(i, e)
      BY <2>3, <2>4
    <3>2. EndOf(i)' = e /\ \E inc : inc = incidents[Place(i, Onsets) - dropped] /\ IsFailure(inc, i, e)'
      BY <2>4, <2>5, <3>1, OverTold
    <3> QED
      BY <2>4, <3>2
  <2>6. IncidentsAreTheFailures'
    <3>1. Onsets' = S /\ IsNewest(Len(incidents'), dropped', S, MaxIncidents)
      BY <1>1, <1>2, <2>1, <2>4 DEF IncidentsAreTheFailures
    <3>2. \A i \in S : Place(i, S) - dropped' > 0 =>
            \E inc, e : inc = incidents'[Place(i, S) - dropped'] /\ EndOf(i)' = e /\ IsFailure(inc, i, e)'
      BY <2>1, <2>4, <2>5
    <3> QED
      BY <1>3, <3>1, <3>2, IncidentsNext
  <2>7. \A i \in Onsets : \E d \in i+1..Len(log')+1 : IsEnd(i, d)'
    <3> SUFFICES ASSUME NEW i \in Onsets PROVE \E d \in i+1..Len(log')+1 : IsEnd(i, d)'
      OBVIOUS
    <3>1. PICK d \in i+1..n : IsEnd(i, d)
      BY <2>3
    <3>2. IsEnd(i, d)'
      BY <1>1, <1>2, <3>1, OverStays
    <3>3. d \in i+1..Len(log')+1
      <4>1. Len(log') = n + 1 /\ i \in 1..n
        BY <1>1, <1>2, LogGrows
      <4> QED
        BY <3>1, <4>1
    <3> QED
      BY <3>2, <3>3
  <2> QED
    BY <1>2, <2>6, <2>7
<1> QED
  BY <1>4, <1>5

-----------------------------------------------------------------------------
\* What holds of every incident of the list, at time t.
ListOK(list, t) ==
  /\ list \in Seq(Incident) /\ Len(list) <= MaxIncidents
  /\ \A i \in 1..Len(list) : Len(list[i].steps) <= MaxSteps /\ list[i].started <= t /\ Sound(list[i])
  /\ \A i, j \in 1..Len(list) : i < j => list[i].started < list[j].started

LEMMA ListFacts ==
  ASSUME Typed, InOrder, Clean
  PROVE  ListOK(incidents, now)
<1>1. incidents \in Seq(Incident) /\ DOMAIN incidents = 1..Len(incidents)
  BY LenProperties DEF Typed
<1> QED
  BY <1>1 DEF ListOK, Typed, InOrder, Clean

LEMMA ListAdds ==
  ASSUME NEW list, NEW t \in Nat, ListOK(list, t), NEW c \in Incident, c.started = t + 1, Sound(c),
         Len(c.steps) <= MaxSteps
  PROVE  LET r == KeepNewest(Append(list, c), MaxIncidents)
         IN ListOK(r, t + 1) /\ Len(r) \in Nat \ {0} /\ r[Len(r)] = c
<1>1. list \in Seq(Incident) /\ MaxIncidents \in Nat \ {0}
  BY BoundsAssumption DEF ListOK
<1>2. PICK n \in Nat : n = Len(list)
  BY <1>1, LenProperties
<1>3. PICK all \in Seq(Incident) : all = Append(list, c)
  <2>1. Append(list, c) \in Seq(Incident)
    BY <1>1
  <2> QED
    BY <2>1
<1>4. Len(all) = n + 1 /\ all[n + 1] = c /\ \A k \in 1..n : all[k] = list[k]
  BY <1>1, <1>2, <1>3
<1>5. PICK r : r = KeepNewest(all, MaxIncidents)
  OBVIOUS
<1>6. PICK l \in Nat : /\ r \in Seq(Incident) /\ l = Len(r)
                       /\ l = (IF n + 1 > MaxIncidents THEN MaxIncidents ELSE n + 1)
                       /\ \A k \in 1..l : r[k] = all[k + (n + 1) - l] /\ k + (n + 1) - l \in 1..n+1
  <2>1. /\ r \in Seq(Incident) /\ Len(r) = (IF Len(all) > MaxIncidents THEN MaxIncidents ELSE Len(all))
        /\ Len(r) \in Nat
        /\ \A k \in 1..Len(r) : r[k] = all[k + Len(all) - Len(r)] /\ k + Len(all) - Len(r) \in 1..Len(all)
    BY <1>1, <1>5, KeepFacts
  <2> QED
    BY <1>4, <2>1
<1>7. l # 0 /\ l <= MaxIncidents
  BY <1>1, <1>6
<1>8. \A k \in 1..n+1 : /\ Len(all[k].steps) <= MaxSteps /\ Sound(all[k])
                        /\ all[k].started <= t + 1 /\ (k # n + 1 => all[k].started <= t)
                        /\ all[k].started \in Nat
  <2> SUFFICES ASSUME NEW k \in 1..n+1
               PROVE  /\ Len(all[k].steps) <= MaxSteps /\ Sound(all[k])
                      /\ all[k].started <= t + 1 /\ (k # n + 1 => all[k].started <= t)
                      /\ all[k].started \in Nat
    OBVIOUS
  <2>1. all[k].started \in Nat
    <3>1. all[k] \in Incident
      BY <1>3, <1>4
    <3> QED
      BY <3>1 DEF Incident
  <2>2. CASE k = n + 1
    <3>1. all[k] = c
      BY <1>4, <2>2
    <3> QED
      BY <2>2, <3>1
  <2>3. CASE k # n + 1
    <3>1. k \in 1..n
      BY <2>3
    <3>2. Len(list[k].steps) <= MaxSteps /\ list[k].started <= t /\ Sound(list[k])
      BY <1>2, <3>1 DEF ListOK
    <3>3. all[k] = list[k]
      BY <1>4, <3>1
    <3> QED
      BY <2>1, <3>2, <3>3
  <2> QED
    BY <2>2, <2>3
<1>9. \A i, j \in 1..n+1 : i < j => all[i].started < all[j].started
  <2> SUFFICES ASSUME NEW i \in 1..n+1, NEW j \in 1..n+1, i < j PROVE all[i].started < all[j].started
    OBVIOUS
  <2>1. i \in 1..n
    OBVIOUS
  <2>2. CASE j = n + 1
    <3>1. all[j].started = t + 1 /\ all[i].started <= t /\ all[i].started \in Nat
      BY <1>4, <1>8, <2>1, <2>2
    <3> QED
      BY <3>1
  <2>3. CASE j # n + 1
    <3>1. j \in 1..n
      BY <2>3
    <3> QED
      BY <1>2, <1>4, <2>1, <3>1 DEF ListOK
  <2> QED
    BY <2>2, <2>3
<1>10. \A k \in 1..l : Len(r[k].steps) <= MaxSteps /\ r[k].started <= t + 1 /\ Sound(r[k])
  BY <1>6, <1>8
<1>11. \A i, j \in 1..l : i < j => r[i].started < r[j].started
  <2> SUFFICES ASSUME NEW i \in 1..l, NEW j \in 1..l, i < j PROVE r[i].started < r[j].started
    OBVIOUS
  <2>1. PICK p \in 1..n+1, q \in 1..n+1 : p = i + (n + 1) - l /\ q = j + (n + 1) - l
    BY <1>6
  <2>2. r[i] = all[p] /\ r[j] = all[q]
    BY <1>6, <2>1
  <2>3. p < q
    BY <2>1
  <2> QED
    BY <1>9, <2>2, <2>3
<1>12. r[l] = c
  <2>1. l \in 1..l /\ l + (n + 1) - l = n + 1
    BY <1>7
  <2> QED
    BY <1>4, <1>6, <2>1
<1>13. ListOK(r, t + 1)
  BY <1>6, <1>7, <1>10, <1>11 DEF ListOK
<1> QED
  BY <1>3, <1>5, <1>6, <1>7, <1>12, <1>13

LEMMA ListSwaps ==
  ASSUME Typed, ListOK(incidents, now), NEW l \in Nat \ {0}, l = Len(incidents),
         NEW inc \in Incident, inc.started = incidents[l].started, Sound(inc), Len(inc.steps) <= MaxSteps,
         incidents' = [incidents EXCEPT ![Len(incidents)] = inc]
  PROVE  ListOK(incidents', now + 1) /\ Len(incidents') = l /\ incidents'[l] = inc
<1>1. /\ incidents' \in Seq(Incident) /\ Len(incidents') = l
      /\ incidents'[l] = inc /\ \A k \in 1..l : k # l => incidents'[k] = incidents[k]
  BY Replaces
<1>2. now \in Nat /\ Len(incidents) <= MaxIncidents
  BY DEF Typed
<1>3. \A k \in 1..l : incidents'[k].started = incidents[k].started /\ incidents[k].started \in Nat
  <2>1. \A k \in 1..l : incidents[k] \in Incident
    BY DEF ListOK
  <2> QED
    BY <1>1, <2>1 DEF Incident
<1>4. \A k \in 1..l : Len(incidents'[k].steps) <= MaxSteps /\ Sound(incidents'[k])
  BY <1>1 DEF ListOK
<1>5. \A k \in 1..l : incidents'[k].started <= now + 1
  BY <1>2, <1>3 DEF ListOK
<1>6. \A i, j \in 1..l : i < j => incidents'[i].started < incidents'[j].started
  BY <1>3 DEF ListOK
<1>7. ListOK(incidents', now + 1)
  BY <1>1, <1>2, <1>4, <1>5, <1>6 DEF ListOK
<1> QED
  BY <1>1, <1>7

\* The newest incident after the pass tells of the pass's shape, and is not over.
Lasts(inc, state) == Latest(inc).shape = state.shape /\ inc.ended = Absent /\ inc.recovered = None

LEMMA NoStateIsNone ==
  ASSUME NEW s \in State
  PROVE  s # None
<1>1. s.at # 0 /\ None.at = 0
  BY DEF State, None
<1> QED
  BY <1>1

\* What the timeline is after each kind of pass.
Observed(state) ==
  /\ ListOK(incidents', now') /\ (Len(incidents') = 0 => Len(incidents) = 0)
  /\ dropped' \in Nat /\ open' \in BOOLEAN
  /\ baseline' \in State \cup {None} /\ (baseline' # None => ~baseline'.straddled /\ baseline'.fresh)
  /\ open' => /\ Len(incidents') \in Nat \ {0} /\ Lasts(incidents'[Len(incidents')], state)
              /\ \E e : e = Len(log') + 1 /\ \E i \in Onsets' : IsEnd(i, e)'
  /\ ~open' => baseline' = state
  /\ \A i \in Onsets' : \E e \in i+1..Len(log')+1 : IsEnd(i, e)'
  /\ IncidentsAreTheFailures'

LEMMA BeginObserved ==
  ASSUME IInv, NEW n \in Nat, n = Len(log), NEW state, Logs(state), state.at = now + 1,
         now' = now + 1, state.fresh, 
         state.failing, ~open, Begin(state)
  PROVE  Observed(state)
<1>1. Typed /\ InOrder /\ Clean /\ now \in Nat
  BY DEF IInv, Typed
<1>2. PICK c : c = Begun(state)
  OBVIOUS
<1>3. /\ c \in Incident /\ Onsets' = Onsets \cup {n + 1}
      /\ incidents' = KeepNewest(Append(incidents, c), MaxIncidents)
      /\ TakesIn(incidents, c, MaxIncidents, dropped, Onsets, n + 1, incidents', dropped', Incident)
  BY <1>2, BeginTakes
<1>4. /\ c.started = now + 1 /\ c.before = baseline /\ c.recovered = None /\ c.onset = state /\ c.during = None
      /\ c.ended = Absent /\ c.steps = <<>>
  BY <1>2 DEF Begun
<1>5. Sound(c)
  BY <1>1, <1>4 DEF Sound, Latest, Clean
<1>6. Len(c.steps) <= MaxSteps
  <2>1. Len(c.steps) = 0
    BY <1>4, EmptySeq
  <2> QED
    BY <2>1, BoundsAssumption
<1>7. ListOK(incidents, now)
  BY <1>1, ListFacts
<1>8. ListOK(incidents', now + 1) /\ Len(incidents') \in Nat \ {0} /\ incidents'[Len(incidents')] = c
  BY <1>1, <1>3, <1>4, <1>5, <1>6, <1>7, ListAdds
<1>9. dropped' \in Nat
  BY <1>3 DEF TakesIn
<1>10. open' = TRUE /\ baseline' = baseline
  BY DEF Begin
<1>11. Lasts(c, state)
  BY <1>4 DEF Lasts, Latest
<1>12. IncidentsAreTheFailures' /\ \A i \in Onsets' : \E e \in i+1..Len(log')+1 : IsEnd(i, e)'
  BY BeginTold
<1>13. \E e : e = Len(log') + 1 /\ \E i \in Onsets' : IsEnd(i, e)'
  <2>1. PICK e : e = n + 2 /\ e = Len(log') + 1
    BY <1>1, LogGrows
  <2>2. IsEnd(n + 1, n + 2)'
    BY <1>1, StretchBegins
  <2>3. PICK i : i = n + 1
    OBVIOUS
  <2>4. IsEnd(i, e)' /\ i \in Onsets'
    BY <1>3, <2>1, <2>2, <2>3
  <2> QED
    BY <2>1, <2>4
<1> QED
  BY <1>1, <1>8, <1>9, <1>10, <1>11, <1>12, <1>13 DEF Observed, Typed, Clean

LEMMA ContinuedObserved ==
  ASSUME IInv, NEW n \in Nat, n = Len(log), NEW state, Logs(state), state.at = now + 1,
         now' = now + 1, state.fresh, 
         state.failing, open, Continued(state)
  PROVE  Observed(state)
<1>1. Typed /\ InOrder /\ Clean /\ Newest /\ now \in Nat
  BY DEF IInv, Typed
<1>2. PICK act, inc \in Incident :
        /\ act = Active /\ incidents' = [incidents EXCEPT ![Len(incidents)] = inc] /\ dropped' = dropped
        /\ Len(inc.steps) <= MaxSteps /\ GoesOn(act, inc, state, state.shape # log[n].shape)
  BY ContinuedTakes
<1>3. PICK l \in Nat \ {0} : l = Len(incidents) /\ DOMAIN incidents = 1..l
  BY ActiveFacts
<1>4. act = incidents[l] /\ Sound(act) /\ Lasts(act, log[n])
  BY <1>1, <1>2, <1>3 DEF Clean, Active, Newest, Lasts
<1>5. /\ inc.started = act.started /\ inc.ended = act.ended /\ inc.before = act.before
      /\ inc.onset = act.onset /\ inc.recovered = act.recovered
      /\ (inc.during = act.during /\ state.shape = log[n].shape) \/ inc.during = state
  BY <1>2 DEF GoesOn
<1>6. state # None
  BY NoStateIsNone DEF Logs
<1>7. Sound(inc)
  BY <1>4, <1>5, <1>6 DEF Sound, Latest
<1>8. Lasts(inc, state)
  BY <1>4, <1>5, <1>6 DEF Lasts, Latest
<1>9. ListOK(incidents, now)
  BY <1>1, ListFacts
<1>11. ListOK(incidents', now + 1) /\ Len(incidents') = l /\ incidents'[l] = inc
  <2>1. inc.started = incidents[l].started
    BY <1>4, <1>5
  <2>2. Len(inc.steps) <= MaxSteps /\ inc \in Incident
    BY <1>2
  <2> QED
    BY <1>1, <1>2, <1>3, <1>7, <1>9, <2>1, <2>2, ListSwaps
<1>12. open' = TRUE /\ baseline' = baseline
  BY DEF Continued
<1>13. /\ IncidentsAreTheFailures' /\ \A i \in Onsets' : \E e \in i+1..Len(log')+1 : IsEnd(i, e)'
       /\ \E i \in Onsets' : IsEnd(i, n + 2)'
  BY ContinuedTold
<1>14. \E e : e = Len(log') + 1 /\ \E i \in Onsets' : IsEnd(i, e)'
  <2>1. PICK e : e = n + 2 /\ e = Len(log') + 1
    BY <1>1, LogGrows
  <2>2. PICK i : i \in Onsets' /\ IsEnd(i, n + 2)'
    BY <1>13
  <2> QED
    BY <2>1, <2>2
<1> QED
  BY <1>1, <1>2, <1>3, <1>8, <1>11, <1>12, <1>13, <1>14 DEF Observed, Typed, Clean

LEMMA ClosedObserved ==
  ASSUME IInv, NEW n \in Nat, n = Len(log), NEW state, Logs(state), state.at = now + 1,
         now' = now + 1, state.fresh, 
         ~state.straddled, ~state.failing, NotFailing(state)
  PROVE  Observed(state)
<1>1. Typed /\ InOrder /\ Clean /\ now \in Nat
  BY DEF IInv, Typed
<1>2. ListOK(incidents, now)
  BY <1>1, ListFacts
<1>3. ListOK(incidents', now + 1) /\ Len(incidents') = Len(incidents) /\ dropped' = dropped
  <2>1. CASE open
    <3>1. PICK act, inc \in Incident :
            /\ act = Active /\ incidents' = [incidents EXCEPT ![Len(incidents)] = inc] /\ dropped' = dropped
            /\ Len(inc.steps) <= MaxSteps
            /\ inc.started = act.started /\ inc.ended = state.at /\ inc.passes = act.passes
            /\ inc.before = act.before /\ inc.onset = act.onset /\ inc.during = act.during
            /\ inc.steps = act.steps /\ inc.stepsDropped = act.stepsDropped /\ inc.recovered = state
      BY <2>1, ClosedTakes
    <3>2. PICK l \in Nat \ {0} : l = Len(incidents) /\ DOMAIN incidents = 1..l
      BY <2>1, ActiveFacts
    <3>3. act = incidents[l] /\ Sound(act)
      BY <1>1, <3>1, <3>2 DEF Clean, Active
    <3>4. Sound(inc)
      BY <3>1, <3>3 DEF Sound, Latest
    <3>5. inc.started = incidents[l].started
      BY <3>1, <3>3
    <3> QED
      BY <1>1, <1>2, <3>1, <3>2, <3>4, <3>5, ListSwaps
  <2>2. CASE ~open
    <3>1. incidents' = incidents /\ dropped' = dropped
      BY <2>2 DEF NotFailing
    <3>2. \A i \in 1..Len(incidents) : incidents[i].started \in Nat
      <4>1. \A i \in 1..Len(incidents) : incidents[i] \in Incident
        BY <1>1 DEF Typed
      <4> QED
        BY <4>1 DEF Incident
    <3>3. \A i \in 1..Len(incidents) : incidents[i].started <= now + 1
      BY <1>1, <1>2, <3>2 DEF ListOK
    <3> QED
      BY <1>2, <3>1, <3>3 DEF ListOK
  <2> QED
    BY <2>1, <2>2
<1>4. open' = FALSE /\ baseline' = state /\ state \in State
  BY DEF NotFailing, Logs
<1>5. IncidentsAreTheFailures' /\ \A i \in Onsets' : \E e \in i+1..Len(log')+1 : IsEnd(i, e)'
  BY ClosedTold
<1> QED
  BY <1>1, <1>3, <1>4, <1>5 DEF Observed, Typed

-----------------------------------------------------------------------------
\* The steps.

LEMMA PublishStep ==
  ASSUME IInv, NEW p \in Passes, Evidence(p), NEW state,
         state = [at |-> now + 1, failing |-> p.failing, shape |-> p.shape, straddled |-> p.straddled, fresh |-> p.fresh],
         now < MaxPasses, now' = now + 1, Observe(state), Reselect, log' = Append(log, state)
  PROVE  IInv'
<1>1. Typed /\ InOrder /\ Clean /\ now \in Nat /\ MaxPasses \in Nat
  BY BoundsAssumption DEF IInv, Typed
<1>2. PICK n \in Nat : n = Len(log) /\ DOMAIN log = 1..n /\ \A k \in 1..n : log[k] \in State
  BY <1>1, OnsetFacts
<1>3. Logs(state)
  BY <1>1 DEF Logs, State, Passes
<1>4. /\ state.at = now + 1 /\ state.fresh /\ (state.failing \/ ~state.straddled)
  BY DEF Evidence
<1>5. Observed(state)
  BY <1>2, <1>3, <1>4, BeginObserved, ContinuedObserved, ClosedObserved DEF Observe
<1>6. PICK l \in Nat : /\ l = Len(incidents') /\ DOMAIN incidents' = 1..l /\ ListOK(incidents', now')
                       /\ incidents' \in Seq(Incident) /\ l <= MaxIncidents
                       /\ (incidents' # <<>> <=> l # 0)
  BY <1>5, LenProperties, EmptySeq DEF Observed, ListOK
<1>7. /\ log' \in Seq(State) /\ log' # <<>> /\ Len(log') = n + 1 /\ DOMAIN log' = 1..n+1 /\ log'[n + 1] = state
      /\ \A k \in 1..n : log'[k] = log[k]
  BY <1>1, <1>2, <1>3, LogGrows
<1>8. /\ viewing' = viewing /\ told' \in BOOLEAN /\ selected' \in 1..MaxIncidents
      /\ (incidents' # <<>> => selected' \in DOMAIN incidents') /\ (viewing' => incidents' # <<>>)
  <2>1. viewing => l # 0
    BY <1>1, <1>5, <1>6, EmptySeq DEF Observed, Typed
  <2>2. selected' \in 1..MaxIncidents /\ (l # 0 => selected' \in 1..l)
    <3>1. MaxIncidents \in Nat \ {0}
      BY BoundsAssumption
    <3>2. CASE ~viewing
      <4>1. selected' = IF l = 0 THEN 1 ELSE l
        BY <1>6, <3>2 DEF Reselect, Clamp
      <4> QED
        BY <1>6, <3>1, <4>1
    <3>3. CASE viewing
      <4>1. selected' \in 1..l \/ selected' = 1
        BY <1>6, <3>3 DEF Reselect
      <4> QED
        BY <1>6, <3>1, <4>1
    <3> QED
      BY <3>2, <3>3
  <2>3. viewing' = viewing /\ told' \in BOOLEAN
    BY DEF Reselect
  <2> QED
    BY <1>6, <2>1, <2>2, <2>3
<1>9. Typed'
  <2>1. \A i \in 1..l : Len(incidents'[i].steps) <= MaxSteps
    BY <1>6 DEF ListOK
  <2>2. open' \in BOOLEAN /\ baseline' \in State \cup {None} /\ dropped' \in Nat /\ now' \in 0..MaxPasses
    BY <1>1, <1>5 DEF Observed
  <2>3. viewing' \in BOOLEAN /\ (open' => incidents' # <<>>)
    BY <1>1, <1>5, <1>6, <1>8 DEF Observed, Typed
  <2> QED
    BY <1>6, <1>7, <1>8, <2>1, <2>2, <2>3 DEF Typed, None
<1>10. InOrder'
  <2>1. \A i \in 1..n+1 : log'[i].at <= now + 1
    <3> SUFFICES ASSUME NEW i \in 1..n+1 PROVE log'[i].at <= now + 1
      OBVIOUS
    <3>1. CASE i = n + 1
      BY <1>1, <1>4, <1>7, <3>1
    <3>2. CASE i # n + 1
      <4>1. i \in 1..n /\ log[i] \in State
        BY <1>2, <3>2
      <4>2. log[i].at <= now /\ log[i].at \in Nat
        BY <1>1, <1>2, <4>1 DEF InOrder, State
      <4> QED
        BY <1>1, <1>7, <4>1, <4>2
    <3> QED
      BY <3>1, <3>2
  <2>2. \A i, j \in 1..n+1 : i < j => log'[i].at < log'[j].at
    <3> SUFFICES ASSUME NEW i \in 1..n+1, NEW j \in 1..n+1, i < j PROVE log'[i].at < log'[j].at
      OBVIOUS
    <3>1. i \in 1..n
      OBVIOUS
    <3>2. CASE j = n + 1
      <4>1. log[i].at <= now /\ log[i].at \in Nat
        BY <1>1, <1>2, <3>1 DEF InOrder, State
      <4> QED
        BY <1>1, <1>4, <1>7, <3>1, <3>2, <4>1
    <3>3. CASE j # n + 1
      <4>1. j \in 1..n
        BY <3>3
      <4> QED
        BY <1>1, <1>2, <1>7, <3>1, <4>1 DEF InOrder
    <3> QED
      BY <3>2, <3>3
  <2> QED
    BY <1>6, <1>7, <2>1, <2>2 DEF InOrder, ListOK
<1>11. Clean'
  <2>1. \A i \in 1..n+1 : log'[i].fresh /\ (log'[i].failing \/ ~log'[i].straddled)
    <3> SUFFICES ASSUME NEW i \in 1..n+1 PROVE log'[i].fresh /\ (log'[i].failing \/ ~log'[i].straddled)
      OBVIOUS
    <3>1. CASE i = n + 1
      BY <1>4, <1>7, <3>1
    <3>2. CASE i # n + 1
      <4>1. i \in 1..n
        BY <3>2
      <4> QED
        BY <1>1, <1>2, <1>7, <4>1 DEF Clean
    <3> QED
      BY <3>1, <3>2
  <2>2. baseline' # None => ~baseline'.straddled /\ baseline'.fresh
    BY <1>5 DEF Observed
  <2>3. \A i \in 1..l : Sound(incidents'[i])
    BY <1>6 DEF ListOK
  <2> QED
    BY <1>6, <1>7, <2>1, <2>2, <2>3 DEF Clean, Sound, None, Latest
<1>12. Newest'
  <2>1. ~open' => baseline' = log'[Len(log')]
    BY <1>5, <1>7 DEF Observed
  <2>2. open' => /\ Latest(incidents'[Len(incidents')]).shape = log'[Len(log')].shape
                 /\ incidents'[Len(incidents')].ended = Absent /\ incidents'[Len(incidents')].recovered = None
    BY <1>5, <1>7 DEF Observed, Lasts
  <2>3. \A i \in Onsets' : \E e \in i+1..Len(log')+1 : IsEnd(i, e)'
    BY <1>5 DEF Observed
  <2>4. open' => \E e : e = Len(log') + 1 /\ \E i \in Onsets' : IsEnd(i, e)'
    BY <1>5 DEF Observed
  <2> QED
    BY <1>7, <2>1, <2>2, <2>3, <2>4 DEF Newest, Active, Latest, None, Absent
<1> QED
  BY <1>5, <1>9, <1>10, <1>11, <1>12 DEF IInv, Observed

LEMMA Initial == Init => IInv
<1> SUFFICES ASSUME Init PROVE IInv
  OBVIOUS
<1>1. log = <<>> /\ incidents = <<>> /\ DOMAIN log = {} /\ DOMAIN incidents = {} /\ Len(log) = 0 /\ Len(incidents) = 0
  BY EmptySeq DEF Init
<1>2. Typed
  <2>1. MaxIncidents \in Nat \ {0} /\ MaxPasses \in Nat
    BY BoundsAssumption
  <2>2. <<>> \in Seq(Incident) /\ <<>> \in Seq(State) /\ 1 \in 1..MaxIncidents /\ 0 \in 0..MaxPasses /\ 0 <= MaxIncidents
    BY <2>1
  <2> QED
    BY <1>1, <2>2 DEF Init, Typed
<1>3. InOrder /\ Clean
  BY <1>1 DEF Init, InOrder, Clean
<1>4. Onsets = {}
  BY <1>1 DEF Onsets
<1>5. Newest
  BY <1>1, <1>4 DEF Init, Newest
<1>6. IncidentsAreTheFailures
  <2>1. Cardinality({}) = 0
    BY FS_EmptySet
  <2>2. IsNewest(0, 0, {}, MaxIncidents)
    BY <2>1, BoundsAssumption DEF IsNewest
  <2> QED
    BY <1>1, <1>4, <2>2 DEF Init, IncidentsAreTheFailures
<1> QED
  BY <1>2, <1>3, <1>5, <1>6 DEF IInv

\* What the reader does leaves the timeline and its log alone.
LEMMA ReaderStep ==
  ASSUME IInv, UNCHANGED <<timeline, now, log>>, viewing' \in BOOLEAN, told' \in BOOLEAN,
         selected' \in 1..MaxIncidents, incidents # <<>> => selected' \in DOMAIN incidents, viewing' => incidents # <<>>
  PROVE  IInv'
<1>1. UNCHANGED <<incidents, open, baseline, dropped, now, log>>
  BY DEF timeline
<1>2. Typed'
  BY <1>1 DEF IInv, Typed, State, Incident, None
<1>3. InOrder' /\ Clean'
  BY <1>1 DEF IInv, InOrder, Clean, Sound, None, Latest
<1>4. Newest' /\ IncidentsAreTheFailures'
  <2>1. Onsets' = Onsets
    BY <1>1 DEF Onsets
  <2>2. \A i, e : IsEnd(i, e)' <=> IsEnd(i, e)
    BY <1>1 DEF IsEnd
  <2>3. \A i : EndOf(i)' = EndOf(i)
    BY <1>1 DEF EndOf, IsEnd
  <2>4. \A inc, i, e : IsFailure(inc, i, e)' <=> IsFailure(inc, i, e)
    BY <1>1 DEF IsFailure, Moves, Place, IsNewest, None, Absent
  <2>5. Newest'
    BY <1>1, <2>1, <2>2 DEF IInv, Newest, Active, Latest, None, Absent
  <2>6. IncidentsAreTheFailures'
    BY <1>1, <2>1, <2>3, <2>4 DEF IInv, IncidentsAreTheFailures, Place, IsNewest
  <2> QED
    BY <2>5, <2>6
<1> QED
  BY <1>2, <1>3, <1>4 DEF IInv

LEMMA NewQuestionStep ==
  ASSUME IInv, NewQuestion
  PROVE  IInv'
<1>1. /\ log' = <<>> /\ incidents' = <<>> /\ DOMAIN log' = {} /\ DOMAIN incidents' = {}
      /\ Len(log') = 0 /\ Len(incidents') = 0
  BY EmptySeq DEF NewQuestion
<1>2. Typed'
  <2>1. MaxIncidents \in Nat \ {0}
    BY BoundsAssumption
  <2>2. <<>> \in Seq(Incident) /\ <<>> \in Seq(State) /\ 1 \in 1..MaxIncidents /\ 0 <= MaxIncidents
    BY <2>1
  <2>3. now' \in 0..MaxPasses
    BY DEF IInv, Typed, NewQuestion
  <2>4. baseline' \in State \cup {None}
    BY DEF NewQuestion, None
  <2> QED
    BY <1>1, <2>2, <2>3, <2>4 DEF NewQuestion, Typed, None
<1>3. InOrder' /\ Clean'
  BY <1>1 DEF NewQuestion, InOrder, Clean, None
<1>4. Onsets' = {}
  BY <1>1 DEF Onsets
<1>5. Newest'
  BY <1>1, <1>4 DEF NewQuestion, Newest, None
<1>6. IncidentsAreTheFailures'
  <2>1. Cardinality({}) = 0
    BY FS_EmptySet
  <2>2. IsNewest(0, 0, {}, MaxIncidents)
    BY <2>1, BoundsAssumption DEF IsNewest
  <2>3. PICK S : S = {} /\ Onsets' = S
    BY <1>4
  <2> QED
    BY <1>1, <2>2, <2>3, IncidentsNext DEF NewQuestion
<1> QED
  BY <1>2, <1>3, <1>5, <1>6 DEF IInv

\* The invariant the theorems below read off: what the timeline has seen of the log,
\* and what of it the list holds.
THEOREM Invariance == Spec => []IInv
<1>1. IInv /\ [Next]_vars => IInv'
  <2> SUFFICES ASSUME IInv, [Next]_vars PROVE IInv'
    OBVIOUS
  <2>1. /\ now \in Nat /\ viewing \in BOOLEAN /\ told \in BOOLEAN /\ selected \in 1..MaxIncidents
        /\ (incidents # <<>> => selected \in DOMAIN incidents) /\ (viewing => incidents # <<>>)
        /\ incidents \in Seq(Incident) /\ Len(incidents) <= MaxIncidents
    BY DEF IInv, Typed
  <2>2. \A i \in DOMAIN incidents : i \in 1..MaxIncidents
    BY <2>1, BoundsAssumption, LenProperties
  <2>3. CASE UNCHANGED vars
    <3>1. UNCHANGED <<timeline, now, log>> /\ viewing' = viewing /\ told' = told /\ selected' = selected
      BY <2>3 DEF vars, viewer
    <3> QED
      BY <2>1, <3>1, ReaderStep
  <2>4. CASE Publish
    <3>1. PICK p \in Passes :
            IF Evidence(p)
              THEN LET state == [at |-> now + 1, failing |-> p.failing, shape |-> p.shape,
                                 straddled |-> p.straddled, fresh |-> p.fresh]
                   IN now < MaxPasses /\ now' = now + 1 /\ Observe(state) /\ Reselect /\ log' = Append(log, state)
              ELSE UNCHANGED vars
      BY <2>4 DEF Publish
    <3>2. CASE Evidence(p)
      BY <3>1, <3>2, PublishStep
    <3>3. CASE ~Evidence(p)
      <4>1. UNCHANGED <<timeline, now, log>> /\ viewing' = viewing /\ told' = told /\ selected' = selected
        BY <3>1, <3>3 DEF vars, viewer
      <4> QED
        BY <2>1, <4>1, ReaderStep
    <3> QED
      BY <3>2, <3>3
  <2>5. CASE OpenViewer
    <3>1. /\ UNCHANGED <<timeline, now, log>> /\ viewing' = TRUE /\ told' = FALSE
          /\ selected' = Len(incidents) /\ incidents # <<>>
      BY <2>5 DEF OpenViewer
    <3>2. Len(incidents) \in DOMAIN incidents
      BY <2>1, <3>1, LenProperties, EmptySeq
    <3> QED
      BY <2>2, <3>1, <3>2, ReaderStep
  <2>6. CASE CloseViewer
    <3>1. UNCHANGED <<timeline, now, log>> /\ viewing' = FALSE /\ told' = FALSE /\ selected' = selected
      BY <2>6 DEF CloseViewer
    <3> QED
      BY <2>1, <3>1, ReaderStep
  <2>7. CASE Turn
    <3>1. /\ UNCHANGED <<timeline, now, log>> /\ viewing' = viewing /\ told' = FALSE
          /\ selected' \in DOMAIN incidents
      BY <2>7 DEF Turn
    <3> QED
      BY <2>1, <2>2, <3>1, ReaderStep
  <2>8. CASE NewQuestion
    BY <2>8, NewQuestionStep
  <2> QED
    BY <2>3, <2>4, <2>5, <2>6, <2>7, <2>8 DEF Next
<1> QED
  BY <1>1, Initial, PTL DEF Spec

-----------------------------------------------------------------------------

\* Every variable keeps its type and the lists their bounds (maxIncidents and maxSteps, incident.go).
THEOREM TypeCorrect == Spec => []TypeOK
<1>1. IInv => TypeOK
  BY DEF IInv, Typed, TypeOK
<1> QED
  BY <1>1, Invariance, PTL

\* What a timeline that sees one pass at a time keeps and counts is exactly the
\* newest failures of the whole log, each with the states and moves it had
\* (Timeline.Observe, incident.go).
THEOREM IncidentsExact == Spec => []IncidentsAreTheFailures
<1>1. IInv => IncidentsAreTheFailures
  BY DEF IInv
<1> QED
  BY <1>1, Invariance, PTL

\* No incident is measured against, or closed by, a pass that saw two network
\* states, or tells of one that answered a row from the cache.
THEOREM EvidenceClean == Spec => []EvidenceIsOneState
<1>1. IInv => EvidenceIsOneState
  BY DEF IInv, Clean, Sound, EvidenceIsOneState
<1> QED
  BY <1>1, Invariance, PTL

\* A pass never turns the page of an open viewer (reselectIncident, ui/incidents.go).
THEOREM ReaderStays == Spec => ReaderIsNotMoved
<1>1. IInv /\ [Next]_vars =>
        [now' # now /\ viewing =>
           /\ viewing'
           /\ LET reading == incidents[selected].started
                  gone == \A i \in DOMAIN incidents' : incidents'[i].started # reading
              IN IF gone THEN told' /\ selected' = 1
                         ELSE incidents'[selected'].started = reading]_vars
  <2> SUFFICES ASSUME Next, now' # now, viewing
               PROVE  /\ viewing'
                      /\ LET reading == incidents[selected].started
                             gone == \A i \in DOMAIN incidents' : incidents'[i].started # reading
                         IN IF gone THEN told' /\ selected' = 1
                                    ELSE incidents'[selected'].started = reading
    OBVIOUS
  <2>1. Reselect
    BY DEF Next, Publish, OpenViewer, CloseViewer, Turn, NewQuestion, vars
  <2> QED
    BY <2>1 DEF Reselect
<1> QED
  BY <1>1, Invariance, PTL DEF Spec, ReaderIsNotMoved

-----------------------------------------------------------------------------
\* Orders.

\* A set of naturals has a least member.
LEMMA LeastOf ==
  ASSUME NEW S \in SUBSET Nat, S # {} PROVE \E n \in S : \A m \in S : n <= m
<1> DEFINE R == OpToRel(<, Nat)
<1>1. \A a, b \in Nat : a < b => <<a, b>> \in R
  BY DEF OpToRel
<1>2. IsWellFoundedOn(R, Nat)
  BY NatLessThanWellFounded
<1> HIDE DEF R
<1>3. PICK x \in S : \A y \in S : ~(<<y, x>> \in R)
  BY <1>2, WFMin
<1>4. \A y \in S : ~(y < x)
  BY <1>1, <1>3
<1> QED
  BY <1>4

\* And a bounded one has a greatest.
LEMMA GreatestOf ==
  ASSUME NEW S \in SUBSET Nat, S # {}, NEW b \in Nat, \A n \in S : n <= b
  PROVE  \E n \in S : \A m \in S : m <= n
<1> DEFINE T == {b - n : n \in S}
<1>1. \A n \in S : n \in Nat /\ b - n \in Nat /\ b - n \in T
  OBVIOUS
<1>2. T \in SUBSET Nat /\ T # {}
  BY <1>1
<1>3. PICK k \in T : \A m \in T : k <= m
  BY <1>2, LeastOf
<1>4. PICK n \in S : k = b - n
  OBVIOUS
<1>5. \A m \in S : b - n <= b - m
  BY <1>1, <1>3, <1>4
<1>6. \A m \in S : m <= n
  BY <1>1, <1>5
<1> QED
  BY <1>6

\* Of prefixes that are proper, one is longest.
LEMMA LongestIsThere ==
  ASSUME NEW prefixes, prefixes # {}, \A p \in prefixes : p.bits \in 0..MaxBits
  PROVE  \E p \in prefixes : \A q \in prefixes : q.bits <= p.bits
<1> DEFINE lengths == {p.bits : p \in prefixes}
<1>1. lengths \in SUBSET Nat /\ lengths # {} /\ MaxBits \in Nat /\ \A n \in lengths : n <= MaxBits
  BY DEF MaxBits
<1>2. PICK n \in lengths : \A m \in lengths : m <= n
  BY <1>1, GreatestOf
<1> QED
  BY <1>2

\* The longest prefix is one of them.
LEMMA LongestIs ==
  ASSUME NEW prefixes, prefixes # {}, \A p \in prefixes : p.bits \in 0..MaxBits
  PROVE  Longest(prefixes) \in prefixes /\ \A q \in prefixes : q.bits <= Longest(prefixes).bits
BY LongestIsThere DEF Longest

\* Of places, one is first.
LEMMA FirstIs ==
  ASSUME NEW places \in SUBSET (Nat \X Nat), places # {}
  PROVE  First(places) \in places
<1> DEFINE tables == {p[1] : p \in places}
<1>1. tables \in SUBSET Nat /\ tables # {}
  OBVIOUS
<1>2. PICK i \in tables : \A j \in tables : i <= j
  BY <1>1, LeastOf
<1> DEFINE rows == {p[2] : p \in {q \in places : q[1] = i}}
<1>3. rows \in SUBSET Nat /\ rows # {}
  BY <1>2
<1>4. PICK j \in rows : \A k \in rows : j <= k
  BY <1>3, LeastOf
<1>5. PICK p \in places : p[1] = i /\ p[2] = j
  BY <1>4
<1>6. \A q \in places : Earlier(p, q)
  <2> TAKE q \in places
  <2>1. q[1] \in Nat /\ q[2] \in Nat /\ p[1] \in Nat /\ i <= q[1]
    BY <1>2
  <2>2. CASE q[1] = i
    BY <1>4, <1>5, <2>2 DEF Earlier
  <2>3. CASE q[1] # i
    BY <1>5, <2>1, <2>3 DEF Earlier
  <2> QED
    BY <2>2, <2>3
<1> QED
  BY <1>6 DEF First

-----------------------------------------------------------------------------
\* Next hops.

Injective(pair) == \A i, j \in DOMAIN pair : i # j => pair[i] # pair[j]

\* An injection of a finite interval into itself leaves nothing out.
LEMMA PairingIsOnto ==
  ASSUME NEW n \in Nat, NEW pair \in [1..n -> 1..n], Injective(pair), NEW j \in 1..n
  PROVE  \E i \in 1..n : pair[i] = j
<1>1. pair \in Injection(1..n, 1..n)
  BY DEF Injection, IsInjective, Injective
<1>2. IsFiniteSet(1..n)
  BY FS_Interval
<1>3. pair \in Surjection(1..n, 1..n)
  BY <1>1, <1>2, FS_Injection
<1> QED
  BY <1>3 DEF Surjection

\* What is recorded of a hop is compatible with it, and is it if it names all.
LEMMA HopFacts ==
  ASSUME NEW x, NEW y, NEW z, IsHop(y, z)
  PROVE  /\ IsHop(x, z) => Compatible(x, y)
         /\ Compatible(x, y) /\ x.iface # Unnamed /\ y.iface # Unnamed => IsHop(x, z)
BY DEF IsHop, Compatible

\* Two records of one list of next hops agree.
LEMMA TellingAgrees ==
  ASSUME NEW a, NEW b, NEW hops, NEW n \in Nat,
         DOMAIN a = 1..n, DOMAIN b = 1..n, DOMAIN hops = 1..n, Len(a) = Len(b),
         TellsHops(a, hops), TellsHops(b, hops)
  PROVE  SameHops(a, b)
<1>1. PICK f \in [1..n -> 1..n] : Injective(f) /\ \A i \in 1..n : IsHop(a[i], hops[f[i]])
  BY DEF TellsHops, Injective
<1>2. PICK g \in [1..n -> 1..n] : Injective(g) /\ \A i \in 1..n : IsHop(b[i], hops[g[i]])
  BY DEF TellsHops, Injective
<1>3. \A j \in 1..n : \E i \in 1..n : g[i] = j
  BY <1>2, PairingIsOnto
<1> DEFINE h == [i \in 1..n |-> CHOOSE k \in 1..n : g[k] = f[i]]
<1>4. \A i \in 1..n : h[i] \in 1..n /\ g[h[i]] = f[i]
  BY <1>1, <1>3
<1>5. h \in [1..n -> 1..n]
  BY <1>4
<1> HIDE DEF h
<1>6. \A i, j \in 1..n : i # j => h[i] # h[j]
  BY <1>1, <1>4 DEF Injective
<1>7. ASSUME NEW i \in 1..n PROVE Compatible(a[i], b[h[i]])
  <2>1. IsHop(a[i], hops[f[i]]) /\ IsHop(b[h[i]], hops[f[i]])
    BY <1>1, <1>2, <1>4
  <2> QED
    BY <2>1, HopFacts
<1>8. h \in [DOMAIN a -> DOMAIN b]
  BY <1>5
<1> QED
  BY <1>6, <1>7, <1>8 DEF SameHops

\* A row that names every interface and agrees with a record that tells of a list
\* tells of it too.
LEMMA NamedTells ==
  ASSUME NEW a, NEW b, NEW hops, NEW n \in Nat,
         DOMAIN a = 1..n, DOMAIN b = 1..n, DOMAIN hops = 1..n, Len(a) = Len(hops),
         AllNamed(a), AllNamed(b), SameHops(a, b), TellsHops(b, hops)
  PROVE  TellsHops(a, hops)
<1>1. PICK f \in [1..n -> 1..n] : Injective(f) /\ \A i \in 1..n : Compatible(a[i], b[f[i]])
  BY DEF SameHops, Injective
<1>2. PICK g \in [1..n -> 1..n] : Injective(g) /\ \A i \in 1..n : IsHop(b[i], hops[g[i]])
  BY DEF TellsHops, Injective
<1> DEFINE h == [i \in 1..n |-> g[f[i]]]
<1>3. h \in [1..n -> 1..n] /\ \A i \in 1..n : h[i] = g[f[i]] /\ f[i] \in 1..n
  OBVIOUS
<1> HIDE DEF h
<1>4. \A i, j \in 1..n : i # j => h[i] # h[j]
  BY <1>1, <1>2, <1>3 DEF Injective
<1>5. ASSUME NEW i \in 1..n PROVE IsHop(a[i], hops[h[i]])
  <2>1. Compatible(a[i], b[f[i]]) /\ IsHop(b[f[i]], hops[h[i]])
    BY <1>1, <1>2, <1>3
  <2>2. a[i].iface # Unnamed /\ b[f[i]].iface # Unnamed
    BY <1>3 DEF AllNamed
  <2> QED
    BY <2>1, <2>2, HopFacts
<1>6. h \in [DOMAIN a -> DOMAIN hops]
  BY <1>3
<1> QED
  BY <1>4, <1>5, <1>6 DEF TellsHops

\* The hops that are named are all of them only if each is named.
LEMMA NamedIsAll ==
  ASSUME NEW hops, NEW n \in Nat, DOMAIN hops = 1..n
  PROVE  Named(hops) \in Nat /\ Named(hops) <= n /\ (Named(hops) = n <=> AllNamed(hops))
<1> DEFINE S == {i \in DOMAIN hops : hops[i].iface # Unnamed}
<1>1. IsFiniteSet(1..n) /\ Cardinality(1..n) = n
  BY FS_Interval
<1>2. S \subseteq 1..n
  OBVIOUS
<1> HIDE DEF S
<1>3. IsFiniteSet(S) /\ Cardinality(S) <= n /\ (Cardinality(S) = n => S = 1..n)
  BY <1>1, <1>2, FS_Subset, Zenon
<1>4. Cardinality(S) \in Nat
  BY <1>3, FS_CardinalityType
<1>5. S = 1..n <=> AllNamed(hops)
  BY DEF AllNamed, S
<1>6. Cardinality(S) = n <=> AllNamed(hops)
  BY <1>1, <1>3, <1>5
<1> QED
  BY <1>3, <1>4, <1>6 DEF Named, S

-----------------------------------------------------------------------------
\* The rows of a file.

\* A row is of a table of its domain and plane.
LEMMA PlacesFacts ==
  ASSUME IsFile, NEW at, NEW plane, NEW p \in Places(at, plane)
  PROVE  /\ p[1] \in Tables(at, plane) /\ p \in Nat \X Nat
         /\ Row(p) \in ToSet(obs[p[1]].routes)
<1>1. PICK i \in Tables(at, plane) : p \in {i} \X DOMAIN obs[i].routes
  BY DEF Places
<1>2. i \in DOMAIN obs /\ DOMAIN obs \subseteq Nat /\ obs[i] \in ToSet(obs)
  BY LenProperties DEF Tables, IsFile, ToSet
<1>3. DOMAIN obs[i].routes \subseteq Nat
  BY <1>2, LenProperties DEF IsFile
<1>4. p[1] = i /\ p[2] \in DOMAIN obs[i].routes /\ p \in Nat \X Nat
  BY <1>1, <1>2, <1>3
<1> QED
  BY <1>4 DEF Row, ToSet

\* And every row of these tables has a place.
LEMMA RowsArePlaced ==
  ASSUME NEW at, NEW plane, NEW i \in Tables(at, plane), NEW row \in ToSet(obs[i].routes)
  PROVE  \E p \in Places(at, plane) : p[1] = i /\ Row(p) = row
<1>1. PICK j \in DOMAIN obs[i].routes : row = obs[i].routes[j]
  BY DEF ToSet
<1>2. <<i, j>> \in Places(at, plane)
  BY DEF Places
<1> QED
  BY <1>1, <1>2 DEF Row

\* The next hops of a route are a sequence.
LEMMA HopsFacts ==
  ASSUME NEW r, IsRoute(r)
  PROVE  Len(r.hops) \in Nat /\ DOMAIN r.hops = 1..Len(r.hops)
BY LenProperties DEF IsRoute

\* Of rows that agree, one that names the most interfaces stands for them.
LEMMA MostNamedIs ==
  ASSUME NEW rows \in SUBSET (Nat \X Nat), rows # {},
         \A p \in rows : IsRoute(Row(p)),
         \A p, q \in rows : SameForwarding(Row(p), Row(q))
  PROVE  \E p \in rows : /\ MostNamed(rows) = Row(p)
                         /\ \A q \in rows : Named(Row(q).hops) <= Named(Row(p).hops)
<1>1. PICK p0 \in rows : TRUE
  OBVIOUS
<1> DEFINE n == Len(Row(p0).hops)
           counts == {Named(Row(p).hops) : p \in rows}
<1>2. n \in Nat
  BY HopsFacts
<1>3. ASSUME NEW p \in rows PROVE Named(Row(p).hops) \in Nat /\ Named(Row(p).hops) <= n
  <2>1. Len(Row(p).hops) = n
    BY DEF SameForwarding, SameHops
  <2>2. DOMAIN Row(p).hops = 1..n
    BY <2>1, HopsFacts
  <2> QED
    BY <1>2, <2>2, NamedIsAll
<1>4. counts \in SUBSET Nat /\ counts # {} /\ \A m \in counts : m <= n
  BY <1>3
<1>5. PICK k \in counts : \A m \in counts : m <= k
  BY <1>2, <1>4, GreatestOf
<1> DEFINE most == {p \in rows : \A q \in rows : Named(Row(q).hops) <= Named(Row(p).hops)}
<1>6. PICK p \in rows : k = Named(Row(p).hops)
  OBVIOUS
<1>7. p \in most
  BY <1>5, <1>6
<1>8. most \in SUBSET (Nat \X Nat) /\ most # {}
  BY <1>7
<1>9. First(most) \in most
  BY <1>8, FirstIs
<1>10. MostNamed(rows) = Row(First(most))
  BY DEF MostNamed
<1> QED
  BY <1>9, <1>10

\* Old rows beside true ones do not decide: rows that agree and that no complete
\* table lacks tell of a route of the table.
LEMMA RowsTell ==
  ASSUME IsFile, NEW at, NEW plane, NEW routes, Truthful(at, plane, routes),
         NEW prefix, Lookup(at, plane, prefix) = "present",
         NEW rows, rows = Rows(at, plane, prefix),
         \A p, q \in rows : SameForwarding(Row(p), Row(q))
  PROVE  \E r \in routes :
           /\ r.prefix = prefix /\ r.origin \in {Row(p).origin : p \in rows}
           /\ r.discard = MostNamed(rows).discard /\ TellsHops(MostNamed(rows).hops, r.hops)
<1>1. rows # {} /\ \A i \in Tables(at, plane) : obs[i].complete => \E p \in rows : p[1] = i
  BY DEF Lookup
<1>2. \A p \in rows : /\ p \in Places(at, plane) /\ Row(p).prefix = prefix
                      /\ p[1] \in Tables(at, plane) /\ p \in Nat \X Nat
                      /\ Row(p) \in ToSet(obs[p[1]].routes) /\ IsRoute(Row(p))
  BY PlacesFacts DEF Rows, Truthful
<1>3. PICK best \in rows : /\ MostNamed(rows) = Row(best)
                         /\ \A q \in rows : Named(Row(q).hops) <= Named(Row(best).hops)
  <2>1. rows \in SUBSET (Nat \X Nat) /\ \A p \in rows : IsRoute(Row(p))
    BY <1>2
  <2> QED
    BY <1>1, <2>1, MostNamedIs
<1>4. CASE \A i \in Tables(at, plane) : IsTrue(obs[i], routes)
  <2>1. PICK r \in routes : Tells(Row(best), r)
    BY <1>2, <1>4 DEF IsTrue
  <2> QED
    BY <1>2, <1>3, <2>1 DEF Tells
<1>5. ASSUME NEW i \in Tables(at, plane), IsExact(obs[i], routes)
      PROVE  \E r \in routes :
               /\ r.prefix = prefix /\ r.origin \in {Row(p).origin : p \in rows}
               /\ r.discard = MostNamed(rows).discard /\ TellsHops(MostNamed(rows).hops, r.hops)
  <2>1. PICK p \in rows : p[1] = i
    BY <1>1, <1>5 DEF IsExact
  <2>2. PICK r \in routes : Tells(Row(p), r)
    BY <1>2, <1>5, <2>1 DEF IsExact, IsTrue
  <2>3. AllNamed(Row(p).hops)
    BY <1>2, <1>5, <2>1 DEF IsExact
  <2>4. SameHops(Row(best).hops, Row(p).hops) /\ Row(best).discard = Row(p).discard
    BY DEF SameForwarding
  <2> DEFINE n == Len(Row(best).hops)
  <2>5. /\ n \in Nat /\ DOMAIN Row(best).hops = 1..n /\ DOMAIN Row(p).hops = 1..n
        /\ Len(r.hops) = n /\ DOMAIN r.hops = 1..n
    <3>1. IsRoute(Row(best)) /\ IsRoute(Row(p)) /\ IsRoute(r)
      BY <1>2 DEF Truthful, IsTable
    <3>2. Len(Row(p).hops) = n /\ Len(r.hops) = Len(Row(p).hops)
      BY <2>2, <2>4 DEF SameHops, Tells, TellsHops
    <3> QED
      BY <3>1, <3>2, HopsFacts
  <2>6. AllNamed(Row(best).hops)
    <3>1. /\ Named(Row(p).hops) = n /\ Named(Row(p).hops) <= Named(Row(best).hops)
          /\ Named(Row(best).hops) \in Nat /\ Named(Row(best).hops) <= n
      BY <1>3, <2>3, <2>5, NamedIsAll
    <3>2. Named(Row(best).hops) = n
      BY <2>5, <3>1
    <3> QED
      BY <2>5, <3>2, NamedIsAll
  <2>7. TellsHops(Row(p).hops, r.hops)
    BY <2>2 DEF Tells
  <2>8. TellsHops(Row(best).hops, r.hops)
    BY <2>3, <2>4, <2>5, <2>6, <2>7, NamedTells
  <2> QED
    BY <1>2, <1>3, <2>2, <2>4, <2>8 DEF Tells
<1> QED
  BY <1>4, <1>5 DEF Truthful

-----------------------------------------------------------------------------
\* The decision of one domain.

\* A complete record leaves no route of the table out.
LEMMA CompleteCovers ==
  ASSUME IsFile, NEW at, NEW plane, NEW routes, Truthful(at, plane, routes), Complete(at, plane),
         NEW dest, NEW r \in routes, dest \in r.prefix.covers
  PROVE  r.prefix \in Candidates(at, plane, dest)
<1>1. PICK i \in Tables(at, plane) : obs[i].complete /\ IsTrue(obs[i], routes)
  BY DEF Truthful, Complete, IsExact
<1>2. PICK row \in ToSet(obs[i].routes) : Tells(row, r)
  BY <1>1 DEF IsTrue
<1>3. PICK p \in Places(at, plane) : Row(p) = row
  BY RowsArePlaced
<1>4. Row(p).prefix = r.prefix
  BY <1>2, <1>3 DEF Tells
<1>5. p \in Covering(at, plane, dest)
  BY <1>4 DEF Covering
<1> QED
  BY <1>4, <1>5 DEF Candidates

\* A candidate covers the destination, and is the prefix of a row.
LEMMA CandidatesFacts ==
  ASSUME NEW at, NEW plane, NEW dest, NEW prefix \in Candidates(at, plane, dest)
  PROVE  dest \in prefix.covers /\ \E p \in Places(at, plane) : prefix = Row(p).prefix
BY DEF Candidates, Covering

\* When the rows of a prefix decide, they were asked of, agree and are complete
\* enough.
LEMMA PickRowFacts ==
  ASSUME NEW at, NEW plane, NEW prefix, NEW rows, NEW best,
         NEW d, d = PickRow(at, plane, prefix, rows, best)
  PROVE  /\ d.kind \in {"unknown", "conflicting", "discard", "forward"} /\ d.basis = plane
         /\ d.prefix = prefix /\ d.proven = Complete(at, plane)
         /\ d.origins = {Row(p).origin : p \in rows}
         /\ d.kind \in {"discard", "forward"} =>
              /\ Lookup(at, plane, prefix) = "present"
              /\ \A p, q \in rows : SameForwarding(Row(p), Row(q))
              /\ plane = "fib" => Complete(at, plane)
              /\ d.kind = "discard" <=> best.discard
              /\ d.kind = "forward" => d.hops = best.hops
<1> DEFINE agree == \A p, q \in rows : SameForwarding(Row(p), Row(q))
           kind == IF Lookup(at, plane, prefix) # "present" \/ ~agree THEN "conflicting"
                   ELSE IF plane = "fib" /\ ~Complete(at, plane) THEN "unknown"
                   ELSE IF best.discard THEN "discard"
                   ELSE IF best.hops = <<>> THEN "unknown" ELSE "forward"
<1>1. /\ d.kind = kind /\ d.basis = plane /\ d.prefix = prefix /\ d.proven = Complete(at, plane)
      /\ d.origins = {Row(p).origin : p \in rows}
      /\ d.hops = IF kind = "forward" THEN best.hops ELSE <<>>
  <2> HIDE DEF agree
  <2>1. d = [Undecided(kind, plane) EXCEPT
               !.prefix = prefix, !.proven = Complete(at, plane), !.origins = {Row(p).origin : p \in rows},
               !.hops = IF kind = "forward" THEN best.hops ELSE <<>>]
    BY DEF PickRow, agree
  <2> HIDE DEF kind
  <2> QED
    BY <2>1 DEF Undecided
<1> HIDE DEF agree
<1>2. kind \in {"discard", "forward"} =>
        /\ Lookup(at, plane, prefix) = "present" /\ agree
        /\ plane = "fib" => Complete(at, plane)
        /\ kind = "discard" <=> best.discard
  OBVIOUS
<1>3. kind \in {"unknown", "conflicting", "discard", "forward"}
  OBVIOUS
<1> HIDE DEF kind
<1> QED
  BY <1>1, <1>2, <1>3 DEF agree

\* What the longest match decides.
LEMMA LongestDecides ==
  ASSUME IsFile, NEW at, NEW plane, NEW routes, Truthful(at, plane, routes),
         NEW dest, Candidates(at, plane, dest) # {}
  PROVE  /\ DecisionIsTrue(Pick(at, plane, Candidates(at, plane, dest)), dest, routes)
         /\ Pick(at, plane, Candidates(at, plane, dest)).basis = plane
<1> DEFINE prefixes == Candidates(at, plane, dest)
           prefix == Longest(prefixes)
           rows == Rows(at, plane, prefix)
           best == MostNamed(rows)
           picked == PickRow(at, plane, prefix, rows, best)
           d == Pick(at, plane, prefixes)
<1>1. prefix \in prefixes /\ \A q \in prefixes : q.bits <= prefix.bits
  <2>1. \A q \in prefixes : q.bits \in 0..MaxBits
    BY CandidatesFacts DEF Truthful, Proper
  <2> QED
    BY <2>1, LongestIs
<1>2. dest \in prefix.covers
  BY <1>1, CandidatesFacts
<1>3. /\ picked.kind \in {"unknown", "conflicting", "discard", "forward"} /\ picked.basis = plane
      /\ picked.prefix = prefix /\ picked.proven = Complete(at, plane)
      /\ picked.origins = {Row(p).origin : p \in rows}
      /\ picked.kind \in {"discard", "forward"} =>
           /\ Lookup(at, plane, prefix) = "present"
           /\ \A p, q \in rows : SameForwarding(Row(p), Row(q))
           /\ plane = "fib" => Complete(at, plane)
           /\ picked.kind = "discard" <=> best.discard
           /\ picked.kind = "forward" => picked.hops = best.hops
  BY PickRowFacts
<1>4. /\ d.kind = picked.kind /\ d.basis = picked.basis /\ d.prefix = picked.prefix
      /\ d.proven = picked.proven /\ d.origins = picked.origins /\ d.hops = picked.hops
  BY DEF Pick, PickPrefix, PickRow, Undecided
<1> HIDE DEF d, picked
<1>5. ASSUME d.kind \in {"forward", "discard"}
      PROVE  \E r \in routes :
               /\ dest \in r.prefix.covers /\ r.prefix = d.prefix /\ r.origin \in d.origins
               /\ r.discard = (d.kind = "discard")
               /\ d.kind = "forward" => TellsHops(d.hops, r.hops)
               /\ d.proven => r \in Best(routes, dest)
  <2>1. PICK r \in routes :
          /\ r.prefix = prefix /\ r.origin \in {Row(p).origin : p \in rows}
          /\ r.discard = best.discard /\ TellsHops(best.hops, r.hops)
    BY <1>3, <1>4, <1>5, RowsTell
  <2>2. r.discard \in BOOLEAN
    BY DEF Truthful, IsTable, IsRoute
  <2>3. d.proven => r \in Best(routes, dest)
    <3> SUFFICES ASSUME d.proven, NEW q \in routes, dest \in q.prefix.covers
                 PROVE  q.prefix.bits <= r.prefix.bits
      BY <1>2, <2>1 DEF Best
    <3>1. q.prefix \in prefixes
      BY <1>3, <1>4, CompleteCovers
    <3> QED
      BY <1>1, <2>1, <3>1
  <2>4. r.discard = (d.kind = "discard")
    BY <1>3, <1>4, <1>5, <2>1, <2>2
  <2> QED
    BY <1>2, <1>3, <1>4, <2>1, <2>3, <2>4
<1>6. Concrete(d) /\ d.basis = "fib" => d.proven
  BY <1>3, <1>4 DEF Concrete
<1>7. d.kind # "no_route"
  BY <1>3, <1>4
<1>8. DecisionIsTrue(d, dest, routes)
  BY <1>5, <1>6, <1>7 DEF DecisionIsTrue
<1> QED
  BY <1>3, <1>4, <1>8 DEF d

\* A complete table without a match.
LEMMA AbsenceDecides ==
  ASSUME IsFile, NEW at, NEW plane, NEW routes, Truthful(at, plane, routes),
         NEW dest, Candidates(at, plane, dest) = {}, Complete(at, plane)
  PROVE  /\ DecisionIsTrue(Pick(at, plane, Candidates(at, plane, dest)), dest, routes)
         /\ Pick(at, plane, Candidates(at, plane, dest)).basis = plane
<1> DEFINE d == Pick(at, plane, Candidates(at, plane, dest))
<1>1. d.kind = "no_route" /\ d.proven /\ d.basis = plane
  BY DEF Pick, Undecided
<1>2. Best(routes, dest) = {}
  BY CompleteCovers DEF Best
<1> QED
  BY <1>1, <1>2 DEF DecisionIsTrue

\* walker.decide (walk.go:375): a decision read from a truthful file, however partial
\* and however old some of its records, is true of the table of the plane it is read
\* from. It names a route of the table, the one that decides if it is proven, and
\* says there is none only if there is none.
THEOREM DecisionsAreTrue ==
  ASSUME IsFile, NEW planes, DOMAIN planes \subseteq Nat, NEW at, NEW dest, NEW tables,
         \A k \in DOMAIN planes : Truthful(at, planes[k], tables[planes[k]])
  PROVE  DecisionIsTrue(Decide(planes, at, dest), dest, tables[Decide(planes, at, dest).basis])
<1> DEFINE speaking == {k \in DOMAIN planes : Candidates(at, planes[k], dest) # {} \/ Complete(at, planes[k])}
           d == Decide(planes, at, dest)
<1>1. CASE speaking = {}
  <2>1. d.kind = "unknown"
    BY <1>1 DEF Decide, DecideBy, Undecided
  <2> QED
    BY <2>1 DEF DecisionIsTrue, Concrete
<1>2. CASE speaking # {}
  <2> DEFINE k == Min(speaking)
  <2>1. k \in speaking
    BY <1>2, LeastOf DEF Min
  <2>2. d = Pick(at, planes[k], Candidates(at, planes[k], dest))
    BY <1>2 DEF Decide, DecideBy
  <2> HIDE DEF d, k
  <2>3. k \in DOMAIN planes /\ (Candidates(at, planes[k], dest) # {} \/ Complete(at, planes[k]))
    BY <2>1
  <2>4. DecisionIsTrue(d, dest, tables[planes[k]]) /\ d.basis = planes[k]
    BY <2>2, <2>3, LongestDecides, AbsenceDecides
  <2> QED
    BY <2>4 DEF d
<1> QED
  BY <1>1, <1>2

-----------------------------------------------------------------------------
\* Best routes, and what two decisions of a domain show of them.

\* A list without duplicates is as long as its set is large.
LEMMA DistinctIsCounted ==
  ASSUME NEW a, NEW n \in Nat, DOMAIN a = 1..n, \A i, j \in DOMAIN a : a[i] = a[j] => i = j
  PROVE  IsFiniteSet(ToSet(a)) /\ Cardinality(ToSet(a)) = n
<1>1. IsFiniteSet(1..n) /\ Cardinality(1..n) = n
  BY FS_Interval
<1> DEFINE f == [i \in 1..n |-> a[i]]
<1>2. f \in Bijection(1..n, ToSet(a))
  BY DEF Bijection, Injection, Surjection, IsInjective, ToSet
<1>3. ExistsBijection(1..n, ToSet(a))
  BY <1>2 DEF ExistsBijection
<1> QED
  BY <1>1, <1>3, FS_Bijection

\* The order in which a table keeps its next hops is nothing to what is heard of them.
LEMMA TellsReordered ==
  ASSUME NEW heard, NEW a, NEW b, NEW n \in Nat, NEW m \in Nat,
         DOMAIN heard = 1..n, DOMAIN a = 1..n, Len(a) = n, DOMAIN b = 1..m, Len(b) = m,
         \A i, j \in DOMAIN a : a[i] = a[j] => i = j,
         \A i, j \in DOMAIN b : b[i] = b[j] => i = j,
         ToSet(a) = ToSet(b), TellsHops(heard, a)
  PROVE  m = n /\ TellsHops(heard, b)
<1>1. m = n
  BY DistinctIsCounted
<1>2. PICK f \in [1..n -> 1..n] : Injective(f) /\ \A i \in 1..n : IsHop(heard[i], a[f[i]])
  BY DEF TellsHops, Injective
<1>3. ASSUME NEW j \in 1..n PROVE \E k \in 1..n : b[k] = a[j]
  <2>1. a[j] \in ToSet(b)
    BY DEF ToSet
  <2> QED
    BY <1>1, <2>1 DEF ToSet
<1> DEFINE h == [i \in 1..n |-> CHOOSE k \in 1..n : b[k] = a[f[i]]]
<1>4. \A i \in 1..n : h[i] \in 1..n /\ b[h[i]] = a[f[i]]
  BY <1>2, <1>3
<1>5. h \in [1..n -> 1..n]
  BY <1>4
<1> HIDE DEF h
<1>6. ASSUME NEW i \in 1..n, NEW j \in 1..n, i # j PROVE h[i] # h[j]
  <2>1. f[i] \in 1..n /\ f[j] \in 1..n /\ f[i] # f[j]
    BY <1>2, <1>6 DEF Injective
  <2>2. a[f[i]] # a[f[j]]
    BY <2>1
  <2> QED
    BY <1>4, <2>2
<1>7. Len(heard) = Len(b)
  BY <1>1 DEF TellsHops
<1>8. h \in [DOMAIN heard -> DOMAIN b] /\ \A i \in DOMAIN heard : IsHop(heard[i], b[h[i]])
  BY <1>1, <1>2, <1>4, <1>5
<1> QED
  BY <1>1, <1>6, <1>7, <1>8 DEF TellsHops

\* What a decision gives beyond its route.
LEMMA DecideFacts ==
  ASSUME NEW planes, NEW at, NEW dest, NEW d, d = Decide(planes, at, dest)
  PROVE  d.kind # "forward" => d.hops = <<>>
<1>1. ASSUME NEW plane, NEW prefix, NEW rows, NEW best
      PROVE  LET r == PickRow(at, plane, prefix, rows, best) IN r.kind # "forward" => r.hops = <<>>
  BY DEF PickRow, Undecided
<1>2. ASSUME NEW plane, NEW prefixes
      PROVE  LET r == Pick(at, plane, prefixes) IN r.kind # "forward" => r.hops = <<>>
  <2> DEFINE p == PickPrefix(at, plane, Longest(prefixes), Rows(at, plane, Longest(prefixes)))
  <2>1. p.kind # "forward" => p.hops = <<>>
    BY <1>1 DEF PickPrefix
  <2> DEFINE r == Pick(at, plane, prefixes)
  <2>2. CASE prefixes = {}
    BY <2>2 DEF Pick, Undecided
  <2>3. CASE prefixes # {}
    <3>1. r.kind = p.kind /\ r.hops = p.hops
      BY <2>3 DEF Pick, PickPrefix, PickRow, Undecided
    <3> QED
      BY <2>1, <3>1
  <2> QED
    BY <2>2, <2>3
<1> QED
  BY <1>2 DEF Decide, DecideBy, Undecided

\* One route of a FIB decides.
LEMMA BestIsOne ==
  ASSUME NEW routes, Proper({r.prefix : r \in routes}), IsFib(routes), NEW dest,
         NEW r \in Best(routes, dest), NEW q \in Best(routes, dest)
  PROVE  r = q
<1>1. /\ r \in routes /\ q \in routes /\ dest \in r.prefix.covers \cap q.prefix.covers
      /\ r.prefix.bits <= q.prefix.bits /\ q.prefix.bits <= r.prefix.bits
  BY DEF Best
<1>2. r.prefix.bits \in Int /\ q.prefix.bits \in Int
  BY <1>1 DEF Proper, MaxBits
<1>3. r.prefix.bits = q.prefix.bits
  BY <1>1, <1>2
<1> QED
  BY <1>1, <1>3 DEF Proper, IsFib

\* Where a route covers the destination, one as long or longer decides.
LEMMA BestIsThere ==
  ASSUME NEW routes, Proper({r.prefix : r \in routes}), NEW dest,
         NEW r \in routes, dest \in r.prefix.covers
  PROVE  \E q \in Best(routes, dest) : r.prefix.bits <= q.prefix.bits
<1> DEFINE prefixes == {q.prefix : q \in {s \in routes : dest \in s.prefix.covers}}
<1>1. prefixes # {} /\ \A p \in prefixes : p.bits \in 0..MaxBits
  BY DEF Proper
<1>2. PICK p \in prefixes : \A q \in prefixes : q.bits <= p.bits
  BY <1>1, LongestIsThere
<1>3. PICK q \in routes : dest \in q.prefix.covers /\ q.prefix = p
  BY <1>2
<1>4. q \in Best(routes, dest)
  BY <1>2, <1>3 DEF Best
<1> QED
  BY <1>2, <1>3, <1>4

\* Of two tables that forward alike, the best routes are alike.
LEMMA WaysAlike ==
  ASSUME NEW rib, NEW routes, NEW dest, Ways(rib, dest) = Ways(routes, dest), NEW r \in Best(rib, dest)
  PROVE  \E q \in Best(routes, dest) :
           r.prefix = q.prefix /\ r.discard = q.discard /\ ToSet(r.hops) = ToSet(q.hops)
<1> DEFINE w == [prefix |-> r.prefix, discard |-> r.discard, hops |-> ToSet(r.hops)]
<1>1. w \in Ways(rib, dest)
  BY DEF Ways
<1>2. PICK q \in Best(routes, dest) :
        w = [prefix |-> q.prefix, discard |-> q.discard, hops |-> ToSet(q.hops)]
  BY <1>1 DEF Ways
<1>3. w.prefix = q.prefix /\ w.discard = q.discard /\ w.hops = ToSet(q.hops)
  BY <1>2
<1> QED
  BY <1>3

\* The lengths of prefixes compare.
LEMMA ProperBits ==
  ASSUME NEW routes, Proper({r.prefix : r \in routes}), NEW r \in routes
  PROVE  r.prefix.bits \in Nat
BY DEF Proper, MaxBits

\* A decision names a route of a table, so the table has one.
LEMMA DecidedIsThere ==
  ASSUME NEW d, NEW dest, NEW routes, DecisionIsTrue(d, dest, routes),
         Proper({r.prefix : r \in routes}), d.kind \in {"forward", "discard"}
  PROVE  \E q \in Best(routes, dest) : d.prefix.bits <= q.prefix.bits
<1>1. PICK r \in routes : dest \in r.prefix.covers /\ r.prefix = d.prefix
  BY DEF DecisionIsTrue
<1> QED
  BY <1>1, BestIsThere

\* Two decisions that tell of routes that forward alike say the same.
LEMMA AlikeIsSame ==
  ASSUME NEW heard, NEW said, NEW r, NEW q, IsRoute(r), IsRoute(q),
         heard \in Seq(ToSet(heard)), said \in Seq(ToSet(said)),
         \A i, j \in DOMAIN r.hops : r.hops[i] = r.hops[j] => i = j,
         \A i, j \in DOMAIN q.hops : q.hops[i] = q.hops[j] => i = j,
         TellsHops(heard, r.hops), TellsHops(said, q.hops), ToSet(r.hops) = ToSet(q.hops)
  PROVE  SameHops(heard, said)
<1> DEFINE n == Len(r.hops)
           m == Len(q.hops)
<1>1. /\ n \in Nat /\ DOMAIN r.hops = 1..n /\ m \in Nat /\ DOMAIN q.hops = 1..m
  BY HopsFacts
<1>2. /\ Len(heard) = n /\ Len(said) = m
  BY DEF TellsHops
<1>3. DOMAIN heard = 1..n /\ DOMAIN said = 1..m
  BY <1>2, LenProperties
<1>4. m = n /\ TellsHops(heard, q.hops)
  BY <1>1, <1>3, TellsReordered
<1> QED
  BY <1>1, <1>2, <1>3, <1>4, TellingAgrees

\* Two true decisions, that of the FIB a proven one, disagree only if the tables do.
LEMMA DisagreementOfTables ==
  ASSUME NEW exp, NEW fib, NEW dest, NEW rib, NEW routes,
         IsTable(rib), Proper({r.prefix : r \in rib}),
         IsTable(routes), IsFib(routes), Proper({r.prefix : r \in routes}),
         DecisionIsTrue(exp, dest, rib), DecisionIsTrue(fib, dest, routes), fib.basis = "fib",
         exp.hops \in Seq(ToSet(exp.hops)), fib.hops \in Seq(ToSet(fib.hops)),
         exp.kind # "forward" => exp.hops = <<>>, fib.kind # "forward" => fib.hops = <<>>
  PROVE  DisagreementIsTrue(exp, fib, dest, rib, routes)
<1> SUFFICES ASSUME Disagreement(exp, fib) # "none", Ways(rib, dest) = Ways(routes, dest)
             PROVE  FALSE
  BY DEF DisagreementIsTrue
<1>1. /\ Concrete(exp) /\ Concrete(fib) /\ fib.proven
      /\ ~(exp.kind = "no_route" /\ fib.kind = "no_route")
  BY DEF Disagreement, DecisionIsTrue
<1>2. Best(rib, dest) = {} <=> Best(routes, dest) = {}
  BY WaysAlike DEF Ways
<1>3. exp.kind = "no_route" <=> Best(rib, dest) = {}
  BY <1>1, DecidedIsThere DEF Concrete, DecisionIsTrue
<1>4. fib.kind = "no_route" <=> Best(routes, dest) = {}
  BY <1>1, DecidedIsThere DEF Concrete, DecisionIsTrue
<1>5. exp.kind \in {"forward", "discard"} /\ fib.kind \in {"forward", "discard"}
  BY <1>1, <1>2, <1>3, <1>4 DEF Concrete
<1>6. PICK q \in Best(routes, dest) :
        /\ q.prefix = fib.prefix /\ q.discard = (fib.kind = "discard")
        /\ fib.kind = "forward" => TellsHops(fib.hops, q.hops)
  BY <1>1, <1>5 DEF DecisionIsTrue
<1>7. \A s \in Best(routes, dest) : s = q
  BY <1>6, BestIsOne
<1>8. CASE exp.prefix.bits > fib.prefix.bits
  <2>1. PICK r \in Best(rib, dest) : exp.prefix.bits <= r.prefix.bits
    BY <1>5, DecidedIsThere
  <2>2. r.prefix = q.prefix
    BY <1>7, WaysAlike
  <2>3. PICK s \in rib : s.prefix = exp.prefix
    BY <1>5 DEF DecisionIsTrue
  <2>4. q.prefix.bits \in Nat /\ s.prefix.bits \in Nat
    <3>1. q \in routes
      BY DEF Best
    <3> QED
      BY <3>1, ProperBits
  <2> QED
    BY <1>6, <1>8, <2>1, <2>2, <2>3, <2>4
<1>9. CASE /\ ~(exp.prefix.bits > fib.prefix.bits) /\ exp.proven
           /\ exp.prefix # fib.prefix \/ exp.kind # fib.kind \/ ~SameHops(exp.hops, fib.hops)
  <2>1. PICK r \in Best(rib, dest) :
          /\ r.prefix = exp.prefix /\ r.discard = (exp.kind = "discard")
          /\ exp.kind = "forward" => TellsHops(exp.hops, r.hops)
    BY <1>5, <1>9 DEF DecisionIsTrue
  <2>2. r.prefix = q.prefix /\ r.discard = q.discard /\ ToSet(r.hops) = ToSet(q.hops)
    BY <1>7, WaysAlike
  <2>3. exp.prefix = fib.prefix /\ exp.kind = fib.kind
    BY <1>5, <1>6, <2>1, <2>2
  <2>4. CASE exp.kind = "forward"
    <3>1. r \in rib /\ q \in routes
      BY DEF Best
    <3>2. /\ IsRoute(r) /\ IsRoute(q)
          /\ \A i, j \in DOMAIN r.hops : r.hops[i] = r.hops[j] => i = j
          /\ \A i, j \in DOMAIN q.hops : q.hops[i] = q.hops[j] => i = j
      BY <3>1 DEF IsTable
    <3>3. TellsHops(exp.hops, r.hops) /\ TellsHops(fib.hops, q.hops)
      BY <1>6, <2>1, <2>3, <2>4
    <3>4. SameHops(exp.hops, fib.hops)
      BY <2>2, <3>2, <3>3, AlikeIsSame
    <3> QED
      BY <1>9, <2>3, <3>4
  <2>5. CASE exp.kind # "forward"
    <3>1. exp.hops = <<>> /\ fib.hops = <<>>
      BY <2>3, <2>5
    <3>2. SameHops(exp.hops, fib.hops)
      <4> DEFINE none == [i \in {} |-> i]
      <4>1. none \in [DOMAIN exp.hops -> DOMAIN fib.hops] /\ DOMAIN exp.hops = {} /\ Len(exp.hops) = Len(fib.hops)
        BY <3>1
      <4> QED
        BY <4>1 DEF SameHops
    <3> QED
      BY <1>9, <2>3, <3>2
  <2> QED
    BY <2>4, <2>5
<1> QED
  BY <1>1, <1>5, <1>8, <1>9 DEF Disagreement

\* The next hops of a decision are those of a row.
LEMMA DecidedHops ==
  ASSUME IsFile, NEW planes, DOMAIN planes \subseteq Nat, NEW at, NEW dest,
         \A k \in DOMAIN planes : \A p \in Places(at, planes[k]) : IsRoute(Row(p)),
         NEW d, d = Decide(planes, at, dest)
  PROVE  /\ d.kind # "forward" => d.hops = <<>>
         /\ d.hops \in Seq(ToSet(d.hops))
<1>1. d.kind # "forward" => d.hops = <<>>
  BY DecideFacts
<1>2. CASE d.kind # "forward"
  <2>1. <<>> \in Seq(ToSet(<<>>))
    OBVIOUS
  <2> QED
    BY <1>1, <1>2, <2>1
<1>3. CASE d.kind = "forward"
  <2> DEFINE speaking == {k \in DOMAIN planes : Candidates(at, planes[k], dest) # {} \/ Complete(at, planes[k])}
  <2>1. speaking # {}
    BY <1>3 DEF Decide, DecideBy, Undecided
  <2> DEFINE k == Min(speaking)
             prefixes == Candidates(at, planes[k], dest)
             rows == Rows(at, planes[k], Longest(prefixes))
             best == MostNamed(rows)
             picked == PickRow(at, planes[k], Longest(prefixes), rows, best)
  <2>2. k \in DOMAIN planes
    BY <2>1, LeastOf DEF Min
  <2>3. d = Pick(at, planes[k], prefixes)
    BY <2>1 DEF Decide, DecideBy
  <2> HIDE DEF speaking, k
  <2>4. prefixes # {}
    BY <1>3, <2>3 DEF Pick, Undecided
  <2>5. d.kind = picked.kind /\ d.hops = picked.hops
    BY <2>3, <2>4 DEF Pick, PickPrefix, PickRow, Undecided
  <2> HIDE DEF picked
  <2>6. /\ picked.hops = best.hops /\ Lookup(at, planes[k], Longest(prefixes)) = "present"
        /\ \A p, q \in rows : SameForwarding(Row(p), Row(q))
    BY <1>3, <2>5, PickRowFacts DEF picked
  <2>7. rows # {}
    BY <2>6 DEF Lookup
  <2>8. rows \in SUBSET (Nat \X Nat) /\ \A p \in rows : IsRoute(Row(p))
    BY <2>2, PlacesFacts DEF Rows
  <2>9. PICK p \in rows : best = Row(p)
    BY <2>6, <2>7, <2>8, MostNamedIs
  <2>10. d.hops = Row(p).hops /\ IsRoute(Row(p))
    BY <2>5, <2>6, <2>8, <2>9
  <2> QED
    BY <1>3, <2>10 DEF IsRoute
<1> QED
  BY <1>2, <1>3

\* A decision is read from one of its planes.
LEMMA BasisFacts ==
  ASSUME NEW planes, DOMAIN planes \subseteq Nat, 1 \in DOMAIN planes, NEW at, NEW dest
  PROVE  \E k \in DOMAIN planes : Decide(planes, at, dest).basis = planes[k]
<1> DEFINE speaking == {k \in DOMAIN planes : Candidates(at, planes[k], dest) # {} \/ Complete(at, planes[k])}
<1>1. \A plane, prefixes : Pick(at, plane, prefixes).basis = plane
  BY DEF Pick, PickPrefix, PickRow, Undecided
<1>2. CASE speaking = {}
  BY <1>2 DEF Decide, DecideBy, Undecided
<1>3. CASE speaking # {}
  <2>1. Min(speaking) \in speaking
    BY <1>3, LeastOf DEF Min
  <2>2. Decide(planes, at, dest).basis = planes[Min(speaking)]
    BY <1>1, <1>3 DEF Decide, DecideBy
  <2> QED
    BY <2>1, <2>2
<1> QED
  BY <1>2, <1>3

\* disagreement (compare.go:64): where the decisions of the expected planes and of the FIB
\* disagree, the tables do. Neither a partial record, nor an old one beside one that
\* is complete, nor an interface left out of a next hop, nor the order of the next
\* hops makes a disagreement.
THEOREM DisagreementsAreTrue ==
  ASSUME IsFile, NEW at, NEW dest, NEW tables, IsFib(tables["fib"]),
         \A plane \in {"control", "configured", "fib"} : Truthful(at, plane, tables[plane]),
         NEW exp, exp = Decide(ExpectedPlanes, at, dest),
         NEW fib, fib = Decide(ForwardingPlanes, at, dest)
  PROVE  DisagreementIsTrue(exp, fib, dest, tables[exp.basis], tables["fib"])
<1>1. /\ DOMAIN ExpectedPlanes = {1, 2} /\ ExpectedPlanes[1] = "control" /\ ExpectedPlanes[2] = "configured"
      /\ DOMAIN ForwardingPlanes = {1} /\ ForwardingPlanes[1] = "fib"
  BY DEF ExpectedPlanes, ForwardingPlanes
<1>2. DecisionIsTrue(exp, dest, tables[exp.basis])
  BY <1>1, DecisionsAreTrue
<1>3. DecisionIsTrue(fib, dest, tables[fib.basis])
  BY <1>1, DecisionsAreTrue
<1>4. fib.basis = "fib"
  BY <1>1, BasisFacts
<1>5. exp.basis \in {"control", "configured"}
  BY <1>1, BasisFacts
<1>6. ASSUME NEW plane \in {"control", "configured", "fib"}
      PROVE  IsTable(tables[plane]) /\ Proper({r.prefix : r \in tables[plane]})
  BY DEF Truthful, Proper
<1>7. \A plane \in {"control", "configured", "fib"} : \A p \in Places(at, plane) : IsRoute(Row(p))
  BY DEF Truthful
<1>8. exp.hops \in Seq(ToSet(exp.hops)) /\ (exp.kind # "forward" => exp.hops = <<>>)
  BY <1>1, <1>7, DecidedHops
<1>9. fib.hops \in Seq(ToSet(fib.hops)) /\ (fib.kind # "forward" => fib.hops = <<>>)
  BY <1>1, <1>7, DecidedHops
<1> QED
  BY <1>2, <1>3, <1>4, <1>5, <1>6, <1>8, <1>9, DisagreementOfTables

-----------------------------------------------------------------------------
\* Drift, and that a file decides.

\* Two lists of one width cover each other.
LEMMA SameCovers ==
  ASSUME NEW a, NEW b, NEW n \in Nat, DOMAIN a = 1..n, DOMAIN b = 1..n, SameHops(a, b)
  PROVE  CoversHops(a, b) /\ CoversHops(b, a)
<1>1. PICK f \in [1..n -> 1..n] : Injective(f) /\ \A i \in 1..n : Compatible(a[i], b[f[i]])
  BY DEF SameHops, Injective
<1>2. ASSUME NEW h \in ToSet(b) PROVE \E w \in ToSet(a) : Compatible(h, w)
  <2>1. PICK j \in 1..n : h = b[j]
    BY DEF ToSet
  <2>2. PICK i \in 1..n : f[i] = j
    BY <1>1, PairingIsOnto
  <2>3. Compatible(a[i], b[j]) /\ a[i] \in ToSet(a)
    BY <1>1, <2>2 DEF ToSet
  <2> QED
    BY <2>1, <2>3 DEF Compatible
<1>3. ASSUME NEW w \in ToSet(a) PROVE \E h \in ToSet(b) : Compatible(w, h)
  <2>1. PICK i \in 1..n : w = a[i]
    BY DEF ToSet
  <2>2. b[f[i]] \in ToSet(b)
    BY <1>1 DEF ToSet
  <2> QED
    BY <1>1, <2>1, <2>2
<1> QED
  BY <1>2, <1>3 DEF CoversHops

\* Lists that cover each other have the same addresses.
LEMMA CoversAddresses ==
  ASSUME NEW a, NEW b, CoversHops(a, b), CoversHops(b, a)
  PROVE  Addresses(a) = Addresses(b)
BY DEF CoversHops, Compatible, Addresses

\* And so do a list and what is heard of it.
LEMMA TellsAddresses ==
  ASSUME NEW heard, NEW hops, NEW n \in Nat, DOMAIN heard = 1..n, DOMAIN hops = 1..n,
         TellsHops(heard, hops)
  PROVE  Addresses(heard) = Addresses(hops)
<1>0. PICK f \in [1..n -> 1..n] : Injective(f) /\ \A i \in 1..n : IsHop(heard[i], hops[f[i]])
  BY DEF TellsHops, Injective
<1>1. Injective(f) /\ \A i \in 1..n : heard[i].addr = hops[f[i]].addr
  BY <1>0 DEF IsHop
<1>2. ASSUME NEW x \in Addresses(hops) PROVE x \in Addresses(heard)
  <2>1. PICK j \in 1..n : x = hops[j].addr
    BY DEF Addresses, ToSet
  <2>2. PICK i \in 1..n : f[i] = j
    BY <1>1, PairingIsOnto
  <2>3. heard[i] \in ToSet(heard) /\ heard[i].addr = x
    BY <1>1, <2>1, <2>2 DEF ToSet
  <2> QED
    BY <2>3 DEF Addresses
<1>3. ASSUME NEW x \in Addresses(heard) PROVE x \in Addresses(hops)
  <2>1. PICK i \in 1..n : x = heard[i].addr
    BY DEF Addresses, ToSet
  <2>2. hops[f[i]] \in ToSet(hops) /\ hops[f[i]].addr = x
    BY <1>1, <2>1 DEF ToSet
  <2> QED
    BY <2>2 DEF Addresses
<1> QED
  BY <1>2, <1>3

\* Where there is no route there is no prefix.
LEMMA DecidedPrefix ==
  ASSUME NEW planes, NEW at, NEW dest, NEW d, d = Decide(planes, at, dest), d.kind = "no_route"
  PROVE  d.prefix = NoPrefix
<1>1. ASSUME NEW plane, NEW prefix, NEW rows, NEW best
      PROVE  PickRow(at, plane, prefix, rows, best).kind # "no_route"
  BY PickRowFacts
<1>2. ASSUME NEW plane, NEW prefixes, Pick(at, plane, prefixes).kind = "no_route"
      PROVE  Pick(at, plane, prefixes).prefix = NoPrefix
  <2> DEFINE p == PickPrefix(at, plane, Longest(prefixes), Rows(at, plane, Longest(prefixes)))
             r == Pick(at, plane, prefixes)
  <2>1. p.kind # "no_route"
    BY <1>1 DEF PickPrefix
  <2>2. CASE prefixes = {}
    BY <2>2 DEF Pick, Undecided
  <2>3. CASE prefixes # {}
    <3>1. r.kind = p.kind
      BY <2>3 DEF Pick, PickPrefix, PickRow, Undecided
    <3> QED
      BY <1>2, <2>1, <3>1
  <2> QED
    BY <2>2, <2>3
<1> QED
  BY <1>2 DEF Decide, DecideBy, Undecided

\* walker.classify (drift.go:154): a domain that is said to show no drift shows none in its
\* tables, whatever else of them the file leaves out: both drop what is sent to the
\* destination, or both forward it to the same next hops by the same prefix.
THEOREM NoDriftIsTrue ==
  ASSUME IsFile, NEW at, NEW dest, NEW intent, NEW routes,
         Truthful(at, "intended", intent), Truthful(at, "fib", routes)
  PROVE  DriftIsNone(Decide(<<"intended">>, at, dest), Decide(ForwardingPlanes, at, dest),
                     dest, intent, routes)
<1> DEFINE int == Decide(<<"intended">>, at, dest)
           fib == Decide(ForwardingPlanes, at, dest)
           tables == [plane \in {"intended", "fib"} |-> IF plane = "fib" THEN routes ELSE intent]
<1>1. /\ DOMAIN <<"intended">> = {1} /\ <<"intended">>[1] = "intended"
      /\ DOMAIN ForwardingPlanes = {1} /\ ForwardingPlanes[1] = "fib"
  BY DEF ForwardingPlanes
<1>2. /\ tables["intended"] = intent /\ tables["fib"] = routes
  OBVIOUS
<1> HIDE DEF tables
<1>3. int.basis = "intended" /\ fib.basis = "fib"
  BY <1>1, BasisFacts
<1>4. DecisionIsTrue(int, dest, intent)
  <2>1. \A k \in DOMAIN <<"intended">> : Truthful(at, <<"intended">>[k], tables[<<"intended">>[k]])
    BY <1>1, <1>2
  <2>2. DecisionIsTrue(int, dest, tables[int.basis])
    BY <1>1, <2>1, DecisionsAreTrue
  <2> QED
    BY <1>2, <1>3, <2>2
<1>5. DecisionIsTrue(fib, dest, routes)
  <2>1. \A k \in DOMAIN ForwardingPlanes : Truthful(at, ForwardingPlanes[k], tables[ForwardingPlanes[k]])
    BY <1>1, <1>2
  <2>2. DecisionIsTrue(fib, dest, tables[fib.basis])
    BY <1>1, <2>1, DecisionsAreTrue
  <2> QED
    BY <1>2, <1>3, <2>2
<1>6. int.hops \in Seq(ToSet(int.hops)) /\ fib.hops \in Seq(ToSet(fib.hops))
  BY <1>1, DecidedHops DEF Truthful
<1>7. /\ int.kind = "no_route" => int.prefix = NoPrefix
      /\ fib.kind = "no_route" => fib.prefix = NoPrefix
  BY DecidedPrefix
<1> HIDE DEF int, fib
<1> SUFFICES ASSUME NEW on, NEW sub, NEW want, NEW root, Classify(int, fib, on, sub, want, root) = "none"
             PROVE  KeepsIntent(intent, routes, dest)
  BY DEF DriftIsNone, int, fib
<1>8. /\ Concrete(int) /\ Concrete(fib) /\ int.proven /\ int.prefix = fib.prefix
      /\ \/ Drops(int) /\ Drops(fib)
         \/ int.kind = fib.kind /\ CoversHops(fib.hops, int.hops) /\ CoversHops(int.hops, fib.hops)
  BY DEF Classify
<1>9. fib.proven
  BY <1>3, <1>5, <1>8 DEF DecisionIsTrue
<1>10. ASSUME NEW d, NEW table, d.kind \in {"forward", "discard"}, DecisionIsTrue(d, dest, table), d.proven,
              d.hops \in Seq(ToSet(d.hops)), IsTable(table)
       PROVE  \E r \in Best(table, dest) :
                /\ r.prefix = d.prefix /\ r.discard = (d.kind = "discard")
                /\ d.kind = "forward" => Addresses(d.hops) = Addresses(r.hops)
  <2>1. PICK r \in Best(table, dest) :
          /\ r.prefix = d.prefix /\ r.discard = (d.kind = "discard")
          /\ d.kind = "forward" => TellsHops(d.hops, r.hops)
    BY <1>10 DEF DecisionIsTrue
  <2>2. ASSUME d.kind = "forward" PROVE Addresses(d.hops) = Addresses(r.hops)
    <3> DEFINE n == Len(r.hops)
    <3>1. n \in Nat /\ DOMAIN r.hops = 1..n
      BY <1>10, HopsFacts DEF IsTable, Best
    <3>2. DOMAIN d.hops = 1..n
      BY <1>10, <2>1, <2>2, LenProperties DEF TellsHops
    <3> QED
      BY <2>1, <2>2, <3>1, <3>2, TellsAddresses
  <2> QED
    BY <2>1, <2>2
<1>11. IsTable(intent) /\ IsTable(routes)
  BY DEF Truthful
<1>12. CASE int.kind = "no_route" /\ fib.kind = "no_route"
  BY <1>4, <1>5, <1>12 DEF DecisionIsTrue, KeepsIntent
<1>13. CASE int.kind \in {"forward", "discard"} /\ fib.kind \in {"forward", "discard"}
  <2>1. PICK r \in Best(intent, dest) :
          /\ r.prefix = int.prefix /\ r.discard = (int.kind = "discard")
          /\ int.kind = "forward" => Addresses(int.hops) = Addresses(r.hops)
    BY <1>4, <1>6, <1>8, <1>10, <1>11, <1>13
  <2>2. PICK q \in Best(routes, dest) :
          /\ q.prefix = fib.prefix /\ q.discard = (fib.kind = "discard")
          /\ fib.kind = "forward" => Addresses(fib.hops) = Addresses(q.hops)
    BY <1>5, <1>6, <1>9, <1>10, <1>11, <1>13
  <2>3. int.kind = fib.kind
    BY <1>8, <1>13 DEF Drops
  <2>4. int.kind = "forward" => Addresses(int.hops) = Addresses(fib.hops)
    BY <1>8, CoversAddresses DEF Drops
  <2> QED
    BY <1>8, <1>13, <2>1, <2>2, <2>3, <2>4 DEF KeepsIntent
<1>14. ASSUME NEW d, NEW table, NEW e, d.kind = "no_route", e.kind \in {"forward", "discard"},
              d.prefix = NoPrefix, e.prefix = d.prefix, DecisionIsTrue(e, dest, table),
              Proper({r.prefix : r \in table})
       PROVE  FALSE
  <2>1. PICK r \in table : r.prefix = NoPrefix
    BY <1>14 DEF DecisionIsTrue
  <2>2. NoPrefix.bits \in Nat
    BY <1>14, <2>1, ProperBits
  <2> QED
    BY <2>2 DEF NoPrefix
<1>15. Proper({r.prefix : r \in intent}) /\ Proper({r.prefix : r \in routes})
  BY DEF Truthful, Proper
<1>16. ~(int.kind = "no_route" /\ fib.kind \in {"forward", "discard"})
  BY <1>5, <1>7, <1>8, <1>14, <1>15
<1>17. ~(fib.kind = "no_route" /\ int.kind \in {"forward", "discard"})
  BY <1>4, <1>7, <1>8, <1>14, <1>15
<1> QED
  BY <1>8, <1>12, <1>13, <1>16, <1>17 DEF Concrete

\* Rows that tell of one route agree, and none of them contradicts another.
LEMMA TellingRowsAgree ==
  ASSUME NEW a, NEW b, NEW r, IsRoute(a), IsRoute(b), IsRoute(r), Tells(a, r), Tells(b, r)
  PROVE  SameForwarding(a, b) /\ ~Disagree(a, b)
<1> DEFINE n == Len(r.hops)
<1>1. /\ n \in Nat /\ DOMAIN r.hops = 1..n /\ DOMAIN a.hops = 1..n /\ DOMAIN b.hops = 1..n
      /\ Len(a.hops) = n /\ Len(b.hops) = n
  BY HopsFacts DEF Tells, TellsHops
<1>2. SameHops(a.hops, b.hops)
  BY <1>1, TellingAgrees DEF Tells
<1>3. CoversHops(a.hops, b.hops) /\ CoversHops(b.hops, a.hops)
  BY <1>1, <1>2, SameCovers
<1> QED
  BY <1>2, <1>3 DEF Tells, SameForwarding, Disagree

\* walker.decide (walk.go:375): what a file holds decides. Where every record of a
\* FIB is true and one is complete, the FIB decides as the domain forwards: there is
\* no route only where there is none, and a route that deletes or forwards is found.
\* Only a route without a next hop leaves it open.
THEOREM DecisionIsMade ==
  ASSUME IsFile, NEW at, NEW dest, NEW routes, Truthful(at, "fib", routes), IsFib(routes),
         \A i \in Tables(at, "fib") : IsTrue(obs[i], routes), Complete(at, "fib"),
         NEW d, d = Decide(ForwardingPlanes, at, dest)
  PROVE  /\ Best(routes, dest) = {} => d.kind = "no_route"
         /\ \A r \in Best(routes, dest) :
              d.kind = IF r.discard THEN "discard" ELSE IF r.hops = <<>> THEN "unknown" ELSE "forward"
<1> DEFINE prefixes == Candidates(at, "fib", dest)
           prefix == Longest(prefixes)
           rows == Rows(at, "fib", prefix)
           best == MostNamed(rows)
<1>1. d = Pick(at, "fib", prefixes)
  <2>1. {i \in DOMAIN ForwardingPlanes :
           Candidates(at, ForwardingPlanes[i], dest) # {} \/ Complete(at, ForwardingPlanes[i])} = {1}
    BY DEF ForwardingPlanes
  <2>2. Min({1}) = 1 /\ ForwardingPlanes[1] = "fib"
    BY DEF Min, ForwardingPlanes
  <2>3. {1} # {}
    OBVIOUS
  <2> QED
    BY <2>1, <2>2, <2>3 DEF Decide, DecideBy
<1>2. \A p \in Places(at, "fib") : \E r \in routes : Tells(Row(p), r)
  BY PlacesFacts DEF IsTrue
<1>3. CASE prefixes = {}
  <2>1. d.kind = "no_route"
    BY <1>1, <1>3 DEF Pick, Undecided
  <2>2. Best(routes, dest) = {}
    BY <1>3, CompleteCovers DEF Best
  <2> QED
    BY <2>1, <2>2
<1>4. CASE prefixes # {}
  <2>1. prefix \in prefixes /\ \A q \in prefixes : q.bits <= prefix.bits
    <3>1. \A q \in prefixes : q.bits \in 0..MaxBits
      BY CandidatesFacts DEF Truthful, Proper
    <3> QED
      BY <1>4, <3>1, LongestIs
  <2>2. PICK r \in routes : r.prefix = prefix /\ dest \in prefix.covers
    BY <1>2, <2>1, CandidatesFacts DEF Tells
  <2>3. r \in Best(routes, dest)
    <3> SUFFICES ASSUME NEW q \in routes, dest \in q.prefix.covers
                 PROVE  q.prefix.bits <= r.prefix.bits
      BY <2>2 DEF Best
    <3>1. q.prefix \in prefixes
      BY CompleteCovers
    <3> QED
      BY <2>1, <2>2, <3>1
  <2>4. \A s \in Best(routes, dest) : s = r
    BY <2>3, BestIsOne DEF Truthful, Proper
  <2>5. ASSUME NEW p \in rows PROVE Tells(Row(p), r) /\ IsRoute(Row(p))
    <3>1. p \in Places(at, "fib") /\ Row(p).prefix = prefix
      BY DEF Rows
    <3>2. PICK s \in routes : Tells(Row(p), s)
      BY <1>2, <3>1
    <3>3. s = r
      BY <2>2, <3>1, <3>2 DEF Tells, IsFib
    <3> QED
      BY <3>1, <3>2, <3>3 DEF Truthful
  <2>6. IsRoute(r)
    BY DEF Truthful, IsTable
  <2>7. \A p, q \in rows : SameForwarding(Row(p), Row(q)) /\ ~Disagree(Row(p), Row(q))
    BY <2>5, <2>6, TellingRowsAgree
  <2>8. ASSUME NEW i \in Tables(at, "fib"), obs[i].complete PROVE \E p \in rows : p[1] = i
    <3>1. PICK row \in ToSet(obs[i].routes) : Tells(row, r)
      BY <2>8 DEF IsTrue
    <3>2. PICK p \in Places(at, "fib") : p[1] = i /\ Row(p) = row
      BY RowsArePlaced
    <3> QED
      BY <2>2, <3>1, <3>2 DEF Rows, Tells
  <2>9. rows # {}
    BY <2>8 DEF Complete
  <2>10. Lookup(at, "fib", prefix) = "present"
    BY <2>7, <2>8, <2>9 DEF Lookup
  <2>11. PICK p \in rows : best = Row(p)
    <3>1. rows \in SUBSET (Nat \X Nat) /\ \A p \in rows : IsRoute(Row(p))
      BY <2>5, PlacesFacts DEF Rows
    <3> QED
      BY <2>7, <2>9, <3>1, MostNamedIs
  <2>12. best.discard = r.discard /\ (best.hops = <<>> <=> r.hops = <<>>)
    <3>1. IsRoute(best) /\ Len(best.hops) = Len(r.hops) /\ best.discard = r.discard
      BY <2>5, <2>11 DEF Tells, TellsHops
    <3> QED
      BY <2>6, <3>1, EmptySeq DEF IsRoute
  <2>13. d.kind = PickRow(at, "fib", prefix, rows, best).kind
    BY <1>1, <1>4 DEF Pick, PickPrefix, PickRow, Undecided
  <2>14. PickRow(at, "fib", prefix, rows, best).kind =
           IF best.discard THEN "discard" ELSE IF best.hops = <<>> THEN "unknown" ELSE "forward"
    BY <2>7, <2>10 DEF PickRow, Undecided
  <2> QED
    BY <2>3, <2>4, <2>12, <2>13, <2>14
<1> QED
  BY <1>3, <1>4

-----------------------------------------------------------------------------
\* Where a segment lands, and what a failure does to it.

\* newWalker (walk.go:141): an address is owned by a domain that holds it, and by
\* no other. A record lists the interfaces of its domain or none, so what an owner is
\* known to hold is all it holds.
THEOREM OwnersAreTrue ==
  ASSUME NEW ifaces, Located(ifaces), NEW addr, NEW to \in Owners(addr)
  PROVE  /\ to \in DOMAIN ifaces /\ Listed(to) = ifaces[to] /\ Holders(ifaces, to, addr) # {}
         /\ OwnerIfaces(to, addr) = {i.name : i \in Holders(ifaces, to, addr)}
         /\ \A d \in DOMAIN ifaces : Holders(ifaces, d, addr) # {} => d = to
<1>1. PICK i \in Listed(to) : \E a \in i.addrs : a.addr = addr
  BY DEF Owners
<1>2. PICK o \in ToSet(obs) : o.at = to /\ o.plane \in ReadPlanes /\ i \in o.ifaces
  BY <1>1 DEF Listed
<1>3. to \in DOMAIN ifaces /\ o.ifaces = ifaces[to]
  BY <1>2 DEF Located
<1>4. \A q \in ToSet(obs) : q.at = to /\ q.plane \in ReadPlanes => q.ifaces \subseteq ifaces[to]
  BY DEF Located
<1>5. Listed(to) = ifaces[to]
  BY <1>2, <1>3, <1>4 DEF Listed
<1>6. i \in Holders(ifaces, to, addr)
  BY <1>1, <1>5 DEF Holders
<1>7. OwnerIfaces(to, addr) = {j.name : j \in Holders(ifaces, to, addr)}
  BY <1>5 DEF OwnerIfaces, Holders
<1>8. ASSUME NEW d \in DOMAIN ifaces, NEW j \in Holders(ifaces, d, addr) PROVE d = to
  <2>1. PICK b \in j.addrs : b.addr = addr
    BY DEF Holders
  <2>2. PICK a \in i.addrs : a.addr = addr
    BY <1>1
  <2>3. j \in ifaces[d] /\ i \in ifaces[to]
    BY <1>6 DEF Holders
  <2> QED
    BY <1>3, <2>1, <2>2, <2>3 DEF Located
<1> QED
  BY <1>3, <1>5, <1>6, <1>7, <1>8

\* The records of a file are finitely many.
LEMMA OwnersAreFinite ==
  ASSUME IsFile, NEW addr PROVE IsFiniteSet(Owners(addr))
<1> DEFINE places == 1..Len(obs)
           domains == {obs[i].at : i \in places}
<1>1. Len(obs) \in Nat /\ DOMAIN obs = places
  BY LenProperties DEF IsFile
<1>2. IsFiniteSet(places)
  BY <1>1, FS_Interval
<1>3. IsFiniteSet(domains)
  <2> DEFINE named == [i \in places |-> obs[i].at]
  <2>1. named \in Surjection(places, domains)
    BY DEF Surjection
  <2> QED
    BY <1>2, <2>1, FS_Surjection
<1>4. Owners(addr) \subseteq domains
  <2>1. \A o \in ToSet(obs) : \E i \in places : o = obs[i]
    BY <1>1 DEF ToSet
  <2> QED
    BY <2>1 DEF Owners
<1> QED
  BY <1>3, <1>4, FS_Subset, Zenon

\* A segment lands where its target is owned.
LEMMA LandsAtOwner ==
  ASSUME IsFile, NEW ifaces, Located(ifaces), NEW at, NEW out, NEW target,
         Cardinality(Owners(target)) = 1, NEW land \in Landings(ifaces, at, out, target)
  PROVE  /\ Holder(target) = land.at /\ land.at # Nowhere /\ land.at \in Owners(target)
         /\ land.iface \in OwnerIfaces(land.at, target)
<1>1. PICK to : Owners(target) = {to}
  BY OwnersAreFinite, FS_Singleton
<1>2. land.at \in DOMAIN ifaces /\ \E i \in Holders(ifaces, land.at, target) : i.name = land.iface
  BY DEF Landings
<1>3. land.at = to
  BY <1>1, <1>2, OwnersAreTrue
<1>4. Holder(target) = to
  BY <1>1 DEF Holder, Sole
<1>5. land.iface \in OwnerIfaces(to, target)
  BY <1>1, <1>2, <1>3, OwnersAreTrue
<1> QED
  BY <1>1, <1>2, <1>3, <1>4, <1>5 DEF Located

\* And the interface it is said to arrive on is the one it lands on.
LEMMA FarEndIsTrue ==
  ASSUME IsFile, NEW ifaces, Located(ifaces), NEW at, NEW out, NEW hop, NEW dest,
         Cardinality(Owners(Target(hop, dest))) = 1,
         NEW land \in Landings(ifaces, at, out, Target(hop, dest)),
         FarEnd(at, hop, land.at, dest) # Unnamed
  PROVE  FarEnd(at, hop, land.at, dest) = land.iface
<1> DEFINE target == Target(hop, dest)
           held == OwnerIfaces(land.at, target)
<1>1. land.at \in Owners(target) /\ land.iface \in held
  BY LandsAtOwner
<1>2. FarEnd(at, hop, land.at, dest) = CHOOSE i \in held : TRUE
  BY DEF FarEnd, ArrivesOn
<1>3. Cardinality(held) = 1
  BY DEF FarEnd, ArrivesOn
<1>4. IsFiniteSet(held)
  <2>1. IsFiniteSet(ifaces[land.at]) /\ held = {i.name : i \in Holders(ifaces, land.at, target)}
    BY <1>1, OwnersAreTrue DEF Located
  <2>2. Holders(ifaces, land.at, target) \subseteq ifaces[land.at]
    BY DEF Holders
  <2>3. IsFiniteSet(Holders(ifaces, land.at, target))
    BY <2>1, <2>2, FS_Subset, Zenon
  <2> DEFINE named == [i \in Holders(ifaces, land.at, target) |-> i.name]
  <2>4. named \in Surjection(Holders(ifaces, land.at, target), held)
    BY <2>1 DEF Surjection
  <2> QED
    BY <2>3, <2>4, FS_Surjection
<1>5. PICK x : held = {x}
  BY <1>3, <1>4, FS_Singleton
<1> QED
  BY <1>1, <1>2, <1>5

\* Where the segment crosses the failed link, it runs into it there.
LEMMA CrossingIsTrue ==
  ASSUME IsFile, NEW ifaces, Located(ifaces), NEW f, NEW at, NEW heard, NEW hop, IsHop(heard, hop), NEW dest,
         Cardinality(Owners(Target(hop, dest))) = 1,
         NEW land \in Landings(ifaces, at, hop.iface, Target(hop, dest)),
         NEW leaves \in BOOLEAN, NEW enters \in BOOLEAN, ~(leaves /\ enters),
         NEW to, to = IF enters THEN land.at ELSE Nowhere,
         NEW runs, runs = ((leaves /\ hop.iface = f.iface) \/ (enters /\ land.iface = f.iface))
  PROVE  /\ CrossesLink(f, at, heard, dest, leaves, to) = "cut" => runs
         /\ CrossesLink(f, at, heard, dest, leaves, to) = "kept" => ~runs
<1>1. Target(heard, dest) = Target(hop, dest)
  BY DEF IsHop, Target
<1>2. land.at # Nowhere
  BY LandsAtOwner
<1>3. CASE leaves
  <2>1. CrossesLink(f, at, heard, dest, leaves, to) = Crosses(f, heard.iface)
    BY <1>3 DEF CrossesLink
  <2> QED
    BY <1>3, <2>1 DEF Crosses, IsHop
<1>4. CASE ~leaves /\ ~enters
  <2>1. CrossesLink(f, at, heard, dest, leaves, to) = "kept"
    BY <1>4 DEF CrossesLink
  <2> QED
    BY <1>4, <2>1
<1>5. CASE ~leaves /\ enters
  <2>1. CrossesLink(f, at, heard, dest, leaves, to) = Crosses(f, FarEnd(at, heard, land.at, dest))
    BY <1>2, <1>5 DEF CrossesLink
  <2>2. FarEnd(at, heard, land.at, dest) \in {Unnamed, land.iface}
    BY <1>1, FarEndIsTrue
  <2> QED
    BY <1>5, <2>1, <2>2 DEF Crosses
<1> QED
  BY <1>3, <1>4, <1>5

\* walker.sever (failure.go:793): whatever the record of a next hop leaves out, a segment
\* that is said to be cut runs into the failure, and one that is said to be kept does
\* not. Of a segment that leaves the failed node to end there, too, an interface
\* failure is only asked where it leaves (failure.go:818): that one is left out.
THEOREM SegmentsAreSeveredRightly ==
  ASSUME IsFile, NEW ifaces, Located(ifaces),
         NEW f, f.kind \in {"none", "router", "interface", "next_hop", "adjacency"},
         NEW at, NEW heard, NEW hop, IsHop(heard, hop), NEW dest,
         NEW origins, NEW origin \in origins,
         Cardinality(Owners(Target(hop, dest))) = 1,
         NEW land \in Landings(ifaces, at, hop.iface, Target(hop, dest)),
         f.kind = "interface" => at.node # f.at.node \/ land.at.node # f.at.node,
         f.kind = "adjacency" => at # f.at \/ land.at # f.at
  PROVE  SeverIsTrue(f, at, heard, dest, origins, hop, origin, land)
<1> DEFINE target == Target(hop, dest)
           runs == RunsInto(f, at, hop, origin, target, land)
           cut == Sever(f, at, heard, dest, origins)
<1>1. Target(heard, dest) = target
  BY DEF IsHop, Target
<1>2. Holder(target) = land.at /\ land.at # Nowhere
  BY LandsAtOwner
<1>3. CASE f.kind = "none"
  BY <1>3 DEF SeverIsTrue, Sever, RunsInto
<1>4. CASE f.kind = "router"
  <2>1. cut = IF land.at.node = f.at.node THEN "cut" ELSE "kept"
    BY <1>1, <1>2, <1>4 DEF Sever, SeverElement
  <2>2. runs <=> land.at.node = f.at.node
    BY <1>4 DEF RunsInto
  <2> QED
    BY <1>1, <2>1, <2>2 DEF SeverIsTrue
<1>5. CASE f.kind = "interface"
  <2>0. PICK leaves \in BOOLEAN, enters \in BOOLEAN :
          leaves = (at.node = f.at.node) /\ enters = (land.at.node = f.at.node)
    OBVIOUS
  <2> DEFINE to == IF enters THEN land.at ELSE Nowhere
  <2>1. cut = CrossesLink(f, at, heard, dest, leaves, to)
    BY <1>1, <1>2, <1>5, <2>0 DEF Sever, SeverElement
  <2>2. runs = ((leaves /\ hop.iface = f.iface) \/ (enters /\ land.iface = f.iface))
    BY <1>5, <2>0 DEF RunsInto
  <2>3. ~(leaves /\ enters)
    BY <1>5, <2>0
  <2> HIDE DEF cut, runs
  <2>4. (cut = "cut" => runs) /\ (cut = "kept" => ~runs)
    BY <2>1, <2>2, <2>3, CrossingIsTrue
  <2> QED
    BY <1>1, <2>4 DEF SeverIsTrue, cut, runs
<1>6. CASE f.kind = "next_hop"
  <2>1. cut = SeverNextHop(f, at, heard, dest)
    BY <1>6 DEF Sever
  <2>2. runs = (at = f.at /\ target = f.addr /\ f.iface \in {Unnamed, hop.iface})
    BY <1>6 DEF RunsInto
  <2>3. heard.iface \in {Unnamed, hop.iface}
    BY DEF IsHop
  <2> HIDE DEF cut, runs, target
  <2>4. (cut = "cut" => runs) /\ (cut = "kept" => ~runs)
    BY <1>1, <2>1, <2>2, <2>3 DEF SeverNextHop
  <2> QED
    BY <1>1, <2>4 DEF SeverIsTrue, cut, runs, target
<1>7. CASE f.kind = "adjacency"
  <2>0. PICK leaves \in BOOLEAN, enters \in BOOLEAN :
          leaves = (at = f.at) /\ enters = (land.at = f.at)
    OBVIOUS
  <2> DEFINE to == IF enters THEN land.at ELSE Nowhere
             crosses == CrossesLink(f, at, heard, dest, leaves, to)
             crossed == (leaves /\ hop.iface = f.iface) \/ (enters /\ land.iface = f.iface)
  <2>1. cut = SeverAdjacency(f, at, heard, origins, crosses)
    <3>1. to = IF Holder(Target(heard, dest)) = f.at THEN f.at ELSE Nowhere
      BY <1>1, <1>2, <2>0
    <3>2. crosses = CrossesLink(f, at, heard, dest, at = f.at, to)
      BY <2>0
    <3> HIDE DEF to, crosses
    <3> QED
      BY <1>7, <3>1, <3>2 DEF Sever
  <2>2. runs = (origin = "ospf" /\ crossed)
    BY <1>7, <2>0 DEF RunsInto
  <2>3. ~(leaves /\ enters)
    BY <1>7, <2>0
  <2>4. (crosses = "cut" => crossed) /\ (crosses = "kept" => ~crossed)
    BY <2>3, CrossingIsTrue
  <2> HIDE DEF cut, runs, crosses, crossed
  <2>5. (cut = "cut" => crosses = "cut" /\ origins = {"ospf"})
        /\ (cut = "kept" => crosses = "kept" \/ origins \subseteq {"connected", "static"})
    BY <2>1 DEF SeverAdjacency
  <2>6. (cut = "cut" => runs) /\ (cut = "kept" => ~runs)
    BY <2>2, <2>4, <2>5
  <2> QED
    BY <1>1, <2>6 DEF SeverIsTrue, cut, runs
<1> QED
  BY <1>3, <1>4, <1>5, <1>6, <1>7
-----------------------------------------------------------------------------
\* What is shown of a walk, and the flows of the network.

\* A decision to forward has a next hop.
LEMMA ForwardHasHops ==
  ASSUME NEW planes, NEW at, NEW dest, NEW d, d = Decide(planes, at, dest), d.kind = "forward"
  PROVE  d.hops # <<>>
<1>1. ASSUME NEW plane, NEW prefix, NEW rows, NEW best
      PROVE  LET r == PickRow(at, plane, prefix, rows, best) IN r.kind = "forward" => r.hops # <<>>
  BY DEF PickRow, Undecided
<1>2. ASSUME NEW plane, NEW prefixes
      PROVE  LET r == Pick(at, plane, prefixes) IN r.kind = "forward" => r.hops # <<>>
  <2> DEFINE p == PickPrefix(at, plane, Longest(prefixes), Rows(at, plane, Longest(prefixes)))
  <2>1. p.kind = "forward" => p.hops # <<>>
    BY <1>1 DEF PickPrefix
  <2> DEFINE r == Pick(at, plane, prefixes)
  <2>2. CASE prefixes = {}
    BY <2>2 DEF Pick, Undecided
  <2>3. CASE prefixes # {}
    <3>1. r.kind = p.kind /\ r.hops = p.hops
      BY <2>3 DEF Pick, PickPrefix, PickRow, Undecided
    <3> QED
      BY <2>1, <3>1
  <2> QED
    BY <2>2, <2>3
<1> QED
  BY <1>2 DEF Decide, DecideBy, Undecided

\* What is told of a list of next hops tells of each of them, and of no other.
LEMMA TellsEachHop ==
  ASSUME NEW heard, NEW hops, NEW n \in Nat, DOMAIN heard = 1..n, DOMAIN hops = 1..n, TellsHops(heard, hops)
  PROVE  /\ \A hop \in ToSet(hops) : \E x \in ToSet(heard) : IsHop(x, hop)
         /\ \A x \in ToSet(heard) : \E hop \in ToSet(hops) : IsHop(x, hop)
<1>1. PICK pair \in [1..n -> 1..n] : Injective(pair) /\ \A i \in 1..n : IsHop(heard[i], hops[pair[i]])
  BY DEF TellsHops, Injective
<1>2. \A j \in 1..n : \E i \in 1..n : pair[i] = j
  BY <1>1, PairingIsOnto
<1>3. ASSUME NEW hop \in ToSet(hops) PROVE \E x \in ToSet(heard) : IsHop(x, hop)
  <2>1. PICK j \in 1..n : hop = hops[j]
    BY DEF ToSet
  <2>2. PICK i \in 1..n : pair[i] = j
    BY <1>2
  <2>3. heard[i] \in ToSet(heard) /\ IsHop(heard[i], hop)
    BY <1>1, <2>1, <2>2 DEF ToSet
  <2> QED
    BY <2>3
<1>4. ASSUME NEW x \in ToSet(heard) PROVE \E hop \in ToSet(hops) : IsHop(x, hop)
  <2>1. PICK i \in 1..n : x = heard[i]
    BY DEF ToSet
  <2>2. hops[pair[i]] \in ToSet(hops) /\ IsHop(x, hops[pair[i]])
    BY <1>1, <2>1 DEF ToSet
  <2> QED
    BY <2>2
<1> QED
  BY <1>3, <1>4

\* A domain whose FIB is decided to forward has one route that decides, and its next
\* hops are those of the decision.
LEMMA ForwardedRoute ==
  ASSUME IsFile, NEW at, NEW routes, Truthful(at, "fib", routes), IsFib(routes), NEW dest,
         NEW d, d = Decide(ForwardingPlanes, at, dest), d.kind = "forward"
  PROVE  \E r \in routes :
           /\ Best(routes, dest) = {r} /\ ~r.discard /\ r.hops # <<>> /\ r.origin \in d.origins
           /\ \A hop \in ToSet(r.hops) : \E heard \in ToSet(d.hops) : IsHop(heard, hop)
           /\ \A heard \in ToSet(d.hops) : \E hop \in ToSet(r.hops) : IsHop(heard, hop)
<1>1. DOMAIN ForwardingPlanes = {1} /\ ForwardingPlanes[1] = "fib"
  BY DEF ForwardingPlanes
<1>2. d.basis = "fib"
  BY <1>1, BasisFacts
<1> DEFINE tables == [plane \in {"fib"} |-> routes]
<1>3. DecisionIsTrue(d, dest, tables[d.basis])
  <2>1. \A k \in DOMAIN ForwardingPlanes : Truthful(at, ForwardingPlanes[k], tables[ForwardingPlanes[k]])
    BY <1>1
  <2> HIDE DEF tables
  <2> QED
    BY <1>1, <2>1, DecisionsAreTrue
<1>4. DecisionIsTrue(d, dest, routes)
  BY <1>2, <1>3
<1>5. d.proven
  BY <1>2, <1>4 DEF DecisionIsTrue, Concrete
<1>6. PICK r \in routes : /\ r.origin \in d.origins /\ r.discard = (d.kind = "discard")
                          /\ TellsHops(d.hops, r.hops) /\ r \in Best(routes, dest)
  BY <1>4, <1>5 DEF DecisionIsTrue
<1>7. ~r.discard
  BY <1>6
<1>8. Best(routes, dest) = {r}
  <2>1. Proper({q.prefix : q \in routes})
    BY DEF Truthful, Proper
  <2> QED
    BY <1>6, <2>1, BestIsOne
<1>9. d.hops \in Seq(ToSet(d.hops)) /\ d.hops # <<>>
  <2>1. \A k \in DOMAIN ForwardingPlanes : \A p \in Places(at, ForwardingPlanes[k]) : IsRoute(Row(p))
    BY <1>1 DEF Truthful
  <2>2. d.hops \in Seq(ToSet(d.hops))
    BY <1>1, <2>1, DecidedHops
  <2> QED
    BY <2>2, ForwardHasHops
<1>10. IsRoute(r)
  BY DEF Truthful, IsTable
<1> DEFINE n == Len(r.hops)
<1>11. n \in Nat /\ DOMAIN r.hops = 1..n /\ DOMAIN d.hops = 1..n /\ Len(d.hops) = n
  BY <1>6, <1>9, <1>10, HopsFacts, LenProperties DEF TellsHops
<1>12. r.hops # <<>>
  BY <1>9, <1>11, EmptySeq
<1> HIDE DEF n
<1>13. /\ \A hop \in ToSet(r.hops) : \E heard \in ToSet(d.hops) : IsHop(heard, hop)
       /\ \A heard \in ToSet(d.hops) : \E hop \in ToSet(r.hops) : IsHop(heard, hop)
  BY <1>6, <1>11, TellsEachHop
<1> QED
  BY <1>6, <1>7, <1>8, <1>12, <1>13

\* From a domain that is shown to deliver a flow goes to another of them, one that
\* the decision names.
LEMMA FlowStep ==
  ASSUME IsFile, NEW ifaces, Located(ifaces), NEW tables, NEW d \in DOMAIN ifaces,
         Truthful(d, "fib", tables[d]), IsFib(tables[d]), NEW dest,
         NEW ds, ShownToDeliver(ds, dest), d \in ds, NEW e, SendsOn(ifaces, tables, dest, d, e)
  PROVE  d \notin Owners(dest) /\ e \in ds /\ e \in Onward(d, dest)
<1>1. d \notin Owners(dest)
  BY OwnersAreTrue DEF SendsOn
<1>2. Decide(ForwardingPlanes, d, dest).kind = "forward"
  BY <1>1 DEF ShownToDeliver
<1>3. PICK r \in tables[d] :
        /\ Best(tables[d], dest) = {r}
        /\ \A hop \in ToSet(r.hops) : \E heard \in ToSet(Forwarded(d, dest)) : IsHop(heard, hop)
  BY <1>2, ForwardedRoute DEF Forwarded
<1>4. PICK hop \in ToSet(r.hops) : \E l \in Landings(ifaces, d, hop.iface, Target(hop, dest)) : l.at = e
  BY <1>3 DEF SendsOn
<1>5. PICK heard \in ToSet(Forwarded(d, dest)) : IsHop(heard, hop)
  BY <1>3
<1>6. Target(heard, dest) = Target(hop, dest)
  BY <1>5 DEF IsHop, Target
<1>7. PICK x \in ds : Owners(Target(hop, dest)) = {x}
  BY <1>1, <1>5, <1>6 DEF ShownToDeliver
<1>8. e \in Owners(Target(hop, dest))
  <2>1. Cardinality(Owners(Target(hop, dest))) = 1
    BY <1>7, FS_Singleton
  <2> QED
    BY <1>4, <2>1, LandsAtOwner
<1>9. e \in Onward(d, dest)
  BY <1>5, <1>6, <1>8 DEF Onward
<1> QED
  BY <1>1, <1>7, <1>8, <1>9

\* walker.walk and reachOf (walk.go:189, drift.go:203): of a path that is shown to
\* deliver, whatever of the network the file leaves out, no flow leaves the domains of
\* the walk, is dropped by a table, or comes back to where it was.
THEOREM DeliveryIsTrue ==
  ASSUME IsFile, NEW ifaces, Located(ifaces), NEW tables,
         \A d \in DOMAIN ifaces : Truthful(d, "fib", tables[d]) /\ IsFib(tables[d]),
         NEW dest, NEW ds, ShownToDeliver(ds, dest),
         NEW flow, IsFlow(ifaces, tables, dest, flow), flow[1] \in ds
  PROVE  /\ \A k \in 1..Len(flow) : flow[k] \in ds /\ ~DropsAt(ifaces, tables, dest, flow[k])
         /\ \A j, k \in 1..Len(flow) : flow[j] = flow[k] => j = k
<1> DEFINE n == Len(flow)
<1>1. n \in Nat /\ n >= 1 /\ \A k \in 1..n : flow[k] \in DOMAIN ifaces
  BY LenProperties, EmptySeq DEF IsFlow
<1>2. \A k \in 1..n - 1 : SendsOn(ifaces, tables, dest, flow[k], flow[k + 1])
  BY DEF IsFlow
<1> HIDE DEF n
<1>3. ASSUME NEW k \in 1..n - 1, flow[k] \in ds
      PROVE  /\ flow[k] \notin Owners(dest) /\ flow[k + 1] \in ds
             /\ flow[k + 1] \in Onward(flow[k], dest)
  <2>1. flow[k] \in DOMAIN ifaces
    BY <1>1
  <2> QED
    BY <1>2, <1>3, <2>1, FlowStep
<1>4. \A k \in 1..n : flow[k] \in ds
  <2> DEFINE away == {k \in 1..n : flow[k] \notin ds}
  <2> SUFFICES ASSUME away # {} PROVE FALSE
    OBVIOUS
  <2>0. away \in SUBSET Nat
    OBVIOUS
  <2> HIDE DEF away
  <2>1. PICK k \in away : \A m \in away : k <= m
    BY <2>0, LeastOf
  <2> USE DEF away
  <2>2. k # 1 /\ k - 1 \in 1..n - 1 /\ k - 1 \notin away /\ (k - 1) + 1 = k
    BY <1>1, <2>1
  <2>3. flow[k - 1] \in ds
    BY <1>1, <2>2
  <2> QED
    BY <1>3, <2>1, <2>2, <2>3
<1>5. ASSUME NEW k \in 1..n PROVE ~DropsAt(ifaces, tables, dest, flow[k])
  <2> SUFFICES ASSUME Holders(ifaces, flow[k], dest) = {}
               PROVE  \E r : Best(tables[flow[k]], dest) = {r} /\ ~r.discard /\ r.hops # <<>>
    BY DEF DropsAt
  <2>1. flow[k] \in ds /\ flow[k] \in DOMAIN ifaces /\ flow[k] \notin Owners(dest)
    BY <1>1, <1>4, OwnersAreTrue
  <2>2. Decide(ForwardingPlanes, flow[k], dest).kind = "forward"
    BY <2>1 DEF ShownToDeliver
  <2> QED
    BY <2>1, <2>2, ForwardedRoute
<1>6. ASSUME NEW j \in 1..n, NEW k \in 1..n, j < k, flow[j] = flow[k] PROVE FALSE
  <2> DEFINE round == {flow[m] : m \in j..k - 1}
  <2>1. round \in SUBSET ds /\ round # {}
    <3>1. j \in j..k - 1 /\ \A m \in j..k - 1 : m \in 1..n
      BY <1>1, <1>6
    <3> QED
      BY <1>4, <3>1
  <2> HIDE DEF round
  <2>2. PICK d \in round : d \in Owners(dest) \/ Onward(d, dest) \cap round = {}
    BY <2>1 DEF ShownToDeliver
  <2>3. PICK m \in j..k - 1 : d = flow[m]
    BY DEF round
  <2>4. m \in 1..n - 1 /\ m + 1 \in j..k
    BY <1>1, <2>3
  <2>5. flow[m + 1] \in round
    <3>1. CASE m + 1 \in j..k - 1
      BY <3>1 DEF round
    <3>2. CASE m + 1 = k
      BY <1>1, <1>6, <3>2 DEF round
    <3> QED
      BY <1>1, <2>4, <3>1, <3>2
  <2>6. flow[m] \in ds
    BY <2>1, <2>3
  <2> QED
    BY <1>3, <2>2, <2>3, <2>4, <2>5, <2>6
<1>7. \A j, k \in 1..n : flow[j] = flow[k] => j = k
  BY <1>1, <1>6
<1> QED
  BY <1>4, <1>5, <1>7 DEF n

\* Simulate and rate (failure.go:204, 332): a failure that cuts no segment of a path that is shown to deliver
\* meets no flow. Of a segment within the failed node or domain only the end it
\* leaves by is asked (failure.go:818), so that one is left out.
THEOREM SpareIsTrue ==
  ASSUME IsFile, NEW ifaces, Located(ifaces), NEW tables,
         \A d \in DOMAIN ifaces : Truthful(d, "fib", tables[d]) /\ IsFib(tables[d]),
         NEW dest, NEW ds, ShownToDeliver(ds, dest),
         NEW f, f.kind \in {"none", "router", "interface", "next_hop", "adjacency"}, Spared(f, ds, dest),
         NEW flow, IsFlow(ifaces, tables, dest, flow), flow[1] \in ds,
         NEW k \in 1..Len(flow), Holders(ifaces, flow[k], dest) = {},
         NEW r \in Best(tables[flow[k]], dest), NEW hop \in ToSet(r.hops),
         NEW land \in Landings(ifaces, flow[k], hop.iface, Target(hop, dest)),
         f.kind = "interface" => flow[k].node # f.at.node \/ land.at.node # f.at.node,
         f.kind = "adjacency" => flow[k] # f.at \/ land.at # f.at
  PROVE  ~RunsInto(f, flow[k], hop, r.origin, Target(hop, dest), land)
<1> DEFINE d == flow[k]
           said == Decide(ForwardingPlanes, d, dest)
<1>1. d \in ds /\ d \in DOMAIN ifaces
  BY DeliveryIsTrue, LenProperties DEF IsFlow
<1>2. d \notin Owners(dest)
  BY OwnersAreTrue
<1> HIDE DEF d
<1>3. said.kind = "forward"
  BY <1>1, <1>2 DEF ShownToDeliver
<1>4. PICK q \in tables[d] :
        /\ Best(tables[d], dest) = {q} /\ q.origin \in said.origins
        /\ \A x \in ToSet(q.hops) : \E heard \in ToSet(said.hops) : IsHop(heard, x)
  BY <1>1, <1>3, ForwardedRoute
<1> HIDE DEF said
<1>5. r = q
  BY <1>4 DEF d
<1>6. PICK heard \in ToSet(said.hops) : IsHop(heard, hop)
  BY <1>4, <1>5
<1>7. Target(heard, dest) = Target(hop, dest)
  BY <1>6 DEF IsHop, Target
<1>8. Cardinality(Owners(Target(hop, dest))) = 1
  <2>1. PICK e \in ds : Owners(Target(heard, dest)) = {e}
    BY <1>1, <1>2, <1>6 DEF ShownToDeliver, Forwarded, said
  <2> QED
    BY <1>7, <2>1, FS_Singleton
<1>9. Sever(f, d, heard, dest, said.origins) = "kept"
  BY <1>1, <1>2, <1>6 DEF Spared, Forwarded, said
<1>10. SeverIsTrue(f, d, heard, dest, said.origins, hop, r.origin, land)
  BY <1>4, <1>5, <1>6, <1>8, SegmentsAreSeveredRightly DEF d
<1> QED
  BY <1>9, <1>10 DEF SeverIsTrue, d

\* Where one address of a domain is owned, every other that it holds is, too.
LEMMA OwnerIsKnown ==
  ASSUME NEW ifaces, Located(ifaces), NEW addr, NEW to \in Owners(addr), NEW dest, to \notin Owners(dest)
  PROVE  to \in DOMAIN ifaces /\ Holders(ifaces, to, dest) = {}
<1>1. to \in DOMAIN ifaces /\ Listed(to) = ifaces[to]
  BY OwnersAreTrue
<1>2. to \in {o.at : o \in ToSet(obs)}
  BY DEF Owners
<1> QED
  BY <1>1, <1>2 DEF Owners, Holders

\* A next hop that is decided to lead to a domain does, unless no one answers for it.
LEMMA HopLeadsOn ==
  ASSUME IsFile, NEW ifaces, Located(ifaces), NEW tables, NEW d \in DOMAIN ifaces,
         Truthful(d, "fib", tables[d]), IsFib(tables[d]), NEW dest, Holders(ifaces, d, dest) = {},
         Decide(ForwardingPlanes, d, dest).kind = "forward",
         NEW heard \in ToSet(Forwarded(d, dest)), NEW e, Owners(Target(heard, dest)) = {e}
  PROVE  SendsOn(ifaces, tables, dest, d, e) \/ Strands(ifaces, tables, dest, d)
<1>1. PICK r \in tables[d] :
        /\ Best(tables[d], dest) = {r} /\ ~r.discard
        /\ \A x \in ToSet(Forwarded(d, dest)) : \E hop \in ToSet(r.hops) : IsHop(x, hop)
  BY ForwardedRoute DEF Forwarded
<1>2. PICK hop \in ToSet(r.hops) : IsHop(heard, hop)
  BY <1>1
<1>3. Owners(Target(hop, dest)) = {e}
  BY <1>2 DEF IsHop, Target
<1>4. Cardinality(Owners(Target(hop, dest))) = 1
  BY <1>3, FS_Singleton
<1>5. CASE Landings(ifaces, d, hop.iface, Target(hop, dest)) = {}
  BY <1>1, <1>5 DEF Strands
<1>6. ASSUME NEW l \in Landings(ifaces, d, hop.iface, Target(hop, dest))
      PROVE  SendsOn(ifaces, tables, dest, d, e)
  <2>1. l.at = e
    BY <1>3, <1>4, LandsAtOwner
  <2> QED
    BY <1>1, <2>1 DEF SendsOn
<1> QED
  BY <1>5, <1>6

\* Where the FIB is decided to drop what is sent to the destination, it does.
LEMMA DropIsTrue ==
  ASSUME IsFile, NEW ifaces, NEW tables, NEW d \in DOMAIN ifaces,
         Truthful(d, "fib", tables[d]), NEW dest, Holders(ifaces, d, dest) = {},
         Drops(Decide(ForwardingPlanes, d, dest))
  PROVE  DropsAt(ifaces, tables, dest, d)
<1> DEFINE said == Decide(ForwardingPlanes, d, dest)
           planes == [plane \in {"fib"} |-> tables[d]]
<1>1. DOMAIN ForwardingPlanes = {1} /\ ForwardingPlanes[1] = "fib"
  BY DEF ForwardingPlanes
<1>2. said.basis = "fib"
  BY <1>1, BasisFacts
<1>3. \A k \in DOMAIN ForwardingPlanes : Truthful(d, ForwardingPlanes[k], planes[ForwardingPlanes[k]])
  BY <1>1
<1>4. planes["fib"] = tables[d]
  OBVIOUS
<1> HIDE DEF planes
<1>5. DecisionIsTrue(said, dest, tables[d])
  BY <1>1, <1>2, <1>3, <1>4, DecisionsAreTrue
<1>6. said.kind \in {"no_route", "discard"}
  BY DEF Drops
<1> HIDE DEF said
<1>7. CASE said.kind = "no_route"
  BY <1>5, <1>7 DEF DecisionIsTrue, DropsAt
<1>8. CASE said.kind = "discard"
  <2>1. said.proven
    BY <1>2, <1>5, <1>8 DEF DecisionIsTrue, Concrete
  <2>2. PICK r \in Best(tables[d], dest) : r.discard = (said.kind = "discard")
    BY <1>5, <1>8, <2>1 DEF DecisionIsTrue
  <2> QED
    BY <1>8, <2>2 DEF DropsAt
<1> QED
  BY <1>6, <1>7, <1>8

\* walker.walk and reachOf (walk.go:189, drift.go:203): of a path that is shown to fail,
\* asked from a source that does not hold the destination, some flow never arrives: a
\* table drops it, no one answers for a next hop, or it comes back to where it was.
THEOREM FailureIsTrue ==
  ASSUME IsFile, NEW ifaces, Located(ifaces), NEW tables,
         \A d \in DOMAIN ifaces : Truthful(d, "fib", tables[d]) /\ IsFib(tables[d]),
         NEW dest, NEW branch \in Seq(DOMAIN ifaces), ShownToFail(branch, dest),
         Holders(ifaces, branch[1], dest) = {}
  PROVE  \E flow :
           /\ IsFlow(ifaces, tables, dest, flow) /\ flow[1] = branch[1]
           /\ \/ DropsAt(ifaces, tables, dest, flow[Len(flow)])
              \/ Strands(ifaces, tables, dest, flow[Len(flow)])
              \/ \E k \in 1..Len(flow) - 1 : flow[k] = flow[Len(flow)]
<1> DEFINE n == Len(branch)
<1>1. n \in Nat /\ n >= 1 /\ \A k \in 1..n : branch[k] \in DOMAIN ifaces
  BY LenProperties, EmptySeq DEF ShownToFail
<1>2. \A k \in 1..n - 1 :
        /\ Decide(ForwardingPlanes, branch[k], dest).kind = "forward"
        /\ \E hop \in ToSet(Forwarded(branch[k], dest)) : Owners(Target(hop, dest)) = {branch[k + 1]}
  BY DEF ShownToFail
<1>3. \A k \in 1..n : branch[k] \notin Owners(dest)
  BY DEF ShownToFail
<1>4. \/ Drops(Decide(ForwardingPlanes, branch[n], dest))
      \/ \E k \in 1..n - 1 : branch[k] = branch[n]
  BY DEF ShownToFail
<1> HIDE DEF n
<1>5. ASSUME NEW k \in 1..n PROVE Holders(ifaces, branch[k], dest) = {}
  <2>1. CASE k = 1
    BY <2>1
  <2>2. CASE k # 1
    <3>1. k - 1 \in 1..n - 1 /\ (k - 1) + 1 = k
      BY <1>1, <2>2
    <3>2. PICK hop : Owners(Target(hop, dest)) = {branch[k]}
      BY <1>2, <3>1
    <3> QED
      BY <1>3, <3>2, OwnerIsKnown
  <2> QED
    BY <2>1, <2>2
<1>6. ASSUME NEW k \in 1..n - 1
      PROVE  \/ SendsOn(ifaces, tables, dest, branch[k], branch[k + 1])
             \/ Strands(ifaces, tables, dest, branch[k])
  <2>1. k \in 1..n
    BY <1>1
  <2>2. branch[k] \in DOMAIN ifaces /\ Holders(ifaces, branch[k], dest) = {}
    BY <1>1, <1>5, <2>1
  <2> QED
    BY <1>2, <2>2, HopLeadsOn
<1> DEFINE stuck == {k \in 1..n - 1 : ~SendsOn(ifaces, tables, dest, branch[k], branch[k + 1])}
<1>7. CASE stuck = {}
  <2>1. IsFlow(ifaces, tables, dest, branch)
    BY <1>7 DEF IsFlow, ShownToFail, n
  <2>2. n \in 1..n
    BY <1>1
  <2>3. \/ DropsAt(ifaces, tables, dest, branch[n])
        \/ \E k \in 1..n - 1 : branch[k] = branch[n]
    BY <1>1, <1>4, <1>5, <2>2, DropIsTrue
  <2> QED
    BY <2>1, <2>3 DEF n
<1>8. CASE stuck # {}
  <2>0. stuck \in SUBSET Nat
    BY <1>1
  <2> HIDE DEF stuck
  <2>1. PICK j \in stuck : \A k \in stuck : j <= k
    BY <1>8, <2>0, LeastOf
  <2> USE DEF stuck
  <2>2. j \in 1..n - 1 /\ j \in 1..n /\ j \in Nat /\ Strands(ifaces, tables, dest, branch[j])
    BY <1>1, <1>6, <2>1
  <2>3. \A k \in 1..j - 1 : SendsOn(ifaces, tables, dest, branch[k], branch[k + 1])
    BY <1>1, <2>1, <2>2
  <2> HIDE DEF stuck
  <2> DEFINE flow == [k \in 1..j |-> branch[k]]
  <2>4. flow \in Seq(DOMAIN ifaces) /\ Len(flow) = j /\ flow # <<>>
    BY <1>1, <2>2
  <2>5. flow[1] = branch[1] /\ flow[j] = branch[j] /\ \A k \in 1..j - 1 : flow[k] = branch[k] /\ flow[k + 1] = branch[k + 1]
    BY <2>2
  <2> HIDE DEF flow
  <2>6. IsFlow(ifaces, tables, dest, flow)
    BY <2>3, <2>4, <2>5 DEF IsFlow
  <2> QED
    BY <2>2, <2>4, <2>5, <2>6
<1> QED
  BY <1>7, <1>8
=============================================================================
