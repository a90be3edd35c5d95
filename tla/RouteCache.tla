----------------------------- MODULE RouteCache -----------------------------
(***************************************************************************)
(* The route answers the rows of one pass share: the route cache           *)
(* (internal/diagnostic/route.go), the link cache below it                 *)
(* (route_linux.go) and the yardstick collected once. Both caches claim an *)
(* entry under a lock and fill it without, so that the kernel is asked     *)
(* about different keys at once; who finds an entry claimed waits for it.  *)
(* Routes and links may change in the kernel while the pass runs.          *)
(***************************************************************************)
EXTENDS Naturals, FiniteSets

CONSTANTS
  Asker,         \* rows of the pass
  Dst, Yard,     \* destinations; the one general traffic is measured at
  Link,          \* interfaces
  MaxChanges,    \* bound: changes in the kernel while the pass runs
  MaxQuestions   \* bound: questions a row asks

VARIABLES
  route,      \* the kernel's route for a destination: a link, or none
  facts,      \* the kernel's facts of a link, as a version
  changes,    \* changes so far
  answers,    \* per destination: no entry, claimed, or the decision
  links,      \* per link: no entry, claimed, or its facts
  once,       \* referenceOnce
  reference,  \* the decision the yardstick was taken from
  pc,         \* per row: its control state
  dst,        \* per row: the destination it asks about
  via,        \* per row: the link its lookup was answered with
  forOnce,    \* rows inside referenceOnce.Do
  asked,      \* per row: questions so far
  shown       \* per row: the decisions it shows, with their destination

kernelVars == <<route, facts, changes>>
cacheVars == <<answers, links, once, reference>>
rowVars == <<pc, dst, via, forOnce, asked, shown>>
vars == <<kernelVars, cacheVars, rowVars>>

NoRoute == [ok |-> FALSE]
Decision(l, f) == [ok |-> TRUE, link |-> l, facts |-> f]
Vacant == [ok |-> FALSE, held |-> "vacant"]
Claimed == [ok |-> FALSE, held |-> "claimed"]

Init ==
  /\ route \in [Dst -> Link] /\ facts = [l \in Link |-> 0] /\ changes = 0
  /\ answers = [d \in Dst |-> Vacant] /\ links = [l \in Link |-> Vacant]
  /\ once = "unused" /\ reference = Vacant
  /\ pc = [r \in Asker |-> "idle"] /\ dst = [r \in Asker |-> Yard]
  /\ via \in [Asker -> Link] /\ \A r \in Asker : via[r] = route[Yard]
  /\ forOnce = {} /\ asked = [r \in Asker |-> 0] /\ shown = [r \in Asker |-> {}]

Filled(entry) == entry \notin {Vacant, Claimed}
At(r, here) == pc[r] = here
Go(r, there) == pc' = [pc EXCEPT ![r] = there]

\* The kernel moves a route, or a link changes its name, size or kind.
KernelChanges ==
  /\ changes < MaxChanges
  /\ changes' = changes + 1
  /\ \/ /\ \E d \in Dst, l \in Link : route' = [route EXCEPT ![d] = l]
        /\ UNCHANGED facts
     \/ /\ \E l \in Link : facts' = [facts EXCEPT ![l] = changes']
        /\ UNCHANGED route
  /\ UNCHANGED <<cacheVars, rowVars>>

-----------------------------------------------------------------------------
\* routeCache.get

Claim(r, d) ==
  /\ dst' = [dst EXCEPT ![r] = d]
  /\ IF answers[d] = Vacant
       THEN answers' = [answers EXCEPT ![d] = Claimed] /\ Go(r, "lookup")
       ELSE UNCHANGED answers /\ Go(r, "await")

\* A row asks about a destination of its own.
Ask(r) ==
  /\ At(r, "idle") /\ asked[r] < MaxQuestions
  /\ asked' = [asked EXCEPT ![r] = asked[r] + 1]
  /\ \E d \in Dst : Claim(r, d)
  /\ UNCHANGED <<kernelVars, links, once, reference, via, forOnce, shown>>

\* A row asks for the yardstick: the first collects it, the others wait for that.
AskReference(r) ==
  /\ At(r, "idle") /\ asked[r] < MaxQuestions
  /\ once # "running"
  /\ asked' = [asked EXCEPT ![r] = asked[r] + 1]
  /\ \/ /\ once = "unused" /\ once' = "running"
        /\ forOnce' = forOnce \cup {r}
        /\ Claim(r, Yard)
        /\ UNCHANGED shown
     \/ /\ once = "done"
        /\ shown' = [shown EXCEPT ![r] = @ \cup {<<Yard, reference>>}]
        /\ UNCHANGED <<answers, once, pc, dst, forOnce>>
  /\ UNCHANGED <<kernelVars, links, reference, via>>

\* What a finished question does with its decision: the row shows it, and the one
\* that collects the yardstick completes it.
Answer(r, decision) ==
  /\ Go(r, "idle")
  /\ shown' = [shown EXCEPT ![r] = @ \cup {<<dst[r], decision>>}]
  /\ forOnce' = forOnce \ {r}
  /\ IF r \in forOnce
       THEN once' = "done" /\ reference' = decision
       ELSE UNCHANGED <<once, reference>>

Await(r) ==
  /\ At(r, "await") /\ Filled(answers[dst[r]])
  /\ Answer(r, answers[dst[r]])
  /\ UNCHANGED <<kernelVars, answers, links, dst, via, asked>>

\* The lookup fails or there is no route: that is the answer of the pass, too.
LookupFails(r) ==
  /\ At(r, "lookup")
  /\ answers' = [answers EXCEPT ![dst[r]] = NoRoute]
  /\ Answer(r, NoRoute)
  /\ UNCHANGED <<kernelVars, links, dst, via, asked>>

\* The kernel names a link, and the link cache is asked about it.
Lookup(r) ==
  /\ At(r, "lookup")
  /\ LET l == route[dst[r]] IN
       /\ via' = [via EXCEPT ![r] = l]
       /\ IF links[l] = Vacant
            THEN links' = [links EXCEPT ![l] = Claimed] /\ Go(r, "acquire")
            ELSE UNCHANGED links /\ Go(r, "link")
  /\ UNCHANGED <<kernelVars, answers, once, reference, dst, forOnce, asked, shown>>

\* The facts of the link complete the decision, which fills the route's entry.
Decide(r, f) ==
  /\ answers' = [answers EXCEPT ![dst[r]] = Decision(via[r], f)]
  /\ Answer(r, Decision(via[r], f))

Acquire(r) ==
  /\ At(r, "acquire")
  /\ links' = [links EXCEPT ![via[r]] = [ok |-> TRUE, facts |-> facts[via[r]]]]
  /\ Decide(r, facts[via[r]])
  /\ UNCHANGED <<kernelVars, dst, via, asked>>

AwaitLink(r) ==
  /\ At(r, "link") /\ Filled(links[via[r]])
  /\ Decide(r, links[via[r]].facts)
  /\ UNCHANGED <<kernelVars, links, dst, via, asked>>

RowStep(r) ==
  Ask(r) \/ AskReference(r) \/ Await(r) \/ LookupFails(r) \/ Lookup(r) \/ Acquire(r) \/ AwaitLink(r)

\* Every row has asked what it wanted.
Finished == (\A r \in Asker : At(r, "idle") /\ asked[r] = MaxQuestions) /\ UNCHANGED vars

Next == KernelChanges \/ (\E r \in Asker : RowStep(r)) \/ Finished

-----------------------------------------------------------------------------
TypeOK ==
  LET decisions == {NoRoute} \cup [ok : {TRUE}, link : Link, facts : 0..MaxChanges] IN
  /\ route \in [Dst -> Link] /\ facts \in [Link -> 0..MaxChanges] /\ changes \in 0..MaxChanges
  /\ answers \in [Dst -> {Vacant, Claimed} \cup decisions]
  /\ links \in [Link -> {Vacant, Claimed} \cup [ok : {TRUE}, facts : 0..MaxChanges]]
  /\ once \in {"unused", "running", "done"} /\ reference \in {Vacant} \cup decisions
  /\ pc \in [Asker -> {"idle", "lookup", "await", "acquire", "link"}]
  /\ dst \in [Asker -> Dst] /\ via \in [Asker -> Link]
  /\ forOnce \subseteq Asker /\ asked \in [Asker -> 0..MaxQuestions]
  /\ shown \in [Asker -> SUBSET (Dst \X decisions)]

\* Two rows of one pass never show different decisions for one destination, the
\* yardstick included, nor different facts of one link, whatever the kernel does
\* meanwhile: what a report explains as two networks were two networks.
OneAnswer ==
  LET all == UNION {shown[r] : r \in Asker} IN
  \A x, y \in all :
    /\ x[1] = y[1] => x[2] = y[2]
    /\ x[2].ok /\ y[2].ok /\ x[2].link = y[2].link => x[2].facts = y[2].facts
=============================================================================
