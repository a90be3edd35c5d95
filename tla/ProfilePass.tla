---------------------------- MODULE ProfilePass ----------------------------
(***************************************************************************)
(* One pass over the components of a profile (app/profile_mode.go,         *)
(* runProfilePass). Local components run at once, each with a graph of its *)
(* own, and share one measurement of a few rows (profile_pass.go): the     *)
(* first to come measures under its own time, the others wait for it under *)
(* theirs. Over ssh they are overlapped only once the first has shown that *)
(* the destination asks no questions.                                      *)
(*                                                                         *)
(* A graph is reduced to its interface row, one row that depends on it and *)
(* is shared too, and one that is not shared but reads the interface row's *)
(* routes as its yardstick.                                                *)
(***************************************************************************)
EXTENDS Naturals, FiniteSets

CONSTANTS N   \* components, run in the order of their numbers

VARIABLES
  way,        \* how the pass acquires: "local", "careful" (one at a time), "direct"
  stage,      \* where runProfilePass is
  run,        \* per component: its diagnoseHeadless
  batch,      \* components whose ssh refuses to ask
  output,     \* per component: outputs[i]
  row,        \* per component and row: its goroutine, or the sample it shows
  expired,    \* rows whose own time is up
  flight,     \* per shared row: the observation
  reference,  \* per component: the yardstick of its route cache
  measured,   \* per component: the yardstick its own row read
  cancelled,  \* the context of the pass has ended
  verdict     \* what runProfilePass returned

passVars == <<way, stage, run, batch, output, verdict>>
rowVars == <<row, expired, flight, reference, measured>>
profileVars == <<passVars, rowVars, cancelled>>

Component == 1..N
Shared == {"iface", "internet"}
Rows == Component \X Shared
Good == {"a", "b"}                       \* measurements that differ
Samples == Good \cup {"failed", "cut"}   \* cut: the context of the row ended
Ended == Samples \cup {"skipped"}

Init ==
  /\ way \in {"local", "careful", "direct"}
  /\ stage = "start"
  /\ run = [c \in Component |-> "waiting"] /\ batch = {}
  /\ output = [c \in Component |-> "none"]
  /\ row = [r \in Rows |-> "waiting"] /\ expired = {}
  /\ flight = [s \in Shared |-> "none"]
  /\ reference = [c \in Component |-> "none"] /\ measured = [c \in Component |-> "none"]
  /\ cancelled = FALSE /\ verdict = "none"

Cancel ==
  /\ ~cancelled /\ verdict = "none"
  /\ cancelled' = TRUE
  /\ UNCHANGED <<passVars, rowVars>>

-----------------------------------------------------------------------------
\* The rows of one component, and the observations they share.

At(c, s, state) == row' = [row EXCEPT ![<<c, s>>] = state]

\* A row starts under a time of its own.
RowStarts(c, s) ==
  /\ run[c] = "rows" /\ row[<<c, s>>] = "waiting"
  /\ s = "internet" => row[<<c, "iface">>] \in Good
  /\ At(c, s, "started")
  /\ UNCHANGED <<passVars, expired, flight, reference, measured, cancelled>>

RowSkips(c) ==
  /\ run[c] = "rows" /\ row[<<c, "internet">>] = "waiting"
  /\ row[<<c, "iface">>] \in {"failed", "cut"}
  /\ At(c, "internet", "skipped")
  /\ UNCHANGED <<passVars, expired, flight, reference, measured, cancelled>>

Expires(c, s) ==
  /\ row[<<c, s>>] \in {"started", "measuring", "joined"} /\ <<c, s>> \notin expired
  /\ expired' = expired \cup {<<c, s>>}
  /\ UNCHANGED <<passVars, row, flight, reference, measured, cancelled>>

CtxEnded(c, s) == cancelled \/ <<c, s>> \in expired

\* profileObservation.run: the first to come measures.
Joins(c, s) ==
  /\ row[<<c, s>>] = "started"
  /\ IF flight[s] = "none"
       THEN flight' = [flight EXCEPT ![s] = "measuring"] /\ At(c, s, "measuring")
       ELSE At(c, s, "joined") /\ UNCHANGED flight
  /\ UNCHANGED <<passVars, expired, reference, measured, cancelled>>

\* A fault: only the component that measured has the yardstick of that sample.
TakeNoReference(c, s, sample) == reference' = reference

\* referenceOnce: the interface row's routes become the component's yardstick.
TakeReference(c, s, sample) ==
  reference' = IF s = "iface" /\ reference[c] = "none"
                 THEN [reference EXCEPT ![c] = sample] ELSE reference

Measures(c, s) ==
  /\ row[<<c, s>>] = "measuring"
  /\ \E sample \in IF CtxEnded(c, s) THEN Samples ELSE Good \cup {"failed"} :
       /\ flight' = [flight EXCEPT ![s] = sample] /\ At(c, s, sample)
       /\ TakeReference(c, s, sample)
  /\ UNCHANGED <<passVars, expired, measured, cancelled>>

\* A waiter takes the sample, or is cut short; when both have come, either.
Waits(c, s) ==
  /\ row[<<c, s>>] = "joined"
  /\ \E sample \in {f \in {flight[s]} : f # "measuring"} \cup {x \in {"cut"} : CtxEnded(c, s)} :
       /\ At(c, s, sample) /\ TakeReference(c, s, sample)
  /\ UNCHANGED <<passVars, expired, flight, measured, cancelled>>

\* A row of the component's own needs the interface, and reads the yardstick, or
\* makes one if nobody has.
Explains(c) ==
  /\ run[c] = "rows" /\ measured[c] = "none" /\ row[<<c, "iface">>] \in Good
  /\ \E sample \in IF reference[c] = "none" THEN Good ELSE {reference[c]} :
       measured' = [measured EXCEPT ![c] = sample]
  /\ UNCHANGED <<passVars, row, expired, flight, reference, cancelled>>

\* RunAll has every row; a pass that was cut short is no diagnosis.
RowsEnd(c) ==
  /\ run[c] = "rows"
  /\ \A s \in Shared : row[<<c, s>>] \in Ended
  /\ row[<<c, "iface">>] \in Good => measured[c] # "none"
  /\ run' = [run EXCEPT ![c] = "over"]
  /\ output' = [output EXCEPT ![c] = IF cancelled THEN "error" ELSE "answer"]
  /\ UNCHANGED <<way, stage, batch, verdict, rowVars, cancelled>>

\* A component over ssh: an answer, which may be in hand as the pass is
\* interrupted, or a failure.
RemoteEnds(c) ==
  /\ run[c] = "ssh"
  /\ run' = [run EXCEPT ![c] = "over"]
  /\ \E o \in {"answer", "error"} :
       output' = [output EXCEPT ![c] = o]
  /\ UNCHANGED <<way, stage, batch, verdict, rowVars, cancelled>>

ComponentStep(c) ==
  \/ \E s \in Shared : RowStarts(c, s) \/ Expires(c, s) \/ Joins(c, s) \/ Measures(c, s) \/ Waits(c, s)
  \/ RowSkips(c) \/ Explains(c) \/ RowsEnd(c) \/ RemoteEnds(c)

-----------------------------------------------------------------------------
\* runProfilePass.

\* Components C are started, over a transport that may ask or one that may not.
Starts(C, quiet) ==
  /\ run' = [c \in Component |->
               IF c \in C THEN (IF way = "local" THEN "rows" ELSE "ssh") ELSE run[c]]
  /\ batch' = IF quiet THEN batch \cup C ELSE batch \ C

Overlap ==
  /\ stage = "start" /\ way = "local"
  /\ Starts(Component, FALSE) /\ stage' = "together"
  /\ UNCHANGED <<way, output, verdict, rowVars, cancelled>>

\* The first component alone, over the transport that cannot ask.
TryFirst ==
  /\ stage = "start" /\ way = "direct" /\ N > 1
  /\ Starts({1}, TRUE) /\ stage' = "first"
  /\ UNCHANGED <<way, output, verdict, rowVars, cancelled>>

\* A fault: a refused first component does not keep the others from overlapping.
RefusedGoesOn ==
  /\ stage = "first" /\ run[1] = "over" /\ output[1] = "error"
  /\ Starts(Component, FALSE) /\ stage' = "together"
  /\ UNCHANGED <<way, output, verdict, rowVars, cancelled>>

\* Refused: everything again, one at a time.
Refused ==
  /\ stage = "first" /\ run[1] = "over" /\ output[1] = "error"
  /\ Starts({1}, FALSE) /\ stage' = "one by one"
  /\ UNCHANGED <<way, output, verdict, rowVars, cancelled>>

Accepted ==
  /\ stage = "first" /\ run[1] = "over" /\ output[1] = "answer"
  /\ Starts(2..N, TRUE) /\ stage' = "together"
  /\ UNCHANGED <<way, output, verdict, rowVars, cancelled>>

OneByOne ==
  /\ stage = "start" /\ (way = "careful" \/ (way = "direct" /\ N = 1))
  /\ Starts({1}, FALSE) /\ stage' = "one by one"
  /\ UNCHANGED <<way, output, verdict, rowVars, cancelled>>

\* sequential stops at the first component that fails.
NextOne(c) ==
  /\ stage = "one by one" /\ run[c] = "over" /\ output[c] # "error"
  /\ c < N /\ run[c + 1] = "waiting"
  /\ Starts({c + 1}, FALSE)
  /\ UNCHANGED <<way, stage, output, verdict, rowVars, cancelled>>

Failed(c) == run[c] = "over" /\ output[c] = "error"

Acquired ==
  \/ stage \in {"together", "one by one"} /\ \A c \in Component : run[c] = "over"
  \/ stage = "one by one" /\ \E c \in Component : Failed(c)

\* An interruption is no result, nor is a pass with a component that failed.
Returns ==
  /\ Acquired /\ verdict = "none"
  /\ verdict' = CASE cancelled -> "interrupted"
                  [] ~cancelled /\ (\E c \in Component : Failed(c)) -> "failed"
                  [] OTHER -> "reported"
  /\ UNCHANGED <<way, stage, run, batch, output, rowVars, cancelled>>

Over == verdict # "none" /\ UNCHANGED profileVars

Next ==
  \/ \E c \in Component : ComponentStep(c) \/ NextOne(c)
  \/ Overlap \/ TryFirst \/ Refused \/ Accepted \/ OneByOne \/ Returns
  \/ Cancel \/ Over

Spec == Init /\ [][Next]_profileVars

-----------------------------------------------------------------------------
TypeOK ==
  /\ way \in {"local", "careful", "direct"}
  /\ stage \in {"start", "first", "one by one", "together"}
  /\ run \in [Component -> {"waiting", "rows", "ssh", "over"}] /\ batch \subseteq Component
  /\ output \in [Component -> {"none", "answer", "error"}]
  /\ row \in [Rows -> {"waiting", "started", "measuring", "joined"} \cup Ended]
  /\ expired \subseteq Rows
  /\ flight \in [Shared -> {"none", "measuring"} \cup Samples]
  /\ reference \in [Component -> {"none"} \cup Samples]
  /\ measured \in [Component -> {"none"} \cup Samples]
  /\ cancelled \in BOOLEAN
  /\ verdict \in {"none", "interrupted", "failed", "reported"}

\* The components of a reported pass agree on what they share: a shared row shows
\* the one sample of the pass or, with its own time up, that it was cut short,
\* and every route is explained against the routes of that sample.
OneSample ==
  verdict = "reported" /\ way = "local" =>
    /\ \A c \in Component, s \in Shared :
         row[<<c, s>>] \in {flight[s], "skipped"} \/ (row[<<c, s>>] = "cut" /\ <<c, s>> \in expired)
    /\ \A c \in Component : measured[c] \in {"none", flight["iface"]}

\* At most one ssh that may ask runs at a time, whichever way the pass falls back,
\* and what is reported is an answer of every component: none is the refusal the
\* pass began with, or a component that was never run.
OneQuestionAtATime ==
  /\ Cardinality({c \in Component : run[c] = "ssh" /\ c \notin batch}) <= 1
  /\ verdict = "reported" => \A c \in Component : run[c] = "over" /\ output[c] = "answer"
=============================================================================
