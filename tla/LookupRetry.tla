---------------------------- MODULE LookupRetry ----------------------------
(***************************************************************************)
(* netops.lookupIPRetrying (internal/diagnostic/probe_dns.go): a lookup    *)
(* that fails inconclusively, or is still waiting when half the budget is  *)
(* gone, is asked a second time beside the first. Each query runs in a     *)
(* goroutine that puts its answer on a channel with room for both.         *)
(***************************************************************************)
EXTENDS Naturals, Sequences

VARIABLES
  query,        \* per query: "unsent", "asking" or what it was answered
  answers,      \* the channel
  resample,     \* the timer at half the budget
  outstanding,  \* queries not received yet
  spare,        \* the second query has not been sent
  last,         \* the last inconclusive answer
  result        \* what the caller returned

vars == <<query, answers, resample, outstanding, spare, last, result>>

Query == 1..2
Retryable == {"timeout", "servfail"}
Conclusive == {"addresses", "nxdomain"}
Outcome == Retryable \cup Conclusive

Init ==
  /\ query = <<"asking", "unsent">>
  /\ answers = <<>> /\ resample = "armed"
  /\ outstanding = 1 /\ spare = TRUE
  /\ last = "none" /\ result = "none"

Returned == result # "none"

\* The resolver, or the end of the row's context, ends a query; its goroutine
\* puts the answer on the channel, whether or not anybody still reads it.
Answered(q) ==
  /\ query[q] = "asking"
  /\ \E o \in Outcome : query' = [query EXCEPT ![q] = o]
  /\ answers' = Append(answers, q)
  /\ UNCHANGED <<resample, outstanding, spare, last, result>>

HalfTime ==
  /\ ~Returned /\ resample = "armed"
  /\ resample' = "fired"
  /\ UNCHANGED <<query, answers, outstanding, spare, last, result>>

-----------------------------------------------------------------------------
\* send: the second query goes out once, from an outstanding count of n.
Send(n) ==
  /\ spare' = FALSE
  /\ outstanding' = IF spare THEN n + 1 ELSE n
  /\ query' = IF spare THEN [query EXCEPT ![2] = "asking"] ELSE query

TakeTick ==
  /\ ~Returned /\ outstanding > 0
  /\ resample = "fired" /\ resample' = "taken"
  /\ Send(outstanding)
  /\ UNCHANGED <<answers, last, result>>

\* An answer, or a failure that asking again cannot change.
TakeConclusive ==
  /\ ~Returned /\ outstanding > 0 /\ answers # <<>>
  /\ query[Head(answers)] \in Conclusive
  /\ result' = query[Head(answers)]
  /\ answers' = Tail(answers)
  /\ outstanding' = outstanding - 1
  /\ UNCHANGED <<query, resample, spare, last>>

TakeRetryable ==
  /\ ~Returned /\ outstanding > 0 /\ answers # <<>>
  /\ query[Head(answers)] \in Retryable
  /\ last' = query[Head(answers)]
  /\ answers' = Tail(answers)
  /\ Send(outstanding - 1)
  /\ UNCHANGED <<resample, result>>

GiveUp ==
  /\ ~Returned /\ outstanding = 0
  /\ result' = last
  /\ UNCHANGED <<query, answers, resample, outstanding, spare, last>>

Caller == TakeTick \/ TakeConclusive \/ TakeRetryable \/ GiveUp

Settled == Returned /\ \A q \in Query : query[q] # "asking"

Next ==
  \/ \E q \in Query : Answered(q)
  \/ HalfTime
  \/ Caller
  \/ Settled /\ UNCHANGED vars

-----------------------------------------------------------------------------
TypeOK ==
  /\ query \in [Query -> {"unsent", "asking"} \cup Outcome]
  /\ answers \in Seq(Query)
  /\ resample \in {"armed", "fired", "taken"} /\ spare \in BOOLEAN
  /\ outstanding \in 0..2
  /\ last \in {"none"} \cup Retryable
  /\ result \in {"none"} \cup Outcome

\* A lookup reported as failed inconclusively was asked twice and both queries
\* failed so: a late answer of the first is not lost to the second, nor a recovery
\* of the resolver to the first failure. Anything else reported was answered.
LookupIsTrue ==
  Returned => IF result \in Retryable
                THEN \A q \in Query : query[q] \in Retryable
                ELSE \E q \in Query : query[q] = result
=============================================================================
