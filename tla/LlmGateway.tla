----------------------------- MODULE LlmGateway -----------------------------
(***************************************************************************)
(* The LLM gateway (rig/llm/gateway.py) as the endpoints of one tenant use *)
(* it: ticket sentiment, insight narratives and the copilot's parser.      *)
(*                                                                         *)
(* A worker runs one request in one READ COMMITTED transaction: it looks   *)
(* for a cached run, compares the tokens of the day with the budget, calls *)
(* the provider at most twice, and commits its ai_model_run rows with the  *)
(* caller's own writes.  Whatever raises, LLMError included, becomes an    *)
(* HTTPException that rolls those rows back.                               *)
(*                                                                         *)
(* Outputs are abstracted to whether they validate; tokens are counts.     *)
(* created_at and now() are the start of the transaction, so a run belongs *)
(* to the day its request began.                                           *)
(***************************************************************************)
EXTENDS Integers, FiniteSets

CONSTANTS Worker,      \* request threads
          Input,       \* input hashes
          Narrative,   \* the inputs that are insight narratives
          Budget,      \* tokens the tenant may use in a day
          MaxTokens,   \* most tokens one provider call uses
          MaxDay,      \* bound on the days
          MaxRuns,     \* bound on the runs committed for an input
          MaxLost,     \* bound on the tokens that no committed run records
          Crashes      \* whether processes and connections may die

ASSUME BudgetAssumption == Budget \in Nat
ASSUME MaxTokensAssumption == MaxTokens \in Nat \ {0}
ASSUME WorkerAssumption == IsFiniteSet(Worker) /\ Worker # {}
ASSUME NarrativeAssumption == Narrative \subseteq Input
ASSUME BoundsAssumption ==
  MaxDay \in Nat \ {0} /\ MaxRuns \in Nat /\ MaxLost \in Nat /\ Crashes \in BOOLEAN

\* The three counts are kept per day d for the requests that began on d or
\* later, which is what the budget query sums for the runs.
VARIABLES
  runs,    \* [Input -> [Status -> number of committed ai_model_run rows]]
  spent,   \* [Day -> tokens of the committed rows]
  used,    \* [Day -> tokens the provider used] (external)
  lost,    \* [Day -> of these, tokens of requests that were rolled back]
  today,
  job      \* [Worker -> request under way]

vars == <<runs, spent, used, lost, today, job>>

Day == 1..MaxDay
Status == {"ok", "invalid", "cached"}
Idle == [phase |-> "idle"]

\* A request that got past the budget check and has not ended.
Calling(w) == job[w].phase \in {"calling", "answered"}

\* count, with t more tokens for a request that began on day.
Plus(count, day, t) == [d \in Day |-> IF d <= day THEN count[d] + t ELSE count[d]]

-----------------------------------------------------------------------------

Init ==
  /\ runs = [i \in Input |-> [s \in Status |-> 0]]
  /\ spent = [d \in Day |-> 0]
  /\ used = [d \in Day |-> 0]
  /\ lost = [d \in Day |-> 0]
  /\ today = 1
  /\ job = [w \in Worker |-> Idle]

Tick ==
  /\ today < MaxDay
  /\ today' = today + 1
  /\ UNCHANGED <<runs, spent, used, lost, job>>

\* A validated run of the same input: it is logged as cached, and served.
ServeCached(w) ==
  /\ job[w] = Idle
  /\ \E i \in Input :
       /\ runs[i].ok > 0
       /\ runs[i].cached < MaxRuns
       /\ runs' = [runs EXCEPT ![i].cached = @ + 1]
  /\ UNCHANGED <<spent, used, lost, today, job>>

\* No validated run of the input is committed yet.
CacheMiss(w) ==
  /\ job[w] = Idle
  /\ \E i \in Input :
       /\ runs[i].ok = 0
       /\ job' = [job EXCEPT ![w] = [phase |-> "missed", input |-> i, day |-> today]]
  /\ UNCHANGED <<runs, spent, used, lost, today>>

\* Mutant of Exhausted: the budget may be met before calls stop.
ExhaustedLate(w) == spent[job[w].day] > Budget

\* sum(tokens) over the rows with created_at >= date_trunc('day', now()).
Exhausted(w) == spent[job[w].day] >= Budget

\* LLMBudgetExceeded: the budget_exceeded row is rolled back with the request.
RefuseBudget(w) ==
  /\ job[w].phase = "missed"
  /\ Exhausted(w)
  /\ job' = [job EXCEPT ![w] = Idle]
  /\ UNCHANGED <<runs, spent, used, lost, today>>

\* The first call to the provider.
CallProvider(w) ==
  /\ job[w].phase = "missed"
  /\ ~Exhausted(w)
  /\ job' = [job EXCEPT ![w] = [phase |-> "calling", input |-> job[w].input,
                                day |-> job[w].day, attempt |-> 1, tokens |-> 0]]
  /\ UNCHANGED <<runs, spent, used, lost, today>>

\* Mutant of RollBack: the tokens of the failed request are forgotten.
RollBackUncounted(w, t) ==
  /\ job' = [job EXCEPT ![w] = Idle]
  /\ UNCHANGED <<runs, spent, lost, today>>

\* The request raises: its rows are rolled back, the t tokens of its last call
\* and those of the attempt before are on no record.
RollBack(w, t) ==
  /\ lost[1] + job[w].tokens + t <= MaxLost
  /\ lost' = Plus(lost, job[w].day, job[w].tokens + t)
  /\ job' = [job EXCEPT ![w] = Idle]
  /\ UNCHANGED <<runs, spent, today>>

AnswerValid(w) ==
  /\ job[w].phase = "calling"
  /\ \E t \in 1..MaxTokens :
       /\ used' = Plus(used, job[w].day, t)
       /\ job' = [job EXCEPT ![w].phase = "answered", ![w].tokens = @ + t]
  /\ UNCHANGED <<runs, spent, lost, today>>

\* A first answer that fails validation is retried once, whatever the budget;
\* a second one raises LLMOutputInvalid.
AnswerInvalid(w) ==
  /\ job[w].phase = "calling"
  /\ \E t \in 1..MaxTokens :
       /\ used' = Plus(used, job[w].day, t)
       /\ \/ /\ job[w].attempt = 1
             /\ job' = [job EXCEPT ![w].attempt = 2, ![w].tokens = @ + t]
             /\ UNCHANGED <<runs, spent, lost, today>>
          \/ /\ job[w].attempt = 2
             /\ RollBack(w, t)

\* LLMRefused, an error of the provider, or no usable answer.
ProviderFails(w) ==
  /\ job[w].phase = "calling"
  /\ \E t \in 0..MaxTokens :
       /\ used' = Plus(used, job[w].day, t)
       /\ RollBack(w, t)

\* Every sentence of the narrative lacks a citation: ValueError, HTTP 422.
RejectUncited(w) ==
  /\ job[w].phase = "answered" /\ job[w].input \in Narrative
  /\ RollBack(w, 0)
  /\ UNCHANGED used

\* Mutants of Invalid: the valid attempt counted too; one attempt too few.
EveryAttempt(w) == job[w].attempt
EarlierAttempts(w) == job[w].attempt - 2

\* The invalid rows logged before the valid answer.
Invalid(w) == job[w].attempt - 1

\* The caller has stored the output; the rows are committed with its writes.
Commit(w) ==
  /\ job[w].phase = "answered"
  /\ runs' = [runs EXCEPT ![job[w].input].ok = @ + 1,
                          ![job[w].input].invalid = @ + Invalid(w)]
  /\ spent' = Plus(spent, job[w].day, job[w].tokens)
  /\ job' = [job EXCEPT ![w] = Idle]
  /\ UNCHANGED <<used, lost, today>>

Crash(w) ==
  /\ Crashes
  /\ Calling(w)
  /\ RollBack(w, 0)
  /\ UNCHANGED used

Next ==
  \/ Tick
  \/ \E w \in Worker :
       \/ ServeCached(w) \/ CacheMiss(w) \/ RefuseBudget(w) \/ CallProvider(w)
       \/ AnswerValid(w) \/ AnswerInvalid(w) \/ ProviderFails(w)
       \/ RejectUncited(w) \/ Commit(w) \/ Crash(w)

Spec == Init /\ [][Next]_vars

-----------------------------------------------------------------------------

Job ==
  [phase : {"idle"}]
    \cup [phase : {"missed"}, input : Input, day : Day]
    \cup [phase : {"calling", "answered"}, input : Input, day : Day,
          attempt : {1, 2}, tokens : 0..(2 * MaxTokens)]

TypeOK ==
  /\ runs \in [Input -> [Status -> Nat]]
  /\ spent \in [Day -> Nat]
  /\ used \in [Day -> Nat]
  /\ lost \in [Day -> Nat]
  /\ today \in Day
  /\ job \in [Worker -> Job]

\* Tokens of the requests under way that began on day d or later: the n-th one
\* of worker w is <<w, n>>.
Pending(d) ==
  Cardinality({tk \in Worker \X (1..(2 * MaxTokens)) :
                 /\ Calling(tk[1]) /\ job[tk[1]].day >= d
                 /\ tk[2] <= job[tk[1]].tokens})

\* Every token the provider used is on a committed row, on a row of a request
\* under way, or lost with one that was rolled back: no path logs it twice.
TokensAccounted ==
  \A d \in Day : used[d] = spent[d] + lost[d] + Pending(d)

\* Requests that check the budget at the same time overrun it, but by no more
\* than two calls of every worker: the tokens recorded for a day stay below
\* the budget plus what the workers had under way.
OverrunBounded == spent[today] < Budget + Cardinality(Worker) * (2 * MaxTokens)

\* A rejected output is on record only next to a valid answer to the same
\* input, and an answer is replayed only after it was validated and kept.
FailsClosed ==
  \A i \in Input :
    /\ runs[i].invalid <= runs[i].ok
    /\ runs[i].cached > 0 => runs[i].ok > 0

-----------------------------------------------------------------------------
(* What the module's documentation says and the code does not do.          *)

\* gateway.py:79: every path, including failures, logs an ai_model_run row.
CallsAreLogged ==
  [][\A w \in Worker :
       job[w].phase = "calling" /\ job'[w] = Idle => runs' # runs]_vars

\* gateway.py:6: a tenant's token budget of the day is never exceeded by a
\* call that starts when the provider has used it up.
NoSurpriseBill ==
  [][\A w \in Worker :
       job[w].phase = "missed" /\ job'[w].phase = "calling" => used[job[w].day] < Budget]_vars
=============================================================================
