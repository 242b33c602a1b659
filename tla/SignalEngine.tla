---------------------------- MODULE SignalEngine ----------------------------
(***************************************************************************)
(* The signals and the score of one account under evaluations that overlap *)
(* (rig/signals/engine.py, rig/scoring.py), with the signal an LLM finds   *)
(* in a ticket (rig/llm/sentiment.py) and its review by a person.          *)
(*                                                                         *)
(* An evaluation is one READ COMMITTED transaction.  It runs the detectors *)
(* in the registry's order; each reads the data and, where it fires,       *)
(* upserts a signal, whose row stays locked until the transaction ends.    *)
(* Then it selects the active signals, resolves by id those that did not   *)
(* fire, and scores the account from what it sees by then.  Evaluations    *)
(* are given one as_of, so that all write one score row; the account has   *)
(* data enough for a score.  A row that is evidence is locked only after   *)
(* the row of its signal, and the insight's only after the score's; they   *)
(* block nothing these rows do not.                                        *)
(***************************************************************************)
EXTENDS Naturals, SequencesExt

CONSTANTS Worker,      \* request threads
          Registry,    \* the detectors' signals, in the order they run
          Severity,    \* severities a signal may have
          Modulus,     \* occurrence counts are kept modulo this
          MaxChanges   \* bound on changes of data, analyses, reviews and crashes

Detector == {Registry[n] : n \in DOMAIN Registry}
Sentiment == "negative_sentiment"
Key == Detector \cup {Sentiment}

ASSUME RegistryAssumption ==
  /\ Registry \in Seq(Detector)
  /\ Sentiment \notin Detector
  /\ \A m, n \in DOMAIN Registry : Registry[m] = Registry[n] => m = n
ASSUME SeverityAssumption == "none" \notin Severity
ASSUME BoundsAssumption == Modulus \in Nat /\ Modulus > 1 /\ MaxChanges \in Nat

VARIABLES
  holds,     \* [Detector -> severity the data call for, or "none"] (external)
  signal,    \* [Key -> committed signal row]
  told,      \* severities of the sentiment signal people have confirmed
  score,     \* committed score row: the <<key, severity>> it counts
  job,       \* [Worker -> evaluation under way, with its uncommitted rows]
  changes    \* number of changes so far

vars == <<holds, signal, told, score, job, changes>>

Absent == [state |-> "absent", severity |-> "none", count |-> 0, review |-> "none"]
Idle == [phase |-> "idle"]

\* The rows a transaction sees: its own changes over what is committed.
Sees(w, k) == IF k \in DOMAIN job[w].own THEN job[w].own[k] ELSE signal[k]

\* Mutant of RowFree: rows are not locked.
NoRowLock(w, k) == TRUE

\* No other transaction has changed the row of k without committing.
RowFree(w, k) ==
  \A v \in Worker \ {w} : job[v] # Idle => k \notin DOMAIN job[v].own

With(f, k, row) == [x \in DOMAIN f \cup {k} |-> IF x = k THEN row ELSE f[x]]

Change == changes < MaxChanges /\ changes' = changes + 1

-----------------------------------------------------------------------------

Init ==
  /\ holds = [d \in Detector |-> "none"]
  /\ signal = [k \in Key |-> Absent]
  /\ told = {}
  /\ score = {}
  /\ job = [w \in Worker |-> Idle]
  /\ changes = 0

DataChanges ==
  /\ Change
  /\ \E d \in Detector, s \in Severity \cup {"none"} :
       s # holds[d] /\ holds' = [holds EXCEPT ![d] = s]
  /\ UNCHANGED <<signal, told, score, job>>

\* INSERT ... ON CONFLICT DO UPDATE: state, severity and count, not the review.
Upserted(row, severity) ==
  [state |-> "active", severity |-> severity, count |-> (row.count + 1) % Modulus,
   review |-> IF row = Absent THEN "pending" ELSE row.review]

\* analyze_ticket_sentiment: the upsert of a negative ticket and the commit.
Analyze ==
  /\ Change
  /\ \E s \in Severity : signal' = [signal EXCEPT ![Sentiment] = Upserted(@, s)]
  /\ UNCHANGED <<holds, told, score, job>>

\* POST /v1/signals/{id}/review: one UPDATE where requires_review.
Review ==
  /\ Change
  /\ signal[Sentiment] # Absent
  /\ \E outcome \in {"confirmed", "rejected"} :
       /\ signal' = [signal EXCEPT ![Sentiment].review = outcome]
       /\ told' = IF outcome = "confirmed" THEN told \cup {signal[Sentiment].severity} ELSE told
  /\ UNCHANGED <<holds, score, job>>

-----------------------------------------------------------------------------
(* POST /v1/admin/accounts/{id}/evaluate.                                  *)

EvaluateStart(w) ==
  /\ job[w] = Idle
  /\ job' = [job EXCEPT ![w] = [phase |-> "look", next |-> 1, found |-> "none",
                                own |-> <<>>, fired |-> {}, stale |-> <<>>, counts |-> {}]]
  /\ UNCHANGED <<holds, signal, told, score, changes>>

\* A detector reads the data.
Detect(w) ==
  /\ job[w].phase = "look" /\ job[w].next <= Len(Registry)
  /\ LET severity == holds[Registry[job[w].next]] IN
     job' = [job EXCEPT ![w] =
       IF severity = "none" THEN [@ EXCEPT !.next = job[w].next + 1]
       ELSE [@ EXCEPT !.phase = "upsert", !.found = severity]]
  /\ UNCHANGED <<holds, signal, told, score, changes>>

\* Its detection is upserted, once the row is free; its evidence is cited.
Upsert(w) ==
  /\ job[w].phase = "upsert"
  /\ LET d == Registry[job[w].next] IN
     /\ RowFree(w, d)
     /\ job' = [job EXCEPT ![w] =
          [@ EXCEPT !.phase = "look", !.next = job[w].next + 1, !.found = "none",
                    !.own = With(job[w].own, d, Upserted(Sees(w, d), job[w].found)),
                    !.fired = job[w].fired \cup {d}]]
  /\ UNCHANGED <<holds, signal, told, score, changes>>

\* Mutant of Managed: signals of every type.
ManagedAll == Key

\* The types of the registry: detectors leave the LLM's signals alone.
Managed == Detector

\* SELECT the active signals, in any order; those that did not fire are to be
\* resolved.
SelectExisting(w) ==
  /\ job[w].phase = "look" /\ job[w].next > Len(Registry)
  /\ \E stale \in SetToSeqs({k \in Managed \ job[w].fired : Sees(w, k).state = "active"}) :
       job' = [job EXCEPT ![w] = [@ EXCEPT !.phase = "resolve", !.stale = stale]]
  /\ UNCHANGED <<holds, signal, told, score, changes>>

\* UPDATE signal SET state = 'resolved' WHERE id, one row after the other.
Resolve(w) ==
  /\ job[w].phase = "resolve" /\ job[w].stale # <<>>
  /\ LET k == Head(job[w].stale) IN
     /\ RowFree(w, k)
     /\ job' = [job EXCEPT ![w] =
          [@ EXCEPT !.own = With(job[w].own, k, [Sees(w, k) EXCEPT !.state = "resolved"]),
                    !.stale = Tail(job[w].stale)]]
  /\ UNCHANGED <<holds, signal, told, score, changes>>

\* Mutant of Counts: resolved signals count as well.
CountsResolved(row, k) == row.state # "absent" /\ (k = Sentiment => row.review = "confirmed")

\* Active, and an LLM signal only when a person has confirmed it.
Counts(row, k) == row.state = "active" /\ (k = Sentiment => row.review = "confirmed")

\* compute_renewal_risk reads the signals it counts.
ComputeScore(w) ==
  /\ job[w].phase = "resolve" /\ job[w].stale = <<>>
  /\ job' = [job EXCEPT ![w] =
       [@ EXCEPT !.phase = "scored",
                 !.counts = {<<k, Sees(w, k).severity>> : k \in {x \in Key : Counts(Sees(w, x), x)}}]]
  /\ UNCHANGED <<holds, signal, told, score, changes>>

\* The day's score row is written with its components, and all is committed.
Commit(w) ==
  /\ job[w].phase = "scored"
  /\ signal' = [k \in Key |-> Sees(w, k)]
  /\ score' = job[w].counts
  /\ job' = [job EXCEPT ![w] = Idle]
  /\ UNCHANGED <<holds, told, changes>>

\* tenant_session rolls back whatever ends an evaluation early.
RollBack(w) ==
  /\ job' = [job EXCEPT ![w] = Idle]
  /\ UNCHANGED <<holds, signal, told, score>>

Crash(w) == Change /\ job[w] # Idle /\ RollBack(w)

\* The row w has to write next is another's.
Blocked(w) ==
  \/ job[w].phase = "upsert" /\ ~RowFree(w, Registry[job[w].next])
  \/ job[w].phase = "resolve" /\ job[w].stale # <<>> /\ ~RowFree(w, Head(job[w].stale))

\* PostgreSQL ends one of the transactions that wait for each other.
BreakDeadlock(w) ==
  /\ Blocked(w)
  /\ \E v \in Worker \ {w} : Blocked(v)
  /\ RollBack(w)
  /\ UNCHANGED changes

Next ==
  \/ DataChanges \/ Analyze \/ Review
  \/ \E w \in Worker :
       \/ EvaluateStart(w) \/ Detect(w) \/ Upsert(w) \/ SelectExisting(w)
       \/ Resolve(w) \/ ComputeScore(w) \/ Commit(w) \/ Crash(w) \/ BreakDeadlock(w)

Spec == Init /\ [][Next]_vars

\* An evaluation that has started runs on, waiting only for locks, which
\* PostgreSQL hands to the waiters.
Running(w) == Detect(w) \/ SelectExisting(w) \/ ComputeScore(w) \/ Commit(w)
Locking(w) == Upsert(w) \/ Resolve(w)

FairSpec ==
  /\ Spec
  /\ \A w \in Worker : WF_vars(Running(w)) /\ SF_vars(Locking(w)) /\ WF_vars(BreakDeadlock(w))

\* Somebody also keeps evaluating the account.
EvaluatingSpec == FairSpec /\ \A w \in Worker : WF_vars(EvaluateStart(w))

-----------------------------------------------------------------------------

Row == [state : {"absent", "active", "resolved"}, severity : Severity \cup {"none"},
        count : 0..(Modulus - 1), review : {"none", "pending", "confirmed", "rejected"}]

Rows == UNION {[D -> Row] : D \in SUBSET Detector}

Evaluation ==
  [phase : {"look", "upsert", "resolve", "scored"}, next : Nat \ {0},
   found : Severity \cup {"none"}, own : Rows, fired : SUBSET Detector,
   stale : Seq(Detector), counts : SUBSET (Key \X Severity)]

TypeOK ==
  /\ holds \in [Detector -> Severity \cup {"none"}]
  /\ signal \in [Key -> Row]
  /\ told \subseteq Severity
  /\ score \subseteq Key \X Severity
  /\ changes \in 0..MaxChanges
  /\ job \in [Worker -> {Idle} \cup Evaluation]

\* Every committed detection is counted once: of evaluations that detect a
\* signal at the same time none overwrites the count of another.
EveryDetectionCounts ==
  [][\A w \in Worker :
       job[w].phase = "scored" /\ job'[w] = Idle /\ signal' # signal =>
         \A d \in job[w].fired : signal'[d].count = (signal[d].count + 1) % Modulus]_vars

\* Detectors know nothing of the LLM's signals: no evaluation resolves one or
\* takes a review back.
LlmSignalsAreLeftAlone ==
  [][\A w \in Worker : job'[w] # job[w] => signal'[Sentiment] = signal[Sentiment]]_vars

Vetted == signal[Sentiment].state = "active" /\ signal[Sentiment].review = "confirmed"

Accurate ==
  /\ \A d \in Detector :
       IF holds[d] = "none" THEN signal[d].state # "active"
       ELSE signal[d].state = "active" /\ signal[d].severity = holds[d]
  /\ score = {<<d, holds[d]>> : d \in {x \in Detector : holds[x] # "none"}}
               \cup (IF Vetted THEN {<<Sentiment, signal[Sentiment].severity>>} ELSE {})

\* Whatever evaluations that overlap have resolved too early or scored too
\* late heals: when the data stop changing and the account goes on being
\* evaluated, signals and score come to be what the data call for, unless
\* evaluations go on ending in deadlocks.
Settles == <>[]Accurate \/ []<><<\E w \in Worker : BreakDeadlock(w)>>_vars

\* No evaluation waits forever for the rows of others.
EvaluationsEnd == \A w \in Worker : (job[w] # Idle) ~> (job[w] = Idle)

\* backend/README.md:48: an LLM signal does not affect the score until a
\* person confirms it: what the score counts of it was confirmed.
ScoresWhatWasConfirmed == \A s \in Severity : <<Sentiment, s>> \in score => s \in told
=============================================================================
