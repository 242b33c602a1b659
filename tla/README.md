# Revenue Intelligence Graph: specifications

TLA+ models of the backend of the Revenue Intelligence Graph (`src/backend`),
their TLC configurations, and proofs for TLAPS. Every definition is written from
the source; `PROJECT.json` maps it to the lines it models. Paths below are under
`src/backend/rig` unless they begin with `migrations`.

## The system

A FastAPI application over PostgreSQL. Every endpoint is a synchronous function
run on a thread pool. It opens one `db.tenant_session`: one READ COMMITTED
transaction bound to one tenant by row-level security, committed when the handler
returns and rolled back when it raises, `HTTPException` included. There is no
other shared state, no background worker and no message queue. So the behaviours
that are hard here come from

- handlers that read with a plain SELECT and write later by primary key;
- calls to the outside (CRM, Slack, LLM provider, Stripe, Zendesk) made inside the
  transaction, whose effects survive when the transaction does not;
- error paths that record something and then raise, which rolls the record back;
- locks held across those calls (row locks, the tenant's audit advisory lock);
- sequences, dates and cursors that are read at one time and used at another.

### Components

| component | state | operations | correct when | module |
|---|---|---|---|---|
| audit chain (`audit.py`, `migrations/0001`) | `audit_event`, its sequence, one advisory lock per tenant | `record`, trigger, `verify_chain` | an untouched log verifies | `AuditChain` |
| write-back (`writeback.py`) | `writeback_request`, its audit events, tasks in the CRM | propose, approve, reject, execute | nothing is written without a record; written once; states follow the lifecycle | `Writeback` |
| insights (`insights.py`) | `insight`, `insight_transition` | upsert from evaluation, transition | one open risk per account; recorded history is the real one; the machine leaves human decisions alone | `InsightLifecycle` |
| playbooks, tasks (`playbooks.py`) | `task` | apply, complete | applied once, only to accepted risks | `InsightLifecycle` |
| outcomes (`outcomes.py`) | `renewal_outcome` | record | closes the open risk, labels are right | `InsightLifecycle` |
| notifications (`notifications.py`) | `notification`, Slack messages | notify | one message per insight, recorded | `InsightLifecycle` |
| LLM gateway (`llm/`) | `ai_model_run`, provider usage | run | bounded spending, everything logged, only validated output kept | `LlmGateway` |
| source lifecycle (`main.py`, `credentials.py`) | `data_source`, `integration_credential` | create, reconnect, sync, disconnect | status, credentials and cursors belong together | `SourceSync` |
| connector runs (`connectors/`) | cursors, `raw_record`, `invoice`, `support_ticket` | run | no record is lost | `SourceSync` |
| identity resolution (`resolution.py`, HubSpot's companies) | `account`, `source_link`, `identity_candidate` | land, match, link, enrich, queue, create; accept, reject | a company becomes one account; link and candidate agree | `IdentityResolution` |
| signal engine, review (`signals/`, `llm/sentiment.py`) | `signal`, `evidence_object` | evaluate, analyze, review | no detection is lost; the LLM's signals are left to people; signals come to agree with the data | `SignalEngine` |
| scoring (`scoring.py`, `insights.py`) | `score`, `score_component` | compute | only vetted signals count; one signal is not a risk; neither time nor more problems lower the score | `RiskScore` |
| executive briefs (`briefing.py`, `verification.py`) | `exec_brief`, claims, `evidence_object` | generate, approve, distribute | what goes out was approved on fresh evidence that states its amounts | `ExecBrief` |
| data quality, usage import (`data_quality.py`, `usage_import.py`) | `data_quality_issue`, `usage_metric_daily` | run, import | the open issues come to be the present ones | `DataQuality` |
| calibration (`calibration.py`) | `calibration_model` | fit, apply | the fit is isotonic; what is served is monotone and no worse than the prior | `Calibration` |
| rate limiter (`ratelimit.py`) | buckets in memory | check | no window above the rate; patience is served | `RateLimiter` |
| tenant isolation (`db.py`, policies) | session setting | every statement | no row of another tenant | as visibility, in `AuditChain` |

### Not modelled

- Authentication is a pure check of a token against a role table; the row-level
  policies are declarative and have no steps of their own.
- Migrations, boot and seed run once. The offline evaluations are test harnesses.
  The frontend keeps no state of record.
- HubSpot's contacts and deals: upserts by their own key under the record lock, as
  for an invoice, with nothing that depends on their order. The HTTP clients are
  "answers, fails or times out".
- The values of cursors. The code compares them as strings and asks upstream for what
  is greater; whether two records can share a value is up to the three systems.
- Reports and explanations, which only read; the copilot, but for its LLM call.

### How components interact

Evaluation calls scoring, then composes the account's insight, then notifies
Slack, in one transaction. Playbooks move insights through
`transition_insight`. Outcomes close them. Almost every handler ends with
`audit.record`, and so takes the tenant's advisory lock until its commit: the
write-back approval takes it *before* it calls the CRM. Sync runs write the links
that later items need. LLM calls share the caller's transaction. Briefs are composed from
insights and from evidence that evaluations keep fresh. Scoring suspends the usage
signals of an account by the rule that opens a data-quality issue, and fits are
made from the labels of outcomes.

## Modules

`AuditChain`. A writer is a request transaction. PostgreSQL evaluates the default
of `seq` before it runs a BEFORE INSERT trigger, so an insert is two steps:
`DrawSeq` (never undone) and `AppendRow` (lock, last hash, row). `Commit` and
`Rollback` end the transaction and free the lock. Hashes are abstracted to the seq
of the row they stand for. `Intact` is `verify_chain`.

`Writeback`. Per request: the committed `state` and `trail` (audit actions); the
open approval's `call`, `view` and `viewTrail`; and what the CRM holds, `written`
and, of that, `unrecorded`. An approval with a client is `ApproveAndCall`, then the
CRM's `CrmCreates` or `CrmRefuses`, then `RecordExecuted`, or `FailAndRaise` and
`RollBackFailed`. Handlers that do not call out commit in one step (`Record`).
`WritebackPromise` is the abstract lifecycle with its audit events; `Writeback`
implements it with `state` and `trail` as they are.

`LifecycleStates`, `LifecyclePromise`, `InsightLifecycle`. The insights of one
account with their transitions, tasks, outcomes and notices. A worker runs one
handler; its reads are one step, its writes another, and others run between. An
evaluation has more: it composes the insight (row locked, or a new index entry),
calls Slack, and commits. `LifecyclePromise` is the documented lifecycle of the
states alone; the refinement mapping takes `insight[i].state` for its state.
Not modelled: the row locks on signals that also serialise evaluations of an
account whose signals the engine refreshes. The model allows those
interleavings; they are real for an account with only LLM signals.

`LlmGateway`. A request looks in the cache, compares the day's tokens with the
budget, calls at most twice, and commits its rows with its caller's, or rolls back.
Counts are kept per day `d` for requests begun on `d` or later, because
`created_at` is the start of the transaction and the budget query has no upper
date. `used` is what the provider used, `spent` what committed rows record, `lost`
what was rolled back.

`SourceSync`. One source: its row and credentials, two streams upstream, the
landed records, the link of each owner, the stored items, and the runs. A stream is
applied in one step of a run (nothing in it can be seen from outside before the
commit, and landing locks the records); a failing run commits any part of the
stream it was in. It has one source and no account; `IdentityResolution` has the
accounts and no cursor. `AcceptRead` and `AcceptWrite` are the check and the write of
`accept_candidate`. Cursor values of a stream are distinct (see hazards).

`RiskScore`. One account, evaluated after every change of its data: the five
detectors, the score and what `upsert_risk_insight` says of it are operators of the
state (`Active`, `Score`, `Composes`, `Leaders`). Data are days: until the renewal,
since an invoice was due, since a ticket was opened, since the last usage row.
There is one invoice, one ticket and one usage metric, whose severity is that of
the worst; percentages, strengths and values are integers of the code's scale.

`SignalEngine`. The transactions of overlapping evaluations: `Detect` and `Upsert`
per detector, `SelectExisting`, `Resolve` per row, `ComputeScore`, `Commit`. `own`
holds the rows a transaction has changed and so locked; `Sees` is READ COMMITTED.
What the data call for is external (`holds`); `Analyze` and `Review` are the LLM's
signal and a person's answer. Postgres ends one of two transactions that wait for
each other (`BreakDeadlock`). `RiskScore` is one evaluation computed in full,
`SignalEngine` many in pieces; `InsightLifecycle` takes from them whether the score
is high and its top severity, as inputs.

`IdentityResolution`. Runs of several sources, each listing some companies in an
order of its own: `Land` (the raw record, locked), then `Update` of a linked
company or `Match` against the accounts it sees, and on what it found `LinkMatch`
(with enrichment of the domains), `Queue` or, for the CRM, `Mint`. What a run has
not committed is in `run[w].accounts` and `.links`, and locks those rows. `Likeness`
is a table: `SequenceMatcher` is deterministic but not symmetric. Accept is its
SELECT and its UPDATEs (`AcceptSelect`, `AcceptUpdate`); reject is one guarded
UPDATE.

`ExecBrief`. A brief is read (`GenerateRead`: figure, risk and, for its evidence, the
day) and written; approved after a look at the claims (`ApproveCheck`, `ApproveWrite`);
distributed the same way. One account, one open risk found by a rule or by the LLM,
and one of the four metrics stand for all, for they are treated alike. `Earlier`
lets the LLM have found the ticket, and a person have reviewed it, before the
behaviour begins, so that a small `MaxTurns` reaches what comes after. A claim keeps
what it says and what its allowlist allows, since the code rounds the one and
truncates the other. `checked` remembers the day an approval verified.

`DataQuality`. A check is three rounds of read and upsert, then the UPDATEs that
resolve what it did not find; `own` is what it has written and locked. The usage rows
and the data source are what the checks are about: `ImportUsage` upserts the accepted
rows of a file, whatever their date; the source's runs are in `SourceSync`, here they
only end well or not.

`Calibration`. The fit is written as recursive functions over blocks of labels, a
pass of the pooling loop as an operator (`PoolStep`); `Gate` compares Brier scores on a holdout; `FitLabels`, `FitVersion` and `FitStore` are the
statements of a fit, between which labels come in and other fits run. Python's
seeded shuffle depends only on how many labels there are, so any split is one it may
make. `FitIsIsotonic` is checked against the min-max definition of isotonic
regression, over all labels that a run reaches.

`RateLimiter`. One check is one step: the middleware is a coroutine of the one event
loop and awaits nothing before it has decided. Time and tokens are scaled so that a
tick refills whole units. `grants`, `told` and `denials` are history for the
properties. The class of a path is free; that `generate-narrative` is LLM-backed and
yet standard (`ratelimit.py:16` and its comment in `:8`) does not matter to a bucket.

`MC*` modules give the constants values and declare symmetry (workers,
requests or reviewers; never in a run of a liveness property or where a value is named).
`MCRecords`, `MCConnectors`, `MCLimits`, `MCScoring` and `MCEvaluation` put two
components side by side. The two share no variable: in a behaviour one of them moves
and the other rests in an initial state, so a run explores the states of one and
then those of the other, never their product, and says of each what a run of its own
would. Where they do interact, it is through values that the resting one leaves to
the moving one's choice.
Operators with a comment "Mutant of X" are plausible wrong versions of X, used to
see that each property notices.

## Runs

A bounded system stops when its bounds are reached, and users may stop acting at
any time, so the runs set `CHECK_DEADLOCK FALSE`. That a handler cannot get stuck is
what the liveness properties say.

Passing:

| run | properties | bounds, and why they are enough |
|---|---|---|
| records | `RecordsTypeOK`, `LinksResolve`, `BrokenOnlyByInversion`, `ApprovalRestsOnFresh`, `AmountIsEvidenced` | log: two writers of one tenant, one of another, 4 values of the sequence, so two appends by each of two racing writers. Briefs: two clerks, two briefs, two days with evidence that is stale after one, two amounts of which one is rounded, two turns (a detection or review, then an evaluation): a draft that ages before an approval, an approval and a distribution that race, and evidence that two briefs share |
| writeback_handlers | `EffectsAccounted`, `TrailTellsState`, `NoDecisionDuringCall`, `KeepsPromise`, `CallsEnd` | two requests, three CRM writes each: two lost ones and one that is kept |
| insight_serial | `HistoryIsChain`, `MachineLeavesOwnedAlone`, `KeepsLifecycle` | one worker, two insights, six moves (a whole lifecycle), two days: two outcomes |
| insight_races | `AtMostOneOpen`, `HistoryEndsAtState`, `SilentOnceRecorded` | two workers with crashes, two insights, two moves, two messages: a stale write to a closed insight with a second one open, and a message sent twice |
| insight_work | `TasksOnlyOnceAccepted`, `HandlersEnd` | two workers and all handlers, one insight with a playbook, three moves: an application that began before a dismissal |
| limits | `TokensAccounted`, `OverrunBounded`, `FailsClosed`, `NeverAboveRate`, `ThirdTimeServed` | gateway: two workers, two inputs, two days, at most two tokens a call. Buckets: one key (keys and classes are apart), two classes of two tokens and one, 3 ticks to the second and 10 ticks: a bucket that fills again while it rests, and waits that are rounded up and down |
| connectors | `BothTypeOK`, `NothingSkipped`, `CredentialsFollowStatus`, `MintedOnce`, `DomainsListedOnce`, `DecisionsAgree` | source: two runs, an owner and two items, a reconnection: a stream of which a failing run keeps a part (with two owners and an item it holds as well, in 2.4 million states, and it is proved for any number). Identity: two runs, two reviewers, two companies of the CRM and a customer of another source whose names are just alike enough or just not, a created account: a run that looked before a person decided, and two that enrich one account |
| score | `UnvettedChangesNothing`, `InsightRestsOnTwo`, `TimeNeverCalms`, `ProblemsNeverCalm`, `FitIsIsotonic`, `ServedIsMonotone`, `VersionsInOrder`, `NeverWorseThanPrior` | scoring: the weights, norms and thresholds of the code; limits of 0 to 2 days, so that every age and every order of the limits is met, and a renewal three days ahead. Calibration: all multisets of up to five labels on three scores, every split, two fits: chains of blocks that pool, and a second fit on more labels |
| evaluation | `EveryDetectionCounts`, `Settles`, `IssuesSettle` | signals: two evaluations, two detectors, three changes: enough for two that wait for each other. Checks: two runs, three issues, three days, two moves: an issue that clears while one of two overlapping checks still believes in it |

Disagreements. Each of these runs checks one property that states what a comment, a
message or a document says, and TLC finds a behaviour of the code that violates
it; `findings` in `PROJECT.json` quotes the text.

| run | what happens |
|---|---|
| audit_fork (`ChainVerifies`) | two concurrent appends draw seq in one order and lock in the other; the untouched log fails verification |
| writeback_duplicate (`WrittenOnce`) | an answer is lost after the CRM created the task: the approval rolls back, and a second one writes a second task |
| sync_deferred (`DeferredAttaches`) | an item deferred once is never fetched again |

Further configurations, not among the runs. All but one state what a document or
comment says, or what one may expect, and are violated:

| configuration | property | result |
|---|---|---|
| `MCWriteback_unfailed` | `FailureIsRecorded` | violated: a lost answer rolls back the approval, failure and audit events ("audited at every step") |
| `MCWriteback_stranded` | `ApprovedIsExecuted` | violated: approved with no client configured, never executed |
| `MCInsightLifecycle_owned_closed` | `MachineLeavesOwnedAlone` | violated with two workers: an evaluation closes a risk that was accepted after it read it |
| `MCInsightLifecycle_history_forked` | `HistoryIsChain` | violated with two workers: two moves validated against one state |
| `MCLimits_unlogged`, `_surprise` | `CallsAreLogged`, `NoSurpriseBill` | violated: failed calls leave no row, and do not count against the budget |
| `MCSourceSync_stuck`, `_stale_cursor` | `RecreatedWithoutCredentials`, `FreshAfterReconnect` | violated: a run outlives the disconnection |
| `MCSourceSync_ends` | `SyncsEnd` | holds: two runs, an owner and an item |
| `MCSignalEngine_unconfirmed` | `ScoresWhatWasConfirmed` | violated: a confirmed LLM signal is analysed again, and its new severity counts under the old confirmation |
| `MCRecords_unconfirmed` | `UnconfirmedStayOut` | violated: a risk is composed from all active signals, and so its title may be an unconfirmed LLM finding (`insights.py:60-71`); the brief drops that signal from the citations but keeps the title in the body (`briefing.py:10`) |
| `MCScoring_ties` | `NeverWorseAtAll` | violated: (x, 0) sorts before (x, 1), the two labels of a score stay in different blocks, and the lower knot is served for x |
| `MCConnectors_decision` | `DecisionStands` | violated: a run that looked before a person accepted a candidate replaces the link |

These statements are defined in the modules and have no configuration of their own.
With the constants and the specification of the configuration named:

| with | violated | why |
|---|---|---|
| `MCWriteback_handlers` | `WritesAreAudited` | the lost answer again: a task without an audit event |
| `MCInsightLifecycle_history_forked` | `OutcomeClosesInsight`, `PlaybookOnce` | two workers: a closed risk is reopened; a playbook is applied twice |
| `MCInsightLifecycle_serial` | `InterventionOfOpenInsight` | the tasks of closed risks count as the intervention of a later renewal |
| `MCInsightLifecycle_serial`, `Severity = {"medium", "high"}` | `AnnouncedIsFlagged` | the label of an outcome comes from a severity that a later evaluation overwrote |
| `MCInsightLifecycle_races` | `PostsAreRecorded` | a message is sent and its row rolled back |
| `MCInsightLifecycle_races`, `Severity = {"high", "critical"}` | `EscalationRefreshes` | an escalation of an announced risk is silent |
| `MCSourceSync_deferred` | `FrozenWhenDisconnected` | a run goes on after the disconnection |
| `MCRecords_shared` | `FigureInBody`, `CurrentRiskInBody`, `GoesOutOnce` | a claim that rounds up is not in the allowlist, which truncates (`briefing.py:71-73`); one stale citation of a current risk keeps it out; two distributions of one brief |
| `MCRecords_shared`, `Accounts = {1, 2}` | `CountIsEvidenced` | the hash that finds a metric's evidence again leaves the count out (`briefing.py:31`) |
| `MCScoring_score` | `LaterKnowsMore` | a fit that read its labels first may store last |
| `MCConnectors_runs` | `RejectionStands`, `DomainsExclusive` | an acceptance overrides a rejection made after it looked; two accounts list one domain |
| `MCEvaluation_overlap`, `Ahead = 1` | `FreshIsRecent` | a usage row dated ahead keeps an account fresh (`usage_import.py:44`) |
| `MCEvaluation_overlap` | `SuspensionIsSaid` | the usage signals of an account that never reported are suspended, and no issue says so |

And these hold there: `OneCallInFlight` (`MCWriteback_handlers`), `StoredUnderLink`
(`MCConnectors_runs`), `EvaluationsEnd`, `LlmSignalsAreLeftAlone`
and `FindingsStand` (`MCEvaluation_overlap`), `PlaybookOnce` and `OutcomeClosesInsight`
(`MCInsightLifecycle_serial`), and the type invariants that no run lists. All of them
but `EvaluationsEnd`, which is liveness, are theorems too.

Two divergences met while reading need no run. `outcomes.py:199` reports predictive
mode as active from fifty outcomes on, whether or not a fit has passed the gate. And
`calibration.py:100` serves a curve fitted to all labels, which is not the one that
passed the gate: `NeverWorseThanPrior` is about the one that is served.

The properties of the insight that fail with two workers hold in `insight_serial`,
with one: the code is right one request at a time.

Other bounds: `MaxSeq`, `MaxWrites`, `MaxMoves`, `MaxInsight`, `MaxPosts`, `MaxDay`,
`MaxRuns`, `MaxLost`, `MaxOwner`, `MaxItem`, `MaxConnects`, `MaxChanges`,
`MaxCreated`, `MaxDate`, `MaxBrief`, `MaxTurns`, `MaxToday`, `Ahead`, `MaxLabels`,
`MaxModels` and `MaxTime` are guards that keep counters finite, `Modulus` and `Horizon` wrap or cap theirs; all are
named as such where they are declared. The proofs do not depend on their values.

What the score properties rest on. `InsightRestsOnTwo` and `UnvettedChangesNothing`
hold by the arithmetic of the constants: the largest component is a quarter, at
least 0.6 of the weight must have data, and the threshold is 60, so one component
contributes at most 42; and confirmed signals that reach 60 always hold one that
outranks a sentiment of 0.7. `TimeNeverCalms` has two premises the code needs: past
the notice deadline, or the renewal, a detector falls silent, and a usage feed that
goes stale takes its signal with it.

`NeverWorseThanPrior` compares the curve with the prior on the labels it was fitted
to. It is not a matter of course: the gate looked at a curve of a part of them, the
knots are rounded, and a prior that is already close leaves little to win.

## Fairness

Safety runs assume none. `CallsEnd`, `HandlersEnd` and `SyncsEnd` assume that a
handler that has started goes on: the HTTP clients have timeouts (15 s Slack,
30 s CRM, Stripe and Zendesk), and nothing else in a handler can wait but a
database lock. Steps that may wait for a lock are strongly fair, because
PostgreSQL queues the waiters of a lock, and the others weakly. No user action is
fair. `ApprovedIsExecuted` also assumes that a client is configured some day, and
`DeferredAttaches` that somebody keeps syncing: their premises; without fairness a
counterexample would refute nothing. `Settles` assumes that somebody keeps
evaluating, and excepts evaluations that go on ending in deadlocks: each retry may
meet the other in the wrong order again, and nothing in the code prevents it.
`IssuesSettle` says the same of the checks, which an operator starts.

## Proofs

`AuditChainProofs`, for any tenants, writers and assignment of writers to tenants:

- `TypeCorrect`; `LockExcludes` (`OneAppenderPerTenant`): only the trigger adds a row to
  an open transaction (`OnlyAppendsAdd`), and it adds one (`ChainedRow`) under the lock.
- `LinksAlwaysResolve` and `OnlyInversionBreaks` from one inductive invariant
  `IInv`. The properties are about committed rows; an append chains to what its
  transaction sees, and a commit merges uncommitted rows. So `IInv` adds that seq
  values are unique and below the sequence (`SeqFresh`), that a transaction's rows
  are its tenant's, and that links resolve, and verification fails only by
  inversion, within what each writer sees. By the lock, what the appender of a
  tenant sees is what will be committed. `ChainOneMore` is the lemma about one
  more row.
- `AloneVerifies`: if no two writers share a tenant the log always verifies, since
  what is chained next has the highest seq the tenant has drawn (`ChainOneLater`).
  This is `ChainVerifies`, which `audit_fork` refutes when they may.

`WritebackProofs`, for any set of requests:

- `TypeCorrect`, `AllEffectsAccounted`, `TrailAlwaysTellsState`, `CallsExclude`
  from `IInv`, which adds to the four properties what an open call has recorded
  but not committed (`CallView`). The trail's cases rest on small lemmas about
  appending to sequences of one and two elements.
- `Implements`: initial states and every step of `Writeback` map to
  `WritebackPromise`; each handler that commits is one step of the lifecycle, each
  step of an open approval a stutter.

`SignalEngineProofs`, for any workers, registry of detectors and severities:

- `TypeCorrect`, `DetectionsCount` (`EveryDetectionCounts`) and `LlmSignalsKept`
  (`LlmSignalsAreLeftAlone`) from `IInv`. A commit writes what its transaction
  holds over rows that may since have changed; so `IInv` says that no row is in two
  open transactions (`LocksExclude`), that what fired is counted once over the
  *committed* row all along (`CountedOnce`), and, for that, that while the detectors
  run the rows changed are those of the detectors already past, and that nothing
  which fired is going to be resolved (`InStep`). Only rows of detectors are
  changed, so no commit reaches the LLM's. `AllRated` and `Reviewable` give what a
  score counts and a person confirms a severity.

and, for any checkers, accounts and limits of `DataQuality`:

- `DqTypes` and `FindingsKept` (`FindingsStand`) from `DqInv`. A check's last statement
  resolves by id, so what it found could be resolved by the check itself, and its commit
  could undo what another has written. `Stands` says that what was found is open in the
  transaction, or is about to be upserted by the stage under way, and is not among what
  will be resolved; `ApartFrom` that two checks have written different issues, for a row
  is locked from the first write.

`LimitsProofs`, for any keys, classes, capacities, refill rates and scales:

- `RateTypeCorrect`; `RateHolds` (`NeverAboveRate`) and `PatienceIsServed`
  (`ThirdTimeServed`) from one inductive invariant, `RateInv`. A window ends at the
  latest grant or has been counted before, so the invariant says, of each grant there
  was, that what has been let through since and what the bucket holds is paid for by a
  full bucket and the time since (`Paid`). A hint is at most half a second short of the
  time that the missing units take (`Nearest`), so after one patient denial at most
  half a second is missing, and the next hint, of at least one second, covers it
  (`Patient`).

and, for any finite set of workers and any inputs, budget, days and tokens of a call:

- `GatewayTypes`, `GatewayAccounts` (`TokensAccounted`), `GatewayOverrun`
  (`OverrunBounded`) and `GatewayFailsClosed` (`FailsClosed`) from `GatewayInv`. The
  bound on the overrun is not inductive: it has to count who may still add to the day.
  `Room` says that what is recorded stays below the budget and two calls for every
  worker that has *no* request of the day under way; a request that ends gives its
  share back (`BusyLeaves`), and one begins only below the budget. `Fits` bounds what
  an answer that was retried has used. For `TokensAccounted` the tokens under way are
  counted as pairs of worker and token, which a step of one worker splits in two
  (`TokensSplit`).

`ConnectorProofs`, for any workers, syncers and people, any finite set of companies
and any table of likenesses:

- `SyncTypes`, `SyncSkipsNothing` (`NothingSkipped`) and `SyncStoresUnderLinks` from
  `SyncInv`. Cursors are overwritten by whichever run commits last, so what is
  invariant of the saved cursors has to be invariant of every run's: `Knows` is
  `NothingSkipped` with the run's own rows put over the committed ones. Landed records
  and links only grow, so others' commits keep it, and its own commit establishes the
  property whatever it overwrites. `SyncCredentials` (`CredentialsFollowStatus`) is
  inductive with the types.
- `IdentityTypes`, `IdentityMintedOnce` (`MintedOnce`), `IdentityDomainsOnce`
  (`DomainsListedOnce`) and `IdentityDecisions` (`DecisionsAgree`) from `IdInv`. What
  keeps runs from creating one company twice is the lock on its raw record, which a run
  holds from landing to commit: so what it saw of the company when it landed stays so.
  `IdInv` says how a run's rows fit the committed ones (`Fits`: an account it created is
  for a company it holds and links, which has no other account; a committed one it
  changed keeps whom it is for) and that two runs hold no record and no account in
  common (`Apart`). A company with an account that a run created is linked
  (`Committed`), and a linked one is never matched again. `Mint` takes the least unused
  number, which exists by the well-foundedness of finite sets (`LeastId`).
- `ConnectorTypes` puts the two together.

`RecordsProofs`, for any clerks, amounts and bounds:

- `BriefRestsOnFresh` (`ApprovalRestsOnFresh`) and `BriefAmounts` (`AmountIsEvidenced`)
  from `BriefInv`: evidence is never lost and never made older (`SignalsGrow`,
  `RowsGrow`), no row is dated ahead of today, and so what an approval or a distribution
  found of the brief it looked at (`DeskOf`) is still so when it writes, although
  another may have written the brief meanwhile. Rows of a figure have ids of their own,
  which name the amount (`RowsPast`): a row found again states what it stated before.
- `RecordsTyped` is the type invariant of the run `records`.

`InsightLifecycleProofs`, for any workers, playbooks, severities and bounds:

- `LifecycleTypes`, `OneOpenInsight` (`AtMostOneOpen`), `HistoryTellsState`
  (`HistoryEndsAtState`), `TasksNeedAcceptance` (`TasksOnlyOnceAccepted`) and
  `SilenceAfterNotice` (`SilentOnceRecorded`) from `LifeInv`. What a handler has read may
  be stale when it writes; `Holds` keeps of it what cannot become so: the insight
  exists, and one that was accepted was. The index lets one row in, committed or not:
  `IndexHeld` says that while a transaction has inserted a row no insight is open and
  no other inserts one. An insight in progress was accepted once
  (`ProgressOnceAccepted`), for a playbook moves a stale one.
- `SerialHistory` (`HistoryIsChain`), `SerialOwnership` (`MachineLeavesOwnedAlone`) and
  `SerialLifecycle` (`KeepsLifecycle`: the refinement of `LifecyclePromise`) assume that
  there is one worker, `Worker = {w}`, as `insight_serial` does: with two all three are
  false. Then what it has read is still so (`AsRead`), and every step moves one insight
  along the lifecycle, composes one, or leaves them as they are (`OneMove`).
- `SerialOutcomes` (`OutcomeClosesInsight`) and `SerialPlaybooks` (`PlaybookOnce`), with
  one worker again, for with two both are false. No step changes an insight that an
  outcome has closed (`ClosedStays`). A playbook counts its tasks of an insight and inserts
  in a later statement; `Unapplied` says that between the two there are still none.

`ScoringProofs`, for every set of limits and bounds; weights, norms and thresholds are
those of the code:

- `ScoreTypes`: among the rest, the score is between 0 and 100.
- `TwoSignals` (`InsightRestsOnTwo`), `UnvettedIsSilent` (`UnvettedChangesNothing`),
  `ProblemsAdd` (`ProblemsNeverCalm`) and `TimeAdds` (`TimeNeverCalms`). The score is
  computed anew in every state, so the inductive part is only what the facts may be
  (`FactsOK`) and the work is arithmetic: a component contributes what its strongest
  signal calls for (`ContributionIs`), the score is the rounded weighted mean over the
  components covered (`ScoreIs`), it grows with each signal (`ScoreGrows`) and stays
  below a bound that its terms stay below (`ScoreBelow`); from that, one signal and
  signals of medium severity stay under the threshold (`OneIsCalm`, `MediumIsCalm`). For
  `TimeAdds`, `DayKeepsDetected` goes through the five detectors.
- `ModelsInOrder` (`VersionsInOrder`) from `CalInv`: a number that a fit was given is
  the next one or has been taken since, and then the table refuses it.
- `PoolingIsIsotonic` (`FitIsIsotonic`), `RiskierNeverServedLess` (`ServedIsMonotone`)
  and `ActiveNeverWorse` (`NeverWorseThanPrior`), for any number of labels and models.
  The three speak of labels and models as they are, which a fit in progress does not
  tell; so `CurvesInv` says what the curves were fitted to. Labels stay sorted, which
  pooling relies on, and a curve that is active, or will be when its fit commits, is
  `Isotonic` of as many labels as its row says, all of them if none came in since: a
  label more makes the row older, never wrong (`CurvesInsert`).

  What pooling computes is then arithmetic on the lapses summed up, `S`. A block is the
  piece between two cuts of the list, and `S` never dips below its line from cut to
  cut (`Above`): so for one label, and for two pieces that merge because the second is
  no steeper (`AboveBoth`). When the loop ends the slopes rise strictly (`PoolCovers`), and
  then the line of each block supports `S` over the whole list (`LinesSupport`). That is
  the min-max property (`Isotonicity`). Rounded, the slopes still do not fall
  (`RoundedGrows`), and a score is served the first knot at or beyond it (`ApplyIs`), so
  what is served rises.

  For the comparison with the prior no optimality theorem is at hand, so it is made label
  by label. Within a block the prior errs more than the constant by at least its distance
  from it times the gap between `S` and the line (`Ahead`); as the prior rises and the gap
  is never positive, each label keeps this (`AheadStep`), rounding of the constant
  included, and at the end of the block the gap is nil and the sum of the errors not
  smaller (`AheadThroughout`). Without ties each label is served its own block
  (`ServedItsBlock`): with them it is not, and `MCScoring_ties` refutes the statement.

The library's induction theorems take an operator as parameter, which no installed
prover instantiates. The inductions above go another way: the library's facts about
well-founded relations take none, and give a non-empty set of numbers a least one
(`LeastNatural`). A least counterexample then shows that a recursive function has the
values its definition says (`RecursionExists`), and that a fact which holds at 0 and
passes from each number to the next holds up to any bound (`Reaches`).

The proofs use the assumptions on constants named in the modules
(`TenantOfAssumption`, ...), which the runs evaluate.

Only model-checked:

- All liveness: `CallsEnd`, `HandlersEnd`, `SyncsEnd`, `EvaluationsEnd`, `Settles` and
  `IssuesSettle`. Fairness and ENABLED are out of the prover's reach.
- That the statements which the tables call violated fail, by a counterexample.

## Plan

Every invariant and action property that the runs check is proved. What is left is to
model more of the code:

1. The values of cursors, which are compared as strings, and upstream's "greater than": a
   second record of the watermark's second is skipped (`base.py:72`). `SourceSync` takes
   the values of a stream to be distinct.
2. What only reads now, the copilot's queries and the dashboards, should it come to write.
