-------------------------- MODULE InsightLifecycle --------------------------
(***************************************************************************)
(* The risk insights of one account: composition and lifecycle             *)
(* (rig/insights.py), playbooks and tasks (rig/playbooks.py), renewal      *)
(* outcomes (rig/outcomes.py) and the Slack notice (rig/notifications.py), *)
(* as the endpoints of rig/main.py call them.                              *)
(*                                                                         *)
(* A worker is a thread of the server's pool running one handler, in one   *)
(* READ COMMITTED transaction.  A SELECT takes no lock, so a handler first *)
(* reads (its reads are one step) and later writes what it decided: other  *)
(* workers run in between.  A write step is atomic, because an UPDATE      *)
(* waits for the row's lock, except that evaluate calls Slack between its  *)
(* writes and its commit; its row stays locked meanwhile.                  *)
(*                                                                         *)
(* Signals and score are inputs here: evaluate is given whether the score  *)
(* reaches RISK_INSIGHT_THRESHOLD and the top severity.  Dates are days.   *)
(***************************************************************************)
EXTENDS Naturals, Sequences, FiniteSets, LifecycleStates

CONSTANTS Worker,       \* handler threads
          MaxInsight,   \* bound on the insights the account gets
          MaxMoves,     \* bound on the moves people start on an insight
          Playbook,     \* keys of the enabled playbooks
          Steps,        \* tasks a playbook creates
          Severity,     \* severities a composed insight may have
          Outcome,      \* outcomes that may be recorded
          MaxDay,       \* last day
          MaxPosts,     \* bound on the Slack messages about one insight: no crash beyond
          SlackUp,      \* a Slack client is configured
          Crashes       \* whether a transaction may die after Slack answered

ASSUME BoundsAssumption ==
  /\ MaxInsight \in Nat \ {0} /\ MaxDay \in Nat \ {0} /\ MaxMoves \in Nat /\ MaxPosts \in Nat
  /\ Steps \in Nat \ {0} /\ SlackUp \in BOOLEAN /\ Crashes \in BOOLEAN
ASSUME SeverityAssumption == Severity \subseteq {"info", "low", "medium", "high", "critical"}
ASSUME OutcomeAssumption == Outcome \subseteq {"renewed", "churned", "downgraded"}

Insight == 1..MaxInsight
Day == 1..MaxDay
NoInsight == 0

VARIABLES
  insight,    \* [Insight -> [state, severity, created, outcome]], committed
  history,    \* [Insight -> sequence of insight_transition rows]
  task,       \* [Insight -> [Playbook -> [open, done]]], counts of tasks
  outcomes,   \* [Day -> renewal_outcome row of that outcome_date]
  notice,     \* [Insight -> [status, severity]], the notification row
  posts,      \* [Insight -> number of Slack messages sent] (external)
  today,      \* current day
  job         \* [Worker -> handler under way, with what it has read]

vars == <<insight, history, task, outcomes, notice, posts, today, job>>

Absent == [state |-> "absent", severity |-> "none", created |-> 0, outcome |-> "none"]
NoNotice == [status |-> "none", severity |-> "none"]
NoOutcome == [outcome |-> "none", flagged |-> FALSE, lead |-> 0,
              intervention |-> "none", insight |-> NoInsight]
Idle == [op |-> "idle"]

Notified == {"high", "critical"}

OpenInsights == {i \in Insight : insight[i].state \in OpenState}

\* "SELECT ... one_or_none()": the open insight, or none.
OpenInsight ==
  IF OpenInsights = {} THEN NoInsight ELSE CHOOSE i \in OpenInsights : TRUE

StateOf(i) == IF i = NoInsight THEN "absent" ELSE insight[i].state

\* Mutant of Transition: the two states swapped.
TransitionSwapped(from, to, by) == [from |-> to, to |-> from, by |-> by]

Transition(from, to, by) == [from |-> from, to |-> to, by |-> by]

-----------------------------------------------------------------------------
(* Row locks and the partial unique index uq_insight_open_risk.            *)

Writing(v) == job[v].op = "evaluate" /\ job[v].phase = "written"

\* No other transaction has an uncommitted change of insight i.
RowFree(w, i) == \A v \in Worker \ {w} : Writing(v) => job[v].insight # i

\* No other transaction has an uncommitted insert into the index.
IndexFree(w) == \A v \in Worker \ {w} : Writing(v) => ~job[v].fresh

\* Mutant of Conflicts: the partial unique index is missing.
NoIndex(i, to) == FALSE

\* Putting i in state to would leave two open insights: IntegrityError.
Conflicts(i, to) == to \in OpenState /\ OpenInsights \ {i} # {}

Done(w) == job' = [job EXCEPT ![w] = Idle]

\* The handler of w raises; its transaction rolls back.
Fail(w) ==
  /\ Done(w)
  /\ UNCHANGED <<insight, history, task, outcomes, notice, posts, today>>

\* Mutants of SetState: the machine's moves are not recorded; the outcome is lost.
SetStateUnrecorded(i, from, to, by, outcome) ==
  /\ insight' = [insight EXCEPT ![i].state = to, ![i].outcome = outcome]
  /\ history' = IF by = "system" THEN history
                ELSE [history EXCEPT ![i] = Append(@, Transition(from, to, by))]

SetStateOnly(i, from, to, by, outcome) ==
  /\ insight' = [insight EXCEPT ![i].state = to]
  /\ history' = [history EXCEPT ![i] = Append(@, Transition(from, to, by))]

\* UPDATE insight SET state ... WHERE id, and its insight_transition row.
SetState(i, from, to, by, outcome) ==
  /\ insight' = [insight EXCEPT ![i].state = to, ![i].outcome = outcome]
  /\ history' = [history EXCEPT ![i] = Append(@, Transition(from, to, by))]

Start(w, record) ==
  /\ job[w] = Idle
  /\ job' = [job EXCEPT ![w] = record]
  /\ UNCHANGED <<insight, history, task, outcomes, notice, posts, today>>

-----------------------------------------------------------------------------

Init ==
  /\ insight = [i \in Insight |-> Absent]
  /\ history = [i \in Insight |-> <<>>]
  /\ task = [i \in Insight |-> [p \in Playbook |-> [open |-> 0, done |-> 0]]]
  /\ outcomes = [d \in Day |-> NoOutcome]
  /\ notice = [i \in Insight |-> NoNotice]
  /\ posts = [i \in Insight |-> 0]
  /\ today = 1
  /\ job = [w \in Worker |-> Idle]

Tick ==
  /\ today < MaxDay
  /\ today' = today + 1
  /\ UNCHANGED <<insight, history, task, outcomes, notice, posts, job>>

-----------------------------------------------------------------------------
(* POST /v1/insights/{id}/transition: transition_insight.                  *)

\* SELECT the state and validate the move (and the dismissal's reason).
TransitionRead(w) ==
  \E i \in Insight :
    /\ insight[i].state # "absent"
    /\ Len(history[i]) < MaxMoves
    /\ \E to \in TRANSITIONS[insight[i].state] :
         Start(w, [op |-> "transition", insight |-> i, from |-> insight[i].state, to |-> to])

\* UPDATE by id alone, then the transition row, then commit.
TransitionWrite(w) ==
  /\ job[w].op = "transition"
  /\ LET i == job[w].insight IN
     /\ RowFree(w, i)
     /\ job[w].to \in OpenState => IndexFree(w)
     /\ IF Conflicts(i, job[w].to) THEN Fail(w)
        ELSE /\ SetState(i, job[w].from, job[w].to, "user", insight[i].outcome)
             /\ Done(w)
             /\ UNCHANGED <<task, outcomes, notice, posts, today>>

-----------------------------------------------------------------------------
(* POST /v1/admin/accounts/{id}/evaluate: upsert_risk_insight and          *)
(* notify_insight.                                                         *)

\* Bound: an evaluation that may insert has an insight number kept for it.
Unused == {i \in Insight : insight[i] = Absent}
Inserting == {v \in Worker : job[v].op = "evaluate" /\ job[v].from = "absent"}

\* Mutant of MayResolve: whoever owns the insight.
MayResolveAny(i) == i # NoInsight

MayResolve(i) == StateOf(i) \in {"detected", "triaged"}

\* evaluate_account and compute_renewal_risk give a score; then SELECT the
\* open insight.  Below the threshold only a machine-owned one is touched.
EvaluateRead(w) ==
  \E risk \in BOOLEAN, s \in Severity :
    /\ risk \/ MayResolve(OpenInsight)
    /\ OpenInsight = NoInsight => Cardinality(Inserting) < Cardinality(Unused)
    /\ Start(w, [op |-> "evaluate", phase |-> "read", risk |-> risk,
                 severity |-> s, insight |-> OpenInsight,
                 from |-> StateOf(OpenInsight), fresh |-> FALSE,
                 status |-> "none"])

\* Risk cleared: the insight read as detected or triaged is closed, by id.
EvaluateResolve(w) ==
  /\ job[w].op = "evaluate" /\ ~job[w].risk
  /\ RowFree(w, job[w].insight)
  /\ SetState(job[w].insight, job[w].from, "outcome_known", "system", "risk_cleared")
  /\ Done(w)
  /\ UNCHANGED <<task, outcomes, notice, posts, today>>

\* UPDATE of the open insight read; its row is locked until the commit.
EvaluateRefresh(w) ==
  /\ job[w].op = "evaluate" /\ job[w].phase = "read" /\ job[w].risk
  /\ job[w].insight # NoInsight
  /\ RowFree(w, job[w].insight)
  /\ job' = [job EXCEPT ![w].phase = "written"]
  /\ UNCHANGED <<insight, history, task, outcomes, notice, posts, today>>

\* INSERT of a new insight, when none was read as open.
EvaluateInsert(w) ==
  /\ job[w].op = "evaluate" /\ job[w].phase = "read" /\ job[w].risk
  /\ job[w].insight = NoInsight
  /\ IndexFree(w)
  /\ IF OpenInsights # {} THEN Fail(w)
     ELSE /\ \E i \in Insight :
               /\ insight[i] = Absent
               /\ \A j \in Insight : j < i => insight[j] # Absent
               /\ job' = [job EXCEPT ![w].phase = "written",
                                     ![w].insight = i, ![w].fresh = TRUE]
          /\ UNCHANGED <<insight, history, task, outcomes, notice, posts, today>>

\* Mutant of MustNotify: every evaluation notifies.
MustNotifyAgain(w) == job[w].severity \in Notified

\* A high or critical insight without a notification row gets one.
MustNotify(w) ==
  job[w].severity \in Notified /\ notice[job[w].insight].status = "none"

\* The Slack call inside the transaction, after the row was queued; it may
\* deliver the message and still fail.
NotifySlack(w) ==
  /\ Writing(w) /\ MustNotify(w) /\ SlackUp
  /\ job[w].status = "none"
  /\ \E status \in {"sent", "failed"}, delivered \in BOOLEAN :
       /\ status = "sent" => delivered
       /\ job' = [job EXCEPT ![w].status = status]
       /\ posts' = [posts EXCEPT ![job[w].insight] = @ + (IF delivered THEN 1 ELSE 0)]
  /\ UNCHANGED <<insight, history, task, outcomes, notice, today>>

\* Mutant of SlackAnswered: the transaction is kept open until Slack delivers.
SlackDelivered(w) == MustNotify(w) /\ SlackUp => job[w].status = "sent"

\* The Slack call, when one is made, has returned or raised.
SlackAnswered(w) == MustNotify(w) /\ SlackUp => job[w].status # "none"

\* Mutant of Composed: an upsert that starts the open insight over.
ComposedAnew(w) ==
  [state |-> "detected", severity |-> job[w].severity, created |-> today, outcome |-> "none"]

\* The insight row as evaluate leaves it: new, or refreshed in its state.
Composed(w) ==
  IF job[w].fresh
  THEN [state |-> "detected", severity |-> job[w].severity, created |-> today, outcome |-> "none"]
  ELSE [insight[job[w].insight] EXCEPT !.severity = job[w].severity]

\* The notification is queued, and sent or failed once Slack was called.
NoticeStatus(w) == IF SlackUp THEN job[w].status ELSE "queued"

\* The transaction's changes: insight composed anew, notification row.
EvaluateCommit(w) ==
  /\ Writing(w)
  /\ SlackAnswered(w)
  /\ LET i == job[w].insight IN
     /\ insight' = [insight EXCEPT ![i] = Composed(w)]
     /\ notice' = [notice EXCEPT ![i] =
          IF MustNotify(w)
          THEN [status |-> NoticeStatus(w), severity |-> job[w].severity]
          ELSE @]
  /\ Done(w)
  /\ UNCHANGED <<history, task, outcomes, posts, today>>

\* The process or its connection dies after the Slack call.  The number of an
\* insight that was not committed is used again.
EvaluateCrash(w) ==
  /\ Crashes
  /\ Writing(w) /\ job[w].status # "none"
  /\ posts[job[w].insight] < MaxPosts
  /\ Fail(w)

-----------------------------------------------------------------------------
(* POST /v1/insights/{id}/apply-playbook and /v1/tasks/{id}/complete.      *)

\* Mutant of ApplyRead: a triaged insight will do.
ApplyReadTriaged(w) ==
  \E i \in Insight, p \in Playbook :
    /\ insight[i].state \in {"triaged", "accepted", "in_progress"}
    /\ Start(w, [op |-> "apply", phase |-> "read", insight |-> i,
                 from |-> insight[i].state, playbook |-> p])

\* SELECT the insight (accepted or in progress) and the enabled playbook.
ApplyRead(w) ==
  \E i \in Insight, p \in Playbook :
    /\ insight[i].state \in {"accepted", "in_progress"}
    /\ Start(w, [op |-> "apply", phase |-> "read", insight |-> i,
                 from |-> insight[i].state, playbook |-> p])

\* Mutant of AlreadyApplied: only the open tasks are counted.
AppliedAndOpen(i, p) == task[i][p].open > 0

AlreadyApplied(i, p) == task[i][p].open + task[i][p].done > 0

\* Count the playbook's tasks; transition_insight reads the state again.
ApplyCount(w) ==
  /\ job[w].op = "apply" /\ job[w].phase = "read"
  /\ LET i == job[w].insight IN
     IF \/ AlreadyApplied(i, job[w].playbook)
        \/ job[w].from = "accepted" /\ "in_progress" \notin TRANSITIONS[insight[i].state]
     THEN Fail(w)
     ELSE /\ job' = [job EXCEPT ![w].phase = "counted"]
          /\ UNCHANGED <<insight, history, task, outcomes, notice, posts, today>>

\* The tasks, the move of an accepted insight to in_progress, the commit.
ApplyWrite(w) ==
  /\ job[w].op = "apply" /\ job[w].phase = "counted"
  /\ LET i == job[w].insight
         accepted == job[w].from = "accepted" IN
     /\ accepted => RowFree(w, i) /\ IndexFree(w)
     /\ IF accepted /\ Conflicts(i, "in_progress") THEN Fail(w)
        ELSE /\ task' = [task EXCEPT ![i][job[w].playbook].open = @ + Steps]
             /\ IF accepted
                THEN SetState(i, "accepted", "in_progress", "user", insight[i].outcome)
                ELSE UNCHANGED <<insight, history>>
             /\ Done(w)
             /\ UNCHANGED <<outcomes, notice, posts, today>>

\* One guarded UPDATE, whatever the state of the insight.
CompleteTask ==
  \E i \in Insight, p \in Playbook :
    /\ task[i][p].open > 0
    /\ task' = [task EXCEPT ![i][p] = [open |-> @.open - 1, done |-> @.done + 1]]
    /\ UNCHANGED <<insight, history, outcomes, notice, posts, today, job>>

-----------------------------------------------------------------------------
(* POST /v1/accounts/{id}/outcome: record_outcome.                         *)

\* Mutant of Flags: the outcome date is not compared.
FlagsEver(date) == {i \in Insight : insight[i].severity \in Notified}

\* High or critical insights created by the date, whatever became of them.
Flags(date) == {i \in Insight : insight[i].severity \in Notified /\ insight[i].created <= date}

HasTasks(field) == \E i \in Insight, p \in Playbook : task[i][p][field] > 0

\* The level is computed from every risk insight the account ever had.
InterventionLevel ==
  CASE HasTasks("open")                      -> "partial"
    [] HasTasks("done") /\ ~HasTasks("open") -> "completed"
    [] OTHER                                 -> "none"

EarliestDay(S) == CHOOSE d \in S : \A e \in S : d <= e

\* The flag, its lead, the intervention level and the open insight are read.
OutcomeRead(w) ==
  \E date \in Day, o \in Outcome :
    Start(w, [op |-> "outcome", date |-> date, from |-> StateOf(OpenInsight),
              row |-> [outcome |-> o,
                       flagged |-> Flags(date) # {},
                       lead |-> IF Flags(date) = {} THEN 0
                                ELSE date - EarliestDay({insight[i].created : i \in Flags(date)}),
                       intervention |-> InterventionLevel,
                       insight |-> OpenInsight]])

\* Close the insight read as open, insert the row of the date, commit.
OutcomeWrite(w) ==
  /\ job[w].op = "outcome"
  /\ LET row == job[w].row
         date == job[w].date IN
     /\ row.insight # NoInsight => RowFree(w, row.insight)
     /\ IF outcomes[date] # NoOutcome THEN Fail(w)
        ELSE /\ outcomes' = [outcomes EXCEPT ![date] = row]
             /\ IF row.insight # NoInsight
                THEN SetState(row.insight, job[w].from, "outcome_known", "user", row.outcome)
                ELSE UNCHANGED <<insight, history>>
             /\ Done(w)
             /\ UNCHANGED <<task, notice, posts, today>>

-----------------------------------------------------------------------------

Next ==
  \/ Tick \/ CompleteTask
  \/ \E w \in Worker :
       \/ TransitionRead(w) \/ TransitionWrite(w)
       \/ EvaluateRead(w) \/ EvaluateResolve(w) \/ EvaluateRefresh(w)
       \/ EvaluateInsert(w) \/ NotifySlack(w) \/ EvaluateCommit(w) \/ EvaluateCrash(w)
       \/ ApplyRead(w) \/ ApplyCount(w) \/ ApplyWrite(w)
       \/ OutcomeRead(w) \/ OutcomeWrite(w)

Spec == Init /\ [][Next]_vars

\* A handler that has started runs on: the Slack client times out.  Steps that
\* may wait for a lock are strongly fair, because PostgreSQL serves the waiters
\* of a lock when it is released.  Nobody is obliged to call a handler.
LockingSteps(w) ==
  \/ TransitionWrite(w) \/ ApplyWrite(w) \/ OutcomeWrite(w)
  \/ EvaluateResolve(w) \/ EvaluateRefresh(w) \/ EvaluateInsert(w)

OtherSteps(w) == ApplyCount(w) \/ NotifySlack(w) \/ EvaluateCommit(w)

FairSpec ==
  /\ Spec
  /\ \A w \in Worker : SF_vars(LockingSteps(w)) /\ WF_vars(OtherSteps(w))

-----------------------------------------------------------------------------

States == OpenState \cup ClosedState

Job ==
  [op : {"idle"}]
    \cup [op : {"transition"}, insight : Insight, from : States, to : States]
    \cup [op : {"evaluate"}, phase : {"read", "written"}, risk : BOOLEAN,
          severity : Severity, insight : Insight \cup {NoInsight},
          from : States \cup {"absent"}, fresh : BOOLEAN,
          status : {"none", "sent", "failed"}]
    \cup [op : {"apply"}, phase : {"read", "counted"}, insight : Insight,
          from : {"accepted", "in_progress"}, playbook : Playbook]

OutcomeRow ==
  [outcome : Outcome, flagged : BOOLEAN, lead : 0..MaxDay,
   intervention : {"none", "partial", "completed"}, insight : Insight \cup {NoInsight}]

TypeOK ==
  /\ insight \in [Insight -> {Absent} \cup
       [state : States, severity : Severity, created : Day,
        outcome : {"none", "risk_cleared"} \cup Outcome]]
  /\ \A i \in Insight : \A n \in DOMAIN history[i] :
       history[i][n] \in [from : States, to : States, by : {"user", "system"}]
  /\ task \in [Insight -> [Playbook -> [open : Nat, done : Nat]]]
  /\ \A d \in Day : outcomes[d] \in {NoOutcome} \cup OutcomeRow
  /\ notice \in [Insight -> {NoNotice} \cup
       [status : {"queued", "sent", "failed"}, severity : Severity \cap Notified]]
  /\ posts \in [Insight -> Nat]
  /\ today \in Day
  /\ \A w \in Worker : \/ job[w] \in Job
                       \/ /\ job[w].op = "outcome" /\ job[w].date \in Day
                          /\ job[w].row \in OutcomeRow

\* uq_insight_open_risk: whatever handlers race, an account never has two open
\* risk insights, not even when a stale write reopens a closed one.
AtMostOneOpen == Cardinality(OpenInsights) <= 1

\* The last recorded transition of an insight leads to the state it is in, and
\* an insight that left detected has a recorded transition.
HistoryEndsAtState ==
  \A i \in Insight :
    IF history[i] = <<>> THEN insight[i].state \in {"absent", "detected"}
    ELSE history[i][Len(history[i])].to = insight[i].state

\* No mitigation task is created on an insight nobody ever accepted.
TasksOnlyOnceAccepted ==
  \A i \in Insight, p \in Playbook :
    task[i][p].open + task[i][p].done > 0 =>
      \E n \in DOMAIN history[i] : history[i][n].to = "accepted"

\* Once an insight's notification is committed no other message about it is
\* sent: not by evaluations under way, nor on a refresh or change of severity.
SilentOnceRecorded ==
  [][\A i \in Insight : notice[i] # NoNotice => posts'[i] = posts[i]]_vars

\* Every handler ends, though it may wait for rows another has locked.
HandlersEnd == \A w \in Worker : (job[w] # Idle) ~> (job[w] = Idle)

-----------------------------------------------------------------------------
(* What holds while the handlers of an account run one after the other.    *)

\* The transition rows of an insight form a path that starts at detected.
HistoryIsChain ==
  \A i \in Insight : \A n \in DOMAIN history[i] :
    history[i][n].from = IF n = 1 THEN "detected" ELSE history[i][n - 1].to

\* Insights move as the documented lifecycle does, and outcome_known is final.
Promise == INSTANCE LifecyclePromise WITH state <- [i \in Insight |-> insight[i].state]
KeepsLifecycle == Promise!Spec

HumanOwned == OpenState \ {"detected", "triaged"}

\* An evaluation never closes an insight a person has taken over.
MachineLeavesOwnedAlone ==
  [][\A i \in Insight :
       insight[i].state \in HumanOwned /\ insight'[i].state # insight[i].state
         => history'[i][Len(history'[i])].by = "user"]_vars

\* The insight a renewal outcome names is closed with that outcome.
OutcomeClosesInsight ==
  \A d \in Day : outcomes[d].insight # NoInsight =>
    LET closed == insight[outcomes[d].insight] IN
    closed.state = "outcome_known" /\ closed.outcome = outcomes[d].outcome

\* A playbook is applied to an insight at most once.
PlaybookOnce ==
  \A i \in Insight, p \in Playbook : task[i][p].open + task[i][p].done <= Steps

-----------------------------------------------------------------------------
(* What comments say and the code does not do, even one handler at a time. *)

\* outcomes.py:52: an outcome was flagged if there ever was a high or critical
\* insight by its date; one announced as such on Slack is one.
AnnouncedIsFlagged ==
  [][\A d \in Day :
       outcomes[d] = NoOutcome /\ outcomes'[d] # NoOutcome /\ ~outcomes'[d].flagged =>
         \A i \in Insight : notice[i] = NoNotice \/ insight[i].created > d]_vars

\* outcomes.py:62: the intervention level is that of the open insight's tasks,
\* so an outcome that finds no open insight has none.
InterventionOfOpenInsight ==
  \A d \in Day : outcomes[d].insight = NoInsight => outcomes[d].intervention = "none"

\* notifications.py:5: a notification is refreshed on severity escalation.
EscalationRefreshes ==
  \A i \in OpenInsights :
    notice[i] # NoNotice /\ insight[i].severity = "critical" => notice[i].severity = "critical"

\* notifications.py:4: the record comes first and is the source of truth: with
\* no evaluation under way, a message that was sent has its notification row.
PostsAreRecorded ==
  (\A w \in Worker : ~Writing(w)) => \A i \in Insight : posts[i] > 0 => notice[i] # NoNotice
=============================================================================
