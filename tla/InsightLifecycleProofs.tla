----------------------- MODULE InsightLifecycleProofs -----------------------
(***************************************************************************)
(* Proofs about InsightLifecycle, for every set of workers, playbooks and  *)
(* severities and every bound.                                             *)
(*                                                                         *)
(* LifeInv is the inductive invariant for any number of workers.  What a   *)
(* handler has read of an insight may be stale when it writes; LifeInv     *)
(* keeps of it what cannot become stale (Holds): the insight exists, and   *)
(* one that was accepted was accepted.  OneOpen rests on IndexHeld: while  *)
(* an inserted row is not committed no insight is open, and no other one   *)
(* is inserted.                                                            *)
(*                                                                         *)
(* With one worker what it has read is still so (AsRead), and every step   *)
(* is OneMove: the serial theorems, with the refinement of                 *)
(* LifecyclePromise, follow from that.                                     *)
(***************************************************************************)
EXTENDS InsightLifecycle, FiniteSetTheorems, TLAPS

-----------------------------------------------------------------------------
(* The inductive invariant.                                                *)

InsightRow ==
  [state : States, severity : Severity, created : Day,
   outcome : {"none", "risk_cleared"} \cup Outcome]
TransitionRow == [from : States, to : States, by : {"user", "system"}]
NoticeRow == [status : {"queued", "sent", "failed"}, severity : Severity \cap Notified]
Tasks == [Insight -> [Playbook -> [open : Nat, done : Nat]]]

\* What is committed.
Committed ==
  /\ insight \in [Insight -> {Absent} \cup InsightRow]
  /\ history \in [Insight -> Seq(TransitionRow)]
  /\ task \in Tasks
  /\ outcomes \in [Day -> {NoOutcome} \cup OutcomeRow]
  /\ notice \in [Insight -> {NoNotice} \cup NoticeRow]
  /\ posts \in [Insight -> Nat]
  /\ today \in Day

\* Of insight i, in any state ins of the insights and his of their histories:
\* that it exists, and that somebody has accepted it.
Exists(i, ins) == i \in Insight /\ ins[i] # Absent
Accepted(i, his) == \E n \in DOMAIN his[i] : his[i][n].to = "accepted"

TransitionJob == [op : {"transition"}, insight : Insight, from : States, to : States]
EvaluateJob ==
  [op : {"evaluate"}, phase : {"read", "written"}, risk : BOOLEAN,
   severity : Severity, insight : Insight \cup {NoInsight},
   from : OpenState \cup {"absent"}, fresh : BOOLEAN, status : {"none", "sent", "failed"}]
ApplyJob ==
  [op : {"apply"}, phase : {"read", "counted"}, insight : Insight,
   from : {"accepted", "in_progress"}, playbook : Playbook]
OutcomeJob ==
  [op : {"outcome"}, date : Day, from : OpenState \cup {"absent"}, row : OutcomeRow]

\* What a handler has read of an insight stays true of it as far as that goes.
TransitionHolds(j, ins, his) ==
  /\ j \in TransitionJob
  /\ j.to \in TRANSITIONS[j.from] /\ Exists(j.insight, ins)
  /\ j.from = "accepted" => Accepted(j.insight, his)
EvaluateHolds(j, ins) ==
  /\ j \in EvaluateJob
  /\ j.insight # NoInsight /\ ~j.fresh => Exists(j.insight, ins) /\ j.from \in OpenState
  /\ ~j.risk => j.phase = "read" /\ j.insight # NoInsight /\ j.from \in {"detected", "triaged"}
  /\ j.phase = "written" => j.insight # NoInsight
  /\ j.fresh => j.phase = "written" /\ ins[j.insight] = Absent
ApplyHolds(j, ins, his) ==
  j \in ApplyJob /\ Exists(j.insight, ins) /\ Accepted(j.insight, his)
OutcomeHolds(j, ins) ==
  /\ j \in OutcomeJob
  /\ j.row.insight # NoInsight => Exists(j.row.insight, ins) /\ j.from \in OpenState
Holds(j, ins, his) ==
  \/ j = Idle
  \/ TransitionHolds(j, ins, his)
  \/ EvaluateHolds(j, ins)
  \/ ApplyHolds(j, ins, his)
  \/ OutcomeHolds(j, ins)

Inserted(j) == j.op = "evaluate" /\ j.phase = "written" /\ j.fresh

\* An uncommitted insert keeps the index empty, and to itself.
IndexHeld ==
  \A w \in Worker : Inserted(job[w]) =>
    OpenInsights = {} /\ \A v \in Worker : Inserted(job[v]) => v = w

OneOpen == \A i, j \in OpenInsights : i = j

ProgressOnceAccepted ==
  \A i \in Insight : insight[i].state = "in_progress" => Accepted(i, history)

TasksAccepted(tsk, his) ==
  \A i \in Insight, p \in Playbook :
    tsk[i][p].open + tsk[i][p].done > 0 => Accepted(i, his)

LifeInv ==
  /\ Committed
  /\ DOMAIN job = Worker /\ \A w \in Worker : Holds(job[w], insight, history)
  /\ OneOpen
  /\ IndexHeld
  /\ HistoryEndsAtState
  /\ ProgressOnceAccepted
  /\ TasksAccepted(task, history)

-----------------------------------------------------------------------------
(* Insights and their states.                                              *)

LEMMA StatesAre ==
  /\ "absent" \notin States /\ OpenState \subseteq States
  /\ "detected" \in OpenState /\ "in_progress" \in OpenState /\ "accepted" \in OpenState
  /\ "outcome_known" \in States /\ "outcome_known" \notin OpenState
  /\ \A s \in States : TRANSITIONS[s] \subseteq States
  /\ \A s \in States : "in_progress" \in TRANSITIONS[s] => s = "accepted"
  BY DEF States, OpenState, ClosedState, TRANSITIONS

LEMMA NumbersAre == Insight \subseteq Nat /\ NoInsight \notin Insight
  BY BoundsAssumption DEF Insight, NoInsight

LEMMA InsightIs ==
  ASSUME Committed, NEW i \in Insight
  PROVE  /\ insight[i] = Absent <=> insight[i].state = "absent"
         /\ insight[i] # Absent => insight[i] \in InsightRow /\ insight[i].state \in States
         /\ history[i] \in Seq(TransitionRow)
<1>1. insight[i] = Absent \/ insight[i] \in InsightRow
  BY DEF Committed
<1>2. Absent.state = "absent"
  BY DEF Absent
<1>3. \A r \in InsightRow : r.state \in States
  BY DEF InsightRow
<1>4. history[i] \in Seq(TransitionRow)
  BY DEF Committed
<1> QED
  BY <1>1, <1>2, <1>3, <1>4, StatesAre

\* SELECT ... one_or_none() finds an open insight, if there is one.
LEMMA OpenInsightIs ==
  ASSUME Committed
  PROVE  /\ OpenInsight = NoInsight <=> OpenInsights = {}
         /\ OpenInsight = NoInsight => StateOf(OpenInsight) = "absent"
         /\ OpenInsight # NoInsight =>
              /\ OpenInsight \in OpenInsights /\ Exists(OpenInsight, insight)
              /\ StateOf(OpenInsight) = insight[OpenInsight].state
              /\ StateOf(OpenInsight) \in OpenState
<1>1. OpenInsights # {} => OpenInsight \in OpenInsights
  BY DEF OpenInsight
<1>2. \A i \in OpenInsights : Exists(i, insight) /\ i # NoInsight
        /\ insight[i].state \in OpenState
  BY InsightIs, NumbersAre, StatesAre DEF OpenInsights, Exists
<1>3. OpenInsights = {} => OpenInsight = NoInsight
  BY DEF OpenInsight
<1> QED
  BY <1>1, <1>2, <1>3 DEF StateOf

LEMMA Appended ==
  ASSUME NEW h \in Seq(TransitionRow), NEW t \in TransitionRow, NEW g, g = Append(h, t)
  PROVE  /\ g \in Seq(TransitionRow) /\ g # <<>> /\ g[Len(g)] = t /\ Len(g) = Len(h) + 1
         /\ \A n \in DOMAIN h : n \in DOMAIN g /\ g[n] = h[n]
  OBVIOUS

-----------------------------------------------------------------------------
(* What handlers have read lasts.                                          *)

LEMMA HoldsLasts ==
  ASSUME NEW ins, NEW his, NEW jns, NEW jis, NEW j, Holds(j, ins, his),
         \A i \in Insight : Exists(i, ins) => Exists(i, jns),
         \A i \in Insight : Accepted(i, his) => Accepted(i, jis),
         Inserted(j) => jns[j.insight] = Absent
  PROVE  Holds(j, jns, jis)
<1>1. CASE j = Idle
  BY <1>1 DEF Holds
<1>2. CASE TransitionHolds(j, ins, his)
  BY <1>2 DEF Holds, TransitionHolds, TransitionJob
<1>3. CASE EvaluateHolds(j, ins)
  <2>1. j.op = "evaluate" /\ j.insight \in Insight \cup {NoInsight}
    BY <1>3 DEF EvaluateHolds, EvaluateJob
  <2>2. j.fresh => Inserted(j)
    BY <1>3, <2>1 DEF EvaluateHolds, Inserted
  <2>3. EvaluateHolds(j, jns)
    BY <1>3, <2>1, <2>2 DEF EvaluateHolds
  <2> QED
    BY <2>3 DEF Holds
<1>4. CASE ApplyHolds(j, ins, his)
  BY <1>4 DEF Holds, ApplyHolds, ApplyJob
<1>5. CASE OutcomeHolds(j, ins)
  <2>1. j.row.insight \in Insight \cup {NoInsight}
    BY <1>5 DEF OutcomeHolds, OutcomeJob, OutcomeRow
  <2> QED
    BY <1>5, <2>1 DEF Holds, OutcomeHolds
<1> QED
  BY <1>1, <1>2, <1>3, <1>4, <1>5 DEF Holds

\* A step that changes no insight and no history.
LEMMA QuietKeeps ==
  ASSUME LifeInv, insight' = insight, history' = history,
         task' \in Tasks, TasksAccepted(task', history),
         outcomes' \in [Day -> {NoOutcome} \cup OutcomeRow],
         notice' \in [Insight -> {NoNotice} \cup NoticeRow],
         posts' \in [Insight -> Nat], today' \in Day,
         NEW w \in Worker, NEW J, job' = [job EXCEPT ![w] = J], Holds(J, insight, history),
         Inserted(J) => /\ OpenInsights = {}
                        /\ \A v \in Worker \ {w} : ~Inserted(job[v])
  PROVE  LifeInv'
<1>1. /\ DOMAIN job' = Worker /\ job'[w] = J /\ \A v \in Worker \ {w} : job'[v] = job[v]
  BY DEF LifeInv
<1>2. Committed'
  BY DEF LifeInv, Committed
<1>3. \A v \in Worker : Holds(job'[v], insight, history)
  BY <1>1 DEF LifeInv
<1>4. OpenInsights' = OpenInsights
  BY DEF OpenInsights
<1>5. OneOpen' /\ HistoryEndsAtState' /\ ProgressOnceAccepted'
  BY <1>4 DEF LifeInv, OneOpen, HistoryEndsAtState, ProgressOnceAccepted, Accepted
<1>6. IndexHeld'
  BY <1>1, <1>4 DEF LifeInv, IndexHeld
<1> QED
  BY <1>1, <1>2, <1>3, <1>5, <1>6 DEF LifeInv

\* The handler raises.
LEMMA FailKeeps ==
  ASSUME LifeInv, NEW w \in Worker, Fail(w)
  PROVE  LifeInv'
<1>1. PICK J : J = Idle
  OBVIOUS
<1>2. Holds(J, insight, history) /\ ~Inserted(J) /\ job' = [job EXCEPT ![w] = J]
  BY <1>1 DEF Holds, Inserted, Idle, Fail, Done
<1>3. UNCHANGED <<insight, history, task, outcomes, notice, posts, today>>
  BY DEF Fail
<1>4. /\ task' \in Tasks /\ TasksAccepted(task', history)
      /\ outcomes' \in [Day -> {NoOutcome} \cup OutcomeRow]
      /\ notice' \in [Insight -> {NoNotice} \cup NoticeRow]
      /\ posts' \in [Insight -> Nat] /\ today' \in Day
  BY <1>3 DEF LifeInv, Committed
<1> QED
  BY <1>2, <1>3, <1>4, QuietKeeps

\* A handler starts or goes on, and has written nothing.
LEMMA JobKeeps ==
  ASSUME LifeInv, UNCHANGED <<insight, history, task, outcomes, notice, posts, today>>,
         NEW w \in Worker, NEW J, job' = [job EXCEPT ![w] = J], Holds(J, insight, history),
         Inserted(J) => /\ OpenInsights = {}
                        /\ \A v \in Worker \ {w} : ~Inserted(job[v])
  PROVE  LifeInv'
<1>1. /\ insight' = insight /\ history' = history
      /\ task' \in Tasks /\ TasksAccepted(task', history)
      /\ outcomes' \in [Day -> {NoOutcome} \cup OutcomeRow]
      /\ notice' \in [Insight -> {NoNotice} \cup NoticeRow]
      /\ posts' \in [Insight -> Nat] /\ today' \in Day
  BY DEF LifeInv, Committed
<1> QED
  BY <1>1, QuietKeeps

\* UPDATE insight and INSERT insight_transition.
LEMMA SetStateIs ==
  ASSUME Committed, NEW i, Exists(i, insight),
         NEW from \in States, NEW to \in States, NEW by \in {"user", "system"},
         NEW outcome \in {"none", "risk_cleared"} \cup Outcome,
         SetState(i, from, to, by, outcome)
  PROVE  /\ insight' \in [Insight -> {Absent} \cup InsightRow]
         /\ history' \in [Insight -> Seq(TransitionRow)]
         /\ insight'[i] \in InsightRow /\ insight'[i].state = to
         /\ \A k \in Insight \ {i} : insight'[k] = insight[k] /\ history'[k] = history[k]
         /\ history'[i] = Append(history[i], Transition(from, to, by))
         /\ Transition(from, to, by) \in TransitionRow
         /\ \A k \in Insight : Exists(k, insight) => Exists(k, insight')
         /\ \A k \in Insight : Accepted(k, history) => Accepted(k, history')
<1>1. /\ i \in Insight /\ insight[i] \in InsightRow /\ history[i] \in Seq(TransitionRow)
      /\ insight \in [Insight -> {Absent} \cup InsightRow]
      /\ history \in [Insight -> Seq(TransitionRow)]
  BY InsightIs DEF Exists, Committed
<1>2. PICK r : r = [insight[i] EXCEPT !.state = to, !.outcome = outcome]
  OBVIOUS
<1>3. r \in InsightRow /\ r.state = to /\ r # Absent
  <2>1. r \in InsightRow /\ r.state = to
    BY <1>1, <1>2 DEF InsightRow
  <2> QED
    BY <2>1, StatesAre DEF Absent
<1>4. insight' = [insight EXCEPT ![i] = r]
  BY <1>1, <1>2 DEF SetState
<1>5. PICK t \in TransitionRow : t = Transition(from, to, by)
  BY DEF Transition, TransitionRow
<1>6. PICK h \in Seq(TransitionRow) : h = history[i]
  BY <1>1
<1>7. PICK g : g = Append(h, t)
  OBVIOUS
<1>8. history' = [history EXCEPT ![i] = g]
  BY <1>5, <1>6, <1>7 DEF SetState
<1>9. g \in Seq(TransitionRow) /\ \A n \in DOMAIN h : n \in DOMAIN g /\ g[n] = h[n]
  BY <1>7, Appended
<1>10. /\ insight' \in [Insight -> {Absent} \cup InsightRow] /\ insight'[i] = r
       /\ \A k \in Insight \ {i} : insight'[k] = insight[k]
  BY <1>1, <1>3, <1>4
<1>11. /\ history' \in [Insight -> Seq(TransitionRow)] /\ history'[i] = g
       /\ \A k \in Insight \ {i} : history'[k] = history[k]
  BY <1>1, <1>8, <1>9
<1>12. \A k \in Insight : Exists(k, insight) => Exists(k, insight')
  BY <1>3, <1>10 DEF Exists
<1>13. \A k \in Insight : Accepted(k, history) => Accepted(k, history')
  BY <1>6, <1>9, <1>11 DEF Accepted
<1> QED
  BY <1>3, <1>5, <1>6, <1>7, <1>10, <1>11, <1>12, <1>13

LEMMA SetStateKeeps ==
  ASSUME LifeInv, NEW w \in Worker, NEW i, Exists(i, insight),
         NEW from \in States, NEW to \in States, NEW by \in {"user", "system"},
         NEW outcome \in {"none", "risk_cleared"} \cup Outcome,
         SetState(i, from, to, by, outcome), Done(w),
         to \in OpenState => /\ OpenInsights \ {i} = {}
                            /\ \A v \in Worker \ {w} : ~Inserted(job[v]),
         to = "in_progress" => Accepted(i, history),
         task' \in Tasks, TasksAccepted(task', history),
         outcomes' \in [Day -> {NoOutcome} \cup OutcomeRow],
         notice' \in [Insight -> {NoNotice} \cup NoticeRow],
         posts' \in [Insight -> Nat], today' \in Day
  PROVE  LifeInv'
<1>1. PICK t \in TransitionRow : t = Transition(from, to, by)
  BY DEF Transition, TransitionRow
<1>2. /\ insight' \in [Insight -> {Absent} \cup InsightRow]
      /\ history' \in [Insight -> Seq(TransitionRow)]
      /\ insight'[i].state = to
      /\ \A k \in Insight \ {i} : insight'[k] = insight[k] /\ history'[k] = history[k]
      /\ history'[i] = Append(history[i], t)
      /\ \A k \in Insight : Exists(k, insight) => Exists(k, insight')
      /\ \A k \in Insight : Accepted(k, history) => Accepted(k, history')
  BY <1>1, SetStateIs DEF LifeInv
<1>3. Committed'
  BY <1>2 DEF Committed
<1>4. /\ DOMAIN job' = Worker /\ job'[w] = Idle
      /\ \A v \in Worker \ {w} : job'[v] = job[v]
  BY DEF Done, LifeInv
<1>5. ASSUME NEW v \in Worker PROVE Holds(job'[v], insight', history')
  <2>1. CASE v = w
    BY <1>4, <2>1 DEF Holds
  <2>2. CASE v # w
    <3>1. PICK j : j = job[v]
      OBVIOUS
    <3>2. Holds(j, insight, history)
      BY <3>1 DEF LifeInv
    <3>3. Inserted(j) => insight'[j.insight] = Absent
      <4>1. Inserted(j) => insight[j.insight] = Absent /\ j.insight \in Insight
        <5> SUFFICES ASSUME Inserted(j) PROVE insight[j.insight] = Absent /\ j.insight \in Insight
          OBVIOUS
        <5>1. EvaluateHolds(j, insight)
          BY <3>2 DEF Holds, Inserted, Idle, TransitionHolds, TransitionJob, ApplyHolds, ApplyJob,
                      OutcomeHolds, OutcomeJob
        <5> QED
          BY <5>1, NumbersAre DEF Inserted, EvaluateHolds, EvaluateJob
      <4> QED
        BY <1>2, <4>1 DEF Exists
    <3>4. PICK ins, his, jns, jis :
            ins = insight /\ his = history /\ jns = insight' /\ jis = history'
      OBVIOUS
    <3>5. Holds(j, jns, jis)
      BY <1>2, <3>2, <3>3, <3>4, HoldsLasts
    <3> QED
      BY <1>4, <2>2, <3>1, <3>4, <3>5
  <2> QED
    BY <2>1, <2>2
<1>6. \A k \in Insight \ {i} : k \in OpenInsights' <=> k \in OpenInsights
  BY <1>2 DEF OpenInsights
<1>7. i \in Insight /\ (i \in OpenInsights' <=> to \in OpenState)
  BY <1>2 DEF OpenInsights, Exists
<1>8. OpenInsights' \subseteq Insight /\ OpenInsights \subseteq Insight
  BY DEF OpenInsights
<1>9. OneOpen'
  <2>1. CASE to \in OpenState
    BY <1>6, <1>7, <1>8, <2>1 DEF OneOpen
  <2>2. CASE to \notin OpenState
    BY <1>6, <1>7, <1>8, <2>2 DEF LifeInv, OneOpen
  <2> QED
    BY <2>1, <2>2
<1>10. IndexHeld'
  <2> SUFFICES ASSUME NEW v \in Worker, Inserted(job'[v])
               PROVE  OpenInsights' = {} /\ \A u \in Worker : Inserted(job'[u]) => u = v
    BY DEF IndexHeld
  <2>1. ~Inserted(job'[w])
    BY <1>4 DEF Inserted, Idle
  <2>2. v # w /\ Inserted(job[v])
    BY <1>4, <2>1
  <2>3. OpenInsights = {} /\ \A u \in Worker : Inserted(job[u]) => u = v
    BY <2>2 DEF LifeInv, IndexHeld
  <2>4. to \notin OpenState
    BY <2>2
  <2> QED
    BY <1>4, <1>6, <1>7, <1>8, <2>1, <2>3, <2>4
<1>11. HistoryEndsAtState'
  <2>1. PICK h \in Seq(TransitionRow) : h = history[i]
    BY <1>7 DEF LifeInv, Committed
  <2>2. PICK g : g = Append(h, t)
    OBVIOUS
  <2>3. g # <<>> /\ g[Len(g)] = t
    BY <2>2, Appended
  <2>4. t.to = to /\ history'[i] = g
    BY <1>1, <1>2, <2>1, <2>2 DEF Transition
  <2>5. \A k \in Insight \ {i} :
          IF history'[k] = <<>> THEN insight'[k].state \in {"absent", "detected"}
          ELSE history'[k][Len(history'[k])].to = insight'[k].state
    BY <1>2 DEF LifeInv, HistoryEndsAtState
  <2> QED
    BY <1>2, <1>7, <2>3, <2>4, <2>5 DEF HistoryEndsAtState
<1>12. ProgressOnceAccepted'
  <2> SUFFICES ASSUME NEW k \in Insight, insight'[k].state = "in_progress"
               PROVE  Accepted(k, history')
    BY DEF ProgressOnceAccepted
  <2>1. Accepted(k, history)
    BY <1>2 DEF LifeInv, ProgressOnceAccepted
  <2> QED
    BY <1>2, <2>1
<1>13. TasksAccepted(task', history')
  BY <1>2 DEF TasksAccepted
<1> QED
  BY <1>3, <1>4, <1>5, <1>9, <1>10, <1>11, <1>12, <1>13 DEF LifeInv

\* What evaluate leaves: a new insight where there was none, or the same one in
\* its state.
LEMMA EvaluateCommitKeeps ==
  ASSUME LifeInv, NEW w \in Worker, EvaluateCommit(w)
  PROVE  LifeInv'
<1>1. /\ job[w].op = "evaluate" /\ job[w].phase = "written" /\ SlackAnswered(w)
      /\ Done(w) /\ UNCHANGED <<history, task, outcomes, posts, today>>
      /\ insight' = [insight EXCEPT ![job[w].insight] = Composed(w)]
      /\ notice' = [notice EXCEPT ![job[w].insight] =
           IF MustNotify(w)
           THEN [status |-> NoticeStatus(w), severity |-> job[w].severity]
           ELSE notice[job[w].insight]]
  BY DEF EvaluateCommit, Writing
<1>2. PICK j : j = job[w]
  OBVIOUS
<1>3. j \in EvaluateJob /\ EvaluateHolds(j, insight) /\ j.insight # NoInsight
  <2>1. Holds(j, insight, history)
    BY <1>2 DEF LifeInv
  <2>2. EvaluateHolds(j, insight)
    BY <1>1, <1>2, <2>1 DEF Holds, Idle, TransitionHolds, TransitionJob, ApplyHolds, ApplyJob,
                            OutcomeHolds, OutcomeJob
  <2> QED
    BY <1>1, <1>2, <2>2 DEF EvaluateHolds
<1>4. PICK i \in Insight : i = j.insight
  BY <1>3 DEF EvaluateJob
<1>5. PICK r : r = Composed(w)
  OBVIOUS
<1>6. /\ j.severity \in Severity /\ j.status \in {"none", "sent", "failed"}
      /\ today \in Day /\ Committed
  BY <1>3 DEF EvaluateJob, LifeInv, Committed
<1>7. /\ r \in InsightRow /\ r # Absent
      /\ IF j.fresh THEN insight[i] = Absent /\ r.state = "detected"
                    ELSE insight[i] # Absent /\ r.state = insight[i].state
  <2>1. CASE j.fresh
    <3>1. r = [state |-> "detected", severity |-> j.severity,
               created |-> today, outcome |-> "none"]
      BY <1>2, <1>5, <2>1 DEF Composed
    <3>2. r \in InsightRow /\ r.state = "detected"
      BY <1>6, <3>1, StatesAre DEF InsightRow
    <3> QED
      BY <1>3, <1>4, <2>1, <3>2, StatesAre DEF EvaluateHolds, Absent
  <2>2. CASE ~j.fresh
    <3>1. r = [insight[i] EXCEPT !.severity = j.severity]
      BY <1>2, <1>4, <1>5, <2>2 DEF Composed
    <3>2. insight[i] # Absent
      BY <1>3, <1>4, <2>2 DEF EvaluateHolds, Exists
    <3>3. insight[i] \in InsightRow
      BY <1>6, <3>2, InsightIs
    <3>4. r \in InsightRow /\ r.state = insight[i].state
      BY <1>6, <3>1, <3>3 DEF InsightRow
    <3>5. r.state \in States
      BY <3>4 DEF InsightRow
    <3> QED
      BY <2>2, <3>2, <3>4, <3>5, StatesAre DEF Absent
  <2> QED
    BY <2>1, <2>2
<1>8. insight' = [insight EXCEPT ![i] = r] /\ insight \in [Insight -> {Absent} \cup InsightRow]
  BY <1>1, <1>2, <1>4, <1>5, <1>6 DEF Committed
<1>9. /\ insight' \in [Insight -> {Absent} \cup InsightRow] /\ insight'[i] = r
      /\ \A k \in Insight \ {i} : insight'[k] = insight[k]
  BY <1>7, <1>8
<1>10. notice' \in [Insight -> {NoNotice} \cup NoticeRow]
  <2>1. MustNotify(w) => [status |-> NoticeStatus(w), severity |-> j.severity] \in NoticeRow
    <3> SUFFICES ASSUME MustNotify(w)
                 PROVE  [status |-> NoticeStatus(w), severity |-> j.severity] \in NoticeRow
      OBVIOUS
    <3>1. j.severity \in Notified
      BY <1>2 DEF MustNotify
    <3>2. NoticeStatus(w) \in {"queued", "sent", "failed"}
      BY <1>1, <1>2, <1>6 DEF NoticeStatus, SlackAnswered
    <3> QED
      BY <1>6, <3>1, <3>2 DEF NoticeRow
  <2>2. notice \in [Insight -> {NoNotice} \cup NoticeRow]
    BY <1>6 DEF Committed
  <2> QED
    BY <1>1, <1>2, <1>4, <2>1, <2>2
<1>11. Committed'
  BY <1>1, <1>6, <1>9, <1>10 DEF Committed
<1>12. /\ DOMAIN job' = Worker /\ job'[w] = Idle
       /\ \A v \in Worker \ {w} : job'[v] = job[v]
  BY <1>1 DEF Done, LifeInv
<1>13. \A k \in Insight : Exists(k, insight) => Exists(k, insight')
  BY <1>7, <1>9 DEF Exists
<1>14. j.fresh => \A v \in Worker \ {w} : ~Inserted(job[v])
  BY <1>1, <1>2 DEF LifeInv, IndexHeld, Inserted
<1>15. ASSUME NEW v \in Worker PROVE Holds(job'[v], insight', history')
  <2>1. CASE v = w
    BY <1>12, <2>1 DEF Holds
  <2>2. CASE v # w
    <3>1. PICK k : k = job[v]
      OBVIOUS
    <3>2. Holds(k, insight, history)
      BY <3>1 DEF LifeInv
    <3>3. Inserted(k) => insight'[k.insight] = Absent
      <4> SUFFICES ASSUME Inserted(k) PROVE insight'[k.insight] = Absent
        OBVIOUS
      <4>1. EvaluateHolds(k, insight)
        BY <3>2 DEF Holds, Inserted, Idle, TransitionHolds, TransitionJob, ApplyHolds, ApplyJob,
                    OutcomeHolds, OutcomeJob
      <4>2. insight[k.insight] = Absent /\ k.insight \in Insight
        BY <4>1, NumbersAre DEF Inserted, EvaluateHolds, EvaluateJob
      <4>3. ~j.fresh
        BY <1>14, <2>2, <3>1
      <4> QED
        BY <1>7, <1>9, <4>2, <4>3
    <3>4. PICK ins, his, jns : ins = insight /\ his = history /\ jns = insight'
      OBVIOUS
    <3>5. Holds(k, jns, his)
      BY <1>13, <3>2, <3>3, <3>4, HoldsLasts
    <3> QED
      BY <1>1, <1>12, <2>2, <3>1, <3>4, <3>5
  <2> QED
    BY <2>1, <2>2
<1>16. OpenInsights' = IF j.fresh THEN OpenInsights \cup {i} ELSE OpenInsights
  <2>1. CASE j.fresh
    BY <1>7, <1>9, <2>1, StatesAre DEF OpenInsights
  <2>2. CASE ~j.fresh
    BY <1>7, <1>9, <2>2 DEF OpenInsights
  <2> QED
    BY <2>1, <2>2
<1>17. j.fresh => OpenInsights = {}
  BY <1>1, <1>2 DEF LifeInv, IndexHeld, Inserted
<1>18. OneOpen'
  BY <1>16, <1>17 DEF LifeInv, OneOpen
<1>19. IndexHeld'
  <2> SUFFICES ASSUME NEW v \in Worker, Inserted(job'[v])
               PROVE  OpenInsights' = {} /\ \A u \in Worker : Inserted(job'[u]) => u = v
    BY DEF IndexHeld
  <2>1. ~Inserted(job'[w])
    BY <1>12 DEF Inserted, Idle
  <2>2. v # w /\ Inserted(job[v])
    BY <1>12, <2>1
  <2>3. OpenInsights = {} /\ \A u \in Worker : Inserted(job[u]) => u = v
    BY <2>2 DEF LifeInv, IndexHeld
  <2>4. ~j.fresh
    BY <1>14, <2>2
  <2> QED
    BY <1>12, <1>16, <2>1, <2>3, <2>4
<1>20. HistoryEndsAtState'
  <2> SUFFICES ASSUME NEW k \in Insight
               PROVE  IF history[k] = <<>> THEN insight'[k].state \in {"absent", "detected"}
                      ELSE history[k][Len(history[k])].to = insight'[k].state
    BY <1>1 DEF HistoryEndsAtState
  <2>1. IF history[k] = <<>> THEN insight[k].state \in {"absent", "detected"}
        ELSE history[k][Len(history[k])].to = insight[k].state
    BY DEF LifeInv, HistoryEndsAtState
  <2>2. CASE k # i \/ ~j.fresh
    BY <1>7, <1>9, <2>1, <2>2
  <2>3. CASE k = i /\ j.fresh
    <3>1. insight[k].state = "absent" /\ insight'[k].state = "detected"
      BY <1>7, <1>9, <2>3 DEF Absent
    <3>2. history[k] = <<>>
      <4> SUFFICES ASSUME history[k] # <<>> PROVE FALSE
        OBVIOUS
      <4>1. PICK h \in Seq(TransitionRow) : h = history[k]
        BY <1>6 DEF Committed
      <4>2. Len(h) \in DOMAIN h
        BY <4>1
      <4>3. h[Len(h)] \in TransitionRow
        BY <4>2
      <4> QED
        BY <2>1, <3>1, <4>1, <4>3, StatesAre DEF TransitionRow
    <3> QED
      BY <3>1, <3>2
  <2> QED
    BY <2>2, <2>3
<1>21. ProgressOnceAccepted'
  <2> SUFFICES ASSUME NEW k \in Insight, insight'[k].state = "in_progress"
               PROVE  Accepted(k, history)
    BY <1>1 DEF ProgressOnceAccepted, Accepted
  <2>1. insight[k].state = "in_progress"
    BY <1>7, <1>9
  <2> QED
    BY <2>1 DEF LifeInv, ProgressOnceAccepted
<1>22. TasksAccepted(task', history')
  BY <1>1 DEF LifeInv
<1> QED
  BY <1>11, <1>12, <1>15, <1>18, <1>19, <1>20, <1>21, <1>22 DEF LifeInv

-----------------------------------------------------------------------------
(* Each step of a handler.                                                 *)

\* No other evaluation has inserted the row this step needs the index free of.
LEMMA IndexIsFree ==
  ASSUME NEW w \in Worker, IndexFree(w)
  PROVE  \A v \in Worker \ {w} : ~Inserted(job[v])
  BY DEF IndexFree, Writing, Inserted

\* Which handler a job is of.
LEMMA JobIs ==
  ASSUME LifeInv, NEW w \in Worker, NEW j, j = job[w]
  PROVE  /\ j.op = "transition" => TransitionHolds(j, insight, history)
         /\ j.op = "evaluate" => EvaluateHolds(j, insight)
         /\ j.op = "apply" => ApplyHolds(j, insight, history)
         /\ j.op = "outcome" => OutcomeHolds(j, insight)
<1>1. Holds(j, insight, history)
  BY DEF LifeInv
<1>2. /\ TransitionHolds(j, insight, history) => j.op = "transition"
      /\ EvaluateHolds(j, insight) => j.op = "evaluate"
      /\ ApplyHolds(j, insight, history) => j.op = "apply"
      /\ OutcomeHolds(j, insight) => j.op = "outcome"
      /\ j = Idle => j.op = "idle"
  BY DEF TransitionHolds, TransitionJob, EvaluateHolds, EvaluateJob, ApplyHolds, ApplyJob,
         OutcomeHolds, OutcomeJob, Idle
<1> QED
  BY <1>1, <1>2 DEF Holds

\* An insight in state accepted or in_progress was accepted.
LEMMA StateAccepted ==
  ASSUME LifeInv, NEW i \in Insight, insight[i].state \in {"accepted", "in_progress"}
  PROVE  Accepted(i, history)
<1>1. CASE insight[i].state = "in_progress"
  BY <1>1 DEF LifeInv, ProgressOnceAccepted
<1>2. CASE insight[i].state = "accepted"
  <2>1. history[i] # <<>> /\ history[i][Len(history[i])].to = "accepted"
    BY <1>2 DEF LifeInv, HistoryEndsAtState
  <2>2. PICK h \in Seq(TransitionRow) : h = history[i]
    BY DEF LifeInv, Committed
  <2>3. Len(h) \in DOMAIN h
    BY <2>1, <2>2
  <2> QED
    BY <2>1, <2>2, <2>3 DEF Accepted
<1> QED
  BY <1>1, <1>2

LEMMA TransitionReadKeeps ==
  ASSUME LifeInv, NEW w \in Worker, TransitionRead(w)
  PROVE  LifeInv'
<1>0. PICK i \in Insight :
        /\ insight[i].state # "absent"
        /\ \E to \in TRANSITIONS[insight[i].state] :
             Start(w, [op |-> "transition", insight |-> i, from |-> insight[i].state, to |-> to])
  BY DEF TransitionRead
<1>1. PICK to :
        /\ insight[i].state # "absent" /\ to \in TRANSITIONS[insight[i].state]
        /\ Start(w, [op |-> "transition", insight |-> i, from |-> insight[i].state, to |-> to])
  BY <1>0
<1>2. PICK j : j = [op |-> "transition", insight |-> i, from |-> insight[i].state, to |-> to]
  OBVIOUS
<1>3. Exists(i, insight) /\ insight[i].state \in States /\ to \in States
  BY <1>1, InsightIs, StatesAre DEF LifeInv, Exists
<1>4. insight[i].state = "accepted" => Accepted(i, history)
  BY StateAccepted
<1>5. TransitionHolds(j, insight, history) /\ ~Inserted(j)
  BY <1>1, <1>2, <1>3, <1>4 DEF TransitionHolds, TransitionJob, Inserted
<1>6. /\ UNCHANGED <<insight, history, task, outcomes, notice, posts, today>>
      /\ job' = [job EXCEPT ![w] = j] /\ Holds(j, insight, history)
  BY <1>1, <1>2, <1>5 DEF Start, Holds
<1> QED
  BY <1>5, <1>6, JobKeeps

LEMMA TransitionWriteKeeps ==
  ASSUME LifeInv, NEW w \in Worker, TransitionWrite(w)
  PROVE  LifeInv'
<1>1. PICK j : j = job[w]
  OBVIOUS
<1>2. TransitionHolds(j, insight, history)
  BY <1>1, JobIs DEF TransitionWrite
<1>3. CASE Fail(w)
  BY <1>3, FailKeeps
<1>4. CASE ~Fail(w)
  <2>1. /\ j.to \in OpenState => IndexFree(w)
        /\ ~Conflicts(j.insight, j.to)
        /\ SetState(j.insight, j.from, j.to, "user", insight[j.insight].outcome)
        /\ Done(w)
        /\ UNCHANGED <<task, outcomes, notice, posts, today>>
    BY <1>1, <1>4 DEF TransitionWrite
  <2>2. PICK i, from, to, outcome :
          i = j.insight /\ from = j.from /\ to = j.to /\ outcome = insight[j.insight].outcome
    OBVIOUS
  <2>3. Exists(i, insight) /\ from \in States /\ to \in States /\ to \in TRANSITIONS[from]
    BY <1>2, <2>2 DEF TransitionHolds, TransitionJob
  <2>4. outcome \in {"none", "risk_cleared"} \cup Outcome
    BY <2>2, <2>3, InsightIs DEF LifeInv, InsightRow, Exists
  <2>5. to = "in_progress" => Accepted(i, history)
    <3>1. to = "in_progress" => from = "accepted"
      BY <2>3, StatesAre
    <3> QED
      BY <1>2, <2>2, <3>1 DEF TransitionHolds
  <2>6. to \in OpenState => /\ OpenInsights \ {i} = {}
                           /\ \A v \in Worker \ {w} : ~Inserted(job[v])
    BY <2>1, <2>2, IndexIsFree DEF Conflicts
  <2>7. /\ task' \in Tasks /\ TasksAccepted(task', history)
        /\ outcomes' \in [Day -> {NoOutcome} \cup OutcomeRow]
        /\ notice' \in [Insight -> {NoNotice} \cup NoticeRow]
        /\ posts' \in [Insight -> Nat] /\ today' \in Day
    BY <2>1 DEF LifeInv, Committed
  <2>8. SetState(i, from, to, "user", outcome) /\ Done(w)
    BY <2>1, <2>2
  <2>9. PICK by \in {"user", "system"} : by = "user"
    OBVIOUS
  <2> QED
    BY <2>3, <2>4, <2>5, <2>6, <2>7, <2>8, <2>9, SetStateKeeps
<1> QED
  BY <1>3, <1>4

LEMMA EvaluateReadKeeps ==
  ASSUME LifeInv, NEW w \in Worker, EvaluateRead(w)
  PROVE  LifeInv'
<1>1. PICK risk \in BOOLEAN, s \in Severity :
        /\ risk \/ MayResolve(OpenInsight)
        /\ Start(w, [op |-> "evaluate", phase |-> "read", risk |-> risk,
                     severity |-> s, insight |-> OpenInsight,
                     from |-> StateOf(OpenInsight), fresh |-> FALSE, status |-> "none"])
  BY DEF EvaluateRead
<1>2. PICK i, from : i = OpenInsight /\ from = StateOf(OpenInsight)
  OBVIOUS
<1>3. PICK j : j = [op |-> "evaluate", phase |-> "read", risk |-> risk,
                    severity |-> s, insight |-> i, from |-> from, fresh |-> FALSE,
                    status |-> "none"]
  OBVIOUS
<1>4. /\ i = NoInsight => from = "absent"
      /\ i # NoInsight => Exists(i, insight) /\ from \in OpenState
      /\ i \in Insight \cup {NoInsight}
  BY <1>2, OpenInsightIs DEF LifeInv, Exists
<1>5. ~risk => i # NoInsight /\ from \in {"detected", "triaged"}
  BY <1>1, <1>2, <1>4 DEF MayResolve
<1>6. EvaluateHolds(j, insight) /\ ~Inserted(j)
  BY <1>3, <1>4, <1>5 DEF EvaluateHolds, EvaluateJob, Inserted
<1>7. /\ UNCHANGED <<insight, history, task, outcomes, notice, posts, today>>
      /\ job' = [job EXCEPT ![w] = j] /\ Holds(j, insight, history)
  BY <1>1, <1>2, <1>3, <1>6 DEF Start, Holds
<1> QED
  BY <1>6, <1>7, JobKeeps

LEMMA EvaluateResolveKeeps ==
  ASSUME LifeInv, NEW w \in Worker, EvaluateResolve(w)
  PROVE  LifeInv'
<1>1. PICK j : j = job[w]
  OBVIOUS
<1>2. EvaluateHolds(j, insight) /\ ~j.risk
  BY <1>1, JobIs DEF EvaluateResolve
<1>3. PICK i, from : i = j.insight /\ from = j.from
  OBVIOUS
<1>4. Exists(i, insight) /\ from \in States
  BY <1>2, <1>3, StatesAre DEF EvaluateHolds
<1>5. PICK to \in States, by \in {"user", "system"},
           outcome \in {"none", "risk_cleared"} \cup Outcome :
        to = "outcome_known" /\ by = "system" /\ outcome = "risk_cleared"
  BY StatesAre
<1>6. SetState(i, from, to, by, outcome) /\ Done(w)
  BY <1>1, <1>3, <1>5 DEF EvaluateResolve
<1>7. /\ task' \in Tasks /\ TasksAccepted(task', history)
      /\ outcomes' \in [Day -> {NoOutcome} \cup OutcomeRow]
      /\ notice' \in [Insight -> {NoNotice} \cup NoticeRow]
      /\ posts' \in [Insight -> Nat] /\ today' \in Day
  BY DEF LifeInv, Committed, EvaluateResolve
<1>8. to \notin OpenState /\ to # "in_progress"
  BY <1>5, StatesAre
<1> QED
  BY <1>4, <1>6, <1>7, <1>8, SetStateKeeps

LEMMA EvaluateRefreshKeeps ==
  ASSUME LifeInv, NEW w \in Worker, EvaluateRefresh(w)
  PROVE  LifeInv'
<1>1. PICK j : j = job[w]
  OBVIOUS
<1>2. EvaluateHolds(j, insight) /\ j.risk /\ j.phase = "read" /\ j.insight # NoInsight
  BY <1>1, JobIs DEF EvaluateRefresh
<1>3. PICK k : k = [j EXCEPT !.phase = "written"]
  OBVIOUS
<1>4. EvaluateHolds(k, insight) /\ ~Inserted(k)
  BY <1>2, <1>3 DEF EvaluateHolds, EvaluateJob, Inserted
<1>5. /\ UNCHANGED <<insight, history, task, outcomes, notice, posts, today>>
      /\ job' = [job EXCEPT ![w] = k] /\ Holds(k, insight, history)
  <2>1. DOMAIN job = Worker
    BY DEF LifeInv
  <2> QED
    BY <1>1, <1>3, <1>4, <2>1 DEF EvaluateRefresh, Holds
<1> QED
  BY <1>4, <1>5, JobKeeps

LEMMA EvaluateInsertKeeps ==
  ASSUME LifeInv, NEW w \in Worker, EvaluateInsert(w)
  PROVE  LifeInv'
<1>1. PICK j : j = job[w]
  OBVIOUS
<1>2. EvaluateHolds(j, insight) /\ j.risk /\ j.phase = "read" /\ j.insight = NoInsight
  BY <1>1, JobIs DEF EvaluateInsert
<1>3. CASE OpenInsights # {}
  BY <1>3, FailKeeps DEF EvaluateInsert
<1>4. CASE OpenInsights = {}
  <2>1. PICK i \in Insight :
          /\ insight[i] = Absent
          /\ job' = [job EXCEPT ![w].phase = "written", ![w].insight = i, ![w].fresh = TRUE]
          /\ UNCHANGED <<insight, history, task, outcomes, notice, posts, today>>
    BY <1>4 DEF EvaluateInsert
  <2>2. PICK k : k = [j EXCEPT !.phase = "written", !.insight = i, !.fresh = TRUE]
    OBVIOUS
  <2>3. EvaluateHolds(k, insight)
    BY <1>2, <2>1, <2>2, NumbersAre DEF EvaluateHolds, EvaluateJob
  <2>4. job' = [job EXCEPT ![w] = k]
    <3>1. DOMAIN job = Worker
      BY DEF LifeInv
    <3> QED
      BY <1>1, <2>1, <2>2, <3>1
  <2>5. Holds(k, insight, history)
    BY <2>3 DEF Holds
  <2>6. \A v \in Worker \ {w} : ~Inserted(job[v])
    BY IndexIsFree DEF EvaluateInsert
  <2> QED
    BY <1>4, <2>1, <2>4, <2>5, <2>6, JobKeeps
<1> QED
  BY <1>3, <1>4

LEMMA NotifySlackKeeps ==
  ASSUME LifeInv, NEW w \in Worker, NotifySlack(w)
  PROVE  LifeInv'
<1>1. PICK j : j = job[w]
  OBVIOUS
<1>2. EvaluateHolds(j, insight) /\ j.phase = "written" /\ j.insight # NoInsight
  BY <1>1, JobIs DEF NotifySlack, Writing, EvaluateHolds
<1>3. PICK status \in {"sent", "failed"}, delivered \in BOOLEAN :
        /\ job' = [job EXCEPT ![w].status = status]
        /\ posts' = [posts EXCEPT ![job[w].insight] = @ + (IF delivered THEN 1 ELSE 0)]
  BY DEF NotifySlack
<1>4. PICK k : k = [j EXCEPT !.status = status]
  OBVIOUS
<1>5. EvaluateHolds(k, insight) /\ (Inserted(k) => Inserted(j))
  BY <1>2, <1>4 DEF EvaluateHolds, EvaluateJob, Inserted
<1>6. job' = [job EXCEPT ![w] = k] /\ Holds(k, insight, history)
  <2>1. DOMAIN job = Worker
    BY DEF LifeInv
  <2> QED
    BY <1>1, <1>3, <1>4, <1>5, <2>1 DEF Holds
<1>7. posts' \in [Insight -> Nat]
  <2>1. posts \in [Insight -> Nat] /\ j.insight \in Insight
    BY <1>2 DEF LifeInv, Committed, EvaluateHolds, EvaluateJob
  <2> QED
    BY <1>1, <1>3, <2>1
<1>8. Inserted(k) => OpenInsights = {} /\ \A v \in Worker \ {w} : ~Inserted(job[v])
  BY <1>1, <1>5 DEF LifeInv, IndexHeld
<1>9. /\ insight' = insight /\ history' = history
      /\ task' \in Tasks /\ TasksAccepted(task', history)
      /\ outcomes' \in [Day -> {NoOutcome} \cup OutcomeRow]
      /\ notice' \in [Insight -> {NoNotice} \cup NoticeRow] /\ today' \in Day
  BY DEF LifeInv, Committed, NotifySlack
<1> QED
  BY <1>6, <1>7, <1>8, <1>9, QuietKeeps

LEMMA EvaluateCrashKeeps ==
  ASSUME LifeInv, NEW w \in Worker, EvaluateCrash(w)
  PROVE  LifeInv'
  BY FailKeeps DEF EvaluateCrash

LEMMA ApplyReadKeeps ==
  ASSUME LifeInv, NEW w \in Worker, ApplyRead(w)
  PROVE  LifeInv'
<1>1. PICK i \in Insight, p \in Playbook :
        /\ insight[i].state \in {"accepted", "in_progress"}
        /\ Start(w, [op |-> "apply", phase |-> "read", insight |-> i,
                     from |-> insight[i].state, playbook |-> p])
  BY DEF ApplyRead
<1>2. PICK j : j = [op |-> "apply", phase |-> "read", insight |-> i,
                    from |-> insight[i].state, playbook |-> p]
  OBVIOUS
<1>3. Exists(i, insight) /\ Accepted(i, history)
  <2>1. Absent.state = "absent"
    BY DEF Absent
  <2> QED
    BY <1>1, <2>1, StateAccepted DEF Exists
<1>4. ApplyHolds(j, insight, history) /\ ~Inserted(j)
  BY <1>1, <1>2, <1>3 DEF ApplyHolds, ApplyJob, Inserted
<1>5. /\ UNCHANGED <<insight, history, task, outcomes, notice, posts, today>>
      /\ job' = [job EXCEPT ![w] = j] /\ Holds(j, insight, history)
  BY <1>1, <1>2, <1>4 DEF Start, Holds
<1> QED
  BY <1>4, <1>5, JobKeeps

LEMMA ApplyCountKeeps ==
  ASSUME LifeInv, NEW w \in Worker, ApplyCount(w)
  PROVE  LifeInv'
<1>1. CASE Fail(w)
  BY <1>1, FailKeeps
<1>2. CASE ~Fail(w)
  <2>1. PICK j : j = job[w]
    OBVIOUS
  <2>2. ApplyHolds(j, insight, history)
    BY <2>1, JobIs DEF ApplyCount
  <2>3. PICK k : k = [j EXCEPT !.phase = "counted"]
    OBVIOUS
  <2>4. ApplyHolds(k, insight, history) /\ ~Inserted(k)
    BY <2>2, <2>3 DEF ApplyHolds, ApplyJob, Inserted
  <2>5. /\ job' = [job EXCEPT ![w].phase = "counted"]
        /\ UNCHANGED <<insight, history, task, outcomes, notice, posts, today>>
    BY <1>2 DEF ApplyCount
  <2>6. job' = [job EXCEPT ![w] = k] /\ Holds(k, insight, history)
    <3>1. DOMAIN job = Worker
      BY DEF LifeInv
    <3> QED
      BY <2>1, <2>3, <2>4, <2>5, <3>1 DEF Holds
  <2> QED
    BY <2>4, <2>5, <2>6, JobKeeps
<1> QED
  BY <1>1, <1>2

LEMMA ApplyWriteKeeps ==
  ASSUME LifeInv, NEW w \in Worker, ApplyWrite(w)
  PROVE  LifeInv'
<1>1. CASE Fail(w)
  BY <1>1, FailKeeps
<1>2. CASE ~Fail(w)
  <2>1. PICK j : j = job[w]
    OBVIOUS
  <2>2. ApplyHolds(j, insight, history)
    BY <2>1, JobIs DEF ApplyWrite
  <2>3. PICK i, p : i = j.insight /\ p = j.playbook
    OBVIOUS
  <2>4. i \in Insight /\ p \in Playbook /\ Exists(i, insight) /\ Accepted(i, history)
    BY <2>2, <2>3 DEF ApplyHolds, ApplyJob
  <2>5. /\ task' = [task EXCEPT ![i][p].open = @ + Steps]
        /\ Done(w) /\ UNCHANGED <<outcomes, notice, posts, today>>
    BY <1>2, <2>1, <2>3 DEF ApplyWrite
  <2>6. task' \in Tasks /\ TasksAccepted(task', history)
    <3>1. task \in Tasks /\ Steps \in Nat /\ TasksAccepted(task, history)
      BY BoundsAssumption DEF LifeInv, Committed
    <3>2. /\ task[i] \in [Playbook -> [open : Nat, done : Nat]]
          /\ task[i][p] \in [open : Nat, done : Nat]
      BY <2>4, <3>1 DEF Tasks
    <3>3. PICK c : c = [task[i][p] EXCEPT !.open = @ + Steps]
      OBVIOUS
    <3>4. c \in [open : Nat, done : Nat]
      BY <3>1, <3>2, <3>3
    <3>5. PICK f : f = [task[i] EXCEPT ![p] = c]
      OBVIOUS
    <3>6. f \in [Playbook -> [open : Nat, done : Nat]]
      BY <3>2, <3>4, <3>5
    <3>7. task' = [task EXCEPT ![i] = f]
      BY <2>4, <2>5, <3>1, <3>2, <3>3, <3>5 DEF Tasks
    <3>8. task' \in Tasks /\ \A k \in Insight \ {i} : task'[k] = task[k]
      BY <2>4, <3>1, <3>6, <3>7 DEF Tasks
    <3> QED
      BY <2>4, <3>1, <3>8 DEF TasksAccepted
  <2>7. /\ outcomes' \in [Day -> {NoOutcome} \cup OutcomeRow]
        /\ notice' \in [Insight -> {NoNotice} \cup NoticeRow]
        /\ posts' \in [Insight -> Nat] /\ today' \in Day
    BY <2>5 DEF LifeInv, Committed
  <2>8. CASE j.from = "accepted"
    <3>1. /\ IndexFree(w) /\ ~Conflicts(i, "in_progress")
          /\ SetState(i, "accepted", "in_progress", "user", insight[i].outcome)
      BY <1>2, <2>1, <2>3, <2>8 DEF ApplyWrite
    <3>2. PICK from, to, by, outcome :
            /\ from = "accepted" /\ to = "in_progress" /\ by = "user"
            /\ outcome = insight[i].outcome
      OBVIOUS
    <3>3. /\ from \in States /\ to \in States /\ by \in {"user", "system"}
          /\ outcome \in {"none", "risk_cleared"} \cup Outcome
      BY <2>4, <3>2, InsightIs, StatesAre DEF LifeInv, InsightRow, Exists
    <3>4. SetState(i, from, to, by, outcome)
      BY <3>1, <3>2
    <3>5. OpenInsights \ {i} = {} /\ \A v \in Worker \ {w} : ~Inserted(job[v])
      BY <3>1, IndexIsFree, StatesAre DEF Conflicts
    <3> QED
      BY <2>4, <2>5, <2>6, <2>7, <3>3, <3>4, <3>5, SetStateKeeps
  <2>9. CASE j.from # "accepted"
    <3>1. insight' = insight /\ history' = history
      BY <1>2, <2>1, <2>9 DEF ApplyWrite
    <3>2. PICK J : J = Idle
      OBVIOUS
    <3>3. Holds(J, insight, history) /\ ~Inserted(J) /\ job' = [job EXCEPT ![w] = J]
      BY <2>5, <3>2 DEF Holds, Inserted, Idle, Done
    <3> QED
      BY <2>6, <2>7, <3>1, <3>3, QuietKeeps
  <2> QED
    BY <2>8, <2>9
<1> QED
  BY <1>1, <1>2

-----------------------------------------------------------------------------
(* Renewal outcomes.                                                       *)

\* A non-empty set of natural numbers has a least one: the finite sets 0..x of
\* its members x are well-founded under inclusion.
LEMMA LeastNatural ==
  ASSUME NEW S, S \subseteq Nat, S # {}
  PROVE  \E x \in S : \A y \in S : x <= y
<1> DEFINE T == {0..x : x \in S}
<1>1. T \subseteq FiniteSubsetsOf(Nat) /\ T # {}
  <2>1. \A x \in S : IsFiniteSet(0..x) /\ 0..x \subseteq Nat
    BY FS_Interval
  <2> QED
    BY <2>1 DEF FiniteSubsetsOf
<1>2. PICK I \in T : \A J \in T : <<J, I>> \notin StrictSubsetOrdering(Nat)
  <2>1. \A R, Q, U : IsWellFoundedOn(R, Q) /\ U \subseteq Q /\ U # {} =>
                       \E x \in U : \A y \in U : <<y, x>> \notin R
    BY WFMin
  <2> HIDE DEF T
  <2> QED
    BY <1>1, <2>1, FS_StrictSubsetOrderingWellFounded
<1>3. PICK x \in S : I = 0..x
  OBVIOUS
<1>4. ASSUME NEW y \in S, y < x PROVE FALSE
  <2>1. 0..y \in T /\ 0..y \subseteq I /\ I \subseteq Nat /\ 0..y # I
    BY <1>3, <1>4
  <2> QED
    BY <1>2, <2>1 DEF StrictSubsetOrdering
<1> QED
  BY <1>4


\* The lead of a flag is a number of days.
LEMMA LeadIsDays ==
  ASSUME Committed, NEW date \in Day
  PROVE  (IF Flags(date) = {} THEN 0
          ELSE date - EarliestDay({insight[i].created : i \in Flags(date)})) \in 0..MaxDay
<1>1. CASE Flags(date) = {}
  BY <1>1, BoundsAssumption
<1>2. CASE Flags(date) # {}
  <2> DEFINE S == {insight[i].created : i \in Flags(date)}
  <2>1. \A i \in Flags(date) : insight[i].created \in Nat /\ insight[i].created <= date
    <3> SUFFICES ASSUME NEW i \in Flags(date)
                 PROVE  insight[i].created \in Nat /\ insight[i].created <= date
      OBVIOUS
    <3>1. i \in Insight /\ insight[i].created <= date
      BY DEF Flags
    <3>2. insight[i].created \in Nat
      BY <3>1, BoundsAssumption DEF Committed, Absent, InsightRow, Day
    <3> QED
      BY <3>1, <3>2
  <2>2. S \subseteq Nat /\ S # {} /\ \A d \in S : d <= date
    BY <1>2, <2>1
  <2> HIDE DEF S
  <2>3. EarliestDay(S) \in S
    BY <2>2, LeastNatural DEF EarliestDay
  <2>4. PICK first \in Nat : first = EarliestDay(S) /\ first <= date
    BY <2>2, <2>3
  <2>5. date - EarliestDay(S) \in 0..MaxDay
    BY <2>4, BoundsAssumption DEF Day
  <2> QED
    BY <1>2, <2>5 DEF S
<1> QED
  BY <1>1, <1>2

LEMMA OutcomeReadKeeps ==
  ASSUME LifeInv, NEW w \in Worker, OutcomeRead(w)
  PROVE  LifeInv'
<1>1. PICK date \in Day, o \in Outcome :
        Start(w, [op |-> "outcome", date |-> date, from |-> StateOf(OpenInsight),
                  row |-> [outcome |-> o,
                       flagged |-> Flags(date) # {},
                       lead |-> IF Flags(date) = {} THEN 0
                                ELSE date - EarliestDay({insight[i].created : i \in Flags(date)}),
                       intervention |-> InterventionLevel,
                       insight |-> OpenInsight]])
  BY DEF OutcomeRead
<1>2. PICK i, from, flagged, lead, level :
        /\ i = OpenInsight /\ from = StateOf(OpenInsight) /\ flagged = (Flags(date) # {})
        /\ lead = IF Flags(date) = {} THEN 0
                  ELSE date - EarliestDay({insight[k].created : k \in Flags(date)})
        /\ level = InterventionLevel
  OBVIOUS
<1>3. PICK row : row = [outcome |-> o, flagged |-> flagged, lead |-> lead,
                        intervention |-> level, insight |-> i]
  OBVIOUS
<1>4. PICK j : j = [op |-> "outcome", date |-> date, from |-> from, row |-> row]
  OBVIOUS
<1>5. /\ i = NoInsight => from = "absent"
      /\ i # NoInsight => Exists(i, insight) /\ from \in OpenState
      /\ i \in Insight \cup {NoInsight}
  BY <1>2, OpenInsightIs DEF LifeInv, Exists
<1>6. lead \in 0..MaxDay /\ flagged \in BOOLEAN
  BY <1>2, LeadIsDays DEF LifeInv
<1>7. level \in {"none", "partial", "completed"}
  BY <1>2 DEF InterventionLevel
<1>8. row \in OutcomeRow
  BY <1>3, <1>5, <1>6, <1>7 DEF OutcomeRow
<1>9. OutcomeHolds(j, insight) /\ ~Inserted(j)
  BY <1>3, <1>4, <1>5, <1>8 DEF OutcomeHolds, OutcomeJob, Inserted
<1>10. /\ UNCHANGED <<insight, history, task, outcomes, notice, posts, today>>
       /\ job' = [job EXCEPT ![w] = j] /\ Holds(j, insight, history)
  BY <1>1, <1>2, <1>3, <1>4, <1>9 DEF Start, Holds
<1> QED
  BY <1>9, <1>10, JobKeeps

LEMMA OutcomeWriteKeeps ==
  ASSUME LifeInv, NEW w \in Worker, OutcomeWrite(w)
  PROVE  LifeInv'
<1>1. CASE Fail(w)
  BY <1>1, FailKeeps
<1>2. CASE ~Fail(w)
  <2>1. PICK j : j = job[w]
    OBVIOUS
  <2>2. OutcomeHolds(j, insight)
    BY <2>1, JobIs DEF OutcomeWrite
  <2>3. /\ outcomes' = [outcomes EXCEPT ![j.date] = j.row]
        /\ Done(w) /\ UNCHANGED <<task, notice, posts, today>>
    BY <1>2, <2>1 DEF OutcomeWrite
  <2>4. outcomes' \in [Day -> {NoOutcome} \cup OutcomeRow]
    BY <2>2, <2>3 DEF LifeInv, Committed, OutcomeHolds, OutcomeJob
  <2>5. /\ task' \in Tasks /\ TasksAccepted(task', history)
        /\ notice' \in [Insight -> {NoNotice} \cup NoticeRow]
        /\ posts' \in [Insight -> Nat] /\ today' \in Day
    BY <2>3 DEF LifeInv, Committed
  <2>6. CASE j.row.insight # NoInsight
    <3>1. PICK i, from : i = j.row.insight /\ from = j.from
      OBVIOUS
    <3>2. Exists(i, insight) /\ from \in States
      BY <2>2, <2>6, <3>1, StatesAre DEF OutcomeHolds
    <3>3. PICK outcome : outcome = j.row.outcome
      OBVIOUS
    <3>4. outcome \in {"none", "risk_cleared"} \cup Outcome
      BY <2>2, <3>3 DEF OutcomeHolds, OutcomeJob, OutcomeRow
    <3>5. PICK to \in States, by \in {"user", "system"} : to = "outcome_known" /\ by = "user"
      BY StatesAre
    <3>6. SetState(i, from, to, by, outcome)
      BY <1>2, <2>1, <2>6, <3>1, <3>3, <3>5 DEF OutcomeWrite
    <3>7. to \notin OpenState /\ to # "in_progress"
      BY <3>5, StatesAre
    <3> QED
      BY <2>3, <2>4, <2>5, <3>2, <3>4, <3>6, <3>7, SetStateKeeps
  <2>7. CASE j.row.insight = NoInsight
    <3>1. insight' = insight /\ history' = history
      BY <1>2, <2>1, <2>7 DEF OutcomeWrite
    <3>2. PICK J : J = Idle
      OBVIOUS
    <3>3. Holds(J, insight, history) /\ ~Inserted(J) /\ job' = [job EXCEPT ![w] = J]
      BY <2>3, <3>2 DEF Holds, Inserted, Idle, Done
    <3> QED
      BY <2>4, <2>5, <3>1, <3>3, QuietKeeps
  <2> QED
    BY <2>6, <2>7
<1> QED
  BY <1>1, <1>2

-----------------------------------------------------------------------------
(* The invariant.                                                          *)

\* The day passes; nobody reads it but evaluations that insert.
LEMMA TickKeeps ==
  ASSUME LifeInv, Tick
  PROVE  LifeInv'
<1>1. today' \in Day
  BY BoundsAssumption DEF LifeInv, Committed, Tick, Day
<1>2. UNCHANGED <<insight, history, task, outcomes, notice, posts, job>>
  BY DEF Tick
<1>3. Committed'
  BY <1>1, <1>2 DEF LifeInv, Committed
<1>4. OneOpen' /\ IndexHeld' /\ HistoryEndsAtState' /\ ProgressOnceAccepted'
  BY <1>2 DEF LifeInv, OneOpen, IndexHeld, HistoryEndsAtState, ProgressOnceAccepted, Accepted,
              OpenInsights
<1> QED
  BY <1>2, <1>3, <1>4 DEF LifeInv

LEMMA CompleteTaskKeeps ==
  ASSUME LifeInv, CompleteTask
  PROVE  LifeInv'
<1>1. PICK i \in Insight, p \in Playbook :
        /\ task[i][p].open > 0
        /\ task' = [task EXCEPT ![i][p] = [open |-> task[i][p].open - 1,
                                          done |-> task[i][p].done + 1]]
  BY DEF CompleteTask
<1>2. UNCHANGED <<insight, history, outcomes, notice, posts, today, job>>
  BY DEF CompleteTask
<1>3. PICK c : c = [open |-> task[i][p].open - 1, done |-> task[i][p].done + 1]
  OBVIOUS
<1>4. /\ task \in Tasks /\ task[i] \in [Playbook -> [open : Nat, done : Nat]]
      /\ task[i][p] \in [open : Nat, done : Nat]
  BY DEF LifeInv, Committed, Tasks
<1>5. c \in [open : Nat, done : Nat]
  BY <1>1, <1>3, <1>4
<1>6. Accepted(i, history)
  BY <1>1, <1>4 DEF LifeInv, TasksAccepted
<1>7. PICK f : f = [task[i] EXCEPT ![p] = c]
  OBVIOUS
<1>8. f \in [Playbook -> [open : Nat, done : Nat]] /\ task' = [task EXCEPT ![i] = f]
  BY <1>1, <1>3, <1>4, <1>5, <1>7 DEF Tasks
<1>9. task' \in Tasks /\ \A k \in Insight \ {i} : task'[k] = task[k]
  BY <1>4, <1>8 DEF Tasks
<1>10. Committed'
  BY <1>2, <1>9 DEF LifeInv, Committed
<1>11. OneOpen' /\ IndexHeld' /\ HistoryEndsAtState' /\ ProgressOnceAccepted'
  BY <1>2 DEF LifeInv, OneOpen, IndexHeld, HistoryEndsAtState, ProgressOnceAccepted, Accepted,
              OpenInsights
<1>12. TasksAccepted(task', history')
  BY <1>2, <1>6, <1>9 DEF LifeInv, TasksAccepted
<1> QED
  BY <1>2, <1>10, <1>11, <1>12 DEF LifeInv

LEMMA LifeInit == Init => LifeInv
<1> SUFFICES ASSUME Init PROVE LifeInv
  OBVIOUS
<1>1. Committed
  BY BoundsAssumption DEF Init, Committed, Tasks, Day
<1>2. DOMAIN job = Worker /\ \A w \in Worker : job[w] = Idle
  BY DEF Init
<1>3. \A w \in Worker : Holds(job[w], insight, history) /\ ~Inserted(job[w])
  BY <1>2 DEF Holds, Inserted, Idle
<1>4. OpenInsights = {}
  BY StatesAre DEF Init, OpenInsights, Absent
<1>5. OneOpen /\ IndexHeld
  BY <1>3, <1>4 DEF OneOpen, IndexHeld
<1>6. HistoryEndsAtState /\ ProgressOnceAccepted
  BY DEF Init, HistoryEndsAtState, ProgressOnceAccepted, Absent
<1>7. TasksAccepted(task, history)
  BY DEF Init, TasksAccepted
<1> QED
  BY <1>1, <1>2, <1>3, <1>5, <1>6, <1>7 DEF LifeInv

LEMMA LifeStep == LifeInv /\ [Next]_vars => LifeInv'
<1> SUFFICES ASSUME LifeInv, [Next]_vars PROVE LifeInv'
  OBVIOUS
<1>1. CASE Tick
  BY <1>1, TickKeeps
<1>2. CASE CompleteTask
  BY <1>2, CompleteTaskKeeps
<1>3. ASSUME NEW w \in Worker,
             \/ TransitionRead(w) \/ TransitionWrite(w)
             \/ EvaluateRead(w) \/ EvaluateResolve(w) \/ EvaluateRefresh(w)
             \/ EvaluateInsert(w) \/ NotifySlack(w) \/ EvaluateCommit(w) \/ EvaluateCrash(w)
             \/ ApplyRead(w) \/ ApplyCount(w) \/ ApplyWrite(w)
             \/ OutcomeRead(w) \/ OutcomeWrite(w)
      PROVE  LifeInv'
  BY <1>3, TransitionReadKeeps, TransitionWriteKeeps, EvaluateReadKeeps, EvaluateResolveKeeps,
     EvaluateRefreshKeeps, EvaluateInsertKeeps, NotifySlackKeeps, EvaluateCommitKeeps,
     EvaluateCrashKeeps, ApplyReadKeeps, ApplyCountKeeps, ApplyWriteKeeps, OutcomeReadKeeps,
     OutcomeWriteKeeps
<1>4. CASE UNCHANGED vars
  BY <1>4 DEF vars, LifeInv, Committed, OneOpen, IndexHeld, HistoryEndsAtState,
              ProgressOnceAccepted, Accepted, OpenInsights
<1> QED
  BY <1>1, <1>2, <1>3, <1>4 DEF Next

LEMMA LifeInvariant == Spec => []LifeInv
  BY LifeInit, LifeStep, PTL DEF Spec

\* The rows of the handlers' reads and of the tables have their types.
THEOREM LifecycleTypes == Spec => []TypeOK
<1>1. LifeInv => TypeOK
  <2> SUFFICES ASSUME LifeInv PROVE TypeOK
    OBVIOUS
  <2>1. ASSUME NEW i \in Insight, NEW n \in DOMAIN history[i]
        PROVE  history[i][n] \in [from : States, to : States, by : {"user", "system"}]
    <3>1. PICK h \in Seq(TransitionRow) : h = history[i]
      BY DEF LifeInv, Committed
    <3>2. h[n] \in TransitionRow
      BY <2>1, <3>1
    <3> QED
      BY <3>1, <3>2 DEF TransitionRow
  <2>2. ASSUME NEW w \in Worker
        PROVE  \/ job[w] \in Job
               \/ /\ job[w].op = "outcome" /\ job[w].date \in Day
                  /\ job[w].row \in OutcomeRow
    <3>1. PICK j : j = job[w]
      OBVIOUS
    <3>2. Holds(j, insight, history)
      BY <3>1 DEF LifeInv
    <3>3. j = Idle => j \in Job
      BY DEF Idle, Job
    <3>4. j \in TransitionJob \/ j \in ApplyJob => j \in Job
      BY DEF TransitionJob, ApplyJob, Job
    <3>5. j \in EvaluateJob => j \in Job
      BY StatesAre DEF EvaluateJob, Job
    <3>6. j \in OutcomeJob => j.op = "outcome" /\ j.date \in Day /\ j.row \in OutcomeRow
      BY DEF OutcomeJob
    <3> QED
      BY <3>1, <3>2, <3>3, <3>4, <3>5, <3>6 DEF Holds, TransitionHolds, EvaluateHolds, ApplyHolds,
                                                OutcomeHolds
  <2>3. Committed
    BY DEF LifeInv
  <2> QED
    BY <2>1, <2>2, <2>3 DEF TypeOK, Committed, InsightRow, NoticeRow, Tasks
<1> QED
  BY <1>1, LifeInvariant, PTL

\* uq_insight_open_risk: whatever handlers race, an account never has two open
\* risk insights, not even when a stale write reopens a closed one.
THEOREM OneOpenInsight == Spec => []AtMostOneOpen
<1>1. LifeInv => AtMostOneOpen
  <2> SUFFICES ASSUME LifeInv PROVE Cardinality(OpenInsights) <= 1
    BY DEF AtMostOneOpen
  <2>1. CASE OpenInsights = {}
    BY <2>1, FS_EmptySet
  <2>2. CASE OpenInsights # {}
    <3>1. PICK i \in OpenInsights : OpenInsights = {i}
      BY <2>2 DEF LifeInv, OneOpen
    <3> QED
      BY <3>1, FS_Singleton
  <2> QED
    BY <2>1, <2>2
<1> QED
  BY <1>1, LifeInvariant, PTL

\* The last transition row of an insight leads to its state, whatever a stale
\* write has recorded in between.
THEOREM HistoryTellsState == Spec => []HistoryEndsAtState
  BY LifeInvariant, PTL DEF LifeInv

\* A playbook's tasks are on an insight somebody accepted, even when the
\* insight moved on between apply-playbook's read and its write.
THEOREM TasksNeedAcceptance == Spec => []TasksOnlyOnceAccepted
<1>1. LifeInv => TasksOnlyOnceAccepted
  BY DEF LifeInv, TasksAccepted, TasksOnlyOnceAccepted, Accepted
<1> QED
  BY <1>1, LifeInvariant, PTL

\* No message is sent about an insight whose notification row is committed.
THEOREM SilenceAfterNotice == Spec => SilentOnceRecorded
<1>1. ASSUME LifeInv, Next, NEW i \in Insight, notice[i] # NoNotice
      PROVE  posts'[i] = posts[i]
  <2>1. CASE \E w \in Worker : NotifySlack(w)
    <3>1. PICK w \in Worker : NotifySlack(w)
      BY <2>1
    <3>2. PICK k : k = job[w].insight
      OBVIOUS
    <3>3. notice[k].status = "none"
      BY <3>1, <3>2 DEF NotifySlack, MustNotify
    <3>4. notice[i] \in NoticeRow /\ posts \in [Insight -> Nat]
      BY <1>1 DEF LifeInv, Committed
    <3>5. notice[i].status # "none"
      BY <3>4 DEF NoticeRow
    <3>6. k # i
      BY <3>3, <3>5
    <3>7. PICK c : posts' = [posts EXCEPT ![k] = c]
      BY <3>1, <3>2 DEF NotifySlack
    <3> QED
      BY <3>4, <3>6, <3>7
  <2>2. CASE ~\E w \in Worker : NotifySlack(w)
    <3>1. UNCHANGED posts
      BY <1>1, <2>2 DEF Next, Tick, CompleteTask, TransitionRead, TransitionWrite, EvaluateRead,
         EvaluateResolve, EvaluateRefresh, EvaluateInsert, EvaluateCommit, EvaluateCrash,
          ApplyRead,
         ApplyCount, ApplyWrite, OutcomeRead, OutcomeWrite, Start, Fail
    <3> QED
      BY <3>1
  <2> QED
    BY <2>1, <2>2
<1>2. LifeInv /\ [Next]_vars =>
        [\A i \in Insight : notice[i] # NoNotice => posts'[i] = posts[i]]_vars
  BY <1>1
<1> QED
  BY <1>2, LifeInvariant, PTL DEF Spec, SilentOnceRecorded

-----------------------------------------------------------------------------
(* One handler at a time: what it has read of an insight's state stays so  *)
(* until it writes.                                                        *)

AsRead(j, ins) ==
  /\ j.op \in {"transition", "apply"} => ins[j.insight].state = j.from
  /\ j.op = "evaluate" /\ j.insight # NoInsight /\ ~j.fresh => ins[j.insight].state = j.from
  /\ j.op = "outcome" /\ j.row.insight # NoInsight => ins[j.row.insight].state = j.from

\* What a step does to the insights: nothing, ...
Rests == insight' = insight /\ history' = history

\* ... a move of insight i from the state it is in, along the diagram or to its
\* close, the machine's own only where no person has taken over, ...
Moves(i, to, by, outcome) ==
  /\ Exists(i, insight) /\ to \in States /\ by \in {"user", "system"}
  /\ outcome \in {"none", "risk_cleared"} \cup Outcome
  /\ SetState(i, insight[i].state, to, by, outcome)
  /\ \/ to \in TRANSITIONS[insight[i].state]
     \/ insight[i].state \in OpenState /\ to = "outcome_known"
  /\ by = "system" => insight[i].state \in {"detected", "triaged"}

\* ... or what evaluate leaves: a first row, or one in the same state, with the
\* outcome it had.
Composes(i, r) ==
  /\ i \in Insight /\ insight' = [insight EXCEPT ![i] = r] /\ history' = history
  /\ \/ insight[i] = Absent /\ OpenInsights = {} /\ r.state = "detected"
     \/ r.state = insight[i].state /\ r.outcome = insight[i].outcome

OneMove ==
  \/ Rests
  \/ \E i, to, by, outcome : Moves(i, to, by, outcome)
  \/ \E i, r : Composes(i, r)

\* A handler that has read something, or ended, has changed no insight.
LEMMA NowIdle ==
  ASSUME LifeInv, NEW w \in Worker, Done(w)
  PROVE  AsRead(job'[w], insight')
<1>1. job'[w] = Idle
  BY DEF LifeInv, Done
<1> QED
  BY <1>1 DEF AsRead, Idle

LEMMA NowReading ==
  ASSUME LifeInv, NEW w \in Worker, NEW J, job' = [job EXCEPT ![w] = J],
         AsRead(J, insight), UNCHANGED <<insight, history>>
  PROVE  AsRead(job'[w], insight') /\ OneMove
<1>1. job'[w] = J
  BY DEF LifeInv
<1> QED
  BY <1>1 DEF OneMove, Rests

LEMMA ReadsAreRead ==
  ASSUME LifeInv, NEW w \in Worker,
         TransitionRead(w) \/ EvaluateRead(w) \/ ApplyRead(w) \/ OutcomeRead(w)
  PROVE  AsRead(job'[w], insight') /\ OneMove
<1>1. CASE TransitionRead(w)
  <2>0. PICK i \in Insight :
          \E to \in TRANSITIONS[insight[i].state] :
            Start(w, [op |-> "transition", insight |-> i, from |-> insight[i].state, to |-> to])
    BY <1>1 DEF TransitionRead
  <2>1. PICK to :
          Start(w, [op |-> "transition", insight |-> i, from |-> insight[i].state, to |-> to])
    BY <2>0
  <2>2. PICK j : j = [op |-> "transition", insight |-> i, from |-> insight[i].state, to |-> to]
    OBVIOUS
  <2>3. AsRead(j, insight)
    BY <2>2 DEF AsRead
  <2> QED
    BY <2>1, <2>2, <2>3, NowReading DEF Start
<1>2. CASE EvaluateRead(w)
  <2>1. PICK risk \in BOOLEAN, s \in Severity :
          Start(w, [op |-> "evaluate", phase |-> "read", risk |-> risk,
                    severity |-> s, insight |-> OpenInsight,
                    from |-> StateOf(OpenInsight), fresh |-> FALSE, status |-> "none"])
    BY <1>2 DEF EvaluateRead
  <2>2. PICK i, from : i = OpenInsight /\ from = StateOf(OpenInsight)
    OBVIOUS
  <2>3. PICK j : j = [op |-> "evaluate", phase |-> "read", risk |-> risk,
                      severity |-> s, insight |-> i, from |-> from, fresh |-> FALSE,
                      status |-> "none"]
    OBVIOUS
  <2>4. AsRead(j, insight)
    BY <2>2, <2>3, OpenInsightIs DEF LifeInv, AsRead
  <2> QED
    BY <2>1, <2>2, <2>3, <2>4, NowReading DEF Start
<1>3. CASE ApplyRead(w)
  <2>1. PICK i \in Insight, p \in Playbook :
          Start(w, [op |-> "apply", phase |-> "read", insight |-> i,
                    from |-> insight[i].state, playbook |-> p])
    BY <1>3 DEF ApplyRead
  <2>2. PICK j : j = [op |-> "apply", phase |-> "read", insight |-> i,
                      from |-> insight[i].state, playbook |-> p]
    OBVIOUS
  <2>3. AsRead(j, insight)
    BY <2>2 DEF AsRead
  <2> QED
    BY <2>1, <2>2, <2>3, NowReading DEF Start
<1>4. CASE OutcomeRead(w)
  <2> DEFINE Row(date, o) ==
               [outcome |-> o, flagged |-> Flags(date) # {},
                lead |-> IF Flags(date) = {} THEN 0
                         ELSE date - EarliestDay({insight[i].created : i \in Flags(date)}),
                intervention |-> InterventionLevel, insight |-> OpenInsight]
  <2>1. PICK date, row :
          /\ Start(w, [op |-> "outcome", date |-> date, from |-> StateOf(OpenInsight),
                       row |-> row])
          /\ row.insight = OpenInsight
    <3>1. PICK date \in Day, o \in Outcome :
            Start(w, [op |-> "outcome", date |-> date, from |-> StateOf(OpenInsight),
                      row |-> Row(date, o)])
      BY <1>4 DEF OutcomeRead
    <3>2. Row(date, o).insight = OpenInsight
      OBVIOUS
    <3> HIDE DEF Row
    <3> QED
      BY <3>1, <3>2
  <2>2. PICK from : from = StateOf(OpenInsight)
    OBVIOUS
  <2>3. PICK j : j = [op |-> "outcome", date |-> date, from |-> from, row |-> row]
    OBVIOUS
  <2>4. AsRead(j, insight)
    BY <2>1, <2>2, <2>3, OpenInsightIs DEF LifeInv, AsRead
  <2> QED
    BY <2>1, <2>2, <2>3, <2>4, NowReading DEF Start
<1> QED
  BY <1>1, <1>2, <1>3, <1>4

\* A handler goes on, or raises, without having written.
LEMMA QuietStepsRest ==
  ASSUME LifeInv, NEW w \in Worker, AsRead(job[w], insight),
         \/ EvaluateRefresh(w) \/ EvaluateInsert(w) \/ NotifySlack(w) \/ EvaluateCrash(w)
         \/ ApplyCount(w)
  PROVE  AsRead(job'[w], insight') /\ OneMove
<1>1. UNCHANGED <<insight, history>>
  BY DEF EvaluateRefresh, EvaluateInsert, NotifySlack, EvaluateCrash, ApplyCount, Fail
<1>2. CASE Done(w)
  BY <1>1, <1>2, NowIdle DEF OneMove, Rests
<1>3. CASE ~Done(w)
  <2>1. PICK j : j = job[w]
    OBVIOUS
  <2>2. DOMAIN job = Worker
    BY DEF LifeInv
  <2>3. PICK status, i :
          \/ job' = [job EXCEPT ![w].phase = "written"] /\ j.op = "evaluate"
          \/ /\ job' = [job EXCEPT ![w].phase = "written", ![w].insight = i, ![w].fresh = TRUE]
             /\ j.op = "evaluate"
          \/ job' = [job EXCEPT ![w].status = status] /\ j.op = "evaluate"
          \/ job' = [job EXCEPT ![w].phase = "counted"] /\ j.op = "apply"
    BY <1>3, <2>1 DEF EvaluateRefresh, EvaluateInsert, NotifySlack, EvaluateCrash, ApplyCount,
                      Fail, Writing
  <2>4. CASE j.op = "evaluate"
    <3>1. j \in EvaluateJob
      BY <2>1, <2>4, JobIs DEF EvaluateHolds
    <3>2. PICK k : k = job'[w]
      OBVIOUS
    <3>3. /\ k.op = "evaluate"
          /\ k.fresh \/ (k.fresh = j.fresh /\ k.insight = j.insight /\ k.from = j.from)
      BY <2>1, <2>2, <2>3, <2>4, <3>1, <3>2 DEF EvaluateJob
    <3>4. AsRead(k, insight)
      BY <2>1, <2>4, <3>3 DEF AsRead
    <3> QED
      BY <1>1, <3>2, <3>4 DEF OneMove, Rests
  <2>5. CASE j.op = "apply"
    <3>1. j \in ApplyJob
      BY <2>1, <2>5, JobIs DEF ApplyHolds
    <3>2. PICK k : k = job'[w]
      OBVIOUS
    <3>3. k.op = "apply" /\ k.insight = j.insight /\ k.from = j.from
      BY <2>1, <2>2, <2>3, <2>5, <3>1, <3>2 DEF ApplyJob
    <3>4. AsRead(k, insight)
      BY <2>1, <2>5, <3>3 DEF AsRead
    <3> QED
      BY <1>1, <3>2, <3>4 DEF OneMove, Rests
  <2> QED
    BY <2>3, <2>4, <2>5
<1> QED
  BY <1>2, <1>3

\* The steps that write move an insight from the state it is in.
LEMMA WritesMove ==
  ASSUME LifeInv, NEW w \in Worker, AsRead(job[w], insight),
         TransitionWrite(w) \/ EvaluateResolve(w) \/ ApplyWrite(w) \/ OutcomeWrite(w)
  PROVE  AsRead(job'[w], insight') /\ OneMove
<1>1. Done(w)
  BY DEF TransitionWrite, EvaluateResolve, ApplyWrite, OutcomeWrite, Fail
<1>2. PICK j : j = job[w]
  OBVIOUS
<1>3. OneMove
  <2>1. CASE UNCHANGED <<insight, history>>
    BY <2>1 DEF OneMove, Rests
  <2>2. CASE TransitionWrite(w) /\ ~UNCHANGED <<insight, history>>
    <3>1. TransitionHolds(j, insight, history)
      BY <1>2, <2>2, JobIs DEF TransitionWrite
    <3>2. PICK i, to, outcome :
            i = j.insight /\ to = j.to /\ outcome = insight[j.insight].outcome
      OBVIOUS
    <3>3. insight[i].state = j.from
      BY <1>2, <2>2, <3>2 DEF AsRead, TransitionWrite
    <3>4. SetState(i, j.from, to, "user", outcome)
      BY <1>2, <2>2, <3>2 DEF TransitionWrite, Fail
    <3>5. SetState(i, insight[i].state, to, "user", outcome)
      BY <3>3, <3>4
    <3>6. Exists(i, insight) /\ to \in States /\ to \in TRANSITIONS[insight[i].state]
      BY <3>1, <3>2, <3>3 DEF TransitionHolds, TransitionJob
    <3>7. outcome \in {"none", "risk_cleared"} \cup Outcome
      BY <3>2, <3>6, InsightIs DEF LifeInv, InsightRow, Exists
    <3>8. Moves(i, to, "user", outcome)
      BY <3>5, <3>6, <3>7 DEF Moves
    <3> QED
      BY <3>8 DEF OneMove
  <2>3. CASE EvaluateResolve(w)
    <3>1. EvaluateHolds(j, insight) /\ ~j.risk
      BY <1>2, <2>3, JobIs DEF EvaluateResolve
    <3>2. PICK i : i = j.insight
      OBVIOUS
    <3>3. j.insight # NoInsight /\ ~j.fresh /\ j.from \in {"detected", "triaged"}
      BY <3>1 DEF EvaluateHolds
    <3>4. insight[i].state = j.from /\ Exists(i, insight)
      BY <1>2, <2>3, <3>1, <3>2, <3>3 DEF AsRead, EvaluateResolve, EvaluateHolds
    <3>5. SetState(i, j.from, "outcome_known", "system", "risk_cleared")
      BY <1>2, <2>3, <3>2 DEF EvaluateResolve
    <3>6. SetState(i, insight[i].state, "outcome_known", "system", "risk_cleared")
      BY <3>4, <3>5
    <3>7. insight[i].state \in OpenState
      BY <3>3, <3>4 DEF OpenState
    <3>8. Moves(i, "outcome_known", "system", "risk_cleared")
      BY <3>3, <3>4, <3>6, <3>7, StatesAre DEF Moves
    <3> QED
      BY <3>8 DEF OneMove
  <2>4. CASE ApplyWrite(w) /\ ~UNCHANGED <<insight, history>>
    <3>1. ApplyHolds(j, insight, history)
      BY <1>2, <2>4, JobIs DEF ApplyWrite
    <3>2. PICK i, outcome : i = j.insight /\ outcome = insight[j.insight].outcome
      OBVIOUS
    <3>3. SetState(i, "accepted", "in_progress", "user", outcome) /\ j.from = "accepted"
      BY <1>2, <2>4, <3>2 DEF ApplyWrite, Fail
    <3>4. insight[i].state = "accepted" /\ Exists(i, insight)
      BY <1>2, <2>4, <3>1, <3>2, <3>3 DEF AsRead, ApplyWrite, ApplyHolds
    <3>5. SetState(i, insight[i].state, "in_progress", "user", outcome)
      BY <3>3, <3>4
    <3>6. outcome \in {"none", "risk_cleared"} \cup Outcome
      BY <3>2, <3>4, InsightIs DEF LifeInv, InsightRow, Exists
    <3>7. "in_progress" \in TRANSITIONS["accepted"] /\ "in_progress" \in States
      BY DEF TRANSITIONS, OpenState, ClosedState, States
    <3>8. Moves(i, "in_progress", "user", outcome)
      BY <3>4, <3>5, <3>6, <3>7 DEF Moves
    <3> QED
      BY <3>8 DEF OneMove
  <2>5. CASE OutcomeWrite(w) /\ ~UNCHANGED <<insight, history>>
    <3>1. OutcomeHolds(j, insight)
      BY <1>2, <2>5, JobIs DEF OutcomeWrite
    <3>2. PICK i, outcome : i = j.row.insight /\ outcome = j.row.outcome
      OBVIOUS
    <3>3. SetState(i, j.from, "outcome_known", "user", outcome) /\ i # NoInsight
      BY <1>2, <2>5, <3>2 DEF OutcomeWrite, Fail
    <3>4. insight[i].state = j.from
      BY <1>2, <2>5, <3>2, <3>3 DEF AsRead, OutcomeWrite
    <3>5. SetState(i, insight[i].state, "outcome_known", "user", outcome)
      BY <3>3, <3>4
    <3>6. Exists(i, insight) /\ insight[i].state \in OpenState /\ outcome \in Outcome
      BY <3>1, <3>2, <3>3, <3>4 DEF OutcomeHolds, OutcomeJob, OutcomeRow
    <3>7. Moves(i, "outcome_known", "user", outcome)
      BY <3>5, <3>6, StatesAre DEF Moves
    <3> QED
      BY <3>7 DEF OneMove
  <2> QED
    BY <2>1, <2>2, <2>3, <2>4, <2>5
<1> QED
  BY <1>1, <1>3, NowIdle

LEMMA CommitComposes ==
  ASSUME LifeInv, NEW w \in Worker, EvaluateCommit(w)
  PROVE  AsRead(job'[w], insight') /\ OneMove
<1>1. PICK j : j = job[w]
  OBVIOUS
<1>2. EvaluateHolds(j, insight) /\ j.op = "evaluate" /\ j.phase = "written"
  BY <1>1, JobIs DEF EvaluateCommit, Writing
<1>3. PICK i \in Insight : i = j.insight
  BY <1>2 DEF EvaluateHolds, EvaluateJob
<1>4. PICK r : r = Composed(w)
  OBVIOUS
<1>5. /\ Done(w) /\ history' = history /\ insight' = [insight EXCEPT ![i] = r]
  BY <1>1, <1>3, <1>4 DEF EvaluateCommit
<1>6. CASE j.fresh
  <2>1. insight[i] = Absent /\ OpenInsights = {}
    BY <1>1, <1>2, <1>3, <1>6 DEF LifeInv, IndexHeld, Inserted, EvaluateHolds
  <2>2. r.state = "detected"
    BY <1>1, <1>4, <1>6 DEF Composed
  <2>3. Composes(i, r)
    BY <1>5, <2>1, <2>2 DEF Composes
  <2> QED
    BY <1>5, <2>3, NowIdle DEF OneMove
<1>7. CASE ~j.fresh
  <2>1. insight[i] \in InsightRow
    <3>1. insight[i] # Absent
      BY <1>2, <1>3, <1>7, NumbersAre DEF EvaluateHolds, Exists
    <3> QED
      BY <3>1, InsightIs DEF LifeInv
  <2>2. r = [insight[i] EXCEPT !.severity = j.severity]
    BY <1>1, <1>3, <1>4, <1>7 DEF Composed
  <2>3. r.state = insight[i].state /\ r.outcome = insight[i].outcome
    BY <2>1, <2>2 DEF InsightRow
  <2>4. Composes(i, r)
    BY <1>5, <2>3 DEF Composes
  <2> QED
    BY <1>5, <2>4, NowIdle DEF OneMove
<1> QED
  BY <1>6, <1>7

\* With the one handler w.
SerialInv(w) == LifeInv /\ AsRead(job[w], insight) /\ HistoryIsChain

LEMMA SerialMoves ==
  ASSUME NEW w, Worker = {w}, LifeInv, AsRead(job[w], insight), [Next]_vars
  PROVE  AsRead(job'[w], insight') /\ OneMove
<1>1. CASE Tick \/ CompleteTask \/ UNCHANGED vars
  BY <1>1 DEF Tick, CompleteTask, vars, OneMove, Rests
<1>2. CASE \/ TransitionRead(w) \/ TransitionWrite(w)
           \/ EvaluateRead(w) \/ EvaluateResolve(w) \/ EvaluateRefresh(w)
           \/ EvaluateInsert(w) \/ NotifySlack(w) \/ EvaluateCommit(w) \/ EvaluateCrash(w)
           \/ ApplyRead(w) \/ ApplyCount(w) \/ ApplyWrite(w)
           \/ OutcomeRead(w) \/ OutcomeWrite(w)
  BY <1>2, ReadsAreRead, QuietStepsRest, WritesMove, CommitComposes
<1> QED
  BY <1>1, <1>2 DEF Next

\* A recorded move starts where the last one ended.
LEMMA ChainGrows ==
  ASSUME LifeInv, HistoryIsChain, OneMove
  PROVE  HistoryIsChain'
<1>1. CASE history' = history
  BY <1>1 DEF HistoryIsChain
<1>2. ASSUME NEW i, NEW to, NEW by, NEW outcome, Moves(i, to, by, outcome)
      PROVE  HistoryIsChain'
  <2>1. PICK from : from = insight[i].state
    OBVIOUS
  <2>2. Exists(i, insight) /\ from \in States
    BY <1>2, <2>1, InsightIs DEF Moves, LifeInv, Exists
  <2>3. PICK h \in Seq(TransitionRow) : h = history[i]
    BY <2>2 DEF LifeInv, Committed, Exists
  <2>4. PICK t \in TransitionRow : t = Transition(from, to, by)
    BY <1>2, <2>2 DEF Moves, Transition, TransitionRow
  <2>5. PICK g : g = Append(h, t)
    OBVIOUS
  <2>6. /\ history'[i] = g
        /\ \A k \in Insight \ {i} : history'[k] = history[k]
    <3>1. SetState(i, from, to, by, outcome)
      BY <1>2, <2>1 DEF Moves
    <3> QED
      BY <1>2, <2>2, <2>3, <2>4, <2>5, <3>1, SetStateIs DEF LifeInv, Moves
  <2>7. t.from = IF h = <<>> THEN "detected" ELSE h[Len(h)].to
    <3>1. IF h = <<>> THEN insight[i].state \in {"absent", "detected"}
          ELSE h[Len(h)].to = insight[i].state
      BY <2>2, <2>3 DEF LifeInv, HistoryEndsAtState, Exists
    <3>2. t.from = insight[i].state /\ insight[i].state # "absent"
      BY <2>1, <2>2, <2>4, StatesAre DEF Transition
    <3> QED
      BY <3>1, <3>2
  <2>8. \A n \in DOMAIN h : h[n].from = IF n = 1 THEN "detected" ELSE h[n - 1].to
    BY <2>2, <2>3 DEF HistoryIsChain, Exists
  <2>9. ASSUME NEW n \in DOMAIN g
        PROVE  g[n].from = IF n = 1 THEN "detected" ELSE g[n - 1].to
    <3>1. CASE n \in DOMAIN h
      <4>1. g[n] = h[n] /\ n \in Nat \ {0} /\ (n # 1 => n - 1 \in DOMAIN h /\ g[n - 1] = h[n - 1])
        BY <2>3, <2>4, <2>5, <3>1
      <4> QED
        BY <2>8, <3>1, <4>1
    <3>2. CASE n \notin DOMAIN h
      <4>1. n = Len(h) + 1 /\ g[n] = t
        BY <2>3, <2>4, <2>5, <2>9, <3>2
      <4>2. h # <<>> => n # 1 /\ n - 1 = Len(h) /\ g[n - 1] = h[Len(h)]
        BY <2>3, <2>4, <2>5, <4>1
      <4>3. h = <<>> => n = 1
        BY <4>1
      <4> QED
        BY <2>7, <4>1, <4>2, <4>3
    <3> QED
      BY <3>1, <3>2
  <2> SUFFICES ASSUME NEW k \in Insight, NEW n \in DOMAIN history'[k]
               PROVE  history'[k][n].from = IF n = 1 THEN "detected" ELSE history'[k][n - 1].to
    BY DEF HistoryIsChain
  <2>10. CASE k = i
    BY <2>6, <2>9, <2>10
  <2>11. CASE k # i
    BY <2>6, <2>11 DEF HistoryIsChain
  <2> QED
    BY <2>10, <2>11
<1> QED
  BY <1>1, <1>2 DEF OneMove, Rests, Composes

\* SerialInv holds at first, and every step keeps it.
LEMMA SerialInit ==
  ASSUME NEW w, Worker = {w}
  PROVE  Init => SerialInv(w)
<1> SUFFICES ASSUME Init PROVE AsRead(job[w], insight) /\ HistoryIsChain
  BY LifeInit DEF SerialInv
<1>1. job[w] = Idle /\ \A i \in Insight : history[i] = <<>>
  BY DEF Init
<1> QED
  BY <1>1 DEF AsRead, Idle, HistoryIsChain

LEMMA SerialStep ==
  ASSUME NEW w, Worker = {w}
  PROVE  SerialInv(w) /\ [Next]_vars => SerialInv(w)'
BY LifeStep, SerialMoves, ChainGrows DEF SerialInv

LEMMA SerialInvariant ==
  ASSUME NEW w, Worker = {w}
  PROVE  Spec => []SerialInv(w)
BY SerialInit, SerialStep, PTL DEF Spec

\* One handler at a time, the transition rows of an insight form a path that
\* starts at detected.
THEOREM SerialHistory ==
  ASSUME NEW w, Worker = {w}
  PROVE  Spec => []HistoryIsChain
<1>1. SerialInv(w) => HistoryIsChain
  BY DEF SerialInv
<1> QED
  BY <1>1, SerialInvariant, PTL

\* One handler at a time, an evaluation never closes an insight that a person
\* has taken over.
THEOREM SerialOwnership ==
  ASSUME NEW w, Worker = {w}
  PROVE  Spec => MachineLeavesOwnedAlone
<1>1. ASSUME LifeInv, OneMove, NEW k \in Insight,
             insight[k].state \in HumanOwned, insight'[k].state # insight[k].state
      PROVE  history'[k][Len(history'[k])].by = "user"
  <2>1. insight \in [Insight -> {Absent} \cup InsightRow]
    BY <1>1 DEF LifeInv, Committed
  <2>2. "absent" \notin HumanOwned
    BY DEF HumanOwned, OpenState
  <2>3. ~Rests
    BY <1>1 DEF Rests
  <2>4. ASSUME NEW i, NEW r, Composes(i, r) PROVE FALSE
    BY <1>1, <2>1, <2>2, <2>4 DEF Composes, Absent
  <2>5. PICK i, to, by, outcome : Moves(i, to, by, outcome)
    BY <1>1, <2>3, <2>4 DEF OneMove
  <2>6. PICK from : from = insight[i].state
    OBVIOUS
  <2>7. Exists(i, insight) /\ from \in States
    BY <2>5, <2>6, <1>1, InsightIs DEF Moves, LifeInv, Exists
  <2>8. SetState(i, from, to, by, outcome)
    BY <2>5, <2>6 DEF Moves
  <2>9. PICK t \in TransitionRow : t = Transition(from, to, by)
    BY <2>5, <2>7 DEF Moves, Transition, TransitionRow
  <2>10. /\ history'[i] = Append(history[i], t)
         /\ \A l \in Insight \ {i} : insight'[l] = insight[l]
    BY <1>1, <2>5, <2>7, <2>8, <2>9, SetStateIs DEF LifeInv, Moves
  <2>11. k = i
    BY <1>1, <2>10
  <2>12. by = "user"
    BY <1>1, <2>5, <2>11 DEF Moves, HumanOwned
  <2>13. PICK h \in Seq(TransitionRow) : h = history[i]
    BY <1>1, <2>7 DEF LifeInv, Committed, Exists
  <2>14. PICK g : g = Append(h, t)
    OBVIOUS
  <2>15. g[Len(g)] = t
    BY <2>14, Appended
  <2> QED
    BY <2>9, <2>10, <2>11, <2>12, <2>13, <2>14, <2>15 DEF Transition
<1>2. SerialInv(w) /\ [Next]_vars =>
        [\A i \in Insight :
           insight[i].state \in HumanOwned /\ insight'[i].state # insight[i].state
             => history'[i][Len(history'[i])].by = "user"]_vars
  BY <1>1, SerialMoves DEF SerialInv
<1> QED
  BY <1>2, SerialInvariant, PTL DEF Spec, MachineLeavesOwnedAlone

-----------------------------------------------------------------------------
(* One handler at a time, the insights keep the documented lifecycle.      *)

LEMMA PromiseStates ==
  /\ Promise!OpenState = OpenState /\ Promise!TRANSITIONS = TRANSITIONS
  BY DEF Promise!OpenState, Promise!ClosedState, OpenState, ClosedState, Promise!TRANSITIONS,
         TRANSITIONS

\* The promise's steps, from states old to states new of the insights.
Permitted(old, new) ==
  \/ new = old
  \/ \E i \in Insight :
       \/ /\ old[i] = "absent" /\ \A j \in Insight : old[j] \notin OpenState
          /\ new = [old EXCEPT ![i] = "detected"]
       \/ /\ old[i] # "absent"
          /\ \E to \in TRANSITIONS[old[i]] : new = [old EXCEPT ![i] = to]
       \/ /\ old[i] \in OpenState
          /\ new = [old EXCEPT ![i] = "outcome_known"]

LEMMA MoveKeepsPromise ==
  ASSUME LifeInv, OneMove, NEW old, NEW new,
         old = [i \in Insight |-> insight[i].state],
         new = [i \in Insight |-> insight'[i].state]
  PROVE  Permitted(old, new)
<1>1. CASE Rests
  BY <1>1 DEF Rests, Permitted
<1>2. ASSUME NEW i, NEW to, NEW by, NEW outcome, Moves(i, to, by, outcome)
      PROVE  /\ i \in Insight /\ old[i] # "absent" /\ new = [old EXCEPT ![i] = to]
             /\ \/ to \in TRANSITIONS[old[i]]
                \/ old[i] \in OpenState /\ to = "outcome_known"
  <2>1. PICK from : from = insight[i].state
    OBVIOUS
  <2>2. Exists(i, insight) /\ from \in States
    BY <1>2, <2>1, InsightIs DEF Moves, LifeInv, Exists
  <2>3. SetState(i, from, to, by, outcome)
    BY <1>2, <2>1 DEF Moves
  <2>4. /\ insight'[i].state = to
        /\ \A k \in Insight \ {i} : insight'[k] = insight[k]
    BY <1>2, <2>2, <2>3, SetStateIs DEF LifeInv, Moves
  <2>5. i \in Insight /\ old[i] = from
    BY <2>1, <2>2 DEF Exists
  <2>6. new = [old EXCEPT ![i] = to]
    BY <2>4, <2>5
  <2> QED
    BY <1>2, <2>1, <2>2, <2>5, <2>6, StatesAre DEF Moves
<1>3. ASSUME NEW i, NEW r, Composes(i, r)
      PROVE  \/ new = old
             \/ /\ i \in Insight /\ old[i] = "absent"
                /\ \A j \in Insight : old[j] \notin OpenState
                /\ new = [old EXCEPT ![i] = "detected"]
  <2>1. i \in Insight /\ insight' = [insight EXCEPT ![i] = r]
    BY <1>3 DEF Composes
  <2>2. DOMAIN insight = Insight
    BY DEF LifeInv, Committed
  <2>3. insight'[i] = r /\ \A k \in Insight \ {i} : insight'[k] = insight[k]
    BY <2>1, <2>2
  <2>4. CASE r.state = insight[i].state
    BY <2>3, <2>4
  <2>5. CASE insight[i] = Absent /\ OpenInsights = {} /\ r.state = "detected"
    <3>1. new = [old EXCEPT ![i] = "detected"]
      BY <2>1, <2>3, <2>5
    <3> QED
      BY <2>1, <2>5, <3>1 DEF OpenInsights, Absent
  <2> QED
    BY <1>3, <2>4, <2>5 DEF Composes
<1>4. CASE \E i, to, by, outcome : Moves(i, to, by, outcome)
  <2>1. PICK i, to, by, outcome : Moves(i, to, by, outcome)
    BY <1>4
  <2>2. /\ i \in Insight /\ old[i] # "absent" /\ new = [old EXCEPT ![i] = to]
        /\ \/ to \in TRANSITIONS[old[i]]
           \/ old[i] \in OpenState /\ to = "outcome_known"
    BY <1>2, <2>1
  <2> QED
    BY <2>2 DEF Permitted
<1>5. CASE \E i, r : Composes(i, r)
  <2>1. PICK i, r : Composes(i, r)
    BY <1>5
  <2> QED
    BY <1>3, <2>1 DEF Permitted
<1> QED
  BY <1>1, <1>4, <1>5 DEF OneMove

\* One handler at a time, the module implements LifecyclePromise: insights move
\* along the diagram or are closed, at most one is open, and outcome_known is
\* final.
THEOREM SerialLifecycle ==
  ASSUME NEW w, Worker = {w}
  PROVE  Spec => KeepsLifecycle
<1>1. Init => Promise!Init
  BY DEF Init, Promise!Init, Absent
<1>2. SerialInv(w) /\ [Next]_vars => [Promise!Next]_([i \in Insight |-> insight[i].state])
  <2> SUFFICES ASSUME SerialInv(w), [Next]_vars
               PROVE  \/ Promise!Next
                      \/ UNCHANGED [i \in Insight |-> insight[i].state]
    OBVIOUS
  <2>1. LifeInv /\ OneMove
    BY SerialMoves DEF SerialInv
  <2>2. PICK old, new : /\ old = [i \in Insight |-> insight[i].state]
                        /\ new = [i \in Insight |-> insight'[i].state]
    OBVIOUS
  <2>3. CASE new = old
    BY <2>2, <2>3
  <2>4. ASSUME NEW i \in Insight, old[i] = "absent",
               \A j \in Insight : old[j] \notin OpenState, new = [old EXCEPT ![i] = "detected"]
        PROVE  Promise!Detect(i)
    BY <2>2, <2>4, PromiseStates DEF Promise!Detect
  <2>5. ASSUME NEW i \in Insight, old[i] # "absent", NEW to \in TRANSITIONS[old[i]],
               new = [old EXCEPT ![i] = to]
        PROVE  Promise!Advance(i)
    BY <2>2, <2>5, PromiseStates DEF Promise!Advance
  <2>6. ASSUME NEW i \in Insight, old[i] \in OpenState,
               new = [old EXCEPT ![i] = "outcome_known"]
        PROVE  Promise!Close(i)
    BY <2>2, <2>6, PromiseStates DEF Promise!Close
  <2>7. CASE new # old
    <3>1. PICK i \in Insight :
            \/ /\ old[i] = "absent" /\ \A j \in Insight : old[j] \notin OpenState
               /\ new = [old EXCEPT ![i] = "detected"]
            \/ /\ old[i] # "absent"
               /\ \E to \in TRANSITIONS[old[i]] : new = [old EXCEPT ![i] = to]
            \/ /\ old[i] \in OpenState
               /\ new = [old EXCEPT ![i] = "outcome_known"]
      <4>1. Permitted(old, new)
        BY <2>1, <2>2, MoveKeepsPromise
      <4> QED
        BY <2>7, <4>1 DEF Permitted
    <3>2. Promise!Detect(i) \/ Promise!Advance(i) \/ Promise!Close(i)
      BY <3>1, <2>4, <2>5, <2>6
    <3> QED
      BY <3>2 DEF Promise!Next
  <2> QED
    BY <2>3, <2>7
<1> QED
  BY <1>1, <1>2, SerialInvariant, PTL DEF Spec, KeepsLifecycle, Promise!Spec

-----------------------------------------------------------------------------
(* One handler at a time: outcomes and playbooks.                          *)

\* An insight that is closed by an outcome stays as it is.
LEMMA ClosedStays ==
  ASSUME LifeInv, OneMove, NEW k \in Insight, insight[k].state = "outcome_known"
  PROVE  /\ insight'[k].state = "outcome_known"
         /\ insight'[k].outcome = insight[k].outcome
<1>1. TRANSITIONS["outcome_known"] = {}
  BY DEF TRANSITIONS, OpenState, ClosedState
<1>2. CASE Rests
  BY <1>2 DEF Rests
<1>3. ASSUME NEW i, NEW to, NEW by, NEW outcome, Moves(i, to, by, outcome)
      PROVE  insight'[k] = insight[k]
  <2>1. PICK from : from = insight[i].state
    OBVIOUS
  <2>2. Exists(i, insight) /\ from \in States
    BY <1>3, <2>1, InsightIs DEF Moves, LifeInv, Exists
  <2>3. SetState(i, from, to, by, outcome)
    BY <1>3, <2>1 DEF Moves
  <2>4. \A j \in Insight \ {i} : insight'[j] = insight[j]
    BY <1>3, <2>2, <2>3, SetStateIs DEF LifeInv, Moves
  <2>5. from # "outcome_known"
    BY <1>1, <1>3, <2>1, StatesAre DEF Moves
  <2> QED
    BY <2>1, <2>4, <2>5
<1>4. ASSUME NEW i, NEW r, Composes(i, r)
      PROVE  /\ insight'[k].state = "outcome_known"
             /\ insight'[k].outcome = insight[k].outcome
  <2>1. i \in Insight /\ insight'[i] = r /\ \A j \in Insight \ {i} : insight'[j] = insight[j]
    <3>1. DOMAIN insight = Insight
      BY DEF LifeInv, Committed
    <3> QED
      BY <1>4, <3>1 DEF Composes
  <2>2. k = i => insight[i] # Absent
    BY DEF Absent
  <2> QED
    BY <1>4, <2>1, <2>2 DEF Composes
<1> QED
  BY <1>2, <1>3, <1>4 DEF OneMove

\* The row of an outcome and the insight it closes are written together.
LEMMA OutcomeCloses ==
  ASSUME LifeInv, NEW w \in Worker, AsRead(job[w], insight), OutcomeWrite(w),
         NEW d \in Day, outcomes'[d] # outcomes[d], outcomes'[d].insight # NoInsight
  PROVE  /\ outcomes'[d].insight \in Insight
         /\ insight'[outcomes'[d].insight].state = "outcome_known"
         /\ insight'[outcomes'[d].insight].outcome = outcomes'[d].outcome
<1>1. PICK j : j = job[w]
  OBVIOUS
<1>2. OutcomeHolds(j, insight) /\ j.op = "outcome"
  BY <1>1, JobIs DEF OutcomeWrite
<1>3. PICK i, o : i = j.row.insight /\ o = j.row.outcome
  OBVIOUS
<1>4. /\ outcomes' = [outcomes EXCEPT ![j.date] = j.row]
      /\ i # NoInsight => SetState(i, j.from, "outcome_known", "user", o)
  BY <1>1, <1>3 DEF OutcomeWrite, Fail
<1>5. d = j.date /\ outcomes'[d] = j.row
  <2>1. DOMAIN outcomes = Day
    BY DEF LifeInv, Committed
  <2> QED
    BY <1>4, <2>1
<1>6. i # NoInsight
  BY <1>3, <1>5
<1>7. Exists(i, insight) /\ j.from \in States /\ o \in Outcome
  BY <1>2, <1>3, <1>6, StatesAre DEF OutcomeHolds, OutcomeJob, OutcomeRow
<1>8. insight' = [insight EXCEPT ![i].state = "outcome_known", ![i].outcome = o]
  BY <1>4, <1>6 DEF SetState
<1>9. insight[i] \in InsightRow /\ i \in Insight /\ DOMAIN insight = Insight
  BY <1>7, InsightIs DEF LifeInv, Committed, Exists
<1>10. insight'[i].state = "outcome_known" /\ insight'[i].outcome = o
  BY <1>8, <1>9 DEF InsightRow
<1> QED
  BY <1>3, <1>5, <1>9, <1>10

\* One handler at a time, the insight that an outcome names is closed with that
\* outcome, and stays so.
THEOREM SerialOutcomes ==
  ASSUME NEW w, Worker = {w}
  PROVE  Spec => []OutcomeClosesInsight
<1> DEFINE I == SerialInv(w) /\ OutcomeClosesInsight
<1>1. Init => I
  <2>1. Init => SerialInv(w)
    BY SerialInit
  <2>2. Init => OutcomeClosesInsight
    BY DEF Init, OutcomeClosesInsight, NoOutcome
  <2> QED
    BY <2>1, <2>2
<1>2. I /\ [Next]_vars => I'
  <2> SUFFICES ASSUME SerialInv(w), OutcomeClosesInsight, [Next]_vars
               PROVE  OutcomeClosesInsight'
    BY SerialStep
  <2>1. LifeInv /\ AsRead(job[w], insight) /\ OneMove
    BY SerialMoves DEF SerialInv
  <2> SUFFICES ASSUME NEW d \in Day, outcomes'[d].insight # NoInsight
               PROVE  /\ insight'[outcomes'[d].insight].state = "outcome_known"
                      /\ insight'[outcomes'[d].insight].outcome = outcomes'[d].outcome
    BY DEF OutcomeClosesInsight
  <2>2. CASE outcomes'[d] = outcomes[d]
    <3>1. PICK k : k = outcomes[d].insight
      OBVIOUS
    <3>2. k \in Insight
      <4>1. outcomes[d] \in {NoOutcome} \cup OutcomeRow
        BY <2>1 DEF LifeInv, Committed
      <4> QED
        BY <2>2, <3>1, <4>1 DEF NoOutcome, OutcomeRow
    <3>3. insight[k].state = "outcome_known" /\ insight[k].outcome = outcomes[d].outcome
      BY <2>2, <3>1 DEF OutcomeClosesInsight
    <3> QED
      BY <2>1, <2>2, <3>1, <3>2, <3>3, ClosedStays
  <2>3. CASE outcomes'[d] # outcomes[d]
    <3>1. OutcomeWrite(w)
      BY <2>3 DEF Next, vars, Tick, CompleteTask, TransitionRead, TransitionWrite, EvaluateRead,
                  EvaluateResolve, EvaluateRefresh, EvaluateInsert, NotifySlack, EvaluateCommit,
                  EvaluateCrash, ApplyRead, ApplyCount, ApplyWrite, OutcomeRead, Start, Fail
    <3> QED
      BY <2>1, <2>3, <3>1, OutcomeCloses
  <2> QED
    BY <2>2, <2>3
<1>3. I => OutcomeClosesInsight
  OBVIOUS
<1> QED
  BY <1>1, <1>2, <1>3, PTL DEF Spec

\* A playbook that was counted as not applied has no tasks yet.
Unapplied(j) == j.op = "apply" /\ j.phase = "counted" => ~AlreadyApplied(j.insight, j.playbook)

\* Of the steps that leave the tasks alone, only the count leads to an
\* application.
LEMMA TasksRest ==
  ASSUME LifeInv, NEW w \in Worker, Unapplied(job[w]), task' = task,
         \/ TransitionRead(w) \/ TransitionWrite(w)
         \/ EvaluateRead(w) \/ EvaluateResolve(w) \/ EvaluateRefresh(w)
         \/ EvaluateInsert(w) \/ NotifySlack(w) \/ EvaluateCommit(w) \/ EvaluateCrash(w)
         \/ ApplyRead(w) \/ ApplyCount(w) \/ ApplyWrite(w)
         \/ OutcomeRead(w) \/ OutcomeWrite(w)
  PROVE  Unapplied(job[w])'
<1>1. PICK j : j = job[w]
  OBVIOUS
<1>2. DOMAIN job = Worker
  BY DEF LifeInv
<1>3. CASE Done(w)
  BY <1>2, <1>3 DEF Done, Unapplied, Idle
<1>4. ASSUME NEW J, job' = [job EXCEPT ![w] = J], J.op # "apply" \/ J.phase = "read"
      PROVE  Unapplied(job[w])'
  <2>1. job'[w] = J
    BY <1>2, <1>4
  <2> QED
    BY <1>4, <2>1 DEF Unapplied
<1>5. CASE TransitionRead(w) \/ EvaluateRead(w) \/ ApplyRead(w) \/ OutcomeRead(w)
  <2>1. PICK J : Start(w, J) /\ (J.op # "apply" \/ J.phase = "read")
    <3>1. CASE TransitionRead(w)
      <4>1. PICK i, to :
              Start(w, [op |-> "transition", insight |-> i, from |-> insight[i].state, to |-> to])
        BY <3>1 DEF TransitionRead
      <4>2. [op |-> "transition", insight |-> i, from |-> insight[i].state, to |-> to].op # "apply"
        OBVIOUS
      <4> QED
        BY <4>1, <4>2
    <3>2. CASE EvaluateRead(w)
      <4>1. PICK risk, s :
              Start(w, [op |-> "evaluate", phase |-> "read", risk |-> risk,
                        severity |-> s, insight |-> OpenInsight,
                        from |-> StateOf(OpenInsight), fresh |-> FALSE, status |-> "none"])
        BY <3>2 DEF EvaluateRead
      <4>2. PICK J : J = [op |-> "evaluate", phase |-> "read", risk |-> risk,
                          severity |-> s, insight |-> OpenInsight,
                          from |-> StateOf(OpenInsight), fresh |-> FALSE, status |-> "none"]
        OBVIOUS
      <4>3. J.phase = "read"
        BY <4>2
      <4> QED
        BY <4>1, <4>2, <4>3
    <3>3. CASE ApplyRead(w)
      <4>1. PICK i, p :
              Start(w, [op |-> "apply", phase |-> "read", insight |-> i,
                        from |-> insight[i].state, playbook |-> p])
        BY <3>3 DEF ApplyRead
      <4>2. PICK J : J = [op |-> "apply", phase |-> "read", insight |-> i,
                          from |-> insight[i].state, playbook |-> p]
        OBVIOUS
      <4>3. J.phase = "read"
        BY <4>2
      <4> QED
        BY <4>1, <4>2, <4>3
    <3>4. CASE OutcomeRead(w)
      <4> DEFINE Row(date, o) ==
                   [outcome |-> o, flagged |-> Flags(date) # {},
                    lead |-> IF Flags(date) = {} THEN 0
                             ELSE date - EarliestDay({insight[i].created : i \in Flags(date)}),
                    intervention |-> InterventionLevel, insight |-> OpenInsight]
      <4>1. PICK date \in Day, o \in Outcome :
              Start(w, [op |-> "outcome", date |-> date, from |-> StateOf(OpenInsight),
                        row |-> Row(date, o)])
        BY <3>4 DEF OutcomeRead
      <4> HIDE DEF Row
      <4>2. PICK J : J = [op |-> "outcome", date |-> date, from |-> StateOf(OpenInsight),
                          row |-> Row(date, o)]
        OBVIOUS
      <4>3. J.op # "apply"
        BY <4>2
      <4> QED
        BY <4>1, <4>2, <4>3
    <3> QED
      BY <1>5, <3>1, <3>2, <3>3, <3>4
  <2> QED
    BY <1>4, <2>1 DEF Start
<1>6. CASE ~Done(w) /\ (EvaluateRefresh(w) \/ EvaluateInsert(w) \/ NotifySlack(w))
  <2>1. PICK status, i :
          \/ job' = [job EXCEPT ![w].phase = "written"]
          \/ job' = [job EXCEPT ![w].phase = "written", ![w].insight = i, ![w].fresh = TRUE]
          \/ job' = [job EXCEPT ![w].status = status]
    BY <1>6 DEF EvaluateRefresh, EvaluateInsert, NotifySlack, Fail
  <2>2. j.op = "evaluate"
    BY <1>1, <1>6 DEF EvaluateRefresh, EvaluateInsert, NotifySlack, Writing
  <2>3. j \in EvaluateJob
    BY <1>1, <2>2, JobIs DEF EvaluateHolds
  <2>4. job'[w].op = "evaluate"
    BY <1>1, <1>2, <2>1, <2>2, <2>3 DEF EvaluateJob
  <2> QED
    BY <2>4 DEF Unapplied
<1>7. CASE ~Done(w) /\ ApplyCount(w)
  <2>1. ~AlreadyApplied(j.insight, j.playbook) /\ job' = [job EXCEPT ![w].phase = "counted"]
    BY <1>1, <1>7 DEF ApplyCount, Fail
  <2>2. j \in ApplyJob
    BY <1>1, <1>7, JobIs DEF ApplyHolds, ApplyCount
  <2>3. job'[w].insight = j.insight /\ job'[w].playbook = j.playbook
    BY <1>1, <1>2, <2>1, <2>2 DEF ApplyJob
  <2> QED
    BY <2>1, <2>3 DEF Unapplied, AlreadyApplied
<1> QED
  BY <1>3, <1>5, <1>6, <1>7 DEF TransitionWrite, EvaluateResolve, EvaluateCommit, EvaluateCrash,
                               ApplyWrite, OutcomeWrite, Fail

\* An application that counted no tasks writes the only ones.
LEMMA ApplyOnce ==
  ASSUME LifeInv, PlaybookOnce, NEW w \in Worker, Unapplied(job[w]), ApplyWrite(w)
  PROVE  PlaybookOnce'
<1>1. PICK j : j = job[w]
  OBVIOUS
<1>2. PICK i, p : i = j.insight /\ p = j.playbook
  OBVIOUS
<1>3. i \in Insight /\ p \in Playbook
  BY <1>1, <1>2, JobIs DEF ApplyWrite, ApplyHolds, ApplyJob
<1>4. task \in Tasks /\ Steps \in Nat
  BY BoundsAssumption DEF LifeInv, Committed
<1>5. CASE task' = task
  BY <1>5 DEF PlaybookOnce
<1>6. CASE task' = [task EXCEPT ![i][p].open = @ + Steps]
  <2>1. PICK a \in Nat, b \in Nat : a = task[i][p].open /\ b = task[i][p].done
    BY <1>3, <1>4 DEF Tasks
  <2>2. a + b = 0
    BY <1>1, <1>2, <2>1 DEF Unapplied, AlreadyApplied, ApplyWrite
  <2>3. task'[i][p].open = a + Steps /\ task'[i][p].done = b
    BY <1>3, <1>4, <1>6, <2>1 DEF Tasks
  <2>4. \A k \in Insight, q \in Playbook : k # i \/ q # p => task'[k][q] = task[k][q]
    BY <1>3, <1>4, <1>6 DEF Tasks
  <2>5. a + Steps + b <= Steps
    BY <1>4, <2>2
  <2> SUFFICES ASSUME NEW k \in Insight, NEW q \in Playbook
               PROVE  task'[k][q].open + task'[k][q].done <= Steps
    BY DEF PlaybookOnce
  <2>6. CASE k = i /\ q = p
    BY <2>3, <2>5, <2>6
  <2>7. CASE k # i \/ q # p
    BY <2>4, <2>7 DEF PlaybookOnce
  <2> QED
    BY <2>6, <2>7
<1> QED
  BY <1>1, <1>2, <1>5, <1>6 DEF ApplyWrite, Fail

\* A completion moves a task from the open to the done ones.
LEMMA CompleteOnce ==
  ASSUME LifeInv, CompleteTask
  PROVE  /\ PlaybookOnce => PlaybookOnce'
         /\ \A i \in Insight, p \in Playbook : ~AlreadyApplied(i, p) => ~AlreadyApplied(i, p)'
<1>1. PICK i \in Insight, p \in Playbook :
        /\ task[i][p].open > 0
        /\ task' = [task EXCEPT ![i][p] = [open |-> task[i][p].open - 1,
                                          done |-> task[i][p].done + 1]]
  BY DEF CompleteTask, LifeInv, Committed, Tasks
<1>2. task \in Tasks
  BY DEF LifeInv, Committed
<1>3. PICK a \in Nat, b \in Nat : a = task[i][p].open /\ b = task[i][p].done
  BY <1>2 DEF Tasks
<1>4. task'[i][p].open = a - 1 /\ task'[i][p].done = b + 1
  BY <1>1, <1>2, <1>3 DEF Tasks
<1>5. \A k \in Insight, q \in Playbook : k # i \/ q # p => task'[k][q] = task[k][q]
  BY <1>1, <1>2 DEF Tasks
<1>6. (a - 1) + (b + 1) = a + b
  OBVIOUS
<1>7. \A k \in Insight, q \in Playbook :
        task'[k][q].open + task'[k][q].done = task[k][q].open + task[k][q].done
  BY <1>3, <1>4, <1>5, <1>6
<1> QED
  BY <1>7 DEF PlaybookOnce, AlreadyApplied

\* One handler at a time, a playbook is applied to an insight at most once.
THEOREM SerialPlaybooks ==
  ASSUME NEW w, Worker = {w}
  PROVE  Spec => []PlaybookOnce
<1> DEFINE I == SerialInv(w) /\ PlaybookOnce /\ Unapplied(job[w])
<1>1. Init => I
  <2>1. Init => SerialInv(w)
    BY SerialInit
  <2>2. Init => PlaybookOnce
    BY BoundsAssumption DEF Init, PlaybookOnce
  <2>3. Init => Unapplied(job[w])
    BY DEF Init, Unapplied, Idle
  <2> QED
    BY <2>1, <2>2, <2>3
<1>2. I /\ [Next]_vars => I'
  <2> SUFFICES ASSUME SerialInv(w), PlaybookOnce, Unapplied(job[w]), [Next]_vars
               PROVE  PlaybookOnce' /\ Unapplied(job[w])'
    BY SerialStep
  <2>1. LifeInv /\ w \in Worker
    BY DEF SerialInv
  <2>2. CASE Tick \/ UNCHANGED vars
    BY <2>2 DEF Tick, vars, PlaybookOnce, Unapplied, AlreadyApplied
  <2>3. CASE CompleteTask
    <3>1. job' = job
      BY <2>3 DEF CompleteTask
    <3>2. job[w].op = "apply" => job[w].insight \in Insight /\ job[w].playbook \in Playbook
      BY <2>1, JobIs DEF ApplyHolds, ApplyJob
    <3>3. Unapplied(job[w])'
      BY <2>1, <2>3, <3>1, <3>2, CompleteOnce DEF Unapplied
    <3> QED
      BY <2>1, <2>3, <3>3, CompleteOnce
  <2>4. CASE ApplyWrite(w)
    <3>1. Done(w)
      BY <2>4 DEF ApplyWrite, Fail
    <3>2. job'[w] = Idle
      BY <2>1, <3>1 DEF Done, LifeInv
    <3> QED
      BY <2>1, <2>4, <3>2, ApplyOnce DEF Unapplied, Idle
  <2>5. CASE \/ TransitionRead(w) \/ TransitionWrite(w)
             \/ EvaluateRead(w) \/ EvaluateResolve(w) \/ EvaluateRefresh(w)
             \/ EvaluateInsert(w) \/ NotifySlack(w) \/ EvaluateCommit(w) \/ EvaluateCrash(w)
             \/ ApplyRead(w) \/ ApplyCount(w) \/ OutcomeRead(w) \/ OutcomeWrite(w)
    <3>1. task' = task
      BY <2>5 DEF TransitionRead, TransitionWrite, EvaluateRead, EvaluateResolve,
                  EvaluateRefresh, EvaluateInsert, NotifySlack, EvaluateCommit, EvaluateCrash,
                  ApplyRead, ApplyCount, OutcomeRead, OutcomeWrite, Start, Fail
    <3>2. Unapplied(job[w])'
      BY <2>1, <2>5, <3>1, TasksRest
    <3> QED
      BY <3>1, <3>2 DEF PlaybookOnce, Unapplied
  <2> QED
    BY <2>2, <2>3, <2>4, <2>5 DEF Next
<1>3. I => PlaybookOnce
  OBVIOUS
<1> QED
  BY <1>1, <1>2, <1>3, PTL DEF Spec
=============================================================================
