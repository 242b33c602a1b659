----------------------------- MODULE DataQuality -----------------------------
(***************************************************************************)
(* The data-quality checks of a tenant (rig/data_quality.py), the usage    *)
(* rows they look at (rig/usage_import.py) and the data source they watch. *)
(*                                                                         *)
(* run_checks is one READ COMMITTED transaction: three times it reads and  *)
(* upserts the issues it finds, then it selects the open issues and        *)
(* resolves by id those it did not find.  An issue's row is locked from    *)
(* the first write to the transaction's end.  Time is in days; a sync is   *)
(* stale after one.                                                        *)
(***************************************************************************)
EXTENDS Naturals, Integers, FiniteSets, SequencesExt, FiniteSetsExt

CONSTANTS Checker,     \* request threads that run the checks
          Account,
          Named,       \* [reference in a CSV -> accounts it may stand for]
          UsageSLA,    \* USAGE_FRESHNESS_SLA_DAYS
          SyncSLA,     \* SYNC_FRESHNESS_SLA_HOURS, in days
          MaxToday,    \* bound on the days
          Ahead,       \* how many days ahead a CSV row may be dated
          MaxMoves     \* bound on imports, syncs, edits and crashes

ASSUME ChecksAssumption ==
  /\ UsageSLA \in Nat /\ SyncSLA \in Nat /\ MaxToday \in Nat /\ Ahead \in Nat /\ MaxMoves \in Nat
  /\ \A ref \in DOMAIN Named : Named[ref] \subseteq Account
  /\ IsFiniteSet(Account)

VARIABLES
  today,    \* the date
  usage,    \* [Account -> days with usage_metric_daily rows]
  lacking,  \* accounts that lack a required field (external)
  feed,     \* the data source: its status and its last successful run
  issue,    \* [Issue -> state of the committed data_quality_issue row]
  check,    \* [Checker -> run of the checks under way]
  moves     \* number of moves so far

dqVars == <<today, usage, lacking, feed, issue, check, moves>>
world == <<today, usage, lacking, feed, moves>>

Never == -1
Day == 0..(MaxToday + Ahead)
Stages == <<"usage", "sync", "field">>
Issue == ({"usage", "field"} \X Account) \cup {<<"sync", "feed">>}
IdleCheck == [stage |-> 0]

Latest(a) == IF usage[a] = {} THEN Never ELSE Max(usage[a])

\* usage_is_fresh: what scoring asks before it uses the account's usage.
UsageIsFresh(a) == usage[a] # {} /\ today - Latest(a) <= UsageSLA

Move == moves < MaxMoves /\ moves' = moves + 1

-----------------------------------------------------------------------------

DqInit ==
  /\ today = 0
  /\ usage = [a \in Account |-> {}]
  /\ lacking = {}
  /\ feed = [status |-> "disconnected", lastOk |-> Never]
  /\ issue = [k \in Issue |-> "none"]
  /\ check = [w \in Checker |-> IdleCheck]
  /\ moves = 0

Tomorrow ==
  /\ today < MaxToday
  /\ today' = today + 1
  /\ UNCHANGED <<usage, lacking, feed, issue, check, moves>>

\* import_usage_csv: of the rows, some are malformed or match no account and
\* are reported; the rest are upserted, whatever their date.  Where a domain or
\* name is that of several accounts, the last one read counts.
ImportUsage ==
  /\ Move
  /\ \E ref \in DOMAIN Named, d \in 0..(today + Ahead) :
       IF Named[ref] = {} THEN UNCHANGED usage
       ELSE \E a \in Named[ref] : usage' = [usage EXCEPT ![a] = @ \cup {d}]
  /\ UNCHANGED <<today, lacking, feed, issue, check>>

\* Somebody or some sync fills in or empties a required field.
EditField ==
  /\ Move
  /\ \E a \in Account : lacking' = (lacking \cup {a}) \ (lacking \cap {a})
  /\ UNCHANGED <<today, usage, feed, issue, check>>

\* SyncRunner: a success sets finished_at, a failure the status.
SyncEnds ==
  /\ Move
  /\ feed.status # "disconnected"
  /\ \/ feed' = [feed EXCEPT !.lastOk = today]
     \/ feed' = [feed EXCEPT !.status = "action_required"]
  /\ UNCHANGED <<today, usage, lacking, issue, check>>

\* The source is connected, DELETE /v1/admin/sources/{id}, or connected again.
Reconnect ==
  /\ Move
  /\ feed' = [feed EXCEPT !.status = IF @ = "disconnected" THEN "active" ELSE "disconnected"]
  /\ UNCHANGED <<today, usage, lacking, issue, check>>

-----------------------------------------------------------------------------
(* POST /v1/admin/data-quality/run.                                        *)

\* Mutant of UsageStale: the account scoring still trusts is reported.
UsageStaleEarly(a) == usage[a] # {} /\ today - Latest(a) >= UsageSLA

\* An account that has ever reported usage and has not for too long.
UsageStale(a) == usage[a] # {} /\ today - Latest(a) > UsageSLA

FeedStale ==
  /\ feed.status # "disconnected"
  /\ feed.lastOk = Never \/ today - feed.lastOk > SyncSLA \/ feed.status = "action_required"

\* What a stage of run_checks finds.
Found(stage) ==
  CASE stage = "usage" -> {<<"usage", a>> : a \in {x \in Account : UsageStale(x)}}
    [] stage = "field" -> {<<"field", a>> : a \in lacking}
    [] stage = "sync"  -> IF FeedStale THEN {<<"sync", "feed">>} ELSE {}

Checking(w) == check[w] # IdleCheck
Seen(w, k) == IF k \in DOMAIN check[w].own THEN check[w].own[k] ELSE issue[k]
IssueFree(w, k) ==
  \A v \in Checker \ {w} : Checking(v) => k \notin DOMAIN check[v].own

CheckStart(w) ==
  /\ ~Checking(w)
  /\ check' = [check EXCEPT ![w] = [stage |-> 1, step |-> "read", todo |-> <<>>,
                                    found |-> {}, own |-> <<>>]]
  /\ UNCHANGED <<world, issue>>

\* A stage reads; its rows come in any order.
CheckRead(w) ==
  /\ Checking(w) /\ check[w].step = "read"
  /\ \E order \in SetToSeqs(Found(Stages[check[w].stage])) :
       check' = [check EXCEPT ![w] =
         [check[w] EXCEPT !.step = "upsert", !.todo = order, !.found = @ \cup Range(order)]]
  /\ UNCHANGED <<world, issue>>

\* The row k is locked and written in the transaction of w.
Wrote(w, k, state) ==
  [check[w] EXCEPT !.todo = Tail(@),
     !.own = [x \in DOMAIN @ \cup {k} |-> IF x = k THEN state ELSE @[x]]]

\* Mutant of UpsertedIssue: an issue that is there stays as it is.
UpsertedIssueOnce(w, k) == IF Seen(w, k) = "none" THEN "open" ELSE Seen(w, k)

\* INSERT ... ON CONFLICT DO UPDATE SET state = 'open'.
UpsertedIssue(w, k) == "open"

CheckUpsert(w) ==
  /\ Checking(w) /\ check[w].step = "upsert" /\ check[w].todo # <<>>
  /\ LET k == Head(check[w].todo) IN
     IssueFree(w, k) /\ check' = [check EXCEPT ![w] = Wrote(w, k, UpsertedIssue(w, k))]
  /\ UNCHANGED <<world, issue>>

\* The next stage, or after the last one SELECT the open issues.
CheckGoesOn(w) ==
  /\ Checking(w) /\ check[w].step = "upsert" /\ check[w].todo = <<>>
  /\ IF check[w].stage < Len(Stages)
     THEN check' = [check EXCEPT ![w] = [check[w] EXCEPT !.stage = @ + 1, !.step = "read"]]
     ELSE \E order \in SetToSeqs({k \in Issue \ check[w].found : Seen(w, k) = "open"}) :
            check' = [check EXCEPT ![w] = [@ EXCEPT !.step = "resolve", !.todo = order]]
  /\ UNCHANGED <<world, issue>>

\* UPDATE ... SET state = 'resolved' WHERE id, whatever the state is by then.
CheckResolve(w) ==
  /\ Checking(w) /\ check[w].step = "resolve" /\ check[w].todo # <<>>
  /\ LET k == Head(check[w].todo) IN
     IssueFree(w, k) /\ check' = [check EXCEPT ![w] = Wrote(w, k, "resolved")]
  /\ UNCHANGED <<world, issue>>

CheckEnd(w) ==
  /\ Checking(w) /\ check[w].step = "resolve" /\ check[w].todo = <<>>
  /\ issue' = [k \in Issue |-> Seen(w, k)]
  /\ check' = [check EXCEPT ![w] = IdleCheck]
  /\ UNCHANGED world

\* The transaction dies and is rolled back.
CheckDies(w) ==
  /\ Move /\ Checking(w)
  /\ check' = [check EXCEPT ![w] = IdleCheck]
  /\ UNCHANGED <<today, usage, lacking, feed, issue>>

Waiting(w) == Checking(w) /\ check[w].todo # <<>> /\ ~IssueFree(w, Head(check[w].todo))

\* PostgreSQL ends one of two checks that wait for each other's issues.
CheckDeadlock(w) ==
  /\ Waiting(w) /\ \E v \in Checker \ {w} : Waiting(v)
  /\ check' = [check EXCEPT ![w] = IdleCheck]
  /\ UNCHANGED <<world, issue>>

DqNext ==
  \/ Tomorrow \/ ImportUsage \/ EditField \/ SyncEnds \/ Reconnect
  \/ \E w \in Checker :
       \/ CheckStart(w) \/ CheckRead(w) \/ CheckUpsert(w) \/ CheckGoesOn(w)
       \/ CheckResolve(w) \/ CheckEnd(w) \/ CheckDies(w) \/ CheckDeadlock(w)

DqSpec == DqInit /\ [][DqNext]_dqVars

\* A check runs on, waiting only for rows, and somebody keeps running checks.
CheckRunsOn(w) == CheckStart(w) \/ CheckRead(w) \/ CheckGoesOn(w) \/ CheckEnd(w)
CheckFairness(w) ==
  /\ WF_dqVars(CheckRunsOn(w))
  /\ SF_dqVars(CheckUpsert(w)) /\ SF_dqVars(CheckResolve(w))
  /\ WF_dqVars(CheckDeadlock(w))

DqFairSpec == DqSpec /\ \A w \in Checker : CheckFairness(w)

-----------------------------------------------------------------------------

IssueState == {"none", "open", "resolved"}

DqTypeOK ==
  /\ today \in 0..MaxToday /\ moves \in 0..MaxMoves
  /\ usage \in [Account -> SUBSET Day]
  /\ lacking \subseteq Account
  /\ feed \in [status : {"active", "action_required", "disconnected"}, lastOk : Day \cup {Never}]
  /\ issue \in [Issue -> IssueState]
  /\ \A w \in Checker : Checking(w) =>
       /\ check[w].stage \in DOMAIN Stages
       /\ check[w].found \subseteq Issue /\ Range(check[w].todo) \subseteq Issue
       /\ DOMAIN check[w].own \subseteq Issue

\* Whatever other checks write meanwhile, an issue that a check has found is
\* open when it commits, and no other check's uncommitted write is undone.
FindingsStand ==
  [][\A w \in Checker : CheckEnd(w) =>
       /\ \A k \in check[w].found : issue'[k] = "open"
       /\ \A v \in Checker \ {w}, k \in Issue :
            Checking(v) /\ k \in DOMAIN check[v].own => issue'[k] = issue[k]]_dqVars

\* What the open issues should be: among them every account whose usage signals
\* scoring suspends although it once reported.
Truth ==
  /\ \A a \in Account :
       /\ (issue[<<"usage", a>>] = "open") <=> (usage[a] # {} /\ ~UsageIsFresh(a))
       /\ (issue[<<"field", a>>] = "open") <=> (a \in lacking)
  /\ (issue[<<"sync", "feed">>] = "open") <=> FeedStale

\* Checks that overlap may resolve what another has just opened, and open what
\* has cleared.  Once the data rest and checks go on, the open issues come to
\* be those there are, and agree with what scoring does, unless checks go on
\* ending in deadlocks.
IssuesSettle == <>[]Truth \/ []<><<\E w \in Checker : CheckDeadlock(w)>>_dqVars

-----------------------------------------------------------------------------
(* What one may expect and the code does not do.                           *)

\* Usage that is taken for fresh was reported in the last days: an import
\* accepts any date, and one row dated ahead keeps the account fresh until then.
FreshIsRecent ==
  \A a \in Account : UsageIsFresh(a) => \E d \in usage[a] : d <= today /\ today - d <= UsageSLA

\* Scoring suspends the usage signals of an account that never reported, and no
\* issue says so.
SuspensionIsSaid ==
  <>[](\A a \in Account : ~UsageIsFresh(a) => issue[<<"usage", a>>] = "open")
=============================================================================
