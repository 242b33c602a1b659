------------------------------ MODULE RiskScore ------------------------------
(***************************************************************************)
(* What an evaluation of an account computes from its data: the signals    *)
(* the detectors find (rig/signals/engine.py), the renewal-risk score      *)
(* (rig/scoring.py), and what the risk insight says (rig/insights.py).     *)
(* Here data change and days pass; evaluations under way at the same time  *)
(* are the subject of SignalEngine.                                        *)
(*                                                                         *)
(* Weights and severities are per cent, the strength of a signal is in     *)
(* 1/10000 and the value of a score in hundredths, as it is rounded.  No   *)
(* sum of these weights and strengths lies half-way between two values.    *)
(***************************************************************************)
EXTENDS Integers, FiniteSetsExt

CONSTANTS WindowDays,    \* renewal_no_plan: window_days
          NoticeWindow,  \* notice_period_approaching: window_days
          NoticeDays,    \* account.notice_days
          MediumDays,    \* payment_late: medium_days
          HighDays,      \* payment_late: high_days
          SlaDays,       \* critical_ticket_unresolved: sla_hours, in days
          FreshDays,     \* USAGE_FRESHNESS_SLA_DAYS
          Horizon        \* bound on the days to a renewal

ASSUME DaysAssumption ==
  /\ {WindowDays, NoticeWindow, NoticeDays, MediumDays, HighDays, SlaDays, FreshDays} \subseteq Nat
  /\ MediumDays <= HighDays
  /\ Horizon \in Nat

None == -2          \* there is no such date, or it is long past

VARIABLES
  terms,      \* [auto, strategic]: account.auto_renew; tier Strategic or Enterprise
  renewal,    \* days to the renewal date
  plan,       \* plan_status is active
  overdue,    \* days since the unpaid invoice was due
  ticket,     \* days since the unresolved high-priority ticket was opened
  usage,      \* [drop, age]: per cent below the baseline, days since the last row
  sentiment,  \* [severity, review] of the LLM signal about a ticket
  domains     \* domains of data with any row for the account

facts == <<renewal, plan, overdue, ticket, usage>>
vars == <<terms, facts, sentiment, domains>>

NoSentiment == [severity |-> "none", review |-> "none"]

-----------------------------------------------------------------------------
(* The detectors.                                                          *)

Signal(key, severity, confidence, review) ==
  [key |-> key, severity |-> severity, confidence |-> confidence, review |-> review]

Detection(key, severity, confidence) == {Signal(key, severity, confidence, "exempt")}

RenewalNoPlan ==
  IF renewal \in 0..WindowDays /\ ~plan
  THEN Detection("renewal_no_plan", IF terms.auto THEN "medium" ELSE "high", 100)
  ELSE {}

NoticePeriodApproaching ==
  IF renewal # None /\ renewal - NoticeDays \in 0..NoticeWindow
  THEN Detection("notice_period_approaching", "high", 100)
  ELSE {}

\* Mutant of PaymentLate: high on one day only.
PaymentLateOnce ==
  IF overdue # None /\ overdue >= MediumDays
  THEN Detection("payment_late", IF overdue = HighDays THEN "high" ELSE "medium", 100)
  ELSE {}

PaymentLate ==
  IF overdue # None /\ overdue >= MediumDays
  THEN Detection("payment_late", IF overdue >= HighDays THEN "high" ELSE "medium", 100)
  ELSE {}

CriticalTicketUnresolved ==
  IF ticket # None /\ ticket > SlaDays
  THEN Detection("critical_ticket_unresolved",
                 IF terms.strategic THEN "critical" ELSE "high", 100)
  ELSE {}

UsageIsFresh == usage.age # None /\ usage.age <= FreshDays

UsageSeverity ==
  CASE usage.drop >= 50 -> "critical"
    [] usage.drop \in 30..49 -> "high"
    [] OTHER -> "medium"

\* Baseline and observed mean are abstracted to the drop between them.
UsageDropVsBaseline ==
  IF UsageIsFresh /\ usage.drop >= 20
  THEN Detection("usage_drop_vs_baseline", UsageSeverity, 94)
  ELSE {}

\* The signal analyze_ticket_sentiment upserts; detectors never resolve it.
NegativeSentiment ==
  IF sentiment = NoSentiment THEN {}
  ELSE {Signal("negative_sentiment", sentiment.severity, 70, sentiment.review)}

\* The active signals an evaluation leaves behind.
Active ==
  RenewalNoPlan \cup NoticePeriodApproaching \cup PaymentLate
    \cup CriticalTicketUnresolved \cup UsageDropVsBaseline \cup NegativeSentiment

-----------------------------------------------------------------------------
(* compute_renewal_risk.                                                   *)

COMPONENTS ==
  [usage_trajectory      |-> [weight |-> 25, types |-> {"usage_drop_vs_baseline"}],
   support_friction      |-> [weight |-> 20, types |-> {"critical_ticket_unresolved"}],
   commercial_engagement |-> [weight |-> 25, types |-> {"renewal_no_plan", "notice_period_approaching"}],
   billing_health        |-> [weight |-> 15, types |-> {"payment_late"}],
   sentiment_trend       |-> [weight |-> 15, types |-> {"negative_sentiment"}]]

SEVERITY_NORM == [info |-> 10, low |-> 25, medium |-> 50, high |-> 80, critical |-> 100]
MIN_WEIGHT_COVERAGE == 60
NoScore == -1

\* The components whose domain has data; CRM fields are always there.
Covered ==
  {"commercial_engagement"}
    \cup (IF "usage" \in domains THEN {"usage_trajectory"} ELSE {})
    \cup (IF "support" \in domains THEN {"support_friction", "sentiment_trend"} ELSE {})
    \cup (IF "billing" \in domains THEN {"billing_health"} ELSE {})

\* The sum of f over the covered components.
OverCovered(f) ==
  LET at(c) == IF c \in Covered THEN f[c] ELSE 0 IN
  at("usage_trajectory") + at("support_friction") + at("commercial_engagement")
    + at("billing_health") + at("sentiment_trend")

CoveredWeight == OverCovered([c \in DOMAIN COMPONENTS |-> COMPONENTS[c].weight])

\* Mutant of Counted: signals that await review, or failed it, count too.
CountedAll(signals) == signals

Counted(signals) == {s \in signals : s.review \in {"exempt", "confirmed"}}

Strength(s) == SEVERITY_NORM[s.severity] * s.confidence

\* Mutants of Norm: the mean of the matched signals, or their sum.
NormMean(matched) == MapThenSumSet(Strength, matched) \div Cardinality(matched)
NormSum(matched) == MapThenSumSet(Strength, matched)

\* The strongest signal drives its component.
Norm(matched) == Max({Strength(s) : s \in matched})

Contribution(c, signals) ==
  LET matched == {s \in signals : s.key \in COMPONENTS[c].types} IN
  IF matched = {} THEN 0 ELSE COMPONENTS[c].weight * Norm(matched)

\* Mutant of TooThin: any coverage will do.
NeverTooThin == FALSE

TooThin == CoveredWeight < MIN_WEIGHT_COVERAGE

\* Weights are renormalised over the covered components.
Score(signals) ==
  IF TooThin THEN NoScore
  ELSE LET total == OverCovered([c \in DOMAIN COMPONENTS |-> Contribution(c, Counted(signals))])
       IN (2 * total + CoveredWeight) \div (2 * CoveredWeight)

-----------------------------------------------------------------------------
(* upsert_risk_insight, given the score and every active signal.           *)

RISK_INSIGHT_THRESHOLD == 6000

SeverityRank == [info |-> 1, low |-> 2, medium |-> 3, high |-> 4, critical |-> 5]

Composes(signals) == Score(signals) >= RISK_INSIGHT_THRESHOLD /\ signals # {}

TopSeverity(signals) == Max({SeverityRank[s.severity] : s \in signals})
TopConfidence(signals) == Max({s.confidence : s \in signals})

\* The signals that may come first, and give the insight its title.
Leaders(signals) ==
  {s \in signals : \A t \in signals :
     t.confidence * SeverityRank[t.severity] <= s.confidence * SeverityRank[s.severity]}

-----------------------------------------------------------------------------
(* The account's data.                                                     *)

Init ==
  /\ terms \in [auto : BOOLEAN, strategic : BOOLEAN]
  /\ renewal \in {None, Horizon}
  /\ plan = FALSE
  /\ overdue = None
  /\ ticket = None
  /\ usage = [drop |-> 0, age |-> None]
  /\ sentiment = NoSentiment
  /\ domains = {}

\* Ages are not told apart beyond the last limit they are compared with.
Older(age, limit) == IF age = None \/ age > limit THEN age ELSE age + 1

DayPasses ==
  /\ renewal' = IF renewal = None THEN None ELSE renewal - 1
  /\ overdue' = Older(overdue, HighDays)
  /\ ticket' = Older(ticket, SlaDays)
  /\ usage' = [usage EXCEPT !.age = Older(@, FreshDays)]
  /\ UNCHANGED <<terms, plan, sentiment, domains>>

\* Nothing in the program sets plan_status: it comes with the account.
PlanChanged ==
  /\ plan' = ~plan
  /\ UNCHANGED <<terms, renewal, overdue, ticket, usage, sentiment, domains>>

\* record_outcome sets the next renewal date.
Renewed ==
  /\ renewal' = Horizon
  /\ UNCHANGED <<terms, plan, overdue, ticket, usage, sentiment, domains>>

InvoiceDue ==
  /\ overdue = None
  /\ overdue' = 0
  /\ domains' = domains \cup {"billing"}
  /\ UNCHANGED <<terms, renewal, plan, ticket, usage, sentiment>>

InvoicePaid ==
  /\ overdue # None
  /\ overdue' = None
  /\ UNCHANGED <<terms, renewal, plan, ticket, usage, sentiment, domains>>

TicketOpened ==
  /\ ticket = None
  /\ ticket' = 0
  /\ domains' = domains \cup {"support"}
  /\ UNCHANGED <<terms, renewal, plan, overdue, usage, sentiment>>

TicketResolved ==
  /\ ticket # None
  /\ ticket' = None
  /\ UNCHANGED <<terms, renewal, plan, overdue, usage, sentiment, domains>>

UsageImported ==
  /\ \E drop \in {0, 20, 30, 50} : usage' = [drop |-> drop, age |-> 0]
  /\ domains' = domains \cup {"usage"}
  /\ UNCHANGED <<terms, renewal, plan, overdue, ticket, sentiment>>

\* analyze_ticket_sentiment finds a ticket negative; the review outcome of an
\* earlier analysis of it stays.
Analyze ==
  /\ "support" \in domains
  /\ \E severity \in {"medium", "high"} :
       sentiment' = [severity |-> severity,
                     review |-> IF sentiment = NoSentiment THEN "pending" ELSE sentiment.review]
  /\ UNCHANGED <<terms, facts, domains>>

\* POST /v1/signals/{id}/review: as often as people like.
Review ==
  /\ sentiment # NoSentiment
  /\ \E outcome \in {"confirmed", "rejected"} : sentiment' = [sentiment EXCEPT !.review = outcome]
  /\ UNCHANGED <<terms, facts, domains>>

Next ==
  \/ DayPasses \/ PlanChanged \/ Renewed \/ InvoiceDue \/ InvoicePaid
  \/ TicketOpened \/ TicketResolved \/ UsageImported \/ Analyze \/ Review

Spec == Init /\ [][Next]_vars

-----------------------------------------------------------------------------

TypeOK ==
  /\ terms \in [auto : BOOLEAN, strategic : BOOLEAN]
  /\ renewal \in None..Horizon
  /\ plan \in BOOLEAN
  /\ overdue \in {None} \cup 0..(HighDays + 1)
  /\ ticket \in {None} \cup 0..(SlaDays + 1)
  /\ usage \in [drop : {0, 20, 30, 50}, age : {None} \cup 0..(FreshDays + 1)]
  /\ sentiment \in {NoSentiment} \cup
       [severity : {"medium", "high"}, review : {"pending", "confirmed", "rejected"}]
  /\ domains \subseteq {"usage", "support", "billing"}
  /\ Score(Active) \in {NoScore} \cup 0..10000

Vetted == {s \in Active : s.key = "negative_sentiment" => s.review = "confirmed"}

\* An LLM signal nobody confirmed neither makes nor unmakes an insight, nor
\* sets its severity, its confidence or the signal its title quotes, although
\* upsert_risk_insight takes all active signals together.
UnvettedChangesNothing ==
  /\ Composes(Active) = Composes(Vetted)
  /\ Composes(Active) =>
       /\ TopSeverity(Active) = TopSeverity(Vetted)
       /\ TopConfidence(Active) = TopConfidence(Vetted)
       /\ Leaders(Active) \subseteq Vetted

\* No single signal is enough for an insight, however few domains have data
\* and so however much its component weighs.
InsightRestsOnTwo == Composes(Active) => Cardinality(Vetted) >= 2

\* While the renewal is ahead and usage is reported, a day that only passes
\* never makes the account look safer.
TimeNeverCalms ==
  [][LET ahead == renewal' = None \/ renewal' >= NoticeDays
         reported == usage'.age = None \/ usage'.age <= FreshDays
     IN DayPasses /\ ahead /\ reported => Score(Active)' >= Score(Active)]_vars

\* The score never falls while every signal that counts goes on counting, at
\* least as strong, whatever is detected or confirmed besides: each component
\* goes by its strongest signal.
ProblemsNeverCalm ==
  [][/\ domains' = domains
     /\ \A s \in Counted(Active) : \E t \in Counted(Active)' :
          t.key = s.key /\ Strength(t) >= Strength(s)
     => Score(Active)' >= Score(Active)]_vars
=============================================================================
