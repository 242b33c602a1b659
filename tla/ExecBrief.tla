------------------------------ MODULE ExecBrief ------------------------------
(***************************************************************************)
(* The weekly executive brief of a tenant: its composition, the claims and *)
(* the evidence they cite, approval and distribution (rig/briefing.py),    *)
(* with claim verification (rig/verification.py).                          *)
(*                                                                         *)
(* The portfolio has one account with one open high risk, found by a rule  *)
(* ("rule") or by the LLM in a ticket ("llm").  A signal cites a row of    *)
(* evidence for every statement its detections have made; a figure has one *)
(* row for each amount and day.  A request is one READ COMMITTED           *)
(* transaction: what it reads may have changed when it writes.  Amounts    *)
(* are in cents, a claim says them in whole dollars; ages are in days.     *)
(***************************************************************************)
EXTENDS Naturals, Sequences

CONSTANTS Clerk,       \* request threads
          Amount,      \* cents the portfolio's accounts may sum up to
          Accounts,    \* numbers of accounts they may be
          MaxAge,      \* DEFAULT_MAX_EVIDENCE_AGE_DAYS
          MaxDate,     \* bound on the days
          MaxBrief,    \* bound on the briefs
          MaxTurns     \* bound on evaluations, analyses, reviews and edits

ASSUME BriefAssumption ==
  /\ Amount \subseteq Nat /\ Accounts \subseteq Nat
  /\ MaxAge \in Nat /\ MaxDate \in Nat /\ MaxBrief \in Nat /\ MaxTurns \in Nat

VARIABLES
  date,      \* the day
  figure,    \* what the portfolio adds up to: cents and accounts (external)
  signals,   \* [{"rule", "llm"} -> signal row, freshness_at of what it cites]
  risk,      \* the open risk insight: what it was composed from
  metrics,     \* evidence rows of the figure
  briefs,    \* [1..MaxBrief -> exec_brief row]
  desk,      \* [Clerk -> request under way]
  turns      \* number of turns so far

briefVars == <<date, figure, signals, risk, metrics, briefs, desk, turns>>

Source == {"rule", "llm"}
Date == 0..MaxDate
Quiet == [state |-> "absent", review |-> "none", fresh |-> <<>>]
NoBrief == [state |-> "none"]
Unchecked == MaxDate + 1      \* no approval has verified the draft
NoRisk == [leads |-> "nobody", cites |-> {}]
Free == [doing |-> "nothing"]

Turn == turns < MaxTurns /\ turns' = turns + 1

-----------------------------------------------------------------------------
(* What a brief is about.                                                  *)

\* Whether the LLM has found a ticket before, and what a person said of it.
Earlier == {Quiet} \cup [state : {"active"}, review : {"pending", "confirmed"}, fresh : {<<0>>}]

BriefInit ==
  /\ date = 0
  /\ figure \in [cents : Amount, accounts : Accounts]
  /\ \E found \in Earlier : signals = [s \in Source |-> IF s = "llm" THEN found ELSE Quiet]
  /\ risk = NoRisk
  /\ metrics = {}
  /\ briefs = [n \in 1..MaxBrief |-> NoBrief]
  /\ desk = [c \in Clerk |-> Free]
  /\ turns = 0

NextDate ==
  /\ date < MaxDate
  /\ date' = date + 1
  /\ UNCHANGED <<figure, signals, risk, metrics, briefs, desk, turns>>

PortfolioChanges ==
  /\ Turn
  /\ figure' \in [cents : Amount, accounts : Accounts]
  /\ UNCHANGED <<date, signals, risk, metrics, briefs, desk>>

\* A signal is detected or analysed, and its review stays.  The evidence of a
\* statement made before is fresh again; a new statement adds a row.
Detected(s) ==
  {[signals EXCEPT ![s] =
     [state |-> "active", fresh |-> fresh,
      review |-> IF @.state = "absent" /\ s = "llm" THEN "pending" ELSE @.review]] :
    fresh \in {Append(signals[s].fresh, date)}
              \cup {[signals[s].fresh EXCEPT ![n] = date] : n \in DOMAIN signals[s].fresh}}

\* analyze_ticket_sentiment finds a negative ticket.
AnalyzeTicket ==
  /\ Turn
  /\ signals' \in Detected("llm")
  /\ UNCHANGED <<date, figure, risk, metrics, briefs, desk>>

\* POST /v1/signals/{id}/review.
ReviewFinding ==
  /\ Turn
  /\ signals["llm"].state = "active"
  /\ \E outcome \in {"confirmed", "rejected"} :
       signals' = [signals EXCEPT !["llm"].review = outcome]
  /\ UNCHANGED <<date, figure, risk, metrics, briefs, desk>>

\* An evaluation finds the rule's signal or resolves it; the score may be too low
\* for a risk.  upsert_risk_insight composes it from all active signals, and its
\* title from the one that weighs most, severity times confidence.
Evaluate ==
  /\ Turn
  /\ \E now \in Detected("rule") \cup {[signals EXCEPT !["rule"].state = "resolved"]} :
       LET active == {s \in Source : now[s].state = "active"} IN
       /\ signals' = now
       /\ risk' \in {NoRisk} \cup {[leads |-> s, cites |-> active] : s \in active}
  /\ UNCHANGED <<date, figure, metrics, briefs, desk>>

-----------------------------------------------------------------------------
(* Claims and their verification.                                          *)

\* "{x:,.0f}": half a dollar goes to the even neighbour.
InDollars(cents) ==
  LET whole == cents \div 100
      rest == cents % 100
  IN IF rest > 50 \/ (rest = 50 /\ whole % 2 = 1) THEN whole + 1 ELSE whole

\* int(x / 100), the value the generator allows.
Truncated(cents) == cents \div 100

\* The portfolio claim of a figure and the claim about the risk; each names the
\* evidence it cites.
FigureClaim(f, cited) ==
  [about |-> "figure", cites |-> cited, of |-> f,
   says |-> InDollars(f.cents), allows |-> Truncated(f.cents)]
RiskClaim(r, cited) ==
  [about |-> "risk", cites |-> cited, of |-> r, says |-> 0, allows |-> 0]

\* Evidence rows: those of a signal, those of the figure.
EvidenceOf(s) == {<<s, n, 0>> : n \in DOMAIN signals[s].fresh}

FreshAt(e, rows) ==
  IF e[1] \in Source THEN signals[e[1]].fresh[e[2]] ELSE (CHOOSE x \in rows : x.id = e).fresh

\* Mutant of Verified: one fresh piece of evidence will do.
VerifiedByOne(k, rows) ==
  /\ \E e \in k.cites : date - FreshAt(e, rows) <= MaxAge
  /\ k.says = k.allows

\* verify_claim: evidence is cited, all of it is fresh, the numeral is allowed.
Verified(k, rows) ==
  /\ k.cites # {}
  /\ \A e \in k.cites : date - FreshAt(e, rows) <= MaxAge
  /\ k.says = k.allows

\* Mutant of Hash: the value is left out of the hash.
HashOfDay(f) == <<"figure", 0, date>>

\* The hash and record id of a figure's evidence: its sum and the day.
Hash(f) == <<"figure", f.cents, date>>

\* _metric_evidence: a new row, or the one with this hash made fresh, whatever
\* its statement says.
Registered(f) ==
  LET same == {x \in metrics : x.id = Hash(f)} IN
  IF same = {}
  THEN metrics \cup {[id |-> Hash(f), of |-> f, fresh |-> date]}
  ELSE (metrics \ same) \cup {[x EXCEPT !.fresh = date] : x \in same}

-----------------------------------------------------------------------------
(* POST /v1/briefs/generate, /{id}/approve and /{id}/distribute.           *)

\* generate_brief reads the figures and the top risks.
GenerateRead(c) ==
  /\ desk[c] = Free
  /\ desk' = [desk EXCEPT ![c] = [doing |-> "generate", figure |-> figure, risk |-> risk]]
  /\ UNCHANGED <<date, figure, signals, risk, metrics, briefs, turns>>

\* Mutant of Citable: every active signal.
CitableAny(s) == signals[s].state = "active"

\* The evidence a brief may cite: of active signals, confirmed if they need it.
Citable(s) == signals[s].state = "active" /\ (s = "llm" => signals[s].review = "confirmed")

\* The risk's signals are read; those not confirmed are listed as pending (where
\* there is no risk, a claim that cites nothing stands for none).  The
\* claims that verification passes are the body.
GenerateWrite(c) ==
  /\ desk[c].doing = "generate"
  /\ \E n \in 1..MaxBrief :
       /\ briefs[n] = NoBrief /\ \A m \in 1..(n - 1) : briefs[m] # NoBrief
       /\ LET j == desk[c]
              rows == Registered(j.figure)
              claims == {FigureClaim(j.figure, {Hash(j.figure)}),
                         RiskClaim(j.risk, UNION {EvidenceOf(s) : s \in {x \in j.risk.cites : Citable(x)}})}
          IN
          /\ metrics' = rows
          /\ briefs' = [briefs EXCEPT ![n] =
               [state |-> "draft", checked |-> Unchecked, sends |-> 0,
                body |-> {k \in claims : Verified(k, rows)},
                pending |-> {s \in j.risk.cites : signals[s].state = "active" /\ ~Citable(s)}]]
  /\ desk' = [desk EXCEPT ![c] = Free]
  /\ UNCHANGED <<date, figure, signals, risk, turns>>

\* Mutant of Passes: the approval trusts the verification of the generation.
PassesUnseen(n) == TRUE

\* Every claim of the body is verified again.
Passes(n) == \A k \in briefs[n].body : Verified(k, metrics)

\* approve_brief reads a draft.  Where a claim fails, the exception rolls the
\* audit event of the blocked approval back and nothing has changed.
ApproveCheck(c) ==
  /\ desk[c] = Free
  /\ \E n \in 1..MaxBrief :
       /\ briefs[n].state = "draft"
       /\ Passes(n)
       /\ desk' = [desk EXCEPT ![c] = [doing |-> "approve", brief |-> n, on |-> date]]
  /\ UNCHANGED <<date, figure, signals, risk, metrics, briefs, turns>>

\* UPDATE exec_brief by id, whatever its state is by then.
ApproveWrite(c) ==
  /\ desk[c].doing = "approve"
  /\ briefs' = [briefs EXCEPT ![desk[c].brief].state = "approved",
                             ![desk[c].brief].checked = desk[c].on]
  /\ desk' = [desk EXCEPT ![c] = Free]
  /\ UNCHANGED <<date, figure, signals, risk, metrics, turns>>

\* Mutant of Sendable: any brief that has not gone out.
SendableDraft(n) == briefs[n].state \in {"draft", "approved"}

Sendable(n) == briefs[n].state = "approved"

\* distribute_brief reads the state ...
DistributeRead(c) ==
  /\ desk[c] = Free
  /\ \E n \in 1..MaxBrief :
       Sendable(n) /\ desk' = [desk EXCEPT ![c] = [doing |-> "distribute", brief |-> n]]
  /\ UNCHANGED <<date, figure, signals, risk, metrics, briefs, turns>>

\* ... and inserts the notifications and writes the state by id.
DistributeWrite(c) ==
  /\ desk[c].doing = "distribute"
  /\ briefs' = [briefs EXCEPT ![desk[c].brief].state = "distributed",
                             ![desk[c].brief].sends = @ + 1]
  /\ desk' = [desk EXCEPT ![c] = Free]
  /\ UNCHANGED <<date, figure, signals, risk, metrics, turns>>

\* The request dies before it commits.
RequestDies(c) ==
  /\ desk[c] # Free
  /\ desk' = [desk EXCEPT ![c] = Free]
  /\ UNCHANGED <<date, figure, signals, risk, metrics, briefs, turns>>

BriefNext ==
  \/ NextDate \/ PortfolioChanges \/ AnalyzeTicket \/ ReviewFinding \/ Evaluate
  \/ \E c \in Clerk :
       \/ GenerateRead(c) \/ GenerateWrite(c) \/ ApproveCheck(c) \/ ApproveWrite(c)
       \/ DistributeRead(c) \/ DistributeWrite(c) \/ RequestDies(c)

BriefSpec == BriefInit /\ [][BriefNext]_briefVars

-----------------------------------------------------------------------------

Written == {n \in 1..MaxBrief : briefs[n] # NoBrief}

BriefTypeOK ==
  /\ date \in Date /\ turns \in 0..MaxTurns
  /\ figure \in [cents : Amount, accounts : Accounts]
  /\ signals \in [Source -> [state : {"absent", "active", "resolved"}, fresh : Seq(Date),
                            review : {"none", "pending", "confirmed", "rejected"}]]
  /\ risk.cites \subseteq Source
  /\ \A n \in Written :
       /\ briefs[n].state \in {"draft", "approved", "distributed"}
       /\ briefs[n].checked \in Date \cup {Unchecked} /\ briefs[n].sends \in Nat
       /\ briefs[n].pending \subseteq Source

\* However long a draft lies, and whichever approvals and distributions race
\* for it, a brief that has gone out was approved, and one that was approved
\* rests on evidence all of which was fresh when its approval looked, and says
\* no amount the figures do not back.
ApprovalRestsOnFresh ==
  \A n \in Written :
    briefs[n].state # "draft" =>
      /\ briefs[n].checked # Unchecked
      /\ \A k \in briefs[n].body :
           /\ k.says = k.allows
           /\ \A e \in k.cites : briefs[n].checked <= FreshAt(e, metrics) + MaxAge

\* Evidence rows are shared by the briefs of a day and only made fresh again;
\* each still states the amount of every claim that cites it.
AmountIsEvidenced ==
  \A n \in Written : \A k \in briefs[n].body :
    k.about = "figure" =>
      \A x \in metrics : x.id \in k.cites => x.of.cents = k.of.cents

-----------------------------------------------------------------------------
(* What docs say and the code does not do.                                 *)

\* briefing.py:10: unconfirmed LLM findings never appear in the body.
UnconfirmedStayOut ==
  [][\A n \in 1..MaxBrief : briefs[n] = NoBrief /\ briefs'[n] # NoBrief =>
       \A k \in briefs'[n].body :
         k.about = "risk" /\ k.of.leads = "llm" => signals["llm"].review = "confirmed"]_briefVars

\* verification.py:7: numbers the generator injects are backed: the claim about
\* the figure, whose evidence is as old as the draft, is in every body.
FigureInBody ==
  \A n \in Written : \E k \in briefs[n].body : k.about = "figure"

\* briefing.py:3: the evidence of a claim states the numbers the claim states.
CountIsEvidenced ==
  \A n \in Written : \A k \in briefs[n].body :
    k.about = "figure" =>
      \A x \in metrics : x.id \in k.cites => x.of.accounts = k.of.accounts

\* The risk a brief was composed from is in its body when the rule's signal has
\* just been detected; a statement of any of its signals from before the last days,
\* which stays among its citations, keeps it out.
CurrentRiskInBody ==
  [][\A c \in Clerk, n \in 1..MaxBrief :
       /\ desk[c].doing = "generate" /\ briefs[n] = NoBrief /\ briefs'[n] # NoBrief
       /\ desk[c].risk = risk /\ "rule" \in risk.cites /\ signals["rule"].state = "active"
       /\ \E m \in DOMAIN signals["rule"].fresh : signals["rule"].fresh[m] = date
       => \E k \in briefs'[n].body : k.about = "risk"]_briefVars

\* An approved brief goes out once.
GoesOutOnce == \A n \in Written : briefs[n].sends <= 1
=============================================================================
