---------------------------- MODULE RecordsProofs ----------------------------
(* Proofs about what is kept to be shown later: about ExecBrief, for any       *)
(* clerks, amounts, ages and bounds, and, with those about the audit log in    *)
(* AuditChainProofs, about the composition of the two.                         *)
EXTENDS MCRecords, AuditChainProofs, TLAPS

-----------------------------------------------------------------------------
(* Evidence, in any state sg of the signals and rows of the figure.        *)

Portfolio == [cents : Amount, accounts : Accounts]
Signal == [state : {"absent", "active", "resolved"}, fresh : Seq(Date),
           review : {"none", "pending", "confirmed", "rejected"}]
Metric == [id : {"figure"} \X Amount \X Date, of : Portfolio, fresh : Date]
Risk == [leads : Source \cup {"nobody"}, cites : SUBSET Source]

\* A row that e names.
Known(e, sg, rows) ==
  \/ \E s \in Source : \E n \in DOMAIN sg[s].fresh : e = <<s, n, 0>>
  \/ \E x \in rows : x.id = e

\* FreshAt, of those.
FreshIn(e, sg, rows) ==
  IF e[1] \in Source THEN sg[e[1]].fresh[e[2]] ELSE (CHOOSE x \in rows : x.id = e).fresh

\* Rows are of days gone by; those of a figure have an id of their own, which
\* names their amount.
SignalsPast(sg, d) ==
  /\ sg \in [Source -> Signal]
  /\ \A s \in Source : \A n \in DOMAIN sg[s].fresh : sg[s].fresh[n] <= d
RowsPast(rows, d) ==
  /\ rows \subseteq Metric
  /\ \A x \in rows : x.fresh <= d /\ x.id[2] = x.of.cents
  /\ \A x, y \in rows : x.id = y.id => x = y

\* Evidence is never lost and never grows older.
SignalsGrow(sg, tg) ==
  \A s \in Source : \A n \in DOMAIN sg[s].fresh :
    n \in DOMAIN tg[s].fresh /\ sg[s].fresh[n] <= tg[s].fresh[n]
RowsGrow(rows, tows) ==
  \A x \in rows : \E y \in tows : y.id = x.id /\ x.fresh <= y.fresh

\* What the body of a brief may claim.
Founded(k, sg, rows) ==
  /\ k.says = k.allows
  /\ \A e \in k.cites : Known(e, sg, rows)
  /\ k.about = "figure" => \E d \in Date : k.cites = {<<"figure", k.of.cents, d>>}

\* All of it was fresh on the day.
FreshOn(body, day, sg, rows) ==
  \A k \in body : \A e \in k.cites : day <= FreshIn(e, sg, rows) + MaxAge

BriefOf(b, sg, rows) ==
  /\ DOMAIN b = {"state", "checked", "sends", "body", "pending"}
  /\ b.state \in {"draft", "approved", "distributed"}
  /\ b.checked \in Date \cup {Unchecked} /\ b.sends \in Nat /\ b.pending \subseteq Source
  /\ \A k \in b.body : Founded(k, sg, rows)
  /\ b.state # "draft" => b.checked \in Date /\ FreshOn(b.body, b.checked, sg, rows)

\* What the requests under way have read still holds when they write.
DeskOf(j, bs, sg, rows) ==
  \/ j = Free
  \/ j.doing = "generate" /\ j.figure \in Portfolio /\ j.risk \in Risk
  \/ /\ j.doing = "approve"
     /\ j.brief \in 1..MaxBrief /\ bs[j.brief] # NoBrief
     /\ j.on \in Date /\ FreshOn(bs[j.brief].body, j.on, sg, rows)
  \/ /\ j.doing = "distribute"
     /\ j.brief \in 1..MaxBrief /\ bs[j.brief] # NoBrief /\ bs[j.brief].state # "draft"

BriefInv ==
  /\ date \in Date /\ turns \in 0..MaxTurns
  /\ figure \in Portfolio
  /\ SignalsPast(signals, date)
  /\ risk \in Risk
  /\ RowsPast(metrics, date)
  /\ DOMAIN briefs = 1..MaxBrief
  /\ \A n \in 1..MaxBrief : briefs[n] # NoBrief => BriefOf(briefs[n], signals, metrics)
  /\ DOMAIN desk = Clerk
  /\ \A c \in Clerk : DeskOf(desk[c], briefs, signals, metrics)

-----------------------------------------------------------------------------
(* Evidence lasts.                                                         *)

LEMMA DatesAreNat ==
  Date \subseteq Nat /\ MaxDate \in Nat /\ MaxAge \in Nat /\ Unchecked \notin Date
  BY BriefAssumption DEF Date, Unchecked

\* Where e is found, and what day it is of.
LEMMA SignalRow ==
  ASSUME NEW sg, NEW rows, NEW d, SignalsPast(sg, d), NEW e,
         NEW s \in Source, NEW n \in DOMAIN sg[s].fresh, e = <<s, n, 0>>
  PROVE  /\ FreshIn(e, sg, rows) = sg[s].fresh[n]
         /\ sg[s].fresh[n] \in Date /\ sg[s].fresh[n] <= d
<1>1. sg[s] \in Signal
  BY DEF SignalsPast
<1>2. sg[s].fresh \in Seq(Date)
  BY <1>1 DEF Signal
<1>3. sg[s].fresh[n] \in Date
  BY <1>2
<1>4. FreshIn(e, sg, rows) = sg[s].fresh[n]
  BY DEF FreshIn
<1> QED
  BY <1>3, <1>4 DEF SignalsPast

LEMMA FigureRow ==
  ASSUME NEW sg, NEW rows, NEW d, RowsPast(rows, d), NEW x \in rows
  PROVE  /\ FreshIn(x.id, sg, rows) = x.fresh
         /\ x.fresh \in Date /\ x.fresh <= d
<1>1. x \in Metric /\ \A y \in rows : y.id = x.id => y = x
  BY DEF RowsPast
<1>2. x.id[1] = "figure" /\ x.fresh \in Date
  BY <1>1 DEF Metric
<1>3. (CHOOSE y \in rows : y.id = x.id) = x
  BY <1>1
<1>4. FreshIn(x.id, sg, rows) = x.fresh
  BY <1>2, <1>3 DEF FreshIn, Source
<1> QED
  BY <1>2, <1>4 DEF RowsPast

LEMMA FreshIsPast ==
  ASSUME NEW sg, NEW rows, NEW d, SignalsPast(sg, d), RowsPast(rows, d),
         NEW e, Known(e, sg, rows)
  PROVE  FreshIn(e, sg, rows) \in Date /\ FreshIn(e, sg, rows) <= d
<1>1. CASE \E s \in Source : \E n \in DOMAIN sg[s].fresh : e = <<s, n, 0>>
  <2>0. PICK s \in Source : \E n \in DOMAIN sg[s].fresh : e = <<s, n, 0>>
    BY <1>1
  <2>1. PICK n \in DOMAIN sg[s].fresh : e = <<s, n, 0>>
    BY <2>0
  <2> QED
    BY <2>1, SignalRow
<1>2. CASE \E x \in rows : x.id = e
  <2>1. PICK x \in rows : x.id = e
    BY <1>2
  <2>2. FreshIn(x.id, sg, rows) = x.fresh /\ x.fresh \in Date /\ x.fresh <= d
    BY FigureRow
  <2> QED
    BY <2>1, <2>2
<1> QED
  BY <1>1, <1>2 DEF Known

LEMMA EvidenceLasts ==
  ASSUME NEW sg, NEW rows, NEW d, SignalsPast(sg, d), RowsPast(rows, d),
         NEW tg, NEW tows, NEW f, SignalsPast(tg, f), RowsPast(tows, f),
         SignalsGrow(sg, tg), RowsGrow(rows, tows),
         NEW e, Known(e, sg, rows)
  PROVE  Known(e, tg, tows) /\ FreshIn(e, sg, rows) <= FreshIn(e, tg, tows)
<1>1. CASE \E s \in Source : \E n \in DOMAIN sg[s].fresh : e = <<s, n, 0>>
  <2>0. PICK s \in Source : \E n \in DOMAIN sg[s].fresh : e = <<s, n, 0>>
    BY <1>1
  <2>1. PICK n \in DOMAIN sg[s].fresh : e = <<s, n, 0>>
    BY <2>0
  <2>2. n \in DOMAIN tg[s].fresh /\ sg[s].fresh[n] <= tg[s].fresh[n]
    BY DEF SignalsGrow
  <2>3. FreshIn(e, sg, rows) = sg[s].fresh[n] /\ FreshIn(e, tg, tows) = tg[s].fresh[n]
    BY <2>1, <2>2, SignalRow
  <2> QED
    BY <2>1, <2>2, <2>3 DEF Known
<1>2. CASE \E x \in rows : x.id = e
  <2>1. PICK x \in rows : x.id = e
    BY <1>2
  <2>2. PICK y \in tows : y.id = e /\ x.fresh <= y.fresh
    BY <2>1 DEF RowsGrow
  <2>3. FreshIn(x.id, sg, rows) = x.fresh /\ FreshIn(y.id, tg, tows) = y.fresh
    BY FigureRow
  <2> QED
    BY <2>1, <2>2, <2>3 DEF Known
<1> QED
  BY <1>1, <1>2 DEF Known

\* A brief and a request rest on it as well as they did.
LEMMA FreshLasts ==
  ASSUME NEW sg, NEW rows, NEW d, SignalsPast(sg, d), RowsPast(rows, d),
         NEW tg, NEW tows, NEW f, SignalsPast(tg, f), RowsPast(tows, f),
         SignalsGrow(sg, tg), RowsGrow(rows, tows),
         NEW body, \A k \in body : Founded(k, sg, rows)
  PROVE  /\ \A k \in body : Founded(k, tg, tows)
         /\ \A day \in Date : FreshOn(body, day, sg, rows) => FreshOn(body, day, tg, tows)
<1>1. ASSUME NEW k \in body, NEW e \in k.cites
      PROVE  /\ Known(e, tg, tows)
             /\ FreshIn(e, sg, rows) \in Nat /\ FreshIn(e, tg, tows) \in Nat
             /\ FreshIn(e, sg, rows) <= FreshIn(e, tg, tows)
  <2>1. Known(e, sg, rows)
    BY DEF Founded
  <2>2. Known(e, tg, tows) /\ FreshIn(e, sg, rows) <= FreshIn(e, tg, tows)
    BY <2>1, EvidenceLasts
  <2>3. FreshIn(e, sg, rows) \in Date /\ FreshIn(e, tg, tows) \in Date
    BY <2>1, <2>2, FreshIsPast
  <2> QED
    BY <2>2, <2>3, DatesAreNat
<1>2. \A k \in body : Founded(k, tg, tows)
  BY <1>1 DEF Founded
<1>3. ASSUME NEW day \in Date, FreshOn(body, day, sg, rows) PROVE FreshOn(body, day, tg, tows)
  <2> SUFFICES ASSUME NEW k \in body, NEW e \in k.cites
               PROVE  day <= FreshIn(e, tg, tows) + MaxAge
    BY DEF FreshOn
  <2>1. day <= FreshIn(e, sg, rows) + MaxAge
    BY <1>3 DEF FreshOn
  <2>2. day \in Nat /\ MaxAge \in Nat
    BY DatesAreNat
  <2> QED
    BY <1>1, <2>1, <2>2
<1> QED
  BY <1>2, <1>3

LEMMA BriefLasts ==
  ASSUME NEW sg, NEW rows, NEW d, SignalsPast(sg, d), RowsPast(rows, d),
         NEW tg, NEW tows, NEW f, SignalsPast(tg, f), RowsPast(tows, f),
         SignalsGrow(sg, tg), RowsGrow(rows, tows),
         NEW b, BriefOf(b, sg, rows)
  PROVE  BriefOf(b, tg, tows)
<1>1. PICK body : body = b.body
  OBVIOUS
<1>2. \A k \in body : Founded(k, sg, rows)
  BY <1>1 DEF BriefOf
<1>3. /\ \A k \in body : Founded(k, tg, tows)
      /\ \A day \in Date : FreshOn(body, day, sg, rows) => FreshOn(body, day, tg, tows)
  BY <1>2, FreshLasts
<1> QED
  BY <1>1, <1>3 DEF BriefOf

LEMMA DeskLasts ==
  ASSUME NEW sg, NEW rows, NEW d, SignalsPast(sg, d), RowsPast(rows, d),
         NEW tg, NEW tows, NEW f, SignalsPast(tg, f), RowsPast(tows, f),
         SignalsGrow(sg, tg), RowsGrow(rows, tows),
         NEW bs, \A n \in 1..MaxBrief : bs[n] # NoBrief => BriefOf(bs[n], sg, rows),
         NEW j, DeskOf(j, bs, sg, rows)
  PROVE  DeskOf(j, bs, tg, tows)
<1>1. CASE /\ j.doing = "approve"
           /\ j.brief \in 1..MaxBrief /\ bs[j.brief] # NoBrief
           /\ j.on \in Date /\ FreshOn(bs[j.brief].body, j.on, sg, rows)
  <2>1. PICK body : body = bs[j.brief].body
    OBVIOUS
  <2>2. \A k \in body : Founded(k, sg, rows)
    BY <1>1, <2>1 DEF BriefOf
  <2>3. FreshOn(body, j.on, tg, tows)
    BY <1>1, <2>1, <2>2, FreshLasts
  <2> QED
    BY <1>1, <2>1, <2>3 DEF DeskOf
<1>2. CASE ~(j.doing = "approve")
  BY <1>2 DEF DeskOf
<1> QED
  BY <1>1, <1>2 DEF DeskOf, Free

\* What a step that only adds and renews evidence has to show.
LEMMA EvidenceStep ==
  ASSUME BriefInv, briefs' = briefs, desk' = desk, date' \in Date,
         SignalsPast(signals', date'), RowsPast(metrics', date'),
         SignalsGrow(signals, signals'), RowsGrow(metrics, metrics'),
         turns' \in 0..MaxTurns, figure' \in Portfolio, risk' \in Risk
  PROVE  BriefInv'
<1>1. PICK sg, rows, d, bs : sg = signals /\ rows = metrics /\ d = date /\ bs = briefs
  OBVIOUS
<1>2. PICK tg, tows, f : tg = signals' /\ tows = metrics' /\ f = date'
  OBVIOUS
<1>3. /\ SignalsPast(sg, d) /\ RowsPast(rows, d) /\ SignalsPast(tg, f) /\ RowsPast(tows, f)
      /\ SignalsGrow(sg, tg) /\ RowsGrow(rows, tows)
      /\ \A n \in 1..MaxBrief : bs[n] # NoBrief => BriefOf(bs[n], sg, rows)
      /\ \A c \in Clerk : DeskOf(desk[c], bs, sg, rows)
  BY <1>1, <1>2 DEF BriefInv
<1>4. \A n \in 1..MaxBrief : bs[n] # NoBrief => BriefOf(bs[n], tg, tows)
  BY <1>3, BriefLasts
<1>5. \A c \in Clerk : DeskOf(desk[c], bs, tg, tows)
  BY <1>3, DeskLasts
<1> QED
  BY <1>1, <1>2, <1>4, <1>5 DEF BriefInv

-----------------------------------------------------------------------------
(* Steps that add and renew evidence.                                      *)

LEMMA RowsRest == ASSUME NEW rows, NEW d, RowsPast(rows, d) PROVE RowsGrow(rows, rows)
<1>1. \A x \in rows : x.fresh \in Nat
  BY DatesAreNat DEF RowsPast, Metric
<1> QED
  BY <1>1 DEF RowsGrow

LEMMA SignalsRest == ASSUME NEW sg, NEW d, SignalsPast(sg, d) PROVE SignalsGrow(sg, sg)
<1> SUFFICES ASSUME NEW s \in Source, NEW n \in DOMAIN sg[s].fresh
             PROVE  sg[s].fresh[n] <= sg[s].fresh[n]
  BY DEF SignalsGrow
<1>1. sg[s].fresh \in Seq(Date)
  BY DEF SignalsPast, Signal
<1>2. sg[s].fresh[n] \in Date
  BY <1>1
<1>3. sg[s].fresh[n] \in Nat
  BY <1>2, DatesAreNat
<1> QED
  BY <1>3

\* The row of one signal is replaced.
LEMMA SignalStep ==
  ASSUME NEW sg, NEW d \in Date, SignalsPast(sg, d), NEW s \in Source, NEW r \in Signal,
         \A n \in DOMAIN r.fresh : r.fresh[n] <= d,
         \A n \in DOMAIN sg[s].fresh : n \in DOMAIN r.fresh /\ sg[s].fresh[n] <= r.fresh[n],
         NEW tg, tg = [sg EXCEPT ![s] = r]
  PROVE  SignalsPast(tg, d) /\ SignalsGrow(sg, tg)
<1>1. /\ tg \in [Source -> Signal] /\ tg[s] = r
      /\ \A x \in Source \ {s} : tg[x] = sg[x]
  BY DEF SignalsPast
<1>2. SignalsPast(tg, d)
  BY <1>1 DEF SignalsPast
<1>3. SignalsGrow(sg, sg)
  BY SignalsRest
<1>4. SignalsGrow(sg, tg)
  BY <1>1, <1>3 DEF SignalsGrow
<1> QED
  BY <1>2, <1>4

\* Evidence of a statement is added, or made fresh.
LEMMA FreshAgain ==
  ASSUME NEW old \in Seq(Date), NEW d \in Date, \A n \in DOMAIN old : old[n] <= d,
         NEW new, \/ new = Append(old, d)
                  \/ \E n \in DOMAIN old : new = [old EXCEPT ![n] = d]
  PROVE  /\ new \in Seq(Date)
         /\ \A n \in DOMAIN new : new[n] <= d
         /\ \A n \in DOMAIN old : n \in DOMAIN new /\ old[n] <= new[n]
<1>1. d \in Nat /\ \A n \in DOMAIN old : old[n] \in Nat
  BY DatesAreNat
<1>2. CASE new = Append(old, d)
  BY <1>1, <1>2
<1>3. CASE \E n \in DOMAIN old : new = [old EXCEPT ![n] = d]
  <2>1. PICK n \in DOMAIN old : new = [old EXCEPT ![n] = d]
    BY <1>3
  <2>2. DOMAIN new = DOMAIN old /\ new[n] = d /\ \A m \in DOMAIN old \ {n} : new[m] = old[m]
    BY <2>1
  <2>3. new \in Seq(Date)
    BY <2>1
  <2> QED
    BY <1>1, <2>2, <2>3
<1> QED
  BY <1>2, <1>3

LEMMA DetectedStep ==
  ASSUME date \in Date, SignalsPast(signals, date), NEW s \in Source, NEW tg \in Detected(s)
  PROVE  SignalsPast(tg, date) /\ SignalsGrow(signals, tg)
<1> DEFINE old == signals[s].fresh
<1>1. PICK new \in {Append(old, date)} \cup {[old EXCEPT ![n] = date] : n \in DOMAIN old} :
        tg = [signals EXCEPT ![s] =
               [state |-> "active", fresh |-> new,
                review |-> IF signals[s].state = "absent" /\ s = "llm" THEN "pending"
                           ELSE signals[s].review]]
  BY DEF Detected
<1>2. PICK r : r = [state |-> "active", fresh |-> new,
                    review |-> IF signals[s].state = "absent" /\ s = "llm" THEN "pending"
                               ELSE signals[s].review]
  OBVIOUS
<1>3. /\ signals[s] \in Signal /\ old \in Seq(Date) /\ \A n \in DOMAIN old : old[n] <= date
  BY DEF SignalsPast, Signal
<1>4. /\ new \in Seq(Date) /\ \A n \in DOMAIN new : new[n] <= date
      /\ \A n \in DOMAIN old : n \in DOMAIN new /\ old[n] <= new[n]
  <2>1. \/ new = Append(old, date)
        \/ \E n \in DOMAIN old : new = [old EXCEPT ![n] = date]
    BY <1>1
  <2> HIDE DEF old
  <2> QED
    BY <1>3, <2>1, FreshAgain
<1>5. r \in Signal /\ r.fresh = new
  BY <1>2, <1>3, <1>4 DEF Signal
<1> QED
  BY <1>1, <1>2, <1>3, <1>4, <1>5, SignalStep

\* The row of a signal changes, its evidence does not.
LEMMA RowStep ==
  ASSUME date \in Date, SignalsPast(signals, date), NEW s \in Source, NEW r \in Signal,
         r.fresh = signals[s].fresh, NEW tg, tg = [signals EXCEPT ![s] = r]
  PROVE  SignalsPast(tg, date) /\ SignalsGrow(signals, tg)
<1>1. SignalsGrow(signals, signals)
  BY SignalsRest
<1>2. /\ \A n \in DOMAIN r.fresh : r.fresh[n] <= date
      /\ \A n \in DOMAIN signals[s].fresh :
           n \in DOMAIN r.fresh /\ signals[s].fresh[n] <= r.fresh[n]
  BY <1>1 DEF SignalsPast, SignalsGrow
<1> QED
  BY <1>2, SignalStep

LEMMA NextDateKeeps == BriefInv /\ NextDate => BriefInv'
<1> SUFFICES ASSUME BriefInv, NextDate PROVE BriefInv'
  OBVIOUS
<1>1. date' = date + 1 /\ date \in Nat /\ date' \in Date
  BY BriefAssumption DEF BriefInv, NextDate, Date
<1>2. /\ signals' = signals /\ metrics' = metrics
      /\ UNCHANGED <<figure, risk, briefs, desk, turns>>
  BY DEF NextDate
<1>3. SignalsPast(signals, date')
  <2> SUFFICES ASSUME NEW s \in Source, NEW n \in DOMAIN signals[s].fresh
               PROVE  signals[s].fresh[n] <= date'
    BY DEF SignalsPast, BriefInv
  <2>1. signals[s].fresh \in Seq(Date) /\ signals[s].fresh[n] <= date
    BY DEF SignalsPast, BriefInv, Signal
  <2>2. signals[s].fresh[n] \in Nat
    <3>1. signals[s].fresh[n] \in Date
      BY <2>1
    <3> QED
      BY <3>1, DatesAreNat
  <2> QED
    BY <1>1, <2>1, <2>2
<1>4. RowsPast(metrics, date')
  <2>1. ASSUME NEW x \in metrics PROVE x.fresh <= date'
    <3>1. x.fresh \in Nat /\ x.fresh <= date
      BY DatesAreNat DEF BriefInv, RowsPast, Metric
    <3> QED
      BY <1>1, <3>1
  <2> QED
    BY <2>1 DEF BriefInv, RowsPast
<1>5. SignalsGrow(signals, signals) /\ RowsGrow(metrics, metrics)
  BY SignalsRest, RowsRest DEF BriefInv
<1> QED
  BY <1>1, <1>2, <1>3, <1>4, <1>5, EvidenceStep DEF BriefInv

\* Steps of a day that leave the rows of figures alone.
LEMMA PortfolioStep ==
  ASSUME BriefInv, Turn, UNCHANGED <<date, metrics, briefs, desk>>,
         SignalsPast(signals', date), SignalsGrow(signals, signals'),
         figure' \in Portfolio, risk' \in Risk
  PROVE  BriefInv'
<1>1. turns' \in 0..MaxTurns
  BY BriefAssumption DEF BriefInv, Turn
<1>2. RowsGrow(metrics, metrics) /\ RowsPast(metrics, date) /\ date \in Date
  BY RowsRest DEF BriefInv
<1>3. date' = date /\ metrics' = metrics /\ briefs' = briefs /\ desk' = desk
  OBVIOUS
<1> QED
  BY <1>1, <1>2, <1>3, EvidenceStep

LEMMA PortfolioChangesKeeps == BriefInv /\ PortfolioChanges => BriefInv'
<1> SUFFICES ASSUME BriefInv, PortfolioChanges PROVE BriefInv'
  OBVIOUS
<1>1. SignalsGrow(signals, signals) /\ SignalsPast(signals, date) /\ risk \in Risk
  BY SignalsRest DEF BriefInv
<1>2. /\ Turn /\ UNCHANGED <<date, metrics, briefs, desk>>
      /\ figure' \in Portfolio /\ signals' = signals /\ risk' = risk
  BY DEF PortfolioChanges, Portfolio
<1> QED
  BY <1>1, <1>2, PortfolioStep

LEMMA AnalyzeTicketKeeps == BriefInv /\ AnalyzeTicket => BriefInv'
<1> SUFFICES ASSUME BriefInv, AnalyzeTicket PROVE BriefInv'
  OBVIOUS
<1>1. PICK tg \in Detected("llm") : signals' = tg
  BY DEF AnalyzeTicket
<1>2. SignalsPast(tg, date) /\ SignalsGrow(signals, tg)
  BY DetectedStep DEF BriefInv, Source
<1>3. /\ Turn /\ UNCHANGED <<date, metrics, briefs, desk>>
      /\ figure' \in Portfolio /\ risk' \in Risk
  BY DEF AnalyzeTicket, BriefInv
<1> QED
  BY <1>1, <1>2, <1>3, PortfolioStep

LEMMA ReviewFindingKeeps == BriefInv /\ ReviewFinding => BriefInv'
<1> SUFFICES ASSUME BriefInv, ReviewFinding PROVE BriefInv'
  OBVIOUS
<1>1. PICK outcome \in {"confirmed", "rejected"} :
        signals' = [signals EXCEPT !["llm"].review = outcome]
  BY DEF ReviewFinding
<1>2. PICK r : r = [signals["llm"] EXCEPT !.review = outcome]
  OBVIOUS
<1>3. "llm" \in Source /\ signals["llm"] \in Signal /\ signals \in [Source -> Signal]
  BY DEF BriefInv, SignalsPast, Source
<1>4. r \in Signal /\ r.fresh = signals["llm"].fresh
  BY <1>2, <1>3 DEF Signal
<1>5. PICK tg : tg = signals' /\ tg = [signals EXCEPT !["llm"] = r]
  BY <1>1, <1>2, <1>3
<1>6. SignalsPast(tg, date) /\ SignalsGrow(signals, tg)
  BY <1>3, <1>4, <1>5, RowStep DEF BriefInv
<1>7. /\ Turn /\ UNCHANGED <<date, metrics, briefs, desk>>
      /\ figure' \in Portfolio /\ risk' \in Risk
  BY DEF ReviewFinding, BriefInv
<1> QED
  BY <1>5, <1>6, <1>7, PortfolioStep

LEMMA EvaluateKeeps == BriefInv /\ Evaluate => BriefInv'
<1> SUFFICES ASSUME BriefInv, Evaluate PROVE BriefInv'
  OBVIOUS
<1>1. PICK tg \in Detected("rule") \cup {[signals EXCEPT !["rule"].state = "resolved"]} :
        LET active == {s \in Source : tg[s].state = "active"} IN
        /\ signals' = tg
        /\ risk' \in {NoRisk} \cup {[leads |-> s, cites |-> active] : s \in active}
  BY DEF Evaluate
<1>2. signals' = tg /\ risk' \in Risk
  BY <1>1 DEF Risk, NoRisk
<1>3. SignalsPast(tg, date) /\ SignalsGrow(signals, tg)
  <2>1. CASE tg \in Detected("rule")
    BY <2>1, DetectedStep DEF BriefInv, Source
  <2>2. CASE tg = [signals EXCEPT !["rule"].state = "resolved"]
    <3>1. PICK r : r = [signals["rule"] EXCEPT !.state = "resolved"]
      OBVIOUS
    <3>2. "rule" \in Source /\ signals["rule"] \in Signal /\ signals \in [Source -> Signal]
      BY DEF BriefInv, SignalsPast, Source
    <3>3. r \in Signal /\ r.fresh = signals["rule"].fresh
      BY <3>1, <3>2 DEF Signal
    <3>4. tg = [signals EXCEPT !["rule"] = r]
      BY <2>2, <3>1, <3>2
    <3> QED
      BY <3>2, <3>3, <3>4, RowStep DEF BriefInv
  <2> QED
    BY <1>1, <2>1, <2>2
<1>4. Turn /\ UNCHANGED <<date, metrics, briefs, desk>> /\ figure' \in Portfolio
  BY DEF Evaluate, BriefInv
<1> QED
  BY <1>2, <1>3, <1>4, PortfolioStep

-----------------------------------------------------------------------------
(* Steps of a request.                                                     *)

\* What may become of a brief.
Follows(b, c) ==
  b # NoBrief => /\ c # NoBrief /\ c.body = b.body
                 /\ b.state # "draft" => c.state # "draft"

LEMMA DeskFollows ==
  ASSUME NEW sg, NEW rows, NEW bs, NEW cs,
         \A n \in 1..MaxBrief : Follows(bs[n], cs[n]),
         NEW j, DeskOf(j, bs, sg, rows)
  PROVE  DeskOf(j, cs, sg, rows)
<1>1. CASE j = Free \/ (j.doing = "generate" /\ j.figure \in Portfolio /\ j.risk \in Risk)
  BY <1>1 DEF DeskOf
<1>2. CASE /\ j.doing = "approve"
           /\ j.brief \in 1..MaxBrief /\ bs[j.brief] # NoBrief
           /\ j.on \in Date /\ FreshOn(bs[j.brief].body, j.on, sg, rows)
  <2>1. cs[j.brief] # NoBrief /\ cs[j.brief].body = bs[j.brief].body
    BY <1>2 DEF Follows
  <2> QED
    BY <1>2, <2>1 DEF DeskOf
<1>3. CASE /\ j.doing = "distribute"
           /\ j.brief \in 1..MaxBrief /\ bs[j.brief] # NoBrief /\ bs[j.brief].state # "draft"
  BY <1>3 DEF DeskOf, Follows
<1> QED
  BY <1>1, <1>2, <1>3 DEF DeskOf

LEMMA RequestStep ==
  ASSUME BriefInv, UNCHANGED <<date, figure, signals, risk, turns>>,
         RowsPast(metrics', date), RowsGrow(metrics, metrics'),
         DOMAIN briefs' = 1..MaxBrief,
         \A n \in 1..MaxBrief :
           /\ Follows(briefs[n], briefs'[n])
           /\ briefs'[n] = briefs[n] \/ BriefOf(briefs'[n], signals, metrics'),
         NEW c \in Clerk, NEW J, desk' = [desk EXCEPT ![c] = J],
         DeskOf(J, briefs', signals, metrics')
  PROVE  BriefInv'
<1>1. PICK sg, rows, tows, d, bs, cs :
        /\ sg = signals /\ rows = metrics /\ tows = metrics' /\ d = date
        /\ bs = briefs /\ cs = briefs'
  OBVIOUS
<1>2. /\ SignalsPast(sg, d) /\ RowsPast(rows, d) /\ RowsPast(tows, d) /\ RowsGrow(rows, tows)
      /\ SignalsGrow(sg, sg)
      /\ \A n \in 1..MaxBrief : bs[n] # NoBrief => BriefOf(bs[n], sg, rows)
      /\ \A x \in Clerk : DeskOf(desk[x], bs, sg, rows)
      /\ DOMAIN desk = Clerk
  BY <1>1, SignalsRest DEF BriefInv
<1>3. \A n \in 1..MaxBrief : bs[n] # NoBrief => BriefOf(bs[n], sg, tows)
  BY <1>2, BriefLasts
<1>4. \A x \in Clerk : DeskOf(desk[x], bs, sg, tows)
  BY <1>2, DeskLasts
<1>5. \A n \in 1..MaxBrief : Follows(bs[n], cs[n])
  BY <1>1
<1>6. \A x \in Clerk : DeskOf(desk[x], cs, sg, tows)
  BY <1>4, <1>5, DeskFollows
<1>7. \A n \in 1..MaxBrief : cs[n] # NoBrief => BriefOf(cs[n], sg, tows)
  BY <1>1, <1>3
<1>8. DOMAIN desk' = Clerk /\ \A x \in Clerk : DeskOf(desk'[x], cs, sg, tows)
  <2>1. DOMAIN desk' = Clerk /\ desk'[c] = J /\ \A x \in Clerk \ {c} : desk'[x] = desk[x]
    BY <1>2
  <2> QED
    BY <1>1, <1>6, <2>1
<1> QED
  BY <1>1, <1>2, <1>7, <1>8 DEF BriefInv

\* A request that writes no row.
LEMMA QuietRequest ==
  ASSUME BriefInv, UNCHANGED <<date, figure, signals, risk, metrics, briefs, turns>>,
         NEW c \in Clerk, NEW J, desk' = [desk EXCEPT ![c] = J],
         DeskOf(J, briefs, signals, metrics)
  PROVE  BriefInv'
<1>1. RowsPast(metrics, date) /\ RowsGrow(metrics, metrics) /\ DOMAIN briefs = 1..MaxBrief
  BY RowsRest DEF BriefInv
<1>2. /\ metrics' = metrics /\ briefs' = briefs
      /\ \A n \in 1..MaxBrief : Follows(briefs[n], briefs[n])
      /\ UNCHANGED <<date, figure, signals, risk, turns>>
  BY DEF Follows
<1> QED
  BY <1>1, <1>2, RequestStep

\* A request that writes a brief and is done with it.
LEMMA BriefWritten ==
  ASSUME BriefInv, UNCHANGED <<date, figure, signals, risk, turns>>,
         RowsPast(metrics', date), RowsGrow(metrics, metrics'),
         NEW n \in 1..MaxBrief, NEW B, briefs' = [briefs EXCEPT ![n] = B],
         Follows(briefs[n], B), BriefOf(B, signals, metrics'),
         NEW c \in Clerk, desk' = [desk EXCEPT ![c] = Free]
  PROVE  BriefInv'
<1>1. DOMAIN briefs = 1..MaxBrief
  BY DEF BriefInv
<1>2. /\ DOMAIN briefs' = 1..MaxBrief /\ briefs'[n] = B
      /\ \A m \in 1..MaxBrief \ {n} : briefs'[m] = briefs[m]
  BY <1>1
<1>3. \A m \in 1..MaxBrief : Follows(briefs[m], briefs[m])
  BY DEF Follows
<1>4. \A m \in 1..MaxBrief :
        /\ Follows(briefs[m], briefs'[m])
        /\ briefs'[m] = briefs[m] \/ BriefOf(briefs'[m], signals, metrics')
  BY <1>2, <1>3
<1>5. PICK J : J = Free /\ DeskOf(J, briefs', signals, metrics')
  BY DEF DeskOf
<1>6. desk' = [desk EXCEPT ![c] = J]
  BY <1>5
<1> QED
  BY <1>2, <1>4, <1>5, <1>6, RequestStep

LEMMA GenerateReadKeeps ==
  ASSUME BriefInv, NEW c \in Clerk, GenerateRead(c)
  PROVE  BriefInv'
<1>1. PICK J : J = [doing |-> "generate", figure |-> figure, risk |-> risk]
  OBVIOUS
<1>2. DeskOf(J, briefs, signals, metrics)
  BY <1>1 DEF DeskOf, BriefInv
<1>3. /\ desk' = [desk EXCEPT ![c] = J]
      /\ UNCHANGED <<date, figure, signals, risk, metrics, briefs, turns>>
  BY <1>1 DEF GenerateRead
<1> QED
  BY <1>2, <1>3, QuietRequest

LEMMA RequestDiesKeeps ==
  ASSUME BriefInv, NEW c \in Clerk, RequestDies(c)
  PROVE  BriefInv'
<1>1. PICK J : J = Free
  OBVIOUS
<1>2. DeskOf(J, briefs, signals, metrics)
  BY <1>1 DEF DeskOf
<1>3. /\ desk' = [desk EXCEPT ![c] = J]
      /\ UNCHANGED <<date, figure, signals, risk, metrics, briefs, turns>>
  BY <1>1 DEF RequestDies
<1> QED
  BY <1>2, <1>3, QuietRequest

\* verify_claim compares ages: what passes is fresh on the day.
LEMMA VerifiedIsFresh ==
  ASSUME NEW rows, date \in Date, SignalsPast(signals, date), RowsPast(rows, date),
         NEW k, Verified(k, rows), NEW e \in k.cites, Known(e, signals, rows)
  PROVE  date <= FreshIn(e, signals, rows) + MaxAge
<1>1. FreshIn(e, signals, rows) \in Nat /\ date \in Nat /\ MaxAge \in Nat
  BY FreshIsPast, DatesAreNat
<1>2. date - FreshIn(e, signals, rows) <= MaxAge
  BY DEF Verified, FreshAt, FreshIn
<1> QED
  BY <1>1, <1>2

LEMMA ApproveCheckKeeps ==
  ASSUME BriefInv, NEW c \in Clerk, ApproveCheck(c)
  PROVE  BriefInv'
<1>1. PICK n \in 1..MaxBrief :
        /\ briefs[n].state = "draft" /\ Passes(n)
        /\ desk' = [desk EXCEPT ![c] = [doing |-> "approve", brief |-> n, on |-> date]]
  BY DEF ApproveCheck
<1>2. PICK J : J = [doing |-> "approve", brief |-> n, on |-> date]
  OBVIOUS
<1>3. briefs[n] # NoBrief /\ BriefOf(briefs[n], signals, metrics)
  BY <1>1 DEF NoBrief, BriefInv
<1>4. FreshOn(briefs[n].body, date, signals, metrics)
  <2> SUFFICES ASSUME NEW k \in briefs[n].body, NEW e \in k.cites
               PROVE  date <= FreshIn(e, signals, metrics) + MaxAge
    BY DEF FreshOn
  <2>1. Known(e, signals, metrics)
    BY <1>3 DEF BriefOf, Founded
  <2>2. Verified(k, metrics)
    BY <1>1 DEF Passes
  <2> QED
    BY <2>1, <2>2, VerifiedIsFresh DEF BriefInv
<1>5. DeskOf(J, briefs, signals, metrics)
  BY <1>2, <1>3, <1>4 DEF DeskOf, BriefInv
<1>6. /\ desk' = [desk EXCEPT ![c] = J]
      /\ UNCHANGED <<date, figure, signals, risk, metrics, briefs, turns>>
  BY <1>1, <1>2 DEF ApproveCheck
<1> QED
  BY <1>5, <1>6, QuietRequest

LEMMA DistributeReadKeeps ==
  ASSUME BriefInv, NEW c \in Clerk, DistributeRead(c)
  PROVE  BriefInv'
<1>1. PICK n \in 1..MaxBrief :
        Sendable(n) /\ desk' = [desk EXCEPT ![c] = [doing |-> "distribute", brief |-> n]]
  BY DEF DistributeRead
<1>2. PICK J : J = [doing |-> "distribute", brief |-> n]
  OBVIOUS
<1>3. briefs[n] # NoBrief /\ briefs[n].state # "draft"
  BY <1>1 DEF Sendable, NoBrief
<1>4. DeskOf(J, briefs, signals, metrics)
  BY <1>2, <1>3 DEF DeskOf
<1>5. /\ desk' = [desk EXCEPT ![c] = J]
      /\ UNCHANGED <<date, figure, signals, risk, metrics, briefs, turns>>
  BY <1>1, <1>2 DEF DistributeRead
<1> QED
  BY <1>4, <1>5, QuietRequest

LEMMA ApproveWriteKeeps ==
  ASSUME BriefInv, NEW c \in Clerk, ApproveWrite(c)
  PROVE  BriefInv'
<1>1. /\ desk[c].doing = "approve"
      /\ briefs' = [briefs EXCEPT ![desk[c].brief].state = "approved",
                                 ![desk[c].brief].checked = desk[c].on]
      /\ desk' = [desk EXCEPT ![c] = Free]
      /\ UNCHANGED <<date, figure, signals, risk, metrics, turns>>
  BY DEF ApproveWrite
<1>2. /\ desk[c].brief \in 1..MaxBrief /\ briefs[desk[c].brief] # NoBrief
      /\ desk[c].on \in Date
      /\ FreshOn(briefs[desk[c].brief].body, desk[c].on, signals, metrics)
  BY <1>1 DEF BriefInv, DeskOf, Free
<1>3. PICK n \in 1..MaxBrief : n = desk[c].brief
  BY <1>2
<1>4. PICK b : b = briefs[n]
  OBVIOUS
<1>5. PICK on \in Date : on = desk[c].on
  BY <1>2
<1>6. PICK B : B = [b EXCEPT !.state = "approved", !.checked = on]
  OBVIOUS
<1>7. BriefOf(b, signals, metrics) /\ b # NoBrief /\ FreshOn(b.body, on, signals, metrics)
  BY <1>2, <1>3, <1>4, <1>5 DEF BriefInv
<1>8. /\ B.state = "approved" /\ B.checked = on /\ DOMAIN B = DOMAIN b
      /\ B.sends = b.sends /\ B.body = b.body /\ B.pending = b.pending
  BY <1>6, <1>7 DEF BriefOf
<1>9. BriefOf(B, signals, metrics) /\ Follows(b, B)
  BY <1>7, <1>8 DEF BriefOf, Follows, NoBrief
<1>10. briefs' = [briefs EXCEPT ![n] = B]
  BY <1>1, <1>3, <1>4, <1>5, <1>6 DEF BriefInv
<1>11. RowsPast(metrics, date) /\ RowsGrow(metrics, metrics) /\ metrics' = metrics
  BY <1>1, RowsRest DEF BriefInv
<1> QED
  BY <1>1, <1>4, <1>9, <1>10, <1>11, BriefWritten

LEMMA DistributeWriteKeeps ==
  ASSUME BriefInv, NEW c \in Clerk, DistributeWrite(c)
  PROVE  BriefInv'
<1>1. /\ desk[c].doing = "distribute"
      /\ briefs' = [briefs EXCEPT ![desk[c].brief].state = "distributed",
                                 ![desk[c].brief].sends = @ + 1]
      /\ desk' = [desk EXCEPT ![c] = Free]
      /\ UNCHANGED <<date, figure, signals, risk, metrics, turns>>
  BY DEF DistributeWrite
<1>2. /\ desk[c].brief \in 1..MaxBrief /\ briefs[desk[c].brief] # NoBrief
      /\ briefs[desk[c].brief].state # "draft"
  BY <1>1 DEF BriefInv, DeskOf, Free
<1>3. PICK n \in 1..MaxBrief : n = desk[c].brief
  BY <1>2
<1>4. PICK b : b = briefs[n]
  OBVIOUS
<1>5. PICK B : B = [b EXCEPT !.state = "distributed", !.sends = b.sends + 1]
  OBVIOUS
<1>6. BriefOf(b, signals, metrics) /\ b # NoBrief /\ b.state # "draft"
  BY <1>2, <1>3, <1>4 DEF BriefInv
<1>7. /\ B.state = "distributed" /\ B.checked = b.checked /\ DOMAIN B = DOMAIN b
      /\ B.sends = b.sends + 1 /\ B.body = b.body /\ B.pending = b.pending
  BY <1>5, <1>6 DEF BriefOf
<1>8. BriefOf(B, signals, metrics) /\ Follows(b, B)
  BY <1>6, <1>7 DEF BriefOf, Follows, NoBrief
<1>9. briefs' = [briefs EXCEPT ![n] = B]
  BY <1>1, <1>3, <1>4, <1>5, <1>6 DEF BriefInv, BriefOf
<1>10. RowsPast(metrics, date) /\ RowsGrow(metrics, metrics) /\ metrics' = metrics
  BY <1>1, RowsRest DEF BriefInv
<1> QED
  BY <1>1, <1>4, <1>8, <1>9, <1>10, BriefWritten

\* The evidence of a figure: its row is renewed, or added under an id of its own.
LEMMA RegisteredStep ==
  ASSUME BriefInv, NEW f \in Portfolio, NEW rows, rows = Registered(f)
  PROVE  /\ RowsPast(rows, date) /\ RowsGrow(metrics, rows)
         /\ \E x \in rows : x.id = Hash(f)
<1>1. /\ RowsPast(metrics, date) /\ RowsGrow(metrics, metrics) /\ date \in Date /\ date \in Nat
      /\ f.cents \in Amount
  BY RowsRest, DatesAreNat DEF BriefInv, Portfolio
<1>2. PICK h : h = Hash(f)
  OBVIOUS
<1>3. h \in {"figure"} \X Amount \X Date /\ h[2] = f.cents
  BY <1>1, <1>2 DEF Hash
<1>4. date <= date
  BY <1>1
<1>5. CASE \E x \in metrics : x.id = h
  <2>1. PICK x \in metrics : x.id = h
    BY <1>5
  <2>2. x \in Metric /\ x.fresh <= date /\ x.id[2] = x.of.cents
        /\ \A y \in metrics : y.id = h => y = x
    BY <1>1, <2>1 DEF RowsPast
  <2>3. {y \in metrics : y.id = h} = {x}
    BY <2>1, <2>2
  <2>4. PICK y : y = [x EXCEPT !.fresh = date]
    OBVIOUS
  <2>5. rows = (metrics \ {x}) \cup {y}
    BY <1>2, <2>3, <2>4 DEF Registered
  <2>6. y \in Metric /\ y.id = h /\ y.of = x.of /\ y.fresh = date
    BY <1>1, <2>1, <2>2, <2>4 DEF Metric
  <2>7. RowsPast(rows, date)
    BY <1>1, <1>4, <2>1, <2>2, <2>5, <2>6 DEF RowsPast
  <2>8. RowsGrow(metrics, rows)
    BY <1>1, <2>1, <2>2, <2>5, <2>6 DEF RowsGrow
  <2> QED
    BY <1>2, <2>5, <2>6, <2>7, <2>8
<1>6. CASE ~\E x \in metrics : x.id = h
  <2>1. PICK y : y = [id |-> h, of |-> f, fresh |-> date]
    OBVIOUS
  <2>2. rows = metrics \cup {y}
    BY <1>2, <1>6, <2>1 DEF Registered
  <2>3. y \in Metric /\ y.id = h /\ y.of = f /\ y.fresh = date
    BY <1>1, <1>3, <2>1 DEF Metric
  <2>4. RowsPast(rows, date)
    BY <1>1, <1>3, <1>4, <1>6, <2>2, <2>3 DEF RowsPast
  <2>5. RowsGrow(metrics, rows)
    BY <1>1, <2>2 DEF RowsGrow
  <2> QED
    BY <1>2, <2>2, <2>3, <2>4, <2>5
<1> QED
  BY <1>5, <1>6

LEMMA GenerateWriteKeeps ==
  ASSUME BriefInv, NEW c \in Clerk, GenerateWrite(c)
  PROVE  BriefInv'
<1>1. desk[c].doing = "generate" /\ desk[c].figure \in Portfolio /\ desk[c].risk \in Risk
  BY DEF GenerateWrite, BriefInv, DeskOf, Free
<1>2. PICK f \in Portfolio : f = desk[c].figure
  BY <1>1
<1>3. PICK r \in Risk : r = desk[c].risk
  BY <1>1
<1>4. PICK rows : rows = Registered(f)
  OBVIOUS
<1>5. PICK k : k = FigureClaim(f, {Hash(f)})
  OBVIOUS
<1>6. PICK l : l = RiskClaim(r, UNION {EvidenceOf(s) : s \in {x \in r.cites : Citable(x)}})
  OBVIOUS
<1>7. PICK n \in 1..MaxBrief :
        /\ briefs[n] = NoBrief /\ metrics' = rows
        /\ briefs' = [briefs EXCEPT ![n] =
             [state |-> "draft", checked |-> Unchecked, sends |-> 0,
              body |-> {x \in {k, l} : Verified(x, rows)},
              pending |-> {s \in r.cites : signals[s].state = "active" /\ ~Citable(s)}]]
        /\ desk' = [desk EXCEPT ![c] = Free]
        /\ UNCHANGED <<date, figure, signals, risk, turns>>
  BY <1>2, <1>3, <1>4, <1>5, <1>6 DEF GenerateWrite
<1>8. PICK B : B = [state |-> "draft", checked |-> Unchecked, sends |-> 0,
                    body |-> {x \in {k, l} : Verified(x, rows)},
                    pending |-> {s \in r.cites : signals[s].state = "active" /\ ~Citable(s)}]
  OBVIOUS
<1>9. /\ RowsPast(rows, date) /\ RowsGrow(metrics, rows) /\ \E x \in rows : x.id = Hash(f)
  BY <1>4, RegisteredStep
<1>10. Verified(k, rows) => Founded(k, signals, rows)
  <2>1. k.cites = {Hash(f)} /\ k.of = f /\ Hash(f) = <<"figure", f.cents, date>>
    BY <1>5 DEF FigureClaim, Hash
  <2>2. date \in Date
    BY DEF BriefInv
  <2> QED
    BY <1>9, <2>1, <2>2 DEF Verified, Founded, Known
<1>11. Verified(l, rows) => Founded(l, signals, rows)
  <2>1. l.cites = UNION {EvidenceOf(s) : s \in {x \in r.cites : Citable(x)}} /\ l.about = "risk"
    BY <1>6 DEF RiskClaim
  <2>2. r.cites \subseteq Source
    BY DEF Risk
  <2>3. \A e \in l.cites : Known(e, signals, rows)
    BY <2>1, <2>2 DEF EvidenceOf, Known
  <2> QED
    BY <2>1, <2>3 DEF Verified, Founded
<1>12. BriefOf(B, signals, rows)
  <2>1. /\ DOMAIN B = {"state", "checked", "sends", "body", "pending"}
        /\ B.state = "draft" /\ B.checked = Unchecked /\ B.sends = 0
        /\ B.body = {x \in {k, l} : Verified(x, rows)}
        /\ B.pending = {s \in r.cites : signals[s].state = "active" /\ ~Citable(s)}
    BY <1>8
  <2>2. \A x \in B.body : Founded(x, signals, rows)
    BY <1>10, <1>11, <2>1
  <2>3. B.pending \subseteq Source
    BY <2>1 DEF Risk
  <2> QED
    BY <2>1, <2>2, <2>3 DEF BriefOf
<1>13. Follows(briefs[n], B)
  BY <1>7 DEF Follows
<1>14. briefs' = [briefs EXCEPT ![n] = B]
  BY <1>7, <1>8
<1> QED
  BY <1>7, <1>9, <1>12, <1>13, <1>14, BriefWritten

LEMMA BriefInitially == BriefInit => BriefInv
<1> SUFFICES ASSUME BriefInit PROVE BriefInv
  OBVIOUS
<1>1. 0 \in Date /\ 0 \in 0..MaxTurns
  BY BriefAssumption DEF Date
<1>2. SignalsPast(signals, date)
  <2>1. Quiet \in Signal /\ DOMAIN Quiet.fresh = {}
    BY DEF Quiet, Signal
  <2>2. ASSUME NEW r \in Earlier
        PROVE  r \in Signal /\ \A n \in DOMAIN r.fresh : r.fresh[n] <= 0
    <3>1. CASE r = Quiet
      BY <2>1, <3>1
    <3>2. CASE r \in [state : {"active"}, review : {"pending", "confirmed"}, fresh : {<<0>>}]
      <4>1. <<0>> \in Seq(Date) /\ \A n \in DOMAIN <<0>> : <<0>>[n] <= 0
        BY <1>1
      <4> QED
        BY <3>2, <4>1 DEF Signal
    <3> QED
      BY <2>2, <3>1, <3>2 DEF Earlier
  <2>3. PICK found \in Earlier : signals = [s \in Source |-> IF s = "llm" THEN found ELSE Quiet]
    BY DEF BriefInit
  <2> QED
    BY <2>1, <2>2, <2>3 DEF BriefInit, SignalsPast
<1>3. risk \in Risk /\ RowsPast(metrics, date) /\ figure \in Portfolio
  BY DEF BriefInit, Risk, NoRisk, RowsPast, Portfolio
<1> QED
  BY <1>1, <1>2, <1>3 DEF BriefInit, BriefInv, DeskOf

LEMMA BriefStep == BriefInv /\ [BriefNext]_briefVars => BriefInv'
<1> SUFFICES ASSUME BriefInv, [BriefNext]_briefVars PROVE BriefInv'
  OBVIOUS
<1>1. CASE UNCHANGED briefVars
  BY <1>1 DEF briefVars, BriefInv
<1>2. CASE BriefNext
  BY <1>2, NextDateKeeps, PortfolioChangesKeeps, AnalyzeTicketKeeps, ReviewFindingKeeps,
     EvaluateKeeps, GenerateReadKeeps, GenerateWriteKeeps, ApproveCheckKeeps, ApproveWriteKeeps,
     DistributeReadKeeps, DistributeWriteKeeps, RequestDiesKeeps DEF BriefNext
<1> QED
  BY <1>1, <1>2

LEMMA BriefInvariant == BriefSpec => []BriefInv
  BY BriefInitially, BriefStep, PTL DEF BriefSpec

LEMMA BriefIsTyped == BriefInv => BriefTypeOK
<1> SUFFICES ASSUME BriefInv PROVE BriefTypeOK
  OBVIOUS
<1>1. signals \in [Source -> Signal] /\ risk.cites \subseteq Source
  BY DEF BriefInv, SignalsPast, Risk
<1>2. \A n \in Written :
        /\ briefs[n].state \in {"draft", "approved", "distributed"}
        /\ briefs[n].checked \in Date \cup {Unchecked} /\ briefs[n].sends \in Nat
        /\ briefs[n].pending \subseteq Source
  BY DEF BriefInv, BriefOf, Written
<1> QED
  BY <1>1, <1>2 DEF BriefTypeOK, BriefInv, Portfolio, Signal

-----------------------------------------------------------------------------
(* What is proved of briefs.                                               *)

\* approve_brief and distribute_brief, whichever race: a brief that is past its
\* draft was verified, and rests on evidence that was fresh on that day.
THEOREM BriefRestsOnFresh == BriefSpec => []ApprovalRestsOnFresh
<1>1. BriefInv => ApprovalRestsOnFresh
  <2> SUFFICES ASSUME BriefInv, NEW n \in Written, briefs[n].state # "draft"
               PROVE  /\ briefs[n].checked # Unchecked
                      /\ \A k \in briefs[n].body :
                           /\ k.says = k.allows
                           /\ \A e \in k.cites :
                                briefs[n].checked <= FreshAt(e, metrics) + MaxAge
    BY DEF ApprovalRestsOnFresh
  <2>1. BriefOf(briefs[n], signals, metrics)
    BY DEF BriefInv, Written
  <2>2. \A e : FreshAt(e, metrics) = FreshIn(e, signals, metrics)
    BY DEF FreshAt, FreshIn
  <2> QED
    BY <2>1, <2>2, DatesAreNat DEF BriefOf, FreshOn, Founded
<1> QED
  BY <1>1, BriefInvariant, PTL

\* _metric_evidence, shared by the briefs of a day: the row a claim about a
\* figure cites states its amount.
THEOREM BriefAmounts == BriefSpec => []AmountIsEvidenced
<1>1. BriefInv => AmountIsEvidenced
  <2> SUFFICES ASSUME BriefInv, NEW n \in Written, NEW k \in briefs[n].body, k.about = "figure",
                      NEW x \in metrics, x.id \in k.cites
               PROVE  x.of.cents = k.of.cents
    BY DEF AmountIsEvidenced
  <2>1. Founded(k, signals, metrics)
    BY DEF BriefInv, BriefOf, Written
  <2>2. PICK d \in Date : k.cites = {<<"figure", k.of.cents, d>>}
    BY <2>1 DEF Founded
  <2>3. x.id[2] = k.of.cents
    BY <2>2
  <2>4. x.id[2] = x.of.cents
    BY DEF BriefInv, RowsPast
  <2> QED
    BY <2>3, <2>4
<1> QED
  BY <1>1, BriefInvariant, PTL

-----------------------------------------------------------------------------
(* The log and the briefs beside each other.                               *)

\* Each of the two takes its own steps, or none.
LEMMA RecordsApart ==
  /\ RecordsInit => Init /\ BriefInit
  /\ [RecordsNext]_<<vars, briefVars>> => [Next]_vars /\ [BriefNext]_briefVars
  BY DEF RecordsInit, RecordsNext

\* The rows of the audit log, of the signals, of the evidence and of the briefs
\* hold what their columns may hold.
THEOREM RecordsTyped == RecordsSpec => []RecordsTypeOK
<1>1. RecordsSpec => Spec /\ BriefSpec
  BY RecordsApart, PTL DEF RecordsSpec, Spec, BriefSpec
<1>2. TypeOK /\ BriefTypeOK => RecordsTypeOK
  BY DEF RecordsTypeOK
<1> QED
  BY <1>1, <1>2, TypeCorrect, BriefInvariant, BriefIsTyped, PTL
=============================================================================
