------------------------- MODULE SignalEngineProofs -------------------------
(***************************************************************************)
(* Proofs about SignalEngine, for every set of workers, every registry of  *)
(* detectors and every bound, and about DataQuality, for every set of      *)
(* checkers and of accounts.                                               *)
(***************************************************************************)
EXTENDS SignalEngine, DataQuality, FiniteSetTheorems, TLAPS

-----------------------------------------------------------------------------
(* Rows and detectors.                                                     *)

\* A transaction's changes to one more row.
LEMMA WithRow ==
  ASSUME NEW f \in Rows, NEW k \in Detector, NEW row \in Row
  PROVE  /\ With(f, k, row) \in Rows
         /\ DOMAIN With(f, k, row) = DOMAIN f \cup {k}
         /\ With(f, k, row)[k] = row
         /\ \A x \in DOMAIN f \ {k} : With(f, k, row)[x] = f[x]
<1>1. PICK D \in SUBSET Detector : f \in [D -> Row]
  BY DEF Rows
<1>2. With(f, k, row) \in [D \cup {k} -> Row]
  BY <1>1 DEF With
<1>3. D \cup {k} \in SUBSET Detector
  OBVIOUS
<1>4. QED
  BY <1>1, <1>2, <1>3 DEF With, Rows

\* The rows a transaction has changed are detectors' rows, of the right type.
LEMMA RowsTyped ==
  ASSUME NEW f \in Rows
  PROVE  DOMAIN f \subseteq Detector /\ \A k \in DOMAIN f : f[k] \in Row
BY DEF Rows

\* The statements of an evaluation that are next concern a detector.
LEMMA RegistryTyped ==
  /\ Len(Registry) \in Nat
  /\ DOMAIN Registry = 1..Len(Registry)
  /\ \A n \in 1..Len(Registry) : Registry[n] \in Detector
BY RegistryAssumption DEF Detector

\* Any set of detectors is finite, and so can be put in an order.
LEMMA OrdersTyped ==
  ASSUME NEW S \in SUBSET Detector, NEW q \in SetToSeqs(S)
  PROVE  q \in Seq(Detector) /\ \A n \in DOMAIN q : q[n] \in S
<1>1. IsFiniteSet(1..Len(Registry))
  BY RegistryTyped, FS_Interval
<1>2. Registry \in Surjection(1..Len(Registry), Detector)
  <2>1. Registry \in [1..Len(Registry) -> Detector]
    BY RegistryAssumption
  <2>2. \A d \in Detector : \E n \in 1..Len(Registry) : Registry[n] = d
    BY RegistryTyped DEF Detector
  <2>3. QED
    BY <2>1, <2>2 DEF Surjection
<1>3. IsFiniteSet(S)
  <2>1. IsFiniteSet(Detector)
    BY <1>1, <1>2, FS_Surjection
  <2>2. QED
    BY <2>1, FS_Subset
<1>4. Cardinality(S) \in Nat
  BY <1>3, FS_CardinalityType
<1>5. q \in [1..Cardinality(S) -> S]
  BY DEF SetToSeqs
<1>6. QED
  BY <1>4, <1>5

\* What is upserted is a row, counted once more than before.
LEMMA UpsertedRow ==
  ASSUME NEW row \in Row, NEW severity \in Severity
  PROVE  /\ Upserted(row, severity) \in Row
         /\ Upserted(row, severity).count = (row.count + 1) % Modulus
         /\ Upserted(row, severity).severity \in Severity
<1>1. (row.count + 1) % Modulus \in 0..(Modulus - 1)
  <2>1. row.count + 1 \in Nat /\ Modulus \in Nat /\ Modulus > 0
    BY BoundsAssumption DEF Row
  <2>2. QED
    BY <2>1
<1>2. row.review \in {"none", "pending", "confirmed", "rejected"}
  BY DEF Row
<1>3. QED
  BY <1>1, <1>2 DEF Upserted, Row

-----------------------------------------------------------------------------
(* The inductive invariant.                                                *)

\* Active signals have a severity.
Rated(row) == row.state = "active" => row.severity \in Severity

AllRated ==
  /\ \A k \in Key : Rated(signal[k])
  /\ \A w \in Worker : job[w] # Idle => \A k \in DOMAIN job[w].own : Rated(job[w].own[k])

\* What a person reviews has a severity.
Reviewable == signal[Sentiment] # Absent => signal[Sentiment].severity \in Severity

\* No row is changed by two open transactions.
LocksExclude ==
  \A v, w \in Worker :
    v # w /\ job[v] # Idle /\ job[w] # Idle => DOMAIN job[v].own \cap DOMAIN job[w].own = {}

\* Where an evaluation is in the registry, and which rows it has changed.
InStep(e) ==
  /\ e.phase \in {"look", "upsert"} =>
       DOMAIN e.own = e.fired /\ \A d \in e.fired : \E n \in 1..(e.next - 1) : d = Registry[n]
  /\ e.phase \in {"look", "upsert"} => e.next <= Len(Registry) + 1 /\ e.stale = <<>>
  /\ e.phase = "upsert" => e.next <= Len(Registry) /\ e.found \in Severity
  /\ \A n \in DOMAIN e.stale : e.stale[n] \notin e.fired

\* What fired is counted once, over what is committed.
CountedOnce(e, rows) ==
  /\ e.fired \subseteq DOMAIN e.own
  /\ \A d \in e.fired : e.own[d].count = (rows[d].count + 1) % Modulus

IInv ==
  /\ TypeOK
  /\ AllRated
  /\ Reviewable
  /\ LocksExclude
  /\ \A w \in Worker : job[w] # Idle => InStep(job[w]) /\ CountedOnce(job[w], signal)

-----------------------------------------------------------------------------
(* What a worker's own step keeps.                                         *)

\* A step of one worker that commits nothing, and that leaves it idle or with an
\* evaluation that is as it should be, and keeps off the rows of others.
LEMMA OwnStep ==
  ASSUME IInv, NEW w \in Worker, NEW e \in {Idle} \cup Evaluation,
         job' = [job EXCEPT ![w] = e],
         UNCHANGED <<holds, signal, told, score>>,
         changes' \in 0..MaxChanges,
         e # Idle =>
           /\ InStep(e) /\ CountedOnce(e, signal)
           /\ \A k \in DOMAIN e.own : Rated(e.own[k])
           /\ \A v \in Worker \ {w} : job[v] # Idle =>
                DOMAIN job[v].own \cap DOMAIN e.own = {}
  PROVE  IInv'
<1>0. job \in [Worker -> {Idle} \cup Evaluation]
  BY DEF IInv, TypeOK
<1>1. job'[w] = e /\ \A v \in Worker \ {w} : job'[v] = job[v]
  BY <1>0
<1>2. TypeOK'
  BY <1>0 DEF IInv, TypeOK
<1>3. AllRated'
  BY <1>1 DEF IInv, AllRated
<1>4. LocksExclude'
  BY <1>1 DEF IInv, LocksExclude
<1>5. \A v \in Worker : job'[v] # Idle => InStep(job'[v]) /\ CountedOnce(job'[v], signal')
  BY <1>1 DEF IInv
<1>6. QED
  BY <1>2, <1>3, <1>4, <1>5 DEF IInv, Reviewable

\* A worker in a phase of an evaluation has one.
LEMMA Evaluating ==
  ASSUME IInv, NEW w \in Worker, job[w].phase \in {"look", "upsert", "resolve", "scored"}
  PROVE  /\ job[w] # Idle /\ job[w] \in Evaluation
         /\ InStep(job[w]) /\ CountedOnce(job[w], signal)
         /\ \A k \in DOMAIN job[w].own : Rated(job[w].own[k])
         /\ \A v \in Worker \ {w} : job[v] # Idle =>
              DOMAIN job[v].own \cap DOMAIN job[w].own = {}
<1>1. job[w] # Idle
  BY DEF Idle
<1>2. job[w] \in Evaluation
  BY <1>1 DEF IInv, TypeOK
<1>3. QED
  BY <1>1, <1>2 DEF IInv, AllRated, LocksExclude

\* What a transaction sees of a row it may change.
LEMMA SeenRow ==
  ASSUME IInv, NEW w \in Worker, job[w] \in Evaluation, job[w] # Idle, NEW k \in Key
  PROVE  Sees(w, k) \in Row /\ Rated(Sees(w, k))
<1>1. CASE k \in DOMAIN job[w].own
  <2>1. job[w].own \in Rows
    BY DEF Evaluation
  <2>2. job[w].own[k] \in Row
    BY <1>1, <2>1, RowsTyped
  <2>3. QED
    BY <1>1, <2>2 DEF Sees, IInv, AllRated
<1>2. CASE k \notin DOMAIN job[w].own
  BY <1>2 DEF Sees, IInv, TypeOK, AllRated
<1>3. QED
  BY <1>1, <1>2

\* A new evaluation has changed no row.
LEMMA NoRows == <<>> \in Rows /\ DOMAIN <<>> = {}
<1>1. DOMAIN <<>> = {}
  OBVIOUS
<1>2. <<>> \in [{} -> Row]
  OBVIOUS
<1>3. QED
  BY <1>1, <1>2 DEF Rows

-----------------------------------------------------------------------------
(* The steps of an evaluation.                                             *)

\* A new evaluation has nothing that fired and no row.
LEMMA StartStep == ASSUME IInv, NEW w \in Worker, EvaluateStart(w) PROVE IInv'
<1> DEFINE e == [phase |-> "look", next |-> 1, found |-> "none",
                 own |-> <<>>, fired |-> {}, stale |-> <<>>, counts |-> {}]
<1>1. e \in Evaluation
  BY NoRows DEF Evaluation
<1>2. InStep(e)
  BY NoRows, RegistryTyped DEF InStep
<1>3. CountedOnce(e, signal)
  BY DEF CountedOnce
<1>4. DOMAIN e.own = {}
  BY NoRows
<1>5. changes' \in 0..MaxChanges
  BY DEF EvaluateStart, IInv, TypeOK
<1>6. QED
  BY <1>1, <1>2, <1>3, <1>4, <1>5, OwnStep DEF EvaluateStart

\* A detector that looks changes no row.
LEMMA DetectStep == ASSUME IInv, NEW w \in Worker, Detect(w) PROVE IInv'
<1> DEFINE severity == holds[Registry[job[w].next]]
<1>1. /\ job[w] \in Evaluation /\ job[w].phase = "look" /\ job[w].next <= Len(Registry)
      /\ InStep(job[w]) /\ CountedOnce(job[w], signal)
      /\ \A k \in DOMAIN job[w].own : Rated(job[w].own[k])
      /\ \A v \in Worker \ {w} : job[v] # Idle =>
           DOMAIN job[v].own \cap DOMAIN job[w].own = {}
  BY Evaluating DEF Detect
<1>2. job[w].next \in Nat \ {0} /\ Len(Registry) \in Nat
  BY <1>1, RegistryTyped DEF Evaluation
<1>3. severity \in Severity \cup {"none"}
  BY <1>1, <1>2, RegistryTyped DEF IInv, TypeOK
<1>4. UNCHANGED <<holds, signal, told, score>> /\ changes' \in 0..MaxChanges
  BY DEF Detect, IInv, TypeOK
<1>5. CASE severity = "none"
  <2> DEFINE e == [job[w] EXCEPT !.next = @ + 1]
  <2>1. job' = [job EXCEPT ![w] = e]
    BY <1>5, Zenon DEF Detect
  <2>2. /\ e \in Evaluation /\ e.phase = "look" /\ e.next = job[w].next + 1
        /\ e.own = job[w].own /\ e.fired = job[w].fired /\ e.stale = job[w].stale
    BY <1>1, <1>2 DEF Evaluation
  <2>3. InStep(e) /\ CountedOnce(e, signal)
    <3>1. \A n \in 1..(job[w].next - 1) : n \in 1..(e.next - 1)
      BY <1>2, <2>2
    <3>2. e.next <= Len(Registry) + 1
      BY <1>1, <1>2, <2>2
    <3>3. QED
      BY <1>1, <2>2, <3>1, <3>2 DEF InStep, CountedOnce
  <2> HIDE DEF e
  <2>4. QED
    BY <1>1, <1>4, <2>1, <2>2, <2>3, OwnStep
<1>6. CASE severity # "none"
  <2> DEFINE e == [job[w] EXCEPT !.phase = "upsert", !.found = severity]
  <2>1. job' = [job EXCEPT ![w] = e]
    BY <1>6 DEF Detect
  <2>2. /\ e \in Evaluation /\ e.phase = "upsert" /\ e.next = job[w].next
        /\ e.found \in Severity
        /\ e.own = job[w].own /\ e.fired = job[w].fired /\ e.stale = job[w].stale
    BY <1>1, <1>2, <1>3, <1>6 DEF Evaluation
  <2>3. InStep(e) /\ CountedOnce(e, signal)
    BY <1>1, <1>2, <2>2 DEF InStep, CountedOnce
  <2> HIDE DEF e
  <2>4. QED
    BY <1>1, <1>4, <2>1, <2>2, <2>3, OwnStep
<1>7. QED
  BY <1>5, <1>6

\* The row upserted is new to the transaction, as no signal has two detectors, and
\* locked by no other: it is counted over the committed row.
LEMMA UpsertStep == ASSUME IInv, NEW w \in Worker, Upsert(w) PROVE IInv'
<1> DEFINE d == Registry[job[w].next]
           row == Upserted(Sees(w, d), job[w].found)
           own == With(job[w].own, d, row)
           e == [job[w] EXCEPT !.phase = "look", !.next = @ + 1, !.found = "none",
                               !.own = own, !.fired = @ \cup {d}]
<1>1. /\ job[w] \in Evaluation /\ job[w].phase = "upsert" /\ job[w] # Idle
      /\ InStep(job[w]) /\ CountedOnce(job[w], signal)
      /\ \A k \in DOMAIN job[w].own : Rated(job[w].own[k])
      /\ \A v \in Worker \ {w} : job[v] # Idle =>
           DOMAIN job[v].own \cap DOMAIN job[w].own = {}
  BY Evaluating DEF Upsert
<1>2. /\ job[w].next \in 1..Len(Registry) /\ job[w].found \in Severity
      /\ job[w].own \in Rows /\ job[w].fired \subseteq Detector
  BY <1>1, RegistryTyped DEF Evaluation, InStep
<1>3. d \in Detector
  BY <1>2, RegistryTyped
<1>4. d \notin job[w].fired /\ DOMAIN job[w].own = job[w].fired
  <2>1. DOMAIN job[w].own = job[w].fired /\ \A x \in job[w].fired :
          \E n \in 1..(job[w].next - 1) : x = Registry[n]
    BY <1>1 DEF InStep
  <2>2. \A n \in 1..(job[w].next - 1) : Registry[n] # d
    BY <1>2, RegistryTyped, RegistryAssumption
  <2>3. QED
    BY <2>1, <2>2
<1>5. Sees(w, d) = signal[d] /\ Sees(w, d) \in Row
  BY <1>1, <1>3, <1>4, SeenRow DEF Sees, Key
<1>6. row \in Row /\ row.count = (signal[d].count + 1) % Modulus /\ Rated(row)
  BY <1>2, <1>5, UpsertedRow DEF Rated
<1>7. \A v \in Worker \ {w} : job[v] # Idle => d \notin DOMAIN job[v].own
  BY DEF Upsert, RowFree
<1>8. job' = [job EXCEPT ![w] = e]
  BY Zenon DEF Upsert
<1>9. UNCHANGED <<holds, signal, told, score>> /\ changes' \in 0..MaxChanges
  BY DEF Upsert, IInv, TypeOK
<1> HIDE DEF d, row
<1>10. /\ own \in Rows /\ DOMAIN own = job[w].fired \cup {d} /\ own[d] = row
      /\ \A x \in job[w].fired : own[x] = job[w].own[x]
  <2>1. DOMAIN own = DOMAIN job[w].own \cup {d} /\ own \in Rows /\ own[d] = row
    BY <1>2, <1>3, <1>6, WithRow
  <2>2. \A x \in DOMAIN job[w].own \ {d} : own[x] = job[w].own[x]
    BY <1>2, <1>3, <1>6, WithRow
  <2>3. QED
    BY <1>4, <2>1, <2>2
<1> HIDE DEF own
<1>11. /\ e \in Evaluation /\ e.phase = "look" /\ e.next = job[w].next + 1
      /\ e.own = own /\ e.fired = job[w].fired \cup {d} /\ e.stale = job[w].stale
  <2>1. job[w].next + 1 \in Nat \ {0}
    BY <1>2
  <2>2. job[w].fired \cup {d} \in SUBSET Detector
    BY <1>2, <1>3
  <2>3. QED
    BY <1>1, <1>10, <2>1, <2>2 DEF Evaluation
<1> HIDE DEF e
<1>12. InStep(e)
  <2>1. DOMAIN e.own = e.fired
    BY <1>10, <1>11
  <2>2. \A x \in e.fired : \E n \in 1..(e.next - 1) : x = Registry[n]
    <3>1. \A n \in 1..(job[w].next - 1) : n \in 1..(e.next - 1)
      BY <1>2, <1>11
    <3>2. job[w].next \in 1..(e.next - 1) /\ d = Registry[job[w].next]
      BY <1>2, <1>11 DEF d
    <3>3. QED
      BY <1>1, <1>11, <3>1, <3>2 DEF InStep
  <2>3. e.next <= Len(Registry) + 1 /\ e.stale = <<>>
    BY <1>1, <1>2, <1>11 DEF InStep
  <2>4. \A n \in DOMAIN e.stale : e.stale[n] \notin e.fired
    BY <1>1, <1>11, NoRows DEF InStep
  <2>5. QED
    BY <1>11, <2>1, <2>2, <2>3, <2>4 DEF InStep
<1>13. CountedOnce(e, signal)
  BY <1>1, <1>6, <1>10, <1>11 DEF CountedOnce
<1>14. \A k \in DOMAIN e.own : Rated(e.own[k])
  BY <1>1, <1>4, <1>6, <1>10, <1>11
<1>15. \A v \in Worker \ {w} : job[v] # Idle => DOMAIN job[v].own \cap DOMAIN e.own = {}
  BY <1>1, <1>4, <1>7, <1>10, <1>11
<1>16. QED
  BY <1>8, <1>9, <1>11, <1>12, <1>13, <1>14, <1>15, OwnStep

\* Only what did not fire is to be resolved.
LEMMA SelectStep == ASSUME IInv, NEW w \in Worker, SelectExisting(w) PROVE IInv'
<1> DEFINE S == {k \in Managed \ job[w].fired : Sees(w, k).state = "active"}
<1>1. /\ job[w] \in Evaluation /\ job[w].phase = "look"
      /\ InStep(job[w]) /\ CountedOnce(job[w], signal)
      /\ \A k \in DOMAIN job[w].own : Rated(job[w].own[k])
      /\ \A v \in Worker \ {w} : job[v] # Idle =>
           DOMAIN job[v].own \cap DOMAIN job[w].own = {}
  BY Evaluating DEF SelectExisting
<1>2. PICK stale \in SetToSeqs(S) :
        job' = [job EXCEPT ![w] = [job[w] EXCEPT !.phase = "resolve", !.stale = stale]]
  BY Zenon DEF SelectExisting
<1>3. S \in SUBSET Detector /\ \A d \in S : d \notin job[w].fired
  BY DEF Managed
<1> HIDE DEF S
<1>4. stale \in Seq(Detector) /\ \A n \in DOMAIN stale : stale[n] \in S
  BY <1>2, <1>3, OrdersTyped
<1> DEFINE e == [job[w] EXCEPT !.phase = "resolve", !.stale = stale]
<1>5. /\ e \in Evaluation /\ e.phase = "resolve" /\ e.stale = stale
      /\ e.own = job[w].own /\ e.fired = job[w].fired
  BY <1>1, <1>4 DEF Evaluation
<1>6. job' = [job EXCEPT ![w] = e]
  BY <1>2
<1> HIDE DEF e
<1>7. InStep(e) /\ CountedOnce(e, signal)
  BY <1>1, <1>3, <1>4, <1>5 DEF InStep, CountedOnce
<1>8. UNCHANGED <<holds, signal, told, score>> /\ changes' \in 0..MaxChanges
  BY DEF SelectExisting, IInv, TypeOK
<1>9. QED
  BY <1>1, <1>5, <1>6, <1>7, <1>8, OwnStep

\* A row resolved is none that fired, and locked by no other.
LEMMA ResolveStep == ASSUME IInv, NEW w \in Worker, Resolve(w) PROVE IInv'
<1> DEFINE k == Head(job[w].stale)
           row == [Sees(w, k) EXCEPT !.state = "resolved"]
           own == With(job[w].own, k, row)
           e == [job[w] EXCEPT !.own = own, !.stale = Tail(job[w].stale)]
<1>1. /\ job[w] \in Evaluation /\ job[w].phase = "resolve" /\ job[w] # Idle
      /\ InStep(job[w]) /\ CountedOnce(job[w], signal)
      /\ \A x \in DOMAIN job[w].own : Rated(job[w].own[x])
      /\ \A v \in Worker \ {w} : job[v] # Idle =>
           DOMAIN job[v].own \cap DOMAIN job[w].own = {}
  BY Evaluating DEF Resolve
<1>2. /\ job[w].stale \in Seq(Detector) /\ job[w].stale # <<>> /\ job[w].own \in Rows
      /\ \A n \in DOMAIN job[w].stale : job[w].stale[n] \notin job[w].fired
  BY <1>1 DEF Resolve, Evaluation, InStep
<1>3. /\ k \in Detector /\ k \notin job[w].fired /\ Tail(job[w].stale) \in Seq(Detector)
      /\ \A n \in DOMAIN Tail(job[w].stale) : Tail(job[w].stale)[n] \notin job[w].fired
  BY <1>2
<1>4. row \in Row /\ Rated(row)
  <2>1. Sees(w, k) \in Row
    BY <1>1, <1>3, SeenRow DEF Key
  <2>2. QED
    BY <2>1 DEF Row, Rated
<1>5. \A v \in Worker \ {w} : job[v] # Idle => k \notin DOMAIN job[v].own
  BY DEF Resolve, RowFree
<1>6. job' = [job EXCEPT ![w] = e]
  BY Zenon DEF Resolve
<1>7. UNCHANGED <<holds, signal, told, score>> /\ changes' \in 0..MaxChanges
  BY DEF Resolve, IInv, TypeOK
<1> HIDE DEF k, row
<1>8. /\ own \in Rows /\ DOMAIN own = DOMAIN job[w].own \cup {k} /\ own[k] = row
      /\ \A x \in DOMAIN job[w].own \ {k} : own[x] = job[w].own[x]
  <2>1. DOMAIN own = DOMAIN job[w].own \cup {k} /\ own \in Rows /\ own[k] = row
    BY <1>2, <1>3, <1>4, WithRow
  <2>2. \A x \in DOMAIN job[w].own \ {k} : own[x] = job[w].own[x]
    BY <1>2, <1>3, <1>4, WithRow
  <2>3. QED
    BY <2>1, <2>2
<1> HIDE DEF own
<1>9. /\ e \in Evaluation /\ e.phase = "resolve" /\ e.stale = Tail(job[w].stale)
      /\ e.own = own /\ e.fired = job[w].fired
  BY <1>1, <1>3, <1>8 DEF Evaluation
<1> HIDE DEF e
<1>10. InStep(e) /\ CountedOnce(e, signal)
  BY <1>1, <1>3, <1>8, <1>9 DEF InStep, CountedOnce
<1>11. \A x \in DOMAIN e.own : Rated(e.own[x])
  BY <1>1, <1>4, <1>8, <1>9
<1>12. \A v \in Worker \ {w} : job[v] # Idle => DOMAIN job[v].own \cap DOMAIN e.own = {}
  BY <1>1, <1>5, <1>8, <1>9
<1>13. QED
  BY <1>6, <1>7, <1>9, <1>10, <1>11, <1>12, OwnStep

\* What is counted is active, and has a severity.
LEMMA ScoreStep == ASSUME IInv, NEW w \in Worker, ComputeScore(w) PROVE IInv'
<1> DEFINE counts == {<<k, Sees(w, k).severity>> : k \in {x \in Key : Counts(Sees(w, x), x)}}
           e == [job[w] EXCEPT !.phase = "scored", !.counts = counts]
<1>1. /\ job[w] \in Evaluation /\ job[w].phase = "resolve" /\ job[w] # Idle
      /\ InStep(job[w]) /\ CountedOnce(job[w], signal)
      /\ \A x \in DOMAIN job[w].own : Rated(job[w].own[x])
      /\ \A v \in Worker \ {w} : job[v] # Idle =>
           DOMAIN job[v].own \cap DOMAIN job[w].own = {}
  BY Evaluating DEF ComputeScore
<1>2. \A k \in Key : Counts(Sees(w, k), k) => Sees(w, k).severity \in Severity
  BY <1>1, SeenRow DEF Counts, Rated
<1>3. counts \in SUBSET (Key \X Severity)
  BY <1>2
<1>4. job' = [job EXCEPT ![w] = e]
  BY Zenon DEF ComputeScore
<1> HIDE DEF counts
<1>5. /\ e \in Evaluation /\ e.phase = "scored" /\ e.stale = job[w].stale
      /\ e.own = job[w].own /\ e.fired = job[w].fired
  BY <1>1, <1>3 DEF Evaluation
<1> HIDE DEF e
<1>6. InStep(e) /\ CountedOnce(e, signal)
  BY <1>1, <1>5 DEF InStep, CountedOnce
<1>7. UNCHANGED <<holds, signal, told, score>> /\ changes' \in 0..MaxChanges
  BY DEF ComputeScore, IInv, TypeOK
<1>8. QED
  BY <1>1, <1>4, <1>5, <1>6, <1>7, OwnStep

\* A transaction that ends early leaves everything as it was.
LEMMA RollBackStep ==
  ASSUME IInv, NEW w \in Worker, RollBack(w), changes' \in 0..MaxChanges PROVE IInv'
BY OwnStep DEF RollBack

\* A commit changes the rows of its transaction, which no other has changed.
LEMMA CommitStep == ASSUME IInv, NEW w \in Worker, Commit(w) PROVE IInv'
<1>1. /\ job[w] \in Evaluation /\ job[w] # Idle
      /\ \A v \in Worker \ {w} : job[v] # Idle =>
           DOMAIN job[v].own \cap DOMAIN job[w].own = {}
  BY Evaluating DEF Commit
<1>2. \A k \in Key : signal'[k] = Sees(w, k)
  BY DEF Commit
<1>3. \A k \in Key : signal'[k] \in Row /\ Rated(signal'[k])
  BY <1>1, <1>2, SeenRow
<1>4. job'[w] = Idle /\ \A v \in Worker \ {w} : job'[v] = job[v]
  BY DEF Commit, IInv, TypeOK
<1>5. TypeOK'
  <2>1. signal' \in [Key -> Row]
    BY <1>3 DEF Commit
  <2>2. score' \subseteq Key \X Severity
    BY <1>1 DEF Commit, Evaluation
  <2>3. QED
    BY <2>1, <2>2 DEF Commit, IInv, TypeOK
<1>6. AllRated'
  BY <1>3, <1>4 DEF IInv, AllRated
<1>7. LocksExclude'
  BY <1>4 DEF IInv, LocksExclude
<1>8. ASSUME NEW v \in Worker, job'[v] # Idle
      PROVE  InStep(job'[v]) /\ CountedOnce(job'[v], signal')
  <2>1. v # w /\ job'[v] = job[v] /\ job[v] # Idle
    BY <1>4, <1>8
  <2>2. InStep(job[v]) /\ CountedOnce(job[v], signal) /\ job[v] \in Evaluation
    BY <2>1 DEF IInv, TypeOK
  <2>3. \A d \in job[v].fired : d \in Key /\ d \notin DOMAIN job[w].own
    BY <1>1, <2>1, <2>2 DEF CountedOnce, Evaluation, Key
  <2>4. \A d \in job[v].fired : signal'[d] = signal[d]
    BY <1>2, <2>3 DEF Sees
  <2>5. QED
    BY <2>1, <2>2, <2>4 DEF CountedOnce
<1>9. Reviewable'
  <2>1. Sentiment \in Key /\ Sentiment \notin DOMAIN job[w].own
    BY <1>1, RowsTyped, RegistryAssumption DEF Evaluation, Key
  <2>2. signal'[Sentiment] = signal[Sentiment]
    BY <1>2, <2>1 DEF Sees
  <2>3. QED
    BY <2>2 DEF IInv, Reviewable
<1>10. QED
  BY <1>5, <1>6, <1>7, <1>8, <1>9 DEF IInv

\* A step that changes no evaluation, and no signal but the LLM's.
LEMMA OutsideStep ==
  ASSUME IInv, UNCHANGED <<job, score>>, TypeOK',
         \A k \in Key \ {Sentiment} : signal'[k] = signal[k],
         Rated(signal'[Sentiment]), Reviewable'
  PROVE  IInv'
<1>1. AllRated'
  BY DEF IInv, AllRated
<1>2. LocksExclude'
  BY DEF IInv, LocksExclude
<1>3. ASSUME NEW v \in Worker, job[v] # Idle PROVE CountedOnce(job[v], signal')
  <2>1. job[v].fired \subseteq Detector
    BY <1>3 DEF IInv, TypeOK, Evaluation
  <2>2. \A d \in job[v].fired : signal'[d] = signal[d]
    BY <2>1, RegistryAssumption DEF Key
  <2>3. QED
    BY <1>3, <2>2 DEF IInv, CountedOnce
<1>4. QED
  BY <1>1, <1>2, <1>3 DEF IInv

\* The steps of the data, of the LLM and of the reviewer.
LEMMA DataStep ==
  ASSUME IInv, DataChanges \/ Analyze \/ Review PROVE IInv'
<1>1. signal \in [Key -> Row] /\ Sentiment \in Key
  BY DEF IInv, TypeOK, Key
<1>2. changes' \in 0..MaxChanges
  BY BoundsAssumption DEF DataChanges, Analyze, Review, Change, IInv, TypeOK
<1>3. CASE DataChanges
  <2>1. holds' \in [Detector -> Severity \cup {"none"}]
    BY <1>3 DEF DataChanges, IInv, TypeOK
  <2>2. TypeOK' /\ Rated(signal'[Sentiment]) /\ Reviewable'
    BY <1>1, <1>2, <1>3, <2>1 DEF DataChanges, IInv, TypeOK, AllRated, Reviewable
  <2>3. QED
    BY <1>3, <2>2, OutsideStep DEF DataChanges
<1>4. CASE Analyze
  <2>1. PICK s \in Severity :
          signal' = [signal EXCEPT ![Sentiment] = Upserted(signal[Sentiment], s)]
    BY <1>4 DEF Analyze
  <2> DEFINE row == Upserted(signal[Sentiment], s)
  <2>2. row \in Row /\ row.severity \in Severity
    BY <1>1, UpsertedRow
  <2> HIDE DEF row
  <2>3. signal' = [signal EXCEPT ![Sentiment] = row]
    BY <2>1 DEF row
  <2>4. signal' \in [Key -> Row] /\ signal'[Sentiment] = row
    BY <1>1, <2>2, <2>3
  <2>5. TypeOK' /\ Rated(signal'[Sentiment]) /\ Reviewable'
    BY <1>2, <1>4, <2>2, <2>4 DEF Analyze, IInv, TypeOK, Rated, Reviewable
  <2>6. \A k \in Key \ {Sentiment} : signal'[k] = signal[k]
    BY <1>1, <2>3
  <2>7. QED
    BY <1>4, <2>5, <2>6, OutsideStep DEF Analyze
<1>5. CASE Review
  <2>1. PICK outcome \in {"confirmed", "rejected"} :
          /\ signal' = [signal EXCEPT ![Sentiment].review = outcome]
          /\ told' = IF outcome = "confirmed" THEN told \cup {signal[Sentiment].severity}
                     ELSE told
    BY <1>5 DEF Review
  <2> DEFINE row == [signal[Sentiment] EXCEPT !.review = outcome]
  <2>2. row \in Row /\ row.severity = signal[Sentiment].severity
        /\ row.state = signal[Sentiment].state
    BY <1>1 DEF Row
  <2>3. signal' = [signal EXCEPT ![Sentiment] = row]
    BY <2>1
  <2> HIDE DEF row
  <2>4. signal' \in [Key -> Row] /\ signal'[Sentiment] = row
    BY <1>1, <2>2, <2>3
  <2>5. signal[Sentiment].severity \in Severity
    BY <1>5 DEF Review, IInv, Reviewable
  <2>6. told' \subseteq Severity
    BY <2>1, <2>5 DEF IInv, TypeOK
  <2>7. TypeOK' /\ Rated(signal'[Sentiment]) /\ Reviewable'
    BY <1>2, <1>5, <2>2, <2>4, <2>5, <2>6 DEF Review, IInv, TypeOK, Rated, Reviewable
  <2>8. \A k \in Key \ {Sentiment} : signal'[k] = signal[k]
    BY <1>1, <2>3
  <2>9. QED
    BY <1>5, <2>7, <2>8, OutsideStep DEF Review
<1>6. QED
  BY <1>3, <1>4, <1>5

-----------------------------------------------------------------------------
(* The theorems.                                                           *)

\* IInv holds of the initial state.
LEMMA InitIInv == Init => IInv
<1> SUFFICES ASSUME Init PROVE IInv
  OBVIOUS
<1>1. Absent \in Row
  BY BoundsAssumption DEF Absent, Row
<1>2. TypeOK
  BY <1>1, BoundsAssumption DEF Init, TypeOK
<1>3. AllRated /\ Reviewable
  BY DEF Init, AllRated, Reviewable, Rated, Absent, Key
<1>4. QED
  BY <1>2, <1>3 DEF Init, IInv, LocksExclude

\* Every step keeps IInv.
LEMMA NextIInv == IInv /\ [Next]_vars => IInv'
<1> SUFFICES ASSUME IInv, [Next]_vars PROVE IInv'
  OBVIOUS
<1>1. CASE DataChanges \/ Analyze \/ Review
  BY <1>1, DataStep
<1>2. ASSUME NEW w \in Worker, EvaluateStart(w) \/ Detect(w) \/ Upsert(w) PROVE IInv'
  BY <1>2, StartStep, DetectStep, UpsertStep
<1>3. ASSUME NEW w \in Worker, SelectExisting(w) \/ Resolve(w) \/ ComputeScore(w) PROVE IInv'
  BY <1>3, SelectStep, ResolveStep, ScoreStep
<1>4. ASSUME NEW w \in Worker, Commit(w) PROVE IInv'
  BY <1>4, CommitStep
<1>5. ASSUME NEW w \in Worker, Crash(w) \/ BreakDeadlock(w) PROVE IInv'
  <2>1. RollBack(w)
    BY <1>5 DEF Crash, BreakDeadlock
  <2>2. changes' \in 0..MaxChanges
    BY <1>5, BoundsAssumption DEF Crash, BreakDeadlock, Change, IInv, TypeOK
  <2>3. QED
    BY <2>1, <2>2, RollBackStep
<1>6. CASE UNCHANGED vars
  BY <1>6 DEF vars, IInv, TypeOK, AllRated, Reviewable, LocksExclude
<1>7. QED
  BY <1>1, <1>2, <1>3, <1>4, <1>5, <1>6 DEF Next

\* The invariant holds throughout.
LEMMA Inductive == Spec => []IInv
BY InitIInv, NextIInv, PTL DEF Spec

\* The rows and the evaluations under way are what the tables and the engine can
\* hold: what a transaction changes are rows of detectors, a score counts signals
\* that have a severity, and what was confirmed had one.
THEOREM TypeCorrect == Spec => []TypeOK
<1>1. IInv => TypeOK
  BY DEF IInv
<1>2. QED
  BY <1>1, Inductive, PTL

\* What a step does to the evaluation of one worker, other than its commit.
LEMMA OthersKeep ==
  ASSUME IInv, [Next]_vars, NEW w \in Worker, ~Commit(w), job'[w] # job[w]
  PROVE  signal' = signal
<1>1. ASSUME NEW v \in Worker, Commit(v) PROVE FALSE
  BY <1>1 DEF Commit, IInv, TypeOK
<1>2. CASE DataChanges \/ Analyze \/ Review
  BY <1>2 DEF DataChanges, Analyze, Review
<1>3. ASSUME NEW v \in Worker,
             \/ EvaluateStart(v) \/ Detect(v) \/ Upsert(v) \/ SelectExisting(v)
             \/ Resolve(v) \/ ComputeScore(v) \/ Crash(v) \/ BreakDeadlock(v)
      PROVE  signal' = signal
  BY <1>3 DEF EvaluateStart, Detect, Upsert, SelectExisting, Resolve, ComputeScore,
              Crash, BreakDeadlock, RollBack
<1>4. CASE UNCHANGED vars
  BY <1>4 DEF vars
<1>5. QED
  BY <1>1, <1>2, <1>3, <1>4 DEF Next

\* Every committed detection is counted once, however evaluations overlap: the row
\* lock an upsert takes and keeps until the commit makes the committed row the one
\* it has counted on.
THEOREM DetectionsCount == Spec => EveryDetectionCounts
<1>1. ASSUME IInv, [Next]_vars, NEW w \in Worker,
             job[w].phase = "scored", job'[w] = Idle, signal' # signal,
             NEW d \in job[w].fired
      PROVE  signal'[d].count = (signal[d].count + 1) % Modulus
  <2>1. job[w] \in Evaluation /\ job[w] # Idle /\ CountedOnce(job[w], signal)
    BY <1>1, Evaluating
  <2>2. Commit(w)
    BY <1>1, <2>1, OthersKeep
  <2>3. d \in Key /\ d \in DOMAIN job[w].own
    BY <1>1, <2>1 DEF CountedOnce, Evaluation, Key
  <2>4. signal'[d] = job[w].own[d]
    BY <2>2, <2>3 DEF Commit, Sees
  <2>5. QED
    BY <1>1, <2>1, <2>4 DEF CountedOnce
<1>2. IInv /\ [Next]_vars =>
        [\A w \in Worker :
           job[w].phase = "scored" /\ job'[w] = Idle /\ signal' # signal =>
             \A d \in job[w].fired :
               signal'[d].count = (signal[d].count + 1) % Modulus]_vars
  BY <1>1
<1>3. QED
  BY <1>2, Inductive, PTL DEF Spec, EveryDetectionCounts

\* No evaluation changes the signal of the LLM: its commit writes rows of the
\* detectors only, and none of its other steps writes a committed row.
THEOREM LlmSignalsKept == Spec => LlmSignalsAreLeftAlone
<1>1. ASSUME IInv, [Next]_vars, NEW w \in Worker, job'[w] # job[w]
      PROVE  signal'[Sentiment] = signal[Sentiment]
  <2>1. CASE Commit(w)
    <3>1. job[w] \in Evaluation
      BY <2>1, <1>1, Evaluating DEF Commit
    <3>2. Sentiment \in Key /\ Sentiment \notin DOMAIN job[w].own
      BY <3>1, RowsTyped, RegistryAssumption DEF Evaluation, Key
    <3>3. QED
      BY <2>1, <3>2 DEF Commit, Sees
  <2>2. CASE ~Commit(w)
    BY <1>1, <2>2, OthersKeep
  <2>3. QED
    BY <2>1, <2>2
<1>2. IInv /\ [Next]_vars =>
        [\A w \in Worker : job'[w] # job[w] => signal'[Sentiment] = signal[Sentiment]]_vars
  BY <1>1
<1>3. QED
  BY <1>2, Inductive, PTL DEF Spec, LlmSignalsAreLeftAlone

-----------------------------------------------------------------------------
(* The data-quality checks.                                                *)

\* What a check has written of any issues.
Written == UNION {[D -> IssueState] : D \in SUBSET Issue}

OpenCheck ==
  [stage : 1..3, step : {"read", "upsert", "resolve"}, todo : Seq(Issue),
   found : SUBSET Issue, own : Written]

\* What check j has found it has opened, or is about to, and will not resolve.
Stands(j) ==
  /\ \A k \in j.found : \/ k \in DOMAIN j.own /\ j.own[k] = "open"
                        \/ j.step = "upsert" /\ \E n \in DOMAIN j.todo : j.todo[n] = k
  /\ j.step = "resolve" => \A n \in DOMAIN j.todo : j.todo[n] \notin j.found

\* The rows check j has written are not those of other checks.
ApartFrom(w, j) ==
  \A v \in Checker \ {w} : Checking(v) => DOMAIN j.own \cap DOMAIN check[v].own = {}

DqWorld ==
  /\ today \in 0..MaxToday /\ moves \in 0..MaxMoves
  /\ usage \in [Account -> SUBSET Day]
  /\ lacking \subseteq Account
  /\ feed \in [status : {"active", "action_required", "disconnected"}, lastOk : Day \cup {Never}]

DqInv ==
  /\ DqWorld
  /\ issue \in [Issue -> IssueState]
  /\ check \in [Checker -> {IdleCheck} \cup OpenCheck]
  /\ \A w \in Checker : Checking(w) => Stands(check[w]) /\ ApartFrom(w, check[w])

\* A check under way is not an idle one.
LEMMA OpenIsNotIdle == \A j \in OpenCheck : j # IdleCheck
<1> SUFFICES ASSUME NEW j \in OpenCheck, j = IdleCheck PROVE FALSE
  OBVIOUS
<1>1. j.stage \in 1..3 /\ IdleCheck.stage = 0
  BY DEF OpenCheck, IdleCheck
<1> QED
  BY <1>1

\* Issues are finitely many, so that any of them can be put in an order.
LEMMA IssueOrders ==
  ASSUME NEW S \in SUBSET Issue, NEW q \in SetToSeqs(S)
  PROVE  q \in Seq(Issue) /\ \A n \in DOMAIN q : q[n] \in S
<1>1. IsFiniteSet(S)
  <2>1. IsFiniteSet({"usage", "field"}) /\ IsFiniteSet({<<"sync", "feed">>})
    <3>1. IsFiniteSet({"usage"}) /\ IsFiniteSet({"field"}) /\ IsFiniteSet({<<"sync", "feed">>})
      BY FS_Singleton
    <3>2. IsFiniteSet({"usage"} \cup {"field"})
      BY <3>1, FS_Union
    <3>3. {"usage", "field"} = {"usage"} \cup {"field"}
      OBVIOUS
    <3> QED
      BY <3>1, <3>2, <3>3, Zenon
  <2>2. IsFiniteSet({"usage", "field"} \X Account)
    BY <2>1, ChecksAssumption, FS_Product
  <2>3. IsFiniteSet(Issue)
    BY <2>1, <2>2, FS_Union DEF Issue
  <2> QED
    BY <2>3, FS_Subset
<1>2. Cardinality(S) \in Nat
  BY <1>1, FS_CardinalityType
<1>3. q \in [1..Cardinality(S) -> S]
  BY DEF SetToSeqs
<1> QED
  BY <1>2, <1>3

\* A check under way, and what it has written, is of the right type.
LEMMA UnderWay ==
  ASSUME DqInv, NEW w \in Checker, Checking(w)
  PROVE  check[w] \in OpenCheck /\ Stands(check[w]) /\ ApartFrom(w, check[w])
BY DEF DqInv, Checking

\* A check that writes one more row.
LEMMA WrittenRow ==
  ASSUME NEW own \in Written, NEW k \in Issue, NEW s \in IssueState, NEW next,
         next = [x \in DOMAIN own \cup {k} |-> IF x = k THEN s ELSE own[x]]
  PROVE  /\ next \in Written /\ DOMAIN next = DOMAIN own \cup {k} /\ next[k] = s
         /\ \A x \in DOMAIN own : x # k => next[x] = own[x]
<1>1. PICK D \in SUBSET Issue : own \in [D -> IssueState]
  BY DEF Written
<1>2. next \in [D \cup {k} -> IssueState] /\ D \cup {k} \in SUBSET Issue
  BY <1>1
<1> QED
  BY <1>1, <1>2 DEF Written

\* Whatever a step makes of one check, the others keep what they have written.
LEMMA CheckChanges ==
  ASSUME DqInv, DqWorld', issue' \in [Issue -> IssueState], NEW w \in Checker,
         NEW j \in {IdleCheck} \cup OpenCheck, check' = [check EXCEPT ![w] = j],
         j # IdleCheck => Stands(j) /\ ApartFrom(w, j)
  PROVE  DqInv'
<1>1. check \in [Checker -> {IdleCheck} \cup OpenCheck]
  BY DEF DqInv
<1>2. check' \in [Checker -> {IdleCheck} \cup OpenCheck]
  BY <1>1
<1>3. ASSUME NEW v \in Checker, Checking(v)'
      PROVE  Stands(check'[v]) /\ ApartFrom(v, check[v])'
  <2>1. CASE v = w
    <3>1. check'[v] = j /\ Stands(j) /\ ApartFrom(w, j)
      BY <1>1, <1>3, <2>1 DEF Checking
    <3>2. \A u \in Checker \ {w} : check'[u] = check[u]
      BY <1>1
    <3> QED
      BY <2>1, <3>1, <3>2 DEF ApartFrom, Checking
  <2>2. CASE v # w
    <3>1. check'[v] = check[v] /\ check'[w] = j
      BY <1>1, <2>2
    <3>2. Checking(v) /\ Stands(check[v]) /\ ApartFrom(v, check[v])
      BY <1>3, <3>1, UnderWay DEF Checking
    <3>3. j # IdleCheck => DOMAIN j.own \cap DOMAIN check[v].own = {}
      BY <2>2, <3>2 DEF ApartFrom
    <3>4. ASSUME NEW u \in Checker \ {v}, Checking(u)'
          PROVE  DOMAIN check'[v].own \cap DOMAIN check'[u].own = {}
      <4>1. CASE u = w
        BY <3>1, <3>3, <3>4, <4>1 DEF Checking
      <4>2. CASE u # w
        BY <1>1, <3>1, <3>2, <3>4, <4>2 DEF Checking, ApartFrom
      <4> QED
        BY <4>1, <4>2
    <3> QED
      BY <3>1, <3>2, <3>4 DEF ApartFrom
  <2> QED
    BY <2>1, <2>2
<1> QED
  BY <1>2, <1>3 DEF DqInv

\* The moves of the world touch no issue and no check.
LEMMA WorldMoves ==
  ASSUME DqInv, Tomorrow \/ ImportUsage \/ EditField \/ SyncEnds \/ Reconnect
  PROVE  DqInv'
<1>1. DqWorld /\ MaxToday \in Nat /\ MaxMoves \in Nat /\ Ahead \in Nat
  BY ChecksAssumption DEF DqInv
<1>2. Move => moves' \in 0..MaxMoves
  BY <1>1 DEF DqWorld, Move
<1>3. DqWorld' /\ UNCHANGED <<issue, check>>
  <2>1. CASE Tomorrow
    BY <1>1, <2>1 DEF Tomorrow, DqWorld
  <2>2. CASE ImportUsage
    <3>1. usage' \in [Account -> SUBSET Day]
      <4>1. PICK ref \in DOMAIN Named, d \in 0..(today + Ahead) :
              IF Named[ref] = {} THEN UNCHANGED usage
              ELSE \E a \in Named[ref] : usage' = [usage EXCEPT ![a] = @ \cup {d}]
        BY <2>2 DEF ImportUsage
      <4>2. d \in Day
        BY <1>1, <4>1 DEF DqWorld, Day
      <4> QED
        BY <1>1, <4>1, <4>2, ChecksAssumption DEF DqWorld
    <3> QED
      BY <1>1, <1>2, <2>2, <3>1 DEF ImportUsage, DqWorld
  <2>3. CASE EditField
    BY <1>1, <1>2, <2>3 DEF EditField, DqWorld
  <2>4. CASE SyncEnds
    <3>1. today \in Day
      BY <1>1 DEF DqWorld, Day
    <3> QED
      BY <1>1, <1>2, <2>4, <3>1 DEF SyncEnds, DqWorld
  <2>5. CASE Reconnect
    BY <1>1, <1>2, <2>5 DEF Reconnect, DqWorld
  <2> QED
    BY <2>1, <2>2, <2>3, <2>4, <2>5
<1> QED
  BY <1>3 DEF DqInv, Checking, ApartFrom

\* A check starts with nothing found and nothing written.
LEMMA StartKeeps == ASSUME DqInv, NEW w \in Checker, CheckStart(w) PROVE DqInv'
<1>1. PICK j : j = [stage |-> 1, step |-> "read", todo |-> <<>>, found |-> {}, own |-> <<>>]
  OBVIOUS
<1>2. <<>> \in Written /\ DOMAIN <<>> = {}
  <2>1. DOMAIN <<>> = {}
    OBVIOUS
  <2>2. <<>> \in [{} -> IssueState]
    BY <2>1
  <2> QED
    BY <2>1, <2>2 DEF Written
<1>3. j \in OpenCheck /\ Stands(j) /\ ApartFrom(w, j)
  BY <1>1, <1>2 DEF OpenCheck, Stands, ApartFrom
<1> QED
  BY <1>1, <1>3, CheckChanges DEF CheckStart, DqInv, DqWorld, world

\* What a stage finds are issues.
LEMMA FoundTyped == ASSUME DqInv, NEW n \in 1..3 PROVE Found(Stages[n]) \in SUBSET Issue
<1>1. Stages[n] \in {"usage", "sync", "field"}
  BY DEF Stages
<1> QED
  BY <1>1 DEF Found, Issue, DqInv, DqWorld

\* A stage adds to what was found what it is about to open.
LEMMA ReadKeeps == ASSUME DqInv, NEW w \in Checker, CheckRead(w) PROVE DqInv'
<1>1. PICK c \in OpenCheck : c = check[w] /\ Stands(c) /\ ApartFrom(w, c) /\ c.step = "read"
  BY UnderWay DEF CheckRead
<1>2. PICK order \in SetToSeqs(Found(Stages[c.stage])) :
        check' = [check EXCEPT ![w] =
          [check[w] EXCEPT !.step = "upsert", !.todo = order, !.found = @ \cup Range(order)]]
  BY <1>1 DEF CheckRead
<1>3. PICK j : j = [c EXCEPT !.step = "upsert", !.todo = order, !.found = @ \cup Range(order)]
  OBVIOUS
<1>4. check' = [check EXCEPT ![w] = j]
  BY <1>1, <1>2, <1>3
<1>5. order \in Seq(Issue) /\ Range(order) \subseteq Issue
  <2>1. c.stage \in 1..3
    BY DEF OpenCheck
  <2>2. order \in Seq(Issue)
    BY <1>2, <2>1, FoundTyped, IssueOrders
  <2> QED
    BY <2>2 DEF Range
<1>6. /\ j.stage = c.stage /\ j.step = "upsert" /\ j.todo = order
      /\ j.found = c.found \cup Range(order) /\ j.own = c.own /\ j \in OpenCheck
  BY <1>3, <1>5 DEF OpenCheck
<1>7. Stands(j)
  BY <1>1, <1>6 DEF Stands, Range
<1>8. ApartFrom(w, j)
  BY <1>1, <1>6 DEF ApartFrom
<1> QED
  BY <1>4, <1>6, <1>7, <1>8, CheckChanges DEF CheckRead, DqInv, DqWorld, world

\* A check opens what it has found next.
LEMMA UpsertKeeps == ASSUME DqInv, NEW w \in Checker, CheckUpsert(w) PROVE DqInv'
<1>1. PICK c \in OpenCheck : /\ c = check[w] /\ Stands(c) /\ ApartFrom(w, c)
                             /\ c.step = "upsert" /\ c.todo # <<>>
  BY UnderWay DEF CheckUpsert
<1>2. PICK k : k = Head(c.todo)
  OBVIOUS
<1>3. c.todo \in Seq(Issue) /\ c.own \in Written /\ k \in Issue
  BY <1>1, <1>2 DEF OpenCheck
<1>4. PICK own : own = [x \in DOMAIN c.own \cup {k} |-> IF x = k THEN "open" ELSE c.own[x]]
  OBVIOUS
<1>5. /\ own \in Written /\ DOMAIN own = DOMAIN c.own \cup {k} /\ own[k] = "open"
      /\ \A x \in DOMAIN c.own : x # k => own[x] = c.own[x]
  BY <1>3, <1>4, WrittenRow DEF IssueState
<1>6. PICK j : j = [c EXCEPT !.todo = Tail(@), !.own = own]
  OBVIOUS
<1>7. check' = [check EXCEPT ![w] = j] /\ IssueFree(w, k)
  <2>1. Wrote(w, k, "open") = j
    BY <1>1, <1>4, <1>6 DEF Wrote
  <2> QED
    BY <1>1, <1>2, <2>1 DEF CheckUpsert, UpsertedIssue
<1>8. /\ j.step = "upsert" /\ j.todo = Tail(c.todo) /\ j.found = c.found /\ j.own = own
      /\ j \in OpenCheck
  <2>1. Tail(c.todo) \in Seq(Issue)
    BY <1>1, <1>3
  <2> QED
    BY <1>1, <1>5, <1>6, <2>1 DEF OpenCheck
<1>9. Stands(j)
  <2>1. ASSUME NEW n \in DOMAIN c.todo, c.todo[n] # k
        PROVE  \E m \in DOMAIN j.todo : j.todo[m] = c.todo[n]
    <3>1. n \in 1..Len(c.todo) /\ n # 1
      BY <1>2, <1>3, <2>1
    <3>2. n - 1 \in DOMAIN j.todo /\ j.todo[n - 1] = c.todo[n]
      BY <1>1, <1>3, <1>8, <3>1
    <3> QED
      BY <3>2
  <2> QED
    BY <1>1, <1>5, <1>8, <2>1 DEF Stands
<1>10. ApartFrom(w, j)
  BY <1>1, <1>5, <1>7, <1>8 DEF ApartFrom, IssueFree
<1> QED
  BY <1>7, <1>8, <1>9, <1>10, CheckChanges DEF CheckUpsert, DqInv, DqWorld, world

\* A stage ends when all it has found is open; what is resolved in the end was
\* not found by any stage.
LEMMA GoesOnKeeps == ASSUME DqInv, NEW w \in Checker, CheckGoesOn(w) PROVE DqInv'
<1>1. PICK c \in OpenCheck : /\ c = check[w] /\ Stands(c) /\ ApartFrom(w, c)
                             /\ c.step = "upsert" /\ c.todo = <<>>
  BY UnderWay DEF CheckGoesOn
<1>2. \A k \in c.found : k \in DOMAIN c.own /\ c.own[k] = "open"
  BY <1>1 DEF Stands
<1>3. PICK j \in OpenCheck : /\ check' = [check EXCEPT ![w] = j] /\ j.own = c.own
                             /\ Stands(j)
  <2>1. CASE c.stage < Len(Stages)
    <3>1. PICK j : j = [c EXCEPT !.stage = @ + 1, !.step = "read"]
      OBVIOUS
    <3>2. /\ j \in OpenCheck /\ j.own = c.own /\ j.step = "read" /\ j.found = c.found
      <4>1. c.stage + 1 \in 1..3
        BY <2>1 DEF OpenCheck, Stages
      <4> QED
        BY <3>1, <4>1 DEF OpenCheck
    <3>3. check' = [check EXCEPT ![w] = j]
      BY <1>1, <2>1, <3>1 DEF CheckGoesOn
    <3> QED
      BY <1>2, <3>2, <3>3 DEF Stands
  <2>2. CASE ~(c.stage < Len(Stages))
    <3> DEFINE S == {k \in Issue \ c.found : Seen(w, k) = "open"}
    <3>1. PICK order \in SetToSeqs(S) :
            check' = [check EXCEPT ![w] = [@ EXCEPT !.step = "resolve", !.todo = order]]
      BY <1>1, <2>2 DEF CheckGoesOn
    <3>2. order \in Seq(Issue) /\ \A n \in DOMAIN order : order[n] \notin c.found
      <4>1. S \in SUBSET Issue /\ \A k \in S : k \notin c.found
        OBVIOUS
      <4> HIDE DEF S
      <4> QED
        BY <3>1, <4>1, IssueOrders
    <3> HIDE DEF S
    <3>3. PICK j : j = [c EXCEPT !.step = "resolve", !.todo = order]
      OBVIOUS
    <3>4. /\ j \in OpenCheck /\ j.own = c.own /\ j.step = "resolve" /\ j.found = c.found
          /\ j.todo = order
      BY <3>2, <3>3 DEF OpenCheck
    <3>5. check' = [check EXCEPT ![w] = j]
      BY <1>1, <3>1, <3>3
    <3> QED
      BY <1>2, <3>2, <3>4, <3>5 DEF Stands
  <2> QED
    BY <2>1, <2>2
<1>4. ApartFrom(w, j)
  BY <1>1, <1>3 DEF ApartFrom
<1> QED
  BY <1>3, <1>4, CheckChanges DEF CheckGoesOn, DqInv, DqWorld, world

\* A check resolves an issue it has not found.
LEMMA ResolveKeeps == ASSUME DqInv, NEW w \in Checker, CheckResolve(w) PROVE DqInv'
<1>1. PICK c \in OpenCheck : /\ c = check[w] /\ Stands(c) /\ ApartFrom(w, c)
                             /\ c.step = "resolve" /\ c.todo # <<>>
  BY UnderWay DEF CheckResolve
<1>2. PICK k : k = Head(c.todo)
  OBVIOUS
<1>3. c.todo \in Seq(Issue) /\ c.own \in Written /\ k \in Issue /\ k \notin c.found
  BY <1>1, <1>2 DEF OpenCheck, Stands
<1>4. PICK own : own = [x \in DOMAIN c.own \cup {k} |-> IF x = k THEN "resolved" ELSE c.own[x]]
  OBVIOUS
<1>5. /\ own \in Written /\ DOMAIN own = DOMAIN c.own \cup {k}
      /\ \A x \in DOMAIN c.own : x # k => own[x] = c.own[x]
  BY <1>3, <1>4, WrittenRow DEF IssueState
<1>6. PICK j : j = [c EXCEPT !.todo = Tail(@), !.own = own]
  OBVIOUS
<1>7. check' = [check EXCEPT ![w] = j] /\ IssueFree(w, k)
  <2>1. Wrote(w, k, "resolved") = j
    BY <1>1, <1>4, <1>6 DEF Wrote
  <2> QED
    BY <1>1, <1>2, <2>1 DEF CheckResolve
<1>8. /\ j.step = "resolve" /\ j.todo = Tail(c.todo) /\ j.found = c.found /\ j.own = own
      /\ j \in OpenCheck
  <2>1. Tail(c.todo) \in Seq(Issue)
    BY <1>1, <1>3
  <2> QED
    BY <1>1, <1>5, <1>6, <2>1 DEF OpenCheck
<1>9. Stands(j)
  <2>1. \A n \in DOMAIN j.todo : j.todo[n] \notin c.found
    <3>1. \A n \in DOMAIN j.todo : n + 1 \in DOMAIN c.todo /\ j.todo[n] = c.todo[n + 1]
      BY <1>1, <1>3, <1>8
    <3> QED
      BY <1>1, <3>1 DEF Stands
  <2>2. \A x \in c.found : x \in DOMAIN own /\ own[x] = "open"
    BY <1>1, <1>3, <1>5 DEF Stands
  <2> QED
    BY <1>8, <2>1, <2>2 DEF Stands
<1>10. ApartFrom(w, j)
  BY <1>1, <1>5, <1>7, <1>8 DEF ApartFrom, IssueFree
<1> QED
  BY <1>7, <1>8, <1>9, <1>10, CheckChanges DEF CheckResolve, DqInv, DqWorld, world

\* A check commits what it has written, or nothing of it is kept.
LEMMA CheckEndsKeep ==
  ASSUME DqInv, NEW w \in Checker, CheckEnd(w) \/ CheckDies(w) \/ CheckDeadlock(w)
  PROVE  DqInv'
<1>1. check' = [check EXCEPT ![w] = IdleCheck]
  BY DEF CheckEnd, CheckDies, CheckDeadlock
<1>2. DqWorld'
  BY ChecksAssumption DEF CheckEnd, CheckDies, CheckDeadlock, Move, DqInv, DqWorld, world
<1>3. issue' \in [Issue -> IssueState]
  <2>1. CASE CheckEnd(w)
    <3>1. check[w].own \in Written
      BY <2>1, UnderWay DEF CheckEnd, OpenCheck
    <3>2. \A k \in Issue : Seen(w, k) \in IssueState
      BY <3>1 DEF Seen, Written, DqInv
    <3> QED
      BY <2>1, <3>2 DEF CheckEnd
  <2>2. CASE CheckDies(w) \/ CheckDeadlock(w)
    BY <2>2 DEF CheckDies, CheckDeadlock, DqInv
  <2> QED
    BY <2>1, <2>2
<1> QED
  BY <1>1, <1>2, <1>3, CheckChanges

\* DqInv is inductive.
LEMMA ChecksInductive == DqSpec => []DqInv
<1>1. DqInit => DqInv
  <2> SUFFICES ASSUME DqInit PROVE DqInv
    OBVIOUS
  <2>1. DqWorld
    BY ChecksAssumption DEF DqInit, DqWorld
  <2> QED
    BY <2>1 DEF DqInit, DqInv, IssueState, Checking
<1>2. DqInv /\ [DqNext]_dqVars => DqInv'
  <2> SUFFICES ASSUME DqInv, [DqNext]_dqVars PROVE DqInv'
    OBVIOUS
  <2>1. CASE UNCHANGED dqVars
    BY <2>1 DEF dqVars, DqInv, DqWorld, Checking, ApartFrom
  <2>2. CASE Tomorrow \/ ImportUsage \/ EditField \/ SyncEnds \/ Reconnect
    BY <2>2, WorldMoves
  <2>3. ASSUME NEW w \in Checker,
               \/ CheckStart(w) \/ CheckRead(w) \/ CheckUpsert(w) \/ CheckGoesOn(w)
               \/ CheckResolve(w) \/ CheckEnd(w) \/ CheckDies(w) \/ CheckDeadlock(w)
        PROVE  DqInv'
    BY <2>3, StartKeeps, ReadKeeps, UpsertKeeps, GoesOnKeeps, ResolveKeeps, CheckEndsKeep
  <2> QED
    BY <2>1, <2>2, <2>3 DEF DqNext
<1> QED
  BY <1>1, <1>2, PTL DEF DqSpec

\* The rows of the data-quality checks keep their types.
THEOREM DqTypes == DqSpec => []DqTypeOK
<1>1. DqInv => DqTypeOK
  <2> SUFFICES ASSUME DqInv PROVE DqTypeOK
    OBVIOUS
  <2>1. ASSUME NEW w \in Checker, Checking(w)
        PROVE  /\ check[w].stage \in DOMAIN Stages
               /\ check[w].found \subseteq Issue /\ Range(check[w].todo) \subseteq Issue
               /\ DOMAIN check[w].own \subseteq Issue
    <3>1. PICK c \in OpenCheck : c = check[w]
      BY <2>1, UnderWay
    <3>2. c.stage \in DOMAIN Stages /\ c.found \subseteq Issue
      BY DEF OpenCheck, Stages
    <3>3. Range(c.todo) \subseteq Issue
      BY DEF OpenCheck, Range
    <3>4. DOMAIN c.own \subseteq Issue
      BY DEF OpenCheck, Written
    <3> QED
      BY <3>1, <3>2, <3>3, <3>4
  <2> QED
    BY <2>1 DEF DqInv, DqWorld, DqTypeOK
<1> QED
  BY <1>1, ChecksInductive, PTL

\* What a check has found is open when it commits, however the checks overlap,
\* and its commit touches no row that another has written: a row is locked from
\* the first write, and no stage's findings are resolved by the last statement.
THEOREM FindingsKept == DqSpec => FindingsStand
<1>1. ASSUME DqInv, NEW w \in Checker, CheckEnd(w)
      PROVE  /\ \A k \in check[w].found : issue'[k] = "open"
             /\ \A v \in Checker \ {w}, k \in Issue :
                  Checking(v) /\ k \in DOMAIN check[v].own => issue'[k] = issue[k]
  <2>1. PICK c \in OpenCheck : /\ c = check[w] /\ Stands(c) /\ ApartFrom(w, c)
                               /\ c.step = "resolve"
    BY <1>1, UnderWay DEF CheckEnd
  <2>2. \A k \in Issue : issue'[k] = Seen(w, k)
    BY <1>1 DEF CheckEnd
  <2>3. \A k \in c.found : k \in Issue /\ k \in DOMAIN c.own /\ c.own[k] = "open"
    BY <2>1 DEF Stands, OpenCheck
  <2>4. \A k \in check[w].found : issue'[k] = "open"
    BY <2>1, <2>2, <2>3 DEF Seen
  <2>5. ASSUME NEW v \in Checker \ {w}, NEW k \in Issue, Checking(v), k \in DOMAIN check[v].own
        PROVE  issue'[k] = issue[k]
    BY <2>1, <2>2, <2>5 DEF Seen, ApartFrom
  <2> QED
    BY <2>4, <2>5
<1>2. DqInv /\ [DqNext]_dqVars => [\A w \in Checker : CheckEnd(w) =>
        /\ \A k \in check[w].found : issue'[k] = "open"
        /\ \A v \in Checker \ {w}, k \in Issue :
             Checking(v) /\ k \in DOMAIN check[v].own => issue'[k] = issue[k]]_dqVars
  BY <1>1
<1> QED
  BY <1>2, ChecksInductive, PTL DEF DqSpec, FindingsStand
=============================================================================
