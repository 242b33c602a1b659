---------------------------- MODULE ScoringProofs ----------------------------
(***************************************************************************)
(* Proofs about RiskScore and Calibration, for every set of limits and     *)
(* every bound; the weights, norms and thresholds are those of the code.   *)
(*                                                                         *)
(* RiskScore computes its score anew in every state, so what has to be     *)
(* inductive is only what the facts may be (FactsOK).  The work is in the  *)
(* arithmetic: a component contributes what its strongest signal calls for *)
(* (ContributionIs), a score is the weighted mean over the components      *)
(* covered (ScoreIs), and so it grows with every signal (ScoreGrows) and   *)
(* stays below a bound that its terms stay below (ScoreBelow).  ScoreAfter *)
(* puts two states beside each other.                                      *)
(*                                                                         *)
(* CalInv adds to VersionsInOrder that a number which a fit under way has  *)
(* been given is the next one, or taken since; CurvesInv says what the     *)
(* curves were fitted to: labels kept sorted, the list itself while none   *)
(* was added.                                                              *)
(*                                                                         *)
(* What pooling makes of any number of labels is proved without induction  *)
(* over data: RecursionExists gives the values of a recursive function,    *)
(* Reaches takes a fact about them from each step to the next, both from   *)
(* LeastNatural.  A block is the piece between two cuts of the list.  The  *)
(* lapses summed up never dip below the line of a block (Above), which a   *)
(* merge keeps (AboveBoth), and where the slopes rise the line of every    *)
(* block supports them throughout (LinesSupport): that is Isotonicity.     *)
(* Rounded means follow the slopes, so what is served rises (ApplyGrows).  *)
(* Inside a block the prior, which rises, is ahead of the constant in      *)
(* errors by its distance times the gap between lapses and line (Ahead);   *)
(* the gap closes at the end of the block (FitBeatsPrior).                 *)
(***************************************************************************)
EXTENDS RiskScore, Calibration, FiniteSetTheorems, SequenceTheorems, TLAPS

-----------------------------------------------------------------------------
(* Natural numbers.                                                        *)

\* A non-empty set of natural numbers has a least one: the finite sets 0..x of
\* its members x are well-founded under inclusion.
LEMMA LeastNatural ==
  ASSUME NEW S, S \subseteq Nat, S # {}
  PROVE  \E x \in S : \A y \in S : x <= y
<1> DEFINE T == {0..x : x \in S}
<1>1. T \subseteq FiniteSubsetsOf(Nat) /\ T # {}
  <2>1. \A x \in S : IsFiniteSet(0..x) /\ 0..x \subseteq Nat
    BY FS_Interval
  <2> QED
    BY <2>1 DEF FiniteSubsetsOf
<1>2. PICK I \in T : \A J \in T : <<J, I>> \notin StrictSubsetOrdering(Nat)
  <2>1. \A R, Q, U : IsWellFoundedOn(R, Q) /\ U \subseteq Q /\ U # {} =>
                       \E x \in U : \A y \in U : <<y, x>> \notin R
    BY WFMin
  <2> HIDE DEF T
  <2> QED
    BY <1>1, <2>1, FS_StrictSubsetOrderingWellFounded
<1>3. PICK x \in S : I = 0..x
  OBVIOUS
<1>4. ASSUME NEW y \in S, y < x PROVE FALSE
  <2>1. 0..y \in T /\ 0..y \subseteq I /\ I \subseteq Nat /\ 0..y # I
    BY <1>3, <1>4
  <2> QED
    BY <1>2, <2>1 DEF StrictSubsetOrdering
<1> QED
  BY <1>4

\* A bounded one has a greatest one.
LEMMA MaxIs ==
  ASSUME NEW m \in Nat, NEW S, S \subseteq 0..m, S # {}
  PROVE  Max(S) \in S /\ \A x \in S : x <= Max(S)
<1> DEFINE T == {m - x : x \in S}
<1>1. T \subseteq Nat /\ T # {}
  <2>1. \A x \in S : m - x \in Nat
    OBVIOUS
  <2> QED
    BY <2>1
<1>2. PICK d \in T : \A e \in T : d <= e
  <2> HIDE DEF T
  <2> QED
    BY <1>1, LeastNatural
<1>3. PICK x \in S : d = m - x
  OBVIOUS
<1>4. \A y \in S : x >= y
  <2> SUFFICES ASSUME NEW y \in S PROVE x >= y
    OBVIOUS
  <2>1. m - x <= m - y
    BY <1>2, <1>3
  <2>2. x \in Nat /\ y \in Nat
    OBVIOUS
  <2> QED
    BY <2>1, <2>2
<1> QED
  BY <1>4 DEF Max

\* So Min is the least one.
LEMMA MinIs ==
  ASSUME NEW S, S \subseteq Nat, S # {}
  PROVE  Min(S) \in S /\ \A y \in S : Min(S) <= y
<1>1. \E x \in S : \A y \in S : x <= y
  BY LeastNatural
<1> QED
  BY <1>1 DEF Min

LEMMA DivisionIs ==
  ASSUME NEW a \in Nat, NEW d \in Nat, d > 0
  PROVE  a \div d \in Nat /\ d * (a \div d) <= a /\ a < d * (a \div d) + d
  OBVIOUS

LEMMA DivisionGrows ==
  ASSUME NEW a \in Nat, NEW b \in Nat, a <= b, NEW d \in Nat, d > 0
  PROVE  a \div d <= b \div d
<1>1. PICK p \in Nat, q \in Nat : p = a \div d /\ q = b \div d
  BY DivisionIs
<1>2. d * p <= a /\ b < d * q + d
  BY <1>1, DivisionIs
<1> SUFFICES ASSUME q < p PROVE FALSE
  BY <1>1
<1>3. d * (q + 1) <= d * p
  OBVIOUS
<1>4. d * (q + 1) = d * q + d
  OBVIOUS
<1>5. d * p \in Nat /\ d * q \in Nat
  OBVIOUS
<1> QED
  BY <1>2, <1>3, <1>4, <1>5

-----------------------------------------------------------------------------
(* Calibration.                                                            *)

\* A number given to a model is the next one, or taken since.
CalInv ==
  /\ \E U : models \in Seq(U)
  /\ VersionsInOrder
  /\ DOMAIN fitting = Fitter
  /\ \A f \in Fitter : fitting[f].phase = "numbered" =>
       fitting[f].model.version \in 1..(Len(models) + 1)

LEMMA NextVersion ==
  ASSUME CalInv
  PROVE  Max({0} \cup {models[i].version : i \in DOMAIN models}) = Len(models)
<1>1. PICK U : models \in Seq(U)
  BY DEF CalInv
<1>2. DOMAIN models = 1..Len(models) /\ Len(models) \in Nat
  BY <1>1
<1>3. {0} \cup {models[i].version : i \in DOMAIN models} = 0..Len(models)
  BY <1>2 DEF CalInv, VersionsInOrder
<1>4. PICK n \in Nat : n = Len(models)
  BY <1>2
<1>5. Max(0..n) \in 0..n /\ n <= Max(0..n)
  <2>1. 0..n \subseteq 0..n /\ 0..n # {} /\ n \in 0..n
    OBVIOUS
  <2>2. Max(0..n) \in 0..n /\ \A i \in 0..n : i <= Max(0..n)
    BY <2>1, MaxIs
  <2> QED
    BY <2>1, <2>2
<1>6. Max(0..n) = n
  BY <1>5
<1> QED
  BY <1>3, <1>4, <1>6

LEMMA CalStep == CalInv /\ [CalNext]_calVars => CalInv'
<1> SUFFICES ASSUME CalInv, [CalNext]_calVars PROVE CalInv'
  OBVIOUS
<1>1. PICK U : models \in Seq(U)
  BY DEF CalInv
<1>2. DOMAIN models = 1..Len(models) /\ Len(models) \in Nat
  BY <1>1
<1>3. CASE RecordLabel \/ UNCHANGED calVars
  <2>1. UNCHANGED <<models, fitting>>
    BY <1>3 DEF RecordLabel, calVars
  <2> QED
    BY <2>1 DEF CalInv, VersionsInOrder
<1>4. ASSUME NEW f \in Fitter, FitLabels(f) PROVE CalInv'
  <2>1. UNCHANGED models
    BY <1>4 DEF FitLabels
  <2> DEFINE active(part) == Gate(Only(labels, part), Only(labels, DOMAIN labels \ part))
             fit(part) == [phase |-> "fitted", n |-> Len(labels), active |-> active(part),
                           knots |-> Stored(labels, active(part))]
  <2>2. PICK job : fitting' = [fitting EXCEPT ![f] = job] /\ job.phase = "fitted"
    <3>1. PICK part \in Split(labels) : fitting' = [fitting EXCEPT ![f] = fit(part)]
      BY <1>4 DEF FitLabels
    <3>2. fit(part).phase = "fitted"
      OBVIOUS
    <3> HIDE DEF fit
    <3> QED
      BY <3>1, <3>2
  <2> QED
    BY <2>1, <2>2 DEF CalInv, VersionsInOrder
<1>5. ASSUME NEW f \in Fitter, FitVersion(f) PROVE CalInv'
  <2>1. UNCHANGED models
    BY <1>5 DEF FitVersion
  <2>2. PICK job : /\ fitting' = [fitting EXCEPT ![f] = job]
                   /\ job.model.version =
                        1 + Max({0} \cup {models[i].version : i \in DOMAIN models})
    <3> DEFINE next == [phase |-> "numbered", model |->
                          [version |->
                              1 + Max({0} \cup {models[i].version : i \in DOMAIN models}),
                           n |-> fitting[f].n, active |-> fitting[f].active,
                           knots |-> fitting[f].knots]]
    <3>1. fitting' = [fitting EXCEPT ![f] = next]
      BY <1>5 DEF FitVersion
    <3>2. next.model.version = 1 + Max({0} \cup {models[i].version : i \in DOMAIN models})
      OBVIOUS
    <3> HIDE DEF next
    <3> QED
      BY <3>1, <3>2
  <2>3. job.model.version = 1 + Len(models)
    BY <2>2, NextVersion
  <2>4. job.model.version \in 1..(Len(models) + 1)
    BY <1>2, <2>3
  <2> QED
    BY <2>1, <2>2, <2>4 DEF CalInv, VersionsInOrder
<1>6. ASSUME NEW f \in Fitter, FitStore(f) PROVE CalInv'
  <2>1. PICK m : m = fitting[f].model
    OBVIOUS
  <2>2. m.version \in 1..(Len(models) + 1)
    BY <1>6, <2>1 DEF FitStore, CalInv
  <2>3. DOMAIN fitting' = Fitter /\ fitting'[f] = NotFitting
        /\ \A g \in Fitter \ {f} : fitting'[g] = fitting[g]
    BY <1>6 DEF FitStore, CalInv
  <2>4. CASE Taken(m.version)
    <3>1. UNCHANGED models
      BY <1>6, <2>1, <2>4 DEF FitStore
    <3> QED
      BY <2>3, <3>1 DEF CalInv, VersionsInOrder, NotFitting
  <2>5. CASE ~Taken(m.version)
    <3>1. m.version = Len(models) + 1
      <4>1. m.version \notin DOMAIN models
        BY <2>5 DEF Taken, CalInv, VersionsInOrder
      <4> QED
        BY <1>2, <2>2, <4>1
    <3>2. models' = Append(models, m)
      BY <1>6, <2>1, <2>5 DEF FitStore
    <3>3. PICK V : V = U \cup {m}
      OBVIOUS
    <3>4. models \in Seq(V) /\ m \in V
      BY <1>1, <3>3
    <3>5. /\ models' \in Seq(V) /\ Len(models') = Len(models) + 1
          /\ models'[Len(models) + 1] = m
          /\ \A i \in DOMAIN models : models'[i] = models[i]
      BY <3>2, <3>4
    <3>6. DOMAIN models' = 1..(Len(models) + 1)
      BY <3>5
    <3>7. VersionsInOrder'
      BY <1>2, <3>1, <3>5, <3>6 DEF CalInv, VersionsInOrder
    <3>8. \A g \in Fitter : fitting'[g].phase = "numbered" =>
            fitting'[g].model.version \in 1..(Len(models') + 1)
      <4> SUFFICES ASSUME NEW g \in Fitter, fitting'[g].phase = "numbered"
                   PROVE  fitting'[g].model.version \in 1..(Len(models') + 1)
        OBVIOUS
      <4>1. g # f
        BY <2>3 DEF NotFitting
      <4>2. fitting[g].model.version \in 1..(Len(models) + 1)
        BY <2>3, <4>1 DEF CalInv
      <4> QED
        BY <1>2, <2>3, <3>5, <4>1, <4>2
    <3> QED
      BY <2>3, <3>5, <3>7, <3>8 DEF CalInv
  <2> QED
    BY <2>4, <2>5
<1> QED
  BY <1>3, <1>4, <1>5, <1>6 DEF CalNext

\* CalInv holds at first.
LEMMA CalStart == CalInit => CalInv
<1> SUFFICES ASSUME CalInit PROVE CalInv
  OBVIOUS
<1>1. models \in Seq({}) /\ DOMAIN models = {}
  BY DEF CalInit
<1> QED
  BY <1>1 DEF CalInit, CalInv, VersionsInOrder, NotFitting

\* Fits that overlap never store two models under one version, nor leave a gap.
THEOREM ModelsInOrder == CalSpec => []VersionsInOrder
<1>1. CalInv => VersionsInOrder
  BY DEF CalInv
<1> QED
  BY <1>1, CalStart, CalStep, PTL DEF CalSpec

-----------------------------------------------------------------------------
(* Recursive functions.                                                    *)

\* What the first n steps make of x0, one after the other.
Iterates(g, X, x0, n, step) ==
  /\ g \in [0..n -> X]
  /\ g[0] = x0
  /\ \A k \in 1..n : g[k] = step[k][g[k - 1]]

\* It exists.
LEMMA RecursionExists ==
  ASSUME NEW X, NEW x0 \in X, NEW n \in Nat, NEW step \in [Nat -> [X -> X]]
  PROVE  \E g : Iterates(g, X, x0, n, step)
<1> DEFINE Is(g, m) == g[0] = x0 /\ \A k \in 1..m : g[k] = step[k][g[k - 1]]
           Bad == {m \in Nat : ~\E g \in [0..m -> X] : Is(g, m)}
<1>1. Bad = {}
  <2> SUFFICES ASSUME Bad # {} PROVE FALSE
    OBVIOUS
  <2>1. PICK m \in Bad : \A l \in Bad : m <= l
    <3>1. Bad \subseteq Nat
      OBVIOUS
    <3> HIDE DEF Bad
    <3> QED
      BY <3>1, LeastNatural
  <2>2. m # 0
    <3> DEFINE g0 == [k \in 0..0 |-> x0]
    <3>1. g0 \in [0..0 -> X] /\ Is(g0, 0)
      OBVIOUS
    <3> HIDE DEF g0, Is
    <3> QED
      BY <3>1
  <2>3. m - 1 \in Nat /\ m - 1 \notin Bad
    <3>1. m \in Nat
      OBVIOUS
    <3> HIDE DEF Bad
    <3> QED
      BY <2>1, <2>2, <3>1
  <2>4. PICK g \in [0..(m - 1) -> X] : Is(g, m - 1)
    BY <2>3
  <2> DEFINE h == [k \in 0..m |-> IF k = m THEN step[m][g[m - 1]] ELSE g[k]]
  <2>5. step[m][g[m - 1]] \in X
    <3>1. g[m - 1] \in X /\ m \in Nat
      BY <2>3
    <3> QED
      BY <3>1
  <2>6. h \in [0..m -> X]
    BY <2>2, <2>3, <2>5
  <2>7. Is(h, m)
    <3>1. h[0] = x0
      BY <2>2, <2>3, <2>4
    <3>2. ASSUME NEW k \in 1..m PROVE h[k] = step[k][h[k - 1]]
      <4>1. CASE k = m
        <5>1. h[k] = step[m][g[m - 1]] /\ h[k - 1] = g[m - 1]
          BY <2>3, <4>1
        <5> QED
          BY <4>1, <5>1
      <4>2. CASE k # m
        <5>1. k \in 1..(m - 1) /\ h[k] = g[k] /\ h[k - 1] = g[k - 1]
          BY <2>3, <4>2
        <5> QED
          BY <2>4, <5>1
      <4> QED
        BY <4>1, <4>2
    <3> HIDE DEF h
    <3> QED
      BY <3>1, <3>2
  <2> HIDE DEF h, Is
  <2> QED
    BY <2>6, <2>7
<1>2. \E g \in [0..n -> X] : Is(g, n)
  <2> HIDE DEF Is
  <2> QED
    BY <1>1
<1> QED
  BY <1>2 DEF Iterates

\* A property of the steps that holds at the first and passes on from each to
\* the next holds at all.
LEMMA Reaches ==
  ASSUME NEW n \in Nat, NEW S, 0 \in S, \A k \in 1..n : k - 1 \in S => k \in S
  PROVE  0..n \subseteq S
<1> DEFINE Bad == {m \in 0..n : m \notin S}
<1>1. SUFFICES ASSUME Bad # {} PROVE FALSE
  OBVIOUS
<1>2. PICK m \in Bad : \A l \in Bad : m <= l
  <2>1. Bad \subseteq Nat
    OBVIOUS
  <2> HIDE DEF Bad
  <2> QED
    BY <1>1, <2>1, LeastNatural
<1>3. m \in 1..n /\ m - 1 \in 0..n
  OBVIOUS
<1>4. m - 1 \notin Bad
  <2> HIDE DEF Bad
  <2> QED
    BY <1>2, <1>3
<1> QED
  BY <1>3, <1>4

\* A function that rises with every step rises.
LEMMA StepwiseRises ==
  ASSUME NEW N \in Nat, NEW f \in [0..N -> Int], \A n \in 1..N : f[n - 1] <= f[n],
         NEW a \in 0..N, NEW e \in a..N
  PROVE  f[a] <= f[e]
<1> DEFINE T == {j \in 0..N : a <= j => f[a] <= f[j]}
<1>1. 0 \in T
  OBVIOUS
<1>2. ASSUME NEW n \in 1..N, n - 1 \in T PROVE n \in T
  <2>1. PICK b \in Int, c \in Int, d \in Int : b = f[n - 1] /\ c = f[n] /\ d = f[a] /\ b <= c
    <3>1. n - 1 \in 0..N /\ n \in 0..N
      OBVIOUS
    <3>2. f[n - 1] \in Int /\ f[n] \in Int /\ f[a] \in Int
      BY <3>1
    <3> QED
      BY <3>2
  <2>2. a <= n - 1 => d <= b
    BY <1>2, <2>1
  <2>3. a <= n => d <= c
    <3>1. CASE a = n
      BY <2>1, <3>1
    <3>2. CASE a # n
      BY <2>1, <2>2, <3>2
    <3> QED
      BY <3>1, <3>2
  <2> QED
    BY <2>1, <2>3
<1>3. 0..N \subseteq T
  <2> HIDE DEF T
  <2> QED
    BY <1>1, <1>2, Reaches
<1> QED
  BY <1>3

\* Running sums.
LEMMA SumsFrom ==
  ASSUME NEW n \in Nat, NEW numbers \in [1..n -> Int], NEW f, f[0] = 0,
         \A k \in 1..n : f[k] = f[k - 1] + numbers[k]
  PROVE  \A k \in 0..n : f[k] \in Int
<1>1. \A k \in 0..n : f[k] \in Int
  <2> DEFINE S == {k \in 0..n : f[k] \in Int}
  <2>1. 0 \in S
    OBVIOUS
  <2>2. ASSUME NEW k \in 1..n, k - 1 \in S PROVE k \in S
    <3>1. f[k - 1] \in Int /\ numbers[k] \in Int /\ k \in 0..n
      BY <2>2
    <3> QED
      BY <3>1
  <2>3. 0..n \subseteq S
    <3> HIDE DEF S
    <3> QED
      BY <2>1, <2>2, Reaches
  <2> QED
    BY <2>3
<1> QED
  BY <1>1

\* What Sums(numbers) is, as a recursion.
LEMMA SumsAre ==
  ASSUME NEW n \in Nat, NEW numbers \in [1..n -> Int]
  PROVE  /\ Sums(numbers) \in [0..n -> Int]
         /\ Sums(numbers)[0] = 0
         /\ \A k \in 1..n : Sums(numbers)[k] = Sums(numbers)[k - 1] + numbers[k]
<1> DEFINE Is(g) == g = [k \in 0..n |-> IF k = 0 THEN 0 ELSE g[k - 1] + numbers[k]]
<1>1. Len(numbers) = n
  OBVIOUS
<1>2. PICK step \in [Nat -> [Int -> Int]] :
        \A k \in 1..n, x \in Int : step[k][x] = x + numbers[k]
  <2> DEFINE add == [k \in Nat |-> [x \in Int |-> IF k \in 1..n THEN x + numbers[k] ELSE x]]
  <2>1. add \in [Nat -> [Int -> Int]]
    OBVIOUS
  <2>2. \A k \in 1..n, x \in Int : add[k][x] = x + numbers[k]
    OBVIOUS
  <2> HIDE DEF add
  <2> QED
    BY <2>1, <2>2
<1>3. PICK g \in [0..n -> Int] : g[0] = 0 /\ \A k \in 1..n : g[k] = step[k][g[k - 1]]
  <2>1. 0 \in Int
    OBVIOUS
  <2>2. PICK g : Iterates(g, Int, 0, n, step)
    BY <2>1, RecursionExists, Zenon
  <2> QED
    BY <2>2 DEF Iterates
<1>4. \A k \in 0..n : g[k] = IF k = 0 THEN 0 ELSE g[k - 1] + numbers[k]
  <2>1. \A k \in 1..n : g[k - 1] \in Int
    OBVIOUS
  <2>2. \A k \in 1..n : g[k] = g[k - 1] + numbers[k]
    BY <1>2, <1>3, <2>1
  <2> QED
    BY <1>3, <2>2
<1>5. Is(g)
  <2>1. g = [k \in 0..n |-> g[k]]
    OBVIOUS
  <2> QED
    BY <1>4, <2>1, Zenon
<1>6. Sums(numbers) = CHOOSE f : Is(f)
  BY <1>1 DEF Sums
<1>7. Is(Sums(numbers))
  <2> HIDE DEF Is
  <2> QED
    BY <1>5, <1>6
<1>8. Sums(numbers) = [k \in 0..n |-> Sums(numbers)[k]]
  <2>1. DOMAIN Sums(numbers) = 0..n
    BY <1>7
  <2>2. Sums(numbers) = [k \in DOMAIN Sums(numbers) |-> Sums(numbers)[k]]
    BY <1>7
  <2> QED
    BY <2>1, <2>2
<1>9. \A k \in 0..n : Sums(numbers)[k] =
                      IF k = 0 THEN 0 ELSE Sums(numbers)[k - 1] + numbers[k]
  BY <1>7
<1>10. Sums(numbers)[0] = 0
  <2>1. 0 \in 0..n
    OBVIOUS
  <2> QED
    BY <1>9, <2>1, Zenon
<1>11. \A k \in 1..n : Sums(numbers)[k] = Sums(numbers)[k - 1] + numbers[k]
  <2>1. \A k \in 1..n : k \in 0..n /\ k # 0
    OBVIOUS
  <2> QED
    BY <1>9, <2>1, Zenon
<1>12. \A k \in 0..n : Sums(numbers)[k] \in Int
  BY <1>10, <1>11, SumsFrom
<1> QED
  BY <1>8, <1>10, <1>11, <1>12

\* Nothing else is.
LEMMA SumsAreOnly ==
  ASSUME NEW n \in Nat, NEW numbers \in [1..n -> Int], NEW g, g[0] = 0,
         \A k \in 1..n : g[k] = g[k - 1] + numbers[k]
  PROVE  \A k \in 0..n : g[k] = Sums(numbers)[k]
<1> DEFINE S == {k \in 0..n : g[k] = Sums(numbers)[k]}
<1>1. 0 \in S
  BY SumsAre
<1>2. ASSUME NEW k \in 1..n, k - 1 \in S PROVE k \in S
  <2>1. g[k] = g[k - 1] + numbers[k] /\ g[k - 1] = Sums(numbers)[k - 1]
    BY <1>2
  <2>2. Sums(numbers)[k] = Sums(numbers)[k - 1] + numbers[k]
    BY SumsAre
  <2>3. k \in 0..n
    OBVIOUS
  <2> QED
    BY <2>1, <2>2, <2>3
<1>3. 0..n \subseteq S
  <2> HIDE DEF S
  <2> QED
    BY <1>1, <1>2, Reaches
<1> QED
  BY <1>3

-----------------------------------------------------------------------------
(* Means and lines.                                                        *)

\* X/d is at least s/w, and s/w at least s1/w1.
LEMMA MeansChain ==
  ASSUME NEW X \in Int, NEW d \in Nat, NEW s \in Int, NEW w \in Nat, w > 0,
         NEW s1 \in Int, NEW w1 \in Nat, X * w >= s * d, s * w1 >= s1 * w
  PROVE  X * w1 >= s1 * d
<1>1. X * w1 \in Int /\ s1 * d \in Int /\ X * w \in Int /\ s * d \in Int
  OBVIOUS
<1>2. (X * w) * w1 >= (s * d) * w1
  OBVIOUS
<1>3. (s * w1) * d >= (s1 * w) * d
  OBVIOUS
<1>4. (X * w) * w1 = (X * w1) * w /\ (s * d) * w1 = (s * w1) * d
      /\ (s1 * w) * d = (s1 * d) * w
  OBVIOUS
<1>5. (X * w1) * w >= (s1 * d) * w
  BY <1>2, <1>3, <1>4
<1> QED
  <2>1. PICK p \in Int, q \in Int : p = X * w1 /\ q = s1 * d
    BY <1>1
  <2>2. p * w >= q * w
    BY <1>5, <2>1
  <2>3. p >= q
    BY <2>2
  <2> QED
    BY <2>1, <2>3

\* S at a..e is nowhere below the line from a to e.
Above(S, a, e) == \A j \in a..e : (S[j] - S[a]) * (e - a) >= (S[e] - S[a]) * (j - a)

\* The line from b to c is steeper than that from a to b.
Steeper(S, a, b, c) == (S[b] - S[a]) * (c - b) < (S[c] - S[b]) * (b - a)

\* Two pieces above their lines, the second no steeper than the first, are above
\* their common line.
LEMMA AboveBoth ==
  ASSUME NEW N \in Nat, NEW S \in [0..N -> Int],
         NEW a \in 0..N, NEW b \in 0..N, NEW c \in 0..N, a < b, b < c,
         Above(S, a, b), Above(S, b, c), ~Steeper(S, a, b, c)
  PROVE  Above(S, a, c)
<1>1. PICK f \in Int, g \in Int, h \in Int : f = S[a] /\ g = S[b] /\ h = S[c]
  OBVIOUS
<1>2. (g - f) * (c - b) >= (h - g) * (b - a)
  <2>1. ~((g - f) * (c - b) < (h - g) * (b - a))
    BY <1>1 DEF Steeper
  <2>2. (g - f) * (c - b) \in Int /\ (h - g) * (b - a) \in Int
    OBVIOUS
  <2> QED
    BY <2>1, <2>2
<1>3. (g - f) * (c - a) >= (h - f) * (b - a)
  <2>1. (g - f) * (c - a) = (g - f) * (c - b) + (g - f) * (b - a)
    OBVIOUS
  <2>2. (h - f) * (b - a) = (h - g) * (b - a) + (g - f) * (b - a)
    OBVIOUS
  <2>3. (g - f) * (c - b) \in Int /\ (h - g) * (b - a) \in Int /\ (g - f) * (b - a) \in Int
    OBVIOUS
  <2> QED
    BY <1>2, <2>1, <2>2, <2>3
<1>4. (g - h) * (c - a) >= (f - h) * (c - b)
  <2>1. (g - h) * (c - a) = (g - f) * (c - a) + (f - h) * (c - a)
    OBVIOUS
  <2>2. (f - h) * (c - b) = (f - h) * (c - a) + (h - f) * (b - a)
    OBVIOUS
  <2>3. (g - f) * (c - a) \in Int /\ (f - h) * (c - a) \in Int /\ (h - f) * (b - a) \in Int
    OBVIOUS
  <2> QED
    BY <1>3, <2>1, <2>2, <2>3
<1> SUFFICES ASSUME NEW j \in a..c, NEW v \in Int, v = S[j]
             PROVE  (v - f) * (c - a) >= (h - f) * (j - a)
  <2>1. \A j \in a..c : S[j] \in Int
    OBVIOUS
  <2> QED
    BY <1>1, <2>1 DEF Above
<1>5. CASE j <= b
  <2>1. (v - f) * (b - a) >= (g - f) * (j - a)
    <3>1. j \in a..b
      BY <1>5
    <3> QED
      BY <1>1, <3>1 DEF Above
  <2>2. j - a \in Nat /\ b - a \in Nat /\ c - a \in Nat /\ b - a > 0
    OBVIOUS
  <2>3. v - f \in Int /\ g - f \in Int /\ h - f \in Int
    OBVIOUS
  <2> QED
    BY <1>3, <2>1, <2>2, <2>3, MeansChain
<1>6. CASE b < j
  <2>1. (v - g) * (c - b) >= (h - g) * (j - b)
    <3>1. j \in b..c
      BY <1>6
    <3> QED
      BY <1>1, <3>1 DEF Above
  <2>2. (v - h) * (c - b) >= (g - h) * (c - j)
    <3>1. (v - h) * (c - b) = (v - g) * (c - b) + (g - h) * (c - b)
      <4>1. PICK x \in Int, y \in Int, d \in Int : x = v - g /\ y = g - h /\ d = c - b
        OBVIOUS
      <4>2. (x + y) * d = x * d + y * d
        OBVIOUS
      <4>3. x + y = v - h
        BY <4>1
      <4> QED
        BY <4>1, <4>2, <4>3
    <3>2. (g - h) * (c - j) = (h - g) * (j - b) + (g - h) * (c - b)
      OBVIOUS
    <3>3. /\ (v - g) * (c - b) \in Int /\ (h - g) * (j - b) \in Int
          /\ (g - h) * (c - b) \in Int
      OBVIOUS
    <3> QED
      BY <2>1, <3>1, <3>2, <3>3
  <2>3. c - j \in Nat /\ c - b \in Nat /\ c - a \in Nat /\ c - b > 0
    OBVIOUS
  <2>4. (v - h) * (c - a) >= (f - h) * (c - j)
    <3>1. v - h \in Int /\ g - h \in Int /\ f - h \in Int
      OBVIOUS
    <3> QED
      BY <1>4, <2>2, <2>3, <3>1, MeansChain
  <2>5. (v - f) * (c - a) = (v - h) * (c - a) + (h - f) * (c - a)
    <3>1. PICK x \in Int, y \in Int, d \in Int : x = v - h /\ y = h - f /\ d = c - a
      OBVIOUS
    <3>2. (x + y) * d = x * d + y * d
      OBVIOUS
    <3>3. x + y = v - f
      BY <3>1
    <3> QED
      BY <3>1, <3>2, <3>3
  <2>6. (h - f) * (j - a) = (f - h) * (c - j) + (h - f) * (c - a)
    OBVIOUS
  <2>7. /\ (v - h) * (c - a) \in Int /\ (f - h) * (c - j) \in Int
        /\ (h - f) * (c - a) \in Int
    OBVIOUS
  <2> QED
    BY <2>4, <2>5, <2>6, <2>7
<1> QED
  BY <1>5, <1>6

-----------------------------------------------------------------------------
(* Pooling.                                                                *)

BlockSet == [x : Int, w : Int, sum : Int]

\* The labels after position a up to position e as a block: x is the scores, S
\* the lapses up to each position.
Piece(x, S, a, e) == [x |-> x[e], w |-> e - a, sum |-> S[e] - S[a]]

\* A piece is a block.
LEMMA PieceType ==
  ASSUME NEW N \in Nat, NEW x \in [1..N -> Int], NEW S \in [0..N -> Int],
         NEW a \in 0..N, NEW e \in 1..N
  PROVE  Piece(x, S, a, e) \in BlockSet
<1>1. x[e] \in Int /\ S[e] \in Int /\ S[a] \in Int
  OBVIOUS
<1>2. S[e] - S[a] \in Int /\ e - a \in Int
  BY <1>1
<1> QED
  BY <1>1, <1>2 DEF Piece, BlockSet

\* Two pieces that meet pool to one piece.
LEMMA PiecesMerge ==
  ASSUME NEW N \in Nat, NEW x \in [1..N -> Int], NEW S \in [0..N -> Int],
         NEW a \in 0..N, NEW b \in 1..N, NEW c \in 1..N
  PROVE  /\ Merge(Piece(x, S, a, b), Piece(x, S, b, c)) = Piece(x, S, a, c)
         /\ Violates(Piece(x, S, a, b), Piece(x, S, b, c)) <=> ~Steeper(S, a, b, c)
<1>1. PICK f \in Int, g \in Int, h \in Int : f = S[a] /\ g = S[b] /\ h = S[c]
  <2>1. S[a] \in Int /\ S[b] \in Int /\ S[c] \in Int
    OBVIOUS
  <2> QED
    BY <2>1
<1>2. Merge(Piece(x, S, a, b), Piece(x, S, b, c)) = Piece(x, S, a, c)
  <2>1. (b - a) + (c - b) = c - a /\ (g - f) + (h - g) = h - f
    OBVIOUS
  <2> QED
    BY <1>1, <2>1 DEF Merge, Piece
<1>3. Violates(Piece(x, S, a, b), Piece(x, S, b, c)) <=>
        (g - f) * (c - b) >= (h - g) * (b - a)
  BY <1>1 DEF Violates, Piece
<1>4. Steeper(S, a, b, c) <=> (g - f) * (c - b) < (h - g) * (b - a)
  BY <1>1 DEF Steeper
<1>5. (g - f) * (c - b) \in Int /\ (h - g) * (b - a) \in Int
  OBVIOUS
<1> QED
  BY <1>2, <1>3, <1>4, <1>5

\* The blocks bs lie between the cuts E, and over none of them S dips below its
\* line.
Cover(bs, E, x, S, n) ==
  /\ bs \in Seq(BlockSet)
  /\ E \in [0..Len(bs) -> 0..n]
  /\ E[0] = 0
  /\ E[Len(bs)] = n
  /\ \A k \in 1..Len(bs) : /\ E[k - 1] < E[k]
                           /\ bs[k] = Piece(x, S, E[k - 1], E[k])
                           /\ Above(S, E[k - 1], E[k])

\* Each of the first m blocks but the first is steeper than the one before it.
Rising(E, S, m) == \A k \in 1..(m - 1) : Steeper(S, E[k - 1], E[k], E[k + 1])

\* A step that pools the last two blocks, where the second does not rise, keeps
\* the cover of the labels.
LEMMA PoolsLast ==
  ASSUME NEW N \in Nat, NEW x \in [1..N -> Int], NEW S \in [0..N -> Int], NEW n \in 0..N,
         NEW bs, NEW E, Cover(bs, E, x, S, n), Len(bs) >= 2, Rising(E, S, Len(bs) - 1),
         Violates(bs[Len(bs) - 1], bs[Len(bs)])
  PROVE  /\ Len(PoolStep(bs)) = Len(bs) - 1
         /\ \E F : Cover(PoolStep(bs), F, x, S, n) /\ Rising(F, S, Len(bs) - 2)
<1>1. PICK m \in Nat : m = Len(bs)
  <2>1. bs \in Seq(BlockSet)
    BY DEF Cover
  <2> QED
    BY <2>1
<1>2. m >= 2
  BY <1>1
<1>3. bs \in Seq(BlockSet) /\ E \in [0..m -> 0..n] /\ E[0] = 0 /\ E[m] = n
  BY <1>1 DEF Cover
<1>4. \A k \in 1..m : /\ E[k - 1] < E[k]
                      /\ bs[k] = Piece(x, S, E[k - 1], E[k])
                      /\ Above(S, E[k - 1], E[k])
  BY <1>1 DEF Cover
<1>5. PICK a \in 0..n, b \in 0..n : a = E[m - 2] /\ b = E[m - 1]
  <2>1. m - 2 \in 0..m /\ m - 1 \in 0..m
    BY <1>2
  <2> QED
    BY <1>3, <2>1
<1>6. /\ a < b /\ bs[m - 1] = Piece(x, S, a, b) /\ Above(S, a, b)
      /\ b < n /\ bs[m] = Piece(x, S, b, n) /\ Above(S, b, n)
  <2>1. m - 1 \in 1..m /\ m \in 1..m /\ (m - 1) - 1 = m - 2
    BY <1>2
  <2> QED
    BY <1>3, <1>4, <1>5, <2>1
<1>7. a \in 0..N /\ b \in 1..N /\ n \in 1..N /\ b \in 0..N
  BY <1>6
<1>8. ~Steeper(S, a, b, n)
  <2>1. Violates(Piece(x, S, a, b), Piece(x, S, b, n))
    BY <1>1, <1>6
  <2> QED
    BY <1>7, <2>1, PiecesMerge
<1>9. Above(S, a, n)
  BY <1>6, <1>7, <1>8, AboveBoth
<1>10. Merge(bs[m - 1], bs[m]) = Piece(x, S, a, n)
  <2>1. Merge(Piece(x, S, a, b), Piece(x, S, b, n)) = Piece(x, S, a, n)
    BY <1>7, PiecesMerge
  <2> QED
    BY <1>6, <2>1
<1>11. PICK p : p = Piece(x, S, a, n) /\ p \in BlockSet
  BY <1>7, PieceType
<1>12. PICK cs : cs = Append(SubSeq(bs, 1, m - 2), p)
  OBVIOUS
<1>13. PoolStep(bs) = cs
  BY <1>1, <1>10, <1>11, <1>12 DEF PoolStep
<1>14. /\ cs \in Seq(BlockSet) /\ Len(cs) = m - 1 /\ cs[m - 1] = p
       /\ \A k \in 1..(m - 2) : cs[k] = bs[k]
  <2>1. PICK ds : ds = SubSeq(bs, 1, m - 2)
    OBVIOUS
  <2>2. m - 2 \in Nat /\ 1 <= m - 2 + 1 /\ m - 2 <= m
    BY <1>2
  <2>3. ds \in Seq(BlockSet) /\ Len(ds) = m - 2 /\ \A k \in 1..(m - 2) : ds[k] = bs[k]
    <3>1. \A k \in 1..(m - 2) : bs[k] \in BlockSet
      BY <1>1, <1>3
    <3>2. PICK q \in Nat : q = m - 2
      BY <2>2
    <3>3. \A k \in 1..q : bs[k] \in BlockSet
      BY <3>1, <3>2
    <3>4. /\ SubSeq(bs, 1, q) \in Seq(BlockSet)
          /\ Len(SubSeq(bs, 1, q)) = IF 1 <= q THEN q - 1 + 1 ELSE 0
          /\ \A k \in 1..(q - 1 + 1) : SubSeq(bs, 1, q)[k] = bs[1 + k - 1]
      <4>1. 1 \in Int /\ q \in Int
        OBVIOUS
      <4> QED
        BY <3>3, <4>1, SubSeqProperties
    <3>5. ds = SubSeq(bs, 1, q)
      BY <2>1, <3>2
    <3>6. /\ ds \in Seq(BlockSet)
          /\ Len(ds) = IF 1 <= q THEN q - 1 + 1 ELSE 0
          /\ \A k \in 1..(q - 1 + 1) : ds[k] = bs[1 + k - 1]
      BY <3>4, <3>5
    <3>7. 1..(q - 1 + 1) = 1..q /\ \A k \in 1..q : 1 + k - 1 = k
      OBVIOUS
    <3>8. Len(ds) = q /\ \A k \in 1..q : ds[k] = bs[k]
      BY <3>6, <3>7
    <3> QED
      BY <3>2, <3>6, <3>8
  <2> QED
    BY <1>11, <1>12, <2>1, <2>2, <2>3
<1>15. PICK F \in [0..(m - 1) -> 0..n] :
         F[m - 1] = n /\ \A k \in 0..(m - 2) : F[k] = E[k]
  <2> DEFINE G == [k \in 0..(m - 1) |-> IF k = m - 1 THEN n ELSE E[k]]
  <2>1. \A k \in 0..(m - 1) : E[k] \in 0..n /\ n \in 0..n
    BY <1>2, <1>3
  <2>2. G \in [0..(m - 1) -> 0..n]
    BY <2>1
  <2>3. G[m - 1] = n /\ \A k \in 0..(m - 2) : G[k] = E[k]
    BY <1>2
  <2> HIDE DEF G
  <2> QED
    BY <2>2, <2>3
<1>16. \A k \in 1..(m - 1) : /\ F[k - 1] < F[k]
                             /\ cs[k] = Piece(x, S, F[k - 1], F[k])
                             /\ Above(S, F[k - 1], F[k])
  <2> SUFFICES ASSUME NEW k \in 1..(m - 1)
               PROVE  /\ F[k - 1] < F[k]
                      /\ cs[k] = Piece(x, S, F[k - 1], F[k])
                      /\ Above(S, F[k - 1], F[k])
    OBVIOUS
  <2>1. CASE k = m - 1
    <3>1. F[k - 1] = a /\ F[k] = n /\ cs[k] = p
      <4>1. m - 2 \in 0..(m - 2) /\ k - 1 = m - 2
        BY <1>2, <2>1
      <4> QED
        BY <1>5, <1>14, <1>15, <2>1, <4>1
    <3> QED
      BY <1>6, <1>9, <1>11, <3>1
  <2>2. CASE k # m - 1
    <3>1. k \in 1..(m - 2) /\ k \in 0..(m - 2) /\ k - 1 \in 0..(m - 2) /\ k \in 1..m
      BY <1>2, <2>2
    <3> QED
      BY <1>4, <1>14, <1>15, <3>1
  <2> QED
    BY <2>1, <2>2
<1>17. Cover(cs, F, x, S, n)
  <2>1. F[0] = 0
    <3>1. 0 \in 0..(m - 2)
      BY <1>2
    <3> QED
      BY <1>3, <1>15, <3>1
  <2> QED
    BY <1>14, <1>15, <1>16, <2>1 DEF Cover
<1>18. Rising(F, S, m - 2)
  <2> SUFFICES ASSUME NEW k \in 1..(m - 3) PROVE Steeper(S, F[k - 1], F[k], F[k + 1])
    BY DEF Rising
  <2>1. k - 1 \in 0..(m - 2) /\ k \in 0..(m - 2) /\ k + 1 \in 0..(m - 2) /\ k \in 1..(m - 2)
    BY <1>2
  <2>2. F[k - 1] = E[k - 1] /\ F[k] = E[k] /\ F[k + 1] = E[k + 1]
    BY <1>15, <2>1
  <2>3. Steeper(S, E[k - 1], E[k], E[k + 1])
    BY <1>1, <2>1 DEF Rising
  <2> QED
    BY <2>2, <2>3
<1> QED
  BY <1>1, <1>13, <1>14, <1>17, <1>18

\* A step takes blocks to blocks.
LEMMA PoolStepType ==
  ASSUME NEW bs \in Seq(BlockSet)
  PROVE  PoolStep(bs) \in Seq(BlockSet)
<1>1. PICK m \in Nat : m = Len(bs)
  OBVIOUS
<1>2. CASE m >= 2 /\ Violates(bs[m - 1], bs[m])
  <2>1. bs[m - 1] \in BlockSet /\ bs[m] \in BlockSet
    BY <1>1, <1>2
  <2>2. Merge(bs[m - 1], bs[m]) \in BlockSet
    <3>1. ASSUME NEW b \in BlockSet, NEW c \in BlockSet PROVE Merge(b, c) \in BlockSet
      BY DEF Merge, BlockSet
    <3> QED
      BY <2>1, <3>1
  <2>3. SubSeq(bs, 1, m - 2) \in Seq(BlockSet)
    <3>1. \A k \in 1..(m - 2) : bs[k] \in BlockSet
      BY <1>1
    <3>2. m - 2 \in Int
      OBVIOUS
    <3> QED
      BY <3>1, <3>2, SubSeqProperties
  <2>4. PICK p \in BlockSet, cs \in Seq(BlockSet) :
          p = Merge(bs[m - 1], bs[m]) /\ cs = SubSeq(bs, 1, m - 2)
    BY <2>2, <2>3
  <2>5. PoolStep(bs) = Append(cs, p)
    BY <1>1, <1>2, <2>4 DEF PoolStep
  <2> QED
    BY <2>5
<1>3. CASE ~(m >= 2 /\ Violates(bs[m - 1], bs[m]))
  BY <1>1, <1>3 DEF PoolStep
<1> QED
  BY <1>2, <1>3

\* What Passes(bs) is, as a recursion.
LEMMA PassesAre ==
  ASSUME NEW bs \in Seq(BlockSet), NEW label, Block(label) \in BlockSet
  PROVE  /\ Passes(bs, label)[0] = Append(bs, Block(label))
         /\ \A k \in 1..Len(bs) : Passes(bs, label)[k] = PoolStep(Passes(bs, label)[k - 1])
<1> DEFINE first == Append(bs, Block(label))
           Is(g) == g = [k \in 0..Len(bs) |-> IF k = 0 THEN first ELSE PoolStep(g[k - 1])]
<1>1. PICK n \in Nat : n = Len(bs)
  OBVIOUS
<1>2. PICK X, step : /\ X = Seq(BlockSet)
                     /\ step \in [Nat -> [X -> X]]
                     /\ \A k \in Nat, cs \in X : step[k][cs] = PoolStep(cs)
  <2> DEFINE each == [k \in Nat |-> [cs \in Seq(BlockSet) |-> PoolStep(cs)]]
  <2>1. each \in [Nat -> [Seq(BlockSet) -> Seq(BlockSet)]]
    BY PoolStepType
  <2>2. \A k \in Nat, cs \in Seq(BlockSet) : each[k][cs] = PoolStep(cs)
    OBVIOUS
  <2> HIDE DEF each
  <2> QED
    BY <2>1, <2>2
<1>3. first \in X
  BY <1>2
<1>4. PICK g : Iterates(g, X, first, n, step)
  <2> HIDE DEF first
  <2> QED
    BY <1>2, <1>3, RecursionExists, Zenon
<1>5. g \in [0..n -> X] /\ g[0] = first /\ \A k \in 1..n : g[k] = step[k][g[k - 1]]
  BY <1>4 DEF Iterates
<1>6. \A k \in 1..n : g[k] = PoolStep(g[k - 1])
  <2> HIDE DEF first
  <2>1. \A k \in 1..n : g[k - 1] \in X /\ k \in Nat
    BY <1>5
  <2> QED
    BY <1>2, <1>5, <2>1
<1>7. Is(g)
  <2> HIDE DEF first
  <2>1. g = [k \in 0..n |-> g[k]]
    BY <1>5
  <2>2. \A k \in 0..n : g[k] = IF k = 0 THEN first ELSE PoolStep(g[k - 1])
    BY <1>5, <1>6
  <2> QED
    BY <1>1, <2>1, <2>2, Zenon
<1>8. Passes(bs, label) = CHOOSE f : Is(f)
  BY DEF Passes
<1>9. Is(Passes(bs, label))
  <2> HIDE DEF Is
  <2> QED
    BY <1>7, <1>8
<1>10. \A k \in 0..n : Passes(bs, label)[k] =
                         IF k = 0 THEN first ELSE PoolStep(Passes(bs, label)[k - 1])
  <2> HIDE DEF first
  <2> QED
    BY <1>1, <1>9
<1>11. Passes(bs, label)[0] = first
  <2>1. 0 \in 0..n
    OBVIOUS
  <2> HIDE DEF first
  <2> QED
    BY <1>10, <2>1, Zenon
<1>12. \A k \in 1..n : Passes(bs, label)[k] = PoolStep(Passes(bs, label)[k - 1])
  <2>1. \A k \in 1..n : k \in 0..n /\ k # 0
    OBVIOUS
  <2> HIDE DEF first
  <2> QED
    BY <1>10, <2>1, Zenon
<1> QED
  BY <1>1, <1>11, <1>12

\* Pool takes blocks to blocks.
LEMMA PoolType ==
  ASSUME NEW bs \in Seq(BlockSet), NEW label, Block(label) \in BlockSet
  PROVE  Pool(bs, label) \in Seq(BlockSet)
<1>1. PICK n \in Nat : n = Len(bs)
  OBVIOUS
<1>2. PICK L : L = Passes(bs, label)
  OBVIOUS
<1> DEFINE T == {k \in 0..n : L[k] \in Seq(BlockSet)}
<1>3. 0 \in T
  <2>1. L[0] = Append(bs, Block(label))
    BY <1>2, PassesAre
  <2>2. L[0] \in Seq(BlockSet)
    BY <2>1
  <2> QED
    BY <2>2
<1>4. ASSUME NEW k \in 1..n, k - 1 \in T PROVE k \in T
  <2>1. L[k] = PoolStep(L[k - 1])
    BY <1>1, <1>2, PassesAre
  <2>2. L[k - 1] \in Seq(BlockSet)
    BY <1>4
  <2> QED
    BY <2>1, <2>2, PoolStepType
<1>5. 0..n \subseteq T
  <2> HIDE DEF T
  <2> QED
    BY <1>3, <1>4, Reaches
<1> QED
  BY <1>1, <1>2, <1>5 DEF Pool

\* A label more, before the loop.
LEMMA AppendCovers ==
  ASSUME NEW N \in Nat, NEW x \in [1..N -> Int], NEW S \in [0..N -> Int],
         NEW n \in Nat, n + 1 <= N,
         NEW bs, NEW E, Cover(bs, E, x, S, n), Rising(E, S, Len(bs))
  PROVE  \E F : /\ Cover(Append(bs, Piece(x, S, n, n + 1)), F, x, S, n + 1)
                /\ Rising(F, S, Len(bs))
<1>1. PICK m \in Nat : m = Len(bs)
  <2>1. bs \in Seq(BlockSet)
    BY DEF Cover
  <2> QED
    BY <2>1
<1>2. bs \in Seq(BlockSet) /\ E \in [0..m -> 0..n] /\ E[0] = 0 /\ E[m] = n
  BY <1>1 DEF Cover
<1>3. \A k \in 1..m : /\ E[k - 1] < E[k]
                      /\ bs[k] = Piece(x, S, E[k - 1], E[k])
                      /\ Above(S, E[k - 1], E[k])
  BY <1>1 DEF Cover
<1>4. n \in 0..N /\ n + 1 \in 1..N
  OBVIOUS
<1>5. PICK p \in BlockSet : p = Piece(x, S, n, n + 1)
  BY <1>4, PieceType
<1>6. PICK cs : cs = Append(bs, p)
  OBVIOUS
<1>7. /\ cs \in Seq(BlockSet) /\ Len(cs) = m + 1 /\ cs[m + 1] = p
      /\ \A k \in 1..m : cs[k] = bs[k]
  BY <1>1, <1>2, <1>6
<1>8. PICK F \in [0..(m + 1) -> 0..(n + 1)] :
        F[m + 1] = n + 1 /\ \A k \in 0..m : F[k] = E[k]
  <2> DEFINE G == [k \in 0..(m + 1) |-> IF k = m + 1 THEN n + 1 ELSE E[k]]
  <2>1. \A k \in 0..m : E[k] \in 0..(n + 1)
    BY <1>2
  <2>2. \A k \in 0..(m + 1) : k = m + 1 \/ k \in 0..m
    OBVIOUS
  <2>3. G \in [0..(m + 1) -> 0..(n + 1)]
    BY <2>1, <2>2
  <2>4. G[m + 1] = n + 1 /\ \A k \in 0..m : G[k] = E[k]
    OBVIOUS
  <2> HIDE DEF G
  <2> QED
    BY <2>3, <2>4
<1>9. Above(S, n, n + 1)
  <2> SUFFICES ASSUME NEW j \in n..(n + 1)
               PROVE  (S[j] - S[n]) * (n + 1 - n) >= (S[n + 1] - S[n]) * (j - n)
    <3>1. (n + 1) - n = n + 1 - n
      OBVIOUS
    <3> QED
      BY <3>1 DEF Above
  <2>1. PICK f \in Int, g \in Int : f = S[n] /\ g = S[n + 1]
    BY <1>4
  <2>2. n + 1 - n = 1
    OBVIOUS
  <2>3. CASE j = n
    <3>1. S[j] - S[n] = 0 /\ j - n = 0
      BY <2>1, <2>3
    <3> QED
      BY <2>1, <2>2, <3>1
  <2>4. CASE j = n + 1
    <3>1. j - n = 1
      BY <2>4
    <3> QED
      BY <2>1, <2>2, <2>4, <3>1
  <2> QED
    BY <2>3, <2>4
<1>10. \A k \in 1..(m + 1) : /\ F[k - 1] < F[k]
                             /\ cs[k] = Piece(x, S, F[k - 1], F[k])
                             /\ Above(S, F[k - 1], F[k])
  <2> SUFFICES ASSUME NEW k \in 1..(m + 1)
               PROVE  /\ F[k - 1] < F[k]
                      /\ cs[k] = Piece(x, S, F[k - 1], F[k])
                      /\ Above(S, F[k - 1], F[k])
    OBVIOUS
  <2>1. CASE k = m + 1
    <3>1. F[k - 1] = n /\ F[k] = n + 1 /\ cs[k] = p
      <4>1. m \in 0..m /\ k - 1 = m
        BY <2>1
      <4> QED
        BY <1>2, <1>7, <1>8, <2>1, <4>1
    <3> QED
      BY <1>5, <1>9, <3>1
  <2>2. CASE k # m + 1
    <3>1. k \in 1..m /\ k \in 0..m /\ k - 1 \in 0..m
      BY <2>2
    <3> QED
      BY <1>3, <1>7, <1>8, <3>1
  <2> QED
    BY <2>1, <2>2
<1>11. Cover(cs, F, x, S, n + 1)
  <2>1. F[0] = 0
    BY <1>2, <1>8
  <2> QED
    BY <1>7, <1>8, <1>10, <2>1 DEF Cover
<1>12. Rising(F, S, m)
  <2> SUFFICES ASSUME NEW k \in 1..(m - 1) PROVE Steeper(S, F[k - 1], F[k], F[k + 1])
    BY DEF Rising
  <2>1. k - 1 \in 0..m /\ k \in 0..m /\ k + 1 \in 0..m
    OBVIOUS
  <2>2. F[k - 1] = E[k - 1] /\ F[k] = E[k] /\ F[k + 1] = E[k + 1]
    BY <1>8, <2>1
  <2>3. Steeper(S, E[k - 1], E[k], E[k + 1])
    BY <1>1 DEF Rising
  <2> QED
    BY <2>2, <2>3
<1> QED
  BY <1>1, <1>5, <1>6, <1>11, <1>12

\* The last two blocks violate when and only when the last is not steeper.
LEMMA LastViolates ==
  ASSUME NEW N \in Nat, NEW x \in [1..N -> Int], NEW S \in [0..N -> Int], NEW n \in 0..N,
         NEW bs, NEW E, Cover(bs, E, x, S, n), NEW m \in Nat, m = Len(bs), m >= 2
  PROVE  Violates(bs[m - 1], bs[m]) <=> ~Steeper(S, E[m - 2], E[m - 1], E[m])
<1>1. E \in [0..m -> 0..n]
  BY DEF Cover
<1>2. m - 2 \in 0..m /\ m - 1 \in 0..m /\ m \in 0..m /\ m - 1 \in 1..m /\ m \in 1..m
      /\ (m - 1) - 1 = m - 2
  OBVIOUS
<1>3. PICK a \in 0..n, b \in 0..n, c \in 0..n : a = E[m - 2] /\ b = E[m - 1] /\ c = E[m]
  BY <1>1, <1>2
<1>4. a < b /\ b < c /\ bs[m - 1] = Piece(x, S, a, b) /\ bs[m] = Piece(x, S, b, c)
  <2>1. \A k \in 1..m : E[k - 1] < E[k] /\ bs[k] = Piece(x, S, E[k - 1], E[k])
    BY DEF Cover
  <2> QED
    BY <1>2, <1>3, <2>1
<1>5. a \in 0..N /\ b \in 1..N /\ c \in 1..N
  BY <1>4
<1>6. Violates(Piece(x, S, a, b), Piece(x, S, b, c)) <=> ~Steeper(S, a, b, c)
  BY <1>5, PiecesMerge
<1> QED
  BY <1>3, <1>4, <1>6

\* What the loop keeps: the blocks rise, or all but the last do and there is one
\* block less after each pass.
LEMMA PoolCovers ==
  ASSUME NEW N \in Nat, NEW x \in [1..N -> Int], NEW S \in [0..N -> Int],
         NEW n \in Nat, n + 1 <= N,
         NEW bs, NEW E, Cover(bs, E, x, S, n), Rising(E, S, Len(bs)),
         NEW label, Block(label) = Piece(x, S, n, n + 1)
  PROVE  \E F : /\ Cover(Pool(bs, label), F, x, S, n + 1)
                /\ Rising(F, S, Len(Pool(bs, label)))
<1>1. bs \in Seq(BlockSet)
  BY DEF Cover
<1>2. PICK m \in Nat : m = Len(bs)
  BY <1>1
<1>3. PICK L : m = Len(bs) /\ L = Passes(bs, label)
  BY <1>2
<1>4. n + 1 \in 0..N /\ n \in 0..N /\ n + 1 \in 1..N
  OBVIOUS
<1>5. Block(label) \in BlockSet
  <2>1. Piece(x, S, n, n + 1) \in BlockSet
    BY <1>4, PieceType
  <2> QED
    BY <2>1
<1>6. L[0] = Append(bs, Block(label)) /\ \A k \in 1..m : L[k] = PoolStep(L[k - 1])
  BY <1>1, <1>3, <1>5, PassesAre
<1> DEFINE Keeps(k) == \E F : /\ Cover(L[k], F, x, S, n + 1)
                              /\ \/ Rising(F, S, Len(L[k]))
                                 \/ Rising(F, S, Len(L[k]) - 1) /\ Len(L[k]) = m + 1 - k
           T == {k \in 0..m : Keeps(k)}
<1>7. Keeps(0)
  <2>1. PICK F : Cover(L[0], F, x, S, n + 1) /\ Rising(F, S, m)
    <3>1. \E F : /\ Cover(Append(bs, Piece(x, S, n, n + 1)), F, x, S, n + 1)
                  /\ Rising(F, S, Len(bs))
      BY AppendCovers
    <3>2. L[0] = Append(bs, Piece(x, S, n, n + 1))
      BY <1>6
    <3> QED
      BY <1>3, <3>1, <3>2
  <2>2. Len(L[0]) = m + 1
    BY <1>1, <1>3, <1>5, <1>6
  <2>3. Len(L[0]) - 1 = m /\ Len(L[0]) = m + 1 - 0
    BY <2>2, <1>3
  <2> QED
    BY <2>1, <2>3
<1>8. ASSUME NEW k \in 1..m, Keeps(k - 1) PROVE Keeps(k)
  <2>1. PICK cs : cs = L[k - 1]
    OBVIOUS
  <2>2. PICK F : /\ Cover(cs, F, x, S, n + 1)
                 /\ \/ Rising(F, S, Len(cs))
                    \/ Rising(F, S, Len(cs) - 1) /\ Len(cs) = m + 1 - (k - 1)
    BY <1>8, <2>1
  <2>3. PICK l \in Nat : l = Len(cs)
    <3>1. cs \in Seq(BlockSet)
      BY <2>2 DEF Cover
    <3> QED
      BY <3>1
  <2>4. L[k] = PoolStep(cs)
    BY <1>6, <2>1
  <2>5. CASE l >= 2 /\ Violates(cs[l - 1], cs[l])
    <3>1. ~Steeper(S, F[l - 2], F[l - 1], F[l])
      BY <1>4, <2>2, <2>3, <2>5, LastViolates
    <3>2. ~Rising(F, S, l)
      <4>1. l - 1 \in 1..(l - 1) /\ (l - 1) - 1 = l - 2 /\ (l - 1) + 1 = l
        BY <2>5
      <4>2. Rising(F, S, l) =>
              Steeper(S, F[(l - 1) - 1], F[l - 1], F[(l - 1) + 1])
        BY <4>1 DEF Rising
      <4> QED
        BY <3>1, <4>1, <4>2
    <3>3. Rising(F, S, Len(cs) - 1) /\ l = m + 1 - (k - 1)
      BY <2>2, <2>3, <3>2
    <3>4. /\ Len(PoolStep(cs)) = Len(cs) - 1
          /\ \E G : Cover(PoolStep(cs), G, x, S, n + 1) /\ Rising(G, S, Len(cs) - 2)
      BY <1>4, <2>2, <2>3, <2>5, <3>3, PoolsLast
    <3>5. Len(L[k]) - 1 = Len(cs) - 2 /\ Len(L[k]) = m + 1 - k
      <4>1. Len(L[k]) = l - 1
        BY <2>3, <2>4, <3>4
      <4>2. l - 1 - 1 = l - 2 /\ l - 1 = m + 1 - k
        BY <3>3
      <4> QED
        BY <2>3, <4>1, <4>2
    <3> QED
      BY <2>4, <3>4, <3>5
  <2>6. CASE ~(l >= 2 /\ Violates(cs[l - 1], cs[l]))
    <3>1. L[k] = cs
      BY <2>3, <2>4, <2>6 DEF PoolStep
    <3>2. Rising(F, S, l)
      <4>1. CASE Rising(F, S, l - 1)
        <5> SUFFICES ASSUME NEW i \in 1..(l - 1)
                     PROVE  Steeper(S, F[i - 1], F[i], F[i + 1])
          BY DEF Rising
        <5>1. CASE i = l - 1
          <6>1. l >= 2 /\ i - 1 = l - 2 /\ i + 1 = l
            BY <5>1
          <6>2. ~Violates(cs[l - 1], cs[l])
            BY <2>6, <6>1
          <6>3. Steeper(S, F[l - 2], F[l - 1], F[l])
            BY <1>4, <2>2, <2>3, <6>1, <6>2, LastViolates
          <6> QED
            BY <5>1, <6>1, <6>3
        <5>2. CASE i # l - 1
          <6>1. i \in 1..((l - 1) - 1)
            BY <5>2
          <6> QED
            BY <4>1, <6>1 DEF Rising
        <5> QED
          BY <5>1, <5>2
      <4> QED
        BY <2>2, <2>3, <4>1
    <3> QED
      BY <2>2, <2>3, <3>1, <3>2
  <2> QED
    BY <2>5, <2>6
<1>9. 0..m \subseteq T
  <2>1. 0 \in T
    BY <1>3, <1>7
  <2>2. \A k \in 1..m : k - 1 \in T => k \in T
    <3> HIDE DEF Keeps
    <3> SUFFICES ASSUME NEW k \in 1..m, k - 1 \in T PROVE k \in T
      OBVIOUS
    <3>1. Keeps(k - 1) /\ k \in 0..m
      OBVIOUS
    <3> QED
      BY <1>8, <3>1
  <2> HIDE DEF T
  <2> QED
    BY <1>3, <2>1, <2>2, Reaches
<1>10. Keeps(m)
  <2> HIDE DEF Keeps
  <2> QED
    BY <1>3, <1>9
<1>11. L[m] = Pool(bs, label)
  BY <1>3 DEF Pool
<1>12. PICK F : /\ Cover(L[m], F, x, S, n + 1)
                /\ \/ Rising(F, S, Len(L[m]))
                   \/ Rising(F, S, Len(L[m]) - 1) /\ Len(L[m]) = m + 1 - m
  BY <1>10
<1>13. Rising(F, S, Len(L[m]))
  <2>1. Len(L[m]) = 1 => Rising(F, S, Len(L[m]))
    BY DEF Rising
  <2>2. m + 1 - m = 1
    BY <1>3
  <2> QED
    BY <1>12, <2>1, <2>2
<1> QED
  BY <1>11, <1>12, <1>13

LabelSet == Int \X {0, 1}
Scores(pairs) == [i \in DOMAIN pairs |-> pairs[i][1]]

\* Scores and lapses of a list of labels.
LEMMA LabelsAre ==
  ASSUME NEW N \in Nat, NEW pairs \in Seq(LabelSet), N = Len(pairs)
  PROVE  /\ Scores(pairs) \in [1..N -> Int]
         /\ Lapses(pairs) \in [0..N -> Int]
         /\ Lapses(pairs)[0] = 0
         /\ \A n \in 1..N :
              /\ Scores(pairs)[n] = pairs[n][1]
              /\ Lapses(pairs)[n] = Lapses(pairs)[n - 1] + pairs[n][2]
              /\ Block(pairs[n]) = Piece(Scores(pairs), Lapses(pairs), n - 1, n)
<1>1. DOMAIN pairs = 1..N /\ \A n \in 1..N : pairs[n] \in LabelSet
  OBVIOUS
<1>2. \A n \in 1..N : pairs[n][1] \in Int /\ pairs[n][2] \in Int
  BY <1>1 DEF LabelSet
<1>3. Scores(pairs) \in [1..N -> Int] /\ \A n \in 1..N : Scores(pairs)[n] = pairs[n][1]
  BY <1>1, <1>2 DEF Scores
<1>4. PICK ys \in [1..N -> Int] : /\ ys = [n \in DOMAIN pairs |-> pairs[n][2]]
                                 /\ \A n \in 1..N : ys[n] = pairs[n][2]
  <2> DEFINE zs == [n \in DOMAIN pairs |-> pairs[n][2]]
  <2>1. zs \in [1..N -> Int] /\ \A n \in 1..N : zs[n] = pairs[n][2]
    BY <1>1, <1>2
  <2>2. zs = [n \in DOMAIN pairs |-> pairs[n][2]]
    OBVIOUS
  <2> HIDE DEF zs
  <2> QED
    BY <2>1, <2>2
<1>5. PICK S : S = Lapses(pairs)
  OBVIOUS
<1>6. S \in [0..N -> Int] /\ S[0] = 0 /\ \A n \in 1..N : S[n] = S[n - 1] + ys[n]
  <2>1. S = Sums(ys)
    BY <1>4, <1>5 DEF Lapses
  <2> QED
    BY <2>1, SumsAre
<1>7. \A n \in 1..N : S[n] = S[n - 1] + pairs[n][2]
  BY <1>4, <1>6
<1>8. ASSUME NEW n \in 1..N PROVE Block(pairs[n]) = Piece(Scores(pairs), S, n - 1, n)
  <2>1. S[n - 1] \in Int /\ S[n] \in Int /\ pairs[n][2] \in Int
    <3>1. n - 1 \in 0..N /\ n \in 0..N
      OBVIOUS
    <3> QED
      BY <1>2, <1>6, <3>1
  <2>2. S[n] - S[n - 1] = pairs[n][2]
    BY <1>7, <2>1
  <2>3. n - (n - 1) = 1
    OBVIOUS
  <2>4. Scores(pairs)[n] = pairs[n][1]
    BY <1>3
  <2> QED
    BY <2>2, <2>3, <2>4 DEF Block, Piece
<1> QED
  BY <1>3, <1>5, <1>6, <1>7, <1>8

\* What Fits(pairs) is, as a recursion.
LEMMA FitsAre ==
  ASSUME NEW N \in Nat, NEW pairs \in Seq(LabelSet), N = Len(pairs)
  PROVE  /\ Fits(pairs)[0] = <<>>
         /\ \A n \in 1..N : Fits(pairs)[n] = Pool(Fits(pairs)[n - 1], pairs[n])
<1> DEFINE Is(g) == g = [n \in 0..Len(pairs) |-> IF n = 0 THEN <<>> ELSE Pool(g[n - 1], pairs[n])]
<1>1. \A n \in 1..N : Block(pairs[n]) \in BlockSet
  <2>1. \A l \in LabelSet : Block(l) \in BlockSet
    BY DEF LabelSet, Block, BlockSet
  <2> QED
    BY <2>1
<1>2. PICK X : X = Seq(BlockSet)
  OBVIOUS
<1>3. PICK step : /\ step \in [Nat -> [X -> X]]
                  /\ \A n \in 1..N, cs \in X : step[n][cs] = Pool(cs, pairs[n])
  <2> DEFINE each == [n \in Nat |-> [cs \in X |->
                        IF n \in 1..N THEN Pool(cs, pairs[n]) ELSE cs]]
  <2>1. \A n \in 1..N, cs \in X : Pool(cs, pairs[n]) \in X
    BY <1>2, <1>1, PoolType
  <2>2. each \in [Nat -> [X -> X]]
    BY <2>1
  <2>3. \A n \in 1..N, cs \in X : each[n][cs] = Pool(cs, pairs[n])
    OBVIOUS
  <2> HIDE DEF each
  <2> QED
    BY <2>2, <2>3
<1>4. PICK none \in X : none = <<>>
  <2>1. <<>> \in Seq(BlockSet)
    OBVIOUS
  <2> QED
    BY <1>2, <2>1
<1>5. PICK g : Iterates(g, X, none, N, step)
  BY <1>3, <1>4, RecursionExists, Zenon
<1>6. g \in [0..N -> X] /\ g[0] = none /\ \A n \in 1..N : g[n] = step[n][g[n - 1]]
  BY <1>5 DEF Iterates
<1>7. \A n \in 1..N : g[n] = Pool(g[n - 1], pairs[n])
  <2>1. \A n \in 1..N : g[n - 1] \in X
    BY <1>6
  <2> QED
    BY <1>3, <1>6, <2>1
<1>8. Is(g)
  <2>1. g = [n \in 0..N |-> g[n]]
    BY <1>6
  <2>2. \A n \in 0..N : g[n] = IF n = 0 THEN <<>> ELSE Pool(g[n - 1], pairs[n])
    BY <1>4, <1>6, <1>7
  <2> QED
    BY <2>1, <2>2, Zenon
<1>9. Fits(pairs) = CHOOSE f : Is(f)
  BY DEF Fits
<1>10. Is(Fits(pairs))
  <2> HIDE DEF Is
  <2> QED
    BY <1>8, <1>9
<1>11. \A n \in 0..N : Fits(pairs)[n] =
                         IF n = 0 THEN <<>> ELSE Pool(Fits(pairs)[n - 1], pairs[n])
  BY <1>10
<1>12. Fits(pairs)[0] = <<>>
  <2>1. 0 \in 0..N
    OBVIOUS
  <2> QED
    BY <1>11, <2>1, Zenon
<1>13. \A n \in 1..N : Fits(pairs)[n] = Pool(Fits(pairs)[n - 1], pairs[n])
  <2>1. \A n \in 1..N : n \in 0..N /\ n # 0
    OBVIOUS
  <2> QED
    BY <1>11, <2>1, Zenon
<1> QED
  BY <1>12, <1>13

\* The blocks of a fit rise, lie side by side over all labels, and the lapses
\* never dip below the line of a block.
LEMMA BlocksCover ==
  ASSUME NEW N \in Nat, NEW pairs \in Seq(LabelSet), N = Len(pairs)
  PROVE  \E E : /\ Cover(Blocks(pairs), E, Scores(pairs), Lapses(pairs), N)
                /\ Rising(E, Lapses(pairs), Len(Blocks(pairs)))
<1>1. PICK x \in [1..N -> Int], S \in [0..N -> Int] : x = Scores(pairs) /\ S = Lapses(pairs)
  BY LabelsAre
<1>2. PICK fit : fit = Fits(pairs)
  OBVIOUS
<1> DEFINE FitsUpTo(n) == \E E : Cover(fit[n], E, x, S, n) /\ Rising(E, S, Len(fit[n]))
           T == {n \in 0..N : FitsUpTo(n)}
<1>3. FitsUpTo(0)
  <2>1. fit[0] = <<>>
    BY <1>2, FitsAre
  <2>2. PICK E : E = [k \in 0..0 |-> 0]
    OBVIOUS
  <2>3. <<>> \in Seq(BlockSet) /\ Len(<<>>) = 0 /\ E \in [0..0 -> 0..0] /\ E[0] = 0
    BY <2>2
  <2>4. Cover(<<>>, E, x, S, 0)
    BY <2>3 DEF Cover
  <2>5. Rising(E, S, 0)
    BY DEF Rising
  <2> QED
    BY <2>1, <2>3, <2>4, <2>5
<1>4. ASSUME NEW n \in 1..N, FitsUpTo(n - 1) PROVE FitsUpTo(n)
  <2>1. PICK bs, E : bs = fit[n - 1] /\ Cover(bs, E, x, S, n - 1) /\ Rising(E, S, Len(bs))
    BY <1>4
  <2>2. Block(pairs[n]) = Piece(x, S, n - 1, n)
    BY <1>1, LabelsAre
  <2>3. PICK b \in Nat : b = n - 1 /\ b + 1 = n /\ b + 1 <= N
    OBVIOUS
  <2>4. Block(pairs[n]) = Piece(x, S, b, b + 1) /\ Cover(bs, E, x, S, b)
    BY <2>1, <2>2, <2>3
  <2>5. PICK label : label = pairs[n]
    OBVIOUS
  <2>6. \E F : /\ Cover(Pool(bs, label), F, x, S, b + 1)
               /\ Rising(F, S, Len(Pool(bs, label)))
    BY <2>1, <2>3, <2>4, <2>5, PoolCovers
  <2>7. fit[n] = Pool(bs, label)
    BY <1>2, <2>1, <2>5, FitsAre
  <2> QED
    BY <2>3, <2>6, <2>7
<1>5. 0..N \subseteq T
  <2> HIDE DEF FitsUpTo
  <2>1. 0 \in T
    BY <1>3
  <2>2. \A n \in 1..N : n - 1 \in T => n \in T
    <3> SUFFICES ASSUME NEW n \in 1..N, n - 1 \in T PROVE n \in T
      OBVIOUS
    <3>1. FitsUpTo(n - 1) /\ n \in 0..N
      OBVIOUS
    <3> QED
      BY <1>4, <3>1
  <2> HIDE DEF T
  <2> QED
    BY <2>1, <2>2, Reaches
<1>6. FitsUpTo(N)
  <2> HIDE DEF FitsUpTo
  <2> QED
    BY <1>5
<1> QED
  BY <1>1, <1>2, <1>6 DEF Blocks

-----------------------------------------------------------------------------
(* The fit is the isotonic regression.                                     *)

\* S at j is not below the line through a and c.
Over(S, a, c, j) == (S[j] - S[a]) * (c - a) >= (S[c] - S[a]) * (j - a)

\* The line from b to e is at least as steep as the one from a to c.
AsSteep(S, a, c, b, e) == (S[c] - S[a]) * (e - b) <= (S[e] - S[b]) * (c - a)

\* A line over which S lies at b stays below S where S lies over a line from b on
\* that is as steep.
LEMMA OverRight ==
  ASSUME NEW N \in Nat, NEW S \in [0..N -> Int],
         NEW a \in 0..N, NEW c \in 0..N, NEW b \in 0..N, NEW e \in 0..N, NEW j \in 0..N,
         a < c, b < e, b <= j,
         Over(S, a, c, b), AsSteep(S, a, c, b, e), Over(S, b, e, j)
  PROVE  Over(S, a, c, j)
<1>1. PICK f \in Int, h \in Int, g \in Int, p \in Int, v \in Int :
        f = S[a] /\ h = S[c] /\ g = S[b] /\ p = S[e] /\ v = S[j]
  OBVIOUS
<1>2. (g - f) * (c - a) >= (h - f) * (b - a)
  BY <1>1 DEF Over
<1>3. (h - f) * (e - b) <= (p - g) * (c - a)
  BY <1>1 DEF AsSteep
<1>4. (v - g) * (e - b) >= (p - g) * (j - b)
  BY <1>1 DEF Over
<1>5. PICK D \in Nat, d \in Nat, w \in Nat : D = e - b /\ d = j - b /\ w = c - a /\ D > 0
  OBVIOUS
<1>6. PICK X \in Int, s \in Int, t \in Int : X = v - g /\ s = p - g /\ t = h - f
  OBVIOUS
<1>7. X * w >= t * d
  <2>1. X * D >= s * d
    BY <1>4, <1>5, <1>6
  <2>2. s * w >= t * D
    <3>1. s * w \in Int /\ t * D \in Int /\ t * D <= s * w
      BY <1>3, <1>5, <1>6
    <3> QED
      BY <3>1
  <2> QED
    BY <1>5, <2>1, <2>2, MeansChain
<1>8. PICK Y \in Int, r \in Int : Y = g - f /\ r = b - a
  OBVIOUS
<1>9. Y * w >= t * r
  BY <1>2, <1>5, <1>6, <1>8
<1>10. (X + Y) * w >= t * (d + r)
  <2>1. (X + Y) * w = X * w + Y * w /\ t * (d + r) = t * d + t * r
    OBVIOUS
  <2>2. X * w \in Int /\ Y * w \in Int /\ t * d \in Int /\ t * r \in Int
    OBVIOUS
  <2> QED
    BY <1>7, <1>9, <2>1, <2>2
<1>11. X + Y = v - f /\ d + r = j - a
  BY <1>5, <1>6, <1>8
<1>12. (v - f) * (c - a) >= (h - f) * (j - a)
  BY <1>5, <1>6, <1>10, <1>11
<1> QED
  BY <1>1, <1>12 DEF Over

\* The same to the left.
LEMMA OverLeft ==
  ASSUME NEW N \in Nat, NEW S \in [0..N -> Int],
         NEW a \in 0..N, NEW c \in 0..N, NEW b \in 0..N, NEW e \in 0..N, NEW j \in 0..N,
         a < c, b < e, j <= e,
         Over(S, a, c, e), AsSteep(S, b, e, a, c), Over(S, b, e, j)
  PROVE  Over(S, a, c, j)
<1>1. PICK f \in Int, h \in Int, g \in Int, p \in Int, v \in Int :
        f = S[a] /\ h = S[c] /\ g = S[b] /\ p = S[e] /\ v = S[j]
  OBVIOUS
<1>2. (p - f) * (c - a) >= (h - f) * (e - a)
  BY <1>1 DEF Over
<1>3. (p - g) * (c - a) <= (h - f) * (e - b)
  BY <1>1 DEF AsSteep
<1>4. (v - g) * (e - b) >= (p - g) * (j - b)
  BY <1>1 DEF Over
<1>5. PICK D \in Nat, d \in Nat, w \in Nat : D = e - b /\ d = e - j /\ w = c - a /\ D > 0
  OBVIOUS
<1>6. PICK X \in Int, s \in Int, t \in Int : X = v - p /\ s = g - p /\ t = f - h
  OBVIOUS
<1>7. X * D >= s * d
  <2>1. (X - s) * D >= (0 - s) * (D - d)
    <3>1. X - s = v - g /\ 0 - s = p - g /\ D - d = j - b
      BY <1>5, <1>6
    <3> QED
      BY <1>4, <1>5, <3>1
  <2>2. (X - s) * D = X * D - s * D /\ (0 - s) * (D - d) = s * d - s * D
    OBVIOUS
  <2>3. X * D \in Int /\ s * D \in Int /\ s * d \in Int
    OBVIOUS
  <2> QED
    BY <2>1, <2>2, <2>3
<1>8. s * w >= t * D
  <2>1. (0 - s) * w <= (0 - t) * D
    <3>1. 0 - s = p - g /\ 0 - t = h - f
      BY <1>6
    <3> QED
      BY <1>3, <1>5, <3>1
  <2>2. (0 - s) * w = 0 - s * w /\ (0 - t) * D = 0 - t * D
    OBVIOUS
  <2>3. s * w \in Int /\ t * D \in Int
    OBVIOUS
  <2> QED
    BY <2>1, <2>2, <2>3
<1>9. X * w >= t * d
  BY <1>5, <1>7, <1>8, MeansChain
<1>10. PICK Y \in Int, r \in Int : Y = p - f /\ r = e - a
  OBVIOUS
<1>11. Y * w >= (0 - t) * r
  <2>1. 0 - t = h - f
    BY <1>6
  <2> QED
    BY <1>2, <1>5, <1>10, <2>1
<1>12. (X + Y) * w >= (0 - t) * (r - d)
  <2>1. (X + Y) * w = X * w + Y * w /\ (0 - t) * (r - d) = (0 - t) * r + t * d
    OBVIOUS
  <2>2. X * w \in Int /\ Y * w \in Int /\ t * d \in Int /\ (0 - t) * r \in Int
    OBVIOUS
  <2> QED
    BY <1>9, <1>11, <2>1, <2>2
<1>13. X + Y = v - f /\ r - d = j - a /\ 0 - t = h - f
  BY <1>5, <1>6, <1>10
<1>14. (v - f) * (c - a) >= (h - f) * (j - a)
  BY <1>5, <1>12, <1>13
<1> QED
  BY <1>1, <1>14 DEF Over

\* The m blocks bs of n labels lie between the cuts E.
Cut(bs, m, E, x, S, n) ==
  /\ m = Len(bs) /\ DOMAIN bs = 1..m
  /\ E \in [0..m -> 0..n] /\ E[0] = 0 /\ E[m] = n
  /\ \A k \in 1..m : /\ E[k - 1] \in 0..n /\ E[k] \in 0..n /\ E[k - 1] < E[k]
                     /\ bs[k] = Piece(x, S, E[k - 1], E[k])

\* Cuts grow.
LEMMA CutsAre ==
  ASSUME NEW n \in Nat, NEW bs, NEW E, NEW x, NEW S, Cover(bs, E, x, S, n)
  PROVE  \E m \in Nat :
           /\ Cut(bs, m, E, x, S, n)
           /\ \A k \in 1..m : \A j \in E[k - 1]..E[k] : Over(S, E[k - 1], E[k], j)
<1>1. bs \in Seq(BlockSet)
  BY DEF Cover
<1>2. PICK m \in Nat : m = Len(bs) /\ DOMAIN bs = 1..m
  BY <1>1
<1>3. /\ E \in [0..m -> 0..n] /\ E[0] = 0 /\ E[m] = n
      /\ \A k \in 1..m : /\ E[k - 1] < E[k]
                         /\ bs[k] = Piece(x, S, E[k - 1], E[k])
                         /\ Above(S, E[k - 1], E[k])
  BY <1>2 DEF Cover
<1>4. \A k \in 1..m : E[k - 1] \in 0..n /\ E[k] \in 0..n
  <2>1. \A k \in 1..m : k - 1 \in 0..m /\ k \in 0..m
    OBVIOUS
  <2> QED
    BY <1>3, <2>1
<1>5. \A a, e : Above(S, a, e) => \A j \in a..e : Over(S, a, e, j)
  BY DEF Above, Over
<1>6. Cut(bs, m, E, x, S, n)
  BY <1>2, <1>3, <1>4 DEF Cut
<1>7. \A k \in 1..m : \A j \in E[k - 1]..E[k] : Over(S, E[k - 1], E[k], j)
  BY <1>3, <1>5
<1> QED
  BY <1>6, <1>7

\* Where neighbours rise, all do.
LEMMA StepsRise ==
  ASSUME NEW N \in Nat, NEW S \in [0..N -> Int], NEW m \in Nat, NEW E \in [0..m -> 0..N],
         \A k \in 1..m : E[k - 1] < E[k], Rising(E, S, m),
         NEW k \in 1..m, NEW l \in k..m
  PROVE  AsSteep(S, E[k - 1], E[k], E[l - 1], E[l])
<1>1. PICK a \in 0..N, c \in 0..N : a = E[k - 1] /\ c = E[k] /\ a < c
  <2>1. k - 1 \in 0..m /\ k \in 0..m
    OBVIOUS
  <2> QED
    BY <2>1
<1>2. PICK t \in Int, w \in Nat : t = S[c] - S[a] /\ w = c - a
  <2>1. S[c] \in Int /\ S[a] \in Int /\ c - a \in Nat
    BY <1>1
  <2> QED
    BY <2>1
<1> DEFINE T == {i \in 0..(m - k) : AsSteep(S, a, c, E[k + i - 1], E[k + i])}
<1>3. 0 \in T
  <2>1. AsSteep(S, a, c, a, c)
    <3>1. (S[c] - S[a]) * (c - a) \in Int
      BY <1>2
    <3> QED
      BY <3>1 DEF AsSteep
  <2>2. k + 0 = k /\ k + 0 - 1 = k - 1 /\ 0 \in 0..(m - k)
    OBVIOUS
  <2> QED
    BY <1>1, <2>1, <2>2
<1>4. ASSUME NEW i \in 1..(m - k), i - 1 \in T PROVE i \in T
  <2>1. PICK h \in 1..(m - 1) : h = k + i - 1
    OBVIOUS
  <2>2. k + (i - 1) = h /\ k + (i - 1) - 1 = h - 1 /\ k + i - 1 = h /\ k + i = h + 1
    BY <2>1
  <2>3. AsSteep(S, a, c, E[h - 1], E[h])
    BY <1>4, <2>2
  <2>4. PICK b \in 0..N, d \in 0..N, e \in 0..N :
          b = E[h - 1] /\ d = E[h] /\ e = E[h + 1] /\ b < d /\ d < e
    <3>1. h - 1 \in 0..m /\ h \in 0..m /\ h + 1 \in 0..m /\ h \in 1..m /\ h + 1 \in 1..m
          /\ (h + 1) - 1 = h
      OBVIOUS
    <3>2. E[h - 1] < E[h] /\ E[(h + 1) - 1] < E[h + 1]
      BY <3>1
    <3> QED
      BY <3>1, <3>2
  <2>5. Steeper(S, b, d, e)
    <3>1. h \in 1..(m - 1)
      OBVIOUS
    <3> QED
      BY <2>4, <3>1 DEF Rising
  <2>6. PICK s \in Int, v \in Nat : s = S[d] - S[b] /\ v = d - b /\ v > 0
    <3>1. S[d] \in Int /\ S[b] \in Int
      OBVIOUS
    <3>2. b < d
      BY <2>4
    <3>3. d - b \in Nat /\ d - b > 0
      BY <3>2
    <3> QED
      BY <3>1, <3>3
  <2>7. PICK s1 \in Int, v1 \in Nat : s1 = S[e] - S[d] /\ v1 = e - d
    <3>1. S[e] \in Int /\ S[d] \in Int /\ e - d \in Nat
      BY <2>4
    <3> QED
      BY <3>1
  <2>8. t * v <= s * w
    BY <1>2, <2>3, <2>4, <2>6 DEF AsSteep
  <2>9. s * v1 < s1 * v
    BY <2>5, <2>6, <2>7 DEF Steeper
  <2>10. s1 * w >= t * v1
    <3>1. s1 * v >= s * v1 /\ s * w >= t * v
      <4>1. s1 * v \in Int /\ s * v1 \in Int /\ s * w \in Int /\ t * v \in Int
        OBVIOUS
      <4> QED
        BY <2>8, <2>9, <4>1
    <3>2. v > 0
      BY <2>6
    <3> HIDE DEF T
    <3> QED
      BY <3>1, <3>2, MeansChain
  <2>11. AsSteep(S, a, c, d, e)
    <3>1. t * v1 <= s1 * w
      <4>1. t * v1 \in Int /\ s1 * w \in Int
        OBVIOUS
      <4> QED
        BY <2>10, <4>1
    <3> QED
      BY <1>2, <2>7, <3>1 DEF AsSteep
  <2>12. i \in 0..(m - k)
    OBVIOUS
  <2> QED
    BY <2>2, <2>4, <2>11, <2>12
<1>5. 0..(m - k) \subseteq T
  <2>1. m - k \in Nat
    OBVIOUS
  <2> HIDE DEF T
  <2> QED
    BY <1>3, <1>4, <2>1, Reaches
<1>6. AsSteep(S, a, c, E[k + (l - k) - 1], E[k + (l - k)])
  <2>1. l - k \in 0..(m - k)
    OBVIOUS
  <2>2. l - k \in T
    BY <1>5, <2>1
  <2> QED
    BY <2>2
<1>7. k + (l - k) = l /\ k + (l - k) - 1 = l - 1
  OBVIOUS
<1> QED
  BY <1>1, <1>6, <1>7

\* Every position is in a block.
LEMMA BlockOf ==
  ASSUME NEW n \in Nat, NEW m \in Nat, m > 0, NEW E \in [0..m -> 0..n], E[0] = 0, E[m] = n,
         NEW j \in 0..n
  PROVE  \E l \in 1..m : E[l - 1] <= j /\ j <= E[l]
<1> DEFINE T == {l \in 1..m : j <= E[l]}
<1>1. m \in T
  OBVIOUS
<1>2. PICK l \in T : \A i \in T : l <= i
  <2>1. T \subseteq Nat /\ T # {}
    BY <1>1
  <2> HIDE DEF T
  <2> QED
    BY <2>1, LeastNatural
<1>3. l \in 1..m /\ j <= E[l]
  OBVIOUS
<1>4. CASE l = 1
  BY <1>3, <1>4
<1>5. CASE l # 1
  <2>1. l - 1 \in 1..m /\ l - 1 \in 0..m
    BY <1>3, <1>5
  <2>2. l - 1 \notin T
    <3> HIDE DEF T
    <3> QED
      BY <1>2, <1>3, <2>1
  <2>3. ~(j <= E[l - 1])
    BY <2>1, <2>2
  <2>4. E[l - 1] \in 0..n
    BY <2>1
  <2> QED
    BY <1>3, <2>3, <2>4
<1> QED
  BY <1>4, <1>5

\* The line of each block supports S: S is nowhere below it.
LEMMA LinesSupport ==
  ASSUME NEW N \in Nat, NEW S \in [0..N -> Int], NEW m \in Nat, NEW E \in [0..m -> 0..N],
         E[0] = 0, E[m] = N, \A k \in 1..m : E[k - 1] < E[k], Rising(E, S, m),
         \A k \in 1..m : \A j \in E[k - 1]..E[k] : Over(S, E[k - 1], E[k], j),
         NEW k \in 1..m, NEW j \in 0..N
  PROVE  Over(S, E[k - 1], E[k], j)
<1>1. PICK a \in 0..N, c \in 0..N : a = E[k - 1] /\ c = E[k] /\ a < c
  <2>1. k - 1 \in 0..m /\ k \in 0..m
    OBVIOUS
  <2> QED
    BY <2>1
<1>2. \A l \in 1..m : /\ E[l - 1] \in 0..N /\ E[l] \in 0..N /\ E[l - 1] < E[l]
                     /\ Over(S, E[l - 1], E[l], E[l - 1]) /\ Over(S, E[l - 1], E[l], E[l])
  <2> SUFFICES ASSUME NEW l \in 1..m
               PROVE  /\ E[l - 1] \in 0..N /\ E[l] \in 0..N /\ E[l - 1] < E[l]
                      /\ Over(S, E[l - 1], E[l], E[l - 1]) /\ Over(S, E[l - 1], E[l], E[l])
    OBVIOUS
  <2>1. l - 1 \in 0..m /\ l \in 0..m
    OBVIOUS
  <2>2. E[l - 1] \in 0..N /\ E[l] \in 0..N /\ E[l - 1] < E[l]
    BY <2>1
  <2>3. E[l - 1] \in E[l - 1]..E[l] /\ E[l] \in E[l - 1]..E[l]
    BY <2>2
  <2> QED
    BY <2>2, <2>3
<1> DEFINE R == {i \in 0..(m - k) : Over(S, a, c, E[k + i])}
           L == {i \in 0..(k - 1) : Over(S, a, c, E[k - 1 - i])}
<1>3. 0..(m - k) \subseteq R
  <2>1. 0 \in R
    <3>1. k + 0 = k /\ 0 \in 0..(m - k)
      OBVIOUS
    <3> QED
      BY <1>1, <1>2, <3>1
  <2>2. ASSUME NEW i \in 1..(m - k), i - 1 \in R PROVE i \in R
    <3>1. PICK l \in k..m : l = k + i /\ l \in 1..m /\ l - 1 = k + (i - 1)
      OBVIOUS
    <3>2. PICK b \in 0..N, e \in 0..N : b = E[l - 1] /\ e = E[l] /\ b < e /\ Over(S, b, e, e)
      BY <1>2, <3>1
    <3>3. Over(S, a, c, b)
      BY <2>2, <3>1, <3>2
    <3>4. AsSteep(S, a, c, b, e)
      BY <1>1, <3>2, StepsRise
    <3>5. Over(S, a, c, e)
      <4>1. b <= e
        BY <3>2
      <4> HIDE DEF R, L
      <4> QED
        BY <1>1, <3>2, <3>3, <3>4, <4>1, OverRight
    <3>6. i \in 0..(m - k)
      OBVIOUS
    <3> QED
      BY <3>1, <3>2, <3>5, <3>6
  <2>3. m - k \in Nat
    OBVIOUS
  <2> HIDE DEF R
  <2> QED
    BY <2>1, <2>2, <2>3, Reaches
<1>4. 0..(k - 1) \subseteq L
  <2>1. 0 \in L
    <3>1. k - 1 - 0 = k - 1 /\ 0 \in 0..(k - 1)
      OBVIOUS
    <3> QED
      BY <1>1, <1>2, <3>1
  <2>2. ASSUME NEW i \in 1..(k - 1), i - 1 \in L PROVE i \in L
    <3>1. PICK l \in 1..m : l = k - i /\ k \in l..m /\ l = k - 1 - (i - 1)
                            /\ l - 1 = k - 1 - i
      OBVIOUS
    <3>2. PICK b \in 0..N, e \in 0..N : b = E[l - 1] /\ e = E[l] /\ b < e /\ Over(S, b, e, b)
      BY <1>2, <3>1
    <3>3. Over(S, a, c, e)
      BY <2>2, <3>1, <3>2
    <3>4. AsSteep(S, b, e, a, c)
      BY <1>1, <3>1, <3>2, StepsRise
    <3>5. Over(S, a, c, b)
      <4>1. b <= e
        BY <3>2
      <4> HIDE DEF R, L
      <4> QED
        BY <1>1, <3>2, <3>3, <3>4, <4>1, OverLeft
    <3>6. i \in 0..(k - 1)
      OBVIOUS
    <3> QED
      BY <3>1, <3>2, <3>5, <3>6
  <2>3. k - 1 \in Nat
    OBVIOUS
  <2> HIDE DEF L
  <2> QED
    BY <2>1, <2>2, <2>3, Reaches
<1>5. \A l \in k..m : Over(S, a, c, E[l])
  <2> SUFFICES ASSUME NEW l \in k..m PROVE Over(S, a, c, E[l])
    OBVIOUS
  <2>1. l - k \in 0..(m - k) /\ k + (l - k) = l
    OBVIOUS
  <2>2. l - k \in R
    BY <1>3, <2>1
  <2> QED
    BY <2>1, <2>2
<1>6. \A l \in 0..(k - 1) : Over(S, a, c, E[l])
  <2> SUFFICES ASSUME NEW l \in 0..(k - 1) PROVE Over(S, a, c, E[l])
    OBVIOUS
  <2>1. k - 1 - l \in 0..(k - 1) /\ k - 1 - (k - 1 - l) = l
    OBVIOUS
  <2>2. k - 1 - l \in L
    BY <1>4, <2>1
  <2> QED
    BY <2>1, <2>2
<1>7. PICK l \in 1..m : E[l - 1] <= j /\ j <= E[l]
  <2>1. m > 0
    OBVIOUS
  <2> QED
    BY <2>1, BlockOf
<1>8. PICK b \in 0..N, e \in 0..N : b = E[l - 1] /\ e = E[l] /\ b < e /\ b <= j /\ j <= e
  BY <1>2, <1>7
<1>9. Over(S, b, e, j)
  <2>1. j \in E[l - 1]..E[l]
    BY <1>8
  <2> QED
    BY <1>8, <2>1
<1>10. CASE l < k
  <2>1. l \in 0..(k - 1) /\ k \in l..m
    BY <1>10
  <2>2. AsSteep(S, b, e, a, c)
    BY <1>1, <1>8, <2>1, StepsRise
  <2>3. Over(S, a, c, e)
    BY <1>6, <1>8, <2>1
  <2> QED
    BY <1>1, <1>8, <1>9, <2>2, <2>3, OverLeft
<1>11. CASE l = k
  BY <1>1, <1>8, <1>9, <1>11
<1>12. CASE l > k
  <2>1. l - 1 \in k..m /\ l \in k..m
    BY <1>12
  <2>2. AsSteep(S, a, c, b, e)
    BY <1>1, <1>8, <2>1, StepsRise
  <2>3. Over(S, a, c, b)
    BY <1>5, <1>8, <2>1
  <2> QED
    BY <1>1, <1>8, <1>9, <2>2, <2>3, OverRight
<1> QED
  BY <1>10, <1>11, <1>12

\* The ends of the blocks are the cuts between them.
LEMMA EndsAre ==
  ASSUME NEW N \in Nat, NEW S \in [0..N -> Int], NEW x, NEW bs, NEW E, NEW m \in Nat,
         Cut(bs, m, E, x, S, N)
  PROVE  \A k \in 0..m : Ends(bs)[k] = E[k]
<1> /\ DOMAIN bs = 1..m /\ E \in [0..m -> 0..N] /\ E[0] = 0
    /\ \A k \in 1..m : bs[k] = Piece(x, S, E[k - 1], E[k])
  BY DEF Cut
<1>1. \A k \in 1..m : bs[k].w = E[k] - E[k - 1] /\ E[k] \in Int /\ E[k - 1] \in Int
  <2>1. \A k \in 1..m : k \in 0..m /\ k - 1 \in 0..m
    OBVIOUS
  <2> QED
    BY <2>1 DEF Piece
<1>2. PICK ws \in [1..m -> Int] : /\ ws = [k \in DOMAIN bs |-> bs[k].w]
                                 /\ \A k \in 1..m : ws[k] = bs[k].w
  <2> DEFINE us == [k \in DOMAIN bs |-> bs[k].w]
  <2>1. ASSUME NEW k \in 1..m PROVE bs[k].w \in Int
    <3>1. bs[k].w = E[k] - E[k - 1] /\ E[k] \in Int /\ E[k - 1] \in Int
      BY <1>1
    <3> QED
      BY <3>1
  <2>2. us \in [1..m -> Int] /\ \A k \in 1..m : us[k] = bs[k].w
    BY <2>1
  <2>3. us = [k \in DOMAIN bs |-> bs[k].w]
    OBVIOUS
  <2> HIDE DEF us
  <2> QED
    BY <2>2, <2>3
<1>3. \A k \in 1..m : E[k] = E[k - 1] + ws[k]
  BY <1>1, <1>2
<1>4. \A k \in 0..m : E[k] = Sums(ws)[k]
  BY <1>3, SumsAreOnly
<1> QED
  BY <1>2, <1>4 DEF Ends

\* Each block is as steep as those before it, and S is nowhere below its line.
Supported(m, E, S, n) ==
  \A k \in 1..m : /\ \A l \in k..m : AsSteep(S, E[k - 1], E[k], E[l - 1], E[l])
                  /\ \A j \in 0..n : Over(S, E[k - 1], E[k], j)

\* The blocks of a fit, in terms of the cuts between them.
LEMMA BlocksAre ==
  ASSUME NEW N \in Nat, NEW pairs \in Seq(LabelSet), N = Len(pairs),
         NEW x, NEW S, x = Scores(pairs), S = Lapses(pairs)
  PROVE  \E m \in Nat : \E E : /\ Cut(Blocks(pairs), m, E, x, S, N)
                              /\ Supported(m, E, S, N)
                              /\ \A k \in 0..m : Ends(Blocks(pairs))[k] = E[k]
<1>1. S \in [0..N -> Int]
  BY LabelsAre
<1>2. PICK bs : bs = Blocks(pairs)
  OBVIOUS
<1>3. PICK E : Cover(bs, E, x, S, N) /\ Rising(E, S, Len(bs))
  BY <1>2, BlocksCover
<1>4. PICK m \in Nat :
         /\ Cut(bs, m, E, x, S, N)
         /\ \A k \in 1..m : \A j \in E[k - 1]..E[k] : Over(S, E[k - 1], E[k], j)
  BY <1>3, CutsAre
<1>5. /\ m = Len(bs) /\ DOMAIN bs = 1..m /\ E \in [0..m -> 0..N] /\ E[0] = 0 /\ E[m] = N
       /\ \A k \in 1..m : E[k - 1] < E[k] /\ bs[k] = Piece(x, S, E[k - 1], E[k])
  BY <1>4 DEF Cut
<1>6. \A k \in 0..m : Ends(bs)[k] = E[k]
  BY <1>1, <1>4, EndsAre
<1>7. Rising(E, S, m) /\ \A k \in 1..m : E[k - 1] < E[k]
  BY <1>3, <1>5
<1>8. \A k \in 1..m, l \in 1..m : k <= l => AsSteep(S, E[k - 1], E[k], E[l - 1], E[l])
  <2> SUFFICES ASSUME NEW k \in 1..m, NEW l \in 1..m, k <= l
               PROVE  AsSteep(S, E[k - 1], E[k], E[l - 1], E[l])
    OBVIOUS
  <2>1. l \in k..m
    OBVIOUS
  <2> QED
    BY <1>1, <1>7, <1>5, <2>1, StepsRise
<1>9. \A k \in 1..m, j \in 0..N : Over(S, E[k - 1], E[k], j)
  BY <1>1, <1>4, <1>7, <1>5, LinesSupport
<1>10. \A k \in 1..m : \A l \in k..m : AsSteep(S, E[k - 1], E[k], E[l - 1], E[l])
  <2>1. \A k \in 1..m : \A l \in k..m : l \in 1..m /\ k <= l
    OBVIOUS
  <2> QED
    BY <1>8, <2>1
<1> QED
  <2>1. Supported(m, E, S, N)
    BY <1>9, <1>10 DEF Supported
  <2> QED
    BY <1>2, <1>4, <1>6, <2>1

\* Whatever the labels, the fit to them is isotonic.
LEMMA Isotonicity ==
  ASSUME labels \in Seq(LabelSet)
  PROVE  FitIsIsotonic
<1>1. PICK n \in Nat : n = Len(labels)
  OBVIOUS
<1>2. PICK x, S, bs : x = Scores(labels) /\ S = Lapses(labels) /\ bs = Blocks(labels)
  OBVIOUS
<1>3. S \in [0..n -> Int]
  BY <1>1, <1>2, LabelsAre
<1>4. PICK m \in Nat : \E E : /\ Cut(bs, m, E, x, S, n) /\ Supported(m, E, S, n)
                             /\ \A k \in 0..m : Ends(bs)[k] = E[k]
  BY <1>1, <1>2, BlocksAre
<1>5. PICK E : /\ Cut(bs, m, E, x, S, n) /\ Supported(m, E, S, n)
               /\ \A k \in 0..m : Ends(bs)[k] = E[k]
  BY <1>4
<1>6. /\ m = Len(bs) /\ DOMAIN bs = 1..m
      /\ E[0] = 0 /\ E[m] = n
      /\ \A k \in 0..m : Ends(bs)[k] = E[k]
      /\ \A k \in 1..m :
           /\ E[k - 1] \in 0..n /\ E[k] \in 0..n /\ E[k - 1] < E[k]
           /\ bs[k] = Piece(x, S, E[k - 1], E[k])
           /\ \A j \in 0..n : Over(S, E[k - 1], E[k], j)
  BY <1>5 DEF Cut, Supported
<1>7. Ends(bs)[Len(bs)] = n
  <2>1. m \in 0..m
    OBVIOUS
  <2> QED
    BY <1>6, <2>1
<1>8. ASSUME NEW k \in DOMAIN bs, NEW i \in (Ends(bs)[k - 1] + 1)..Ends(bs)[k]
      PROVE  /\ \E e \in i..n : \A b \in 1..i : MeanAtMost(b, e, bs[k])
             /\ \A e \in i..n : \E b \in 1..i : MeanAtLeast(b, e, bs[k])
  <2>1. k \in 1..m /\ k - 1 \in 0..m /\ k \in 0..m
    BY <1>6
  <2>2. PICK a \in 0..n, c \in 0..n : /\ a = E[k - 1] /\ c = E[k] /\ a < c
                                       /\ i \in (a + 1)..c
                                       /\ bs[k] = Piece(x, S, a, c)
                                       /\ \A j \in 0..n : Over(S, a, c, j)
    BY <1>6, <2>1
  <2>3. PICK t \in Int, w \in Nat : /\ t = S[c] - S[a] /\ w = c - a
                                   /\ bs[k].sum = t /\ bs[k].w = w
    <3>1. S[c] \in Int /\ S[a] \in Int
      BY <1>3
    <3>2. a < c
      BY <2>2
    <3>3. S[c] - S[a] \in Int /\ c - a \in Nat
      BY <3>1, <3>2
    <3> QED
      BY <2>2, <3>3 DEF Piece
  <2>4. \A j \in 0..n : S[j] \in Int /\ (S[j] - S[a]) * w >= t * (j - a)
    BY <1>3, <2>2, <2>3 DEF Over
  <2>5. ASSUME NEW b \in 1..i PROVE MeanAtMost(b, c, bs[k])
    <3>1. b - 1 \in 0..n
      BY <2>2
    <3>2. PICK f \in Int, g \in Int, h \in Int : f = S[a] /\ g = S[b - 1] /\ h = S[c]
      BY <2>4, <3>1
    <3>3. (g - f) * w >= t * (b - 1 - a)
      BY <2>4, <3>1, <3>2
    <3>4. (h - g) * w <= t * (c - b + 1)
      <4>1. PICK X \in Int, Y \in Int, d \in Int, r \in Int :
              X = h - g /\ Y = g - f /\ d = c - b + 1 /\ r = b - 1 - a
        OBVIOUS
      <4>2. t = h - f /\ w = c - a
        BY <2>3, <3>2
      <4>3. X + Y = t /\ d + r = w
        BY <4>1, <4>2
      <4>4. (X + Y) * w = X * w + Y * w /\ t * (d + r) = t * d + t * r
        OBVIOUS
      <4>5. Y * w >= t * r
        BY <3>3, <4>1
      <4>6. X * w \in Int /\ Y * w \in Int /\ t * d \in Int /\ t * r \in Int
        OBVIOUS
      <4>7. X * w + Y * w = t * d + t * r
        BY <4>3, <4>4
      <4>8. X * w <= t * d
        BY <4>5, <4>6, <4>7
      <4> QED
        BY <4>1, <4>8
    <3> QED
      BY <1>2, <2>3, <3>2, <3>4 DEF MeanAtMost
  <2>6. ASSUME NEW e \in i..n PROVE MeanAtLeast(a + 1, e, bs[k])
    <3>1. e \in 0..n
      BY <2>2
    <3>2. (S[e] - S[a]) * w >= t * (e - a)
      BY <2>4, <3>1
    <3>3. a + 1 - 1 = a /\ e - (a + 1) + 1 = e - a
      BY <3>1
    <3> QED
      BY <1>2, <2>3, <3>2, <3>3 DEF MeanAtLeast
  <2>7. c \in i..n /\ a + 1 \in 1..i
    BY <2>2
  <2> QED
    BY <2>5, <2>6, <2>7
<1> QED
  BY <1>1, <1>2, <1>7, <1>8 DEF FitIsIsotonic

-----------------------------------------------------------------------------
(* The labels and the curves fitted to them.                               *)

LabelRow == Values \X {0, 1}
Sorted(pairs) == \A i, j \in DOMAIN pairs : i < j => ~Before(pairs[j], pairs[i])

\* An active curve is the fit to as many labels as the model says; when no
\* label was recorded since, to these.
Rests(row, pairs) ==
  /\ row.n \in MinLabels..Len(pairs)
  /\ row.active => \E known \in Seq(LabelRow) :
       /\ Len(known) = row.n
       /\ row.knots = Isotonic(known)
       /\ row.n = Len(pairs) => known = pairs

CurvesInv ==
  /\ labels \in Seq(LabelRow)
  /\ Sorted(labels)
  /\ \A i \in DOMAIN models : Rests(models[i], labels)
  /\ \A f \in Fitter :
       /\ fitting[f].phase = "fitted" => Rests(fitting[f], labels)
       /\ fitting[f].phase = "numbered" => Rests(fitting[f].model, labels)

\* t is s with e inserted at position k.
Inserted(t, s, k, e) ==
  /\ Len(t) = Len(s) + 1
  /\ t[k] = e
  /\ \A i \in 1..(k - 1) : t[i] = s[i]
  /\ \A i \in (k + 1)..(Len(s) + 1) : t[i] = s[i - 1]

\* What inserting at a position makes of a sequence.
LEMMA InsertAtIs ==
  ASSUME NEW T, NEW s \in Seq(T), NEW e \in T, NEW k \in 1..(Len(s) + 1)
  PROVE  InsertAt(s, k, e) \in Seq(T) /\ Inserted(InsertAt(s, k, e), s, k, e)
<1>1. PICK n \in Nat : n = Len(s) /\ k \in 1..(n + 1) /\ \A i \in 1..n : s[i] \in T
  OBVIOUS
<1>2. PICK p : /\ p = SubSeq(s, 1, k - 1) /\ p \in Seq(T) /\ Len(p) = k - 1
               /\ \A i \in 1..(k - 1) : p[i] = s[i]
  <2>1. 1 \in Int /\ k - 1 \in Int /\ \A i \in 1..(k - 1) : s[i] \in T
    BY <1>1
  <2>2. PICK p : p = SubSeq(s, 1, k - 1)
    OBVIOUS
  <2>3. /\ p \in Seq(T) /\ Len(p) = IF 1 <= k - 1 THEN k - 1 - 1 + 1 ELSE 0
        /\ \A i \in 1..(k - 1 - 1 + 1) : p[i] = s[1 + i - 1]
    BY <2>1, <2>2, SubSeqProperties
  <2>4. Len(p) = k - 1
    BY <1>1, <2>3
  <2>5. \A i \in 1..(k - 1) : i \in 1..(k - 1 - 1 + 1) /\ 1 + i - 1 = i
    BY <1>1
  <2> QED
    BY <2>2, <2>3, <2>4, <2>5
<1>3. PICK q : /\ q = SubSeq(s, k, n) /\ q \in Seq(T) /\ Len(q) = n - k + 1
               /\ \A i \in 1..(n - k + 1) : q[i] = s[k + i - 1]
  <2>1. k \in Int /\ n \in Int /\ \A i \in k..n : s[i] \in T
    BY <1>1
  <2>2. PICK q : q = SubSeq(s, k, n)
    OBVIOUS
  <2>3. /\ q \in Seq(T) /\ Len(q) = IF k <= n THEN n - k + 1 ELSE 0
        /\ \A i \in 1..(n - k + 1) : q[i] = s[k + i - 1]
    BY <2>1, <2>2, SubSeqProperties
  <2>4. Len(q) = n - k + 1
    BY <1>1, <2>3
  <2> QED
    BY <2>2, <2>3, <2>4
<1>4. PICK r : /\ r = p \o <<e>> /\ r \in Seq(T) /\ Len(r) = k /\ r[k] = e
               /\ \A i \in 1..(k - 1) : r[i] = s[i]
  <2>1. PICK r : r = Append(p, e)
    OBVIOUS
  <2>2. r = p \o <<e>>
    BY <1>2, <2>1, AppendIsConcat
  <2>3. r \in Seq(T) /\ Len(r) = k /\ r[k] = e /\ \A i \in 1..(k - 1) : r[i] = p[i]
    BY <1>1, <1>2, <2>1
  <2> QED
    BY <1>2, <2>2, <2>3
<1>5. PICK z : /\ z = r \o q /\ z \in Seq(T) /\ Len(z) = n + 1
               /\ \A i \in 1..k : z[i] = r[i]
               /\ \A i \in (k + 1)..(n + 1) : z[i] = q[i - k]
  <2>1. r \in Seq(T) /\ q \in Seq(T) /\ Len(r) = k /\ Len(q) = n - k + 1 /\ k + (n - k + 1) = n + 1
    BY <1>1, <1>3, <1>4
  <2>2. r \o q \in Seq(T) /\ Len(r \o q) = n + 1
    BY <2>1
  <2>3. \A i \in 1..(n + 1) : (r \o q)[i] = IF i <= k THEN r[i] ELSE q[i - k]
    BY <2>1
  <2>4. \A i \in 1..k : i \in 1..(n + 1) /\ i <= k
    BY <1>1
  <2>5. \A i \in (k + 1)..(n + 1) : i \in 1..(n + 1) /\ ~(i <= k)
    BY <1>1
  <2> QED
    BY <2>2, <2>3, <2>4, <2>5
<1>6. ASSUME NEW i \in (k + 1)..(n + 1) PROVE z[i] = s[i - 1]
  <2>1. i - k \in 1..(n - k + 1) /\ k + (i - k) - 1 = i - 1
    BY <1>1
  <2> QED
    BY <1>3, <1>5, <2>1
<1>7. InsertAt(s, k, e) = z
  BY <1>1, <1>2, <1>3, <1>4, <1>5 DEF InsertAt
<1>8. \A i \in 1..(k - 1) : z[i] = s[i]
  BY <1>1, <1>4, <1>5
<1>9. z[k] = e
  BY <1>1, <1>4, <1>5
<1>10. Inserted(z, s, k, e)
  BY <1>1, <1>5, <1>6, <1>8, <1>9 DEF Inserted
<1> QED
  BY <1>5, <1>7, <1>10

\* Labels have integer scores.
LEMMA LabelsSet == LabelRow \subseteq LabelSet
<1>1. Values \subseteq Int
  BY ValuesAssumption
<1> QED
  BY <1>1 DEF LabelRow, LabelSet

\* So has any list of them.
LEMMA LabelRows ==
  ASSUME NEW pairs \in Seq(LabelRow)
  PROVE  pairs \in Seq(LabelSet)
BY LabelsSet

\* A label more leaves the list sorted, and every curve at rest.
LEMMA CurvesInsert ==
  ASSUME CurvesInv, RecordLabel
  PROVE  CurvesInv'
<1>1. PICK label \in LabelRow, k \in 1..(Len(labels) + 1) :
        /\ \A i \in 1..(k - 1) : ~Before(label, labels[i])
        /\ \A i \in k..Len(labels) : Before(label, labels[i])
        /\ labels' = InsertAt(labels, k, label)
  BY DEF RecordLabel, LabelRow
<1>2. PICK n \in Nat : n = Len(labels) /\ DOMAIN labels = 1..n
  BY DEF CurvesInv
<1>3. /\ labels' \in Seq(LabelRow) /\ Len(labels') = n + 1 /\ labels'[k] = label
      /\ \A i \in 1..(k - 1) : labels'[i] = labels[i]
      /\ \A i \in (k + 1)..(n + 1) : labels'[i] = labels[i - 1]
  <2>1. labels \in Seq(LabelRow)
    BY DEF CurvesInv
  <2> QED
    <3>1. labels' \in Seq(LabelRow) /\ Inserted(labels', labels, k, label)
      BY <1>1, <2>1, InsertAtIs
    <3> QED
      BY <1>2, <3>1 DEF Inserted
<1>4. Sorted(labels')
  <2>1. DOMAIN labels' = 1..(n + 1)
    BY <1>3
  <2> SUFFICES ASSUME NEW i \in 1..(n + 1), NEW j \in 1..(n + 1), i < j
               PROVE  ~Before(labels'[j], labels'[i])
    BY <2>1 DEF Sorted
  <2>2. \A l, p \in 1..n : l < p => ~Before(labels[p], labels[l])
    BY <1>2 DEF CurvesInv, Sorted
  <2>3. CASE i = k
    <3>1. j - 1 \in k..n /\ labels'[j] = labels[j - 1]
      BY <1>2, <1>3, <2>3
    <3>2. Before(label, labels[j - 1])
      BY <1>1, <1>2, <3>1
    <3>3. \A l, p \in LabelRow : Before(l, p) => ~Before(p, l)
      <4>1. \A l \in LabelRow : l[1] \in Int /\ l[2] \in Int
        BY LabelsSet DEF LabelSet
      <4> QED
        BY <4>1 DEF Before
    <3>4. labels[j - 1] \in LabelRow
      BY <1>2, <3>1 DEF CurvesInv
    <3> QED
      BY <1>3, <2>3, <3>1, <3>2, <3>3, <3>4
  <2>4. CASE j = k
    BY <1>1, <1>3, <2>4
  <2>5. CASE i # k /\ j # k
    BY <1>2, <1>3, <2>2, <2>5
  <2> QED
    BY <2>3, <2>4, <2>5
<1>5. ASSUME NEW row, Rests(row, labels) PROVE Rests(row, labels')
  <2>1. MinLabels \in Int
    BY LabelsAssumption
  <2>2. row.n \in MinLabels..n
    BY <1>2, <1>5 DEF Rests
  <2>3. row.n \in MinLabels..(n + 1) /\ row.n # n + 1
    BY <2>1, <2>2
  <2> QED
    BY <1>3, <1>5, <2>3 DEF Rests
<1>6. UNCHANGED <<models, fitting>>
  BY DEF RecordLabel
<1> QED
  BY <1>3, <1>4, <1>5, <1>6 DEF CurvesInv

\* Every step keeps CurvesInv.
LEMMA CurvesStep == CalInv /\ CurvesInv /\ [CalNext]_calVars => CurvesInv'
<1> SUFFICES ASSUME CalInv, CurvesInv, [CalNext]_calVars PROVE CurvesInv'
  OBVIOUS
<1>1. CASE UNCHANGED calVars
  BY <1>1 DEF calVars, CurvesInv
<1>2. CASE RecordLabel
  BY <1>2, CurvesInsert
<1>3. ASSUME NEW f \in Fitter, FitLabels(f) PROVE CurvesInv'
  <2>1. UNCHANGED <<labels, models>> /\ Len(labels) >= MinLabels
    BY <1>3 DEF FitLabels
  <2>2. PICK part : LET active == Gate(Only(labels, part), Only(labels, DOMAIN labels \ part))
                    IN fitting' = [fitting EXCEPT ![f] =
                         [phase |-> "fitted", n |-> Len(labels), active |-> active,
                          knots |-> Stored(labels, active)]]
    BY <1>3 DEF FitLabels
  <2>3. PICK active : fitting' = [fitting EXCEPT ![f] =
                        [phase |-> "fitted", n |-> Len(labels), active |-> active,
                         knots |-> Stored(labels, active)]]
    BY <2>2
  <2>4. PICK row : /\ row = [phase |-> "fitted", n |-> Len(labels), active |-> active,
                            knots |-> Stored(labels, active)]
                   /\ fitting' = [fitting EXCEPT ![f] = row]
    BY <2>3
  <2>5. Rests(row, labels)
    <3>1. Len(labels) \in MinLabels..Len(labels)
      BY <2>1, LabelsAssumption DEF CurvesInv
    <3>2. row.active => row.knots = Isotonic(labels)
      BY <2>4 DEF Stored
    <3> QED
      BY <2>4, <3>1, <3>2 DEF Rests, CurvesInv
  <2>6. row.phase = "fitted"
    BY <2>4
  <2> QED
    BY <2>1, <2>4, <2>5, <2>6 DEF CurvesInv, CalInv
<1>4. ASSUME NEW f \in Fitter, FitVersion(f) PROVE CurvesInv'
  <2>1. UNCHANGED <<labels, models>> /\ fitting[f].phase = "fitted"
    BY <1>4 DEF FitVersion
  <2> DEFINE copy(version) == [version |-> version, n |-> fitting[f].n,
                               active |-> fitting[f].active, knots |-> fitting[f].knots]
  <2>2. PICK row, job : /\ fitting' = [fitting EXCEPT ![f] = job]
                        /\ job = [phase |-> "numbered", model |-> row]
                        /\ row.n = fitting[f].n /\ row.active = fitting[f].active
                        /\ row.knots = fitting[f].knots
    <3>1. PICK version : fitting' = [fitting EXCEPT ![f] =
                           [phase |-> "numbered", model |-> copy(version)]]
      BY <1>4 DEF FitVersion
    <3>2. PICK row : row = copy(version)
      OBVIOUS
    <3>3. fitting' = [fitting EXCEPT ![f] = [phase |-> "numbered", model |-> row]]
      <4> HIDE DEF copy
      <4> QED
        BY <3>1, <3>2
    <3>4. /\ row.n = fitting[f].n /\ row.active = fitting[f].active
          /\ row.knots = fitting[f].knots
      BY <3>2
    <3> HIDE DEF copy
    <3> QED
      BY <3>3, <3>4
  <2>3. Rests(row, labels)
    BY <2>1, <2>2 DEF CurvesInv, Rests
  <2>4. job.phase = "numbered" /\ job.model = row
    BY <2>2
  <2> QED
    BY <2>1, <2>2, <2>3, <2>4 DEF CurvesInv, CalInv
<1>5. ASSUME NEW f \in Fitter, FitStore(f) PROVE CurvesInv'
  <2>1. /\ UNCHANGED labels /\ fitting[f].phase = "numbered"
        /\ fitting' = [fitting EXCEPT ![f] = NotFitting]
        /\ models' = models \/ models' = Append(models, fitting[f].model)
    BY <1>5 DEF FitStore
  <2>2. PICK U : models \in Seq(U)
    BY DEF CalInv
  <2>3. PICK row : row = fitting[f].model
    OBVIOUS
  <2>4. Rests(row, labels)
    BY <2>1, <2>3 DEF CurvesInv
  <2>5. \A i \in DOMAIN models' : Rests(models'[i], labels)
    <3>1. PICK V : models \in Seq(V) /\ row \in V
      <4>1. models \in Seq(U \cup {row})
        BY <2>2
      <4> QED
        BY <4>1
    <3>2. models' = Append(models, row) =>
            \A i \in DOMAIN models' : models'[i] = row \/ (i \in DOMAIN models /\ models'[i] = models[i])
      BY <3>1
    <3> QED
      BY <2>1, <2>3, <2>4, <3>2 DEF CurvesInv
  <2> QED
    BY <2>1, <2>5 DEF CurvesInv, CalInv, NotFitting
<1> QED
  BY <1>1, <1>2, <1>3, <1>4, <1>5 DEF CalNext

\* It holds at first.
LEMMA CurvesStart == CalInit => CurvesInv
<1> SUFFICES ASSUME CalInit PROVE CurvesInv
  OBVIOUS
<1>1. <<>> \in Seq(LabelRow)
  OBVIOUS
<1> QED
  BY <1>1 DEF CalInit, CurvesInv, Sorted, NotFitting

\* Every state satisfies both invariants.
LEMMA CurvesInvariant == CalSpec => [](CalInv /\ CurvesInv)
  BY CalStep, CalStart, CurvesStep, CurvesStart, PTL DEF CalSpec

\* However the labels came in, what is pooled from them rises from block to block
\* and is the isotonic regression of the lapses: no run of labels that starts
\* with a block has a lower rate than the block, none that ends with it a higher.
THEOREM PoolingIsIsotonic == CalSpec => []FitIsIsotonic
<1>1. CurvesInv => FitIsIsotonic
  BY LabelRows, Isotonicity DEF CurvesInv
<1> QED
  BY <1>1, CurvesInvariant, PTL

-----------------------------------------------------------------------------
(* What is served rises with the score.                                    *)

\* p is the mean s / w to four places, in 1/10000: the nearest integer.
Nearest(p, s, w) ==
  /\ p \in Nat
  /\ 2 * (w * p) <= 20000 * s + w
  /\ 20000 * s < 2 * (w * p) + w

\* The value of a block is its mean, rounded.
LEMMA RoundedIs ==
  ASSUME NEW s \in Nat, NEW w \in Nat, w > 0, NEW b, b.w = w, b.sum = s
  PROVE  Nearest(Rounded(b), s, w)
<1>1. PICK a \in Nat, d \in Nat : a = 20000 * s + w /\ d = 2 * w /\ d > 0
  OBVIOUS
<1>2. PICK p \in Nat : p = a \div d /\ d * p <= a /\ a < d * p + d
  BY <1>1, DivisionIs
<1>3. Rounded(b) = p
  BY <1>1, <1>2 DEF Rounded
<1>4. d * p = 2 * (w * p)
  BY <1>1
<1>5. w * p \in Nat
  OBVIOUS
<1>6. 2 * (w * p) <= 20000 * s + w /\ 20000 * s + w < 2 * (w * p) + 2 * w
  BY <1>1, <1>2, <1>4
<1>7. 20000 * s < 2 * (w * p) + w
  BY <1>5, <1>6
<1> QED
  BY <1>3, <1>6, <1>7 DEF Nearest

\* A greater mean is not rounded to less.
LEMMA RoundedGrows ==
  ASSUME NEW s \in Nat, NEW w \in Nat, w > 0, NEW t \in Nat, NEW v \in Nat, v > 0,
         s * v <= t * w, NEW p, Nearest(p, s, w), NEW q, Nearest(q, t, v)
  PROVE  p <= q
<1> /\ p \in Nat /\ 2 * (w * p) <= 20000 * s + w
    /\ q \in Nat /\ 20000 * t < 2 * (v * q) + v
  BY DEF Nearest
<1> SUFFICES ASSUME q + 1 <= p PROVE FALSE
  OBVIOUS
<1>1. PICK c \in Nat : c = w * v /\ c > 0
  BY w * v > 0
<1>2. PICK d \in Nat, e \in Nat : d = s * v /\ e = t * w /\ d <= e
  OBVIOUS
<1>3. 2 * (c * p) <= 20000 * d + c
  <2>1. PICK f \in Nat : f = w * p /\ f * v = c * p
    BY <1>1
  <2>2. (2 * f) * v <= (20000 * s + w) * v
    BY <2>1
  <2>3. (2 * f) * v = 2 * (f * v) /\ (20000 * s + w) * v = 20000 * (s * v) + w * v
    BY <2>1
  <2> QED
    BY <1>1, <1>2, <2>1, <2>2, <2>3
<1>4. 20000 * e < 2 * (c * q) + c
  <2>1. PICK f \in Nat : f = v * q /\ f * w = c * q
    BY <1>1
  <2>2. (20000 * t) * w < (2 * f + v) * w
    BY <2>1
  <2>3. (20000 * t) * w = 20000 * (t * w) /\ (2 * f + v) * w = 2 * (f * w) + v * w
    BY <2>1
  <2> QED
    BY <1>1, <1>2, <2>1, <2>2, <2>3
<1>5. c * (q + 1) <= c * p /\ c * (q + 1) = c * q + c
  BY <1>1
<1>6. c * q \in Nat /\ c * p \in Nat
  BY <1>1
<1> QED
  BY <1>1, <1>2, <1>3, <1>4, <1>5, <1>6

\* The lapses up to a position do not fall.
LEMMA LapsesRise ==
  ASSUME NEW N \in Nat, NEW pairs \in Seq(LabelSet), N = Len(pairs),
         NEW S \in [0..N -> Int], S = Lapses(pairs), NEW a \in 0..N, NEW e \in a..N
  PROVE  S[a] <= S[e]
<1>1. \A n \in 1..N : S[n] = S[n - 1] + pairs[n][2] /\ pairs[n][2] \in {0, 1}
  <2>1. \A n \in 1..N : S[n] = S[n - 1] + pairs[n][2]
    BY LabelsAre
  <2>2. \A l \in LabelSet : l[2] \in {0, 1}
    BY DEF LabelSet
  <2> QED
    BY <2>1, <2>2
<1>2. \A n \in 1..N : S[n - 1] <= S[n]
  <2> SUFFICES ASSUME NEW n \in 1..N PROVE S[n - 1] <= S[n]
    OBVIOUS
  <2>1. PICK f \in Int, g \in Int, y \in {0, 1} : f = S[n - 1] /\ g = S[n] /\ g = f + y
    <3>1. n - 1 \in 0..N /\ n \in 0..N
      OBVIOUS
    <3>2. S[n - 1] \in Int /\ S[n] \in Int
      BY <3>1
    <3> QED
      BY <1>1, <3>2
  <2> QED
    BY <2>1
<1> QED
  BY <1>2, StepwiseRises

\* The knots of a fit, in terms of the cuts between its blocks: the value of a
\* knot is the mean of its block, rounded, and no less than those before it.
Knots(knots, m, E, x, S, n) ==
  /\ m > 0 /\ m = Len(knots) /\ DOMAIN knots = 1..m
  /\ E \in [0..m -> 0..n] /\ E[0] = 0 /\ E[m] = n
  /\ Supported(m, E, S, n)
  /\ \A k \in 1..m :
       /\ E[k - 1] < E[k]
       /\ knots[k].x = x[E[k]]
       /\ Nearest(knots[k].p, S[E[k]] - S[E[k - 1]], E[k] - E[k - 1])
       /\ \A l \in k..m : knots[k].p <= knots[l].p

\* The knots of a fit are such knots.
LEMMA KnotsAre ==
  ASSUME NEW N \in Nat, N > 0, NEW pairs \in Seq(LabelSet), N = Len(pairs),
         NEW x, NEW S, x = Scores(pairs), S = Lapses(pairs),
         NEW knots, knots = Isotonic(pairs)
  PROVE  \E m \in Nat : \E E : Knots(knots, m, E, x, S, N)
<1>1. S \in [0..N -> Int] /\ x \in [1..N -> Int]
  BY LabelsAre
<1>2. PICK bs : bs = Blocks(pairs)
  OBVIOUS
<1>3. PICK m \in Nat : \E E : Cut(bs, m, E, x, S, N) /\ Supported(m, E, S, N)
  <2>1. \E m \in Nat : \E E : /\ Cut(Blocks(pairs), m, E, x, S, N)
                              /\ Supported(m, E, S, N)
                              /\ \A k \in 0..m : Ends(Blocks(pairs))[k] = E[k]
    BY BlocksAre
  <2> QED
    BY <1>2, <2>1
<1>4. PICK E : Cut(bs, m, E, x, S, N) /\ Supported(m, E, S, N)
  BY <1>3
<1>5. /\ m = Len(bs) /\ DOMAIN bs = 1..m /\ E \in [0..m -> 0..N] /\ E[0] = 0 /\ E[m] = N
      /\ \A k \in 1..m : E[k - 1] < E[k] /\ bs[k] = Piece(x, S, E[k - 1], E[k])
  BY <1>4 DEF Cut
<1>6. m > 0
  BY <1>5
<1>7. knots = [k \in 1..m |-> [x |-> bs[k].x, p |-> Rounded(bs[k])]]
  BY <1>2, <1>5 DEF Isotonic
<1>8. DOMAIN knots = 1..m /\ Len(knots) = m
  BY <1>7
<1>9. ASSUME NEW k \in 1..m
      PROVE  \E w \in Nat, s \in Nat :
               /\ w = E[k] - E[k - 1] /\ w > 0 /\ s = S[E[k]] - S[E[k - 1]]
               /\ knots[k].x = x[E[k]]
               /\ Nearest(knots[k].p, s, w)
  <2>1. k \in 0..m /\ k - 1 \in 0..m
    OBVIOUS
  <2>2. PICK a \in 0..N, c \in 0..N : a = E[k - 1] /\ c = E[k] /\ a < c
    BY <1>5, <2>1
  <2>3. PICK f \in Int, g \in Int : f = S[a] /\ g = S[c] /\ f <= g
    <3>1. c \in a..N
      BY <2>2
    <3> QED
      BY <1>1, <3>1, LapsesRise
  <2>4. PICK w \in Nat, s \in Nat : w = c - a /\ w > 0 /\ s = g - f
    <3>1. c - a \in Nat /\ c - a > 0
      BY <2>2
    <3>2. g - f \in Nat
      BY <2>3
    <3> QED
      BY <3>1, <3>2
  <2>5. bs[k] = [x |-> x[c], w |-> w, sum |-> s]
    BY <1>5, <2>2, <2>3, <2>4 DEF Piece
  <2>6. knots[k].x = x[c] /\ knots[k].p = Rounded(bs[k])
    BY <1>7, <2>5
  <2>7. Nearest(Rounded(bs[k]), s, w)
    BY <2>4, <2>5, RoundedIs
  <2> QED
    BY <2>2, <2>3, <2>4, <2>6, <2>7
<1>10. ASSUME NEW k \in 1..m, NEW l \in k..m PROVE knots[k].p <= knots[l].p
  <2>1. l \in 1..m
    OBVIOUS
  <2>2. PICK w \in Nat, s \in Nat :
           /\ w = E[k] - E[k - 1] /\ w > 0 /\ s = S[E[k]] - S[E[k - 1]]
           /\ Nearest(knots[k].p, s, w)
    BY <1>9
  <2>3. PICK v \in Nat, t \in Nat :
           /\ v = E[l] - E[l - 1] /\ v > 0 /\ t = S[E[l]] - S[E[l - 1]]
           /\ Nearest(knots[l].p, t, v)
    BY <1>9, <2>1
  <2>4. s * v <= t * w
    <3>1. AsSteep(S, E[k - 1], E[k], E[l - 1], E[l])
      BY <1>4 DEF Supported
    <3> QED
      BY <2>2, <2>3, <3>1 DEF AsSteep
  <2> QED
    BY <2>2, <2>3, <2>4, RoundedGrows
<1>11. \A k \in 1..m : \A l \in k..m : knots[k].p <= knots[l].p
  BY <1>10
<1>12. \A k \in 1..m :
         /\ E[k - 1] < E[k]
         /\ knots[k].x = x[E[k]]
         /\ Nearest(knots[k].p, S[E[k]] - S[E[k - 1]], E[k] - E[k - 1])
  BY <1>5, <1>9
<1>13. Knots(knots, m, E, x, S, N)
  BY <1>4, <1>5, <1>6, <1>8, <1>11, <1>12 DEF Knots
<1> QED
  BY <1>13

\* The knot that serves score z.
Serves(knots, m, z, k) ==
  /\ k \in 1..m
  /\ \A l \in 1..(k - 1) : ~(z <= knots[l].x)
  /\ z <= knots[k].x \/ k = m

\* The knot that serves a score is the first at or beyond it, or the last.
LEMMA ApplyIs ==
  ASSUME NEW m \in Nat, m > 0, NEW knots, DOMAIN knots = 1..m, Len(knots) = m, NEW z
  PROVE  \E k : Serves(knots, m, z, k) /\ ApplyKnots(knots, z) = knots[k].p
<1>1. PICK R : R = Reached(knots, z) /\ R = {k \in 1..m : z <= knots[k].x}
  BY DEF Reached
<1>2. CASE R = {}
  <2>1. \A l \in 1..m : ~(z <= knots[l].x)
    BY <1>1, <1>2
  <2>2. m \in 1..m /\ \A l \in 1..(m - 1) : l \in 1..m
    OBVIOUS
  <2>3. Serves(knots, m, z, m)
    BY <2>1, <2>2 DEF Serves
  <2>4. ApplyKnots(knots, z) = knots[m].p
    BY <1>1, <1>2 DEF ApplyKnots
  <2> QED
    BY <2>3, <2>4
<1>3. CASE R # {}
  <2>1. R \subseteq Nat
    BY <1>1
  <2>2. PICK k \in R : k = Min(R) /\ \A l \in R : k <= l
    BY <1>3, <2>1, MinIs
  <2>3. \A l \in 1..(k - 1) : l \in 1..m /\ ~(k <= l)
    BY <1>1, <2>2
  <2>4. Serves(knots, m, z, k)
    BY <1>1, <2>2, <2>3 DEF Serves
  <2>5. ApplyKnots(knots, z) = knots[k].p
    BY <1>1, <1>3, <2>2 DEF ApplyKnots
  <2> QED
    BY <2>4, <2>5
<1> QED
  BY <1>2, <1>3

\* The curve grows with the score.
LEMMA ApplyGrows ==
  ASSUME NEW N \in Nat, NEW m \in Nat, NEW E, NEW x \in [1..N -> Int], NEW S, NEW knots,
         Knots(knots, m, E, x, S, N), NEW y \in Int, NEW z \in Int, y <= z
  PROVE  ApplyKnots(knots, y) <= ApplyKnots(knots, z)
<1>1. /\ m > 0 /\ m = Len(knots) /\ DOMAIN knots = 1..m
      /\ \A k \in 1..m : knots[k].x \in Int
      /\ \A k \in 1..m : \A l \in k..m : knots[k].p <= knots[l].p
  <2>1. ASSUME NEW k \in 1..m PROVE knots[k].x \in Int
    <3>1. /\ E \in [0..m -> 0..N] /\ E[k - 1] < E[k]
          /\ knots[k].x = x[E[k]]
      BY DEF Knots
    <3>2. E[k - 1] \in 0..N /\ E[k] \in 0..N
      BY <3>1
    <3>3. E[k] \in 1..N
      BY <3>1, <3>2
    <3> QED
      BY <3>1, <3>3
  <2>2. /\ m > 0 /\ m = Len(knots) /\ DOMAIN knots = 1..m
        /\ \A k \in 1..m : \A l \in k..m : knots[k].p <= knots[l].p
    BY DEF Knots
  <2> QED
    BY <2>1, <2>2
<1>2. PICK k : Serves(knots, m, y, k) /\ ApplyKnots(knots, y) = knots[k].p
  BY <1>1, ApplyIs
<1>3. PICK l : Serves(knots, m, z, l) /\ ApplyKnots(knots, z) = knots[l].p
  BY <1>1, ApplyIs
<1>4. k \in 1..m /\ l \in 1..m
  BY <1>2, <1>3 DEF Serves
<1>5. ASSUME l < k PROVE FALSE
  <2>1. l \in 1..(k - 1) /\ l # m
    BY <1>4, <1>5
  <2>2. ~(y <= knots[l].x) /\ z <= knots[l].x
    BY <1>2, <1>3, <2>1 DEF Serves
  <2> QED
    BY <1>1, <1>4, <2>2
<1>6. l \in k..m
  BY <1>4, <1>5
<1> QED
  BY <1>1, <1>2, <1>3, <1>4, <1>6

\* What an active curve was fitted to.
LEMMA ActiveRests ==
  ASSUME CurvesInv, NEW i \in DOMAIN models, models[i].active
  PROVE  \E known \in Seq(LabelSet) :
           /\ Len(known) > 2
           /\ models[i].knots = Isotonic(known)
           /\ models[i].n = Len(labels) => known = labels
<1>1. PICK row : row = models[i] /\ row.active /\ Rests(row, labels)
  BY DEF CurvesInv
<1>2. PICK n \in Nat : n = row.n /\ n > 2
  <2>1. Len(labels) \in Nat /\ MinLabels \in Nat /\ MinLabels > 2
    BY LabelsAssumption DEF CurvesInv
  <2>2. row.n \in MinLabels..Len(labels)
    BY <1>1 DEF Rests
  <2> QED
    BY <2>1, <2>2
<1>3. PICK known \in Seq(LabelRow) :
        /\ Len(known) = n
        /\ row.knots = Isotonic(known)
        /\ n = Len(labels) => known = labels
  BY <1>1, <1>2 DEF Rests
<1>4. known \in Seq(LabelSet)
  BY LabelRows
<1>5. Len(known) > 2
  BY <1>2, <1>3
<1>6. models[i].knots = Isotonic(known) /\ (models[i].n = Len(labels) => known = labels)
  BY <1>1, <1>2, <1>3
<1> QED
  BY <1>4, <1>5, <1>6

\* The curves of the invariant are monotone.
LEMMA Monotony ==
  ASSUME CalInv, CurvesInv
  PROVE  ServedIsMonotone
<1> SUFFICES ASSUME NEW y \in Values, NEW z \in Values, y < z
             PROVE  Served[y] <= Served[z]
  BY DEF ServedIsMonotone
<1>1. y \in Int /\ z \in Int
  BY ValuesAssumption
<1>2. CASE ActiveModels = {}
  BY <1>1, <1>2 DEF Served, Default, Prior
<1>3. CASE ActiveModels # {}
  <2>1. PICK U : models \in Seq(U)
    BY DEF CalInv
  <2>2. PICK n \in Nat : n = Len(models) /\ DOMAIN models = 1..n
    BY <2>1
  <2>3. PICK A : A = ActiveModels
    OBVIOUS
  <2>4. A \subseteq 1..n /\ A # {}
    BY <1>3, <2>2, <2>3 DEF ActiveModels
  <2>5. A \subseteq 0..n
    BY <2>4
  <2>6. Max(A) \in A /\ \A j \in A : j <= Max(A)
    BY <2>4, <2>5, MaxIs
  <2>7. \A i \in A : models[i].version = i
    BY <2>2, <2>4 DEF CalInv, VersionsInOrder
  <2>8. \E i \in A : \A j \in A : models[j].version <= models[i].version
    BY <2>6, <2>7
  <2>9. PICK i \in A : i = CHOOSE h \in A : \A j \in A : models[j].version <= models[h].version
    BY <2>8
  <2>10. Served = Fitted(models[i].knots)
    BY <1>3, <2>3, <2>9 DEF Served
  <2>11. i \in DOMAIN models /\ models[i].active
    BY <2>3 DEF ActiveModels
  <2>12. PICK known \in Seq(LabelSet) :
           Len(known) > 2 /\ models[i].knots = Isotonic(known)
    BY <2>11, ActiveRests
  <2>13. PICK N \in Nat : N = Len(known) /\ N > 2
    BY <2>12
  <2>14. PICK knots, x, S : knots = models[i].knots /\ x = Scores(known) /\ S = Lapses(known)
    OBVIOUS
  <2>15. x \in [1..N -> Int]
    BY <2>13, <2>14, LabelsAre
  <2>16. PICK m \in Nat : \E E : Knots(knots, m, E, x, S, N)
    <3>1. N > 0 /\ knots = Isotonic(known)
      BY <2>12, <2>13, <2>14
    <3> QED
      BY <2>13, <2>14, <3>1, KnotsAre
  <2>17. PICK E : Knots(knots, m, E, x, S, N)
    BY <2>16
  <2>18. ApplyKnots(knots, y) <= ApplyKnots(knots, z)
    BY <1>1, <2>15, <2>17, ApplyGrows
  <2> QED
    BY <2>10, <2>14, <2>18 DEF Fitted
<1> QED
  BY <1>2, <1>3

\* While a fitted curve is active, no account with a higher score is served a
\* lower probability.
THEOREM RiskierNeverServedLess == CalSpec => []ServedIsMonotone
  BY CurvesInvariant, Monotony, PTL

-----------------------------------------------------------------------------
(* An active curve against the prior.                                      *)

\* The sum e of the excesses with one more, of the prior g over the block p.
Exceeds(e, d, g, p, y) == e = d + (Square(g - 10000 * y) - Square(p - 10000 * y))

\* A lower bound of the excess d in a block of w labels.
Ahead(w, d, t, u) == w * d >= 20000 * (t * u)

\* Of two predictions of one y, how much more g errs than p, the mean of the
\* block to four places.
LEMMA ErrorsApart ==
  ASSUME NEW g \in Int, NEW p \in Int, NEW y \in Int, NEW s \in Int,
         NEW w \in Nat, w > 0, Nearest(p, s, w),
         NEW d \in Int, NEW e \in Int, Exceeds(e, d, g, p, y)
  PROVE  Ahead(w, e - d, g - p, s - w * y)
<1>1. PICK t \in Int : t = g - p
  OBVIOUS
<1>2. PICK c \in Int : c = 10000 * y
  OBVIOUS
<1>3. Square(g - c) - Square(p - c) = t * t + 2 * (t * (p - c))
  <2>1. PICK q \in Int : q = p - c /\ g - c = t + q
    BY <1>1
  <2>2. (t + q) * (t + q) = t * t + 2 * (t * q) + q * q
    OBVIOUS
  <2> QED
    BY <2>1, <2>2 DEF Square
<1>4. PICK v \in Int : v = w * p
  OBVIOUS
<1>5. PICK o : o = 2 * v - 20000 * s
  OBVIOUS
<1>6. o \in Int
  BY <1>5
<1>7. PICK f \in Int : f = o
  BY <1>6
<1>8. f = 2 * v - 20000 * s
  BY <1>5, <1>7
<1>9. f <= w /\ -f < w
  BY <1>8, <1>4 DEF Nearest
<1>10. t * (w * t + f) >= 0
  <2>1. CASE t = 0
    BY <2>1
  <2>2. CASE t > 0
    <3>1. w * t >= w
      BY <2>2
    <3>2. PICK h \in Nat : h = w * t + f
      BY <1>9, <3>1
    <3>3. t * h >= 0
      BY <2>2
    <3> QED
      BY <3>2, <3>3
  <2>3. CASE t < 0
    <3>1. w * t <= -w
      <4>1. PICK u \in Nat : t = -u /\ u > 0
        BY <2>3
      <4>2. w * u >= w /\ w * t = -(w * u)
        BY <4>1
      <4> QED
        BY <4>2
    <3>2. PICK h \in Int : h = w * t + f /\ h <= 0
      BY <1>9, <3>1
    <3>3. t * h >= 0
      BY <2>3, <3>2
    <3> QED
      BY <3>2, <3>3
  <2> QED
    BY <2>1, <2>2, <2>3
<1>11. w * (t * t + 2 * (t * (p - c))) = t * (w * t + f) + 20000 * (t * (s - w * y))
  <2>1. PICK z \in Int : z = w * y /\ w * c = 10000 * z
    BY <1>2
  <2>2. t * (w * t + f) = t * (w * t) + t * f
    BY w * t \in Int
  <2>3. w * (t * t + 2 * (t * (p - c))) = t * (w * t) + 2 * (t * (w * p - w * c))
    <3>1. PICK q \in Int : q = p - c /\ w * q = w * p - w * c
      BY <1>2
    <3>2. w * (t * t + 2 * (t * q)) = t * (w * t) + 2 * (t * (w * q))
      OBVIOUS
    <3> QED
      BY <3>1, <3>2
  <2>4. 2 * (t * (v - 10000 * z)) = t * (2 * v - 20000 * s) + 20000 * (t * (s - z))
    BY <2>1
  <2> QED
    BY <1>8, <1>4, <2>1, <2>2, <2>3, <2>4
<1>12. w * (Square(g - c) - Square(p - c)) >= 20000 * (t * (s - w * y))
  <2>1. t * (w * t + f) \in Int /\ 20000 * (t * (s - w * y)) \in Int
    OBVIOUS
  <2> QED
    BY <1>3, <1>10, <1>11, <2>1
<1>13. e - d = Square(g - c) - Square(p - c)
  <2>1. PICK b \in Int : b = Square(g - c) - Square(p - c)
    BY DEF Square
  <2>2. e = d + b
    BY <1>2, <2>1 DEF Exceeds
  <2> QED
    BY <2>1, <2>2
<1> QED
  BY <1>1, <1>12, <1>13 DEF Ahead

\* How far the lapses are over the line from a to c at i, times c - a, negated.
Gap(S, a, c, i) == (S[c] - S[a]) * (i - a) - (S[i] - S[a]) * (c - a)

\* The gap changes with every label by how far it is off the mean of the block.
LEMMA GapStep ==
  ASSUME NEW N \in Nat, NEW S \in [0..N -> Int], NEW a \in 0..N, NEW c \in 0..N, NEW i \in 1..N,
         NEW y \in Int, S[i] = S[i - 1] + y
  PROVE  /\ Gap(S, a, c, i) \in Int /\ Gap(S, a, c, i - 1) \in Int
         /\ Gap(S, a, c, i) = Gap(S, a, c, i - 1) + ((S[c] - S[a]) - (c - a) * y)
<1>1. PICK f \in Int, g \in Int, h \in Int, l \in Int :
        f = S[a] /\ g = S[c] /\ h = S[i - 1] /\ l = S[i] /\ l = h + y
  <2>1. i - 1 \in 0..N /\ i \in 0..N
    OBVIOUS
  <2>2. S[a] \in Int /\ S[c] \in Int /\ S[i - 1] \in Int /\ S[i] \in Int
    BY <2>1
  <2> QED
    BY <2>2
<1>2. PICK s \in Int, w \in Int, b \in Int, k \in Int :
        s = g - f /\ w = c - a /\ b = i - 1 - a /\ k = h - f
  OBVIOUS
<1>3. s * (b + 1) = s * b + s /\ (k + y) * w = k * w + w * y
  OBVIOUS
<1>4. Gap(S, a, c, i) = s * (b + 1) - (k + y) * w
  <2>1. i - a = b + 1 /\ l - f = k + y
    <3>1. b = i - 1 - a /\ k = h - f /\ l = h + y
      BY <1>1, <1>2
    <3> QED
      BY <3>1
  <2> QED
    BY <1>1, <1>2, <2>1 DEF Gap
<1>5. Gap(S, a, c, i - 1) = s * b - k * w
  <2>1. i - 1 - a = b
    BY <1>2
  <2> QED
    BY <1>1, <1>2, <2>1 DEF Gap
<1>6. s * b \in Int /\ k * w \in Int /\ w * y \in Int
  OBVIOUS
<1>7. Gap(S, a, c, i) = Gap(S, a, c, i - 1) + (s - w * y)
  BY <1>3, <1>4, <1>5, <1>6
<1>8. Gap(S, a, c, i) \in Int /\ Gap(S, a, c, i - 1) \in Int
  BY <1>3, <1>4, <1>5, <1>6
<1> QED
  BY <1>1, <1>2, <1>7, <1>8

\* A block has no gap at its ends.
LEMMA GapEnds ==
  ASSUME NEW N \in Nat, NEW S \in [0..N -> Int], NEW a \in 0..N, NEW c \in 0..N
  PROVE  Gap(S, a, c, a) = 0 /\ Gap(S, a, c, c) = 0
<1>1. PICK s \in Int, w \in Int, f \in Int : s = S[c] - S[a] /\ w = c - a /\ f = S[a]
  OBVIOUS
<1>2. Gap(S, a, c, c) = s * w - s * w
  BY <1>1 DEF Gap
<1>3. s * w \in Int /\ s * 0 = 0 /\ 0 * w = 0
  OBVIOUS
<1>4. Gap(S, a, c, a) = s * 0 - 0 * w
  <2>1. a - a = 0 /\ f - f = 0
    OBVIOUS
  <2> QED
    BY <1>1, <2>1 DEF Gap
<1> QED
  BY <1>2, <1>3, <1>4

\* D is by how much the errors of the prior, summed up to each position, exceed
\* those of the curve.
Excess(D, knots, m, E, x, S, n) ==
  /\ D \in [0..n -> Int] /\ D[0] = 0
  /\ \A k \in 1..m : \A i \in 1..n : E[k - 1] < i /\ i <= E[k] =>
       \E y \in {0, 1} : S[i] = S[i - 1] + y /\ Exceeds(D[i], D[i - 1], Prior(x[i]), knots[k].p, y)

\* What the excess is at least, inside block k: t is how much the prior exceeds
\* the block at i, or more.
AheadIn(D, knots, E, x, S, k, i) ==
  \A t \in Int : (E[k - 1] < i => Prior(x[i]) - knots[k].p <= t) =>
    Ahead(E[k] - E[k - 1], D[i], t, Gap(S, E[k - 1], E[k], i))

\* The prior grows with the score.
LEMMA PriorGrows ==
  /\ \A x \in Int : Prior(x) \in Int
  /\ \A x, z \in Int : x <= z => Prior(x) <= Prior(z)
BY DEF Prior

\* One label more of a block.
Pooled(g, p, y, s, w, u, v, d, e) ==
  /\ g \in Int /\ p \in Int /\ y \in Int /\ s \in Int /\ w \in Nat /\ w > 0
  /\ u \in Int /\ v \in Int /\ d \in Int /\ e \in Int
  /\ Nearest(p, s, w)
  /\ v <= 0 /\ v = u + (s - w * y)
  /\ Exceeds(e, d, g, p, y)
  /\ Ahead(w, d, g - p, u)

\* With the label the bound remains.
LEMMA AheadStep ==
  ASSUME NEW g, NEW p, NEW y, NEW s, NEW w, NEW u, NEW v, NEW d, NEW e,
         Pooled(g, p, y, s, w, u, v, d, e), NEW t \in Int, g - p <= t
  PROVE  Ahead(w, e, t, v)
<1> USE DEF Pooled
<1>1. PICK r \in Int : r = e - d /\ e = d + r
  OBVIOUS
<1>2. PICK q \in Int, z \in Int : q = g - p /\ q <= t /\ z = s - w * y /\ v = u + z
  OBVIOUS
<1>3. w * r >= 20000 * (q * z)
  <2>1. Ahead(w, e - d, g - p, s - w * y)
    <3>1. /\ g \in Int /\ p \in Int /\ y \in Int /\ s \in Int /\ w \in Nat /\ w > 0
          /\ d \in Int /\ e \in Int /\ Nearest(p, s, w) /\ Exceeds(e, d, g, p, y)
      OBVIOUS
    <3> HIDE DEF Pooled
    <3> QED
      BY <3>1, ErrorsApart
  <2> QED
    BY <1>1, <1>2, <2>1 DEF Ahead
<1>4. w * d >= 20000 * (q * u)
  BY <1>2 DEF Ahead
<1>5. w * e = w * d + w * r
  BY <1>1
<1>6. q * v = q * u + q * z
  BY <1>2
<1>7. t * v <= q * v
  <2>1. PICK b \in Nat, o \in Nat : b = t - q /\ o = -v
    BY <1>2
  <2>2. b * o \in Nat
    OBVIOUS
  <2>3. b * o = q * v - t * v
    BY <2>1
  <2>4. q * v \in Int /\ t * v \in Int
    OBVIOUS
  <2> QED
    BY <2>2, <2>3, <2>4
<1>8. /\ w * d \in Int /\ w * r \in Int /\ q * u \in Int /\ q * z \in Int
      /\ q * v \in Int /\ t * v \in Int
  OBVIOUS
<1>9. w * e >= 20000 * (t * v)
  BY <1>3, <1>4, <1>5, <1>6, <1>7, <1>8
<1> QED
  BY <1>9 DEF Ahead

\* S is not below the line, so the gap is not positive.
LEMMA GapOver ==
  ASSUME NEW N \in Nat, NEW S \in [0..N -> Int], NEW a \in 0..N, NEW c \in 0..N, NEW i \in 0..N,
         Over(S, a, c, i)
  PROVE  Gap(S, a, c, i) <= 0
<1>1. PICK h \in Int, s \in Int, w \in Int, b \in Int :
        h = S[i] - S[a] /\ s = S[c] - S[a] /\ w = c - a /\ b = i - a
  OBVIOUS
<1>2. h * w >= s * b
  BY <1>1 DEF Over
<1>3. Gap(S, a, c, i) = s * b - h * w
  BY <1>1 DEF Gap
<1>4. h * w \in Int /\ s * b \in Int
  OBVIOUS
<1> QED
  BY <1>2, <1>3, <1>4

\* In every block, and at its end, the bound holds; where it ends the gap is 0, so
\* the errors of the prior are no less than those of the curve.
LEMMA AheadThroughout ==
  ASSUME NEW N \in Nat, N > 0, NEW m \in Nat, NEW E, NEW x \in [1..N -> Int],
         NEW S \in [0..N -> Int], NEW knots, NEW D,
         Knots(knots, m, E, x, S, N), Excess(D, knots, m, E, x, S, N),
         \A i, j \in 1..N : i < j => x[i] <= x[j]
  PROVE  D[N] >= 0
<1>1. /\ m > 0 /\ E \in [0..m -> 0..N] /\ E[0] = 0 /\ E[m] = N
      /\ D \in [0..N -> Int] /\ D[0] = 0
  BY DEF Knots, Excess
<1>2. \A k \in 1..m : E[k - 1] \in 0..N /\ E[k] \in 0..N /\ E[k - 1] < E[k]
  <2> SUFFICES ASSUME NEW k \in 1..m
               PROVE  E[k - 1] \in 0..N /\ E[k] \in 0..N /\ E[k - 1] < E[k]
    OBVIOUS
  <2>1. k \in 0..m /\ k - 1 \in 0..m
    OBVIOUS
  <2>2. E[k - 1] \in 0..N /\ E[k] \in 0..N
    BY <1>1, <2>1
  <2> QED
    BY <2>2 DEF Knots
<1>3. \A k \in 1..m : /\ knots[k].p \in Int
                       /\ Nearest(knots[k].p, S[E[k]] - S[E[k - 1]], E[k] - E[k - 1])
  <2>1. \A k \in 1..m : Nearest(knots[k].p, S[E[k]] - S[E[k - 1]], E[k] - E[k - 1])
    BY DEF Knots
  <2>2. \A p, s, w : Nearest(p, s, w) => p \in Int
    BY DEF Nearest
  <2> QED
    BY <2>1, <2>2
<1>4. \A k \in 1..m : \A j \in 0..N : Over(S, E[k - 1], E[k], j)
  BY DEF Knots, Supported
<1>5. D \in [0..N -> Int]
  BY <1>1
<1>6. \A a, c \in 0..N : a < c => c - a \in Nat /\ c - a > 0
  OBVIOUS
<1> DEFINE Inside(i) == \A k \in 1..m : E[k - 1] <= i /\ i <= E[k] => AheadIn(D, knots, E, x, S, k, i)
           T == {i \in 0..N : Inside(i)}
<1>7. ASSUME NEW k \in 1..m, NEW i \in 0..N, i = E[k - 1], D[i] >= 0
      PROVE  AheadIn(D, knots, E, x, S, k, i)
  <2>1. PICK a \in 0..N, c \in 0..N : a = E[k - 1] /\ c = E[k] /\ a < c /\ i = a
    BY <1>2, <1>7
  <2>2. Gap(S, a, c, i) = 0
    BY <2>1, GapEnds
  <2>3. PICK w \in Nat, d \in Nat : w = c - a /\ d = D[i]
    <3>1. c - a \in Nat
      BY <2>1
    <3>2. D[i] \in Nat
      BY <1>7, <1>5
    <3> QED
      BY <3>1, <3>2
  <2>4. \A t \in Int : Ahead(w, d, t, 0)
    <3>1. w * d >= 0
      OBVIOUS
    <3>2. \A t \in Int : 20000 * (t * 0) = 0
      OBVIOUS
    <3> QED
      BY <3>1, <3>2 DEF Ahead
  <2>5. AheadIn(D, knots, E, x, S, k, i)
    BY <2>1, <2>2, <2>3, <2>4 DEF AheadIn
  <2> QED
    BY <2>5
<1>8. Inside(0)
  <2> SUFFICES ASSUME NEW k \in 1..m, E[k - 1] <= 0
               PROVE  AheadIn(D, knots, E, x, S, k, 0)
    OBVIOUS
  <2>1. E[k - 1] = 0
    <3>1. E[k - 1] \in 0..N
      BY <1>2
    <3> QED
      BY <3>1
  <2>2. 0 \in 0..N /\ D[0] >= 0
    BY <1>1
  <2> QED
    BY <1>7, <2>1, <2>2
<1>9. ASSUME NEW k \in 1..m, NEW i \in 0..N, i = E[k], AheadIn(D, knots, E, x, S, k, i)
      PROVE  D[i] >= 0
  <2>1. PICK a \in 0..N, c \in 0..N : a = E[k - 1] /\ c = E[k] /\ a < c /\ i = c
    BY <1>2, <1>9
  <2>2. Gap(S, a, c, i) = 0
    BY <2>1, GapEnds
  <2>3. PICK t \in Int : t = Prior(x[i]) - knots[k].p
    <3>1. i \in 1..N
      BY <2>1
    <3>2. Prior(x[i]) \in Int
      BY <3>1, PriorGrows
    <3>3. knots[k].p \in Int
      BY <1>3
    <3>4. Prior(x[i]) - knots[k].p \in Int
      BY <3>2, <3>3
    <3> QED
      BY <3>4
  <2>4. PICK w \in Nat, d \in Int : w = c - a /\ w > 0 /\ d = D[i]
    <3>1. c - a \in Nat /\ c - a > 0
      BY <1>6, <2>1
    <3>2. D[i] \in Int
      BY <1>5
    <3> QED
      BY <3>1, <3>2
  <2>5. w * d >= 0
    <3>1. Ahead(w, d, t, 0)
      <4>1. t <= t
        OBVIOUS
      <4> QED
        BY <1>9, <2>1, <2>2, <2>3, <2>4, <4>1 DEF AheadIn
    <3>2. 20000 * (t * 0) = 0
      OBVIOUS
    <3> QED
      BY <3>1, <3>2 DEF Ahead
  <2>6. ASSUME d < 0 PROVE FALSE
    <3>1. w * d < 0
      BY <2>4, <2>6
    <3> QED
      BY <2>5, <3>1
  <2> QED
    BY <2>4, <2>6
<1>10. ASSUME NEW i \in 1..N, Inside(i - 1) PROVE Inside(i)
  <2>1. ASSUME NEW k \in 1..m, E[k - 1] < i, i <= E[k]
        PROVE  AheadIn(D, knots, E, x, S, k, i)
    <3>1. PICK a \in 0..N, c \in 0..N, p \in Int, g \in Int :
            /\ a = E[k - 1] /\ c = E[k] /\ a < i /\ i <= c
            /\ p = knots[k].p /\ g = Prior(x[i])
      <4>1. Prior(x[i]) \in Int
        BY PriorGrows
      <4>2. E[k - 1] \in 0..N /\ E[k] \in 0..N /\ knots[k].p \in Int
        BY <1>2, <1>3
      <4> QED
        BY <2>1, <4>1, <4>2
    <3>2. PICK y \in Int : S[i] = S[i - 1] + y /\ Exceeds(D[i], D[i - 1], g, p, y)
      <4>1. \E y \in {0, 1} : /\ S[i] = S[i - 1] + y
                             /\ Exceeds(D[i], D[i - 1], Prior(x[i]), knots[k].p, y)
        BY <2>1 DEF Excess
      <4> QED
        BY <3>1, <4>1
    <3>3. PICK s \in Int, w \in Nat : /\ s = S[c] - S[a] /\ w = c - a /\ w > 0
                                     /\ Nearest(p, s, w)
      <4>1. S[c] - S[a] \in Int
        OBVIOUS
      <4>2. c - a \in Nat /\ c - a > 0
        <5>1. a < c
          BY <1>2, <3>1
        <5> QED
          BY <1>6, <5>1
      <4>3. Nearest(p, S[c] - S[a], c - a)
        BY <1>3, <3>1
      <4> QED
        BY <4>1, <4>2, <4>3
    <3>4. PICK d \in Int, e \in Int : d = D[i - 1] /\ e = D[i]
      <4>1. i - 1 \in 0..N /\ i \in 0..N
        OBVIOUS
      <4> QED
        BY <1>5, <4>1
    <3>5. PICK u \in Int, v \in Int : /\ u = Gap(S, a, c, i - 1) /\ v = Gap(S, a, c, i)
                                     /\ v = u + (s - w * y) /\ v <= 0
      <4>1. /\ Gap(S, a, c, i) \in Int /\ Gap(S, a, c, i - 1) \in Int
            /\ Gap(S, a, c, i) = Gap(S, a, c, i - 1) + ((S[c] - S[a]) - (c - a) * y)
        BY <3>2, GapStep
      <4>2. Over(S, a, c, i) /\ i \in 0..N
        BY <1>4, <3>1
      <4>3. Gap(S, a, c, i) <= 0
        BY <4>2, GapOver
      <4> QED
        BY <3>3, <4>1, <4>3
    <3>6. Ahead(w, d, g - p, u)
      <4>1. AheadIn(D, knots, E, x, S, k, i - 1)
        <5>1. a <= i - 1 /\ i - 1 <= c
          <6>1. a < i /\ i <= c
            BY <3>1
          <6> QED
            BY <6>1
        <5>2. E[k - 1] <= i - 1 /\ i - 1 <= E[k]
          BY <3>1, <5>1
        <5> QED
          BY <1>10, <5>2
      <4>2. E[k - 1] < i - 1 => Prior(x[i - 1]) - knots[k].p <= g - p
        <5> SUFFICES ASSUME a < i - 1 PROVE Prior(x[i - 1]) - p <= g - p
          BY <3>1
        <5>1. i - 1 \in 1..N
          BY <3>1
        <5>2. x[i - 1] \in Int /\ x[i] \in Int /\ x[i - 1] <= x[i]
          BY <5>1
        <5>3. Prior(x[i - 1]) <= g /\ Prior(x[i - 1]) \in Int
          BY <3>1, <5>2, PriorGrows
        <5> QED
          BY <5>3
      <4>3. g - p \in Int
        OBVIOUS
      <4>4. Ahead(E[k] - E[k - 1], D[i - 1], g - p, Gap(S, E[k - 1], E[k], i - 1))
        BY <4>1, <4>2, <4>3 DEF AheadIn
      <4> QED
        BY <3>1, <3>3, <3>4, <3>5, <4>4
    <3>7. Exceeds(e, d, g, p, y)
      BY <3>2, <3>4
    <3>8. ASSUME NEW t \in Int, g - p <= t PROVE Ahead(w, e, t, v)
      <4>1. Pooled(g, p, y, s, w, u, v, d, e)
        BY <3>3, <3>5, <3>6, <3>7 DEF Pooled
      <4> QED
        BY <3>8, <4>1, AheadStep
    <3> QED
      BY <3>1, <3>3, <3>4, <3>5, <3>8 DEF AheadIn
  <2>2. ASSUME NEW k \in 1..m, E[k - 1] = i PROVE AheadIn(D, knots, E, x, S, k, i)
    <3>1. k - 1 \in 1..m
      <4>1. k # 1
        BY <1>1, <2>2
      <4> QED
        BY <4>1
    <3>2. PICK l \in 1..m : l = k - 1
      BY <3>1
    <3>3. E[l - 1] < i /\ i <= E[l] /\ i = E[l] /\ i \in 0..N
      BY <1>2, <2>2, <3>2
    <3>4. AheadIn(D, knots, E, x, S, l, i)
      BY <2>1, <3>3
    <3>5. D[i] >= 0
      BY <1>9, <3>3, <3>4
    <3> QED
      BY <1>7, <2>2, <3>3, <3>5
  <2>3. ASSUME NEW k \in 1..m, E[k - 1] <= i, i <= E[k] PROVE AheadIn(D, knots, E, x, S, k, i)
    <3>1. E[k - 1] < i \/ E[k - 1] = i
      <4>1. E[k - 1] \in 0..N
        BY <1>2
      <4> QED
        BY <2>3, <4>1
    <3> QED
      BY <2>1, <2>2, <2>3, <3>1
  <2> QED
    BY <2>3
<1>11. 0..N \subseteq T
  <2> HIDE DEF Inside
  <2>1. 0 \in T
    BY <1>8
  <2>2. \A i \in 1..N : i - 1 \in T => i \in T
    <3> SUFFICES ASSUME NEW i \in 1..N, i - 1 \in T PROVE i \in T
      OBVIOUS
    <3>1. Inside(i - 1) /\ i \in 0..N
      OBVIOUS
    <3> QED
      BY <1>10, <3>1
  <2> HIDE DEF T
  <2> QED
    BY <2>1, <2>2, Reaches
<1>12. Inside(N)
  <2> HIDE DEF Inside
  <2> QED
    BY <1>11
<1>13. m \in 1..m /\ E[m - 1] <= N /\ N <= E[m]
  BY <1>1, <1>2
<1> QED
  BY <1>1, <1>9, <1>12, <1>13

\* No two of the first n scores are the same.
Ascending(x, n) == \A i, j \in 1..n : i < j => x[i] < x[j]

\* Each of the first n labels is served the value of its block.
ServedInBlocks(knots, m, E, x, n) ==
  \A k \in 1..m, i \in 1..n : E[k - 1] < i /\ i <= E[k] =>
    ApplyKnots(knots, x[i]) = knots[k].p

\* Where no two labels share a score, each is served the value of its block.
LEMMA ServedItsBlock ==
  ASSUME NEW N \in Nat, NEW m \in Nat, NEW E, NEW x \in [1..N -> Int], NEW S, NEW knots,
         Knots(knots, m, E, x, S, N),
         Ascending(x, N)
  PROVE  ServedInBlocks(knots, m, E, x, N)
<1> SUFFICES ASSUME NEW k \in 1..m, NEW i \in 1..N, E[k - 1] < i, i <= E[k]
             PROVE  ApplyKnots(knots, x[i]) = knots[k].p
  BY DEF ServedInBlocks
<1>1. /\ m > 0 /\ m = Len(knots) /\ DOMAIN knots = 1..m /\ E \in [0..m -> 0..N] /\ E[0] = 0
      /\ \A l \in 1..m : E[l - 1] < E[l] /\ knots[l].x = x[E[l]]
  BY DEF Knots
<1>2. \A h, j \in 1..N : h < j => x[h] < x[j]
  BY DEF Ascending
<1>3. PICK l : Serves(knots, m, x[i], l) /\ ApplyKnots(knots, x[i]) = knots[l].p
  <2>1. m > 0 /\ Len(knots) = m /\ DOMAIN knots = 1..m
    BY <1>1
  <2> QED
    BY <2>1, ApplyIs, Zenon
<1>4. l \in 1..m
  BY <1>3 DEF Serves
<1>5. ~(k < l)
  <2> SUFFICES ASSUME k < l PROVE FALSE
    OBVIOUS
  <2>1. k \in 1..(l - 1)
    BY <1>4
  <2>2. ~(x[i] <= knots[k].x)
    BY <1>3, <2>1 DEF Serves
  <2>3. PICK c \in 1..N : c = E[k]
    <3>1. k \in 0..m
      OBVIOUS
    <3>2. E[k] \in 0..N
      BY <1>1, <3>1
    <3> QED
      BY <3>2
  <2>4. x[c] \in Int /\ x[i] \in Int /\ knots[k].x = x[c]
    BY <1>1, <2>3
  <2>5. x[i] <= x[c]
    <3>1. i = c \/ i < c
      BY <2>3
    <3> QED
      BY <1>2, <2>4, <3>1
  <2> QED
    BY <2>2, <2>4, <2>5
<1>6. ~(l < k)
  <2> SUFFICES ASSUME l < k PROVE FALSE
    OBVIOUS
  <2>1. x[i] <= knots[l].x
    <3>1. l # m
      BY <1>4
    <3> QED
      BY <1>3, <3>1 DEF Serves
  <2>2. l \in 0..m /\ k - 1 \in l..m
    BY <1>4
  <2>3. \A h \in 1..m : E[h - 1] <= E[h]
    <3> SUFFICES ASSUME NEW h \in 1..m PROVE E[h - 1] <= E[h]
      OBVIOUS
    <3>1. h - 1 \in 0..m /\ h \in 0..m
      OBVIOUS
    <3>2. E[h - 1] \in 0..N /\ E[h] \in 0..N /\ E[h - 1] < E[h]
      BY <1>1, <3>1
    <3> QED
      BY <3>2
  <2>4. E \in [0..m -> Int]
    BY <1>1
  <2>5. E[l] <= E[k - 1]
    BY <2>2, <2>3, <2>4, StepwiseRises
  <2>6. PICK c \in 1..N : c = E[l] /\ c < i
    <3>1. l - 1 \in 0..m /\ k - 1 \in 0..m
      BY <1>4
    <3>2. E[l] \in 0..N /\ E[k - 1] \in 0..N /\ E[l - 1] \in 0..N
      BY <1>1, <2>2, <3>1
    <3>3. E[l - 1] < E[l]
      BY <1>1, <1>4
    <3>4. E[l] \in 1..N /\ E[l] < i
      BY <2>5, <3>2, <3>3
    <3> QED
      BY <3>4
  <2>7. x[c] < x[i] /\ knots[l].x = x[c]
    BY <1>1, <1>4, <1>2, <2>6
  <2>8. x[c] \in Int /\ x[i] \in Int
    OBVIOUS
  <2> QED
    BY <2>1, <2>7, <2>8
<1>7. k = l
  BY <1>4, <1>5, <1>6
<1> QED
  BY <1>3, <1>7

\* The errors of the predictions, summed up to each position.
Totals(total, pairs, predict, n) ==
  /\ total \in [0..n -> Int]
  /\ total[0] = 0
  /\ total[n] >= 0
  /\ \A i \in 1..n : total[i] = total[i - 1]
                        + Square(predict[pairs[i][1]] - 10000 * pairs[i][2])

\* The errors are summed up.
LEMMA ErrorsAre ==
  ASSUME NEW N \in Nat, NEW pairs \in Seq(LabelRow), N = Len(pairs),
         NEW predict \in [Values -> Int]
  PROVE  Totals(Sums(Errors(pairs, predict)), pairs, predict, N)
<1>1. DOMAIN pairs = 1..N /\ \A i \in 1..N : pairs[i] \in LabelRow
  OBVIOUS
<1>2. \A i \in 1..N : pairs[i][1] \in Values /\ pairs[i][2] \in Int
  BY <1>1 DEF LabelRow
<1>3. \A i \in 1..N : Square(predict[pairs[i][1]] - 10000 * pairs[i][2]) \in Nat
  <2> SUFFICES ASSUME NEW i \in 1..N
               PROVE  Square(predict[pairs[i][1]] - 10000 * pairs[i][2]) \in Nat
    OBVIOUS
  <2>1. PICK p \in Int, y \in Int : p = predict[pairs[i][1]] /\ y = pairs[i][2]
    BY <1>2
  <2>2. PICK e \in Int : e = p - 10000 * y
    OBVIOUS
  <2>3. e * e \in Nat
    OBVIOUS
  <2> QED
    BY <2>1, <2>2, <2>3 DEF Square
<1>4. PICK errors \in [1..N -> Int] :
        /\ errors = Errors(pairs, predict)
        /\ \A i \in 1..N : errors[i] = Square(predict[pairs[i][1]] - 10000 * pairs[i][2])
  <2>1. PICK errors : errors = Errors(pairs, predict)
    OBVIOUS
  <2>2. errors \in [1..N -> Int]
    BY <1>1, <1>3, <2>1 DEF Errors
  <2>3. \A i \in 1..N : errors[i] = Square(predict[pairs[i][1]] - 10000 * pairs[i][2])
    BY <1>1, <2>1 DEF Errors
  <2> QED
    BY <2>1, <2>2, <2>3
<1>5. PICK total : total = Sums(errors)
  OBVIOUS
<1>6. total \in [0..N -> Int] /\ total[0] = 0 /\ \A i \in 1..N : total[i] = total[i - 1] + errors[i]
  BY <1>5, SumsAre
<1>7. \A i \in 1..N : total[i - 1] <= total[i]
  <2> SUFFICES ASSUME NEW i \in 1..N PROVE total[i - 1] <= total[i]
    OBVIOUS
  <2>1. errors[i] \in Nat
    BY <1>3, <1>4
  <2>2. i - 1 \in 0..N
    OBVIOUS
  <2>3. total[i - 1] \in Int /\ total[i] = total[i - 1] + errors[i]
    BY <1>6, <2>2
  <2> QED
    BY <2>1, <2>3
<1>8. total[0] <= total[N]
  <2>1. 0 \in 0..N /\ N \in 0..N
    OBVIOUS
  <2> QED
    BY <1>6, <1>7, <2>1, StepwiseRises
<1>9. total[N] >= 0
  <2>1. total[N] \in Int
    BY <1>6
  <2> QED
    BY <1>6, <1>8, <2>1
<1>10. total = Sums(Errors(pairs, predict))
  BY <1>4, <1>5
<1>11. \A i \in 1..N : total[i] = total[i - 1]
                          + Square(predict[pairs[i][1]] - 10000 * pairs[i][2])
  BY <1>4, <1>6
<1>12. Totals(total, pairs, predict, N)
  BY <1>6, <1>9, <1>11 DEF Totals
<1> QED
  BY <1>10, <1>12

\* Brier scores are in the order of the totals.
LEMMA BrierGrows ==
  ASSUME NEW N \in Nat, N > 0, NEW pairs, N = Len(pairs),
         NEW p, NEW q, NEW a \in Nat, NEW b \in Nat, a <= b,
         a = Sums(Errors(pairs, p))[N], b = Sums(Errors(pairs, q))[N]
  PROVE  Brier(pairs, p) <= Brier(pairs, q)
<1>1. PICK n \in Nat : n = N * 10000 /\ n > 0
  OBVIOUS
<1>2. PICK d \in Nat : d = 2 * n /\ d > 0
  BY <1>1
<1>3. PICK e \in Nat, f \in Nat : e = 2 * a + n /\ f = 2 * b + n /\ e <= f
  OBVIOUS
<1>4. e \div d <= f \div d
  BY <1>2, <1>3, DivisionGrows
<1>5. Brier(pairs, p) = e \div d /\ Brier(pairs, q) = f \div d
  BY <1>1, <1>2, <1>3 DEF Brier
<1> QED
  BY <1>4, <1>5

\* Sorted labels without ties ascend.
LEMMA UntiedRises ==
  ASSUME NEW N \in Nat, labels \in Seq(LabelRow), N = Len(labels), Sorted(labels), Untied,
         NEW x, x = Scores(labels)
  PROVE  Ascending(x, N)
<1> SUFFICES ASSUME NEW i \in 1..N, NEW j \in 1..N, i < j PROVE x[i] < x[j]
  BY DEF Ascending
<1>1. labels \in Seq(LabelSet)
  BY LabelRows
<1>2. x \in [1..N -> Int] /\ \A n \in 1..N : x[n] = labels[n][1]
  BY <1>1, LabelsAre
<1>3. DOMAIN labels = 1..N
  OBVIOUS
<1>4. labels[i][1] # labels[j][1]
  BY <1>3 DEF Untied
<1>5. ~Before(labels[j], labels[i])
  BY <1>3 DEF Sorted
<1>6. ~(labels[j][1] < labels[i][1])
  BY <1>5 DEF Before
<1>7. PICK a \in Int, c \in Int : a = x[i] /\ c = x[j]
  BY <1>2
<1>8. a # c /\ ~(c < a)
  BY <1>2, <1>4, <1>6, <1>7
<1> QED
  BY <1>7, <1>8

\* What is served while a fit is active.
LEMMA CurveIs ==
  ASSUME NEW N \in Nat, NEW m \in Nat, NEW E, NEW x \in [1..N -> Int], NEW S, NEW knots,
         Knots(knots, m, E, x, S, N)
  PROVE  Fitted(knots) \in [Values -> Int]
<1> SUFFICES ASSUME NEW z \in Values PROVE ApplyKnots(knots, z) \in Int
  BY DEF Fitted
<1>1. /\ m > 0 /\ Len(knots) = m /\ DOMAIN knots = 1..m
      /\ \A k \in 1..m : Nearest(knots[k].p, S[E[k]] - S[E[k - 1]], E[k] - E[k - 1])
  BY DEF Knots
<1>2. PICK k : Serves(knots, m, z, k) /\ ApplyKnots(knots, z) = knots[k].p
  <2>1. m > 0 /\ Len(knots) = m /\ DOMAIN knots = 1..m
    BY <1>1
  <2> QED
    BY <2>1, ApplyIs, Zenon
<1>3. k \in 1..m
  BY <1>2 DEF Serves
<1>4. knots[k].p \in Nat
  BY <1>1, <1>3 DEF Nearest
<1> QED
  BY <1>2, <1>4

\* A fit to untied labels errs no more than the prior on them.
LEMMA FitBeatsPrior ==
  ASSUME labels \in Seq(LabelRow), Len(labels) > 0, Sorted(labels), Untied
  PROVE  Brier(labels, Fitted(Isotonic(labels))) <= Brier(labels, Default)
<1>1. PICK knots : knots = Isotonic(labels)
  OBVIOUS
<1>2. PICK N \in Nat : N = Len(labels) /\ N > 0
  OBVIOUS
<1>3. labels \in Seq(LabelSet)
  BY LabelRows
<1>4. PICK x \in [1..N -> Int], S \in [0..N -> Int] : x = Scores(labels) /\ S = Lapses(labels)
  BY <1>2, <1>3, LabelsAre
<1>5. \A i \in 1..N : x[i] = labels[i][1] /\ S[i] = S[i - 1] + labels[i][2]
  BY <1>2, <1>4, <1>3, LabelsAre
<1>6. Ascending(x, N)
  BY <1>2, <1>4, UntiedRises
<1>7. PICK m \in Nat : \E E : Knots(knots, m, E, x, S, N)
  BY <1>2, <1>4, <1>3, <1>1, KnotsAre
<1>8. PICK E : Knots(knots, m, E, x, S, N)
  BY <1>7
<1>9. ServedInBlocks(knots, m, E, x, N)
  BY <1>6, <1>8, ServedItsBlock
<1>10. \A i \in 1..N : labels[i][1] \in Values /\ labels[i][2] \in {0, 1}
  <2>1. \A i \in 1..N : labels[i] \in LabelRow
    BY <1>2
  <2> QED
    BY <2>1 DEF LabelRow
<1>11. PICK F \in [Values -> Int] : F = Fitted(knots) /\ \A z \in Values : F[z] = ApplyKnots(knots, z)
  <2>1. Fitted(knots) \in [Values -> Int]
    BY <1>5, <1>8, CurveIs
  <2>2. \A z \in Values : Fitted(knots)[z] = ApplyKnots(knots, z)
    BY DEF Fitted
  <2> QED
    BY <2>1, <2>2
<1>12. PICK G \in [Values -> Int] : G = Default /\ \A z \in Values : G[z] = Prior(z)
  <2>1. \A z \in Values : Prior(z) \in Int
    BY ValuesAssumption, PriorGrows
  <2>2. Default \in [Values -> Int] /\ \A z \in Values : Default[z] = Prior(z)
    BY <2>1 DEF Default
  <2> QED
    BY <2>2
<1>13. PICK f : f = Sums(Errors(labels, F)) /\ Totals(f, labels, F, N)
  BY <1>2, ErrorsAre
<1>14. PICK g : g = Sums(Errors(labels, G)) /\ Totals(g, labels, G, N)
  BY <1>2, ErrorsAre
<1>15. f \in [0..N -> Int] /\ g \in [0..N -> Int]
  BY <1>13, <1>14 DEF Totals
<1>16. f[0] = 0 /\ g[0] = 0 /\ f[N] >= 0 /\ g[N] >= 0
  BY <1>13, <1>14 DEF Totals
<1>17. \A i \in 1..N :
         /\ f[i] = f[i - 1] + Square(F[labels[i][1]] - 10000 * labels[i][2])
         /\ g[i] = g[i - 1] + Square(G[labels[i][1]] - 10000 * labels[i][2])
  <2>1. \A i \in 1..N : f[i] = f[i - 1] + Square(F[labels[i][1]] - 10000 * labels[i][2])
    BY <1>13 DEF Totals
  <2>2. \A i \in 1..N : g[i] = g[i - 1] + Square(G[labels[i][1]] - 10000 * labels[i][2])
    BY <1>14 DEF Totals
  <2> QED
    BY <2>1, <2>2
<1>18. PICK D \in [0..N -> Int] : \A i \in 0..N : D[i] = g[i] - f[i]
  <2> DEFINE d == [i \in 0..N |-> g[i] - f[i]]
  <2>1. d \in [0..N -> Int] /\ \A i \in 0..N : d[i] = g[i] - f[i]
    BY <1>15
  <2> HIDE DEF d
  <2> QED
    BY <2>1
<1>19. Excess(D, knots, m, E, x, S, N)
  <2>1. D[0] = 0
    <3>1. 0 \in 0..N
      OBVIOUS
    <3>2. D[0] = g[0] - f[0]
      BY <1>18, <3>1
    <3> QED
      BY <1>16, <3>2
  <2>2. ASSUME NEW k \in 1..m, NEW i \in 1..N, E[k - 1] < i, i <= E[k]
        PROVE  \E y \in {0, 1} : /\ S[i] = S[i - 1] + y
                                 /\ Exceeds(D[i], D[i - 1], Prior(x[i]), knots[k].p, y)
    <3>1. PICK y \in {0, 1} : y = labels[i][2]
      BY <1>10
    <3>2. PICK z \in Values : z = labels[i][1] /\ z = x[i]
      BY <1>5, <1>10
    <3>3. F[z] = knots[k].p
      <4>1. ApplyKnots(knots, x[i]) = knots[k].p
        BY <1>9, <2>2 DEF ServedInBlocks
      <4> QED
        BY <1>11, <3>2, <4>1
    <3>4. G[z] = Prior(x[i])
      BY <1>12, <3>2
    <3>5. PICK a \in Int, b \in Int : /\ a = Square(Prior(x[i]) - 10000 * y)
                                     /\ b = Square(knots[k].p - 10000 * y)
      <4>1. PICK p \in Int, q \in Int : p = F[z] /\ q = G[z]
        OBVIOUS
      <4>2. Square(p - 10000 * y) \in Int /\ Square(q - 10000 * y) \in Int
        BY DEF Square
      <4> QED
        BY <3>3, <3>4, <4>1, <4>2
    <3>6. g[i] = g[i - 1] + a /\ f[i] = f[i - 1] + b
      <4>1. /\ f[i] = f[i - 1] + Square(F[labels[i][1]] - 10000 * labels[i][2])
            /\ g[i] = g[i - 1] + Square(G[labels[i][1]] - 10000 * labels[i][2])
        BY <1>17
      <4>2. F[labels[i][1]] = knots[k].p /\ G[labels[i][1]] = Prior(x[i])
        BY <3>2, <3>3, <3>4
      <4>3. f[i] = f[i - 1] + Square(knots[k].p - 10000 * y)
        BY <3>1, <4>1, <4>2
      <4>4. g[i] = g[i - 1] + Square(Prior(x[i]) - 10000 * y)
        BY <3>1, <4>1, <4>2
      <4> QED
        BY <3>5, <4>3, <4>4
    <3>7. i \in 0..N /\ i - 1 \in 0..N
      OBVIOUS
    <3>8. D[i] = g[i] - f[i] /\ D[i - 1] = g[i - 1] - f[i - 1]
      BY <1>18, <3>7
    <3>9. g[i] \in Int /\ f[i] \in Int /\ g[i - 1] \in Int /\ f[i - 1] \in Int
      BY <1>15, <3>7
    <3>10. D[i] = D[i - 1] + (a - b)
      <4>1. PICK g1 \in Int, g0 \in Int, f1 \in Int, f0 \in Int :
              g1 = g[i] /\ g0 = g[i - 1] /\ f1 = f[i] /\ f0 = f[i - 1]
        BY <3>9
      <4>2. g1 - f1 = (g0 - f0) + (a - b)
        <5>1. g1 = g0 + a /\ f1 = f0 + b
          BY <3>6, <4>1
        <5> QED
          BY <5>1
      <4> QED
        BY <3>8, <4>1, <4>2
    <3>11. S[i] = S[i - 1] + y
      BY <1>5, <3>1
    <3>12. Exceeds(D[i], D[i - 1], Prior(x[i]), knots[k].p, y)
      BY <3>5, <3>10 DEF Exceeds
    <3> QED
      BY <3>11, <3>12
  <2> QED
    BY <2>1, <2>2 DEF Excess
<1>20. \A i, j \in 1..N : i < j => x[i] <= x[j]
  <2> SUFFICES ASSUME NEW i \in 1..N, NEW j \in 1..N, i < j PROVE x[i] <= x[j]
    OBVIOUS
  <2>1. x[i] \in Int /\ x[j] \in Int /\ x[i] < x[j]
    BY <1>5, <1>6 DEF Ascending
  <2> QED
    BY <2>1
<1>21. D[N] >= 0
  BY <1>2, <1>5, <1>8, <1>19, <1>20, AheadThroughout
<1>22. PICK a \in Nat, b \in Nat : a = f[N] /\ b = g[N] /\ a <= b
  <2>1. N \in 0..N
    OBVIOUS
  <2>2. f[N] \in Int /\ g[N] \in Int /\ D[N] = g[N] - f[N]
    BY <1>18, <1>15, <2>1
  <2>3. f[N] \in Nat /\ g[N] \in Nat /\ f[N] <= g[N]
    BY <1>21, <1>16, <2>2
  <2> QED
    BY <2>3
<1>23. Brier(labels, F) <= Brier(labels, G)
  BY <1>2, <1>13, <1>14, <1>22, BrierGrows
<1> QED
  BY <1>11, <1>12, <1>23, <1>1

\* So no active curve that saw every label does.
LEMMA PriorBeaten == CurvesInv => NeverWorseThanPrior
<1> SUFFICES ASSUME CurvesInv, NEW i \in DOMAIN models, models[i].active,
                    models[i].n = Len(labels), Untied
             PROVE  Brier(labels, Fitted(models[i].knots)) <= Brier(labels, Default)
  BY DEF NeverWorseThanPrior
<1>1. PICK known \in Seq(LabelSet) :
        /\ Len(known) > 2
        /\ models[i].knots = Isotonic(known)
        /\ models[i].n = Len(labels) => known = labels
  BY ActiveRests
<1>2. known = labels
  BY <1>1
<1>3. Len(labels) > 0 /\ models[i].knots = Isotonic(labels)
  BY <1>1, <1>2
<1>4. labels \in Seq(LabelRow) /\ Sorted(labels)
  BY DEF CurvesInv
<1> QED
  BY <1>3, <1>4, FitBeatsPrior

\* On the labels it was fitted to, when no two of them share a score, an active
\* curve has a Brier score no higher than the prior it replaced.
THEOREM ActiveNeverWorse == CalSpec => []NeverWorseThanPrior
  BY CurvesInvariant, PriorBeaten, PTL

-----------------------------------------------------------------------------
(* The signals of an account.                                              *)

Ages(limit) == {None} \cup 0..(limit + 1)
Days == None..Horizon
Usages == [drop : {0, 20, 30, 50}, age : Ages(FreshDays)]
Sentiments ==
  {NoSentiment} \cup
    [severity : {"medium", "high"}, review : {"pending", "confirmed", "rejected"}]

\* What TypeOK says of the facts, without the score.
FactsOK ==
  /\ terms \in [auto : BOOLEAN, strategic : BOOLEAN]
  /\ renewal \in Days
  /\ plan \in BOOLEAN
  /\ overdue \in Ages(HighDays)
  /\ ticket \in Ages(SlaDays)
  /\ usage \in Usages
  /\ sentiment \in Sentiments
  /\ domains \subseteq {"usage", "support", "billing"}

LEMMA AgesAre ==
  ASSUME NEW limit \in Nat
  PROVE  /\ None \in Ages(limit) /\ 0 \in Ages(limit)
         /\ \A age \in Ages(limit) : Older(age, limit) \in Ages(limit)
  BY DEF Older, None, Ages

LEMMA FactsKept == FactsOK /\ [Next]_vars => FactsOK'
<1> SUFFICES ASSUME FactsOK, [Next]_vars PROVE FactsOK'
  OBVIOUS
<1>1. /\ \A limit \in {HighDays, SlaDays, FreshDays} :
           /\ None \in Ages(limit) /\ 0 \in Ages(limit)
           /\ \A age \in Ages(limit) : Older(age, limit) \in Ages(limit)
      /\ Horizon \in Days
  BY AgesAre, DaysAssumption DEF Days, None
<1>2. CASE DayPasses
  <2>1. renewal' \in Days
    BY <1>2, DaysAssumption DEF FactsOK, DayPasses, Days, None
  <2> QED
    BY <1>1, <1>2, <2>1 DEF FactsOK, DayPasses, Usages
<1>3. CASE PlanChanged \/ Renewed
  BY <1>1, <1>3 DEF FactsOK, PlanChanged, Renewed
<1>4. CASE InvoiceDue \/ InvoicePaid
  BY <1>1, <1>4 DEF FactsOK, InvoiceDue, InvoicePaid
<1>5. CASE TicketOpened \/ TicketResolved
  BY <1>1, <1>5 DEF FactsOK, TicketOpened, TicketResolved
<1>6. CASE UsageImported
  BY <1>1, <1>6 DEF FactsOK, UsageImported, Usages
<1>7. CASE Analyze
  BY <1>7 DEF FactsOK, Analyze, facts, Sentiments
<1>8. CASE Review
  BY <1>8 DEF FactsOK, Review, facts, Sentiments
<1>9. CASE UNCHANGED vars
  BY <1>9 DEF FactsOK, vars, facts
<1> QED
  BY <1>2, <1>3, <1>4, <1>5, <1>6, <1>7, <1>8, <1>9 DEF Next

LEMMA FactsInit == Init => FactsOK
<1>1. /\ None \in Ages(HighDays) /\ None \in Ages(SlaDays) /\ None \in Ages(FreshDays)
      /\ {None, Horizon} \subseteq Days
  BY AgesAre, DaysAssumption DEF Days, None
<1> SUFFICES ASSUME Init PROVE FactsOK
  OBVIOUS
<1>2. usage \in Usages /\ sentiment \in Sentiments
  BY <1>1 DEF Init, Usages, Sentiments
<1> QED
  BY <1>1, <1>2 DEF Init, FactsOK

LEMMA FactsInvariant == Spec => []FactsOK
  BY FactsInit, FactsKept, PTL DEF Spec

\* What the detectors find, and what the LLM makes of a ticket.
Detected ==
  [key : {"renewal_no_plan", "notice_period_approaching", "payment_late",
          "critical_ticket_unresolved", "usage_drop_vs_baseline"},
   severity : {"medium", "high", "critical"}, confidence : {94, 100}, review : {"exempt"}]
Voiced ==
  [key : {"negative_sentiment"}, severity : {"medium", "high"}, confidence : {70},
   review : {"pending", "confirmed", "rejected"}]
SignalRow == Detected \cup Voiced

LEMMA ActiveAre ==
  ASSUME FactsOK
  PROVE  /\ Active \subseteq SignalRow /\ IsFiniteSet(Active)
         /\ \A s, t \in Active : s \in Voiced /\ t \in Voiced => s = t
<1>1. /\ RenewalNoPlan \subseteq Detected /\ NoticePeriodApproaching \subseteq Detected
      /\ PaymentLate \subseteq Detected /\ CriticalTicketUnresolved \subseteq Detected
      /\ UsageDropVsBaseline \subseteq Detected
  BY DEF RenewalNoPlan, NoticePeriodApproaching, PaymentLate, CriticalTicketUnresolved,
         UsageDropVsBaseline, UsageSeverity, Detection, Signal, Detected
<1>2. NegativeSentiment \subseteq Voiced
  BY DEF FactsOK, Sentiments, NegativeSentiment, Signal, Voiced
<1>3. \A s, t \in NegativeSentiment : s = t
  BY DEF NegativeSentiment
<1>4. Detected \cap Voiced = {}
  BY DEF Detected, Voiced
<1>5. /\ IsFiniteSet(RenewalNoPlan) /\ IsFiniteSet(NoticePeriodApproaching)
      /\ IsFiniteSet(PaymentLate) /\ IsFiniteSet(CriticalTicketUnresolved)
      /\ IsFiniteSet(UsageDropVsBaseline) /\ IsFiniteSet(NegativeSentiment)
  BY FS_EmptySet, FS_Singleton DEF RenewalNoPlan, NoticePeriodApproaching, PaymentLate,
     CriticalTicketUnresolved, UsageDropVsBaseline, NegativeSentiment, Detection
<1>6. IsFiniteSet(Active)
  BY <1>5, FS_Union DEF Active
<1> QED
  BY <1>1, <1>2, <1>3, <1>4, <1>6 DEF Active, SignalRow

\* The vetted signals are the ones that count.
LEMMA VettedCounts ==
  ASSUME FactsOK
  PROVE  /\ Vetted \subseteq Active /\ Vetted = Counted(Active) /\ Counted(Vetted) = Vetted
         /\ \A s \in Active \ Vetted : s \in Voiced
<1>1. \A s \in Active : s \in Detected \/ s \in Voiced
  BY ActiveAre DEF SignalRow
<1>2. \A s \in Detected : s.key # "negative_sentiment" /\ s.review = "exempt"
  BY DEF Detected
<1>3. \A s \in Voiced : s.key = "negative_sentiment" /\ s.review # "exempt"
  BY DEF Voiced
<1> QED
  BY <1>1, <1>2, <1>3 DEF Vetted, Counted

LEMMA StrengthIs ==
  ASSUME NEW s \in SignalRow
  PROVE  /\ Strength(s) \in Nat /\ Strength(s) <= 10000
         /\ SeverityRank[s.severity] \in 1..5
         /\ SeverityRank[s.severity] < 4 => Strength(s) <= 5000
         /\ s.confidence \in {70, 94, 100}
<1>1. s.severity \in {"medium", "high", "critical"} /\ s.confidence \in {70, 94, 100}
  BY DEF SignalRow, Detected, Voiced
<1>2. CASE s.severity = "medium"
  BY <1>1, <1>2 DEF Strength, SEVERITY_NORM, SeverityRank
<1>3. CASE s.severity = "high"
  BY <1>1, <1>3 DEF Strength, SEVERITY_NORM, SeverityRank
<1>4. CASE s.severity = "critical"
  BY <1>1, <1>4 DEF Strength, SEVERITY_NORM, SeverityRank
<1> QED
  BY <1>1, <1>2, <1>3, <1>4

-----------------------------------------------------------------------------
(* The score.                                                              *)

Matched(c, signals) == {s \in signals : s.key \in COMPONENTS[c].types}

Strengths(matched) == {Strength(s) : s \in matched}
AreSignals(matched) == matched # {} /\ matched \subseteq SignalRow

\* The strongest signal drives its component.
LEMMA NormIs ==
  ASSUME NEW matched, AreSignals(matched)
  PROVE  /\ Norm(matched) \in Nat /\ Norm(matched) <= 10000
         /\ \E s \in matched : Norm(matched) = Strength(s)
         /\ \A s \in matched : Strength(s) <= Norm(matched)
<1>1. Strengths(matched) # {} /\ \A x \in Strengths(matched) : x \in Nat /\ x <= 10000
  BY StrengthIs DEF Strengths, AreSignals
<1>2. PICK m \in Nat : m = 10000
  OBVIOUS
<1>3. PICK S : S = Strengths(matched)
  OBVIOUS
<1>4. S \subseteq 0..m /\ S # {}
  <2>1. \A x \in S : x \in Nat /\ x <= m
    BY <1>1, <1>2, <1>3
  <2> QED
    BY <1>1, <1>3, <2>1
<1>5. Max(S) \in S /\ \A x \in S : x <= Max(S)
  BY <1>4, MaxIs
<1>6. PICK n : n = Max(S)
  OBVIOUS
<1>7. n \in Nat /\ n <= 10000
  BY <1>1, <1>3, <1>5, <1>6
<1>8. n = Norm(matched)
  BY <1>3, <1>6 DEF Norm, Strengths
<1>9. \A s \in matched : Strength(s) <= n
  BY <1>3, <1>5, <1>6 DEF Strengths
<1>10. \E s \in matched : n = Strength(s)
  BY <1>3, <1>5, <1>6 DEF Strengths
<1> QED
  BY <1>7, <1>8, <1>9, <1>10

LEMMA Weights ==
  ASSUME NEW c \in DOMAIN COMPONENTS
  PROVE  COMPONENTS[c].weight \in {15, 20, 25}
  BY DEF COMPONENTS

LEMMA ComponentNames ==
  DOMAIN COMPONENTS = {"usage_trajectory", "support_friction", "commercial_engagement",
                       "billing_health", "sentiment_trend"}
  BY DEF COMPONENTS

\* What a component contributes, when no signal is stronger than bound.
LEMMA ContributionIs ==
  ASSUME NEW c \in DOMAIN COMPONENTS, NEW signals, signals \subseteq SignalRow,
         NEW bound \in Nat, \A s \in signals : Strength(s) <= bound
  PROVE  /\ Contribution(c, signals) \in Nat
         /\ Contribution(c, signals) <= COMPONENTS[c].weight * bound
         /\ Matched(c, signals) = {} => Contribution(c, signals) = 0
<1>1. PICK w \in {15, 20, 25} : w = COMPONENTS[c].weight
  BY Weights
<1>2. PICK matched : matched = Matched(c, signals)
  OBVIOUS
<1>3. CASE matched = {}
  <2>1. Contribution(c, signals) = 0
    BY <1>2, <1>3 DEF Contribution, Matched
  <2>2. 0 <= w * bound
    BY <1>1
  <2> QED
    BY <1>1, <2>1, <2>2
<1>4. CASE matched # {}
  <2>1. AreSignals(matched) /\ matched \subseteq signals
    BY <1>2, <1>4 DEF Matched, AreSignals
  <2>2. PICK n \in Nat : n = Norm(matched) /\ n <= bound
    <3>1. Norm(matched) \in Nat /\ \E s \in matched : Norm(matched) = Strength(s)
      BY <2>1, NormIs
    <3> QED
      BY <2>1, <3>1
  <2>3. Contribution(c, signals) = w * n
    BY <1>1, <1>2, <1>4, <2>2 DEF Contribution, Matched
  <2>4. w * n \in Nat /\ w * n <= w * bound
    BY <1>1, <2>2
  <2> QED
    BY <1>1, <1>2, <1>4, <2>3, <2>4
<1> QED
  BY <1>3, <1>4

\* A component's contribution grows with its strongest signal.
LEMMA ContributionGrows ==
  ASSUME NEW c \in DOMAIN COMPONENTS, NEW S, S \subseteq SignalRow, NEW T, T \subseteq SignalRow,
         \A s \in S : \E t \in T : t.key = s.key /\ Strength(t) >= Strength(s)
  PROVE  Contribution(c, S) <= Contribution(c, T)
<1>1. PICK w \in {15, 20, 25} : w = COMPONENTS[c].weight
  BY Weights
<1>2. PICK A, B : A = Matched(c, S) /\ B = Matched(c, T)
  OBVIOUS
<1>3. CASE A = {}
  <2>1. Contribution(c, S) = 0
    BY <1>2, <1>3 DEF Contribution, Matched
  <2>2. Contribution(c, T) \in Nat
    <3>1. 10000 \in Nat /\ \A s \in T : Strength(s) <= 10000
      BY StrengthIs
    <3> QED
      BY <3>1, ContributionIs
  <2> QED
    BY <2>1, <2>2
<1>4. CASE A # {}
  <2>1. AreSignals(A) /\ A \subseteq S /\ B \subseteq T
    BY <1>2, <1>4 DEF Matched, AreSignals
  <2>2. PICK n \in Nat : n = Norm(A) /\ \E s \in A : n = Strength(s)
    BY <2>1, NormIs
  <2>3. PICK s \in A : n = Strength(s)
    BY <2>2
  <2>4. PICK t \in B : Strength(t) >= Strength(s)
    <3>1. PICK t \in T : t.key = s.key /\ Strength(t) >= Strength(s)
      BY <2>1, <2>3
    <3> QED
      BY <1>2, <2>3, <3>1 DEF Matched
  <2>5. PICK m \in Nat : m = Norm(B) /\ Strength(t) <= m
    <3>1. AreSignals(B)
      BY <2>1, <2>4 DEF AreSignals
    <3> QED
      BY <2>4, <3>1, NormIs
  <2>6. n <= m
    <3>1. s \in SignalRow /\ t \in SignalRow
      BY <2>1, <2>3, <2>4
    <3>2. Strength(s) \in Nat /\ Strength(t) \in Nat
      BY <3>1, StrengthIs
    <3> QED
      BY <2>3, <2>4, <2>5, <3>2
  <2>7. Contribution(c, S) = w * n
    BY <1>1, <1>2, <1>4, <2>2 DEF Contribution, Matched
  <2>8. Contribution(c, T) = w * m
    <3>1. B # {}
      BY <2>4
    <3> QED
      BY <1>1, <1>2, <2>5, <3>1 DEF Contribution, Matched
  <2> QED
    BY <1>1, <2>6, <2>7, <2>8
<1> QED
  BY <1>3, <1>4

\* The covered weight and the total, component by component.
Total(signals) == OverCovered([c \in DOMAIN COMPONENTS |-> Contribution(c, signals)])

\* f at c, where c is covered.
At(f, c) == IF c \in Covered THEN f[c] ELSE 0

LEMMA OverCoveredIs ==
  ASSUME NEW f
  PROVE  OverCovered(f) = At(f, "usage_trajectory") + At(f, "support_friction")
                            + At(f, "commercial_engagement") + At(f, "billing_health")
                            + At(f, "sentiment_trend")
  BY DEF OverCovered, At

\* A sum grows with its terms, ...
LEMMA OverCoveredGrows ==
  ASSUME NEW f, NEW g, \A c \in DOMAIN COMPONENTS : f[c] \in Nat /\ g[c] \in Nat /\ f[c] <= g[c]
  PROVE  /\ OverCovered(f) \in Nat /\ OverCovered(g) \in Nat
         /\ OverCovered(f) <= OverCovered(g)
<1>1. \A c \in DOMAIN COMPONENTS : At(f, c) \in Nat /\ At(g, c) \in Nat /\ At(f, c) <= At(g, c)
  BY DEF At
<1> QED
  BY <1>1, OverCoveredIs, ComponentNames

\* ... is multiplied with them, ...
LEMMA OverCoveredTimes ==
  ASSUME NEW f, NEW g, NEW n \in Nat, \A c \in DOMAIN COMPONENTS : f[c] \in Nat /\ g[c] = f[c] * n
  PROVE  OverCovered(g) = OverCovered(f) * n
<1>1. \A c \in DOMAIN COMPONENTS : At(f, c) \in Nat /\ At(g, c) = At(f, c) * n
  BY DEF At
<1>2. PICK u, s, c, b, t \in Nat :
        /\ u = At(f, "usage_trajectory") /\ s = At(f, "support_friction")
        /\ c = At(f, "commercial_engagement") /\ b = At(f, "billing_health")
        /\ t = At(f, "sentiment_trend")
  BY <1>1, ComponentNames
<1>3. OverCovered(f) = u + s + c + b + t
  BY <1>2, OverCoveredIs
<1>4. OverCovered(g) = u * n + s * n + c * n + b * n + t * n
  BY <1>1, <1>2, OverCoveredIs, ComponentNames
<1>5. (u + s + c + b + t) * n = u * n + s * n + c * n + b * n + t * n
  OBVIOUS
<1> QED
  BY <1>3, <1>4, <1>5

\* ... and is a term when the others are zero.
LEMMA OverCoveredOne ==
  ASSUME NEW f, NEW d, NEW n \in Nat, \A c \in DOMAIN COMPONENTS : f[c] \in Nat /\ f[c] <= n,
         \A c \in DOMAIN COMPONENTS : c # d => f[c] = 0
  PROVE  OverCovered(f) <= n
<1>1. \A c \in DOMAIN COMPONENTS :
        At(f, c) \in Nat /\ At(f, c) <= n /\ (c # d => At(f, c) = 0)
  BY DEF At
<1>2. PICK u, s, c, b, t \in Nat :
        /\ u = At(f, "usage_trajectory") /\ s = At(f, "support_friction")
        /\ c = At(f, "commercial_engagement") /\ b = At(f, "billing_health")
        /\ t = At(f, "sentiment_trend")
  BY <1>1, ComponentNames
<1>3. /\ u <= n /\ s <= n /\ c <= n /\ b <= n /\ t <= n
      /\ d # "usage_trajectory" => u = 0
      /\ d # "support_friction" => s = 0
      /\ d # "commercial_engagement" => c = 0
      /\ d # "billing_health" => b = 0
      /\ d # "sentiment_trend" => t = 0
  BY <1>1, <1>2, ComponentNames
<1>4. u + s + c + b + t <= n
  BY <1>3
<1> QED
  BY <1>2, <1>4, OverCoveredIs

LEMMA CoveredWeightIs == CoveredWeight \in Nat /\ CoveredWeight > 0
<1> DEFINE f == [c \in DOMAIN COMPONENTS |-> COMPONENTS[c].weight]
<1>1. \A c \in DOMAIN COMPONENTS : f[c] \in Nat /\ f[c] > 0
  BY Weights
<1>2. "commercial_engagement" \in Covered
  BY DEF Covered
<1>3. CoveredWeight = OverCovered(f)
  BY DEF CoveredWeight
<1> HIDE DEF f
<1>4. \A c \in DOMAIN COMPONENTS : At(f, c) \in Nat
  BY <1>1 DEF At
<1>5. At(f, "commercial_engagement") > 0
  BY <1>1, <1>2, ComponentNames DEF At
<1> QED
  BY <1>3, <1>4, <1>5, OverCoveredIs, ComponentNames

LEMMA ScoreIs ==
  ASSUME NEW signals
  PROVE  Score(signals) = IF CoveredWeight < 60 THEN -1
                          ELSE (2 * Total(Counted(signals)) + CoveredWeight)
                                 \div (2 * CoveredWeight)
  BY DEF Score, TooThin, MIN_WEIGHT_COVERAGE, NoScore, Total

LEMMA TotalGrows ==
  ASSUME NEW S, S \subseteq SignalRow, NEW T, T \subseteq SignalRow,
         \A s \in S : \E t \in T : t.key = s.key /\ Strength(t) >= Strength(s)
  PROVE  Total(S) \in Nat /\ Total(T) \in Nat /\ Total(S) <= Total(T)
<1>1. PICK f, g : /\ f = [c \in DOMAIN COMPONENTS |-> Contribution(c, S)]
                  /\ g = [c \in DOMAIN COMPONENTS |-> Contribution(c, T)]
  OBVIOUS
<1>2. PICK bound \in Nat : \A s \in SignalRow : Strength(s) <= bound
  BY StrengthIs
<1>3. \A c \in DOMAIN COMPONENTS : Contribution(c, S) \in Nat /\ Contribution(c, T) \in Nat
  BY <1>2, ContributionIs
<1>4. \A c \in DOMAIN COMPONENTS : Contribution(c, S) <= Contribution(c, T)
  BY ContributionGrows
<1>5. \A c \in DOMAIN COMPONENTS : f[c] \in Nat /\ g[c] \in Nat /\ f[c] <= g[c]
  BY <1>1, <1>3, <1>4
<1>6. Total(S) = OverCovered(f) /\ Total(T) = OverCovered(g)
  BY <1>1 DEF Total
<1> QED
  BY <1>5, <1>6, OverCoveredGrows

\* The score never falls as the signals that count get stronger.
LEMMA ScoreGrows ==
  ASSUME NEW S, S \subseteq SignalRow, NEW T, T \subseteq SignalRow,
         \A s \in Counted(S) : \E t \in Counted(T) : t.key = s.key /\ Strength(t) >= Strength(s)
  PROVE  Score(T) >= Score(S)
<1>1. Counted(S) \subseteq SignalRow /\ Counted(T) \subseteq SignalRow
  BY DEF Counted
<1>2. PICK x \in Nat, y \in Nat : x = Total(Counted(S)) /\ y = Total(Counted(T)) /\ x <= y
  BY <1>1, TotalGrows
<1>3. PICK w \in Nat : w = CoveredWeight /\ w > 0
  BY CoveredWeightIs
<1>4. (2 * x + w) \div (2 * w) <= (2 * y + w) \div (2 * w)
  <2>1. PICK a, b, d \in Nat : a = 2 * x + w /\ b = 2 * y + w /\ d = 2 * w /\ a <= b /\ d > 0
    BY <1>2, <1>3
  <2> QED
    BY <2>1, DivisionGrows
<1>5. (2 * x + w) \div (2 * w) \in Int /\ (2 * y + w) \div (2 * w) \in Int
  BY <1>3
<1> QED
  BY <1>2, <1>3, <1>4, <1>5, ScoreIs

\* A score is below a bound when its total is below that many times the weight.
LEMMA ScoreBelow ==
  ASSUME NEW signals, signals \subseteq SignalRow, NEW n \in Nat, n > 0,
         2 * Total(Counted(signals)) + CoveredWeight < 2 * CoveredWeight * n
            \/ CoveredWeight < 60
  PROVE  Score(signals) < n
<1>1. Counted(signals) \subseteq SignalRow
  BY DEF Counted
<1>2. PICK x \in Nat : x = Total(Counted(signals))
  <2>1. \A s \in Counted(signals) :
          \E t \in Counted(signals) : t.key = s.key /\ Strength(t) >= Strength(s)
    BY <1>1, StrengthIs
  <2> QED
    BY <1>1, <2>1, TotalGrows
<1>3. PICK w \in Nat : w = CoveredWeight /\ w > 0
  BY CoveredWeightIs
<1>4. CASE w < 60
  BY <1>3, <1>4, ScoreIs
<1>5. CASE ~(w < 60)
  <2>1. PICK a, d \in Nat : a = 2 * x + w /\ d = 2 * w /\ d > 0 /\ a < d * n
    BY <1>2, <1>3, <1>5
  <2>2. PICK q \in Nat : q = a \div d /\ d * q <= a
    BY <2>1, DivisionIs
  <2>3. q < n
    <3> SUFFICES ASSUME n <= q PROVE FALSE
      OBVIOUS
    <3>1. d * n <= d * q
      BY <2>1
    <3>2. d * n \in Nat /\ d * q \in Nat
      BY <2>1
    <3> QED
      BY <2>1, <2>2, <3>1, <3>2
  <2>4. Score(signals) = q
    BY <1>2, <1>3, <1>5, <2>1, <2>2, ScoreIs
  <2> QED
    BY <2>3, <2>4
<1> QED
  BY <1>4, <1>5

\* The total is at most the weight covered times the strongest signal.
LEMMA TotalBelow ==
  ASSUME NEW S, S \subseteq SignalRow, NEW n \in Nat, \A s \in S : Strength(s) <= n
  PROVE  Total(S) \in Nat /\ Total(S) <= CoveredWeight * n
<1>1. PICK f, g, h : /\ f = [c \in DOMAIN COMPONENTS |-> Contribution(c, S)]
                     /\ g = [c \in DOMAIN COMPONENTS |-> COMPONENTS[c].weight * n]
                     /\ h = [c \in DOMAIN COMPONENTS |-> COMPONENTS[c].weight]
  OBVIOUS
<1>2. \A c \in DOMAIN COMPONENTS :
        Contribution(c, S) \in Nat /\ Contribution(c, S) <= COMPONENTS[c].weight * n
  BY ContributionIs
<1>3. \A c \in DOMAIN COMPONENTS : h[c] \in Nat /\ g[c] = h[c] * n /\ g[c] \in Nat
  BY <1>1, Weights
<1>4. \A c \in DOMAIN COMPONENTS : f[c] \in Nat /\ g[c] \in Nat /\ f[c] <= g[c]
  BY <1>1, <1>2, <1>3
<1>5. OverCovered(f) \in Nat /\ OverCovered(f) <= OverCovered(g)
  BY <1>4, OverCoveredGrows
<1>6. OverCovered(g) = OverCovered(h) * n
  BY <1>3, OverCoveredTimes
<1>7. Total(S) = OverCovered(f) /\ CoveredWeight = OverCovered(h)
  BY <1>1 DEF Total, CoveredWeight
<1> QED
  BY <1>5, <1>6, <1>7

\* Signals of medium severity are no risk, however many they are.
LEMMA MediumIsCalm ==
  ASSUME NEW signals, signals \subseteq SignalRow,
         \A s \in Counted(signals) : SeverityRank[s.severity] < 4
  PROVE  Score(signals) < RISK_INSIGHT_THRESHOLD
<1>1. PICK S : S = Counted(signals)
  OBVIOUS
<1>2. S \subseteq SignalRow
  BY <1>1 DEF Counted
<1>3. PICK n \in Nat : n = 5000
  OBVIOUS
<1>4. \A s \in S : Strength(s) <= n
  BY <1>1, <1>2, <1>3, StrengthIs
<1>5. PICK x \in Nat, w \in Nat : x = Total(S) /\ w = CoveredWeight /\ w > 0 /\ x <= w * n
  BY <1>2, <1>4, TotalBelow, CoveredWeightIs
<1>6. PICK k \in Nat : k = 6000
  OBVIOUS
<1>7. 2 * x + w < 2 * w * k
  BY <1>3, <1>5, <1>6
<1>8. Score(signals) < k
  BY <1>1, <1>5, <1>6, <1>7, ScoreBelow
<1> QED
  BY <1>6, <1>8 DEF RISK_INSIGHT_THRESHOLD

\* A score is between 0 and 100, in hundredths, or missing.
LEMMA ScoreRange ==
  ASSUME NEW signals, signals \subseteq SignalRow
  PROVE  Score(signals) \in {NoScore} \cup 0..10000
<1>1. PICK S : S = Counted(signals) /\ S \subseteq SignalRow
  BY DEF Counted
<1>2. PICK n \in Nat : n = 10000
  OBVIOUS
<1>3. \A s \in S : Strength(s) <= n
  BY <1>1, <1>2, StrengthIs
<1>4. PICK x \in Nat, w \in Nat : x = Total(S) /\ w = CoveredWeight /\ w > 0 /\ x <= w * n
  BY <1>1, <1>3, TotalBelow, CoveredWeightIs
<1>5. CASE w < 60
  BY <1>4, <1>5, ScoreIs DEF NoScore
<1>6. CASE ~(w < 60)
  <2>1. PICK a \in Nat, d \in Nat : a = 2 * x + w /\ d = 2 * w /\ d > 0
    BY <1>4
  <2>2. Score(signals) = a \div d
    BY <1>1, <1>4, <1>6, <2>1, ScoreIs
  <2>3. Score(signals) \in Nat
    BY <2>1, <2>2, DivisionIs
  <2>4. PICK k \in Nat : k = n + 1
    OBVIOUS
  <2>5. 2 * x + w < 2 * w * k
    <3>1. w * k = w * n + w
      BY <2>4
    <3>2. PICK m \in Nat : m = w * n
      OBVIOUS
    <3> QED
      BY <1>4, <3>1, <3>2
  <2>6. Score(signals) < k
    BY <1>1, <1>4, <2>4, <2>5, ScoreBelow
  <2>7. PICK q \in Nat : q = Score(signals)
    BY <2>3
  <2>8. q \in 0..n
    BY <2>4, <2>6, <2>7
  <2> QED
    BY <1>2, <2>7, <2>8
<1> QED
  BY <1>5, <1>6

\* The component a signal belongs to.
LEMMA KeysApart ==
  ASSUME NEW c \in DOMAIN COMPONENTS, NEW d \in DOMAIN COMPONENTS, NEW key,
         key \in COMPONENTS[c].types, key \in COMPONENTS[d].types
  PROVE  c = d
  BY DEF COMPONENTS

\* One signal that counts is no risk either.
LEMMA OneIsCalm ==
  ASSUME NEW signals, signals \subseteq SignalRow, NEW r, Counted(signals) \subseteq {r}
  PROVE  Score(signals) < RISK_INSIGHT_THRESHOLD
<1>1. PICK S : S = Counted(signals)
  OBVIOUS
<1>2. S \subseteq SignalRow /\ S \subseteq {r}
  BY <1>1 DEF Counted
<1>3. PICK n \in Nat : n = 10000
  OBVIOUS
<1>4. \A s \in S : Strength(s) <= n
  BY <1>2, <1>3, StrengthIs
<1>5. PICK f : f = [c \in DOMAIN COMPONENTS |-> Contribution(c, S)]
  OBVIOUS
<1>6. PICK m \in Nat : m = 250000
  OBVIOUS
<1>7. \A c \in DOMAIN COMPONENTS : f[c] \in Nat /\ f[c] <= m
  <2> SUFFICES ASSUME NEW c \in DOMAIN COMPONENTS PROVE f[c] \in Nat /\ f[c] <= m
    OBVIOUS
  <2>1. PICK w \in {15, 20, 25} : w = COMPONENTS[c].weight
    BY Weights
  <2>2. Contribution(c, S) \in Nat /\ Contribution(c, S) <= w * n
    BY <1>2, <1>4, <2>1, ContributionIs
  <2>3. w * n <= m
    BY <1>3, <1>6
  <2> QED
    BY <1>5, <2>2, <2>3
<1>8. PICK d : \A c \in DOMAIN COMPONENTS : c # d => f[c] = 0
  <2>1. \A c \in DOMAIN COMPONENTS : r.key \notin COMPONENTS[c].types => f[c] = 0
    <3> SUFFICES ASSUME NEW c \in DOMAIN COMPONENTS, r.key \notin COMPONENTS[c].types
                 PROVE  f[c] = 0
      OBVIOUS
    <3>1. Matched(c, S) = {}
      BY <1>2 DEF Matched
    <3>2. Contribution(c, S) = 0
      BY <1>2, <1>4, <3>1, ContributionIs
    <3> QED
      BY <1>5, <3>2
  <2>2. PICK d : \A c \in DOMAIN COMPONENTS : r.key \in COMPONENTS[c].types => c = d
    BY KeysApart
  <2> QED
    BY <2>1, <2>2
<1>9. Total(S) = OverCovered(f)
  BY <1>5 DEF Total
<1>10. PICK x \in Nat : x = Total(S)
  <2>1. \A c \in DOMAIN COMPONENTS : f[c] \in Nat /\ f[c] <= f[c]
    BY <1>7
  <2> QED
    BY <1>9, <2>1, OverCoveredGrows
<1>11. x <= m
  BY <1>7, <1>8, <1>9, <1>10, OverCoveredOne
<1>12. PICK w \in Nat : w = CoveredWeight /\ w > 0
  BY CoveredWeightIs
<1>13. PICK k \in Nat : k = 6000
  OBVIOUS
<1>14. 2 * x + w < 2 * w * k \/ w < 60
  BY <1>6, <1>11, <1>13
<1>15. Score(signals) < k
  BY <1>1, <1>10, <1>12, <1>13, <1>14, ScoreBelow
<1> QED
  BY <1>13, <1>15 DEF RISK_INSIGHT_THRESHOLD

\* The facts of an account are of their types, and the score that follows from
\* them is a percentage or missing.
THEOREM ScoreTypes == Spec => []TypeOK
<1>1. FactsOK => TypeOK
  <2> SUFFICES ASSUME FactsOK PROVE TypeOK
    OBVIOUS
  <2>1. Score(Active) \in {NoScore} \cup 0..10000
    BY ActiveAre, ScoreRange
  <2> QED
    BY <2>1 DEF TypeOK, FactsOK, Days, Ages, Usages, Sentiments
<1> QED
  BY <1>1, FactsInvariant, PTL

-----------------------------------------------------------------------------
(* What an insight rests on.                                               *)

LEMMA RiskyRestsOn ==
  ASSUME FactsOK, Score(Active) >= RISK_INSIGHT_THRESHOLD
  PROVE  /\ \E s \in Vetted : SeverityRank[s.severity] >= 4
         /\ \E s, t \in Vetted : s # t
         /\ \E s \in Vetted : s \in Detected
<1>1. Score(Active) \in Int
  <2>1. PICK w \in Nat : w = CoveredWeight /\ w > 0
    BY CoveredWeightIs
  <2>2. PICK x \in Nat : x = Total(Counted(Active))
    <3>1. Counted(Active) \subseteq SignalRow
      BY ActiveAre DEF Counted
    <3>2. \A s \in Counted(Active) :
            \E t \in Counted(Active) : t.key = s.key /\ Strength(t) >= Strength(s)
      BY <3>1, StrengthIs
    <3> QED
      BY <3>1, <3>2, TotalGrows
  <2> QED
    BY <2>1, <2>2, ScoreIs
<1>2. ~(Score(Active) < RISK_INSIGHT_THRESHOLD)
  BY <1>1 DEF RISK_INSIGHT_THRESHOLD
<1>3. Active \subseteq SignalRow /\ Counted(Active) = Vetted /\ Vetted \subseteq Active
  BY ActiveAre, VettedCounts
<1>4. \E s \in Vetted : SeverityRank[s.severity] >= 4
  <2>1. PICK s \in Vetted : ~(SeverityRank[s.severity] < 4)
    BY <1>2, <1>3, MediumIsCalm
  <2>2. SeverityRank[s.severity] \in 1..5
    BY <1>3, <2>1, StrengthIs
  <2> QED
    BY <2>1, <2>2
<1>5. \E s, t \in Vetted : s # t
  <2> SUFFICES ASSUME \A s, t \in Vetted : s = t PROVE FALSE
    OBVIOUS
  <2>1. PICK r : Vetted \subseteq {r}
    OBVIOUS
  <2> QED
    BY <1>2, <1>3, <2>1, OneIsCalm
<1>6. \E s \in Vetted : s \in Detected
  BY <1>3, <1>5, ActiveAre DEF SignalRow
<1> QED
  BY <1>4, <1>5, <1>6

\* No single signal is enough for an insight, however few domains have data
\* and so however much its component weighs.
THEOREM TwoSignals == Spec => []InsightRestsOnTwo
<1>1. FactsOK => InsightRestsOnTwo
  <2> SUFFICES ASSUME FactsOK, Composes(Active) PROVE Cardinality(Vetted) >= 2
    BY DEF InsightRestsOnTwo
  <2>1. PICK s, t \in Vetted : s # t
    BY RiskyRestsOn DEF Composes
  <2>2. IsFiniteSet(Vetted)
    BY ActiveAre, VettedCounts, FS_Subset
  <2>3. {s, t} \subseteq Vetted /\ Cardinality({s, t}) = 2
    <3>1. IsFiniteSet({s}) /\ Cardinality({s}) = 1
      BY FS_Singleton
    <3>2. {s, t} = {s} \cup {t} /\ t \notin {s}
      BY <2>1
    <3> QED
      BY <3>1, <3>2, FS_AddElement
  <2>4. Cardinality({s, t}) <= Cardinality(Vetted)
    BY <2>2, <2>3, FS_Subset
  <2>5. Cardinality(Vetted) \in Nat
    BY <2>2, FS_CardinalityType
  <2> QED
    BY <2>3, <2>4, <2>5
<1> QED
  BY <1>1, FactsInvariant, PTL

\* Where each of a set of ranks is reached by one of a part, the greatest is
\* the same.
LEMMA SameMax ==
  ASSUME NEW m \in Nat, NEW A, A \subseteq 0..m, NEW V, V \subseteq A, V # {},
         \A x \in A : \E y \in V : x <= y
  PROVE  Max(A) = Max(V)
<1>1. A # {} /\ V \subseteq 0..m
  OBVIOUS
<1>2. PICK p, q : p = Max(A) /\ q = Max(V)
  OBVIOUS
<1>3. p \in A /\ \A x \in A : x <= p
  BY <1>1, <1>2, MaxIs
<1>4. q \in V /\ \A x \in V : x <= q
  BY <1>1, <1>2, MaxIs
<1>5. PICK y \in V : p <= y
  BY <1>3
<1>6. p \in Nat /\ q \in Nat /\ y \in Nat
  BY <1>1, <1>3, <1>4, <1>5
<1>7. y <= q /\ q <= p
  BY <1>3, <1>4, <1>5
<1> QED
  BY <1>2, <1>5, <1>6, <1>7

\* An LLM signal nobody confirmed neither makes nor unmakes an insight, nor
\* sets its severity, its confidence or the signal its title quotes.
THEOREM UnvettedIsSilent == Spec => []UnvettedChangesNothing
<1>1. ASSUME FactsOK PROVE UnvettedChangesNothing
  <2>1. /\ Vetted \subseteq Active /\ Vetted = Counted(Active) /\ Counted(Vetted) = Vetted
        /\ \A s \in Active \ Vetted : s \in Voiced
        /\ Active \subseteq SignalRow
    BY <1>1, VettedCounts, ActiveAre
  <2>2. Score(Vetted) = Score(Active)
    BY <2>1, ScoreIs
  <2>3. Score(Active) >= RISK_INSIGHT_THRESHOLD => Vetted # {} /\ Active # {}
    BY <1>1, <2>1, RiskyRestsOn
  <2>4. Composes(Active) = Composes(Vetted)
    BY <2>2, <2>3 DEF Composes
  <2> SUFFICES ASSUME Composes(Active)
               PROVE  /\ TopSeverity(Active) = TopSeverity(Vetted)
                      /\ TopConfidence(Active) = TopConfidence(Vetted)
                      /\ Leaders(Active) \subseteq Vetted
    BY <2>4 DEF UnvettedChangesNothing
  <2>5. PICK high \in Vetted : SeverityRank[high.severity] >= 4
    BY <1>1, RiskyRestsOn DEF Composes
  <2>6. PICK found \in Vetted : found \in Detected
    BY <1>1, RiskyRestsOn DEF Composes
  <2>7. \A s \in Voiced : SeverityRank[s.severity] \in {3, 4} /\ s.confidence = 70
    BY DEF Voiced, SeverityRank
  <2>8. SeverityRank[found.severity] \in {3, 4, 5} /\ found.confidence \in {94, 100}
    BY <2>6 DEF Detected, SeverityRank
  <2>9. \A s \in SignalRow : SeverityRank[s.severity] \in 0..100 /\ s.confidence \in 0..100
    BY StrengthIs
  <2>10. TopSeverity(Active) = TopSeverity(Vetted)
    <3>1. PICK A, V : /\ A = {SeverityRank[s.severity] : s \in Active}
                      /\ V = {SeverityRank[s.severity] : s \in Vetted}
      OBVIOUS
    <3>2. A \subseteq 0..100 /\ V \subseteq A /\ V # {}
      BY <2>1, <2>5, <2>9, <3>1
    <3>3. ASSUME NEW s \in Active
          PROVE  \E t \in Vetted : SeverityRank[s.severity] <= SeverityRank[t.severity]
      <4>1. CASE s \in Vetted
        BY <2>1, <2>9, <4>1
      <4>2. CASE s \notin Vetted
        <5>1. SeverityRank[s.severity] \in {3, 4} /\ SeverityRank[high.severity] \in 0..100
          BY <2>1, <2>7, <2>9, <4>2
        <5> QED
          BY <2>5, <5>1
      <4> QED
        BY <4>1, <4>2
    <3>4. \A x \in A : \E y \in V : x <= y
      BY <3>1, <3>3
    <3>5. PICK m \in Nat : A \subseteq 0..m
      BY <3>2
    <3>6. Max(A) = Max(V)
      BY <3>2, <3>4, <3>5, SameMax
    <3> QED
      BY <3>1, <3>6 DEF TopSeverity
  <2>11. TopConfidence(Active) = TopConfidence(Vetted)
    <3>1. PICK A, V : /\ A = {s.confidence : s \in Active}
                      /\ V = {s.confidence : s \in Vetted}
      OBVIOUS
    <3>2. A \subseteq 0..100 /\ V \subseteq A /\ V # {}
      BY <2>1, <2>5, <2>9, <3>1
    <3>3. ASSUME NEW s \in Active
          PROVE  \E t \in Vetted : s.confidence <= t.confidence
      <4>1. CASE s \in Vetted
        BY <2>1, <2>9, <4>1
      <4>2. CASE s \notin Vetted
        BY <2>1, <2>7, <2>8, <4>2
      <4> QED
        BY <4>1, <4>2
    <3>4. \A x \in A : \E y \in V : x <= y
      BY <3>1, <3>3
    <3>5. PICK m \in Nat : A \subseteq 0..m
      BY <3>2
    <3>6. Max(A) = Max(V)
      BY <3>2, <3>4, <3>5, SameMax
    <3> QED
      BY <3>1, <3>6 DEF TopConfidence
  <2>12. Leaders(Active) \subseteq Vetted
    <3> SUFFICES ASSUME NEW s \in Leaders(Active), s \notin Vetted PROVE FALSE
      OBVIOUS
    <3>1. s \in Active /\ found.confidence * SeverityRank[found.severity]
                            <= s.confidence * SeverityRank[s.severity]
      BY <2>1, <2>6 DEF Leaders
    <3>2. s.confidence = 70 /\ SeverityRank[s.severity] \in {3, 4}
      BY <2>1, <2>7, <3>1
    <3>3. PICK a \in {94, 100}, b \in {3, 4, 5}, c \in {3, 4} :
            a * b <= 70 * c
      BY <2>8, <3>1, <3>2
    <3> QED
      BY <3>3
  <2> QED
    BY <2>10, <2>11, <2>12
<1> QED
  BY <1>1, FactsInvariant, PTL

-----------------------------------------------------------------------------
(* How the score moves.                                                    *)

\* The score of the signals T there are after a step that leaves the domains
\* as they are.
LEMMA ScoreAfter ==
  ASSUME domains' = domains, NEW T, T = Active'
  PROVE  Score(Active)' = Score(T) /\ Counted(Active)' = Counted(T)
<1>1. Covered' = Covered
  BY DEF Covered
<1>2. Counted(Active)' = Counted(T)
  BY DEF Counted
<1> QED
  BY <1>1, <1>2 DEF Score, TooThin, CoveredWeight, OverCovered, Contribution, Norm, Strength

LEMMA ScoreDoesNotFall ==
  ASSUME FactsOK, FactsOK', domains' = domains,
         \A s \in Counted(Active) : \E t \in Counted(Active)' :
           t.key = s.key /\ Strength(t) >= Strength(s)
  PROVE  Score(Active)' >= Score(Active)
<1>1. PICK S, T : S = Active /\ T = Active'
  OBVIOUS
<1>2. S \subseteq SignalRow
  BY <1>1, ActiveAre
<1>3. T \subseteq SignalRow
  <2>1. Active' \subseteq SignalRow
    <3>1. (FactsOK => Active \subseteq SignalRow)'
      BY ActiveAre, PTL
    <3> QED
      BY <3>1
  <2> QED
    BY <1>1, <2>1
<1>4. Score(Active)' = Score(T) /\ Counted(Active)' = Counted(T)
  BY <1>1, ScoreAfter
<1>5. \A s \in Counted(S) : \E t \in Counted(T) : t.key = s.key /\ Strength(t) >= Strength(s)
  BY <1>1, <1>4
<1> QED
  BY <1>1, <1>2, <1>3, <1>4, <1>5, ScoreGrows

\* The score never falls while every signal that counts goes on counting, at
\* least as strong, whatever is detected or confirmed besides.
THEOREM ProblemsAdd == Spec => ProblemsNeverCalm
<1>1. FactsOK /\ FactsOK' /\ [Next]_vars =>
        [/\ domains' = domains
         /\ \A s \in Counted(Active) : \E t \in Counted(Active)' :
              t.key = s.key /\ Strength(t) >= Strength(s)
         => Score(Active)' >= Score(Active)]_vars
  BY ScoreDoesNotFall
<1> QED
  BY <1>1, FactsInvariant, PTL DEF Spec, ProblemsNeverCalm

\* As a day passes a detected signal stays, at least as severe.
LEMMA DayKeepsDetected ==
  ASSUME FactsOK, DayPasses, renewal' = None \/ renewal' >= NoticeDays,
         usage'.age = None \/ usage'.age <= FreshDays, NEW s \in Active, s \in Detected
  PROVE  \E t \in Active' : t.key = s.key /\ t.review = s.review /\ Strength(t) >= Strength(s)
<1>1. /\ renewal' = IF renewal = None THEN None ELSE renewal - 1
      /\ overdue' = Older(overdue, HighDays) /\ ticket' = Older(ticket, SlaDays)
      /\ usage' = [usage EXCEPT !.age = Older(usage.age, FreshDays)]
      /\ terms' = terms /\ plan' = plan
  BY DEF DayPasses
<1>2. s \notin NegativeSentiment
  BY DEF NegativeSentiment, Signal, Detected
<1>3. CASE s \in RenewalNoPlan
  <2>1. renewal \in 0..WindowDays /\ ~plan
    BY <1>3 DEF RenewalNoPlan
  <2>2. renewal' \in 0..WindowDays /\ ~plan'
    BY <1>1, <2>1, DaysAssumption DEF None
  <2>3. s \in RenewalNoPlan'
    BY <1>1, <1>3, <2>1, <2>2 DEF RenewalNoPlan, Detection, Signal
  <2> QED
    BY <2>3, StrengthIs DEF Active, SignalRow
<1>4. CASE s \in NoticePeriodApproaching
  <2>1. renewal # None /\ renewal - NoticeDays \in 0..NoticeWindow
    BY <1>4 DEF NoticePeriodApproaching
  <2>2. renewal' # None /\ renewal' - NoticeDays \in 0..NoticeWindow
    BY <1>1, <2>1, DaysAssumption DEF None, FactsOK, Days
  <2>3. s \in NoticePeriodApproaching'
    BY <1>4, <2>1, <2>2 DEF NoticePeriodApproaching, Detection, Signal
  <2> QED
    BY <2>3, StrengthIs DEF Active, SignalRow
<1>5. CASE s \in PaymentLate
  <2>1. overdue # None /\ overdue >= MediumDays
    BY <1>5 DEF PaymentLate
  <2>2. overdue' # None /\ overdue' >= MediumDays /\ (overdue >= HighDays => overdue' >= HighDays)
    BY <1>1, <2>1, DaysAssumption DEF FactsOK, Ages, Older, None
  <2>3. s = Signal("payment_late",
                   IF overdue >= HighDays THEN "high" ELSE "medium", 100, "exempt")
    BY <1>5, <2>1 DEF PaymentLate, Detection
  <2>4. PICK t : t = Signal("payment_late", IF overdue' >= HighDays THEN "high" ELSE "medium",
                            100, "exempt")
    OBVIOUS
  <2>5. t \in PaymentLate'
    BY <2>2, <2>4 DEF PaymentLate, Detection, Signal
  <2>6. t.key = s.key /\ t.review = s.review /\ Strength(t) >= Strength(s)
    BY <2>2, <2>3, <2>4 DEF Signal, Strength, SEVERITY_NORM
  <2> QED
    BY <2>5, <2>6 DEF Active
<1>6. CASE s \in CriticalTicketUnresolved
  <2>1. ticket # None /\ ticket > SlaDays
    BY <1>6 DEF CriticalTicketUnresolved
  <2>2. ticket' = ticket
    BY <1>1, <2>1 DEF Older
  <2>3. s \in CriticalTicketUnresolved'
    BY <1>1, <1>6, <2>1, <2>2 DEF CriticalTicketUnresolved, Detection, Signal
  <2> QED
    BY <2>3, StrengthIs DEF Active, SignalRow
<1>7. CASE s \in UsageDropVsBaseline
  <2>1. UsageIsFresh /\ usage.drop >= 20 /\ usage \in Usages
    BY <1>7 DEF UsageDropVsBaseline, FactsOK
  <2>2. usage'.drop = usage.drop /\ usage'.age = Older(usage.age, FreshDays)
    BY <1>1, <2>1 DEF Usages
  <2>3. usage'.age # None
    BY <2>1, <2>2, DaysAssumption DEF UsageIsFresh, Older, None, Usages, Ages
  <2>4. UsageIsFresh'
    BY <2>2, <2>3 DEF UsageIsFresh
  <2>5. s \in UsageDropVsBaseline'
    BY <1>7, <2>1, <2>2, <2>4 DEF UsageDropVsBaseline, UsageSeverity, Detection, Signal
  <2> QED
    BY <2>5, StrengthIs DEF Active, SignalRow
<1> QED
  BY <1>2, <1>3, <1>4, <1>5, <1>6, <1>7 DEF Active

\* While the renewal is ahead and usage is reported, a day that only passes
\* never makes the account look safer.
THEOREM TimeAdds == Spec => TimeNeverCalms
<1>1. ASSUME FactsOK, FactsOK', DayPasses, renewal' = None \/ renewal' >= NoticeDays,
             usage'.age = None \/ usage'.age <= FreshDays
      PROVE  Score(Active)' >= Score(Active)
  <2>1. domains' = domains /\ sentiment' = sentiment
    BY <1>1 DEF DayPasses
  <2>2. ASSUME NEW s \in Counted(Active)
        PROVE  \E t \in Counted(Active)' : t.key = s.key /\ Strength(t) >= Strength(s)
    <3>1. s \in Active /\ s.review \in {"exempt", "confirmed"} /\ s \in SignalRow
      BY <1>1, ActiveAre DEF Counted
    <3>2. CASE s \in Detected
      <4>1. PICK t \in Active' :
              t.key = s.key /\ t.review = s.review /\ Strength(t) >= Strength(s)
        BY <1>1, <3>1, <3>2, DayKeepsDetected
      <4> QED
        BY <3>1, <4>1 DEF Counted
    <3>3. CASE s \in Voiced
      <4>1. s \in NegativeSentiment
        BY <3>1, <3>3 DEF Active, Voiced, Signal, Detection, RenewalNoPlan,
           NoticePeriodApproaching, PaymentLate, CriticalTicketUnresolved, UsageDropVsBaseline
      <4>2. s \in NegativeSentiment'
        BY <2>1, <4>1 DEF NegativeSentiment, Signal, NoSentiment
      <4>3. s \in Counted(Active)'
        BY <3>1, <4>2 DEF Counted, Active
      <4> QED
        BY <3>1, <4>3, StrengthIs
    <3> QED
      BY <3>1, <3>2, <3>3 DEF SignalRow
  <2> QED
    BY <1>1, <2>1, <2>2, ScoreDoesNotFall
<1>2. FactsOK /\ FactsOK' /\ [Next]_vars =>
        [LET ahead == renewal' = None \/ renewal' >= NoticeDays
             reported == usage'.age = None \/ usage'.age <= FreshDays
         IN DayPasses /\ ahead /\ reported => Score(Active)' >= Score(Active)]_vars
  BY <1>1
<1> QED
  BY <1>2, FactsInvariant, PTL DEF Spec, TimeNeverCalms

=============================================================================
