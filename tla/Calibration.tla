---------------------------- MODULE Calibration ----------------------------
(***************************************************************************)
(* Score calibration (rig/calibration.py): the prior, the isotonic fit by  *)
(* pool-adjacent-violators, the gate that activates a fit, and what is     *)
(* served for a score.  A fit is one READ COMMITTED transaction; outcomes  *)
(* are recorded, and other fits run, between its statements.               *)
(*                                                                         *)
(* Probabilities and Brier scores are in 1/10000, to which the code rounds *)
(* them.  A label is <<score, y>>, y = 1 when the customer did not renew.  *)
(* Labels are kept in the order that sorted() gives them.                  *)
(***************************************************************************)
EXTENDS Integers, FiniteSets, FiniteSetsExt, SequencesExt

CONSTANTS Fitter,      \* request threads
          Values,      \* scores that occur
          MinLabels,   \* MIN_LABELS
          MaxLabels,   \* bound on the labels
          MaxModels    \* bound on the models stored and being fitted

ASSUME ValuesAssumption == Values \subseteq 0..100
ASSUME LabelsAssumption == MinLabels \in Nat /\ MinLabels >= 3 /\ MaxLabels \in Nat
ASSUME ModelsAssumption == MaxModels \in Nat

VARIABLES
  labels,   \* the labels of the recorded outcomes
  models,   \* committed calibration_model rows, in the order they were inserted
  fitting   \* [Fitter -> the fit under way]

calVars == <<labels, models, fitting>>

NotFitting == [phase |-> "idle"]

-----------------------------------------------------------------------------
(* prior_probability, pav_isotonic, apply_knots, brier.                    *)

Prior(x) == 500 + 60 * x

\* A block of pooled labels: the last score, the number of labels, the sum of
\* their y.
Block(label) == [x |-> label[1], w |-> 1, sum |-> label[2]]
Merge(b, c) == [x |-> c.x, w |-> b.w + c.w, sum |-> b.sum + c.sum]

\* The mean of b is no less than that of the later block c.
Violates(b, c) == b.sum * c.w >= c.sum * b.w

\* One pass of the loop: the last two blocks are pooled if they violate.
PoolStep(blocks) ==
  LET m == Len(blocks)
  IN IF m >= 2 /\ Violates(blocks[m - 1], blocks[m])
     THEN Append(SubSeq(blocks, 1, m - 2), Merge(blocks[m - 1], blocks[m]))
     ELSE blocks

\* Mutant of Pool: the new label is pooled with one block only.
PoolOnce(blocks, label) == PoolStep(Append(blocks, Block(label)))

\* The blocks after each pass.  A pass that pools leaves one block less, so the
\* loop has ended after as many passes as there were blocks.
Passes(blocks, label) ==
  LET loop[k \in 0..Len(blocks)] ==
        IF k = 0 THEN Append(blocks, Block(label)) ELSE PoolStep(loop[k - 1])
  IN loop

\* One label more: pooled with the blocks before it as long as they violate.
Pool(blocks, label) == Passes(blocks, label)[Len(blocks)]

\* The blocks of the first n pairs.
Fits(pairs) ==
  LET fit[n \in 0..Len(pairs)] ==
        IF n = 0 THEN <<>> ELSE Pool(fit[n - 1], pairs[n])
  IN fit

Blocks(pairs) == Fits(pairs)[Len(pairs)]

\* The mean, rounded to four places.
Rounded(b) == (20000 * b.sum + b.w) \div (2 * b.w)

Isotonic(pairs) ==
  LET blocks == Blocks(pairs)
  IN [k \in DOMAIN blocks |-> [x |-> blocks[k].x, p |-> Rounded(blocks[k])]]

Reached(knots, x) == {k \in DOMAIN knots : x <= knots[k].x}

\* Mutant of ApplyKnots: a score at a knot is served the next one.
ApplyKnotsPast(knots, x) ==
  IF Reached(knots, x + 1) = {} THEN knots[Len(knots)].p
  ELSE knots[Min(Reached(knots, x + 1))].p

\* The first knot whose x is at least the score, or the last knot.
ApplyKnots(knots, x) ==
  IF Reached(knots, x) = {} THEN knots[Len(knots)].p
  ELSE knots[Min(Reached(knots, x))].p

\* The sums of the first n numbers.
Sums(numbers) ==
  LET sum[n \in 0..Len(numbers)] == IF n = 0 THEN 0 ELSE sum[n - 1] + numbers[n]
  IN sum

Square(a) == a * a

Fitted(knots) == [x \in Values |-> ApplyKnots(knots, x)]
Default == [x \in Values |-> Prior(x)]

Errors(pairs, predict) ==
  [i \in DOMAIN pairs |-> Square(predict[pairs[i][1]] - 10000 * pairs[i][2])]

\* The mean squared error of predictions predict[x], rounded to four places.
Brier(pairs, predict) ==
  LET total == Sums(Errors(pairs, predict))[Len(pairs)]
      n == Len(pairs) * 10000
  IN (2 * total + n) \div (2 * n)

-----------------------------------------------------------------------------
(* fit.                                                                    *)

Before(l, m) == l[1] < m[1] \/ (l[1] = m[1] /\ l[2] < m[2])

Only(pairs, positions) ==
  LET order == SetToSortSeq(positions, <) IN [i \in DOMAIN order |-> pairs[order[i]]]

\* int(n * 0.7), at least two.
TrainSize(n) == Max({(7 * n) \div 10, 2})

\* The curve fitted to the training part must beat the prior on the holdout.
Gate(train, holdout) ==
  Brier(holdout, Fitted(Isotonic(train))) < Brier(holdout, Default)

\* An active curve is fitted anew, to all labels; the one of a model that is not
\* active is stored for the record and nothing serves it: it is left out.
Stored(pairs, active) == IF active THEN Isotonic(pairs) ELSE <<>>

\* The seeded shuffle depends on nothing but the number of labels: it may
\* deal the sorted labels in any way.
Split(pairs) == kSubset(TrainSize(Len(pairs)), DOMAIN pairs)

CalInit ==
  /\ labels = <<>>
  /\ models = <<>>
  /\ fitting = [f \in Fitter |-> NotFitting]

\* record_outcome for an account that has a score: a label at its sorted place.
RecordLabel ==
  /\ Len(labels) < MaxLabels
  /\ \E label \in Values \X {0, 1}, k \in 1..(Len(labels) + 1) :
       /\ \A i \in 1..(k - 1) : ~Before(label, labels[i])
       /\ \A i \in k..Len(labels) : Before(label, labels[i])
       /\ labels' = InsertAt(labels, k, label)
  /\ UNCHANGED <<models, fitting>>

\* SELECT of the labels; both curves and their errors follow from it.  With
\* too few labels the request is answered and nothing is stored.
FitLabels(f) ==
  /\ fitting[f] = NotFitting
  /\ Len(labels) >= MinLabels
  /\ Len(models) + Cardinality({g \in Fitter : fitting[g] # NotFitting}) < MaxModels
  /\ \E part \in Split(labels) :
       LET train == Only(labels, part)
           active == Gate(train, Only(labels, DOMAIN labels \ part))
       IN fitting' = [fitting EXCEPT ![f] =
            [phase |-> "fitted", n |-> Len(labels), active |-> active,
             knots |-> Stored(labels, active)]]
  /\ UNCHANGED <<labels, models>>

\* SELECT COALESCE(max(version), 0) + 1.
FitVersion(f) ==
  /\ fitting[f].phase = "fitted"
  /\ fitting' = [fitting EXCEPT ![f] =
       [phase |-> "numbered", model |->
          [version |-> 1 + Max({0} \cup {models[i].version : i \in DOMAIN models}),
           n |-> fitting[f].n, active |-> fitting[f].active, knots |-> fitting[f].knots]]]
  /\ UNCHANGED <<labels, models>>

\* Mutant of Taken: versions are not unique in the table.
NeverTaken(version) == FALSE

\* UNIQUE (tenant_id, score_type, version): an insert waits for another of the
\* same version, and fails when that one commits.
Taken(version) == \E i \in DOMAIN models : models[i].version = version

\* INSERT, the audit event and the commit; or IntegrityError.
FitStore(f) ==
  /\ fitting[f].phase = "numbered"
  /\ Len(models) < MaxModels
  /\ models' = IF Taken(fitting[f].model.version) THEN models
               ELSE Append(models, fitting[f].model)
  /\ fitting' = [fitting EXCEPT ![f] = NotFitting]
  /\ UNCHANGED labels

CalNext ==
  \/ RecordLabel
  \/ \E f \in Fitter : FitLabels(f) \/ FitVersion(f) \/ FitStore(f)

CalSpec == CalInit /\ [][CalNext]_calVars

-----------------------------------------------------------------------------
(* probability_for.                                                        *)

ActiveModels == {i \in DOMAIN models : models[i].active}

\* The active model of the highest version, or the prior.
Served ==
  IF ActiveModels = {} THEN Default
  ELSE LET i == CHOOSE i \in ActiveModels :
                  \A j \in ActiveModels : models[j].version <= models[i].version
       IN Fitted(models[i].knots)

-----------------------------------------------------------------------------

Lapses(pairs) == Sums([i \in DOMAIN pairs |-> pairs[i][2]])
Ends(blocks) == Sums([k \in DOMAIN blocks |-> blocks[k].w])

\* The mean of the labels from position b to e is at most, or at least, that of
\* a block.
MeanAtMost(b, e, block) ==
  (Lapses(labels)[e] - Lapses(labels)[b - 1]) * block.w <= block.sum * (e - b + 1)
MeanAtLeast(b, e, block) ==
  (Lapses(labels)[e] - Lapses(labels)[b - 1]) * block.w >= block.sum * (e - b + 1)

\* Pooling computes the isotonic regression, by its min-max characterisation:
\* the value at a position is the least, over the ends at or after it, of the
\* greatest mean over the beginnings at or before it.  No label is lost.
FitIsIsotonic ==
  LET blocks == Blocks(labels)
      n == Len(labels)
      Positions(k) == (Ends(blocks)[k - 1] + 1)..Ends(blocks)[k]
  IN /\ Ends(blocks)[Len(blocks)] = n
     /\ \A k \in DOMAIN blocks : \A i \in Positions(k) :
          /\ \E e \in i..n : \A b \in 1..i : MeanAtMost(b, e, blocks[k])
          /\ \A e \in i..n : \E b \in 1..i : MeanAtLeast(b, e, blocks[k])

\* A riskier score is never served a lower probability, whatever was fitted
\* and activated, on whatever labels, by whatever overlapping fits.
ServedIsMonotone == \A x, z \in Values : x < z => Served[x] <= Served[z]

\* Fits that overlap never store two models under one version, nor leave a
\* gap: the newest model is the one with the highest version.
VersionsInOrder == \A i \in DOMAIN models : models[i].version = i

Untied == \A i, j \in DOMAIN labels : i # j => labels[i][1] # labels[j][1]

\* calibration.py:8: an honest default is never replaced by a worse model.
\* Where no two labels share a score, the active curve errs no more than the
\* prior on the labels it was fitted to, although the gate looked at another
\* curve and at a part of them.
NeverWorseThanPrior ==
  \A i \in DOMAIN models :
    models[i].active /\ models[i].n = Len(labels) /\ Untied =>
      Brier(labels, Fitted(models[i].knots)) <= Brier(labels, Default)

-----------------------------------------------------------------------------
(* What the comments say and the code does not do.                         *)

\* The same where labels share scores: (x, 0) sorts before (x, 1), the two stay
\* in different blocks, and the first knot, the lower one, is served for x.
NeverWorseAtAll ==
  \A i \in DOMAIN models :
    models[i].active /\ models[i].n = Len(labels) =>
      Brier(labels, Fitted(models[i].knots)) <= Brier(labels, Default)

\* A later version rests on no fewer labels than the one it replaces.
LaterKnowsMore ==
  \A i, j \in DOMAIN models : i < j => models[i].n <= models[j].n
=============================================================================
