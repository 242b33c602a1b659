----------------------------- MODULE LimitsProofs -----------------------------
(* Proofs about what limits a tenant's requests: about RateLimiter, for any    *)
(* keys, classes, limits and scale, and about LlmGateway, for any workers,     *)
(* inputs, budget and tokens of a call.                                        *)
EXTENDS LlmGateway, RateLimiter, FiniteSetTheorems, TLAPS

-----------------------------------------------------------------------------
(* Arithmetic.                                                             *)

LEMMA Distribute ==
  ASSUME NEW a \in Int, NEW b \in Int, NEW c \in Int
  PROVE  (a + b) * c = a * c + b * c
  OBVIOUS

LEMMA ProductInt == ASSUME NEW a \in Int, NEW b \in Int PROVE a * b \in Int
  OBVIOUS

LEMMA ProductNat == ASSUME NEW a \in Nat, NEW b \in Nat PROVE a * b \in Nat
  OBVIOUS

LEMMA ProductGrows ==
  ASSUME NEW a \in Int, NEW b \in Int, NEW c \in Nat, a <= b
  PROVE  a * c <= b * c
  OBVIOUS

\* The nearest multiple of d is at most half of d below what it stands for.
LEMMA Nearest ==
  ASSUME NEW m \in Nat, NEW d \in Nat \ {0}
  PROVE  LET q == (2 * m + d) \div (2 * d) IN q \in Nat /\ 2 * (q * d) + d >= 2 * m
  OBVIOUS

-----------------------------------------------------------------------------
(* The rate limiter: what one request sees.                                *)

\* What a bucket holds after a refill is between what it held and a full one.
LEMMA RefillBounds ==
  ASSUME RateTypeOK, NEW k \in Key, NEW c \in Class,
         bucket[k][c] # NoBucket =>
           bucket[k][c].updated <= now /\ bucket[k][c].tokens <= Capacity[c]
  PROVE  /\ Refilled(k, c) \in Nat
         /\ Refilled(k, c) <= Capacity[c]
         /\ bucket[k][c] # NoBucket =>
              LET collected == (now - bucket[k][c].updated) * Refill[c] IN
              /\ collected \in Nat
              /\ Refilled(k, c) <= bucket[k][c].tokens + collected
              /\ \/ Refilled(k, c) = bucket[k][c].tokens + collected
                 \/ Refilled(k, c) >= Unit
<1> USE LimitsAssumption, ScaleAssumption DEF RateTypeOK, Buckets
<1>1. Capacity[c] \in Nat /\ Capacity[c] >= Unit /\ Refill[c] \in Nat /\ Unit \in Nat
  OBVIOUS
<1>2. CASE bucket[k][c] = NoBucket
  BY <1>1, <1>2 DEF Refilled
<1>3. CASE bucket[k][c] # NoBucket
  <2> DEFINE b == bucket[k][c]
             collected == (now - b.updated) * Refill[c]
  <2>1. b \in Buckets /\ b.tokens \in Nat /\ now - b.updated \in Nat
    BY <1>3
  <2>2. collected \in Nat
    BY <1>1, <2>1, ProductNat
  <2>3. Refilled(k, c) = AtMost(Capacity[c], b.tokens + collected)
    BY <1>3 DEF Refilled
  <2> QED
    BY <1>1, <2>1, <2>2, <2>3 DEF AtMost
<1> QED
  BY <1>2, <1>3

LEMMA HintCovers ==
  ASSUME NEW c \in Class, NEW missing \in Nat
  PROVE  LET d == Refill[c] * Second IN
         /\ Hint(c, missing) \in Nat \ {0}
         /\ d \in Nat
         /\ 2 * (Hint(c, missing) * d) + d >= 2 * missing
<1> DEFINE d == Refill[c] * Second
           q == (2 * missing + d) \div (2 * d)
<1>1. d \in Nat \ {0}
  BY LimitsAssumption, ScaleAssumption
<1>2. q \in Nat /\ 2 * (q * d) + d >= 2 * missing
  BY <1>1, Nearest
<1>3. Hint(c, missing) = IF q < 1 THEN 1 ELSE q
  BY <1>1, LimitsAssumption, ScaleAssumption DEF Hint
<1>4. CASE q < 1
  <2>1. q = 0 /\ q * d = 0 /\ 1 * d = d /\ Hint(c, missing) = 1
    BY <1>1, <1>2, <1>3, <1>4
  <2> QED
    BY <1>1, <1>2, <2>1
<1>5. CASE q >= 1
  BY <1>1, <1>2, <1>3, <1>5
<1> QED
  BY <1>2, <1>4, <1>5

-----------------------------------------------------------------------------
(* Sequences of grants.                                                    *)

\* Since each of the grants s, they and what is left at time u were paid for.
PaidFor(s, u, left, c) ==
  \A i \in 1..Len(s) :
    /\ s[i] <= u
    /\ (Len(s) - i + 1) * Unit + left <= Capacity[c] + (u - s[i]) * Refill[c]

\* What comes in between u and time pays for what it adds to what is left.
LEMMA PaidLater ==
  ASSUME NEW c \in Class, NEW s \in Seq(Nat), NEW u \in Nat, NEW left \in Nat,
         NEW time \in Nat, NEW refilled \in Nat,
         PaidFor(s, u, left, c), u <= time,
         refilled <= left + (time - u) * Refill[c]
  PROVE  PaidFor(s, time, refilled, c)
<1>1. Capacity[c] \in Int /\ Refill[c] \in Int /\ Unit \in Int /\ Len(s) \in Nat
  BY LimitsAssumption, ScaleAssumption
<1>2. ASSUME NEW i \in 1..Len(s)
      PROVE  /\ s[i] <= time
             /\ (Len(s) - i + 1) * Unit + refilled <= Capacity[c] + (time - s[i]) * Refill[c]
  <2> DEFINE m == (Len(s) - i + 1) * Unit
             f == s[i]
             early == (u - f) * Refill[c]
             late == (time - u) * Refill[c]
  <2>1. /\ f \in Nat /\ f <= u /\ m + left <= Capacity[c] + early
    BY DEF PaidFor
  <2>2. /\ m \in Int /\ early \in Int /\ late \in Int
    <3>1. Len(s) - i + 1 \in Int
      BY <1>1
    <3>2. u - f \in Int /\ time - u \in Int
      BY <2>1
    <3> QED
      BY <1>1, <3>1, <3>2, ProductInt
  <2>3. (time - f) * Refill[c] = late + early
    <3> DEFINE p == time - u
               q == u - f
    <3>1. p \in Int /\ q \in Int /\ p + q = time - f
      <4> HIDE DEF f
      <4> QED
        BY <2>1
    <3>2. (p + q) * Refill[c] = p * Refill[c] + q * Refill[c]
      <4> HIDE DEF p, q
      <4> QED
        BY <1>1, <3>1, Distribute
    <3> QED
      BY <3>1, <3>2
  <2>4. s[i] <= time
    BY <2>1
  <2>5. m + refilled <= Capacity[c] + (time - f) * Refill[c]
    <3> HIDE DEF m, f, early, late
    <3>1. refilled <= left + late
      BY DEF late
    <3> QED
      BY <1>1, <2>1, <2>2, <2>3, <3>1
  <2> QED
    BY <2>4, <2>5
<1> QED
  BY <1>2 DEF PaidFor

\* Grants paid for with a token left are within the rate, one more included,
\* and that one is paid for too.
LEMMA PaidMore ==
  ASSUME NEW c \in Class, NEW s \in Seq(Nat), NEW time \in Nat, NEW left \in Nat,
         PaidFor(s, time, left, c), left <= Capacity[c], left >= Unit,
         WithinRate(s, c)
  PROVE  /\ PaidFor(Append(s, time), time, left - Unit, c)
         /\ WithinRate(Append(s, time), c)
<1> DEFINE t == Append(s, time)
           n == Len(s)
<1>1. Capacity[c] \in Int /\ Refill[c] \in Int /\ Unit \in Nat /\ n \in Nat
  BY LimitsAssumption, ScaleAssumption
<1>2. /\ Len(t) = n + 1 /\ t[n + 1] = time
      /\ \A i \in 1..n : t[i] = s[i] /\ s[i] \in Nat
  OBVIOUS
<1>3. ASSUME NEW i \in 1..n
      PROVE  /\ s[i] <= time
             /\ (n - i + 1) * Unit + left <= Capacity[c] + (time - s[i]) * Refill[c]
             /\ (n + 1 - i + 1) * Unit = (n - i + 1) * Unit + Unit
             /\ (n - i + 1) * Unit \in Int /\ (time - s[i]) * Refill[c] \in Int
  <2>1. /\ s[i] <= time
        /\ (n - i + 1) * Unit + left <= Capacity[c] + (time - s[i]) * Refill[c]
    BY DEF PaidFor
  <2>2. n - i + 1 \in Int /\ (n - i + 1) + 1 = n + 1 - i + 1 /\ 1 * Unit = Unit
    BY <1>1
  <2>3. ((n - i + 1) + 1) * Unit = (n - i + 1) * Unit + 1 * Unit
    BY <1>1, <2>2, Distribute
  <2>4. (n - i + 1) * Unit \in Int /\ (time - s[i]) * Refill[c] \in Int
    BY <1>1, <1>2
  <2> QED
    BY <2>1, <2>2, <2>3, <2>4
<1>4. 1 * Unit = Unit /\ (time - time) * Refill[c] = 0
  BY <1>1
<1>5. PaidFor(t, time, left - Unit, c)
  <2>1. ASSUME NEW i \in 1..(n + 1)
        PROVE  /\ t[i] <= time
               /\ (n + 1 - i + 1) * Unit + (left - Unit)
                    <= Capacity[c] + (time - t[i]) * Refill[c]
    <3>1. CASE i = n + 1
      <4>1. n + 1 - i + 1 = 1 /\ t[i] = time
        BY <1>1, <1>2, <3>1
      <4>2. (n + 1 - i + 1) * Unit = Unit /\ (time - t[i]) * Refill[c] = 0
        BY <1>4, <4>1
      <4>3. t[i] <= time /\ left - Unit + Unit <= Capacity[c] + 0
        BY <1>1, <4>1
      <4>4. PICK x : x = (n + 1 - i + 1) * Unit
        OBVIOUS
      <4>5. PICK y : y = (time - t[i]) * Refill[c]
        OBVIOUS
      <4>6. x + (left - Unit) <= Capacity[c] + y
        BY <1>1, <4>2, <4>3, <4>4, <4>5
      <4> QED
        BY <4>3, <4>4, <4>5, <4>6
    <3>2. CASE i \in 1..n
      <4>1. t[i] = s[i]
        BY <1>2, <3>2
      <4> DEFINE x == (n - i + 1) * Unit
                 y == (time - s[i]) * Refill[c]
      <4>2. /\ x \in Int /\ y \in Int /\ x + left <= Capacity[c] + y
            /\ (n + 1 - i + 1) * Unit = x + Unit /\ s[i] <= time
        BY <1>3, <3>2
      <4>3. (n + 1 - i + 1) * Unit + (left - Unit) <= Capacity[c] + y
        <5> DEFINE z == (n + 1 - i + 1) * Unit
        <5>1. z = x + Unit
          BY <4>2
        <5> HIDE DEF x, y, z
        <5> QED
          BY <1>1, <4>2, <5>1
      <4>4. (time - t[i]) * Refill[c] = y /\ t[i] <= time
        BY <4>1, <4>2
      <4>5. (n + 1 - i + 1) * Unit + (left - Unit) <= Capacity[c] + (time - t[i]) * Refill[c]
        BY ONLY <4>3, <4>4
      <4> QED
        BY ONLY <4>4, <4>5
    <3> QED
      BY <1>1, <3>1, <3>2
  <2> QED
    BY <1>2, <2>1 DEF PaidFor
<1>6. WithinRate(t, c)
  <2>1. ASSUME NEW i \in 1..(n + 1), NEW j \in 1..(n + 1), i <= j
        PROVE  (j - i + 1) * Unit <= Capacity[c] + (t[j] - t[i]) * Refill[c]
    <3>1. CASE j \in 1..n
      <4>1. i \in 1..n
        BY <1>1, <2>1, <3>1
      <4>2. t[i] = s[i] /\ t[j] = s[j]
        BY <1>2, <3>1, <4>1
      <4> QED
        BY <2>1, <3>1, <4>1, <4>2 DEF WithinRate
    <3>2. CASE j = n + 1 /\ i \in 1..n
      <4>1. t[i] = s[i] /\ t[j] = time
        BY <1>2, <3>2
      <4> DEFINE x == (n - i + 1) * Unit
                 y == (time - s[i]) * Refill[c]
      <4>2. /\ x \in Int /\ y \in Int /\ x + left <= Capacity[c] + y
            /\ (n + 1 - i + 1) * Unit = x + Unit
        BY <1>3, <3>2
      <4>3. x + Unit <= Capacity[c] + y
        <5> HIDE DEF x, y
        <5> QED
          BY <1>1, <4>2
      <4> QED
        BY <3>2, <4>1, <4>2, <4>3
    <3>3. CASE j = n + 1 /\ i = n + 1
      <4>1. j - i + 1 = 1 /\ t[i] = time /\ t[j] = time
        BY <1>1, <1>2, <3>3
      <4> QED
        BY <1>1, <1>4, <4>1
    <3> QED
      BY <1>1, <3>1, <3>2, <3>3
  <2> QED
    BY <1>2, <2>1 DEF WithinRate
<1> QED
  BY <1>5, <1>6

-----------------------------------------------------------------------------
(* The inductive invariant, bucket by bucket.                              *)

\* The grants and what is left of a bucket were paid for.
Paid(k, c) ==
  /\ bucket[k][c].updated <= now /\ bucket[k][c].tokens <= Capacity[c]
  /\ PaidFor(grants[k][c], bucket[k][c].updated, bucket[k][c].tokens, c)

\* What a client that was told to wait finds when it comes back: after one
\* denial at most half a second short, after two a token.
Patient(k, c) ==
  LET b == bucket[k][c]
      half == Refill[c] * Second
  IN /\ denials[k][c] \in 0..2
     /\ denials[k][c] = 0 => told[k][c] <= now
     /\ denials[k][c] # 0 => b.tokens < Unit
     /\ denials[k][c] = 1 =>
          /\ told[k][c] >= b.updated
          /\ 2 * (Unit - b.tokens) <= 2 * ((told[k][c] - b.updated) * Refill[c]) + half
     /\ denials[k][c] = 2 =>
          /\ told[k][c] >= b.updated + Second
          /\ 2 * (Unit - b.tokens) <= half

BucketInv(k, c) ==
  /\ bucket[k][c] = NoBucket => grants[k][c] = <<>> /\ denials[k][c] = 0 /\ told[k][c] = 0
  /\ bucket[k][c] # NoBucket => Paid(k, c) /\ Patient(k, c)

RateInv ==
  /\ RateTypeOK
  /\ NeverAboveRate
  /\ \A k \in Key, c \in Class : BucketInv(k, c)

LEMMA RateInitially == RateInit => RateInv
  BY LimitsAssumption, ScaleAssumption
  DEF RateInit, RateInv, RateTypeOK, NeverAboveRate, WithinRate, BucketInv, Buckets, NoBucket

LEMMA ClockKeeps == RateInv /\ Clock => RateInv'
<1> SUFFICES ASSUME RateInv, Clock PROVE RateInv'
  OBVIOUS
<1> USE DEF RateInv, Clock
<1>1. RateTypeOK'
  BY DEF RateTypeOK
<1>2. NeverAboveRate'
  BY DEF NeverAboveRate
<1>3. ASSUME NEW k \in Key, NEW c \in Class PROVE BucketInv(k, c)'
  <2>1. now \in Nat /\ now' = now + 1 /\ told[k][c] \in Nat
    BY DEF RateTypeOK
  <2>2. bucket[k][c] # NoBucket => bucket[k][c].updated \in Nat
    BY DEF RateTypeOK, Buckets
  <2>3. BucketInv(k, c)
    OBVIOUS
  <2>4. bucket[k][c] # NoBucket => Paid(k, c)'
    BY <2>1, <2>2, <2>3 DEF BucketInv, Paid
  <2>5. bucket[k][c] # NoBucket => Patient(k, c)'
    BY <2>1, <2>2, <2>3 DEF BucketInv, Patient
  <2> QED
    BY <2>3, <2>4, <2>5 DEF BucketInv
<1> QED
  BY <1>1, <1>2, <1>3

\* Requests change one bucket; the others keep their invariant.
LEMMA OthersKeep ==
  ASSUME RateInv, NEW k \in Key, NEW c \in Class, Grant(k, c) \/ Deny(k, c),
         NEW l \in Key, NEW e \in Class, l # k \/ e # c
  PROVE  BucketInv(l, e)' /\ grants'[l][e] = grants[l][e]
<1>1. /\ bucket'[l][e] = bucket[l][e] /\ grants'[l][e] = grants[l][e]
      /\ told'[l][e] = told[l][e] /\ denials'[l][e] = denials[l][e] /\ now' = now
  BY DEF RateInv, RateTypeOK, Grant, Deny
<1>2. BucketInv(l, e)
  BY DEF RateInv
<1> QED
  BY <1>1, <1>2 DEF BucketInv, Paid, Patient

\* What a request that reaches the bucket finds.
LEMMA RequestSees ==
  ASSUME RateInv, NEW k \in Key, NEW c \in Class
  PROVE  /\ Capacity[c] \in Nat /\ Capacity[c] >= Unit
         /\ Unit \in Nat \ {0} /\ Second \in Nat \ {0} /\ Refill[c] \in Nat \ {0}
         /\ now \in Nat /\ grants[k][c] \in Seq(Nat) /\ WithinRate(grants[k][c], c)
         /\ Refilled(k, c) \in Nat /\ Refilled(k, c) <= Capacity[c]
         /\ PaidFor(grants[k][c], now, Refilled(k, c), c)
<1>1. /\ Capacity[c] \in Nat /\ Capacity[c] >= Unit
      /\ Unit \in Nat \ {0} /\ Second \in Nat \ {0} /\ Refill[c] \in Nat \ {0}
      /\ now \in Nat /\ grants[k][c] \in Seq(Nat) /\ RateTypeOK
      /\ bucket[k][c] \in Buckets \cup {NoBucket}
  BY LimitsAssumption, ScaleAssumption DEF RateInv, RateTypeOK
<1>2. BucketInv(k, c) /\ WithinRate(grants[k][c], c)
  BY DEF RateInv, NeverAboveRate
<1>3. /\ Refilled(k, c) \in Nat /\ Refilled(k, c) <= Capacity[c]
      /\ bucket[k][c] # NoBucket =>
           Refilled(k, c) <= bucket[k][c].tokens + (now - bucket[k][c].updated) * Refill[c]
  BY <1>1, <1>2, RefillBounds DEF BucketInv, Paid
<1>4. PaidFor(grants[k][c], now, Refilled(k, c), c)
  <2>1. CASE bucket[k][c] = NoBucket
    BY <1>2, <2>1 DEF BucketInv, PaidFor
  <2>2. CASE bucket[k][c] # NoBucket
    <3>1. bucket[k][c].updated \in Nat /\ bucket[k][c].tokens \in Nat
      BY <1>1, <2>2 DEF Buckets
    <3>2. /\ PaidFor(grants[k][c], bucket[k][c].updated, bucket[k][c].tokens, c)
          /\ bucket[k][c].updated <= now
      BY <1>2, <2>2 DEF BucketInv, Paid
    <3> QED
      BY <1>1, <1>3, <2>2, <3>1, <3>2, PaidLater
  <2> QED
    BY <2>1, <2>2
<1> QED
  BY <1>1, <1>2, <1>3, <1>4

LEMMA GrantKeeps ==
  ASSUME RateInv, NEW k \in Key, NEW c \in Class, Grant(k, c)
  PROVE  RateInv'
<1> DEFINE g == grants[k][c]
           r == Refilled(k, c)
<1>1. /\ bucket'[k][c] = [tokens |-> r - Unit, updated |-> now]
      /\ grants'[k][c] = Append(g, now)
      /\ told'[k][c] = now /\ denials'[k][c] = 0 /\ now' = now /\ r >= Unit
  BY DEF Grant, RateInv, RateTypeOK
<1>2. /\ PaidFor(Append(g, now), now, r - Unit, c)
      /\ WithinRate(Append(g, now), c)
  BY <1>1, RequestSees, PaidMore
<1>3. r - Unit \in Nat /\ r - Unit <= Capacity[c]
  BY <1>1, RequestSees
<1>4. RateTypeOK'
  <2>1. [tokens |-> r - Unit, updated |-> now] \in Buckets /\ Append(g, now) \in Seq(Nat)
    BY <1>3, RequestSees DEF Buckets
  <2> QED
    BY <2>1, RequestSees DEF Grant, RateInv, RateTypeOK
<1>5. NeverAboveRate'
  <2> HIDE DEF g
  <2>1. ASSUME NEW l \in Key, NEW e \in Class PROVE WithinRate(grants'[l][e], e)
    BY <1>1, <1>2, OthersKeep DEF RateInv, NeverAboveRate
  <2> QED
    BY <2>1 DEF NeverAboveRate, WithinRate
<1>6. BucketInv(k, c)'
  <2>1. bucket'[k][c] # NoBucket
    BY <1>1, <1>3 DEF NoBucket
  <2>2. Paid(k, c)'
    <3>1. /\ grants'[k][c] = Append(g, now) /\ now' = now
          /\ bucket'[k][c].updated = now /\ bucket'[k][c].tokens = r - Unit
          /\ now <= now
      BY <1>1, RequestSees
    <3> HIDE DEF g, r
    <3>2. PaidFor(grants'[k][c], bucket'[k][c].updated, bucket'[k][c].tokens, c)
      BY <1>2, <3>1
    <3> QED
      BY <1>3, <3>1, <3>2 DEF Paid, PaidFor
  <2>3. Patient(k, c)'
    BY <1>1, RequestSees DEF Patient
  <2> QED
    BY <2>1, <2>2, <2>3 DEF BucketInv
<1> QED
  BY <1>4, <1>5, <1>6, OthersKeep DEF RateInv

\* The wait a denied client is told covers what is missing, but for at most
\* half a second.
LEMMA DenyPatient ==
  ASSUME RateInv, NEW k \in Key, NEW c \in Class, Deny(k, c)
  PROVE  Patient(k, c)'
<1> DEFINE b == bucket[k][c]
           r == Refilled(k, c)
           missing == Unit - r
           rate == Refill[c]
           half == rate * Second
           h == Hint(c, missing)
           wait == h * Second
           d == denials[k][c]
<1>1. /\ Unit \in Nat \ {0} /\ Second \in Nat \ {0} /\ rate \in Nat \ {0}
      /\ now \in Nat /\ r \in Nat /\ r < Unit /\ missing \in Nat
  BY RequestSees DEF Deny
<1>2. h \in Nat \ {0} /\ half \in Nat /\ 2 * (h * half) + half >= 2 * missing
  BY <1>1, HintCovers
<1>3. wait \in Nat /\ wait >= Second /\ wait * rate = h * half
  <2> HIDE DEF h
  <2> QED
    BY <1>1, <1>2
<1>4. /\ bucket'[k][c] = [tokens |-> r, updated |-> now]
      /\ told'[k][c] = now + wait /\ now' = now
      /\ denials'[k][c] = IF now >= told[k][c] THEN d + 1 ELSE d
  BY DEF Deny, Waited, RateInv, RateTypeOK
<1>5. told'[k][c] - now = wait
  BY <1>1, <1>3, <1>4
<1>6. 2 * (Unit - r) <= 2 * ((told'[k][c] - now) * rate) + half
  <2>1. (told'[k][c] - now) * rate = h * half /\ h * half \in Int
    BY <1>2, <1>3, <1>5
  <2> HIDE DEF r, h, half
  <2> QED
    BY <1>1, <1>2, <2>1
<1>7. BucketInv(k, c) /\ told[k][c] \in Nat /\ b \in Buckets \cup {NoBucket}
  BY DEF RateInv, RateTypeOK
<1>8. ASSUME d # 0
      PROVE  /\ b.updated \in Nat /\ b.tokens \in Nat /\ b.updated <= now /\ Patient(k, c)
             /\ (now - b.updated) * rate \in Nat
             /\ r = b.tokens + (now - b.updated) * rate
  <2>1. b # NoBucket
    BY <1>7, <1>8 DEF BucketInv
  <2>2. /\ Patient(k, c) /\ b.updated <= now /\ b.tokens <= Capacity[c]
        /\ b.updated \in Nat /\ b.tokens \in Nat
    BY <1>7, <2>1 DEF BucketInv, Paid, Buckets
  <2>3. LET collected == (now - b.updated) * rate IN
        collected \in Nat /\ (r = b.tokens + collected \/ r >= Unit)
    BY <2>1, <2>2, RefillBounds DEF RateInv
  <2> QED
    BY <1>1, <2>2, <2>3
\* It waited: at most half a second was missing after one denial, nothing
\* after two.
<1>9. ASSUME d = 1, now >= told[k][c] PROVE 2 * (Unit - r) <= half
  <2> DEFINE due == (told[k][c] - b.updated) * rate
             collected == (now - b.updated) * rate
  <2>1. 2 * (Unit - b.tokens) <= 2 * due + half /\ r = b.tokens + collected /\ b.tokens \in Nat
    BY <1>8, <1>9 DEF Patient
  <2>2. due <= collected /\ due \in Int /\ collected \in Int
    <3>1. told[k][c] - b.updated \in Int /\ now - b.updated \in Int
          /\ told[k][c] - b.updated <= now - b.updated
      BY <1>1, <1>7, <1>8, <1>9
    <3> QED
      BY <1>1, <3>1, ProductGrows, ProductInt
  <2> HIDE DEF due, collected, r, half
  <2> QED
    BY <1>1, <1>2, <2>1, <2>2
<1>10. ASSUME d = 2, now >= told[k][c] PROVE FALSE
  <2> DEFINE collected == (now - b.updated) * rate
  <2>1. /\ 2 * (Unit - b.tokens) <= half /\ told[k][c] >= b.updated + Second
        /\ r = b.tokens + collected /\ b.tokens \in Nat
    BY <1>8, <1>10 DEF Patient
  <2>2. Second * rate <= collected /\ collected \in Int
    <3>1. Second \in Int /\ now - b.updated \in Int /\ Second <= now - b.updated
      BY <1>1, <1>7, <1>8, <1>10, <2>1
    <3> QED
      BY <1>1, <3>1, ProductGrows, ProductInt
  <2>3. Second * rate = half
    BY <1>1
  <2> HIDE DEF collected, r, half
  <2> QED
    BY <1>1, <1>2, <2>1, <2>2, <2>3
<1>11. ASSUME d = 2 PROVE 2 * (Unit - r) <= half
  <2>1. 2 * (Unit - b.tokens) <= half
    BY <1>8, <1>11 DEF Patient
  <2> HIDE DEF r, half
  <2> QED
    BY <1>1, <1>2, <1>8, <1>11, <2>1
<1>12. d \in 0..2 /\ (d = 0 => now >= told[k][c])
  BY <1>1, <1>7 DEF BucketInv, Patient
<1>13. LET e == denials'[k][c] IN
       /\ e \in 1..2
       /\ e = 2 => 2 * (Unit - r) <= half
  BY <1>4, <1>9, <1>10, <1>11, <1>12
<1>14. /\ bucket'[k][c].tokens = r /\ bucket'[k][c].updated = now
       /\ told'[k][c] >= now /\ told'[k][c] >= now + Second
  BY <1>1, <1>3, <1>4
<1> HIDE DEF r, half, wait, h
<1> QED
  BY <1>1, <1>6, <1>13, <1>14 DEF Patient, half

LEMMA DenyKeeps ==
  ASSUME RateInv, NEW k \in Key, NEW c \in Class, Deny(k, c)
  PROVE  RateInv'
<1> DEFINE r == Refilled(k, c)
<1>1. /\ bucket'[k][c] = [tokens |-> r, updated |-> now]
      /\ grants' = grants /\ now' = now /\ r \in Nat /\ r <= Capacity[c] /\ now \in Nat
  BY RequestSees DEF Deny, RateInv, RateTypeOK
<1>2. RateTypeOK'
  <2>1. [tokens |-> r, updated |-> now] \in Buckets
    BY <1>1 DEF Buckets
  <2>2. now + Hint(c, Unit - r) * Second \in Nat
    <3>1. Unit - r \in Nat
      BY RequestSees DEF Deny
    <3>2. Hint(c, Unit - r) \in Nat /\ Second \in Nat
      BY <3>1, HintCovers, ScaleAssumption
    <3> QED
      BY <1>1, <3>2, ProductNat
  <2> QED
    BY <2>1, <2>2 DEF Deny, RateInv, RateTypeOK
<1>3. NeverAboveRate'
  BY <1>1 DEF RateInv, NeverAboveRate, WithinRate
<1>4. BucketInv(k, c)'
  <2>1. bucket'[k][c] # NoBucket
    BY <1>1 DEF NoBucket
  <2>2. Paid(k, c)'
    <3>1. PaidFor(grants[k][c], now, r, c)
      BY RequestSees
    <3>2. bucket'[k][c].updated = now /\ bucket'[k][c].tokens = r /\ now <= now
      BY <1>1
    <3>3. PaidFor(grants'[k][c], bucket'[k][c].updated, bucket'[k][c].tokens, c)
      BY <1>1, <3>1, <3>2
    <3> HIDE DEF r
    <3> QED
      BY <1>1, <3>2, <3>3 DEF Paid, PaidFor
  <2> QED
    BY <2>1, <2>2, DenyPatient DEF BucketInv
<1> QED
  BY <1>2, <1>3, <1>4, OthersKeep DEF RateInv

LEMMA RateInvariant == RateSpec => []RateInv
<1>1. RateInv /\ [RateNext]_rateVars => RateInv'
  <2> SUFFICES ASSUME RateInv, [RateNext]_rateVars PROVE RateInv'
    OBVIOUS
  <2>1. CASE UNCHANGED rateVars
    BY <2>1 DEF rateVars, RateInv, RateTypeOK, NeverAboveRate, WithinRate,
                BucketInv, Paid, PaidFor, Patient
  <2> QED
    BY <2>1, ClockKeeps, GrantKeeps, DenyKeeps DEF RateNext
<1> QED
  BY <1>1, RateInitially, PTL DEF RateSpec

-----------------------------------------------------------------------------
(* What is proved of the limiter.                                          *)

\* What the limiter keeps stays within its types.
THEOREM RateTypeCorrect == RateSpec => []RateTypeOK
  BY RateInvariant, PTL DEF RateInv

\* RateLimiter.check never lets more through than its limit, in no window of
\* time, whatever the capacity, the refill and the requests.
THEOREM RateHolds == RateSpec => []NeverAboveRate
  BY RateInvariant, PTL DEF RateInv

\* A client that waits as Retry-After says is served at the third time at the
\* latest, although the header is rounded to the nearest second.
THEOREM PatienceIsServed == RateSpec => []ThirdTimeServed
<1>1. RateInv => ThirdTimeServed
  BY DEF RateInv, BucketInv, Patient, ThirdTimeServed
<1> QED
  BY <1>1, RateInvariant, PTL

-----------------------------------------------------------------------------
(* The LLM gateway: tokens under way, in any state j of the requests.      *)

Under(j, w) == j[w].phase \in {"calling", "answered"}

Most == 2 * MaxTokens

\* The tokens of w's request, if it began on day d or later.
Share(j, w, d) == IF Under(j, w) /\ j[w].day >= d THEN j[w].tokens ELSE 0

TokensOf(j, W, d) ==
  {tk \in W \X (1..Most) :
     Under(j, tk[1]) /\ j[tk[1]].day >= d /\ tk[2] <= j[tk[1]].tokens}

LEMMA PendingIs == \A d : Pending(d) = Cardinality(TokensOf(job, Worker, d))
  BY DEF Pending, TokensOf, Calling, Under, Most

LEMMA TokensFinite ==
  ASSUME NEW j, NEW W \in SUBSET Worker, NEW d
  PROVE  IsFiniteSet(TokensOf(j, W, d))
<1>1. IsFiniteSet(W)
  BY WorkerAssumption, FS_Subset
<1>2. IsFiniteSet(1..Most)
  BY MaxTokensAssumption, FS_Interval DEF Most
<1>3. IsFiniteSet(W \X (1..Most))
  BY <1>1, <1>2, FS_Product
<1> QED
  BY <1>3, FS_Subset DEF TokensOf

\* One request's tokens are as many as it says.
LEMMA TokensOfOne ==
  ASSUME NEW j \in [Worker -> Job], NEW w \in Worker, NEW d \in Day
  PROVE  /\ Share(j, w, d) \in Nat
         /\ Cardinality(TokensOf(j, {w}, d)) = Share(j, w, d)
<1> DEFINE k == Share(j, w, d)
<1>1. k \in 0..Most
  <2>1. j[w] \in Job /\ Most \in Nat
    BY MaxTokensAssumption DEF Most
  <2>2. Under(j, w) => j[w].tokens \in 0..Most
    BY <2>1 DEF Job, Under, Most
  <2> QED
    BY <2>1, <2>2 DEF Share
<1>2. TokensOf(j, {w}, d) = {w} \X (1..k)
  <2>0. Most \in Nat
    BY MaxTokensAssumption DEF Most
  <2>1. CASE Under(j, w) /\ j[w].day >= d
    <3>1. k = j[w].tokens
      BY <2>1 DEF Share
    <3> HIDE DEF k
    <3> QED
      BY <2>0, <2>1, <3>1, <1>1 DEF TokensOf
  <2>2. CASE ~(Under(j, w) /\ j[w].day >= d)
    <3>1. k = 0
      BY <2>2 DEF Share
    <3>2. TokensOf(j, {w}, d) = {}
      BY <2>2 DEF TokensOf
    <3>3. 1..k = {}
      BY <3>1
    <3> QED
      BY <3>2, <3>3
  <2> QED
    BY <2>1, <2>2
<1>3. IsFiniteSet(1..k) /\ Cardinality(1..k) = k
  <2>1. k \in Nat
    BY <1>1, MaxTokensAssumption DEF Most
  <2> HIDE DEF k
  <2>2. \A m \in Nat : IsFiniteSet(1..m) /\ Cardinality(1..m) = m
    <3> SUFFICES ASSUME NEW m \in Nat PROVE IsFiniteSet(1..m) /\ Cardinality(1..m) = m
      OBVIOUS
    <3>1. /\ IsFiniteSet(1..m)
          /\ Cardinality(1..m) = IF 1 > m THEN 0 ELSE m - 1 + 1
      BY FS_Interval
    <3> QED
      BY <3>1
  <2> QED
    BY <2>1, <2>2
<1>4. IsFiniteSet({w}) /\ Cardinality({w}) = 1
  BY FS_Singleton
<1>5. Cardinality({w} \X (1..k)) = 1 * k
  <2> DEFINE one == {w}
             range == 1..k
  <2> HIDE DEF one, range
  <2>1. Cardinality(one \X range) = Cardinality(one) * Cardinality(range)
    BY <1>3, <1>4, FS_Product DEF one, range
  <2> QED
    BY <1>3, <1>4, <2>1 DEF one, range
<1> QED
  <2>1. k \in Nat
    BY <1>1, MaxTokensAssumption DEF Most
  <2> HIDE DEF k
  <2>2. Cardinality(TokensOf(j, {w}, d)) = k
    <3>1. 1 * k = k
      BY <2>1
    <3> QED
      BY <1>2, <1>5, <3>1, Zenon
  <2> QED
    BY <2>1, <2>2 DEF k

\* Those of all are one request's and the others'.
LEMMA TokensSplit ==
  ASSUME NEW j \in [Worker -> Job], NEW w \in Worker, NEW d \in Day
  PROVE  /\ Cardinality(TokensOf(j, Worker \ {w}, d)) \in Nat
         /\ Cardinality(TokensOf(j, Worker, d))
              = Cardinality(TokensOf(j, Worker \ {w}, d)) + Share(j, w, d)
<1> DEFINE S == TokensOf(j, {w}, d)
           T == TokensOf(j, Worker \ {w}, d)
<1>1. IsFiniteSet(S) /\ IsFiniteSet(T)
  BY TokensFinite
<1>2. TokensOf(j, Worker, d) = T \cup S /\ T \cap S = {}
  BY DEF TokensOf
<1>3. Cardinality(S) = Share(j, w, d) /\ Share(j, w, d) \in Nat
  BY TokensOfOne
<1> HIDE DEF S, T
<1>4. Cardinality(T) \in Nat /\ Cardinality(S) \in Nat
  BY <1>1, FS_CardinalityType
<1>5. Cardinality(T \cup S) = Cardinality(T) + Cardinality(S) - Cardinality(T \cap S)
  BY <1>1, FS_Union
<1>6. Cardinality(T \cap S) = 0
  BY <1>2, FS_EmptySet
<1> QED
  BY <1>2, <1>3, <1>4, <1>5, <1>6 DEF T

\* When one request changes, the tokens under way change by what it has.
LEMMA PendingMoves ==
  ASSUME NEW w \in Worker, NEW d \in Day,
         job \in [Worker -> Job], job' \in [Worker -> Job],
         \A v \in Worker \ {w} : job'[v] = job[v]
  PROVE  \E rest \in Nat :
           /\ Pending(d) = rest + Share(job, w, d)
           /\ Pending(d)' = rest + Share(job', w, d)
           /\ Share(job, w, d) \in Nat /\ Share(job', w, d) \in Nat
<1>1. TokensOf(job', Worker \ {w}, d) = TokensOf(job, Worker \ {w}, d)
  BY DEF TokensOf, Under
<1>2. /\ Pending(d) = Cardinality(TokensOf(job, Worker, d))
      /\ Pending(d)' = Cardinality(TokensOf(job', Worker, d))
  BY DEF Pending, TokensOf, Calling, Under, Most
<1>3. PICK j \in [Worker -> Job] : j = job
  OBVIOUS
<1>4. PICK k \in [Worker -> Job] : k = job'
  OBVIOUS
<1>5. /\ Cardinality(TokensOf(j, Worker \ {w}, d)) \in Nat
      /\ Cardinality(TokensOf(j, Worker, d))
           = Cardinality(TokensOf(j, Worker \ {w}, d)) + Share(j, w, d)
      /\ Share(j, w, d) \in Nat
  BY TokensSplit, TokensOfOne
<1>6. /\ Cardinality(TokensOf(k, Worker, d))
           = Cardinality(TokensOf(k, Worker \ {w}, d)) + Share(k, w, d)
      /\ Share(k, w, d) \in Nat
  BY TokensSplit, TokensOfOne
<1> QED
  BY <1>1, <1>2, <1>3, <1>4, <1>5, <1>6

-----------------------------------------------------------------------------
(* The requests of a day under way.                                        *)

Busy(j, d) == {w \in Worker : Under(j, w) /\ j[w].day = d}

LEMMA BusyCounts ==
  ASSUME NEW j, NEW d
  PROVE  /\ IsFiniteSet(Busy(j, d))
         /\ Cardinality(Worker) \in Nat /\ Cardinality(Busy(j, d)) \in Nat
         /\ Cardinality(Busy(j, d)) <= Cardinality(Worker)
<1>1. Busy(j, d) \subseteq Worker
  BY DEF Busy
<1> QED
  BY <1>1, WorkerAssumption, FS_Subset, FS_CardinalityType

\* A request that ends leaves one fewer.
LEMMA BusyLeaves ==
  ASSUME NEW j, NEW k, NEW d, NEW w \in Worker,
         \A v \in Worker \ {w} : k[v] = j[v],
         w \in Busy(j, d), w \notin Busy(k, d)
  PROVE  Cardinality(Busy(k, d)) = Cardinality(Busy(j, d)) - 1
<1>1. Busy(k, d) = Busy(j, d) \ {w}
  BY DEF Busy, Under
<1> QED
  BY <1>1, BusyCounts, FS_RemoveElement

\* The budget, and what the requests of the day may still put on record.
Room ==
  spent[today] < Budget + (Cardinality(Worker) - Cardinality(Busy(job, today))) * Most

-----------------------------------------------------------------------------
(* The gateway's inductive invariant.                                      *)

\* An answer that was retried used no more than its attempts may.
Fits(w) ==
  job[w].phase = "calling" =>
    job[w].tokens <= IF job[w].attempt = 1 THEN 0 ELSE MaxTokens

\* Nothing belongs to a day to come.
NoFuture ==
  /\ \A d \in Day : d > today => spent[d] = 0
  /\ \A w \in Worker : job[w].phase # "idle" => job[w].day <= today

GatewayInv ==
  /\ TypeOK
  /\ \A w \in Worker : Fits(w)
  /\ NoFuture
  /\ Room
  /\ FailsClosed
  /\ TokensAccounted

LEMMA GatewayInitially == Init => GatewayInv
<1> SUFFICES ASSUME Init PROVE GatewayInv
  OBVIOUS
<1>1. 1 \in Day
  BY BoundsAssumption DEF Day
<1>2. TypeOK
  BY <1>1 DEF Init, TypeOK, Job, Idle, Status
<1>3. \A w \in Worker : Fits(w)
  BY DEF Init, Fits, Idle
<1>4. NoFuture
  BY DEF Init, NoFuture, Idle
<1>5. \A d \in Day : Busy(job, d) = {} /\ TokensOf(job, Worker, d) = {}
  BY DEF Init, Busy, TokensOf, Under, Idle
<1>6. Room
  <2>1. Cardinality(Busy(job, today)) = 0
    BY <1>1, <1>5, FS_EmptySet DEF Init
  <2>2. Cardinality(Worker) \in Nat /\ Cardinality(Worker) # 0
    BY WorkerAssumption, FS_CardinalityType, FS_EmptySet
  <2>3. Most \in Nat \ {0}
    BY MaxTokensAssumption DEF Most
  <2>4. 1 * Most <= (Cardinality(Worker) - 0) * Most
    BY <2>2, <2>3, ProductGrows
  <2> QED
    BY <1>1, <2>1, <2>2, <2>3, <2>4, BudgetAssumption DEF Init, Room
<1>7. FailsClosed
  BY DEF Init, FailsClosed, Status
<1>8. TokensAccounted
  BY <1>1, <1>5, PendingIs, FS_EmptySet DEF Init, TokensAccounted
<1> QED
  BY <1>2, <1>3, <1>4, <1>6, <1>7, <1>8 DEF GatewayInv

LEMMA PlusTypes ==
  ASSUME NEW count, NEW day, NEW t, NEW plus, plus = Plus(count, day, t),
         count \in [Day -> Nat], t \in Nat
  PROVE  /\ plus \in [Day -> Nat]
         /\ \A d \in Day : plus[d] = count[d] + (IF d <= day THEN t ELSE 0)
<1>1. \A d \in Day : count[d] \in Nat /\ count[d] + t \in Nat /\ count[d] + 0 = count[d]
  OBVIOUS
<1> QED
  BY <1>1 DEF Plus

\* A step of w that moves tokens from its request to the record, or loses
\* them, accounts for them.
LEMMA AccountKeeps ==
  ASSUME TypeOK, TypeOK', TokensAccounted, NEW w \in Worker,
         \A v \in Worker \ {w} : job'[v] = job[v],
         \A d \in Day : used'[d] - spent'[d] - lost'[d] - Share(job', w, d)
                            = used[d] - spent[d] - lost[d] - Share(job, w, d)
  PROVE  TokensAccounted'
<1> SUFFICES ASSUME NEW d \in Day
             PROVE  used'[d] = spent'[d] + lost'[d] + Pending(d)'
  BY DEF TokensAccounted
<1>1. job \in [Worker -> Job] /\ job' \in [Worker -> Job]
  BY DEF TypeOK
<1>2. PICK rest \in Nat :
        /\ Pending(d) = rest + Share(job, w, d)
        /\ Pending(d)' = rest + Share(job', w, d)
        /\ Share(job, w, d) \in Nat /\ Share(job', w, d) \in Nat
  BY <1>1, PendingMoves
<1>3. used[d] = spent[d] + lost[d] + Pending(d)
  BY DEF TokensAccounted
<1>4. /\ used[d] \in Nat /\ spent[d] \in Nat /\ lost[d] \in Nat
      /\ used'[d] \in Nat /\ spent'[d] \in Nat /\ lost'[d] \in Nat
  BY DEF TypeOK
<1>5. used'[d] - spent'[d] - lost'[d] - Share(job', w, d)
        = used[d] - spent[d] - lost[d] - Share(job, w, d)
  OBVIOUS
<1> QED
  BY <1>2, <1>3, <1>4, <1>5

\* A step of w that leaves the day's record alone leaves room for it, if it
\* starts no request of the day.
LEMMA RoomKeeps ==
  ASSUME TypeOK, Room, NEW w \in Worker,
         \A v \in Worker \ {w} : job'[v] = job[v],
         w \in Busy(job', today) => w \in Busy(job, today),
         today' = today, spent'[today] = spent[today]
  PROVE  Room'
<1>1. Most \in Nat /\ Budget \in Nat /\ spent[today] \in Nat
  BY MaxTokensAssumption, BudgetAssumption DEF Most, TypeOK
<1>2. PICK b \in Nat : b = Cardinality(Busy(job, today))
  BY BusyCounts
<1>3. PICK c \in Nat : c = Cardinality(Busy(job', today))
  BY BusyCounts
<1>4. PICK n \in Nat : n = Cardinality(Worker)
  BY BusyCounts
<1>5. c <= b
  <2>1. Busy(job', today) \subseteq Busy(job, today)
    BY DEF Busy, Under
  <2> QED
    BY <1>2, <1>3, <2>1, BusyCounts, FS_Subset
<1>6. (n - b) * Most <= (n - c) * Most /\ (n - b) * Most \in Int /\ (n - c) * Most \in Int
  BY <1>1, <1>5, ProductGrows
<1>7. spent[today] < Budget + (n - b) * Most
  BY <1>2, <1>4 DEF Room
<1>8. spent[today] < Budget + (n - c) * Most
  BY <1>1, <1>6, <1>7
<1> QED
  BY <1>3, <1>4, <1>8 DEF Room

-----------------------------------------------------------------------------
(* The steps.                                                              *)

LEMMA JobStep ==
  ASSUME TypeOK, NEW w \in Worker, NEW J \in Job, job' = [job EXCEPT ![w] = J]
  PROVE  /\ job' \in [Worker -> Job] /\ job'[w] = J
         /\ \A v \in Worker \ {w} : job'[v] = job[v]
  BY DEF TypeOK

\* A request under way.
LEMMA JobIs ==
  ASSUME GatewayInv, NEW w \in Worker
  PROVE  /\ job[w] \in Job
         /\ job[w].phase \in {"idle", "missed", "calling", "answered"}
         /\ job[w].phase # "idle" =>
              job[w].input \in Input /\ job[w].day \in Day /\ job[w].day <= today
         /\ job[w].phase \in {"calling", "answered"} =>
              job[w].attempt \in {1, 2} /\ job[w].tokens \in 0..Most
         /\ job[w].phase = "calling" =>
              job[w].tokens <= IF job[w].attempt = 1 THEN 0 ELSE MaxTokens
         /\ today \in Nat /\ Most \in Nat /\ MaxTokens \in Nat /\ Day \subseteq Nat
<1>1. job[w] \in Job /\ today \in Day
  BY DEF GatewayInv, TypeOK
<1>2. Day \subseteq Nat /\ MaxTokens \in Nat /\ Most \in Nat
  BY MaxTokensAssumption, BoundsAssumption DEF Day, Most
<1>3. PICK J \in Job : J = job[w]
  BY <1>1
<1>4. /\ J.phase \in {"idle", "missed", "calling", "answered"}
      /\ J.phase # "idle" => J.input \in Input /\ J.day \in Day
      /\ J.phase \in {"calling", "answered"} => J.attempt \in {1, 2} /\ J.tokens \in 0..Most
  BY DEF Job, Most
<1>5. J.phase # "idle" => J.day <= today
  BY <1>3 DEF GatewayInv, NoFuture
<1>6. J.phase = "calling" => J.tokens <= IF J.attempt = 1 THEN 0 ELSE MaxTokens
  BY <1>3 DEF GatewayInv, Fits
<1> QED
  BY <1>1, <1>2, <1>3, <1>4, <1>5, <1>6

LEMMA IdleIs ==
  /\ Idle \in Job /\ Idle.phase = "idle"
  /\ \A j, w, d : j[w] = Idle => Share(j, w, d) = 0 /\ w \notin Busy(j, d)
  BY DEF Idle, Job, Share, Busy, Under

\* Requests that touch no count and put no token under way.
LEMMA QuietKeeps ==
  ASSUME GatewayInv, NEW w \in Worker, NEW J \in Job, job' = [job EXCEPT ![w] = J],
         UNCHANGED <<runs, spent, used, lost, today>>,
         J.phase = "idle" \/ (J.phase = "missed" /\ J.day = today),
         ~Under(job, w)
  PROVE  GatewayInv'
<1>1. /\ job' \in [Worker -> Job] /\ job'[w] = J
      /\ \A v \in Worker \ {w} : job'[v] = job[v]
  BY JobStep DEF GatewayInv
<1>2. TypeOK'
  BY <1>1 DEF GatewayInv, TypeOK
<1>3. ~Under(job', w)
  BY <1>1 DEF Under
<1>4. (\A v \in Worker : Fits(v))'
  BY <1>1, <1>3 DEF GatewayInv, Fits, Under
<1>5. NoFuture'
  <2>1. today \in Nat
    BY JobIs
  <2> QED
    BY <1>1, <2>1 DEF GatewayInv, NoFuture
<1>6. Room'
  <2>1. w \notin Busy(job', today)
    BY <1>3 DEF Busy
  <2> QED
    BY <1>1, <2>1, RoomKeeps DEF GatewayInv
<1>7. FailsClosed'
  BY DEF GatewayInv, FailsClosed
<1>8. TokensAccounted'
  <2>1. \A d \in Day : Share(job', w, d) = Share(job, w, d)
    BY <1>3 DEF Share
  <2> QED
    BY <1>1, <1>2, <2>1, AccountKeeps DEF GatewayInv
<1> QED
  BY <1>2, <1>4, <1>5, <1>6, <1>7, <1>8 DEF GatewayInv

LEMMA CacheMissKeeps ==
  ASSUME GatewayInv, NEW w \in Worker, CacheMiss(w)
  PROVE  GatewayInv'
<1>1. PICK i \in Input :
        job' = [job EXCEPT ![w] = [phase |-> "missed", input |-> i, day |-> today]]
  BY DEF CacheMiss
<1>2. PICK J : J = [phase |-> "missed", input |-> i, day |-> today]
  OBVIOUS
<1>3. J \in Job /\ J.phase = "missed" /\ J.day = today
  BY <1>2 DEF Job, GatewayInv, TypeOK
<1>4. ~Under(job, w)
  BY DEF CacheMiss, Under, Idle
<1> QED
  BY <1>1, <1>2, <1>3, <1>4, QuietKeeps DEF CacheMiss

LEMMA RefuseBudgetKeeps ==
  ASSUME GatewayInv, NEW w \in Worker, RefuseBudget(w)
  PROVE  GatewayInv'
<1>1. ~Under(job, w)
  BY DEF RefuseBudget, Under
<1>2. job' = [job EXCEPT ![w] = Idle] /\ UNCHANGED <<runs, spent, used, lost, today>>
  BY DEF RefuseBudget
<1> QED
  <2>1. Idle \in Job /\ Idle.phase = "idle"
    BY IdleIs
  <2>2. PICK J \in Job : J = Idle
    BY <2>1
  <2>3. J.phase = "idle" /\ job' = [job EXCEPT ![w] = J]
    BY <1>2, <2>1, <2>2
  <2> QED
    BY <1>1, <1>2, <2>3, QuietKeeps

LEMMA ServeCachedKeeps ==
  ASSUME GatewayInv, NEW w \in Worker, ServeCached(w)
  PROVE  GatewayInv'
<1>1. PICK i \in Input :
        runs[i].ok > 0 /\ runs' = [runs EXCEPT ![i].cached = @ + 1]
  BY DEF ServeCached
<1>2. UNCHANGED <<spent, used, lost, today, job>>
  BY DEF ServeCached
<1>3. runs \in [Input -> [Status -> Nat]]
  BY DEF GatewayInv, TypeOK
<1>4. runs' \in [Input -> [Status -> Nat]]
  BY <1>1, <1>3 DEF Status
<1>5. TypeOK'
  BY <1>2, <1>4 DEF GatewayInv, TypeOK
<1>6. FailsClosed'
  BY <1>1, <1>3 DEF GatewayInv, FailsClosed, Status
<1>7. (\A v \in Worker : Fits(v))' /\ NoFuture' /\ Room'
  BY <1>2 DEF GatewayInv, Fits, NoFuture, Room
<1>8. TokensAccounted'
  BY <1>2 DEF GatewayInv, TokensAccounted, Pending, Calling
<1> QED
  BY <1>5, <1>6, <1>7, <1>8 DEF GatewayInv

LEMMA TickKeeps ==
  ASSUME GatewayInv, Tick
  PROVE  GatewayInv'
<1>1. today \in Day /\ today' = today + 1 /\ today' \in Day /\ today' > today
  BY BoundsAssumption DEF GatewayInv, TypeOK, Tick, Day
<1>2. UNCHANGED <<runs, spent, used, lost, job>>
  BY DEF Tick
<1>3. TypeOK'
  BY <1>1, <1>2 DEF GatewayInv, TypeOK
<1>4. (\A v \in Worker : Fits(v))' /\ FailsClosed'
  BY <1>2 DEF GatewayInv, Fits, FailsClosed
<1>5. TokensAccounted'
  BY <1>2 DEF GatewayInv, TokensAccounted, Pending, Calling
<1>6. NoFuture'
  <2>1. ASSUME NEW w \in Worker, job[w].phase # "idle" PROVE job[w].day <= today'
    <3>1. job[w].day \in Nat /\ job[w].day <= today /\ today \in Nat
      BY <2>1, JobIs
    <3> QED
      BY <1>1, <3>1
  <2> QED
    BY <1>1, <1>2, <2>1 DEF GatewayInv, NoFuture, Day
<1>7. Room'
  <2>1. spent[today'] = 0
    BY <1>1 DEF GatewayInv, NoFuture
  <2>2. Busy(job, today') = {}
    <3>1. ASSUME NEW w \in Worker, Under(job, w) PROVE job[w].day # today'
      BY <1>1, <3>1, JobIs DEF Under
    <3> QED
      BY <3>1 DEF Busy
  <2>3. Cardinality(Busy(job, today')) = 0
    BY <2>2, FS_EmptySet
  <2>4. PICK n \in Nat : n = Cardinality(Worker) /\ n # 0
    BY WorkerAssumption, FS_CardinalityType, FS_EmptySet
  <2>5. Most \in Nat \ {0} /\ Budget \in Nat
    BY MaxTokensAssumption, BudgetAssumption DEF Most
  <2>6. 1 * Most <= (n - 0) * Most /\ (n - 0) * Most \in Int
    BY <2>4, <2>5, ProductGrows
  <2>7. 0 < Budget + (n - 0) * Most
    BY <2>5, <2>6
  <2> QED
    BY <1>2, <2>1, <2>3, <2>4, <2>7 DEF Room
<1> QED
  BY <1>3, <1>4, <1>5, <1>6, <1>7 DEF GatewayInv

\* The budget is not met yet: what starts now is paid for by one of the shares
\* of the workers.
LEMMA CallProviderKeeps ==
  ASSUME GatewayInv, NEW w \in Worker, CallProvider(w)
  PROVE  GatewayInv'
<1>1. PICK J : J = [phase |-> "calling", input |-> job[w].input,
                    day |-> job[w].day, attempt |-> 1, tokens |-> 0]
  OBVIOUS
<1>2. /\ job' = [job EXCEPT ![w] = J] /\ UNCHANGED <<runs, spent, used, lost, today>>
      /\ job[w].phase = "missed" /\ spent[job[w].day] < Budget
  <2>1. job[w].phase = "missed" /\ ~Exhausted(w)
    BY DEF CallProvider
  <2>2. spent[job[w].day] \in Nat
    BY <2>1, JobIs DEF GatewayInv, TypeOK
  <2> QED
    BY <1>1, <2>1, <2>2, BudgetAssumption DEF CallProvider, Exhausted
<1>3. /\ job[w].input \in Input /\ job[w].day \in Day /\ job[w].day <= today
      /\ today \in Nat /\ Most \in Nat
  BY <1>2, JobIs
<1>4. J \in Job /\ J.phase = "calling" /\ J.day = job[w].day /\ J.attempt = 1 /\ J.tokens = 0
  BY <1>1, <1>3 DEF Job, Most
<1>5. /\ job' \in [Worker -> Job] /\ job'[w] = J
      /\ \A v \in Worker \ {w} : job'[v] = job[v]
  BY <1>2, <1>4, JobStep DEF GatewayInv
<1>6. TypeOK'
  BY <1>2, <1>5 DEF GatewayInv, TypeOK
<1>7. (\A v \in Worker : Fits(v))'
  BY <1>4, <1>5 DEF GatewayInv, Fits
<1>8. NoFuture'
  BY <1>2, <1>3, <1>4, <1>5 DEF GatewayInv, NoFuture
<1>9. Room'
  <2>1. CASE job[w].day # today
    <3>1. w \notin Busy(job', today)
      BY <1>4, <1>5, <2>1 DEF Busy
    <3> QED
      BY <1>2, <1>5, <3>1, RoomKeeps DEF GatewayInv
  <2>2. CASE job[w].day = today
    <3>1. PICK n \in Nat : n = Cardinality(Worker)
      BY BusyCounts
    <3>2. PICK c \in Nat : c = Cardinality(Busy(job', today)) /\ c <= n
      BY <3>1, BusyCounts
    <3>3. 0 * Most <= (n - c) * Most /\ (n - c) * Most \in Int
      BY <1>3, <3>1, <3>2, ProductGrows
    <3>4. spent[today] < Budget /\ spent[today] \in Nat
      BY <1>2, <2>2 DEF GatewayInv, TypeOK
    <3>5. spent[today] < Budget + (n - c) * Most
      BY <1>3, <3>3, <3>4, BudgetAssumption
    <3> QED
      BY <1>2, <3>1, <3>2, <3>5 DEF Room
  <2> QED
    BY <2>1, <2>2
<1>10. FailsClosed'
  BY <1>2 DEF GatewayInv, FailsClosed
<1>11. TokensAccounted'
  <2>1. \A d \in Day : Share(job', w, d) = 0 /\ Share(job, w, d) = 0
    BY <1>2, <1>4, <1>5 DEF Share, Under
  <2> QED
    BY <1>2, <1>5, <1>6, <2>1, AccountKeeps DEF GatewayInv
<1> QED
  BY <1>6, <1>7, <1>8, <1>9, <1>10, <1>11 DEF GatewayInv

\* What the provider used stays within what a request may use: w goes on, and
\* its tokens with it.
LEMMA AnswerKeeps ==
  ASSUME GatewayInv, NEW w \in Worker, NEW t \in 1..MaxTokens, NEW J \in Job,
         job[w].phase = "calling", job' = [job EXCEPT ![w] = J],
         used' = Plus(used, job[w].day, t), UNCHANGED <<runs, spent, lost, today>>,
         J.phase \in {"calling", "answered"}, J.day = job[w].day,
         J.tokens = job[w].tokens + t,
         J.phase = "calling" => J.attempt = 2 /\ job[w].attempt = 1
  PROVE  GatewayInv'
<1>1. /\ job' \in [Worker -> Job] /\ job'[w] = J
      /\ \A v \in Worker \ {w} : job'[v] = job[v]
  BY JobStep DEF GatewayInv
<1>2. /\ job[w].day \in Day /\ job[w].day <= today /\ job[w].tokens \in Nat
      /\ job[w].attempt = 1 => job[w].tokens <= 0
      /\ today \in Nat /\ Day \subseteq Nat /\ t \in Nat /\ t <= MaxTokens
      /\ MaxTokens \in Nat
  <2>1. job[w].attempt \in {1, 2} /\ job[w].tokens \in 0..Most
    BY JobIs
  <2> QED
    BY <2>1, JobIs
<1>3. /\ used' \in [Day -> Nat]
      /\ \A d \in Day : used'[d] = used[d] + (IF d <= job[w].day THEN t ELSE 0)
  <2>1. used \in [Day -> Nat]
    BY DEF GatewayInv, TypeOK
  <2>2. t \in Nat /\ used' = Plus(used, job[w].day, t)
    BY <1>2
  <2> QED
    BY ONLY <2>1, <2>2, PlusTypes
<1>4. TypeOK'
  BY <1>1, <1>3 DEF GatewayInv, TypeOK
<1>5. (\A v \in Worker : Fits(v))'
  <2>1. J.phase = "calling" => J.tokens <= MaxTokens
    BY <1>2
  <2> QED
    BY <1>1, <2>1 DEF GatewayInv, Fits
<1>6. NoFuture'
  BY <1>1, <1>2 DEF GatewayInv, NoFuture
<1>7. Room'
  <2>1. w \in Busy(job', today) => w \in Busy(job, today)
    BY <1>1 DEF Busy, Under
  <2> QED
    BY <1>1, <2>1, RoomKeeps DEF GatewayInv
<1>8. FailsClosed'
  BY DEF GatewayInv, FailsClosed
<1>9. TokensAccounted'
  <2>1. ASSUME NEW d \in Day
        PROVE  used'[d] - spent'[d] - lost'[d] - Share(job', w, d)
                 = used[d] - spent[d] - lost[d] - Share(job, w, d)
    <3>1. used[d] \in Nat /\ spent[d] \in Nat /\ lost[d] \in Nat /\ d \in Nat /\ job[w].day \in Nat
      BY <1>2 DEF GatewayInv, TypeOK
    <3>2. /\ Share(job, w, d) = IF d <= job[w].day THEN job[w].tokens ELSE 0
          /\ Share(job', w, d) = IF d <= job[w].day THEN job[w].tokens + t ELSE 0
      BY <1>1, <3>1 DEF Share, Under
    <3> QED
      BY <1>2, <1>3, <3>1, <3>2
  <2> QED
    BY <1>1, <1>4, <2>1, AccountKeeps DEF GatewayInv
<1> QED
  BY <1>4, <1>5, <1>6, <1>7, <1>8, <1>9 DEF GatewayInv

LEMMA AnswerValidKeeps ==
  ASSUME GatewayInv, NEW w \in Worker, AnswerValid(w)
  PROVE  GatewayInv'
<1>1. PICK t \in 1..MaxTokens :
        /\ used' = Plus(used, job[w].day, t)
        /\ job' = [job EXCEPT ![w].phase = "answered", ![w].tokens = @ + t]
  BY DEF AnswerValid
<1>2. PICK J : J = [job[w] EXCEPT !.phase = "answered", !.tokens = @ + t]
  OBVIOUS
<1>3. job[w] \in Job /\ job[w].phase = "calling" /\ UNCHANGED <<runs, spent, lost, today>>
  BY JobIs DEF AnswerValid
<1>4. job' = [job EXCEPT ![w] = J]
  BY <1>1, <1>2 DEF GatewayInv, TypeOK
<1>5. J \in Job /\ J.phase = "answered" /\ J.day = job[w].day /\ J.tokens = job[w].tokens + t
  <2>1. PICK K \in [phase : {"calling", "answered"}, input : Input, day : Day,
                     attempt : {1, 2}, tokens : 0..Most] : K = job[w]
    BY <1>3 DEF Job, Most
  <2>2. K.tokens \in Nat /\ K.tokens <= MaxTokens
    <3>1. K.attempt \in {1, 2} /\ K.tokens \in Nat
      BY <2>1, JobIs
    <3> QED
      BY <1>3, <2>1, <3>1, JobIs
  <2>3. K.tokens + t \in 0..Most
    BY <2>2, MaxTokensAssumption DEF Most
  <2>4. J = [K EXCEPT !.phase = "answered", !.tokens = K.tokens + t]
    BY <1>2, <2>1
  <2> QED
    BY <2>1, <2>3, <2>4 DEF Job, Most
<1> QED
  BY <1>1, <1>3, <1>4, <1>5, AnswerKeeps

\* A request that ends lets go of its tokens: they are lost, or recorded.
LEMMA EndKeeps ==
  ASSUME GatewayInv, NEW w \in Worker, Under(job, w), today' = today,
         NEW t \in Nat, NEW kept \in Nat,
         job' = [job EXCEPT ![w] = Idle],
         \/ t + job[w].tokens = kept /\ spent' = spent /\ lost' = Plus(lost, job[w].day, kept)
         \/ t = 0 /\ spent' = Plus(spent, job[w].day, job[w].tokens) /\ lost' = lost,
         used' = Plus(used, job[w].day, t),
         runs' \in [Input -> [Status -> Nat]], FailsClosed'
  PROVE  GatewayInv'
<1>1. /\ job' \in [Worker -> Job] /\ job'[w] = Idle
      /\ \A v \in Worker \ {w} : job'[v] = job[v]
  BY IdleIs, JobStep DEF GatewayInv
<1>2. /\ job[w].day \in Day /\ job[w].day <= today /\ job[w].tokens \in Nat
      /\ job[w].tokens <= Most /\ today \in Nat /\ Day \subseteq Nat /\ Most \in Nat
  <2>1. job[w].phase \in {"calling", "answered"}
    BY DEF Under
  <2>2. job[w].tokens \in 0..Most
    BY <2>1, JobIs
  <2> QED
    BY <2>1, <2>2, JobIs
<1>3. spent \in [Day -> Nat] /\ lost \in [Day -> Nat] /\ used \in [Day -> Nat] /\ today \in Day
  BY DEF GatewayInv, TypeOK
<1>4. /\ used' \in [Day -> Nat]
      /\ \A d \in Day : used'[d] = used[d] + (IF d <= job[w].day THEN t ELSE 0)
  <2>1. t \in Nat /\ used \in [Day -> Nat] /\ used' = Plus(used, job[w].day, t)
    BY <1>3
  <2> QED
    BY ONLY <2>1, PlusTypes
<1>5. /\ spent' \in [Day -> Nat] /\ lost' \in [Day -> Nat]
      /\ \A d \in Day :
           \/ /\ t + job[w].tokens = kept /\ spent'[d] = spent[d]
              /\ lost'[d] = lost[d] + (IF d <= job[w].day THEN kept ELSE 0)
           \/ /\ t = 0 /\ lost'[d] = lost[d]
              /\ spent'[d] = spent[d] + (IF d <= job[w].day THEN job[w].tokens ELSE 0)
  <2>1. CASE /\ t + job[w].tokens = kept /\ spent' = spent
             /\ lost' = Plus(lost, job[w].day, kept)
    <3>1. kept \in Nat /\ lost \in [Day -> Nat] /\ lost' = Plus(lost, job[w].day, kept)
      BY <1>3, <2>1
    <3>2. /\ lost' \in [Day -> Nat]
          /\ \A d \in Day : lost'[d] = lost[d] + (IF d <= job[w].day THEN kept ELSE 0)
      BY ONLY <3>1, PlusTypes
    <3> QED
      BY <1>3, <2>1, <3>2
  <2>2. CASE t = 0 /\ spent' = Plus(spent, job[w].day, job[w].tokens) /\ lost' = lost
    <3>1. job[w].tokens \in Nat /\ spent \in [Day -> Nat]
          /\ spent' = Plus(spent, job[w].day, job[w].tokens)
      BY <1>2, <1>3, <2>2
    <3>2. /\ spent' \in [Day -> Nat]
          /\ \A d \in Day : spent'[d] = spent[d]
                             + (IF d <= job[w].day THEN job[w].tokens ELSE 0)
      BY ONLY <3>1, PlusTypes
    <3> QED
      BY <1>3, <2>2, <3>2
  <2> QED
    BY <2>1, <2>2
<1>6. TypeOK'
  BY <1>1, <1>3, <1>4, <1>5 DEF TypeOK
<1>7. (\A v \in Worker : Fits(v))'
  BY <1>1, IdleIs DEF GatewayInv, Fits
<1>8. NoFuture'
  <2>1. ASSUME NEW d \in Day, d > today PROVE spent'[d] = 0
    <3>1. spent[d] = 0
      BY <2>1 DEF GatewayInv, NoFuture
    <3>2. d \in Nat /\ job[w].day \in Nat
      BY <1>2
    <3>3. ~(d <= job[w].day)
      BY <1>2, <2>1, <3>2
    <3>4. \/ spent'[d] = spent[d]
          \/ spent'[d] = spent[d] + (IF d <= job[w].day THEN job[w].tokens ELSE 0)
      BY <1>5
    <3> QED
      BY <3>1, <3>3, <3>4
  <2>2. ASSUME NEW v \in Worker, job'[v].phase # "idle" PROVE job'[v].day <= today
    BY <1>1, <2>2, IdleIs DEF GatewayInv, NoFuture
  <2> QED
    BY <2>1, <2>2 DEF NoFuture
<1>9. Room'
  <2>1. w \notin Busy(job', today)
    BY <1>1, IdleIs
  <2>2. CASE spent'[today] = spent[today]
    BY <1>1, <2>1, <2>2, RoomKeeps DEF GatewayInv
  <2>3. CASE spent'[today] # spent[today]
    <3>1. spent'[today] = spent[today] + job[w].tokens /\ today <= job[w].day
      <4>1. spent'[today] = spent[today] + (IF today <= job[w].day THEN job[w].tokens ELSE 0)
        BY <1>3, <1>5, <2>3
      <4>2. spent[today] \in Nat
        BY <1>3
      <4>3. CASE today <= job[w].day
        BY <4>1, <4>3
      <4>4. CASE ~(today <= job[w].day)
        BY <2>3, <4>1, <4>2, <4>4
      <4> QED
        BY <4>3, <4>4
    <3>2. w \in Busy(job, today)
      <4>1. job[w].day \in Nat
        BY <1>2
      <4>2. job[w].day = today
        BY <1>2, <3>1, <4>1
      <4> QED
        BY <4>2 DEF Busy
    <3>3. PICK n \in Nat : n = Cardinality(Worker)
      BY BusyCounts
    <3>4. PICK b \in Nat : b = Cardinality(Busy(job, today))
      BY BusyCounts
    <3>5. PICK j : j = job
      OBVIOUS
    <3>6. PICK k : k = job'
      OBVIOUS
    <3>7. Cardinality(Busy(k, today)) = Cardinality(Busy(j, today)) - 1
      BY <1>1, <2>1, <3>2, <3>5, <3>6, BusyLeaves
    <3>8. ((n - b) + 1) * Most = (n - b) * Most + 1 * Most
      BY <1>2, <3>3, <3>4, Distribute
    <3>9. n - (b - 1) = (n - b) + 1 /\ (n - b) * Most \in Int /\ 1 * Most = Most
      BY <1>2, <3>3, <3>4
    <3>10. spent[today] < Budget + (n - b) * Most /\ spent[today] \in Nat
      BY <1>3, <3>3, <3>4 DEF GatewayInv, Room
    <3>11. spent'[today] < Budget + (n - (b - 1)) * Most
      BY <1>2, <3>1, <3>8, <3>9, <3>10, BudgetAssumption
    <3>12. Cardinality(Busy(job', today)) = b - 1
      BY <3>4, <3>5, <3>6, <3>7
    <3> QED
      BY <3>3, <3>11, <3>12 DEF Room
  <2> QED
    BY <2>2, <2>3
<1>10. TokensAccounted'
  <2>1. ASSUME NEW d \in Day
        PROVE  used'[d] - spent'[d] - lost'[d] - Share(job', w, d)
                 = used[d] - spent[d] - lost[d] - Share(job, w, d)
    <3>1. used[d] \in Nat /\ spent[d] \in Nat /\ lost[d] \in Nat /\ d \in Nat /\ job[w].day \in Nat
      BY <1>2, <1>3
    <3>2. /\ Share(job, w, d) = IF d <= job[w].day THEN job[w].tokens ELSE 0
          /\ Share(job', w, d) = 0
      BY <1>1, <3>1, IdleIs DEF Share
    <3> QED
      BY <1>2, <1>4, <1>5, <3>1, <3>2
  <2> QED
    BY <1>1, <1>6, <2>1, AccountKeeps DEF GatewayInv
<1> QED
  BY <1>6, <1>7, <1>8, <1>9, <1>10 DEF GatewayInv

LEMMA PlusNothing ==
  ASSUME NEW count \in [Day -> Nat], NEW day
  PROVE  Plus(count, day, 0) = count
  BY DEF Plus

LEMMA RollBackKeeps ==
  ASSUME GatewayInv, NEW w \in Worker, Under(job, w), NEW t \in Nat, RollBack(w, t),
         used' = Plus(used, job[w].day, t)
  PROVE  GatewayInv'
<1>1. job[w].tokens \in Nat
  <2>1. job[w].tokens \in 0..Most /\ Most \in Nat
    BY JobIs DEF Under
  <2> QED
    BY <2>1
<1>2. PICK kept \in Nat : kept = t + job[w].tokens /\ kept = job[w].tokens + t
  BY <1>1
<1>3. /\ lost' = Plus(lost, job[w].day, kept) /\ spent' = spent /\ today' = today
      /\ runs' = runs /\ job' = [job EXCEPT ![w] = Idle]
  BY <1>2 DEF RollBack
<1>4. runs' \in [Input -> [Status -> Nat]] /\ FailsClosed'
  BY <1>3 DEF GatewayInv, TypeOK, FailsClosed
<1> QED
  BY <1>2, <1>3, <1>4, EndKeeps

LEMMA RaisesKeeps ==
  ASSUME GatewayInv, NEW w \in Worker, RejectUncited(w) \/ Crash(w)
  PROVE  GatewayInv'
<1>1. RollBack(w, 0) /\ used' = used /\ Under(job, w) /\ used \in [Day -> Nat]
  BY DEF RejectUncited, Crash, Calling, Under, GatewayInv, TypeOK
<1>2. used' = Plus(used, job[w].day, 0)
  BY <1>1, PlusNothing
<1> QED
  BY <1>1, <1>2, RollBackKeeps

LEMMA ProviderFailsKeeps ==
  ASSUME GatewayInv, NEW w \in Worker, ProviderFails(w)
  PROVE  GatewayInv'
<1>1. PICK t \in 0..MaxTokens : used' = Plus(used, job[w].day, t) /\ RollBack(w, t)
  BY DEF ProviderFails
<1>2. t \in Nat /\ Under(job, w)
  BY MaxTokensAssumption DEF ProviderFails, Under
<1> QED
  BY <1>1, <1>2, RollBackKeeps

LEMMA AnswerInvalidKeeps ==
  ASSUME GatewayInv, NEW w \in Worker, AnswerInvalid(w)
  PROVE  GatewayInv'
<1>1. PICK t \in 1..MaxTokens :
        /\ used' = Plus(used, job[w].day, t)
        /\ \/ /\ job[w].attempt = 1
              /\ job' = [job EXCEPT ![w].attempt = 2, ![w].tokens = @ + t]
              /\ UNCHANGED <<runs, spent, lost, today>>
           \/ RollBack(w, t)
  BY DEF AnswerInvalid
<1>2. job[w].phase = "calling" /\ job[w] \in Job /\ t \in Nat /\ Under(job, w)
  BY JobIs, MaxTokensAssumption DEF AnswerInvalid, Under
<1>3. CASE RollBack(w, t)
  BY <1>1, <1>2, <1>3, RollBackKeeps
<1>4. CASE /\ job[w].attempt = 1
           /\ job' = [job EXCEPT ![w].attempt = 2, ![w].tokens = @ + t]
           /\ UNCHANGED <<runs, spent, lost, today>>
  <2>1. PICK J : J = [job[w] EXCEPT !.attempt = 2, !.tokens = @ + t]
    OBVIOUS
  <2>2. job' = [job EXCEPT ![w] = J]
    BY <1>4, <2>1 DEF GatewayInv, TypeOK
  <2>3. /\ J \in Job /\ J.phase = "calling" /\ J.day = job[w].day /\ J.attempt = 2
        /\ J.tokens = job[w].tokens + t
    <3>1. PICK K \in [phase : {"calling", "answered"}, input : Input, day : Day,
                       attempt : {1, 2}, tokens : 0..Most] : K = job[w]
      BY <1>2 DEF Job, Most
    <3>2. K.tokens \in Nat /\ K.tokens <= 0
      BY <1>2, <1>4, <3>1, JobIs
    <3>3. K.tokens + t \in 0..Most
      BY <3>2, MaxTokensAssumption DEF Most
    <3>4. J = [K EXCEPT !.attempt = 2, !.tokens = K.tokens + t]
      BY <2>1, <3>1
    <3> QED
      BY <1>2, <3>1, <3>3, <3>4 DEF Job, Most
  <2> QED
    BY <1>1, <1>2, <1>4, <2>2, <2>3, AnswerKeeps
<1> QED
  BY <1>1, <1>3, <1>4

LEMMA CommitKeeps ==
  ASSUME GatewayInv, NEW w \in Worker, Commit(w)
  PROVE  GatewayInv'
<1>1. /\ job[w].phase = "answered" /\ Under(job, w)
      /\ job' = [job EXCEPT ![w] = Idle] /\ used' = used /\ lost' = lost /\ today' = today
      /\ spent' = Plus(spent, job[w].day, job[w].tokens)
      /\ runs' = [runs EXCEPT ![job[w].input].ok = @ + 1,
                              ![job[w].input].invalid = @ + Invalid(w)]
  BY DEF Commit, Under
<1>2. used' = Plus(used, job[w].day, 0)
  BY <1>1, PlusNothing DEF GatewayInv, TypeOK
<1>3. job[w].input \in Input /\ job[w].attempt \in {1, 2}
  BY <1>1, JobIs
<1>4. Invalid(w) \in 0..1
  BY <1>3 DEF Invalid
<1>5. PICK i \in Input : i = job[w].input
  BY <1>3
<1>6. PICK m \in 0..1 : m = Invalid(w)
  BY <1>4
<1>7. /\ runs' = [runs EXCEPT ![i].ok = @ + 1, ![i].invalid = @ + m]
      /\ runs \in [Input -> [Status -> Nat]]
  <2>1. runs \in [Input -> [Status -> Nat]]
    BY DEF GatewayInv, TypeOK
  <2>2. runs' = [runs EXCEPT ![i].ok = @ + 1, ![i].invalid = @ + m]
    BY ONLY <1>1, <1>5, <1>6
  <2> QED
    BY ONLY <2>1, <2>2
<1>8. runs' \in [Input -> [Status -> Nat]]
  <2>1. PICK r : r = [runs[i] EXCEPT !.ok = @ + 1, !.invalid = @ + m]
    OBVIOUS
  <2>2. runs[i] \in [Status -> Nat] /\ r \in [Status -> Nat]
    <3>1. PICK q \in [Status -> Nat] : q = runs[i]
      BY <1>7
    <3>2. r = [q EXCEPT !.ok = @ + 1, !.invalid = @ + m] /\ m \in Nat
      BY <2>1, <3>1
    <3>3. r \in [Status -> Nat]
      <4>1. q.ok \in Nat /\ q.invalid \in Nat
        BY DEF Status
      <4>2. PICK ok \in Nat : ok = q.ok + 1
        BY <4>1
      <4>3. PICK invalid \in Nat : invalid = q.invalid + m
        BY <3>2, <4>1
      <4>4. r = [q EXCEPT !.ok = ok, !.invalid = invalid]
        BY <3>2, <4>2, <4>3
      <4> QED
        BY <4>4
    <3> QED
      BY <3>1, <3>3
  <2>3. runs' = [runs EXCEPT ![i] = r]
    BY <1>7, <2>1
  <2> QED
    BY <1>7, <2>2, <2>3
<1>9. FailsClosed'
  <2>1. /\ runs'[i].ok = runs[i].ok + 1 /\ runs'[i].invalid = runs[i].invalid + m
        /\ runs'[i].cached = runs[i].cached
        /\ runs[i].ok \in Nat /\ runs[i].invalid \in Nat /\ runs[i].cached \in Nat
    BY <1>7 DEF Status
  <2>2. \A k \in Input \ {i} : runs'[k] = runs[k]
    BY <1>7
  <2>3. FailsClosed
    BY DEF GatewayInv
  <2> QED
    BY <2>1, <2>2, <2>3 DEF FailsClosed
<1> QED
  BY <1>1, <1>2, <1>8, <1>9, EndKeeps

LEMMA GatewayInvariant == Spec => []GatewayInv
<1>1. GatewayInv /\ [Next]_vars => GatewayInv'
  <2> SUFFICES ASSUME GatewayInv, [Next]_vars PROVE GatewayInv'
    OBVIOUS
  <2>1. CASE UNCHANGED vars
    BY <2>1 DEF vars, GatewayInv, TypeOK, Fits, NoFuture, Room, FailsClosed,
                TokensAccounted, Pending, Calling
  <2>2. CASE Next
    BY <2>2, TickKeeps, ServeCachedKeeps, CacheMissKeeps, RefuseBudgetKeeps,
       CallProviderKeeps, AnswerValidKeeps, AnswerInvalidKeeps, ProviderFailsKeeps,
       RaisesKeeps, CommitKeeps DEF Next
  <2> QED
    BY <2>1, <2>2
<1> QED
  BY <1>1, GatewayInitially, PTL DEF Spec

-----------------------------------------------------------------------------
(* What is proved of the gateway.                                          *)

\* What the gateway keeps stays within its types.
THEOREM GatewayTypes == Spec => []TypeOK
  BY GatewayInvariant, PTL DEF GatewayInv

\* LLMGateway.run and its callers' rollbacks: every token the provider used is
\* recorded once, on a row of a request under way, or lost with one that failed.
THEOREM GatewayAccounts == Spec => []TokensAccounted
  BY GatewayInvariant, PTL DEF GatewayInv

\* The check of the budget and the commits of requests that passed it together:
\* for any number of workers a day's record stays below the budget and two calls
\* of each of them.
THEOREM GatewayOverrun == Spec => []OverrunBounded
<1>1. GatewayInv => OverrunBounded
  <2> SUFFICES ASSUME GatewayInv PROVE OverrunBounded
    OBVIOUS
  <2>1. PICK n \in Nat : n = Cardinality(Worker)
    BY BusyCounts
  <2>2. PICK b \in Nat : b = Cardinality(Busy(job, today))
    BY BusyCounts
  <2>3. Most \in Nat /\ Budget \in Nat /\ spent[today] \in Nat
    BY MaxTokensAssumption, BudgetAssumption DEF Most, GatewayInv, TypeOK
  <2>4. (n - b) * Most <= n * Most /\ (n - b) * Most \in Int /\ n * Most \in Int
    BY <2>1, <2>2, <2>3, ProductGrows
  <2>5. spent[today] < Budget + (n - b) * Most
    BY <2>1, <2>2 DEF GatewayInv, Room
  <2>6. spent[today] < Budget + n * Most
    BY <2>3, <2>4, <2>5
  <2> QED
    BY <2>1, <2>6 DEF OverrunBounded, Most
<1> QED
  BY <1>1, GatewayInvariant, PTL

\* An invalid output is kept only beside a valid one, and nothing is replayed
\* that was not validated.
THEOREM GatewayFailsClosed == Spec => []FailsClosed
  BY GatewayInvariant, PTL DEF GatewayInv
=============================================================================
