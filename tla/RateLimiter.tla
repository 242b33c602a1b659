---------------------------- MODULE RateLimiter ----------------------------
(***************************************************************************)
(* Token-bucket rate limiting (rig/ratelimit.py).  The middleware is a     *)
(* coroutine of the one event loop and awaits nothing before it has        *)
(* checked, so a request's check is one step.                              *)
(*                                                                         *)
(* Time is in ticks, Second of them to the second; tokens are in units,    *)
(* Unit of them to a token, so that what a tick refills is a whole number. *)
(* The names are those of no other component, so that the module can stand *)
(* beside one in a run.                                                    *)
(***************************************************************************)
EXTENDS Integers, Sequences

CONSTANTS Key,        \* the bearer tokens, or addresses, requests are keyed on
          Class,      \* cost classes
          Capacity,   \* [Class -> units of a full bucket]
          Refill,     \* [Class -> units per tick]
          Unit,       \* units of one token
          Second,     \* ticks of one second
          MaxTime     \* bound on the time

ASSUME LimitsAssumption ==
  /\ Capacity \in [Class -> Nat]
  /\ Refill \in [Class -> Nat \ {0}]
  /\ \A c \in Class : Capacity[c] >= Unit
ASSUME ScaleAssumption == Unit \in Nat \ {0} /\ Second \in Nat \ {0}
ASSUME HorizonAssumption == MaxTime \in Nat

VARIABLES
  now,       \* time.monotonic()
  bucket,    \* [Key -> [Class -> the bucket, or none yet]]
  grants,    \* [Key -> [Class -> when requests were let through]]
  told,      \* [Key -> [Class -> when the last denied request may come back]]
  denials    \* [Key -> [Class -> denials since the last grant, each of a
             \*                   request that waited as told]]

rateVars == <<now, bucket, grants, told, denials>>

NoBucket == [tokens |-> -1, updated |-> 0]

AtMost(a, b) == IF a <= b THEN a ELSE b

-----------------------------------------------------------------------------
(* RateLimiter.check.                                                      *)

\* Mutant of Refilled: nothing caps what an idle bucket collects.
RefilledUncapped(k, c) ==
  IF bucket[k][c] = NoBucket THEN Capacity[c]
  ELSE bucket[k][c].tokens + (now - bucket[k][c].updated) * Refill[c]

\* A new bucket is full; another collects what the time since brings.
Refilled(k, c) ==
  IF bucket[k][c] = NoBucket THEN Capacity[c]
  ELSE AtMost(Capacity[c],
              bucket[k][c].tokens + (now - bucket[k][c].updated) * Refill[c])

\* Mutant of Hint: rounded down.
HintDown(c, missing) == missing \div (Refill[c] * Second)

\* Retry-After in whole seconds: the wait for the missing units, rounded to
\* the nearest second, and at least one.
Hint(c, missing) ==
  LET nearest == (2 * missing + Refill[c] * Second) \div (2 * Refill[c] * Second)
  IN IF nearest < 1 THEN 1 ELSE nearest

\* The request waited as told: it is not one of a client that hammers.
Waited(k, c) == now >= told[k][c]

\* A token is there: the request goes on to its handler.
Grant(k, c) ==
  /\ Refilled(k, c) >= Unit
  /\ bucket' = [bucket EXCEPT ![k][c] = [tokens |-> Refilled(k, c) - Unit, updated |-> now]]
  /\ grants' = [grants EXCEPT ![k][c] = Append(@, now)]
  /\ told' = [told EXCEPT ![k][c] = now]
  /\ denials' = [denials EXCEPT ![k][c] = 0]
  /\ UNCHANGED now

\* 429 with Retry-After.
Deny(k, c) ==
  /\ Refilled(k, c) < Unit
  /\ bucket' = [bucket EXCEPT ![k][c] = [tokens |-> Refilled(k, c), updated |-> now]]
  /\ told' = [told EXCEPT ![k][c] = now + Hint(c, Unit - Refilled(k, c)) * Second]
  /\ denials' = [denials EXCEPT ![k][c] = IF Waited(k, c) THEN @ + 1 ELSE @]
  /\ UNCHANGED <<now, grants>>

Clock ==
  /\ now < MaxTime
  /\ now' = now + 1
  /\ UNCHANGED <<bucket, grants, told, denials>>

RateInit ==
  /\ now = 0
  /\ bucket = [k \in Key |-> [c \in Class |-> NoBucket]]
  /\ grants = [k \in Key |-> [c \in Class |-> <<>>]]
  /\ told = [k \in Key |-> [c \in Class |-> 0]]
  /\ denials = [k \in Key |-> [c \in Class |-> 0]]

RateNext ==
  \/ Clock
  \/ \E k \in Key, c \in Class : Grant(k, c) \/ Deny(k, c)

RateSpec == RateInit /\ [][RateNext]_rateVars

-----------------------------------------------------------------------------

Buckets == [tokens : Nat, updated : Nat]

RateTypeOK ==
  /\ now \in Nat
  /\ bucket \in [Key -> [Class -> Buckets \cup {NoBucket}]]
  /\ grants \in [Key -> [Class -> Seq(Nat)]]
  /\ told \in [Key -> [Class -> Nat]]
  /\ denials \in [Key -> [Class -> Nat]]

\* No two grants at the times of s, nor those between them, are more than a
\* full bucket and the time between the two pay for.
WithinRate(s, c) ==
  \A i, j \in 1..Len(s) :
    i <= j => (j - i + 1) * Unit <= Capacity[c] + (s[j] - s[i]) * Refill[c]

\* Whatever bursts, pauses and denials came before, no window of time lets
\* more requests through than the limit.
NeverAboveRate == \A k \in Key, c \in Class : WithinRate(grants[k][c], c)

\* Retry-After is rounded to the nearest second, so a client that comes back
\* when it was told may be early and denied again; but not a third time.
ThirdTimeServed == \A k \in Key, c \in Class : denials[k][c] <= 2
=============================================================================
