------------------------------ MODULE MCLimits ------------------------------
(* What limits a tenant's requests: the daily token budget of the LLM      *)
(* gateway and the rate limiter's buckets, instances of LlmGateway and     *)
(* RateLimiter for TLC.  They share no variable, so one of them moves      *)
(* while the other rests in its initial state.                             *)
EXTENDS LlmGateway, RateLimiter, TLC

CONSTANTS a, b, ticket, narrative

\* An expensive and a standard class, scaled down: buckets of two tokens and of
\* one, a token in five ticks and in two and a half.
Capacities == [expensive |-> 10, standard |-> 5]
Refills == [expensive |-> 1, standard |-> 2]

LimitsInit == Init /\ RateInit

LimitsNext ==
  \/ RateInit /\ Next /\ UNCHANGED rateVars
  \/ Init /\ RateNext /\ UNCHANGED vars

LimitsSpec == LimitsInit /\ [][LimitsNext]_<<vars, rateVars>>

\* Request threads are interchangeable.
Symmetry == Permutations({a, b})
=============================================================================
