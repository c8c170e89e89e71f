------------------------------ MODULE RateLimiter ------------------------------
(***************************************************************************)
(* TokenBucketRateLimiter (src/src/predictfun/rate_limit.py): a bucket of  *)
(* tokens that fills with time and is drawn on by requests.                *)
(*                                                                         *)
(* Time advances in steps; now is the caller's reading of the clock, which *)
(* may be behind an earlier one (the parameter of a caller; the monotonic  *)
(* clock, which is the default, is not).                                   *)
(***************************************************************************)
EXTENDS Integers, FiniteSetsExt

CONSTANTS Capacity,   \* capacity: what a full bucket holds
          Refill,     \* refill_per_second, for a step of the clock
          Requests,   \* amounts a caller asks for
          LastMoment  \* bound: the latest reading of the clock

ASSUME LimiterAssumption ==
  /\ Capacity \in Nat /\ Refill \in Nat /\ LastMoment \in Nat
  /\ Requests \subseteq Nat \ {0}

VARIABLES bucket,   \* the limiter: no tokens before its first use
          granted,  \* history: what it has granted
          read,     \* history: the last reading of the clock it was given
          passed    \* history: how far the readings went forward, step by step

limiterVars == <<bucket, granted, read, passed>>

Moment == 0..LastMoment

Unused == [used |-> FALSE, tokens |-> 0, updatedAt |-> 0]

Elapsed(now) == IF bucket.used THEN Max({0, now - bucket.updatedAt}) ELSE 0

\* Mutant: the reading of the clock is kept on the first use only.
RefilledSinceFirst(now) ==
  [used      |-> TRUE,
   tokens    |-> IF bucket.used
                 THEN Min({Capacity, bucket.tokens + Elapsed(now) * Refill})
                 ELSE Capacity,
   updatedAt |-> IF bucket.used THEN bucket.updatedAt ELSE now]

Refilled(now) ==
  [used      |-> TRUE,
   tokens    |-> IF bucket.used
                 THEN Min({Capacity, bucket.tokens + Elapsed(now) * Refill})
                 ELSE Capacity,
   updatedAt |-> now]

LimiterInit == bucket = Unused /\ granted = 0 /\ read = 0 /\ passed = 0

Reads(now) ==
  /\ read' = now
  /\ passed' = IF bucket.used THEN passed + Max({0, now - read}) ELSE passed

\* try_acquire
Acquire(now, amount) ==
  LET filled == Refilled(now)
      enough == filled.tokens >= amount
  IN /\ bucket' = IF enough THEN [filled EXCEPT !.tokens = @ - amount] ELSE filled
     /\ granted' = IF enough THEN granted + amount ELSE granted
     /\ Reads(now)

\* seconds_until_available fills the bucket as well.
AskWait(now) ==
  /\ bucket' = Refilled(now)
  /\ Reads(now)
  /\ UNCHANGED granted

LimiterNext ==
  \E now \in Moment :
    \/ \E amount \in Requests : Acquire(now, amount)
    \/ AskWait(now)

LimiterSpec == LimiterInit /\ [][LimiterNext]_limiterVars

-----------------------------------------------------------------------------

\* The limiter never grants more than a full bucket and what the time that
\* passed between its calls fills, however often it was asked and whichever
\* way the clock went (rate_limit.py:26-33).
NeverOverspends ==
  /\ bucket.tokens \in 0..Capacity
  /\ granted + bucket.tokens <= Capacity + Refill * passed
=============================================================================
