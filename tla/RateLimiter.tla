---------------------------- MODULE RateLimiter ----------------------------
(***************************************************************************)
(* The per-client token buckets of RateLimiter.  A listener has a limiter  *)
(* of its own and a client a bucket in each.  Tokens are counted in units: *)
(* a request costs Cost units and a tick of the clock adds Rate[l], so     *)
(* that the fractions the code keeps in a float64 are whole numbers here.  *)
(***************************************************************************)
EXTENDS Clock

CONSTANTS
  Limiter,    \* the limiters of the box
  Client,     \* client addresses, the keys of the buckets
  Cost,       \* the units of one token
  Rate,       \* per limiter, the units added by one tick
  Burst,      \* per limiter, the units of a full bucket
  IdleTTL     \* GCOnce evicts a bucket idle for longer

ASSUME CostAssumption == Cost \in Nat \ {0}
ASSUME RateAssumption == Rate \in [Limiter -> Nat] /\ Burst \in [Limiter -> Nat]
(* In main(): 600s at 2 a second for a burst of 5, at 10 for one of 20.    *)
ASSUME IdleAssumption ==
  IdleTTL \in Nat /\ \A l \in Limiter : Rate[l] * IdleTTL >= Burst[l]

VARIABLES
  buckets,    \* per limiter and client: the tokenBucket, or NoBucket
  since       \* history: per limiter, client and instant s, the requests
              \* granted at s or later

limiterVars == <<buckets, since>>

NoBucket == [tokens |-> 0, last |-> 0, made |-> FALSE]
Bucket   == [tokens : Nat, last : Instant, made : BOOLEAN]

LimiterTypeOK ==
  /\ buckets \in [Limiter -> [Client -> Bucket]]
  /\ since \in [Limiter -> [Client -> [Instant -> Nat]]]

LimiterInit ==
  /\ buckets = [l \in Limiter |-> [c \in Client |-> NoBucket]]
  /\ since = [l \in Limiter |-> [c \in Client |-> [s \in Instant |-> 0]]]

-----------------------------------------------------------------------------
(* Seeded fault: the time of the refill is taken and the tokens are not.   *)
RefilledLost(l, c) ==
  LET b == buckets[l][c]
  IN  IF b.made THEN [b EXCEPT !.last = now]
                ELSE [tokens |-> Burst[l], last |-> now, made |-> TRUE]

(* The bucket as Allow leaves it before it takes a token: a new one is     *)
(* full, an old one is refilled for the time since last, up to the burst.  *)
Refilled(l, c) ==
  LET b    == buckets[l][c]
      fill == b.tokens + Rate[l] * (now - b.last)
  IN  [tokens |-> IF b.made /\ fill < Burst[l] THEN fill ELSE Burst[l],
       last   |-> now,
       made   |-> TRUE]

Granted(l, c) == Refilled(l, c).tokens >= Cost

(* Seeded fault: the token is taken without a look at the bucket.          *)
AllowUnchecked(l, c) ==
  /\ buckets' = [buckets EXCEPT ![l][c] =
                   [Refilled(l, c) EXCEPT !.tokens = @ - Cost]]
  /\ since' = [since EXCEPT ![l][c] =
                 [s \in Instant |-> IF s <= now THEN @[s] + 1 ELSE @[s]]]

(* Allow returns true and takes a token.                                   *)
Allow(l, c) ==
  /\ Granted(l, c)
  /\ buckets' = [buckets EXCEPT ![l][c] =
                   [Refilled(l, c) EXCEPT !.tokens = @ - Cost]]
  /\ since' = [since EXCEPT ![l][c] =
                 [s \in Instant |-> IF s <= now THEN @[s] + 1 ELSE @[s]]]

(* Allow returns false; the refill is kept.                                *)
Throttle(l, c) ==
  /\ ~Granted(l, c)
  /\ buckets' = [buckets EXCEPT ![l][c] = Refilled(l, c)]
  /\ UNCHANGED since

(* Seeded fault: idleTTL is not looked at.                                 *)
GCOnceEager(l) ==
  /\ buckets' = [buckets EXCEPT ![l] =
       [c \in Client |-> IF @[c].made /\ now > @[c].last THEN NoBucket ELSE @[c]]]
  /\ UNCHANGED since

GCOnce(l) ==
  /\ buckets' = [buckets EXCEPT ![l] =
       [c \in Client |-> IF @[c].made /\ now - @[c].last > IdleTTL
                         THEN NoBucket ELSE @[c]]]
  /\ UNCHANGED since

-----------------------------------------------------------------------------
(* NewRateLimiter: a burst back to back, then the steady rate.  In every   *)
(* window of time a client is granted no more requests than a full bucket  *)
(* and the refill of the window pay for; no order of refills, refusals and *)
(* evictions hands out a token twice.                                      *)
WithinWindow ==
  \A l \in Limiter, c \in Client : \A s \in 0 .. now :
    Cost * since[l][c][s] <= Burst[l] + Rate[l] * (now - s)

(* RateLimiter: "the first requests in a session are never throttled", and *)
(* no refused request costs anything.  A client is throttled only when in  *)
(* some window one more request would exceed that allowance.               *)
ThrottledOnlyWhenSpent ==
  \A l \in Limiter, c \in Client :
    ~Granted(l, c) => \E s \in 0 .. now :
      Cost * (since[l][c][s] + 1) > Burst[l] + Rate[l] * (now - s)
=============================================================================
