-------------------------- MODULE FrontDoorProofs --------------------------
(***************************************************************************)
(* Theorems about FrontDoor: what the limiters grant, what that leaves to  *)
(* guesses and joins, and how long a revoked key works, for every number   *)
(* of clients, requests and keys and every rate, burst and timeout.        *)
(***************************************************************************)
EXTENDS FrontDoor, FiniteSetTheorems, TLAPS

-----------------------------------------------------------------------------
(* The limiters.                                                           *)

(* What Allow would find in the bucket now.                                *)
Level(l, c) == Refilled(l, c).tokens

Bucketed ==
  \A l \in Limiter, c \in Client :
    buckets[l][c].last <= now /\ buckets[l][c].tokens <= Burst[l]

Fresh ==
  \A l \in Limiter, c \in Client : \A s \in Instant :
    s > now => since[l][c][s] = 0

(* Allowance of the window from s on, and what was used of it or is there. *)
Allowance(l, s) == Burst[l] + Rate[l] * (now - s)
Used(l, c, s)   == Cost * since[l][c][s] + Level(l, c)

Paid ==
  \A l \in Limiter, c \in Client : \A s \in 0 .. now : Used(l, c, s) <= Allowance(l, s)

(* In some window, the one since the bucket was last full, nothing was     *)
(* lost.                                                                   *)
Spent ==
  \A l \in Limiter, c \in Client : \E s \in 0 .. now : Used(l, c, s) = Allowance(l, s)

LimiterInv ==
  ClockTypeOK /\ LimiterTypeOK /\ Bucketed /\ Fresh /\ Paid /\ Spent

LEMMA Product == ASSUME NEW a \in Nat, NEW b \in Nat PROVE a * b \in Nat
  OBVIOUS

LEMMA ProductGrows ==
  ASSUME NEW a \in Nat, NEW b \in Nat, NEW d \in Nat, b <= d
  PROVE  a * b <= a * d
<1>1. PICK e \in Nat : d = b + e
  <2>1. d - b \in Nat /\ d = b + (d - b)
    OBVIOUS
  <2> QED
    BY <2>1
<1>2. a * d = a * b + a * e
  BY <1>1
<1> QED
  BY <1>2, Product

LEMMA OneMore ==
  ASSUME NEW a \in Nat, NEW n \in Nat, NEW s \in Nat
  PROVE  a * ((n + 1) - s) = a * (n - s) + a /\ a * (n - n) = 0
  OBVIOUS

LEMMA Numbers ==
  ASSUME LimiterInv, NEW l \in Limiter, NEW c \in Client
  PROVE  /\ now \in Nat /\ Cost \in Nat /\ Cost > 0
         /\ Rate[l] \in Nat /\ Burst[l] \in Nat
         /\ buckets[l][c] \in Bucket
         /\ buckets[l][c].tokens \in Nat /\ buckets[l][c].last \in Nat
         /\ buckets[l][c].last <= now
         /\ now - buckets[l][c].last \in Nat
         /\ Rate[l] * (now - buckets[l][c].last) \in Nat
<1>1. /\ now \in Nat /\ Cost \in Nat /\ Cost > 0
      /\ Rate[l] \in Nat /\ Burst[l] \in Nat
  BY ClockAssumption, CostAssumption, RateAssumption
     DEF LimiterInv, ClockTypeOK, Instant
<1>2. /\ buckets[l][c] \in Bucket
      /\ buckets[l][c].tokens \in Nat /\ buckets[l][c].last \in Nat
      /\ buckets[l][c].last <= now
  BY ClockAssumption DEF LimiterInv, LimiterTypeOK, Bucketed, Bucket, Instant
<1>3. now - buckets[l][c].last \in Nat
  BY <1>1, <1>2
<1> QED
  BY <1>1, <1>2, <1>3, Product

LEMMA LevelIs ==
  ASSUME LimiterInv, NEW l \in Limiter, NEW c \in Client
  PROVE  /\ Level(l, c) \in Nat
         /\ Level(l, c) <= Burst[l]
         /\ LET fill == buckets[l][c].tokens + Rate[l] * (now - buckets[l][c].last)
            IN  Level(l, c) = IF buckets[l][c].made /\ fill < Burst[l]
                              THEN fill ELSE Burst[l]
         /\ Granted(l, c) <=> Level(l, c) >= Cost
<1>1. \A x, y \in Nat : x + y \in Nat
  OBVIOUS
<1> QED
  BY <1>1, Numbers DEF Level, Refilled, Granted

LEMMA SinceIs ==
  ASSUME LimiterInv, NEW l \in Limiter, NEW c \in Client, NEW s \in Instant
  PROVE  /\ since[l][c][s] \in Nat /\ s \in Nat
         /\ Cost * since[l][c][s] \in Nat
<1>1. since[l][c][s] \in Nat /\ s \in Nat
  BY ClockAssumption DEF LimiterInv, LimiterTypeOK, Instant
<1> QED
  BY <1>1, CostAssumption, Product

LEMMA LimiterStarts == ClockInit /\ LimiterInit => LimiterInv
<1> SUFFICES ASSUME ClockInit, LimiterInit PROVE LimiterInv
  OBVIOUS
<1>1. ClockTypeOK /\ LimiterTypeOK
  BY ClockAssumption DEF ClockInit, ClockTypeOK, LimiterInit, LimiterTypeOK,
     Instant, Bucket, NoBucket
<1>2. Bucketed /\ Fresh
  BY RateAssumption DEF ClockInit, LimiterInit, Bucketed, Fresh, NoBucket
<1>3. ASSUME NEW l \in Limiter, NEW c \in Client
      PROVE  Level(l, c) = Burst[l]
  BY <1>3 DEF LimiterInit, NoBucket, Level, Refilled
<1>4. 0 \in Instant /\ 0 .. now = {0} /\ now = 0
  BY ClockAssumption DEF ClockInit, Instant
<1>5. ASSUME NEW l \in Limiter, NEW c \in Client
      PROVE  Used(l, c, 0) = Allowance(l, 0) /\ Used(l, c, 0) \in Nat
  <2>1. since[l][c][0] = 0
    BY <1>4 DEF LimiterInit
  <2> QED
    BY <1>3, <1>4, <2>1, RateAssumption, CostAssumption DEF Used, Allowance
<1> QED
  BY <1>1, <1>2, <1>4, <1>5 DEF LimiterInv, Paid, Spent

(* Time passes: the level grows by the rate at most, and every window's    *)
(* allowance by the rate.                                                  *)
LEMMA TickLevels ==
  ASSUME LimiterInv, Tick, UNCHANGED limiterVars,
         NEW l \in Limiter, NEW c \in Client
  PROVE  \/ Level(l, c)' = Level(l, c) + Rate[l] /\ Level(l, c)' <= Burst[l]
         \/ Level(l, c)' = Burst[l] /\ Burst[l] <= Level(l, c) + Rate[l]
<1> DEFINE b    == buckets[l][c]
           fill == b.tokens + Rate[l] * (now - b.last)
<1>1. now' = now + 1 /\ buckets' = buckets
  BY DEF Tick, limiterVars
<1>2. b.tokens + Rate[l] * ((now + 1) - b.last) = fill + Rate[l] /\ fill \in Nat
  BY Numbers, OneMore
<1>3. Level(l, c)' = IF b.made /\ fill + Rate[l] < Burst[l]
                     THEN fill + Rate[l] ELSE Burst[l]
  BY <1>1, <1>2, Numbers DEF Level, Refilled
<1>4. Level(l, c) = IF b.made /\ fill < Burst[l] THEN fill ELSE Burst[l]
  BY LevelIs
<1> HIDE DEF fill, b
<1> QED
  BY <1>2, <1>3, <1>4, Numbers

LEMMA TickKeepsLimiters ==
  ASSUME LimiterInv, Tick, UNCHANGED limiterVars PROVE LimiterInv'
<1>1. now' = now + 1 /\ now < MaxClock /\ now \in Nat /\ buckets' = buckets /\ since' = since
  BY ClockAssumption DEF LimiterInv, ClockTypeOK, Instant, Tick, limiterVars
<1>2. ClockTypeOK' /\ LimiterTypeOK'
  BY <1>1, ClockAssumption DEF LimiterInv, ClockTypeOK, LimiterTypeOK, Instant
<1>3. Bucketed'
  BY <1>1, Numbers DEF LimiterInv, Bucketed
<1>4. Fresh'
  BY <1>1, ClockAssumption DEF LimiterInv, Fresh, Instant
<1>5. \A s \in 0 .. now : s \in Instant /\ s \in Nat /\ s \in 0 .. now'
  BY <1>1, ClockAssumption DEF Instant
<1>6. ASSUME NEW l \in Limiter, NEW c \in Client, NEW s \in 0 .. now
      PROVE  /\ Allowance(l, s)' = Allowance(l, s) + Rate[l]
             /\ Used(l, c, s)' = Cost * since[l][c][s] + Level(l, c)'
             /\ Allowance(l, s) \in Nat
  <2>1. Rate[l] * ((now + 1) - s) = Rate[l] * (now - s) + Rate[l]
    BY <1>5, Numbers, OneMore
  <2>2. Rate[l] * (now - s) \in Nat
    BY <1>1, <1>5, Numbers, Product
  <2> QED
    BY <1>1, <2>1, <2>2, Numbers DEF Allowance, Used
<1>7. ASSUME NEW l \in Limiter, NEW c \in Client, NEW s, s = now + 1
      PROVE  /\ Used(l, c, s)' = Level(l, c)'
             /\ Allowance(l, s)' = Burst[l]
             /\ s \in 0 .. now'
  <2>1. s \in Instant /\ s > now
    BY <1>1, <1>7, ClockAssumption DEF Instant
  <2>2. since[l][c][s] = 0
    BY <2>1 DEF LimiterInv, Fresh
  <2>3. Level(l, c)' \in Nat
    BY TickLevels, LevelIs, Numbers
  <2> QED
    BY <1>1, <1>7, <2>2, <2>3, Numbers DEF Used, Allowance
<1>8. Paid'
  <2> SUFFICES ASSUME NEW l \in Limiter, NEW c \in Client, NEW s \in 0 .. now'
               PROVE  Used(l, c, s)' <= Allowance(l, s)'
    BY DEF Paid
  <2>1. CASE s \in 0 .. now
    <3>1. Used(l, c, s) <= Allowance(l, s)
      BY <2>1 DEF LimiterInv, Paid
    <3> QED
      BY <1>5, <1>6, <2>1, <3>1, TickLevels, LevelIs, SinceIs, Numbers DEF Used
  <2>2. CASE s = now + 1
    BY <1>7, <2>2, TickLevels, Numbers
  <2> QED
    BY <1>1, <2>1, <2>2
<1>9. Spent'
  <2> SUFFICES ASSUME NEW l \in Limiter, NEW c \in Client
               PROVE  \E s \in 0 .. now' : Used(l, c, s)' = Allowance(l, s)'
    BY DEF Spent
  <2>1. CASE Level(l, c)' = Burst[l]
    BY <1>7, <2>1
  <2>2. CASE Level(l, c)' = Level(l, c) + Rate[l]
    <3>1. PICK s \in 0 .. now : Used(l, c, s) = Allowance(l, s)
      BY DEF LimiterInv, Spent
    <3>2. Used(l, c, s)' = Allowance(l, s)'
      BY <1>5, <1>6, <2>2, <3>1, LevelIs, SinceIs, Numbers DEF Used
    <3> QED
      BY <1>5, <3>2
  <2> QED
    BY <2>1, <2>2, TickLevels
<1> QED
  BY <1>2, <1>3, <1>4, <1>8, <1>9 DEF LimiterInv

(* A step at one instant that takes a token from a bucket for each request *)
(* it grants, and nothing else, keeps the accounts.                        *)
Settled(l, c) ==
  \/ since'[l][c] = since[l][c] /\ Level(l, c)' = Level(l, c)
  \/ /\ \A s \in Instant :
          since'[l][c][s] = IF s <= now THEN since[l][c][s] + 1 ELSE since[l][c][s]
     /\ Level(l, c)' = Level(l, c) - Cost

LEMMA SettledKeeps ==
  ASSUME LimiterInv, now' = now, LimiterTypeOK', Bucketed',
         \A l \in Limiter, c \in Client : Settled(l, c)
  PROVE  LimiterInv'
<1>1. ClockTypeOK'
  BY DEF LimiterInv, ClockTypeOK
<1>2. \A s \in 0 .. now : s \in Instant /\ s <= now
  BY ClockAssumption DEF LimiterInv, ClockTypeOK, Instant
<1>3. Fresh'
  <2> SUFFICES ASSUME NEW l \in Limiter, NEW c \in Client, NEW s \in Instant, s > now
               PROVE  since'[l][c][s] = 0
    BY DEF Fresh
  <2>1. since[l][c][s] = 0 /\ ~(s <= now)
    BY ClockAssumption DEF LimiterInv, Fresh, ClockTypeOK, Instant
  <2> QED
    BY <2>1 DEF Settled
<1>4. ASSUME NEW l \in Limiter, NEW c \in Client, NEW s \in 0 .. now
      PROVE  Used(l, c, s)' = Used(l, c, s) /\ Allowance(l, s)' = Allowance(l, s)
  <2>1. Allowance(l, s)' = Allowance(l, s)
    BY DEF Allowance
  <2>2. CASE since'[l][c] = since[l][c] /\ Level(l, c)' = Level(l, c)
    BY <2>1, <2>2 DEF Used
  <2>3. CASE since'[l][c][s] = since[l][c][s] + 1 /\ Level(l, c)' = Level(l, c) - Cost
    <3>1. Cost * (since[l][c][s] + 1) = Cost * since[l][c][s] + Cost
      BY <1>2, SinceIs, Numbers
    <3> QED
      BY <1>2, <2>1, <2>3, <3>1, SinceIs, LevelIs, Numbers DEF Used
  <2> QED
    BY <1>2, <2>2, <2>3 DEF Settled
<1>5. Paid' /\ Spent'
  BY <1>4 DEF LimiterInv, Paid, Spent
<1> QED
  BY <1>1, <1>3, <1>5 DEF LimiterInv

(* A bucket that Allow has left has its level in it.                       *)
LEMMA LevelOf ==
  ASSUME LimiterInv, now' = now, NEW l \in Limiter, NEW c \in Client,
         NEW t \in Nat, t <= Burst[l],
         buckets'[l][c] = [tokens |-> t, last |-> now, made |-> TRUE]
  PROVE  /\ Level(l, c)' = t
         /\ buckets'[l][c] \in Bucket
         /\ buckets'[l][c].last <= now' /\ buckets'[l][c].tokens <= Burst[l]
<1>1. now \in Instant /\ now \in Nat
  BY ClockAssumption DEF LimiterInv, ClockTypeOK, Instant
<1>2. t + Rate[l] * (now - now) = t
  BY <1>1, Numbers, OneMore
<1> DEFINE b == buckets'[l][c]
<1>3. b.tokens = t /\ b.last = now /\ b.made = TRUE
  OBVIOUS
<1>4. b \in Bucket
  BY <1>1 DEF Bucket
<1>5. b.last <= now' /\ b.tokens <= Burst[l]
  BY <1>1, <1>3
<1>6. Level(l, c)' = IF b.made /\ b.tokens + Rate[l] * (now - b.last) < Burst[l]
                     THEN b.tokens + Rate[l] * (now - b.last) ELSE Burst[l]
  BY DEF Level, Refilled
<1>7. Level(l, c)' = IF t < Burst[l] THEN t ELSE Burst[l]
  BY <1>2, <1>3, <1>6
<1>8. Level(l, c)' = t
  BY <1>7, Numbers
<1> QED
  BY <1>4, <1>5, <1>8

LEMMA SameBucket ==
  ASSUME LimiterInv, now' = now, NEW l \in Limiter, NEW c \in Client,
         buckets'[l][c] = buckets[l][c]
  PROVE  /\ Level(l, c)' = Level(l, c)
         /\ buckets'[l][c] \in Bucket
         /\ buckets'[l][c].last <= now' /\ buckets'[l][c].tokens <= Burst[l]
  BY Numbers DEF Level, Refilled, LimiterInv, Bucketed

LEMMA AllowKeeps ==
  ASSUME LimiterInv, now' = now, NEW l \in Limiter, NEW c \in Client, Allow(l, c)
  PROVE  /\ LimiterInv'
         /\ since'[l][c][0] = since[l][c][0] + 1
         /\ \A m \in Limiter, d \in Client :
              m # l \/ d # c => since'[m][d] = since[m][d]
<1>1. /\ buckets \in [Limiter -> [Client -> Bucket]]
      /\ since \in [Limiter -> [Client -> [Instant -> Nat]]]
  BY DEF LimiterInv, LimiterTypeOK
<1>2. Level(l, c) \in Nat /\ Level(l, c) >= Cost /\ Level(l, c) <= Burst[l]
  BY LevelIs DEF Allow
<1>3. /\ Level(l, c) - Cost \in Nat
      /\ Level(l, c) - Cost <= Burst[l]
  BY <1>2, Numbers
<1>4. buckets'[l][c] = [tokens |-> Level(l, c) - Cost, last |-> now, made |-> TRUE]
  BY <1>1 DEF Allow, Level, Refilled
<1>5. \A m \in Limiter, d \in Client :
        m # l \/ d # c => /\ buckets'[m][d] = buckets[m][d]
                          /\ since'[m][d] = since[m][d]
  BY <1>1 DEF Allow
<1>6. since'[l][c] =
        [s \in Instant |-> IF s <= now THEN since[l][c][s] + 1 ELSE since[l][c][s]]
  BY <1>1 DEF Allow
<1>7. since'[l][c] \in [Instant -> Nat]
  BY <1>1, <1>6
<1>8. LimiterTypeOK'
  <2>1. buckets' \in [Limiter -> [Client -> Bucket]]
    <3>1. buckets'[l][c] \in Bucket
      BY <1>3, <1>4, LevelOf
    <3> QED
      BY <1>1, <3>1 DEF Allow
  <2>2. since' \in [Limiter -> [Client -> [Instant -> Nat]]]
    BY <1>1, <1>7 DEF Allow
  <2> QED
    BY <2>1, <2>2 DEF LimiterTypeOK
<1>9. Bucketed'
  BY <1>3, <1>4, <1>5, LevelOf, SameBucket DEF Bucketed
<1>10. ASSUME NEW m \in Limiter, NEW d \in Client PROVE Settled(m, d)
  <2>1. CASE m = l /\ d = c
    BY <1>3, <1>4, <1>6, <2>1, LevelOf DEF Settled
  <2>2. CASE m # l \/ d # c
    BY <1>5, <2>2, SameBucket DEF Settled
  <2> QED
    BY <2>1, <2>2
<1>11. 0 \in Instant /\ 0 <= now
  BY ClockAssumption DEF LimiterInv, ClockTypeOK, Instant
<1> QED
  BY <1>5, <1>6, <1>8, <1>9, <1>10, <1>11, SettledKeeps

LEMMA ThrottleKeeps ==
  ASSUME LimiterInv, now' = now, NEW l \in Limiter, NEW c \in Client, Throttle(l, c)
  PROVE  LimiterInv' /\ since' = since
<1>1. buckets \in [Limiter -> [Client -> Bucket]] /\ since' = since
  BY DEF LimiterInv, LimiterTypeOK, Throttle
<1>2. Level(l, c) \in Nat /\ Level(l, c) <= Burst[l]
  BY LevelIs
<1>3. buckets'[l][c] = [tokens |-> Level(l, c), last |-> now, made |-> TRUE]
  BY <1>1 DEF Throttle, Level, Refilled
<1>4. \A m \in Limiter, d \in Client : m # l \/ d # c => buckets'[m][d] = buckets[m][d]
  BY <1>1 DEF Throttle
<1>5. LimiterTypeOK'
  <2>1. buckets'[l][c] \in Bucket
    BY <1>2, <1>3, LevelOf
  <2>2. buckets' \in [Limiter -> [Client -> Bucket]]
    BY <1>1, <2>1 DEF Throttle
  <2> QED
    BY <1>1, <2>2 DEF LimiterInv, LimiterTypeOK
<1>6. Bucketed'
  BY <1>2, <1>3, <1>4, LevelOf, SameBucket DEF Bucketed
<1>7. ASSUME NEW m \in Limiter, NEW d \in Client PROVE Settled(m, d)
  BY <1>1, <1>2, <1>3, <1>4, LevelOf, SameBucket DEF Settled
<1> QED
  BY <1>1, <1>5, <1>6, <1>7, SettledKeeps

(* An evicted bucket was full: IdleTTL is long enough to fill it.          *)
LEMMA GCKeeps ==
  ASSUME LimiterInv, now' = now, NEW l \in Limiter, GCOnce(l)
  PROVE  LimiterInv' /\ since' = since
<1>1. buckets \in [Limiter -> [Client -> Bucket]] /\ since' = since
  BY DEF LimiterInv, LimiterTypeOK, GCOnce
<1>2. ASSUME NEW m \in Limiter, NEW c \in Client
      PROVE  \/ buckets'[m][c] = buckets[m][c]
             \/ /\ m = l /\ buckets'[m][c] = NoBucket
                /\ now - buckets[m][c].last > IdleTTL
  BY <1>1 DEF GCOnce
<1>3. ASSUME NEW c \in Client, buckets'[l][c] = NoBucket,
             now - buckets[l][c].last > IdleTTL
      PROVE  Level(l, c)' = Level(l, c)
  <2>1. Rate[l] * IdleTTL <= Rate[l] * (now - buckets[l][c].last)
    BY <1>3, Numbers, IdleAssumption, ProductGrows
  <2>2. Rate[l] * IdleTTL >= Burst[l] /\ Rate[l] * IdleTTL \in Nat
    BY Numbers, IdleAssumption, Product
  <2>3. Level(l, c) = Burst[l]
    BY <2>1, <2>2, Numbers, LevelIs
  <2>4. Level(l, c)' = Burst[l]
    BY <1>3 DEF Level, Refilled, NoBucket
  <2> QED
    BY <2>3, <2>4
<1>4. /\ NoBucket \in Bucket
      /\ NoBucket.last <= now /\ \A m \in Limiter : NoBucket.tokens <= Burst[m]
  BY ClockAssumption, RateAssumption
     DEF NoBucket, Bucket, Instant, LimiterInv, ClockTypeOK
<1>5. LimiterTypeOK'
  <2>1. buckets' \in [Limiter -> [Client -> Bucket]]
    BY <1>1, <1>4 DEF GCOnce
  <2> QED
    BY <1>1, <2>1 DEF LimiterInv, LimiterTypeOK
<1>6. Bucketed'
  BY <1>2, <1>4, SameBucket DEF Bucketed
<1>7. ASSUME NEW m \in Limiter, NEW c \in Client PROVE Settled(m, c)
  BY <1>1, <1>2, <1>3, SameBucket DEF Settled
<1> QED
  BY <1>1, <1>5, <1>6, <1>7, SettledKeeps

LEMMA LimitersRest ==
  ASSUME LimiterInv, now' = now, UNCHANGED limiterVars PROVE LimiterInv'
<1>1. UNCHANGED <<buckets, since>>
  BY DEF limiterVars
<1>2. LimiterTypeOK' /\ Bucketed'
  BY <1>1 DEF LimiterInv, LimiterTypeOK, Bucketed
<1>3. ASSUME NEW l \in Limiter, NEW c \in Client PROVE Settled(l, c)
  BY <1>1, SameBucket DEF Settled
<1> QED
  BY <1>2, <1>3, SettledKeeps

-----------------------------------------------------------------------------
(* The keys.                                                               *)

(* How old a good answer can be: in the cache it is at most a lookup's     *)
(* timeout older than its stamp says, on its way it is as old as its call. *)
KeyTimes ==
  \A k \in ApiKey :
    /\ lastMeet[k] <= now
    /\ grade[k] = "meet" => lastMeet[k] = now
    /\ cache[k].res = "meet" => cache[k].fetched <= lastMeet[k] + Timeout

CallTimes ==
  \A q \in Lookup :
    /\ asked[q].at <= now
    /\ asked[q].key # NoKey => now - asked[q].at <= Timeout
    /\ asked[q].res # "none" => asked[q].key # NoKey
    /\ asked[q].res = "meet" => asked[q].at <= lastMeet[asked[q].key]

KeysInv == ClockTypeOK /\ KeysTypeOK /\ KeyTimes /\ CallTimes

LEMMA KeysStart == ClockInit /\ KeysInit => KeysInv
<1> SUFFICES ASSUME ClockInit, KeysInit PROVE KeysInv
  OBVIOUS
<1>1. 0 \in Instant /\ now = 0 /\ ClockTypeOK
  BY ClockAssumption DEF ClockInit, ClockTypeOK, Instant
<1>2. KeysTypeOK
  BY <1>1 DEF KeysInit, KeysTypeOK, NoEntry, Entry, NoCall, Call, Grade
<1>3. KeyTimes
  BY <1>1 DEF KeysInit, KeyTimes, NoEntry
<1>4. CallTimes
  BY <1>1 DEF KeysInit, CallTimes, NoCall
<1> QED
  BY <1>1, <1>2, <1>3, <1>4 DEF KeysInv

LEMMA Times ==
  ASSUME KeysInv
  PROVE  /\ now \in Nat /\ Timeout \in Nat /\ CacheTTL \in Nat /\ CacheTTL > 0
         /\ \A k \in ApiKey : /\ lastMeet[k] \in Nat /\ cache[k].fetched \in Nat
                              /\ k # NoKey
         /\ \A q \in Lookup : asked[q].at \in Nat /\ asked[q] \in Call
<1>1. \A i \in Instant : i \in Nat
  BY ClockAssumption DEF Instant
<1> QED
  BY <1>1, CacheAssumption, KeyAssumption
     DEF KeysInv, ClockTypeOK, KeysTypeOK, Entry, Call

LEMMA KeysTickKeeps == ASSUME KeysInv, Tick, KeysTick PROVE KeysInv'
<1>1. now' = now + 1 /\ now' \in Instant /\ UNCHANGED <<grade, cache, asked>>
  BY Times, ClockAssumption DEF Tick, KeysTick, Instant
<1>2. \A k \in ApiKey :
        lastMeet'[k] = IF grade[k] = "meet" THEN now + 1 ELSE lastMeet[k]
  BY DEF KeysTick
<1>3. ClockTypeOK' /\ KeysTypeOK'
  BY <1>1 DEF KeysInv, ClockTypeOK, KeysTypeOK, KeysTick
<1>4. \A k \in ApiKey : lastMeet[k] <= lastMeet'[k] /\ lastMeet'[k] <= now'
                        /\ lastMeet'[k] \in Nat
  BY <1>1, <1>2, Times DEF KeysInv, KeyTimes
<1>5. KeyTimes'
  BY <1>1, <1>2, <1>4, Times DEF KeysInv, KeyTimes
<1>6. CallTimes'
  <2> SUFFICES ASSUME NEW q \in Lookup
               PROVE  /\ asked[q].at <= now'
                      /\ asked[q].key # NoKey => now' - asked[q].at <= Timeout
                      /\ asked[q].res # "none" => asked[q].key # NoKey
                      /\ asked[q].res = "meet" => asked[q].at <= lastMeet'[asked[q].key]
    BY <1>1 DEF CallTimes
  <2>1. /\ asked[q].at <= now'
        /\ asked[q].key # NoKey => now' - asked[q].at <= Timeout
        /\ asked[q].res # "none" => asked[q].key # NoKey
    BY <1>1, Times DEF KeysInv, CallTimes, KeysTick
  <2>2. ASSUME asked[q].res = "meet" PROVE asked[q].at <= lastMeet'[asked[q].key]
    <3>1. asked[q].key \in ApiKey
      BY <2>1, <2>2, Times DEF Call
    <3> QED
      BY <1>4, <2>2, <3>1, Times DEF KeysInv, CallTimes
  <2> QED
    BY <2>1, <2>2
<1> QED
  BY <1>3, <1>5, <1>6 DEF KeysInv

LEMMA RegradeKeeps ==
  ASSUME KeysInv, now' = now, NEW k \in ApiKey, NEW g \in Grade, Regrade(k, g)
  PROVE  KeysInv'
<1>1. UNCHANGED <<cache, asked>> /\ now \in Instant
  BY DEF Regrade, KeysInv, ClockTypeOK
<1>2. \A j \in ApiKey :
        /\ grade'[j] = IF j = k THEN g ELSE grade[j]
        /\ lastMeet'[j] = IF j = k /\ g = "meet" THEN now ELSE lastMeet[j]
  BY DEF KeysInv, KeysTypeOK, Regrade
<1>3. ClockTypeOK' /\ KeysTypeOK'
  BY <1>1 DEF KeysInv, ClockTypeOK, KeysTypeOK, Regrade
<1>4. \A j \in ApiKey : lastMeet[j] <= lastMeet'[j] /\ lastMeet'[j] <= now
                        /\ lastMeet'[j] \in Nat
  BY <1>2, Times DEF KeysInv, KeyTimes
<1>5. KeyTimes'
  <2> SUFFICES ASSUME NEW j \in ApiKey
               PROVE  /\ lastMeet'[j] <= now
                      /\ grade'[j] = "meet" => lastMeet'[j] = now
                      /\ cache[j].res = "meet" => cache[j].fetched <= lastMeet'[j] + Timeout
    BY <1>1 DEF KeyTimes
  <2> QED
    BY <1>2, <1>4, Times DEF KeysInv, KeyTimes
<1>6. CallTimes'
  <2>1. ASSUME NEW q \in Lookup, asked[q].res = "meet"
        PROVE  asked[q].at <= lastMeet'[asked[q].key]
    <3>1. asked[q].key \in ApiKey
      BY <2>1, Times DEF Call, KeysInv, CallTimes
    <3> QED
      BY <1>4, <2>1, <3>1, Times DEF KeysInv, CallTimes
  <2> QED
    BY <1>1, <2>1 DEF KeysInv, CallTimes
<1> QED
  BY <1>3, <1>5, <1>6 DEF KeysInv

LEMMA CPAnswersKeeps ==
  ASSUME KeysInv, now' = now, NEW q \in Lookup, CPAnswers(q)
  PROVE  /\ KeysInv'
         /\ asked[q] # NoCall /\ asked'[q].key = asked[q].key
         /\ \A p \in Lookup : p # q => asked'[p] = asked[p]
<1>1. UNCHANGED <<grade, lastMeet, cache>>
  BY DEF CPAnswers
<1>2. asked[q].key \in ApiKey
  BY Times DEF CPAnswers, Call
<1>3. /\ \A p \in Lookup : p # q => asked'[p] = asked[p]
      /\ asked'[q] = [asked[q] EXCEPT !.res = grade[asked[q].key]]
  BY DEF CPAnswers, KeysInv, KeysTypeOK
<1>4. asked'[q].key = asked[q].key /\ asked'[q].at = asked[q].at
      /\ asked'[q].res = grade[asked[q].key] /\ asked'[q] \in Call
  BY <1>2, <1>3, Times DEF Call, KeysInv, KeysTypeOK
<1>5. ClockTypeOK' /\ KeysTypeOK'
  BY <1>1, <1>4 DEF KeysInv, ClockTypeOK, KeysTypeOK, CPAnswers
<1>6. KeyTimes'
  BY <1>1 DEF KeysInv, KeyTimes
<1>7. CallTimes'
  <2> SUFFICES ASSUME NEW p \in Lookup
               PROVE  /\ asked'[p].at <= now
                      /\ asked'[p].key # NoKey => now - asked'[p].at <= Timeout
                      /\ asked'[p].res # "none" => asked'[p].key # NoKey
                      /\ asked'[p].res = "meet" => asked'[p].at <= lastMeet[asked'[p].key]
    BY <1>1 DEF CallTimes
  <2>1. CASE p # q
    BY <1>3, <2>1 DEF KeysInv, CallTimes
  <2>2. CASE p = q
    <3>1. grade[asked[q].key] = "meet" => lastMeet[asked[q].key] = now
      BY <1>2 DEF KeysInv, KeyTimes
    <3> QED
      BY <1>2, <1>4, <2>2, <3>1, Times DEF KeysInv, CallTimes
  <2> QED
    BY <2>1, <2>2
<1>8. asked[q] # NoCall
  BY DEF CPAnswers, NoCall
<1> QED
  BY <1>3, <1>4, <1>5, <1>6, <1>7, <1>8 DEF KeysInv

LEMMA AskKeeps ==
  ASSUME KeysInv, now' = now, NEW q \in Lookup, NEW k \in ApiKey, Ask(q, k)
  PROVE  /\ KeysInv'
         /\ asked'[q].key = k
         /\ \A p \in Lookup : p # q => asked'[p] = asked[p]
<1>1. UNCHANGED <<grade, lastMeet, cache>> /\ now \in Instant
  BY DEF Ask, KeysInv, ClockTypeOK
<1>2. /\ \A p \in Lookup : p # q => asked'[p] = asked[p]
      /\ asked'[q] = [key |-> k, at |-> now, res |-> "none"]
  BY DEF Ask, KeysInv, KeysTypeOK
<1>3. asked'[q] \in Call
  BY <1>1, <1>2 DEF Call
<1>4. ClockTypeOK' /\ KeysTypeOK'
  BY <1>1, <1>3 DEF KeysInv, ClockTypeOK, KeysTypeOK, Ask
<1>5. KeyTimes'
  BY <1>1 DEF KeysInv, KeyTimes
<1>6. CallTimes'
  BY <1>1, <1>2, Times DEF KeysInv, CallTimes
<1> QED
  BY <1>2, <1>4, <1>5, <1>6 DEF KeysInv

LEMMA RememberKeeps ==
  ASSUME KeysInv, now' = now, NEW q \in Lookup, Remember(q)
  PROVE  /\ KeysInv'
         /\ asked'[q] = NoCall
         /\ \A p \in Lookup : p # q => asked'[p] = asked[p]
         /\ asked[q].res = "meet" => now <= lastMeet[asked[q].key] + Timeout
<1> DEFINE k == asked[q].key
<1>1. UNCHANGED <<grade, lastMeet>> /\ now \in Instant /\ 0 \in Instant
  BY ClockAssumption DEF Remember, KeysInv, ClockTypeOK, Instant
<1>2. k \in ApiKey
  BY Times DEF Remember, Call, KeysInv, CallTimes
<1>3. /\ \A p \in Lookup : p # q => asked'[p] = asked[p]
      /\ asked'[q] = NoCall
  BY DEF Remember, KeysInv, KeysTypeOK
<1>4. /\ \A j \in ApiKey : j # k => cache'[j] = cache[j]
      /\ cache'[k] = [res |-> asked[q].res, fetched |-> now]
  BY <1>2 DEF Remember, KeysInv, KeysTypeOK
<1>5. cache'[k] \in Entry /\ NoCall \in Call
  BY <1>1, <1>4, Times DEF Entry, Call, NoCall
<1>6. ClockTypeOK' /\ KeysTypeOK'
  BY <1>1, <1>5 DEF KeysInv, ClockTypeOK, KeysTypeOK, Remember
<1>7. asked[q].res = "meet" => now <= lastMeet[k] + Timeout
  BY <1>2, Times DEF KeysInv, CallTimes
<1>8. KeyTimes'
  <2> SUFFICES ASSUME NEW j \in ApiKey
               PROVE  /\ lastMeet[j] <= now
                      /\ grade[j] = "meet" => lastMeet[j] = now
                      /\ cache'[j].res = "meet" => cache'[j].fetched <= lastMeet[j] + Timeout
    BY <1>1 DEF KeyTimes
  <2> QED
    BY <1>4, <1>7 DEF KeysInv, KeyTimes
<1>9. CallTimes'
  BY <1>1, <1>3, Times DEF KeysInv, CallTimes, NoCall
<1> QED
  BY <1>3, <1>6, <1>7, <1>8, <1>9 DEF KeysInv

LEMMA LookupFailsKeeps ==
  ASSUME KeysInv, now' = now, NEW q \in Lookup, LookupFails(q)
  PROVE  /\ KeysInv'
         /\ asked'[q] = NoCall
         /\ \A p \in Lookup : p # q => asked'[p] = asked[p]
<1>1. UNCHANGED <<grade, lastMeet, cache>> /\ 0 \in Instant
  BY ClockAssumption DEF LookupFails, Instant
<1>2. /\ \A p \in Lookup : p # q => asked'[p] = asked[p]
      /\ asked'[q] = NoCall
  BY DEF LookupFails, KeysInv, KeysTypeOK
<1>3. NoCall \in Call
  BY <1>1 DEF NoCall, Call
<1>4. ClockTypeOK' /\ KeysTypeOK'
  BY <1>1, <1>3 DEF KeysInv, ClockTypeOK, KeysTypeOK, LookupFails
<1>5. KeyTimes'
  BY <1>1 DEF KeysInv, KeyTimes
<1>6. CallTimes'
  BY <1>1, <1>2, Times DEF KeysInv, CallTimes, NoCall
<1> QED
  BY <1>2, <1>4, <1>5, <1>6 DEF KeysInv

LEMMA KeysRest ==
  ASSUME KeysInv, now' = now, UNCHANGED keyVars PROVE KeysInv' /\ asked' = asked
  BY DEF KeysInv, ClockTypeOK, KeysTypeOK, KeyTimes, CallTimes, keyVars

-----------------------------------------------------------------------------
(* The requests.                                                           *)
DoorTypeOK ==
  /\ phase \in [Request -> {"idle", "auth", "lookup", "apps", "served", "gate"}]
  /\ client \in [Request -> Client]
  /\ cred \in [Request -> Credential]
  /\ guesses \in [Client -> Nat]
  /\ appGuesses \in [Client -> Nat]
  /\ joins \in [Client -> Nat]

(* Exactly the requests that wait for Introspect have a lookup under way,  *)
(* of their own key.                                                       *)
Waiting(q) ==
  IF phase[q] = "lookup" THEN cred[q] \in ApiKey /\ asked[q].key = cred[q]
                         ELSE asked[q] = NoCall

At(p, c) == {q \in Request : phase[q] = p /\ client[q] = c}

(* A guess was paid for, and so was one that is still to come; a join was  *)
(* paid for twice, one under way once, by the limiter that also paid for   *)
(* the guesses on the apps routes.                                         *)
Looked ==
  \A c \in Client : guesses[c] + Cardinality(At("auth", c)) <= since["admin"][c][0]
Joined ==
  \A c \in Client :
    2 * joins[c] + appGuesses[c] + Cardinality(At("gate", c)) + Cardinality(At("apps", c))
      <= since["rtc"][c][0]

DoorInv ==
  DoorTypeOK /\ (\A q \in Request : Waiting(q)) /\ Looked /\ Joined

IInv == LimiterInv /\ KeysInv /\ DoorInv

LEMMA Counts ==
  ASSUME NEW p, NEW c
  PROVE  IsFiniteSet(At(p, c)) /\ Cardinality(At(p, c)) \in Nat
<1>1. At(p, c) \subseteq Lookup
  BY DEF At, Request
<1> QED
  BY <1>1, RequestAssumption, FS_Subset, FS_CardinalityType

LEMMA Paying ==
  ASSUME LimiterInv, NEW l \in Limiter, NEW c \in Client
  PROVE  since[l][c][0] \in Nat
<1>1. 0 \in Instant
  BY ClockAssumption DEF Instant
<1> QED
  BY <1>1, SinceIs

(* How the number of requests at a phase changes when one moves.           *)
LEMMA Moves ==
  ASSUME DoorTypeOK, UNCHANGED client, NEW q \in Request, NEW p, To(q, p),
         NEW r, NEW c \in Client
  PROVE  /\ client[q] # c \/ (phase[q] # r /\ p # r) => At(r, c)' = At(r, c)
         /\ client[q] = c /\ phase[q] = r /\ p # r =>
              Cardinality(At(r, c))' = Cardinality(At(r, c)) - 1
         /\ client[q] = c /\ phase[q] # r /\ p = r =>
              Cardinality(At(r, c))' = Cardinality(At(r, c)) + 1
<1>1. /\ phase'[q] = p
      /\ \A o \in Request : o # q => phase'[o] = phase[o]
  BY DEF DoorTypeOK, To
<1>2. At(r, c)' = {o \in Request : phase'[o] = r /\ client[o] = c}
  BY DEF At
<1>3. client[q] # c \/ (phase[q] # r /\ p # r) => At(r, c)' = At(r, c)
  BY <1>1, <1>2 DEF At
<1>4. client[q] = c /\ phase[q] = r /\ p # r =>
        q \in At(r, c) /\ At(r, c)' = At(r, c) \ {q}
  BY <1>1, <1>2 DEF At
<1>5. client[q] = c /\ phase[q] # r /\ p = r =>
        q \notin At(r, c) /\ At(r, c)' = At(r, c) \cup {q}
  BY <1>1, <1>2 DEF At
<1> QED
  BY <1>3, <1>4, <1>5, Counts, FS_AddElement, FS_RemoveElement

LEMMA Starts == Init => IInv
<1> SUFFICES ASSUME Init PROVE IInv
  OBVIOUS
<1>1. LimiterInv /\ KeysInv
  BY LimiterStarts, KeysStart DEF Init
<1>2. DoorTypeOK
  BY DEF Init, DoorTypeOK, Credential
<1>3. \A q \in Request : Waiting(q)
  BY DEF Init, KeysInit, Waiting, Request
<1>4. ASSUME NEW c \in Client, NEW p \in {"auth", "gate", "apps"} PROVE At(p, c) = {}
  BY DEF Init, At
<1>5. 0 \in Instant /\ "admin" \in Limiter /\ "rtc" \in Limiter
  BY ClockAssumption, LimiterAssumption DEF Instant
<1>6. Looked /\ Joined
  <2> SUFFICES ASSUME NEW c \in Client
               PROVE  /\ guesses[c] + Cardinality(At("auth", c)) <= since["admin"][c][0]
                      /\ 2 * joins[c] + appGuesses[c] + Cardinality(At("gate", c))
                           + Cardinality(At("apps", c)) <= since["rtc"][c][0]
    BY DEF Looked, Joined
  <2>1. /\ Cardinality(At("auth", c)) = 0 /\ Cardinality(At("gate", c)) = 0
        /\ Cardinality(At("apps", c)) = 0
    BY <1>4, FS_EmptySet
  <2>2. since["admin"][c][0] = 0 /\ since["rtc"][c][0] = 0
    BY <1>5 DEF Init, LimiterInit
  <2>3. guesses[c] = 0 /\ appGuesses[c] = 0 /\ joins[c] = 0
    BY DEF Init
  <2> QED
    BY <2>1, <2>2, <2>3
<1> QED
  BY <1>1, <1>2, <1>3, <1>6 DEF IInv, DoorInv

LEMMA Resting ==
  ASSUME IInv, UNCHANGED doorVars, since' = since,
         \A q \in Request : Waiting(q)'
  PROVE  DoorInv'
<1>1. UNCHANGED <<phase, client, cred, guesses, appGuesses, joins>>
  BY DEF doorVars, historyVars
<1>2. \A p, c : At(p, c)' = At(p, c)
  BY <1>1 DEF At
<1> QED
  BY <1>1, <1>2 DEF IInv, DoorInv, DoorTypeOK, Looked, Joined

LEMMA OthersMove ==
  ASSUME IInv,
         \/ TimePasses \/ ControlPlane \/ Evict
  PROVE  IInv'
<1>1. CASE TimePasses
  <2>1. LimiterInv' /\ KeysInv' /\ asked' = asked /\ since' = since
    BY <1>1, TickKeepsLimiters, KeysTickKeeps
       DEF IInv, TimePasses, KeysTick, limiterVars
  <2>2. \A q \in Request : Waiting(q)'
    BY <1>1, <2>1 DEF IInv, DoorInv, Waiting, TimePasses, doorVars
  <2> QED
    BY <1>1, <2>1, <2>2, Resting DEF IInv, TimePasses
<1>2. CASE ControlPlane
  <2>1. now' = now /\ UNCHANGED limiterVars /\ UNCHANGED doorVars /\ since' = since
    BY <1>2 DEF ControlPlane, limiterVars
  <2>2. LimiterInv'
    BY <2>1, LimitersRest DEF IInv
  <2>3. ASSUME NEW k \in ApiKey, NEW g \in Grade, Regrade(k, g) PROVE IInv'
    <3>1. KeysInv' /\ asked' = asked
      BY <2>1, <2>3, RegradeKeeps DEF IInv, Regrade
    <3>2. \A q \in Request : Waiting(q)'
      BY <2>1, <3>1 DEF IInv, DoorInv, Waiting, doorVars
    <3> QED
      BY <2>1, <2>2, <3>1, <3>2, Resting DEF IInv
  <2>4. ASSUME NEW q \in Request, CPAnswers(q) PROVE IInv'
    <3>1. /\ KeysInv' /\ asked[q] # NoCall /\ asked'[q].key = asked[q].key
          /\ \A p \in Request : p # q => asked'[p] = asked[p]
      BY <2>1, <2>4, CPAnswersKeeps DEF IInv, Request
    <3>2. \A p \in Request : Waiting(p)'
      BY <2>1, <3>1 DEF IInv, DoorInv, Waiting, doorVars
    <3> QED
      BY <2>1, <2>2, <3>1, <3>2, Resting DEF IInv
  <2> QED
    BY <1>2, <2>3, <2>4 DEF ControlPlane
<1>3. CASE Evict
  <2>1. now' = now /\ UNCHANGED keyVars /\ UNCHANGED doorVars
    BY <1>3 DEF Evict
  <2>2. LimiterInv' /\ since' = since
    BY <1>3, <2>1, GCKeeps DEF IInv, Evict
  <2>3. KeysInv' /\ asked' = asked
    BY <2>1, KeysRest DEF IInv
  <2>4. \A q \in Request : Waiting(q)'
    BY <2>1, <2>3 DEF IInv, DoorInv, Waiting, doorVars
  <2> QED
    BY <2>1, <2>2, <2>3, <2>4, Resting DEF IInv
<1> QED
  BY <1>1, <1>2, <1>3

(* What a request that moves on owes: a guess is paid for when the request *)
(* comes in, a join when it comes in and again when it goes through.       *)
LEMMA LookedKeeps ==
  ASSUME IInv, LimiterInv', UNCHANGED client, guesses' \in [Client -> Nat],
         NEW q \in Request, NEW p, To(q, p),
         \A c \in Client : c # client[q] =>
           guesses'[c] = guesses[c] /\ since'["admin"][c] = since["admin"][c],
         \/ /\ p # "auth" /\ guesses' = guesses
            /\ since'["admin"][client[q]][0] >= since["admin"][client[q]][0]
         \/ /\ phase[q] = "auth" /\ p # "auth"
            /\ guesses'[client[q]] = guesses[client[q]] + 1
            /\ since'["admin"][client[q]][0] = since["admin"][client[q]][0]
         \/ /\ phase[q] # "auth" /\ p = "auth" /\ guesses' = guesses
            /\ since'["admin"][client[q]][0] = since["admin"][client[q]][0] + 1
  PROVE  Looked'
<1>1. DoorTypeOK /\ LimiterInv /\ "admin" \in Limiter
  BY LimiterAssumption DEF IInv, DoorInv
<1> SUFFICES ASSUME NEW c \in Client
             PROVE  guesses'[c] + Cardinality(At("auth", c))' <= since'["admin"][c][0]
  BY DEF Looked
<1>2. /\ guesses[c] \in Nat /\ guesses'[c] \in Nat
      /\ since["admin"][c][0] \in Nat /\ since'["admin"][c][0] \in Nat
      /\ Cardinality(At("auth", c)) \in Nat
      /\ guesses[c] + Cardinality(At("auth", c)) <= since["admin"][c][0]
  <2>1. since["admin"][c][0] \in Nat
    BY <1>1, Paying
  <2>2. since'["admin"][c][0] \in Nat
    BY <1>1, ClockAssumption DEF LimiterInv, LimiterTypeOK, Instant
  <2> QED
    BY <1>1, <2>1, <2>2, Counts DEF IInv, DoorInv, DoorTypeOK, Looked
<1>3. CASE c # client[q]
  BY <1>1, <1>2, <1>3, Moves
<1>4. CASE c = client[q]
  BY <1>1, <1>2, <1>4, Moves
<1> QED
  BY <1>3, <1>4

LEMMA JoinedKeeps ==
  ASSUME IInv, LimiterInv', UNCHANGED client,
         joins' \in [Client -> Nat], appGuesses' \in [Client -> Nat],
         NEW q \in Request, NEW p, To(q, p),
         \A c \in Client : c # client[q] =>
           /\ joins'[c] = joins[c] /\ appGuesses'[c] = appGuesses[c]
           /\ since'["rtc"][c] = since["rtc"][c],
         \/ /\ p # "gate" /\ p # "apps" /\ joins' = joins /\ appGuesses' = appGuesses
            /\ since'["rtc"][client[q]][0] >= since["rtc"][client[q]][0]
         \/ /\ phase[q] = "gate" /\ p # "gate" /\ p # "apps"
            /\ joins'[client[q]] = joins[client[q]] + 1 /\ appGuesses' = appGuesses
            /\ since'["rtc"][client[q]][0] = since["rtc"][client[q]][0] + 1
         \/ /\ phase[q] = "apps" /\ p # "gate" /\ p # "apps"
            /\ joins' = joins /\ appGuesses'[client[q]] = appGuesses[client[q]] + 1
            /\ since'["rtc"][client[q]][0] = since["rtc"][client[q]][0]
         \/ /\ phase[q] # "gate" /\ phase[q] # "apps" /\ p \in {"gate", "apps"}
            /\ joins' = joins /\ appGuesses' = appGuesses
            /\ since'["rtc"][client[q]][0] = since["rtc"][client[q]][0] + 1
  PROVE  Joined'
<1>1. DoorTypeOK /\ LimiterInv /\ "rtc" \in Limiter
  BY LimiterAssumption DEF IInv, DoorInv
<1> SUFFICES ASSUME NEW c \in Client
             PROVE  2 * joins'[c] + appGuesses'[c] + Cardinality(At("gate", c))'
                      + Cardinality(At("apps", c))' <= since'["rtc"][c][0]
  BY DEF Joined
<1>2. /\ joins[c] \in Nat /\ joins'[c] \in Nat
      /\ appGuesses[c] \in Nat /\ appGuesses'[c] \in Nat
      /\ since["rtc"][c][0] \in Nat /\ since'["rtc"][c][0] \in Nat
      /\ Cardinality(At("gate", c)) \in Nat /\ Cardinality(At("apps", c)) \in Nat
      /\ 2 * joins[c] + appGuesses[c] + Cardinality(At("gate", c))
           + Cardinality(At("apps", c)) <= since["rtc"][c][0]
  <2>1. since["rtc"][c][0] \in Nat
    BY <1>1, Paying
  <2>2. since'["rtc"][c][0] \in Nat
    BY <1>1, ClockAssumption DEF LimiterInv, LimiterTypeOK, Instant
  <2> QED
    BY <1>1, <2>1, <2>2, Counts DEF IInv, DoorInv, DoorTypeOK, Joined
<1>3. CASE c # client[q]
  <2>1. At("gate", c)' = At("gate", c) /\ At("apps", c)' = At("apps", c)
    BY <1>1, <1>3, Moves
  <2> QED
    BY <1>2, <1>3, <2>1
<1>4. CASE c = client[q]
  <2>1. /\ phase[q] # "gate" /\ p # "gate" =>
             Cardinality(At("gate", c))' = Cardinality(At("gate", c))
        /\ phase[q] = "gate" /\ p # "gate" =>
             Cardinality(At("gate", c))' = Cardinality(At("gate", c)) - 1
        /\ phase[q] # "gate" /\ p = "gate" =>
             Cardinality(At("gate", c))' = Cardinality(At("gate", c)) + 1
    BY <1>1, <1>4, Moves
  <2>2. /\ phase[q] # "apps" /\ p # "apps" =>
             Cardinality(At("apps", c))' = Cardinality(At("apps", c))
        /\ phase[q] = "apps" /\ p # "apps" =>
             Cardinality(At("apps", c))' = Cardinality(At("apps", c)) - 1
        /\ phase[q] # "apps" /\ p = "apps" =>
             Cardinality(At("apps", c))' = Cardinality(At("apps", c)) + 1
    BY <1>1, <1>4, Moves
  <2> QED
    BY <1>2, <1>4, <2>1, <2>2
<1> QED
  BY <1>3, <1>4

Phase == {"idle", "auth", "lookup", "apps", "served", "gate"}

LEMMA WaitingKeeps ==
  ASSUME IInv, NEW q \in Request, NEW p \in Phase, To(q, p),
         \A o \in Request : o # q => asked'[o] = asked[o] /\ cred'[o] = cred[o],
         IF p = "lookup" THEN cred'[q] \in ApiKey /\ asked'[q].key = cred'[q]
                         ELSE asked'[q] = NoCall
  PROVE  /\ phase' \in [Request -> Phase]
         /\ \A o \in Request : Waiting(o)'
<1>1. /\ phase' \in [Request -> Phase] /\ phase'[q] = p
      /\ \A o \in Request : o # q => phase'[o] = phase[o]
  BY DEF IInv, DoorInv, DoorTypeOK, To, Phase
<1>2. ASSUME NEW o \in Request, o # q PROVE Waiting(o)'
  BY <1>1, <1>2 DEF IInv, DoorInv, Waiting
<1>3. Waiting(q)'
  BY <1>1 DEF Waiting
<1> QED
  BY <1>1, <1>2, <1>3

(* The pieces of the invariant after a step of request q.                  *)
LEMMA DoorKeeps ==
  ASSUME IInv, UNCHANGED client, NEW q \in Request, NEW p \in Phase, To(q, p),
         cred' \in [Request -> Credential],
         guesses' \in [Client -> Nat], appGuesses' \in [Client -> Nat],
         joins' \in [Client -> Nat],
         \A o \in Request : o # q => asked'[o] = asked[o] /\ cred'[o] = cred[o],
         IF p = "lookup" THEN cred'[q] \in ApiKey /\ asked'[q].key = cred'[q]
                         ELSE asked'[q] = NoCall,
         Looked', Joined'
  PROVE  DoorInv'
<1>1. phase' \in [Request -> Phase] /\ \A o \in Request : Waiting(o)'
  BY WaitingKeeps
<1>2. DoorTypeOK'
  BY <1>1 DEF IInv, DoorInv, DoorTypeOK, Phase
<1> QED
  BY <1>1, <1>2 DEF DoorInv

LEMMA Listeners == "admin" \in Limiter /\ "rtc" \in Limiter /\ "admin" # "rtc"
  BY LimiterAssumption

LEMMA Facts ==
  ASSUME IInv, NEW q \in Request
  PROVE  /\ LimiterInv /\ KeysInv /\ DoorTypeOK
         /\ client[q] \in Client /\ cred[q] \in Credential
         /\ cred \in [Request -> Credential]
         /\ guesses \in [Client -> Nat] /\ appGuesses \in [Client -> Nat]
         /\ joins \in [Client -> Nat]
         /\ phase[q] # "lookup" => asked[q] = NoCall
         /\ phase[q] = "lookup" => cred[q] \in ApiKey /\ asked[q].key = cred[q]
  BY DEF IInv, DoorInv, DoorTypeOK, Waiting

(* A request comes in at limiter l and is granted.                         *)
LEMMA AllowedSince ==
  ASSUME IInv, now' = now, NEW l \in {"admin", "rtc"}, NEW q \in Request,
         Allow(l, client[q])
  PROVE  /\ LimiterInv'
         /\ since'[l][client[q]][0] = since[l][client[q]][0] + 1
         /\ \A m \in {"admin", "rtc"} : m # l =>
              since'[m][client[q]][0] = since[m][client[q]][0]
         /\ \A m \in {"admin", "rtc"}, c \in Client :
              c # client[q] => since'[m][c] = since[m][c]
         /\ \A m \in {"admin", "rtc"} :
              since'[m][client[q]][0] >= since[m][client[q]][0]
<1>1. /\ LimiterInv'
      /\ since'[l][client[q]][0] = since[l][client[q]][0] + 1
      /\ \A m \in Limiter, d \in Client :
           m # l \/ d # client[q] => since'[m][d] = since[m][d]
  BY Facts, Listeners, AllowKeeps
<1>2. \A m \in {"admin", "rtc"} : since[m][client[q]][0] \in Nat
  BY Facts, Listeners, Paying
<1> QED
  BY <1>1, <1>2, Facts, Listeners

LEMMA RestingSince ==
  ASSUME IInv, since' = since, NEW q \in Request
  PROVE  \A m \in {"admin", "rtc"} :
           since'[m][client[q]][0] >= since[m][client[q]][0]
<1>1. \A m \in {"admin", "rtc"} : since[m][client[q]][0] \in Nat
  BY Facts, Listeners, Paying
<1> QED
  BY <1>1

(* A request refused by a limiter stays where it is.                       *)
LEMMA ThrottledStays ==
  ASSUME IInv, now' = now, UNCHANGED <<keyVars, doorVars>>,
         NEW l \in {"admin", "rtc"}, NEW q \in Request, Throttle(l, client[q])
  PROVE  IInv'
<1>1. LimiterInv' /\ since' = since
  BY Facts, Listeners, ThrottleKeeps
<1>2. KeysInv' /\ asked' = asked
  BY Facts, KeysRest
<1>3. \A o \in Request : Waiting(o)'
  BY <1>2 DEF IInv, DoorInv, Waiting, doorVars
<1> QED
  BY <1>1, <1>2, <1>3, Resting DEF IInv

LEMMA AdminArrivesKeeps ==
  ASSUME IInv, NEW q \in Request, NEW k \in Credential, AdminArrives(q, k)
  PROVE  IInv'
<1>1. /\ phase[q] = "idle" /\ now' = now
      /\ UNCHANGED <<keyVars, client, guesses, appGuesses, joins>>
  BY DEF AdminArrives, historyVars
<1>2. CASE Throttle("admin", client[q]) /\ UNCHANGED <<cred, phase>>
  BY <1>1, <1>2, ThrottledStays DEF doorVars, historyVars
<1>3. CASE /\ Allow("admin", client[q])
           /\ cred' = [cred EXCEPT ![q] = k] /\ To(q, "auth")
  <2>1. KeysInv' /\ asked' = asked
    BY <1>1, Facts, KeysRest
  <2>2. /\ cred' \in [Request -> Credential]
        /\ \A o \in Request : o # q => cred'[o] = cred[o]
    BY <1>3, Facts
  <2>3. LimiterInv'
    BY <1>1, <1>3, AllowedSince
  <2>4. Looked'
    BY <1>1, <1>3, Facts, AllowedSince, LookedKeeps
  <2>5. Joined'
    BY <1>1, <1>3, Facts, AllowedSince, JoinedKeeps
  <2>6. DoorInv'
    BY <1>1, <1>3, <2>1, <2>2, <2>4, <2>5, Facts, DoorKeeps DEF Phase
  <2> QED
    BY <2>1, <2>3, <2>6 DEF IInv
<1> QED
  BY <1>2, <1>3 DEF AdminArrives

LEMMA AppsArrivesKeeps ==
  ASSUME IInv, NEW q \in Request, NEW k \in Credential, AppsArrives(q, k)
  PROVE  IInv'
<1>1. /\ phase[q] = "idle" /\ now' = now
      /\ UNCHANGED <<keyVars, client, guesses, appGuesses, joins>>
  BY DEF AppsArrives, historyVars
<1>2. CASE Throttle("rtc", client[q]) /\ UNCHANGED <<cred, phase>>
  BY <1>1, <1>2, ThrottledStays DEF doorVars, historyVars
<1>3. CASE /\ Allow("rtc", client[q])
           /\ cred' = [cred EXCEPT ![q] = k] /\ To(q, "apps")
  <2>1. KeysInv' /\ asked' = asked
    BY <1>1, Facts, KeysRest
  <2>2. /\ cred' \in [Request -> Credential]
        /\ \A o \in Request : o # q => cred'[o] = cred[o]
    BY <1>3, Facts
  <2>3. LimiterInv'
    BY <1>1, <1>3, AllowedSince
  <2>4. Looked'
    BY <1>1, <1>3, Facts, AllowedSince, LookedKeeps
  <2>5. Joined'
    BY <1>1, <1>3, Facts, AllowedSince, JoinedKeeps
  <2>6. DoorInv'
    BY <1>1, <1>3, <2>1, <2>2, <2>4, <2>5, Facts, DoorKeeps DEF Phase
  <2> QED
    BY <2>1, <2>3, <2>6 DEF IInv
<1> QED
  BY <1>2, <1>3 DEF AppsArrives

LEMMA PassesKeeps ==
  ASSUME IInv, NEW q \in Request, NEW l \in {"admin", "rtc"}, NEW p \in {"served", "gate"},
         p = "gate" => l = "rtc", Passes(q, l, p)
  PROVE  IInv'
<1>1. /\ phase[q] = "idle" /\ now' = now
      /\ UNCHANGED <<keyVars, client, cred, guesses, appGuesses, joins>>
  BY DEF Passes, historyVars
<1>2. CASE Throttle(l, client[q]) /\ UNCHANGED phase
  BY <1>1, <1>2, ThrottledStays DEF doorVars, historyVars
<1>3. CASE Allow(l, client[q]) /\ To(q, p)
  <2>1. KeysInv' /\ asked' = asked
    BY <1>1, Facts, KeysRest
  <2>2. LimiterInv'
    BY <1>1, <1>3, AllowedSince
  <2>3. Looked'
    BY <1>1, <1>3, Facts, AllowedSince, LookedKeeps
  <2>4. Joined'
    BY <1>1, <1>3, Facts, AllowedSince, JoinedKeeps
  <2>5. DoorInv'
    BY <1>1, <1>3, <2>1, <2>3, <2>4, Facts, DoorKeeps DEF Phase
  <2> QED
    BY <2>1, <2>2, <2>5 DEF IInv
<1> QED
  BY <1>2, <1>3 DEF Passes

LEMMA JoinKeeps == ASSUME IInv, NEW q \in Request, Join(q) PROVE IInv'
<1>1. /\ phase[q] = "gate" /\ now' = now /\ To(q, "idle")
      /\ UNCHANGED <<keyVars, client, cred, guesses, appGuesses>>
  BY DEF Join
<1>2. KeysInv' /\ asked' = asked
  BY <1>1, Facts, KeysRest
<1>3. CASE Allow("rtc", client[q]) /\ joins' = [joins EXCEPT ![client[q]] = @ + 1]
  <2>1. /\ joins' \in [Client -> Nat] /\ joins'[client[q]] = joins[client[q]] + 1
        /\ \A c \in Client : c # client[q] => joins'[c] = joins[c]
    BY <1>3, Facts
  <2>2. LimiterInv'
    BY <1>1, <1>3, AllowedSince
  <2>3. Looked'
    BY <1>1, <1>3, Facts, AllowedSince, LookedKeeps
  <2>4. Joined'
    BY <1>1, <1>3, <2>1, Facts, AllowedSince, JoinedKeeps
  <2>5. DoorInv'
    BY <1>1, <1>2, <2>1, <2>3, <2>4, Facts, DoorKeeps DEF Phase
  <2> QED
    BY <1>2, <2>2, <2>5 DEF IInv
<1>4. CASE Throttle("rtc", client[q]) /\ UNCHANGED joins
  <2>1. LimiterInv' /\ since' = since
    BY <1>1, <1>4, Facts, Listeners, ThrottleKeeps
  <2>2. Looked'
    BY <1>1, <2>1, Facts, RestingSince, LookedKeeps
  <2>3. Joined'
    BY <1>1, <1>4, <2>1, Facts, RestingSince, JoinedKeeps
  <2>4. DoorInv'
    BY <1>1, <1>2, <1>4, <2>2, <2>3, Facts, DoorKeeps DEF Phase
  <2> QED
    BY <1>2, <2>1, <2>4 DEF IInv
<1> QED
  BY <1>3, <1>4 DEF Join

(* A step of a request that asks no limiter.                               *)
LEMMA UnmeteredKeeps ==
  ASSUME IInv, now' = now, UNCHANGED <<limiterVars, client, cred, appGuesses, joins>>,
         NEW q \in Request, NEW p \in {"idle", "lookup", "served"}, To(q, p),
         KeysInv',
         \A o \in Request : o # q => asked'[o] = asked[o],
         IF p = "lookup" THEN cred[q] \in ApiKey /\ asked'[q].key = cred[q]
                         ELSE asked'[q] = NoCall,
         guesses' = guesses \/ (phase[q] = "auth" /\ Guess(q))
  PROVE  IInv'
<1>1. LimiterInv' /\ since' = since
  BY Facts, LimitersRest DEF limiterVars
<1>2. /\ guesses' \in [Client -> Nat]
      /\ \A c \in Client : c # client[q] => guesses'[c] = guesses[c]
      /\ \/ guesses' = guesses
         \/ phase[q] = "auth" /\ guesses'[client[q]] = guesses[client[q]] + 1
  BY Facts DEF Guess
<1>3. Looked'
  BY <1>1, <1>2, Facts, RestingSince, LookedKeeps
<1>4. Joined'
  BY <1>1, Facts, RestingSince, JoinedKeeps
<1>5. DoorInv'
  BY <1>2, <1>3, <1>4, Facts, DoorKeeps DEF Phase
<1> QED
  BY <1>1, <1>5 DEF IInv

LEMMA CheckKeyKeeps == ASSUME IInv, NEW q \in Request, CheckKey(q) PROVE IInv'
<1>1. /\ phase[q] = "auth" /\ cred[q] \in ApiKey /\ now' = now /\ Guess(q)
      /\ UNCHANGED <<limiterVars, client, cred, appGuesses, joins>>
  BY DEF CheckKey
<1>2. CASE Ask(q, cred[q]) /\ To(q, "lookup")
  BY <1>1, <1>2, Facts, AskKeeps, UnmeteredKeeps DEF Request
<1>3. CASE /\ To(q, IF Cached(cred[q]) = "meet" THEN "served" ELSE "idle")
           /\ UNCHANGED keyVars
  <2>1. KeysInv' /\ asked' = asked /\ asked'[q] = NoCall
    BY <1>1, <1>3, Facts, KeysRest
  <2>2. CASE Cached(cred[q]) = "meet"
    BY <1>1, <1>3, <2>1, <2>2, UnmeteredKeeps
  <2>3. CASE Cached(cred[q]) # "meet"
    BY <1>1, <1>3, <2>1, <2>3, UnmeteredKeeps
  <2> QED
    BY <2>2, <2>3
<1> QED
  BY <1>2, <1>3 DEF CheckKey

LEMMA KeyReturnsKeeps == ASSUME IInv, NEW q \in Request, KeyReturns(q) PROVE IInv'
<1>1. /\ phase[q] = "lookup" /\ now' = now
      /\ UNCHANGED <<limiterVars, client, cred, guesses, appGuesses, joins>>
  BY DEF KeyReturns, historyVars
<1>2. CASE Remember(q) /\ To(q, IF asked[q].res = "meet" THEN "served" ELSE "idle")
  <2>1. /\ KeysInv' /\ asked'[q] = NoCall
        /\ \A o \in Request : o # q => asked'[o] = asked[o]
    BY <1>1, <1>2, Facts, RememberKeeps DEF Request
  <2>2. CASE asked[q].res = "meet"
    BY <1>1, <1>2, <2>1, <2>2, UnmeteredKeeps
  <2>3. CASE asked[q].res # "meet"
    BY <1>1, <1>2, <2>1, <2>3, UnmeteredKeeps
  <2> QED
    BY <2>2, <2>3
<1>3. CASE LookupFails(q) /\ To(q, "idle")
  <2>1. /\ KeysInv' /\ asked'[q] = NoCall
        /\ \A o \in Request : o # q => asked'[o] = asked[o]
    BY <1>1, <1>3, Facts, LookupFailsKeeps DEF Request
  <2> QED
    BY <1>1, <1>3, <2>1, UnmeteredKeeps
<1> QED
  BY <1>2, <1>3 DEF KeyReturns

LEMMA CheckStaticKeeps == ASSUME IInv, NEW q \in Request, CheckStatic(q) PROVE IInv'
<1>1. /\ phase[q] = "auth" /\ now' = now /\ Guess(q)
      /\ UNCHANGED <<limiterVars, keyVars, client, cred, appGuesses, joins>>
      /\ To(q, IF cred[q] = Static THEN "served" ELSE "idle")
  BY DEF CheckStatic
<1>2. KeysInv' /\ asked' = asked /\ asked'[q] = NoCall
  BY <1>1, Facts, KeysRest
<1>3. CASE cred[q] = Static
  BY <1>1, <1>2, <1>3, UnmeteredKeeps
<1>4. CASE cred[q] # Static
  BY <1>1, <1>2, <1>4, UnmeteredKeeps
<1> QED
  BY <1>3, <1>4

LEMMA CheckAppsKeeps == ASSUME IInv, NEW q \in Request, CheckApps(q) PROVE IInv'
<1>1. /\ phase[q] = "apps" /\ now' = now
      /\ UNCHANGED <<limiterVars, keyVars, client, cred, guesses, joins>>
      /\ appGuesses' = [appGuesses EXCEPT ![client[q]] = @ + 1]
  BY DEF CheckApps
<1>2. PICK p \in {"idle", "served"} : To(q, p)
  BY DEF CheckApps
<1>3. KeysInv' /\ asked' = asked /\ asked'[q] = NoCall
  BY <1>1, Facts, KeysRest
<1>4. LimiterInv' /\ since' = since
  BY <1>1, Facts, LimitersRest DEF limiterVars
<1>5. /\ appGuesses' \in [Client -> Nat]
      /\ appGuesses'[client[q]] = appGuesses[client[q]] + 1
      /\ \A c \in Client : c # client[q] => appGuesses'[c] = appGuesses[c]
  BY <1>1, Facts
<1>6. Looked'
  BY <1>1, <1>2, <1>4, Facts, RestingSince, LookedKeeps
<1>7. Joined'
  BY <1>1, <1>2, <1>4, <1>5, Facts, JoinedKeeps
<1>8. DoorInv'
  BY <1>1, <1>2, <1>3, <1>5, <1>6, <1>7, Facts, DoorKeeps DEF Phase
<1> QED
  BY <1>3, <1>4, <1>8 DEF IInv

LEMMA DoneKeeps == ASSUME IInv, NEW q \in Request, Done(q) PROVE IInv'
<1>1. /\ phase[q] = "served" /\ now' = now /\ To(q, "idle")
      /\ UNCHANGED <<limiterVars, keyVars, client, cred, guesses, appGuesses, joins>>
  BY DEF Done, historyVars
<1>2. KeysInv' /\ asked' = asked /\ asked'[q] = NoCall
  BY <1>1, Facts, KeysRest
<1> QED
  BY <1>1, <1>2, UnmeteredKeeps

LEMMA StutterKeeps == ASSUME IInv, UNCHANGED vars PROVE IInv'
<1>1. now' = now /\ since' = since /\ UNCHANGED <<limiterVars, keyVars, doorVars>>
  BY DEF vars, limiterVars
<1>2. LimiterInv' /\ KeysInv' /\ asked' = asked
  BY <1>1, LimitersRest, KeysRest DEF IInv
<1>3. \A o \in Request : Waiting(o)'
  BY <1>1, <1>2 DEF IInv, DoorInv, Waiting, doorVars
<1> QED
  BY <1>1, <1>2, <1>3, Resting DEF IInv

LEMMA Keeps == ASSUME IInv, [Next]_vars PROVE IInv'
<1>1. CASE UNCHANGED vars
  BY <1>1, StutterKeeps
<1>2. CASE TimePasses \/ ControlPlane \/ Evict
  BY <1>2, OthersMove
<1>3. ASSUME NEW q \in Request, NEW k \in Credential,
             AdminArrives(q, k) \/ AppsArrives(q, k)
      PROVE  IInv'
  BY <1>3, AdminArrivesKeeps, AppsArrivesKeeps
<1>4. ASSUME NEW q \in Request,
             \/ CheckKey(q) \/ KeyReturns(q) \/ CheckStatic(q) \/ CheckApps(q)
             \/ Done(q) \/ Join(q)
      PROVE  IInv'
  BY <1>4, CheckKeyKeeps, KeyReturnsKeeps, CheckStaticKeeps, CheckAppsKeeps,
     DoneKeeps, JoinKeeps
<1>5. ASSUME NEW q \in Request,
             \/ Passes(q, "admin", "served")
             \/ Passes(q, "rtc", "served") \/ Passes(q, "rtc", "gate")
      PROVE  IInv'
  BY <1>5, PassesKeeps
<1> QED
  BY <1>1, <1>2, <1>3, <1>4, <1>5 DEF Next

LEMMA Inductive == Spec => []IInv
<1>1. Init => IInv
  BY Starts
<1>2. IInv /\ [Next]_vars => IInv'
  BY Keeps
<1> QED
  BY <1>1, <1>2, PTL DEF Spec

-----------------------------------------------------------------------------
(* Theorems.                                                               *)

(* Buckets, cached results, lookups and requests are always of the shape   *)
(* the module says: a bucket never holds less than nothing, and an entry   *)
(* or a call is stamped with an instant that has been.                     *)
THEOREM TypeCorrect == Spec => []TypeOK
<1>1. IInv => TypeOK
  BY DEF IInv, LimiterInv, KeysInv, DoorInv, DoorTypeOK, TypeOK
<1> QED
  BY <1>1, Inductive, PTL

LEMMA Within == IInv => WithinWindow
<1> SUFFICES ASSUME IInv, NEW l \in Limiter, NEW c \in Client, NEW s \in 0 .. now
             PROVE  Cost * since[l][c][s] <= Burst[l] + Rate[l] * (now - s)
  BY DEF WithinWindow
<1>1. LimiterInv /\ now \in Instant
  BY DEF IInv, LimiterInv, ClockTypeOK
<1>2. s \in Instant /\ now - s \in Nat
  BY <1>1, ClockAssumption DEF Instant
<1>3. Rate[l] * (now - s) \in Nat
  BY <1>1, <1>2, Numbers, Product
<1>4. Cost * since[l][c][s] + Level(l, c) <= Burst[l] + Rate[l] * (now - s)
  BY <1>1 DEF LimiterInv, Paid, Used, Allowance
<1> QED
  BY <1>1, <1>2, <1>3, <1>4, SinceIs, LevelIs, Numbers

(* Whatever the rates, bursts and idle time, and in every order of grants, *)
(* refusals and evictions, Allow grants a client in no window of time more *)
(* than a full bucket and the window's refill.                             *)
THEOREM NoTokenTwice == Spec => []WithinWindow
  BY Within, Inductive, PTL

(* Allow refuses a client only when in some window one request more would  *)
(* have exceeded that allowance: no token is lost to a refill, a refusal   *)
(* or an eviction.                                                         *)
THEOREM NoTokenLost == Spec => []ThrottledOnlyWhenSpent
<1>1. IInv => ThrottledOnlyWhenSpent
  <2> SUFFICES ASSUME IInv, NEW l \in Limiter, NEW c \in Client, ~Granted(l, c)
               PROVE  \E s \in 0 .. now :
                        Cost * (since[l][c][s] + 1) > Burst[l] + Rate[l] * (now - s)
    BY DEF ThrottledOnlyWhenSpent
  <2>1. LimiterInv /\ now \in Instant
    BY DEF IInv, LimiterInv, ClockTypeOK
  <2>2. PICK s \in 0 .. now :
          Cost * since[l][c][s] + Level(l, c) = Burst[l] + Rate[l] * (now - s)
    BY <2>1 DEF LimiterInv, Spent, Used, Allowance
  <2>3. s \in Instant
    BY <2>1, ClockAssumption DEF Instant
  <2>4. Level(l, c) < Cost /\ Level(l, c) \in Nat
    BY <2>1, LevelIs, Numbers
  <2>5. Cost * (since[l][c][s] + 1) = Cost * since[l][c][s] + Cost
    BY <2>1, <2>3, SinceIs, Numbers
  <2> QED
    BY <2>1, <2>2, <2>3, <2>4, <2>5, SinceIs, Numbers
<1> QED
  BY <1>1, Inductive, PTL

LEMMA FromStart ==
  ASSUME IInv, NEW l \in Limiter, NEW c \in Client
  PROVE  /\ Cost * since[l][c][0] <= Burst[l] + Rate[l] * now
         /\ now \in Nat /\ Cost \in Nat /\ since[l][c][0] \in Nat
         /\ Cost * since[l][c][0] \in Nat
         /\ Burst[l] + Rate[l] * now \in Nat
<1>1. LimiterInv
  BY DEF IInv
<1>2. now \in Nat /\ 0 \in 0 .. now /\ now - 0 = now /\ 0 \in Instant
  BY <1>1, Numbers, ClockAssumption DEF Instant
<1>3. Cost * since[l][c][0] <= Burst[l] + Rate[l] * now
  BY <1>2, Within DEF WithinWindow
<1> QED
  BY <1>1, <1>2, <1>3, SinceIs, Numbers, Product

(* What the public limiter has granted pays for both.                      *)
LEMMA PublicPays ==
  ASSUME IInv, NEW c \in Client
  PROVE  /\ joins[c] \in Nat /\ appGuesses[c] \in Nat
         /\ 2 * joins[c] + appGuesses[c] \in Nat
         /\ 2 * joins[c] + appGuesses[c] <= since["rtc"][c][0]
<1>1. joins[c] \in Nat /\ appGuesses[c] \in Nat /\ since["rtc"][c][0] \in Nat
  BY Listeners, FromStart DEF IInv, DoorInv, DoorTypeOK
<1>2. Cardinality(At("gate", c)) \in Nat /\ Cardinality(At("apps", c)) \in Nat
  BY Counts
<1>3. 2 * joins[c] + appGuesses[c] + Cardinality(At("gate", c))
        + Cardinality(At("apps", c)) <= since["rtc"][c][0]
  BY DEF IInv, DoorInv, Joined
<1> QED
  BY <1>1, <1>2, <1>3

(* The bearers that are compared with MEET_ADMIN_TOKEN for one client      *)
(* never exceed what the admin limiter has granted it where checkAuth      *)
(* compares them, nor what the public limiter has granted it where the     *)
(* apps handler does, however many of its requests overlap.                *)
THEOREM GuessingIsLimited == Spec => []GuessesBounded
<1>1. IInv => GuessesBounded
  <2> SUFFICES ASSUME IInv, NEW c \in Client
               PROVE  /\ Cost * guesses[c] <= Burst["admin"] + Rate["admin"] * now
                      /\ Cost * appGuesses[c] <= Burst["rtc"] + Rate["rtc"] * now
    BY DEF GuessesBounded
  <2>1. guesses[c] \in Nat /\ guesses[c] <= since["admin"][c][0]
    BY Listeners, FromStart, Counts DEF IInv, DoorInv, DoorTypeOK, Looked
  <2>2. Cost * guesses[c] <= Cost * since["admin"][c][0] /\ Cost * guesses[c] \in Nat
    BY <2>1, Listeners, FromStart, ProductGrows, Product
  <2>3. appGuesses[c] \in Nat /\ appGuesses[c] <= since["rtc"][c][0]
    BY Listeners, FromStart, PublicPays
  <2>4. /\ Cost * appGuesses[c] <= Cost * since["rtc"][c][0]
        /\ Cost * appGuesses[c] \in Nat
    BY <2>3, Listeners, FromStart, ProductGrows, Product
  <2> QED
    BY <2>2, <2>4, Listeners, FromStart
<1> QED
  BY <1>1, Inductive, PTL

(* A /rtc request that reaches the token check has taken two tokens of one *)
(* bucket, and a bearer on an apps route one of the same: together they    *)
(* never exceed the client's allowance.                                    *)
THEOREM JoiningIsLimited == Spec => []JoinsPayTwice
<1>1. IInv => JoinsPayTwice
  <2> SUFFICES ASSUME IInv, NEW c \in Client
               PROVE  Cost * (2 * joins[c] + appGuesses[c])
                        <= Burst["rtc"] + Rate["rtc"] * now
    BY DEF JoinsPayTwice
  <2> DEFINE used == 2 * joins[c] + appGuesses[c]
  <2>1. used \in Nat /\ used <= since["rtc"][c][0]
    BY PublicPays
  <2> HIDE DEF used
  <2>2. Cost * used <= Cost * since["rtc"][c][0] /\ Cost * used \in Nat
    BY <2>1, Listeners, FromStart, ProductGrows, Product
  <2>3. Cost * used <= Burst["rtc"] + Rate["rtc"] * now
    BY <2>2, Listeners, FromStart
  <2> QED
    BY <2>3 DEF used
<1> QED
  BY <1>1, Inductive, PTL

LEMMA Vouched ==
  ASSUME IInv, Next, NEW q \in Request, phase[q] \in {"auth", "lookup", "apps"},
         phase'[q] = "served", cred[q] \in ApiKey
  PROVE  now < lastMeet[cred[q]] + CacheTTL + Timeout
<1>1. \A o \in Request : \A p : To(o, p) => phase'[q] = IF o = q THEN p ELSE phase[q]
  BY Facts DEF DoorTypeOK, To
<1>2. CheckKey(q) \/ KeyReturns(q)
  <2>1. phase' # phase
    BY Facts
  <2>2. ~(TimePasses \/ ControlPlane \/ Evict)
    BY <2>1 DEF TimePasses, ControlPlane, Evict, doorVars
  <2>3. PICK o \in Request :
          \/ \E k \in Credential : AdminArrives(o, k) \/ AppsArrives(o, k)
          \/ CheckKey(o) \/ KeyReturns(o) \/ CheckStatic(o) \/ CheckApps(o) \/ Done(o)
          \/ Passes(o, "admin", "served")
          \/ Passes(o, "rtc", "served") \/ Passes(o, "rtc", "gate") \/ Join(o)
    BY <2>2 DEF Next
  <2>4. o = q
    BY <1>1, <2>1, <2>3 DEF AdminArrives, AppsArrives, CheckKey, KeyReturns,
       CheckStatic, CheckApps, Done, Passes, Join
  <2>5. ~CheckApps(q)
    BY <1>1, CredentialAssumption DEF CheckApps
  <2> QED
    BY <2>3, <2>4, <2>5 DEF AdminArrives, AppsArrives, CheckStatic, Done, Passes, Join
<1>3. CASE CheckKey(q)
  <2>1. Cached(cred[q]) = "meet"
    BY <1>1, <1>3 DEF CheckKey
  <2>2. cache[cred[q]].res = "meet" /\ now - cache[cred[q]].fetched < CacheTTL
    BY <2>1 DEF Cached
  <2>3. cache[cred[q]].fetched <= lastMeet[cred[q]] + Timeout
    BY <2>2, Facts DEF KeysInv, KeyTimes
  <2> QED
    BY <2>2, <2>3, Facts, Times
<1>4. CASE KeyReturns(q)
  <2>1. Remember(q) /\ asked[q].res = "meet" /\ asked[q].key = cred[q] /\ now' = now
    BY <1>1, <1>4, Facts DEF KeyReturns
  <2>2. now <= lastMeet[cred[q]] + Timeout
    BY <2>1, Facts, RememberKeeps DEF Request
  <2> QED
    BY <2>2, Facts, Times
<1> QED
  BY <1>2, <1>3, <1>4

(* A key that lets a request in was valid for meet at the control plane    *)
(* less than cacheTTL and one timeout ago, for every interleaving of       *)
(* lookups, revocations and answers that come late or not at all.          *)
THEOREM RevocationTakesHold == Spec => RevokedInTime
<1>1. ASSUME IInv, [Next]_vars
      PROVE  [\A q \in Request :
                /\ phase[q] \in {"auth", "lookup", "apps"} /\ phase'[q] = "served"
                /\ cred[q] \in ApiKey
                => now < lastMeet[cred[q]] + CacheTTL + Timeout]_vars
  BY <1>1, Vouched
<1> QED
  BY <1>1, Inductive, PTL DEF Spec, RevokedInTime
=============================================================================
