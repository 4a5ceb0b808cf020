---------------------------- MODULE RoomBreaker ----------------------------
(***************************************************************************)
(* The circuit breaker of LiveKitRoomService: preCall and postCall around  *)
(* calls that overlap in time, against a livekit-server child that stalls  *)
(* and comes back.                                                         *)
(*                                                                         *)
(* Time is kept relative: the age of each call and the time left until     *)
(* openUntil, so that no clock has to be bounded.                          *)
(***************************************************************************)
EXTENDS Naturals

CONSTANTS
  Caller,        \* goroutines that call the RoomService
  CallTimeout,   \* the longest a call takes (5s context, 7s client ceiling)
  Cooldown,      \* BreakerCooldown
  Threshold      \* BreakerThreshold

ASSUME ThresholdAssumption == Threshold \in Nat \ {0}
(* The defaults are 5s (7s at most) and 30s; nothing sets others.          *)
ASSUME TimesAssumption ==
  CallTimeout \in Nat /\ Cooldown \in Nat /\ CallTimeout < Cooldown

VARIABLES
  upstream,     \* the child: never stalled so far, stalled, or back
  call,         \* per caller: idle, or between preCall and postCall
  age,          \* how long the call has been going
  consecFail,   \* consecFail, which matters up to Threshold
  tripped,      \* ~openUntil.IsZero()
  left,         \* openUntil - now, or 0 once that is past
  halfOpen      \* halfOpen

breakerVars == <<upstream, call, age, consecFail, tripped, left, halfOpen>>

InFlight == {c \in Caller : call[c] = "flight"}

BreakerTypeOK ==
  /\ upstream \in {"steady", "stalled", "back"}
  /\ call \in [Caller -> {"idle", "flight"}]
  /\ age \in [Caller -> 0 .. CallTimeout]
  /\ consecFail \in 0 .. Threshold
  /\ tripped \in BOOLEAN
  /\ left \in 0 .. Cooldown
  /\ halfOpen \in BOOLEAN

BreakerInit ==
  /\ upstream = "steady"
  /\ call = [c \in Caller |-> "idle"]
  /\ age = [c \in Caller |-> 0]
  /\ consecFail = 0
  /\ tripped = FALSE
  /\ left = 0
  /\ halfOpen = FALSE

-----------------------------------------------------------------------------
(* Seeded fault: the calls have no deadline.                               *)
TickNoDeadline ==
  /\ age' = [c \in Caller |-> IF c \in InFlight THEN age[c] + 1 ELSE 0]
  /\ left' = IF left > 0 THEN left - 1 ELSE 0
  /\ UNCHANGED <<upstream, call, consecFail, tripped, halfOpen>>

(* Time passes; a call that has used up its timeout returns before that.   *)
Tick ==
  /\ \A c \in InFlight : age[c] < CallTimeout
  /\ age' = [c \in Caller |-> IF c \in InFlight THEN age[c] + 1 ELSE 0]
  /\ left' = IF left > 0 THEN left - 1 ELSE 0
  /\ UNCHANGED <<upstream, call, consecFail, tripped, halfOpen>>

Stall ==
  /\ upstream # "stalled"
  /\ upstream' = "stalled"
  /\ UNCHANGED <<call, age, consecFail, tripped, left, halfOpen>>

ComeBack ==
  /\ upstream = "stalled"
  /\ upstream' = "back"
  /\ UNCHANGED <<call, age, consecFail, tripped, left, halfOpen>>

(* Seeded fault: the half-open flag is set and never looked at.            *)
PreCallUnguarded == ~tripped \/ left = 0

(* preCall lets the call through: the breaker is closed, or the cooldown   *)
(* has elapsed and there is no probe yet.  Otherwise the caller gets       *)
(* ErrRoomServiceBreakerOpen and nothing changes.                          *)
PreCall == ~tripped \/ (left = 0 /\ ~halfOpen)

Call(c) ==
  /\ call[c] = "idle"
  /\ PreCall
  /\ halfOpen' = (tripped \/ halfOpen)
  /\ call' = [call EXCEPT ![c] = "flight"]
  /\ age' = [age EXCEPT ![c] = 0]
  /\ UNCHANGED <<upstream, consecFail, tripped, left>>

Returns(c) ==
  /\ call[c] = "flight"
  /\ call' = [call EXCEPT ![c] = "idle"]
  /\ age' = [age EXCEPT ![c] = 0]
  /\ UNCHANGED upstream

(* postCall(nil).                                                          *)
PostSuccess ==
  /\ halfOpen' = FALSE
  /\ consecFail' = 0
  /\ tripped' = FALSE
  /\ left' = 0

(* Seeded fault: a failed probe leaves the half-open flag set.             *)
PostFailureStuck ==
  /\ consecFail' = IF consecFail < Threshold THEN consecFail + 1 ELSE Threshold
  /\ tripped' = (tripped \/ consecFail' = Threshold)
  /\ left' = IF consecFail' = Threshold THEN Cooldown ELSE left
  /\ UNCHANGED halfOpen

(* postCall(err): the Threshold-th consecutive failure opens the breaker   *)
(* and each further one keeps it open for another cooldown.                *)
PostFailure ==
  /\ halfOpen' = FALSE
  /\ consecFail' = IF consecFail < Threshold THEN consecFail + 1 ELSE Threshold
  /\ IF consecFail' = Threshold
       THEN tripped' = TRUE /\ left' = Cooldown
       ELSE UNCHANGED <<tripped, left>>

Succeeds(c) == Returns(c) /\ PostSuccess

(* Connection refused, reset, or the deadline.                             *)
Fails(c) == upstream # "steady" /\ Returns(c) /\ PostFailure

(* An error that says nothing about the child's health: the caller hung up *)
(* and its context is cancelled, or LiveKit answers that there is no such  *)
(* room.  postCall does not tell it from the others.                       *)
Errs(c) == Returns(c) /\ PostFailure

BreakerNext ==
  \/ Tick \/ Stall \/ ComeBack
  \/ \E c \in Caller : Call(c) \/ Succeeds(c) \/ Fails(c) \/ Errs(c)

BreakerSpec == BreakerInit /\ [][BreakerNext]_breakerVars

-----------------------------------------------------------------------------
(* rooms_livekit.go: "Cooldown elapsed - allow ONE half-open probe".  With *)
(* the cooldown over and the breaker not closed at most one call is out:   *)
(* no straggler from before it opened resets the flag under the probe.     *)
(* And the flag is never left set with no probe out to clear it.           *)
OneProbe ==
  /\ tripped /\ left = 0 => \A c, d \in InFlight : c = d
  /\ halfOpen => InFlight # {}

(* Once the child stays back, the breaker does not reject for ever.        *)
Recovers == <>[](upstream # "stalled") => []<>(~tripped)
=============================================================================
