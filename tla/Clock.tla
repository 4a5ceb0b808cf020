------------------------------- MODULE Clock -------------------------------
(***************************************************************************)
(* The box's monotonic clock, which the rate limiters and the API-key      *)
(* cache both read.                                                        *)
(***************************************************************************)
EXTENDS Naturals

CONSTANT MaxClock    \* bound on the time modelled

ASSUME ClockAssumption == MaxClock \in Nat

VARIABLE now

Instant == 0 .. MaxClock

ClockTypeOK == now \in Instant
ClockInit   == now = 0

Tick == now < MaxClock /\ now' = now + 1
=============================================================================
