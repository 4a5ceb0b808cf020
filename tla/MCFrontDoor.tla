---------------------------- MODULE MCFrontDoor ----------------------------
(* FrontDoor with constants for TLC: one client, overlapping requests.  A  *)
(* tick refills two thirds of a token, so that the cap cuts a refill.      *)
EXTENDS FrontDoor, TLC

CONSTANTS q1, q2

MCRate  == [l \in {"admin", "rtc"} |-> 2]
MCBurst == [l \in {"admin", "rtc"} |-> 3]

MCSymmetry == Permutations({q1, q2})
=============================================================================
