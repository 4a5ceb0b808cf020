-------------------------- MODULE MCUsageReceiver --------------------------
(* The participants of a room are interchangeable: no definition and no    *)
(* property tells them apart.                                              *)
EXTENDS UsageReceiver, TLC

MCSymmetry == Permutations(Identity)
=============================================================================
