------------------------- MODULE MCRecordingLedger -------------------------
(* Three recordings of one tenant: two of one room, one of another.        *)
EXTENDS RecordingLedger

MCEgress == 1 .. 3

MCTwoEgress == 1 .. 2

MCRoomOf == [e \in MCEgress |-> IF e = 3 THEN "hall" ELSE "lobby"]

MCTenantOf == [e \in MCEgress |-> "acme"]
=============================================================================
