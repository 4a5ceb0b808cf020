------------------------- MODULE RecordingLifecycle -------------------------
(***************************************************************************)
(* The life of one recording as the documentation draws it:                *)
(*                                                                         *)
(*     recording -> available | failed -> expired -> deleted               *)
(*                                                                         *)
(* A recording may be heard of late (its first webhook may be the last     *)
(* one), and LiveKit may correct its verdict on a finished egress.  No     *)
(* recording skips "expired" on its way to "deleted" and none goes back.   *)
(* The ledger is forgotten as a whole, when the process restarts, or not   *)
(* at all.                                                                 *)
(***************************************************************************)
CONSTANT Egress        \* egress ids

VARIABLE life          \* the state of each recording

Finished == {"available", "failed"}

Init == life = [e \in Egress |-> "unknown"]

Step(from, to) ==
  \/ from = "unknown"   /\ to \in {"recording"} \cup Finished
  \/ from = "recording" /\ to \in Finished
  \/ from \in Finished  /\ to \in Finished \cup {"expired"}
  \/ from = "expired"   /\ to = "deleted"

Advance(e) ==
  \E s \in {"recording", "expired", "deleted"} \cup Finished :
    /\ Step(life[e], s)
    /\ life' = [life EXCEPT ![e] = s]

Forget == life' = [e \in Egress |-> "unknown"]

Next == Forget \/ \E e \in Egress : Advance(e)

Spec == Init /\ [][Next]_life
=============================================================================
