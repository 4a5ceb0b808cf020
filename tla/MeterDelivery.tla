---------------------------- MODULE MeterDelivery ----------------------------
(***************************************************************************)
(* What the metering path promises its billing side, with no queue, worker *)
(* or network in sight: a usage event is reported once, is then "open"     *)
(* until it is settled, and leaves that state only because the control     *)
(* plane has it in its ledger or because the drop counter went up for it.  *)
(* The ledger only grows, with events that were reported.  An event that   *)
(* was given up may still reach the ledger later: a request that timed out *)
(* at the sender can be handled by the receiver afterwards.                *)
(***************************************************************************)
EXTENDS Naturals, FiniteSets

CONSTANT Event   \* the usage events (one per finished room) to be billed

VARIABLES
  reported,      \* events handed to Report
  open,          \* reported events whose fate the sender does not know yet
  ledger,        \* events the control plane has billed
  dropped        \* the sender's Dropped() counter

vars == <<reported, open, ledger, dropped>>

Init ==
  /\ reported = {}
  /\ open = {}
  /\ ledger = {}
  /\ dropped = 0

(* A new event is taken in charge.                                         *)
Accept(e) ==
  /\ e \notin reported
  /\ reported' = reported \cup {e}
  /\ open' = open \cup {e}
  /\ UNCHANGED <<ledger, dropped>>

(* A new event is turned away at the door, and counted.                    *)
Refuse(e) ==
  /\ e \notin reported
  /\ reported' = reported \cup {e}
  /\ dropped' = dropped + 1
  /\ UNCHANGED <<open, ledger>>

(* The control plane bills an event.                                       *)
Bill(e) ==
  /\ e \in reported \ ledger
  /\ ledger' = ledger \cup {e}
  /\ UNCHANGED <<reported, open, dropped>>

(* The sender learns that the event was billed.                            *)
Confirm(e) ==
  /\ e \in open \cap ledger
  /\ open' = open \ {e}
  /\ UNCHANGED <<reported, ledger, dropped>>

(* The sender gives the event up, and counts it.                           *)
GiveUp(e) ==
  /\ e \in open
  /\ open' = open \ {e}
  /\ dropped' = dropped + 1
  /\ UNCHANGED <<reported, ledger>>

Next ==
  \E e \in Event :
    Accept(e) \/ Refuse(e) \/ Bill(e) \/ Confirm(e) \/ GiveUp(e)

Spec == Init /\ [][Next]_vars
=============================================================================
