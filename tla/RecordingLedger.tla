--------------------------- MODULE RecordingLedger ---------------------------
(***************************************************************************)
(* The recording ledger (MemRecordingStore), the two parties that write it *)
(* and what they talk to: the egress webhook receiver, whose webhooks      *)
(* LiveKit may repeat, delay and reorder and which forwards each one to    *)
(* the cloud sink, and the retention driver, which sweeps the ledger from  *)
(* a snapshot while webhooks keep arriving and asks the sink to delete.    *)
(*                                                                         *)
(* The ledger is metadata: sizes, durations and the ExpiredAt/DeletedAt    *)
(* stamps, which no decision reads, are left out.  A box without a sink    *)
(* behaves like one whose sink never files anything and whose deletes all  *)
(* succeed.                                                                *)
(***************************************************************************)
EXTENDS Naturals, FiniteSets

CONSTANTS
  Egress,         \* egress ids, as numbers so that they have their order
  RoomOf,         \* the (tenant, room) an egress records
  TenantOf,       \* its tenant
  TTL,            \* RetentionPolicy.TTL in clock units, 0 = rule off
  MaxPerRoom,     \* RetentionPolicy.MaxPerRoom, 0 = rule off
  MaxPerTenant,   \* RetentionPolicy.MaxPerTenant, 0 = rule off
  MaxClock,       \* bound: the clock stops here
  MaxDeliveries,  \* bound: webhooks delivered, redeliveries included
  NoEgress        \* the driver works on no recording

ASSUME EgressAssumption ==
  Egress \subseteq Nat /\ IsFiniteSet(Egress) /\ NoEgress \notin Egress
ASSUME PolicyAssumption ==
  /\ TTL \in Nat /\ MaxPerRoom \in Nat /\ MaxPerTenant \in Nat
  /\ TTL > 0 \/ MaxPerRoom > 0 \/ MaxPerTenant > 0
ASSUME BoundsAssumption == MaxClock \in Nat \ {0} /\ MaxDeliveries \in Nat

VARIABLES
  clock,        \* Unix time
  egress,       \* LiveKit's own view of each egress
  deliveries,   \* webhooks delivered so far
  ledger,       \* MemRecordingStore.rec
  posted,       \* recordings whose completion envelope has been posted
  dels,         \* deletes the driver gave up on that the sink may still get
  sink,         \* what the cloud sink has done with each recording
  gauge,        \* Metrics.egressInProgress
  todo,         \* past-retention ids the pass still has to handle
  marked,       \* the ones its List() showed as expired by an earlier pass
  item,         \* the id it works on
  step,         \* idle, between ids, in the delete call, about to confirm
  finalAt       \* history: when the ledger first had the recording finished

env       == <<clock, egress>>
cloud     == <<posted, dels, sink>>
sweepVars == <<todo, marked, item, step>>
vars == <<clock, egress, deliveries, ledger, posted, dels, sink, gauge,
          todo, marked, item, step, finalAt>>

State == {"recording", "available", "failed", "expired", "deleted"}

NoEntry == [state |-> "unknown", startedAt |-> 0, endedAt |-> 0]

Time == 0 .. MaxClock

Entry == [state : State \cup {"unknown"}, startedAt : Time, endedAt : Time]

TypeOK ==
  /\ clock \in 1 .. MaxClock
  /\ egress \in [Egress -> {"active", "complete", "failed"}]
  /\ deliveries \in 0 .. MaxDeliveries
  /\ ledger \in [Egress -> Entry]
  /\ posted \subseteq Egress
  /\ dels \subseteq Egress
  /\ sink \in [Egress -> {"unfiled", "filed", "accepted", "gone"}]
  /\ gauge \in 0 .. MaxDeliveries
  /\ todo \subseteq Egress
  /\ marked \subseteq todo
  /\ item \in Egress \cup {NoEgress}
  /\ step \in {"idle", "pick", "delete", "confirm"}
  /\ finalAt \in [Egress -> Time]

Init ==
  /\ clock = 1
  /\ egress = [e \in Egress |-> "active"]
  /\ deliveries = 0
  /\ ledger = [e \in Egress |-> NoEntry]
  /\ posted = {}
  /\ dels = {}
  /\ sink = [e \in Egress |-> "unfiled"]
  /\ gauge = 0
  /\ todo = {}
  /\ marked = {}
  /\ item = NoEgress
  /\ step = "idle"
  /\ finalAt = [e \in Egress |-> 0]

-----------------------------------------------------------------------------
(* LiveKit: an egress ends.  Webhooks that it has sent for an egress       *)
(* may arrive at any time afterwards, in any order and more than once.     *)

Tick ==
  /\ clock < MaxClock
  /\ clock' = clock + 1
  /\ UNCHANGED <<egress, deliveries, ledger, cloud, gauge, sweepVars,
                 finalAt>>

EgressEnds(e) ==
  /\ egress[e] = "active"
  /\ \E end \in {"complete", "failed"} : egress' = [egress EXCEPT ![e] = end]
  /\ UNCHANGED <<clock, deliveries, ledger, cloud, gauge, sweepVars,
                 finalAt>>

Hook(ev, st) == [event |-> ev, status |-> st]

(* What LiveKit sends of an egress, by how far the egress got.  Only       *)
(* egress_ended may come without a status.                                 *)
Sent(how) ==
  {Hook("egress_started", "active"), Hook("egress_updated", "active")}
  \cup
  (CASE how = "complete" -> {Hook("egress_updated", "complete"),
                             Hook("egress_ended", "none")}
     [] how = "failed"   -> {Hook("egress_ended", "failed")}
     [] OTHER            -> {})

-----------------------------------------------------------------------------
(* The egress receiver.                                                    *)

(* recordLifecycle's switch: the status decides, then the event's name.    *)
StateFor(h) ==
  CASE h.status = "complete"     -> "available"
    [] h.status = "failed"       -> "failed"
    [] h.event  = "egress_ended" -> "available"
    [] OTHER                     -> "recording"

Rank(s) ==
  CASE s = "expired" -> 2
    [] s = "deleted" -> 3
    [] s \in {"available", "failed"} -> 1
    [] OTHER -> 0

IsFinal(s) == Rank(s) >= 1

(* The entry the switch builds: a start stamp or an end stamp.             *)
EntryFor(s, now) ==
  [state     |-> s,
   startedAt |-> IF s = "recording" THEN now ELSE 0,
   endedAt   |-> IF s = "recording" THEN 0 ELSE now]

(* Seeded fault: the last webhook wins.                                    *)
UpsertLatest(old, in) ==
  [state     |-> in.state,
   startedAt |-> IF old.startedAt = 0 THEN in.startedAt ELSE old.startedAt,
   endedAt   |-> IF in.endedAt > 0 THEN in.endedAt ELSE old.endedAt]

(* Upsert: the first webhook creates the entry; a later one is merged in,  *)
(* never walking the state back, keeping the first start stamp and taking  *)
(* the last end stamp.                                                     *)
Upsert(old, in) ==
  IF old = NoEntry THEN in
  ELSE [state     |-> IF Rank(in.state) < Rank(old.state)
                        THEN old.state ELSE in.state,
        startedAt |-> IF old.startedAt = 0 THEN in.startedAt ELSE old.startedAt,
        endedAt   |-> IF in.endedAt > 0 THEN in.endedAt ELSE old.endedAt]

(* Seeded fault: the gauge has no floor.                                   *)
GaugeAfterUnfloored(s) == IF s = "recording" THEN gauge + 1 ELSE gauge - 1

(* ObserveRecordingLifecycle: the gauge follows the webhook's state.       *)
GaugeAfter(s) ==
  IF s = "recording" THEN gauge + 1
  ELSE IF gauge > 0 THEN gauge - 1 ELSE 0

(* A verified webhook: the ledger and the gauge, then forward() posts the  *)
(* envelope, up to MaxAttempts times.  Whether forward() is told of it, by *)
(* a 2xx, decides only what LiveKit is answered (204, or 502 and LiveKit   *)
(* delivers again).                                                        *)
Receive(e, h) ==
  LET s == StateFor(h) IN
  /\ deliveries < MaxDeliveries
  /\ deliveries' = deliveries + 1
  /\ ledger' = [ledger EXCEPT ![e] = Upsert(@, EntryFor(s, clock))]
  /\ gauge' = GaugeAfter(s)
  /\ posted' = IF s = "available" THEN posted \cup {e} ELSE posted
  /\ finalAt' = [finalAt EXCEPT ![e] =
                   IF @ = 0 /\ IsFinal(s) THEN clock ELSE @]
  /\ UNCHANGED <<env, dels, sink, sweepVars>>

(* The sink handles a posted envelope and files the recording: during the  *)
(* attempt, or after the client timed out, retried, gave up or died, or    *)
(* never.  The envelope names the recording and does not carry it, so one  *)
(* handled after the object was deleted does not bring it back; the other  *)
(* envelopes leave nothing to delete.                                      *)
SinkFiles(e) ==
  /\ e \in posted
  /\ sink[e] = "unfiled"
  /\ sink' = [sink EXCEPT ![e] = "filed"]
  /\ UNCHANGED <<env, deliveries, ledger, posted, dels, gauge, sweepVars,
                 finalAt>>

(* The sink removes the object of a delete that it answered with 202, or   *)
(* of one whose client did not wait for the answer; it need not ever.      *)
SinkDeletes(e) ==
  /\ sink[e] = "accepted" \/ (e \in dels /\ sink[e] = "filed")
  /\ sink' = [sink EXCEPT ![e] = "gone"]
  /\ UNCHANGED <<env, deliveries, ledger, posted, dels, gauge, sweepVars,
                 finalAt>>

-----------------------------------------------------------------------------
(* The retention policy.                                                   *)

(* Seeded fault: retention counts from the start of the recording.         *)
RetainedFromStart(r) == IF r.startedAt > 0 THEN r.startedAt ELSE r.endedAt

(* retainedFrom: the end stamp, or the start stamp while there is none.    *)
RetainedFrom(r) == IF r.endedAt > 0 THEN r.endedAt ELSE r.startedAt

(* Seeded fault: a recording in progress is eligible too.                  *)
EligibleInProgress(recs) ==
  {e \in Egress : recs[e].state \notin {"unknown", "deleted"}}

Eligible(recs) ==
  {e \in Egress : recs[e].state \in {"available", "failed", "expired"}}

PastTTL(recs, now) ==
  {e \in Eligible(recs) :
     /\ TTL > 0
     /\ RetainedFrom(recs[e]) > 0
     /\ RetainedFrom(recs[e]) + TTL <= now}

(* Newest first by finalisation time, ties broken by egress id.            *)
Newer(recs, f, e) ==
  \/ RetainedFrom(recs[f]) > RetainedFrom(recs[e])
  \/ RetainedFrom(recs[f]) = RetainedFrom(recs[e]) /\ f > e

(* markOldestBeyond over the groups of equal scope.                        *)
OldestBeyond(recs, scope, keep) ==
  {e \in Eligible(recs) :
     /\ keep > 0
     /\ Cardinality({f \in Eligible(recs) :
                       scope[f] = scope[e] /\ Newer(recs, f, e)}) >= keep}

ExpiredEgressIDs(recs, now) ==
  PastTTL(recs, now)
    \cup OldestBeyond(recs, RoomOf, MaxPerRoom)
    \cup OldestBeyond(recs, TenantOf, MaxPerTenant)

-----------------------------------------------------------------------------
(* The retention driver: Run() on each tick of RunLoop.                    *)

SetState(e, s) == ledger' = [ledger EXCEPT ![e].state = s]

SweepBegins ==
  /\ step = "idle"
  /\ todo' = ExpiredEgressIDs(ledger, clock)
  /\ marked' = {e \in todo' : ledger[e].state = "expired"}
  /\ step' = "pick"
  /\ UNCHANGED <<env, deliveries, ledger, cloud, gauge, item, finalAt>>

(* Seeded fault: an id that an earlier pass marked is not tried again.     *)
MarkExpiredOnce(e) ==
  /\ step = "pick"
  /\ e \in todo
  /\ IF e \notin marked
       THEN /\ item' = e
            /\ step' = "delete"
            /\ SetState(e, "expired")
            /\ UNCHANGED <<todo, marked>>
       ELSE /\ todo' = todo \ {e}
            /\ marked' = marked \ {e}
            /\ UNCHANGED <<ledger, item, step>>
  /\ UNCHANGED <<env, deliveries, cloud, gauge, finalAt>>

(* The loop takes an id, in map order, and marks it expired unless the     *)
(* driver's copy of the ledger says that an earlier pass did.              *)
MarkExpired(e) ==
  /\ step = "pick"
  /\ e \in todo
  /\ item' = e
  /\ step' = "delete"
  /\ IF e \notin marked THEN SetState(e, "expired")
                                  ELSE UNCHANGED ledger
  /\ UNCHANGED <<env, deliveries, cloud, gauge, todo, marked, finalAt>>

(* The loop goes on to the next id.                                        *)
NextItem ==
  /\ todo' = todo \ {item}
  /\ marked' = marked \ {item}
  /\ item' = NoEgress
  /\ step' = "pick"

(* Seeded fault: any answer of the sink counts as a confirmation.          *)
DeleteSucceedsAlways ==
  /\ step = "delete"
  /\ step' = "confirm"
  /\ UNCHANGED <<env, deliveries, ledger, cloud, gauge, todo, marked, item,
                 finalAt>>

(* Delete() returns nil.  200 and 204: the sink deleted the object.  202:  *)
(* it accepted the delete and has not carried it out.  404: it has no such *)
(* recording (or there is no sink at all).                                 *)
DeleteSucceeds ==
  /\ step = "delete"
  /\ \/ /\ sink[item] \in {"filed", "accepted"}
        /\ \E s \in {"gone", "accepted"} : sink' = [sink EXCEPT ![item] = s]
     \/ /\ sink[item] \in {"unfiled", "gone"}
        /\ UNCHANGED sink
  /\ step' = "confirm"
  /\ UNCHANGED <<env, deliveries, ledger, posted, dels, gauge, todo, marked,
                 item, finalAt>>

(* An error answer or none; the sink may carry the delete out all the same *)
(* (SinkDeletes).                                                          *)
DeleteFails ==
  /\ step = "delete"
  /\ dels' = dels \cup {item}
  /\ NextItem
  /\ UNCHANGED <<env, deliveries, ledger, posted, sink, gauge, finalAt>>

MarkDeleted ==
  /\ step = "confirm"
  /\ SetState(item, "deleted")
  /\ NextItem
  /\ UNCHANGED <<env, deliveries, cloud, gauge, finalAt>>

SweepEnds ==
  /\ step = "pick"
  /\ todo = {}
  /\ step' = "idle"
  /\ UNCHANGED <<env, deliveries, ledger, cloud, gauge, todo, marked, item,
                 finalAt>>

-----------------------------------------------------------------------------
(* The process dies and starts again: the ledger is in memory; LiveKit,    *)
(* the sink and the requests on their way to it are not.                   *)
Restart ==
  /\ ledger' = [e \in Egress |-> NoEntry]
  /\ gauge' = 0
  /\ todo' = {}
  /\ marked' = {}
  /\ item' = NoEgress
  /\ step' = "idle"
  /\ finalAt' = [e \in Egress |-> 0]
  /\ UNCHANGED <<env, deliveries, cloud>>

Sweep ==
  \/ SweepBegins
  \/ \E e \in Egress : MarkExpired(e)
  \/ DeleteSucceeds \/ DeleteFails
  \/ MarkDeleted \/ SweepEnds

Next ==
  \/ Tick
  \/ \E e \in Egress : EgressEnds(e)
  \/ \E e \in Egress : \E h \in Sent(egress[e]) : Receive(e, h)
  \/ \E e \in Egress : SinkFiles(e)
  \/ \E e \in Egress : SinkDeletes(e)
  \/ Sweep
  \/ Restart

Spec == Init /\ [][Next]_vars

(* RunLoop's ticker keeps firing and Run() does not block for ever (each   *)
(* delete has a 10s timeout); the sink's outages end, so a delete that is  *)
(* retried again and again succeeds some time.                             *)
Fairness ==
  /\ WF_vars(Sweep)
  /\ \A e \in Egress : SF_vars(item = e /\ DeleteSucceeds)

FairSpec == Spec /\ Fairness

-----------------------------------------------------------------------------
(* Properties.                                                             *)

(* README: "A local lifecycle ledger (recording -> available -> expired -> *)
(* deleted)".  Whatever webhooks repeat while a pass works from its stale  *)
(* snapshot, each entry walks that path and never back.                    *)
Lifecycle == INSTANCE RecordingLifecycle WITH
  life <- [e \in Egress |-> ledger[e].state]

FollowsLifecycle == Lifecycle!Spec

(* "an in-progress (recording) entry is never deleted": the driver only    *)
(* ever works on a recording whose egress has really ended.                *)
InProgressSafe ==
  \A e \in todo \cup ({item} \ {NoEgress}) : egress[e] \in {"complete", "failed"}

Others(e, scope) ==
  {f \in Egress \ {e} : scope[f] = scope[e] /\ IsFinal(ledger[f].state)}

Justified(e) ==
  \/ TTL > 0 /\ finalAt[e] + TTL <= clock
  \/ MaxPerRoom > 0 /\ Cardinality(Others(e, RoomOf)) >= MaxPerRoom
  \/ MaxPerTenant > 0 /\ Cardinality(Others(e, TenantOf)) >= MaxPerTenant

(* A recording is expired only for a reason the policy gives, although the *)
(* decision is older than the step: TTL has passed since it was first      *)
(* known to be finished, or a cap is exceeded by other finished recordings *)
(* of its own room or tenant.                                              *)
RetentionHonoured ==
  [][\A e \in Egress :
       (ledger[e].state # "expired" /\ ledger'[e].state = "expired")
         => Justified(e)]_vars

(* A recording past retention is deleted in the end, unless a redelivered  *)
(* webhook moves its anchor so that it is not past retention any more.     *)
PastRetention(e) == e \in ExpiredEgressIDs(ledger, clock)

SweptInTheEnd ==
  \A e \in Egress :
    PastRetention(e) ~> (ledger[e].state = "deleted" \/ ~PastRetention(e))

(* recording_cloud.go: Delete "returns nil only when the cloud confirms    *)
(* the blob is gone (or was already absent)".  A 202 is taken for the      *)
(* confirmation here: the claim fails even so.                             *)
DeletedIsGone ==
  \A e \in Egress : ledger[e].state = "deleted" => sink[e] # "filed"

(* A recording the ledger says, or is about to say, is deleted while the   *)
(* sink holds its object.                                                  *)
Orphaned(e) ==
  /\ ledger[e].state = "deleted" \/ (step = "confirm" /\ item = e)
  /\ sink[e] \in {"filed", "accepted"}

(* The sink files the recording of an envelope it had not handled when it  *)
(* was asked to delete the recording.                                      *)
FiledLate(e) == e \in posted /\ sink[e] = "unfiled" /\ sink'[e] = "filed"

(* The sink answers the driver's delete with 202.                          *)
Answers202(e) == step = "delete" /\ item = e /\ sink'[e] = "accepted"

(* "A delete failure leaves the entry Expired": what a pass believes to be *)
(* deleted is, whatever deletes fail or are carried out late, whatever     *)
(* webhooks come and whatever restarts in between.  An object outlives its *)
(* entry in two ways only, both of them the sink's: it said 404 before it  *)
(* handled the envelope, or it said 202.                                   *)
OrphansComeFromSink ==
  [][\A e \in Egress : ~Orphaned(e) /\ Orphaned(e)' =>
       FiledLate(e) \/ Answers202(e)]_vars
=============================================================================
