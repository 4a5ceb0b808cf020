------------------------ MODULE RecordingLedgerProofs ------------------------
(***************************************************************************)
(* Proofs about the recording ledger, for every set of recordings, every   *)
(* policy and every bound.                                                 *)
(***************************************************************************)
EXTENDS RecordingLedger, FiniteSetTheorems, TLAPS

(* The counters stay within the bounds.                                    *)
Bounded == gauge <= deliveries

(* The ledger has a recording finished only if its egress has ended, and   *)
(* its end stamp is no older than the first news of that.                  *)
Truthful ==
  \A e \in Egress :
    /\ finalAt[e] <= clock
    /\ IsFinal(ledger[e].state) =>
         /\ egress[e] \in {"complete", "failed"}
         /\ 0 < finalAt[e]
         /\ finalAt[e] <= ledger[e].endedAt

(* What the pass decided from its copy of the ledger still holds: each id  *)
(* it will mark is finished and has a reason to go, each id its copy shows *)
(* as expired is expired, and the id it works on is one of the expired.    *)
Decided ==
  /\ \A e \in todo :
       /\ ledger[e].state \in {"available", "failed", "expired"}
       /\ e \notin marked => Justified(e)
       /\ e \in marked => ledger[e].state = "expired"
  /\ step \in {"delete", "confirm"} =>
       item \in todo /\ ledger[item].state = "expired"
  /\ step \in {"idle", "pick"} => item = NoEgress

IInv == TypeOK /\ Bounded /\ Truthful /\ Decided

-----------------------------------------------------------------------------
(* A set of recordings that grows does not get smaller in number.          *)
LEMMA MoreRecordings ==
  ASSUME NEW S \in SUBSET Egress, NEW T \in SUBSET S
  PROVE  /\ Cardinality(S) \in Nat
         /\ Cardinality(T) \in Nat
         /\ Cardinality(T) <= Cardinality(S)
<1>1. IsFiniteSet(S)
  BY EgressAssumption, FS_Subset
<1>2. IsFiniteSet(T) /\ Cardinality(T) <= Cardinality(S)
  BY <1>1, FS_Subset
<1> QED
  BY <1>1, <1>2, FS_CardinalityType

(* The finished states are the ones of rank 1 and above.                   *)
LEMMA FinalStates ==
  ASSUME NEW s \in State \cup {"unknown"}
  PROVE  /\ IsFinal(s) <=> s \in {"available", "failed", "expired", "deleted"}
         /\ Rank(s) \in 0 .. 3
BY DEF State, IsFinal, Rank

(* A webhook merged into an entry is an entry, leaves "expired" and        *)
(* "deleted" alone, keeps a finished recording finished, and makes one     *)
(* finished only if it says so itself.                                     *)
LEMMA UpsertMerges ==
  ASSUME NEW old \in Entry, NEW s \in {"recording", "available", "failed"},
         NEW now \in Time
  PROVE  LET new == Upsert(old, EntryFor(s, now)) IN
         /\ new \in Entry
         /\ new.state \in State
         /\ old.state \in {"expired", "deleted"} => new.state = old.state
         /\ old.state \in {"available", "failed"} =>
              new.state \in {"available", "failed"}
         /\ old.state \notin {"available", "failed", "expired", "deleted"} =>
              new.state = s
         /\ s = "recording" /\ old.state \in {"available", "failed", "expired", "deleted"}
              => new.endedAt = old.endedAt
         /\ s # "recording" /\ now > 0 => new.endedAt = now
BY DEF Upsert, EntryFor, Entry, NoEntry, Rank, State, Time

(* The state a webhook is mapped to, and what it tells of the egress.      *)
LEMMA HookStates ==
  ASSUME NEW how \in {"active", "complete", "failed"}, NEW h \in Sent(how)
  PROVE  /\ StateFor(h) \in {"recording", "available", "failed"}
         /\ StateFor(h) # "recording" => how \in {"complete", "failed"}
BY DEF Sent, Hook, StateFor

-----------------------------------------------------------------------------
LEMMA InitInvariant == Init => IInv
<1> SUFFICES ASSUME Init PROVE IInv
  OBVIOUS
<1> USE DEF Init
<1>1. NoEntry \in Entry /\ NoEntry.state = "unknown" /\ ~IsFinal("unknown")
  BY BoundsAssumption DEF NoEntry, Entry, Time, IsFinal, Rank
<1>2. TypeOK
  BY <1>1, BoundsAssumption, EgressAssumption DEF TypeOK, Time
<1>3. Bounded /\ Truthful /\ Decided
  BY <1>1, BoundsAssumption DEF Bounded, Truthful, Decided
<1> QED
  BY <1>2, <1>3 DEF IInv

(* A reason to expire a recording does not go away while webhooks arrive   *)
(* and time passes.                                                        *)
LEMMA JustifiedStays ==
  ASSUME TypeOK, TypeOK', NEW e \in Egress, Justified(e),
         clock <= clock', finalAt'[e] = finalAt[e],
         \A f \in Egress : IsFinal(ledger[f].state) => IsFinal(ledger'[f].state)
  PROVE  Justified(e)'
<1>1. ASSUME NEW scope
      PROVE  /\ Cardinality(Others(e, scope)) \in Nat
             /\ Cardinality(Others(e, scope)') \in Nat
             /\ Cardinality(Others(e, scope)) <= Cardinality(Others(e, scope)')
  <2>1. Others(e, scope)' \subseteq Egress
    BY DEF Others
  <2>2. Others(e, scope) \subseteq Others(e, scope)'
    BY DEF Others
  <2> QED
    BY <2>1, <2>2, MoreRecordings
<1>2. clock \in Nat /\ clock' \in Nat /\ finalAt[e] \in Nat
  BY BoundsAssumption DEF TypeOK, Time
<1>3. CASE TTL > 0 /\ finalAt[e] + TTL <= clock
  BY <1>2, <1>3, PolicyAssumption DEF Justified
<1>4. CASE MaxPerRoom > 0 /\ Cardinality(Others(e, RoomOf)) >= MaxPerRoom
  <2>1. Cardinality(Others(e, RoomOf)') >= MaxPerRoom
    BY <1>1, <1>4, PolicyAssumption
  <2> QED
    BY <1>4, <2>1 DEF Justified
<1>5. CASE MaxPerTenant > 0 /\ Cardinality(Others(e, TenantOf)) >= MaxPerTenant
  <2>1. Cardinality(Others(e, TenantOf)') >= MaxPerTenant
    BY <1>1, <1>5, PolicyAssumption
  <2> QED
    BY <1>5, <2>1 DEF Justified
<1> QED
  BY <1>3, <1>4, <1>5 DEF Justified

(* What the policy picks is finished and has a reason to go.               *)
LEMMA PolicyPicksJustified ==
  ASSUME TypeOK, Truthful, NEW e \in ExpiredEgressIDs(ledger, clock)
  PROVE  /\ e \in Egress
         /\ ledger[e].state \in {"available", "failed", "expired"}
         /\ Justified(e)
<1>1. e \in Egress /\ ledger[e].state \in {"available", "failed", "expired"}
  BY DEF ExpiredEgressIDs, PastTTL, OldestBeyond, Eligible
<1>2. \A f \in Egress : ledger[f].state \in State \cup {"unknown"}
                        /\ ledger[f].endedAt \in Nat /\ ledger[f].startedAt \in Nat
  BY BoundsAssumption DEF TypeOK, Entry, Time
<1>3. \A f \in Eligible(ledger) : f \in Egress /\ IsFinal(ledger[f].state)
  BY <1>2, FinalStates DEF Eligible
<1>4. /\ 0 < finalAt[e] /\ finalAt[e] <= ledger[e].endedAt
      /\ finalAt[e] \in Nat /\ clock \in Nat /\ e \in Nat
  BY <1>1, <1>2, FinalStates, BoundsAssumption, EgressAssumption
  DEF Truthful, TypeOK, Time
<1>5. ASSUME e \in PastTTL(ledger, clock)
      PROVE  Justified(e)
  BY <1>1, <1>2, <1>4, <1>5, PolicyAssumption DEF PastTTL, RetainedFrom, Justified
<1>6. ASSUME NEW scope, NEW keep \in Nat, e \in OldestBeyond(ledger, scope, keep)
      PROVE  keep > 0 /\ Cardinality(Others(e, scope)) >= keep
  <2> DEFINE N == {f \in Eligible(ledger) : scope[f] = scope[e] /\ Newer(ledger, f, e)}
  <2>1. ~Newer(ledger, e, e)
    BY <1>1, <1>2, <1>4 DEF Newer, RetainedFrom
  <2>2. N \subseteq Others(e, scope) /\ Others(e, scope) \subseteq Egress
    BY <1>3, <2>1 DEF Others
  <2>3. /\ Cardinality(N) \in Nat /\ Cardinality(Others(e, scope)) \in Nat
        /\ Cardinality(N) <= Cardinality(Others(e, scope))
    BY <2>2, MoreRecordings
  <2>4. keep > 0 /\ Cardinality(N) >= keep
    BY <1>6 DEF OldestBeyond
  <2> QED
    BY <2>3, <2>4
<1> QED
  BY <1>1, <1>5, <1>6, PolicyAssumption DEF ExpiredEgressIDs, Justified

-----------------------------------------------------------------------------
(* Every step keeps the types and the bounds.                              *)
LEMMA StepTypes ==
  ASSUME IInv, [Next]_vars
  PROVE  TypeOK' /\ Bounded'
<1> USE DEF IInv, env, cloud, sweepVars
<1>1. CASE Tick
  BY <1>1, BoundsAssumption DEF Tick, TypeOK, Bounded
<1>2. ASSUME NEW e \in Egress, EgressEnds(e)
      PROVE  TypeOK' /\ Bounded'
  BY <1>2 DEF EgressEnds, TypeOK, Bounded
<1>3. ASSUME NEW e \in Egress, NEW h \in Sent(egress[e]), Receive(e, h)
      PROVE  TypeOK' /\ Bounded'
  <2>1. StateFor(h) \in {"recording", "available", "failed"}
    BY HookStates DEF TypeOK
  <2>2. clock \in Time
    BY BoundsAssumption DEF TypeOK, Time
  <2>3. Upsert(ledger[e], EntryFor(StateFor(h), clock)) \in Entry
    BY <2>1, <2>2, UpsertMerges DEF TypeOK
  <2>4. ledger' \in [Egress -> Entry] /\ finalAt' \in [Egress -> Time]
    BY <1>3, <2>2, <2>3 DEF Receive, TypeOK
  <2>5. /\ deliveries' \in 0 .. MaxDeliveries
        /\ gauge' \in 0 .. MaxDeliveries
        /\ gauge' <= deliveries'
    BY <1>3, BoundsAssumption DEF Receive, GaugeAfter, TypeOK, Bounded
  <2> QED
    BY <1>3, <2>4, <2>5 DEF Receive, TypeOK, Bounded
<1>4. ASSUME NEW e \in Egress, SinkFiles(e) \/ SinkDeletes(e)
      PROVE  TypeOK' /\ Bounded'
  BY <1>4 DEF SinkFiles, SinkDeletes, TypeOK, Bounded
<1>5. CASE SweepBegins
  BY <1>5 DEF SweepBegins, ExpiredEgressIDs, PastTTL, OldestBeyond, Eligible,
     TypeOK, Bounded
<1>6. ASSUME NEW e \in Egress, MarkExpired(e)
      PROVE  TypeOK' /\ Bounded'
  BY <1>6 DEF MarkExpired, SetState, TypeOK, Bounded, Entry, State
<1>7. CASE DeleteSucceeds
  BY <1>7 DEF DeleteSucceeds, TypeOK, Bounded
<1>8. CASE DeleteFails
  <2>1. item \in Egress
    BY <1>8 DEF DeleteFails, TypeOK, Decided
  <2> QED
    BY <1>8, <2>1 DEF DeleteFails, NextItem, TypeOK, Bounded
<1>9. CASE MarkDeleted
  BY <1>9 DEF MarkDeleted, SetState, NextItem, TypeOK, Bounded, Entry, State
<1>10. CASE SweepEnds
  BY <1>10 DEF SweepEnds, TypeOK, Bounded
<1>11. CASE Restart
  <2>1. NoEntry \in Entry /\ 0 \in Time
    BY BoundsAssumption DEF NoEntry, Entry, Time
  <2> QED
    BY <1>11, <2>1, BoundsAssumption DEF Restart, TypeOK, Bounded
<1>12. CASE UNCHANGED vars
  BY <1>12 DEF vars, TypeOK, Bounded
<1> QED
  BY <1>1, <1>2, <1>3, <1>4, <1>5, <1>6, <1>7, <1>8, <1>9, <1>10, <1>11, <1>12
  DEF Next, Sweep

(* Steps that leave the ledger, its history and the driver's decisions     *)
(* alone.                                                                  *)
LEMMA QuietStep ==
  ASSUME IInv, TypeOK',
         UNCHANGED <<ledger, finalAt, todo, marked>>, clock <= clock',
         \A e \in Egress : egress'[e] = egress[e]
                           \/ egress'[e] \in {"complete", "failed"},
         \/ UNCHANGED <<item, step>>
         \/ step = "delete" /\ step' = "confirm" /\ item' = item
         \/ step = "pick" /\ step' = "idle" /\ item' = item
  PROVE  Truthful' /\ Decided'
<1>1. Truthful'
  BY BoundsAssumption DEF IInv, TypeOK, Truthful, Time
<1>2. \A e \in todo : e \notin marked => Justified(e)'
  BY JustifiedStays DEF IInv, TypeOK, Decided
<1>3. Decided'
  BY <1>2 DEF IInv, Decided
<1> QED
  BY <1>1, <1>3

(* A webhook: the merge leaves what the pass decided in force.             *)
LEMMA ReceiveKeeps ==
  ASSUME IInv, TypeOK', NEW e \in Egress, NEW h \in Sent(egress[e]), Receive(e, h)
  PROVE  Truthful' /\ Decided'
<1> DEFINE s == StateFor(h)
<1>1. /\ s \in {"recording", "available", "failed"}
      /\ s # "recording" => egress[e] \in {"complete", "failed"}
  BY HookStates DEF IInv, TypeOK
<1>2. clock \in Time /\ clock > 0 /\ ledger[e] \in Entry /\ clock \in Nat
  BY BoundsAssumption DEF IInv, TypeOK, Time
<1> DEFINE new == Upsert(ledger[e], EntryFor(s, clock))
<1>3. /\ new.state \in State
      /\ ledger[e].state \in {"expired", "deleted"} => new.state = ledger[e].state
      /\ ledger[e].state \in {"available", "failed"} =>
           new.state \in {"available", "failed"}
      /\ ledger[e].state \notin {"available", "failed", "expired", "deleted"} =>
           new.state = s
      /\ s = "recording" /\ ledger[e].state \in {"available", "failed", "expired", "deleted"}
           => new.endedAt = ledger[e].endedAt
      /\ s # "recording" => new.endedAt = clock
  BY <1>1, <1>2, UpsertMerges
<1>4. /\ ledger' = [ledger EXCEPT ![e] = new]
      /\ finalAt' = [finalAt EXCEPT ![e] = IF @ = 0 /\ IsFinal(s) THEN clock ELSE @]
      /\ UNCHANGED <<clock, egress, todo, marked, item, step>>
  BY DEF Receive, env, sweepVars
<1>5. /\ ledger'[e] = new
      /\ finalAt'[e] = IF finalAt[e] = 0 /\ IsFinal(s) THEN clock ELSE finalAt[e]
      /\ \A f \in Egress \ {e} : ledger'[f] = ledger[f] /\ finalAt'[f] = finalAt[f]
  BY <1>4 DEF IInv, TypeOK
<1>6. \A f \in Egress : /\ ledger[f].state \in State \cup {"unknown"}
                        /\ ledger'[f].state \in State \cup {"unknown"}
                        /\ finalAt[f] \in Nat
  BY BoundsAssumption DEF IInv, TypeOK, Entry, Time
<1>7. s \in State \cup {"unknown"}
  BY <1>1 DEF State
<1>8. Truthful'
  <2>1. ASSUME NEW f \in Egress \ {e}
        PROVE  /\ finalAt'[f] <= clock'
               /\ IsFinal(ledger'[f].state) =>
                    /\ egress'[f] \in {"complete", "failed"}
                    /\ 0 < finalAt'[f]
                    /\ finalAt'[f] <= ledger'[f].endedAt
    BY <1>4, <1>5 DEF IInv, Truthful
  <2>2. finalAt'[e] <= clock'
    BY <1>2, <1>4, <1>5, <1>6 DEF IInv, Truthful
  <2>3. CASE s # "recording"
    <3>1. IsFinal(s)
      BY <1>1, <1>7, <2>3, FinalStates
    <3>2. /\ egress'[e] \in {"complete", "failed"}
          /\ 0 < finalAt'[e] /\ finalAt'[e] <= ledger'[e].endedAt
      BY <1>1, <1>2, <1>3, <1>4, <1>5, <1>6, <2>2, <2>3, <3>1
    <3> QED
      BY <2>1, <2>2, <3>2 DEF Truthful
  <2>4. CASE s = "recording"
    <3>1. ~IsFinal(s)
      BY <1>7, <2>4, FinalStates
    <3>2. finalAt'[e] = finalAt[e]
      BY <1>5, <3>1
    <3>3. ASSUME IsFinal(ledger'[e].state)
          PROVE  /\ egress'[e] \in {"complete", "failed"}
                 /\ 0 < finalAt'[e] /\ finalAt'[e] <= ledger'[e].endedAt
      <4>1. ledger[e].state \in {"available", "failed", "expired", "deleted"}
        BY <1>3, <1>5, <1>6, <2>4, <3>1, <3>3, FinalStates
      <4>2. IsFinal(ledger[e].state)
        BY <1>6, <4>1, FinalStates
      <4> QED
        BY <1>3, <1>4, <1>5, <2>4, <3>2, <4>1, <4>2 DEF IInv, Truthful
    <3> QED
      BY <2>1, <2>2, <3>3 DEF Truthful
  <2> QED
    BY <2>3, <2>4
<1>9. \A f \in Egress : IsFinal(ledger[f].state) => IsFinal(ledger'[f].state)
  <2>1. IsFinal(ledger[e].state) => IsFinal(ledger'[e].state)
    BY <1>3, <1>5, <1>6, FinalStates
  <2> QED
    BY <1>5, <2>1
<1>10. \A f \in todo : IsFinal(ledger[f].state) /\ f \in Egress
  BY <1>6, FinalStates DEF IInv, TypeOK, Decided
<1>11. \A f \in todo : finalAt'[f] = finalAt[f]
  BY <1>5, <1>10 DEF IInv, Truthful
<1>12. \A f \in todo : f \notin marked => Justified(f)'
  BY <1>2, <1>4, <1>9, <1>10, <1>11, JustifiedStays DEF IInv, Decided
<1>13. \A f \in todo : /\ ledger'[f].state \in {"available", "failed", "expired"}
                       /\ ledger[f].state = "expired" => ledger'[f].state = "expired"
  BY <1>3, <1>5, <1>10 DEF IInv, Decided
<1>14. Decided'
  BY <1>4, <1>12, <1>13 DEF IInv, Decided
<1> QED
  BY <1>8, <1>14

(* The driver reads the ledger: the policy picks, nothing else changes.    *)
LEMMA SweepBeginsKeeps ==
  ASSUME IInv, TypeOK', SweepBegins
  PROVE  Truthful' /\ Decided'
<1>1. UNCHANGED <<clock, egress, ledger, item, finalAt>> /\ step' = "pick"
  BY DEF SweepBegins, env
<1>2. item = NoEgress
  BY DEF SweepBegins, IInv, Decided
<1>3. \A e \in todo' : /\ e \in Egress
                       /\ ledger[e].state \in {"available", "failed", "expired"}
                       /\ Justified(e)
  BY PolicyPicksJustified DEF SweepBegins, IInv
<1>4. \A e \in marked' : ledger[e].state = "expired"
  BY DEF SweepBegins
<1>5. \A e \in todo' : Justified(e)'
  BY <1>1, <1>3 DEF Justified, Others
<1>6. Truthful'
  BY <1>1 DEF IInv, Truthful
<1> QED
  BY <1>1, <1>2, <1>3, <1>4, <1>5, <1>6 DEF Decided

(* The driver's own writes: an id it decided on becomes "expired", and the *)
(* expired one it works on becomes "deleted".  Neither un-finishes a       *)
(* recording, so the reasons for the others stand.                         *)
LEMMA DriverWrites ==
  ASSUME IInv, TypeOK', NEW e \in todo, NEW s \in {"expired", "deleted"},
         SetState(e, s), UNCHANGED <<clock, egress, finalAt>>
  PROVE  /\ Truthful'
         /\ ledger'[e].state = s
         /\ \A f \in Egress \ {e} : ledger'[f] = ledger[f]
         /\ \A f \in todo : f \notin marked => Justified(f)'
<1>1. e \in Egress /\ IsFinal(ledger[e].state)
  <2>1. e \in Egress /\ ledger[e].state \in {"available", "failed", "expired"}
    BY DEF IInv, TypeOK, Decided
  <2> QED
    BY <2>1, FinalStates DEF State
<1>2. /\ ledger'[e].state = s
      /\ ledger'[e].endedAt = ledger[e].endedAt
      /\ \A f \in Egress \ {e} : ledger'[f] = ledger[f]
  BY <1>1 DEF SetState, IInv, TypeOK, Entry
<1>3. IsFinal(s)
  BY FinalStates DEF State
<1>4. Truthful'
  BY <1>1, <1>2, <1>3 DEF IInv, Truthful
<1>5. \A f \in Egress : IsFinal(ledger[f].state) => IsFinal(ledger'[f].state)
  BY <1>2, <1>3
<1>6. clock <= clock'
  BY BoundsAssumption DEF IInv, TypeOK
<1>7. \A f \in todo : f \notin marked => Justified(f)'
  BY <1>5, <1>6, JustifiedStays DEF IInv, TypeOK, Decided
<1> QED
  BY <1>2, <1>4, <1>7

LEMMA MarkExpiredKeeps ==
  ASSUME IInv, TypeOK', NEW e \in Egress, MarkExpired(e)
  PROVE  Truthful' /\ Decided'
<1>1. /\ e \in todo /\ step' = "delete" /\ item' = e
      /\ UNCHANGED <<clock, egress, finalAt, todo, marked>>
  BY DEF MarkExpired, env
<1>2. CASE e \notin marked
  <2>1. SetState(e, "expired")
    BY <1>2 DEF MarkExpired
  <2> QED
    BY <1>1, <2>1, DriverWrites DEF IInv, TypeOK, Decided
<1>3. CASE e \in marked
  <2>1. UNCHANGED ledger
    BY <1>3 DEF MarkExpired
  <2>2. Truthful' /\ \A f \in todo : f \notin marked => Justified(f)'
    BY <1>1, <2>1 DEF IInv, Truthful, Decided, Justified, Others
  <2> QED
    BY <1>1, <1>3, <2>1, <2>2 DEF IInv, Decided
<1> QED
  BY <1>2, <1>3

LEMMA MarkDeletedKeeps ==
  ASSUME IInv, TypeOK', MarkDeleted
  PROVE  Truthful' /\ Decided'
<1>1. /\ item \in todo /\ SetState(item, "deleted")
      /\ todo' = todo \ {item} /\ marked' = marked \ {item}
      /\ item' = NoEgress /\ step' = "pick"
      /\ UNCHANGED <<clock, egress, finalAt>>
  BY DEF MarkDeleted, NextItem, env, IInv, Decided
<1>2. /\ Truthful'
      /\ \A f \in Egress \ {item} : ledger'[f] = ledger[f]
      /\ \A f \in todo : f \notin marked => Justified(f)'
  BY <1>1, DriverWrites
<1> QED
  BY <1>1, <1>2 DEF IInv, TypeOK, Decided

LEMMA DeleteFailsKeeps ==
  ASSUME IInv, TypeOK', DeleteFails
  PROVE  Truthful' /\ Decided'
<1>1. /\ todo' = todo \ {item} /\ marked' = marked \ {item}
      /\ item' = NoEgress /\ step' = "pick"
      /\ UNCHANGED <<clock, egress, ledger, finalAt>>
  BY DEF DeleteFails, NextItem, env
<1>2. Truthful' /\ \A f \in todo : f \notin marked => Justified(f)'
  BY <1>1 DEF IInv, Truthful, Decided, Justified, Others
<1> QED
  BY <1>1, <1>2 DEF IInv, Decided

LEMMA RestartKeeps ==
  ASSUME IInv, TypeOK', Restart
  PROVE  Truthful' /\ Decided'
<1>1. /\ ledger' = [e \in Egress |-> NoEntry] /\ finalAt' = [e \in Egress |-> 0]
      /\ todo' = {} /\ item' = NoEgress /\ step' = "idle" /\ clock' = clock
  BY DEF Restart, env
<1>2. ~IsFinal(NoEntry.state) /\ 0 <= clock
  BY BoundsAssumption DEF NoEntry, IsFinal, Rank, IInv, TypeOK
<1>3. Truthful'
  BY <1>1, <1>2 DEF Truthful
<1> QED
  BY <1>1, <1>3 DEF Decided

LEMMA StepInvariant == IInv /\ [Next]_vars => IInv'
<1> SUFFICES ASSUME IInv, [Next]_vars PROVE IInv'
  OBVIOUS
<1>1. TypeOK' /\ Bounded'
  BY StepTypes
<1>2. clock \in Nat
  BY BoundsAssumption DEF IInv, TypeOK
<1>3. CASE Tick
  BY <1>1, <1>2, <1>3, QuietStep DEF Tick, sweepVars, IInv
<1>4. ASSUME NEW e \in Egress, EgressEnds(e) PROVE Truthful' /\ Decided'
  BY <1>1, <1>2, <1>4, QuietStep DEF EgressEnds, sweepVars, IInv, TypeOK
<1>5. ASSUME NEW e \in Egress, SinkFiles(e) \/ SinkDeletes(e)
      PROVE  Truthful' /\ Decided'
  BY <1>1, <1>2, <1>5, QuietStep DEF SinkFiles, SinkDeletes, env, sweepVars
<1>6. CASE DeleteSucceeds \/ SweepEnds
  BY <1>1, <1>2, <1>6, QuietStep DEF DeleteSucceeds, SweepEnds, env, IInv
<1>7. CASE UNCHANGED vars
  BY <1>1, <1>2, <1>7, QuietStep DEF vars, IInv
<1> QED
  BY <1>1, <1>3, <1>4, <1>5, <1>6, <1>7, ReceiveKeeps, SweepBeginsKeeps,
     MarkExpiredKeeps, MarkDeletedKeeps, DeleteFailsKeeps, RestartKeeps
  DEF Next, Sweep, IInv

-----------------------------------------------------------------------------
(* Every reachable state satisfies the inductive invariant.                *)
THEOREM Invariance == Spec => []IInv
BY InitInvariant, StepInvariant, PTL DEF Spec

(* The variables keep their types and the gauge its floor and bound.       *)
THEOREM TypeCorrect == Spec => []TypeOK
<1>1. IInv => TypeOK
  BY DEF IInv
<1> QED
  BY <1>1, Invariance, PTL

(* Run() never works on a recording whose egress still runs, however stale *)
(* the copy of the ledger it decided from.                                 *)
THEOREM InProgressIsSafe == Spec => []InProgressSafe
<1>1. IInv => InProgressSafe
  <2> SUFFICES ASSUME IInv, NEW e \in todo \cup ({item} \ {NoEgress})
               PROVE  egress[e] \in {"complete", "failed"}
    BY DEF InProgressSafe
  <2>1. e \in todo
    BY DEF IInv, TypeOK, Decided
  <2>2. e \in Egress /\ ledger[e].state \in {"available", "failed", "expired"}
    BY <2>1 DEF IInv, TypeOK, Decided
  <2> QED
    BY <2>2, FinalStates DEF IInv, Truthful, State
<1> QED
  BY <1>1, Invariance, PTL

(* Every entry of the ledger follows recording -> available | failed ->    *)
(* expired -> deleted: Upsert and SetState implement RecordingLifecycle.   *)
THEOREM LifecycleFollowed == Spec => FollowsLifecycle
<1> DEFINE life == [e \in Egress |-> ledger[e].state]
<1>1. Init => Lifecycle!Init
  BY DEF Init, Lifecycle!Init, NoEntry
<1>2. IInv /\ [Next]_vars => [Lifecycle!Next]_life
  <2> SUFFICES ASSUME IInv, [Next]_vars PROVE Lifecycle!Next \/ life' = life
    OBVIOUS
  <2>1. TypeOK'
    BY StepTypes
  <2>2. ASSUME NEW e \in Egress, \A f \in Egress \ {e} : ledger'[f] = ledger[f],
               \/ Lifecycle!Step(ledger[e].state, ledger'[e].state)
               \/ ledger'[e].state = ledger[e].state,
               ledger'[e].state \in State
        PROVE  Lifecycle!Next \/ life' = life
    <3>1. life' = [life EXCEPT ![e] = ledger'[e].state]
      BY <2>2
    <3>2. CASE ledger'[e].state = ledger[e].state
      BY <3>1, <3>2
    <3>3. CASE Lifecycle!Step(ledger[e].state, ledger'[e].state)
      <4>1. Lifecycle!Step(life[e], ledger'[e].state)
        BY <3>3
      <4>2. Lifecycle!Advance(e)
        BY <2>2, <3>1, <4>1 DEF Lifecycle!Advance, Lifecycle!Finished, State
      <4> QED
        BY <4>2 DEF Lifecycle!Next
    <3> QED
      BY <2>2, <3>2, <3>3
  <2>3. ASSUME NEW e \in Egress, NEW h \in Sent(egress[e]), Receive(e, h)
        PROVE  Lifecycle!Next \/ life' = life
    <3> DEFINE new == Upsert(ledger[e], EntryFor(StateFor(h), clock))
    <3>1. StateFor(h) \in {"recording", "available", "failed"}
      BY HookStates DEF IInv, TypeOK
    <3>2. clock \in Time /\ ledger[e] \in Entry
      BY BoundsAssumption DEF IInv, TypeOK, Time
    <3>3. /\ new.state \in State
          /\ ledger[e].state \in {"expired", "deleted"} => new.state = ledger[e].state
          /\ ledger[e].state \in {"available", "failed"} =>
               new.state \in {"available", "failed"}
          /\ ledger[e].state \notin {"available", "failed", "expired", "deleted"} =>
               new.state = StateFor(h)
      BY <3>1, <3>2, UpsertMerges
    <3>4. ledger'[e] = new /\ \A f \in Egress \ {e} : ledger'[f] = ledger[f]
      BY <2>3 DEF Receive, IInv, TypeOK
    <3>5. ledger[e].state \in State \cup {"unknown"}
      BY <3>2 DEF Entry
    <3>6. \/ Lifecycle!Step(ledger[e].state, new.state)
          \/ new.state = ledger[e].state
      BY <3>1, <3>3, <3>5 DEF Lifecycle!Step, Lifecycle!Finished, State
    <3> QED
      BY <2>2, <3>3, <3>4, <3>6
  <2>4. ASSUME NEW e \in Egress, MarkExpired(e)
        PROVE  Lifecycle!Next \/ life' = life
    <3>1. ledger[e].state \in {"available", "failed", "expired"}
      BY <2>4 DEF MarkExpired, IInv, Decided
    <3>2. CASE e \in marked
      BY <2>4, <3>2 DEF MarkExpired
    <3>3. CASE e \notin marked
      <4>1. /\ ledger'[e].state = "expired"
            /\ \A f \in Egress \ {e} : ledger'[f] = ledger[f]
        BY <2>4, <3>3 DEF MarkExpired, SetState, IInv, TypeOK, Entry
      <4>2. Lifecycle!Step(ledger[e].state, "expired") \/ ledger[e].state = "expired"
        BY <3>1 DEF Lifecycle!Step, Lifecycle!Finished
      <4> QED
        BY <2>2, <4>1, <4>2 DEF State
    <3> QED
      BY <3>2, <3>3
  <2>5. CASE MarkDeleted
    <3>1. item \in Egress /\ ledger[item].state = "expired"
      BY <2>5 DEF MarkDeleted, IInv, TypeOK, Decided
    <3>2. /\ ledger'[item].state = "deleted"
          /\ \A f \in Egress \ {item} : ledger'[f] = ledger[f]
      BY <2>5, <3>1 DEF MarkDeleted, SetState, IInv, TypeOK, Entry
    <3>3. Lifecycle!Step(ledger[item].state, "deleted")
      BY <3>1 DEF Lifecycle!Step
    <3> QED
      BY <2>2, <3>1, <3>2, <3>3 DEF State
  <2>6. CASE Restart
    <3>1. life' = [e \in Egress |-> "unknown"]
      BY <2>6 DEF Restart, NoEntry
    <3> QED
      BY <3>1 DEF Lifecycle!Next, Lifecycle!Forget
  <2>7. CASE UNCHANGED ledger
    BY <2>7
  <2> QED
    BY <2>3, <2>4, <2>5, <2>6, <2>7
    DEF Next, Sweep, vars, Tick, EgressEnds, SinkFiles, SinkDeletes, SweepBegins,
        DeleteSucceeds, DeleteFails, SweepEnds
<1> QED
  BY <1>1, <1>2, Invariance, PTL DEF Spec, FollowsLifecycle, Lifecycle!Spec

(* Run() marks a recording expired only when the policy gives a reason at  *)
(* that moment, although it decided from an earlier copy of the ledger.    *)
THEOREM RetentionIsHonoured == Spec => RetentionHonoured
<1>1. IInv /\ [Next]_vars =>
        [\A e \in Egress :
           (ledger[e].state # "expired" /\ ledger'[e].state = "expired")
             => Justified(e)]_vars
  <2> SUFFICES ASSUME IInv, Next, NEW e \in Egress,
                      ledger[e].state # "expired", ledger'[e].state = "expired"
               PROVE  Justified(e)
    OBVIOUS
  <2>1. ASSUME NEW f \in Egress, NEW h \in Sent(egress[f]), Receive(f, h)
        PROVE  FALSE
    <3>1. StateFor(h) \in {"recording", "available", "failed"}
      BY HookStates DEF IInv, TypeOK
    <3>2. clock \in Time /\ ledger[f] \in Entry
      BY BoundsAssumption DEF IInv, TypeOK, Time
    <3>3. /\ ledger'[f] = Upsert(ledger[f], EntryFor(StateFor(h), clock))
          /\ \A g \in Egress \ {f} : ledger'[g] = ledger[g]
      BY <2>1 DEF Receive, IInv, TypeOK
    <3>4. ledger'[f].state = "expired" => ledger[f].state = "expired"
      BY <3>1, <3>2, <3>3, UpsertMerges DEF Entry, State
    <3> QED
      BY <3>3, <3>4
  <2>2. ASSUME NEW f \in Egress, MarkExpired(f)
        PROVE  f = e /\ e \in todo /\ e \notin marked
    BY <2>2 DEF MarkExpired, SetState, IInv, TypeOK
  <2>3. CASE MarkDeleted
    BY <2>3 DEF MarkDeleted, SetState, IInv, TypeOK, Entry, Decided
  <2>4. CASE Restart
    BY <2>4 DEF Restart, NoEntry
  <2> QED
    BY <2>1, <2>2, <2>3, <2>4
    DEF Next, Sweep, Tick, EgressEnds, SinkFiles, SinkDeletes, SweepBegins,
        DeleteSucceeds, DeleteFails, SweepEnds, IInv, Decided
<1> QED
  BY <1>1, Invariance, PTL DEF Spec, RetentionHonoured
(* The entry of a recording becomes deleted only when Run() confirms it.   *)
LEMMA DeletedByDriver ==
  ASSUME IInv, Next, NEW e \in Egress,
         ledger[e].state # "deleted", ledger'[e].state = "deleted"
  PROVE  MarkDeleted /\ e = item
<1>1. ASSUME NEW f \in Egress, NEW h \in Sent(egress[f]), Receive(f, h)
      PROVE  FALSE
  <2>1. StateFor(h) \in {"recording", "available", "failed"}
    BY HookStates DEF IInv, TypeOK
  <2>2. clock \in Time /\ ledger[f] \in Entry
    BY BoundsAssumption DEF IInv, TypeOK, Time
  <2>3. /\ ledger'[f] = Upsert(ledger[f], EntryFor(StateFor(h), clock))
        /\ \A g \in Egress \ {f} : ledger'[g] = ledger[g]
    BY <1>1 DEF Receive, IInv, TypeOK
  <2>4. ledger'[f].state = "deleted" => ledger[f].state = "deleted"
    BY <2>1, <2>2, <2>3, UpsertMerges DEF Entry, State
  <2> QED
    BY <2>3, <2>4
<1>2. ASSUME NEW f \in Egress, MarkExpired(f) PROVE FALSE
  BY <1>2 DEF MarkExpired, SetState, IInv, TypeOK, Entry
<1>3. CASE MarkDeleted
  BY <1>3 DEF MarkDeleted, SetState, IInv, TypeOK, Entry
<1>4. CASE Restart
  BY <1>4 DEF Restart, NoEntry
<1> QED
  BY <1>1, <1>2, <1>3, <1>4
  DEF Next, Sweep, Tick, EgressEnds, SinkFiles, SinkDeletes, SweepBegins,
      DeleteSucceeds, DeleteFails, SweepEnds

(* Run() never loses an object by itself: one that the ledger has as       *)
(* deleted and the sink holds is the sink's doing, which said 404 before   *)
(* it handled the envelope that forward() had posted or took the delete on *)
(* with a 202, for every policy and any number of recordings.              *)
THEOREM OrphansOnlyFromSink == Spec => OrphansComeFromSink
<1>1. IInv /\ [Next]_vars =>
        [\A e \in Egress : ~Orphaned(e) /\ Orphaned(e)' =>
           FiledLate(e) \/ Answers202(e)]_vars
  <2> SUFFICES ASSUME IInv, Next, NEW e \in Egress, ~Orphaned(e), Orphaned(e)'
               PROVE  FiledLate(e) \/ Answers202(e)
    OBVIOUS
  <2>1. CASE sink[e] \notin {"filed", "accepted"}
    <3>1. ASSUME NEW f \in Egress, SinkFiles(f)
          PROVE  FiledLate(e)
      BY <2>1, <3>1 DEF SinkFiles, Orphaned, FiledLate, IInv, TypeOK
    <3>2. ASSUME NEW f \in Egress, SinkDeletes(f)
          PROVE  FALSE
      BY <2>1, <3>2 DEF SinkDeletes, Orphaned, IInv, TypeOK
    <3>3. CASE DeleteSucceeds
      BY <2>1, <3>3 DEF DeleteSucceeds, Orphaned, IInv, TypeOK
    <3>4. sink' # sink
      BY <2>1 DEF Orphaned
    <3> QED
      BY <3>1, <3>2, <3>3, <3>4
      DEF Next, Sweep, Tick, EgressEnds, Receive, SweepBegins, MarkExpired,
          DeleteFails, MarkDeleted, SweepEnds, Restart, cloud
  <2>2. CASE sink[e] \in {"filed", "accepted"}
    <3>1. ledger[e].state # "deleted" /\ ~(step = "confirm" /\ item = e)
      BY <2>2 DEF Orphaned
    <3>2. ledger'[e].state # "deleted"
      BY <3>1, DeletedByDriver DEF MarkDeleted
    <3>3. step' = "confirm" /\ item' = e
      BY <3>2 DEF Orphaned
    <3>4. DeleteSucceeds
      BY <3>1, <3>3
      DEF Next, Sweep, Tick, EgressEnds, Receive, SinkFiles, SinkDeletes,
          SweepBegins, MarkExpired, DeleteFails, NextItem, MarkDeleted,
          SweepEnds, Restart, sweepVars, Orphaned
    <3>5. step = "delete" /\ item = e /\ sink'[e] \in {"gone", "accepted"}
      BY <2>2, <3>3, <3>4 DEF DeleteSucceeds, IInv, TypeOK
    <3>6. sink'[e] # "gone"
      BY DEF Orphaned
    <3> QED
      BY <3>5, <3>6 DEF Answers202
  <2> QED
    BY <2>1, <2>2
<1> QED
  BY <1>1, Invariance, PTL DEF Spec, OrphansComeFromSink
=============================================================================
