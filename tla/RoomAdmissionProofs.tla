------------------------ MODULE RoomAdmissionProofs ------------------------
(***************************************************************************)
(* Proofs about the breaker and the room ceiling, for every number of      *)
(* callers, every timeout below the cooldown and every ceiling.            *)
(***************************************************************************)
EXTENDS RoomAdmission, FiniteSetTheorems, TLAPS

(* An open breaker has counted up to its threshold.                        *)
Counted == tripped => consecFail = Threshold

(* The calls that were out when the breaker opened are over before the     *)
(* cooldown is: their remaining time is less than what is left of it.      *)
Stragglers ==
  tripped /\ ~halfOpen => \A c \in InFlight : age[c] + left > CallTimeout

(* The half-open flag is set exactly while one probe, and nothing else, is *)
(* out.                                                                    *)
Probing ==
  halfOpen => /\ tripped
              /\ left = 0
              /\ \E c \in InFlight : InFlight = {c}

BreakerInv == BreakerTypeOK /\ Counted /\ Stragglers /\ Probing

-----------------------------------------------------------------------------
LEMMA BreakerInitInvariant == BreakerInit => BreakerInv
<1> SUFFICES ASSUME BreakerInit PROVE BreakerInv
  OBVIOUS
<1>1. 0 \in 0 .. CallTimeout /\ 0 \in 0 .. Threshold /\ 0 \in 0 .. Cooldown
  BY ThresholdAssumption, TimesAssumption
<1>2. BreakerTypeOK
  BY <1>1 DEF BreakerInit, BreakerTypeOK
<1>3. Counted /\ Stragglers /\ Probing
  BY DEF BreakerInit, Counted, Stragglers, Probing
<1> QED
  BY <1>2, <1>3 DEF BreakerInv

LEMMA TickKeeps == ASSUME BreakerInv, Tick PROVE BreakerInv'
<1> USE DEF BreakerInv
<1>1. BreakerTypeOK'
  BY TimesAssumption DEF Tick, BreakerTypeOK, InFlight
<1>2. InFlight' = InFlight /\ UNCHANGED <<tripped, halfOpen, consecFail>>
  BY DEF Tick, InFlight
<1>3. Stragglers'
  <2> SUFFICES ASSUME tripped', ~halfOpen', NEW c \in InFlight'
               PROVE  age'[c] + left' > CallTimeout
    BY DEF Stragglers
  <2>1. c \in InFlight /\ c \in Caller /\ age[c] + left > CallTimeout /\ age[c] < CallTimeout
    BY <1>2 DEF Stragglers, Tick, InFlight
  <2>2. age'[c] = age[c] + 1 /\ age[c] \in Nat /\ left \in Nat
    BY <2>1, TimesAssumption DEF Tick, BreakerTypeOK
  <2>3. left' = left - 1 /\ left > 0
    BY <2>1, <2>2, TimesAssumption DEF Tick
  <2> QED
    BY <2>1, <2>2, <2>3, TimesAssumption
<1>4. Probing'
  BY <1>2 DEF Probing, Tick
<1> QED
  BY <1>1, <1>2, <1>3, <1>4 DEF Counted

LEMMA CallKeeps == ASSUME BreakerInv, NEW c \in Caller, Call(c) PROVE BreakerInv'
<1> USE DEF BreakerInv
<1>1. BreakerTypeOK'
  BY TimesAssumption DEF Call, BreakerTypeOK
<1>2. /\ InFlight' = InFlight \cup {c}
      /\ UNCHANGED <<tripped, left, consecFail>>
      /\ halfOpen' = (tripped \/ halfOpen)
  BY DEF Call, InFlight, BreakerTypeOK
<1>3. CASE ~tripped
  BY <1>1, <1>2, <1>3 DEF Counted, Stragglers, Probing
<1>4. CASE tripped
  <2>1. left = 0 /\ ~halfOpen
    BY <1>4 DEF Call, PreCall
  <2>2. InFlight = {}
    <3> SUFFICES ASSUME NEW d \in InFlight PROVE FALSE
      OBVIOUS
    <3>1. age[d] + left > CallTimeout /\ age[d] \in 0 .. CallTimeout
      BY <1>4, <2>1 DEF Stragglers, BreakerTypeOK, InFlight
    <3> QED
      BY <2>1, <3>1, TimesAssumption
  <2>3. InFlight' = {c} /\ halfOpen' = TRUE
    BY <1>2, <1>4, <2>2
  <2>4. Probing' /\ Stragglers'
    BY <1>2, <1>4, <2>1, <2>3 DEF Probing, Stragglers
  <2> QED
    BY <1>1, <1>2, <2>4 DEF Counted
<1> QED
  BY <1>3, <1>4

(* A call that returns leaves a breaker that is closed, or open for a full *)
(* cooldown, or as it was with one straggler less.                         *)
LEMMA ReturnKeeps ==
  ASSUME BreakerInv, NEW c \in Caller, Returns(c), PostSuccess \/ PostFailure
  PROVE  BreakerInv'
<1> USE DEF BreakerInv
<1>1. BreakerTypeOK'
  <2>1. /\ upstream' \in {"steady", "stalled", "back"}
        /\ call' \in [Caller -> {"idle", "flight"}]
        /\ age' \in [Caller -> 0 .. CallTimeout]
    BY TimesAssumption DEF Returns, BreakerTypeOK
  <2>2. consecFail' \in 0 .. Threshold
    BY ThresholdAssumption DEF PostSuccess, PostFailure, BreakerTypeOK
  <2>3. 0 \in 0 .. Cooldown /\ Cooldown \in 0 .. Cooldown
    BY TimesAssumption
  <2>4. left' \in 0 .. Cooldown
    BY <2>3 DEF PostSuccess, PostFailure, BreakerTypeOK
  <2>5. tripped' \in BOOLEAN /\ halfOpen' \in BOOLEAN
    BY Zenon DEF PostSuccess, PostFailure, BreakerTypeOK
  <2> QED
    BY <2>1, <2>2, <2>4, <2>5 DEF BreakerTypeOK
<1>2. /\ InFlight' = InFlight \ {c}
      /\ \A d \in InFlight' : age'[d] = age[d] /\ age[d] \in Nat /\ d \in InFlight
      /\ halfOpen' = FALSE
  BY TimesAssumption DEF Returns, InFlight, BreakerTypeOK, PostSuccess, PostFailure
<1>3. CASE PostSuccess
  BY <1>1, <1>2, <1>3 DEF PostSuccess, Counted, Stragglers, Probing
<1>4. CASE PostFailure /\ consecFail' = Threshold
  <2>1. tripped' = TRUE /\ left' = Cooldown
    BY <1>4 DEF PostFailure
  <2>2. \A d \in InFlight' : age'[d] + left' > CallTimeout
    BY <1>2, <2>1, TimesAssumption
  <2> QED
    BY <1>1, <1>2, <1>4, <2>1, <2>2 DEF Counted, Stragglers, Probing
<1>5. CASE PostFailure /\ consecFail' # Threshold
  <2>1. UNCHANGED <<tripped, left>> /\ consecFail # Threshold
    BY <1>5, ThresholdAssumption DEF PostFailure, BreakerTypeOK
  <2>2. ~tripped
    BY <2>1 DEF Counted
  <2> QED
    BY <1>1, <1>2, <2>1, <2>2 DEF Counted, Stragglers, Probing
<1> QED
  BY <1>3, <1>4, <1>5

LEMMA BreakerStepInvariant ==
  BreakerInv /\ [BreakerNext]_breakerVars => BreakerInv'
<1> SUFFICES ASSUME BreakerInv, [BreakerNext]_breakerVars PROVE BreakerInv'
  OBVIOUS
<1>1. CASE Stall \/ ComeBack
  BY <1>1 DEF Stall, ComeBack, BreakerInv, BreakerTypeOK, Counted, Stragglers,
     Probing, InFlight
<1>2. CASE UNCHANGED breakerVars
  BY <1>2 DEF breakerVars, BreakerInv, BreakerTypeOK, Counted, Stragglers,
     Probing, InFlight
<1> QED
  BY <1>1, <1>2, TickKeeps, CallKeeps, ReturnKeeps
  DEF BreakerNext, Succeeds, Fails, Errs

-----------------------------------------------------------------------------
(* Joins that LiveKit's list lets in and that have not been proxied yet.   *)
Pending == admitted \cup {c \in Joiner : answer[c] = "admit"}

(* The rooms there are and the rooms that pending joins may still create.  *)
Footprint == rooms \cup {target[c] : c \in Pending}

(* A call that is out and a join past the gate know their room, and an     *)
(* answer belongs to a call that is out.                                   *)
Consistent ==
  /\ \A c \in Joiner : c \in InFlight \cup admitted => target[c] \in Room
  /\ \A c \in Caller : answer[c] # "none" => c \in InFlight
  /\ \A c \in Caller : answer[c] = "admit" => c \in Joiner
  /\ admitted \cap InFlight = {}

(* The ceiling may be overshot by the joins that overlap, and counts the   *)
(* rooms they are about to create.                                         *)
FootprintBounded ==
  Cardinality(Footprint) <= MaxRooms + Cardinality(Joiner) - 1

IInv == TypeOK /\ BreakerInv /\ Consistent /\ FootprintBounded

LEMMA Sizes ==
  ASSUME NEW S \in SUBSET Room, NEW T \in SUBSET S
  PROVE  /\ Cardinality(S) \in Nat /\ Cardinality(T) \in Nat
         /\ Cardinality(T) <= Cardinality(S)
         /\ IsFiniteSet(S)
<1>1. IsFiniteSet(S)
  BY RoomAssumption, FS_Subset
<1>2. IsFiniteSet(T) /\ Cardinality(T) <= Cardinality(S)
  BY <1>1, FS_Subset
<1> QED
  BY <1>1, <1>2, FS_CardinalityType

(* A set of joins has at most as many targets as there are joins.          *)
LEMMA TargetsOfJoins ==
  ASSUME NEW f, NEW P \in SUBSET Joiner
  PROVE  /\ Cardinality({f[c] : c \in P}) <= Cardinality(Joiner)
         /\ Cardinality({f[c] : c \in P}) \in Nat
         /\ Cardinality(Joiner) \in Nat
         /\ IsFiniteSet({f[c] : c \in P})
<1> DEFINE T == {f[c] : c \in P}
           g == [c \in P |-> f[c]]
<1>1. IsFiniteSet(P) /\ Cardinality(P) <= Cardinality(Joiner)
  BY JoinerAssumption, FS_Subset
<1>2. g \in Surjection(P, T)
  BY DEF Surjection
<1>3. IsFiniteSet(T) /\ Cardinality(T) <= Cardinality(P)
  BY <1>1, <1>2, FS_Surjection
<1>4. Cardinality(T) \in Nat /\ Cardinality(P) \in Nat /\ Cardinality(Joiner) \in Nat
  BY <1>1, <1>3, JoinerAssumption, FS_CardinalityType
<1> QED
  BY <1>1, <1>3, <1>4

(* What a room that a list let in may add.                                 *)
LEMMA BelowCeiling ==
  ASSUME NEW R \in SUBSET Room, Cardinality(R) < MaxRooms,
         NEW f, NEW P \in SUBSET Joiner
  PROVE  Cardinality(R \cup {f[c] : c \in P}) <= MaxRooms + Cardinality(Joiner) - 1
<1> DEFINE T == {f[c] : c \in P}
<1>1. /\ IsFiniteSet(T) /\ Cardinality(T) \in Nat /\ Cardinality(Joiner) \in Nat
      /\ Cardinality(T) <= Cardinality(Joiner)
  BY TargetsOfJoins
<1>2. IsFiniteSet(R) /\ Cardinality(R) \in Nat
  BY Sizes
<1>3. IsFiniteSet(R \cap T)
  BY <1>2, FS_Subset
<1>4. Cardinality(R \cap T) \in Nat
  BY <1>3, FS_CardinalityType
<1>5. Cardinality(R \cup T) = Cardinality(R) + Cardinality(T) - Cardinality(R \cap T)
  BY <1>1, <1>2, FS_Union
<1> QED
  BY <1>1, <1>2, <1>4, <1>5, MaxRoomsAssumption

(* Every step of the composition is a step of the breaker, or none.        *)
LEMMA AdmissionIsBreaker ==
  ASSUME [Next]_vars PROVE [BreakerNext]_breakerVars
BY DEF Next, vars, Child, RoomFinishes, Handle, Begin, CallReturns, CallFails,
   Proxied, BreakerNext

LEMMA InitInvariant == Init => IInv
<1> SUFFICES ASSUME Init PROVE IInv
  OBVIOUS
<1>1. BreakerInv /\ TypeOK
  BY BreakerInitInvariant DEF Init, BreakerInv, TypeOK
<1>2. Consistent
  BY DEF Init, BreakerInit, Consistent, InFlight
<1>3. Pending = {}
  BY JoinerAssumption DEF Init, Pending
<1>4. Footprint = {}
  BY <1>3 DEF Init, Footprint
<1>5. Cardinality(Joiner) \in Nat /\ Cardinality(Footprint) = 0
  BY <1>4, JoinerAssumption, FS_CardinalityType, FS_EmptySet
<1>6. FootprintBounded
  BY <1>5, MaxRoomsAssumption DEF FootprintBounded
<1> QED
  BY <1>1, <1>2, <1>6 DEF IInv

(* Types and consistency, action by action.                                *)
LEMMA StepConsistent ==
  ASSUME IInv, [Next]_vars, BreakerInv'
  PROVE  TypeOK' /\ Consistent'
<1> USE JoinerAssumption DEF IInv, TypeOK, Consistent, InFlight
<1>0. BreakerTypeOK /\ BreakerTypeOK'
  BY DEF BreakerInv
<1>1. CASE Child
  BY <1>0, <1>1 DEF Child, Tick, Stall, ComeBack, admissionVars
<1>2. ASSUME NEW r \in Room, RoomFinishes(r) PROVE TypeOK' /\ Consistent'
  BY <1>0, <1>2 DEF RoomFinishes, breakerVars
<1>3. ASSUME NEW c \in Caller, NEW r \in Room \cup {NoRoom}, Begin(c, r)
      PROVE  TypeOK' /\ Consistent'
  <2>1. /\ call' = [call EXCEPT ![c] = "flight"]
        /\ target' = [target EXCEPT ![c] = r]
        /\ UNCHANGED <<rooms, answer, admitted>>
        /\ c \notin admitted
        /\ c \in Joiner => r \in Room
    BY <1>3 DEF Begin, Call
  <2> QED
    BY <1>0, <2>1 DEF BreakerTypeOK
<1>4. ASSUME NEW c \in Caller, Handle(c) PROVE TypeOK' /\ Consistent'
  BY <1>0, <1>4 DEF Handle, Verdict, breakerVars, BreakerTypeOK
<1>5. ASSUME NEW c \in Caller, CallReturns(c) PROVE TypeOK' /\ Consistent'
  <2>1. /\ call[c] = "flight" /\ call' = [call EXCEPT ![c] = "idle"]
        /\ answer' = [answer EXCEPT ![c] = "none"]
        /\ UNCHANGED rooms
    BY <1>5 DEF CallReturns, Succeeds, Returns
  <2>2. CASE answer[c] = "admit" /\ c \in Joiner
    <3>1. admitted' = admitted \cup {c} /\ UNCHANGED target
      BY <1>5, <2>2 DEF CallReturns
    <3> QED
      BY <1>0, <2>1, <2>2, <3>1 DEF BreakerTypeOK
  <2>3. CASE answer[c] # "admit"
    <3>1. UNCHANGED admitted /\ target' = [target EXCEPT ![c] = NoRoom]
      BY <1>5, <2>3 DEF CallReturns
    <3> QED
      BY <1>0, <2>1, <2>3, <3>1 DEF BreakerTypeOK
  <2> QED
    BY <2>2, <2>3
<1>6. ASSUME NEW c \in Caller, CallFails(c) PROVE TypeOK' /\ Consistent'
  <2>1. /\ call[c] = "flight" /\ call' = [call EXCEPT ![c] = "idle"]
        /\ answer' = [answer EXCEPT ![c] = "none"]
        /\ target' = [target EXCEPT ![c] = NoRoom]
        /\ UNCHANGED <<rooms, admitted>>
    BY <1>6 DEF CallFails, Fails, Errs, Returns
  <2> QED
    BY <1>0, <2>1 DEF BreakerTypeOK
<1>7. ASSUME NEW c \in Caller, Proxied(c) PROVE TypeOK' /\ Consistent'
  <2>1. /\ c \in Joiner /\ target[c] \in Room
        /\ admitted' = admitted \ {c}
        /\ rooms' \subseteq rooms \cup {target[c]}
        /\ target' = [target EXCEPT ![c] = NoRoom]
        /\ UNCHANGED <<call, answer>>
        /\ c \notin {d \in Caller : call[d] = "flight"}
    BY <1>7 DEF Proxied, breakerVars
  <2> QED
    BY <1>0, <2>1
<1>8. CASE UNCHANGED vars
  BY <1>0, <1>8 DEF vars, breakerVars, admissionVars
<1> QED
  BY <1>1, <1>2, <1>3, <1>4, <1>5, <1>6, <1>7, <1>8 DEF Next

(* Only a list taken below the ceiling adds to the footprint.              *)
LEMMA StepFootprint ==
  ASSUME IInv, [Next]_vars, TypeOK', Consistent'
  PROVE  FootprintBounded'
<1> USE JoinerAssumption DEF IInv, TypeOK, Consistent
<1>1. /\ Footprint \subseteq Room /\ Footprint' \subseteq Room
      /\ Pending \subseteq Joiner /\ Pending' \subseteq Joiner
  BY DEF Footprint, Pending
<1>2. ASSUME Footprint' \subseteq Footprint PROVE FootprintBounded'
  <2>1. /\ Cardinality(Footprint') <= Cardinality(Footprint)
        /\ Cardinality(Footprint') \in Nat /\ Cardinality(Footprint) \in Nat
    BY <1>1, <1>2, Sizes
  <2>2. Cardinality(Joiner) \in Nat
    BY FS_CardinalityType
  <2> QED
    BY <2>1, <2>2, MaxRoomsAssumption DEF FootprintBounded
<1>3. ASSUME NEW P, Pending' \subseteq P, P \subseteq Pending,
             \A c \in P : target'[c] = target[c], rooms' \subseteq Footprint
      PROVE  FootprintBounded'
  BY <1>2, <1>3 DEF Footprint
<1>4. CASE Child
  BY <1>3, <1>4 DEF Child, admissionVars, Pending, Footprint
<1>5. ASSUME NEW r \in Room, RoomFinishes(r) PROVE FootprintBounded'
  BY <1>3, <1>5 DEF RoomFinishes, Pending, Footprint
<1>6. ASSUME NEW c \in Caller, NEW r \in Room \cup {NoRoom}, Begin(c, r)
      PROVE  FootprintBounded'
  <2>1. c \notin Pending
    BY <1>6 DEF Begin, Call, Pending, InFlight
  <2>2. Pending' = Pending /\ rooms' = rooms /\ \A d \in Pending : target'[d] = target[d]
    BY <1>1, <1>6, <2>1 DEF Begin, Pending
  <2> QED
    BY <1>3, <2>2 DEF Footprint
<1>7. ASSUME NEW c \in Caller, Handle(c) PROVE FootprintBounded'
  <2>1. CASE c \in Joiner /\ Cardinality(rooms) < MaxRooms
    <3>1. Footprint' = rooms \cup {target[d] : d \in Pending'}
      BY <1>7, <2>1 DEF Handle, Footprint
    <3> QED
      BY <1>1, <2>1, <3>1, BelowCeiling DEF FootprintBounded
  <2>2. CASE c \in Joiner /\ ~(Cardinality(rooms) < MaxRooms)
    <3>1. rooms' = rooms /\ target' = target /\ admitted' = admitted
      BY <1>7, <2>2 DEF Handle
    <3>2. \A d \in Pending' : d \in Pending \/ target[d] \in rooms
      BY <1>7, <2>2 DEF Handle, Verdict, Pending
    <3>3. Footprint' \subseteq Footprint
      BY <3>1, <3>2 DEF Footprint
    <3> QED
      BY <1>2, <3>3
  <2>3. CASE c \notin Joiner
    <3>1. rooms' \subseteq rooms /\ target' = target /\ Pending' = Pending
      BY <1>7, <2>3 DEF Handle, Pending
    <3> QED
      BY <1>3, <3>1 DEF Footprint
  <2> QED
    BY <2>1, <2>2, <2>3
<1>8. ASSUME NEW c \in Caller, CallReturns(c) PROVE FootprintBounded'
  <2>1. CASE answer[c] = "admit"
    <3>1. Pending' = Pending /\ target' = target /\ rooms' = rooms
      BY <1>8, <2>1 DEF CallReturns, Pending
    <3> QED
      BY <1>3, <3>1 DEF Footprint
  <2>2. CASE answer[c] # "admit"
    <3>1. c \notin Pending
      BY <1>8, <2>2 DEF CallReturns, Pending, InFlight
    <3>2. Pending' = Pending /\ rooms' = rooms /\ \A d \in Pending : target'[d] = target[d]
      BY <1>1, <1>8, <2>2, <3>1 DEF CallReturns, Pending
    <3> QED
      BY <1>3, <3>2 DEF Footprint
  <2> QED
    BY <2>1, <2>2
<1>9. ASSUME NEW c \in Caller, CallFails(c) PROVE FootprintBounded'
  <2>1. c \in InFlight
    BY <1>9 DEF CallFails, Fails, Errs, Returns, InFlight
  <2>2. /\ Pending' \subseteq Pending \ {c} /\ rooms' = rooms
        /\ \A d \in Pending \ {c} : target'[d] = target[d]
    BY <1>1, <1>9, <2>1 DEF CallFails, Pending
  <2> QED
    BY <1>3, <2>2 DEF Footprint
<1>10. ASSUME NEW c \in Caller, Proxied(c) PROVE FootprintBounded'
  <2>1. c \in Pending /\ c \notin InFlight
    BY <1>10 DEF Proxied, Pending
  <2>2. /\ Pending' \subseteq Pending \ {c}
        /\ \A d \in Pending \ {c} : target'[d] = target[d]
        /\ rooms' \subseteq rooms \cup {target[c]}
    BY <1>1, <1>10, <2>1 DEF Proxied, Pending
  <2> QED
    BY <1>3, <2>1, <2>2 DEF Footprint
<1>11. CASE UNCHANGED vars
  BY <1>3, <1>11 DEF vars, admissionVars, Pending, Footprint
<1> QED
  BY <1>4, <1>5, <1>6, <1>7, <1>8, <1>9, <1>10, <1>11 DEF Next

LEMMA StepInvariant == IInv /\ [Next]_vars => IInv'
<1> SUFFICES ASSUME IInv, [Next]_vars PROVE IInv'
  OBVIOUS
<1>1. BreakerInv'
  BY AdmissionIsBreaker, BreakerStepInvariant DEF IInv
<1>2. TypeOK' /\ Consistent'
  BY <1>1, StepConsistent
<1>3. FootprintBounded'
  BY <1>2, StepFootprint
<1> QED
  BY <1>1, <1>2, <1>3 DEF IInv

-----------------------------------------------------------------------------
(* Every reachable state satisfies the inductive invariant.                *)
THEOREM Invariance == Spec => []IInv
BY InitInvariant, StepInvariant, PTL DEF Spec

(* The variables of gate and breaker keep their types.                     *)
THEOREM TypeCorrect == Spec => []TypeOK
<1>1. IInv => TypeOK
  BY DEF IInv
<1> QED
  BY <1>1, Invariance, PTL

(* Joins and admin calls use the breaker as preCall and postCall define    *)
(* it: the composition implements the breaker's specification.             *)
THEOREM UsesBreaker == Spec => BreakerSpec
<1>1. Init => BreakerInit
  BY DEF Init
<1>2. [Next]_vars => [BreakerNext]_breakerVars
  BY AdmissionIsBreaker
<1> QED
  BY <1>1, <1>2, PTL DEF Spec, BreakerSpec

(* preCall lets one probe through after a cooldown and no straggler frees  *)
(* the way for a second: it rests on the timeout being below the cooldown. *)
THEOREM OneProbeAtATime == Spec => []OneProbe
<1>1. IInv => OneProbe
  <2> SUFFICES ASSUME IInv PROVE OneProbe
    OBVIOUS
  <2>1. halfOpen => InFlight # {}
    BY DEF IInv, BreakerInv, Probing
  <2>2. ASSUME tripped, left = 0, halfOpen PROVE \A c, d \in InFlight : c = d
    BY <2>2 DEF IInv, BreakerInv, Probing
  <2>3. ASSUME tripped, left = 0, ~halfOpen, NEW c \in InFlight PROVE FALSE
    <3>1. age[c] + left > CallTimeout /\ age[c] \in 0 .. CallTimeout
      BY <2>3 DEF IInv, BreakerInv, Stragglers, BreakerTypeOK, InFlight
    <3> QED
      BY <2>3, <3>1, TimesAssumption
  <2> QED
    BY <2>1, <2>2, <2>3 DEF OneProbe
<1> QED
  BY <1>1, Invariance, PTL

(* enforceRoomCap decides from a stale list, and still the ceiling is      *)
(* overshot by at most the joins that overlap, less one.                   *)
THEOREM CeilingHolds == Spec => []CeilingOvershoot
<1>1. IInv => CeilingOvershoot
  <2> SUFFICES ASSUME IInv PROVE CeilingOvershoot
    OBVIOUS
  <2>1. rooms \subseteq Footprint /\ Footprint \subseteq Room
    BY JoinerAssumption DEF Footprint, Pending, IInv, TypeOK, Consistent
  <2>2. /\ Cardinality(rooms) <= Cardinality(Footprint)
        /\ Cardinality(rooms) \in Nat /\ Cardinality(Footprint) \in Nat
    BY <2>1, Sizes
  <2>3. Cardinality(Joiner) \in Nat
    BY JoinerAssumption, FS_CardinalityType
  <2> QED
    BY <2>2, <2>3, MaxRoomsAssumption DEF IInv, FootprintBounded, CeilingOvershoot
<1> QED
  BY <1>1, Invariance, PTL

=============================================================================
