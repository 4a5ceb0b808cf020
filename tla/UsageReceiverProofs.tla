------------------------ MODULE UsageReceiverProofs ------------------------
(***************************************************************************)
(* Proofs about the metering receiver, for every set of rooms and          *)
(* participants and every bound.                                           *)
(***************************************************************************)
EXTENDS UsageReceiver, TLAPS, FiniteSetTheorems

(* A tracked room was created in the past, each live participant joined it *)
(* after that, and nobody has accrued more than its age.                   *)
Sound(u) ==
  /\ 0 < u.created /\ u.created <= clock
  /\ \A i \in Identity :
       /\ u.joinedAt[i] = 0 \/ (u.created <= u.joinedAt[i] /\ u.joinedAt[i] <= clock)
       /\ u.accum[i] + Span(u, i) <= clock - u.created

SoundUsage == \A r \in Room : Tracked(r) => Sound(usage[r])

(* A room is tracked anew only after its last report.                      *)
Succession ==
  \A n \in DOMAIN reports :
    /\ reports[n].finish <= clock
    /\ \A r \in Room : Tracked(r) /\ reports[n].room = r =>
                         reports[n].finish <= usage[r].created

(* A room with so few participants (30, in real units) that they cannot    *)
(* make up half a minute within one second.                                *)
SmallRooms == Cardinality(Identity) * Second <= HalfMinute

(* Reports of a small room finish at least a second apart.                 *)
Ordered ==
  SmallRooms =>
    \A m, n \in DOMAIN reports :
      m < n /\ reports[m].room = reports[n].room =>
        reports[m].finish + Second <= reports[n].finish

(* A session that sends webhooks has a number, and a join or a leave names *)
(* its participant.                                                        *)
Addressed ==
  /\ \A r \in Room : open[r] => session[r] \in Session
  /\ \A r \in Room : present[r] # {} => open[r]
  /\ \A h \in sent : h.event \in {"participant_joined", "participant_left"} =>
                        h.identity \in Identity

Metered == SoundUsage /\ Succession /\ Ordered /\ WithinLifetime

IInv == TypeOK /\ Addressed /\ Metered

-----------------------------------------------------------------------------
(* Facts of arithmetic.                                                    *)
LEMMA DivBelow ==
  ASSUME NEW a \in Nat, NEW d \in Nat \ {0}, a < d
  PROVE  a \div d = 0
OBVIOUS

LEMMA Scaled ==
  ASSUME NEW n \in Nat, NEW l \in Nat, NEW s \in Nat, NEW h \in Nat \ {0},
         n * s <= h, h <= n * l
  PROVE  s <= l
OBVIOUS

LEMMA DivApart ==
  ASSUME NEW a \in Nat, NEW b \in Nat, NEW d \in Nat \ {0}, a + d <= b
  PROVE  a \div d < b \div d
OBVIOUS

(* Participants who each stayed at most l ticks spent at most l ticks each *)
(* together.                                                               *)
LEMMA TimeBounded ==
  ASSUME NEW acc \in [Identity -> Nat], NEW l \in Nat,
         \A i \in Identity : acc[i] <= l
  PROVE  /\ Cardinality(Identity) \in Nat
         /\ ParticipantTime(acc) \in Nat
         /\ ParticipantTime(acc) <= Cardinality(Identity) * l
<1> DEFINE ticks == UNION {{i} \X (1 .. acc[i]) : i \in Identity}
           most  == Identity \X (1 .. l)
<1>1. ticks \subseteq most
  OBVIOUS
<1>2. /\ IsFiniteSet(1 .. l) /\ Cardinality(1 .. l) = l
      /\ Cardinality(Identity) \in Nat
  <2>1. /\ IsFiniteSet(1 .. l)
        /\ Cardinality(1 .. l) = IF 1 > l THEN 0 ELSE l - 1 + 1
    BY FS_Interval
  <2> QED
    BY <2>1, FS_CardinalityType, IdentityAssumption
<1>3. IsFiniteSet(most) /\ Cardinality(most) = Cardinality(Identity) * l
  BY <1>2, FS_Product, IdentityAssumption
<1>4. IsFiniteSet(ticks) /\ Cardinality(ticks) <= Cardinality(most)
  BY <1>1, <1>3, FS_Subset
<1>5. Cardinality(ticks) \in Nat
  BY <1>4, FS_CardinalityType
<1> QED
  BY <1>2, <1>3, <1>4, <1>5 DEF ParticipantTime

(* In a small room, a minute to bill takes at least a second to accrue.    *)
LEMMA MinuteNeedsTime ==
  ASSUME NEW acc \in [Identity -> Nat], NEW l \in Nat,
         \A i \in Identity : acc[i] <= l
  PROVE  /\ RoundMinutes(ParticipantTime(acc)) \in Nat
         /\ RoundMinutes(ParticipantTime(acc)) > 0 /\ SmallRooms => Second <= l
<1> DEFINE p == ParticipantTime(acc)
           n == Cardinality(Identity)
<1>1. n \in Nat /\ p \in Nat /\ p <= n * l
  BY TimeBounded
<1> HIDE DEF p, n
<1>2. RoundMinutes(p) \in Nat
  BY <1>1, UnitsAssumption DEF RoundMinutes
<1>3. RoundMinutes(p) > 0 => HalfMinute <= p
  BY <1>1, DivBelow, UnitsAssumption DEF RoundMinutes
<1>4. SmallRooms => n * Second <= HalfMinute
  BY DEF SmallRooms, n
<1>5. ASSUME RoundMinutes(p) > 0, SmallRooms PROVE Second <= l
  <2>1. HalfMinute <= n * l
    BY <1>1, <1>3, <1>5, UnitsAssumption
  <2> QED
    BY <1>1, <1>4, <1>5, <2>1, Scaled, UnitsAssumption
<1> QED
  BY <1>2, <1>5 DEF p

LEMMA NewType ==
  ASSUME NEW t \in Time
  PROVE  /\ NewRoomUsage(t) \in Usage
         /\ NewRoomUsage(t).created = t
         /\ \A i \in Identity : /\ NewRoomUsage(t).joinedAt[i] = 0
                                /\ NewRoomUsage(t).accum[i] = 0
<1>1. [i \in Identity |-> 0] \in [Identity -> Time]
      /\ [i \in Identity |-> 0] \in [Identity -> Nat]
  BY BoundsAssumption DEF Time
<1> QED
  BY <1>1 DEF NewRoomUsage, Usage

LEMMA UntrackedType == Untracked \in Usage /\ Untracked.created = 0
<1>1. 0 \in Time
  BY BoundsAssumption DEF Time
<1> QED
  BY <1>1, NewType DEF Untracked

LEMMA ReportsTyped ==
  ASSUME TypeOK, NEW n \in DOMAIN reports
  PROVE  /\ reports[n] \in Reported
         /\ reports[n].room \in Room
         /\ reports[n].finish \in Nat /\ reports[n].created \in Nat
<1>1. reports[n] \in Reported
  BY DEF TypeOK
<1> QED
  BY <1>1, BoundsAssumption DEF Reported, Time

LEMMA InitInvariant == Init => IInv
<1> SUFFICES ASSUME Init PROVE IInv
  OBVIOUS
<1>1. TypeOK
  BY UntrackedType, BoundsAssumption DEF Init, TypeOK
<1>2. Addressed
  BY DEF Init, Addressed
<1>3. Metered
  BY DEF Init, Metered, SoundUsage, Tracked, Succession, Ordered, WithinLifetime
<1> QED
  BY <1>1, <1>2, <1>3 DEF IInv

(* What roomFor returns is of the right type and sound, and was created    *)
(* after the room's reports.                                               *)
LEMMA RoomForSound ==
  ASSUME IInv, NEW r \in Room
  PROVE  /\ RoomFor(r) \in Usage
         /\ Sound(RoomFor(r))
         /\ \A n \in DOMAIN reports :
              reports[n].room = r => reports[n].finish <= RoomFor(r).created
<1> DEFINE new == NewRoomUsage(clock)
<1>1. clock \in Time /\ clock \in Nat /\ 0 < clock
  BY BoundsAssumption DEF IInv, TypeOK, Time
<1>2. /\ new \in Usage /\ new.created = clock
      /\ \A i \in Identity : new.joinedAt[i] = 0 /\ new.accum[i] = 0
  BY <1>1, NewType
<1>3. Sound(new)
  BY <1>1, <1>2 DEF Sound, Span
<1>4. CASE Tracked(r)
  BY <1>4 DEF RoomFor, IInv, Metered, TypeOK, SoundUsage, Succession
<1>5. CASE ~Tracked(r)
  BY <1>2, <1>3, <1>5 DEF RoomFor, IInv, Metered, Succession
<1> QED
  BY <1>4, <1>5

(* Putting a sound usage with the creation time of roomFor's in a room.    *)
LEMMA UpdateKeeps ==
  ASSUME IInv, NEW r \in Room, NEW u \in Usage, Sound(u),
         u.created = RoomFor(r).created,
         usage' = [usage EXCEPT ![r] = u],
         UNCHANGED <<clock, livekit, reports>>
  PROVE  IInv'
<1>1. /\ usage'[r] = u /\ \A q \in Room \ {r} : usage'[q] = usage[q]
      /\ usage' \in [Room -> Usage]
  BY DEF IInv, TypeOK
<1>2. TypeOK'
  BY <1>1 DEF IInv, TypeOK, livekit
<1>3. Addressed'
  BY DEF IInv, Addressed, livekit
<1>4. SoundUsage'
  <2> SUFFICES ASSUME NEW q \in Room, Tracked(q)' PROVE Sound(usage[q])'
    BY DEF SoundUsage
  <2>1. CASE q = r
    BY <1>1, <2>1 DEF Sound, Span
  <2>2. CASE q # r
    BY <1>1, <2>2 DEF IInv, Metered, SoundUsage, Tracked, Sound, Span
  <2> QED
    BY <2>1, <2>2
<1>5. Succession'
  <2> SUFFICES ASSUME NEW n \in DOMAIN reports, NEW q \in Room,
                      Tracked(q)', reports[n].room = q
               PROVE  reports[n].finish <= usage'[q].created
    BY DEF IInv, Metered, Succession
  <2>1. CASE q = r
    BY <1>1, <2>1, RoomForSound
  <2>2. CASE q # r
    BY <1>1, <2>2 DEF IInv, Metered, Succession, Tracked
  <2> QED
    BY <2>1, <2>2
<1>6. Ordered' /\ WithinLifetime'
  BY DEF IInv, Metered, Ordered, WithinLifetime
<1> QED
  BY <1>2, <1>3, <1>4, <1>5, <1>6 DEF IInv, Metered

LEMMA StutterKeeps == ASSUME IInv, UNCHANGED vars PROVE IInv'
BY DEF vars, livekit, IInv, TypeOK, Addressed, Metered, SoundUsage, Succession,
   Ordered, WithinLifetime, Tracked, Sound, Span

LEMMA StartedKeeps == ASSUME IInv, NEW h \in Hook, Started(h) PROVE IInv'
<1> DEFINE u == RoomFor(h.room)
           v == [u EXCEPT !.startedAt = clock]
<1>1. h.room \in Room /\ clock \in Time
  BY BoundsAssumption DEF Hook, IInv, TypeOK, Time
<1>2. u \in Usage /\ Sound(u)
  BY <1>1, RoomForSound
<1>3. v \in Usage /\ v.created = u.created /\ v.joinedAt = u.joinedAt /\ v.accum = u.accum
  BY <1>1, <1>2 DEF Usage
<1>4. Sound(v)
  BY <1>2, <1>3 DEF Sound, Span
<1> QED
  BY <1>1, <1>3, <1>4, UpdateKeeps DEF Started, IInv, TypeOK

LEMMA JoinedKeeps ==
  ASSUME IInv, NEW h \in Hook, h.identity \in Identity, Joined(h) PROVE IInv'
<1> DEFINE u == RoomFor(h.room)
           i == h.identity
           v == [u EXCEPT !.joinedAt[i] = clock]
<1>1. h.room \in Room /\ clock \in Time /\ clock \in Nat /\ h.session \in Session
  BY BoundsAssumption DEF Hook, IInv, TypeOK, Time
<1>2. u \in Usage /\ Sound(u)
  BY <1>1, RoomForSound
<1>3. CASE u.joinedAt[i] = 0
  <2>1. /\ v \in Usage /\ v.created = u.created /\ v.accum = u.accum
        /\ v.joinedAt = [u.joinedAt EXCEPT ![i] = clock]
    BY <1>1, <1>2 DEF Usage
  <2>2. /\ u.accum \in [Identity -> Nat] /\ u.joinedAt \in [Identity -> Time]
        /\ u.created \in Nat
    BY <1>2, BoundsAssumption DEF Usage, Time
  <2>3. Span(u, i) = 0 /\ Span(v, i) = 0
        /\ \A j \in Identity \ {i} : Span(v, j) = Span(u, j) /\ v.joinedAt[j] = u.joinedAt[j]
    BY <1>1, <1>3, <2>1, <2>2 DEF Span
  <2>4. Sound(v)
    <3> SUFFICES ASSUME NEW j \in Identity
                 PROVE  /\ v.joinedAt[j] = 0
                           \/ (v.created <= v.joinedAt[j] /\ v.joinedAt[j] <= clock)
                        /\ v.accum[j] + Span(v, j) <= clock - v.created
      BY <1>2, <2>1 DEF Sound
    <3>1. CASE j = i
      BY <1>1, <1>2, <2>1, <2>2, <2>3, <3>1 DEF Sound
    <3>2. CASE j # i
      BY <1>2, <2>1, <2>3, <3>2 DEF Sound
    <3> QED
      BY <3>1, <3>2
  <2>5. /\ usage' = [usage EXCEPT ![h.room] = v]
        /\ UNCHANGED <<clock, livekit, reports>>
    BY <1>3 DEF Joined
  <2> QED
    BY <1>1, <2>1, <2>4, <2>5, UpdateKeeps
<1>4. CASE u.joinedAt[i] # 0
  BY <1>4, StutterKeeps DEF Joined, livekit, vars
<1> QED
  BY <1>3, <1>4

LEMMA LeftKeeps ==
  ASSUME IInv, NEW h \in Hook, h.identity \in Identity, Left(h) PROVE IInv'
<1> DEFINE u == RoomFor(h.room)
           i == h.identity
           w == [u EXCEPT !.accum[i] = @ + Span(u, i)]
           v == [u EXCEPT !.accum[i] = @ + Span(u, i), !.joinedAt[i] = 0]
<1>1. h.room \in Room /\ clock \in Nat
  BY BoundsAssumption DEF Hook, IInv, TypeOK
<1>2. u \in Usage /\ Sound(u)
  BY <1>1, RoomForSound
<1>3. /\ u.accum \in [Identity -> Nat] /\ u.joinedAt \in [Identity -> Time]
      /\ u.created \in Nat /\ 0 \in Time
  BY <1>2, BoundsAssumption DEF Usage, Time
<1>4. Span(u, i) \in Nat
  BY <1>1, <1>2, <1>3, BoundsAssumption DEF Sound, Span, Time
<1>5. /\ v \in Usage /\ v.created = u.created
      /\ v.accum = [u.accum EXCEPT ![i] = @ + Span(u, i)]
      /\ v.joinedAt = [u.joinedAt EXCEPT ![i] = 0]
  <2>1. /\ [u.accum EXCEPT ![i] = @ + Span(u, i)] \in [Identity -> Nat]
        /\ [u.joinedAt EXCEPT ![i] = 0] \in [Identity -> Time]
    BY <1>3, <1>4
  <2>2. w \in Usage /\ w.created = u.created /\ w.joinedAt = u.joinedAt
        /\ w.accum = [u.accum EXCEPT ![i] = @ + Span(u, i)]
    BY <1>2, <2>1 DEF Usage
  <2>3. v = [w EXCEPT !.joinedAt[i] = 0]
    OBVIOUS
  <2>4. [w EXCEPT !.joinedAt[i] = 0] \in Usage
    BY <1>3, <2>1, <2>2 DEF Usage
  <2>5. [w EXCEPT !.joinedAt[i] = 0].joinedAt = [w.joinedAt EXCEPT ![i] = 0]
        /\ [w EXCEPT !.joinedAt[i] = 0].accum = w.accum
        /\ [w EXCEPT !.joinedAt[i] = 0].created = w.created
    BY <2>2 DEF Usage
  <2> HIDE DEF w, v
  <2> QED
    BY <2>2, <2>3, <2>4, <2>5
<1>6. Span(v, i) = 0 /\ v.accum[i] = u.accum[i] + Span(u, i)
      /\ \A j \in Identity \ {i} : Span(v, j) = Span(u, j)
           /\ v.joinedAt[j] = u.joinedAt[j] /\ v.accum[j] = u.accum[j]
  BY <1>3, <1>5 DEF Span
<1>7. Sound(v)
  <2> SUFFICES ASSUME NEW j \in Identity
               PROVE  /\ v.joinedAt[j] = 0
                         \/ (v.created <= v.joinedAt[j] /\ v.joinedAt[j] <= clock)
                      /\ v.accum[j] + Span(v, j) <= clock - v.created
    BY <1>2, <1>5 DEF Sound
  <2>1. CASE j = i
    BY <1>2, <1>3, <1>4, <1>5, <1>6, <2>1 DEF Sound
  <2>2. CASE j # i
    BY <1>2, <1>5, <1>6, <2>2 DEF Sound
  <2> QED
    BY <2>1, <2>2
<1>8. usage' = [usage EXCEPT ![h.room] = v] /\ UNCHANGED <<clock, livekit, reports>>
  BY DEF Left
<1> QED
  BY <1>1, <1>5, <1>7, <1>8, UpdateKeeps DEF IInv, TypeOK

LEMMA FinishedKeeps == ASSUME IInv, NEW h \in Hook, Finished(h) PROVE IInv'
<1> DEFINE r     == h.room
           u     == usage[r]
           total == [i \in Identity |-> u.accum[i] + Span(u, i)]
           rep   == [room |-> r, start |-> u.startedAt, finish |-> clock,
                     minutes |-> RoundMinutes(ParticipantTime(total)),
                     created |-> u.created, accum |-> total, of |-> h.session]
<1>1. /\ r \in Room /\ h.session \in Session /\ clock \in Time /\ clock \in Nat
      /\ u \in Usage /\ Sound(u)
  BY BoundsAssumption DEF Hook, IInv, TypeOK, Metered, SoundUsage, Finished, Time
<1>2. /\ u.accum \in [Identity -> Nat] /\ u.joinedAt \in [Identity -> Nat]
      /\ u.created \in Nat /\ u.created \in Time /\ u.startedAt \in Time
  BY <1>1, BoundsAssumption DEF Usage, Time
<1>3. \A i \in Identity : Span(u, i) \in Nat
  BY <1>1, <1>2 DEF Sound, Span
<1>4. total \in [Identity -> Nat]
  BY <1>2, <1>3
<1>4a. /\ clock - u.created \in Nat
       /\ \A i \in Identity : total[i] <= clock - u.created
  BY <1>1, <1>2, <1>3 DEF Sound
<1>4b. /\ rep.minutes \in Nat
       /\ rep.minutes > 0 /\ SmallRooms => Second <= clock - u.created
  <2> HIDE DEF total
  <2> QED
    BY <1>4, <1>4a, MinuteNeedsTime
<1>5. rep \in Reported
  BY <1>1, <1>2, <1>4, <1>4b DEF Reported, IInv, TypeOK
<1>6. /\ usage' = [usage EXCEPT ![r] = Untracked]
      /\ UNCHANGED <<clock, livekit>>
      /\ reports' = IF rep.minutes > 0 THEN Append(reports, rep) ELSE reports
  BY DEF Finished, FinalReport
<1>7. /\ usage' \in [Room -> Usage] /\ usage'[r] = Untracked
      /\ \A q \in Room \ {r} : usage'[q] = usage[q]
      /\ ~Tracked(r)' /\ \A q \in Room \ {r} : Tracked(q)' <=> Tracked(q)
  BY <1>1, <1>6, UntrackedType DEF IInv, TypeOK, Tracked
<1>8. reports' \in Seq(Reported)
  <2> HIDE DEF rep, total
  <2> QED
    BY <1>5, <1>6 DEF IInv, TypeOK
<1>9. TypeOK'
  BY <1>1, <1>6, <1>7, <1>8 DEF IInv, TypeOK, livekit
<1>10. Addressed'
  BY <1>6 DEF IInv, Addressed, livekit
<1>11. SoundUsage'
  BY <1>6, <1>7 DEF IInv, Metered, SoundUsage, Sound, Span
<1>12. CASE reports' = reports
  <2>1. Succession'
    <3> SUFFICES ASSUME NEW n \in DOMAIN reports, NEW q \in Room,
                        Tracked(q)', reports[n].room = q
                 PROVE  reports[n].finish <= usage'[q].created
      BY <1>6, <1>12 DEF IInv, Metered, Succession
    <3> QED
      BY <1>7 DEF IInv, Metered, Succession
  <2> QED
    BY <1>9, <1>10, <1>11, <1>12, <2>1 DEF IInv, Metered, Ordered, WithinLifetime
<1>13. CASE rep.minutes > 0 /\ reports' = Append(reports, rep)
  <2>1. SmallRooms => u.created + Second <= clock
    BY <1>1, <1>2, <1>13, <1>4b, UnitsAssumption
  <2>2. /\ rep.room = r /\ rep.finish = clock /\ rep.created = u.created
        /\ \A i \in Identity : rep.accum[i] <= rep.finish - rep.created
    BY <1>1, <1>2, <1>3 DEF Sound
  <2> HIDE DEF rep, total
  <2>3. /\ Len(reports) \in Nat
        /\ DOMAIN reports = 1 .. Len(reports)
        /\ DOMAIN reports' = 1 .. (Len(reports) + 1)
        /\ reports'[Len(reports) + 1] = rep
        /\ \A n \in DOMAIN reports : reports'[n] = reports[n]
    BY <1>13 DEF IInv, TypeOK
  <2>4. \A n \in DOMAIN reports :
          /\ reports[n].room \in Room /\ reports[n].finish \in Nat
          /\ reports[n].finish <= clock
          /\ SmallRooms /\ reports[n].room = r =>
               reports[n].finish + Second <= clock
    BY <1>1, <1>2, <2>1, ReportsTyped, UnitsAssumption DEF IInv, Metered, Succession, Finished
  <2>5. Succession'
    <3> SUFFICES ASSUME NEW n \in DOMAIN reports'
                 PROVE  /\ reports'[n].finish <= clock
                        /\ \A q \in Room : Tracked(q)' /\ reports'[n].room = q =>
                                             reports'[n].finish <= usage'[q].created
      BY <1>6 DEF Succession
    <3>1. CASE n = Len(reports) + 1
      BY <1>1, <1>7, <2>2, <2>3, <3>1
    <3>2. CASE n \in DOMAIN reports
      BY <1>7, <2>3, <2>4, <3>2 DEF IInv, Metered, Succession
    <3> QED
      BY <2>3, <3>1, <3>2
  <2>6. Ordered'
    <3> SUFFICES ASSUME SmallRooms,
                        NEW m \in DOMAIN reports', NEW n \in DOMAIN reports',
                        m < n, reports'[m].room = reports'[n].room
                 PROVE  reports'[m].finish + Second <= reports'[n].finish
      BY DEF Ordered, SmallRooms
    <3>1. m \in DOMAIN reports
      BY <2>3
    <3>2. CASE n = Len(reports) + 1
      BY <2>2, <2>3, <2>4, <3>1, <3>2
    <3>3. CASE n \in DOMAIN reports
      BY <2>3, <3>1, <3>3 DEF IInv, Metered, Ordered
    <3> QED
      BY <2>3, <3>2, <3>3
  <2>7. WithinLifetime'
    <3> SUFFICES ASSUME NEW n \in DOMAIN reports', NEW i \in Identity
                 PROVE  reports'[n].accum[i] <= reports'[n].finish - reports'[n].created
      BY DEF WithinLifetime
    <3>1. CASE n = Len(reports) + 1
      BY <2>2, <2>3, <3>1
    <3>2. CASE n \in DOMAIN reports
      BY <2>3, <3>2 DEF IInv, Metered, WithinLifetime
    <3> QED
      BY <2>3, <3>1, <3>2
  <2> QED
    BY <1>9, <1>10, <1>11, <2>5, <2>6, <2>7 DEF IInv, Metered
<1> QED
  BY <1>6, <1>12, <1>13

(* The steps that leave the receiver alone: they change LiveKit's state.   *)
LEMMA OutsideKeeps ==
  ASSUME IInv, TypeOK', Addressed', UNCHANGED <<clock, usage, reports>>
  PROVE  IInv'
<1>1. SoundUsage' /\ Succession'
  BY DEF IInv, Metered, SoundUsage, Succession, Tracked, Sound, Span
<1>2. Ordered' /\ WithinLifetime'
  BY DEF IInv, Metered, Ordered, WithinLifetime
<1> QED
  BY <1>1, <1>2 DEF IInv, Metered

LEMMA SendTyped ==
  ASSUME IInv, NEW ev \in {"room_started", "participant_joined",
                            "participant_left", "room_finished"},
         NEW r \in Room, NEW k \in Session, NEW i \in Identity \cup {"none"},
         ev \in {"participant_joined", "participant_left"} => i \in Identity,
         Send(ev, r, k, i)
  PROVE  /\ sent' \subseteq Hook
         /\ \A h \in sent' : h.event \in {"participant_joined", "participant_left"} =>
                               h.identity \in Identity
<1> DEFINE g == [event |-> ev, room |-> r, session |-> k, identity |-> i]
<1>1. g \in Hook /\ g.event = ev /\ g.identity = i
  BY DEF Hook
<1>2. sent' = sent \cup {g}
  BY DEF Send
<1> HIDE DEF g
<1> QED
  BY <1>1, <1>2 DEF IInv, TypeOK, Addressed

LEMMA RoomKeeps ==
  ASSUME IInv, NEW r \in Room, RoomStarts(r) \/ RoomFinishes(r) PROVE IInv'
<1>1. CASE RoomStarts(r)
  <2>1. session'[r] \in Session /\ session' \in [Room -> 0 .. MaxSession]
        /\ \A q \in Room \ {r} : session'[q] = session[q]
    BY <1>1, BoundsAssumption DEF RoomStarts, IInv, TypeOK, Session
  <2>2. sent' \subseteq Hook /\ Addressed'
    BY <1>1, <2>1, SendTyped DEF RoomStarts, IInv, TypeOK, Addressed
  <2> QED
    BY <1>1, <2>1, <2>2, OutsideKeeps DEF RoomStarts, IInv, TypeOK
<1>2. CASE RoomFinishes(r)
  <2>1. session[r] \in Session
    BY <1>2 DEF RoomFinishes, IInv, Addressed
  <2>2. sent' \subseteq Hook /\ Addressed'
    BY <1>2, <2>1, SendTyped DEF RoomFinishes, IInv, TypeOK, Addressed
  <2> QED
    BY <1>2, <2>2, OutsideKeeps DEF RoomFinishes, IInv, TypeOK
<1> QED
  BY <1>1, <1>2

LEMMA ParticipantKeeps ==
  ASSUME IInv, NEW r \in Room, NEW i \in Identity, Joins(r, i) \/ Leaves(r, i)
  PROVE  IInv'
<1>1. CASE Joins(r, i)
  <2>1. session[r] \in Session
    BY <1>1 DEF Joins, IInv, Addressed
  <2>2. sent' \subseteq Hook /\ Addressed'
    BY <1>1, <2>1, SendTyped DEF Joins, IInv, TypeOK, Addressed
  <2> QED
    BY <1>1, <2>2, OutsideKeeps DEF Joins, IInv, TypeOK
<1>2. CASE Leaves(r, i)
  <2>1. session[r] \in Session
    BY <1>2 DEF Leaves, IInv, Addressed
  <2>2. sent' \subseteq Hook /\ Addressed'
    BY <1>2, <2>1, SendTyped DEF Leaves, IInv, TypeOK, Addressed
  <2> QED
    BY <1>2, <2>2, OutsideKeeps DEF Leaves, IInv, TypeOK
<1> QED
  BY <1>1, <1>2

(* Time only widens the bounds: a span grows as fast as its room's age.    *)
LEMMA TickKeeps == ASSUME IInv, Tick PROVE IInv'
<1>1. clock \in Nat /\ clock' = clock + 1 /\ clock' \in 1 .. MaxClock
  BY BoundsAssumption DEF Tick, IInv, TypeOK
<1>2. TypeOK' /\ Addressed'
  BY <1>1 DEF Tick, livekit, IInv, TypeOK, Addressed
<1>3. SoundUsage'
  <2> SUFFICES ASSUME NEW r \in Room, Tracked(r)' PROVE Sound(usage[r])'
    BY DEF SoundUsage
  <2>1. Sound(usage[r]) /\ usage[r] \in Usage /\ usage'[r] = usage[r]
    BY DEF Tick, IInv, TypeOK, Metered, SoundUsage, Tracked
  <2>2. /\ usage[r].created \in Nat /\ usage[r].joinedAt \in [Identity -> Nat]
        /\ usage[r].accum \in [Identity -> Nat]
    BY <2>1, BoundsAssumption DEF Usage, Time
  <2> QED
    BY <1>1, <2>1, <2>2 DEF Sound, Span
<1>4. Succession'
  BY <1>1, ReportsTyped DEF Tick, IInv, Metered, Succession, Tracked
<1>5. Ordered' /\ WithinLifetime'
  BY DEF Tick, IInv, Metered, Ordered, WithinLifetime
<1> QED
  BY <1>2, <1>3, <1>4, <1>5 DEF IInv, Metered

LEMMA RestartKeeps == ASSUME IInv, Restart PROVE IInv'
<1>1. usage' \in [Room -> Usage] /\ \A r \in Room : ~Tracked(r)'
  BY UntrackedType DEF Restart, Tracked
<1>2. TypeOK' /\ Addressed'
  BY <1>1 DEF Restart, livekit, IInv, TypeOK, Addressed
<1>3. SoundUsage' /\ Succession'
  BY <1>1 DEF Restart, IInv, Metered, SoundUsage, Succession
<1>4. Ordered' /\ WithinLifetime'
  BY DEF Restart, IInv, Metered, Ordered, WithinLifetime
<1> QED
  BY <1>2, <1>3, <1>4 DEF IInv, Metered

LEMMA StepInvariant == IInv /\ [Next]_vars => IInv'
<1> SUFFICES ASSUME IInv, [Next]_vars PROVE IInv'
  OBVIOUS
<1>1. CASE Tick
  BY <1>1, TickKeeps
<1>2. ASSUME NEW r \in Room, RoomStarts(r) \/ RoomFinishes(r) PROVE IInv'
  BY <1>2, RoomKeeps
<1>3. ASSUME NEW r \in Room, NEW i \in Identity, Joins(r, i) \/ Leaves(r, i)
      PROVE  IInv'
  BY <1>3, ParticipantKeeps
<1>4. ASSUME NEW h \in sent, Apply(h) PROVE IInv'
  <2>1. h \in Hook
    BY DEF IInv, TypeOK
  <2>2. h.event \in {"participant_joined", "participant_left"} => h.identity \in Identity
    BY DEF IInv, Addressed
  <2>3. CASE Started(h)
    BY <2>1, <2>3, StartedKeeps
  <2>4. CASE Joined(h)
    BY <2>1, <2>2, <2>4, JoinedKeeps DEF Joined
  <2>5. CASE Left(h)
    BY <2>1, <2>2, <2>5, LeftKeeps DEF Left
  <2>6. CASE Finished(h)
    BY <2>1, <2>6, FinishedKeeps
  <2> QED
    BY <1>4, <2>3, <2>4, <2>5, <2>6 DEF Apply
<1>5. CASE Restart
  BY <1>5, RestartKeeps
<1>6. CASE UNCHANGED vars
  BY <1>6, StutterKeeps
<1> QED
  BY <1>1, <1>2, <1>3, <1>4, <1>5, <1>6 DEF Next

-----------------------------------------------------------------------------
(* The inductive invariant holds throughout.                               *)
THEOREM Invariance == Spec => []IInv
BY InitInvariant, StepInvariant, PTL DEF Spec

(* Every variable keeps its type: no negative span is ever added.          *)
THEOREM TypeCorrect == Spec => []TypeOK
<1>1. IInv => TypeOK
  BY DEF IInv
<1> QED
  BY <1>1, Invariance, PTL

(* No two reports carry one key, however webhooks are repeated, reordered  *)
(* and room names reused, in rooms that cannot accrue half a minute within *)
(* one second: a report needs that much, so the room was tracked anew a    *)
(* second or more before it finished, and after its last report.           *)
THEOREM KeysAreDistinct == SmallRooms => (Spec => []DistinctKeys)
<1> SUFFICES ASSUME SmallRooms PROVE Spec => []DistinctKeys
  OBVIOUS
<1>1. IInv => DistinctKeys
  <2> SUFFICES ASSUME IInv, NEW m \in DOMAIN reports, NEW n \in DOMAIN reports,
                      KeyOf(reports[m]) = KeyOf(reports[n])
               PROVE  m = n
    BY DEF DistinctKeys
  <2>1. /\ reports[m].room = reports[n].room
        /\ Unix(reports[m].finish) = Unix(reports[n].finish)
    BY DEF KeyOf
  <2>2. m \in Nat /\ n \in Nat
    BY DEF IInv, TypeOK
  <2>3. reports[m].finish \in Nat /\ reports[n].finish \in Nat
    BY ReportsTyped DEF IInv
  <2>4. /\ ~(reports[m].finish + Second <= reports[n].finish)
        /\ ~(reports[n].finish + Second <= reports[m].finish)
    <3>1. /\ Unix(reports[m].finish) \in Nat
          /\ Unix(reports[n].finish) \in Nat
      BY <2>3, UnitsAssumption DEF Unix
    <3> QED
      BY <2>1, <2>3, <3>1, DivApart, UnitsAssumption DEF Unix
  <2> QED
    BY <2>1, <2>2, <2>4 DEF IInv, Metered, Ordered
<1> QED
  BY <1>1, Invariance, PTL

(* Nobody is billed for more time than the receiver tracked the room for,  *)
(* in every order of joins, leaves and their repetitions.                  *)
THEOREM BilledWithinLifetime == Spec => []WithinLifetime
<1>1. IInv => WithinLifetime
  BY DEF IInv, Metered
<1> QED
  BY <1>1, Invariance, PTL

(* A report covers what came after the room's earlier reports: only        *)
(* room_finished reports, and the room it finishes was created after them. *)
LEMMA ReportsApart ==
  IInv /\ NoTimeBilledTwice /\ [Next]_vars => NoTimeBilledTwice'
<1> SUFFICES ASSUME IInv, NoTimeBilledTwice, [Next]_vars
             PROVE  NoTimeBilledTwice'
  OBVIOUS
<1>1. CASE UNCHANGED reports
  BY <1>1 DEF NoTimeBilledTwice
<1>2. ASSUME NEW h \in sent, Finished(h) PROVE NoTimeBilledTwice'
  <2> DEFINE rep == FinalReport(h)
  <2>1. /\ reports' = reports \/ reports' = Append(reports, rep)
        /\ Tracked(h.room)
    BY <1>2 DEF Finished
  <2>2. rep.room = h.room /\ rep.created = usage[h.room].created
    BY DEF FinalReport
  <2>3. h.room \in Room
    BY DEF IInv, TypeOK, Hook
  <2> HIDE DEF rep
  <2>4. CASE reports' = Append(reports, rep)
    <3>1. /\ Len(reports) \in Nat
          /\ DOMAIN reports = 1 .. Len(reports)
          /\ DOMAIN reports' = 1 .. (Len(reports) + 1)
          /\ reports'[Len(reports) + 1] = rep
          /\ \A n \in DOMAIN reports : reports'[n] = reports[n]
      BY <2>4 DEF IInv, TypeOK
    <3> SUFFICES ASSUME NEW m \in DOMAIN reports', NEW n \in DOMAIN reports',
                        m < n, reports'[m].room = reports'[n].room
                 PROVE  reports'[m].finish <= reports'[n].created
      BY DEF NoTimeBilledTwice
    <3>2. m \in DOMAIN reports
      BY <3>1
    <3>3. CASE n = Len(reports) + 1
      <4>1. reports[m].finish <= usage[h.room].created
        BY <2>1, <2>2, <2>3, <3>1, <3>2, <3>3 DEF IInv, Metered, Succession
      <4> QED
        BY <2>2, <3>1, <3>2, <3>3, <4>1
    <3>4. CASE n \in DOMAIN reports
      BY <3>1, <3>2, <3>4 DEF NoTimeBilledTwice
    <3> QED
      BY <3>1, <3>3, <3>4
  <2> QED
    BY <1>1, <2>1, <2>4
<1>3. \/ UNCHANGED reports
      \/ \E h \in sent : Finished(h)
  BY DEF Next, vars, Tick, RoomStarts, RoomFinishes, Joins, Leaves, Apply,
         Started, Joined, Left, Restart
<1> QED
  BY <1>1, <1>2, <1>3

(* No moment of a participant is billed in two reports of a room: the      *)
(* lifetimes they cover do not overlap, for any number of sessions,        *)
(* repeated webhooks and restarts, in rooms of any size.                   *)
THEOREM TimeIsBilledOnce == Spec => []NoTimeBilledTwice
<1>1. Init => NoTimeBilledTwice
  BY DEF Init, NoTimeBilledTwice
<1> QED
  BY <1>1, Invariance, ReportsApart, PTL DEF Spec

(* What one event leaves of a room that stays tracked.                     *)
Keeps == \A r \in Room : Tracked(r) /\ Tracked(r)' =>
           \A i \in Identity : Accrued(r, i)' >= Accrued(r, i)

LEMMA AccruedTyped ==
  ASSUME IInv, NEW r \in Room, Tracked(r), NEW i \in Identity
  PROVE  /\ clock \in Nat /\ usage[r] \in Usage
         /\ usage[r].joinedAt \in [Identity -> Nat] /\ usage[r].joinedAt[i] <= clock
         /\ usage[r].accum \in [Identity -> Nat]
         /\ Span(usage[r], i) \in Nat
<1>1. clock \in Nat /\ usage[r] \in Usage /\ Sound(usage[r])
  BY BoundsAssumption DEF IInv, TypeOK, Metered, SoundUsage
<1>2. /\ usage[r].joinedAt \in [Identity -> Nat]
      /\ usage[r].accum \in [Identity -> Nat] /\ usage[r].created \in Nat
  BY <1>1, BoundsAssumption DEF Usage, Time
<1> QED
  BY <1>1, <1>2 DEF Sound, Span

LEMMA StartedAccrual == ASSUME IInv, NEW h \in Hook, Started(h) PROVE Keeps
<1> SUFFICES ASSUME NEW r \in Room, Tracked(r), NEW i \in Identity
             PROVE  Accrued(r, i)' >= Accrued(r, i)
  BY DEF Keeps
<1>1. /\ clock \in Nat /\ usage[r] \in Usage /\ usage[r].accum[i] \in Nat
      /\ Span(usage[r], i) \in Nat
  BY AccruedTyped
<1>2. usage'[r].accum = usage[r].accum /\ usage'[r].joinedAt = usage[r].joinedAt
  BY <1>1 DEF Started, RoomFor, Usage, IInv, TypeOK
<1>3. Accrued(r, i)' = Accrued(r, i)
  BY <1>2 DEF Started, Accrued, Span
<1> QED
  BY <1>1, <1>3 DEF Accrued

LEMMA JoinedAccrual ==
  ASSUME IInv, NEW h \in Hook, h.identity \in Identity, Joined(h) PROVE Keeps
<1> SUFFICES ASSUME NEW r \in Room, Tracked(r), NEW i \in Identity
             PROVE  Accrued(r, i)' >= Accrued(r, i)
  BY DEF Keeps
<1>1. /\ clock \in Nat /\ usage[r] \in Usage /\ usage[r].accum[i] \in Nat
      /\ usage[r].joinedAt \in [Identity -> Nat] /\ Span(usage[r], i) \in Nat
  BY AccruedTyped
<1>2. /\ clock' = clock /\ usage'[r].accum = usage[r].accum
      /\ \/ usage'[r].joinedAt[i] = usage[r].joinedAt[i]
         \/ (usage[r].joinedAt[i] = 0 /\ usage'[r].joinedAt[i] = clock)
  <2>1. CASE usage' = usage
    BY <2>1 DEF Joined
  <2>2. CASE r # h.room
    BY <1>1, <2>2 DEF Joined, IInv, TypeOK
  <2>3. CASE r = h.room /\ usage[r].joinedAt[h.identity] = 0
    <3>1. usage'[r] = [usage[r] EXCEPT !.joinedAt[h.identity] = clock]
      BY <2>3 DEF Joined, RoomFor, IInv, TypeOK
    <3> QED
      BY <1>1, <2>3, <3>1 DEF Usage, Joined
  <2> QED
    BY <2>1, <2>2, <2>3 DEF Joined, RoomFor
<1>3. Span(usage[r], i)' = Span(usage[r], i)
  BY <1>1, <1>2 DEF Span
<1> QED
  BY <1>1, <1>2, <1>3 DEF Accrued

LEMMA LeftAccrual ==
  ASSUME IInv, NEW h \in Hook, h.identity \in Identity, Left(h) PROVE Keeps
<1> SUFFICES ASSUME NEW r \in Room, Tracked(r), NEW i \in Identity
             PROVE  Accrued(r, i)' >= Accrued(r, i)
  BY DEF Keeps
<1> DEFINE u == usage[r]
           j == h.identity
<1>1. /\ clock \in Nat /\ u \in Usage /\ u.accum \in [Identity -> Nat]
      /\ u.joinedAt \in [Identity -> Nat] /\ Span(u, i) \in Nat
  BY AccruedTyped
<1>2. clock' = clock
  BY DEF Left
<1>3. CASE r # h.room
  <2>1. usage'[r] = u
    BY <1>3 DEF Left, IInv, TypeOK
  <2> QED
    BY <1>1, <1>2, <2>1 DEF Accrued, Span
<1>4. CASE r = h.room
  <2> DEFINE w == [u EXCEPT !.accum[j] = @ + Span(u, j)]
  <2>1. usage'[r] = [w EXCEPT !.joinedAt[j] = 0]
    BY <1>4 DEF Left, RoomFor, IInv, TypeOK
  <2>2. w.joinedAt = u.joinedAt /\ w.accum = [u.accum EXCEPT ![j] = @ + Span(u, j)]
    BY <1>1 DEF Usage
  <2>3. [w EXCEPT !.joinedAt[j] = 0].joinedAt = [w.joinedAt EXCEPT ![j] = 0]
        /\ [w EXCEPT !.joinedAt[j] = 0].accum = w.accum
    BY <1>1 DEF Usage
  <2> HIDE DEF w
  <2>4. /\ usage'[r].joinedAt = [u.joinedAt EXCEPT ![j] = 0]
        /\ usage'[r].accum = [u.accum EXCEPT ![j] = @ + Span(u, j)]
    BY <2>1, <2>2, <2>3
  <2>5. CASE i = j
    BY <1>1, <2>4, <2>5 DEF Accrued, Span
  <2>6. CASE i # j
    BY <1>1, <1>2, <2>4, <2>6 DEF Accrued, Span
  <2> QED
    BY <2>5, <2>6
<1> QED
  BY <1>3, <1>4

LEMMA TickAccrual == ASSUME IInv, Tick PROVE Keeps
<1> SUFFICES ASSUME NEW r \in Room, Tracked(r), NEW i \in Identity
             PROVE  Accrued(r, i)' >= Accrued(r, i)
  BY DEF Keeps
<1> QED
  BY AccruedTyped DEF Tick, Accrued, Span

(* A step that changes neither the clock nor the usage, or forgets rooms.  *)
LEMMA OtherAccrual ==
  ASSUME IInv, clock' = clock,
         \A r \in Room : usage'[r] = usage[r] \/ usage'[r] = Untracked
  PROVE  Keeps
<1> SUFFICES ASSUME NEW r \in Room, Tracked(r), Tracked(r)', NEW i \in Identity
             PROVE  Accrued(r, i)' >= Accrued(r, i)
  BY DEF Keeps
<1>1. usage'[r] = usage[r]
  BY DEF Tracked
<1>2. usage[r].accum[i] \in Nat /\ Span(usage[r], i) \in Nat
  BY AccruedTyped
<1>3. Accrued(r, i)' = Accrued(r, i)
  BY <1>1 DEF Accrued, Span
<1> QED
  BY <1>2, <1>3 DEF Accrued

LEMMA StepAccrual == IInv /\ [Next]_vars => Keeps
<1> SUFFICES ASSUME IInv, [Next]_vars PROVE Keeps
  OBVIOUS
<1>1. CASE Tick
  BY <1>1, TickAccrual
<1>2. ASSUME NEW r \in Room, RoomStarts(r) \/ RoomFinishes(r) PROVE Keeps
  BY <1>2, OtherAccrual DEF RoomStarts, RoomFinishes
<1>3. ASSUME NEW r \in Room, NEW i \in Identity, Joins(r, i) \/ Leaves(r, i)
      PROVE  Keeps
  BY <1>3, OtherAccrual DEF Joins, Leaves
<1>4. ASSUME NEW h \in sent, Apply(h) PROVE Keeps
  <2>1. h \in Hook
    BY DEF IInv, TypeOK
  <2>2. h.event \in {"participant_joined", "participant_left"} => h.identity \in Identity
    BY DEF IInv, Addressed
  <2>3. CASE Started(h)
    BY <2>1, <2>3, StartedAccrual
  <2>4. CASE Joined(h)
    BY <2>1, <2>2, <2>4, JoinedAccrual DEF Joined
  <2>5. CASE Left(h)
    BY <2>1, <2>2, <2>5, LeftAccrual DEF Left
  <2>6. CASE Finished(h)
    BY <2>1, <2>6, OtherAccrual DEF Finished, IInv, TypeOK
  <2> QED
    BY <1>4, <2>3, <2>4, <2>5, <2>6 DEF Apply
<1>5. CASE Restart
  BY <1>5, OtherAccrual DEF Restart
<1>6. CASE UNCHANGED vars
  BY <1>6, OtherAccrual DEF vars
<1> QED
  BY <1>1, <1>2, <1>3, <1>4, <1>5, <1>6 DEF Next

(* A repeated join or leave never costs a tracked room accrued time.       *)
THEOREM AccrualIsKept == Spec => AccrualKept
<1>1. IInv /\ [Next]_vars =>
        [\A r \in Room : Tracked(r) /\ Tracked(r)' =>
           \A i \in Identity : Accrued(r, i)' >= Accrued(r, i)]_vars
  BY StepAccrual DEF Keeps
<1> QED
  BY <1>1, Invariance, PTL DEF Spec, AccrualKept

=============================================================================
