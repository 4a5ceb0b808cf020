--------------------------- MODULE UsageReceiver ---------------------------
(***************************************************************************)
(* The metering receiver: apply() folds LiveKit's room and participant     *)
(* webhooks into one roomUsage per room and reports the minutes when the   *)
(* room finishes.  LiveKit redelivers and reorders webhooks; a room name   *)
(* is used for one session after the other; the process may restart.       *)
(*                                                                         *)
(* A tick is a fraction of a second, long for the wait between reading the *)
(* time and having the lock.  The counters that only the admin read shows  *)
(* (peakLive, joinsTotal) and the metrics are left out.                    *)
(***************************************************************************)
EXTENDS Naturals, Sequences, FiniteSets

CONSTANTS
  Room,         \* full room ids
  Identity,     \* participants
  Second,       \* ticks in the second of a Unix time stamp
  HalfMinute,   \* ticks of participant time that round to a minute
  MaxSession,   \* bound: sessions LiveKit holds in one room
  MaxClock      \* bound: the clock stops here

ASSUME IdentityAssumption == IsFiniteSet(Identity)
ASSUME UnitsAssumption == Second \in Nat \ {0} /\ HalfMinute \in Nat \ {0}
ASSUME BoundsAssumption == MaxSession \in Nat /\ MaxClock \in Nat \ {0}

VARIABLES
  clock,      \* now
  session,    \* LiveKit: how many sessions of the room have begun
  present,    \* LiveKit: who is in the room
  open,       \* LiveKit: the session is under way
  sent,       \* webhooks LiveKit has sent at least once
  usage,      \* UsageReceiver.rooms
  reports     \* the calls of reporter.Report, in order

livekit == <<session, present, open, sent>>
vars == <<clock, livekit, usage, reports>>

Time == 0 .. MaxClock
Session == 1 .. MaxSession

Hook == [event : {"room_started", "participant_joined", "participant_left",
                  "room_finished"},
         room : Room, session : Session, identity : Identity \cup {"none"}]

(* A roomUsage: created is history; a participant who is not live has no   *)
(* joinedAt, which is 0 here.                                              *)
Usage == [created : Time, startedAt : Time,
          joinedAt : [Identity -> Time], accum : [Identity -> Nat]]

(* A report.  accum, created and of, the session whose room_finished made  *)
(* the report, are history.                                                *)
Reported == [room : Room, start : Time, finish : Time, minutes : Nat,
             created : Time, accum : [Identity -> Nat], of : Session]

(* newRoomUsage, and the start that its caller sets.                       *)
NewRoomUsage(t) == [created |-> t, startedAt |-> t,
                    joinedAt |-> [i \in Identity |-> 0],
                    accum |-> [i \in Identity |-> 0]]

Untracked == NewRoomUsage(0)

Tracked(r) == usage[r] # Untracked

TypeOK ==
  /\ clock \in 1 .. MaxClock
  /\ session \in [Room -> 0 .. MaxSession]
  /\ present \in [Room -> SUBSET Identity]
  /\ open \in [Room -> BOOLEAN]
  /\ sent \subseteq Hook
  /\ usage \in [Room -> Usage]
  /\ reports \in Seq(Reported)

Init ==
  /\ clock = 1
  /\ session = [r \in Room |-> 0]
  /\ present = [r \in Room |-> {}]
  /\ open = [r \in Room |-> FALSE]
  /\ sent = {}
  /\ usage = [r \in Room |-> Untracked]
  /\ reports = <<>>

-----------------------------------------------------------------------------
(* LiveKit's sessions, and the webhook each of their events sends.         *)
Tick ==
  /\ clock < MaxClock
  /\ clock' = clock + 1
  /\ UNCHANGED <<livekit, usage, reports>>

Send(ev, r, k, i) ==
  sent' = sent \cup {[event |-> ev, room |-> r, session |-> k, identity |-> i]}

RoomStarts(r) ==
  /\ ~open[r]
  /\ session[r] < MaxSession
  /\ session' = [session EXCEPT ![r] = @ + 1]
  /\ open' = [open EXCEPT ![r] = TRUE]
  /\ Send("room_started", r, session'[r], "none")
  /\ UNCHANGED <<clock, present, usage, reports>>

Joins(r, i) ==
  /\ open[r]
  /\ i \notin present[r]
  /\ present' = [present EXCEPT ![r] = @ \cup {i}]
  /\ Send("participant_joined", r, session[r], i)
  /\ UNCHANGED <<clock, session, open, usage, reports>>

Leaves(r, i) ==
  /\ i \in present[r]
  /\ present' = [present EXCEPT ![r] = @ \ {i}]
  /\ Send("participant_left", r, session[r], i)
  /\ UNCHANGED <<clock, session, open, usage, reports>>

RoomFinishes(r) ==
  /\ open[r]
  /\ open' = [open EXCEPT ![r] = FALSE]
  /\ present' = [present EXCEPT ![r] = {}]
  /\ Send("room_finished", r, session[r], "none")
  /\ UNCHANGED <<clock, session, usage, reports>>

-----------------------------------------------------------------------------
(* apply(), case by case, for a webhook that LiveKit has sent.             *)

(* roomFor: the room's usage, made now if there is none.                   *)
RoomFor(r) == IF Tracked(r) THEN usage[r] ELSE NewRoomUsage(clock)

(* Seeded fault: the operands of the difference are swapped.               *)
SpanSwapped(u, i) == IF u.joinedAt[i] = 0 THEN 0 ELSE u.joinedAt[i] - clock

(* minutesBetween(joinedAt, now) of a live participant.                    *)
Span(u, i) == IF u.joinedAt[i] = 0 THEN 0 ELSE clock - u.joinedAt[i]

Started(h) ==
  /\ h.event = "room_started"
  /\ usage' = [usage EXCEPT ![h.room] =
                 [RoomFor(h.room) EXCEPT !.startedAt = clock]]
  /\ UNCHANGED <<clock, livekit, reports>>

(* Seeded fault: a redelivered join starts the span again.                 *)
JoinedAnew(h) ==
  LET u == RoomFor(h.room) IN
  /\ h.event = "participant_joined"
  /\ usage' = [usage EXCEPT ![h.room] = [u EXCEPT !.joinedAt[h.identity] = clock]]
  /\ UNCHANGED <<clock, livekit, reports>>

(* A join of a participant who is live already leaves the span alone.      *)
Joined(h) ==
  LET u == RoomFor(h.room) IN
  /\ h.event = "participant_joined"
  /\ IF u.joinedAt[h.identity] = 0
       THEN usage' = [usage EXCEPT ![h.room] =
                        [u EXCEPT !.joinedAt[h.identity] = clock]]
       ELSE UNCHANGED usage
  /\ UNCHANGED <<clock, livekit, reports>>

(* Seeded fault: the participant stays in the live map.                    *)
LeftStaysLive(h) ==
  LET u == RoomFor(h.room) IN
  /\ h.event = "participant_left"
  /\ usage' = [usage EXCEPT ![h.room] =
                 [u EXCEPT !.accum[h.identity] = @ + Span(u, h.identity)]]
  /\ UNCHANGED <<clock, livekit, reports>>

(* A leave ends the span, if there is one.                                 *)
Left(h) ==
  LET u == RoomFor(h.room) IN
  /\ h.event = "participant_left"
  /\ usage' = [usage EXCEPT ![h.room] =
                 [u EXCEPT !.accum[h.identity] = @ + Span(u, h.identity),
                           !.joinedAt[h.identity] = 0]]
  /\ UNCHANGED <<clock, livekit, reports>>

Unix(t) == t \div Second

(* Seeded fault: the key leaves out when the room finished.                *)
KeyOfStartOnly(p) == <<p.room, Unix(p.start)>>

(* idempotencyKeyFor: the room, and the seconds in which it started and    *)
(* finished.                                                               *)
KeyOf(p) == <<p.room, Unix(p.start), Unix(p.finish)>>

(* The ticks of every participant, each counted: the sum over them.        *)
ParticipantTime(acc) ==
  Cardinality(UNION {{i} \X (1 .. acc[i]) : i \in Identity})

(* roundMinutes: to the nearest minute, halves up.                         *)
RoundMinutes(t) == (t + HalfMinute) \div (2 * HalfMinute)

(* The report of the room as it stands, with who is still live closed out. *)
FinalReport(h) ==
  LET u     == usage[h.room]
      total == [i \in Identity |-> u.accum[i] + Span(u, i)]
  IN [room |-> h.room, start |-> u.startedAt, finish |-> clock,
      minutes |-> RoundMinutes(ParticipantTime(total)),
      created |-> u.created, accum |-> total, of |-> h.session]

(* Seeded fault: the room is not deleted from the map.                     *)
FinishedKept(h) ==
  LET rep == FinalReport(h) IN
  /\ h.event = "room_finished"
  /\ Tracked(h.room)
  /\ reports' = IF rep.minutes > 0 THEN Append(reports, rep) ELSE reports
  /\ usage' = [usage EXCEPT ![h.room].accum = rep.accum,
                            ![h.room].joinedAt = [i \in Identity |-> 0]]
  /\ UNCHANGED <<clock, livekit>>

(* Report, unless the sum rounds to 0, and forget the room.  A room that   *)
(* is not tracked has nothing to report.                                   *)
Finished(h) ==
  LET rep == FinalReport(h) IN
  /\ h.event = "room_finished"
  /\ Tracked(h.room)
  /\ reports' = IF rep.minutes > 0 THEN Append(reports, rep) ELSE reports
  /\ usage' = [usage EXCEPT ![h.room] = Untracked]
  /\ UNCHANGED <<clock, livekit>>

Apply(h) == Started(h) \/ Joined(h) \/ Left(h) \/ Finished(h)

(* The accrual is in memory.                                               *)
Restart ==
  /\ usage' = [r \in Room |-> Untracked]
  /\ UNCHANGED <<clock, livekit, reports>>

Next ==
  \/ Tick
  \/ \E r \in Room : RoomStarts(r) \/ RoomFinishes(r)
  \/ \E r \in Room, i \in Identity : Joins(r, i) \/ Leaves(r, i)
  \/ \E h \in sent : Apply(h)
  \/ Restart

Spec == Init /\ [][Next]_vars

-----------------------------------------------------------------------------
(* usage.go: two distinct rooms, or the same room reused, "produce         *)
(* DISTINCT keys (no accidental dedupe)": no report carries the key of an  *)
(* earlier one, whatever webhooks are repeated and rooms reused.           *)
DistinctKeys ==
  \A m, n \in DOMAIN reports : KeyOf(reports[m]) = KeyOf(reports[n]) => m = n

(* No participant is billed for more than the time for which the receiver  *)
(* tracked the room: spans of one participant never overlap, however       *)
(* joins and leaves are repeated.                                          *)
WithinLifetime ==
  \A n \in DOMAIN reports : \A i \in Identity :
    reports[n].accum[i] <= reports[n].finish - reports[n].created

(* Why room_finished deletes the room: the reports of one room cover       *)
(* lifetimes that do not overlap, so that with WithinLifetime no moment of *)
(* a participant is in two reports, however often room_finished is         *)
(* repeated, whoever is still live then, and across restarts.              *)
NoTimeBilledTwice ==
  \A m, n \in DOMAIN reports :
    m < n /\ reports[m].room = reports[n].room =>
      reports[m].finish <= reports[n].created

Accrued(r, i) == usage[r].accum[i] + Span(usage[r], i)

(* "a redelivered join ... must not reset the join span (which would lose  *)
(* accrued minutes)": what a room has accrued only grows until the room    *)
(* finishes or the process restarts.                                       *)
AccrualKept ==
  [][\A r \in Room : Tracked(r) /\ Tracked(r)' =>
       \A i \in Identity : Accrued(r, i)' >= Accrued(r, i)]_vars

(* i joined a session of room r later than session k.                      *)
JoinedAfter(r, i, k) ==
  \E h \in sent : /\ h.event = "participant_joined"
                  /\ h.room = r /\ h.identity = i /\ h.session > k

(* usage.go: the receiver "tracks each participant's joined->left span to  *)
(* compute participant-minutes per room".  Once a session of a room has    *)
(* been reported and forgotten, the report of a later one bills only who   *)
(* has joined since.                                                       *)
OneLifecycle ==
  \A m, n \in DOMAIN reports :
    m < n /\ reports[m].room = reports[n].room /\ reports[m].of < reports[n].of =>
      \A i \in Identity :
        reports[n].accum[i] > 0 => JoinedAfter(reports[n].room, i, reports[m].of)
=============================================================================
