--------------------------- MODULE RoomAdmission ---------------------------
(***************************************************************************)
(* Joins at the signal gate against the box-wide room ceiling: every join  *)
(* lists LiveKit's rooms through the breaker, decides from that list and   *)
(* is then proxied to LiveKit, which creates the room on demand.  Rooms    *)
(* end, and admin calls delete them, at any point in between.              *)
(***************************************************************************)
EXTENDS RoomBreaker, FiniteSets

CONSTANTS
  Joiner,     \* the callers that are joins; the others are admin calls
  Room,       \* full room ids
  NoRoom,     \* no target
  MaxRooms    \* Room.MaxRooms; the config layer turns 0 into a default

ASSUME JoinerAssumption   == Joiner \subseteq Caller /\ IsFiniteSet(Joiner)
ASSUME RoomAssumption     == IsFiniteSet(Room) /\ NoRoom \notin Room
ASSUME MaxRoomsAssumption == MaxRooms \in Nat \ {0}

VARIABLES
  rooms,      \* the rooms LiveKit holds
  target,     \* the room a call is about
  answer,     \* what LiveKit answered to it, as far as the gate cares
  admitted    \* joins past the gate, not yet at LiveKit

admissionVars == <<rooms, target, answer, admitted>>
vars == <<breakerVars, admissionVars>>

TypeOK ==
  /\ BreakerTypeOK
  /\ rooms \subseteq Room
  /\ target \in [Caller -> Room \cup {NoRoom}]
  /\ answer \in [Caller -> {"none", "admit", "full", "done"}]
  /\ admitted \subseteq Joiner

Init ==
  /\ BreakerInit
  /\ rooms = {}
  /\ target = [c \in Caller |-> NoRoom]
  /\ answer = [c \in Caller |-> "none"]
  /\ admitted = {}

-----------------------------------------------------------------------------
(* The child: time, health and its rooms.                                  *)
Child ==
  /\ Tick \/ Stall \/ ComeBack
  /\ UNCHANGED admissionVars

RoomFinishes(r) ==
  /\ r \in rooms
  /\ rooms' = rooms \ {r}
  /\ UNCHANGED <<breakerVars, target, answer, admitted>>

(* Seeded fault: the ceiling is compared with <=.                          *)
VerdictOffByOne(r) ==
  IF r \in rooms \/ Cardinality(rooms) <= MaxRooms THEN "admit" ELSE "full"

(* enforceRoomCap's decision from the list: an active room is joined, a    *)
(* new one only below the ceiling.                                         *)
Verdict(r) ==
  IF r \in rooms \/ Cardinality(rooms) < MaxRooms THEN "admit" ELSE "full"

(* LiveKit handles the call.  What it lists for a join is kept as the      *)
(* verdict the gate will draw from it; an admin call deletes its room.     *)
Handle(c) ==
  /\ c \in InFlight
  /\ upstream # "stalled"
  /\ answer[c] = "none"
  /\ answer' = [answer EXCEPT ![c] =
                  IF c \in Joiner THEN Verdict(target[c]) ELSE "done"]
  /\ rooms' = IF c \in Joiner THEN rooms ELSE rooms \ {target[c]}
  /\ UNCHANGED <<breakerVars, target, admitted>>

-----------------------------------------------------------------------------
(* handleRTC for a valid token, and the admin handlers.  A call that the   *)
(* breaker rejects changes nothing: 503 to a join.                         *)
Begin(c, r) ==
  /\ c \notin admitted
  /\ IF c \in Joiner THEN r # NoRoom ELSE TRUE
  /\ Call(c)
  /\ target' = [target EXCEPT ![c] = r]
  /\ UNCHANGED <<rooms, answer, admitted>>

CallReturns(c) ==
  /\ call[c] = "flight"
  /\ answer[c] # "none"
  /\ Succeeds(c)
  /\ admitted' = IF answer[c] = "admit" THEN admitted \cup {c} ELSE admitted
  /\ answer' = [answer EXCEPT ![c] = "none"]
  /\ target' = IF answer[c] = "admit" THEN target
                                      ELSE [target EXCEPT ![c] = NoRoom]
  /\ UNCHANGED rooms

(* The list failed: the gate fails closed.  A delete that failed may have  *)
(* been carried out.                                                       *)
CallFails(c) ==
  /\ Fails(c) \/ Errs(c)
  /\ answer' = [answer EXCEPT ![c] = "none"]
  /\ target' = [target EXCEPT ![c] = NoRoom]
  /\ UNCHANGED <<rooms, admitted>>

(* proxy.ServeHTTP: LiveKit creates the room if it is not there, or the    *)
(* upgrade does not get through.                                           *)
Proxied(c) ==
  /\ c \in admitted
  /\ admitted' = admitted \ {c}
  /\ rooms' \in {rooms, rooms \cup {target[c]}}
  /\ target' = [target EXCEPT ![c] = NoRoom]
  /\ UNCHANGED <<breakerVars, answer>>

Next ==
  \/ Child
  \/ \E r \in Room : RoomFinishes(r)
  \/ \E c \in Caller :
       \/ \E r \in Room \cup {NoRoom} : Begin(c, r)
       \/ Handle(c) \/ CallReturns(c) \/ CallFails(c) \/ Proxied(c)

Spec == Init /\ [][Next]_vars

(* Calls return by their timeout, time passes and callers keep coming; a   *)
(* child that is not stalled handles calls, and some callers wait for the  *)
(* answer.                                                                 *)
Fairness ==
  /\ WF_vars(Child /\ Tick)
  /\ WF_vars(\E c \in Caller, r \in Room \cup {NoRoom} : Begin(c, r))
  /\ \A c \in Caller : WF_vars(CallReturns(c) \/ CallFails(c))
  /\ \A c \in Joiner : WF_vars(Proxied(c))
  /\ SF_vars(\E c \in Caller : Handle(c))
  /\ SF_vars(\E c \in Caller : CallReturns(c))

FairSpec == Spec /\ Fairness

-----------------------------------------------------------------------------
(* README: "a per-box concurrent-room ceiling".  The list a join decides   *)
(* from is stale when LiveKit creates the room; the ceiling is overshot by *)
(* at most the other joins under way, and not at all by one at a time.     *)
CeilingOvershoot ==
  Cardinality(rooms) <= MaxRooms + Cardinality(Joiner) - 1
=============================================================================
