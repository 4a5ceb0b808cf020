---------------------------- MODULE TenantAccess ----------------------------
(***************************************************************************)
(* Everything a tenant can make the box do to LiveKit: joins through the   *)
(* signal gate, admin lists and deletes, egress calls through the proxy.   *)
(* A call that passes its checks is on its way to LiveKit while rooms and  *)
(* egresses come and go; a call about an egress id first asks LiveKit      *)
(* whose it is.                                                            *)
(***************************************************************************)
EXTENDS EgressProxy, FiniteSets

CONSTANTS
  Caller,     \* handlers under way
  Tenant,     \* tenant ids that callers claim, well-formed or not
  RoomId,     \* ids that rooms, tokens and bodies name, well-formed or not
  Token,      \* the tokens callers present
  EgressId,
  NoEgress,
  MaxRooms    \* bound on the rooms at one time

ASSUME TenantAssumption == Tenant \subseteq Id /\ RoomId \subseteq Id
ASSUME TokenAssumption  == Token \subseteq TokenType
ASSUME EgressAssumption == NoEgress \notin EgressId /\ MaxRooms \in Nat

VARIABLES
  rooms,      \* the room ids LiveKit holds
  egress,     \* LiveKit's egresses; ids are not used again
  call        \* the handlers

vars == <<rooms, egress, call>>

NotStarted == [state |-> "none", room |-> <<>>, seam |-> FALSE, to |-> {}]
EgressInfo == [state : {"none", "active", "ended"}, room : Id,
               seam : BOOLEAN, to : SUBSET Destination]

Idle == [phase |-> "idle", op |-> "none", as |-> <<>>, room |-> <<>>,
         id |-> NoEgress, seam |-> FALSE, to |-> {}]
Call == [phase : {"idle", "lookup", "forward"},
         op : {"none", "join", "delete", "start", "list", "stop", "update"},
         as : Id, room : Id, id : EgressId \cup {NoEgress},
         seam : BOOLEAN, to : SUBSET Destination]

TypeOK ==
  /\ rooms \subseteq Id /\ IsFiniteSet(rooms)
  /\ egress \in [EgressId -> EgressInfo]
  /\ call \in [Caller -> Call]
  /\ \A c \in Caller : call[c].phase = "forward" =>
       IF call[c].op \in {"stop", "update"}
       THEN call[c].id \in EgressId /\ egress[call[c].id].state # "none"
       ELSE call[c].op # "none" /\ (call[c].op # "list" => call[c].id = NoEgress)

Init ==
  /\ rooms = {}
  /\ egress = [e \in EgressId |-> NotStarted]
  /\ call = [c \in Caller |-> Idle]

-----------------------------------------------------------------------------
(* LiveKit: rooms made by others who share the store, rooms that empty,    *)
(* egresses that end by themselves.                                        *)
OtherRoom(r) ==
  /\ Cardinality(rooms) < MaxRooms
  /\ rooms' = rooms \cup {r}
  /\ UNCHANGED <<egress, call>>

RoomEnds(r) ==
  /\ r \in rooms
  /\ rooms' = rooms \ {r}
  /\ UNCHANGED <<egress, call>>

EgressEnds(e) ==
  /\ egress[e].state = "active"
  /\ egress' = [egress EXCEPT ![e].state = "ended"]
  /\ UNCHANGED <<rooms, call>>

-----------------------------------------------------------------------------
Begin(c, r) ==
  /\ call[c] = Idle
  /\ call' = [call EXCEPT ![c] = r]
  /\ UNCHANGED <<rooms, egress>>

Room(op, t, r) ==
  [Idle EXCEPT !.phase = "forward", !.op = op, !.as = t, !.room = r]

(* handleRTC, past the limiter and the ceiling.  A token acts for the      *)
(* tenant it was minted for, its audience.                                 *)
Join(c, tok) ==
  /\ Begin(c, Room("join", tok.aud, tok.room))
  /\ Validate(tok)

(* Seeded fault: the path is not qualified with the tenant.                *)
DeleteRoomRaw(c, t, rest) ==
  /\ Begin(c, Room("delete", t, rest))
  /\ ValidTenant(t) /\ rest # <<>>

(* guardedTenant and handleDeleteRoom, for an admin who names t.           *)
DeleteRoom(c, t, rest) ==
  /\ Begin(c, Room("delete", t, QualifyRoom(t, rest)))
  /\ ValidTenant(t)
  /\ Qualifies(t, rest)
  /\ EnforceRoom(t, QualifyRoom(t, rest))

(* EgressProxy.serve and forward, for a request that names a room.         *)
EgressRequest ==
  [tok : Token, m : StartMethod \cup {"StartWebEgress", "ListEgress"},
   shape : Shape, room : RoomId, h : Seam]

Forwards(q) ==
  /\ Validate(q.tok) /\ q.tok.record
  /\ AuthorizeRoom(q.m, q.shape, q.room, q.tok)
  /\ ~SeamRefuses(q.m, q.shape, q.h)

(* The rest of the body passes as it is: the outputs, and in a ListEgress  *)
(* an egress_id, which the authorization does not look at.                 *)
ForwardedAs(q, outs, id) ==
  [Room(IF q.m = "ListEgress" THEN "list" ELSE "start", q.tok.aud, q.room)
     EXCEPT !.id = id,
            !.seam = q.h.broker /\ q.h.endpoint # "none",
            !.to = Destinations(q.m, outs, q.h)]

BodyIds(m) == {NoEgress} \cup (IF m = "ListEgress" THEN EgressId ELSE {})

RoomEgressCalls ==
  UNION {{ForwardedAs(q, outs, id) :
            outs \in SUBSET Carries(q.m, q.shape), id \in BodyIds(q.m)} :
         q \in {r \in EgressRequest : Forwards(r)}}

RoomEgress(c) == \E k \in RoomEgressCalls : Begin(c, k)

(* A request about an egress id asks LiveKit for its room first.           *)
IdEgress(c, tok, m, e) ==
  /\ Begin(c, [Idle EXCEPT !.phase = "lookup",
                           !.op = IF m = "StopEgress" THEN "stop" ELSE "update",
                           !.as = tok.aud, !.id = e])
  /\ Validate(tok) /\ tok.record
  /\ \E shape \in Shape \ {"garbled"}, h \in Seam : ~SeamRefuses(m, shape, h)

(* resolveEgressRoom returns: LiveKit knows the id or not, or the lookup   *)
(* fails, which refuses the call.                                          *)
Resolved(c) ==
  /\ call[c].phase = "lookup"
  /\ call' = [call EXCEPT ![c] =
       IF /\ egress[call[c].id].state # "none"
          /\ AuthorizeId(egress[call[c].id].room, call[c].as)
       THEN [@ EXCEPT !.phase = "forward"] ELSE Idle]
  /\ UNCHANGED <<rooms, egress>>

(* Seeded fault: a lookup that fails does not refuse the call.             *)
LookupFailsOpen(c) ==
  /\ call[c].phase = "lookup"
  /\ call' = [call EXCEPT ![c].phase = "forward"]
  /\ UNCHANGED <<rooms, egress>>

LookupFails(c) ==
  /\ call[c].phase = "lookup"
  /\ call' = [call EXCEPT ![c] = Idle]
  /\ UNCHANGED <<rooms, egress>>

(* LiveKit handles a forwarded call and it returns.  A Start makes a new   *)
(* egress of an existing room.                                             *)
Handled(c) ==
  /\ call[c].phase = "forward"
  /\ call' = [call EXCEPT ![c] = Idle]
  /\ LET k == call[c]
     IN  \/ /\ k.op = "join" /\ Cardinality(rooms) < MaxRooms
            /\ rooms' = rooms \cup {k.room}
            /\ UNCHANGED egress
         \/ k.op = "delete" /\ rooms' = rooms \ {k.room} /\ UNCHANGED egress
         \/ /\ k.op = "start" /\ k.room \in rooms
            /\ \E e \in EgressId :
                 /\ egress[e].state = "none"
                 /\ egress' = [egress EXCEPT ![e] =
                      [state |-> "active", room |-> k.room,
                       seam |-> k.seam, to |-> k.to]]
            /\ UNCHANGED rooms
         \/ /\ k.op = "stop" /\ egress[k.id].state = "active"
            /\ egress' = [egress EXCEPT ![k.id].state = "ended"]
            /\ UNCHANGED rooms

(* Reads and layouts, a call that LiveKit refuses, and one that is lost.   *)
NoEffect(c) ==
  /\ call[c].phase = "forward"
  /\ call' = [call EXCEPT ![c] = Idle]
  /\ UNCHANGED <<rooms, egress>>

LiveKit ==
  \/ \E r \in RoomId : OtherRoom(r) \/ RoomEnds(r)
  \/ \E e \in EgressId : EgressEnds(e)

Next ==
  \/ LiveKit
  \/ \E c \in Caller :
       \/ \E tok \in Token : Join(c, tok)
       \/ \E t \in Tenant, rest \in RoomId : DeleteRoom(c, t, rest)
       \/ RoomEgress(c)
       \/ \E tok \in Token, m \in IdMethod, e \in EgressId : IdEgress(c, tok, m, e)
       \/ Resolved(c) \/ LookupFails(c) \/ Handled(c) \/ NoEffect(c)

Spec == Init /\ [][Next]_vars

-----------------------------------------------------------------------------
(* A ListEgress that also names an egress.  LiveKit answers such a list by *)
(* the id, as resolveEgressRoom relies on, and not by the room checked.    *)
ListsById(c) == call[c].op = "list" /\ call[c].id # NoEgress

(* Tenant: "A caller claiming tenant T may NEVER list, get, or delete a    *)
(* room whose prefix is not T<sep>", and egress_authz.go binds an egress   *)
(* to its room's tenant.  What a call acts on when it reaches LiveKit is a *)
(* room of the caller's tenant and of no other, also when the egress was   *)
(* looked up before and rooms have come and gone since.  The one exception *)
(* is a ListEgress by id, whose id authorizeEgressTenant does not check:   *)
(* nothing is claimed of the egress it reads.                              *)
Isolation ==
  \A c \in Caller : call[c].phase = "forward" /\ ~ListsById(c) =>
    LET r == IF call[c].op \in {"stop", "update"}
             THEN egress[call[c].id].room ELSE call[c].room
    IN  /\ Owns(call[c].as, r)
        /\ \A t \in Tenant : ValidTenant(t) /\ Owns(t, r) => t = call[c].as

(* FilterRooms drops "rows that belong to anyone but the caller" and the   *)
(* malformed ones: a tenant's list holds exactly its own rooms, the ones   *)
(* that EnforceRoom, which parses instead of comparing prefixes, allows,   *)
(* and no room is in two lists.                                            *)
ListsAreDisjoint ==
  \A r \in rooms, t \in Tenant :
    /\ r \in FilterRooms(t, rooms) <=> EnforceRoom(t, r)
    /\ r \in FilterRooms(t, rooms) =>
         Owns(t, r) /\ \A u \in Tenant : r \in FilterRooms(u, rooms) => u = t

(* EgressProxy.serve: "storing user media in an unintended place is worse  *)
(* than refusing the egress".  Under a proven seam every output in a form  *)
(* that this build knows goes to the gateway's bucket, and a JSON body     *)
(* carries no other; a protobuf body can, in fields the build does not     *)
(* know, and that output stays where the body says.  An egress started     *)
(* without a seam has every output there.                                  *)
SeamHonoured ==
  \A e \in EgressId :
    egress[e].to \subseteq IF egress[e].seam THEN {"gateway", "unknownProto"}
                                           ELSE {"named"} \cup UnreadOutput
=============================================================================
