---------------------------- MODULE EgressProxy ----------------------------
(***************************************************************************)
(* What the egress proxy decides about one Twirp request before it is      *)
(* forwarded: whether the body is bound to the token's tenant, and where   *)
(* the recording's outputs go when the OS gateway injected a storage seam. *)
(***************************************************************************)
EXTENDS TenantGate

StartMethod == {"StartRoomCompositeEgress", "StartParticipantEgress",
                "StartTrackCompositeEgress", "StartTrackEgress"}
IdMethod    == {"StopEgress", "UpdateLayout", "UpdateStream"}
Method      == StartMethod \cup IdMethod \cup {"StartWebEgress", "ListEgress"}

(* The storage outputs a Start request of each kind can carry: the single  *)
(* file or segments of the older form, the lists that replace them, or the *)
(* file of a track.  Streams store nothing.                                *)
Output == {"file", "segments", "files", "segmentOutputs", "images"}

Outputs(m) ==
  CASE m \in {"StartRoomCompositeEgress", "StartTrackCompositeEgress"} -> Output
    [] m = "StartParticipantEgress" -> {"files", "segmentOutputs", "images"}
    [] m = "StartTrackEgress" -> {"file"}
    [] OTHER -> {}

(* A body decodes, has fields that this build does not know, in one of the *)
(* two encodings, or does not decode.                                      *)
Shape == {"plain", "unknownJSON", "unknownProto", "garbled"}

(* What a body may carry: the outputs above and, among fields that the     *)
(* build does not know, an output in a form that came later.               *)
UnreadOutput == {"unknownJSON", "unknownProto"}

Carries(m, shape) ==
  Outputs(m) \cup (IF m \in StartMethod THEN {shape} \cap UnreadOutput ELSE {})

(* The storage headers: the endpoint is missing, one that credentials may  *)
(* be sent to, or another; and the broker secret is configured and matches.*)
Seam == [endpoint : {"none", "allowed", "other"}, broker : BOOLEAN]

-----------------------------------------------------------------------------
RoomTenant(r) == IF Splits(r) THEN TenantOf(r) ELSE <<>>

(* Seeded fault: a Start is not bound to the token's own room.             *)
AuthorizeRoomAny(m, shape, room, tok) ==
  /\ m \in StartMethod \cup {"ListEgress"}
  /\ shape # "garbled" /\ room # <<>>

(* authorizeEgressTenant for the methods that name a room.  StartWebEgress *)
(* and unknown methods are refused.                                        *)
AuthorizeRoom(m, shape, room, tok) ==
  /\ m \in StartMethod \cup {"ListEgress"}
  /\ shape # "garbled" /\ room # <<>>
  /\ IF m = "ListEgress" THEN RoomTenant(room) = TenantOf(tok.room)
                         ELSE room = tok.room

(* Seeded fault: any egress that was found is taken for the caller's.      *)
AuthorizeIdFound(room, t) == room # <<>>

(* authorizeEgressTenant for the methods that name an egress, from the     *)
(* room that resolveEgressRoom found.                                      *)
AuthorizeId(room, t) == room # <<>> /\ RoomTenant(room) = t

(* Seeded fault: the headers alone open the seam.                          *)
SeamOnUnproved(h) == h.endpoint # "none"

(* StorageSeamFromHeader and storageBrokerAuthorized.                      *)
SeamOn(h) == h.endpoint # "none" /\ h.broker

(* serve's and forward's 400: credentials would go to an endpoint that may *)
(* not have them, or the rewrite does not decode the body.  Its protojson  *)
(* is stricter than the authorization's and refuses unknown fields; its    *)
(* proto.Unmarshal keeps them, and the re-encoding passes them on.         *)
SeamRefuses(m, shape, h) ==
  /\ SeamOn(h)
  /\ \/ h.endpoint # "allowed"
     \/ m \in StartMethod /\ shape \in {"unknownJSON", "garbled"}

(* Seeded fault: the older single outputs are forgotten.                   *)
RedirectedLists(m) == Outputs(m) \ {"file", "segments"}

(* applySeamToEgress: the outputs it repoints.                             *)
Redirected(m) ==
  CASE m \in {"StartRoomCompositeEgress", "StartTrackCompositeEgress"} ->
         {"file", "segments", "files", "segmentOutputs", "images"}
    [] m = "StartParticipantEgress" -> {"files", "segmentOutputs", "images"}
    [] m = "StartTrackEgress" -> {"file"}
    [] OTHER -> {}

(* Where the outputs of a forwarded Start go: to the gateway's bucket and  *)
(* key-space, or where the caller's body names.  An output that was not    *)
(* read also goes where the body says, and is told apart by its encoding.  *)
Destination == {"gateway", "named"} \cup UnreadOutput

Destinations(m, outs, h) ==
  {IF o \in UnreadOutput THEN o
   ELSE IF SeamOn(h) /\ o \in Redirected(m) THEN "gateway" ELSE "named" : o \in outs}
=============================================================================
