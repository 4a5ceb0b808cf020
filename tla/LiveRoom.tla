------------------------------ MODULE LiveRoom ------------------------------
(***************************************************************************)
(* The web client's LiveRoom: connect(), toggleMic() and leave() as the    *)
(* steps between their awaits, which interleave on the browser's one       *)
(* thread, and the muted-but-talking monitor with the microphone stream it *)
(* opens for itself.                                                       *)
(***************************************************************************)
EXTENDS Naturals

CONSTANTS
  Stream,     \* getUserMedia calls, and the streams they return
  NoStream

VARIABLES
  status,     \* this.status
  joining,    \* the await at which connect() is
  toggling,   \* toggleMic() awaits setMicrophoneEnabled
  leaving,    \* leave(): not called, awaits disconnect(), has returned
  online,     \* the SDK's room is connected
  mic,        \* localParticipant.isMicrophoneEnabled
  asked,      \* getUserMedia calls under way
  open,       \* monitor streams whose tracks are live
  monitor     \* the stream of _micMonitor

vars == <<status, joining, toggling, leaving, online, mic, asked, open, monitor>>

Init ==
  /\ status = "idle"
  /\ joining = "no" /\ toggling = FALSE /\ leaving = "no"
  /\ online = FALSE /\ mic = FALSE
  /\ asked = {} /\ open = {} /\ monitor = NoStream

-----------------------------------------------------------------------------
(* _startMutedMonitor up to its await: a monitor that is there is kept.    *)
StartMonitor ==
  /\ IF monitor # NoStream THEN UNCHANGED asked
     ELSE \E s \in Stream \ (asked \cup open) : asked' = asked \cup {s}
  /\ UNCHANGED <<open, monitor>>

(* _stopMutedMonitor.                                                      *)
StopMonitor ==
  /\ open' = open \ {monitor}
  /\ monitor' = NoStream
  /\ UNCHANGED asked

(* _syncMutedMonitor.  The participant object outlives the connection.     *)
SyncMonitor == IF mic' THEN StopMonitor ELSE StartMonitor

(* getUserMedia returns: the rest of _startMutedMonitor.                   *)
MediaReturns(s) ==
  /\ s \in asked
  /\ asked' = asked \ {s}
  /\ \/ open' = open \cup {s} /\ monitor' = s
     \/ UNCHANGED <<open, monitor>>
  /\ UNCHANGED <<status, joining, toggling, leaving, online, mic>>

-----------------------------------------------------------------------------
Connect ==
  /\ joining = "no" /\ leaving = "no"
  /\ status' = "connecting" /\ joining' = "connect"
  /\ UNCHANGED <<toggling, leaving, online, mic, asked, open, monitor>>

(* room.connect and setName return, or one of them rejects, as connect     *)
(* does when disconnect() came first.                                      *)
Connected ==
  /\ joining = "connect"
  /\ \/ /\ leaving = "no"
        /\ online' = TRUE /\ status' = "connected" /\ joining' = "chat"
     \/ /\ online' \in {online, leaving = "no"}
        /\ status' = "error" /\ joining' = "done"
  /\ UNCHANGED <<toggling, leaving, mic, asked, open, monitor>>

(* _setupChat and setCameraEnabled return, the camera on or refused.       *)
MediaNext ==
  /\ joining = "chat"
  /\ joining' = "mic"
  /\ status' \in {status, "permission-denied"}
  /\ UNCHANGED <<toggling, leaving, online, mic, asked, open, monitor>>

(* setMicrophoneEnabled returns, on or refused, and connect() ends.        *)
JoinEnds ==
  /\ joining = "mic"
  /\ joining' = "done"
  /\ mic' \in {mic, online}
  /\ status' \in {status} \cup (IF mic' THEN {} ELSE {"permission-denied"})
  /\ SyncMonitor
  /\ UNCHANGED <<toggling, leaving, online>>

(* toggleMic(), one at a time, from the screen shown in these states.      *)
ToggleMic ==
  /\ status \in {"connected", "reconnecting"} /\ leaving = "no"
  /\ ~toggling
  /\ toggling' = TRUE
  /\ UNCHANGED <<status, joining, leaving, online, mic, asked, open, monitor>>

ToggleEnds ==
  /\ toggling
  /\ toggling' = FALSE
  /\ mic' \in {mic, online /\ ~mic}
  /\ status' \in {status} \cup (IF mic' THEN {} ELSE {"permission-denied"})
  /\ SyncMonitor
  /\ UNCHANGED <<joining, leaving, online>>

(* RoomEvent.Reconnecting, Reconnected and _onConnState.                   *)
Reconnects ==
  /\ online
  /\ status' \in {"reconnecting", "connected"}
  /\ UNCHANGED <<joining, toggling, leaving, online, mic, asked, open, monitor>>

(* The server ends the room or the connection is lost: _onDisconnected.    *)
Disconnected ==
  /\ online /\ leaving = "no"
  /\ online' = FALSE /\ mic' = FALSE
  /\ status' \in {"ended", "left"}
  /\ UNCHANGED <<joining, toggling, leaving, asked, open, monitor>>

Leave ==
  /\ leaving = "no" /\ joining # "no"
  /\ StopMonitor
  /\ leaving' = "disconnect"
  /\ UNCHANGED <<status, joining, toggling, online, mic>>

LeaveEnds ==
  /\ leaving = "disconnect"
  /\ leaving' = "done"
  /\ online' = FALSE /\ mic' = FALSE
  /\ status' = "left"
  /\ UNCHANGED <<joining, toggling, asked, open, monitor>>

Next ==
  \/ Connect \/ Connected \/ MediaNext \/ JoinEnds
  \/ ToggleMic \/ ToggleEnds \/ Reconnects \/ Disconnected \/ Leave \/ LeaveEnds
  \/ \E s \in Stream : MediaReturns(s)

Spec == Init /\ [][Next]_vars

-----------------------------------------------------------------------------
(* liveRoom.js on the monitor: "Torn down whenever the mic is live         *)
(* (LiveKit owns the level then) or on leave".  Once leave() has returned  *)
(* no stream of the monitor holds the microphone.                          *)
TornDownOnLeave == leaving = "done" => open = {}
=============================================================================
