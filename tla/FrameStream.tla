---------------------------- MODULE FrameStream ----------------------------
(***************************************************************************)
(* What a WebSocket object of SimpleWebSocketServer.py promises of the     *)
(* frames a peer sends it: each frame is handled once, at its end, as what *)
(* it was sent as; a frame of MaxPayload bytes or more, a close frame and  *)
(* a handler that raises end the connection.                               *)
(***************************************************************************)
EXTENDS Naturals

CONSTANTS Frames,      \* records with at least the fields op and len
          MaxPayload,  \* WebSocket.maxpayload
          None         \* no frame, no message

VARIABLES frame,  \* the frame being transmitted
          alive,  \* the connection is kept
          got     \* the message the latest frame was handed on as

DataOps == {"STREAM", "TEXT", "BINARY"}

Init == frame = None /\ alive = TRUE /\ got = None

Send(f) ==
  /\ alive /\ frame = None
  /\ frame' = f
  /\ got' = None
  /\ UNCHANGED alive

Finish ==
  /\ frame # None /\ alive /\ frame.len < MaxPayload
  /\ frame' = None
  /\ got' = IF frame.op \in DataOps
            THEN [op |-> frame.op, size |-> frame.len, intact |-> TRUE] ELSE None
  /\ CASE frame.op = "CLOSE"    -> alive' = FALSE
       [] frame.op \in DataOps  -> alive' \in BOOLEAN
       [] OTHER                 -> UNCHANGED alive

Refuse ==
  /\ frame # None /\ alive /\ frame.len >= MaxPayload
  /\ alive' = FALSE
  /\ frame' \in {frame, None}  \* before or at its last byte
  /\ UNCHANGED got

Next == Finish \/ Refuse \/ \E f \in Frames : Send(f)

Spec == Init /\ [][Next]_<<frame, alive, got>>
=============================================================================
