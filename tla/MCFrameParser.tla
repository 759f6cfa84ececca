---------------------------- MODULE MCFrameParser ----------------------------
(* Small instances of FrameParser for TLC. *)
EXTENDS FrameParser

AllOps == DataOps \cup {"CLOSE", "PING", "PONG", "other"}
=============================================================================
