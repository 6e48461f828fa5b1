---------------------------- MODULE MCVoiceTurns ----------------------------
(* Instance of VoiceTurns for TLC: two turns and one request of the client  *)
(* give three responses and three goroutines that can create them.          *)
EXTENDS VoiceTurns
=============================================================================
