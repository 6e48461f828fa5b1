--------------------------- MODULE MCVoiceResponse ---------------------------
(* Instance of VoiceResponse for TLC: the bounds are in the .cfg files. The  *)
(* channel is shorter than a reply, so it does fill up.                      *)
EXTENDS VoiceResponse
=============================================================================
