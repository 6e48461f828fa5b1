---------------------------- MODULE MCVoiceInput ----------------------------
(* Instance of VoiceInput for TLC: two streams of up to four frames, enough *)
(* for two segments with a pause, and three partial runs.                   *)
EXTENDS VoiceInput
=============================================================================
