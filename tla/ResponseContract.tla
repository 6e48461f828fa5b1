-------------------------- MODULE ResponseContract --------------------------
(***************************************************************************)
(* What one response of a realtime voice session promises the client, with *)
(* no goroutine, channel or provider in sight: it speaks zero or more      *)
(* audio streams one after the other, ends with at most one verdict of its *)
(* own, and after the verdict it starts no further synthesis.  A synthesis *)
(* already under way when the verdict is given may still send its audio,   *)
(* except that a completed response has nothing left to say.               *)
(*                                                                         *)
(* A client that asks for a cancellation gets one more response.done for   *)
(* every time it asks, saying "cancelled", whatever the response itself    *)
(* says before or after: the two verdicts may differ.  A client that never *)
(* asks gets one verdict at most.                                          *)
(*                                                                         *)
(* VoiceResponse, the same response in full detail, implements it.         *)
(***************************************************************************)
EXTENDS Sequences

VARIABLES
  verdict,   \* "running", or how the response ended
  audio,     \* "quiet", "synth" (asked for audio, none sent), "open"
  told,      \* statuses of the response.done events the client has got
  asked      \* a response.cancel has not been answered yet

contractVars == <<verdict, audio, told, asked>>

(* "silent" is an end without any response.done event.                     *)
Endings == {"completed", "cancelled", "failed", "silent"}

ContractTypeOK ==
  /\ verdict \in Endings \cup {"running"}
  /\ audio \in {"quiet", "synth", "open"}
  /\ told \in Seq(Endings \ {"silent"})
  /\ asked \in BOOLEAN

ContractInit ==
  /\ verdict = "running"
  /\ audio = "quiet"
  /\ told = <<>>
  /\ asked = FALSE

(* A new segment goes to the speech provider.                              *)
BeginSpeech ==
  /\ verdict = "running"
  /\ audio = "quiet"
  /\ audio' = "synth"
  /\ UNCHANGED <<verdict, told, asked>>

(* Its first audio opens a downlink stream (tts.start).                    *)
OpenStream ==
  /\ audio = "synth"
  /\ audio' = "open"
  /\ UNCHANGED <<verdict, told, asked>>

(* The segment is over: tts.stop, or an error before or after tts.start.   *)
EndSpeech ==
  /\ audio \in {"synth", "open"}
  /\ audio' = "quiet"
  /\ UNCHANGED <<verdict, told, asked>>

Finish ==
  /\ verdict = "running"
  /\ verdict' \in Endings
  /\ verdict' = "completed" => audio = "quiet"
  /\ told' = IF verdict' = "silent" THEN told ELSE Append(told, verdict')
  /\ UNCHANGED <<audio, asked>>

AskToCancel ==
  /\ ~asked
  /\ asked' = TRUE
  /\ UNCHANGED <<verdict, audio, told>>

(* The answer is lost if the client is.                                    *)
AnswerAsk ==
  /\ asked
  /\ asked' = FALSE
  /\ told' \in {told, Append(told, "cancelled")}
  /\ UNCHANGED <<verdict, audio>>

ContractNext ==
  \/ BeginSpeech \/ OpenStream \/ EndSpeech \/ Finish
  \/ AskToCancel \/ AnswerAsk

ContractSpec == ContractInit /\ [][ContractNext]_contractVars
=============================================================================
