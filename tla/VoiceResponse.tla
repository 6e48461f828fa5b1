---------------------------- MODULE VoiceResponse ----------------------------
(***************************************************************************)
(* One response of a realtime voice session: the goroutine runResponse,    *)
(* which reads the language model's stream and cuts it into segments, and  *)
(* the goroutine runRealtimeTTS, which speaks the segments, joined by a    *)
(* bounded channel of segments and a one-place channel of results          *)
(* (src/internal/voicews/session.go, runResponse and runRealtimeTTS).      *)
(*                                                                         *)
(* Text is abstracted to the segments it is cut into: segment n is the     *)
(* n-th non-blank segment the segmenter emits.  An atomic step is a stretch *)
(* of code between two points where the other goroutine, the client or a   *)
(* provider can be observed.                                               *)
(***************************************************************************)
EXTENDS Naturals, Sequences

CONSTANTS
  QueueCap,      \* capacity of the segment channel (8 in the code)
  MaxSegments,   \* bound: segments of one reply
  MaxChunks,     \* bound: audio chunks the provider sends for one segment
  MaxCancels     \* bound: response.cancel events the client sends

ASSUME ConstantsAssumption ==
  /\ QueueCap \in Nat \ {0}
  /\ MaxSegments \in Nat \ {0}
  /\ MaxChunks \in Nat \ {0}
  /\ MaxCancels \in Nat

VARIABLES
  pc,        \* where runResponse is
  exit,      \* by which of its returns it left
  said,      \* llmReply holds text
  buffered,  \* the segmenter holds text not yet emitted
  emitted,   \* segments emitted by the segmenter so far
  pending,   \* of these, the ones still to be put on the channel
  queue,     \* the channel ttsSegments
  closed,    \* it is closed
  resultCh,  \* the channel ttsResultCh: "none" or the result in it
  tpc,       \* where runRealtimeTTS is
  chunks,    \* audio chunks sent for the segment being spoken
  voiced,    \* result.chunkCount > 0
  spoken,    \* segments spoken to the end
  ctxDone,   \* the response's context is cancelled
  ttsStop,   \* cancelTTS was called
  wireUp,    \* the client can be written to
  llmDone,   \* llm.done was written
  status,    \* how runResponse has decided to report its end, or "none"
  done,      \* status of the response.done event it has written, or "none"
  told,      \* the statuses of all response.done events the client has got
  loop,      \* where the read loop of the connection is
  cancels    \* response.cancel events it has read

verdictVars == <<status, done, told>>
runVars     == <<pc, exit, said, buffered, emitted, pending, llmDone, verdictVars>>
ttsVars     == <<tpc, chunks, voiced, spoken>>
envVars     == <<ctxDone, wireUp, loop, cancels>>
vars        == <<runVars, queue, closed, resultCh, ttsVars, ttsStop, envVars>>

Results  == {"audio", "silent", "error"}
Statuses == {"completed", "cancelled", "failed"}
Exits    == {"llm_failed", "flush_failed", "llm_done_failed", "joined"}

RunTypeOK ==
  /\ pc \in {"preparing", "streaming", "callback", "flushing", "unwinding",
             "flush_failed", "llm_done", "joining", "telling", "returned"}
  /\ exit \in Exits \cup {"none"}
  /\ said \in BOOLEAN
  /\ buffered \in BOOLEAN
  /\ emitted \in 0 .. MaxSegments
  /\ pending \in 0 .. MaxSegments
  /\ llmDone \in BOOLEAN
  /\ status \in Statuses \cup {"none"}
  /\ done \in Statuses \cup {"none"}
  /\ told \in Seq(Statuses)

ChannelTypeOK ==
  /\ queue \in Seq(1 .. MaxSegments)
  /\ Len(queue) <= QueueCap
  /\ closed \in BOOLEAN
  /\ resultCh \in Results \cup {"none"}

SpeechTypeOK ==
  /\ tpc \in {"unborn", "receiving", "synthesizing", "returned"}
  /\ chunks \in 0 .. MaxChunks
  /\ voiced \in BOOLEAN
  /\ spoken \in 0 .. MaxSegments

ContextTypeOK ==
  /\ ctxDone \in BOOLEAN
  /\ ttsStop \in BOOLEAN
  /\ wireUp \in BOOLEAN
  /\ loop \in {"reading", "answering"}
  /\ cancels \in 0 .. MaxCancels

TypeOK == RunTypeOK /\ ChannelTypeOK /\ SpeechTypeOK /\ ContextTypeOK

Init ==
  /\ pc = "preparing" /\ exit = "none"
  /\ said = FALSE /\ buffered = FALSE
  /\ emitted = 0 /\ pending = 0
  /\ queue = <<>> /\ closed = FALSE /\ resultCh = "none"
  /\ tpc = "unborn" /\ chunks = 0 /\ voiced = FALSE /\ spoken = 0
  /\ ctxDone = FALSE /\ ttsStop = FALSE /\ wireUp = TRUE
  /\ llmDone = FALSE /\ status = "none" /\ done = "none"
  /\ told = <<>> /\ loop = "reading" /\ cancels = 0
-----------------------------------------------------------------------------
(***************************************************************************)
(* The goroutine runResponse.  A definition named X_Slip is X with a       *)
(* mistake that would be easy to make in the code; nothing refers to it.   *)
(***************************************************************************)

(* ttsCtx is a child of the response's context and has a cancel of its     *)
(* own, which every return of runResponse calls.                           *)
TTSCancelled_OwnSlip    == ttsStop
TTSCancelled_ParentSlip == ctxDone
TTSCancelled == ttsStop \/ ctxDone

(* The client gets a response.done, if it can still be written to.         *)
WriteDone(verdict) == told' = IF wireUp THEN Append(told, verdict) ELSE told

(* runResponse has looked at its context for the last time and settled     *)
(* what it will report; the trace and the memory are updated before the    *)
(* event is written.                                                       *)
Decide(by, verdict) ==
  /\ pc' = "telling"
  /\ exit' = by
  /\ status' = verdict
  /\ UNCHANGED <<done, told>>

(* Prompts are assembled, an MCP call may be proposed, and the speech      *)
(* goroutine is started.                                                   *)
Prepare ==
  /\ pc = "preparing"
  /\ pc' = "streaming"
  /\ tpc' = "receiving"
  /\ UNCHANGED <<exit, said, buffered, emitted, pending, llmDone, verdictVars, queue,
                 closed, resultCh, chunks, voiced, spoken, ttsStop, envVars>>

(* One delta of the reply reaches the callback.  Providers drop blank      *)
(* deltas, so its text either completes segments or stays in the           *)
(* segmenter.  A failed write of llm.delta ends the stream.                *)
Delta ==
  /\ pc = "streaming"
  /\ said' = TRUE
  /\ \/ /\ wireUp
        /\ \E k \in 0 .. MaxSegments - emitted, rest \in BOOLEAN :
             /\ k = 0 => rest
             /\ rest => emitted + k < MaxSegments
             /\ emitted' = emitted + k
             /\ pending' = k
             /\ buffered' = rest
             /\ pc' = IF k = 0 THEN "streaming" ELSE "callback"
     \/ /\ ~wireUp
        /\ pc' = "unwinding"
        /\ UNCHANGED <<emitted, pending, buffered>>
  /\ UNCHANGED <<exit, llmDone, verdictVars, queue, closed, resultCh, ttsVars,
                 ttsStop, envVars>>

(* The segments of a delta, or of the final flush, go out in order.        *)
NextSegment_Slip == emitted
NextSegment == emitted - pending + 1

(* enqueueTTSSegment, first branch of the select: the channel has room.    *)
HasRoom_Slip == Len(queue) <= QueueCap
HasRoom == Len(queue) < QueueCap

EnqueueAccepted ==
  /\ pc \in {"callback", "flushing"}
  /\ HasRoom
  /\ queue' = Append(queue, NextSegment)
  /\ pending' = pending - 1
  /\ pc' = IF pending > 1 THEN pc
           ELSE IF pc = "callback" THEN "streaming" ELSE "llm_done"
  /\ UNCHANGED <<exit, said, buffered, emitted, llmDone, verdictVars, closed,
                 resultCh, ttsVars, ttsStop, envVars>>

(* The other branches of the select: speech has stopped early and its      *)
(* result is taken off the channel, or the response is cancelled.          *)
SpeechStopped_Slip == FALSE
SpeechStopped == resultCh # "none"

EnqueueRefused ==
  /\ pc \in {"callback", "flushing"}
  /\ \/ SpeechStopped /\ resultCh' = "none"
     \/ ctxDone /\ UNCHANGED resultCh
  /\ pc' = IF pc = "callback" THEN "unwinding" ELSE "flush_failed"
  /\ UNCHANGED <<exit, said, buffered, emitted, pending, llmDone, verdictVars, queue,
                 closed, ttsVars, ttsStop, envVars>>

(* ChatStream returns without error, possibly after a cancellation it did  *)
(* not notice; what the segmenter still holds is flushed.                  *)
StreamEnds ==
  /\ pc = "streaming"
  /\ pc' = IF buffered THEN "flushing" ELSE "llm_done"
  /\ emitted' = IF buffered THEN emitted + 1 ELSE emitted
  /\ pending' = IF buffered THEN 1 ELSE 0
  /\ buffered' = FALSE
  /\ UNCHANGED <<exit, said, llmDone, verdictVars, queue, closed, resultCh, ttsVars,
                 ttsStop, envVars>>

(* ChatStream returns an error of its own, or the context's.               *)
StreamFails ==
  /\ pc = "streaming"
  /\ pc' = "unwinding"
  /\ UNCHANGED <<exit, said, buffered, emitted, pending, llmDone, verdictVars, queue,
                 closed, resultCh, ttsVars, ttsStop, envVars>>

(* The status of a response that did not complete.                         *)
BrokenStatus == IF ctxDone THEN "cancelled" ELSE "failed"

(* After an error of ChatStream the speech goroutine is told to stop and   *)
(* its channel is closed, but it is not waited for.                        *)
Unwind_Slip ==
  /\ pc = "unwinding"
  /\ ttsStop' = TRUE
  /\ Decide("llm_failed", BrokenStatus)
  /\ UNCHANGED <<said, buffered, emitted, pending, llmDone, queue, closed,
                 resultCh, ttsVars, envVars>>
Unwind ==
  /\ pc = "unwinding"
  /\ ttsStop' = TRUE
  /\ closed' = TRUE
  /\ Decide("llm_failed", BrokenStatus)
  /\ UNCHANGED <<said, buffered, emitted, pending, llmDone, queue, resultCh,
                 ttsVars, envVars>>

(* A refused segment of the flush: reported as a failure even when the     *)
(* cause is a cancellation, and the channel stays open.                    *)
FlushFails_Slip ==
  /\ pc = "flush_failed"
  /\ ttsStop' = TRUE
  /\ pc' = "returned" /\ exit' = "flush_failed"
  /\ UNCHANGED <<said, buffered, emitted, pending, llmDone, verdictVars, queue,
                 closed, resultCh, ttsVars, envVars>>
FlushFails ==
  /\ pc = "flush_failed"
  /\ ttsStop' = TRUE
  /\ Decide("flush_failed", "failed")
  /\ UNCHANGED <<said, buffered, emitted, pending, llmDone, queue, closed,
                 resultCh, ttsVars, envVars>>

(* llm.done is written and the channel closed.                             *)
WriteLLMDone ==
  /\ pc = "llm_done"
  /\ said /\ wireUp
  /\ llmDone' = TRUE
  /\ closed' = TRUE
  /\ pc' = "joining"
  /\ UNCHANGED <<exit, said, buffered, emitted, pending, verdictVars, queue,
                 resultCh, ttsVars, ttsStop, envVars>>

(* llm.done cannot be written: the connection is gone, or the reply is     *)
(* empty and the event does not validate (protocol/types.go).  Either way  *)
(* runResponse returns with no response.done and the channel still open.   *)
LLMDoneFails ==
  /\ pc = "llm_done"
  /\ ~(said /\ wireUp)
  /\ pc' = "returned"
  /\ exit' = "llm_done_failed"
  /\ ttsStop' = TRUE
  /\ UNCHANGED <<said, buffered, emitted, pending, llmDone, verdictVars, queue,
                 closed, resultCh, ttsVars, envVars>>

(* waitForTTS has a result, and the context is looked at once more.        *)
JoinStatus_Slip == IF resultCh = "audio" THEN "completed" ELSE "failed"
JoinStatus ==
  IF ctxDone THEN "cancelled"
  ELSE IF resultCh = "audio" THEN "completed" ELSE "failed"

Join ==
  /\ pc = "joining"
  /\ resultCh # "none"
  /\ resultCh' = "none"
  /\ Decide("joined", JoinStatus)
  /\ UNCHANGED <<said, buffered, emitted, pending, llmDone, queue, closed,
                 ttsVars, ttsStop, envVars>>

(* What was decided is written, whatever has happened since, and           *)
(* runResponse returns; cancelTTS is deferred.                             *)
Tell ==
  /\ pc = "telling"
  /\ pc' = "returned"
  /\ WriteDone(status)
  /\ done' = IF wireUp THEN status ELSE "none"
  /\ ttsStop' = TRUE
  /\ UNCHANGED <<exit, said, buffered, emitted, pending, llmDone, status, queue,
                 closed, resultCh, ttsVars, envVars>>
-----------------------------------------------------------------------------
(***************************************************************************)
(* The goroutine runRealtimeTTS.                                           *)
(***************************************************************************)

(* It returns, and its result goes to a channel that has room for it.      *)
SpeechReturns(result) ==
  /\ tpc' = "returned"
  /\ resultCh' = result

(* A segment is received and, unless the speech is cancelled, given to the *)
(* provider.                                                               *)
Receive ==
  /\ tpc = "receiving"
  /\ queue # <<>>
  /\ queue' = Tail(queue)
  /\ chunks' = 0
  /\ \/ TTSCancelled /\ SpeechReturns("error")
     \/ ~TTSCancelled /\ tpc' = "synthesizing" /\ UNCHANGED resultCh
  /\ UNCHANGED <<runVars, closed, voiced, spoken, ttsStop, envVars>>

(* The range over the channel ends when it is closed and drained.          *)
RangeIsOver == queue = <<>> /\ closed

RangeEnds ==
  /\ tpc = "receiving"
  /\ RangeIsOver
  /\ SpeechReturns(IF voiced THEN "audio" ELSE "silent")
  /\ UNCHANGED <<runVars, queue, closed, chunks, voiced, spoken, ttsStop,
                 envVars>>

(* The provider delivers a chunk: the first one is preceded by tts.start.  *)
Chunk ==
  /\ tpc = "synthesizing"
  /\ wireUp
  /\ chunks < MaxChunks
  /\ chunks' = chunks + 1
  /\ voiced' = TRUE
  /\ UNCHANGED <<runVars, queue, closed, resultCh, tpc, spoken, ttsStop,
                 envVars>>

(* The provider has delivered the whole segment: tts.stop, and the next    *)
(* segment.  A segment without audio is an error.                          *)
SegmentEnds ==
  /\ tpc = "synthesizing"
  /\ \/ chunks > 0 /\ tpc' = "receiving" /\ spoken' = spoken + 1
                    /\ UNCHANGED resultCh
     \/ chunks = 0 /\ SpeechReturns("error") /\ UNCHANGED spoken
  /\ UNCHANGED <<runVars, queue, closed, chunks, voiced, ttsStop, envVars>>

(* The provider, the context or the connection fails the segment; an open  *)
(* stream still gets its tts.stop.                                         *)
SegmentFails ==
  /\ tpc = "synthesizing"
  /\ SpeechReturns("error")
  /\ UNCHANGED <<runVars, queue, closed, chunks, voiced, spoken, ttsStop,
                 envVars>>
-----------------------------------------------------------------------------
(***************************************************************************)
(* The rest of the session, and the specification.                         *)
(***************************************************************************)

(* A new response or recording, or the end of the connection, cancels the  *)
(* context.                                                                *)
Cancel ==
  /\ ~ctxDone
  /\ ctxDone' = TRUE
  /\ UNCHANGED <<runVars, queue, closed, resultCh, ttsVars, ttsStop, wireUp,
                 loop, cancels>>

(* The read loop has a response.cancel: cancelResponse cancels whatever    *)
(* response has its cancel in the session's place for it, which is this    *)
(* one unless another has taken or cleared the place (VoiceTurns), ...     *)
ClientCancels ==
  /\ loop = "reading"
  /\ cancels < MaxCancels
  /\ loop' = "answering"
  /\ cancels' = cancels + 1
  /\ ctxDone' \in {ctxDone, TRUE}
  /\ UNCHANGED <<runVars, queue, closed, resultCh, ttsVars, ttsStop, wireUp>>

(* ... and writes a response.done of its own, whether a response was       *)
(* cancelled or not.  When the write fails it reads on.                    *)
AnswerCancel ==
  /\ loop = "answering"
  /\ WriteDone("cancelled")
  /\ loop' = "reading"
  /\ UNCHANGED <<pc, exit, said, buffered, emitted, pending, llmDone, status,
                 done, queue, closed, resultCh, ttsVars, ttsStop, ctxDone,
                 wireUp, cancels>>

(* From some write on, every write to the client fails (the error of a     *)
(* bufio.Writer sticks).                                                   *)
LoseWire ==
  /\ wireUp
  /\ wireUp' = FALSE
  /\ UNCHANGED <<runVars, queue, closed, resultCh, ttsVars, ttsStop, ctxDone,
                 loop, cancels>>

(* Returns of runResponse that leave the segment channel open.             *)
Unjoined == {"flush_failed", "llm_done_failed"}

(* The speech goroutine waits on a channel nobody will close.              *)
Abandoned ==
  /\ pc = "returned" /\ exit \in Unjoined
  /\ tpc = "receiving" /\ queue = <<>> /\ ~closed

(* Nothing is left to do; any other state without a step is a deadlock.    *)
Quiesced ==
  /\ pc = "returned"
  /\ tpc = "returned" \/ Abandoned
  /\ loop # "answering"
  /\ UNCHANGED vars

RunStep ==
  \/ EnqueueAccepted \/ EnqueueRefused \/ Unwind \/ FlushFails
  \/ WriteLLMDone \/ LLMDoneFails \/ Join \/ Tell

SpeechStep == Receive \/ RangeEnds

ChatStep   == Prepare \/ Delta \/ StreamEnds \/ StreamFails
SynthStep  == Chunk \/ SegmentEnds \/ SegmentFails

Next ==
  \/ RunStep \/ SpeechStep \/ ChatStep \/ SynthStep
  \/ Cancel \/ ClientCancels \/ AnswerCancel \/ LoseWire \/ Quiesced

(* Goroutines that can run do run.  A provider call need not return: the   *)
(* HTTP client has no timeout.  But it ends once its context is cancelled. *)
(* The read loop notices a lost connection, and cancels.                   *)
Fairness ==
  /\ WF_vars(RunStep)
  /\ WF_vars(SpeechStep)
  /\ WF_vars(ctxDone /\ (Prepare \/ StreamEnds \/ StreamFails))
  /\ WF_vars(TTSCancelled /\ (SegmentEnds \/ SegmentFails))
  /\ WF_vars(AnswerCancel)
  /\ WF_vars(~wireUp /\ Cancel)

Spec == Init /\ [][Next]_vars
FairSpec == Spec /\ Fairness
-----------------------------------------------------------------------------
(***************************************************************************)
(* Properties.                                                             *)
(***************************************************************************)

(* The segments spoken to the end, the one being spoken, the ones in the   *)
(* channel and the ones still to be sent are, in this order, all segments  *)
(* of the reply: the pipeline loses, repeats and reorders nothing while    *)
(* the speech goroutine runs.                                              *)
InSpeech == IF tpc = "synthesizing" THEN 1 ELSE 0

InOrder ==
  tpc # "returned" =>
    /\ spoken + InSpeech + Len(queue) + pending = emitted
    /\ \A i \in 1 .. Len(queue) : queue[i] = spoken + InSpeech + i

(* "completed" is only ever reported for a reply that was spoken whole:    *)
(* every segment of the text, the flushed rest included, has been sent     *)
(* with its tts.stop, llm.done came first, and no goroutine is left that   *)
(* could send more.                                                        *)
CompletedIsWhole ==
  done = "completed" =>
    /\ llmDone
    /\ emitted > 0 /\ spoken = emitted /\ ~buffered
    /\ tpc = "returned" /\ queue = <<>> /\ closed

(* A response that has said something and still has a client always        *)
(* reports how it ended, on every error path.                              *)
SpokenReplyIsDone ==
  pc = "returned" /\ wireUp /\ said => done # "none"

(* Expected of every response that nobody cancelled: the documented events *)
(* of a turn end with response.done.  The code breaks it for a reply       *)
(* without text.                                                           *)
EveryReplyIsDone ==
  pc = "returned" /\ wireUp /\ ~ctxDone => done # "none"

(* And only for a reply that nobody had cancelled when runResponse looked  *)
(* for the last time: neither a synthesis that ended well all the same nor *)
(* a stream that did not notice the cancellation makes it "completed".  A  *)
(* cancellation between that look and the write of response.done comes too *)
(* late: the client of a response.cancel is then told "cancelled" by the   *)
(* read loop and "completed" by runResponse, in either order.              *)
Undecided == pc \notin {"telling", "returned"}

CompletedIsEarned ==
  /\ []CompletedIsWhole
  /\ [](ctxDone /\ Undecided => [](done # "completed"))

(* A cancelled response ends, wherever the cancellation finds it: in a     *)
(* provider's call, before a full channel, or waiting for the speech.      *)
CancelEnds == ctxDone ~> pc = "returned"

(* If no provider call hangs for ever, every response ends even without a  *)
(* cancellation: the two goroutines never wait for each other in a circle. *)
ProvidersAnswer ==
  /\ []<>(pc \notin {"preparing", "streaming"})
  /\ []<>(tpc # "synthesizing")

AnsweredEnds == ProvidersAnswer => <>(pc = "returned")

(* The speech goroutine does not outlive its response for long, unless the *)
(* response left by one of the two returns that keep the channel open.     *)
SpeechEnds == (pc = "returned" /\ exit \notin Unjoined) ~> tpc = "returned"

(* runResponse waits in the select of enqueueTTSSegment or in waitForTTS,  *)
(* and no branch is ready.                                                 *)
RunWaits ==
  \/ pc \in {"callback", "flushing"} /\ ~HasRoom /\ ~SpeechStopped /\ ~ctxDone
  \/ pc = "joining" /\ ~SpeechStopped

(* runRealtimeTTS waits in the range over the segments.                    *)
SpeechWaits == tpc = "receiving" /\ queue = <<>> /\ ~RangeIsOver

(* While runResponse waits, the speech goroutine has a segment with the    *)
(* provider, or something to receive, so the one who waits is never waited *)
(* for.  And of the responses that have returned it waits for those only   *)
(* that left the channel open.                                             *)
NobodyWaitsInACircle ==
  /\ RunWaits => tpc \in {"receiving", "synthesizing"} /\ ~SpeechWaits
  /\ SpeechWaits /\ pc = "returned" => exit \in Unjoined
-----------------------------------------------------------------------------
(***************************************************************************)
(* The detailed response implements the contract.                          *)
(***************************************************************************)
verdict ==
  IF pc # "returned" THEN "running"
  ELSE IF done = "none" THEN "silent" ELSE done

audio ==
  IF tpc # "synthesizing" THEN "quiet"
  ELSE IF chunks = 0 THEN "synth" ELSE "open"

Contract == INSTANCE ResponseContract
              WITH verdict <- verdict, audio <- audio, told <- told,
                   asked <- (loop = "answering")

KeepsContract == Contract!ContractSpec
=============================================================================
