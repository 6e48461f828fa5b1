------------------------------ MODULE Inference ------------------------------
(* The HTTP inference requests: transcription, chat, chat as a stream of    *)
(* events, multimodal chat and speech synthesis, from the handler           *)
(* (internal/httpapi/router.go) through the service (internal/service/      *)
(* inference.go) to the OpenAI-compatible provider (internal/provider/      *)
(* openai_compatible.go).  Requests run concurrently and share the store of *)
(* debug traces; each starts one trace, whose identity is the request's.    *)
(*                                                                          *)
(* The provider's server, the client's link and the disk are nondeterminate *)
(* and every action makes at most one call on the store.  A text is a       *)
(* sequence of words, audio a number of bytes.                              *)
EXTENDS DebugTraces, FiniteSets

CONSTANTS Blank,        \* a text of spaces only
          MaxWords,     \* bound: words all providers send together
          MaxChunks,    \* bound: chunks all providers send together
          MaxParts,     \* bound: sentences of one text
          AudioSizes,   \* bytes of the audio of a transcription
          ChunkSizes,   \* bytes of one chunk of speech
          SilenceBytes  \* bytes of the silence between two sentences

ASSUME InferenceAssumption ==
  /\ NoAsset \notin Asset
  /\ MaxWords \in Nat /\ MaxChunks \in Nat /\ MaxParts \in Nat
  /\ AudioSizes \subseteq Nat
  /\ ChunkSizes \subseteq Nat \ {0}
  /\ SilenceBytes \in Nat

Requests == Traces

Kinds == {"asr", "chat", "stream", "multimodal", "tts"}

VARIABLES req,       \* state of each request
          words,     \* words sent so far (for MaxWords)
          chunks,    \* chunks sent so far (for MaxChunks)
          restarted  \* whether the process was restarted (once at most)

vars == <<traces, order, files, left, begun, req, words, chunks, restarted>>

Phases == {"idle", "open", "input", "resolve", "call", "broken", "record", "close",
           "failed", "answered", "lost"}

Request ==
  [at : Phases, kind : Kinds, linked : BOOLEAN,
   answer : {"none", "refused", "error", "done"},
   spoken : Seq(Words \cup {Blank}),   \* words the provider sent
   passed : Seq(Words),                \* deltas handed to the service (deltas)
   dropped : BOOLEAN,                  \* droppedOpeningDuplicate
   heard : Seq(Words),                 \* deltas the client received
   size : Nat,                         \* bytes of the audio to transcribe
   wav : BOOLEAN,                      \* whether that audio is a WAV file
   asked : {"pcm", "other"},           \* format of the request
   format : {"pcm", "other"},          \* format of the speech so far (actualFormat)
   part : Nat, parts : Nat,            \* sentence being spoken, sentences of the text
   sent : Nat]                         \* bytes of speech received (audio)

Idle ==
  [at |-> "idle", kind |-> "asr", linked |-> TRUE, answer |-> "none", spoken |-> <<>>,
   passed |-> <<>>, dropped |-> FALSE, heard |-> <<>>, size |-> 0,
   wav |-> FALSE, asked |-> "pcm", format |-> "pcm",
   part |-> 1, parts |-> 1, sent |-> 0]

Init ==
  /\ StoreInit
  /\ req = [r \in Requests |-> Idle]
  /\ words = 0
  /\ chunks = 0
  /\ restarted = FALSE

Bounds == <<words, chunks, restarted>>

Goes(r, phase) == req' = [req EXCEPT ![r].at = phase]

----------------------------------------------------------------------------
(* The request arrives and is answered.                                     *)

\* The handler refuses the request: its method, its key, its JSON.
Refuse(r) ==
  /\ req[r].at = "idle"
  /\ req' = [req EXCEPT ![r].at = "answered", ![r].answer = "refused"]
  /\ UNCHANGED <<storeVars, Bounds>>

\* The handler accepts the request; a streamed chat has its header sent here.
\* The audio to transcribe may be in any format, whatever it is said to be in.
Accept(r) ==
  /\ req[r].at = "idle"
  /\ \E kind \in Kinds, size \in AudioSizes, wav \in BOOLEAN, parts \in 1 .. MaxParts,
        format \in {"pcm", "other"} :
       /\ kind # "asr" => size = 0
       /\ wav => size > 0
       /\ kind # "tts" => parts = 1
       /\ kind \notin {"asr", "tts"} => format = "pcm"
       /\ req' = [req EXCEPT ![r].at = "open", ![r].kind = kind, ![r].size = size,
                             ![r].wav = wav, ![r].parts = parts, ![r].asked = format,
                             ![r].format = format]
  /\ UNCHANGED <<storeVars, Bounds>>

\* The service refuses the input before it starts a trace: audio that is not
\* base64, no messages, no content that could be sent, no text to speak.
RefuseInput(r) ==
  /\ req[r].at = "open"
  /\ req' = [req EXCEPT ![r].at = "answered", ![r].answer = "refused"]
  /\ UNCHANGED <<storeVars, Bounds>>

\* startTrace.
Open(r) ==
  /\ req[r].at = "open"
  /\ StartTrace(r)
  /\ Goes(r, IF req[r].kind = "asr" THEN "input" ELSE "resolve")
  /\ UNCHANGED Bounds

\* Transcribe records its audio, in the format of the request, before it looks
\* for a provider.
RecordInput(r) ==
  /\ req[r].at = "input"
  /\ SetInputAudio(r, FormOf(req[r].asked, req[r].wav), req[r].size)
  /\ Goes(r, "resolve")
  /\ UNCHANGED Bounds

\* A profile and a client are found and the stage begins in the trace.
Resolve(r) ==
  /\ req[r].at = "resolve"
  /\ CASE req[r].kind \in {"chat", "stream"} -> StartLLM(r)
       [] req[r].kind = "tts"                -> StartTTS(r)
       [] OTHER                              -> UNCHANGED storeVars
  /\ Goes(r, "call")
  /\ UNCHANGED Bounds

\* No profile, no client for its address, or a provider that fails: the error
\* closes the trace.
Fails_Slip(r) ==
  /\ req[r].at \in {"resolve", "call", "broken"}
  /\ IF req[r].at = "resolve" THEN UNCHANGED storeVars ELSE Finish(r, "error")
  /\ Goes(r, "failed")
  /\ UNCHANGED Bounds

Fails(r) ==
  /\ req[r].at \in {"resolve", "call", "broken"}
  /\ Finish(r, "error")
  /\ Goes(r, "failed")
  /\ UNCHANGED Bounds

\* The provider's result is recorded: CompleteASR, CompleteLLM, CompleteTTS, or
\* an event of the trace for multimodal.
RecordResult(r) ==
  /\ req[r].at = "record"
  /\ CASE req[r].kind \in {"chat", "stream"} -> CompleteLLM(r, req[r].passed)
       [] req[r].kind = "tts"                -> CompleteTTS(r, req[r].format)
       [] OTHER                              -> UNCHANGED storeVars
  /\ Goes(r, "close")
  /\ UNCHANGED Bounds

\* handle.Complete, then the answer: a body, or the event done of a stream.
Close(r) ==
  /\ req[r].at = "close"
  /\ Finish(r, "completed")
  /\ req' = [req EXCEPT ![r].at = "answered", ![r].answer = "done"]
  /\ UNCHANGED Bounds

\* The error is written: a status, or the event error of a stream.
AnswerError(r) ==
  /\ req[r].at = "failed"
  /\ req' = [req EXCEPT ![r].at = "answered", ![r].answer = "error"]
  /\ UNCHANGED <<storeVars, Bounds>>

\* The client of a stream goes away; the handler learns of it from a write that
\* fails, or from the provider call, which ends with the context of the request.
\* In the other kinds it can only do the latter, which is Fails.
Disconnect(r) ==
  /\ req[r].at \in Phases \ {"idle", "answered", "lost"}
  /\ req[r].kind = "stream"
  /\ req[r].linked
  /\ req' = [req EXCEPT ![r].linked = FALSE]
  /\ UNCHANGED <<storeVars, Bounds>>

----------------------------------------------------------------------------
(* The provider.                                                            *)

\* Transcribe of the provider answers at once, and only audio that is said to be
\* PCM, a WAV file included (pcmToWAV).
Transcribed(r) ==
  /\ req[r].at = "call" /\ req[r].kind = "asr"
  /\ req[r].size > 0 /\ req[r].asked = "pcm"
  /\ Goes(r, "record")
  /\ UNCHANGED <<storeVars, Bounds>>

\* And so does multimodal chat, which the analysis of images uses too.
Described(r) ==
  /\ req[r].at = "call" /\ req[r].kind = "multimodal"
  /\ Goes(r, "record")
  /\ UNCHANGED <<storeVars, Bounds>>

\* ChatStream of the provider: blanks are skipped, and one repetition of the
\* first delta that directly follows it.
IsText_Slip(word) == TRUE

IsText(word) == word # Blank

OpeningAgain_Slip(r, word) == Len(req[r].passed) = 1 /\ word = req[r].passed[1]

OpeningAgain(r, word) ==
  Len(req[r].passed) = 1 /\ ~req[r].dropped /\ word = req[r].passed[1]

Speaks(r, word) ==
  /\ req[r].at = "call"
  /\ req[r].kind \in {"chat", "stream"}
  /\ words < MaxWords
  /\ words' = words + 1
  /\ UNCHANGED <<chunks, restarted>>

Skip(r, word) ==
  /\ Speaks(r, word)
  /\ \/ ~IsText(word) /\ req' = [req EXCEPT ![r].spoken = Append(@, word)]
     \/ /\ IsText(word)
        /\ OpeningAgain(r, word)
        /\ req' = [req EXCEPT ![r].spoken = Append(@, word), ![r].dropped = TRUE]
  /\ UNCHANGED storeVars

\* The callback of the service: the delta is kept and recorded, and in a stream
\* written to the client.  A write to a client that is gone is lost, or fails
\* and ends the call.
Pass(r, word) ==
  /\ Speaks(r, word)
  /\ IsText(word)
  /\ ~OpeningAgain(r, word)
  /\ AddLLMDelta(r, word)
  /\ LET next == [req[r] EXCEPT
           !.spoken = Append(@, word),
           !.passed = Append(@, word),
           !.heard = IF req[r].kind = "stream" /\ req[r].linked THEN Append(@, word) ELSE @]
     IN  \/ req' = [req EXCEPT ![r] = next]
         \/ /\ req[r].kind = "stream" /\ ~req[r].linked
            /\ req' = [req EXCEPT ![r] = [next EXCEPT !.at = "broken"]]

\* The stream of deltas ends, by [DONE] or by the end of the body.
ChatEnds(r) ==
  /\ req[r].at = "call"
  /\ req[r].kind \in {"chat", "stream"}
  /\ Goes(r, "record")
  /\ UNCHANGED <<storeVars, Bounds>>

\* A chunk of speech: raw in the format asked for, or unwrapped from WAV, which
\* makes it PCM; another sentence may come in the other form
\* (mergeProviderAudioFormat).
Chunk(r, bytes, format) ==
  /\ req[r].at = "call" /\ req[r].kind = "tts"
  /\ chunks < MaxChunks
  /\ format \in {req[r].asked, "pcm"}
  /\ AddTTSChunk(r, bytes)
  /\ req' = [req EXCEPT ![r].sent = @ + bytes, ![r].format = format]
  /\ chunks' = chunks + 1
  /\ UNCHANGED <<words, restarted>>

\* ttsSegmentSilence: only PCM can be padded.
Silence(r) == IF req[r].format = "pcm" THEN SilenceBytes ELSE 0

\* The speech of a sentence ends.  Between two sentences goes a silence, a chunk
\* like the others; after the last one the call returns.
SentenceEnds(r) ==
  /\ req[r].at = "call" /\ req[r].kind = "tts"
  /\ IF req[r].part = req[r].parts
     THEN Goes(r, "record") /\ UNCHANGED storeVars
     ELSE IF Silence(r) > 0
     THEN /\ AddTTSChunk(r, Silence(r))
          /\ req' = [req EXCEPT ![r].part = @ + 1, ![r].sent = @ + Silence(r)]
     ELSE /\ req' = [req EXCEPT ![r].part = @ + 1]
          /\ UNCHANGED storeVars
  /\ UNCHANGED Bounds

----------------------------------------------------------------------------

\* The process ends and another starts: requests under way are lost.
Restart ==
  /\ ~restarted
  /\ restarted' = TRUE
  /\ NewProcess
  /\ req' = [r \in Requests |-> IF req[r].at \in {"idle", "answered"} THEN req[r]
                                ELSE [Idle EXCEPT !.at = "lost"]]
  /\ UNCHANGED <<words, chunks>>

Serve(r) ==
  \/ Refuse(r) \/ Accept(r) \/ RefuseInput(r) \/ Open(r) \/ RecordInput(r) \/ Resolve(r)
  \/ Fails(r) \/ RecordResult(r) \/ Close(r) \/ AnswerError(r)

Provide(r) ==
  \/ Transcribed(r) \/ Described(r)
  \/ \E word \in Words \cup {Blank} : Skip(r, word) \/ Pass(r, word)
  \/ ChatEnds(r)
  \/ \E bytes \in ChunkSizes, format \in {"pcm", "other"} : Chunk(r, bytes, format)
  \/ SentenceEnds(r)

Next ==
  \/ \E r \in Requests : Serve(r) \/ Provide(r) \/ Disconnect(r)
  \/ Restart

Spec == Init /\ [][Next]_vars

----------------------------------------------------------------------------

TypeOK ==
  /\ StoreTypeOK
  /\ req \in [Requests -> Request]
  /\ words \in 0 .. MaxWords
  /\ chunks \in 0 .. MaxChunks
  /\ restarted \in BOOLEAN

\* A request that ended has a trace that says how: completed when the client
\* was given the result, error when it was given an error, none when it was
\* refused; and until then the trace is running.  Every path of the four
\* service functions has to close the trace, and none may do so twice.
TraceTellsTheOutcome ==
  \A r \in Held :
    traces[r].status =
      CASE req[r].answer = "done"                            -> "completed"
        [] req[r].at = "failed" \/ req[r].answer = "error"   -> "error"
        [] req[r].at \in {"input", "resolve", "call", "broken", "record", "close"} -> "running"

\* The words of a stream that are not blank.
Texts(s) ==
  FoldLeft(LAMBDA said, word : IF word # Blank THEN Append(said, word) ELSE said,
           <<>>, s)

\* Those words without a repeated opening: what a reader of the whole stream
\* would keep of it.
OpeningOnce(s) ==
  LET said == Texts(s)
  IN  IF Len(said) > 1 /\ said[1] = said[2] THEN Tail(said) ELSE said

\* A client that is told done has every word the provider sent, in order: only
\* blanks and one repeated opening are missing from the reply, and a stream
\* whose client stayed carried the same deltas as the reply, however late the
\* repetition is told from a text that begins with a word three times.
ReplyIsWhole ==
  \A r \in Requests :
    req[r].kind \in {"chat", "stream"} =>
      /\ req[r].passed = OpeningOnce(req[r].spoken)
      /\ req[r].kind = "stream" /\ req[r].linked => req[r].heard = req[r].passed
      /\ IsPrefix(req[r].heard, req[r].passed)

\* A trace keeps what it says it keeps: the text and the count of every delta
\* even when deltas are no longer stored, and audio that is marked truncated
\* exactly when bytes are missing from it, whether they were lost chunk by
\* chunk, in the silence, or to the header put before them at the end, which
\* audio in another format or already WAV does not get.
RecordIsFaithful ==
  \A r \in Held :
    LET t == traces[r]
        Whole(asset, form, bytes) ==
          LET all == IF bytes > 0 /\ form = "pcm" THEN HeaderBytes + bytes ELSE bytes
          IN  asset.bytes <= all /\ (asset.truncated <=> asset.bytes < all)
    IN  /\ t.text = req[r].passed
        /\ t.deltaCount = Len(t.text)
        /\ IsPrefix(t.deltas, t.text)
        /\ t.deltasTruncated <=> t.deltas # t.text
        /\ t.audioBytes = req[r].sent
        /\ t.input # NoAsset => Whole(t.input, FormOf(req[r].asked, req[r].wav), req[r].size)
        /\ t.audio # NoAsset => Whole(t.audio, req[r].format, req[r].sent)
=============================================================================
