--------------------------- MODULE GatewaySession ---------------------------
(***************************************************************************)
(* One device connection of the gateway, from the device's microphone to   *)
(* its loudspeaker: the device, which does not wait for answers; the two   *)
(* directions of the connection; the one goroutine that serves it          *)
(* (src/internal/gateway/handler.go), with the stream tracker of either    *)
(* direction (protocol/stream_tracker.go); and the voice turn it runs to   *)
(* its end before it reads on (session/pipeline.go).                       *)
(*                                                                         *)
(* A frame is the pair of the opening it was sent in and its place there.  *)
(* Payloads that do not decode change nothing and are answered by an       *)
(* error; like telemetry and acknowledgements, whose effect is that of     *)
(* DeviceControl, they are "other" messages here.                          *)
(***************************************************************************)
EXTENDS Integers, Sequences

CONSTANTS
  Streams,      \* stream ids a device uses
  NoStream,
  MaxOpenings,  \* bound: streams the device opens
  MaxFrames,    \* bound: frames of one opening
  MaxOther,     \* bound: messages besides streams
  MaxDeltas,    \* bound: deltas of one reply
  MaxChunks,    \* bound: audio chunks of one reply
  UpRoom,       \* what the connection holds from the device
  DownRoom,     \* and towards it; a write waits for room
  MayFail       \* providers that may fail: of "asr", "llm", "tts"

ASSUME GatewayAssumption ==
  /\ NoStream \notin Streams
  /\ MaxOpenings \in Nat /\ MaxFrames \in Nat /\ MaxOther \in Nat
  /\ MaxDeltas \in Nat /\ MaxChunks \in Nat
  /\ UpRoom \in Nat \ {0} /\ DownRoom \in Nat \ {0}
  /\ MayFail \subseteq {"asr", "llm", "tts"}

Openings == 1 .. MaxOpenings
Frames == Openings \X (1 .. MaxFrames)

VARIABLES
  link,      \* "up", or "down" for good
  up, down,  \* messages under way
  opened,    \* how many streams the device has opened
  sending,   \* the id of the one it is sending, or NoStream
  sent,      \* frames sent in each opening
  other,     \* other messages sent
  owed,      \* audio.stop messages whose outcome it has not heard
  heard,     \* the reply it is playing, or 0
  played,    \* the chunks of it that have come
  replies,   \* replies that came whole
  pc,        \* where the goroutine is
  helloSeen,
  stream, audio,    \* streamState.ID, streamState.Audio
  tracker, count,   \* streamState.Tracker: its active stream, frameCount
  turns,     \* the audio of every turn so far
  deltas,    \* deltas of the reply
  reply,     \* p.idCounter as far as replies go
  outbound,  \* the sink's tracker: the reply it has open, or 0
  chunks,    \* and its frameCount
  trace      \* the debug trace of the latest turn

deviceVars == <<opened, sending, sent, other>>
hearVars == <<owed, heard, played, replies>>
streamVars == <<helloSeen, stream, audio, tracker, count, turns>>
turnVars == <<deltas, reply, outbound, chunks, trace>>
vars == <<link, up, down, deviceVars, hearVars, pc, streamVars, turnVars>>

Turn == {"asr", "asrFinal", "llm", "llmDone", "ttsStart", "tts", "ttsStop",
         "action", "failed"}

UpKinds == {"hello", "start", "frame", "stop", "ping", "other", "close"}
Up == [kind : UpKinds, id : Streams \cup {NoStream},
       frame : Frames \cup {<<>>}, last : 0 .. MaxFrames]

DownKinds == {"event", "error", "tts.start", "chunk", "tts.stop", "action",
              "stop_error"}
Down == [kind : DownKinds, n : Nat]

(* How the answer to an audio.stop ends: with the action of its turn, or   *)
(* with an error.                                                          *)
Outcomes == {"action", "stop_error"}

TypeOK ==
  /\ link \in {"up", "down"} /\ pc \in Turn \cup {"read", "hello", "returned"}
  /\ up \in Seq(Up) /\ down \in Seq(Down)
  /\ Len(up) <= UpRoom /\ Len(down) <= DownRoom
  /\ opened \in 0 .. MaxOpenings /\ sending \in Streams \cup {NoStream}
  /\ sent \in [Openings -> 0 .. MaxFrames] /\ other \in 0 .. MaxOther
  /\ owed \in 0 .. MaxOpenings
  /\ heard \in Nat /\ played \in Seq(Nat) /\ replies \in Seq(Seq(Nat))
  /\ helloSeen \in BOOLEAN
  /\ {stream, tracker} \subseteq Streams \cup {NoStream}
  /\ audio \in Seq(Frames) /\ count \in Nat /\ turns \in Seq(Seq(Frames))
  /\ deltas \in 0 .. MaxDeltas /\ reply \in Nat /\ outbound \in Nat
  /\ chunks \in 0 .. MaxChunks
  /\ trace \in {"none", "running", "completed", "failed"}

Init ==
  /\ link = "up" /\ up = <<>> /\ down = <<>>
  /\ opened = 0 /\ sending = NoStream /\ sent = [o \in Openings |-> 0]
  /\ other = 0 /\ owed = 0 /\ heard = 0 /\ played = <<>> /\ replies = <<>>
  /\ pc = "read" /\ helloSeen = FALSE
  /\ stream = NoStream /\ audio = <<>> /\ tracker = NoStream /\ count = 0
  /\ turns = <<>>
  /\ deltas = 0 /\ reply = 0 /\ outbound = 0 /\ chunks = 0 /\ trace = "none"
-----------------------------------------------------------------------------
(***************************************************************************)
(* The device.  It opens one stream at a time and counts its frames, but   *)
(* may forget a stream it has opened, and use its id again.                *)
(***************************************************************************)
Send(kind, id, frame, last) ==
  /\ link = "up" /\ Len(up) < UpRoom
  /\ up' = Append(up, [kind |-> kind, id |-> id, frame |-> frame,
                       last |-> last])
  /\ UNCHANGED <<link, down, pc, streamVars, turnVars>>

SendStart(id) ==
  /\ sending = NoStream /\ opened < MaxOpenings
  /\ Send("start", id, <<>>, 0)
  /\ opened' = opened + 1 /\ sending' = id
  /\ UNCHANGED <<sent, other, hearVars>>

SendFrame ==
  /\ sending # NoStream /\ sent[opened] < MaxFrames
  /\ sent' = [sent EXCEPT ![opened] = @ + 1]
  /\ Send("frame", NoStream, <<opened, sent[opened] + 1>>, 0)
  /\ UNCHANGED <<opened, sending, other, hearVars>>

SendStop ==
  /\ sending # NoStream
  /\ Send("stop", sending, <<>>, sent[opened])
  /\ sending' = NoStream /\ owed' = owed + 1
  /\ UNCHANGED <<opened, sent, other, heard, played, replies>>

SendOther(kind) ==
  /\ other < MaxOther
  /\ Send(kind, NoStream, <<>>, 0)
  /\ other' = other + 1
  /\ UNCHANGED <<opened, sending, sent, hearVars>>

Forget ==
  /\ link = "up" /\ sending # NoStream
  /\ sending' = NoStream
  /\ UNCHANGED <<link, up, down, opened, sent, other, hearVars, pc,
                 streamVars, turnVars>>

LoseLink ==
  /\ link = "up"
  /\ link' = "down" /\ down' = <<>>
  /\ UNCHANGED <<up, deviceVars, hearVars, pc, streamVars, turnVars>>

(* What the device makes of the next message.                              *)
Hear ==
  /\ down # <<>>
  /\ down' = Tail(down)
  /\ LET m == Head(down) IN
     /\ owed' = IF m.kind \in Outcomes THEN owed - 1 ELSE owed
     /\ heard' = CASE m.kind = "tts.start" -> m.n
                   [] m.kind = "tts.stop" -> 0
                   [] OTHER -> heard
     /\ played' = CASE m.kind \in {"tts.start", "tts.stop"} -> <<>>
                    [] m.kind = "chunk" -> Append(played, m.n)
                    [] OTHER -> played
     /\ replies' = IF m.kind = "tts.stop" /\ m.n = Len(played)
                   THEN Append(replies, played) ELSE replies
  /\ UNCHANGED <<link, up, deviceVars, pc, streamVars, turnVars>>

DeviceSends ==
  \/ \E id \in Streams : SendStart(id)
  \/ SendFrame
  \/ SendStop
  \/ \E kind \in {"hello", "ping", "other", "close"} : SendOther(kind)
  \/ Forget
  \/ LoseLink
-----------------------------------------------------------------------------
(***************************************************************************)
(* The connection (wsconn/conn.go).  A write waits while the device does   *)
(* not read; once the link is down it fails, or its bytes go nowhere.      *)
(***************************************************************************)
WriteFrame(kind, n) ==
  \/ /\ link = "up" /\ Len(down) < DownRoom
     /\ down' = Append(down, [kind |-> kind, n |-> n])
  \/ /\ link = "down"
     /\ UNCHANGED down

WriteFails == link = "down" /\ UNCHANGED down

ReadFrame(kind) ==
  /\ pc = "read" /\ up # <<>> /\ Head(up).kind = kind
  /\ up' = Tail(up)
  /\ UNCHANGED <<deviceVars, hearVars>>

Returns ==
  /\ pc' = "returned" /\ link' = "down"
  /\ UNCHANGED <<streamVars, turnVars>>

(* A read fails once the link is down, whatever was still under way.       *)
ReadFails ==
  /\ pc = "read" /\ link = "down"
  /\ Returns
  /\ UNCHANGED <<up, down, deviceVars, hearVars>>

ReadPing ==
  /\ ReadFrame("ping")
  /\ \/ /\ WriteFrame("event", 0)
        /\ UNCHANGED <<link, pc, streamVars, turnVars>>
     \/ WriteFails /\ Returns

\* A close frame, or one that cannot be read (fragmented, too large), ends
\* the loop.
ReadClose ==
  /\ ReadFrame("close")
  /\ Returns
  /\ UNCHANGED down
-----------------------------------------------------------------------------
(***************************************************************************)
(* The read loop.                                                          *)
(***************************************************************************)
ErrorEvent(kind) ==
  /\ WriteFrame(kind, 0)
  /\ UNCHANGED <<link, pc>>

ReadHello ==
  /\ ReadFrame("hello")
  /\ helloSeen' = TRUE
  /\ \/ WriteFrame("event", 0) /\ pc' = "hello" /\ UNCHANGED link
     \/ WriteFails /\ pc' = "returned" /\ link' = "down"
  /\ UNCHANGED <<stream, audio, tracker, count, turns, turnVars>>

ConfigSnapshot ==
  /\ pc = "hello"
  /\ \/ /\ WriteFrame("event", 0) /\ pc' = "read"
        /\ UNCHANGED <<link, streamVars, turnVars>>
     \/ WriteFails /\ Returns
  /\ UNCHANGED <<up, deviceVars, hearVars>>

(* Telemetry, config.ack, and whatever the loop answers with an error.     *)
ReadOther ==
  /\ ReadFrame("other")
  /\ \/ ErrorEvent("error")
     \/ UNCHANGED <<link, down, pc>>
  /\ UNCHANGED <<streamVars, turnVars>>

MayStart_Slip == helloSeen
MayStart == helloSeen /\ tracker = NoStream

ReadStart ==
  /\ ReadFrame("start")
  /\ IF MayStart
     THEN /\ tracker' = Head(up).id /\ count' = 0
          /\ stream' = Head(up).id /\ audio' = <<>>
          /\ UNCHANGED <<link, down, pc>>
     ELSE /\ ErrorEvent("error")
          /\ UNCHANGED <<stream, audio, tracker, count>>
  /\ UNCHANGED <<helloSeen, turns, turnVars>>

ReadBinary ==
  /\ ReadFrame("frame")
  /\ IF stream # NoStream /\ tracker # NoStream
     THEN /\ count' = count + 1
          /\ audio' = Append(audio, Head(up).frame)
          /\ UNCHANGED <<link, down, pc>>
     ELSE ErrorEvent("error") /\ UNCHANGED <<count, audio>>
  /\ UNCHANGED <<helloSeen, stream, tracker, turns, turnVars>>

(* Tracker.Stop agrees: the id is that of the open stream, and last_seq    *)
(* the number of frames that came.                                         *)
StopMatches_Slip(m) == m.id = tracker
StopMatches(m) == m.id = tracker /\ m.last = count

NewStreamState ==
  /\ stream' = NoStream /\ audio' = <<>> /\ tracker' = NoStream /\ count' = 0

TurnBegins ==
  /\ pc' = "asr" /\ trace' = "running"
  /\ deltas' = 0 /\ outbound' = 0 /\ chunks' = 0
  /\ UNCHANGED <<link, reply>>

StopMismatch_Slip ==
  /\ WriteFrame("stop_error", 0)
  /\ NewStreamState
  /\ TurnBegins
  /\ UNCHANGED turns

StopMismatch ==
  /\ ErrorEvent("stop_error")
  /\ NewStreamState
  /\ UNCHANGED <<turns, turnVars>>

StopAccepted ==
  /\ tracker' = NoStream /\ count' = 0
  /\ turns' = Append(turns, audio)
  /\ TurnBegins
  /\ UNCHANGED <<down, stream, audio>>

ReadStop ==
  /\ ReadFrame("stop")
  /\ \/ /\ stream = NoStream
        /\ ErrorEvent("stop_error")
        /\ UNCHANGED <<stream, audio, tracker, count, turns, turnVars>>
     \/ stream # NoStream /\ ~StopMatches(Head(up)) /\ StopMismatch
     \/ stream # NoStream /\ StopMatches(Head(up)) /\ StopAccepted
  /\ UNCHANGED helloSeen
-----------------------------------------------------------------------------
(***************************************************************************)
(* Pipeline.Run: each stage calls a provider or writes through the sink,   *)
(* and the first failure ends the turn.                                    *)
(***************************************************************************)
At(stage) ==
  /\ pc = stage
  /\ UNCHANGED <<link, up, deviceVars, hearVars, helloSeen, turns>>

Goes(next) ==
  /\ pc' = next
  /\ UNCHANGED <<stream, audio, tracker, count>>

TurnFails_Slip ==
  /\ pc' = "failed"
  /\ NewStreamState
  /\ UNCHANGED turnVars

TurnFails ==
  /\ pc' = "failed" /\ trace' = "failed"
  /\ NewStreamState
  /\ UNCHANGED <<deltas, reply, outbound, chunks>>

SinkFails == WriteFails /\ TurnFails

(* The recogniser of the gateway refuses empty audio.                      *)
ProviderFails ==
  \E stage \in MayFail \cup {"asr"} :
    /\ At(stage)
    /\ stage \in MayFail \/ audio = <<>>
    /\ TurnFails /\ UNCHANGED down

Transcribe ==
  /\ At("asr") /\ audio # <<>>
  /\ Goes("asrFinal")
  /\ UNCHANGED <<down, turnVars>>

OnASRFinal ==
  /\ At("asrFinal")
  /\ \/ WriteFrame("event", 0) /\ Goes("llm") /\ UNCHANGED turnVars
     \/ SinkFails

OnLLMDelta ==
  /\ At("llm") /\ deltas < MaxDeltas
  /\ \/ /\ WriteFrame("event", 0) /\ Goes("llm")
        /\ deltas' = deltas + 1
        /\ UNCHANGED <<reply, outbound, chunks, trace>>
     \/ SinkFails

ReplyEnds ==
  /\ At("llm")
  /\ Goes("llmDone")
  /\ UNCHANGED <<down, turnVars>>

(* A reply without a word is replaced, so every turn speaks; its id is     *)
(* drawn next.                                                             *)
OnLLMDone ==
  /\ At("llmDone")
  /\ \/ /\ WriteFrame("event", 0) /\ Goes("ttsStart")
        /\ reply' = reply + 1
        /\ UNCHANGED <<deltas, outbound, chunks, trace>>
     \/ SinkFails

(* outbound.Start, on the tracker of this turn's own sink.                 *)
OnTTSStart ==
  /\ At("ttsStart") /\ outbound = 0
  /\ \/ /\ WriteFrame("tts.start", reply) /\ Goes("tts")
        /\ outbound' = reply
        /\ UNCHANGED <<deltas, reply, chunks, trace>>
     \/ SinkFails

OnTTSChunk ==
  /\ At("tts") /\ outbound # 0 /\ chunks < MaxChunks
  /\ \/ /\ WriteFrame("chunk", chunks + 1) /\ Goes("tts")
        /\ chunks' = chunks + 1
        /\ UNCHANGED <<deltas, reply, outbound, trace>>
     \/ SinkFails

SpeechEnds ==
  /\ At("tts")
  /\ Goes("ttsStop")
  /\ UNCHANGED <<down, turnVars>>

(* tts.stop carries the number of frames sent; the trace is complete.      *)
OnTTSStop_Slip ==
  /\ At("ttsStop") /\ outbound # 0
  /\ \/ /\ IF chunks = 0 THEN UNCHANGED down ELSE WriteFrame("tts.stop", chunks)
        /\ Goes("action")
        /\ outbound' = 0 /\ trace' = "completed"
        /\ UNCHANGED <<deltas, reply, chunks>>
     \/ SinkFails

OnTTSStop ==
  /\ At("ttsStop") /\ outbound # 0
  /\ \/ /\ WriteFrame("tts.stop", chunks) /\ Goes("action")
        /\ outbound' = 0 /\ trace' = "completed"
        /\ UNCHANGED <<deltas, reply, chunks>>
     \/ SinkFails

(* The last event of a turn, whose trace stays complete if it is lost.     *)
OnAction ==
  /\ At("action")
  /\ \/ WriteFrame("action", 0) /\ pc' = "read"
     \/ WriteFails /\ pc' = "failed"
  /\ NewStreamState
  /\ UNCHANGED turnVars

PipelineFailed_Slip == At("failed") /\ Goes("read") /\ UNCHANGED <<down, turnVars>>

PipelineFailed ==
  /\ At("failed")
  /\ WriteFrame("stop_error", 0) /\ Goes("read")
  /\ UNCHANGED turnVars

Serve ==
  \/ ReadFails \/ ReadPing \/ ReadClose
  \/ ReadHello \/ ConfigSnapshot \/ ReadOther
  \/ ReadStart \/ ReadBinary \/ ReadStop

RunTurn ==
  \/ Transcribe \/ ProviderFails \/ OnASRFinal
  \/ OnLLMDelta \/ ReplyEnds \/ OnLLMDone
  \/ OnTTSStart \/ OnTTSChunk \/ SpeechEnds \/ OnTTSStop
  \/ OnAction \/ PipelineFailed

Next == DeviceSends \/ Hear \/ Serve \/ RunTurn

Spec == Init /\ [][Next]_vars

(* The goroutine runs, its providers come to an end, and the device reads. *)
Fairness == WF_vars(Serve) /\ WF_vars(RunTurn) /\ WF_vars(Hear)

FairSpec == Spec /\ Fairness
-----------------------------------------------------------------------------
(***************************************************************************)
(* What the two sides may count on.                                        *)
(***************************************************************************)

(* Every turn is given the whole of one stream the device has sent and     *)
(* stopped, all its frames in order and none of another's, however many    *)
(* streams the device has forgotten, reopened under the same id, or sent   *)
(* while they were refused.                                                *)
WholeStream(frames) ==
  \/ frames = <<>>
  \/ \E o \in Openings : frames = [i \in 1 .. sent[o] |-> <<o, i>>]

TurnIsWholeStream ==
  /\ \A t \in DOMAIN turns : WholeStream(turns[t])
  /\ \A t, u \in DOMAIN turns :
       turns[t] = turns[u] /\ turns[t] # <<>> => t = u

(* No turn leaves its trace running: when the goroutine reads again, or    *)
(* reports the failure, the trace has been closed, as completed only if    *)
(* the whole reply has been written.                                       *)
TraceTellsTheOutcome ==
  /\ pc \in {"read", "failed", "returned"} => trace # "running"
  /\ trace = "completed" => outbound = 0 /\ pc \notin Turn \ {"action", "failed"}

(* What the gateway takes from the device keeps the promise of the         *)
(* protocol: one stream at a time, taken whole or not at all.              *)
Incoming == IF tracker = NoStream THEN <<>> ELSE audio

Uplink == INSTANCE OneStream
            WITH Ids <- Streams, Frames <- Frames, Closed <- NoStream,
                 current <- tracker, frames <- Incoming, whole <- turns

UplinkIsOneStream == Uplink!ChannelSpec

(* And so does what the device hears, one reply after the other, although  *)
(* each turn has a new tracker and a turn that fails sends no tts.stop.    *)
Downlink == INSTANCE OneStream
              WITH Ids <- Openings, Frames <- 1 .. MaxChunks, Closed <- 0,
                   current <- heard, frames <- played, whole <- replies

DownlinkIsOneStream == Downlink!ChannelSpec

(* Every audio.stop is answered, by the action at the end of its turn or   *)
(* by an error, unless the connection ends first.                          *)
StopIsAnswered == owed > 0 ~> (owed = 0 \/ link = "down")

(* While the link is up, an outcome that the device waits for is under     *)
(* way: its audio.stop still is, or the goroutine is in a turn, or the     *)
(* outcome is.                                                             *)
OwedIsUnderWay ==
  link = "up" /\ owed > 0 =>
    \/ \E i \in 1 .. Len(up) : up[i].kind = "stop"
    \/ pc \in Turn
    \/ \E i \in 1 .. Len(down) : down[i].kind \in Outcomes
=============================================================================
