------------------------------ MODULE VoiceInput ------------------------------
(***************************************************************************)
(* The microphone side of one realtime voice session: the audio stream the *)
(* client opens, feeds and stops, the energy detector that cuts it into    *)
(* speech segments, and the goroutines that transcribe the audio received  *)
(* so far while more of it arrives (src/internal/voicews/session.go).      *)
(*                                                                         *)
(* Audio is measured in frames of equal length; of a frame only matters    *)
(* whether its level passes the detector's threshold.  Frame f of a stream *)
(* is the one that starts after f others.                                  *)
(***************************************************************************)
EXTENDS Naturals, Sequences

CONSTANTS
  Release,     \* silent frames that end a segment
  Growth,      \* frames to receive between two partial transcripts
  FreshIds,    \* the client never uses a stream id twice
  MaxStreams,  \* bound: streams the client opens
  MaxFrames,   \* bound: frames of one stream
  MaxPartials  \* bound: partial transcriptions started

ASSUME InputAssumption ==
  /\ Release \in Nat \ {0} /\ Growth \in Nat \ {0}
  /\ FreshIds \in BOOLEAN
  /\ MaxStreams \in Nat /\ MaxFrames \in Nat /\ MaxPartials \in Nat

Streams == 1 .. MaxStreams
Runs    == 1 .. MaxPartials

VARIABLES
  ended,       \* the handler has returned, which cancels every context
  opened,      \* streams opened so far
  stream,      \* the open one, or 0 (inboundTracker)
  guarded,     \* inputEchoGuard
  audio,       \* frames in inboundAudio
  loud,        \* the frames of this stream above the threshold
  speech,      \* speechActive
  silence,     \* silenceBytes, in frames
  segment,     \* activeSegmentID is set
  segStart,    \* segmentStartByte, in frames
  segments,    \* segments of this stream that have been completed
  inFlight,    \* partialInFlight
  cancelSlot,  \* partialCancel: the run it cancels, or 0
  current,     \* the run whose number is partialRunID, or 0
  lastSize,    \* lastPartialSize, in frames
  started,     \* partial runs started so far
  run,         \* where each run is
  runStream,   \* the stream each run transcribes
  runCancelled, \* runs whose context is cancelled
  refused      \* streams during which an audio.start was refused

streamVars  == <<ended, opened, stream, guarded>>
vadVars     == <<loud, speech, silence, segment, segStart, segments>>
slotVars    == <<inFlight, cancelSlot, current>>
runVars     == <<started, run, runStream, runCancelled>>
vars == <<streamVars, audio, vadVars, slotVars, lastSize, runVars, refused>>

Frames   == 0 .. MaxFrames
Segments == Seq([from : Frames, to : Frames])

StreamTypeOK ==
  /\ ended \in BOOLEAN
  /\ opened \in 0 .. MaxStreams
  /\ stream \in 0 .. opened
  /\ guarded \in BOOLEAN

AudioTypeOK ==
  /\ audio \in Frames
  /\ loud \subseteq Frames
  /\ speech \in BOOLEAN /\ silence \in Frames
  /\ segment \in BOOLEAN /\ segStart \in Frames
  /\ segments \in Segments
  /\ lastSize \in Frames

PartialTypeOK ==
  /\ inFlight \in BOOLEAN
  /\ cancelSlot \in {0} \cup Runs /\ current \in {0} \cup Runs
  /\ started \in 0 .. MaxPartials
  /\ run \in [Runs -> {"unborn", "transcribing", "publishing", "writing",
                       "leaving", "gone"}]
  /\ runStream \in [Runs -> {0} \cup Streams]
  /\ runCancelled \subseteq Runs

HistoryTypeOK == refused \subseteq Streams

TypeOK == StreamTypeOK /\ AudioTypeOK /\ PartialTypeOK /\ HistoryTypeOK

Init ==
  /\ ended = FALSE
  /\ opened = 0 /\ stream = 0 /\ guarded = FALSE /\ audio = 0
  /\ loud = {} /\ speech = FALSE /\ silence = 0
  /\ segment = FALSE /\ segStart = 0 /\ segments = <<>>
  /\ inFlight = FALSE /\ cancelSlot = 0 /\ current = 0 /\ lastSize = 0
  /\ started = 0
  /\ run = [k \in Runs |-> "unborn"]
  /\ runStream = [k \in Runs |-> 0]
  /\ runCancelled = {}
  /\ refused = {}
-----------------------------------------------------------------------------
(***************************************************************************)
(* Partial transcription: the slot.  X_Slip is X with a mistake that would *)
(* be easy to make; nothing refers to it.                                  *)
(***************************************************************************)

(* cancelPartialASRLocked: the run number moves on, so that the run, if    *)
(* there is one, no longer counts as the current one.                      *)
CancelPartial_Slip ==
  /\ runCancelled' = runCancelled \cup {cancelSlot}
  /\ current' = 0
  /\ cancelSlot' = 0
  /\ inFlight' = FALSE
CancelPartial ==
  /\ runCancelled' = runCancelled \cup ({cancelSlot} \ {0})
  /\ current' = 0
  /\ cancelSlot' = 0
  /\ inFlight' = FALSE

(* A frame has been appended: a run over the audio so far may start.  The  *)
(* time since the last one, and whether an ASR provider is configured, are *)
(* left open.                                                              *)
MayStartPartial_Slip ==
  /\ ~guarded
  /\ started < MaxPartials
  /\ audio' >= lastSize + Growth
MayStartPartial ==
  /\ ~guarded /\ ~inFlight
  /\ started < MaxPartials
  /\ audio' >= lastSize + Growth

StartPartial ==
  /\ MayStartPartial
  /\ started' = started + 1
  /\ current' = started'
  /\ cancelSlot' = started'
  /\ inFlight' = TRUE
  /\ lastSize' = audio'
  /\ run' = [run EXCEPT ![started'] = "transcribing"]
  /\ runStream' = [runStream EXCEPT ![started'] = stream]
  /\ UNCHANGED runCancelled
-----------------------------------------------------------------------------
(***************************************************************************)
(* The detector.                                                           *)
(***************************************************************************)

(* completeActiveSegmentLocked; the segment reaches up to frame end.       *)
CompleteSegment(end) ==
  /\ segments' =
       IF segment THEN Append(segments, [from |-> segStart, to |-> end])
       ELSE segments
  /\ segment' = FALSE
  /\ segStart' = IF segment THEN 0 ELSE segStart

LoudFrame ==
  /\ loud' = loud \cup {audio}
  /\ silence' = 0
  /\ speech' = TRUE
  /\ segment' = IF speech THEN segment ELSE TRUE
  /\ segStart' = IF speech THEN segStart ELSE audio
  /\ UNCHANGED segments

ReleasesSpeech == silence + 1 >= Release

QuietFrame ==
  /\ UNCHANGED loud
  /\ \/ /\ speech /\ ReleasesSpeech
        /\ speech' = FALSE
        /\ silence' = 0
        /\ CompleteSegment(audio + 1)
     \/ /\ speech /\ ~ReleasesSpeech
        /\ silence' = silence + 1
        /\ UNCHANGED <<speech, segment, segStart, segments>>
     \/ /\ ~speech
        /\ UNCHANGED <<speech, silence, segment, segStart, segments>>
-----------------------------------------------------------------------------
(***************************************************************************)
(* The read loop.                                                          *)
(***************************************************************************)

(* What audio.start resets once the tracker has accepted the stream.       *)
ResetDetector_Slip ==
  /\ silence' = 0
  /\ segment' = FALSE /\ segStart' = 0
  /\ UNCHANGED speech
ResetDetector ==
  /\ speech' = FALSE /\ silence' = 0
  /\ segment' = FALSE /\ segStart' = 0

ResetBaseline == lastSize' = 0

(* The partial run is cancelled in any case; the rest only happens when no *)
(* stream is open.                                                         *)
AudioStart ==
  /\ ~ended /\ stream = 0 /\ opened < MaxStreams
  /\ CancelPartial
  /\ opened' = opened + 1
  /\ stream' = opened + 1
  /\ guarded' \in BOOLEAN
  /\ audio' = 0
  /\ ResetDetector /\ ResetBaseline
  /\ loud' = {} /\ segments' = <<>>
  /\ UNCHANGED <<ended, started, run, runStream, refused>>

AudioStartRejected ==
  /\ ~ended /\ stream # 0
  /\ CancelPartial
  /\ refused' = refused \cup {stream}
  /\ UNCHANGED <<streamVars, audio, vadVars, lastSize, started, run, runStream>>

AudioChunk ==
  /\ ~ended /\ stream # 0 /\ audio < MaxFrames
  /\ audio' = audio + 1
  /\ LoudFrame \/ QuietFrame
  /\ StartPartial \/ UNCHANGED <<slotVars, lastSize, runVars>>
  /\ UNCHANGED <<streamVars, refused>>

(* The frame count agrees with the client's; otherwise nothing happens.    *)
(* speechActive is left as it is.                                          *)
AudioStop ==
  /\ ~ended /\ stream # 0
  /\ stream' = 0 /\ guarded' = FALSE
  /\ CompleteSegment(audio)
  /\ CancelPartial
  /\ audio' = 0
  /\ UNCHANGED <<ended, opened, loud, speech, silence, lastSize, started,
                 run, runStream, refused>>

(* With or without an open stream.  The active segment keeps its mark;     *)
(* what was said is dropped.                                               *)
InputCancel ==
  /\ ~ended
  /\ stream' = 0
  /\ audio' = 0
  /\ speech' = FALSE /\ silence' = 0 /\ loud' = {}
  /\ CancelPartial
  /\ lastSize' = 0
  /\ UNCHANGED <<ended, opened, guarded, segment, segStart, segments, started,
                 run, runStream, refused>>

(* A close frame cancels the partial run, a read error leaves that to the  *)
(* end of the handler.                                                     *)
ConnectionEnds ==
  /\ ~ended
  /\ ended' = TRUE
  /\ CancelPartial \/ UNCHANGED <<slotVars, runCancelled>>
  /\ UNCHANGED <<opened, stream, guarded, audio, vadVars, lastSize, started,
                 run, runStream, refused>>
-----------------------------------------------------------------------------
(***************************************************************************)
(* runPartialASR, run k.                                                   *)
(***************************************************************************)
Step(k, from, to) == run[k] = from /\ run' = [run EXCEPT ![k] = to]

(* Only the run leaves its own marks; everything else is the session's.    *)
OnlyRuns ==
  UNCHANGED <<streamVars, audio, vadVars, slotVars, lastSize, started,
              runStream, runCancelled, refused>>

(* A transcript, and the context is not cancelled when it is looked at.    *)
PartialTranscribed(k) ==
  /\ ~ended /\ k \notin runCancelled
  /\ Step(k, "transcribing", "publishing")
  /\ OnlyRuns

(* No transcript, an empty one, an echo of recent speech, or a cancelled   *)
(* context.                                                                *)
PartialDropped(k) == Step(k, "transcribing", "leaving") /\ OnlyRuns

(* The stream that is open now has the id of the stream transcribed.  The  *)
(* same transcript is not published twice, which may drop this one.        *)
SameStream(k) == stream # 0 /\ (FreshIds => runStream[k] = stream)

(* The comparison is made under the lock, the write comes after it: a run  *)
(* that is writing may be overtaken by a stop, a cancel or another run.    *)
PartialAccepted(k) ==
  /\ SameStream(k)
  /\ Step(k, "publishing", "writing")
  /\ OnlyRuns

PartialRefused(k) == Step(k, "publishing", "leaving") /\ OnlyRuns

PartialWritten(k) == Step(k, "writing", "leaving") /\ OnlyRuns

(* The deferred end: the slot is only released by the run it belongs to.   *)
ReleasesSlot_Slip(k) == TRUE
ReleasesSlot(k) == current = k

PartialLeaves(k) ==
  /\ Step(k, "leaving", "gone")
  /\ inFlight' = IF ReleasesSlot(k) THEN FALSE ELSE inFlight
  /\ cancelSlot' = IF ReleasesSlot(k) THEN 0 ELSE cancelSlot
  /\ UNCHANGED <<streamVars, audio, vadVars, current, lastSize, started,
                 runStream, runCancelled, refused>>

PartialStep(k) ==
  \/ PartialTranscribed(k) \/ PartialDropped(k) \/ PartialAccepted(k)
  \/ PartialRefused(k) \/ PartialWritten(k) \/ PartialLeaves(k)

Next ==
  \/ AudioStart \/ AudioStartRejected \/ AudioChunk \/ AudioStop
  \/ InputCancel \/ ConnectionEnds
  \/ \E k \in Runs : PartialStep(k)

Spec == Init /\ [][Next]_vars
-----------------------------------------------------------------------------
(***************************************************************************)
(* Properties.                                                             *)
(***************************************************************************)
Alive(k) == run[k] \notin {"unborn", "gone"}

(* The session can cancel every partial run that is still of use, and the  *)
(* flag that keeps a second one from starting says the same: so there is   *)
(* at most one at a time, although a cancelled run may outlive the start   *)
(* of its successor and then runs the same deferred release.               *)
PartialIsHeld ==
  /\ inFlight <=> cancelSlot # 0
  /\ \A k \in Runs :
       cancelSlot = k <=> Alive(k) /\ k \notin runCancelled

(* Partial transcripts of a stream reach the client in the order of their  *)
(* audio, and one at most after its end: no run over a stream starts       *)
(* before every earlier one is gone, its write included, although nothing  *)
(* waits for a cancelled run and a write is not under the lock.  The       *)
(* exception is a stream during which an audio.start is refused: that      *)
(* cancels the run and leaves the stream open, and the next run may        *)
(* overtake it.                                                            *)
PartialsInOrder ==
  \A j, k \in Runs :
    /\ j < k /\ run[k] # "unborn"
    /\ runStream[j] = runStream[k] /\ runStream[k] \notin refused
    => run[j] = "gone"

(* No speech is lost: every loud frame of a stream is in a completed       *)
(* segment or in the active one.                                           *)
Within(f, s) == s.from <= f /\ f < s.to

SpeechIsCovered ==
  \A f \in loud :
    \/ \E i \in 1 .. Len(segments) : Within(f, segments[i])
    \/ stream # 0 /\ segment /\ segStart <= f /\ f < audio

(* Segments are cut from one recording: none is empty, and they follow     *)
(* each other without overlap (a segment includes the pause that ends it). *)
SegmentsAreApart ==
  /\ \A i \in 1 .. Len(segments) : segments[i].from < segments[i].to
  /\ \A i \in 1 .. Len(segments) - 1 : segments[i].to <= segments[i + 1].from
  /\ stream # 0 /\ segment /\ segments # <<>> =>
       segments[Len(segments)].to <= segStart

(* The audio a partial transcript was last made from is never longer than  *)
(* the audio there is: growth is measured from this stream's beginning.    *)
BaselineIsPast == stream # 0 => lastSize <= audio

(* What the detector and the partial transcriptions keep about a stream    *)
(* adds up, on whatever stop, cancel or start came before it: no speech is *)
(* lost, no segment is empty or overlaps another, and growth is measured   *)
(* from the beginning of this stream.                                      *)
StreamIsAccounted == SpeechIsCovered /\ SegmentsAreApart /\ BaselineIsPast
=============================================================================
