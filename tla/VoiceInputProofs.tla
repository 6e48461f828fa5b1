--------------------------- MODULE VoiceInputProofs ---------------------------
(***************************************************************************)
(* Proofs about VoiceInput, for every number of streams, frames and        *)
(* partial runs and every release and growth.                              *)
(***************************************************************************)
EXTENDS VoiceInput, SequenceTheorems, TLAPS

(* The runs that have not been started are untouched, and a run that lives *)
(* and is the current one has the slot.                                    *)
RunsInOrder ==
  /\ \A k \in Runs : k > started => run[k] = "unborn" /\ k \notin runCancelled
  /\ \A k \in Runs : current = k /\ Alive(k) => cancelSlot = k
  /\ cancelSlot # 0 => current = cancelSlot

(* While a stream is open the detector speaks exactly within a segment,    *)
(* and everything it knows lies within the audio received.                 *)
DetectorIsPast ==
  stream # 0 =>
    /\ speech <=> segment
    /\ segment => segStart < audio
    /\ silence <= audio
    /\ \A f \in loud : f < audio
    /\ segments # <<>> => segments[Len(segments)].to <= audio

IInv ==
  /\ TypeOK
  /\ RunsInOrder /\ PartialIsHeld
  /\ DetectorIsPast /\ SpeechIsCovered /\ SegmentsAreApart /\ BaselineIsPast

-----------------------------------------------------------------------------
(* The last segment there is has its ends in the stream.                   *)
LEMMA LastTyped ==
  ASSUME NEW s \in Segments, s # <<>>
  PROVE  /\ Len(s) \in 1 .. Len(s)
         /\ s[Len(s)].from \in Frames /\ s[Len(s)].to \in Frames
  <1>1. Len(s) \in Nat \ {0}
    BY EmptySeq DEF Segments
  <1>2. Len(s) \in 1 .. Len(s)
    BY <1>1
  <1>3. s[Len(s)] \in [from : Frames, to : Frames]
    BY <1>2, ElementOfSeq DEF Segments
  <1>4. QED
    BY <1>2, <1>3

LEMMA NoSegments == <<>> \in Segments /\ Len(<<>>) = 0
  BY EmptySeq DEF Segments

LEMMA InitInvariant == Init => IInv
  <1> SUFFICES ASSUME Init PROVE IInv
    OBVIOUS
  <1> USE InputAssumption
  <1>1. TypeOK
    <2>1. /\ ended \in BOOLEAN /\ guarded \in BOOLEAN /\ speech \in BOOLEAN
          /\ segment \in BOOLEAN /\ inFlight \in BOOLEAN
      BY DEF Init
    <2>2. opened \in 0 .. MaxStreams /\ stream \in 0 .. opened
      BY DEF Init
    <2>3. /\ audio \in Frames /\ loud \subseteq Frames /\ silence \in Frames
          /\ segStart \in Frames /\ lastSize \in Frames
      BY DEF Init, Frames
    <2>4. segments \in Segments
      BY NoSegments DEF Init
    <2>5. /\ cancelSlot = 0 /\ current = 0 /\ started \in 0 .. MaxPartials
          /\ runCancelled \subseteq Runs /\ refused \subseteq Streams
      BY DEF Init
    <2>6. run \in [Runs -> {"unborn"}] /\ runStream \in [Runs -> {0}]
      BY DEF Init
    <2>7. QED
      BY <2>1, <2>2, <2>3, <2>4, <2>5, <2>6
         DEF TypeOK, StreamTypeOK, AudioTypeOK, PartialTypeOK, HistoryTypeOK
  <1>2. RunsInOrder /\ PartialIsHeld
    <2>1. \A k \in Runs : run[k] = "unborn" /\ k # 0
      BY DEF Init, Runs
    <2>2. cancelSlot = 0 /\ inFlight = FALSE /\ runCancelled = {}
      BY DEF Init
    <2>3. \A k \in Runs : ~Alive(k)
      BY <2>1 DEF Alive
    <2>4. QED
      BY <2>1, <2>2, <2>3 DEF RunsInOrder, PartialIsHeld
  <1>3. /\ DetectorIsPast /\ SpeechIsCovered /\ SegmentsAreApart
        /\ BaselineIsPast
    BY DEF Init, DetectorIsPast, SpeechIsCovered, SegmentsAreApart,
       BaselineIsPast
  <1>4. QED
    BY <1>1, <1>2, <1>3 DEF IInv
-----------------------------------------------------------------------------
(***************************************************************************)
(* The slot of the partial run.                                            *)
(***************************************************************************)
SlotInv == PartialTypeOK /\ RunsInOrder /\ PartialIsHeld

LEMMA CancelKeepsSlot ==
  ASSUME SlotInv, CancelPartial, UNCHANGED <<started, run, runStream>>
  PROVE  SlotInv'
  <1>1. PartialTypeOK'
    BY DEF SlotInv, PartialTypeOK, CancelPartial
  <1>2. RunsInOrder'
    BY InputAssumption
       DEF SlotInv, PartialTypeOK, RunsInOrder, PartialIsHeld, CancelPartial,
           Alive, Runs
  <1>3. PartialIsHeld'
    BY InputAssumption
       DEF SlotInv, PartialTypeOK, PartialIsHeld, CancelPartial, Alive, Runs
  <1>4. QED
    BY <1>1, <1>2, <1>3 DEF SlotInv

LEMMA StartKeepsSlot ==
  ASSUME SlotInv, StartPartial, stream \in Streams
  PROVE  SlotInv'
  <1> DEFINE new == started + 1
  <1>1. /\ new \in Runs /\ cancelSlot = 0 /\ ~inFlight
        /\ run[new] = "unborn" /\ new \notin runCancelled
    BY InputAssumption
       DEF SlotInv, PartialTypeOK, RunsInOrder, PartialIsHeld, StartPartial,
           MayStartPartial, Runs
  <1>2. /\ started' = new /\ current' = new /\ cancelSlot' = new /\ inFlight'
        /\ run' = [run EXCEPT ![new] = "transcribing"]
        /\ runStream' = [runStream EXCEPT ![new] = stream]
        /\ inFlight' = TRUE
        /\ runCancelled' = runCancelled
    BY DEF StartPartial
  <1>3. \A k \in Runs : ~(Alive(k) /\ k \notin runCancelled)
    BY <1>1, InputAssumption DEF SlotInv, PartialIsHeld, Runs
  <1>4. \A k \in Runs : k # new => run'[k] = run[k]
    BY <1>1, <1>2 DEF SlotInv, PartialTypeOK
  <1>5. run'[new] = "transcribing"
    BY <1>1, <1>2 DEF SlotInv, PartialTypeOK
  <1>6. PartialTypeOK'
    BY <1>1, <1>2, InputAssumption DEF SlotInv, PartialTypeOK, Runs
  <1>7. RunsInOrder'
    BY <1>1, <1>2, <1>4, InputAssumption
       DEF SlotInv, PartialTypeOK, RunsInOrder, Runs
  <1>8. PartialIsHeld'
    <2>1. ASSUME NEW k \in Runs
          PROVE  cancelSlot' = k <=> Alive(k)' /\ k \notin runCancelled'
      <3>1. CASE k = new
        BY <1>1, <1>2, <1>5, <3>1 DEF Alive
      <3>2. CASE k # new
        BY <1>2, <1>3, <1>4, <3>2 DEF Alive
      <3>3. QED
        BY <3>1, <3>2
    <2>2. cancelSlot' # 0
      BY <1>1, <1>2, InputAssumption DEF Runs
    <2>3. QED
      BY <1>2, <2>1, <2>2 DEF PartialIsHeld
  <1>9. QED
    BY <1>6, <1>7, <1>8 DEF SlotInv

(* A run that moves on alive changes nothing the slot depends on.          *)
LEMMA StepKeepsSlot ==
  ASSUME SlotInv, NEW k \in Runs, NEW from, NEW to,
         Step(k, from, to), OnlyRuns,
         from \notin {"unborn", "gone"},
         to \in {"publishing", "writing", "leaving"}
  PROVE  SlotInv'
  <1>1. run' = [run EXCEPT ![k] = to] /\ run[k] = from
    BY DEF Step
  <1>2. UNCHANGED <<inFlight, cancelSlot, current, started, runStream,
                    runCancelled>>
    BY DEF OnlyRuns, slotVars
  <1>3. \A j \in Runs : Alive(j)' <=> Alive(j)
    BY <1>1 DEF Alive, SlotInv, PartialTypeOK
  <1>4. \A j \in Runs : run[j] = "unborn" => run'[j] = "unborn"
    BY <1>1 DEF SlotInv, PartialTypeOK
  <1>5. PartialTypeOK'
    BY <1>1, <1>2 DEF SlotInv, PartialTypeOK
  <1>6. RunsInOrder'
    BY <1>2, <1>3, <1>4 DEF SlotInv, RunsInOrder
  <1>7. PartialIsHeld'
    BY <1>2, <1>3 DEF SlotInv, PartialIsHeld
  <1>8. QED
    BY <1>5, <1>6, <1>7 DEF SlotInv

LEMMA LeaveKeepsSlot ==
  ASSUME SlotInv, NEW k \in Runs, PartialLeaves(k)
  PROVE  SlotInv'
  <1>1. /\ run[k] = "leaving" /\ run' = [run EXCEPT ![k] = "gone"]
        /\ UNCHANGED <<current, started, runStream, runCancelled>>
    BY DEF PartialLeaves, Step
  <1>2. k # 0
    BY InputAssumption DEF Runs
  <1>3. \A j \in Runs : j # k => run'[j] = run[j]
    BY <1>1 DEF SlotInv, PartialTypeOK
  <1>4. run'[k] = "gone"
    BY <1>1 DEF SlotInv, PartialTypeOK
  <1>5. PartialTypeOK'
    BY <1>1 DEF SlotInv, PartialTypeOK, PartialLeaves
  <1>6. CASE current = k
    <2>1. cancelSlot = k
      BY <1>1, <1>6 DEF SlotInv, RunsInOrder, Alive
    <2>2. inFlight' = FALSE /\ cancelSlot' = 0
      BY <1>6 DEF PartialLeaves, ReleasesSlot
    <2>3. \A j \in Runs : j # 0 /\ (Alive(j)' => j # k)
      BY <1>4, InputAssumption DEF Alive, Runs
    <2>4. \A j \in Runs : j # k => ~(Alive(j) /\ j \notin runCancelled)
      BY <2>1 DEF SlotInv, PartialIsHeld
    <2>5. PartialIsHeld'
      BY <1>1, <1>3, <2>2, <2>3, <2>4 DEF PartialIsHeld, Alive
    <2>6. RunsInOrder'
      BY <1>1, <1>3, <1>6, <2>2, <2>3 DEF SlotInv, RunsInOrder, Alive
    <2>7. QED
      BY <1>5, <2>5, <2>6 DEF SlotInv
  <1>7. CASE current # k
    <2>1. cancelSlot # k /\ UNCHANGED <<inFlight, cancelSlot>>
      BY <1>2, <1>7 DEF SlotInv, RunsInOrder, PartialLeaves, ReleasesSlot
    <2>2. PartialIsHeld'
      BY <1>1, <1>3, <1>4, <2>1 DEF SlotInv, PartialIsHeld, Alive
    <2>3. RunsInOrder'
      BY <1>1, <1>3, <1>4, <1>7, <2>1 DEF SlotInv, RunsInOrder, Alive
    <2>4. QED
      BY <1>5, <2>2, <2>3 DEF SlotInv
  <1>8. QED
    BY <1>6, <1>7

LEMMA SlotKeeps == StreamTypeOK /\ SlotInv /\ [Next]_vars => SlotInv'
  <1> SUFFICES ASSUME StreamTypeOK, SlotInv, [Next]_vars PROVE SlotInv'
    OBVIOUS
  <1>0. UNCHANGED <<slotVars, runVars>> => SlotInv'
    BY DEF SlotInv, PartialTypeOK, RunsInOrder, PartialIsHeld, Alive,
       slotVars, runVars
  <1>1. CASE AudioStart \/ AudioStartRejected \/ AudioStop \/ InputCancel
    BY <1>1, CancelKeepsSlot
       DEF AudioStart, AudioStartRejected, AudioStop, InputCancel
  <1>2. CASE AudioChunk
    <2>1. stream \in Streams
      BY <1>2, InputAssumption DEF AudioChunk, StreamTypeOK, Streams
    <2>2. QED
      BY <1>0, <1>2, <2>1, StartKeepsSlot DEF AudioChunk
  <1>3. CASE ConnectionEnds
    <2>1. UNCHANGED <<started, run, runStream>>
      BY <1>3 DEF ConnectionEnds
    <2>2. QED
      BY <1>0, <1>3, <2>1, CancelKeepsSlot DEF ConnectionEnds, runVars
  <1>4. ASSUME NEW k \in Runs, PartialStep(k) PROVE SlotInv'
    <2>1. CASE PartialLeaves(k)
      BY <2>1, LeaveKeepsSlot
    <2>2. CASE PartialTranscribed(k)
      BY <2>2, StepKeepsSlot DEF PartialTranscribed
    <2>3. CASE PartialDropped(k)
      BY <2>3, StepKeepsSlot DEF PartialDropped
    <2>4. CASE PartialAccepted(k)
      BY <2>4, StepKeepsSlot DEF PartialAccepted
    <2>5. CASE PartialRefused(k)
      BY <2>5, StepKeepsSlot DEF PartialRefused
    <2>6. CASE PartialWritten(k)
      BY <2>6, StepKeepsSlot DEF PartialWritten
    <2>7. QED
      BY <1>4, <2>1, <2>2, <2>3, <2>4, <2>5, <2>6 DEF PartialStep
  <1>5. CASE UNCHANGED vars
    BY <1>0, <1>5 DEF vars
  <1>6. QED
    BY <1>1, <1>2, <1>3, <1>4, <1>5 DEF Next
-----------------------------------------------------------------------------
(***************************************************************************)
(* The detector and its segments.                                          *)
(***************************************************************************)
(* None empty, none overlapping the next.                                  *)
Apart(s) ==
  /\ \A i \in 1 .. Len(s) : s[i].from < s[i].to
  /\ \A i \in 1 .. Len(s) - 1 : s[i].to <= s[i + 1].from

(* A segment that starts after the last one ends can be added.             *)
LEMMA AppendApart ==
  ASSUME NEW s \in Segments, NEW from \in Frames, NEW to \in Frames,
         Apart(s), from < to, s # <<>> => s[Len(s)].to <= from
  PROVE  LET t == Append(s, [from |-> from, to |-> to])
         IN  /\ t \in Segments /\ Apart(t)
             /\ t # <<>> /\ t[Len(t)].to = to
             /\ \A i \in 1 .. Len(s) : i \in 1 .. Len(t) /\ t[i] = s[i]
             /\ Len(t) \in 1 .. Len(t) /\ t[Len(t)].from = from
  <1> DEFINE e == [from |-> from, to |-> to]
             t == Append(s, e)
  <1>1. e \in [from : Frames, to : Frames] /\ e.from = from /\ e.to = to
    OBVIOUS
  <1> HIDE DEF e
  <1>2. /\ t \in Segments /\ Len(t) = Len(s) + 1
        /\ \A i \in 1 .. Len(s) : t[i] = s[i]
        /\ t[Len(s) + 1] = e
    BY <1>1, AppendProperties DEF Segments
  <1>3. Len(s) \in Nat /\ Len(t) \in Nat /\ (s = <<>> <=> Len(s) = 0)
    BY <1>2, EmptySeq DEF Segments
  <1> HIDE DEF t
  <1>4. \A i \in 1 .. Len(t) : t[i].from < t[i].to
    BY <1>1, <1>2, <1>3 DEF Apart
  <1>5. \A i \in 1 .. Len(t) - 1 : t[i].to <= t[i + 1].from
    <2> SUFFICES ASSUME NEW i \in 1 .. Len(t) - 1
                 PROVE  t[i].to <= t[i + 1].from
      OBVIOUS
    <2>1. CASE i = Len(s)
      BY <1>1, <1>2, <1>3, <2>1
    <2>2. CASE i # Len(s)
      <3>1. i \in 1 .. Len(s) - 1 /\ i + 1 \in 1 .. Len(s)
        BY <1>2, <1>3, <2>2
      <3>2. QED
        BY <1>2, <1>3, <3>1 DEF Apart
    <2>3. QED
      BY <2>1, <2>2
  <1>6. /\ t # <<>> /\ t[Len(t)].to = to /\ t[Len(t)].from = from
        /\ \A i \in 1 .. Len(s) : i \in 1 .. Len(t)
        /\ Len(t) \in 1 .. Len(t)
    BY <1>1, <1>2, <1>3, EmptySeq
  <1>7. QED
    BY <1>2, <1>4, <1>5, <1>6 DEF t, e, Apart

DetectorInv ==
  /\ StreamTypeOK /\ AudioTypeOK
  /\ DetectorIsPast /\ SpeechIsCovered /\ SegmentsAreApart /\ BaselineIsPast

LEMMA StartKeepsDetector == DetectorInv /\ AudioStart => DetectorInv'
  <1> SUFFICES ASSUME DetectorInv, AudioStart PROVE DetectorInv'
    OBVIOUS
  <1> USE InputAssumption DEF AudioStart, ResetDetector, ResetBaseline
  <1>1. StreamTypeOK'
    BY DEF DetectorInv, StreamTypeOK
  <1>2. AudioTypeOK'
    <2>1. segments' \in Segments
      BY NoSegments
    <2>2. speech' \in BOOLEAN /\ segment' \in BOOLEAN
      OBVIOUS
    <2>3. /\ audio' \in Frames /\ loud' \subseteq Frames /\ silence' \in Frames
          /\ segStart' \in Frames /\ lastSize' \in Frames
      BY DEF Frames
    <2>4. QED
      BY <2>1, <2>2, <2>3 DEF AudioTypeOK
  <1>3. DetectorIsPast' /\ SpeechIsCovered' /\ BaselineIsPast'
    BY DEF DetectorIsPast, SpeechIsCovered, BaselineIsPast
  <1>4. SegmentsAreApart'
    BY DEF SegmentsAreApart
  <1>5. QED
    BY <1>1, <1>2, <1>3, <1>4 DEF DetectorInv

(* A loud frame opens a segment or prolongs the active one.                *)
LEMMA LoudKeepsDetector ==
  ASSUME DetectorInv, AudioChunk, LoudFrame PROVE DetectorInv'
  <1> USE InputAssumption
  <1>1. /\ stream # 0 /\ stream' = stream /\ audio' = audio + 1
        /\ audio \in Nat /\ audio < MaxFrames
        /\ segments' = segments
        /\ lastSize' = lastSize \/ lastSize' = audio'
        /\ UNCHANGED <<ended, opened, stream, guarded>>
    BY DEF AudioChunk, LoudFrame, StartPartial, DetectorInv, AudioTypeOK,
       Frames, streamVars
  <1>2. /\ loud' = loud \cup {audio} /\ silence' = 0
        /\ speech' = TRUE /\ segment' = TRUE
        /\ segStart' = IF segment THEN segStart ELSE audio
    BY <1>1 DEF LoudFrame, DetectorInv, DetectorIsPast
  <1>3. StreamTypeOK'
    BY <1>1 DEF DetectorInv, StreamTypeOK
  <1>4. AudioTypeOK'
    BY <1>1, <1>2 DEF DetectorInv, AudioTypeOK, Frames
  <1>5. DetectorIsPast' /\ BaselineIsPast'
    <2>1. segStart' < audio'
      BY <1>1, <1>2 DEF DetectorInv, DetectorIsPast, AudioTypeOK, Frames
    <2>2. \A f \in loud' : f < audio'
      BY <1>1, <1>2 DEF DetectorInv, DetectorIsPast, AudioTypeOK, Frames
    <2>3. segments # <<>> => segments[Len(segments)].to <= audio'
      <3>1. segments \in Segments
        BY DEF DetectorInv, AudioTypeOK
      <3>2. segments # <<>> => segments[Len(segments)].to \in Nat
        BY <3>1, LastTyped DEF Frames
      <3>3. QED
        BY <1>1, <3>2 DEF DetectorInv, DetectorIsPast
    <2>4. lastSize' <= audio'
      BY <1>1 DEF DetectorInv, BaselineIsPast, AudioTypeOK, Frames
    <2>5. QED
      BY <1>1, <1>2, <2>1, <2>2, <2>3, <2>4 DEF DetectorIsPast, BaselineIsPast
  <1>6. SpeechIsCovered'
    <2> SUFFICES ASSUME NEW f \in loud'
                 PROVE  \/ \E i \in 1 .. Len(segments) : Within(f, segments[i])
                        \/ segStart' <= f /\ f < audio'
      BY <1>1, <1>2 DEF SpeechIsCovered, Within
    <2>1. CASE f = audio
      BY <1>1, <1>2, <2>1 DEF DetectorInv, DetectorIsPast, AudioTypeOK, Frames
    <2>2. CASE f \in loud
      <3>1. \/ \E i \in 1 .. Len(segments) : Within(f, segments[i])
            \/ segment /\ segStart <= f /\ f < audio
        BY <2>2 DEF DetectorInv, SpeechIsCovered
      <3>2. f \in Nat
        BY <2>2 DEF DetectorInv, AudioTypeOK, Frames
      <3>3. QED
        BY <1>1, <1>2, <3>1, <3>2
    <2>3. QED
      BY <1>2, <2>1, <2>2
  <1>7. SegmentsAreApart'
    BY <1>1, <1>2 DEF DetectorInv, DetectorIsPast, SegmentsAreApart
  <1>8. QED
    BY <1>3, <1>4, <1>5, <1>6, <1>7 DEF DetectorInv

(* Completing the active segment, up to the end of the audio received.     *)
LEMMA CompleteKeepsSegments ==
  ASSUME DetectorInv, NEW end \in Frames, stream # 0, CompleteSegment(end),
         audio <= end
  PROVE  /\ segments' \in Segments /\ Apart(segments')
         /\ segment' = FALSE /\ segStart' \in Frames
         /\ segments' # <<>> => segments'[Len(segments')].to <= end
         /\ \A f \in loud : \E i \in 1 .. Len(segments') :
              Within(f, segments'[i])
  <1> USE InputAssumption
  <1>1. /\ segments \in Segments /\ Apart(segments) /\ audio \in Nat
        /\ segStart \in Frames /\ loud \subseteq Frames /\ end \in Nat
        /\ segment \in BOOLEAN
    BY DEF DetectorInv, AudioTypeOK, SegmentsAreApart, Segments, Apart, Frames
  <1>2. \A f \in loud :
          \/ \E i \in 1 .. Len(segments) : Within(f, segments[i])
          \/ segment /\ segStart <= f /\ f < audio
    BY DEF DetectorInv, SpeechIsCovered
  <1>3. CASE segment
    <2>1. /\ segments' = Append(segments, [from |-> segStart, to |-> end])
          /\ segment' = FALSE /\ segStart' = 0
      BY <1>3 DEF CompleteSegment
    <2>2. segStart < end
      BY <1>1, <1>3 DEF DetectorInv, DetectorIsPast, Frames
    <2>3. segments # <<>> => segments[Len(segments)].to <= segStart
      BY <1>3 DEF DetectorInv, SegmentsAreApart
    <2>4. /\ segments' \in Segments /\ Apart(segments')
          /\ segments' # <<>> /\ segments'[Len(segments')].to = end
          /\ \A i \in 1 .. Len(segments) :
               i \in 1 .. Len(segments') /\ segments'[i] = segments[i]
          /\ Len(segments') \in 1 .. Len(segments')
          /\ segments'[Len(segments')].from = segStart
      BY <1>1, <2>1, <2>2, <2>3, AppendApart
    <2>5. ASSUME NEW f \in loud
          PROVE  \E i \in 1 .. Len(segments') : Within(f, segments'[i])
      <3>1. CASE \E i \in 1 .. Len(segments) : Within(f, segments[i])
        BY <2>4, <3>1
      <3>2. CASE segStart <= f /\ f < audio
        <4>1. segStart <= f /\ f < end
          BY <1>1, <3>2 DEF Frames
        <4>2. Within(f, segments'[Len(segments')])
          BY <2>4, <4>1 DEF Within
        <4>3. QED
          BY <2>4, <4>2
      <3>3. QED
        BY <1>2, <3>1, <3>2
    <2>6. 0 \in Frames /\ end <= end
      BY <1>1 DEF Frames
    <2>7. QED
      BY <2>1, <2>4, <2>5, <2>6
  <1>4. CASE ~segment
    <2>1. /\ segments' = segments /\ segment' = FALSE /\ segStart' = segStart
      BY <1>4 DEF CompleteSegment
    <2>2. segments # <<>> => segments[Len(segments)].to <= end
      <3>1. segments \in Segments
        BY <1>1
      <3>2. segments # <<>> => segments[Len(segments)].to \in Nat
        BY <3>1, LastTyped DEF Frames
      <3>3. QED
        BY <1>1, <3>2 DEF DetectorInv, DetectorIsPast
    <2>3. QED
      BY <1>1, <1>2, <1>4, <2>1, <2>2
  <1>5. QED
    BY <1>1, <1>3, <1>4

(* A quiet frame is passed over, prolongs the pause, or ends the segment.  *)
LEMMA QuietKeepsDetector ==
  ASSUME DetectorInv, AudioChunk, QuietFrame PROVE DetectorInv'
  <1> USE InputAssumption
  <1>1. /\ stream # 0 /\ audio' = audio + 1 /\ audio \in Nat
        /\ audio + 1 \in Frames /\ audio' \in Frames
        /\ UNCHANGED <<ended, opened, stream, guarded, loud>>
    BY DEF AudioChunk, QuietFrame, DetectorInv, AudioTypeOK, Frames, streamVars
  <1>2. lastSize' \in Frames /\ lastSize' <= audio'
    <2>1. lastSize' = lastSize \/ lastSize' = audio'
      BY DEF AudioChunk, StartPartial
    <2>2. lastSize \in Frames /\ lastSize <= audio
      BY <1>1 DEF DetectorInv, AudioTypeOK, BaselineIsPast
    <2>3. QED
      BY <1>1, <2>1, <2>2 DEF Frames
  <1>3. StreamTypeOK' /\ BaselineIsPast'
    BY <1>1, <1>2 DEF DetectorInv, StreamTypeOK, BaselineIsPast
  <1>4. \A f \in loud' : f \in Frames /\ f < audio /\ f < audio'
    BY <1>1 DEF DetectorInv, AudioTypeOK, DetectorIsPast, Frames
  <1>5. CASE speech /\ ReleasesSpeech
    <2>1. speech' = FALSE /\ silence' = 0 /\ CompleteSegment(audio + 1)
      BY <1>5 DEF QuietFrame
    <2>2. audio <= audio + 1
      BY <1>1
    <2>3. /\ segments' \in Segments /\ Apart(segments')
          /\ segment' = FALSE /\ segStart' \in Frames
          /\ segments' # <<>> => segments'[Len(segments')].to <= audio + 1
          /\ \A f \in loud : \E i \in 1 .. Len(segments') :
               Within(f, segments'[i])
      BY <1>1, <2>1, <2>2, CompleteKeepsSegments
    <2>4. silence' \in Frames /\ silence' <= audio'
      BY <1>1, <2>1 DEF Frames
    <2>5. speech' \in BOOLEAN /\ segment' \in BOOLEAN
      BY <2>1, <2>3
    <2>6. AudioTypeOK'
      BY <1>1, <1>2, <1>4, <2>3, <2>4, <2>5 DEF AudioTypeOK
    <2>7. DetectorIsPast'
      BY <1>1, <1>4, <2>1, <2>3, <2>4 DEF DetectorIsPast
    <2>8. SpeechIsCovered' /\ SegmentsAreApart'
      BY <1>1, <2>3 DEF SpeechIsCovered, SegmentsAreApart, Apart, Within
    <2>9. QED
      BY <1>3, <2>6, <2>7, <2>8 DEF DetectorInv
  <1>6. CASE ~(speech /\ ReleasesSpeech)
    <2>1. /\ silence' = silence \/ silence' = silence + 1
          /\ UNCHANGED <<speech, segment, segStart, segments>>
      BY <1>6 DEF QuietFrame
    <2>2. silence' \in Frames /\ silence' <= audio'
      BY <1>1, <2>1 DEF DetectorInv, DetectorIsPast, AudioTypeOK, Frames
    <2>3. segStart \in Frames /\ segments \in Segments
      BY DEF DetectorInv, AudioTypeOK
    <2>4. segments # <<>> => segments[Len(segments)].to <= audio'
      <3>1. segments # <<>> => segments[Len(segments)].to \in Nat
        BY <2>3, LastTyped DEF Frames
      <3>2. QED
        BY <1>1, <3>1 DEF DetectorInv, DetectorIsPast
    <2>5. speech' \in BOOLEAN /\ segment' \in BOOLEAN
      BY <2>1 DEF DetectorInv, AudioTypeOK
    <2>6. AudioTypeOK'
      BY <1>1, <1>2, <1>4, <2>1, <2>2, <2>3, <2>5 DEF AudioTypeOK
    <2>7. segment => segStart < audio'
      BY <1>1, <2>3 DEF DetectorInv, DetectorIsPast, Frames
    <2>8. DetectorIsPast'
      BY <1>1, <1>4, <2>1, <2>2, <2>4, <2>7 DEF DetectorInv, DetectorIsPast
    <2>9. SpeechIsCovered'
      <3> SUFFICES ASSUME NEW f \in loud
                   PROVE  \/ \E i \in 1 .. Len(segments) :
                               Within(f, segments[i])
                          \/ segment /\ segStart <= f /\ f < audio'
        BY <1>1, <2>1 DEF SpeechIsCovered, Within
      <3>1. QED
        BY <1>1, <1>4 DEF DetectorInv, SpeechIsCovered
    <2>10. SegmentsAreApart'
      BY <1>1, <2>1 DEF DetectorInv, SegmentsAreApart
    <2>11. QED
      BY <1>3, <2>6, <2>8, <2>9, <2>10 DEF DetectorInv
  <1>7. QED
    BY <1>5, <1>6

(* audio.stop completes the active segment; the stream is gone then.       *)
LEMMA StopKeepsDetector == DetectorInv /\ AudioStop => DetectorInv'
  <1> SUFFICES ASSUME DetectorInv, AudioStop PROVE DetectorInv'
    OBVIOUS
  <1> USE InputAssumption
  <1>1. /\ stream # 0 /\ stream' = 0 /\ guarded' = FALSE /\ audio' = 0
        /\ CompleteSegment(audio)
        /\ UNCHANGED <<ended, opened, loud, speech, silence, lastSize>>
    BY DEF AudioStop
  <1>2. audio \in Frames /\ audio <= audio
    BY DEF DetectorInv, AudioTypeOK, Frames
  <1>3. /\ segments' \in Segments /\ Apart(segments')
        /\ segment' = FALSE /\ segStart' \in Frames
        /\ \A f \in loud : \E i \in 1 .. Len(segments') :
             Within(f, segments'[i])
    BY <1>1, <1>2, CompleteKeepsSegments
  <1>4. StreamTypeOK'
    <2>1. opened' \in 0 .. MaxStreams /\ stream' \in 0 .. opened'
      BY <1>1 DEF DetectorInv, StreamTypeOK
    <2>2. ended' \in BOOLEAN /\ guarded' \in BOOLEAN
      BY <1>1 DEF DetectorInv, StreamTypeOK
    <2>3. QED
      BY <2>1, <2>2 DEF StreamTypeOK
  <1>5. AudioTypeOK'
    <2>1. audio' \in Frames
      BY <1>1 DEF Frames
    <2>2. speech' \in BOOLEAN /\ segment' \in BOOLEAN
      BY <1>1, <1>3 DEF DetectorInv, AudioTypeOK
    <2>3. loud' \subseteq Frames /\ silence' \in Frames /\ lastSize' \in Frames
      BY <1>1 DEF DetectorInv, AudioTypeOK
    <2>4. QED
      BY <1>3, <2>1, <2>2, <2>3 DEF AudioTypeOK
  <1>6. DetectorIsPast' /\ BaselineIsPast'
    BY <1>1 DEF DetectorIsPast, BaselineIsPast
  <1>7. SpeechIsCovered' /\ SegmentsAreApart'
    BY <1>1, <1>3 DEF SpeechIsCovered, SegmentsAreApart, Apart, Within
  <1>8. QED
    BY <1>4, <1>5, <1>6, <1>7 DEF DetectorInv

(* input.cancel drops the audio and what was loud in it; the completed     *)
(* segments stay apart.                                                    *)
LEMMA CancelKeepsDetector == DetectorInv /\ InputCancel => DetectorInv'
  <1> SUFFICES ASSUME DetectorInv, InputCancel PROVE DetectorInv'
    OBVIOUS
  <1> USE InputAssumption
  <1>1. /\ stream' = 0 /\ audio' = 0 /\ speech' = FALSE /\ silence' = 0
        /\ loud' = {} /\ lastSize' = 0
        /\ UNCHANGED <<ended, opened, guarded, segment, segStart, segments>>
    BY DEF InputCancel
  <1>2. StreamTypeOK'
    <2>1. opened' \in 0 .. MaxStreams /\ stream' \in 0 .. opened'
      BY <1>1 DEF DetectorInv, StreamTypeOK
    <2>2. ended' \in BOOLEAN /\ guarded' \in BOOLEAN
      BY <1>1 DEF DetectorInv, StreamTypeOK
    <2>3. QED
      BY <2>1, <2>2 DEF StreamTypeOK
  <1>3. AudioTypeOK'
    <2>1. audio' \in Frames /\ silence' \in Frames /\ lastSize' \in Frames
      BY <1>1 DEF Frames
    <2>2. speech' \in BOOLEAN /\ segment' \in BOOLEAN
      BY <1>1 DEF DetectorInv, AudioTypeOK
    <2>3. loud' \subseteq Frames /\ segStart' \in Frames /\ segments' \in Segments
      BY <1>1 DEF DetectorInv, AudioTypeOK
    <2>4. QED
      BY <2>1, <2>2, <2>3 DEF AudioTypeOK
  <1>4. DetectorIsPast' /\ BaselineIsPast' /\ SpeechIsCovered'
    BY <1>1 DEF DetectorIsPast, BaselineIsPast, SpeechIsCovered
  <1>5. SegmentsAreApart'
    BY <1>1 DEF DetectorInv, SegmentsAreApart
  <1>6. QED
    BY <1>2, <1>3, <1>4, <1>5 DEF DetectorInv

LEMMA DetectorKeeps == DetectorInv /\ [Next]_vars => DetectorInv'
  <1> SUFFICES ASSUME DetectorInv, [Next]_vars PROVE DetectorInv'
    OBVIOUS
  <1>0. UNCHANGED <<streamVars, audio, vadVars, lastSize>> => DetectorInv'
    BY DEF DetectorInv, StreamTypeOK, AudioTypeOK, DetectorIsPast,
       SpeechIsCovered, SegmentsAreApart, BaselineIsPast, Within, streamVars,
       vadVars
  <1>1. CASE AudioStart \/ AudioStop \/ InputCancel
    BY <1>1, StartKeepsDetector, StopKeepsDetector, CancelKeepsDetector
  <1>2. CASE AudioChunk
    BY <1>2, LoudKeepsDetector, QuietKeepsDetector DEF AudioChunk
  <1>3. CASE ConnectionEnds
    <2>1. /\ ended' = TRUE
          /\ UNCHANGED <<opened, stream, guarded, audio, vadVars, lastSize>>
      BY <1>3 DEF ConnectionEnds
    <2>2. StreamTypeOK'
      BY <2>1 DEF DetectorInv, StreamTypeOK
    <2>3. QED
      BY <2>1, <2>2
         DEF DetectorInv, AudioTypeOK, DetectorIsPast, SpeechIsCovered,
             SegmentsAreApart, BaselineIsPast, Within, vadVars
  <1>4. CASE AudioStartRejected
    BY <1>0, <1>4 DEF AudioStartRejected
  <1>5. ASSUME NEW k \in Runs, PartialStep(k) PROVE DetectorInv'
    BY <1>0, <1>5
       DEF PartialStep, PartialTranscribed, PartialDropped, PartialAccepted,
           PartialRefused, PartialWritten, PartialLeaves, OnlyRuns
  <1>6. CASE UNCHANGED vars
    BY <1>0, <1>6 DEF vars
  <1>7. QED
    BY <1>1, <1>2, <1>3, <1>4, <1>5, <1>6 DEF Next
-----------------------------------------------------------------------------
(***************************************************************************)
(* The theorems.                                                           *)
(***************************************************************************)
(* Only a stream that is open is ever marked.                              *)
LEMMA HistoryKeeps ==
  StreamTypeOK /\ HistoryTypeOK /\ [Next]_vars => HistoryTypeOK'
  <1> SUFFICES ASSUME StreamTypeOK, HistoryTypeOK, [Next]_vars
               PROVE  HistoryTypeOK'
    OBVIOUS
  <1>1. CASE AudioStartRejected
    <2>1. stream \in Streams
      BY <1>1, InputAssumption DEF AudioStartRejected, StreamTypeOK, Streams
    <2>2. QED
      BY <1>1, <2>1 DEF AudioStartRejected, HistoryTypeOK
  <1>2. CASE ~AudioStartRejected
    <2>1. refused' = refused
      BY <1>2 DEF Next, AudioStart, AudioChunk, AudioStop, InputCancel,
         ConnectionEnds, PartialStep, PartialTranscribed, PartialDropped,
         PartialAccepted, PartialRefused, PartialWritten, PartialLeaves,
         OnlyRuns, vars
    <2>2. QED
      BY <2>1 DEF HistoryTypeOK
  <1>3. QED
    BY <1>1, <1>2

LEMMA Invariance == Spec => []IInv
  <1>1. IInv <=> SlotInv /\ DetectorInv /\ HistoryTypeOK
    BY DEF IInv, SlotInv, DetectorInv, TypeOK
  <1>2. IInv /\ [Next]_vars => IInv'
    <2>1. IInv => StreamTypeOK
      BY DEF IInv, TypeOK
    <2>2. SlotInv' /\ DetectorInv' /\ HistoryTypeOK' => IInv'
      BY DEF IInv, SlotInv, DetectorInv, TypeOK
    <2>3. IInv /\ [Next]_vars => HistoryTypeOK'
      BY <1>1, <2>1, HistoryKeeps
    <2>4. QED
      BY <1>1, <2>1, <2>2, <2>3, SlotKeeps, DetectorKeeps
  <1>3. QED
    BY <1>2, InitInvariant, PTL DEF Spec

-----------------------------------------------------------------------------
(***************************************************************************)
(* The runs of one stream.                                                 *)
(***************************************************************************)
(* A run that has been cancelled and still lives transcribes a stream that *)
(* is no longer open, unless an audio.start was refused.                   *)
OrderInv ==
  /\ \A k \in Runs : run[k] # "unborn" => runStream[k] \in 1 .. opened
  /\ \A k \in Runs : run[k] = "unborn" => k > started
  /\ ~ended /\ stream # 0 =>
       \A k \in Runs : Alive(k) /\ k \in runCancelled =>
         runStream[k] # stream \/ stream \in refused
  /\ PartialsInOrder

(* Whatever cancels the run: it closes the stream, opens one nobody has    *)
(* transcribed, or refuses one.                                            *)
LEMMA CancelKeepsOrder ==
  ASSUME OrderInv, StreamTypeOK, SlotInv,
         UNCHANGED <<started, run, runStream>>,
         \/ AudioStart \/ AudioStartRejected \/ AudioStop \/ InputCancel
         \/ ConnectionEnds
  PROVE  OrderInv'
  <1>1. \A k \in Runs : Alive(k)' <=> Alive(k)
    BY DEF Alive
  <1>2. refused \subseteq refused' /\ opened \in Nat
        /\ (opened' = opened \/ opened' = opened + 1)
    BY DEF AudioStart, AudioStartRejected, AudioStop, InputCancel,
       ConnectionEnds, StreamTypeOK, streamVars
  <1>3. \A k \in Runs : run'[k] # "unborn" => runStream'[k] \in 1 .. opened'
    BY <1>2 DEF OrderInv
  <1>4. \A k \in Runs : run'[k] = "unborn" => k > started'
    BY DEF OrderInv
  <1>5. PartialsInOrder'
    BY <1>2 DEF OrderInv, PartialsInOrder
  <1>6. ASSUME ~ended', stream' # 0, NEW k \in Runs, Alive(k)',
               k \in runCancelled'
        PROVE  runStream'[k] # stream' \/ stream' \in refused'
    <2>1. AudioStart \/ AudioStartRejected
      BY <1>6 DEF AudioStop, InputCancel, ConnectionEnds
    <2>2. CASE AudioStart
      <3>1. runStream[k] \in 1 .. opened
        BY <1>1, <1>6 DEF OrderInv, Alive
      <3>2. QED
        BY <1>2, <2>2, <3>1 DEF AudioStart
    <2>3. CASE AudioStartRejected
      BY <2>3 DEF AudioStartRejected, streamVars
    <2>4. QED
      BY <2>1, <2>2, <2>3
  <1>7. QED
    BY <1>3, <1>4, <1>5, <1>6 DEF OrderInv

(* A run is only started when the one before it over the same stream has   *)
(* gone: if it lived, it would have the slot or be cancelled.              *)
LEMMA StartKeepsOrder ==
  ASSUME OrderInv, StreamTypeOK, SlotInv, ~ended, stream # 0,
         StartPartial, UNCHANGED <<streamVars, refused>>
  PROVE  OrderInv'
  <1> DEFINE new == started + 1
  <1>1. /\ new \in Runs /\ new \in Nat /\ cancelSlot = 0 /\ started \in Nat
        /\ started' = new
        /\ run' = [run EXCEPT ![new] = "transcribing"]
        /\ runStream' = [runStream EXCEPT ![new] = stream]
        /\ runCancelled' = runCancelled
        /\ run[new] = "unborn" /\ new \notin runCancelled
    BY InputAssumption
       DEF SlotInv, PartialTypeOK, RunsInOrder, PartialIsHeld, StartPartial,
           MayStartPartial, Runs
  <1>2. /\ run'[new] = "transcribing" /\ runStream'[new] = stream
        /\ \A k \in Runs : k # new =>
             run'[k] = run[k] /\ runStream'[k] = runStream[k]
    BY <1>1 DEF SlotInv, PartialTypeOK
  <1>3. /\ stream \in 1 .. opened
        /\ stream' = stream /\ opened' = opened /\ refused' = refused
        /\ ended' = ended
    BY DEF StreamTypeOK, streamVars
  <1>4. \A k \in Runs : k \in Nat
    BY InputAssumption DEF Runs
  <1> HIDE DEF new
  <1>5. \A k \in Runs : run'[k] # "unborn" => runStream'[k] \in 1 .. opened'
    BY <1>2, <1>3 DEF OrderInv
  <1>6. \A k \in Runs : run'[k] = "unborn" => k > started'
    <2> SUFFICES ASSUME NEW k \in Runs, run'[k] = "unborn" PROVE k > started'
      OBVIOUS
    <2>1. k # new /\ k > started
      BY <1>2 DEF OrderInv
    <2>2. QED
      BY <1>1, <1>4, <2>1 DEF new
  <1>7. ASSUME NEW k \in Runs, Alive(k)', k \in runCancelled'
        PROVE  runStream'[k] # stream' \/ stream' \in refused'
    <2>1. k # new /\ Alive(k)
      BY <1>1, <1>2, <1>7 DEF Alive
    <2>2. QED
      BY <1>1, <1>2, <1>3, <1>7, <2>1 DEF OrderInv
  <1>8. PartialsInOrder'
    <2> SUFFICES ASSUME NEW j \in Runs, NEW k \in Runs, j < k,
                        run'[k] # "unborn", runStream'[j] = runStream'[k],
                        runStream'[k] \notin refused'
                 PROVE  run'[j] = "gone"
      BY DEF PartialsInOrder
    <2>1. CASE k = new
      <3>1. j # new /\ runStream[j] = stream /\ stream \notin refused
        BY <1>2, <1>3, <1>4, <2>1
      <3>2. run[j] # "unborn"
        BY <1>1, <1>4, <2>1 DEF OrderInv, new
      <3>3. ~Alive(j)
        <4>1. j \notin runCancelled => ~Alive(j)
          BY <1>1, <1>4, InputAssumption DEF SlotInv, PartialIsHeld, Runs
        <4>2. QED
          BY <3>1, <4>1 DEF OrderInv
      <3>4. QED
        BY <1>2, <3>1, <3>2, <3>3 DEF Alive
    <2>2. CASE k # new
      <3>1. j # new
        BY <1>1, <1>2, <1>4, <2>2 DEF SlotInv, RunsInOrder, new
      <3>2. QED
        BY <1>2, <1>3, <2>2, <3>1 DEF OrderInv, PartialsInOrder
    <2>3. QED
      BY <2>1, <2>2
  <1>9. QED
    BY <1>3, <1>5, <1>6, <1>7, <1>8 DEF OrderInv

(* A run that goes on is the same run, and one that leaves stays away.     *)
LEMMA StepKeepsOrder ==
  ASSUME OrderInv, SlotInv, NEW k \in Runs, PartialStep(k)
  PROVE  OrderInv'
  <1>1. /\ UNCHANGED <<streamVars, started, runStream, runCancelled, refused>>
        /\ \A j \in Runs : j # k => run'[j] = run[j]
        /\ run[k] \notin {"unborn", "gone"} /\ run'[k] # "unborn"
    BY DEF SlotInv, PartialTypeOK, PartialStep, PartialTranscribed,
       PartialDropped, PartialAccepted, PartialRefused, PartialWritten,
       PartialLeaves, OnlyRuns, Step
  <1>2. \A j \in Runs : /\ Alive(j)' => Alive(j)
                        /\ run'[j] = "unborn" <=> run[j] = "unborn"
                        /\ run[j] = "gone" => run'[j] = "gone"
    BY <1>1 DEF Alive
  <1>3. QED
    BY <1>1, <1>2 DEF OrderInv, PartialsInOrder, streamVars

LEMMA OrderKeeps == IInv /\ OrderInv /\ [Next]_vars => OrderInv'
  <1> SUFFICES ASSUME IInv, OrderInv, [Next]_vars PROVE OrderInv'
    OBVIOUS
  <1>0. StreamTypeOK /\ SlotInv
    BY DEF IInv, TypeOK, SlotInv
  <1>1. CASE AudioStart \/ AudioStartRejected \/ AudioStop \/ InputCancel
             \/ ConnectionEnds
    <2>1. UNCHANGED <<started, run, runStream>>
      BY <1>1 DEF AudioStart, AudioStartRejected, AudioStop, InputCancel,
         ConnectionEnds
    <2>2. QED
      BY <1>0, <1>1, <2>1, CancelKeepsOrder
  <1>2. CASE AudioChunk
    <2>1. UNCHANGED <<streamVars, slotVars, runVars, refused>> => OrderInv'
      BY DEF OrderInv, PartialsInOrder, Alive, streamVars, runVars
    <2>2. QED
      BY <1>0, <1>2, <2>1, StartKeepsOrder DEF AudioChunk
  <1>3. ASSUME NEW k \in Runs, PartialStep(k) PROVE OrderInv'
    BY <1>0, <1>3, StepKeepsOrder
  <1>4. CASE UNCHANGED vars
    BY <1>4 DEF vars, OrderInv, PartialsInOrder, Alive, streamVars, runVars
  <1>5. QED
    BY <1>1, <1>2, <1>3, <1>4 DEF Next
-----------------------------------------------------------------------------
(* The input state of a session keeps its types.                           *)
THEOREM TypeCorrect == Spec => []TypeOK
  <1>1. IInv => TypeOK
    BY DEF IInv
  <1>2. QED
    BY <1>1, Invariance, PTL

(* At most one partial run is of use at a time, partialCancel holds its    *)
(* cancel and partialInFlight says so, however many cancelled runs are     *)
(* still on their way out.                                                 *)
THEOREM PartialHeld == Spec => []PartialIsHeld
  <1>1. IInv => PartialIsHeld
    BY DEF IInv
  <1>2. QED
    BY <1>1, Invariance, PTL

(* The detector loses no loud frame of a stream, whatever its length and   *)
(* the release are.                                                        *)
THEOREM SpeechCovered == Spec => []SpeechIsCovered
  <1>1. IInv => SpeechIsCovered
    BY DEF IInv
  <1>2. QED
    BY <1>1, Invariance, PTL

(* The segments of a stream are not empty and do not overlap.              *)
THEOREM SegmentsStayApart == Spec => []SegmentsAreApart
  <1>1. IInv => SegmentsAreApart
    BY DEF IInv
  <1>2. QED
    BY <1>1, Invariance, PTL

(* lastPartialSize never exceeds the audio of the open stream.             *)
THEOREM BaselinePast == Spec => []BaselineIsPast
  <1>1. IInv => BaselineIsPast
    BY DEF IInv
  <1>2. QED
    BY <1>1, Invariance, PTL

(* The books of a stream are right: the three facts above, at every moment *)
(* and for every number of streams, frames and partial runs.               *)
THEOREM StreamAccounted == Spec => []StreamIsAccounted
  <1>1. IInv => StreamIsAccounted
    BY DEF IInv, StreamIsAccounted
  <1>2. QED
    BY <1>1, Invariance, PTL

(* Partial transcripts of a stream are written in the order of their       *)
(* audio, and one at most after its end, as long as no audio.start is      *)
(* refused meanwhile (runPartialASR and its cancellations), for any number *)
(* of streams and of runs that outlive their cancellation.                 *)
THEOREM PartialsOrdered == Spec => []PartialsInOrder
  <1>1. Init => OrderInv
    BY InputAssumption DEF Init, OrderInv, PartialsInOrder, Alive, Runs
  <1>2. OrderInv => PartialsInOrder
    BY DEF OrderInv
  <1>3. QED
    BY <1>1, <1>2, OrderKeeps, Invariance, PTL DEF Spec
=============================================================================
