------------------------- MODULE VoiceResponseProofs -------------------------
(***************************************************************************)
(* Proofs about VoiceResponse, for every channel capacity and every bound  *)
(* on the reply: the types, the order of the segments, what a response     *)
(* tells its client at the end, and that it keeps its contract.            *)
(***************************************************************************)
EXTENDS VoiceResponse, SequenceTheorems, TLAPS

(* Where runResponse is tells what the segmenter and the callback hold.    *)
Phases ==
  /\ pending <= emitted
  /\ pc \in {"callback", "flushing"} => pending > 0
  /\ pc \in {"preparing", "streaming", "llm_done", "joining"} => pending = 0
  /\ pc \in {"flushing", "llm_done", "joining"} => ~buffered
  /\ buffered => emitted < MaxSegments
  /\ pc = "preparing" => emitted = 0 /\ ~said
  /\ pc \in {"streaming", "callback", "flushing", "llm_done", "joining"} /\ said
       => buffered \/ emitted > 0
  /\ pc = "joining" => said /\ llmDone

(* Which goroutine has got how far when the channels are used.             *)
Channels ==
  /\ pc = "preparing" <=> tpc = "unborn"
  /\ closed => pc \in {"joining", "telling", "returned"}
  /\ pc = "joining" => closed
  /\ resultCh # "none" => tpc = "returned"
  /\ resultCh \in {"audio", "silent"} => closed
  /\ pc = "joining" /\ resultCh \in {"audio", "silent"} =>
       spoken = emitted /\ queue = <<>>

(* What runResponse has decided is what it tells, and it decides late.     *)
Verdicts ==
  /\ status # "none" => ~Undecided
  /\ pc = "telling" => status # "none"
  /\ done # "none" => pc = "returned" /\ done = status
  /\ status = "completed" =>
       /\ llmDone
       /\ emitted > 0 /\ spoken = emitted /\ ~buffered
       /\ tpc = "returned" /\ queue = <<>> /\ closed

IInv ==
  /\ TypeOK
  /\ Phases
  /\ Channels
  /\ InOrder
  /\ Verdicts

USE DEF verdictVars, Undecided
-----------------------------------------------------------------------------
(* A segment that moves from the callback to the channel is still counted. *)
LEMMA MovedOne ==
  ASSUME NEW a \in Nat, NEW s \in {0, 1}, NEW l \in Nat, NEW p \in Nat,
         NEW t, a + s + l + p = t
  PROVE  a + s + (l + 1) + (p - 1) = t
  OBVIOUS

(* Sending a segment keeps the channel numbered without gaps.              *)
LEMMA AppendNumbered ==
  ASSUME NEW q \in Seq(Nat), NEW b \in Nat, NEW e,
         \A i \in 1 .. Len(q) : q[i] = b + i,
         e = b + Len(q) + 1
  PROVE  \A i \in 1 .. Len(Append(q, e)) : Append(q, e)[i] = b + i
  <1>1. e \in Nat
    OBVIOUS
  <1>2. /\ Len(Append(q, e)) = Len(q) + 1
        /\ \A i \in 1 .. Len(q) : Append(q, e)[i] = q[i]
        /\ Append(q, e)[Len(q) + 1] = e
    BY <1>1, AppendProperties
  <1>3. QED
    BY <1>2

(* Receiving one does, with the base moved by one.                         *)
LEMMA TailNumbered ==
  ASSUME NEW q \in Seq(Nat), NEW b \in Nat, q # <<>>,
         \A i \in 1 .. Len(q) : q[i] = b + i
  PROVE  /\ Len(Tail(q)) = Len(q) - 1
         /\ \A i \in 1 .. Len(Tail(q)) : Tail(q)[i] = b + 1 + i
  <1>1. /\ Len(Tail(q)) = Len(q) - 1
        /\ \A i \in 1 .. Len(Tail(q)) : Tail(q)[i] = q[i + 1]
    BY HeadTailProperties
  <1>2. QED
    BY <1>1

LEMMA InitInvariant == Init => IInv
  <1> SUFFICES ASSUME Init PROVE IInv
    OBVIOUS
  <1>1. TypeOK
    <2>1. /\ pc = "preparing" /\ exit = "none" /\ done = "none"
          /\ status = "none" /\ told \in Seq(Statuses)
          /\ loop = "reading" /\ cancels \in 0 .. MaxCancels
          /\ tpc = "unborn" /\ resultCh = "none"
          /\ queue \in Seq(1 .. MaxSegments) /\ Len(queue) <= QueueCap
          /\ emitted \in 0 .. MaxSegments /\ pending \in 0 .. MaxSegments
          /\ spoken \in 0 .. MaxSegments /\ chunks \in 0 .. MaxChunks
      BY ConstantsAssumption, EmptySeq DEF Init
    <2>2. /\ said \in BOOLEAN /\ buffered \in BOOLEAN /\ llmDone \in BOOLEAN
          /\ closed \in BOOLEAN /\ voiced \in BOOLEAN /\ ctxDone \in BOOLEAN
          /\ ttsStop \in BOOLEAN /\ wireUp \in BOOLEAN
      BY DEF Init
    <2>3. QED
      BY <2>1, <2>2 DEF TypeOK, RunTypeOK, ChannelTypeOK, SpeechTypeOK,
         ContextTypeOK
  <1>2. Phases /\ Channels /\ Verdicts
    <2>1. Phases
      BY ConstantsAssumption DEF Init, Phases
    <2>2. Channels /\ Verdicts
      BY DEF Init, Channels, Verdicts
    <2>3. QED
      BY <2>1, <2>2
  <1>3. InOrder
    BY DEF Init, InOrder, InSpeech
  <1>4. QED
    BY <1>1, <1>2, <1>3 DEF IInv
-----------------------------------------------------------------------------
(* One lemma per step that moves a segment or a result; the others leave   *)
(* the channels alone.                                                     *)
LEMMA EnqueueAcceptedKeeps == IInv /\ EnqueueAccepted => IInv'
  <1> SUFFICES ASSUME IInv, EnqueueAccepted PROVE IInv'
    OBVIOUS
  <1> USE ConstantsAssumption
  <1>1. NextSegment \in 1 .. MaxSegments
    BY DEF IInv, TypeOK, RunTypeOK, ChannelTypeOK, SpeechTypeOK,
       ContextTypeOK, Phases, NextSegment, EnqueueAccepted
  <1>2. queue' \in Seq(1 .. MaxSegments) /\ Len(queue') = Len(queue) + 1
    BY <1>1, AppendProperties DEF IInv, TypeOK, RunTypeOK, ChannelTypeOK,
       SpeechTypeOK, ContextTypeOK, EnqueueAccepted
  <1>3. TypeOK'
    BY <1>2 DEF IInv, TypeOK, RunTypeOK, ChannelTypeOK, SpeechTypeOK,
       ContextTypeOK, Phases, EnqueueAccepted, HasRoom, runVars,
       ttsVars, envVars
  <1>4. Phases'
    BY DEF IInv, TypeOK, RunTypeOK, ChannelTypeOK, SpeechTypeOK,
       ContextTypeOK, Phases, EnqueueAccepted
  <1>5. Channels'
    BY DEF IInv, TypeOK, RunTypeOK, ChannelTypeOK, SpeechTypeOK,
       ContextTypeOK, Phases, Channels, EnqueueAccepted, ttsVars
  <1>6. InOrder'
    <2> SUFFICES ASSUME tpc # "returned" PROVE
          /\ spoken + InSpeech + Len(queue') + pending' = emitted
          /\ \A i \in 1 .. Len(queue') : queue'[i] = spoken + InSpeech + i
      BY DEF InOrder, InSpeech, EnqueueAccepted, ttsVars
    <2>1. /\ spoken + InSpeech + Len(queue) + pending = emitted
          /\ \A i \in 1 .. Len(queue) : queue[i] = spoken + InSpeech + i
          /\ spoken \in Nat /\ InSpeech \in {0, 1}
          /\ queue \in Seq(Nat)
          /\ Len(queue) \in Nat /\ pending \in Nat \ {0} /\ emitted \in Nat
      BY DEF IInv, TypeOK, RunTypeOK, ChannelTypeOK, SpeechTypeOK,
         ContextTypeOK, Phases, InOrder, InSpeech, EnqueueAccepted
    <2>2. NextSegment = spoken + InSpeech + Len(queue) + 1
      BY <2>1 DEF NextSegment
    <2>3. \A i \in 1 .. Len(queue') : queue'[i] = spoken + InSpeech + i
      <3> DEFINE b == spoken + InSpeech
      <3>1. b \in Nat
        BY <2>1
      <3>2. /\ \A i \in 1 .. Len(queue) : queue[i] = b + i
            /\ NextSegment = b + Len(queue) + 1
        BY <2>1, <2>2
      <3> HIDE DEF b
      <3>3. \A i \in 1 .. Len(Append(queue, NextSegment)) :
               Append(queue, NextSegment)[i] = b + i
        BY <2>1, <3>1, <3>2, AppendNumbered
      <3>4. QED
        BY <3>3 DEF EnqueueAccepted, b
    <2>4. pending' = pending - 1
      BY DEF EnqueueAccepted
    <2>5. spoken + InSpeech + Len(queue') + pending' = emitted
      <3>1. spoken + InSpeech + (Len(queue) + 1) + (pending - 1) = emitted
        BY <2>1, MovedOne
      <3>2. QED
        BY <1>2, <2>4, <3>1
    <2>6. QED
      BY <2>3, <2>5
  <1>7. Verdicts'
    BY DEF IInv, Channels, Verdicts, EnqueueAccepted
  <1>8. QED
    BY <1>3, <1>4, <1>5, <1>6, <1>7 DEF IInv

LEMMA ReceiveKeeps == IInv /\ Receive => IInv'
  <1> SUFFICES ASSUME IInv, Receive PROVE IInv'
    OBVIOUS
  <1> USE ConstantsAssumption
  <1>1. /\ queue' \in Seq(1 .. MaxSegments)
        /\ Len(queue') = Len(queue) - 1
        /\ Len(queue) \in Nat
    BY HeadTailProperties DEF IInv, TypeOK, RunTypeOK, ChannelTypeOK,
       SpeechTypeOK, ContextTypeOK, Receive
  <1>2. TypeOK'
    BY <1>1 DEF IInv, TypeOK, RunTypeOK, ChannelTypeOK, SpeechTypeOK,
       ContextTypeOK, Receive, SpeechReturns, Results, runVars, envVars
  <1>3. Phases'
    BY DEF IInv, Phases, Receive, runVars
  <1>4. Channels'
    BY DEF IInv, Channels, Receive, SpeechReturns, runVars
  <1>5. InOrder'
    <2> SUFFICES ASSUME tpc' = "synthesizing" PROVE
          /\ spoken + 1 + Len(queue') + pending = emitted
          /\ \A i \in 1 .. Len(queue') : queue'[i] = spoken + 1 + i
      BY DEF InOrder, InSpeech, Receive, SpeechReturns, runVars
    <2>1. /\ spoken + 0 + Len(queue) + pending = emitted
          /\ \A i \in 1 .. Len(queue) : queue[i] = spoken + 0 + i
          /\ queue \in Seq(Nat) /\ queue # <<>>
          /\ spoken \in Nat /\ pending \in Nat /\ emitted \in Nat
      BY DEF IInv, TypeOK, RunTypeOK, ChannelTypeOK, SpeechTypeOK,
         ContextTypeOK, InOrder, InSpeech, Receive
    <2>2. \A i \in 1 .. Len(queue) : queue[i] = spoken + i
      BY <2>1
    <2>3. \A i \in 1 .. Len(Tail(queue)) : Tail(queue)[i] = spoken + 1 + i
      BY <2>1, <2>2, TailNumbered
    <2>4. QED
      <3>1. spoken + 1 + Len(queue') + pending = emitted
        BY <1>1, <2>1
      <3>2. QED
        BY <2>3, <3>1 DEF Receive
  <1>6. Verdicts'
    BY DEF IInv, Verdicts, Receive, runVars
  <1>7. QED
    BY <1>2, <1>3, <1>4, <1>5, <1>6 DEF IInv

(* A result other than an error is only sent over a drained channel, so    *)
(* when it is received everything has been spoken.                         *)
LEMMA RangeEndsKeeps == IInv /\ RangeEnds => IInv'
  <1> SUFFICES ASSUME IInv, RangeEnds PROVE IInv'
    OBVIOUS
  <1>1. TypeOK'
    BY DEF IInv, TypeOK, RunTypeOK, ChannelTypeOK, SpeechTypeOK,
       ContextTypeOK, RangeEnds, SpeechReturns, Results, runVars, envVars
  <1>2. Phases'
    BY DEF IInv, Phases, RangeEnds, runVars
  <1>3. Channels'
    <2>1. pc = "joining" => spoken = emitted /\ queue = <<>>
      BY DEF IInv, TypeOK, RunTypeOK, ChannelTypeOK, SpeechTypeOK,
         ContextTypeOK, Phases, InOrder, InSpeech, RangeEnds, RangeIsOver
    <2>2. QED
      BY <2>1 DEF IInv, TypeOK, RunTypeOK, ChannelTypeOK, SpeechTypeOK,
         ContextTypeOK, Channels, RangeEnds, RangeIsOver,
         SpeechReturns, runVars
  <1>4. InOrder' /\ Verdicts'
    BY DEF IInv, InOrder, Verdicts, RangeEnds, SpeechReturns, runVars
  <1>5. QED
    BY <1>1, <1>2, <1>3, <1>4 DEF IInv

(* A reply is decided to be complete only by its speech's last result.      *)
LEMMA JoinKeeps == IInv /\ Join => IInv'
  <1> SUFFICES ASSUME IInv, Join PROVE IInv'
    OBVIOUS
  <1>1. TypeOK'
    BY DEF IInv, TypeOK, RunTypeOK, ChannelTypeOK, SpeechTypeOK,
       ContextTypeOK, Join, Decide, JoinStatus, Results, Statuses, Exits,
       ttsVars, envVars
  <1>2. Phases' /\ Channels' /\ InOrder'
    BY DEF IInv, TypeOK, RunTypeOK, ChannelTypeOK, SpeechTypeOK,
       ContextTypeOK, Phases, Channels, InOrder, InSpeech, Join, Decide,
       ttsVars
  <1>3. Verdicts'
    <2>1. status' # "none" /\ done' = "none" /\ pc' = "telling"
      BY DEF IInv, Verdicts, Join, Decide, JoinStatus
    <2>2. ASSUME status' = "completed"
          PROVE  /\ llmDone' /\ emitted' > 0 /\ spoken' = emitted'
                 /\ ~buffered' /\ tpc' = "returned" /\ queue' = <<>>
                 /\ closed'
      <3>1. resultCh = "audio"
        BY <2>2 DEF Join, Decide, JoinStatus
      <3>2. QED
        BY <3>1 DEF IInv, Phases, Channels, Join, ttsVars
    <2>3. QED
      BY <2>1, <2>2 DEF Verdicts
  <1>4. QED
    BY <1>1, <1>2, <1>3 DEF IInv

(* The returns that do not wait for the speech goroutine never report      *)
(* "completed".                                                            *)
LEMMA EarlyReturnsKeep ==
  IInv /\ (Unwind \/ FlushFails \/ LLMDoneFails) => IInv'
  <1> SUFFICES ASSUME IInv, Unwind \/ FlushFails \/ LLMDoneFails PROVE IInv'
    OBVIOUS
  <1> USE DEF IInv, Decide, ttsVars, envVars
  <1>1. CASE Unwind
    BY <1>1 DEF TypeOK, RunTypeOK, ChannelTypeOK, SpeechTypeOK, ContextTypeOK,
       Phases, Channels, InOrder, InSpeech, Verdicts,
       Unwind, BrokenStatus, Statuses, Exits
  <1>2. CASE FlushFails
    BY <1>2 DEF TypeOK, RunTypeOK, ChannelTypeOK, SpeechTypeOK, ContextTypeOK,
       Phases, Channels, InOrder, InSpeech, Verdicts,
       FlushFails, Statuses, Exits
  <1>3. CASE LLMDoneFails
    BY <1>3 DEF TypeOK, RunTypeOK, ChannelTypeOK, SpeechTypeOK, ContextTypeOK,
       Phases, Channels, InOrder, InSpeech, Verdicts,
       LLMDoneFails, Statuses, Exits
  <1>4. QED
    BY <1>1, <1>2, <1>3

(* What the client is told is what was decided.                            *)
LEMMA TellKeeps == IInv /\ Tell => IInv'
  <1> SUFFICES ASSUME IInv, Tell PROVE IInv'
    OBVIOUS
  <1> USE DEF IInv, ttsVars, envVars
  <1>1. told' \in Seq(Statuses)
    <2>1. told \in Seq(Statuses) /\ status \in Statuses
      BY DEF TypeOK, RunTypeOK, Verdicts, Tell
    <2>2. QED
      BY <2>1, AppendProperties DEF Tell, WriteDone
  <1>2. TypeOK'
    BY <1>1 DEF TypeOK, RunTypeOK, ChannelTypeOK, SpeechTypeOK, ContextTypeOK,
       Tell
  <1>3. Phases' /\ Channels' /\ InOrder' /\ Verdicts'
    BY DEF Phases, Channels, InOrder, InSpeech, Verdicts, Tell
  <1>4. QED
    BY <1>2, <1>3

LEMMA OtherRunStepsKeep == IInv /\ (EnqueueRefused \/ WriteLLMDone) => IInv'
  <1> SUFFICES ASSUME IInv, EnqueueRefused \/ WriteLLMDone PROVE IInv'
    OBVIOUS
  <1> USE DEF IInv, ttsVars, envVars
  <1>1. CASE EnqueueRefused
    BY <1>1 DEF TypeOK, RunTypeOK, ChannelTypeOK, SpeechTypeOK, ContextTypeOK,
       Phases, Channels, InOrder, InSpeech, Verdicts,
       EnqueueRefused, SpeechStopped
  <1>2. CASE WriteLLMDone
    BY <1>2 DEF TypeOK, RunTypeOK, ChannelTypeOK, SpeechTypeOK, ContextTypeOK,
       Phases, Channels, InOrder, InSpeech, Verdicts,
       WriteLLMDone
  <1>3. QED
    BY <1>1, <1>2

LEMMA ChatStepKeeps == IInv /\ ChatStep => IInv'
  <1> SUFFICES ASSUME IInv, ChatStep PROVE IInv'
    OBVIOUS
  <1> USE ConstantsAssumption DEF IInv, ttsVars, envVars
  <1>1. CASE Prepare
    <2>1. /\ TypeOK'
          /\ Phases'
          /\ Channels' /\ Verdicts'
      <3>1. TypeOK'
        BY <1>1 DEF TypeOK, RunTypeOK, ChannelTypeOK, SpeechTypeOK,
           ContextTypeOK, Prepare
      <3>2. Phases'
        BY <1>1 DEF Phases, Prepare
      <3>3. Channels' /\ Verdicts'
        BY <1>1 DEF Channels, Verdicts, Prepare
      <3>4. QED
        BY <3>1, <3>2, <3>3
    <2>2. InOrder'
      <3>1. tpc = "unborn"
        BY <1>1 DEF Channels, Prepare
      <3>2. InSpeech = 0 /\ InSpeech' = 0
        BY <1>1, <3>1 DEF InSpeech, Prepare
      <3>3. QED
        BY <1>1, <3>1, <3>2 DEF InOrder, Prepare
    <2>3. QED
      BY <2>1, <2>2
  <1>2. CASE Delta
    <2>1. TypeOK'
      BY <1>2 DEF TypeOK, RunTypeOK, ChannelTypeOK, SpeechTypeOK,
         ContextTypeOK, Phases, Delta
    <2>2. Phases'
      BY <1>2 DEF TypeOK, RunTypeOK, ChannelTypeOK, SpeechTypeOK,
         ContextTypeOK, Phases, Delta
    <2>3. Channels' /\ Verdicts'
      BY <1>2 DEF TypeOK, RunTypeOK, ChannelTypeOK, SpeechTypeOK,
         ContextTypeOK, Channels, Verdicts, Delta
    <2>4. InOrder'
      BY <1>2 DEF TypeOK, RunTypeOK, ChannelTypeOK, SpeechTypeOK,
         ContextTypeOK, Phases, InOrder, InSpeech, Delta
    <2>5. QED
      BY <2>1, <2>2, <2>3, <2>4
  <1>3. CASE StreamEnds
    <2>1. TypeOK'
      <3>1. emitted' \in 0 .. MaxSegments /\ pending' \in 0 .. MaxSegments
        BY <1>3 DEF TypeOK, RunTypeOK, Phases, StreamEnds
      <3>2. RunTypeOK'
        BY <1>3, <3>1 DEF TypeOK, RunTypeOK, StreamEnds
      <3>3. ChannelTypeOK' /\ SpeechTypeOK' /\ ContextTypeOK'
        BY <1>3 DEF TypeOK, ChannelTypeOK, SpeechTypeOK, ContextTypeOK,
           StreamEnds
      <3>4. QED
        BY <3>2, <3>3 DEF TypeOK
    <2>2. Phases'
      BY <1>3 DEF TypeOK, RunTypeOK, ChannelTypeOK, SpeechTypeOK,
         ContextTypeOK, Phases, StreamEnds
    <2>3. Channels'
      BY <1>3 DEF Channels, StreamEnds
    <2>4. Verdicts'
      BY <1>3 DEF Channels, Verdicts, StreamEnds
    <2>5. InOrder'
      <3>1. pending = 0 /\ InSpeech' = InSpeech
        BY <1>3 DEF Phases, InSpeech, StreamEnds
      <3>2. pending' - pending = emitted' - emitted
        BY <1>3, <3>1 DEF TypeOK, RunTypeOK, ChannelTypeOK, SpeechTypeOK,
           ContextTypeOK, StreamEnds
      <3>3. /\ Len(queue) \in Nat /\ pending' \in Nat /\ emitted' \in Nat
            /\ emitted \in Nat /\ spoken \in Nat /\ InSpeech \in Nat
        BY <2>1 DEF TypeOK, RunTypeOK, ChannelTypeOK, SpeechTypeOK,
           ContextTypeOK, InSpeech
      <3>4. QED
        BY <1>3, <3>1, <3>2, <3>3 DEF InOrder, StreamEnds
    <2>6. QED
      BY <2>1, <2>2, <2>3, <2>4, <2>5
  <1>4. CASE StreamFails
    BY <1>4 DEF TypeOK, RunTypeOK, ChannelTypeOK, SpeechTypeOK, ContextTypeOK,
       Phases, Channels, InOrder, InSpeech, Verdicts,
       StreamFails
  <1>5. QED
    BY <1>1, <1>2, <1>3, <1>4 DEF ChatStep

LEMMA SynthStepKeeps == IInv /\ SynthStep => IInv'
  <1> SUFFICES ASSUME IInv, SynthStep PROVE IInv'
    OBVIOUS
  <1> USE ConstantsAssumption DEF IInv, runVars, envVars
  <1>1. CASE Chunk
    BY <1>1 DEF TypeOK, RunTypeOK, ChannelTypeOK, SpeechTypeOK, ContextTypeOK,
       Phases, Channels, InOrder, InSpeech, Verdicts,
       Chunk
  <1>2. CASE SegmentEnds
    <2>1. spoken + 1 <= emitted
      BY <1>2 DEF TypeOK, RunTypeOK, ChannelTypeOK, SpeechTypeOK,
         ContextTypeOK, InOrder, InSpeech, SegmentEnds
    <2>2. TypeOK'
      BY <1>2, <2>1 DEF TypeOK, RunTypeOK, ChannelTypeOK, SpeechTypeOK,
         ContextTypeOK, SegmentEnds, SpeechReturns, Results
    <2>3. Phases' /\ Channels' /\ Verdicts'
      BY <1>2 DEF TypeOK, RunTypeOK, ChannelTypeOK, SpeechTypeOK,
         ContextTypeOK, Phases, Channels, Verdicts, SegmentEnds,
         SpeechReturns
    <2>4. InOrder'
      <3>1. /\ spoken \in Nat /\ Len(queue) \in Nat
            /\ pending \in Nat /\ emitted \in Nat
        BY DEF TypeOK, RunTypeOK, ChannelTypeOK, SpeechTypeOK
      <3>2. /\ spoken + 1 + Len(queue) + pending = emitted
            /\ \A i \in 1 .. Len(queue) : queue[i] = spoken + 1 + i
        BY <1>2, <3>1 DEF InOrder, InSpeech, SegmentEnds
      <3>3. CASE tpc' = "receiving"
        <4>1. /\ spoken' = spoken + 1 /\ InSpeech' = 0
              /\ UNCHANGED <<queue, pending, emitted>>
          BY <1>2, <3>3 DEF SegmentEnds, SpeechReturns, InSpeech
        <4>2. QED
          BY <3>1, <3>2, <4>1 DEF InOrder
      <3>4. CASE tpc' = "returned"
        BY <3>4 DEF InOrder
      <3>5. QED
        BY <1>2, <3>3, <3>4 DEF SegmentEnds, SpeechReturns
    <2>5. QED
      BY <2>2, <2>3, <2>4
  <1>3. CASE SegmentFails
    <2>1. TypeOK' /\ Phases'
      BY <1>3 DEF TypeOK, RunTypeOK, ChannelTypeOK, SpeechTypeOK,
         ContextTypeOK, Phases, SegmentFails, SpeechReturns, Results
    <2>2. Channels' /\ InOrder' /\ Verdicts'
      BY <1>3 DEF Channels, InOrder, Verdicts, SegmentFails,
         SpeechReturns
    <2>3. QED
      BY <2>1, <2>2
  <1>4. QED
    BY <1>1, <1>2, <1>3 DEF SynthStep

(* The client, the connection and the read loop touch none of the channels *)
(* of a response, nor what it has decided.                                 *)
LEMMA EnvironmentKeeps ==
  IInv /\ (Cancel \/ ClientCancels \/ AnswerCancel \/ LoseWire
            \/ UNCHANGED vars) => IInv'
  <1> SUFFICES ASSUME IInv, Cancel \/ ClientCancels \/ AnswerCancel \/ LoseWire
                            \/ UNCHANGED vars
               PROVE  IInv'
    OBVIOUS
  <1>0. told \in Seq(Statuses) /\ ContextTypeOK
    BY DEF IInv, TypeOK, RunTypeOK
  <1>1. UNCHANGED <<pc, exit, said, buffered, emitted, pending, llmDone, status,
                    done, queue, closed, resultCh, tpc, chunks, voiced, spoken,
                    ttsStop>>
    BY DEF Cancel, ClientCancels, AnswerCancel, LoseWire, vars, runVars, ttsVars
  <1>2. told' \in Seq(Statuses)
    <2>1. CASE AnswerCancel
      BY <1>0, <2>1, AppendProperties DEF AnswerCancel, WriteDone, Statuses
    <2>2. CASE ~AnswerCancel
      BY <1>0, <2>2 DEF Cancel, ClientCancels, LoseWire, vars, runVars
    <2>3. QED
      BY <2>1, <2>2
  <1>3. ContextTypeOK'
    <2>1. CASE ClientCancels
      <3>1. cancels' \in 0 .. MaxCancels
        BY <1>0, <2>1, ConstantsAssumption DEF ContextTypeOK, ClientCancels
      <3>2. ctxDone' \in BOOLEAN
        BY <1>0, <2>1 DEF ContextTypeOK, ClientCancels
      <3>3. QED
        BY <1>0, <2>1, <3>1, <3>2 DEF ContextTypeOK, ClientCancels
    <2>2. CASE AnswerCancel
      BY <1>0, <2>2 DEF ContextTypeOK, AnswerCancel
    <2>3. CASE Cancel \/ LoseWire \/ UNCHANGED vars
      BY <1>0, <2>3 DEF ContextTypeOK, Cancel, LoseWire, vars, envVars
    <2>4. QED
      BY <2>1, <2>2, <2>3
  <1>4. RunTypeOK' /\ ChannelTypeOK' /\ SpeechTypeOK'
    BY <1>1, <1>2 DEF IInv, TypeOK, RunTypeOK, ChannelTypeOK, SpeechTypeOK
  <1>5. Phases' /\ Channels' /\ Verdicts'
    BY <1>1 DEF IInv, Phases, Channels, Verdicts
  <1>6. InOrder'
    <2>1. InSpeech' = InSpeech
      BY <1>1 DEF InSpeech
    <2>2. QED
      BY <1>1, <2>1 DEF IInv, InOrder
  <1>7. QED
    BY <1>3, <1>4, <1>5, <1>6 DEF IInv, TypeOK

LEMMA NextInvariant == IInv /\ [Next]_vars => IInv'
  BY EnqueueAcceptedKeeps, ReceiveKeeps, RangeEndsKeeps, JoinKeeps,
     EarlyReturnsKeep, TellKeeps, OtherRunStepsKeep, ChatStepKeeps, SynthStepKeeps,
     EnvironmentKeeps
     DEF Next, RunStep, SpeechStep, Quiesced
-----------------------------------------------------------------------------
LEMMA Invariance == Spec => []IInv
  <1>1. QED
    BY InitInvariant, NextInvariant, PTL DEF Spec

(* The variables of one response keep their types, and the channel never   *)
(* holds more than its capacity.                                           *)
THEOREM TypeCorrect == Spec => []TypeOK
  <1>1. IInv => TypeOK
    BY DEF IInv
  <1>2. QED
    BY <1>1, Invariance, PTL

(* However long the reply and however small the channel, its segments      *)
(* reach the speech provider in order and without loss.                    *)
THEOREM SegmentsInOrder == Spec => []InOrder
  <1>1. IInv => InOrder
    BY DEF IInv
  <1>2. QED
    BY <1>1, Invariance, PTL

(* Cancelled while runResponse could still notice.                         *)
CancelledInTime == ctxDone /\ (Undecided \/ status # "completed")

LEMMA CancelledInTimeStays == IInv /\ CancelledInTime /\ [Next]_vars => CancelledInTime'
  <1> SUFFICES ASSUME IInv, CancelledInTime, [Next]_vars PROVE CancelledInTime'
    OBVIOUS
  <1>1. ctxDone'
    BY DEF CancelledInTime, Next, RunStep, EnqueueAccepted, EnqueueRefused, Unwind,
       FlushFails, WriteLLMDone, LLMDoneFails, Join, Tell, SpeechStep, Receive,
       RangeEnds, ChatStep, Prepare, Delta, StreamEnds, StreamFails, SynthStep,
       Chunk, SegmentEnds, SegmentFails, Cancel, ClientCancels, AnswerCancel,
       LoseWire, Quiesced, vars, envVars
  <1>2. CASE Unwind \/ FlushFails \/ Join
    BY <1>1, <1>2 DEF CancelledInTime, Unwind, FlushFails, Join, Decide, BrokenStatus,
       JoinStatus
  <1>3. CASE ~(Unwind \/ FlushFails \/ Join)
    <2>1. status' = status
      BY <1>3 DEF Next, RunStep, EnqueueAccepted, EnqueueRefused,
         WriteLLMDone, LLMDoneFails, Tell, SpeechStep, Receive, RangeEnds,
         ChatStep, Prepare, Delta, StreamEnds, StreamFails, SynthStep, Chunk,
         SegmentEnds, SegmentFails, Cancel, ClientCancels, AnswerCancel,
         LoseWire, Quiesced, vars, runVars
    <2>2. status # "completed"
      BY DEF IInv, Verdicts, CancelledInTime
    <2>3. QED
      BY <1>1, <2>1, <2>2 DEF CancelledInTime
  <1>4. QED
    BY <1>2, <1>3

(* A response reported as completed was spoken to the end, nothing of it   *)
(* is left running, and nobody had cancelled it when runResponse looked    *)
(* for the last time (session.go:1034, 1121 and 1145), wherever its two    *)
(* goroutines were then.                                                   *)
THEOREM CompletedMeansEarned == Spec => CompletedIsEarned
  <1>1. IInv => CompletedIsWhole
    BY DEF IInv, Verdicts, CompletedIsWhole
  <1>2. ctxDone /\ Undecided => CancelledInTime
    BY DEF CancelledInTime
  <1>3. IInv /\ CancelledInTime => done # "completed"
    BY DEF IInv, Verdicts, CancelledInTime
  <1>4. QED
    BY <1>1, <1>2, <1>3, CancelledInTimeStays, Invariance, PTL
       DEF Spec, CompletedIsEarned

(* A response that has said something tells a client that is still there   *)
(* how it ended: the only return without a verdict is that of an llm.done  *)
(* which cannot be written, and it is refused for its text only when there *)
(* is none.                                                                *)
THEOREM SpokenRepliesDone == Spec => []SpokenReplyIsDone
  <1>1. Init => SpokenReplyIsDone
    BY DEF Init, SpokenReplyIsDone
  <1>2. IInv /\ SpokenReplyIsDone /\ [Next]_vars => SpokenReplyIsDone'
    <2> SUFFICES ASSUME IInv, SpokenReplyIsDone, [Next]_vars,
                        pc' = "returned", wireUp', said'
                 PROVE  done' # "none"
      BY DEF SpokenReplyIsDone
    <2>1. CASE LLMDoneFails \/ Tell
      <3>1. wireUp /\ (LLMDoneFails => ~said /\ UNCHANGED said)
        BY <2>1 DEF LLMDoneFails, Tell, envVars
      <3>2. QED
        BY <2>1, <3>1 DEF IInv, Verdicts, LLMDoneFails, Tell
    <2>2. CASE ~(LLMDoneFails \/ Tell)
      <3>1. UNCHANGED <<pc, said, done>> /\ wireUp
        BY <2>2 DEF Next, RunStep, EnqueueAccepted, EnqueueRefused, Unwind,
           FlushFails, Join, Decide, WriteLLMDone, SpeechStep, Receive,
           RangeEnds, ChatStep, Prepare, Delta, StreamEnds, StreamFails,
           SynthStep, Chunk, SegmentEnds, SegmentFails, Cancel, ClientCancels,
           AnswerCancel, LoseWire, Quiesced, vars, runVars, envVars
      <3>2. QED
        BY <3>1 DEF SpokenReplyIsDone
    <2>3. QED
      BY <2>1, <2>2
  <1>3. QED
    BY <1>1, <1>2, Invariance, PTL DEF Spec
-----------------------------------------------------------------------------
(***************************************************************************)
(* Nobody waits for someone who waits for him.                             *)
(***************************************************************************)
(* The result of the speech stays where runResponse looks for it, and who  *)
(* takes it is about to return; a return that is not one of the two closes *)
(* the channel.                                                            *)
Handover ==
  /\ tpc = "returned" /\ resultCh = "none" =>
       pc \in {"unwinding", "flush_failed", "telling", "returned"}
  /\ pc \in {"telling", "returned"} /\ exit \notin Unjoined => closed

LEMMA HandoverKeeps == IInv /\ Handover /\ [Next]_vars => Handover'
  <1> SUFFICES ASSUME IInv, Handover, [Next]_vars PROVE Handover'
    OBVIOUS
  <1>1. Channels
    BY DEF IInv
  <1> USE <1>1 DEF Handover, Channels, runVars, ttsVars, envVars
  <1>2. CASE EnqueueAccepted \/ EnqueueRefused \/ WriteLLMDone
    BY <1>2 DEF EnqueueAccepted, EnqueueRefused, WriteLLMDone, SpeechStopped
  <1>3. CASE Unwind \/ FlushFails \/ LLMDoneFails \/ Join \/ Tell
    BY <1>3 DEF Unwind, FlushFails, LLMDoneFails, Join, Decide, Tell, Unjoined
  <1>4. CASE ChatStep
    BY <1>4 DEF ChatStep, Prepare, Delta, StreamEnds, StreamFails
  <1>5. CASE SpeechStep \/ SynthStep
    BY <1>5 DEF SpeechStep, Receive, RangeEnds, SynthStep, Chunk, SegmentEnds,
       SegmentFails, SpeechReturns
  <1>6. CASE Cancel \/ ClientCancels \/ AnswerCancel \/ LoseWire
             \/ UNCHANGED vars
    BY <1>6 DEF Cancel, ClientCancels, AnswerCancel, LoseWire, vars
  <1>7. QED
    BY <1>2, <1>3, <1>4, <1>5, <1>6 DEF Next, RunStep, Quiesced

(* The two goroutines of a response never wait for each other, however     *)
(* small the channel (session.go, enqueueTTSSegment, waitForTTS and the    *)
(* range of runRealtimeTTS): the safe half of AnsweredEnds and SpeechEnds. *)
THEOREM NoCircularWait == Spec => []NobodyWaitsInACircle
  <1>1. Init => Handover
    BY DEF Init, Handover
  <1>2. IInv /\ Handover => NobodyWaitsInACircle
    <2> SUFFICES ASSUME IInv, Handover PROVE NobodyWaitsInACircle
      OBVIOUS
    <2>1. RunWaits => queue # <<>> \/ closed
      <3>1. queue = <<>> => HasRoom
        BY ConstantsAssumption DEF HasRoom
      <3>2. QED
        BY <3>1 DEF RunWaits, IInv, Channels
    <2>2. RunWaits => tpc \in {"receiving", "synthesizing"}
      BY DEF RunWaits, SpeechStopped, IInv, TypeOK, SpeechTypeOK, Channels, Handover
    <2>3. pc = "returned" /\ exit \notin Unjoined => closed
      BY DEF Handover
    <2>4. QED
      BY <2>1, <2>2, <2>3 DEF NobodyWaitsInACircle, SpeechWaits, RangeIsOver
  <1>3. QED
    BY <1>1, <1>2, HandoverKeeps, Invariance, PTL DEF Spec
-----------------------------------------------------------------------------
(***************************************************************************)
(* The detailed response implements the abstract one: every step of its    *)
(* two goroutines is a step of ResponseContract, or leaves the verdict and *)
(* the audio alone.                                                        *)
(***************************************************************************)
(* Whoever has returned has cancelled the speech, so none begins later.    *)
Stopped == pc = "returned" => ttsStop

RInv == IInv /\ Stopped

LEMMA StoppedKeeps == Stopped /\ [Next]_vars => Stopped'
  <1> SUFFICES ASSUME Stopped, [Next]_vars PROVE Stopped'
    OBVIOUS
  <1> USE DEF Stopped, runVars, ttsVars, envVars
  <1>1. CASE RunStep
    BY <1>1 DEF RunStep, EnqueueAccepted, EnqueueRefused, Unwind, FlushFails,
       WriteLLMDone, LLMDoneFails, Join, Decide, Tell
  <1>2. CASE ChatStep
    BY <1>2 DEF ChatStep, Prepare, Delta, StreamEnds, StreamFails
  <1>3. CASE SpeechStep \/ SynthStep
    BY <1>3 DEF SpeechStep, Receive, RangeEnds, SynthStep, Chunk, SegmentEnds,
       SegmentFails
  <1>4. CASE Cancel \/ ClientCancels \/ AnswerCancel \/ LoseWire
             \/ UNCHANGED vars
    BY <1>4 DEF Cancel, ClientCancels, AnswerCancel, LoseWire, vars
  <1>5. QED
    BY <1>1, <1>2, <1>3, <1>4 DEF Next, Quiesced

LEMMA RInvariance == Spec => []RInv
  <1>1. Init => RInv
    BY InitInvariant DEF RInv, Stopped, Init
  <1>2. RInv /\ [Next]_vars => RInv'
    BY NextInvariant, StoppedKeeps DEF RInv
  <1>3. QED
    BY <1>1, <1>2, PTL DEF Spec
-----------------------------------------------------------------------------
LEMMA InitMaps == Init => Contract!ContractInit
  BY DEF Init, Contract!ContractInit, verdict, audio

(* While runResponse goes on, and its speech is where it was, the contract *)
(* sees nothing.                                                           *)
LEMMA SilentStep ==
  ASSUME pc # "returned", pc' # "returned", UNCHANGED <<tpc, chunks, told, loop>>
  PROVE  UNCHANGED Contract!contractVars
  BY DEF Contract!contractVars, verdict, audio

(* A return of runResponse is the verdict.                                 *)
LEMMA TellFinishes == IInv /\ Tell => Contract!Finish
  <1> SUFFICES ASSUME IInv, Tell PROVE Contract!Finish
    OBVIOUS
  <1>1. verdict = "running" /\ audio' = audio /\ UNCHANGED loop
    BY DEF Tell, verdict, audio, ttsVars, envVars
  <1>2. status \in Statuses
    BY DEF IInv, TypeOK, RunTypeOK, Verdicts, Tell
  <1>3. verdict' \in Contract!Endings /\ verdict' \in {status, "silent"}
    BY <1>2 DEF Tell, verdict, Statuses, Contract!Endings
  <1>4. verdict' = "completed" => audio = "quiet"
    BY <1>3 DEF IInv, Verdicts, audio
  <1>5. told' = IF verdict' = "silent" THEN told ELSE Append(told, verdict')
    BY <1>2 DEF Tell, WriteDone, verdict, Statuses
  <1>6. QED
    BY <1>1, <1>3, <1>4, <1>5 DEF Contract!Finish

LEMMA RunStepMaps ==
  IInv /\ RunStep => Contract!ContractNext \/ UNCHANGED Contract!contractVars
  <1> SUFFICES ASSUME IInv, RunStep
               PROVE  Contract!ContractNext \/ UNCHANGED Contract!contractVars
    OBVIOUS
  <1>0. pc # "returned" /\ UNCHANGED <<tpc, chunks, loop>>
    BY DEF RunStep, EnqueueAccepted, EnqueueRefused, Unwind, FlushFails,
       WriteLLMDone, LLMDoneFails, Join, Tell, ttsVars, envVars
  <1>1. CASE EnqueueAccepted \/ EnqueueRefused \/ WriteLLMDone \/ Unwind
             \/ FlushFails \/ Join
    <2>1. pc' # "returned" /\ UNCHANGED told
      BY <1>1 DEF EnqueueAccepted, EnqueueRefused, WriteLLMDone, Unwind,
         FlushFails, Join, Decide
    <2>2. QED
      BY <1>0, <2>1, SilentStep
  <1>2. CASE LLMDoneFails
    <2>1. done = "none"
      BY <1>0 DEF IInv, Verdicts
    <2>2. verdict = "running" /\ verdict' = "silent" /\ audio' = audio
      BY <1>0, <1>2, <2>1 DEF LLMDoneFails, verdict, audio
    <2>3. Contract!Finish
      BY <1>0, <1>2, <2>2 DEF LLMDoneFails, Contract!Finish, Contract!Endings
    <2>4. QED
      BY <2>3 DEF Contract!ContractNext
  <1>3. CASE Tell
    BY <1>3, TellFinishes DEF Contract!ContractNext
  <1>4. QED
    BY <1>1, <1>2, <1>3 DEF RunStep

(* Only the read loop asks for a cancellation, and it answers itself.      *)
LEMMA EnvironmentMaps ==
  Cancel \/ ClientCancels \/ AnswerCancel \/ LoseWire \/ UNCHANGED vars =>
    Contract!ContractNext \/ UNCHANGED Contract!contractVars
  <1> SUFFICES ASSUME Cancel \/ ClientCancels \/ AnswerCancel \/ LoseWire
                      \/ UNCHANGED vars
               PROVE  Contract!ContractNext \/ UNCHANGED Contract!contractVars
    OBVIOUS
  <1>1. verdict' = verdict /\ audio' = audio
    BY DEF Cancel, ClientCancels, AnswerCancel, LoseWire, vars, runVars, ttsVars,
       verdict, audio
  <1>2. CASE Cancel \/ LoseWire \/ UNCHANGED vars
    BY <1>1, <1>2 DEF Cancel, LoseWire, vars, runVars, envVars,
       Contract!contractVars
  <1>3. CASE ClientCancels
    BY <1>1, <1>3 DEF ClientCancels, runVars, Contract!AskToCancel,
       Contract!ContractNext
  <1>4. CASE AnswerCancel
    BY <1>1, <1>4 DEF AnswerCancel, WriteDone, Contract!AnswerAsk,
       Contract!ContractNext
  <1>5. QED
    BY <1>2, <1>3, <1>4

LEMMA ChatStepMaps ==
  IInv /\ ChatStep => UNCHANGED Contract!contractVars
  <1> SUFFICES ASSUME IInv, ChatStep PROVE UNCHANGED Contract!contractVars
    OBVIOUS
  <1>1. pc # "returned" /\ pc' # "returned" /\ UNCHANGED <<told, loop>>
    BY DEF ChatStep, Prepare, Delta, StreamEnds, StreamFails, envVars
  <1>2. CASE Prepare
    <2>1. tpc # "synthesizing" /\ tpc' # "synthesizing"
      BY <1>2 DEF Prepare, IInv, Channels
    <2>2. QED
      BY <1>1, <2>1 DEF Contract!contractVars, verdict, audio
  <1>3. CASE ~Prepare
    <2>1. UNCHANGED <<tpc, chunks>>
      BY <1>3 DEF ChatStep, Delta, StreamEnds, StreamFails, ttsVars
    <2>2. QED
      BY <1>1, <2>1, SilentStep
  <1>4. QED
    BY <1>2, <1>3

LEMMA SpeechMaps ==
  RInv /\ (SpeechStep \/ SynthStep) =>
    Contract!ContractNext \/ UNCHANGED Contract!contractVars
  <1> SUFFICES ASSUME RInv, SpeechStep \/ SynthStep
               PROVE  Contract!ContractNext \/ UNCHANGED Contract!contractVars
    OBVIOUS
  <1>0. verdict' = verdict /\ chunks \in Nat /\ UNCHANGED <<told, loop>>
    <2>1. UNCHANGED <<pc, done, told, loop>>
      BY DEF SpeechStep, Receive, RangeEnds, SynthStep, Chunk, SegmentEnds,
         SegmentFails, runVars, envVars
    <2>2. chunks \in Nat
      BY ConstantsAssumption DEF RInv, IInv, TypeOK, SpeechTypeOK
    <2>3. QED
      BY <2>1, <2>2 DEF verdict
  <1> USE DEF Contract!ContractNext, Contract!contractVars, audio
  <1>1. CASE Receive
    <2>1. CASE TTSCancelled
      BY <1>0, <1>1, <2>1 DEF Receive, SpeechReturns
    <2>2. CASE ~TTSCancelled
      <3>1. verdict = "running"
        BY <2>2 DEF RInv, Stopped, TTSCancelled, verdict
      <3>2. audio = "quiet" /\ audio' = "synth"
        BY <1>1, <2>2 DEF Receive
      <3>3. QED
        BY <1>0, <3>1, <3>2 DEF Contract!BeginSpeech
    <2>3. QED
      BY <2>1, <2>2
  <1>2. CASE RangeEnds
    BY <1>0, <1>2 DEF RangeEnds, SpeechReturns
  <1>3. CASE Chunk
    <2>1. tpc = "synthesizing" /\ tpc' = tpc /\ chunks' # 0
      BY <1>0, <1>3 DEF Chunk
    <2>2. CASE chunks = 0
      BY <1>0, <2>1, <2>2 DEF Contract!OpenStream
    <2>3. CASE chunks # 0
      BY <1>0, <2>1, <2>3
    <2>4. QED
      BY <2>2, <2>3
  <1>4. CASE SegmentEnds \/ SegmentFails
    <2>1. tpc = "synthesizing" /\ tpc' # "synthesizing"
      BY <1>4 DEF SegmentEnds, SegmentFails, SpeechReturns
    <2>2. QED
      BY <1>0, <2>1 DEF Contract!EndSpeech
  <1>5. QED
    BY <1>1, <1>2, <1>3, <1>4 DEF SpeechStep, SynthStep

LEMMA NextMaps ==
  RInv /\ [Next]_vars => [Contract!ContractNext]_Contract!contractVars
  <1> SUFFICES ASSUME RInv, [Next]_vars
               PROVE  Contract!ContractNext \/ UNCHANGED Contract!contractVars
    OBVIOUS
  <1>1. QED
    BY RunStepMaps, ChatStepMaps, SpeechMaps, EnvironmentMaps
       DEF RInv, Next, Quiesced

(* Whatever the two goroutines of a response, its providers, its client    *)
(* and the read loop do, the client sees what the contract promises:       *)
(* streams one at a time, one verdict of runResponse at most and one       *)
(* "cancelled" for each response.cancel, no speech begun after the verdict *)
(* of runResponse, and none left to send when that is "completed".         *)
THEOREM KeepsTheContract == Spec => KeepsContract
  <1>1. QED
    BY InitMaps, NextMaps, RInvariance, PTL
       DEF Spec, KeepsContract, Contract!ContractSpec
=============================================================================
