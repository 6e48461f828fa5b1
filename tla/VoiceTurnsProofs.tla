-------------------------- MODULE VoiceTurnsProofs --------------------------
(***************************************************************************)
(* Proofs about VoiceTurns, for any number of turns and requests: the      *)
(* types, what the place of the current response holds, and that no trace  *)
(* is left running without a way to find it.                               *)
(***************************************************************************)
EXTENDS VoiceTurns, TLAPS

(* A stage of the read loop fixes what it has still to do.                 *)
LoopPlace ==
  /\ at[Loop] \in {"start_trace", "start_open"} => opened < MaxTurns
  /\ at[Loop] \in {"start_open", "leaving", "ended"} => turnTrace = 0
  /\ at[Loop] \in CreateStages => asked > 0

(* The goroutine of a turn starts when its stream is stopped.              *)
Idle ==
  /\ stream <= opened
  /\ \A t \in Turns : t > opened \/ t = stream => at[t] = "idle"

(* A response that has not been created yet is untouched, and neither has  *)
(* the one that a goroutine is about to create.                            *)
Untouched ==
  /\ \A r \in Responses : phase[r] = "none" => r \notin cancelled
  /\ \A t \in Turns : at[t] # "over" => phase[t] = "none"
  /\ \A k \in Nat :
       k <= MaxRequests /\ (asked < k \/ (asked = k /\ at[Loop] \in CreateStages))
         => phase[MaxTurns + k] = "none"

IInv ==
  /\ TypeOK
  /\ LoopPlace
  /\ Idle
  /\ Untouched
  /\ SlotIsLive
  /\ RunningTraceIsHeld
-----------------------------------------------------------------------------
(* The goroutines are numbered apart: the read loop is not a turn, and the *)
(* response of a request is not that of a turn.                            *)
LEMMA Numbering ==
  /\ Loop \in Creators /\ Loop \notin Turns /\ 0 \notin Responses
  /\ Turns \subseteq Responses /\ Turns \subseteq Creators
  /\ \A c \in Creators : c # Loop => c \in Turns
  /\ \A k \in 1 .. MaxRequests : MaxTurns + k \in Responses \ Turns
  BY BoundsAssumption DEF Loop, Creators, Turns, Responses

LEMMA InitInvariant == Init => IInv
  <1> SUFFICES ASSUME Init PROVE IInv
    OBVIOUS
  <1> USE BoundsAssumption DEF Init
  <1>1. PlaceTypeOK
    BY DEF PlaceTypeOK, StagesOf, LoopStages, TurnStages
  <1>2. StreamTypeOK
    <2>1. opened \in 0 .. MaxTurns /\ stream \in {0} \cup Turns
      OBVIOUS
    <2>2. /\ ready \in BOOLEAN /\ autoRespond \in BOOLEAN /\ guarded \in BOOLEAN
          /\ auto \in [Turns -> BOOLEAN]
      OBVIOUS
    <2>3. QED
      BY <2>1, <2>2 DEF StreamTypeOK
  <1>3. ResponseTypeOK /\ TraceTypeOK
    BY DEF ResponseTypeOK, TraceTypeOK, Turns, Responses
  <1>4. LoopPlace
    BY DEF LoopPlace, Creators, CreateStages
  <1>5. Untouched
    <2>1. \A r \in Responses : phase[r] = "none" /\ r \notin cancelled
      OBVIOUS
    <2>2. at[Loop] \notin CreateStages
      BY DEF Creators, CreateStages
    <2>3. QED
      BY <2>1, <2>2, Numbering DEF Untouched
  <1>6. Idle /\ SlotIsLive /\ RunningTraceIsHeld
    BY Numbering DEF Idle, SlotIsLive, RunningTraceIsHeld
  <1>7. QED
    BY <1>1, <1>2, <1>3, <1>4, <1>5, <1>6 DEF IInv, TypeOK

(* A goroutine that moves to one of its own stages keeps the types.        *)
LEMMA GoTypes ==
  ASSUME PlaceTypeOK, NEW c \in Creators, NEW stage \in StagesOf(c),
         Go(c, stage)
  PROVE  PlaceTypeOK'
  BY DEF PlaceTypeOK, Go, StagesOf

LEMMA PlaceKeeps ==
  ASSUME PlaceTypeOK, TypeOK, [Next]_vars PROVE PlaceTypeOK'
  <1>0. CASE UNCHANGED at
    BY <1>0 DEF PlaceTypeOK, StagesOf
  <1>1. CASE ClientEvent
    <2>1. CASE SessionUpdate \/ InputCancel
      BY <1>0, <2>1 DEF SessionUpdate, InputCancel
    <2>2. CASE AudioStart \/ ResponseCreate \/ ResponseCancel \/ ConnectionEnds
      BY <2>2, GoTypes, Numbering DEF AudioStart, ResponseCreate,
         ResponseCancel, ConnectionEnds, StagesOf, LoopStages, CreateStages
    <2>3. CASE AudioStop
      BY <1>0, <2>3, GoTypes, Numbering DEF AudioStop, StagesOf, TurnStages,
         TypeOK, StreamTypeOK
    <2>4. QED
      BY <1>1, <2>1, <2>2, <2>3 DEF ClientEvent
  <1>2. CASE LoopStep
    BY <1>2, GoTypes, Numbering DEF LoopStep, StartCompletesTrace,
       StartOpensStream, StartRejected, CancelCompletesTrace,
       CloseCompletesTrace, HandlerReturns, StagesOf, LoopStages
  <1>3. ASSUME NEW c \in Creators, CreateStep(c) PROVE PlaceTypeOK'
    BY <1>3, GoTypes DEF CreateStep, CreateCancels, CreateReads, CreateSets,
       AfterCreate, StagesOf, LoopStages, TurnStages, CreateStages
  <1>4. ASSUME NEW t \in Turns, ASRStep(t) PROVE PlaceTypeOK'
    BY <1>4, GoTypes, Numbering DEF ASRStep, FinalASRFails, FinalASRIsEcho,
       FinalASR, StagesOf, TurnStages, CreateStages
  <1>5. ASSUME NEW r \in Responses, Answer(r) \/ Clear(r) PROVE PlaceTypeOK'
    BY <1>0, <1>5 DEF Answer, Clear
  <1>6. CASE UNCHANGED vars
    BY <1>0, <1>6 DEF vars
  <1>7. QED
    BY <1>1, <1>2, <1>3, <1>4, <1>5, <1>6 DEF Next

LEMMA StreamKeeps ==
  ASSUME TypeOK, LoopPlace, [Next]_vars PROVE StreamTypeOK'
  <1> USE DEF TypeOK, StreamTypeOK
  <1>1. CASE UNCHANGED <<configVars, streamVars>>
    BY <1>1 DEF configVars, streamVars
  <1>2. CASE SessionUpdate
    BY <1>2 DEF SessionUpdate, streamVars
  <1>3. CASE AudioStop
    BY <1>3 DEF AudioStop, configVars
  <1>4. CASE InputCancel
    BY <1>4 DEF InputCancel, configVars
  <1>5. CASE StartOpensStream
    <2>1. opened' \in 0 .. MaxTurns /\ stream' \in Turns
      BY <1>5, BoundsAssumption DEF StartOpensStream, LoopPlace, Turns
    <2>2. QED
      BY <1>5, <2>1 DEF StartOpensStream, configVars
  <1>6. CASE UNCHANGED vars
    BY <1>1, <1>6 DEF vars
  <1>7. QED
    <2>1. CASE ClientEvent
      BY <1>1, <1>2, <1>3, <1>4, <2>1 DEF ClientEvent, AudioStart,
         ResponseCreate, ResponseCancel, ConnectionEnds
    <2>2. CASE LoopStep
      BY <1>1, <1>5, <2>2 DEF LoopStep, StartCompletesTrace, StartRejected,
         CancelCompletesTrace, CloseCompletesTrace, HandlerReturns
    <2>3. ASSUME NEW c \in Creators, CreateStep(c)
          PROVE  UNCHANGED <<configVars, streamVars>>
      BY <2>3 DEF CreateStep, CreateCancels, CreateReads, CreateSets
    <2>4. ASSUME NEW t \in Turns, ASRStep(t)
          PROVE  UNCHANGED <<configVars, streamVars>>
      BY <2>4 DEF ASRStep, FinalASRFails, FinalASRIsEcho, FinalASR
    <2>5. ASSUME NEW r \in Responses, Answer(r) \/ Clear(r)
          PROVE  UNCHANGED <<configVars, streamVars>>
      BY <2>5 DEF Answer, Clear
    <2>6. QED
      BY <1>1, <1>6, <2>1, <2>2, <2>3, <2>4, <2>5 DEF Next

(* The response a goroutine is about to create has a number of its own.    *)
LEMMA NewResponse ==
  ASSUME TypeOK, LoopPlace, NEW c \in Creators, at[c] \in CreateStages
  PROVE  /\ ResponseOf(c) \in Responses
         /\ c = Loop => asked \in 1 .. MaxRequests
                        /\ ResponseOf(c) = MaxTurns + asked
         /\ c # Loop => c \in Turns /\ ResponseOf(c) = c
  <1>1. CASE c = Loop
    <2>1. asked \in 1 .. MaxRequests
      BY <1>1, BoundsAssumption DEF TypeOK, ResponseTypeOK, LoopPlace
    <2>2. QED
      BY <1>1, <2>1, Numbering DEF ResponseOf
  <1>2. CASE c # Loop
    BY <1>2, Numbering DEF ResponseOf
  <1>3. QED
    BY <1>1, <1>2

LEMMA ResponsesKeep ==
  ASSUME TypeOK, LoopPlace, [Next]_vars PROVE ResponseTypeOK'
  <1> USE DEF TypeOK, ResponseTypeOK
  <1>1. CASE UNCHANGED <<asked, responseVars>>
    BY <1>1 DEF responseVars
  <1>2. ASSUME CancelResponse, UNCHANGED asked PROVE ResponseTypeOK'
    BY <1>2 DEF CancelResponse
  <1>3. CASE ResponseCreate
    BY <1>3, BoundsAssumption DEF ResponseCreate, responseVars
  <1>4. ASSUME NEW c \in Creators, CreateSets(c) PROVE ResponseTypeOK'
    <2>1. ResponseOf(c) \in Responses
      BY <1>4, NewResponse DEF CreateSets, CreateStages
    <2>2. QED
      BY <1>4, <2>1 DEF CreateSets
  <1>5. ASSUME NEW r \in Responses, Answer(r) \/ Clear(r)
        PROVE  ResponseTypeOK'
    BY <1>5 DEF Answer, Clear
  <1>6. QED
    <2>1. CASE ClientEvent
      BY <1>1, <1>2, <1>3, <2>1 DEF ClientEvent, SessionUpdate, AudioStart,
         AudioStop, InputCancel, ResponseCancel, ConnectionEnds
    <2>2. CASE LoopStep
      BY <1>1, <2>2 DEF LoopStep, StartCompletesTrace, StartOpensStream,
         StartRejected, CancelCompletesTrace, CloseCompletesTrace,
         HandlerReturns
    <2>3. ASSUME NEW c \in Creators, CreateStep(c) PROVE ResponseTypeOK'
      BY <1>1, <1>2, <1>4, <2>3 DEF CreateStep, CreateCancels, CreateReads
    <2>4. ASSUME NEW t \in Turns, ASRStep(t) PROVE ResponseTypeOK'
      BY <1>1, <2>4 DEF ASRStep, FinalASRFails, FinalASRIsEcho, FinalASR
    <2>5. CASE UNCHANGED vars
      BY <1>1, <2>5 DEF vars
    <2>6. QED
      BY <1>5, <2>1, <2>2, <2>3, <2>4, <2>5 DEF Next
-----------------------------------------------------------------------------
(* Finishing traces: whoever finishes the trace the session holds empties  *)
(* its place, and nobody else does.                                        *)
LEMMA CompleteKeepsTrace ==
  ASSUME TraceTypeOK, RunningTraceIsHeld, CompleteOpenTrace, UNCHANGED held
  PROVE  TraceTypeOK' /\ RunningTraceIsHeld' /\ turnTrace' = 0
  BY DEF TraceTypeOK, RunningTraceIsHeld, CompleteOpenTrace, FinishTrace

LEMMA EndKeepsTrace ==
  ASSUME TraceTypeOK, RunningTraceIsHeld, NEW r \in Responses,
         EndHeldTrace(r), UNCHANGED held
  PROVE  /\ TraceTypeOK' /\ RunningTraceIsHeld'
         /\ turnTrace = 0 => turnTrace' = 0
  BY DEF TraceTypeOK, RunningTraceIsHeld, EndHeldTrace, FinishTrace

(* audio.start is the only step that puts a trace into the place.          *)
LEMMA TraceKeeps ==
  ASSUME TypeOK, LoopPlace, RunningTraceIsHeld, [Next]_vars
  PROVE  /\ TraceTypeOK' /\ RunningTraceIsHeld'
         /\ turnTrace = 0 /\ ~StartOpensStream => turnTrace' = 0
  <1> DEFINE Kept == /\ TraceTypeOK' /\ RunningTraceIsHeld'
                     /\ turnTrace = 0 /\ ~StartOpensStream => turnTrace' = 0
  <1> USE DEF TypeOK
  <1>1. CASE UNCHANGED traceVars
    BY <1>1 DEF traceVars, TraceTypeOK, RunningTraceIsHeld
  <1>2. ASSUME CompleteOpenTrace, UNCHANGED held PROVE Kept
    BY <1>2, CompleteKeepsTrace
  <1>3. ASSUME NEW r \in Responses, EndHeldTrace(r), UNCHANGED held PROVE Kept
    BY <1>3, EndKeepsTrace
  <1>4. CASE AudioStop
    <2>1. CASE guarded
      BY <1>2, <1>4, <2>1 DEF AudioStop
    <2>2. CASE ~guarded /\ ~ready
      BY <1>4, <2>2 DEF AudioStop, FinishTrace, TraceTypeOK,
         RunningTraceIsHeld
    <2>3. CASE ~guarded /\ ready
      <3>1. stream \in Responses
        BY <1>4, Numbering DEF AudioStop, StreamTypeOK
      <3>2. QED
        BY <1>4, <2>3, <3>1 DEF AudioStop, TraceTypeOK, RunningTraceIsHeld
    <2>4. QED
      BY <1>4, <2>1, <2>2, <2>3 DEF AudioStop
  <1>5. CASE StartOpensStream
    <2>1. opened + 1 \in Turns /\ turnTrace = 0
      BY <1>5, BoundsAssumption
         DEF StartOpensStream, LoopPlace, StreamTypeOK, Turns
    <2>2. \A t \in Turns : t # 0 /\ trace[t] # "running"
      BY <2>1 DEF RunningTraceIsHeld, Turns
    <2>3. TraceTypeOK'
      BY <1>5, <2>1 DEF StartOpensStream, TraceTypeOK
    <2>4. RunningTraceIsHeld'
      BY <1>5, <2>1, <2>2 DEF StartOpensStream, TraceTypeOK,
         RunningTraceIsHeld
    <2>5. QED
      BY <1>5, <2>3, <2>4 DEF StartOpensStream
  <1>6. ASSUME NEW c \in Creators, CreateReads(c) PROVE Kept
    BY <1>6, NewResponse DEF CreateReads, CreateStages, TraceTypeOK,
       RunningTraceIsHeld
  <1>7. QED
    <2>1. CASE ClientEvent
      BY <1>1, <1>4, <2>1 DEF ClientEvent, SessionUpdate, AudioStart,
         InputCancel, ResponseCreate, ResponseCancel, ConnectionEnds
    <2>2. CASE LoopStep
      BY <1>1, <1>2, <1>5, <2>2 DEF LoopStep, StartCompletesTrace,
         StartRejected, CancelCompletesTrace, CloseCompletesTrace,
         HandlerReturns
    <2>3. ASSUME NEW c \in Creators, CreateStep(c) PROVE Kept
      BY <1>1, <1>6, <2>3 DEF CreateStep, CreateCancels, CreateSets
    <2>4. ASSUME NEW t \in Turns, ASRStep(t) PROVE Kept
      BY <1>1, <1>3, <2>4, Numbering DEF ASRStep, FinalASRFails,
         FinalASRIsEcho, FinalASR
    <2>5. ASSUME NEW r \in Responses, Answer(r) \/ Clear(r) PROVE Kept
      BY <1>1, <1>3, <2>5 DEF Answer, Clear
    <2>6. CASE UNCHANGED vars
      BY <1>1, <2>6 DEF vars
    <2>7. QED
      BY <2>1, <2>2, <2>3, <2>4, <2>5, <2>6 DEF Next

(* The read loop's own stages: it opens a stream over an empty place, and  *)
(* leaves an empty place behind.                                           *)
LEMMA LoopPlaceKeeps ==
  ASSUME TypeOK, LoopPlace, RunningTraceIsHeld, [Next]_vars
  PROVE  LoopPlace'
  <1>1. turnTrace = 0 /\ ~StartOpensStream => turnTrace' = 0
    BY TraceKeeps
  <1>2. at = [c \in Creators |-> at[c]] /\ asked \in Nat
    BY DEF TypeOK, PlaceTypeOK, ResponseTypeOK
  <1>3. CASE UNCHANGED <<at, opened, asked>>
    <2>1. CASE StartOpensStream
      BY <1>2, <1>3, <2>1, Numbering DEF StartOpensStream, Go
    <2>2. QED
      BY <1>1, <1>3, <2>1 DEF LoopPlace
  <1>4. ASSUME at'[Loop] = at[Loop], UNCHANGED <<opened, asked>>,
               ~StartOpensStream
        PROVE  LoopPlace'
    BY <1>1, <1>4 DEF LoopPlace
  <1>5. CASE ClientEvent
    <2>1. CASE AudioStart
      BY <1>2, <2>1, Numbering DEF AudioStart, Go, LoopPlace, CreateStages,
         streamVars
    <2>2. CASE ResponseCreate
      BY <1>2, <2>2, Numbering DEF ResponseCreate, Go, LoopPlace, CreateStages
    <2>3. CASE ResponseCancel \/ ConnectionEnds
      BY <1>2, <2>3, Numbering DEF ResponseCancel, ConnectionEnds, Go,
         LoopPlace, CreateStages
    <2>4. CASE SessionUpdate \/ AudioStop \/ InputCancel
      <3>1. stream \in Turns /\ AudioStop => stream # Loop
        BY Numbering
      <3>2. at'[Loop] = at[Loop] /\ at[Loop] = "reading"
        BY <1>2, <2>4, <3>1, Numbering
           DEF SessionUpdate, AudioStop, InputCancel, Go, TypeOK, StreamTypeOK
      <3>3. QED
        BY <3>2 DEF LoopPlace, CreateStages
    <2>5. QED
      BY <1>5, <2>1, <2>2, <2>3, <2>4 DEF ClientEvent
  <1>6. CASE LoopStep
    <2>1. CASE StartCompletesTrace
      BY <1>2, <2>1, Numbering DEF StartCompletesTrace, CompleteOpenTrace, Go,
         LoopPlace, CreateStages, streamVars
    <2>2. CASE StartOpensStream \/ StartRejected \/ CancelCompletesTrace
      BY <1>2, <2>2, Numbering DEF StartOpensStream, StartRejected,
         CancelCompletesTrace, Go, LoopPlace, CreateStages
    <2>3. CASE CloseCompletesTrace
      BY <1>2, <2>3, Numbering DEF CloseCompletesTrace, CompleteOpenTrace, Go,
         LoopPlace, CreateStages
    <2>4. CASE HandlerReturns
      BY <1>2, <2>4, Numbering DEF HandlerReturns, Go, LoopPlace,
         CreateStages, traceVars
    <2>5. QED
      BY <1>6, <2>1, <2>2, <2>3, <2>4 DEF LoopStep
  <1>7. ASSUME NEW c \in Creators, CreateStep(c) PROVE LoopPlace'
    <2>1. CASE c = Loop
      BY <1>2, <1>7, <2>1 DEF CreateStep, CreateCancels, CreateReads,
         CreateSets, AfterCreate, Go, LoopPlace, CreateStages
    <2>2. CASE c # Loop
      <3>1. /\ at'[Loop] = at[Loop]
            /\ UNCHANGED <<opened, asked, turnTrace>>
        BY <1>2, <1>7, <2>2, Numbering DEF CreateStep, CreateCancels,
           CreateReads, CreateSets, Go, streamVars, traceVars
      <3>2. QED
        BY <3>1 DEF LoopPlace
    <2>3. QED
      BY <2>1, <2>2
  <1>8. ASSUME NEW t \in Turns, ASRStep(t) PROVE LoopPlace'
    <2>1. at'[Loop] = at[Loop] /\ UNCHANGED <<opened, stream, asked>>
      BY <1>2, <1>8, Numbering DEF ASRStep, FinalASRFails, FinalASRIsEcho,
         FinalASR, Go, streamVars
    <2>2. ~StartOpensStream
      <3>1. opened \in Nat
        BY BoundsAssumption DEF TypeOK, StreamTypeOK
      <3>2. StartOpensStream => opened' = opened + 1
        BY DEF StartOpensStream
      <3>3. QED
        BY <2>1, <3>1, <3>2
    <2>3. QED
      BY <1>4, <2>1, <2>2
  <1>9. ASSUME NEW r \in Responses, Answer(r) \/ Clear(r) PROVE LoopPlace'
    BY <1>3, <1>9 DEF Answer, Clear, streamVars
  <1>10. CASE UNCHANGED vars
    BY <1>3, <1>10 DEF vars, streamVars
  <1>11. QED
    BY <1>5, <1>6, <1>7, <1>8, <1>9, <1>10 DEF Next

LEMMA IdleKeeps ==
  ASSUME TypeOK, Idle, [Next]_vars PROVE Idle'
  <1> USE Numbering
  <1>1. /\ at = [c \in Creators |-> at[c]]
        /\ opened \in Nat /\ stream \in Nat /\ 0 \notin Turns
    BY BoundsAssumption DEF TypeOK, PlaceTypeOK, StreamTypeOK, Turns
  <1>2. ASSUME UNCHANGED <<opened, stream>>,
               \A t \in Turns : at[t] = "idle" => at'[t] = "idle"
        PROVE  Idle'
    BY <1>2 DEF Idle
  <1>3. ASSUME UNCHANGED <<opened, stream>>, NEW c \in Creators, NEW stage,
               Go(c, stage), c = Loop \/ at[c] # "idle"
        PROVE  Idle'
    BY <1>1, <1>2, <1>3 DEF Go
  <1>4. CASE AudioStop
    <2>1. opened' = opened /\ stream' = 0 /\ stream \in Turns
      BY <1>4 DEF AudioStop, TypeOK, StreamTypeOK
    <2>2. \A t \in Turns : t # stream => at'[t] = at[t]
      BY <1>1, <1>4 DEF AudioStop, Go
    <2>3. QED
      BY <1>1, <2>1, <2>2 DEF Idle
  <1>5. CASE InputCancel
    BY <1>1, <1>5 DEF InputCancel, Idle
  <1>6. CASE StartOpensStream
    <2>1. opened' = opened + 1 /\ stream' = opened + 1
      BY <1>6 DEF StartOpensStream
    <2>2. \A t \in Turns : at'[t] = at[t]
      BY <1>1, <1>6 DEF StartOpensStream, Go
    <2>3. QED
      BY <1>1, <2>1, <2>2, BoundsAssumption DEF Idle, Turns
  <1>7. QED
    <2>1. CASE ClientEvent
      BY <1>2, <1>3, <1>4, <1>5, <2>1 DEF ClientEvent, SessionUpdate,
         AudioStart, ResponseCreate, ResponseCancel, ConnectionEnds,
         streamVars
    <2>2. CASE LoopStep
      BY <1>3, <1>6, <2>2 DEF LoopStep, StartCompletesTrace, StartRejected,
         CancelCompletesTrace, CloseCompletesTrace, HandlerReturns,
         streamVars
    <2>3. ASSUME NEW c \in Creators, CreateStep(c) PROVE Idle'
      BY <1>3, <2>3 DEF CreateStep, CreateCancels, CreateReads, CreateSets,
         streamVars
    <2>4. ASSUME NEW t \in Turns, ASRStep(t) PROVE Idle'
      BY <1>3, <2>4 DEF ASRStep, FinalASRFails, FinalASRIsEcho, FinalASR,
         streamVars
    <2>5. ASSUME NEW r \in Responses, Answer(r) \/ Clear(r) PROVE Idle'
      BY <1>2, <2>5 DEF Answer, Clear, streamVars
    <2>6. CASE UNCHANGED vars
      BY <1>2, <2>6 DEF vars, streamVars
    <2>7. QED
      BY <2>1, <2>2, <2>3, <2>4, <2>5, <2>6 DEF Next
-----------------------------------------------------------------------------
(* A new response is untouched when it is put into its place.              *)
LEMMA UntouchedKeeps ==
  ASSUME TypeOK, LoopPlace, Idle, Untouched, SlotIsLive, [Next]_vars
  PROVE  Untouched'
  <1> USE Numbering
  <1>0. /\ at = [c \in Creators |-> at[c]] /\ asked \in 0 .. MaxRequests
        /\ phase \in [Responses -> {"none", "running", "answered", "cleared"}]
        /\ slot \in {0} \cup Responses
    BY DEF TypeOK, PlaceTypeOK, ResponseTypeOK
  <1>1. \A r \in Responses : phase[r] = "none" => r # slot
    BY DEF SlotIsLive
  (* Steps that leave the phases alone and start nothing.                  *)
  <1>2. ASSUME phase' = phase, asked' = asked,
               cancelled' \subseteq cancelled \cup ({slot} \ {0}),
               \A t \in Turns : at'[t] # "over" => at[t] # "over",
               at'[Loop] \in CreateStages => at[Loop] \in CreateStages
        PROVE  Untouched'
    BY <1>1, <1>2 DEF Untouched
  <1>3. CancelResponse =>
          phase' = phase /\ cancelled' \subseteq cancelled \cup ({slot} \ {0})
    BY DEF CancelResponse
  <1>4. ASSUME phase' = phase, asked' = asked,
               cancelled' \subseteq cancelled \cup ({slot} \ {0}),
               NEW c \in Creators, NEW stage, Go(c, stage),
               stage # "over" => at[c] # "over",
               c = Loop /\ stage \in CreateStages => at[c] \in CreateStages
        PROVE  Untouched'
    <2>1. \A d \in Creators : at'[d] = IF d = c THEN stage ELSE at[d]
      BY <1>0, <1>4 DEF Go
    <2>2. /\ \A t \in Turns : at'[t] # "over" => at[t] # "over"
          /\ at'[Loop] \in CreateStages => at[Loop] \in CreateStages
      BY <1>4, <2>1
    <2>3. QED
      BY <1>2, <1>4, <2>2
  <1>5. CASE ClientEvent
    <2>1. CASE SessionUpdate \/ InputCancel
      BY <1>2, <2>1 DEF SessionUpdate, InputCancel, responseVars
    <2>2. CASE AudioStop
      <3>1. UNCHANGED <<phase, asked, cancelled>>
        BY <2>2 DEF AudioStop, responseVars
      <3>2. at' = at \/ Go(stream, "transcribing")
        BY <2>2 DEF AudioStop
      <3>3. stream \in Turns /\ at[stream] = "idle"
        BY <2>2 DEF AudioStop, TypeOK, StreamTypeOK, Idle
      <3>4. CASE at' = at
        BY <1>2, <3>1, <3>4
      <3>5. CASE Go(stream, "transcribing")
        BY <1>4, <3>1, <3>3, <3>5
      <3>6. QED
        BY <3>2, <3>4, <3>5
    <2>3. CASE AudioStart \/ ResponseCancel \/ ConnectionEnds
      BY <1>3, <1>4, <2>3 DEF AudioStart, ResponseCancel, ConnectionEnds,
         CreateStages
    <2>4. CASE ResponseCreate
      <3>1. asked' = asked + 1 /\ asked + 1 <= MaxRequests
        BY <1>0, <2>4, BoundsAssumption DEF ResponseCreate
      <3>2. /\ UNCHANGED <<phase, cancelled>>
            /\ \A t \in Turns : at'[t] = at[t]
        BY <1>0, <2>4 DEF ResponseCreate, responseVars, Go
      <3>3. \A k \in Nat : k <= MaxRequests /\ (asked' < k \/ asked' = k)
                            => phase'[MaxTurns + k] = "none"
        <4> SUFFICES ASSUME NEW k \in Nat, k <= MaxRequests, asked + 1 <= k
                     PROVE  phase[MaxTurns + k] = "none"
          BY <1>0, <3>1, <3>2
        <4>1. asked < k
          BY <1>0
        <4>2. k <= MaxRequests
          OBVIOUS
        <4>3. QED
          BY <4>1, <4>2 DEF Untouched
      <3>4. QED
        BY <3>2, <3>3 DEF Untouched
    <2>5. QED
      BY <1>5, <2>1, <2>2, <2>3, <2>4 DEF ClientEvent
  <1>6. CASE LoopStep
    BY <1>4, <1>6 DEF LoopStep, StartCompletesTrace, StartOpensStream,
       StartRejected, CancelCompletesTrace, CloseCompletesTrace,
       HandlerReturns, responseVars, CreateStages
  <1>7. ASSUME NEW c \in Creators, CreateStep(c) PROVE Untouched'
    <2>1. CASE CreateCancels(c)
      BY <1>3, <1>4, <2>1 DEF CreateCancels, CreateStages
    <2>2. CASE CreateReads(c)
      BY <1>4, <2>2 DEF CreateReads, CreateStages, responseVars, AfterCreate
    <2>3. CASE CreateSets(c)
      <3>1. at[c] = "create_set" /\ at[c] \in CreateStages
        BY <2>3 DEF CreateSets, CreateStages
      <3> DEFINE new == ResponseOf(c)
      <3>2. /\ new \in Responses
            /\ c = Loop => new = MaxTurns + asked /\ asked \in 1 .. MaxRequests
            /\ c # Loop => new = c /\ c \in Turns
        BY <3>1, NewResponse
      <3> HIDE DEF new
      <3>3. /\ \A d \in Creators : at'[d] = IF d = c THEN AfterCreate(c) ELSE at[d]
            /\ \A r \in Responses : r # new => phase'[r] = phase[r]
            /\ phase'[new] = "running"
            /\ asked' = asked /\ cancelled' = cancelled
        BY <1>0, <2>3, <3>2 DEF CreateSets, Go, new
      <3>4. \A t \in Turns : at'[t] # "over" => phase'[t] = "none"
        <4> SUFFICES ASSUME NEW t \in Turns, at'[t] # "over"
                     PROVE  phase'[t] = "none"
          OBVIOUS
        <4>1. t # c /\ at[t] # "over"
          BY <3>3 DEF AfterCreate
        <4>2. t # new
          BY <3>2, <4>1
        <4>3. QED
          BY <3>3, <4>1, <4>2 DEF Untouched
      <3>5. ASSUME NEW k \in Nat, k <= MaxRequests,
                   asked < k \/ (asked = k /\ at'[Loop] \in CreateStages)
            PROVE  phase'[MaxTurns + k] = "none"
        <4>1. asked = k => c # Loop /\ at[Loop] \in CreateStages
          BY <3>3, <3>5 DEF AfterCreate, CreateStages
        <4>2. phase[MaxTurns + k] = "none"
          BY <3>5, <4>1 DEF Untouched
        <4>3. MaxTurns + k \in Responses \ Turns
          <5>1. asked > 0 \/ asked < k
            BY <1>0, <3>5, <4>1 DEF LoopPlace
          <5>2. k \in 1 .. MaxRequests
            BY <1>0, <3>5, <5>1, BoundsAssumption
          <5>3. QED
            BY <5>2
        <4>4. MaxTurns + k # new
          <5>1. CASE c = Loop
            <6>1. asked < k
              BY <3>5, <4>1, <5>1
            <6>2. QED
              BY <1>0, <3>2, <5>1, <6>1, BoundsAssumption
          <5>2. CASE c # Loop
            BY <3>2, <4>3, <5>2
          <5>3. QED
            BY <5>1, <5>2
        <4>5. QED
          BY <3>3, <4>2, <4>3, <4>4
      <3>6. \A r \in Responses : phase'[r] = "none" => r \notin cancelled'
        BY <3>3 DEF Untouched
      <3>7. QED
        BY <3>3, <3>4, <3>5, <3>6 DEF Untouched
    <2>4. QED
      BY <1>7, <2>1, <2>2, <2>3 DEF CreateStep
  <1>8. ASSUME NEW t \in Turns, ASRStep(t) PROVE Untouched'
    BY <1>4, <1>8 DEF ASRStep, FinalASRFails, FinalASRIsEcho, FinalASR,
       responseVars
  <1>9. ASSUME NEW r \in Responses, Answer(r) \/ Clear(r) PROVE Untouched'
    <2>1. UNCHANGED <<at, asked, cancelled>>
      BY <1>9 DEF Answer, Clear
    <2>2. /\ phase[r] # "none" /\ phase'[r] # "none"
          /\ \A q \in Responses : q # r => phase'[q] = phase[q]
      BY <1>0, <1>9 DEF Answer, Clear
    <2>3. \A q \in Responses : phase[q] = "none" <=> phase'[q] = "none"
      BY <2>2
    <2>4. \A k \in Nat : k <= MaxRequests /\ asked <= k
             => MaxTurns + k \in Responses \/ k = 0
      BY BoundsAssumption
    <2>5. at[Loop] \in CreateStages => asked # 0
      BY <1>0 DEF LoopPlace
    <2>6. ASSUME NEW k \in Nat, k <= MaxRequests,
                 asked < k \/ (asked = k /\ at'[Loop] \in CreateStages)
          PROVE  phase'[MaxTurns + k] = "none"
      <3>1. k # 0
        BY <1>0, <2>1, <2>5, <2>6
      <3>2. MaxTurns + k \in Responses /\ phase[MaxTurns + k] = "none"
        BY <1>0, <2>1, <2>6, <3>1, BoundsAssumption DEF Untouched
      <3>3. QED
        BY <2>3, <3>2
    <2>7. QED
      BY <2>1, <2>3, <2>6 DEF Untouched
  <1>10. CASE UNCHANGED vars
    BY <1>2, <1>10 DEF vars, responseVars
  <1>11. QED
    BY <1>5, <1>6, <1>7, <1>8, <1>9, <1>10 DEF Next
-----------------------------------------------------------------------------
(* The place of the current response is filled with a new response and     *)
(* emptied by every cancellation and every clearResponse.                  *)
LEMMA SlotKeeps ==
  ASSUME TypeOK, LoopPlace, Untouched, SlotIsLive, [Next]_vars
  PROVE  SlotIsLive'
  <1>0. /\ phase \in [Responses -> {"none", "running", "answered", "cleared"}]
        /\ 0 \notin Responses
    BY Numbering DEF TypeOK, ResponseTypeOK
  <1>1. CASE UNCHANGED responseVars
    BY <1>1 DEF SlotIsLive, responseVars
  <1>2. CASE CancelResponse
    BY <1>2 DEF CancelResponse, SlotIsLive
  <1>3. ASSUME NEW c \in Creators, CreateSets(c) PROVE SlotIsLive'
    <2>1. at[c] \in CreateStages
      BY <1>3 DEF CreateSets, CreateStages
    <2>2. /\ ResponseOf(c) \in Responses
          /\ phase[ResponseOf(c)] = "none"
      <3>1. CASE c = Loop
        <4>1. /\ asked \in Nat /\ asked <= MaxRequests
              /\ ResponseOf(c) = MaxTurns + asked
          BY <2>1, <3>1, NewResponse, BoundsAssumption
        <4>2. QED
          BY <2>1, <3>1, <4>1, NewResponse DEF Untouched
      <3>2. CASE c # Loop
        <4>1. ResponseOf(c) = c /\ c \in Turns
          BY <2>1, <3>2, NewResponse
        <4>2. at[c] # "over"
          BY <1>3 DEF CreateSets
        <4>3. QED
          BY <4>1, <4>2, Numbering DEF Untouched
      <3>3. QED
        BY <3>1, <3>2
    <2>3. ResponseOf(c) \notin cancelled
      BY <2>2 DEF Untouched
    <2> DEFINE new == ResponseOf(c)
    <2>4. slot' = new /\ phase'[new] = "running" /\ cancelled' = cancelled
      BY <1>0, <1>3, <2>2 DEF CreateSets
    <2> HIDE DEF new
    <2>5. new \notin cancelled
      BY <2>3 DEF new
    <2>6. QED
      BY <2>4, <2>5 DEF SlotIsLive
  <1>4. ASSUME NEW r \in Responses, Answer(r) \/ Clear(r) PROVE SlotIsLive'
    <2>1. CASE Answer(r)
      <3>1. /\ phase' = [phase EXCEPT ![r] = "answered"]
            /\ slot' = slot /\ cancelled' = cancelled
        BY <2>1 DEF Answer
      <3>2. CASE slot = r
        BY <1>0, <3>1, <3>2 DEF SlotIsLive
      <3>3. CASE slot # r
        BY <1>0, <3>1, <3>3 DEF SlotIsLive
      <3>4. QED
        BY <3>2, <3>3
    <2>2. CASE Clear(r)
      BY <2>2 DEF Clear, SlotIsLive
    <2>3. QED
      BY <1>4, <2>1, <2>2
  <1>5. QED
    <2>1. CASE ClientEvent
      BY <1>1, <1>2, <2>1 DEF ClientEvent, SessionUpdate, AudioStart,
         AudioStop, InputCancel, ResponseCreate, ResponseCancel,
         ConnectionEnds
    <2>2. CASE LoopStep
      BY <1>1, <2>2 DEF LoopStep, StartCompletesTrace, StartOpensStream,
         StartRejected, CancelCompletesTrace, CloseCompletesTrace,
         HandlerReturns
    <2>3. ASSUME NEW c \in Creators, CreateStep(c) PROVE SlotIsLive'
      BY <1>1, <1>2, <1>3, <2>3 DEF CreateStep, CreateCancels, CreateReads
    <2>4. ASSUME NEW t \in Turns, ASRStep(t) PROVE SlotIsLive'
      BY <1>1, <2>4 DEF ASRStep, FinalASRFails, FinalASRIsEcho, FinalASR
    <2>5. CASE UNCHANGED vars
      BY <1>1, <2>5 DEF vars
    <2>6. QED
      BY <1>4, <2>1, <2>2, <2>3, <2>4, <2>5 DEF Next
-----------------------------------------------------------------------------
LEMMA NextInvariant == IInv /\ [Next]_vars => IInv'
  BY PlaceKeeps, StreamKeeps, ResponsesKeep, TraceKeeps, LoopPlaceKeeps,
     IdleKeeps, UntouchedKeeps, SlotKeeps DEF IInv, TypeOK

LEMMA Invariance == Spec => []IInv
  BY InitInvariant, NextInvariant, PTL DEF Spec

(* The state of a session keeps its types, whatever its goroutines do.     *)
THEOREM TypeCorrect == Spec => []TypeOK
  <1>1. IInv => TypeOK
    BY DEF IInv
  <1>2. QED
    BY <1>1, Invariance, PTL

(* responseCancel never holds the cancel of a response that is gone or has *)
(* been cancelled, for any number of turns and requests.                   *)
THEOREM SlotLive == Spec => []SlotIsLive
  <1>1. IInv => SlotIsLive
    BY DEF IInv
  <1>2. QED
    BY <1>1, Invariance, PTL

(* Every running trace can be reached from the session.                    *)
THEOREM RunningTracesAreHeld == Spec => []RunningTraceIsHeld
  <1>1. IInv => RunningTraceIsHeld
    BY DEF IInv
  <1>2. QED
    BY <1>1, Invariance, PTL

(* A connection that ends leaves no trace running: the place is empty, and *)
(* a running trace would be in it.                                         *)
THEOREM NoTraceIsLeft == Spec => []EndedLeavesNoTrace
  <1>1. IInv => EndedLeavesNoTrace
    BY Numbering DEF IInv, LoopPlace, RunningTraceIsHeld, EndedLeavesNoTrace,
       Turns
  <1>2. QED
    BY <1>1, Invariance, PTL
=============================================================================
