------------------------------ MODULE VoiceTurns ------------------------------
(***************************************************************************)
(* The turns of one realtime voice session: the goroutine that reads the   *)
(* client's events, one goroutine per utterance that waits for its final   *)
(* transcript and may then ask for a response itself, and the responses.   *)
(* They share two places of the session struct, each behind its mutex but  *)
(* used in several critical sections: responseCancel, through which a      *)
(* response can be cancelled, and turnTrace, the debug trace of the turn   *)
(* (src/internal/voicews/session.go).                                      *)
(*                                                                         *)
(* What a response does in between is VoiceResponse's subject; here it     *)
(* runs, answers (its last event is out and its trace finished) and clears *)
(* (its deferred clearResponse).  One atomic step is one critical section. *)
(***************************************************************************)
EXTENDS Naturals

CONSTANTS
  MaxTurns,     \* bound: audio streams the client opens
  MaxRequests   \* bound: response.create events of the client

ASSUME BoundsAssumption == MaxTurns \in Nat /\ MaxRequests \in Nat

(* A response is called after what asked for it: a turn with AutoRespond,  *)
(* or a response.create event of the client.                               *)
Turns     == 1 .. MaxTurns
Responses == 1 .. MaxTurns + MaxRequests

(* Whoever calls handleResponseCreate: the read loop, or the goroutine     *)
(* runFinalASR of a turn.                                                  *)
Loop     == 0
Creators == {Loop} \cup Turns

VARIABLES
  at,          \* where each goroutine is
  ready,       \* session.update has set the three provider clients
  autoRespond, \* cfg.AutoRespond
  opened,      \* audio streams opened so far
  stream,      \* the open audio stream, or 0 (inboundTracker)
  guarded,     \* inputEchoGuard of the open stream
  auto,        \* cfg.AutoRespond when the turn's stream was stopped
  asked,       \* response.create events received
  phase,       \* of each response
  cancelled,   \* responses whose own cancel has been called
  slot,        \* responseCancel: the response it cancels, or 0
  turnTrace,   \* the turn whose trace the session holds, or 0
  trace,       \* the state of each turn's trace
  held         \* the trace the goroutines of a turn or response hold, or 0

streamVars   == <<opened, stream, guarded, auto>>
configVars   == <<ready, autoRespond>>
responseVars == <<phase, cancelled, slot>>
traceVars    == <<turnTrace, trace, held>>
vars == <<at, configVars, streamVars, asked, responseVars, traceVars>>

LoopStages == {"reading", "start_trace", "start_open", "cancel_trace",
               "close_trace", "leaving", "ended"}
CreateStages == {"create", "create_read", "create_set"}
TurnStages == {"idle", "transcribing", "over"}

StagesOf(c) ==
  CreateStages \cup IF c = Loop THEN LoopStages ELSE TurnStages

PlaceTypeOK ==
  /\ at = [c \in Creators |-> at[c]]
  /\ \A c \in Creators : at[c] \in StagesOf(c)

StreamTypeOK ==
  /\ ready \in BOOLEAN /\ autoRespond \in BOOLEAN
  /\ opened \in 0 .. MaxTurns
  /\ stream \in {0} \cup Turns
  /\ guarded \in BOOLEAN
  /\ auto \in [Turns -> BOOLEAN]

ResponseTypeOK ==
  /\ asked \in 0 .. MaxRequests
  /\ phase \in [Responses -> {"none", "running", "answered", "cleared"}]
  /\ cancelled \subseteq Responses
  /\ slot \in {0} \cup Responses

TraceTypeOK ==
  /\ turnTrace \in {0} \cup Turns
  /\ trace \in [Turns -> {"none", "running", "finished"}]
  /\ held \in [Responses -> {0} \cup Turns]

TypeOK == PlaceTypeOK /\ StreamTypeOK /\ ResponseTypeOK /\ TraceTypeOK

Init ==
  /\ at = [c \in Creators |-> IF c = Loop THEN "reading" ELSE "idle"]
  /\ ready = FALSE /\ autoRespond = FALSE
  /\ opened = 0 /\ stream = 0 /\ guarded = FALSE
  /\ auto = [t \in Turns |-> FALSE]
  /\ asked = 0
  /\ phase = [r \in Responses |-> "none"]
  /\ cancelled = {} /\ slot = 0
  /\ turnTrace = 0 /\ trace = [t \in Turns |-> "none"]
  /\ held = [r \in Responses |-> 0]

Go(c, stage) == at' = [at EXCEPT ![c] = stage]
-----------------------------------------------------------------------------
(***************************************************************************)
(* The two shared places.  X_Slip is X with a mistake that would be easy   *)
(* to make; nothing refers to it.                                          *)
(***************************************************************************)

(* cancelResponse takes the cancel function out of its place and calls it. *)
CancelResponse_NilSlip ==
  /\ cancelled' = cancelled \cup {slot}
  /\ slot' = 0
  /\ UNCHANGED phase
CancelResponse ==
  /\ cancelled' = IF slot = 0 THEN cancelled ELSE cancelled \cup {slot}
  /\ slot' = 0
  /\ UNCHANGED phase

(* completeOpenTrace takes the trace out of its place and finishes it.     *)
FinishTrace(t) ==
  trace' = IF t = 0 THEN trace ELSE [trace EXCEPT ![t] = "finished"]

CompleteOpenTrace_Slip == turnTrace' = 0 /\ UNCHANGED trace
CompleteOpenTrace == turnTrace' = 0 /\ FinishTrace(turnTrace)

(* A goroutine finishes the trace it holds; clearTurnTrace empties the     *)
(* place only if it is still that trace's.  Finishing is one call under    *)
(* the store's lock, taking the trace out one under the session's: what    *)
(* lies between the two is not told apart.                                 *)
EndHeldTrace_Slip(r) ==
  /\ FinishTrace(held[r])
  /\ turnTrace' = IF held[r] = 0 THEN turnTrace ELSE 0
EndHeldTrace(r) ==
  /\ FinishTrace(held[r])
  /\ turnTrace' = IF turnTrace = held[r] THEN 0 ELSE turnTrace
-----------------------------------------------------------------------------
(***************************************************************************)
(* The read loop.                                                          *)
(***************************************************************************)

(* session.update resolves the profile and replaces config and clients.    *)
SessionUpdate ==
  /\ at[Loop] = "reading"
  /\ ready' = TRUE
  /\ autoRespond' \in BOOLEAN
  /\ UNCHANGED <<at, streamVars, asked, responseVars, traceVars>>

(* audio.start cancels the current response and completes the open trace   *)
(* before it knows whether the stream can be opened.                       *)
AudioStart ==
  /\ at[Loop] = "reading"
  /\ opened < MaxTurns
  /\ CancelResponse
  /\ Go(Loop, "start_trace")
  /\ UNCHANGED <<configVars, streamVars, asked, traceVars>>

StartCompletesTrace ==
  /\ at[Loop] = "start_trace"
  /\ CompleteOpenTrace
  /\ Go(Loop, "start_open")
  /\ UNCHANGED <<configVars, streamVars, asked, responseVars, held>>

(* A response that has ended may have left a playback echo window.         *)
EchoWindow == \E r \in Responses : phase[r] \in {"answered", "cleared"}

StartOpensStream ==
  /\ at[Loop] = "start_open"
  /\ stream = 0
  /\ opened' = opened + 1
  /\ stream' = opened + 1
  /\ guarded' \in {FALSE, autoRespond /\ EchoWindow}
  /\ turnTrace' = opened + 1
  /\ trace' = [trace EXCEPT ![opened + 1] = "running"]
  /\ Go(Loop, "reading")
  /\ UNCHANGED <<configVars, auto, asked, responseVars, held>>

StartRejected ==
  /\ at[Loop] = "start_open"
  /\ stream # 0
  /\ Go(Loop, "reading")
  /\ UNCHANGED <<configVars, streamVars, asked, responseVars, traceVars>>

(* audio.stop of the open stream.  A guarded utterance is dropped as the   *)
(* echo of an earlier reply; without providers its trace fails but keeps   *)
(* its place; otherwise runFinalASR starts with config and trace as they   *)
(* are now.                                                                *)
AudioStop ==
  /\ at[Loop] = "reading"
  /\ stream # 0
  /\ stream' = 0 /\ guarded' = FALSE
  /\ \/ /\ guarded
        /\ CompleteOpenTrace
        /\ UNCHANGED <<at, auto, held>>
     \/ /\ ~guarded /\ ~ready
        /\ FinishTrace(turnTrace)
        /\ UNCHANGED <<at, auto, turnTrace, held>>
     \/ /\ ~guarded /\ ready
        /\ Go(stream, "transcribing")
        /\ auto' = [auto EXCEPT ![stream] = autoRespond]
        /\ held' = [held EXCEPT ![stream] = turnTrace]
        /\ UNCHANGED <<turnTrace, trace>>
  /\ UNCHANGED <<configVars, opened, asked, responseVars>>

(* input.cancel forgets the stream, if there is one; the trace stays.      *)
InputCancel ==
  /\ at[Loop] = "reading"
  /\ stream' = 0
  /\ UNCHANGED <<at, configVars, opened, guarded, auto, asked, responseVars,
                 traceVars>>

ResponseCreate ==
  /\ at[Loop] = "reading"
  /\ asked < MaxRequests
  /\ asked' = asked + 1
  /\ Go(Loop, "create")
  /\ UNCHANGED <<configVars, streamVars, responseVars, traceVars>>

(* response.cancel; with nothing to cancel it completes the open trace.    *)
ResponseCancel ==
  /\ at[Loop] = "reading"
  /\ CancelResponse
  /\ Go(Loop, IF slot = 0 THEN "cancel_trace" ELSE "reading")
  /\ UNCHANGED <<configVars, streamVars, asked, traceVars>>

CancelCompletesTrace ==
  /\ at[Loop] = "cancel_trace"
  /\ CompleteOpenTrace
  /\ Go(Loop, "reading")
  /\ UNCHANGED <<configVars, streamVars, asked, responseVars, held>>

(* A close frame or a read error: cancelResponse, completeOpenTrace, and   *)
(* when the handler has returned, net/http cancels the request's context,  *)
(* of which every goroutine's context is a child.                          *)
ConnectionEnds ==
  /\ at[Loop] = "reading"
  /\ CancelResponse
  /\ Go(Loop, "close_trace")
  /\ UNCHANGED <<configVars, streamVars, asked, traceVars>>

CloseCompletesTrace ==
  /\ at[Loop] = "close_trace"
  /\ CompleteOpenTrace
  /\ Go(Loop, "leaving")
  /\ UNCHANGED <<configVars, streamVars, asked, responseVars, held>>

HandlerReturns ==
  /\ at[Loop] = "leaving"
  /\ Go(Loop, "ended")
  /\ UNCHANGED <<configVars, streamVars, asked, responseVars, traceVars>>
-----------------------------------------------------------------------------
(***************************************************************************)
(* handleResponseCreate, on behalf of creator c.                           *)
(***************************************************************************)
ResponseOf(c)  == IF c = Loop THEN MaxTurns + asked ELSE c
AfterCreate(c) == IF c = Loop THEN "reading" ELSE "over"

CreateCancels(c) ==
  /\ at[c] = "create"
  /\ CancelResponse
  /\ Go(c, "create_read")
  /\ UNCHANGED <<configVars, streamVars, asked, traceVars>>

(* Only the read loop can come here without providers: a turn reaches      *)
(* runFinalASR with them, and session.update never takes them away.        *)
CreateReads(c) ==
  /\ at[c] = "create_read"
  /\ held' = [held EXCEPT ![ResponseOf(c)] = turnTrace]
  /\ Go(c, IF ready THEN "create_set" ELSE AfterCreate(c))
  /\ UNCHANGED <<configVars, streamVars, asked, responseVars, turnTrace, trace>>

CreateSets(c) ==
  /\ at[c] = "create_set"
  /\ slot' = ResponseOf(c)
  /\ phase' = [phase EXCEPT ![ResponseOf(c)] = "running"]
  /\ Go(c, AfterCreate(c))
  /\ UNCHANGED <<configVars, streamVars, asked, cancelled, traceVars>>
-----------------------------------------------------------------------------
(***************************************************************************)
(* runFinalASR of turn t.                                                  *)
(***************************************************************************)

(* No audio, or the provider fails: an error event.                        *)
FinalASRFails(t) ==
  /\ at[t] = "transcribing"
  /\ EndHeldTrace(t)
  /\ Go(t, "over")
  /\ UNCHANGED <<configVars, streamVars, asked, responseVars, held>>

(* The transcript repeats recent speech of the assistant.                  *)
FinalASRIsEcho(t) ==
  /\ at[t] = "transcribing"
  /\ auto[t] /\ \E r \in Responses : phase[r] # "none"
  /\ EndHeldTrace(t)
  /\ Go(t, "over")
  /\ UNCHANGED <<configVars, streamVars, asked, responseVars, held>>

(* asr.final, and with AutoRespond a response.  Otherwise the trace stays  *)
(* open for the client's response.create.                                  *)
FinalASR(t) ==
  /\ at[t] = "transcribing"
  /\ Go(t, IF auto[t] THEN "create" ELSE "over")
  /\ UNCHANGED <<configVars, streamVars, asked, responseVars, traceVars>>
-----------------------------------------------------------------------------
(***************************************************************************)
(* runResponse r.                                                          *)
(***************************************************************************)
Answer(r) ==
  /\ phase[r] = "running"
  /\ phase' = [phase EXCEPT ![r] = "answered"]
  /\ EndHeldTrace(r)
  /\ UNCHANGED <<at, configVars, streamVars, asked, cancelled, slot,
                 held>>

(* The deferred clearResponse empties the place, whoever it belongs to.    *)
Clear_Slip(r) ==
  /\ phase[r] = "answered"
  /\ phase' = [phase EXCEPT ![r] = "cleared"]
  /\ UNCHANGED <<at, configVars, streamVars, asked, cancelled, slot,
                 traceVars>>
Clear(r) ==
  /\ phase[r] = "answered"
  /\ phase' = [phase EXCEPT ![r] = "cleared"]
  /\ slot' = 0
  /\ UNCHANGED <<at, configVars, streamVars, asked, cancelled,
                 traceVars>>
-----------------------------------------------------------------------------
(***************************************************************************)
(* The specification.                                                      *)
(***************************************************************************)
ClientEvent ==
  \/ SessionUpdate \/ AudioStart \/ AudioStop \/ InputCancel
  \/ ResponseCreate \/ ResponseCancel \/ ConnectionEnds

LoopStep ==
  \/ StartCompletesTrace \/ StartOpensStream \/ StartRejected
  \/ CancelCompletesTrace \/ CloseCompletesTrace \/ HandlerReturns

CreateStep(c) == CreateCancels(c) \/ CreateReads(c) \/ CreateSets(c)
ASRStep(t)    == FinalASRFails(t) \/ FinalASRIsEcho(t) \/ FinalASR(t)

(* Nothing is left to do.                                                  *)
Quiet ==
  /\ at[Loop] = "ended"
  /\ \A t \in Turns : at[t] \in {"idle", "over"}
  /\ \A r \in Responses : phase[r] \in {"none", "cleared"}

Next ==
  \/ ClientEvent \/ LoopStep
  \/ \E c \in Creators : CreateStep(c)
  \/ \E t \in Turns : ASRStep(t)
  \/ \E r \in Responses : Answer(r) \/ Clear(r)
  \/ Quiet /\ UNCHANGED vars

(* A goroutine that can run does run.  A provider's answer may never come  *)
(* (no HTTP timeout), but its call returns when its context is cancelled.  *)
Cancelled_Slip(r) == r \in cancelled
Cancelled(r) == r \in cancelled \/ at[Loop] = "ended"

Fairness ==
  /\ WF_vars(LoopStep)
  /\ \A c \in Creators : WF_vars(CreateStep(c))
  /\ \A t \in Turns : WF_vars(at[Loop] = "ended" /\ ASRStep(t))
  /\ \A r \in Responses :
       WF_vars(Cancelled(r) /\ Answer(r)) /\ WF_vars(Clear(r))

Spec == Init /\ [][Next]_vars
FairSpec == Spec /\ Fairness
-----------------------------------------------------------------------------
(***************************************************************************)
(* Properties.                                                             *)
(***************************************************************************)

(* responseCancel never cancels in vain: whatever it holds belongs to a    *)
(* response that is still there and has not been cancelled through it.     *)
SlotIsLive ==
  slot # 0 => phase[slot] \in {"running", "answered"} /\ slot \notin cancelled

(* A trace that still runs is the one the session holds, so it can be      *)
(* found and finished; in particular a connection has at most one.  This   *)
(* needs clearTurnTrace to compare before it clears: a response may end    *)
(* long after the next turn has opened its own trace.                      *)
RunningTraceIsHeld ==
  \A t \in Turns : trace[t] = "running" => turnTrace = t

(* The end of a connection leaves no trace running.                        *)
EndedLeavesNoTrace ==
  at[Loop] \in {"leaving", "ended"} =>
    \A t \in Turns : trace[t] # "running"

(* After the connection has ended the final transcriptions end and so do   *)
(* the responses, those included that were still being created meanwhile   *)
(* and whose cancel nobody will call: their contexts are children of the   *)
(* request's.  It says nothing of the goroutines that are not in this      *)
(* module: the speech of a response, which one of its returns leaves       *)
(* waiting (VoiceResponse, Abandoned), and the partial transcriptions.     *)
TurnsWindDown == at[Loop] = "ended" ~> Quiet
=============================================================================
