# AgenSense in TLA+

AgenSense is a voice gateway: devices and desktop clients stream microphone
audio to it over a WebSocket, it has the audio transcribed, asks a language
model for a reply and streams the synthesised reply back. This directory holds
TLA+ modules of its core, the TLC instances that check them, and proofs for
TLAPS. `PROJECT.json` relates every definition to the lines it models.

## The system

Paths are below `src/internal/`.

| Component | State | Operations | Talks to |
|---|---|---|---|
| Realtime voice session (`voicews/session.go`, `handler.go`) | config and provider clients; the open input stream, its audio and detector; the partial transcription's slot; `responseCancel`; `turnTrace`; recent speech | client events, audio frames, final and partial transcription, responses | registry, providers, debug traces, framing |
| Conversation memory (in `session.go`, shared by all sessions) | turns and summary per session key | snapshot, append, compression, idle reset | responses |
| Device gateway (`gateway/handler.go`) and pipeline (`session/pipeline.go`) | hello seen, input and output stream trackers, device context | hello, telemetry, audio, config ack, one sequential turn | control plane, providers |
| Protocol (`protocol/`) | the tracker's active stream and frame count | start, add frame, stop, validation | both WebSocket handlers |
| Framing (`gateway/wsconn`) | write lock, buffered reader and writer | read frame, write frame | both handlers |
| Control plane (`device/service.go`, `service/device_control.go`) | none of its own | bootstrap, tokens, current config, ack, telemetry | repository |
| Provider registry (`service/provider_registry.go`) | none of its own | upsert, list, resolve, default profile | repository |
| File repository (`store/file_repository.go`) | maps in memory, the state file, the token index | save and get per entity, flush, load | disk |
| Debug traces (`debugtrace/store.go`) | bounded ordered set of traces, assets | start, mutate through a handle, finish, evict | everything with a turn |
| Providers (`provider/`) | none across calls | transcribe, chat stream, synthesise stream | external HTTP services |
| Inference (`service/inference.go`) and HTTP API (`httpapi/router.go`) | none that outlives a request | transcription, chat, chat as a stream, multimodal, synthesis | registry, providers, debug traces |
| Configuration, command line tools | none | | the above |

What is hard here is the realtime session. Up to five kinds of goroutine work
on one session struct: the read loop, a goroutine per final transcription, one
per partial transcription, one per response and one per response's speech. They
share the struct behind one mutex, but several operations take it repeatedly
with decisions in between, and old goroutines run on after their successors have
started. A response's two goroutines are joined by a bounded channel and a
one-place result channel, with five ways to return. Any of it can be cancelled
by the client or end with the connection. Providers may fail, and may never
answer: their HTTP client has no timeout.

Elsewhere it is the read-modify-write of devices and configuration snapshots
through separate repository calls, and a repository that changes its memory
before it writes its file.

What makes each part correct:

- a response speaks its text in order and completely, tells the client how it
  ended, and never waits for ever on itself;
- a session's shared places never point to something dead and never lose
  something alive, and its turns and responses end with the connection;
- no speech is lost between frames, segments and streams; the partial transcripts
  of a stream reach the client in the order of its audio;
- the state file can be loaded after any crash, what a device was given (its
  token) is not lost with it, and a configuration version is reported only if
  it exists;
- an API key's default provider profile exists, and neither it nor what was
  registered is lost;
- between a device and the gateway at most one audio stream is open in either
  direction, a turn is given the whole of one, and every stop is answered;
- the memory of a conversation is its latest turns in order, within its limits,
  and no prompt carries on a conversation that had ended;
- every turn and every inference request closes its trace with what really
  happened, the traces held are the latest ones, and no file outlives its trace
  unnoticed; a reply contains what the provider sent.

## The modules

`X_Slip` next to a definition `X` is `X` with a mistake that would be easy to
make in the code. Nothing refers to it; it shows what the properties would
catch.

### VoiceResponse: one response

Models `runResponse` and `runRealtimeTTS`. `pc` and `tpc` are the positions of
the two goroutines, `queue`, `closed` and `resultCh` their channels, `emitted`
and `pending` what the segmenter and its callback hold, `spoken`, `chunks` and
`voiced` the progress of the speech. `status` is what `runResponse` has decided
to report, `done` what it has written in its `response.done`, and `told` the
statuses of all `response.done` events the client has got, those of the read
loop included. Text is abstracted to numbered segments: a delta completes any
number of them and may leave a rest. One atomic step is the code between two
points at which another party can be observed, so a write and the assignments
before it are one step, and each `select`, receive and provider callback is a
step of its own.

| Actions | Code |
|---|---|
| `Prepare`, `Delta`, `StreamEnds`, `StreamFails` | prompts, the MCP proposal, `ChatStream` and its callback, the final flush |
| `EnqueueAccepted`, `EnqueueRefused` | the branches of `enqueueTTSSegment`'s `select` |
| `Unwind`, `FlushFails`, `LLMDoneFails`, `Join` | the ends of `runResponse`, up to the last look at its context (`Decide`) |
| `Tell` | trace and memory are done with; `response.done` is written |
| `ClientCancels`, `AnswerCancel` | the read loop has a `response.cancel`: it cancels, and then writes a `response.done` of its own |
| `Receive`, `RangeEnds`, `Chunk`, `SegmentEnds`, `SegmentFails` | `runRealtimeTTS` and its provider callback |
| `Cancel`, `LoseWire` | the rest of the session, and the connection |

Between the last look at the context and `Tell` anything may happen, so a
response can be cancelled and still report "completed".

`ResponseContract` is what a client may rely on, without goroutines: audio
streams one after the other, at most one verdict of the response, no speech
begun after it, and none left to send when the verdict is "completed". For every
`response.cancel` the client gets one more `response.done`, "cancelled", before
or after that verdict and whatever it is; a client that never asks is told once
at most. `VoiceResponse` implements it under the mapping at its end.

### VoiceTurns: the session's turns

Models the read loop (`session.run`, `handleEvent`), one goroutine
`runFinalASR` per turn, `handleResponseCreate` on behalf of either, and each
response as running, answered and cleared. One step is one critical section:
`handleResponseCreate` is three (`CreateCancels`, `CreateReads`, `CreateSets`),
`audio.start` three, `response.cancel` up to two. `slot` is `responseCancel`,
`turnTrace` and `trace` are the trace place and the traces' states, `held` the
trace a goroutine was given.

### VoiceInput: the microphone

Models `handleAudioStart`, `handleAudioChunk`, `handleAudioStop`, `cancelInput`,
the end of the connection and `runPartialASR`. Audio is counted in frames of
equal length; a frame is loud or quiet. `current` is the run whose number is
`partialRunID`, 0 when the number has moved on. The run's context check, its
look at the open stream, its write and its deferred release are separate steps,
so a run can be overtaken between any two of them. `FreshIds` says whether the
client gives every stream an id of its own; the run lets it use ids again.
`refused` remembers the streams during which another `audio.start` was refused.

### FileStore and DeviceControl: the state file and the control plane

`FileStore` models `store/file_repository.go` without regard to what it stores:
`memory` is `repo.data`, `file` the file at `repo.path`, `temp` the temporary
file beside it, `holder` the holder of the write lock and `flush` how far its
`flushLocked` is. Every change alters memory, writes the temporary file, renames
it and returns; a flush can fail at every step, and the process can end before,
between or after. The temporary file is torn while it is written, and what a
failed flush or a dead process leaves of it counts as torn for good: the next
flush truncates it. The rename puts into `file` whatever `temp` then is.

`DeviceControl` adds what is stored and who calls. `memory` and `file` hold the
seeded parts that exist, the version the device has reported, and the issued
tokens; `index` is `tokenIndex`, which is not written to the file. Each of
several `Clients` is one request or WebSocket connection: `at` is its position,
`copy` the version in the device record it has read, `token` the token in its
hands. `handed` and `acked` remember what devices were told. One step is one
repository call up to its flush; a request that reads a device and later saves
it is two, and others come in between.

| Actions | Code |
|---|---|
| `StartUp`, `SeedChecks`, `SeedSaves`, `SeedWrites`, `SeedIsSaved` | `NewFileRepository`, `SeedDemoData`, `ApplyDemoSeed` |
| `BootstrapReads`, `-Saves`, `-LooksUp`, `-Issues`, `-HasNoToken` | `device.Service.Bootstrap` and `IssueDeviceToken` |
| `AuthFinds`, `AuthTouches`, `AuthLooksUp` | `AuthenticateDeviceToken` of both services |
| `TelemetryReads`, `TelemetrySaves`, `Acks` | `UpdateTelemetry`, `AckConfigVersion` |
| `Writes`, `Saved`, `NotSaved` | the flush of a request, and what its caller does next |
| `Leaves`, `Crash` | the end of a connection, of the process |

There is one device with one configuration version, because no code of the
server adds a device or a version after the seed. With the seed switched off
there is none, and every request is refused.

A crash is the death of the process. The code does not call `fsync`, so what a
power failure leaves of a renamed file is up to the file system and not in the
model; nor is a second process on the same file.

### ProviderRegistry: the profiles of an API key

`ProviderRegistry` is over `FileStore` as well. Its data are the profiles of one
namespace, of which only the origin is told apart (the server's configuration or
a client), and the snapshots in which the registry keeps its default: the one
with the highest version counts. `at` is the position of each request, `version`
the version it is about to save; `registered`, `lone` and `chosen` remember what
clients know. The namespace is that of the configured default API key: any other
one is the same without the actions of the start, and without `Usable`.

| Actions | Code |
|---|---|
| `EnsureProvides`, `EnsurePromotes`, `EnsureKeeps`, `EnsureWrites`, `EnsureIsSaved` | `EnsureDefaultProviderProfile`, over an empty file or one of an old server whose default was `mock-default` |
| `Registers`, `ProfileIsSaved` | `UpsertProviderProfile` up to its first save |
| `Looks`, `Chooses`, `DefaultIsSaved` | `setDefaultProfileConfig`: the last version is read under one lock, the next saved under another |
| `Others`, `OtherIsSaved` | any other operation of the repository, which writes this data too |
| `Writes`, `NotSaved`, `Crash`, `StartUp` | the flush, its failure, the process |

Clients register and choose any id, the old built-in `mock-default` included;
the next start replaces that choice, so `LoneChoiceHolds` leaves it out. The demo
seed, which is in `DeviceControl`, belongs to another tenant.

### GatewaySession and OneStream: a device connection

`GatewaySession` models one connection from microphone to loudspeaker: the
device, the two bounded directions of the connection, the goroutine that serves
it (`gateway/handler.go`) and the turn it runs to its end before it reads on
(`session/pipeline.go`). `up` and `down` are messages under way; `stream` and
`audio` are `streamState.ID` and `.Audio`, `tracker` and `count` its
`StreamTracker`, `outbound` and `chunks` that of the turn's sink. `pc` is the
position of the goroutine: reading, between the two answers to a hello, or at a
stage of `Run`. A frame is the pair of its opening and its place there, so that
frames of two openings under one id can be told apart. `owed`, `heard`, `played`
and `replies` are what the device makes of the answers.

| Actions | Code |
|---|---|
| `ReadHello`, `ConfigSnapshot`, `ReadStart`, `ReadBinary`, `ReadStop`, `ReadOther`, `ReadClose`, `ReadFails` | the cases of `ServeHTTP`'s loop |
| `StopMismatch`, `StopAccepted` | the two outcomes of `StreamTracker.Stop` |
| `Transcribe`, `OnASRFinal`, `OnLLMDelta`, ..., `OnTTSStop`, `OnAction` | the stages of `Run` and the sink's calls |
| `ProviderFails`, `SinkFails`, `PipelineFailed` | the failures of a turn |
| `ReadPing`, `WriteFrame`, `WriteFails` | `wsconn/conn.go` |
| `SendStart`, `SendFrame`, `SendStop`, `Forget`, `SendOther`, `Hear`, `LoseLink` | the device and the network |

The device does not wait for answers: it may send frames and a stop for a stream
whose start was refused, give up a stream without a stop, and use its id again.
It counts its frames correctly. A write waits while `down` is full; after the
link is lost it fails, or its bytes go nowhere.

`OneStream` is the promise of `docs/zh-CN/protocol.md:155-157` for one
direction: one open stream, frames only within it, and an end that is whole or
not at all. `GatewaySession` implements it twice, under two mappings: for what
the gateway takes (`Uplink`) and for what the device hears (`Downlink`).

`MayFail` is {asr, llm} in the run: `main.go` gives the gateway mock providers
only, and their synthesis fails only with the sink. With a synthesis that can
fail the downlink would not keep the promise, because `pipeline.go:201-209` ends
the turn without `tts.stop` and the next reply opens a second stream.

### ConversationMemory: what a session remembers

Models `conversationContextMessages`, `rememberConversationTurn` and the store
behind them. A turn is its number among all turns ever added; `summary` and
`turns` are sequences of such numbers, so that order, loss and repetition can be
stated. A response reads the clock, takes the lock and reads the memory
(`Begin`, `Snapshot`), and later reads the clock, takes the lock and adds its
turn (`Complete`, `Add`): four steps, between which other responses go on.
`Compressed` is `compressConversationMemoryLocked`, `Quoted` the choice of turns
that fit the budget. Sizes are small numbers, a line of the summary has size one;
the limits of each response are those of its own connection. The summary is cut
to its limit only when turns leave (`Merge`), and to half of it when it takes
half of the threshold (`Shortened`): one that was made under a larger limit stays
as it is, so what `MemoryIsBounded` says of it is no more than that.

### DebugTraces and Inference: HTTP requests and their traces

`DebugTraces` models `debugtrace/store.go`: each operator is one call under the
store's lock. `traces` and `order` are the store's, `files` the assets on disk,
`left` the directories that are nobody's any more, `begun` all traces started.
Audio is a number of bytes, and what is kept of it is always a beginning. An
asset of PCM gets a header; one in another format does not, nor does audio that
begins like a WAV file, whatever it is said to be (`FormOf`, `Encoded`).

`Inference` models the requests that use it, from the handler through the
service to the provider's client. `at` is the position of a request, which makes
at most one call on the store per step. `spoken` is what the provider has sent,
`passed` what its client handed to the service, `heard` what reached the client
of a stream. An upload is recorded in the format of its request, before the
provider refuses what is not PCM; speech is never WAV in the store, since the
provider's client unwraps every sentence that begins so. A WAV file inside a WAV
file, which would look like one again, is left out.

| Actions | Code |
|---|---|
| `Refuse`, `Accept`, `AnswerError`, `Close` | the handlers of `router.go` |
| `RefuseInput`, `Open`, `RecordInput`, `Resolve`, `Fails`, `RecordResult` | `Transcribe`, `ChatStream`, `completeMultimodal`, `Synthesize` of the service |
| `Transcribed`, `Described`, `Skip`, `Pass`, `ChatEnds`, `Chunk`, `SentenceEnds` | the OpenAI-compatible clients |
| `Disconnect`, `Restart` | the client, the process |

## The runs

| Run | Instance | Shows |
|---|---|---|
| `voice_response` | channel of 2, replies of up to 4 segments, 2 chunks each, 2 `response.cancel` events | `InOrder`, `SpokenReplyIsDone`, `CompletedIsEarned`, and that `CancelEnds`, `AnsweredEnds`, `SpeechEnds`; implements `ResponseContract` |
| `voice_response_empty` | the same | finds the reply without `response.done` (below) |
| `voice_turns` | 2 turns, 1 `response.create`: 3 responses, 3 creators | `SlotIsLive`, `RunningTraceIsHeld`, `EndedLeavesNoTrace`, `TurnsWindDown` |
| `voice_input` | 2 streams of up to 4 frames, 3 partial runs, release after 2 quiet frames; ids used again | `PartialIsHeld`, `StreamIsAccounted`, `PartialsInOrder` |
| `device_control` | 2 clients, 2 tokens; any number of requests, failed flushes, crashes and starts | `IssuedIsKept`, `ReportedExists`, and that `RequestEnds` |
| `device_control_ack` | the same | finds the acknowledgement that is undone (below) |
| `device_control_seed` | the same | finds the seed that stays half done (below) |
| `provider_registry` | 2 clients, 3 profiles, 3 snapshots; any number of registrations, failed flushes, crashes and starts | `DefaultExists`, `Usable`, `OthersAreKept`, `LoneChoiceHolds` |
| `provider_registry_override` | the same | finds the registration that a start takes back (below) |
| `gateway_session` | 2 ids, 2 openings of up to 2 frames, 2 other messages; 1 delta, 1 chunk; 2 messages of room either way | `TurnIsWholeStream`, `TraceTellsTheOutcome`, that `StopIsAnswered`; implements `OneStream` in both directions |
| `conversation_memory` | 2 responses at a time, 4 turns of size up to 2, the clock up to 3; two kinds of limits | `MemoryInOrder`, `PromptHasNoPause`; `TypeOK` holds the limits as well |
| `inference` | 2 requests, a store of 1 trace, 3 words, 2 chunks, 2 sentences, 1 restart | `HeldAreLatest`, `TraceTellsTheOutcome`, `ReplyIsWhole`, `RecordIsFaithful` |

Why the bounds are enough. A reply of 4 segments overfills a channel of 2 with
one segment in speech and one waiting in the callback; the code's 8 differs only
in how long that takes, and the proofs hold for every capacity. Two
`response.cancel` events can be answered before, between and after the steps of
one verdict. With 2 turns and
a request every pair of creators can interleave and a third response can be
alive. With 4 frames and a release of 2 a stream can hold a segment with its
pause and the start of the next; 3 partial runs allow a cancelled one, its
successor and the successor's successor to overlap. Two clients are enough for
one to act between the read and the save of the other, the only thing that
happens without the lock; two tokens can both be in flight, or one be lost with
a crash while the other is not. Three profiles are the built-in one, the old
default and one of a client's; three snapshots are the old server's, the
start's and one more, or two overlapping choices on top of the first.

Two openings under two ids are enough for a device to reopen a stream it has
forgotten, under the same id or another, while frames and a stop of the first are
still under way; two messages of room make both sides wait. Four turns
make the two kinds of limits compress by number, by size, or by both; one kind
has the longer summary and the other more turns, so that a summary is left above
the limit of the connection that uses it, is merged down to it, or is shortened.
Three ticks pass an idle timeout of one and of two between any two
steps of a response. A store of one trace evicts the trace of a running request
as soon as the other one starts; assets of two bytes with a header of one are cut
by a chunk, by a silence or only by the header, which a WAV upload of the same
size does without; one delta is stored of up to
three; and three words can be a beginning said three times.

What the properties of a run leave to the proofs: `FileIsReadable`, `IndexIsRight`, the
three parts of `StreamIsAccounted`, and the safe halves of the liveness
properties (`NobodyWaitsInACircle`, `NobodyKeepsTheLock`, `OwedIsUnderWay`),
whose violation a run would show as a deadlock or as a liveness property that
fails, are theorems. They are invariants like the others, and TLC can be asked
for them on the same instances.

Deadlock is checked for responses, turns, the control plane and the registry: a
response or session that stops anywhere but at its end is an error, and the end
itself is a step that changes nothing; the control plane and the registry never
stop. The instances of `VoiceInput`, `GatewaySession`, `ConversationMemory` and
`Inference` stop when their bounds are used up or the connection has ended, so
their runs do not check for it; that no stop is left unanswered in
`GatewaySession` is `StopIsAnswered`.

### Fairness

Goroutines that can run do run (weak fairness of every step that only needs the
scheduler). Nothing is assumed of a client or of a provider that has not been
cancelled: `http.Client{}` in `provider/factory.go` has no timeout, so a call
may hang. A provider's call does return once its context is cancelled; this is
what `net/http` does. The request's context is cancelled when the handler
returns, for hijacked connections too, and every context of a session is its
child; hence `Cancelled` in `VoiceTurns`. A lost connection is noticed by the
read loop, which cancels. `AnsweredEnds` asks instead that every provider call
returns, as a premise: it then shows that the two goroutines never wait for each
other.

In `DeviceControl` the disk answers, with success or failure (weak fairness of
the flushes), and a request that wants the lock gets it in the end (strong
fairness of `Works`): Go's `sync.RWMutex` lets a waiting writer in before later
readers, and a waiting reader in after the writer. Nothing makes a client ask
for anything, a connection end, a server start or a crash happen.

In `GatewaySession` the goroutine runs on (`Serve`, `RunTurn`), which for a turn
includes that its providers come to an end: they are the mock ones, which do. The
device reads (`Hear`). Without the last assumption nothing could be promised, as
the connection has no write deadline: the goroutine would wait in a write for
ever. Nothing makes the device send.

A write to a client is immediate in the voice modules, so their liveness results
do not speak about a client that stops reading.

## Proofs

`VoiceResponseProofs`, for every channel capacity, reply length and number of
chunks and cancellations: `TypeCorrect`, `SegmentsInOrder`,
`CompletedMeansEarned`, `SpokenRepliesDone`, `NoCircularWait` and
`KeepsTheContract`. The invariants are not inductive: that the flush appends the right segment needs to
know what each position of `runResponse` implies about the segmenter (`Phases`),
and that "completed" means whole needs to know who can have closed the channel
and what a result in the result channel says about the queue (`Channels`), and what
has been decided but not yet told (`Verdicts`). `IInv` is their conjunction. Each action that moves a segment has a lemma of its
own; the two facts about numbered sequences are lemmas as well.

`CompletedMeansEarned` has two halves: what a decision to report "completed" has
seen is still so when it is told, since nobody speaks any more, and a response
that was cancelled before it decided never reports "completed" later
(`CancelledInTime`, which every later state keeps). `SpokenReplyIsDone` is inductive by itself: the one return without
a verdict, `LLMDoneFails`, has said nothing or has lost the connection.
`NoCircularWait` is what safety can say of `AnsweredEnds` and `SpeechEnds`: while
`runResponse` waits in a select or for the result, the speech goroutine has
something to do. It needs to know that a result once sent stays in its channel
until someone takes it who is about to return, and that every return but two has
closed the channel of segments (`Handover`).
`KeepsTheContract`, `Spec => KeepsContract`, is the refinement of
`ResponseContract`. It uses the same invariant and one more fact, that whoever
has returned has cancelled the speech, so `Receive` begins no segment after the
verdict.

`VoiceTurnsProofs`, for every number of turns and requests: `TypeCorrect`,
`SlotLive`, `RunningTracesAreHeld`, `NoTraceIsLeft`. Setting the slot is only
safe because the response is new: `IInv` says that a response that has not
started is in nobody's hands (`Untouched`), that a turn's goroutine is idle until
its stream is stopped (`Idle`), and where the read loop is while the trace place
is empty (`LoopPlace`).

`VoiceInputProofs`, for every number of streams, frames and partial runs, every
release and growth: `TypeCorrect`, `PartialHeld`, `SpeechCovered`,
`SegmentsStayApart`, `BaselinePast`, `StreamAccounted`, which is the three
together, and `PartialsOrdered`. The invariant has two halves that no step
mixes. That a run which leaves releases only its own slot needs `RunsInOrder`:
the run that counts as current and lives has the slot, and runs not yet started
are untouched. That no frame falls between segments needs `DetectorIsPast`:
while a stream is open the detector speaks exactly within a segment, and what it
remembers lies within the audio received. `PartialsOrdered` rests on the slot as
well: a run starts only while no uncancelled one lives, and a run over the open
stream is cancelled only by an `audio.start` that is refused (`OrderInv`).

`DeviceControlProofs`, for every number of clients and tokens, any crashes and
any failed flushes: `TypeCorrect`, `FileReadable`, `IssuedKept`, `IndexRight`,
`ReportedIsThere`, `LockIsReturned`. That a token survives needs to know that it was in memory
when its flush began, and that memory never falls behind the file
(`TokensKept`); that a stale save cannot report a version without a snapshot
needs the same of every copy a request has in its hands (`CopiesExist`); and both
need that only a serving server has requests (`Phases`). That the file can be
loaded rests on `FilesWhole`: whoever is about to rename has the lock and has
written the temporary file to its end. A few lemmas, for a save, a write and a
flush that ends, stand for every operation of the repository.
`LockIsReturned` says of every state who has the lock: a flush of the seed or of
the one request that waits for it. So two flushes never share the temporary file,
and a request that waits, waits for a lock that somebody is about to give back or
for its own flush. `AuthTouches` has no branch for a token that has gone since
it was found; that none goes is part of the theorem.

`ProviderRegistryProofs`, for every number of clients, profiles and snapshots:
`TypeCorrect`, `DefaultIsThere`, `StaysUsable`, `OthersKept`, `LoneChoiceStays`.
That overlapping choices are harmless rests on `UpTo`: the snapshots are numbered
from 1 without a gap, and a version once read as the next one is later the next
or an earlier one, so the highest snapshot never disappears and always names a
saved profile (`Backed`, `Prepared`). That an undisputed choice stays needs to
know that while one client alone is choosing its version is exactly the next
(`Alone`); a start promotes its own profile only over no default or the old one,
which the property leaves out.

`GatewaySessionProofs`, for every number of openings, frames and turns and any
room for messages: `TurnsAreWhole`, `UplinkKept`, `DownlinkKept`,
`TracesAreClosed`, `TypeCorrect`, `StopsAreAccounted`. The first two share
`UpInv`. What the server has collected can be compared with the device only
through the messages between them, so the invariant marks every message under way with the device's place after sending it:
the opening, whether it is still open, and the frames sent of it. Each mark
follows from the one before by its message, the last one is the device's present
place, and at the first one, where the server has arrived, the open stream ends
with the frames sent so far of that opening, and every turn is the whole of an
opening that was stopped before.
`UplinkKept` and `DownlinkKept` are refinements: `Init` maps to the initial
states of `OneStream` and every step to one of its steps or a stutter.
`DownlinkKept` says the same of what the device plays (`DownInv`), under the
assumption `"tts" \notin MayFail`: a synthesis that fails after `tts.start` sends
no `tts.stop`, and the device then keeps a stream open that nobody ends.
`TypeCorrect` includes that the device never hears more outcomes than it asked
for (`owed`), which takes a count of messages along the link (`OwedInv`): the
stops on their way up, the outcomes on their way down and the turn being
answered are together no more than what is owed, and there is an opening for
whatever is owed. The room of the connection comes with it. While the link is up
the count is exact (`Settles`): no step loses a stop or an outcome, and a turn
that fails still writes one. `StopsAreAccounted` follows, the safe half of
`StopIsAnswered`: whatever is owed is on its way up, being worked on, or on its
way down.

`ConversationMemoryProofs`, for every number of responses and turns and every
set of limits: `TypeCorrect`, `MemoryOrdered`, `PromptUnbroken`. `MemoryInv`
says, besides the types, that the memory is within the limits of whoever used it
last as far as they bind (`Bounded`): a summary is half of one of them at most
(`Halved`), since it is shortened otherwise, but not longer than some connection
allows (`Allowed`) only because it was merged under that connection's limit; that what it remembers is in order and that no pause lies
between the oldest turn it remembers and the newest (`Sound`), that `last` is
the time of the newest turn (`LastIsLatest`), and the same of every prompt up to
the moment its response began (`Quotes`). No part is inductive alone: a memory
that is idle is given up by comparing the time with `last`, so that a turn is
added without a pause only because `last` is the time of the turn before it. That
compression ends within the threshold or with one turn (`LeavingFits`) needs the
sums of sizes to be numbers (`SumIsNat`), which is an induction over the fold of
the community modules. `MemoryAssumption` asks for finitely many limits, since
`LongestIdle` is their maximum; one process has finitely many connections.

`InferenceProofs`, for every number of requests, every limit of the store and all
sizes: `TypeCorrect`, `HeldLatest`, `TracesTell`, `RecordsFaithful`,
`RepliesWhole`. A call on the
store touches one trace at most (`Touches`), so one lemma, `RequestStep`, carries
the invariant through every action but `StartTrace` and `Restart`. For a trace in
memory the invariant says how its status follows the request (`Told`), that what
is stored of the deltas is the beginning of the text up to the limit (`Counts`),
and that the raw audio is what fits of all bytes sent, marked exactly when they
do not fit (`Keeps`); this last equation is what makes chunks and silences of any
size add up. The input is the asset made of the whole upload in its own form. `StartKeepsStore` shows that the eviction loop leaves the latest
traces. `RepliesWhole` compares the reply with the whole stream at every delta
(`ReplyInv`): one more word changes the text by that word or not at all
(`TextsGrow`), and the reply by as much, unless it repeats the opening
(`OpeningGrows`). `Texts` is a fold of the stream; that a fold over one position
more continues the fold before is an induction over positions.

Induction over data goes by sets: `Induct` says that a set of naturals with 0
and with the successor of each of its members has them all, from the
well-foundedness of `<`. The induction theorems of the library, which take an
operator, are not used, and neither is any recursive operator. With `Induct` a
fold is shown to exist for every length (`TextsExist`, `SumExists`) and to be
continued by one more element.

The only assumptions are the constants' ranges (`ConstantsAssumption`,
`BoundsAssumption`, `InputAssumption`, `ControlAssumption`,
`RegistryAssumption`, `EmptyAssumption`, `GatewayAssumption`, `StoreAssumption`,
`MemoryAssumption`, `InferenceAssumption`), and `"tts" \notin MayFail` where it is
named. Every invariant and refinement of the passing runs is proved, and so is
`CompletedIsEarned`. Model-checked only are the liveness properties (`CancelEnds`,
`AnsweredEnds`, `SpeechEnds`, `TurnsWindDown`, `RequestEnds`, `StopIsAnswered`),
and with them everything about fairness and about which actions are enabled: they
are beyond the proof system's reach.

## What the checks found

A reply without text leaves the client waiting. `runResponse` has a branch for
it that ends with `response.done` (`session.go:1053-1086`), but its first step
writes `llm.done` with an empty text, which `protocol/types.go:219` refuses, so
the branch returns at line 1064. `EveryReplyIsDone` states the expectation
(`skills/agensense-client/SKILL.md:179-190` lists `response.done` among the
events of a turn) and `voice_response_empty` refutes it.

An acknowledged configuration can be forgotten. `UpdateTelemetry`
(`service/device_control.go:163-174`) and `Bootstrap` (`device/service.go:88-112`)
save a whole device record that they read earlier; an acknowledgement that
succeeds in between is undone, although
`docs/zh-CN/device-bootstrap.md:106` has the server update the reported version.
`AckedIsReported` says so and `device_control_ack` refutes it. Since a device
sends one event at a time this takes two requests: a bootstrap during a
connection, or two connections.

The demo seed can stay half done. It saves the device before its configuration
(`device/seed.go:147-151`), and `SeedDemoData` takes the presence of the device
for a finished seed (`store/file_repository.go:57-60`). If the process dies or a
write fails between the two, no later start adds the configuration, and the
bootstrap that `docs/mvp-local-runbook.md:272-305` describes fails.
`SeedIsWhole` says so and `device_control_seed` refutes it.

The built-in profile cannot be overridden for good.
`EnsureDefaultProviderProfile` writes the configured contents on every start
(`app/default_provider_seed.go:66`), over what a client has registered under
that id; `docs/zh-CN/mvp-local-runbook.md:126` recommends just that registration,
and `README.zh-CN.md:160` says that registered profiles persist.
`RegistrationIsKept` says so and `provider_registry_override` refutes it. Which
profile is the default is not affected (`LoneChoiceHolds`).

What the models show of the code without a document to hold it against:

- Two creators of responses can both cancel before either sets the slot, and two
  responses then run at once.
- `clearResponse` empties the slot whoever it belongs to; a response that has
  just been created can become impossible to cancel until the next `audio.start`
  or the end of the connection, and the cancel that should have reached it
  reports success.
- After `flush_failed` or `llm_done_failed` the speech goroutine may wait on its
  channel for ever, because neither return closes it: `SpeechEnds` has to leave
  them out.
- A cancellation during the final flush is reported as "failed"
  (`session.go:1096`), and one after the last look at the context as "completed"
  (`session.go:1145-1156`).
- The read loop answers `response.cancel` itself (`session.go:380`), whether a
  response is running or not, and a response that it cancels then reports its own
  end (`session.go:1040`, `1128`, `1156`): the client gets two `response.done`
  events, "cancelled" twice or "cancelled" and another status, in either order.
- A turn that ends with its connection can leave the speech goroutine of its
  response behind, for the reason above: `TurnsWindDown` is about the goroutines
  of `VoiceTurns` only.
- An `audio.start` that is refused because a stream is open still cancels the
  partial run of that stream (`session.go:481-488`). The next run over the stream
  may then overtake the cancelled one, which can have been accepted already, and
  the client sees its text go back: `PartialsInOrder` leaves such streams out.
- A flush that fails leaves its change in memory. Readers see it until the next
  start, or until the next successful flush makes it permanent: a token whose
  bootstrap failed can become valid.
- Two overlapping registrations with `default` can take the same version, and
  one replaces the other although both are told of success. A choice that has
  read its version early can even be saved below a later one and never count:
  `LoneChoiceHolds` is about a client that has been alone.
- `conversationMemory.lastInteraction` can go back: the time of a turn is read
  before the lock is taken (`session.go:1719`), and the turn that gets it last
  sets it. `PromptHasNoPause` holds all the same.
- A summary that is full keeps its oldest lines and drops what compression adds
  (`session.go:1909`); a turn can leave the memory without a trace of it.
- A streamed chat whose body ends without `[DONE]` is a complete reply
  (`openai_compatible.go:260-265`).
- A reply that really begins with the same delta twice loses one of them
  (`openai_compatible.go:245-248`).
- Asset directories of an earlier process are never removed: the store knows only
  the traces it has started.
- With reused stream ids a partial transcript of an earlier stream can be shown
  for a later one (`session.go:781` compares ids), unless its context was
  cancelled before it was looked at.
- A client that makes `mock-default` its default has the choice replaced by the
  built-in profile at the next start (`default_provider_seed.go:113-115`), which
  cannot tell it from the default of an old server.
- A summary made under a large `summary_rune_limit` stays longer than the present
  one until turns leave the memory (`session.go:1877-1889`).

## Not modelled

- Prompts, languages, text normalisation and the parsing of MCP proposals: text
  only.
- Echo suppression's scoring: that it may drop an utterance is a choice.
- The bytes of a WebSocket frame, the upgrade, the encoding of envelopes, HTTP
  routing, configuration from the environment.
- How a text is cut into sentences for synthesis, and the fields of a WAV header:
  a text has some number of sentences, a chunk is raw or was unwrapped, and an
  upload is a WAV file or is not.
- Segments, times and the timeline of a trace, and the pages that show traces.
- The mock providers, except that the gateway's refuse empty audio.
- The in-memory repository and the local control plane, used by tests only.
- The command line tools, which are clients of this system.

## Plan

To come, in this order:

1. What `conversationMemory` promises in the abstract, a window at the end of the
   conversation, and `ConversationMemory` shown to implement it.
2. The conditions under which the refuted expectations hold: a configuration that
   is acknowledged while no other request of the device is under way stays
   reported, and a seed is whole if neither a crash nor a failed write falls
   between its two saves.
