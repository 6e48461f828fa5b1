----------------------------- MODULE DebugTraces -----------------------------
(* The store of debug traces (internal/debugtrace/store.go).  It holds the  *)
(* last Limit traces in memory and the audio of each as files in a          *)
(* directory of the trace.  A request keeps a handle; every call on it      *)
(* takes the lock of the store, and finds nothing to change once the trace  *)
(* has been evicted.  An operator below is one such call.                   *)
(*                                                                          *)
(* Audio is a number of bytes: which bytes are kept is always the first     *)
(* ones.  Times, the timeline and the descriptive fields are left out.      *)
EXTENDS Integers, Sequences, SequencesExt

CONSTANTS Traces,       \* identities StartTrace can give out
          Words,        \* texts of a delta of the language model
          NoAsset,      \* an asset that was never set
          Limit,        \* traces held (defaultTraceLimit)
          MaxAsset,     \* bytes kept of one asset (defaultMaxAssetSize)
          MaxStored,    \* deltas stored of one reply (maxStoredDeltas)
          HeaderBytes   \* bytes of the WAV header put before PCM audio

ASSUME StoreAssumption ==
  /\ Limit \in Nat \ {0}
  /\ MaxAsset \in Nat \ {0}
  /\ MaxStored \in Nat
  /\ HeaderBytes \in Nat

VARIABLES traces,   \* record of each trace in memory
          order,    \* identities in memory, oldest first
          files,    \* <<identity, name>> of each asset on disk
          left,     \* identities whose directory was left behind: it could not be
                    \* removed, or an earlier process made it
          begun     \* identities in the order StartTrace entered them

storeVars == <<traces, order, files, left, begun>>

Asset == [bytes : Nat, truncated : BOOLEAN]

TraceRecord ==
  [status : {"running", "completed", "error"},
   input : Asset \cup {NoAsset},
   text : Seq(Words), deltas : Seq(Words), deltaCount : Nat, deltasTruncated : BOOLEAN,
   raw : Nat, rawTruncated : BOOLEAN, audioBytes : Nat, audio : Asset \cup {NoAsset}]

\* The record StartTrace makes.
NewRecord ==
  [status |-> "running", input |-> NoAsset,
   text |-> <<>>, deltas |-> <<>>, deltaCount |-> 0, deltasTruncated |-> FALSE,
   raw |-> 0, rawTruncated |-> FALSE, audioBytes |-> 0, audio |-> NoAsset]

StoreInit ==
  /\ traces = [h \in {} |-> NewRecord]
  /\ order = <<>>
  /\ files = {}
  /\ left = {}
  /\ begun = <<>>

Held == DOMAIN traces

AtMost(n, limit) == IF n > limit THEN limit ELSE n

\* appendLimited: what is kept, and whether something was lost.  A destination
\* that is full already reports a loss whatever is appended.
AppendLimited(kept, added) ==
  [bytes |-> AtMost(kept + added, MaxAsset),
   truncated |-> kept >= MaxAsset \/ kept + added > MaxAsset]

\* encodeAudioAsset of audio in the form "pcm", "wav" or "other": PCM gets a
\* header before it, a WAV file and other codecs are kept as they are, and no
\* audio is an empty asset.
Encoded(form, bytes) ==
  IF bytes = 0 THEN [bytes |-> 0, truncated |-> FALSE]
  ELSE LET head == IF form = "pcm" THEN HeaderBytes ELSE 0
       IN  [bytes |-> AtMost(head + bytes, MaxAsset), truncated |-> head + bytes > MaxAsset]

\* How many of the oldest traces the loop of StartTrace evicts.
Excess(ids) == IF Len(ids) > Limit THEN Len(ids) - Limit ELSE 0

\* StartTrace: enters the trace, evicts the oldest ones and removes their
\* directories.  A removal may fail halfway, which nobody looks at.
StartTrace(h) ==
  LET all     == Append(order, h)
      evicted == {all[i] : i \in 1 .. Excess(all)}
      kept    == SubSeq(all, Excess(all) + 1, Len(all))
      theirs  == {f \in files : f[1] \in evicted}
  IN  /\ order' = kept
      /\ traces' = [i \in ToSet(kept) |-> IF i = h THEN NewRecord ELSE traces[i]]
      /\ begun' = Append(begun, h)
      /\ \E stuck \in SUBSET theirs :
           /\ files' = (files \ theirs) \cup stuck
           /\ left' = left \cup {f[1] : f \in stuck}

\* mutate: a call on a handle whose trace is gone changes nothing.
Mutate(h, record) ==
  /\ traces' = IF h \in Held THEN [traces EXCEPT ![h] = record] ELSE traces
  /\ UNCHANGED <<order, left, begun>>

\* persistAsset, under the same lock: an empty asset makes no file, and a write
\* that fails is an event of the trace and nothing else.
Persist_Slip(h, name, bytes) ==
  files' \in {files, IF bytes > 0 THEN files \cup {<<h, name>>} ELSE files}

Persist(h, name, bytes) ==
  files' \in {files, IF h \in Held /\ bytes > 0 THEN files \cup {<<h, name>>} ELSE files}

\* looksLikeWAV: audio that begins like a WAV file is one, whatever its format
\* is said to be.
FormOf(format, wav) == IF wav THEN "wav" ELSE format

SetInputAudio(h, form, bytes) ==
  LET asset == Encoded(form, bytes)
  IN  /\ Mutate(h, [traces[h] EXCEPT !.input = asset])
      /\ Persist(h, "input.wav", asset.bytes)

StartLLM(h) ==
  /\ Mutate(h, [traces[h] EXCEPT !.text = <<>>, !.deltas = <<>>, !.deltaCount = 0,
                                 !.deltasTruncated = FALSE])
  /\ UNCHANGED files

\* AddLLMDelta: past MaxStored the deltas are only counted.
AddLLMDelta(h, word) ==
  /\ Mutate(h, [traces[h] EXCEPT
       !.text = Append(@, word),
       !.deltaCount = @ + 1,
       !.deltas = IF Len(@) < MaxStored THEN Append(@, word) ELSE @,
       !.deltasTruncated = @ \/ Len(traces[h].deltas) >= MaxStored])
  /\ UNCHANGED files

\* CompleteLLM: a reply that is empty leaves what the deltas added up to.
CompleteLLM(h, text) ==
  /\ Mutate(h, [traces[h] EXCEPT !.text = IF text = <<>> THEN @ ELSE text])
  /\ UNCHANGED files

StartTTS(h) ==
  /\ Mutate(h, [traces[h] EXCEPT !.raw = 0, !.rawTruncated = FALSE, !.audioBytes = 0,
                                 !.audio = NoAsset])
  /\ UNCHANGED files

AddTTSChunk_Slip(h, bytes) ==
  LET appended == AppendLimited(traces[h].raw, bytes)
  IN  /\ Mutate(h, [traces[h] EXCEPT !.raw = appended.bytes, !.audioBytes = @ + bytes])
      /\ UNCHANGED files

AddTTSChunk(h, bytes) ==
  LET appended == AppendLimited(traces[h].raw, bytes)
  IN  /\ Mutate(h, [traces[h] EXCEPT !.raw = appended.bytes, !.rawTruncated = appended.truncated,
                                     !.audioBytes = @ + bytes])
      /\ UNCHANGED files

\* CompleteTTS: the chunks of speech are never WAV, which the provider unwraps
\* where a sentence begins (streamTTSAudio).
CompleteTTS(h, format) ==
  LET asset == Encoded(format, traces[h].raw)
      audio == [asset EXCEPT !.truncated = @ \/ traces[h].rawTruncated]
  IN  IF h \in Held
      THEN /\ Mutate(h, [traces[h] EXCEPT !.audio = audio])
           /\ Persist(h, "tts.wav", audio.bytes)
      ELSE UNCHANGED storeVars

\* finish: Complete and Fail.
Finish(h, status) ==
  /\ Mutate(h, [traces[h] EXCEPT !.status = status])
  /\ UNCHANGED files

\* A new process starts with an empty store and finds the directories of the
\* one before it, which nothing removes.
NewProcess ==
  /\ traces' = [h \in {} |-> NewRecord]
  /\ order' = <<>>
  /\ begun' = <<>>
  /\ left' = left \cup {f[1] : f \in files}
  /\ UNCHANGED files

----------------------------------------------------------------------------

StoreTypeOK ==
  /\ Held \subseteq Traces
  /\ \A h \in Held : traces[h] \in TraceRecord
  /\ order \in Seq(Traces)
  /\ begun \in Seq(Traces)
  /\ files \subseteq Traces \X {"input.wav", "tts.wav"}
  /\ left \subseteq Traces

\* The traces in memory are the last Limit ones started by this process, in
\* that order, whatever calls other requests make through handles of traces
\* that were evicted meanwhile (StartTrace, mutate).
OrderIsLatest ==
  /\ order = SubSeq(begun, Len(begun) - AtMost(Len(begun), Limit) + 1, Len(begun))
  /\ Held = ToSet(order)

\* Every file on disk belongs to a trace in memory, unless its directory could
\* not be removed or an earlier process left it: an asset completed after the
\* eviction of its trace does not bring the directory back (persistAsset runs
\* inside mutate, after the trace was found).
FilesAreOwned == \A f \in files : f[1] \in Held \cup left

\* Both: the store keeps the latest traces, in memory and on disk, although
\* requests go on with traces that it has evicted.
HeldAreLatest == OrderIsLatest /\ FilesAreOwned
=============================================================================
