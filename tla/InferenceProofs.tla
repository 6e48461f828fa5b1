--------------------------- MODULE InferenceProofs ---------------------------
(* Proofs about Inference, for any number of requests and any limits of the *)
(* store: the types, which traces are held, how a trace ends, that what is  *)
(* kept of deltas and audio is what the trace says, and that replies are    *)
(* whole.                                                                   *)
EXTENDS Inference, WellFoundedInduction, TLAPS

Working == {"input", "resolve", "call", "broken", "record", "close"}

\* A request that has not called its provider has nothing to show.
Fresh(q) ==
  /\ q.at \in {"idle", "open", "input", "resolve"} => q.passed = <<>> /\ q.sent = 0
  /\ q.at \notin {"answered", "lost"} => q.answer = "none"

\* The status of a trace follows the request.
Told(t, q) ==
  /\ q.at \in Working => t.status = "running"
  /\ q.at = "failed" => t.status = "error"
  /\ q.at \in Working \cup {"failed", "answered"}
  /\ q.at = "answered" =>
       \/ q.answer = "done" /\ t.status = "completed"
       \/ q.answer = "error" /\ t.status = "error"

\* Deltas are stored up to a limit, counted beyond it.
Counts(t, q) ==
  /\ t.text = q.passed
  /\ t.deltaCount = Len(t.text)
  /\ t.deltas = SubSeq(t.text, 1, AtMost(Len(t.text), MaxStored))
  /\ t.deltasTruncated <=> Len(t.text) > MaxStored

\* The raw audio is what fits of what was sent, until it is made an asset.
Keeps(t, q) ==
  /\ t.audioBytes = q.sent
  /\ t.raw = AtMost(q.sent, MaxAsset)
  /\ t.rawTruncated <=> q.sent > MaxAsset
  /\ t.input # NoAsset => t.input = Encoded(FormOf(q.asked, q.wav), q.size)
  /\ t.audio # NoAsset =>
       /\ q.at \in {"close", "answered"}
       /\ t.audio.bytes = Encoded(q.format, t.raw).bytes
       /\ t.audio.truncated <=> Encoded(q.format, t.raw).truncated \/ t.rawTruncated

Fits(t, q) == Told(t, q) /\ Counts(t, q) /\ Keeps(t, q)

ReqTypeOK ==
  /\ req \in [Requests -> Request]
  /\ words \in 0 .. MaxWords
  /\ chunks \in 0 .. MaxChunks
  /\ restarted \in BOOLEAN

StoreInv == StoreTypeOK /\ HeldAreLatest

IInv ==
  /\ StoreInv /\ ReqTypeOK
  /\ \A r \in Requests : Fresh(req[r])
  /\ \A r \in Held : Fits(traces[r], req[r])
----------------------------------------------------------------------------
(* The store.                                                               *)

\* A call on the handle of one trace: it changes that record at most, and
\* leaves a file only where there is a record.
Touches(h) ==
  /\ UNCHANGED <<order, left, begun>>
  /\ Held' = Held
  /\ \A i \in Held : i # h => traces'[i] = traces[i]
  /\ h \in Held => traces'[h] \in TraceRecord
  /\ \A f \in files' : \/ f \in files
                       \/ h \in Held /\ f \in {h} \X {"input.wav", "tts.wav"}

LEMMA TouchKeeps ==
  ASSUME StoreInv, NEW h \in Traces, Touches(h)
  PROVE  StoreInv'
  <1>1. StoreTypeOK'
    BY DEF StoreInv, StoreTypeOK, Touches
  <1>2. OrderIsLatest'
    BY DEF StoreInv, HeldAreLatest, OrderIsLatest, Touches
  <1>3. FilesAreOwned'
    BY DEF StoreInv, HeldAreLatest, FilesAreOwned, Touches
  <1>4. QED
    BY <1>1, <1>2, <1>3 DEF StoreInv, HeldAreLatest

LEMMA AtMostInRange ==
  ASSUME NEW n \in Nat, NEW m \in Nat
  PROVE  /\ AtMost(n, m) \in Nat /\ AtMost(n, m) <= n /\ AtMost(n, m) <= m
         /\ n <= m => AtMost(n, m) = n
         /\ n >= m => AtMost(n, m) = m
  BY DEF AtMost

\* The last m of a sequence, one by one.
LEMMA LastOnes ==
  ASSUME NEW S, NEW s \in Seq(S), NEW m \in 0 .. Len(s)
  PROVE  LET last == SubSeq(s, Len(s) - m + 1, Len(s)) IN
         /\ last \in Seq(S) /\ Len(last) = m
         /\ \A j \in 1 .. m : last[j] = s[Len(s) - m + j]
  <1> DEFINE n == Len(s)
             last == SubSeq(s, n - m + 1, n)
  <1>1. n \in Nat /\ m \in Nat /\ m <= n
    OBVIOUS
  <1>2. Len(last) = m /\ last \in Seq(S)
    BY <1>1
  <1>3. \A j \in 1 .. m : last[j] = s[n - m + j]
    BY <1>1
  <1>4. QED
    BY <1>2, <1>3

LEMMA SameSequence ==
  ASSUME NEW S, NEW s \in Seq(S), NEW t \in Seq(S), Len(s) = Len(t),
         \A j \in 1 .. Len(s) : s[j] = t[j]
  PROVE  s = t
  <1>1. DOMAIN s = 1 .. Len(s) /\ DOMAIN t = 1 .. Len(s)
    OBVIOUS
  <1>2. s = [j \in DOMAIN s |-> s[j]] /\ t = [j \in DOMAIN t |-> t[j]]
    OBVIOUS
  <1>3. QED
    BY <1>1, <1>2

\* A trace that starts is the latest, and the ones that leave for it are the
\* oldest.
LEMMA StartKeepsStore ==
  ASSUME StoreInv, NEW h \in Traces, StartTrace(h)
  PROVE  /\ StoreInv'
         /\ \A i \in Held' : i = h \/ i \in Held
         /\ \A i \in Held' : traces'[i] = IF i = h THEN NewRecord ELSE traces[i]
  <1> USE StoreAssumption
  <1> DEFINE n == Len(begun)
             m == AtMost(n, Limit)
             all == Append(order, h)
             e == Excess(all)
             kept == SubSeq(all, e + 1, Len(all))
             evicted == {all[i] : i \in 1 .. e}
             theirs == {f \in files : f[1] \in evicted}
  <1>1. /\ order \in Seq(Traces) /\ begun \in Seq(Traces)
        /\ files \subseteq Traces \X {"input.wav", "tts.wav"} /\ left \subseteq Traces
        /\ \A i \in Held : traces[i] \in TraceRecord
    BY DEF StoreInv, StoreTypeOK
  <1>2. /\ n \in Nat /\ m \in 0 .. n /\ m <= Limit
        /\ (n < Limit => m = n) /\ (n >= Limit => m = Limit)
    <2>1. n \in Nat /\ Limit \in Nat
      BY <1>1
    <2>2. QED
      BY <2>1 DEF AtMost
  <1>3. /\ order = SubSeq(begun, n - m + 1, n) /\ Held = ToSet(order)
        /\ \A f \in files : f[1] \in Held \cup left
    BY DEF StoreInv, HeldAreLatest, OrderIsLatest, FilesAreOwned
  <1>4. Len(order) = m /\ \A j \in 1 .. m : order[j] = begun[n - m + j]
    BY <1>1, <1>2, <1>3, LastOnes
  <1>5. /\ all \in Seq(Traces) /\ Len(all) = m + 1 /\ all[m + 1] = h
        /\ \A j \in 1 .. m : all[j] = order[j]
    BY <1>1, <1>2, <1>4
  <1>6. e \in {0, 1} /\ (e = 1 <=> m = Limit) /\ m + 1 - e = AtMost(n + 1, Limit)
    <2>1. e = IF m + 1 > Limit THEN m + 1 - Limit ELSE 0
      <3>1. e = IF Len(all) > Limit THEN Len(all) - Limit ELSE 0
        BY DEF Excess
      <3> HIDE DEF e, all, m, n
      <3>2. QED
        BY <1>2, <1>5, <3>1
    <2>2. AtMost(n + 1, Limit) = IF n + 1 > Limit THEN Limit ELSE n + 1
      BY DEF AtMost
    <2> HIDE DEF e, m, n
    <2>3. QED
      BY <1>2, <2>1, <2>2
  <1>7. /\ kept \in Seq(Traces) /\ Len(kept) = m + 1 - e
        /\ \A j \in 1 .. m + 1 - e : kept[j] = all[e + j]
    <2> DEFINE k == m + 1 - e
               last == SubSeq(all, Len(all) - k + 1, Len(all))
    <2>1. k \in 0 .. Len(all) /\ Len(all) - k + 1 = e + 1 /\ Len(all) - k = e
      BY <1>2, <1>5, <1>6
    <2>2. kept = last
      BY <2>1
    <2>3. /\ last \in Seq(Traces) /\ Len(last) = k
          /\ \A j \in 1 .. k : last[j] = all[Len(all) - k + j]
      <3> HIDE DEF all, k
      <3>1. QED
        BY <1>5, <2>1, LastOnes
    <2>4. \A j \in 1 .. k : last[j] = all[e + j]
      <3> HIDE DEF all, k, last, e
      <3>1. QED
        BY <2>1, <2>3
    <2> HIDE DEF kept, last
    <2>5. QED
      BY <2>2, <2>3, <2>4
  <1>8. /\ order' = kept /\ begun' = Append(begun, h)
        /\ traces' = [i \in ToSet(kept) |-> IF i = h THEN NewRecord ELSE traces[i]]
        /\ \E stuck \in SUBSET theirs :
             /\ files' = (files \ theirs) \cup stuck
             /\ left' = left \cup {f[1] : f \in stuck}
    BY DEF StartTrace
  <1>9. ToSet(kept) = {kept[j] : j \in 1 .. m + 1 - e}
    <2>1. DOMAIN kept = 1 .. m + 1 - e
      BY <1>7
    <2>2. QED
      BY <2>1 DEF ToSet
  <1>10. ToSet(order) = {order[j] : j \in 1 .. m}
    <2>1. DOMAIN order = 1 .. m
      BY <1>1, <1>4
    <2>2. QED
      BY <2>1 DEF ToSet
  <1> HIDE DEF all, e, m, kept, evicted
  <1>11. \A i \in ToSet(kept) : i \in Traces /\ (i = h \/ i \in Held)
    <2> SUFFICES ASSUME NEW j \in 1 .. m + 1 - e
                 PROVE  kept[j] \in Traces /\ (kept[j] = h \/ kept[j] \in Held)
      BY <1>9
    <2>1. e + j \in 1 .. m + 1 /\ kept[j] = all[e + j]
      BY <1>2, <1>6, <1>7
    <2>2. kept[j] \in Traces
      BY <1>5, <2>1
    <2>3. CASE e + j = m + 1
      BY <1>5, <2>1, <2>2, <2>3
    <2>4. CASE e + j # m + 1
      <3>1. e + j \in 1 .. m
        BY <1>2, <2>1, <2>4
      <3>2. QED
        BY <1>3, <1>5, <1>10, <2>1, <2>2, <3>1
    <2>5. QED
      BY <2>3, <2>4
  <1>12. NewRecord \in TraceRecord
    BY DEF NewRecord, TraceRecord
  <1>13. Held' = ToSet(kept)
    BY <1>8 DEF Held
  <1>14. OrderIsLatest'
    <2> DEFINE k == m + 1 - e
               now == Append(begun, h)
             last == SubSeq(now, Len(now) - k + 1, Len(now))
    <2>1. now \in Seq(Traces) /\ Len(now) = n + 1 /\ k \in 0 .. Len(now)
      BY <1>1, <1>2, <1>6
    <2>2. /\ last \in Seq(Traces) /\ Len(last) = k
          /\ \A j \in 1 .. k : last[j] = now[Len(now) - k + j]
      <3> HIDE DEF now, k
      <3>1. QED
        BY <2>1, LastOnes
    <2>3. \A j \in 1 .. k : kept[j] = now[Len(now) - k + j]
      <3> TAKE j \in 1 .. k
      <3> SUFFICES kept[j] = now[n + 1 - k + j]
        BY <2>1
      <3>1. kept[j] = all[e + j] /\ n + 1 - k + j = n - m + (e + j) /\ e + j \in 1 .. m + 1
        BY <1>2, <1>6, <1>7
      <3>2. CASE e + j = m + 1
        <4>1. n + 1 - k + j = n + 1
          BY <1>2, <1>6, <3>2
        <4>2. QED
          BY <1>1, <1>5, <3>1, <3>2, <4>1
      <3>3. CASE e + j # m + 1
        <4>1. e + j \in 1 .. m
          BY <1>2, <3>1, <3>3
        <4>2. n - m + (e + j) \in 1 .. n
          <5> HIDE DEF n
          <5>1. QED
            BY <1>2, <4>1
        <4>3. all[e + j] = begun[n - m + (e + j)]
          BY <1>4, <1>5, <4>1
        <4>4. now[n - m + (e + j)] = begun[n - m + (e + j)]
          BY <1>1, <4>2
        <4>5. QED
          BY <3>1, <4>3, <4>4
      <3>4. QED
        BY <3>2, <3>3
    <2>4. k = AtMost(Len(now), Limit)
      BY <1>6, <2>1
    <2>5. last = SubSeq(now, Len(now) - AtMost(Len(now), Limit) + 1, Len(now))
      BY <2>4
    <2> HIDE DEF now, last, k, n
    <2>6. \A j \in 1 .. k : kept[j] = last[j]
      BY <2>2, <2>3, Zenon
    <2>7. kept \in Seq(Traces) /\ Len(kept) = k
      BY <1>7 DEF k
    <2>8. kept = last
      BY <2>2, <2>6, <2>7, SameSequence
    <2>9. order' = last /\ begun' = now /\ Held' = ToSet(order')
      BY <1>8, <1>13, <2>8 DEF now
    <2>10. QED
      BY <2>5, <2>9 DEF OrderIsLatest
  <1>15. FilesAreOwned'
    <2> SUFFICES ASSUME NEW f \in files' PROVE f[1] \in Held' \cup left'
      BY DEF FilesAreOwned
    <2> PICK stuck \in SUBSET theirs : /\ files' = (files \ theirs) \cup stuck
                                       /\ left' = left \cup {g[1] : g \in stuck}
      BY <1>8
    <2>1. CASE f \in stuck
      BY <2>1
    <2>2. CASE f \in files \ theirs
      <3>1. f[1] \in Held \cup left /\ f[1] \notin evicted
        BY <1>3, <2>2
      <3>2. CASE f[1] \in Held
        <4>1. PICK j \in 1 .. m : f[1] = order[j]
          BY <1>3, <1>10, <3>2
        <4>2. f[1] = all[j] /\ j \notin 1 .. e
          BY <1>5, <3>1, <4>1 DEF evicted
        <4>3. j - e \in 1 .. m + 1 - e /\ e + (j - e) = j
          BY <1>2, <1>6, <4>1, <4>2
        <4>4. f[1] = kept[j - e]
          BY <1>7, <4>2, <4>3
        <4>5. QED
          BY <1>9, <1>13, <4>3, <4>4
      <3>3. QED
        BY <3>1, <3>2
    <2>3. QED
      BY <2>1, <2>2
  <1>16. StoreTypeOK'
    <2>1. Held' \subseteq Traces
      BY <1>11, <1>13
    <2>2. \A i \in Held' : traces'[i] \in TraceRecord
      BY <1>1, <1>8, <1>11, <1>12, <1>13
    <2>3. order' \in Seq(Traces) /\ begun' \in Seq(Traces)
      BY <1>1, <1>7, <1>8
    <2>4. files' \subseteq Traces \X {"input.wav", "tts.wav"}
      BY <1>1, <1>8
    <2>5. left' \subseteq Traces
      BY <1>1, <1>8
    <2>6. QED
      BY <2>1, <2>2, <2>3, <2>4, <2>5 DEF StoreTypeOK
  <1>17. QED
    BY <1>8, <1>11, <1>13, <1>14, <1>15, <1>16 DEF StoreInv, HeldAreLatest

\* A call on a handle changes its trace to a given record, if it is there.
LEMMA MutateTouches ==
  ASSUME StoreInv, NEW h \in Traces, NEW record, Mutate(h, record),
         h \in Held => record \in TraceRecord,
         \A f \in files' : \/ f \in files
                           \/ h \in Held /\ f \in {h} \X {"input.wav", "tts.wav"}
  PROVE  Touches(h) /\ (h \in Held => traces'[h] = record)
  <1>1. CASE h \in Held
    <2>1. traces' = [traces EXCEPT ![h] = record]
      BY <1>1 DEF Mutate
    <2>2. Held' = Held /\ traces'[h] = record /\ \A i \in Held : i # h => traces'[i] = traces[i]
      BY <1>1, <2>1 DEF Held
    <2>3. QED
      BY <1>1, <2>2 DEF Touches, Mutate
  <1>2. CASE h \notin Held
    <2>1. traces' = traces
      BY <1>2 DEF Mutate
    <2>2. QED
      BY <1>2, <2>1 DEF Touches, Mutate, Held
  <1>3. QED
    BY <1>1, <1>2

\* Persist leaves a file only for a trace that is held.
LEMMA PersistOwned ==
  ASSUME NEW h \in Traces, NEW name \in {"input.wav", "tts.wav"}, NEW bytes,
         Persist(h, name, bytes)
  PROVE  \A f \in files' : \/ f \in files
                           \/ h \in Held /\ f \in {h} \X {"input.wav", "tts.wav"}
  BY DEF Persist

\* No call on the store touches nothing.
LEMMA QuietTouches ==
  ASSUME StoreInv, NEW h \in Traces, UNCHANGED storeVars
  PROVE  Touches(h) /\ (h \in Held => traces'[h] = traces[h])
  <1>1. traces' = traces /\ order' = order /\ files' = files /\ left' = left /\ begun' = begun
    BY DEF storeVars
  <1>2. h \in Held => traces'[h] \in TraceRecord
    BY <1>1 DEF StoreInv, StoreTypeOK
  <1>3. QED
    BY <1>1, <1>2 DEF Touches, Held

\* What Encoded makes is an asset.
LEMMA EncodedIsAsset ==
  ASSUME NEW format, NEW bytes \in Nat
  PROVE  Encoded(format, bytes) \in Asset
  BY StoreAssumption DEF Encoded, Asset, AtMost
----------------------------------------------------------------------------
(* The requests.                                                            *)

\* The bounds of the instances stay in their ranges.
Bounded ==
  words' \in 0 .. MaxWords /\ chunks' \in 0 .. MaxChunks /\ restarted' \in BOOLEAN

\* A step of one request that calls the store for its own trace.
LEMMA RequestStep ==
  ASSUME IInv, NEW r \in Requests, NEW q \in Request,
         Touches(r), req' = [req EXCEPT ![r] = q], Bounded,
         Fresh(q), r \in Held => Fits(traces'[r], q)
  PROVE  IInv'
  <1>1. StoreInv'
    BY TouchKeeps DEF IInv, Requests
  <1>2. req \in [Requests -> Request]
    BY DEF IInv, ReqTypeOK
  <1>3. /\ req'[r] = q
        /\ \A i \in Requests : i # r => req'[i] = req[i]
        /\ req' \in [Requests -> Request]
    BY <1>2
  <1>4. ReqTypeOK'
    BY <1>3 DEF ReqTypeOK, Bounded
  <1>5. ASSUME NEW i \in Requests PROVE Fresh(req'[i])
    <2>1. CASE i = r
      BY <1>3, <2>1
    <2>2. CASE i # r
      BY <1>3, <2>2 DEF IInv
    <2>3. QED
      BY <2>1, <2>2
  <1>6. ASSUME NEW i \in Held' PROVE Fits(traces'[i], req'[i])
    <2>1. i \in Held /\ i \in Requests
      BY DEF Touches, IInv, StoreInv, StoreTypeOK, Requests
    <2>2. CASE i = r
      BY <1>3, <2>1, <2>2
    <2>3. CASE i # r
      <3>1. traces'[i] = traces[i] /\ req'[i] = req[i]
        BY <1>3, <2>1, <2>3 DEF Touches
      <3>2. QED
        BY <2>1, <3>1 DEF IInv
    <2>4. QED
      BY <2>2, <2>3
  <1>7. (\A i \in Requests : Fresh(req[i]))' /\ (\A i \in Held : Fits(traces[i], req[i]))'
    BY <1>5, <1>6
  <1>8. QED
    BY <1>1, <1>4, <1>7 DEF IInv

\* What is known of one request and of its trace.
LEMMA Known ==
  ASSUME IInv, NEW r \in Requests
  PROVE  /\ StoreInv /\ r \in Traces
         /\ req \in [Requests -> Request]
         /\ req[r] \in Request /\ Fresh(req[r])
         /\ r \in Held => traces[r] \in TraceRecord /\ Fits(traces[r], req[r])
  BY DEF IInv, StoreInv, StoreTypeOK, ReqTypeOK, Requests

LEMMA StillBounded ==
  ASSUME IInv, UNCHANGED Bounds
  PROVE  Bounded
  <1>1. words' = words /\ chunks' = chunks /\ restarted' = restarted
    BY DEF Bounds
  <1>2. QED
    BY <1>1 DEF IInv, ReqTypeOK, Bounded
----------------------------------------------------------------------------
(* One lemma for each action.                                               *)

LEMMA RefuseStep ==
  ASSUME IInv, NEW r \in Requests, Refuse(r) \/ RefuseInput(r)
  PROVE  IInv'
  <1> DEFINE q == [req[r] EXCEPT !.at = "answered", !.answer = "refused"]
  <1>1. /\ req[r].at \in {"idle", "open"} /\ UNCHANGED storeVars /\ UNCHANGED Bounds
        /\ req' = [req EXCEPT ![r].at = "answered", ![r].answer = "refused"]
    BY DEF Refuse, RefuseInput
  <1>2. req' = [req EXCEPT ![r] = q] /\ q \in Request /\ q.at = "answered"
    <2>1. req[r] \in Request /\ req \in [Requests -> Request]
      BY Known
    <2>2. req' = [req EXCEPT ![r] = q]
      BY <1>1, <2>1
    <2>3. q \in Request
      BY <2>1 DEF Request, Phases
    <2>4. QED
      BY <2>1, <2>2, <2>3 DEF Request
  <1>3. Fresh(q)
    BY <1>2 DEF Fresh
  <1>4. r \notin Held
    BY <1>1, Known DEF Fits, Told, Working
  <1>5. Touches(r) /\ Bounded
    BY <1>1, Known, QuietTouches, StillBounded
  <1> HIDE DEF q
  <1>6. QED
    BY <1>2, <1>3, <1>4, <1>5, RequestStep

LEMMA AcceptStep ==
  ASSUME IInv, NEW r \in Requests, Accept(r)
  PROVE  IInv'
  <1>1. PICK kind \in Kinds, size \in AudioSizes, wav \in BOOLEAN, parts \in 1 .. MaxParts,
             format \in {"pcm", "other"} :
          /\ kind # "asr" => size = 0
          /\ wav => size > 0
          /\ kind # "tts" => parts = 1
          /\ kind \notin {"asr", "tts"} => format = "pcm"
          /\ req' = [req EXCEPT ![r].at = "open", ![r].kind = kind, ![r].size = size,
                                ![r].wav = wav, ![r].parts = parts, ![r].asked = format,
                                ![r].format = format]
    BY Zenon DEF Accept
  <1> DEFINE q == [req[r] EXCEPT !.at = "open", !.kind = kind, !.size = size, !.wav = wav,
                                 !.parts = parts, !.asked = format, !.format = format]
  <1>2. req[r].at = "idle" /\ UNCHANGED storeVars /\ UNCHANGED Bounds
    BY DEF Accept
  <1>3. size \in Nat /\ parts \in Nat
    BY InferenceAssumption
  <1>4. /\ req' = [req EXCEPT ![r] = q] /\ q \in Request
        /\ q.at = "open" /\ q.passed = req[r].passed /\ q.sent = req[r].sent
        /\ q.answer = req[r].answer
    <2>1. req[r] \in Request /\ req \in [Requests -> Request]
      BY Known
    <2>2. req' = [req EXCEPT ![r] = q]
      BY <1>1, <2>1
    <2>3. q \in Request
      <3>1. "open" \in Phases
        BY DEF Phases
      <3>2. QED
        BY <1>3, <2>1, <3>1 DEF Request
    <2>4. /\ q.at = "open" /\ q.passed = req[r].passed /\ q.sent = req[r].sent
          /\ q.answer = req[r].answer
      BY <2>1 DEF Request
    <2>5. QED
      BY <2>2, <2>3, <2>4
  <1>5. Fresh(q)
    BY <1>2, <1>4, Known DEF Fresh
  <1>6. r \notin Held
    BY <1>2, Known DEF Fits, Told, Working
  <1>7. Touches(r) /\ Bounded
    BY <1>2, Known, QuietTouches, StillBounded
  <1> HIDE DEF q
  <1>8. QED
    BY <1>4, <1>5, <1>6, <1>7, RequestStep

\* A request that goes to another phase, with at most one call on the store.
LEMMA GoesStep ==
  ASSUME IInv, NEW r \in Requests, NEW phase \in Phases, Goes(r, phase), UNCHANGED Bounds,
         Touches(r), Fresh([req[r] EXCEPT !.at = phase]),
         r \in Held => Fits(traces'[r], [req[r] EXCEPT !.at = phase])
  PROVE  IInv'
  <1> DEFINE q == [req[r] EXCEPT !.at = phase]
  <1>1. req[r] \in Request /\ req \in [Requests -> Request]
    BY Known
  <1>2. req' = [req EXCEPT ![r] = q]
    BY <1>1 DEF Goes
  <1>3. q \in Request
    BY <1>1 DEF Request
  <1> HIDE DEF q
  <1>4. Fresh(q) /\ (r \in Held => Fits(traces'[r], q))
    BY DEF q
  <1>5. QED
    BY <1>2, <1>3, <1>4, StillBounded, RequestStep

\* Between two phases in which the trace is told the same nothing else changes.
LEMMA QuietStep ==
  ASSUME IInv, NEW r \in Requests, NEW phase \in {"call", "record", "close"}, Goes(r, phase),
         req[r].at \in Working \ {"close"}, UNCHANGED <<storeVars, Bounds>>
  PROVE  IInv'
  <1> DEFINE q == [req[r] EXCEPT !.at = phase]
  <1>1. /\ req[r] \in Request /\ Fresh(req[r]) /\ UNCHANGED storeVars /\ UNCHANGED Bounds
        /\ StoreInv /\ r \in Traces
        /\ r \in Held => traces[r] \in TraceRecord /\ Fits(traces[r], req[r])
    BY Known
  <1>2. /\ q.at = phase /\ q.passed = req[r].passed /\ q.sent = req[r].sent
        /\ q.answer = req[r].answer /\ q.size = req[r].size /\ q.format = req[r].format
        /\ q.asked = req[r].asked /\ q.wav = req[r].wav
    BY <1>1 DEF Request
  <1>3. Touches(r) /\ (r \in Held => traces'[r] = traces[r])
    BY <1>1, QuietTouches
  <1> HIDE DEF q
  <1>4. Fresh(q)
    BY <1>1, <1>2 DEF Fresh, Working
  <1>5. ASSUME r \in Held PROVE Fits(traces[r], q)
    <2>1. Told(traces[r], q)
      BY <1>1, <1>2, <1>5 DEF Fits, Told, Working
    <2>2. Counts(traces[r], q)
      BY <1>1, <1>2, <1>5 DEF Fits, Counts
    <2>3. Keeps(traces[r], q)
      BY <1>1, <1>2, <1>5 DEF Fits, Keeps, Working
    <2>4. QED
      BY <2>1, <2>2, <2>3 DEF Fits
  <1>6. QED
    BY <1>1, <1>3, <1>4, <1>5, GoesStep DEF q, Phases

LEMMA OpenStep ==
  ASSUME IInv, NEW r \in Requests, Open(r)
  PROVE  IInv'
  <1> DEFINE phase == IF req[r].kind = "asr" THEN "input" ELSE "resolve"
             q == [req[r] EXCEPT !.at = phase]
  <1>1. req[r].at = "open" /\ StartTrace(r) /\ Goes(r, phase) /\ UNCHANGED Bounds
    BY DEF Open
  <1>2. /\ req[r] \in Request /\ Fresh(req[r]) /\ req \in [Requests -> Request]
        /\ StoreInv /\ r \in Traces
    BY Known
  <1>3. /\ StoreInv' /\ (\A i \in Held' : i = r \/ i \in Held)
        /\ \A i \in Held' : traces'[i] = IF i = r THEN NewRecord ELSE traces[i]
    BY <1>1, <1>2, StartKeepsStore
  <1>4. phase \in {"input", "resolve"}
    OBVIOUS
  <1> HIDE DEF phase
  <1>5. /\ q.at = phase /\ q.passed = <<>> /\ q.sent = 0 /\ q.answer = "none"
        /\ q \in Request
    BY <1>1, <1>2, <1>4 DEF Request, Phases, Fresh
  <1>6. /\ req'[r] = q /\ req' \in [Requests -> Request]
        /\ \A i \in Requests : i # r => req'[i] = req[i]
    BY <1>1, <1>2, <1>5 DEF Goes
  <1> HIDE DEF q
  <1>7. Fresh(q)
    BY <1>4, <1>5 DEF Fresh
  <1>8. Fits(NewRecord, q)
    <2>1. Told(NewRecord, q)
      BY <1>4, <1>5 DEF Told, Working, NewRecord
    <2>2. Counts(NewRecord, q)
      <3>1. SubSeq(<<>>, 1, 0) = <<>> /\ Len(<<>>) = 0
        OBVIOUS
      <3>2. AtMost(0, MaxStored) = 0
        BY StoreAssumption DEF AtMost
      <3>3. QED
        BY <1>5, <3>1, <3>2, StoreAssumption DEF Counts, NewRecord
    <2>3. Keeps(NewRecord, q)
      BY <1>5, StoreAssumption DEF Keeps, NewRecord, AtMost
    <2>4. QED
      BY <2>1, <2>2, <2>3 DEF Fits
  <1>9. ReqTypeOK'
    <2>1. Bounded
      BY <1>1, StillBounded
    <2>2. QED
      BY <1>6, <2>1 DEF ReqTypeOK, Bounded
  <1>10. ASSUME NEW i \in Requests PROVE Fresh(req'[i])
    BY <1>6, <1>7 DEF IInv
  <1>11. ASSUME NEW i \in Held' PROVE Fits(traces'[i], req'[i])
    <2>1. CASE i = r
      BY <1>3, <1>6, <1>8, <2>1
    <2>2. CASE i # r
      <3>1. i \in Held /\ traces'[i] = traces[i]
        BY <1>3, <2>2
      <3>2. i \in Requests
        BY <1>2, <3>1 DEF StoreInv, StoreTypeOK, Requests
      <3>3. QED
        BY <1>6, <2>2, <3>1, <3>2 DEF IInv
    <2>3. QED
      BY <2>1, <2>2
  <1>12. (\A i \in Requests : Fresh(req[i]))' /\ (\A i \in Held : Fits(traces[i], req[i]))'
    BY <1>10, <1>11
  <1>13. QED
    BY <1>3, <1>9, <1>12 DEF IInv

LEMMA RecordInputStep ==
  ASSUME IInv, NEW r \in Requests, RecordInput(r)
  PROVE  IInv'
  <1> DEFINE asset == Encoded(FormOf(req[r].asked, req[r].wav), req[r].size)
             q == [req[r] EXCEPT !.at = "resolve"]
             t == [traces[r] EXCEPT !.input = asset]
  <1>1. /\ req[r].at = "input" /\ Goes(r, "resolve") /\ UNCHANGED Bounds
        /\ Mutate(r, t) /\ Persist(r, "input.wav", asset.bytes)
    BY DEF RecordInput, SetInputAudio
  <1>2. /\ req[r] \in Request /\ Fresh(req[r]) /\ StoreInv /\ r \in Traces
        /\ r \in Held => traces[r] \in TraceRecord /\ Fits(traces[r], req[r])
    BY Known
  <1>3. asset \in Asset
    BY <1>2, EncodedIsAsset DEF Request
  <1> HIDE DEF asset
  <1>4. /\ q.at = "resolve" /\ q.passed = req[r].passed /\ q.sent = req[r].sent
        /\ q.answer = req[r].answer /\ q.size = req[r].size /\ q.format = req[r].format
        /\ q.asked = req[r].asked /\ q.wav = req[r].wav
    BY <1>2 DEF Request
  <1>5. r \in Held =>
          /\ t \in TraceRecord
          /\ t.input = asset /\ t.status = traces[r].status /\ t.text = traces[r].text
          /\ t.deltas = traces[r].deltas /\ t.deltaCount = traces[r].deltaCount
          /\ t.deltasTruncated = traces[r].deltasTruncated
          /\ t.raw = traces[r].raw /\ t.rawTruncated = traces[r].rawTruncated
          /\ t.audioBytes = traces[r].audioBytes /\ t.audio = traces[r].audio
    BY <1>2, <1>3 DEF TraceRecord
  <1> HIDE DEF q, t
  <1>6. Touches(r) /\ (r \in Held => traces'[r] = t)
    BY <1>1, <1>2, <1>5, PersistOwned, MutateTouches
  <1>7. Fresh(q)
    BY <1>1, <1>2, <1>4 DEF Fresh
  <1>8. ASSUME r \in Held PROVE Fits(t, q)
    <2>1. Told(t, q)
      BY <1>1, <1>2, <1>4, <1>5, <1>8 DEF Fits, Told, Working
    <2>2. Counts(t, q)
      BY <1>2, <1>4, <1>5, <1>8 DEF Fits, Counts
    <2>3. Keeps(t, q)
      BY <1>1, <1>2, <1>4, <1>5, <1>8 DEF Fits, Keeps, asset
    <2>4. QED
      BY <2>1, <2>2, <2>3 DEF Fits
  <1>9. QED
    BY <1>1, <1>6, <1>7, <1>8, GoesStep DEF q, Phases

\* A provider is found: its stage begins with nothing in the trace.
LEMMA ResolveStep ==
  ASSUME IInv, NEW r \in Requests, Resolve(r)
  PROVE  IInv'
  <1> DEFINE q == [req[r] EXCEPT !.at = "call"]
             t1 == [traces[r] EXCEPT !.text = <<>>, !.deltas = <<>>, !.deltaCount = 0,
                                     !.deltasTruncated = FALSE]
             t2 == [traces[r] EXCEPT !.raw = 0, !.rawTruncated = FALSE, !.audioBytes = 0,
                                     !.audio = NoAsset]
  <1>1. req[r].at = "resolve" /\ Goes(r, "call") /\ UNCHANGED Bounds
    BY DEF Resolve
  <1>2. /\ req[r] \in Request /\ Fresh(req[r]) /\ StoreInv /\ r \in Traces
        /\ r \in Held => traces[r] \in TraceRecord /\ Fits(traces[r], req[r])
    BY Known
  <1>3. /\ q.at = "call" /\ q.passed = <<>> /\ q.sent = 0 /\ req[r].passed = <<>>
        /\ q.answer = "none" /\ q.size = req[r].size /\ q.format = req[r].format
        /\ q.asked = req[r].asked /\ q.wav = req[r].wav
        /\ req[r].sent = 0
    BY <1>1, <1>2 DEF Request, Fresh
  <1>4. r \in Held =>
          /\ t1 \in TraceRecord
          /\ t1.input = traces[r].input /\ t1.status = traces[r].status /\ t1.text = <<>>
          /\ t1.deltas = <<>> /\ t1.deltaCount = 0 /\ t1.deltasTruncated = FALSE
          /\ t1.raw = traces[r].raw /\ t1.rawTruncated = traces[r].rawTruncated
          /\ t1.audioBytes = traces[r].audioBytes /\ t1.audio = traces[r].audio
    <2>1. <<>> \in Seq(Words)
      OBVIOUS
    <2>2. ASSUME r \in Held PROVE t1 \in TraceRecord
      <3>1. traces[r] \in TraceRecord
        BY <1>2, <2>2
      <3>2. QED
        BY <2>1, <3>1 DEF TraceRecord
    <2>3. QED
      BY <1>2, <2>2 DEF TraceRecord
  <1>5. r \in Held =>
          /\ t2 \in TraceRecord
          /\ t2.input = traces[r].input /\ t2.status = traces[r].status
          /\ t2.text = traces[r].text
          /\ t2.deltas = traces[r].deltas /\ t2.deltaCount = traces[r].deltaCount
          /\ t2.deltasTruncated = traces[r].deltasTruncated
          /\ t2.raw = 0 /\ t2.rawTruncated = FALSE
          /\ t2.audioBytes = 0 /\ t2.audio = NoAsset
    BY <1>2 DEF TraceRecord
  <1>6. CASE req[r].kind \in {"chat", "stream"}
    <2>1. Mutate(r, t1) /\ files' = files
      BY <1>6 DEF Resolve, StartLLM
    <2> HIDE DEF q, t1, t2
    <2>2. Touches(r) /\ (r \in Held => traces'[r] = t1)
      BY <1>2, <1>4, <2>1, MutateTouches
    <2>3. Fresh(q)
      BY <1>3 DEF Fresh
    <2>4. ASSUME r \in Held PROVE Fits(t1, q)
      <3>1. Told(t1, q)
        BY <1>1, <1>2, <1>3, <1>4, <2>4 DEF Fits, Told, Working
      <3>2. Counts(t1, q)
        <4>1. SubSeq(<<>>, 1, 0) = <<>> /\ Len(<<>>) = 0
          OBVIOUS
        <4>2. AtMost(0, MaxStored) = 0
          BY StoreAssumption DEF AtMost
        <4>3. /\ q.passed = <<>> /\ t1.text = <<>> /\ t1.deltas = <<>> /\ t1.deltaCount = 0
              /\ t1.deltasTruncated = FALSE
          BY <1>3, <1>4, <2>4
        <4>4. ~(0 > MaxStored)
          BY StoreAssumption
        <4>5. QED
          BY <4>1, <4>2, <4>3, <4>4 DEF Counts
      <3>3. Keeps(t1, q)
        BY <1>1, <1>2, <1>3, <1>4, <2>4 DEF Fits, Keeps
      <3>4. QED
        BY <3>1, <3>2, <3>3 DEF Fits
    <2>5. QED
      BY <1>1, <2>2, <2>3, <2>4, GoesStep DEF q, Phases
  <1>7. CASE req[r].kind = "tts"
    <2>1. Mutate(r, t2) /\ files' = files
      BY <1>7 DEF Resolve, StartTTS
    <2> HIDE DEF q, t1, t2
    <2>2. Touches(r) /\ (r \in Held => traces'[r] = t2)
      BY <1>2, <1>5, <2>1, MutateTouches
    <2>3. Fresh(q)
      BY <1>3 DEF Fresh
    <2>4. ASSUME r \in Held PROVE Fits(t2, q)
      <3>1. Told(t2, q)
        BY <1>1, <1>2, <1>3, <1>5, <2>4 DEF Fits, Told, Working
      <3>2. Counts(t2, q)
        BY <1>2, <1>3, <1>5, <2>4 DEF Fits, Counts
      <3>3. Keeps(t2, q)
        BY <1>2, <1>3, <1>5, <2>4, StoreAssumption DEF Fits, Keeps, AtMost
      <3>4. QED
        BY <3>1, <3>2, <3>3 DEF Fits
    <2>5. QED
      BY <1>1, <2>2, <2>3, <2>4, GoesStep DEF q, Phases
  <1>8. CASE req[r].kind \notin {"chat", "stream", "tts"}
    <2>1. UNCHANGED storeVars
      BY <1>8 DEF Resolve
    <2>2. QED
      BY <1>1, <2>1, QuietStep DEF Working
  <1>9. QED
    BY <1>6, <1>7, <1>8

\* A trace whose status is set when its request fails or is answered.
LEMMA FinishTouches ==
  ASSUME StoreInv, NEW h \in Traces, NEW status \in {"completed", "error"}, Finish(h, status)
  PROVE  /\ Touches(h)
         /\ h \in Held => traces'[h] = [traces[h] EXCEPT !.status = status]
  <1>1. h \in Held => [traces[h] EXCEPT !.status = status] \in TraceRecord
    BY DEF StoreInv, StoreTypeOK, TraceRecord
  <1>2. Mutate(h, [traces[h] EXCEPT !.status = status]) /\ files' = files
    BY DEF Finish
  <1>3. QED
    BY <1>1, <1>2, MutateTouches

LEMMA FailsStep ==
  ASSUME IInv, NEW r \in Requests, Fails(r)
  PROVE  IInv'
  <1> DEFINE q == [req[r] EXCEPT !.at = "failed"]
             t == [traces[r] EXCEPT !.status = "error"]
  <1>1. /\ req[r].at \in {"resolve", "call", "broken"} /\ Goes(r, "failed")
        /\ UNCHANGED Bounds /\ Finish(r, "error")
    BY DEF Fails
  <1>2. /\ req[r] \in Request /\ Fresh(req[r]) /\ StoreInv /\ r \in Traces
        /\ r \in Held => traces[r] \in TraceRecord /\ Fits(traces[r], req[r])
    BY Known
  <1>3. /\ q.at = "failed" /\ q.passed = req[r].passed /\ q.sent = req[r].sent
        /\ q.answer = req[r].answer /\ q.size = req[r].size /\ q.format = req[r].format
        /\ q.asked = req[r].asked /\ q.wav = req[r].wav
    BY <1>2 DEF Request
  <1>4. r \in Held =>
          /\ t.input = traces[r].input /\ t.status = "error" /\ t.text = traces[r].text
          /\ t.deltas = traces[r].deltas /\ t.deltaCount = traces[r].deltaCount
          /\ t.deltasTruncated = traces[r].deltasTruncated
          /\ t.raw = traces[r].raw /\ t.rawTruncated = traces[r].rawTruncated
          /\ t.audioBytes = traces[r].audioBytes /\ t.audio = traces[r].audio
    BY <1>2 DEF TraceRecord
  <1>5. Touches(r) /\ (r \in Held => traces'[r] = t)
    BY <1>1, <1>2, FinishTouches
  <1> HIDE DEF q, t
  <1>6. Fresh(q)
    BY <1>1, <1>2, <1>3 DEF Fresh
  <1>7. ASSUME r \in Held PROVE Fits(t, q)
    <2>1. Told(t, q)
      BY <1>3, <1>4, <1>7 DEF Told, Working
    <2>2. Counts(t, q)
      BY <1>2, <1>3, <1>4, <1>7 DEF Fits, Counts
    <2>3. Keeps(t, q)
      BY <1>1, <1>2, <1>3, <1>4, <1>7 DEF Fits, Keeps
    <2>4. QED
      BY <2>1, <2>2, <2>3 DEF Fits
  <1>8. QED
    BY <1>1, <1>5, <1>6, <1>7, GoesStep DEF q, Phases

LEMMA RecordResultStep ==
  ASSUME IInv, NEW r \in Requests, RecordResult(r)
  PROVE  IInv'
  <1> DEFINE q == [req[r] EXCEPT !.at = "close"]
             text == IF req[r].passed = <<>> THEN traces[r].text ELSE req[r].passed
             t1 == [traces[r] EXCEPT !.text = text]
             asset == Encoded(req[r].format, traces[r].raw)
             audio == [asset EXCEPT !.truncated = @ \/ traces[r].rawTruncated]
             t2 == [traces[r] EXCEPT !.audio = audio]
  <1>1. req[r].at = "record" /\ Goes(r, "close") /\ UNCHANGED Bounds
    BY DEF RecordResult
  <1>2. /\ req[r] \in Request /\ Fresh(req[r]) /\ StoreInv /\ r \in Traces
        /\ r \in Held => traces[r] \in TraceRecord /\ Fits(traces[r], req[r])
    BY Known
  <1>3. /\ q.at = "close" /\ q.passed = req[r].passed /\ q.sent = req[r].sent
        /\ q.answer = req[r].answer /\ q.size = req[r].size /\ q.format = req[r].format
        /\ q.asked = req[r].asked /\ q.wav = req[r].wav
    BY <1>2 DEF Request
  <1>4. Fresh(q)
    <2> HIDE DEF q
    <2>1. QED
      BY <1>1, <1>2, <1>3 DEF Fresh
  <1>5. CASE req[r].kind \in {"chat", "stream"}
    <2>1. Mutate(r, t1) /\ files' = files
      BY <1>5 DEF RecordResult, CompleteLLM
    <2>2. r \in Held => t1 = traces[r]
      <3>1. r \in Held => text = traces[r].text
        BY <1>2 DEF Fits, Counts
      <3> HIDE DEF text
      <3>2. QED
        BY <1>2, <3>1 DEF TraceRecord
    <2> HIDE DEF q, t1
    <2>3. Touches(r) /\ (r \in Held => traces'[r] = traces[r])
      BY <1>2, <2>1, <2>2, MutateTouches
    <2>4. ASSUME r \in Held PROVE Fits(traces[r], q)
      <3>1. Told(traces[r], q)
        BY <1>1, <1>2, <1>3, <2>4 DEF Fits, Told, Working
      <3>2. Counts(traces[r], q)
        BY <1>2, <1>3, <2>4 DEF Fits, Counts
      <3>3. Keeps(traces[r], q)
        BY <1>1, <1>2, <1>3, <2>4 DEF Fits, Keeps
      <3>4. QED
        BY <3>1, <3>2, <3>3 DEF Fits
    <2>5. QED
      BY <1>1, <1>4, <2>3, <2>4, GoesStep DEF q, Phases
  <1>6. CASE req[r].kind = "tts"
    <2>1. CASE r \in Held
      <3>1. Mutate(r, t2) /\ Persist(r, "tts.wav", audio.bytes)
        BY <1>6, <2>1 DEF RecordResult, CompleteTTS
      <3>2. asset \in Asset
        BY <1>2, <2>1, EncodedIsAsset DEF TraceRecord
      <3> HIDE DEF asset
      <3>3. /\ audio \in Asset /\ audio.bytes = asset.bytes
            /\ audio.truncated <=> asset.truncated \/ traces[r].rawTruncated
        BY <1>2, <2>1, <3>2 DEF Asset, TraceRecord
      <3> HIDE DEF audio
      <3>4. /\ t2 \in TraceRecord
            /\ t2.input = traces[r].input /\ t2.status = traces[r].status
            /\ t2.text = traces[r].text
            /\ t2.deltas = traces[r].deltas /\ t2.deltaCount = traces[r].deltaCount
            /\ t2.deltasTruncated = traces[r].deltasTruncated
            /\ t2.raw = traces[r].raw /\ t2.rawTruncated = traces[r].rawTruncated
            /\ t2.audioBytes = traces[r].audioBytes /\ t2.audio = audio
        BY <1>2, <2>1, <3>3 DEF TraceRecord
      <3> HIDE DEF q, t2
      <3>5. Touches(r) /\ traces'[r] = t2
        BY <1>2, <2>1, <3>1, <3>4, PersistOwned, MutateTouches
      <3>6. Told(t2, q)
        BY <1>1, <1>2, <1>3, <2>1, <3>4 DEF Fits, Told, Working
      <3>7. Counts(t2, q)
        BY <1>2, <1>3, <2>1, <3>4 DEF Fits, Counts
      <3>8. Keeps(t2, q)
        <4>1. /\ t2.audioBytes = q.sent /\ t2.raw = AtMost(q.sent, MaxAsset)
              /\ t2.rawTruncated <=> q.sent > MaxAsset
              /\ t2.input # NoAsset => t2.input = Encoded(FormOf(q.asked, q.wav), q.size)
          BY <1>2, <1>3, <2>1, <3>4 DEF Fits, Keeps
        <4>2. /\ t2.audio.bytes = Encoded(q.format, t2.raw).bytes
              /\ t2.audio.truncated <=> Encoded(q.format, t2.raw).truncated \/ t2.rawTruncated
          BY <1>3, <3>3, <3>4 DEF asset
        <4>3. QED
          BY <1>3, <4>1, <4>2 DEF Keeps
      <3>9. QED
        BY <1>1, <1>4, <3>5, <3>6, <3>7, <3>8, GoesStep DEF q, Phases, Fits
    <2>2. CASE r \notin Held
      <3>1. UNCHANGED storeVars
        BY <1>6, <2>2 DEF RecordResult, CompleteTTS
      <3>2. QED
        BY <1>1, <3>1, QuietStep DEF Working
    <2>3. QED
      BY <2>1, <2>2
  <1>7. CASE req[r].kind \notin {"chat", "stream", "tts"}
    <2>1. UNCHANGED storeVars
      BY <1>7 DEF RecordResult
    <2>2. QED
      BY <1>1, <2>1, QuietStep DEF Working
  <1>8. QED
    BY <1>5, <1>6, <1>7

LEMMA CloseStep ==
  ASSUME IInv, NEW r \in Requests, Close(r)
  PROVE  IInv'
  <1> DEFINE q == [req[r] EXCEPT !.at = "answered", !.answer = "done"]
             t == [traces[r] EXCEPT !.status = "completed"]
  <1>1. /\ req[r].at = "close" /\ UNCHANGED Bounds /\ Finish(r, "completed")
        /\ req' = [req EXCEPT ![r].at = "answered", ![r].answer = "done"]
    BY DEF Close
  <1>2. /\ req[r] \in Request /\ Fresh(req[r]) /\ StoreInv /\ r \in Traces
        /\ req \in [Requests -> Request]
        /\ r \in Held => traces[r] \in TraceRecord /\ Fits(traces[r], req[r])
    BY Known
  <1>3. /\ q.at = "answered" /\ q.passed = req[r].passed /\ q.sent = req[r].sent
        /\ q.answer = "done" /\ q.size = req[r].size /\ q.format = req[r].format
        /\ q.asked = req[r].asked /\ q.wav = req[r].wav
        /\ q \in Request /\ req' = [req EXCEPT ![r] = q]
    BY <1>1, <1>2 DEF Request, Phases
  <1>4. r \in Held =>
          /\ t.input = traces[r].input /\ t.status = "completed" /\ t.text = traces[r].text
          /\ t.deltas = traces[r].deltas /\ t.deltaCount = traces[r].deltaCount
          /\ t.deltasTruncated = traces[r].deltasTruncated
          /\ t.raw = traces[r].raw /\ t.rawTruncated = traces[r].rawTruncated
          /\ t.audioBytes = traces[r].audioBytes /\ t.audio = traces[r].audio
    BY <1>2 DEF TraceRecord
  <1>5. Touches(r) /\ (r \in Held => traces'[r] = t)
    BY <1>1, <1>2, FinishTouches
  <1> HIDE DEF q, t
  <1>6. Fresh(q)
    BY <1>3 DEF Fresh
  <1>7. ASSUME r \in Held PROVE Fits(t, q)
    <2>1. Told(t, q)
      BY <1>3, <1>4, <1>7 DEF Told, Working
    <2>2. Counts(t, q)
      BY <1>2, <1>3, <1>4, <1>7 DEF Fits, Counts
    <2>3. Keeps(t, q)
      BY <1>1, <1>2, <1>3, <1>4, <1>7 DEF Fits, Keeps
    <2>4. QED
      BY <2>1, <2>2, <2>3 DEF Fits
  <1>8. QED
    BY <1>1, <1>3, <1>5, <1>6, <1>7, StillBounded, RequestStep

LEMMA AnswerErrorStep ==
  ASSUME IInv, NEW r \in Requests, AnswerError(r)
  PROVE  IInv'
  <1> DEFINE q == [req[r] EXCEPT !.at = "answered", !.answer = "error"]
  <1>1. /\ req[r].at = "failed" /\ UNCHANGED Bounds /\ UNCHANGED storeVars
        /\ req' = [req EXCEPT ![r].at = "answered", ![r].answer = "error"]
    BY DEF AnswerError
  <1>2. /\ req[r] \in Request /\ Fresh(req[r]) /\ StoreInv /\ r \in Traces
        /\ req \in [Requests -> Request]
        /\ r \in Held => traces[r] \in TraceRecord /\ Fits(traces[r], req[r])
    BY Known
  <1>3. /\ q.at = "answered" /\ q.passed = req[r].passed /\ q.sent = req[r].sent
        /\ q.answer = "error" /\ q.size = req[r].size /\ q.format = req[r].format
        /\ q.asked = req[r].asked /\ q.wav = req[r].wav
        /\ q \in Request /\ req' = [req EXCEPT ![r] = q]
    BY <1>1, <1>2 DEF Request, Phases
  <1>4. Touches(r) /\ (r \in Held => traces'[r] = traces[r])
    BY <1>1, <1>2, QuietTouches
  <1> HIDE DEF q
  <1>5. Fresh(q)
    BY <1>3 DEF Fresh
  <1>6. ASSUME r \in Held PROVE Fits(traces[r], q)
    <2>1. Told(traces[r], q)
      BY <1>1, <1>2, <1>3, <1>6 DEF Fits, Told, Working
    <2>2. Counts(traces[r], q)
      BY <1>2, <1>3, <1>6 DEF Fits, Counts
    <2>3. Keeps(traces[r], q)
      BY <1>1, <1>2, <1>3, <1>6 DEF Fits, Keeps
    <2>4. QED
      BY <2>1, <2>2, <2>3 DEF Fits
  <1>7. QED
    BY <1>1, <1>3, <1>4, <1>5, <1>6, StillBounded, RequestStep

\* What a step of the client or of the provider changes of a request without
\* any effect on its trace: neither invariant speaks of it.
LEMMA SameShown ==
  ASSUME IInv, NEW r \in Requests, NEW q \in Request, UNCHANGED storeVars, Bounded,
         req' = [req EXCEPT ![r] = q],
         q.at = req[r].at, q.passed = req[r].passed, q.sent = req[r].sent,
         q.answer = req[r].answer, q.size = req[r].size, q.asked = req[r].asked,
         q.wav = req[r].wav, q.format = req[r].format
  PROVE  IInv'
  <1>1. /\ Fresh(req[r]) /\ StoreInv /\ r \in Traces
        /\ r \in Held => Fits(traces[r], req[r])
    BY Known
  <1>2. Touches(r) /\ (r \in Held => traces'[r] = traces[r])
    BY <1>1, QuietTouches
  <1>3. Fresh(q)
    BY <1>1 DEF Fresh
  <1>4. ASSUME r \in Held PROVE Fits(traces[r], q)
    <2>1. Told(traces[r], q)
      BY <1>1, <1>4 DEF Fits, Told
    <2>2. Counts(traces[r], q)
      BY <1>1, <1>4 DEF Fits, Counts
    <2>3. Keeps(traces[r], q)
      BY <1>1, <1>4 DEF Fits, Keeps
    <2>4. QED
      BY <2>1, <2>2, <2>3 DEF Fits
  <1>5. QED
    BY <1>2, <1>3, <1>4, RequestStep

LEMMA DisconnectStep ==
  ASSUME IInv, NEW r \in Requests, Disconnect(r)
  PROVE  IInv'
  <1> DEFINE q == [req[r] EXCEPT !.linked = FALSE]
  <1>1. /\ UNCHANGED storeVars /\ UNCHANGED Bounds /\ req' = [req EXCEPT ![r].linked = FALSE]
    BY DEF Disconnect
  <1>2. req[r] \in Request /\ req \in [Requests -> Request]
    BY Known
  <1>3. /\ q \in Request /\ req' = [req EXCEPT ![r] = q]
        /\ q.at = req[r].at /\ q.passed = req[r].passed /\ q.sent = req[r].sent
        /\ q.answer = req[r].answer /\ q.size = req[r].size /\ q.format = req[r].format
        /\ q.asked = req[r].asked /\ q.wav = req[r].wav
    BY <1>1, <1>2 DEF Request
  <1> HIDE DEF q
  <1>4. QED
    BY <1>1, <1>3, StillBounded, SameShown

\* One more word or chunk of the bounded number.
LEMMA SpeaksBounded ==
  ASSUME IInv, NEW r \in Requests, NEW word, Speaks(r, word)
  PROVE  Bounded
  BY InferenceAssumption DEF Speaks, IInv, ReqTypeOK, Bounded

LEMMA SkipStep ==
  ASSUME IInv, NEW r \in Requests, NEW word \in Words \cup {Blank}, Skip(r, word)
  PROVE  IInv'
  <1>1. /\ UNCHANGED storeVars /\ Bounded
        /\ \E dropped \in BOOLEAN :
             req' = [req EXCEPT ![r] = [req[r] EXCEPT !.spoken = Append(@, word),
                                                      !.dropped = dropped]]
    <2>1. UNCHANGED storeVars /\ Speaks(r, word)
      BY DEF Skip
    <2>2. req[r] \in Request /\ req \in [Requests -> Request]
      BY Known
    <2>3. req[r].dropped \in BOOLEAN
      BY <2>2 DEF Request
    <2>4. CASE req' = [req EXCEPT ![r].spoken = Append(@, word)]
      <3>1. [req[r] EXCEPT !.spoken = Append(@, word)]
              = [req[r] EXCEPT !.spoken = Append(@, word), !.dropped = req[r].dropped]
        BY <2>2 DEF Request
      <3>2. req' = [req EXCEPT ![r] = [req[r] EXCEPT !.spoken = Append(@, word)]]
        BY <2>2, <2>4
      <3>3. QED
        BY <2>1, <2>3, <3>1, <3>2, SpeaksBounded
    <2>5. CASE req' = [req EXCEPT ![r].spoken = Append(@, word), ![r].dropped = TRUE]
      <3>1. req' = [req EXCEPT ![r] = [req[r] EXCEPT !.spoken = Append(@, word),
                                                     !.dropped = TRUE]]
        BY <2>2, <2>5
      <3>2. QED
        BY <2>1, <3>1, SpeaksBounded
    <2>6. QED
      BY <2>4, <2>5 DEF Skip
  <1>2. PICK dropped \in BOOLEAN :
          req' = [req EXCEPT ![r] = [req[r] EXCEPT !.spoken = Append(@, word),
                                                   !.dropped = dropped]]
    BY <1>1
  <1> DEFINE q == [req[r] EXCEPT !.spoken = Append(@, word), !.dropped = dropped]
  <1>3. req[r] \in Request
    BY Known
  <1>4. /\ q \in Request
        /\ q.at = req[r].at /\ q.passed = req[r].passed /\ q.sent = req[r].sent
        /\ q.answer = req[r].answer /\ q.size = req[r].size /\ q.format = req[r].format
        /\ q.asked = req[r].asked /\ q.wav = req[r].wav
    <2>1. Append(req[r].spoken, word) \in Seq(Words \cup {Blank})
      BY <1>3 DEF Request
    <2>2. q \in Request
      BY <1>3, <2>1 DEF Request
    <2>3. QED
      BY <1>3, <2>2 DEF Request
  <1>5. req' = [req EXCEPT ![r] = q]
    BY <1>2
  <1> HIDE DEF q
  <1>6. QED
    BY <1>1, <1>4, <1>5, SameShown

\* The stored deltas are the first ones of the text, one word later too.
LEMMA StoredGrows ==
  ASSUME NEW s \in Seq(Words), NEW word \in Words, NEW n \in Nat
  PROVE  LET stored == SubSeq(s, 1, AtMost(Len(s), n))
             more == Append(s, word)
         IN  /\ SubSeq(more, 1, AtMost(Len(more), n))
                  = IF Len(stored) < n THEN Append(stored, word) ELSE stored
             /\ Len(more) > n <=> Len(s) > n \/ Len(stored) >= n
  <1> DEFINE m == AtMost(Len(s), n)
             stored == SubSeq(s, 1, m)
             more == Append(s, word)
  <1>1. Len(s) \in Nat /\ more \in Seq(Words) /\ Len(more) = Len(s) + 1
    OBVIOUS
  <1>2. m \in Nat /\ m <= Len(s) /\ Len(stored) = m /\ stored \in Seq(Words)
    BY <1>1 DEF AtMost
  <1>3. SubSeq(more, 1, AtMost(Len(more), n)) = IF m < n THEN Append(stored, word) ELSE stored
    <2>1. CASE Len(s) < n
      <3>1. m = Len(s) /\ AtMost(Len(more), n) = Len(s) + 1
        BY <1>1, <2>1 DEF AtMost
      <3>2. stored = s /\ SubSeq(more, 1, Len(s) + 1) = more
        BY <1>1, <3>1
      <3>3. Append(stored, word) = more
        BY <3>2
      <3> HIDE DEF m, stored, more
      <3>4. QED
        BY <2>1, <3>1, <3>2, <3>3
    <2>2. CASE Len(s) >= n
      <3>1. m = n /\ AtMost(Len(more), n) = n
        BY <1>1, <2>2 DEF AtMost
      <3>2. SubSeq(more, 1, n) = SubSeq(s, 1, n)
        <4>1. \A j \in 1 .. n : more[j] = s[j]
          BY <1>1, <2>2
        <4>2. QED
          BY <1>1, <2>2, <4>1
      <3>3. stored = SubSeq(s, 1, n)
        BY <3>1
      <3> HIDE DEF m, stored, more
      <3>4. QED
        BY <3>1, <3>2, <3>3
    <2>3. Len(s) < n \/ Len(s) >= n
      BY <1>1
    <2> HIDE DEF m, stored, more
    <2>4. QED
      BY <2>1, <2>2, <2>3
  <1>4. Len(more) > n <=> Len(s) > n \/ m >= n
    BY <1>1 DEF AtMost
  <1>5. QED
    BY <1>2, <1>3, <1>4

LEMMA PassStep ==
  ASSUME IInv, NEW r \in Requests, NEW word \in Words \cup {Blank}, Pass(r, word)
  PROVE  IInv'
  <1> DEFINE next == [req[r] EXCEPT
               !.spoken = Append(@, word),
               !.passed = Append(@, word),
               !.heard = IF req[r].kind = "stream" /\ req[r].linked THEN Append(@, word) ELSE @]
             t == [traces[r] EXCEPT
               !.text = Append(@, word),
               !.deltaCount = @ + 1,
               !.deltas = IF Len(@) < MaxStored THEN Append(@, word) ELSE @,
               !.deltasTruncated = @ \/ Len(traces[r].deltas) >= MaxStored]
  <1>1. /\ req[r].at = "call" /\ Speaks(r, word) /\ word \in Words
        /\ Mutate(r, t) /\ files' = files
    BY DEF Pass, Speaks, IsText, AddLLMDelta
  <1>2. /\ req[r] \in Request /\ Fresh(req[r]) /\ StoreInv /\ r \in Traces
        /\ req \in [Requests -> Request]
        /\ r \in Held => traces[r] \in TraceRecord /\ Fits(traces[r], req[r])
    BY Known
  <1>3. req' = [req EXCEPT ![r] = next] \/ req' = [req EXCEPT ![r] = [next EXCEPT !.at = "broken"]]
    BY DEF Pass
  <1>4. /\ next \in Request
        /\ next.at = "call" /\ next.passed = Append(req[r].passed, word)
        /\ next.sent = req[r].sent /\ next.answer = req[r].answer
        /\ next.size = req[r].size /\ next.format = req[r].format
        /\ next.asked = req[r].asked /\ next.wav = req[r].wav
    <2>1. /\ Append(req[r].spoken, word) \in Seq(Words \cup {Blank})
          /\ Append(req[r].passed, word) \in Seq(Words)
          /\ Append(req[r].heard, word) \in Seq(Words)
      BY <1>1, <1>2 DEF Request
    <2>2. next \in Request
      BY <1>2, <2>1 DEF Request
    <2>3. QED
      BY <1>1, <1>2, <2>2 DEF Request
  <1> HIDE DEF next
  <1>5. PICK q : /\ req' = [req EXCEPT ![r] = q] /\ q \in Request
                 /\ q.at \in {"call", "broken"} /\ q.passed = Append(req[r].passed, word)
                 /\ q.sent = req[r].sent /\ q.answer = req[r].answer
                 /\ q.size = req[r].size /\ q.format = req[r].format
                 /\ q.asked = req[r].asked /\ q.wav = req[r].wav
    <2>1. CASE req' = [req EXCEPT ![r] = next]
      BY <1>4, <2>1
    <2>2. CASE req' = [req EXCEPT ![r] = [next EXCEPT !.at = "broken"]]
      <3> DEFINE last == [next EXCEPT !.at = "broken"]
      <3>1. /\ last \in Request /\ last.at = "broken" /\ last.passed = next.passed
            /\ last.sent = next.sent /\ last.answer = next.answer
            /\ last.size = next.size /\ last.format = next.format
            /\ last.asked = next.asked /\ last.wav = next.wav
        BY <1>4 DEF Request, Phases
      <3> HIDE DEF last
      <3>2. req' = [req EXCEPT ![r] = last]
        BY <2>2 DEF last
      <3>3. QED
        BY <1>4, <3>1, <3>2
    <2>3. QED
      BY <1>3, <2>1, <2>2
  <1>6. r \in Held =>
          /\ t \in TraceRecord
          /\ t.input = traces[r].input /\ t.status = traces[r].status
          /\ t.text = Append(traces[r].text, word)
          /\ t.deltas = IF Len(traces[r].deltas) < MaxStored THEN Append(traces[r].deltas, word)
                        ELSE traces[r].deltas
          /\ t.deltaCount = traces[r].deltaCount + 1
          /\ t.deltasTruncated = (traces[r].deltasTruncated \/ Len(traces[r].deltas) >= MaxStored)
          /\ t.raw = traces[r].raw /\ t.rawTruncated = traces[r].rawTruncated
          /\ t.audioBytes = traces[r].audioBytes /\ t.audio = traces[r].audio
    <2>1. SUFFICES ASSUME r \in Held PROVE t \in TraceRecord
      BY <1>2, SMTT(30) DEF TraceRecord
    <2>2. traces[r] \in TraceRecord
      BY <1>2, <2>1
    <2>3. /\ Append(traces[r].text, word) \in Seq(Words)
          /\ Append(traces[r].deltas, word) \in Seq(Words)
          /\ traces[r].deltaCount + 1 \in Nat
      BY <1>1, <2>2 DEF TraceRecord
    <2>4. QED
      BY <2>2, <2>3 DEF TraceRecord
  <1> HIDE DEF t
  <1>7. Touches(r) /\ (r \in Held => traces'[r] = t)
    BY <1>1, <1>2, <1>6, MutateTouches
  <1>8. Fresh(q)
    BY <1>1, <1>2, <1>5 DEF Fresh
  <1>9. ASSUME r \in Held PROVE Fits(t, q)
    <2>1. Told(t, q)
      BY <1>1, <1>2, <1>5, <1>6, <1>9 DEF Fits, Told, Working
    <2>2. Counts(t, q)
      <3> DEFINE s == traces[r].text
                 stored == SubSeq(s, 1, AtMost(Len(s), MaxStored))
                 more == Append(s, word)
      <3>1. /\ s \in Seq(Words) /\ s = req[r].passed
            /\ traces[r].deltaCount = Len(s) /\ traces[r].deltas = stored
            /\ traces[r].deltasTruncated <=> Len(s) > MaxStored
        BY <1>2, <1>9 DEF Fits, Counts, TraceRecord
      <3>2. Len(more) = Len(s) + 1
        BY <3>1
      <3>3. /\ SubSeq(more, 1, AtMost(Len(more), MaxStored))
                 = IF Len(stored) < MaxStored THEN Append(stored, word) ELSE stored
            /\ Len(more) > MaxStored <=> Len(s) > MaxStored \/ Len(stored) >= MaxStored
        BY <1>1, <3>1, StoredGrows, StoreAssumption
      <3>4. t.text = more /\ more = q.passed
        BY <1>5, <1>6, <1>9, <3>1
      <3> HIDE DEF s, stored, more
      <3>5. t.deltas = SubSeq(more, 1, AtMost(Len(more), MaxStored))
        BY <1>6, <1>9, <3>1, <3>3
      <3>6. t.deltasTruncated <=> Len(more) > MaxStored
        BY <1>6, <1>9, <3>1, <3>3
      <3>7. t.deltaCount = Len(more)
        BY <1>6, <1>9, <3>1, <3>2
      <3>8. QED
        BY <3>4, <3>5, <3>6, <3>7 DEF Counts
    <2>3. Keeps(t, q)
      BY <1>1, <1>2, <1>5, <1>6, <1>9 DEF Fits, Keeps
    <2>4. QED
      BY <2>1, <2>2, <2>3 DEF Fits
  <1>10. Bounded
    BY <1>1, SpeaksBounded
  <1>11. QED
    BY <1>5, <1>7, <1>8, <1>9, <1>10, RequestStep

\* Keeping what fits chunk by chunk keeps what fits of the sum, and the mark is
\* set exactly when the sum does not fit.
LEMMA AudioGrows ==
  ASSUME NEW n \in Nat, NEW b \in Nat \ {0}, NEW m \in Nat
  PROVE  /\ AtMost(AtMost(n, m) + b, m) = AtMost(n + b, m)
         /\ AtMost(n, m) >= m \/ AtMost(n, m) + b > m <=> n + b > m
  BY DEF AtMost

\* A chunk or a silence: the raw audio stays what fits of what was sent, and is
\* marked as soon as something does not.
LEMMA SpeechStep ==
  ASSUME IInv, NEW r \in Requests, NEW bytes \in Nat \ {0}, AddTTSChunk(r, bytes), Bounded,
         NEW q \in Request, req' = [req EXCEPT ![r] = q],
         req[r].at = "call", q.at = "call", q.passed = req[r].passed,
         q.sent = req[r].sent + bytes, q.answer = req[r].answer, q.size = req[r].size,
         q.asked = req[r].asked, q.wav = req[r].wav
  PROVE  IInv'
  <1> DEFINE appended == AppendLimited(traces[r].raw, bytes)
             t == [traces[r] EXCEPT !.raw = appended.bytes, !.rawTruncated = appended.truncated,
                                    !.audioBytes = @ + bytes]
  <1>1. Mutate(r, t) /\ files' = files
    BY DEF AddTTSChunk
  <1>2. /\ req[r] \in Request /\ Fresh(req[r]) /\ StoreInv /\ r \in Traces
        /\ r \in Held => traces[r] \in TraceRecord /\ Fits(traces[r], req[r])
    BY Known
  <1>3. /\ appended.bytes = AtMost(traces[r].raw + bytes, MaxAsset)
        /\ appended.truncated = (traces[r].raw >= MaxAsset \/ traces[r].raw + bytes > MaxAsset)
    BY DEF AppendLimited
  <1> HIDE DEF appended
  <1>4. r \in Held =>
          /\ t \in TraceRecord
          /\ t.input = traces[r].input /\ t.status = traces[r].status
          /\ t.text = traces[r].text
          /\ t.deltas = traces[r].deltas /\ t.deltaCount = traces[r].deltaCount
          /\ t.deltasTruncated = traces[r].deltasTruncated
          /\ t.raw = AtMost(traces[r].raw + bytes, MaxAsset)
          /\ t.rawTruncated = (traces[r].raw >= MaxAsset \/ traces[r].raw + bytes > MaxAsset)
          /\ t.audioBytes = traces[r].audioBytes + bytes /\ t.audio = traces[r].audio
    <2>1. SUFFICES ASSUME r \in Held PROVE t \in TraceRecord
      BY <1>2, <1>3 DEF TraceRecord
    <2>2. traces[r] \in TraceRecord
      BY <1>2, <2>1
    <2>3. traces[r].raw \in Nat /\ traces[r].audioBytes \in Nat
      BY <2>2 DEF TraceRecord
    <2>4. appended.bytes \in Nat /\ appended.truncated \in BOOLEAN
      BY <1>3, <2>3, StoreAssumption DEF AtMost
    <2>5. traces[r].audioBytes + bytes \in Nat
      BY <2>3
    <2>6. QED
      BY <2>2, <2>4, <2>5 DEF TraceRecord
  <1> HIDE DEF t
  <1>5. Touches(r) /\ (r \in Held => traces'[r] = t)
    BY <1>1, <1>2, <1>4, MutateTouches
  <1>6. Fresh(q)
    BY <1>2 DEF Fresh
  <1>7. ASSUME r \in Held PROVE Fits(t, q)
    <2>1. Told(t, q)
      BY <1>2, <1>4, <1>7 DEF Fits, Told, Working
    <2>2. Counts(t, q)
      BY <1>2, <1>4, <1>7 DEF Fits, Counts
    <2>3. Keeps(t, q)
      <3>1. /\ traces[r].audioBytes = req[r].sent /\ traces[r].raw = AtMost(req[r].sent, MaxAsset)
            /\ t.input # NoAsset => t.input = Encoded(FormOf(q.asked, q.wav), q.size)
            /\ t.audio = NoAsset
        BY <1>2, <1>4, <1>7 DEF Fits, Keeps
      <3>2. req[r].sent \in Nat /\ MaxAsset \in Nat
        BY <1>2, StoreAssumption DEF Request
      <3>3. /\ t.raw = AtMost(q.sent, MaxAsset)
            /\ t.rawTruncated <=> q.sent > MaxAsset
        <4>1. /\ AtMost(AtMost(req[r].sent, MaxAsset) + bytes, MaxAsset)
                    = AtMost(req[r].sent + bytes, MaxAsset)
              /\ AtMost(req[r].sent, MaxAsset) >= MaxAsset
                   \/ AtMost(req[r].sent, MaxAsset) + bytes > MaxAsset
                 <=> req[r].sent + bytes > MaxAsset
          BY <3>2, AudioGrows
        <4>2. t.raw = AtMost(AtMost(req[r].sent, MaxAsset) + bytes, MaxAsset)
          BY <1>4, <1>7, <3>1
        <4>3. t.rawTruncated <=> \/ AtMost(req[r].sent, MaxAsset) >= MaxAsset
                                 \/ AtMost(req[r].sent, MaxAsset) + bytes > MaxAsset
          BY <1>4, <1>7, <3>1
        <4>4. QED
          BY <4>1, <4>2, <4>3
      <3>4. QED
        BY <1>4, <1>7, <3>1, <3>3 DEF Keeps
    <2>4. QED
      BY <2>1, <2>2, <2>3 DEF Fits
  <1>8. QED
    BY <1>5, <1>6, <1>7, RequestStep

LEMMA ChunkStep ==
  ASSUME IInv, NEW r \in Requests, NEW bytes \in ChunkSizes, NEW format \in {"pcm", "other"},
         Chunk(r, bytes, format)
  PROVE  IInv'
  <1> DEFINE q == [req[r] EXCEPT !.sent = @ + bytes, !.format = format]
  <1>1. /\ req[r].at = "call" /\ AddTTSChunk(r, bytes)
        /\ req' = [req EXCEPT ![r].sent = @ + bytes, ![r].format = format]
    BY DEF Chunk
  <1>2. req[r] \in Request /\ req \in [Requests -> Request]
    BY Known
  <1>3. bytes \in Nat \ {0} /\ req[r].sent + bytes \in Nat
    BY <1>2, InferenceAssumption DEF Request
  <1>4. /\ req' = [req EXCEPT ![r] = q] /\ q \in Request
        /\ q.at = "call" /\ q.passed = req[r].passed /\ q.sent = req[r].sent + bytes
        /\ q.answer = req[r].answer /\ q.size = req[r].size
        /\ q.asked = req[r].asked /\ q.wav = req[r].wav
    <2>1. req' = [req EXCEPT ![r] = q]
      BY <1>1, <1>2
    <2>2. q \in Request
      BY <1>2, <1>3 DEF Request
    <2>3. QED
      BY <1>1, <1>2, <2>1, <2>2 DEF Request
  <1>5. Bounded
    BY InferenceAssumption DEF Chunk, IInv, ReqTypeOK, Bounded
  <1> HIDE DEF q
  <1>6. QED
    BY <1>1, <1>3, <1>4, <1>5, SpeechStep

LEMMA SentenceEndsStep ==
  ASSUME IInv, NEW r \in Requests, SentenceEnds(r)
  PROVE  IInv'
  <1>1. /\ req[r].at = "call" /\ UNCHANGED Bounds /\ Bounded
        /\ req[r] \in Request /\ req \in [Requests -> Request]
    BY Known, StillBounded DEF SentenceEnds
  <1>2. req[r].part + 1 \in Nat
    BY <1>1 DEF Request
  <1>3. Silence(r) \in Nat
    BY InferenceAssumption DEF Silence
  <1>4. CASE req[r].part = req[r].parts
    <2>1. Goes(r, "record") /\ UNCHANGED storeVars
      BY <1>4 DEF SentenceEnds
    <2>2. QED
      BY <1>1, <2>1, QuietStep DEF Working
  <1>5. CASE req[r].part # req[r].parts /\ Silence(r) > 0
    <2> DEFINE q == [req[r] EXCEPT !.part = @ + 1, !.sent = @ + Silence(r)]
    <2>1. /\ AddTTSChunk(r, Silence(r))
          /\ req' = [req EXCEPT ![r].part = @ + 1, ![r].sent = @ + Silence(r)]
      BY <1>5 DEF SentenceEnds
    <2>2. req[r].sent + Silence(r) \in Nat /\ Silence(r) \in Nat \ {0}
      BY <1>1, <1>3, <1>5 DEF Request
    <2>3. req' = [req EXCEPT ![r] = q]
      BY <1>1, <2>1
    <2>4. q \in Request
      BY <1>1, <1>2, <2>2 DEF Request
    <2>5. /\ q.at = "call" /\ q.passed = req[r].passed /\ q.sent = req[r].sent + Silence(r)
          /\ q.answer = req[r].answer /\ q.size = req[r].size
          /\ q.asked = req[r].asked /\ q.wav = req[r].wav
      BY <1>1 DEF Request
    <2> HIDE DEF q
    <2>6. QED
      BY <1>1, <2>1, <2>2, <2>3, <2>4, <2>5, SpeechStep
  <1>6. CASE req[r].part # req[r].parts /\ ~(Silence(r) > 0)
    <2> DEFINE q == [req[r] EXCEPT !.part = @ + 1]
    <2>1. req' = [req EXCEPT ![r].part = @ + 1] /\ UNCHANGED storeVars
      BY <1>6 DEF SentenceEnds
    <2>2. req' = [req EXCEPT ![r] = q]
      BY <1>1, <2>1
    <2>3. q \in Request
      BY <1>1, <1>2 DEF Request
    <2>4. /\ q.at = req[r].at /\ q.passed = req[r].passed /\ q.sent = req[r].sent
          /\ q.answer = req[r].answer /\ q.size = req[r].size /\ q.format = req[r].format
          /\ q.asked = req[r].asked /\ q.wav = req[r].wav
      BY <1>1 DEF Request
    <2> HIDE DEF q
    <2>5. QED
      BY <1>1, <2>1, <2>2, <2>3, <2>4, SameShown
  <1>7. QED
    BY <1>4, <1>5, <1>6

\* The last ones of nothing, and the traces among them.
LEMMA NothingHeld ==
  /\ ToSet(<<>>) = {}
  /\ SubSeq(<<>>, Len(<<>>) - AtMost(Len(<<>>), Limit) + 1, Len(<<>>)) = <<>>
  <1>1. ToSet(<<>>) = {}
    BY DEF ToSet
  <1>2. AtMost(0, Limit) = 0
    BY StoreAssumption DEF AtMost
  <1>3. SubSeq(<<>>, 1, 0) = <<>> /\ Len(<<>>) = 0
    OBVIOUS
  <1>4. QED
    BY <1>1, <1>2, <1>3

LEMMA IdleIsRequest ==
  /\ Idle \in Request /\ Idle.at = "idle" /\ Idle.passed = <<>> /\ Idle.sent = 0
  /\ Idle.answer = "none"
  /\ [Idle EXCEPT !.at = "lost"] \in Request /\ [Idle EXCEPT !.at = "lost"].at = "lost"
  <1>1. <<>> \in Seq(Words) /\ <<>> \in Seq(Words \cup {Blank})
    OBVIOUS
  <1>2. Idle \in Request
    <2>1. "idle" \in Phases
      BY DEF Phases
    <2>2. 0 \in Nat /\ 1 \in Nat
      OBVIOUS
    <2>3. QED
      BY <1>1, <2>1, <2>2 DEF Idle, Request, Kinds
  <1>3. /\ Idle.at = "idle" /\ Idle.passed = <<>> /\ Idle.sent = 0 /\ Idle.answer = "none"
    BY DEF Idle
  <1>4. [Idle EXCEPT !.at = "lost"] \in Request /\ [Idle EXCEPT !.at = "lost"].at = "lost"
    BY <1>2 DEF Request, Phases
  <1>5. QED
    BY <1>2, <1>3, <1>4

LEMMA InitIInv ==
  ASSUME Init
  PROVE  IInv
  <1>1. /\ traces = [h \in {} |-> NewRecord] /\ order = <<>> /\ begun = <<>>
        /\ files = {} /\ left = {}
        /\ req = [r \in Requests |-> Idle] /\ words = 0 /\ chunks = 0 /\ restarted = FALSE
    BY DEF Init, StoreInit
  <1>2. Held = {}
    BY <1>1 DEF Held
  <1>3. OrderIsLatest
    BY <1>1, <1>2, NothingHeld DEF OrderIsLatest
  <1>4. order \in Seq(Traces) /\ begun \in Seq(Traces)
    BY <1>1
  <1>5. StoreInv
    BY <1>1, <1>2, <1>3, <1>4 DEF StoreInv, HeldAreLatest, FilesAreOwned, StoreTypeOK
  <1>6. ReqTypeOK
    <2>1. req \in [Requests -> Request]
      BY <1>1, IdleIsRequest
    <2>2. 0 \in 0 .. MaxWords /\ 0 \in 0 .. MaxChunks
      BY InferenceAssumption
    <2>3. QED
      BY <1>1, <2>1, <2>2 DEF ReqTypeOK
  <1>7. \A r \in Requests : Fresh(req[r])
    BY <1>1, IdleIsRequest DEF Fresh
  <1>8. QED
    BY <1>2, <1>5, <1>6, <1>7 DEF IInv

LEMMA RestartStep ==
  ASSUME IInv, Restart
  PROVE  IInv'
  <1>1. /\ traces' = [h \in {} |-> NewRecord] /\ order' = <<>> /\ begun' = <<>>
        /\ left' = left \cup {f[1] : f \in files} /\ files' = files
        /\ restarted' = TRUE /\ words' = words /\ chunks' = chunks
        /\ req' = [r \in Requests |-> IF req[r].at \in {"idle", "answered"} THEN req[r]
                                      ELSE [Idle EXCEPT !.at = "lost"]]
    BY DEF Restart, NewProcess
  <1>2. /\ files \subseteq Traces \X {"input.wav", "tts.wav"} /\ left \subseteq Traces
        /\ req \in [Requests -> Request] /\ \A r \in Requests : Fresh(req[r])
    BY DEF IInv, StoreInv, StoreTypeOK, ReqTypeOK
  <1>3. StoreInv' /\ Held' = {}
    <2>1. Held' = {}
      BY <1>1 DEF Held
    <2>2. OrderIsLatest'
      BY <1>1, <2>1, NothingHeld DEF OrderIsLatest
    <2>3. /\ files' \subseteq Traces \X {"input.wav", "tts.wav"} /\ left' \subseteq Traces
          /\ \A f \in files' : f[1] \in left'
      BY <1>1, <1>2
    <2>4. order' \in Seq(Traces) /\ begun' \in Seq(Traces)
      BY <1>1
    <2>5. StoreTypeOK'
      BY <2>1, <2>3, <2>4 DEF StoreTypeOK
    <2>6. FilesAreOwned'
      BY <2>3 DEF FilesAreOwned
    <2>7. QED
      BY <2>1, <2>2, <2>5, <2>6 DEF StoreInv, HeldAreLatest
  <1> DEFINE gone == [Idle EXCEPT !.at = "lost"]
  <1>4. gone \in Request /\ gone.at = "lost"
    BY IdleIsRequest
  <1> HIDE DEF gone
  <1>5. \A r \in Requests : req'[r] = IF req[r].at \in {"idle", "answered"} THEN req[r] ELSE gone
    BY <1>1 DEF gone
  <1>6. req' \in [Requests -> Request]
    BY <1>1, <1>2, <1>4 DEF gone
  <1>7. ReqTypeOK'
    BY <1>1, <1>6 DEF IInv, ReqTypeOK
  <1>8. ASSUME NEW r \in Requests PROVE Fresh(req'[r])
    BY <1>2, <1>4, <1>5 DEF Fresh
  <1>9. (\A r \in Requests : Fresh(req[r]))' /\ (\A r \in Held : Fits(traces[r], req[r]))'
    BY <1>3, <1>8
  <1>10. QED
    BY <1>3, <1>7, <1>9 DEF IInv
----------------------------------------------------------------------------
(* The invariant, and what it says.                                         *)

LEMMA NextKeeps ==
  ASSUME IInv, [Next]_vars
  PROVE  IInv'
  <1>1. ASSUME NEW r \in Requests, Serve(r) PROVE IInv'
    <2>1. CASE Refuse(r) \/ RefuseInput(r)
      BY <2>1, RefuseStep
    <2>2. CASE Accept(r)
      BY <2>2, AcceptStep
    <2>3. CASE Open(r)
      BY <2>3, OpenStep
    <2>4. CASE RecordInput(r)
      BY <2>4, RecordInputStep
    <2>5. CASE Resolve(r)
      BY <2>5, ResolveStep
    <2>6. CASE Fails(r)
      BY <2>6, FailsStep
    <2>7. CASE RecordResult(r)
      BY <2>7, RecordResultStep
    <2>8. CASE Close(r)
      BY <2>8, CloseStep
    <2>9. CASE AnswerError(r)
      BY <2>9, AnswerErrorStep
    <2>10. QED
      BY <1>1, <2>1, <2>2, <2>3, <2>4, <2>5, <2>6, <2>7, <2>8, <2>9 DEF Serve
  <1>2. ASSUME NEW r \in Requests, Provide(r) PROVE IInv'
    <2>1. CASE Transcribed(r) \/ Described(r) \/ ChatEnds(r)
      <3>1. /\ req[r].at = "call" /\ Goes(r, "record")
            /\ UNCHANGED <<storeVars, Bounds>>
        BY <2>1 DEF Transcribed, Described, ChatEnds
      <3>2. QED
        BY <3>1, QuietStep DEF Working
    <2>2. CASE \E word \in Words \cup {Blank} : Skip(r, word) \/ Pass(r, word)
      BY <2>2, SkipStep, PassStep
    <2>3. CASE \E bytes \in ChunkSizes, format \in {"pcm", "other"} : Chunk(r, bytes, format)
      BY <2>3, ChunkStep
    <2>4. CASE SentenceEnds(r)
      BY <2>4, SentenceEndsStep
    <2>5. QED
      BY <1>2, <2>1, <2>2, <2>3, <2>4 DEF Provide
  <1>3. CASE Restart
    BY <1>3, RestartStep
  <1>4. CASE UNCHANGED vars
    <2>1. /\ traces' = traces /\ order' = order /\ files' = files /\ left' = left
          /\ begun' = begun /\ req' = req /\ words' = words /\ chunks' = chunks
          /\ restarted' = restarted
      BY <1>4 DEF vars
    <2>2. StoreInv'
      BY <2>1 DEF IInv, StoreInv, StoreTypeOK, HeldAreLatest, OrderIsLatest, FilesAreOwned, Held
    <2>3. ReqTypeOK'
      BY <2>1 DEF IInv, ReqTypeOK
    <2>4. (\A r \in Requests : Fresh(req[r]))' /\ (\A r \in Held : Fits(traces[r], req[r]))'
      BY <2>1 DEF IInv, Held
    <2>5. QED
      BY <2>2, <2>3, <2>4 DEF IInv
  <1>5. QED
    BY <1>1, <1>2, <1>3, <1>4, DisconnectStep DEF Next

LEMMA IInvHolds == Spec => []IInv
  <1>1. Init => IInv
    BY InitIInv
  <1>2. IInv /\ [Next]_vars => IInv'
    BY NextKeeps
  <1>3. QED
    BY <1>1, <1>2, PTL DEF Spec

\* Requests, traces and files have their types at every moment, for any number
\* of requests, any limits and any sizes.
THEOREM TypeCorrect == Spec => []TypeOK
  <1>1. IInv => TypeOK
    BY DEF IInv, StoreInv, ReqTypeOK, TypeOK
  <1>2. QED
    BY <1>1, IInvHolds, PTL

\* The store holds exactly the latest Limit traces of this process, and a file
\* of any other trace is in a directory that could not be removed, although
\* requests keep calling it with handles of evicted traces (StartTrace, mutate).
THEOREM HeldLatest == Spec => []HeldAreLatest
  <1>1. IInv => HeldAreLatest
    BY DEF IInv, StoreInv
  <1>2. QED
    BY <1>1, IInvHolds, PTL

\* A trace is running until its request ends, and then says how it ended: every
\* path of the service functions closes it, and with what the client is told.
THEOREM TracesTell == Spec => []TraceTellsTheOutcome
  <1>1. ASSUME IInv PROVE TraceTellsTheOutcome
    <2> DEFINE Outcome(r) ==
          CASE req[r].answer = "done"                            -> "completed"
            [] req[r].at = "failed" \/ req[r].answer = "error"   -> "error"
            [] req[r].at \in {"input", "resolve", "call", "broken", "record", "close"} -> "running"
    <2>1. ASSUME NEW r \in Held PROVE traces[r].status = Outcome(r)
      <3>1. Told(traces[r], req[r]) /\ Fresh(req[r])
        BY <1>1 DEF IInv, Fits, StoreInv, StoreTypeOK, Requests
      <3>2. CASE req[r].at \in Working
        <4>1. traces[r].status = "running" /\ req[r].answer = "none"
          BY <3>1, <3>2 DEF Told, Fresh, Working
        <4>2. QED
          BY <3>2, <4>1 DEF Working
      <3>3. CASE req[r].at = "failed"
        <4>1. traces[r].status = "error" /\ req[r].answer = "none"
          BY <3>1, <3>3 DEF Told, Fresh
        <4>2. QED
          BY <3>3, <4>1
      <3>4. CASE req[r].at = "answered"
        <4>1. \/ req[r].answer = "done" /\ traces[r].status = "completed"
              \/ req[r].answer = "error" /\ traces[r].status = "error"
          BY <3>1, <3>4 DEF Told
        <4>2. QED
          BY <3>4, <4>1
      <3>5. QED
        BY <3>1, <3>2, <3>3, <3>4 DEF Told
    <2>2. QED
      BY <2>1 DEF TraceTellsTheOutcome
  <1>2. QED
    BY <1>1, IInvHolds, PTL

\* What is stored of a text begins it, and lacks something exactly past the limit.
LEMMA StoredIsPrefix ==
  ASSUME NEW s \in Seq(Words), NEW n \in Nat
  PROVE  LET stored == SubSeq(s, 1, AtMost(Len(s), n))
         IN  IsPrefix(stored, s) /\ (Len(s) > n <=> stored # s)
  <1> DEFINE m == AtMost(Len(s), n)
             stored == SubSeq(s, 1, m)
  <1>1. /\ Len(s) \in Nat /\ m \in Nat /\ m <= Len(s) /\ (Len(s) > n <=> m # Len(s))
    BY DEF AtMost
  <1> HIDE DEF m
  <1>2. stored \in Seq(Words) /\ Len(stored) = m
    BY <1>1
  <1>3. SubSeq(stored, 1, m) = stored
    BY <1>2
  <1>4. IsPrefix(stored, s)
    <2>1. SubSeq(stored, 1, Len(stored)) = SubSeq(s, 1, Len(stored))
      BY <1>2, <1>3
    <2> HIDE DEF stored
    <2>2. QED
      BY <1>1, <1>2, <2>1 DEF IsPrefix
  <1>5. m = Len(s) => stored = s
    OBVIOUS
  <1>6. m # Len(s) => stored # s
    BY <1>2
  <1> HIDE DEF stored
  <1>7. Len(s) > n <=> stored # s
    BY <1>1, <1>5, <1>6
  <1>8. QED
    BY <1>4, <1>7 DEF stored, m

\* An asset made of what was kept of the bytes has them all or is marked.
LEMMA AssetIsWhole ==
  ASSUME NEW format, NEW bytes \in Nat, NEW asset,
         asset.bytes = Encoded(format, AtMost(bytes, MaxAsset)).bytes,
         asset.truncated <=> \/ Encoded(format, AtMost(bytes, MaxAsset)).truncated
                             \/ bytes > MaxAsset
  PROVE  LET all == IF bytes > 0 /\ format = "pcm" THEN HeaderBytes + bytes ELSE bytes
         IN  asset.bytes <= all /\ (asset.truncated <=> asset.bytes < all)
  <1> DEFINE raw == AtMost(bytes, MaxAsset)
             head == IF format = "pcm" THEN HeaderBytes ELSE 0
  <1>1. /\ raw \in Nat /\ raw <= bytes /\ raw <= MaxAsset
        /\ (bytes > MaxAsset => raw = MaxAsset) /\ (bytes <= MaxAsset => raw = bytes)
        /\ head \in Nat /\ MaxAsset \in Nat \ {0}
    BY StoreAssumption DEF AtMost
  <1>2. CASE bytes = 0
    <2>1. raw = 0
      BY <1>1, <1>2
    <2>2. asset.bytes = 0 /\ ~asset.truncated
      BY <1>1, <1>2, <2>1 DEF Encoded
    <2>3. QED
      BY <1>2, <2>2
  <1>3. CASE bytes # 0
    <2>1. raw # 0
      BY <1>1, <1>3
    <2>2. /\ asset.bytes = AtMost(head + raw, MaxAsset)
          /\ asset.truncated <=> head + raw > MaxAsset \/ bytes > MaxAsset
      <3> HIDE DEF raw
      <3>1. /\ Encoded(format, raw).bytes = AtMost(head + raw, MaxAsset)
            /\ Encoded(format, raw).truncated <=> head + raw > MaxAsset
        BY <2>1 DEF Encoded
      <3>2. QED
        BY <3>1 DEF raw
    <2>3. (IF bytes > 0 /\ format = "pcm" THEN HeaderBytes + bytes ELSE bytes) = head + bytes
      BY <1>3, StoreAssumption
    <2>4. /\ asset.bytes <= head + bytes
          /\ asset.truncated <=> asset.bytes < head + bytes
      <3> HIDE DEF raw, head
      <3>1. asset.bytes = IF head + raw > MaxAsset THEN MaxAsset ELSE head + raw
        BY <2>2 DEF AtMost
      <3>2. QED
        BY <1>1, <2>2, <3>1
    <2>5. QED
      BY <2>3, <2>4
  <1>4. QED
    BY <1>2, <1>3

\* And so has the audio that is encoded without being cut before.
LEMMA EncodedIsWhole ==
  ASSUME NEW form, NEW bytes \in Nat, NEW asset, asset = Encoded(form, bytes)
  PROVE  LET all == IF bytes > 0 /\ form = "pcm" THEN HeaderBytes + bytes ELSE bytes
         IN  asset.bytes <= all /\ (asset.truncated <=> asset.bytes < all)
  <1> DEFINE head == IF form = "pcm" THEN HeaderBytes ELSE 0
  <1>1. head \in Nat /\ bytes \in Nat /\ MaxAsset \in Nat
    BY StoreAssumption
  <1>2. CASE bytes = 0
    <2>1. asset.bytes = 0 /\ ~asset.truncated
      BY <1>2 DEF Encoded
    <2>2. QED
      BY <1>2, <2>1
  <1>3. CASE bytes # 0
    <2>1. /\ asset.bytes = AtMost(head + bytes, MaxAsset)
          /\ asset.truncated <=> head + bytes > MaxAsset
      BY <1>3 DEF Encoded
    <2>2. (IF bytes > 0 /\ form = "pcm" THEN HeaderBytes + bytes ELSE bytes)
            = head + bytes
      BY <1>3, StoreAssumption
    <2>3. /\ asset.bytes <= head + bytes
          /\ asset.truncated <=> asset.bytes < head + bytes
      <3> HIDE DEF head
      <3>1. QED
        BY <1>1, <2>1 DEF AtMost
    <2>4. QED
      BY <2>2, <2>3
  <1>4. QED
    BY <1>2, <1>3

\* A trace has the whole text and the number of its deltas, a prefix of them
\* that is marked exactly when it is not all of them, and assets marked exactly
\* when bytes are missing, however the audio was cut into chunks.
THEOREM RecordsFaithful == Spec => []RecordIsFaithful
  <1>1. ASSUME IInv PROVE RecordIsFaithful
    <2> DEFINE Whole(asset, form, bytes) ==
          LET all == IF bytes > 0 /\ form = "pcm" THEN HeaderBytes + bytes ELSE bytes
          IN  asset.bytes <= all /\ (asset.truncated <=> asset.bytes < all)
    <2>1. ASSUME NEW r \in Held
          PROVE  /\ traces[r].text = req[r].passed
                 /\ traces[r].deltaCount = Len(traces[r].text)
                 /\ IsPrefix(traces[r].deltas, traces[r].text)
                 /\ traces[r].deltasTruncated <=> traces[r].deltas # traces[r].text
                 /\ traces[r].audioBytes = req[r].sent
                 /\ traces[r].input # NoAsset
                      => Whole(traces[r].input, FormOf(req[r].asked, req[r].wav), req[r].size)
                 /\ traces[r].audio # NoAsset
                      => Whole(traces[r].audio, req[r].format, req[r].sent)
      <3>1. /\ Counts(traces[r], req[r]) /\ Keeps(traces[r], req[r])
            /\ traces[r].text \in Seq(Words) /\ req[r].sent \in Nat /\ req[r].size \in Nat
        <4>1. r \in Requests /\ req[r] \in Request /\ Fits(traces[r], req[r])
          BY <1>1 DEF IInv, StoreInv, StoreTypeOK, ReqTypeOK, Requests
        <4>2. traces[r] \in TraceRecord
          BY <1>1 DEF IInv, StoreInv, StoreTypeOK
        <4>3. QED
          BY <4>1, <4>2 DEF Fits, Request, TraceRecord
      <3>2. /\ IsPrefix(traces[r].deltas, traces[r].text)
            /\ traces[r].deltasTruncated <=> traces[r].deltas # traces[r].text
        <4>1. /\ traces[r].deltas
                   = SubSeq(traces[r].text, 1, AtMost(Len(traces[r].text), MaxStored))
              /\ traces[r].deltasTruncated <=> Len(traces[r].text) > MaxStored
          BY <3>1 DEF Counts
        <4>2. QED
          BY <3>1, <4>1, StoredIsPrefix, StoreAssumption
      <3>3. ASSUME traces[r].input # NoAsset
            PROVE  Whole(traces[r].input, FormOf(req[r].asked, req[r].wav), req[r].size)
        <4>1. traces[r].input = Encoded(FormOf(req[r].asked, req[r].wav), req[r].size)
          BY <3>1, <3>3 DEF Keeps
        <4>2. QED
          BY <3>1, <4>1, EncodedIsWhole
      <3>4. ASSUME traces[r].audio # NoAsset
            PROVE  Whole(traces[r].audio, req[r].format, req[r].sent)
        <4>1. /\ traces[r].audio.bytes
                   = Encoded(req[r].format, AtMost(req[r].sent, MaxAsset)).bytes
              /\ traces[r].audio.truncated
                   <=> \/ Encoded(req[r].format, AtMost(req[r].sent, MaxAsset)).truncated
                       \/ req[r].sent > MaxAsset
          BY <3>1, <3>4 DEF Keeps
        <4>2. QED
          BY <3>1, <4>1, AssetIsWhole
      <3>5. QED
        BY <3>1, <3>2, <3>3, <3>4 DEF Counts, Keeps
    <2>2. QED
      BY <2>1 DEF RecordIsFaithful
  <1>2. QED
    BY <1>1, IInvHolds, PTL
----------------------------------------------------------------------------
(* The text of a stream, folded from its words: what one more word does.    *)

\* A set of naturals that has an element has a least one.
LEMMA LeastElement ==
  ASSUME NEW S \in SUBSET Nat, S # {}
  PROVE  \E x \in S : \A y \in S : x <= y
  <1> DEFINE R == OpToRel(<, Nat)
  <1>1. \A x, y \in S : y < x => <<y, x>> \in R
    BY DEF OpToRel
  <1>2. IsWellFoundedOn(R, Nat)
    BY NatLessThanWellFounded
  <1> HIDE DEF R
  <1>3. PICK x \in S : \A y \in S : ~(<<y, x>> \in R)
    BY <1>2, WFMin
  <1>4. \A y \in S : ~(y < x)
    BY <1>1, <1>3
  <1>5. QED
    BY <1>4

\* Induction with a set in the place of a predicate.
LEMMA Induct ==
  ASSUME NEW P, 0 \in P, \A k \in Nat : k \in P => k + 1 \in P
  PROVE  Nat \subseteq P
  <1> SUFFICES ASSUME Nat \ P # {} PROVE FALSE
    OBVIOUS
  <1> DEFINE Q == Nat \ P
  <1>1. Q \in SUBSET Nat /\ Q # {}
    OBVIOUS
  <1> HIDE DEF Q
  <1>2. PICK x \in Q : \A y \in Q : x <= y
    BY <1>1, LeastElement
  <1>3. x \in Nat /\ x # 0 /\ x \notin P
    BY <1>2 DEF Q
  <1>4. x - 1 \in Nat /\ ~(x <= x - 1)
    BY <1>3
  <1>5. x - 1 \in P
    BY <1>2, <1>4 DEF Q
  <1>6. QED
    BY <1>3, <1>4, <1>5

\* The maximum of a set of positions is one of them, and none is above it.
LEMMA MaxIsGreatest ==
  ASSUME NEW n \in Nat, NEW d \in SUBSET (1 .. n), d # {}
  PROVE  Max(d) \in d /\ \A y \in d : y <= Max(d)
  <1> DEFINE P == {k \in Nat : d \cap (1 .. k) = {}
                                \/ \E x \in d : \A y \in d \cap (1 .. k) : y <= x}
  <1>1. 0 \in P
    OBVIOUS
  <1>2. ASSUME NEW k \in Nat, k \in P PROVE k + 1 \in P
    <2>1. CASE k + 1 \in d
      <3>1. \A y \in d \cap (1 .. k + 1) : y <= k + 1
        OBVIOUS
      <3>2. QED
        BY <2>1, <3>1
    <2>2. CASE k + 1 \notin d
      <3>1. d \cap (1 .. k + 1) = d \cap (1 .. k)
        BY <2>2
      <3>2. QED
        BY <1>2, <3>1
    <2>3. QED
      BY <2>1, <2>2
  <1>3. n \in P
    <2> HIDE DEF P
    <2>1. QED
      BY <1>1, <1>2, Induct
  <1>4. d \cap (1 .. n) = d
    OBVIOUS
  <1>5. PICK x \in d : \A y \in d : y <= x
    BY <1>3, <1>4
  <1>6. \A y \in d : x >= y
    BY <1>5
  <1>7. QED
    BY <1>5, <1>6 DEF Max

\* The last position of a sequence, and those before it.
LEMMA IntervalMax ==
  ASSUME NEW k \in Nat
  PROVE  /\ 1 .. k + 1 # {} /\ Max(1 .. k + 1) = k + 1
         /\ (1 .. k + 1) \ {k + 1} = 1 .. k
  <1>1. 1 .. k + 1 # {} /\ k + 1 \in 1 .. k + 1 /\ k + 1 \in Nat
    OBVIOUS
  <1>2. /\ Max(1 .. k + 1) \in 1 .. k + 1
        /\ \A y \in 1 .. k + 1 : y <= Max(1 .. k + 1)
    BY <1>1, MaxIsGreatest
  <1>3. PICK m \in 1 .. k + 1 : m = Max(1 .. k + 1)
    BY <1>2
  <1>4. m = k + 1
    BY <1>1, <1>2, <1>3
  <1>5. QED
    BY <1>1, <1>3, <1>4

\* What reading the i-th word of s adds to the text.
Reads(s, text, i) == IF s[i] # Blank THEN Append(text, s[i]) ELSE text

\* f gives the text read at each set of positions, the last one last.
Texted(s, f, d) ==
  /\ d = {} => f[d] = <<>>
  /\ d # {} => f[d] = Reads(s, f[d \ {Max(d)}], Max(d))

\* f is the function that Texts folds s with, on its first n positions.
TextsOf(s, n, f) ==
  f = [d \in SUBSET (1 .. n) |->
         IF d = {} THEN <<>> ELSE Reads(s, f[d \ {Max(d)}], Max(d))]

\* Such a function gives the text of every set of positions.
LEMMA TextsAt ==
  ASSUME NEW s, NEW n \in Nat, NEW f, TextsOf(s, n, f)
  PROVE  \A d \in SUBSET (1 .. n) : Texted(s, f, d)
  <1> SUFFICES ASSUME NEW d \in SUBSET (1 .. n) PROVE Texted(s, f, d)
    OBVIOUS
  <1>1. f[d] = IF d = {} THEN <<>> ELSE Reads(s, f[d \ {Max(d)}], Max(d))
    BY Zenon DEF TextsOf
  <1>2. QED
    BY <1>1, Zenon DEF Texted

\* There is one for every length: the function for one position more extends
\* the one before.
LEMMA TextsExist ==
  ASSUME NEW s, NEW n \in Nat
  PROVE  \E f : TextsOf(s, n, f)
  <1> DEFINE P == {k \in Nat : \E f : TextsOf(s, k, f)}
  <1>1. 0 \in P
    <2> DEFINE z == [d \in SUBSET (1 .. 0) |-> <<>>]
    <2>1. \A d \in SUBSET (1 .. 0) : d = {}
      OBVIOUS
    <2>2. TextsOf(s, 0, z)
      BY <2>1, Zenon DEF TextsOf
    <2>3. QED
      BY <2>2
  <1>2. ASSUME NEW k \in Nat, k \in P PROVE k + 1 \in P
    <2>1. PICK f : TextsOf(s, k, f)
      BY <1>2
    <2>2. \A d \in SUBSET (1 .. k) : Texted(s, f, d)
      BY <2>1, TextsAt
    <2> DEFINE top == k + 1
               h == [d \in SUBSET (1 .. top) |->
                       IF top \in d THEN Reads(s, f[d \ {top}], top) ELSE f[d]]
               T(d) == IF d = {} THEN <<>> ELSE Reads(s, h[d \ {Max(d)}], Max(d))
    <2>3. ASSUME NEW d \in SUBSET (1 .. top)
          PROVE  /\ d \ {top} \in SUBSET (1 .. k)
                 /\ top \notin d => d \in SUBSET (1 .. k)
                 /\ \A x \in d : x <= top /\ x \in Nat
      <3>1. \A x \in d : x \in 1 .. top /\ (x # top => x \in 1 .. k)
        OBVIOUS
      <3>2. QED
        BY <3>1
    <2>4. top \in Nat
      OBVIOUS
    <2>5. \A d \in SUBSET (1 .. top) :
            h[d] = IF top \in d THEN Reads(s, f[d \ {top}], top) ELSE f[d]
      BY Zenon
    <2>6. \A d \in SUBSET (1 .. top) : \A x : d \ {x} \in SUBSET (1 .. top)
      BY Zenon
    <2> HIDE DEF h, top
    <2>7. ASSUME NEW d \in SUBSET (1 .. top) PROVE h[d] = T(d)
      <3>1. CASE d = {}
        <4>1. h[d] = f[d] /\ d \in SUBSET (1 .. k)
          BY <2>3, <2>5, <3>1
        <4>2. f[d] = <<>>
          BY <2>2, <3>1, <4>1, Zenon DEF Texted
        <4>3. QED
          BY <3>1, <4>1, <4>2, Zenon
      <3>2. CASE d # {} /\ top \in d
        <4>1. Max(d) \in d /\ \A y \in d : y <= Max(d)
          BY <2>4, <3>2, MaxIsGreatest
        <4>2. Max(d) = top
          <5>1. PICK m \in d : m = Max(d)
            BY <4>1
          <5>2. m \in Nat /\ m <= top /\ top <= m
            BY <2>3, <3>2, <4>1, <5>1
          <5>3. QED
            BY <2>4, <5>1, <5>2
        <4>3. h[d \ {top}] = f[d \ {top}]
          BY <2>5, <2>6, Zenon
        <4>4. QED
          BY <2>5, <3>2, <4>2, <4>3, Zenon
      <3>3. CASE d # {} /\ top \notin d
        <4>1. d \in SUBSET (1 .. k)
          BY <2>3, <3>3
        <4>2. f[d] = Reads(s, f[d \ {Max(d)}], Max(d))
          BY <2>2, <3>3, <4>1, Zenon DEF Texted
        <4>3. h[d] = f[d] /\ h[d \ {Max(d)}] = f[d \ {Max(d)}]
          BY <2>5, <2>6, <3>3, Zenon
        <4>4. QED
          BY <3>3, <4>2, <4>3, Zenon
      <3>4. QED
        BY <3>1, <3>2, <3>3, Zenon
    <2>8. h = [d \in SUBSET (1 .. top) |-> h[d]]
      BY Zenon DEF h
    <2>9. h = [d \in SUBSET (1 .. top) |-> T(d)]
      BY <2>7, <2>8, Zenon
    <2>10. TextsOf(s, top, h)
      BY <2>9, Zenon DEF TextsOf
    <2>11. QED
      BY <2>4, <2>10, Zenon DEF top
  <1>3. QED
    <2> HIDE DEF P
    <2>1. n \in P
      BY <1>1, <1>2, Induct
    <2>2. QED
      BY <2>1 DEF P

\* The first n words of s2 are those of s.
Agree(s, s2, n) == \A i \in 1 .. n : s2[i] = s[i]

\* The text of a beginning does not depend on what follows.
LEMMA TextsOfBeginning ==
  ASSUME NEW s, NEW s2, NEW n \in Nat, NEW m \in Nat, n <= m,
         Agree(s, s2, n),
         NEW f, TextsOf(s, n, f), NEW g, TextsOf(s2, m, g)
  PROVE  g[1 .. n] = f[1 .. n]
  <1> DEFINE P == {k \in Nat : k <= n => g[1 .. k] = f[1 .. k]}
  <1>0. /\ \A d \in SUBSET (1 .. n) : Texted(s, f, d)
        /\ \A d \in SUBSET (1 .. m) : Texted(s2, g, d)
    BY TextsAt
  <1>1. 0 \in P
    <2>1. 1 .. 0 = {} /\ 1 .. 0 \in SUBSET (1 .. n) /\ 1 .. 0 \in SUBSET (1 .. m)
      OBVIOUS
    <2>2. f[1 .. 0] = <<>> /\ g[1 .. 0] = <<>>
      BY <1>0, <2>1, Zenon DEF Texted
    <2>3. QED
      BY <2>2
  <1>2. ASSUME NEW k \in Nat, k \in P PROVE k + 1 \in P
    <2> SUFFICES ASSUME k + 1 <= n PROVE g[1 .. k + 1] = f[1 .. k + 1]
      BY <1>2
    <2>1. /\ 1 .. k + 1 \in SUBSET (1 .. n) /\ 1 .. k + 1 \in SUBSET (1 .. m)
          /\ k + 1 \in 1 .. n /\ k <= n
      OBVIOUS
    <2>2. g[1 .. k] = f[1 .. k] /\ s2[k + 1] = s[k + 1]
      BY <1>2, <2>1 DEF Agree
    <2>3. Texted(s, f, 1 .. k + 1) /\ Texted(s2, g, 1 .. k + 1)
      BY <1>0, <2>1, Zenon
    <2>4. /\ f[1 .. k + 1] = Reads(s, f[1 .. k], k + 1)
          /\ g[1 .. k + 1] = Reads(s2, g[1 .. k], k + 1)
      BY <2>3, IntervalMax, Zenon DEF Texted
    <2>5. QED
      BY <2>2, <2>4, Zenon DEF Reads
  <1>3. n \in P
    <2> HIDE DEF P
    <2>1. QED
      BY <1>1, <1>2, Induct
  <1>4. QED
    BY <1>3

\* Texts is the text of all the positions.
LEMMA TextsIsOne ==
  ASSUME NEW S, NEW s \in Seq(S)
  PROVE  \E f : TextsOf(s, Len(s), f) /\ Texts(s) = f[1 .. Len(s)]
  <1> DEFINE E(f) == f = [d \in SUBSET (DOMAIN s) |->
                       IF d = {} THEN <<>>
                       ELSE IF s[Max(d)] # Blank
                            THEN Append(f[d \ {Max(d)}], s[Max(d)])
                            ELSE f[d \ {Max(d)}]]
             F == CHOOSE f : E(f)
  <1>1. Texts(s) = F[DOMAIN s]
    BY Zenon DEF Texts, FoldLeft, MapThenFoldSet
  <1>2. DOMAIN s = 1 .. Len(s) /\ Len(s) \in Nat
    OBVIOUS
  <1>3. ASSUME NEW f PROVE E(f) <=> TextsOf(s, Len(s), f)
    BY <1>2, Zenon DEF TextsOf, Reads
  <1>4. \E f : E(f)
    BY <1>2, <1>3, TextsExist, Zenon
  <1>5. E(F)
    BY <1>4, Zenon
  <1> HIDE DEF F, E
  <1>6. QED
    BY <1>1, <1>2, <1>3, <1>5, Zenon

\* A blank adds nothing to the text of a stream, another word adds itself.
LEMMA TextsGrow ==
  ASSUME NEW S, NEW s \in Seq(S), NEW w \in S
  PROVE  Texts(Append(s, w)) = IF w # Blank THEN Append(Texts(s), w) ELSE Texts(s)
  <1> DEFINE s2 == Append(s, w)
             n == Len(s)
  <1>1. /\ s2 \in Seq(S) /\ n \in Nat /\ n + 1 \in Nat /\ Len(s2) = n + 1
        /\ s2[n + 1] = w /\ n <= n + 1
        /\ Agree(s, s2, n)
    BY DEF Agree
  <1> HIDE DEF s2, n
  <1>2. PICK f : TextsOf(s, n, f) /\ Texts(s) = f[1 .. n]
    BY TextsIsOne, Zenon DEF n
  <1>3. PICK g : TextsOf(s2, n + 1, g) /\ Texts(s2) = g[1 .. n + 1]
    BY <1>1, TextsIsOne, Zenon
  <1>4. g[1 .. n] = f[1 .. n]
    BY <1>1, <1>2, <1>3, TextsOfBeginning
  <1>5. Texted(s2, g, 1 .. n + 1)
    BY <1>1, <1>3, TextsAt
  <1>6. g[1 .. n + 1] = Reads(s2, g[1 .. n], n + 1)
    BY <1>1, <1>5, IntervalMax, Zenon DEF Texted
  <1>7. Texts(s2) = IF w # Blank THEN Append(Texts(s), w) ELSE Texts(s)
    BY <1>1, <1>2, <1>3, <1>4, <1>6, Zenon DEF Reads
  <1>8. QED
    BY <1>7 DEF s2

\* A stream that has said nothing has no text.
LEMMA TextsOfNothing == Texts(<<>>) = <<>>
  <1>1. <<>> \in Seq({}) /\ Len(<<>>) = 0 /\ 1 .. 0 = {} /\ 0 \in Nat
    OBVIOUS
  <1>2. PICK f : TextsOf(<<>>, 0, f) /\ Texts(<<>>) = f[1 .. 0]
    BY <1>1, TextsIsOne
  <1>3. Texted(<<>>, f, 1 .. 0)
    BY <1>1, <1>2, TextsAt, Zenon
  <1>4. QED
    BY <1>1, <1>2, <1>3, Zenon DEF Texted
----------------------------------------------------------------------------
(* The reply is what the provider said.                                     *)

\* The text begins with the same word twice, and loses the first of them.
Again(said) == Len(said) > 1 /\ said[1] = said[2]
Opened(said) == IF Again(said) THEN Tail(said) ELSE said

\* The reply of a request: the text of what was spoken, without its repeated
\* opening, and the client has a prefix of it, or all while it stayed.
Replies(q) ==
  /\ Texts(q.spoken) \in Seq(Words)
  /\ q.dropped <=> Again(Texts(q.spoken))
  /\ q.passed = Opened(Texts(q.spoken))
  /\ IsPrefix(q.heard, q.passed)
  /\ q.kind = "stream" /\ q.linked => q.heard = q.passed

\* Every reply is whole at every step, not only once the chat has ended.
ReplyInv == IInv /\ \A r \in Requests : Replies(req[r])

\* A prefix of a reply is a prefix of it with a word more.
LEMMA PrefixGrows ==
  ASSUME NEW s \in Seq(Words), NEW t \in Seq(Words), NEW w \in Words
  PROVE  /\ IsPrefix(s, s)
         /\ IsPrefix(s, t) => IsPrefix(s, Append(t, w))
  <1>1. IsPrefix(s, s)
    BY DEF IsPrefix
  <1>2. ASSUME IsPrefix(s, t) PROVE IsPrefix(s, Append(t, w))
    <2> DEFINE n == Len(s)
               t2 == Append(t, w)
    <2>1. n \in Nat /\ n <= Len(t) /\ Len(t) \in Nat /\ SubSeq(s, 1, n) = SubSeq(t, 1, n)
      BY <1>2 DEF IsPrefix
    <2>2. t2 \in Seq(Words) /\ Len(t2) = Len(t) + 1 /\ \A i \in 1 .. Len(t) : t2[i] = t[i]
      OBVIOUS
    <2> HIDE DEF n, t2
    <2>3. SubSeq(t2, 1, n) = SubSeq(t, 1, n)
      BY <2>1, <2>2
    <2>4. n <= Len(t2)
      BY <2>1, <2>2
    <2>5. SubSeq(s, 1, n) = SubSeq(t2, 1, n)
      BY <2>1, <2>3
    <2>6. QED
      BY <2>4, <2>5 DEF IsPrefix, n, t2
  <1>3. QED
    BY <1>1, <1>2

\* A word that repeats the first one right after it is dropped; another one
\* goes at the end of the reply.
LEMMA OpeningGrows ==
  ASSUME NEW said \in Seq(Words), NEW w \in Words
  PROVE  LET more == Append(said, w)
             reply == Opened(said)
             repeats == Len(reply) = 1 /\ ~Again(said) /\ w = reply[1]
         IN  /\ repeats => Again(more) /\ Opened(more) = reply
             /\ ~repeats => /\ Again(more) <=> Again(said)
                            /\ Opened(more) = Append(reply, w)
  <1> DEFINE more == Append(said, w)
             reply == Opened(said)
             repeats == Len(reply) = 1 /\ ~Again(said) /\ w = reply[1]
  <1>1. /\ more \in Seq(Words) /\ Len(more) = Len(said) + 1 /\ Len(said) \in Nat
        /\ more[Len(said) + 1] = w
        /\ \A i \in 1 .. Len(said) : more[i] = said[i]
    OBVIOUS
  <1>2. CASE Again(said)
    <2>1. Len(said) > 1 /\ reply = Tail(said) /\ ~repeats
      BY <1>2 DEF Again, Opened
    <2>2. Again(more)
      BY <1>1, <1>2 DEF Again
    <2>3. Opened(more) = Tail(more)
      BY <2>2 DEF Opened
    <2>4. Tail(more) = Append(Tail(said), w)
      BY <2>1
    <2>5. QED
      BY <1>2, <2>1, <2>2, <2>3, <2>4
  <1>3. CASE ~Again(said)
    <2>1. reply = said
      BY <1>3 DEF Opened
    <2>2. CASE Len(said) = 0
      <3>1. ~Again(more) /\ ~repeats
        BY <1>1, <2>1, <2>2 DEF Again
      <3>2. QED
        BY <1>3, <2>1, <3>1 DEF Opened
    <2>3. CASE Len(said) = 1 /\ w = said[1]
      <3>1. Again(more) /\ repeats
        BY <1>1, <1>3, <2>1, <2>3 DEF Again
      <3>2. Tail(more) = said
        <4>1. Tail(more) \in Seq(Words) /\ Len(Tail(more)) = 1 /\ Tail(more)[1] = more[2]
          BY <1>1, <2>3
        <4>2. more[2] = said[1]
          BY <1>1, <2>3
        <4>3. ASSUME NEW j \in 1 .. Len(said) PROVE said[j] = Tail(more)[j]
          <5>1. j = 1
            BY <2>3
          <5>2. QED
            BY <4>1, <4>2, <5>1, Zenon
        <4>4. QED
          BY <2>3, <4>1, <4>3, SameSequence
      <3>3. QED
        BY <2>1, <3>1, <3>2 DEF Opened
    <2>4. CASE Len(said) = 1 /\ w # said[1]
      <3>1. ~Again(more) /\ ~repeats
        BY <1>1, <2>1, <2>4 DEF Again
      <3>2. QED
        BY <1>3, <2>1, <3>1 DEF Opened
    <2>5. CASE Len(said) > 1
      <3>1. said[1] # said[2]
        BY <1>3, <2>5 DEF Again
      <3>2. ~Again(more) /\ ~repeats
        BY <1>1, <2>1, <2>5, <3>1 DEF Again
      <3>3. QED
        BY <1>3, <2>1, <3>2 DEF Opened
    <2>6. Len(said) = 0 \/ Len(said) = 1 \/ Len(said) > 1
      <3>1. Len(said) \in Nat
        OBVIOUS
      <3>2. \A n \in Nat : n = 0 \/ n = 1 \/ n > 1
        OBVIOUS
      <3>3. QED
        BY <3>1, <3>2, Zenon
    <2> HIDE DEF more, reply, repeats
    <2>7. QED
      BY <2>2, <2>3, <2>4, <2>5, <2>6, Zenon
  <1>4. QED
    BY <1>2, <1>3

\* What a request does before and after its chat leaves its reply alone.
Same(q, p) ==
  /\ p.spoken = q.spoken /\ p.dropped = q.dropped /\ p.passed = q.passed
  /\ p.heard = q.heard
  /\ p.kind = "stream" /\ p.linked => q.kind = "stream" /\ q.linked

\* A request that keeps its reply keeps what is said of it.
LEMMA SameReplies ==
  ASSUME NEW q, NEW p, Same(q, p), Replies(q)
  PROVE  Replies(p)
  BY DEF Same, Replies

\* A step changes one request: what is said of the others stays.
LEMMA OneReplies ==
  ASSUME ReplyInv, IInv', NEW r \in Requests, NEW p,
         req' = [req EXCEPT ![r] = p], Replies(p)
  PROVE  ReplyInv'
  <1>1. req \in [Requests -> Request]
    BY DEF ReplyInv, IInv, ReqTypeOK
  <1>2. ASSUME NEW i \in Requests PROVE Replies(req'[i])
    <2>1. CASE i = r
      <3>1. req'[i] = p
        BY <1>1, <2>1
      <3>2. QED
        BY <3>1
    <2>2. CASE i # r
      <3>1. req'[i] = req[i]
        BY <1>1, <2>2
      <3>2. QED
        BY <3>1 DEF ReplyInv
    <2>3. QED
      BY <2>1, <2>2
  <1>3. QED
    BY <1>2 DEF ReplyInv

\* The handler's steps before and after the call of the provider, and a
\* client that leaves.
LEMMA AloneStep ==
  ASSUME ReplyInv, IInv', NEW r \in Requests, Serve(r) \/ Disconnect(r)
  PROVE  ReplyInv'
  <1>1. /\ req[r] \in Request /\ req \in [Requests -> Request]
        /\ Replies(req[r]) /\ Fresh(req[r])
    BY Known DEF ReplyInv
  <1>2. ASSUME NEW phase, Goes(r, phase) PROVE ReplyInv'
    <2> DEFINE p == [req[r] EXCEPT !.at = phase]
    <2>1. req' = [req EXCEPT ![r] = p]
      BY <1>1, <1>2 DEF Goes
    <2>2. Same(req[r], p)
      BY <1>1 DEF Request, Same
    <2> HIDE DEF p
    <2>3. QED
      BY <1>1, <2>1, <2>2, SameReplies, OneReplies
  <1>3. ASSUME NEW phase, NEW answer,
               req' = [req EXCEPT ![r].at = phase, ![r].answer = answer]
        PROVE  ReplyInv'
    <2> DEFINE p == [req[r] EXCEPT !.at = phase, !.answer = answer]
    <2>1. req' = [req EXCEPT ![r] = p]
      BY <1>1, <1>3
    <2>2. Same(req[r], p)
      BY <1>1 DEF Request, Same
    <2> HIDE DEF p
    <2>3. QED
      BY <1>1, <2>1, <2>2, SameReplies, OneReplies
  <1>4. CASE Refuse(r) \/ RefuseInput(r) \/ Close(r) \/ AnswerError(r)
    BY <1>3, <1>4 DEF Refuse, RefuseInput, Close, AnswerError
  <1>5. CASE Open(r) \/ RecordInput(r) \/ Resolve(r) \/ Fails(r) \/ RecordResult(r)
    BY <1>2, <1>5 DEF Open, RecordInput, Resolve, Fails, RecordResult
  <1>6. CASE Accept(r)
    <2>1. PICK kind \in Kinds, size \in AudioSizes, wav \in BOOLEAN, parts \in 1 .. MaxParts,
               format \in {"pcm", "other"} :
          /\ kind # "asr" => size = 0
          /\ wav => size > 0
          /\ kind # "tts" => parts = 1
          /\ kind \notin {"asr", "tts"} => format = "pcm"
          /\ req' = [req EXCEPT ![r].at = "open", ![r].kind = kind, ![r].size = size,
                                ![r].wav = wav, ![r].parts = parts, ![r].asked = format,
                                ![r].format = format]
      BY <1>6, Zenon DEF Accept
    <2> DEFINE p == [req[r] EXCEPT !.at = "open", !.kind = kind, !.size = size, !.wav = wav,
                                   !.parts = parts, !.asked = format, !.format = format]
    <2>2. req' = [req EXCEPT ![r] = p]
      BY <1>1, <2>1
    <2>3. /\ p.spoken = req[r].spoken /\ p.dropped = req[r].dropped
          /\ p.passed = req[r].passed /\ p.heard = req[r].heard
      BY <1>1 DEF Request
    <2> HIDE DEF p
    <2>4. req[r].passed = <<>>
      BY <1>1, <1>6 DEF Accept, Fresh
    <2>5. req[r].heard = <<>>
      <3>1. req[r].heard \in Seq(Words)
        BY <1>1 DEF Request
      <3>2. Len(req[r].heard) <= 0
        BY <1>1, <2>4 DEF Replies, IsPrefix
      <3>3. QED
        BY <3>1, <3>2
    <2>6. Replies(p)
      BY <1>1, <2>3, <2>4, <2>5 DEF Replies
    <2>7. QED
      BY <2>2, <2>6, OneReplies
  <1>7. CASE Disconnect(r)
    <2> DEFINE p == [req[r] EXCEPT !.linked = FALSE]
    <2>1. req' = [req EXCEPT ![r] = p]
      BY <1>1, <1>7 DEF Disconnect
    <2>2. Same(req[r], p)
      BY <1>1 DEF Request, Same
    <2> HIDE DEF p
    <2>3. QED
      BY <1>1, <2>1, <2>2, SameReplies, OneReplies
  <1>8. QED
    BY <1>4, <1>5, <1>6, <1>7 DEF Serve

\* The provider's steps: the deltas of a chat, and the rest, which has none.
LEMMA ProvideStep ==
  ASSUME ReplyInv, IInv', NEW r \in Requests, Provide(r)
  PROVE  ReplyInv'
  <1>1. /\ req[r] \in Request /\ req \in [Requests -> Request] /\ Replies(req[r])
    BY Known DEF ReplyInv
  <1> DEFINE said == Texts(req[r].spoken)
  <1>2. /\ req[r].spoken \in Seq(Words \cup {Blank}) /\ req[r].heard \in Seq(Words)
        /\ req[r].passed \in Seq(Words)
        /\ said \in Seq(Words) /\ req[r].passed = Opened(said)
        /\ req[r].dropped <=> Again(said)
        /\ IsPrefix(req[r].heard, req[r].passed)
        /\ req[r].kind = "stream" /\ req[r].linked => req[r].heard = req[r].passed
    BY <1>1 DEF Request, Replies
  <1>3. ASSUME NEW phase, Goes(r, phase) PROVE ReplyInv'
    <2> DEFINE p == [req[r] EXCEPT !.at = phase]
    <2>1. req' = [req EXCEPT ![r] = p]
      BY <1>1, <1>3 DEF Goes
    <2>2. Same(req[r], p)
      BY <1>1 DEF Request, Same
    <2> HIDE DEF p
    <2>3. QED
      BY <1>1, <2>1, <2>2, SameReplies, OneReplies
  <1>4. CASE Transcribed(r) \/ Described(r) \/ ChatEnds(r)
    BY <1>3, <1>4 DEF Transcribed, Described, ChatEnds
  <1>5. ASSUME NEW word \in Words \cup {Blank}, Skip(r, word) PROVE ReplyInv'
    <2>1. Texts(Append(req[r].spoken, word))
            = IF word # Blank THEN Append(said, word) ELSE said
      BY <1>2, TextsGrow
    <2>2. CASE ~IsText(word)
      <3> DEFINE p == [req[r] EXCEPT !.spoken = Append(@, word)]
      <3>1. req' = [req EXCEPT ![r] = p]
        BY <1>1, <1>5, <2>2 DEF Skip
      <3>2. /\ p.spoken = Append(req[r].spoken, word) /\ p.dropped = req[r].dropped
            /\ p.passed = req[r].passed /\ p.heard = req[r].heard
            /\ p.kind = req[r].kind /\ p.linked = req[r].linked
        BY <1>1 DEF Request
      <3> HIDE DEF p, said
      <3>3. Texts(p.spoken) = said
        BY <2>1, <2>2, <3>2 DEF IsText
      <3>4. Replies(p)
        BY <1>2, <3>2, <3>3 DEF Replies
      <3>5. QED
        BY <3>1, <3>4, OneReplies
    <2>3. CASE IsText(word)
      <3> DEFINE p == [req[r] EXCEPT !.spoken = Append(@, word), !.dropped = TRUE]
      <3>1. req' = [req EXCEPT ![r] = p] /\ OpeningAgain(r, word)
        BY <1>1, <1>5, <2>3 DEF Skip
      <3>2. /\ p.spoken = Append(req[r].spoken, word) /\ p.dropped = TRUE
            /\ p.passed = req[r].passed /\ p.heard = req[r].heard
            /\ p.kind = req[r].kind /\ p.linked = req[r].linked
        BY <1>1 DEF Request
      <3> HIDE DEF p, said
      <3>3. word \in Words /\ Texts(p.spoken) = Append(said, word)
        BY <2>1, <2>3, <3>2 DEF IsText
      <3>4. Again(Append(said, word)) /\ Opened(Append(said, word)) = req[r].passed
        <4>1. Len(Opened(said)) = 1 /\ ~Again(said) /\ word = Opened(said)[1]
          BY <1>2, <3>1 DEF OpeningAgain
        <4>2. QED
          BY <1>2, <3>3, <4>1, OpeningGrows
      <3>5. Append(said, word) \in Seq(Words)
        BY <1>2, <3>3
      <3>6. Replies(p)
        BY <1>2, <3>2, <3>3, <3>4, <3>5 DEF Replies
      <3>7. QED
        BY <3>1, <3>6, OneReplies
    <2>4. QED
      BY <2>2, <2>3
  <1>6. ASSUME NEW word \in Words \cup {Blank}, Pass(r, word) PROVE ReplyInv'
    <2> DEFINE heard == IF req[r].kind = "stream" /\ req[r].linked
                        THEN Append(req[r].heard, word) ELSE req[r].heard
               next == [req[r] EXCEPT !.spoken = Append(@, word),
                                      !.passed = Append(@, word), !.heard = heard]
    <2>1. /\ IsText(word) /\ ~OpeningAgain(r, word)
          /\ \/ req' = [req EXCEPT ![r] = next]
             \/ req' = [req EXCEPT ![r] = [next EXCEPT !.at = "broken"]]
      <3>1. next = [req[r] EXCEPT
                      !.spoken = Append(@, word), !.passed = Append(@, word),
                      !.heard = IF req[r].kind = "stream" /\ req[r].linked
                                THEN Append(@, word) ELSE @]
        OBVIOUS
      <3>2. QED
        BY <1>6, <3>1, Zenon DEF Pass
    <2>2. PICK p : /\ req' = [req EXCEPT ![r] = p]
                   /\ p = next \/ p = [next EXCEPT !.at = "broken"]
      BY <2>1
    <2>3. /\ p.spoken = Append(req[r].spoken, word) /\ p.dropped = req[r].dropped
          /\ p.passed = Append(req[r].passed, word) /\ p.heard = heard
          /\ p.kind = req[r].kind /\ p.linked = req[r].linked
      <3> HIDE DEF heard
      <3>1. QED
        BY <1>1, <2>2 DEF Request
    <2> HIDE DEF next, said
    <2>4. /\ word \in Words /\ Texts(p.spoken) = Append(said, word)
      BY <1>2, <2>1, <2>3, TextsGrow DEF IsText, said
    <2>5. /\ Again(Append(said, word)) <=> Again(said)
          /\ Opened(Append(said, word)) = Append(req[r].passed, word)
      <3>1. ~(Len(Opened(said)) = 1 /\ ~Again(said) /\ word = Opened(said)[1])
        BY <1>2, <2>1 DEF OpeningAgain
      <3>2. QED
        BY <1>2, <2>4, <3>1, OpeningGrows
    <2>6. Append(said, word) \in Seq(Words)
      BY <1>2, <2>4
    <2>7. /\ IsPrefix(heard, Append(req[r].passed, word))
          /\ req[r].kind = "stream" /\ req[r].linked => heard = Append(req[r].passed, word)
      <3>1. Append(req[r].passed, word) \in Seq(Words)
        BY <1>2, <2>4
      <3>2. QED
        BY <1>2, <2>4, <3>1, PrefixGrows
    <2> HIDE DEF heard
    <2>8. Replies(p)
      BY <1>2, <2>3, <2>4, <2>5, <2>6, <2>7 DEF Replies
    <2>9. QED
      BY <2>2, <2>8, OneReplies
  <1>7. ASSUME NEW bytes, NEW format, Chunk(r, bytes, format) PROVE ReplyInv'
    <2> DEFINE p == [req[r] EXCEPT !.sent = @ + bytes, !.format = format]
    <2>1. req' = [req EXCEPT ![r] = p]
      BY <1>1, <1>7 DEF Chunk
    <2>2. Same(req[r], p)
      BY <1>1 DEF Request, Same
    <2> HIDE DEF p
    <2>3. QED
      BY <1>1, <2>1, <2>2, SameReplies, OneReplies
  <1>8. CASE SentenceEnds(r)
    <2>1. CASE req[r].part = req[r].parts
      BY <1>3, <1>8, <2>1 DEF SentenceEnds
    <2>2. CASE req[r].part # req[r].parts
      <3> DEFINE p1 == [req[r] EXCEPT !.part = @ + 1, !.sent = @ + Silence(r)]
                 p2 == [req[r] EXCEPT !.part = @ + 1]
      <3>1. req' = [req EXCEPT ![r] = p1] \/ req' = [req EXCEPT ![r] = p2]
        BY <1>1, <1>8, <2>2 DEF SentenceEnds
      <3>2. Same(req[r], p1) /\ Same(req[r], p2)
        BY <1>1 DEF Request, Same
      <3> HIDE DEF p1, p2
      <3>3. QED
        BY <1>1, <3>1, <3>2, SameReplies, OneReplies
    <2>3. QED
      BY <2>1, <2>2
  <1>9. QED
    BY <1>4, <1>5, <1>6, <1>7, <1>8 DEF Provide

\* Nothing said is nothing lost.
LEMMA IdleReplies == Replies(Idle) /\ Replies([Idle EXCEPT !.at = "lost"])
  <1>1. <<>> \in Seq(Words) /\ Len(<<>>) = 0 /\ IsPrefix(<<>>, <<>>)
    BY DEF IsPrefix
  <1>2. ~Again(<<>>) /\ Opened(<<>>) = <<>>
    BY <1>1 DEF Again, Opened
  <1>3. QED
    BY <1>1, <1>2, TextsOfNothing DEF Replies, Idle

\* A restart forgets the replies; every other step is one of the above.
LEMMA ReplyInvHolds == Spec => []ReplyInv
  <1>1. ASSUME Init, IInv PROVE ReplyInv
    BY <1>1, IdleReplies DEF Init, ReplyInv
  <1>2. ASSUME ReplyInv, IInv', [Next]_vars PROVE ReplyInv'
    <2>1. CASE Restart
      <3> DEFINE gone == [Idle EXCEPT !.at = "lost"]
      <3>1. \A r \in Requests : req'[r] = req[r] \/ req'[r] = gone
        BY <2>1 DEF Restart
      <3>2. Replies(gone)
        BY IdleReplies
      <3> HIDE DEF gone
      <3>3. \A r \in Requests : Replies(req'[r])
        BY <1>2, <3>1, <3>2, Zenon DEF ReplyInv
      <3>4. QED
        BY <1>2, <3>3 DEF ReplyInv
    <2>2. CASE UNCHANGED vars
      BY <1>2, <2>2 DEF ReplyInv, vars
    <2>3. QED
      BY <1>2, <2>1, <2>2, AloneStep, ProvideStep DEF Next
  <1>3. QED
    BY <1>1, <1>2, InitIInv, IInvHolds, PTL DEF Spec

\* The reply a chat has put together is the text the provider streamed, less
\* a first word sent twice, and a client that stayed on has received it all
\* (ChatStream of openai_compatible.go with droppedOpeningDuplicate, and the
\* chat handler of router.go, which stops writing when its client has left).
THEOREM RepliesWhole == Spec => []ReplyIsWhole
  <1>1. ReplyInv => ReplyIsWhole
    BY DEF ReplyInv, Replies, ReplyIsWhole, OpeningOnce, Opened, Again
  <1>2. QED
    BY <1>1, ReplyInvHolds, PTL
==============================================================================
