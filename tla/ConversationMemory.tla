------------------------- MODULE ConversationMemory -------------------------
(***************************************************************************)
(* What the server remembers of one conversation, under a key that several *)
(* connections may share (src/internal/voicews/session.go): each response  *)
(* reads the memory before it answers and adds its turn when it completes, *)
(* with a time it has read before it has the lock, and with the limits of  *)
(* its own connection.                                                     *)
(*                                                                         *)
(* A turn is known by its place among all the turns ever added.  Its text  *)
(* counts only by its size; a line of the summary has size one.            *)
(***************************************************************************)
EXTENDS Integers, Sequences, SequencesExt, FiniteSetsExt

CONSTANTS
  Responses,   \* responses that run at the same time, on any connection
  Limits,      \* the conversationOptions their connections have
  MaxTurns,    \* bound: turns added
  MaxSize,     \* bound: size of a turn
  MaxTime      \* bound: the clock

Option == [idle : Nat \ {0}, recent : Nat \ {0}, threshold : Nat,
           lines : Nat, budget : Int]

ASSUME MemoryAssumption ==
  /\ MaxTurns \in Nat /\ MaxSize \in Nat \ {0} /\ MaxTime \in Nat
  /\ Limits \subseteq Option /\ Limits # {} /\ IsFiniteSet(Limits)

Times == 0 .. MaxTime
Turns == 1 .. MaxTurns

VARIABLES
  now,         \* the clock
  summary, turns, last,  \* conversationMemory; last is -1 if never set
  said,        \* every turn ever added: its time and size
  used,        \* the limits of the latest operation
  pc,          \* where each response is
  opts,        \* the limits of its connection
  at,          \* the time it has read
  seen,        \* how much had been said when it read the memory
  prompt       \* the turns its prompt quotes

memoryVars == <<summary, turns, last, used>>
vars == <<now, memoryVars, said, pc, opts, at, seen, prompt>>

(* The memory keeps to the limits of whoever used it last: at most so many *)
(* turns, no more than the threshold unless a single turn is left, and a   *)
(* summary of at most half of the threshold or half of its own limit.  The *)
(* whole of that limit binds only when turns leave: a summary made under a *)
(* larger one stays as it is, but no summary is longer than some           *)
(* connection allows.                                                      *)
Size(log, t) == FoldLeft(LAMBDA n, i : n + log[i].size, 0, t)

MemoryIsBounded ==
  /\ Len(turns) <= used.recent
  /\ Len(turns) > 1 => Len(summary) + Size(said, turns) <= used.threshold
  /\ \E limit \in {used.threshold, used.lines} : Len(summary) <= limit \div 2
  /\ \E o \in Limits : Len(summary) <= o.lines

TypeOK ==
  /\ now \in Times /\ last \in Times \cup {-1}
  /\ summary \in Seq(Turns) /\ turns \in Seq(Turns)
  /\ said \in Seq([at : Times, size : 1 .. MaxSize])
  /\ Len(said) <= MaxTurns /\ used \in Limits
  /\ pc \in [Responses -> {"idle", "reading", "answering", "adding"}]
  /\ opts \in [Responses -> Limits] /\ at \in [Responses -> Times]
  /\ seen \in [Responses -> 0 .. MaxTurns]
  /\ prompt \in [Responses -> SUBSET Turns]
  /\ MemoryIsBounded

Init ==
  /\ now = 0 /\ summary = <<>> /\ turns = <<>> /\ last = -1 /\ said = <<>>
  /\ used \in Limits
  /\ pc = [r \in Responses |-> "idle"] /\ opts \in [Responses -> Limits]
  /\ at = [r \in Responses |-> 0]
  /\ seen = [r \in Responses |-> 0]
  /\ prompt = [r \in Responses |-> {}]
-----------------------------------------------------------------------------
(***************************************************************************)
(* Compression.  s and t are a summary and the turns after it, log is what *)
(* has been said.                                                          *)
(***************************************************************************)
(* mergeConversationSummary, which is called only with turns that leave:   *)
(* what is too long is cut at its end.                                     *)
Merge(s, t, o) ==
  IF t = <<>> THEN s
  ELSE LET all == s \o t IN SubSeq(all, 1, Min({Len(all), o.lines}))

(* The turns that leave: those beyond the limit, then one by one until the *)
(* estimate is low enough or one turn is left.                             *)
Fits(log, s, t, k, o) ==
  /\ Len(t) - k <= o.recent
  /\ \/ Len(t) - k <= 1
     \/ Len(Merge(s, SubSeq(t, 1, k), o))
          + Size(log, SubSeq(t, k + 1, Len(t))) <= o.threshold

Leaving_Slip(log, s, t, o) == Max({0, Len(t) - o.recent})
Leaving(log, s, t, o) ==
  Min({k \in 0 .. Len(t) : Fits(log, s, t, k, o)})

(* A summary that takes half of the threshold is cut to half its limit.    *)
Shortened(s, o) ==
  IF Len(s) > o.threshold \div 2
  THEN SubSeq(s, 1, Min({Len(s), o.lines \div 2})) ELSE s

Compressed_Slip(log, s, t, o) ==
  LET k == Leaving(log, s, t, o) IN
  [summary |-> Shortened(Merge(s, SubSeq(t, 1, k), o), o),
   turns   |-> SubSeq(t, 1, Len(t) - k)]

Compressed(log, s, t, o) ==
  LET k == Leaving(log, s, t, o) IN
  [summary |-> Shortened(Merge(s, SubSeq(t, 1, k), o), o),
   turns   |-> SubSeq(t, k + 1, Len(t))]

Remember(log, s, t, o) ==
  LET c == Compressed(log, s, t, o) IN
  /\ summary' = c.summary /\ turns' = c.turns /\ used' = o
-----------------------------------------------------------------------------
Idle(time, o) == last # -1 /\ time - last > o.idle

(* conversationContextMessages, from the newest turn to the oldest; a turn *)
(* that does not fit is passed over.  cost[i] is what the summary and the  *)
(* turns from i on take.                                                   *)
Quoted(log, s, t, o) ==
  LET summed == IF Len(s) <= o.budget THEN Len(s) ELSE 0
      cost[i \in 1 .. Len(t) + 1] ==
        IF i > Len(t) THEN summed
        ELSE LET rest == cost[i + 1]
                 more == rest + log[t[i]].size
             IN IF more > o.budget THEN rest ELSE more
  IN IF o.budget <= 0 THEN {}
     ELSE ToSet(IF Len(s) <= o.budget THEN s ELSE <<>>)
          \cup {t[i] : i \in {j \in 1 .. Len(t) : cost[j] # cost[j + 1]}}

(* A response begins: it reads the clock, and then waits for the lock.     *)
Begin(r) ==
  /\ pc[r] = "idle"
  /\ pc' = [pc EXCEPT ![r] = "reading"]
  /\ at' = [at EXCEPT ![r] = now]
  /\ UNCHANGED <<now, memoryVars, said, opts, seen, prompt>>

Snapshot(r) ==
  /\ pc[r] = "reading"
  /\ LET o == opts[r]
         idle == Idle(at[r], o)
     IN /\ Remember(said, IF idle THEN <<>> ELSE summary,
                          IF idle THEN <<>> ELSE turns, o)
        /\ seen' = [seen EXCEPT ![r] = Len(said)]
        /\ prompt' = [prompt EXCEPT ![r] = Quoted(said, summary', turns', o)]
  /\ pc' = [pc EXCEPT ![r] = "answering"]
  /\ UNCHANGED <<now, last, said, opts, at>>

(* It has failed, was cancelled, or has no words to remember.              *)
Ends(r) ==
  /\ pc' = [pc EXCEPT ![r] = "idle"]
  /\ at' = [at EXCEPT ![r] = 0]
  /\ seen' = [seen EXCEPT ![r] = 0]
  /\ prompt' = [prompt EXCEPT ![r] = {}]

EndUnremembered(r) ==
  /\ pc[r] = "answering"
  /\ Ends(r)
  /\ UNCHANGED <<now, memoryVars, said, opts>>

(* rememberConversationTurn reads the clock.                               *)
Complete(r) ==
  /\ pc[r] = "answering"
  /\ pc' = [pc EXCEPT ![r] = "adding"]
  /\ at' = [at EXCEPT ![r] = now]
  /\ seen' = [seen EXCEPT ![r] = 0]
  /\ prompt' = [prompt EXCEPT ![r] = {}]
  /\ UNCHANGED <<now, memoryVars, said, opts>>

(* The conversation is kept over the addition of a turn, or begins anew.   *)
Kept_Slip(r) == [summary |-> summary, turns |-> turns]
Kept(r) ==
  IF Idle(at[r], opts[r]) THEN [summary |-> <<>>, turns |-> <<>>]
  ELSE [summary |-> summary, turns |-> turns]

Add(r, size) ==
  /\ pc[r] = "adding" /\ Len(said) < MaxTurns
  /\ said' = Append(said, [at |-> at[r], size |-> size])
  /\ Remember(said', Kept(r).summary, Append(Kept(r).turns, Len(said')), opts[r])
  /\ last' = at[r]
  /\ Ends(r)
  /\ UNCHANGED <<now, opts>>

Tick ==
  /\ now < MaxTime
  /\ now' = now + 1
  /\ UNCHANGED <<memoryVars, said, pc, opts, at, seen, prompt>>

Next ==
  \/ \E r \in Responses :
       \/ Begin(r) \/ Snapshot(r) \/ EndUnremembered(r) \/ Complete(r)
       \/ \E size \in 1 .. MaxSize : Add(r, size)
  \/ Tick

Spec == Init /\ [][Next]_vars
-----------------------------------------------------------------------------
(* The memory is the conversation in order: the turns it holds are the     *)
(* latest ones, without a gap and never given up altogether; what the      *)
(* summary still says is older, with no turn both in the summary and       *)
(* quoted in full.                                                         *)
MemoryInOrder ==
  /\ \A i \in 1 .. Len(turns) : turns[i] = Len(said) - Len(turns) + i
  /\ turns = <<>> => summary = <<>>
  /\ \A i, j \in 1 .. Len(summary \o turns) :
       i < j => (summary \o turns)[i] < (summary \o turns)[j]

(* A prompt never quotes what was said before a pause: between a turn it   *)
(* quotes and the next one, and so on up to the time the response began,   *)
(* no two are further apart than the longest idle timeout, whichever       *)
(* responses overlapped.                                                   *)
LongestIdle == Max({o.idle : o \in Limits})

PromptHasNoPause ==
  \A r \in Responses : \A t \in prompt[r] : \A i \in t .. seen[r] :
    LET next == IF i = seen[r] THEN at[r] ELSE said[i + 1].at IN
    next - said[i].at <= LongestIdle
=============================================================================
