------------------------ MODULE GatewaySessionProofs ------------------------
(***************************************************************************)
(* Proofs about GatewaySession for every number of openings, frames and    *)
(* replies: what a turn is given, what the two directions promise, and the *)
(* types, with the count of what is owed to the device.                    *)
(*                                                                         *)
(* The server sees ids and counts only; that they suffice rests on the     *)
(* order of what is under way.  The argument therefore gives every message *)
(* the place of the device when it was sent (a mark), and relates what the *)
(* server holds to the mark of the message it has read last.               *)
(***************************************************************************)
EXTENDS GatewaySession, WellFoundedInduction, TLAPS

(* The place of a device: the opening it is in, the frames sent of it, and *)
(* whether it has not stopped it.                                          *)
Mark == {m \in [o : 0 .. MaxOpenings, k : 0 .. MaxFrames, open : BOOLEAN] :
           m.open => m.o > 0}

(* Message m takes the device from the place p to the place q.             *)
Continues(p, m, q) ==
  \/ /\ m.kind = "start" /\ m.id \in Streams
     /\ q = [o |-> p.o + 1, k |-> 0, open |-> TRUE]
  \/ /\ m.kind = "frame" /\ p.open
     /\ q = [o |-> p.o, k |-> p.k + 1, open |-> TRUE]
     /\ m.frame = <<q.o, q.k>>
  \/ /\ m.kind = "stop" /\ p.open
     /\ m.id \in Streams /\ m.last = p.k
     /\ q = [o |-> p.o, k |-> p.k, open |-> FALSE]
  \/ /\ m.kind \in {"hello", "ping", "other", "close"}
     /\ q = p

Chain(marks, u) ==
  /\ marks \in [0 .. Len(u) -> Mark]
  /\ \A i \in 1 .. Len(u) : Continues(marks[i - 1], u[i], marks[i])

(* A stopped opening is as long as its mark says, and stays so.            *)
Past(p) ==
  /\ p.o <= opened
  /\ ~p.open =>
       /\ p.o > 0 => sent[p.o] = p.k
       /\ p.o = opened => sending = NoStream

(* The device is where its latest message left it, or has forgotten the    *)
(* stream since.                                                           *)
Latest(p) ==
  /\ p.o = opened
  /\ sending # NoStream => p.open /\ p.k = sent[opened]

DeviceInv ==
  /\ opened \in 0 .. MaxOpenings
  /\ sending \in Streams \cup {NoStream}
  /\ sent \in [Openings -> 0 .. MaxFrames]
  /\ \A o \in Openings : o > opened => sent[o] = 0
  /\ up \in Seq(Up)

ServerType ==
  /\ stream \in Streams \cup {NoStream}
  /\ tracker \in Streams \cup {NoStream}
  /\ count \in Nat
  /\ audio \in Seq(Frames)
  /\ turns \in Seq(Seq(Frames))

(* What the server has of the open stream ends with all frames sent of the *)
(* opening the device was in; and what came before it would be counted.    *)
Holds(p) ==
  tracker # NoStream =>
    /\ p.open /\ stream # NoStream
    /\ count = Len(audio) /\ p.k <= count
    /\ \A j \in 1 .. p.k : audio[count - p.k + j] = <<p.o, j>>

(* A stream is open exactly while the loop may add to it.                  *)
Serves ==
  /\ pc \in Turn => tracker = NoStream
  /\ pc \notin Turn \ {"failed"} => (stream # NoStream <=> tracker # NoStream)

(* A turn's frames are the whole of an opening that was stopped before p.  *)
TakenFrom(p, frames) ==
  \/ frames = <<>>
  \/ \E o \in Openings :
       /\ o <= p.o /\ (o = p.o => ~p.open)
       /\ frames = [i \in 1 .. sent[o] |-> <<o, i>>]

Taken(p) ==
  /\ \A t \in DOMAIN turns : TakenFrom(p, turns[t])
  /\ \A t, u \in DOMAIN turns :
       turns[t] = turns[u] /\ turns[t] # <<>> => t = u

(* Turns are no more than openings, replies no more than turns.            *)
Counted(p) == Len(turns) <= IF p.open THEN p.o - 1 ELSE p.o

Server(p) == Holds(p) /\ Taken(p) /\ Counted(p)

Marked(marks) ==
  /\ Chain(marks, up)
  /\ \A i \in 0 .. Len(up) : Past(marks[i])
  /\ Latest(marks[Len(up)])
  /\ Server(marks[0])

UpInv ==
  /\ DeviceInv /\ ServerType /\ Serves
  /\ \E marks \in [0 .. Len(up) -> Mark] : Marked(marks)
-----------------------------------------------------------------------------
(* A message sent after others adds its mark to theirs.                    *)
LEMMA AppendChain ==
  ASSUME NEW u \in Seq(Up), NEW m \in Up, NEW marks, Chain(marks, u),
         NEW q \in Mark, Continues(marks[Len(u)], m, q)
  PROVE  \E longer :
           /\ Chain(longer, Append(u, m))
           /\ longer[0] = marks[0] /\ longer[Len(u) + 1] = q
           /\ \A i \in 0 .. Len(u) : longer[i] = marks[i]
  <1> DEFINE n == Len(u)
             longer == [i \in 0 .. n + 1 |-> IF i = n + 1 THEN q ELSE marks[i]]
  <1>1. n \in Nat /\ Len(Append(u, m)) = n + 1
    OBVIOUS
  <1>2. marks \in [0 .. n -> Mark]
    BY DEF Chain
  <1>3. longer \in [0 .. n + 1 -> Mark]
    BY <1>1, <1>2
  <1>4. \A i \in 0 .. n : longer[i] = marks[i]
    BY <1>1
  <1>5. longer[n + 1] = q
    BY <1>1
  <1>6. \A i \in 1 .. n + 1 : Continues(longer[i - 1], Append(u, m)[i], longer[i])
    <2> SUFFICES ASSUME NEW i \in 1 .. n + 1
                 PROVE  Continues(longer[i - 1], Append(u, m)[i], longer[i])
      OBVIOUS
    <2>1. CASE i = n + 1
      <3>1. Append(u, m)[i] = m /\ longer[i - 1] = marks[n] /\ longer[i] = q
        BY <1>1, <1>4, <1>5, <2>1
      <3>2. QED
        BY <3>1
    <2>2. CASE i # n + 1
      <3>1. i \in 1 .. n /\ i - 1 \in 0 .. n /\ i \in 0 .. n
        BY <1>1, <2>2
      <3>2. Append(u, m)[i] = u[i]
        BY <3>1
      <3>3. Continues(marks[i - 1], u[i], marks[i])
        BY <3>1 DEF Chain
      <3>4. QED
        BY <1>4, <3>1, <3>2, <3>3
    <2>3. QED
      BY <2>1, <2>2
  <1>7. Chain(longer, Append(u, m))
    BY <1>1, <1>3, <1>6 DEF Chain
  <1>8. longer[0] = marks[0]
    BY <1>1, <1>4
  <1> HIDE DEF longer
  <1>9. QED
    BY <1>1, <1>4, <1>5, <1>7, <1>8

(* Once the first message is read, its mark is the one the rest goes from. *)
LEMMA TailChain ==
  ASSUME NEW u \in Seq(Up), u # <<>>, NEW marks, Chain(marks, u)
  PROVE  \E rest :
           /\ Chain(rest, Tail(u))
           /\ Continues(marks[0], Head(u), rest[0])
           /\ rest[Len(Tail(u))] = marks[Len(u)]
           /\ \A i \in 0 .. Len(Tail(u)) : rest[i] = marks[i + 1]
  <1> DEFINE n == Len(u)
             rest == [i \in 0 .. n - 1 |-> marks[i + 1]]
  <1>1. n \in Nat \ {0} /\ Len(Tail(u)) = n - 1
    OBVIOUS
  <1>2. marks \in [0 .. n -> Mark]
    BY DEF Chain
  <1>3. rest \in [0 .. n - 1 -> Mark]
    BY <1>1, <1>2
  <1>4. \A i \in 0 .. n - 1 : rest[i] = marks[i + 1]
    OBVIOUS
  <1>5. \A i \in 1 .. n - 1 : Continues(rest[i - 1], Tail(u)[i], rest[i])
    <2> SUFFICES ASSUME NEW i \in 1 .. n - 1
                 PROVE  Continues(rest[i - 1], Tail(u)[i], rest[i])
      OBVIOUS
    <2>1. Tail(u)[i] = u[i + 1]
      BY <1>1
    <2>2. rest[i - 1] = marks[i] /\ rest[i] = marks[i + 1]
      BY <1>1, <1>4
    <2>3. i + 1 \in 1 .. n /\ (i + 1) - 1 = i
      BY <1>1
    <2>4. Continues(marks[(i + 1) - 1], u[i + 1], marks[i + 1])
      BY <2>3 DEF Chain
    <2>5. QED
      BY <2>1, <2>2, <2>3, <2>4
  <1>6. Chain(rest, Tail(u))
    BY <1>1, <1>3, <1>5 DEF Chain
  <1>7. Continues(marks[0], Head(u), rest[0])
    <2>1. Continues(marks[1 - 1], u[1], marks[1])
      BY <1>1 DEF Chain
    <2>2. rest[0] = marks[1] /\ Head(u) = u[1] /\ 1 - 1 = 0
      BY <1>1, <1>4
    <2>3. QED
      BY <2>1, <2>2
  <1>8. rest[n - 1] = marks[n]
    BY <1>1, <1>4
  <1> HIDE DEF rest
  <1>9. QED
    BY <1>1, <1>4, <1>6, <1>7, <1>8
-----------------------------------------------------------------------------
LEMMA InitUp == Init => UpInv
  <1> SUFFICES ASSUME Init PROVE UpInv
    OBVIOUS
  <1> USE GatewayAssumption DEF Init
  <1> DEFINE first == [o |-> 0, k |-> 0, open |-> FALSE]
             marks == [i \in {0} |-> first]
  <1>1. first \in Mark
    BY DEF Mark
  <1>2. DeviceInv /\ ServerType /\ Serves
    BY DEF DeviceInv, ServerType, Serves, Openings, Turn
  <1>3. Len(up) = 0 /\ 0 .. 0 = {0} /\ 1 .. 0 = {}
    OBVIOUS
  <1>4. marks \in [0 .. Len(up) -> Mark] /\ marks[0] = first
    BY <1>1, <1>3
  <1>5. Chain(marks, up)
    BY <1>3, <1>4 DEF Chain
  <1>6. Past(first) /\ Latest(first)
    BY DEF Past, Latest
  <1>7. Server(first)
    BY DEF Server, Holds, Taken, Counted
  <1> HIDE DEF marks, first
  <1>8. Marked(marks)
    BY <1>3, <1>4, <1>5, <1>6, <1>7 DEF Marked
  <1>9. QED
    BY <1>2, <1>4, <1>8 DEF UpInv

(* What the device may do to its own record: a stopped or forgotten        *)
(* opening keeps its length, and stays stopped.                            *)
Grows ==
  /\ opened' \in Nat /\ opened <= opened'
  /\ \A o \in Openings : sent'[o] # sent[o] => o = opened /\ sending # NoStream
  /\ opened' = opened /\ sending' # NoStream => sending # NoStream

LEMMA GrowingKeeps ==
  ASSUME DeviceInv, Grows, NEW p \in Mark, Past(p)
  PROVE  /\ Past(p)'
         /\ UNCHANGED turns /\ Taken(p) => Taken(p)'
  <1> USE GatewayAssumption
  <1>1. p.o \in 0 .. MaxOpenings /\ p.o <= opened /\ opened \in Nat
    BY DEF Mark, Past, DeviceInv
  <1>2. \A o \in Openings : o <= p.o /\ (o = p.o => ~p.open) => sent'[o] = sent[o]
    <2> SUFFICES ASSUME NEW o \in Openings, o <= p.o, o = p.o => ~p.open,
                        sent'[o] # sent[o]
                 PROVE  FALSE
      OBVIOUS
    <2>1. o = opened /\ sending # NoStream
      BY DEF Grows
    <2>2. o = p.o
      BY <1>1, <2>1 DEF Openings
    <2>3. QED
      BY <2>1, <2>2 DEF Past
  <1>3. Past(p)'
    <2>1. p.o <= opened'
      BY <1>1 DEF Grows
    <2>2. ASSUME ~p.open, p.o > 0 PROVE sent'[p.o] = p.k
      <3>1. p.o \in Openings
        BY <1>1, <2>2 DEF Openings
      <3>2. QED
        BY <1>1, <1>2, <2>2, <3>1 DEF Past
    <2>3. ASSUME ~p.open, p.o = opened' PROVE sending' = NoStream
      <3>1. opened' = opened
        BY <1>1, <2>3 DEF Grows
      <3>2. sending = NoStream
        BY <2>3, <3>1 DEF Past
      <3>3. QED
        BY <3>1, <3>2 DEF Grows
    <2>4. QED
      BY <2>1, <2>2, <2>3 DEF Past
  <1>4. ASSUME UNCHANGED turns, Taken(p) PROVE Taken(p)'
    <2>1. \A t \in DOMAIN turns : TakenFrom(p, turns[t])'
      <3> SUFFICES ASSUME NEW t \in DOMAIN turns PROVE TakenFrom(p, turns[t])'
        OBVIOUS
      <3>1. TakenFrom(p, turns[t])
        BY <1>4 DEF Taken
      <3>2. QED
        BY <1>2, <1>4, <3>1 DEF TakenFrom
    <2>2. QED
      BY <1>4, <2>1 DEF Taken
  <1>5. QED
    BY <1>3, <1>4

(* A message is sent and the server has not moved.                         *)
LEMMA SendKeeps ==
  ASSUME UpInv, NEW m \in Up, up' = Append(up, m),
         Grows, DeviceInv', UNCHANGED <<pc, streamVars>>,
         \A p \in Mark : Past(p) /\ Latest(p) =>
           \E q \in Mark : Continues(p, m, q) /\ Past(q)' /\ Latest(q)'
  PROVE  UpInv'
  <1> PICK marks \in [0 .. Len(up) -> Mark] : Marked(marks)
    BY DEF UpInv
  <1> DEFINE n == Len(up)
  <1>1. up \in Seq(Up) /\ n \in Nat /\ Len(up') = n + 1 /\ DeviceInv
    BY DEF UpInv, DeviceInv
  <1>2. marks[n] \in Mark /\ Past(marks[n]) /\ Latest(marks[n])
    BY <1>1 DEF Marked
  <1>3. PICK q \in Mark : Continues(marks[n], m, q) /\ Past(q)' /\ Latest(q)'
    BY <1>2
  <1>4. PICK longer : /\ Chain(longer, Append(up, m))
                      /\ longer[0] = marks[0] /\ longer[n + 1] = q
                      /\ \A i \in 0 .. n : longer[i] = marks[i]
    BY <1>1, <1>3, AppendChain DEF Marked
  <1>5. Chain(longer, up') /\ longer \in [0 .. Len(up') -> Mark]
    BY <1>4 DEF Chain
  <1>6. \A i \in 0 .. n : Past(marks[i])'
    BY <1>1, GrowingKeeps DEF Marked
  <1>7. \A i \in 0 .. n + 1 : Past(longer[i])'
    BY <1>1, <1>3, <1>4, <1>6
  <1>8. Server(marks[0])'
    <2>1. marks[0] \in Mark /\ Past(marks[0]) /\ Server(marks[0])
      BY <1>1 DEF Marked
    <2>2. Taken(marks[0])'
      BY <1>1, <2>1, GrowingKeeps DEF Server, streamVars
    <2>3. Holds(marks[0])' /\ Counted(marks[0])'
      BY <2>1 DEF Server, Holds, Counted, streamVars
    <2>4. QED
      BY <2>2, <2>3 DEF Server
  <1>9. Marked(longer)'
    BY <1>1, <1>3, <1>4, <1>5, <1>7, <1>8 DEF Marked
  <1>10. ServerType' /\ Serves'
    BY DEF UpInv, ServerType, Serves, streamVars
  <1>11. QED
    BY <1>5, <1>9, <1>10 DEF UpInv

(* Nothing is sent or read.                                                *)
LEMMA StillKeeps ==
  ASSUME UpInv, up' = up, Grows, DeviceInv', ServerType', Serves',
         \A p \in Mark : Past(p) /\ Latest(p) => Latest(p)',
         \A p \in Mark : Past(p) /\ Server(p) => Server(p)'
  PROVE  UpInv'
  <1> PICK marks \in [0 .. Len(up) -> Mark] : Marked(marks)
    BY DEF UpInv
  <1>1. up \in Seq(Up) /\ Len(up) \in Nat /\ DeviceInv
    BY DEF UpInv, DeviceInv
  <1>2. \A i \in 0 .. Len(up) : Past(marks[i])'
    BY <1>1, GrowingKeeps DEF Marked
  <1>3. marks[Len(up)] \in Mark /\ Past(marks[Len(up)]) /\ Latest(marks[Len(up)])
    BY <1>1 DEF Marked
  <1>4. marks[0] \in Mark /\ Past(marks[0]) /\ Server(marks[0])
    BY <1>1 DEF Marked
  <1>5. Chain(marks, up)
    BY DEF Marked
  <1>6. Marked(marks)'
    BY <1>2, <1>3, <1>4, <1>5 DEF Marked
  <1>7. QED
    BY <1>6 DEF UpInv

(* The server reads the first message.                                     *)
LEMMA ReadKeeps ==
  ASSUME UpInv, up # <<>>, up' = Tail(up), UNCHANGED deviceVars, Serves',
         \A p, q \in Mark :
           Continues(p, Head(up), q) /\ Past(q) /\ Server(p)
             => ServerType' /\ Server(q)'
  PROVE  UpInv'
  <1> PICK marks \in [0 .. Len(up) -> Mark] : Marked(marks)
    BY DEF UpInv
  <1> DEFINE n == Len(up)
  <1>1. up \in Seq(Up) /\ n \in Nat \ {0} /\ Len(up') = n - 1
    BY DEF UpInv, DeviceInv
  <1>2. PICK rest : /\ Chain(rest, up')
                    /\ Continues(marks[0], Head(up), rest[0])
                    /\ rest[Len(up')] = marks[n]
                    /\ \A i \in 0 .. Len(up') : rest[i] = marks[i + 1]
    BY <1>1, TailChain DEF Marked
  <1>3. rest \in [0 .. Len(up') -> Mark]
    BY <1>2 DEF Chain
  <1>4. \A i \in 0 .. n : Past(marks[i])'
    BY DEF Marked, Past, deviceVars
  <1>5. \A i \in 0 .. Len(up') : Past(rest[i])'
    <2> SUFFICES ASSUME NEW i \in 0 .. Len(up') PROVE Past(rest[i])'
      OBVIOUS
    <2>1. i + 1 \in 0 .. n
      BY <1>1
    <2>2. QED
      BY <1>2, <1>4, <2>1
  <1>6. Latest(rest[Len(up)])'
    BY <1>2 DEF Marked, Latest, deviceVars
  <1>7. ServerType' /\ Server(rest[0])'
    <2>1. marks[0] \in Mark /\ rest[0] \in Mark /\ Server(marks[0])
      BY <1>1, <1>3 DEF Marked
    <2>2. Past(rest[0])
      BY <1>1, <1>2 DEF Marked
    <2>3. QED
      BY <1>2, <2>1, <2>2
  <1>8. DeviceInv'
    BY <1>1 DEF UpInv, DeviceInv, deviceVars
  <1>9. Marked(rest)'
    BY <1>2, <1>5, <1>6, <1>7 DEF Marked
  <1>10. QED
    BY <1>3, <1>7, <1>8, <1>9 DEF UpInv
-----------------------------------------------------------------------------
LEMMA DeviceKeeps == UpInv /\ DeviceSends => UpInv'
  <1> SUFFICES ASSUME UpInv, DeviceSends PROVE UpInv'
    OBVIOUS
  <1> USE GatewayAssumption
  <1>1. DeviceInv /\ ServerType /\ Serves
    BY DEF UpInv
  <1>2. ASSUME NEW id \in Streams, SendStart(id) PROVE UpInv'
    <2> PICK m \in Up : m = [kind |-> "start", id |-> id, frame |-> <<>>, last |-> 0]
      <3>1. [kind |-> "start", id |-> id, frame |-> <<>>, last |-> 0] \in Up
        BY DEF Up, UpKinds
      <3>2. QED
        BY <3>1
    <2>1. up' = Append(up, m) /\ UNCHANGED <<pc, streamVars>>
      BY <1>2 DEF SendStart, Send
    <2>2. /\ opened' = opened + 1 /\ opened' \in Openings /\ opened \in Nat
          /\ sending' = id /\ sending = NoStream /\ UNCHANGED sent
      BY <1>1, <1>2 DEF SendStart, DeviceInv, Openings
    <2>3. DeviceInv' /\ Grows
      BY <1>1, <2>1, <2>2 DEF DeviceInv, Openings, Grows
    <2> PICK q \in Mark : q = [o |-> opened + 1, k |-> 0, open |-> TRUE]
      <3>1. [o |-> opened + 1, k |-> 0, open |-> TRUE] \in Mark
        BY <2>2 DEF Mark, Openings
      <3>2. QED
        BY <3>1
    <2>4. Past(q)' /\ Latest(q)'
      BY <1>1, <2>2 DEF Past, Latest, DeviceInv, Openings
    <2>5. \A p \in Mark : Latest(p) => Continues(p, m, q)
      BY DEF Continues, Latest
    <2>6. QED
      BY <2>1, <2>3, <2>4, <2>5, SendKeeps
  <1>3. ASSUME SendFrame PROVE UpInv'
    <2>1. /\ UNCHANGED <<pc, streamVars, opened, sending>>
          /\ sending # NoStream /\ sent[opened] < MaxFrames
          /\ sent' = [sent EXCEPT ![opened] = @ + 1]
      BY <1>3 DEF SendFrame, Send
    <2>2. opened \in Openings
      <3> PICK marks \in [0 .. Len(up) -> Mark] : Marked(marks)
        BY DEF UpInv
      <3>1. marks[Len(up)] \in Mark /\ Latest(marks[Len(up)])
        BY <1>1 DEF Marked, DeviceInv
      <3>2. QED
        BY <2>1, <3>1 DEF Latest, Mark, Openings
    <2>3. /\ sent[opened] \in 0 .. MaxFrames /\ sent[opened] + 1 \in 1 .. MaxFrames
          /\ sent'[opened] = sent[opened] + 1
          /\ \A o \in Openings : o # opened => sent'[o] = sent[o]
      BY <1>1, <2>1, <2>2 DEF DeviceInv
    <2> PICK m \in Up : m = [kind |-> "frame", id |-> NoStream,
                             frame |-> <<opened, sent[opened] + 1>>, last |-> 0]
      <3>1. [kind |-> "frame", id |-> NoStream,
            frame |-> <<opened, sent[opened] + 1>>, last |-> 0] \in Up
        BY <2>2, <2>3 DEF Up, UpKinds, Frames
      <3>2. QED
        BY <3>1
    <2> PICK q \in Mark : q = [o |-> opened, k |-> sent[opened] + 1, open |-> TRUE]
      <3>1. [o |-> opened, k |-> sent[opened] + 1, open |-> TRUE] \in Mark
        BY <2>2, <2>3 DEF Mark, Openings
      <3>2. QED
        BY <3>1
    <2>4. up' = Append(up, m)
      BY <1>3 DEF SendFrame, Send
    <2>5. DeviceInv' /\ Grows
      <3>1. sent' \in [Openings -> 0 .. MaxFrames]
        BY <1>1, <2>1, <2>3 DEF DeviceInv
      <3>2. \A o \in Openings : o > opened => sent'[o] = 0
        BY <1>1, <2>2, <2>3 DEF DeviceInv, Openings
      <3>3. QED
        BY <1>1, <2>1, <2>3, <2>4, <3>1, <3>2 DEF DeviceInv, Grows
    <2>6. Past(q)' /\ Latest(q)'
      BY <2>1, <2>2, <2>3 DEF Past, Latest, Openings
    <2>7. \A p \in Mark : Latest(p) => Continues(p, m, q)
      BY <2>1 DEF Continues, Latest
    <2>8. QED
      BY <2>1, <2>4, <2>5, <2>6, <2>7, SendKeeps
  <1>4. ASSUME SendStop PROVE UpInv'
    <2>1. /\ UNCHANGED <<pc, streamVars, opened, sent>>
          /\ sending \in Streams /\ sending # NoStream /\ sending' = NoStream
      BY <1>1, <1>4 DEF SendStop, Send, DeviceInv
    <2>2. opened \in Openings
      <3> PICK marks \in [0 .. Len(up) -> Mark] : Marked(marks)
        BY DEF UpInv
      <3>1. marks[Len(up)] \in Mark /\ Latest(marks[Len(up)])
        BY <1>1 DEF Marked, DeviceInv
      <3>2. QED
        BY <2>1, <3>1 DEF Latest, Mark, Openings
    <2>3. sent[opened] \in 0 .. MaxFrames
      BY <1>1, <2>2 DEF DeviceInv
    <2> PICK m \in Up : m = [kind |-> "stop", id |-> sending, frame |-> <<>>,
                             last |-> sent[opened]]
      <3>1. [kind |-> "stop", id |-> sending, frame |-> <<>>,
            last |-> sent[opened]] \in Up
        BY <2>1, <2>3 DEF Up, UpKinds
      <3>2. QED
        BY <3>1
    <2> PICK q \in Mark : q = [o |-> opened, k |-> sent[opened], open |-> FALSE]
      <3>1. [o |-> opened, k |-> sent[opened], open |-> FALSE] \in Mark
        BY <2>2, <2>3 DEF Mark, Openings
      <3>2. QED
        BY <3>1
    <2>4. up' = Append(up, m)
      BY <1>4 DEF SendStop, Send
    <2>5. DeviceInv' /\ Grows
      BY <1>1, <2>1, <2>4 DEF DeviceInv, Grows
    <2>6. Past(q)' /\ Latest(q)'
      BY <2>1, <2>2, <2>3 DEF Past, Latest, Openings
    <2>7. \A p \in Mark : Latest(p) => Continues(p, m, q)
      BY <2>1 DEF Continues, Latest
    <2>8. QED
      BY <2>1, <2>4, <2>5, <2>6, <2>7, SendKeeps
  <1>5. ASSUME NEW kind \in {"hello", "ping", "other", "close"}, SendOther(kind)
        PROVE  UpInv'
    <2> PICK m \in Up : m = [kind |-> kind, id |-> NoStream, frame |-> <<>>, last |-> 0]
      <3>1. [kind |-> kind, id |-> NoStream, frame |-> <<>>, last |-> 0] \in Up
        BY DEF Up, UpKinds
      <3>2. QED
        BY <3>1
    <2>1. /\ up' = Append(up, m)
          /\ UNCHANGED <<pc, streamVars, opened, sending, sent>>
      BY <1>5 DEF SendOther, Send
    <2>3. DeviceInv' /\ Grows
      BY <1>1, <2>1 DEF DeviceInv, Grows
    <2>4. \A p \in Mark : Past(p) /\ Latest(p) =>
            Continues(p, m, p) /\ Past(p)' /\ Latest(p)'
      BY <2>1 DEF Continues, Past, Latest
    <2>5. QED
      BY <2>1, <2>3, <2>4, SendKeeps
  <1>6. ASSUME Forget \/ LoseLink PROVE UpInv'
    <2>1. /\ UNCHANGED <<up, opened, sent, pc, streamVars>>
          /\ sending' \in {sending, NoStream}
      BY <1>6 DEF Forget, LoseLink, deviceVars
    <2>2. DeviceInv' /\ ServerType' /\ Serves'
      BY <1>1, <2>1 DEF DeviceInv, ServerType, Serves, streamVars
    <2>3. Grows
      BY <1>1, <2>1 DEF DeviceInv, Grows
    <2>4. \A p \in Mark : Latest(p) => Latest(p)'
      BY <2>1 DEF Latest
    <2>5. \A p \in Mark : Server(p) => Server(p)'
      <3> SUFFICES ASSUME NEW p \in Mark, Server(p) PROVE Server(p)'
        OBVIOUS
      <3>1. Holds(p)' /\ Counted(p)'
        BY <2>1 DEF Server, Holds, Counted, streamVars
      <3>2. Taken(p)'
        BY <2>1 DEF Server, Taken, TakenFrom, streamVars
      <3>3. QED
        BY <3>1, <3>2 DEF Server
    <2>6. QED
      BY <2>1, <2>2, <2>3, <2>4, <2>5, StillKeeps
  <1>7. QED
    BY <1>2, <1>3, <1>4, <1>5, <1>6 DEF DeviceSends

(* Steps that leave alone what the device has sent and what came of it.    *)
LEMMA ElsewhereKeeps ==
  ASSUME UpInv,
         UNCHANGED <<up, deviceVars, stream, audio, tracker, count, turns>>, Serves'
  PROVE  UpInv'
  <1>1. DeviceInv /\ ServerType
    BY DEF UpInv
  <1>2. DeviceInv' /\ ServerType' /\ Grows
    BY <1>1, GatewayAssumption DEF DeviceInv, ServerType, Grows, deviceVars
  <1>3. \A p \in Mark : Latest(p) => Latest(p)'
    BY DEF Latest, deviceVars
  <1>4. \A p \in Mark : Server(p) => Server(p)'
    BY DEF Server, Holds, Counted, Taken, TakenFrom, deviceVars
  <1>5. QED
    BY <1>2, <1>3, <1>4, StillKeeps

LEMMA TurnKeeps == UpInv /\ RunTurn => UpInv'
  <1> SUFFICES ASSUME UpInv, RunTurn PROVE UpInv'
    OBVIOUS
  <1> USE GatewayAssumption
  <1>1. DeviceInv /\ ServerType /\ Serves
    BY DEF UpInv
  <1>2. /\ UNCHANGED <<up, deviceVars, turns>> /\ pc \in Turn
        /\ \/ /\ UNCHANGED <<stream, audio, tracker, count>>
              /\ pc' \in Turn \ {"failed"} \/ pc = "failed"
           \/ NewStreamState
    BY DEF RunTurn, Transcribe, ProviderFails, OnASRFinal, OnLLMDelta, ReplyEnds,
           OnLLMDone, OnTTSStart, OnTTSChunk, SpeechEnds, OnTTSStop, OnAction,
           PipelineFailed, At, Goes, SinkFails, TurnFails, Turn
  <1>3. tracker = NoStream
    BY <1>1, <1>2 DEF Serves
  <1>4. CASE UNCHANGED <<stream, audio, tracker, count>>
             /\ (pc' \in Turn \ {"failed"} \/ pc = "failed")
    <2>1. Serves'
      BY <1>1, <1>2, <1>3, <1>4 DEF Serves, Turn
    <2>2. QED
      BY <1>2, <1>4, <2>1, ElsewhereKeeps
  <1>5. CASE NewStreamState
    <2>1. /\ stream' = NoStream /\ audio' = <<>> /\ tracker' = NoStream
          /\ count' = 0
      BY <1>5 DEF NewStreamState
    <2>2. DeviceInv' /\ ServerType' /\ Serves' /\ Grows
      BY <1>1, <1>2, <2>1 DEF DeviceInv, ServerType, Serves, Grows, deviceVars
    <2>3. \A p \in Mark : Latest(p) => Latest(p)'
      BY <1>2 DEF Latest, deviceVars
    <2>4. \A p \in Mark : Server(p) => Server(p)'
      BY <1>2, <2>1 DEF Server, Holds, Counted, Taken, TakenFrom, deviceVars
    <2>5. QED
      BY <1>2, <2>2, <2>3, <2>4, StillKeeps
  <1>6. QED
    BY <1>2, <1>4, <1>5

(* The turns there are stay what they were when the server reads on.       *)
LEMMA TurnsCarry ==
  ASSUME NEW p \in Mark, NEW q \in Mark, NEW m, Continues(p, m, q),
         Taken(p), Counted(p), ServerType, UNCHANGED <<sent, turns>>
  PROVE  Taken(q)' /\ Counted(q)'
  <1> USE GatewayAssumption
  <1>1. /\ p.o \in Nat /\ q.o \in Nat /\ p.o <= q.o
        /\ p.o = q.o /\ q.open => p.open
        /\ p.open /\ p.o = q.o => q.o = p.o
        /\ Len(turns) \in Nat
    BY DEF Continues, Mark, ServerType
  <1>2. \A f : TakenFrom(p, f) => TakenFrom(q, f)
    BY <1>1 DEF TakenFrom, Openings
  <1>3. Taken(q)
    BY <1>2 DEF Taken
  <1>4. Counted(q)
    BY <1>1 DEF Counted, Continues, Mark
  <1>5. QED
    BY <1>3, <1>4 DEF Taken, TakenFrom, Counted
LEMMA ReadsUp ==
  ASSUME NEW kind, ReadFrame(kind), DeviceInv
  PROVE  /\ up # <<>> /\ up' = Tail(up) /\ UNCHANGED deviceVars
         /\ Head(up).kind = kind /\ pc = "read"
  BY DEF ReadFrame

(* A message that concerns no stream.                                      *)
LEMMA PassingKeeps ==
  ASSUME UpInv, NEW kind \in {"hello", "ping", "other", "close"}, ReadFrame(kind),
         UNCHANGED <<stream, audio, tracker, count, turns>>, Serves'
  PROVE  UpInv'
  <1>1. DeviceInv /\ ServerType
    BY DEF UpInv
  <1>2. /\ up # <<>> /\ up' = Tail(up) /\ UNCHANGED deviceVars
        /\ Head(up).kind = kind
    BY <1>1, ReadsUp
  <1>3. \A p, q \in Mark :
          Continues(p, Head(up), q) /\ Past(q) /\ Server(p) => ServerType' /\ Server(q)'
    <2> SUFFICES ASSUME NEW p \in Mark, NEW q \in Mark,
                        Continues(p, Head(up), q), Server(p)
                 PROVE  ServerType' /\ Server(q)'
      OBVIOUS
    <2>1. q = p
      BY <1>2 DEF Continues
    <2>2. ServerType'
      BY <1>1 DEF ServerType
    <2>3. Server(p)'
      BY <1>2 DEF Server, Holds, Counted, Taken, TakenFrom, deviceVars
    <2>4. QED
      BY <2>1, <2>2, <2>3
  <1>4. QED
    BY <1>2, <1>3, ReadKeeps

LEMMA StartKeeps == UpInv /\ ReadStart => UpInv'
  <1> SUFFICES ASSUME UpInv, ReadStart PROVE UpInv'
    OBVIOUS
  <1> USE GatewayAssumption
  <1>1. DeviceInv /\ ServerType /\ Serves
    BY DEF UpInv
  <1>2. /\ up # <<>> /\ up' = Tail(up) /\ UNCHANGED deviceVars
        /\ Head(up).kind = "start" /\ pc = "read"
    BY <1>1, ReadsUp DEF ReadStart
  <1>3. /\ pc' = pc /\ UNCHANGED turns
        /\ \/ /\ tracker' = Head(up).id /\ stream' = Head(up).id
              /\ count' = 0 /\ audio' = <<>>
           \/ /\ stream' = stream /\ tracker' = tracker
              /\ count' = count /\ audio' = audio
    BY DEF ReadStart, ErrorEvent
  <1>4. Serves'
    BY <1>1, <1>2, <1>3 DEF Serves, Turn
  <1>5. \A p, q \in Mark :
          Continues(p, Head(up), q) /\ Past(q) /\ Server(p) => ServerType' /\ Server(q)'
    <2> SUFFICES ASSUME NEW p \in Mark, NEW q \in Mark,
                        Continues(p, Head(up), q), Server(p)
                 PROVE  ServerType' /\ Server(q)'
      OBVIOUS
    <2>1. Head(up).id \in Streams /\ q = [o |-> p.o + 1, k |-> 0, open |-> TRUE]
      BY <1>2 DEF Continues
    <2>2. ServerType'
      <3>1. audio' \in Seq(Frames)
        <4>1. audio \in Seq(Frames) /\ <<>> \in Seq(Frames)
          BY <1>1 DEF ServerType
        <4>2. QED
          BY <1>3, <4>1
      <3>2. count' \in Nat /\ turns' \in Seq(Seq(Frames))
        BY <1>1, <1>3 DEF ServerType
      <3>3. stream' \in Streams \cup {NoStream} /\ tracker' \in Streams \cup {NoStream}
        BY <1>1, <1>3, <2>1 DEF ServerType
      <3>4. QED
        BY <3>1, <3>2, <3>3 DEF ServerType
    <2>3. Holds(q)'
      BY <1>1, <1>3, <2>1 DEF Server, Holds, ServerType
    <2>4. Taken(q)' /\ Counted(q)'
      BY <1>1, <1>2, <1>3, TurnsCarry DEF Server, deviceVars
    <2>5. QED
      BY <2>2, <2>3, <2>4 DEF Server
  <1>6. QED
    BY <1>2, <1>4, <1>5, ReadKeeps

LEMMA BinaryKeeps == UpInv /\ ReadBinary => UpInv'
  <1> SUFFICES ASSUME UpInv, ReadBinary PROVE UpInv'
    OBVIOUS
  <1> USE GatewayAssumption
  <1>1. DeviceInv /\ ServerType /\ Serves
    BY DEF UpInv
  <1>2. /\ up # <<>> /\ up' = Tail(up) /\ UNCHANGED deviceVars
        /\ Head(up).kind = "frame" /\ pc = "read"
    BY <1>1, ReadsUp DEF ReadBinary
  <1>3. /\ pc' = pc /\ UNCHANGED <<turns, stream, tracker>>
        /\ \/ count' = count + 1 /\ audio' = Append(audio, Head(up).frame)
           \/ audio' = audio /\ count' = count /\ (stream = NoStream \/ tracker = NoStream)
    BY DEF ReadBinary, ErrorEvent
  <1>4. Serves'
    BY <1>1, <1>3 DEF Serves
  <1>5. \A p, q \in Mark :
          Continues(p, Head(up), q) /\ Past(q) /\ Server(p) => ServerType' /\ Server(q)'
    <2> SUFFICES ASSUME NEW p \in Mark, NEW q \in Mark,
                        Continues(p, Head(up), q), Server(p)
                 PROVE  ServerType' /\ Server(q)'
      OBVIOUS
    <2>1. /\ q = [o |-> p.o, k |-> p.k + 1, open |-> TRUE]
          /\ Head(up).frame = <<q.o, q.k>>
      BY <1>2 DEF Continues
    <2>2. /\ q.o = p.o /\ q.k = p.k + 1 /\ q.open
          /\ q.o \in Openings /\ q.k \in 1 .. MaxFrames /\ p.k \in Nat
      BY <2>1 DEF Mark, Openings
    <2>3. Head(up).frame \in Frames
      BY <2>1, <2>2 DEF Frames
    <2>4. ServerType'
      <3>1. audio' \in Seq(Frames)
        <4>1. audio \in Seq(Frames) /\ Append(audio, Head(up).frame) \in Seq(Frames)
          BY <1>1, <2>3 DEF ServerType
        <4>2. QED
          BY <1>3, <4>1
      <3>2. count' \in Nat
        BY <1>1, <1>3 DEF ServerType
      <3>3. QED
        BY <1>1, <1>3, <3>1, <3>2 DEF ServerType
    <2>5. Holds(q)'
      <3> SUFFICES ASSUME tracker # NoStream PROVE Holds(q)'
        BY <1>3 DEF Holds
      <3>1. /\ stream # NoStream /\ count = Len(audio) /\ p.k <= count
            /\ \A j \in 1 .. p.k : audio[count - p.k + j] = <<p.o, j>>
        BY DEF Server, Holds
      <3>2. count' = count + 1 /\ audio' = Append(audio, Head(up).frame)
        BY <1>3, <3>1
      <3>3. /\ audio \in Seq(Frames) /\ count \in Nat
            /\ Len(audio') = count + 1
            /\ \A i \in 1 .. count : audio'[i] = audio[i]
            /\ audio'[count + 1] = <<q.o, q.k>>
        BY <1>1, <2>1, <2>3, <3>1, <3>2 DEF ServerType
      <3>4. \A j \in 1 .. q.k : audio'[count' - q.k + j] = <<q.o, j>>
        <4> SUFFICES ASSUME NEW j \in 1 .. q.k
                     PROVE  audio'[count' - q.k + j] = <<q.o, j>>
          OBVIOUS
        <4>1. count' - q.k + j = count - p.k + j
          <5>1. p.k \in Nat /\ q.k = p.k + 1 /\ j \in Nat /\ count \in Nat
            BY <2>2, <3>3
          <5>2. count' = count + 1
            BY <3>2
          <5>3. QED
            BY ONLY <5>1, <5>2
        <4>2. CASE j = q.k
          <5>1. count - p.k + j = count + 1
            BY <2>2, <3>3, <4>2
          <5>2. QED
            BY <3>3, <4>1, <4>2, <5>1
        <4>3. CASE j # q.k
          <5>1. j \in 1 .. p.k /\ count - p.k + j \in 1 .. count
            BY <2>2, <3>1, <3>3, <4>3
          <5>2. audio'[count - p.k + j] = <<p.o, j>>
            BY <3>1, <3>3, <5>1
          <5>3. QED
            BY <2>2, <4>1, <5>2
        <4>4. QED
          BY <4>2, <4>3
      <3>5. q.open /\ stream' # NoStream /\ count' = Len(audio') /\ q.k <= count'
        <4>1. q.open /\ stream' # NoStream
          BY <1>3, <2>2, <3>1
        <4>2. count' = Len(audio')
          BY <3>2, <3>3
        <4>3. q.k <= count'
          <5>1. q.k = p.k + 1 /\ p.k <= count /\ count' = count + 1
            BY <2>2, <3>1, <3>2
          <5>2. p.k \in Nat /\ count \in Nat
            BY <2>2, <3>3
          <5>3. QED
            BY ONLY <5>1, <5>2
        <4>4. QED
          BY ONLY <4>1, <4>2, <4>3
      <3>6. QED
        BY <3>4, <3>5 DEF Holds
    <2>6. Taken(q)' /\ Counted(q)'
      BY <1>1, <1>2, <1>3, TurnsCarry DEF Server, deviceVars
    <2>7. QED
      BY <2>4, <2>5, <2>6 DEF Server
  <1>6. QED
    BY <1>2, <1>4, <1>5, ReadKeeps

(* The heart of the matter: where the id and the count of audio.stop agree *)
(* with the stream, the audio is the opening that was stopped, and nothing *)
(* of the ones before it.                                                  *)
LEMMA StopTakesAll ==
  ASSUME ServerType, NEW p \in Mark, NEW q \in Mark,
         up # <<>>, Head(up).kind = "stop", Continues(p, Head(up), q),
         Past(q), Holds(p), tracker # NoStream, StopMatches(Head(up))
  PROVE  /\ p.open /\ q.o = p.o /\ ~q.open /\ p.o \in Openings
         /\ audio = [i \in 1 .. sent[p.o] |-> <<p.o, i>>]
  <1> USE GatewayAssumption
  <1>1. p.open /\ Head(up).last = p.k /\ q = [o |-> p.o, k |-> p.k, open |-> FALSE]
    BY DEF Continues
  <1>2. q.o = p.o /\ ~q.open
    BY <1>1
  <1>3. p.o \in Openings /\ p.k \in Nat
    BY <1>1 DEF Mark, Openings
  <1>4. sent[p.o] = p.k
    BY <1>1, <1>3 DEF Past, Openings
  <1>5. /\ count = p.k /\ Len(audio) = p.k /\ audio \in Seq(Frames)
        /\ \A j \in 1 .. p.k : audio[count - p.k + j] = <<p.o, j>>
    BY <1>1 DEF StopMatches, Holds, ServerType
  <1>6. \A j \in 1 .. p.k : audio[j] = <<p.o, j>>
    BY <1>3, <1>5
  <1>7. audio = [i \in 1 .. p.k |-> <<p.o, i>>]
    <2>1. DOMAIN audio = 1 .. p.k /\ audio = [i \in DOMAIN audio |-> audio[i]]
      BY <1>5
    <2>2. QED
      BY <1>6, <2>1
  <1>8. QED
    BY <1>1, <1>2, <1>3, <1>4, <1>7

LEMMA StopKeeps == UpInv /\ ReadStop => UpInv'
  <1> SUFFICES ASSUME UpInv, ReadStop PROVE UpInv'
    OBVIOUS
  <1> USE GatewayAssumption
  <1>1. DeviceInv /\ ServerType /\ Serves
    BY DEF UpInv
  <1>2. /\ up # <<>> /\ up' = Tail(up) /\ UNCHANGED deviceVars
        /\ Head(up).kind = "stop" /\ pc = "read"
    BY <1>1, ReadsUp DEF ReadStop
  <1>3. stream # NoStream <=> tracker # NoStream
    BY <1>1, <1>2 DEF Serves, Turn
  <1>4. CASE stream = NoStream
    <2>1. pc' = pc /\ UNCHANGED <<stream, audio, tracker, count, turns>>
      BY <1>4 DEF ReadStop, ErrorEvent
    <2>2. Serves'
      BY <1>1, <2>1 DEF Serves
    <2>3. \A p, q \in Mark :
            Continues(p, Head(up), q) /\ Past(q) /\ Server(p) => ServerType' /\ Server(q)'
      <3> SUFFICES ASSUME NEW p \in Mark, NEW q \in Mark,
                          Continues(p, Head(up), q), Server(p)
                   PROVE  ServerType' /\ Server(q)'
        OBVIOUS
      <3>1. ServerType' /\ Holds(q)'
        BY <1>1, <1>3, <1>4, <2>1 DEF ServerType, Holds
      <3>2. Taken(q)' /\ Counted(q)'
        BY <1>1, <1>2, <2>1, TurnsCarry DEF Server, deviceVars
      <3>3. QED
        BY <3>1, <3>2 DEF Server
    <2>4. QED
      BY <1>2, <2>2, <2>3, ReadKeeps
  <1>5. CASE stream # NoStream /\ ~StopMatches(Head(up))
    <2>1. /\ pc' = pc /\ UNCHANGED turns
          /\ stream' = NoStream /\ audio' = <<>> /\ tracker' = NoStream /\ count' = 0
      BY <1>5 DEF ReadStop, StopMismatch, ErrorEvent, NewStreamState
    <2>2. Serves'
      BY <1>1, <2>1 DEF Serves
    <2>3. \A p, q \in Mark :
            Continues(p, Head(up), q) /\ Past(q) /\ Server(p) => ServerType' /\ Server(q)'
      <3> SUFFICES ASSUME NEW p \in Mark, NEW q \in Mark,
                          Continues(p, Head(up), q), Server(p)
                   PROVE  ServerType' /\ Server(q)'
        OBVIOUS
      <3>1. ServerType' /\ Holds(q)'
        BY <1>1, <2>1 DEF ServerType, Holds
      <3>2. Taken(q)' /\ Counted(q)'
        BY <1>1, <1>2, <2>1, TurnsCarry DEF Server, deviceVars
      <3>3. QED
        BY <3>1, <3>2 DEF Server
    <2>4. QED
      BY <1>2, <2>2, <2>3, ReadKeeps
  <1>6. CASE stream # NoStream /\ StopMatches(Head(up))
    <2>1. /\ pc' = "asr" /\ UNCHANGED <<stream, audio>>
          /\ tracker' = NoStream /\ count' = 0 /\ turns' = Append(turns, audio)
      BY <1>6 DEF ReadStop, StopAccepted, TurnBegins
    <2>2. Serves'
      BY <2>1 DEF Serves, Turn
    <2>3. \A p, q \in Mark :
            Continues(p, Head(up), q) /\ Past(q) /\ Server(p) => ServerType' /\ Server(q)'
      <3> SUFFICES ASSUME NEW p \in Mark, NEW q \in Mark,
                          Continues(p, Head(up), q), Past(q), Server(p)
                   PROVE  ServerType' /\ Server(q)'
        OBVIOUS
      <3>1. /\ p.open /\ q.o = p.o /\ ~q.open /\ p.o \in Openings
            /\ audio = [i \in 1 .. sent[p.o] |-> <<p.o, i>>]
        BY <1>1, <1>2, <1>3, <1>6, StopTakesAll DEF Server
      <3>2. ServerType' /\ Holds(q)'
        BY <1>1, <2>1 DEF ServerType, Holds
      <3>3. q.o = p.o /\ ~q.open /\ sent' = sent /\ p.o \in Nat
        BY <1>2, <3>1 DEF Mark, deviceVars, Openings
      <3> DEFINE n == Len(turns)
      <3>4. /\ n \in Nat /\ Len(turns') = n + 1 /\ turns'[n + 1] = audio
            /\ \A t \in 1 .. n : turns'[t] = turns[t]
            /\ DOMAIN turns = 1 .. n /\ DOMAIN turns' = 1 .. n + 1
        BY <1>1, <2>1 DEF ServerType
      <3>5. \A t \in 1 .. n : TakenFrom(p, turns[t])
        BY <3>4 DEF Server, Taken
      <3>6. \A t \in 1 .. n : turns[t] # <<>> => turns[t] # audio
        <4> SUFFICES ASSUME NEW t \in 1 .. n, turns[t] # <<>>, turns[t] = audio
                     PROVE  FALSE
          OBVIOUS
        <4>1. PICK o \in Openings : /\ o <= p.o /\ (o = p.o => ~p.open)
                                    /\ turns[t] = [i \in 1 .. sent[o] |-> <<o, i>>]
          BY <3>5 DEF TakenFrom
        <4>2. sent[o] \in Nat /\ sent[p.o] \in Nat
          BY <1>1, <3>1 DEF DeviceInv
        <4>3. 1 \in DOMAIN turns[t]
          <5>1. sent[o] # 0
            <6> SUFFICES ASSUME sent[o] = 0 PROVE FALSE
              OBVIOUS
            <6>1. turns[t] \in Seq(Frames) /\ Len(turns[t]) = 0
              BY <1>1, <3>4, <4>1 DEF ServerType
            <6>2. QED
              BY <6>1
          <5>2. QED
            BY <4>1, <4>2, <5>1
        <4>4. turns[t][1] = <<o, 1>> /\ audio[1] = <<p.o, 1>>
          BY <3>1, <4>1, <4>3
        <4>5. QED
          BY <3>1, <4>1, <4>4
      <3>7. Taken(q)'
        <4>1. \A t \in 1 .. n : TakenFrom(q, turns[t])'
          BY <3>3, <3>4, <3>5 DEF TakenFrom
        <4>2. TakenFrom(q, audio)'
          BY <2>1, <3>1, <3>3 DEF TakenFrom, Openings
        <4>3. \A t \in 1 .. n + 1 : TakenFrom(q, turns[t])'
          <5> SUFFICES ASSUME NEW t \in 1 .. n + 1 PROVE TakenFrom(q, turns[t])'
            OBVIOUS
          <5>1. CASE t = n + 1
            BY <2>1, <3>4, <4>2, <5>1 DEF TakenFrom
          <5>2. CASE t # n + 1
            <6>1. t \in 1 .. n
              BY <3>4, <5>2
            <6>2. QED
              BY <4>1, <6>1
          <5>3. QED
            BY <5>1, <5>2
        <4>4. \A t, u \in 1 .. n + 1 :
                turns'[t] = turns'[u] /\ turns'[t] # <<>> => t = u
          <5> SUFFICES ASSUME NEW t \in 1 .. n + 1, NEW u \in 1 .. n + 1,
                              turns'[t] = turns'[u], turns'[t] # <<>>
                       PROVE  t = u
            OBVIOUS
          <5>1. CASE t \in 1 .. n /\ u \in 1 .. n
            BY <3>4, <5>1 DEF Server, Taken
          <5>2. CASE t \in 1 .. n /\ u = n + 1
            BY <3>4, <3>6, <5>2
          <5>3. CASE t = n + 1 /\ u \in 1 .. n
            BY <3>4, <3>6, <5>3
          <5>4. QED
            BY <3>4, <5>1, <5>2, <5>3
        <4>5. QED
          BY <3>4, <4>3, <4>4 DEF Taken
      <3>8. Counted(q)'
        BY <3>1, <3>3, <3>4 DEF Server, Counted
      <3>9. QED
        BY <3>2, <3>7, <3>8 DEF Server
    <2>4. QED
      BY <1>2, <2>2, <2>3, ReadKeeps
  <1>7. QED
    BY <1>4, <1>5, <1>6

LEMMA ServeKeeps == UpInv /\ Serve => UpInv'
  <1> SUFFICES ASSUME UpInv, Serve PROVE UpInv'
    OBVIOUS
  <1>1. DeviceInv /\ Serves
    BY DEF UpInv
  <1>2. ASSUME ReadFails \/ ConfigSnapshot PROVE UpInv'
    <2>1. /\ UNCHANGED <<up, deviceVars, stream, audio, tracker, count, turns>>
          /\ pc \notin Turn /\ pc' \notin Turn
      BY <1>2 DEF ReadFails, ConfigSnapshot, Returns, streamVars, Turn
    <2>2. Serves'
      BY <1>1, <2>1 DEF Serves
    <2>3. QED
      BY <2>1, <2>2, ElsewhereKeeps
  <1>3. ASSUME ReadPing \/ ReadClose \/ ReadHello \/ ReadOther PROVE UpInv'
    <2>1. /\ UNCHANGED <<stream, audio, tracker, count, turns>>
          /\ pc \notin Turn /\ pc' \notin Turn
          /\ \E kind \in {"hello", "ping", "other", "close"} : ReadFrame(kind)
      BY <1>3 DEF ReadPing, ReadClose, ReadHello, ReadOther, Returns, ErrorEvent,
                  streamVars, ReadFrame, Turn
    <2>2. Serves'
      BY <1>1, <2>1 DEF Serves
    <2>3. QED
      BY <2>1, <2>2, PassingKeeps
  <1>4. QED
    BY <1>2, <1>3, StartKeeps, BinaryKeeps, StopKeeps DEF Serve

LEMMA UpInvariant == Spec => []UpInv
  <1>1. UpInv /\ [Next]_vars => UpInv'
    <2> SUFFICES ASSUME UpInv, [Next]_vars PROVE UpInv'
      OBVIOUS
    <2>1. CASE Hear \/ UNCHANGED vars
      <3>1. UNCHANGED <<up, deviceVars, pc, stream, audio, tracker, count, turns>>
        BY <2>1 DEF Hear, vars, deviceVars, streamVars
      <3>2. Serves'
        BY <3>1 DEF UpInv, Serves
      <3>3. QED
        BY <3>1, <3>2, ElsewhereKeeps
    <2>2. QED
      BY <2>1, DeviceKeeps, ServeKeeps, TurnKeeps DEF Next
  <1>2. QED
    BY <1>1, InitUp, PTL DEF Spec

(* Every turn of the pipeline is given the whole of one stream the device  *)
(* has sent and stopped, and no two turns the same one, whatever the       *)
(* device forgets, reopens or sends while it is refused                    *)
(* (StreamTracker.Stop).                                                   *)
THEOREM TurnsAreWhole == Spec => []TurnIsWholeStream
  <1>1. UpInv => TurnIsWholeStream
    <2> SUFFICES ASSUME UpInv PROVE TurnIsWholeStream
      OBVIOUS
    <2>1. PICK marks \in [0 .. Len(up) -> Mark] : Marked(marks)
      BY DEF UpInv
    <2>2. Taken(marks[0])
      BY <2>1 DEF Marked, Server
    <2>3. QED
      BY <2>2 DEF Taken, TakenFrom, TurnIsWholeStream, WholeStream
  <1>2. QED
    BY <1>1, UpInvariant, PTL
-----------------------------------------------------------------------------
(* What the loop reads first is what the device has sent first.            *)
LEMMA HeadIsReal ==
  ASSUME UpInv, up # <<>>
  PROVE  /\ Head(up).kind = "frame" => Head(up).frame \in Frames
         /\ Head(up).kind = "start" => Head(up).id \in Streams
  <1> PICK marks \in [0 .. Len(up) -> Mark] : Marked(marks)
    BY DEF UpInv
  <1>1. up \in Seq(Up)
    BY DEF UpInv, DeviceInv
  <1>2. Len(up) \in Nat \ {0} /\ 1 \in 1 .. Len(up) /\ up[1] = Head(up) /\ 1 - 1 = 0
    BY <1>1
  <1>3. marks[0] \in Mark /\ marks[1] \in Mark
    BY <1>2
  <1>4. Continues(marks[0], Head(up), marks[1])
    <2>1. Continues(marks[1 - 1], up[1], marks[1])
      BY <1>2 DEF Marked, Chain
    <2>2. QED
      BY <1>2, <2>1
  <1>5. ASSUME Head(up).kind = "frame" PROVE Head(up).frame \in Frames
    <2>1. /\ marks[0].open /\ marks[1] = [o |-> marks[0].o, k |-> marks[0].k + 1, open |-> TRUE]
          /\ Head(up).frame = <<marks[1].o, marks[1].k>>
      BY <1>4, <1>5 DEF Continues
    <2>2. marks[1].o \in Openings /\ marks[1].k \in 1 .. MaxFrames
      BY <1>3, <2>1, GatewayAssumption DEF Mark, Openings
    <2>3. <<marks[1].o, marks[1].k>> \in Frames
      BY ONLY <2>2 DEF Frames
    <2>4. QED
      BY ONLY <2>1, <2>3
  <1>6. ASSUME Head(up).kind = "start" PROVE Head(up).id \in Streams
    BY <1>4, <1>6 DEF Continues
  <1>7. QED
    BY <1>5, <1>6

(* What the gateway takes from the device keeps the promise of the         *)
(* protocol, for any number of streams: one at a time, whole or not at all *)
(* (the read loop of handler.go and StreamTracker).                        *)
THEOREM UplinkKept == Spec => UplinkIsOneStream
  <1> USE DEF Uplink!ChannelInit, Uplink!ChannelNext, Uplink!Open, Uplink!Carry,
              Uplink!Finish, Uplink!Abandon, Uplink!channelVars
  <1>1. Init => Uplink!ChannelInit
    BY DEF Init, Incoming
  <1>2. UpInv /\ [Next]_vars => [Uplink!ChannelNext]_(Uplink!channelVars)
    <2> SUFFICES ASSUME UpInv, [Next]_vars
                 PROVE  [Uplink!ChannelNext]_(Uplink!channelVars)
      OBVIOUS
    <2> USE GatewayAssumption
    <2>1. Serves
      BY DEF UpInv
    <2>2. CASE UNCHANGED <<tracker, audio, turns>>
      BY <2>2 DEF Incoming
    <2>3. CASE RunTurn
      <3>1. /\ pc \in Turn /\ UNCHANGED turns
            /\ tracker' = tracker \/ tracker' = NoStream
        BY <2>3 DEF RunTurn, Transcribe, ProviderFails, OnASRFinal, OnLLMDelta,
             ReplyEnds, OnLLMDone, OnTTSStart, OnTTSChunk, SpeechEnds, OnTTSStop,
             OnAction, PipelineFailed, At, Goes, SinkFails, TurnFails, NewStreamState, Turn
      <3>2. tracker = NoStream /\ tracker' = NoStream
        BY <2>1, <3>1 DEF Serves
      <3>3. QED
        BY <3>1, <3>2 DEF Incoming
    <2>4. CASE ReadStart
      <3>1. up # <<>> /\ Head(up).kind = "start" /\ UNCHANGED turns
        BY <2>4 DEF ReadStart, ReadFrame
      <3>2. Head(up).id \in Streams
        BY <3>1, HeadIsReal
      <3>3. CASE MayStart
        BY <2>4, <3>1, <3>2, <3>3 DEF ReadStart, MayStart, Incoming
      <3>4. CASE ~MayStart
        BY <2>4, <3>1, <3>4 DEF ReadStart, Incoming
      <3>5. QED
        BY <3>3, <3>4
    <2>5. CASE ReadBinary
      <3>1. up # <<>> /\ Head(up).kind = "frame" /\ UNCHANGED <<turns, tracker>>
        BY <2>5 DEF ReadBinary, ReadFrame
      <3>2. Head(up).frame \in Frames
        BY <3>1, HeadIsReal
      <3>3. CASE stream # NoStream /\ tracker # NoStream
        BY <2>5, <3>1, <3>2, <3>3 DEF ReadBinary, Incoming
      <3>4. CASE ~(stream # NoStream /\ tracker # NoStream)
        BY <2>5, <3>1, <3>4 DEF ReadBinary, Incoming
      <3>5. QED
        BY <3>3, <3>4
    <2>6. CASE ReadStop
      <3>1. stream # NoStream <=> tracker # NoStream
        BY <2>1, <2>6 DEF ReadStop, ReadFrame, Serves, Turn
      <3>2. CASE stream = NoStream
        BY <2>6, <3>2 DEF ReadStop, Incoming
      <3>3. CASE stream # NoStream /\ ~StopMatches(Head(up))
        BY <2>6, <3>1, <3>3 DEF ReadStop, StopMismatch, NewStreamState, Incoming
      <3>4. CASE stream # NoStream /\ StopMatches(Head(up))
        BY <2>6, <3>1, <3>4 DEF ReadStop, StopAccepted, Incoming
      <3>5. QED
        BY <3>2, <3>3, <3>4
    <2>7. CASE DeviceSends \/ Hear \/ UNCHANGED vars
      <3>1. UNCHANGED <<tracker, audio, turns>>
        BY <2>7 DEF DeviceSends, SendStart, SendFrame, SendStop, SendOther, Forget,
             LoseLink, Send, Hear, vars, streamVars
      <3>2. QED
        BY <2>2, <3>1
    <2>8. CASE ReadFails \/ ReadPing \/ ReadClose \/ ReadHello \/ ConfigSnapshot \/ ReadOther
      <3>1. UNCHANGED <<tracker, audio, turns>>
        BY <2>8 DEF ReadFails, ReadPing, ReadClose, ReadHello, ConfigSnapshot,
             ReadOther, Returns, ErrorEvent, streamVars
      <3>2. QED
        BY <2>2, <3>1
    <2>9. QED
      BY <2>3, <2>4, <2>5, <2>6, <2>7, <2>8 DEF Next, Serve
  <1>3. QED
    BY <1>1, <1>2, UpInvariant, PTL DEF Spec, UplinkIsOneStream, Uplink!ChannelSpec
-----------------------------------------------------------------------------
(***************************************************************************)
(* The other direction: every message on its way to the device has the     *)
(* reply that it leaves the device playing, and how much of it.            *)
(***************************************************************************)
Place == {m \in [h : 0 .. MaxOpenings, n : 0 .. MaxChunks] : m.h = 0 => m.n = 0}

Hears(p, m, q) ==
  \/ /\ m.kind = "tts.start" /\ p.h = 0
     /\ m.n \in Openings /\ q = [h |-> m.n, n |-> 0]
  \/ /\ m.kind = "chunk" /\ p.h # 0
     /\ m.n \in 1 .. MaxChunks /\ q = [h |-> p.h, n |-> p.n + 1]
  \/ /\ m.kind = "tts.stop" /\ p.h # 0
     /\ q = [h |-> 0, n |-> 0]
  \/ /\ m.kind \in {"event", "error", "action", "stop_error"}
     /\ q = p

HearChain(places, d) ==
  /\ places \in [0 .. Len(d) -> Place]
  /\ \A i \in 1 .. Len(d) : Hears(places[i - 1], d[i], places[i])

(* Where the turn has left the device, as far as the link goes.            *)
Said == [h |-> outbound, n |-> IF outbound = 0 THEN 0 ELSE chunks]

Early == {"asr", "asrFinal", "llm", "llmDone"}

(* The stages of a turn, and that replies are fewer than turns.            *)
Talks ==
  /\ link \in {"up", "down"} /\ (pc = "returned" => link = "down")
  /\ reply \in Nat /\ reply <= Len(turns)
  /\ outbound \in 0 .. MaxOpenings /\ chunks \in 0 .. MaxChunks
  /\ pc \in Early => reply < Len(turns)
  /\ pc = "ttsStart" => reply > 0
  /\ pc \in Early \cup {"ttsStart"} => chunks = 0 /\ outbound = 0
  /\ pc \in {"tts", "ttsStop"} => outbound > 0
  /\ link = "up" /\ pc \notin {"tts", "ttsStop"} => outbound = 0

Placed(places) ==
  /\ HearChain(places, down)
  /\ places[0].h = heard /\ places[0].n = Len(played)
  /\ link = "up" => places[Len(down)] = Said

DownInv ==
  /\ Talks
  /\ down \in Seq(Down) /\ heard \in 0 .. MaxOpenings /\ played \in Seq(1 .. MaxChunks)
  /\ \E places \in [0 .. Len(down) -> Place] : Placed(places)
-----------------------------------------------------------------------------
LEMMA AppendPlace ==
  ASSUME NEW d \in Seq(Down), NEW m \in Down, NEW places, HearChain(places, d),
         NEW q \in Place, Hears(places[Len(d)], m, q)
  PROVE  \E longer :
           /\ HearChain(longer, Append(d, m))
           /\ longer[0] = places[0] /\ longer[Len(d) + 1] = q
  <1> DEFINE n == Len(d)
             longer == [i \in 0 .. n + 1 |-> IF i = n + 1 THEN q ELSE places[i]]
  <1>1. n \in Nat /\ Len(Append(d, m)) = n + 1
    OBVIOUS
  <1>2. places \in [0 .. n -> Place]
    BY DEF HearChain
  <1>3. longer \in [0 .. n + 1 -> Place]
    BY <1>1, <1>2
  <1>4. (\A i \in 0 .. n : longer[i] = places[i]) /\ longer[n + 1] = q
    BY <1>1
  <1>5. \A i \in 1 .. n + 1 : Hears(longer[i - 1], Append(d, m)[i], longer[i])
    <2> SUFFICES ASSUME NEW i \in 1 .. n + 1
                 PROVE  Hears(longer[i - 1], Append(d, m)[i], longer[i])
      OBVIOUS
    <2>1. CASE i = n + 1
      <3>1. Append(d, m)[i] = m /\ longer[i - 1] = places[n] /\ longer[i] = q
        BY <1>1, <1>4, <2>1
      <3>2. QED
        BY <3>1
    <2>2. CASE i # n + 1
      <3>1. i \in 1 .. n /\ i - 1 \in 0 .. n /\ i \in 0 .. n
        BY <1>1, <2>2
      <3>2. Append(d, m)[i] = d[i]
        BY <3>1
      <3>3. Hears(places[i - 1], d[i], places[i])
        BY <3>1 DEF HearChain
      <3>4. QED
        BY <1>4, <3>1, <3>2, <3>3
    <2>3. QED
      BY <2>1, <2>2
  <1>6. HearChain(longer, Append(d, m))
    BY <1>1, <1>3, <1>5 DEF HearChain
  <1>7. longer[0] = places[0]
    BY <1>1, <1>4
  <1> HIDE DEF longer
  <1>8. QED
    BY <1>1, <1>4, <1>6, <1>7

LEMMA TailPlace ==
  ASSUME NEW d \in Seq(Down), d # <<>>, NEW places, HearChain(places, d)
  PROVE  \E rest :
           /\ HearChain(rest, Tail(d))
           /\ Hears(places[0], Head(d), rest[0])
           /\ rest[Len(Tail(d))] = places[Len(d)]
  <1> DEFINE n == Len(d)
             rest == [i \in 0 .. n - 1 |-> places[i + 1]]
  <1>1. n \in Nat \ {0} /\ Len(Tail(d)) = n - 1
    OBVIOUS
  <1>2. places \in [0 .. n -> Place]
    BY DEF HearChain
  <1>3. rest \in [0 .. n - 1 -> Place]
    BY <1>1, <1>2
  <1>4. \A i \in 0 .. n - 1 : rest[i] = places[i + 1]
    OBVIOUS
  <1>5. \A i \in 1 .. n - 1 : Hears(rest[i - 1], Tail(d)[i], rest[i])
    <2> SUFFICES ASSUME NEW i \in 1 .. n - 1
                 PROVE  Hears(rest[i - 1], Tail(d)[i], rest[i])
      OBVIOUS
    <2>1. Tail(d)[i] = d[i + 1]
      BY <1>1
    <2>2. rest[i - 1] = places[i] /\ rest[i] = places[i + 1]
      BY <1>1, <1>4
    <2>3. i + 1 \in 1 .. n /\ (i + 1) - 1 = i
      BY <1>1
    <2>4. Hears(places[(i + 1) - 1], d[i + 1], places[i + 1])
      BY <2>3 DEF HearChain
    <2>5. QED
      BY <2>1, <2>2, <2>3, <2>4
  <1>6. HearChain(rest, Tail(d))
    BY <1>1, <1>3, <1>5 DEF HearChain
  <1>7. Hears(places[0], Head(d), rest[0])
    <2>1. Hears(places[1 - 1], d[1], places[1])
      BY <1>1 DEF HearChain
    <2>2. rest[0] = places[1] /\ Head(d) = d[1] /\ 1 - 1 = 0
      BY <1>1, <1>4
    <2>3. QED
      BY <2>1, <2>2
  <1>8. rest[n - 1] = places[n]
    BY <1>1, <1>4
  <1> HIDE DEF rest
  <1>9. QED
    BY <1>1, <1>6, <1>7, <1>8

LEMMA InitDown == Init => DownInv
  <1> SUFFICES ASSUME Init PROVE DownInv
    OBVIOUS
  <1> USE GatewayAssumption DEF Init
  <1> DEFINE first == [h |-> 0, n |-> 0]
             places == [i \in {0} |-> first]
  <1>1. first \in Place
    BY DEF Place
  <1>2. Talks
    BY DEF Talks, Early
  <1>3. Len(down) = 0 /\ Len(played) = 0 /\ 0 .. 0 = {0} /\ 1 .. 0 = {}
    OBVIOUS
  <1>4. places \in [0 .. Len(down) -> Place] /\ places[0] = first
    BY <1>1, <1>3
  <1>5. HearChain(places, down)
    BY <1>3, <1>4 DEF HearChain
  <1>6. first = Said /\ first.h = heard /\ first.n = Len(played)
    BY <1>3 DEF Said
  <1> HIDE DEF places, first
  <1>7. Placed(places)
    BY <1>3, <1>4, <1>5, <1>6 DEF Placed
  <1>8. down \in Seq(Down) /\ heard \in 0 .. MaxOpenings /\ played \in Seq(1 .. MaxChunks)
    OBVIOUS
  <1>9. QED
    BY <1>2, <1>4, <1>7, <1>8 DEF DownInv

(* A message is written, or goes nowhere because the link is down.         *)
LEMMA WriteKeeps ==
  ASSUME DownInv, NEW kind \in DownKinds, NEW n \in Nat, WriteFrame(kind, n),
         UNCHANGED <<link, heard, played>>, Talks',
         link = "up" =>
           \E q \in Place : q = Said' /\ Hears(Said, [kind |-> kind, n |-> n], q)
  PROVE  DownInv'
  <1> PICK places \in [0 .. Len(down) -> Place] : Placed(places)
    BY DEF DownInv
  <1>1. down \in Seq(Down) /\ heard' = heard /\ played' = played
        /\ heard \in 0 .. MaxOpenings /\ played \in Seq(1 .. MaxChunks)
    BY DEF DownInv
  <1>2. CASE link = "up"
    <2> PICK m \in Down : m = [kind |-> kind, n |-> n]
      <3>1. [kind |-> kind, n |-> n] \in Down
        BY DEF Down
      <3>2. QED
        BY <3>1
    <2>1. PICK q \in Place : q = Said' /\ Hears(Said, m, q)
      BY <1>2
    <2>2. down' = Append(down, m) /\ Len(down') = Len(down) + 1
      BY <1>1, <1>2 DEF WriteFrame
    <2>3. Hears(places[Len(down)], m, q)
      BY <1>2, <2>1 DEF Placed
    <2>4. PICK longer : /\ HearChain(longer, Append(down, m))
                        /\ longer[0] = places[0] /\ longer[Len(down) + 1] = q
      BY <1>1, <2>3, AppendPlace DEF Placed
    <2>5. HearChain(longer, down') /\ longer \in [0 .. Len(down') -> Place]
      BY <2>2, <2>4 DEF HearChain
    <2>6. Placed(longer)'
      BY <1>1, <2>1, <2>2, <2>4, <2>5 DEF Placed
    <2>7. QED
      BY <1>1, <2>2, <2>5, <2>6 DEF DownInv
  <1>3. CASE link # "up"
    <2>1. down' = down /\ link' # "up"
      BY <1>3 DEF WriteFrame
    <2>2. Placed(places)'
      BY <1>1, <2>1 DEF Placed
    <2>3. QED
      BY <1>1, <2>1, <2>2 DEF DownInv
  <1>4. QED
    BY <1>2, <1>3

(* Nothing is written or heard; the link may go down.                      *)
LEMMA QuietKeeps ==
  ASSUME DownInv, UNCHANGED <<down, heard, played>>, Talks',
         link' = "up" => link = "up" /\ Said' = Said
  PROVE  DownInv'
  <1> PICK places \in [0 .. Len(down) -> Place] : Placed(places)
    BY DEF DownInv
  <1>1. Placed(places)'
    BY DEF Placed
  <1>2. QED
    BY <1>1 DEF DownInv

LEMMA LoseLinkKeeps == DownInv /\ LoseLink => DownInv'
  <1> SUFFICES ASSUME DownInv, LoseLink PROVE DownInv'
    OBVIOUS
  <1> PICK places \in [0 .. Len(down) -> Place] : Placed(places)
    BY DEF DownInv
  <1> DEFINE first == [i \in {0} |-> places[0]]
  <1>1. /\ down \in Seq(Down) /\ heard \in 0 .. MaxOpenings
        /\ played \in Seq(1 .. MaxChunks)
        /\ down' = <<>> /\ link' = "down" /\ UNCHANGED <<heard, played>>
        /\ UNCHANGED <<pc, reply, turns, outbound, chunks>>
    BY DEF DownInv, LoseLink, hearVars, turnVars, streamVars
  <1>2. Len(down') = 0 /\ 0 .. 0 = {0} /\ 1 .. 0 = {} /\ <<>> \in Seq(Down)
    BY <1>1
  <1>3. places[0] \in Place
    BY <1>1
  <1>4. first \in [0 .. Len(down') -> Place] /\ first[0] = places[0]
    BY <1>2, <1>3
  <1> HIDE DEF first
  <1>5. HearChain(first, down')
    BY <1>2, <1>4 DEF HearChain
  <1>6. \E firsts \in [0 .. Len(down') -> Place] :
          HearChain(firsts, down') /\ firsts[0] = places[0]
    BY <1>4, <1>5
  <1>7. PICK firsts \in [0 .. Len(down') -> Place] :
          HearChain(firsts, down') /\ firsts[0] = places[0]
    BY <1>6
  <1>8. Placed(firsts)'
    BY <1>1, <1>7 DEF Placed
  <1>9. Talks'
    BY <1>1 DEF DownInv, Talks
  <1>10. QED
    BY <1>1, <1>2, <1>7, <1>8, <1>9 DEF DownInv
LEMMA TurnsCounted == UpInv => Len(turns) \in 0 .. MaxOpenings
  <1> SUFFICES ASSUME UpInv PROVE Len(turns) \in 0 .. MaxOpenings
    OBVIOUS
  <1> PICK marks \in [0 .. Len(up) -> Mark] : Marked(marks)
    BY DEF UpInv
  <1>1. up \in Seq(Up) /\ turns \in Seq(Seq(Frames))
    BY DEF UpInv, DeviceInv, ServerType
  <1>2. marks[0] \in Mark /\ Len(turns) \in Nat
    BY <1>1
  <1>3. Len(turns) <= marks[0].o
    <2>1. marks[0].o \in Nat /\ Counted(marks[0])
      BY <1>2 DEF Marked, Server, Mark
    <2>2. QED
      BY <1>2, <2>1 DEF Counted
  <1>4. QED
    BY <1>2, <1>3, GatewayAssumption DEF Mark

(* What the device hears keeps the promise, and what is left on the way    *)
(* still leads to where the turn is.                                       *)
LEMMA HearKeeps ==
  DownInv /\ Hear => DownInv' /\ [Downlink!ChannelNext]_(Downlink!channelVars)
  <1> SUFFICES ASSUME DownInv, Hear
               PROVE  DownInv' /\ [Downlink!ChannelNext]_(Downlink!channelVars)
    OBVIOUS
  <1> USE GatewayAssumption
  <1> PICK places \in [0 .. Len(down) -> Place] : Placed(places)
    BY DEF DownInv
  <1>1. /\ down # <<>> /\ down \in Seq(Down) /\ down' = Tail(down)
        /\ heard \in 0 .. MaxOpenings /\ played \in Seq(1 .. MaxChunks)
        /\ UNCHANGED <<link, pc, reply, turns, outbound, chunks>>
    BY DEF DownInv, Hear, streamVars, turnVars
  <1>2. PICK rest : /\ HearChain(rest, down')
                    /\ Hears(places[0], Head(down), rest[0])
                    /\ rest[Len(down')] = places[Len(down)]
    BY <1>1, TailPlace DEF Placed
  <1>3. rest \in [0 .. Len(down') -> Place] /\ Len(down') \in Nat
    BY <1>1, <1>2 DEF HearChain
  <1>4. /\ places[0] \in Place /\ places[0].h = heard /\ places[0].n = Len(played)
        /\ rest[0] \in Place
    <2>1. places[0].h = heard /\ places[0].n = Len(played)
      BY DEF Placed
    <2>2. Len(down) \in Nat
      BY <1>1
    <2>3. places[0] \in Place /\ rest[0] \in Place
      BY <1>3, <2>2
    <2>4. QED
      BY <2>1, <2>3
  <1>5. Talks'
    BY <1>1 DEF DownInv, Talks
  <1>6. ASSUME heard' = rest[0].h, Len(played') = rest[0].n,
               played' \in Seq(1 .. MaxChunks)
        PROVE  DownInv'
    <2>1. heard' \in 0 .. MaxOpenings
      BY <1>4, <1>6 DEF Place
    <2>2. Tail(down) \in Seq(Down)
      BY <1>1
    <2>3. link' = "up" => rest[Len(down)]' = Said'
      BY <1>1, <1>2 DEF Placed, Said
    <2>4. Placed(rest)'
      BY <1>2, <1>6, <2>3 DEF Placed
    <2>5. QED
      BY <1>1, <1>3, <1>5, <1>6, <2>1, <2>2, <2>4 DEF DownInv
  <1>7. Head(down) \in Down
    BY <1>1
  <1> USE DEF Downlink!ChannelNext, Downlink!Open, Downlink!Carry, Downlink!Finish,
              Downlink!Abandon, Downlink!channelVars
  <1>8. CASE Head(down).kind = "tts.start"
    <2>1. /\ heard = 0 /\ Head(down).n \in Openings
          /\ rest[0] = [h |-> Head(down).n, n |-> 0]
      BY <1>2, <1>4, <1>8 DEF Hears
    <2>2. heard' = Head(down).n /\ played' = <<>> /\ replies' = replies
      BY <1>8 DEF Hear
    <2>3. DownInv'
      BY <1>6, <2>1, <2>2
    <2>4. QED
      BY <2>1, <2>2, <2>3
  <1>9. CASE Head(down).kind = "chunk"
    <2>1. /\ heard # 0 /\ Head(down).n \in 1 .. MaxChunks
          /\ rest[0] = [h |-> heard, n |-> Len(played) + 1]
      BY <1>2, <1>4, <1>9 DEF Hears
    <2>2. heard' = heard /\ played' = Append(played, Head(down).n) /\ replies' = replies
      BY <1>9 DEF Hear
    <2>3. DownInv'
      BY <1>1, <1>6, <2>1, <2>2
    <2>4. QED
      BY <2>1, <2>2, <2>3
  <1>10. CASE Head(down).kind = "tts.stop"
    <2>1. heard # 0 /\ rest[0] = [h |-> 0, n |-> 0]
      BY <1>2, <1>4, <1>10 DEF Hears
    <2>2. /\ heard' = 0 /\ played' = <<>>
          /\ replies' = Append(replies, played) \/ replies' = replies
      BY <1>10 DEF Hear
    <2>3. DownInv'
      BY <1>6, <2>1, <2>2
    <2>4. QED
      BY <2>1, <2>2, <2>3
  <1>11. CASE Head(down).kind \in {"event", "error", "action", "stop_error"}
    <2>1. rest[0] = places[0]
      BY <1>2, <1>11 DEF Hears
    <2>2. heard' = heard /\ played' = played /\ replies' = replies
      BY <1>11 DEF Hear
    <2>3. DownInv'
      BY <1>1, <1>4, <1>6, <2>1, <2>2
    <2>4. QED
      BY <2>2, <2>3
  <1>12. QED
    BY <1>7, <1>8, <1>9, <1>10, <1>11 DEF Down, DownKinds

(* A message that is no part of a reply.                                   *)
LEMMA EventKeeps ==
  ASSUME DownInv, NEW kind \in {"event", "error", "action", "stop_error"},
         WriteFrame(kind, 0), UNCHANGED <<link, heard, played, outbound, chunks>>, Talks'
  PROVE  DownInv'
  <1>1. outbound \in 0 .. MaxOpenings /\ chunks \in 0 .. MaxChunks
    BY DEF DownInv, Talks
  <1>2. \E q \in Place : q = Said
    <2>1. Said \in Place
      BY <1>1, GatewayAssumption DEF Said, Place
    <2>2. QED
      BY <2>1
  <1>3. Said' = Said
    BY DEF Said
  <1>4. \E q \in Place : q = Said' /\ Hears(Said, [kind |-> kind, n |-> 0], q)
    BY <1>2, <1>3 DEF Hears
  <1>5. kind \in DownKinds
    BY DEF DownKinds
  <1>6. QED
    BY <1>4, <1>5, WriteKeeps

LEMMA ServeTalks == UpInv /\ DownInv /\ Serve => DownInv'
  <1> SUFFICES ASSUME UpInv, DownInv, Serve PROVE DownInv'
    OBVIOUS
  <1> USE GatewayAssumption
  <1>1. Talks /\ Len(turns) \in Nat
    BY TurnsCounted DEF DownInv
  <1>2. UNCHANGED <<heard, played>> /\ pc \in {"read", "hello"}
    BY DEF Serve, ReadFails, ReadPing, ReadClose, ReadHello, ConfigSnapshot, ReadOther,
           ReadStart, ReadBinary, ReadStop, ReadFrame, hearVars
  <1>3. ASSUME UNCHANGED <<turns, turnVars>>, pc' \in {"read", "hello", "returned"},
               link' = link \/ link' = "down", pc' = "returned" => link' = "down"
        PROVE  Talks'
    BY <1>1, <1>2, <1>3 DEF Talks, turnVars, Early
  <1>4. ASSUME UNCHANGED <<turns, turnVars, down>>, pc' \in {"read", "hello", "returned"},
               link' = link \/ link' = "down", pc' = "returned" => link' = "down"
        PROVE  DownInv'
    <2>1. Talks'
      BY <1>3, <1>4
    <2>2. Said' = Said
      BY <1>4 DEF Said, turnVars
    <2>3. link' = "up" => link = "up"
      BY <1>4
    <2>4. QED
      BY <1>2, <1>4, <2>1, <2>2, <2>3, QuietKeeps
  <1>5. ASSUME NEW kind \in {"event", "error", "stop_error"}, WriteFrame(kind, 0),
               UNCHANGED <<turns, turnVars, link>>, pc' \in {"read", "hello"}
        PROVE  DownInv'
    <2>1. Talks'
      BY <1>3, <1>5
    <2>2. QED
      BY <1>2, <1>5, <2>1, EventKeeps DEF turnVars
  <1>6. CASE ReadFails \/ ReadClose
    BY <1>4, <1>6 DEF ReadFails, ReadClose, Returns, streamVars
  <1>7. CASE ReadPing
    <2>1. CASE WriteFrame("event", 0) /\ UNCHANGED <<link, pc, streamVars, turnVars>>
      BY <1>2, <1>5, <2>1 DEF streamVars
    <2>2. CASE WriteFails /\ Returns
      BY <1>4, <2>2 DEF WriteFails, Returns, streamVars
    <2>3. QED
      BY <1>7, <2>1, <2>2 DEF ReadPing
  <1>8. CASE ReadHello
    <2>1. UNCHANGED <<turns, turnVars>>
      BY <1>8 DEF ReadHello
    <2>2. CASE WriteFrame("event", 0) /\ pc' = "hello" /\ UNCHANGED link
      BY <1>5, <2>1, <2>2
    <2>3. CASE WriteFails /\ pc' = "returned" /\ link' = "down"
      BY <1>4, <2>1, <2>3 DEF WriteFails
    <2>4. QED
      BY <1>8, <2>2, <2>3 DEF ReadHello
  <1>9. CASE ConfigSnapshot
    <2>1. CASE WriteFrame("event", 0) /\ pc' = "read" /\ UNCHANGED <<link, streamVars, turnVars>>
      BY <1>5, <2>1 DEF streamVars
    <2>2. CASE WriteFails /\ Returns
      BY <1>4, <2>2 DEF WriteFails, Returns, streamVars
    <2>3. QED
      BY <1>9, <2>1, <2>2 DEF ConfigSnapshot
  <1>10. CASE ReadOther
    <2>1. pc = "read" /\ UNCHANGED <<turns, turnVars>>
      BY <1>10 DEF ReadOther, ReadFrame, streamVars
    <2>2. CASE ErrorEvent("error")
      BY <1>5, <2>1, <2>2 DEF ErrorEvent
    <2>3. CASE UNCHANGED <<link, down, pc>>
      BY <1>4, <2>1, <2>3
    <2>4. QED
      BY <1>10, <2>2, <2>3 DEF ReadOther
  <1>11. CASE ReadStart
    <2>1. pc = "read" /\ UNCHANGED <<turns, turnVars>>
      BY <1>11 DEF ReadStart, ReadFrame
    <2>2. ErrorEvent("error") \/ UNCHANGED <<link, down, pc>>
      BY <1>11 DEF ReadStart
    <2>3. QED
      BY <1>4, <1>5, <2>1, <2>2 DEF ErrorEvent
  <1>12. CASE ReadBinary
    <2>1. pc = "read" /\ UNCHANGED <<turns, turnVars>>
      BY <1>12 DEF ReadBinary, ReadFrame
    <2>2. ErrorEvent("error") \/ UNCHANGED <<link, down, pc>>
      BY <1>12 DEF ReadBinary
    <2>3. QED
      BY <1>4, <1>5, <2>1, <2>2 DEF ErrorEvent
  <1>13. CASE ReadStop
    <2>1. pc = "read"
      BY <1>13 DEF ReadStop, ReadFrame
    <2>2. CASE ErrorEvent("stop_error") /\ UNCHANGED <<turns, turnVars>>
      BY <1>5, <2>1, <2>2 DEF ErrorEvent
    <2>3. CASE StopAccepted
      <3>1. /\ UNCHANGED <<link, down, reply>> /\ pc' = "asr"
            /\ outbound' = 0 /\ chunks' = 0 /\ Len(turns') = Len(turns) + 1
        <4>1. turns \in Seq(Seq(Frames))
          BY DEF UpInv, ServerType
        <4>2. QED
          BY <2>3, <4>1 DEF StopAccepted, TurnBegins
      <3>2. Talks'
        BY <1>1, <2>1, <3>1 DEF Talks, Early
      <3>3. link = "up" => Said' = Said
        BY <1>1, <2>1, <3>1 DEF Talks, Said
      <3>4. QED
        BY <1>2, <3>1, <3>2, <3>3, QuietKeeps
    <2>4. QED
      BY <1>13, <2>2, <2>3 DEF ReadStop, StopMismatch
  <1>14. QED
    BY <1>6, <1>7, <1>8, <1>9, <1>10, <1>11, <1>12, <1>13 DEF Serve
(* A turn is answered in order: its events, one tts.start with the reply's *)
(* number, the chunks, tts.stop; the provider of speech does not fail.     *)
LEMMA TurnTalks ==
  ASSUME UpInv, DownInv, RunTurn, "tts" \notin MayFail
  PROVE  DownInv'
  <1> USE GatewayAssumption
  <1>1. Talks /\ Len(turns) \in 0 .. MaxOpenings
    BY TurnsCounted DEF DownInv
  <1>2. /\ UNCHANGED <<link, turns, heard, played>> /\ pc \in Turn
    BY DEF RunTurn, Transcribe, ProviderFails, OnASRFinal, OnLLMDelta, ReplyEnds,
           OnLLMDone, OnTTSStart, OnTTSChunk, SpeechEnds, OnTTSStop, OnAction,
           PipelineFailed, At, hearVars, Turn
  <1>3. ASSUME SinkFails PROVE DownInv'
    <2>1. /\ link = "down" /\ pc' = "failed"
          /\ UNCHANGED <<down, reply, outbound, chunks>>
      BY <1>3 DEF SinkFails, WriteFails, TurnFails
    <2>2. Talks'
      BY <1>1, <1>2, <2>1 DEF Talks, Early
    <2>3. link' # "up"
      BY <1>2, <2>1
    <2>4. QED
      BY <1>2, <2>1, <2>2, <2>3, QuietKeeps
  <1>4. ASSUME UNCHANGED <<down, reply, outbound, chunks>>, Talks' PROVE DownInv'
    <2>1. Said' = Said
      BY <1>4 DEF Said
    <2>2. QED
      BY <1>2, <1>4, <2>1, QuietKeeps
  <1>5. CASE Transcribe
    <2>1. pc = "asr" /\ pc' = "asrFinal" /\ UNCHANGED <<down, reply, outbound, chunks>>
      BY <1>5 DEF Transcribe, At, Goes, turnVars
    <2>2. Talks'
      BY <1>1, <1>2, <2>1 DEF Talks, Early
    <2>3. QED
      BY <1>4, <2>1, <2>2
  <1>6. CASE ReplyEnds
    <2>1. pc = "llm" /\ pc' = "llmDone" /\ UNCHANGED <<down, reply, outbound, chunks>>
      BY <1>6 DEF ReplyEnds, At, Goes, turnVars
    <2>2. Talks'
      BY <1>1, <1>2, <2>1 DEF Talks, Early
    <2>3. QED
      BY <1>4, <2>1, <2>2
  <1>7. CASE SpeechEnds
    <2>1. pc = "tts" /\ pc' = "ttsStop" /\ UNCHANGED <<down, reply, outbound, chunks>>
      BY <1>7 DEF SpeechEnds, At, Goes, turnVars
    <2>2. Talks'
      BY <1>1, <1>2, <2>1 DEF Talks, Early
    <2>3. QED
      BY <1>4, <2>1, <2>2
  <1>8. CASE ProviderFails
    <2>1. /\ pc \in {"asr", "llm"} /\ pc' = "failed"
          /\ UNCHANGED <<down, reply, outbound, chunks>>
      BY <1>8 DEF ProviderFails, At, TurnFails
    <2>2. Talks'
      BY <1>1, <1>2, <2>1 DEF Talks, Early
    <2>3. QED
      BY <1>4, <2>1, <2>2
  <1>9. CASE OnASRFinal
    <2>1. CASE WriteFrame("event", 0) /\ Goes("llm") /\ UNCHANGED turnVars
      <3>1. pc = "asrFinal" /\ pc' = "llm" /\ UNCHANGED <<reply, outbound, chunks>>
        BY <1>9, <2>1 DEF OnASRFinal, At, Goes, turnVars
      <3>2. Talks'
        BY <1>1, <1>2, <3>1 DEF Talks, Early
      <3>3. QED
        BY <1>2, <2>1, <3>1, <3>2, EventKeeps
    <2>2. QED
      BY <1>3, <1>9, <2>1 DEF OnASRFinal
  <1>10. CASE OnLLMDelta
    <2>1. CASE /\ WriteFrame("event", 0) /\ Goes("llm")
               /\ UNCHANGED <<reply, outbound, chunks, trace>>
      <3>1. pc = "llm" /\ pc' = "llm" /\ UNCHANGED <<reply, outbound, chunks>>
        BY <1>10, <2>1 DEF OnLLMDelta, At, Goes
      <3>2. Talks'
        BY <1>1, <1>2, <3>1 DEF Talks, Early
      <3>3. QED
        BY <1>2, <2>1, <3>1, <3>2, EventKeeps
    <2>2. QED
      BY <1>3, <1>10, <2>1 DEF OnLLMDelta
  <1>11. CASE OnLLMDone
    <2>1. CASE /\ WriteFrame("event", 0) /\ Goes("ttsStart") /\ reply' = reply + 1
               /\ UNCHANGED <<outbound, chunks>>
      <3>1. pc = "llmDone" /\ pc' = "ttsStart"
        BY <1>11, <2>1 DEF OnLLMDone, At, Goes
      <3>2. Talks'
        BY <1>1, <1>2, <2>1, <3>1 DEF Talks, Early
      <3>3. QED
        BY <1>2, <2>1, <3>2, EventKeeps
    <2>2. QED
      BY <1>3, <1>11, <2>1 DEF OnLLMDone
  <1>12. CASE OnTTSStart
    <2>1. CASE /\ WriteFrame("tts.start", reply) /\ Goes("tts") /\ outbound' = reply
               /\ UNCHANGED <<reply, chunks>>
      <3>1. pc = "ttsStart" /\ pc' = "tts" /\ outbound = 0
        BY <1>12, <2>1 DEF OnTTSStart, At, Goes
      <3>2. reply \in Openings /\ reply \in Nat /\ chunks = 0
        BY <1>1, <3>1 DEF Talks, Openings
      <3>3. Talks'
        BY <1>1, <1>2, <2>1, <3>1, <3>2 DEF Talks, Early, Openings
      <3>4. Hears(Said, [kind |-> "tts.start", n |-> reply], [h |-> reply, n |-> 0])
        BY <3>1, <3>2 DEF Hears, Said
      <3>5. [h |-> reply, n |-> 0] \in Place
        BY <3>2 DEF Place, Openings
      <3>6. Said' = [h |-> reply, n |-> 0]
        BY <2>1, <3>2 DEF Said, Openings
      <3>7. \E q \in Place : q = Said' /\ Hears(Said, [kind |-> "tts.start", n |-> reply], q)
        BY <3>4, <3>5, <3>6
      <3> PICK n \in Nat : n = reply
        BY <3>2
      <3>8. WriteFrame("tts.start", n)
        BY <2>1
      <3>9. \E q \in Place : q = Said' /\ Hears(Said, [kind |-> "tts.start", n |-> n], q)
        BY <3>7
      <3>10. QED
        BY <1>2, <3>3, <3>8, <3>9, WriteKeeps DEF DownKinds
    <2>2. QED
      BY <1>3, <1>12, <2>1 DEF OnTTSStart
  <1>13. CASE OnTTSChunk
    <2>1. CASE /\ WriteFrame("chunk", chunks + 1) /\ Goes("tts") /\ chunks' = chunks + 1
               /\ UNCHANGED <<reply, outbound>>
      <3>1. pc = "tts" /\ pc' = "tts" /\ outbound # 0 /\ chunks < MaxChunks
        BY <1>13, <2>1 DEF OnTTSChunk, At, Goes
      <3>2. /\ outbound \in 0 .. MaxOpenings /\ chunks \in 0 .. MaxChunks
            /\ chunks + 1 \in 1 .. MaxChunks
        BY <1>1, <3>1 DEF Talks
      <3>3. Talks'
        BY <1>1, <1>2, <2>1, <3>1, <3>2 DEF Talks, Early
      <3>4. Hears(Said, [kind |-> "chunk", n |-> chunks + 1],
                  [h |-> outbound, n |-> chunks + 1])
        BY <3>1, <3>2 DEF Hears, Said
      <3>5. [h |-> outbound, n |-> chunks + 1] \in Place
        BY <3>1, <3>2 DEF Place
      <3>6. Said' = [h |-> outbound, n |-> chunks + 1]
        BY <2>1, <3>1 DEF Said
      <3> PICK n \in Nat : n = chunks + 1
        BY <3>2
      <3>7. WriteFrame("chunk", n)
        BY <2>1
      <3>8. \E q \in Place : q = Said' /\ Hears(Said, [kind |-> "chunk", n |-> n], q)
        BY <3>4, <3>5, <3>6
      <3>9. QED
        BY <1>2, <3>3, <3>7, <3>8, WriteKeeps DEF DownKinds
    <2>2. QED
      BY <1>3, <1>13, <2>1 DEF OnTTSChunk
  <1>14. CASE OnTTSStop
    <2>1. CASE /\ WriteFrame("tts.stop", chunks) /\ Goes("action") /\ outbound' = 0
               /\ UNCHANGED <<reply, chunks>>
      <3>1. pc = "ttsStop" /\ pc' = "action" /\ outbound # 0
        BY <1>14, <2>1 DEF OnTTSStop, At, Goes
      <3>2. chunks \in Nat
        BY <1>1 DEF Talks
      <3>3. Talks'
        BY <1>1, <1>2, <2>1, <3>1 DEF Talks, Early
      <3>4. Hears(Said, [kind |-> "tts.stop", n |-> chunks], [h |-> 0, n |-> 0])
        BY <3>1 DEF Hears, Said
      <3>5. [h |-> 0, n |-> 0] \in Place
        BY DEF Place
      <3>6. Said' = [h |-> 0, n |-> 0]
        BY <2>1 DEF Said
      <3> PICK n \in Nat : n = chunks
        BY <3>2
      <3>7. WriteFrame("tts.stop", n)
        BY <2>1
      <3>8. \E q \in Place : q = Said' /\ Hears(Said, [kind |-> "tts.stop", n |-> n], q)
        BY <3>4, <3>5, <3>6
      <3>9. QED
        BY <1>2, <3>3, <3>7, <3>8, WriteKeeps DEF DownKinds
    <2>2. QED
      BY <1>3, <1>14, <2>1 DEF OnTTSStop
  <1>15. CASE OnAction
    <2>1. pc = "action" /\ UNCHANGED <<reply, outbound, chunks>> /\ pc' \in {"read", "failed"}
      BY <1>15 DEF OnAction, At, turnVars
    <2>2. Talks'
      BY <1>1, <1>2, <2>1 DEF Talks, Early
    <2>3. CASE WriteFrame("action", 0)
      BY <1>2, <2>1, <2>2, <2>3, EventKeeps
    <2>4. CASE WriteFails
      BY <1>4, <2>1, <2>2, <2>4 DEF WriteFails
    <2>5. QED
      BY <1>15, <2>3, <2>4 DEF OnAction
  <1>16. CASE PipelineFailed
    <2>1. /\ pc = "failed" /\ pc' = "read" /\ UNCHANGED <<reply, outbound, chunks>>
          /\ WriteFrame("stop_error", 0)
      BY <1>16 DEF PipelineFailed, At, Goes, turnVars
    <2>2. Talks'
      BY <1>1, <1>2, <2>1 DEF Talks, Early
    <2>3. QED
      BY <1>2, <2>1, <2>2, EventKeeps
  <1>17. QED
    BY <1>5, <1>6, <1>7, <1>8, <1>9, <1>10, <1>11, <1>12, <1>13, <1>14, <1>15, <1>16
    DEF RunTurn

(* What a device sends is no part of what it hears.                        *)
LEMMA SendsTalk == DownInv /\ DeviceSends => DownInv'
  <1> SUFFICES ASSUME DownInv, DeviceSends PROVE DownInv'
    OBVIOUS
  <1>1. CASE LoseLink
    BY <1>1, LoseLinkKeeps
  <1>2. CASE ~LoseLink
    <2>1. UNCHANGED <<down, heard, played, link, pc, reply, turns, outbound, chunks>>
      BY <1>2 DEF DeviceSends, SendStart, SendFrame, SendStop, SendOther, Forget, Send,
                  hearVars, streamVars, turnVars
    <2>2. Talks' /\ Said' = Said
      BY <2>1 DEF DownInv, Talks, Said
    <2>3. QED
      BY <2>1, <2>2, QuietKeeps
  <1>3. QED
    BY <1>1, <1>2

(* What the device hears keeps the promise of the protocol, for any number *)
(* of turns, however many of them fail, as long as no provider of speech   *)
(* fails after tts.start (pipeline.go, the sink of handler.go).            *)
THEOREM DownlinkKept ==
  ASSUME "tts" \notin MayFail PROVE Spec => DownlinkIsOneStream
  <1>1. Init => Downlink!ChannelInit
    BY DEF Init, Downlink!ChannelInit
  <1>2. UpInv /\ DownInv /\ [Next]_vars =>
          DownInv' /\ [Downlink!ChannelNext]_(Downlink!channelVars)
    <2> SUFFICES ASSUME UpInv, DownInv, [Next]_vars
                 PROVE  DownInv' /\ [Downlink!ChannelNext]_(Downlink!channelVars)
      OBVIOUS
    <2>1. CASE Hear
      BY <2>1, HearKeeps
    <2>2. CASE DeviceSends \/ Serve \/ RunTurn
      <3>1. DownInv'
        BY <2>2, SendsTalk, ServeTalks, TurnTalks
      <3>2. UNCHANGED <<heard, played, replies>>
        BY <2>2 DEF DeviceSends, SendStart, SendFrame, SendStop, SendOther, Forget,
             LoseLink, Serve, ReadFails, ReadPing, ReadClose, ReadHello, ConfigSnapshot,
             ReadOther, ReadStart, ReadBinary, ReadStop, ReadFrame, hearVars,
             RunTurn, Transcribe, ProviderFails, OnASRFinal, OnLLMDelta, ReplyEnds,
             OnLLMDone, OnTTSStart, OnTTSChunk, SpeechEnds, OnTTSStop, OnAction,
             PipelineFailed, At
      <3>3. QED
        BY <3>1, <3>2 DEF Downlink!channelVars
    <2>3. CASE UNCHANGED vars
      <3>1. /\ UNCHANGED <<down, heard, played, link, pc, reply, turns, outbound, chunks>>
            /\ UNCHANGED replies
        BY <2>3 DEF vars, hearVars, streamVars, turnVars
      <3>2. Talks' /\ Said' = Said
        BY <3>1 DEF DownInv, Talks, Said
      <3>3. DownInv'
        BY <3>1, <3>2, QuietKeeps
      <3>4. QED
        BY <3>1, <3>3 DEF Downlink!channelVars
    <2>4. QED
      BY <2>1, <2>2, <2>3 DEF Next
  <1>3. QED
    BY <1>1, <1>2, InitDown, UpInvariant, PTL
    DEF Spec, DownlinkIsOneStream, Downlink!ChannelSpec
-----------------------------------------------------------------------------
(* The trace of a turn is closed before the loop reads on.                 *)
TraceInv ==
  /\ TraceTellsTheOutcome
  /\ pc = "hello" => trace # "running"
  /\ pc = "action" => trace = "completed"

(* No turn leaves its trace running, and a trace is complete only if the   *)
(* whole reply has been written, whichever stage or write fails            *)
(* (Pipeline.Run, gatewaySink).                                            *)
THEOREM TracesAreClosed == Spec => []TraceTellsTheOutcome
  <1>1. Init => TraceInv
    BY DEF Init, TraceInv, TraceTellsTheOutcome, Turn
  <1>2. TraceInv /\ [Next]_vars => TraceInv'
    <2> SUFFICES ASSUME TraceInv, [Next]_vars PROVE TraceInv'
      OBVIOUS
    <2> USE DEF TraceInv, TraceTellsTheOutcome, Turn
    <2>1. CASE DeviceSends \/ Hear \/ UNCHANGED vars
      <3>1. UNCHANGED <<pc, trace, outbound>>
        BY <2>1 DEF DeviceSends, SendStart, SendFrame, SendStop, SendOther, Forget,
             LoseLink, Send, Hear, vars, turnVars
      <3>2. QED
        BY <3>1
    <2>2. CASE Serve
      <3>1. /\ pc \in {"read", "hello"}
            /\ \/ UNCHANGED <<trace, outbound>> /\ pc' \in {"read", "hello", "returned"}
               \/ trace' = "running" /\ outbound' = 0 /\ pc' = "asr"
        BY <2>2 DEF Serve, ReadFails, ReadPing, ReadClose, ReadHello, ConfigSnapshot,
             ReadOther, ReadStart, ReadBinary, ReadStop, StopMismatch, StopAccepted,
             TurnBegins, ReadFrame, Returns, ErrorEvent, streamVars, turnVars
      <3>2. QED
        BY <3>1
    <2>3. CASE RunTurn
      <3>1. CASE SinkFails \/ ProviderFails
        <4>1. pc' = "failed" /\ trace' = "failed"
          BY <3>1 DEF SinkFails, ProviderFails, TurnFails
        <4>2. QED
          BY <4>1
      <3>2. CASE Transcribe \/ OnASRFinal \/ OnLLMDelta \/ ReplyEnds \/ OnLLMDone
                 \/ OnTTSStart \/ OnTTSChunk \/ SpeechEnds
        <4>1. CASE SinkFails
          BY <3>1, <4>1
        <4>2. CASE ~SinkFails
          <5>1. /\ pc \in {"asr", "asrFinal", "llm", "llmDone", "ttsStart", "tts"}
                /\ UNCHANGED trace
                /\ pc' \in {"asrFinal", "llm", "llmDone", "ttsStart", "tts", "ttsStop"}
            BY <3>2, <4>2 DEF Transcribe, OnASRFinal, OnLLMDelta, ReplyEnds, OnLLMDone,
                 OnTTSStart, OnTTSChunk, SpeechEnds, At, Goes, turnVars
          <5>2. QED
            BY <5>1
        <4>3. QED
          BY <4>1, <4>2
      <3>3. CASE OnTTSStop
        <4>1. SinkFails \/ (pc' = "action" /\ outbound' = 0 /\ trace' = "completed")
          BY <3>3 DEF OnTTSStop, Goes
        <4>2. QED
          BY <3>1, <4>1
      <3>4. CASE OnAction \/ PipelineFailed
        <4>1. /\ pc \in {"action", "failed"} /\ UNCHANGED <<trace, outbound>>
              /\ pc' \in {"read", "failed"}
          BY <3>4 DEF OnAction, PipelineFailed, At, Goes, turnVars
        <4>2. QED
          BY <4>1
      <3>5. QED
        BY <2>3, <3>1, <3>2, <3>3, <3>4 DEF RunTurn
    <2>4. QED
      BY <2>1, <2>2, <2>3 DEF Next
  <1>3. TraceInv => TraceTellsTheOutcome
    BY DEF TraceInv
  <1>4. QED
    BY <1>1, <1>2, <1>3, PTL DEF Spec
-----------------------------------------------------------------------------
(***************************************************************************)
(* The types.  That the device never hears more outcomes than it has asked *)
(* for takes a count of the messages under way: of the stops on their way  *)
(* to the server and of the outcomes on their way back.                    *)
(***************************************************************************)
Loop == {"read", "hello", "returned"}

LinkType ==
  /\ link \in {"up", "down"} /\ pc \in Turn \cup Loop
  /\ Len(up) <= UpRoom
  /\ down \in Seq(Down) /\ Len(down) <= DownRoom

HearType ==
  /\ other \in 0 .. MaxOther
  /\ heard \in Nat /\ played \in Seq(Nat) /\ replies \in Seq(Seq(Nat))

ReplyType ==
  /\ helloSeen \in BOOLEAN
  /\ deltas \in 0 .. MaxDeltas /\ reply \in Nat /\ outbound \in Nat
  /\ chunks \in 0 .. MaxChunks
  /\ trace \in {"none", "running", "completed", "failed"}

(* There are n messages of these kinds in s: c[i] of them after the i-th.  *)
Counts(s, kinds, n) ==
  \E c \in [0 .. Len(s) -> Nat] :
    /\ c[0] = n /\ c[Len(s)] = 0
    /\ \A i \in 1 .. Len(s) :
         c[i - 1] = IF s[i].kind \in kinds THEN c[i] + 1 ELSE c[i]

Answering == IF pc \in Turn THEN 1 ELSE 0

(* Every stop under way, the turn being served and every outcome under way *)
(* is owed, and while the link is up nothing else is; there is an opening  *)
(* for whatever is owed.                                                   *)
Settles(n) == n <= owed /\ (link = "up" => n = owed)

Owing ==
  \E stops, outcomes \in Nat :
    /\ Counts(up, {"stop"}, stops) /\ Counts(down, Outcomes, outcomes)
    /\ Settles(stops + outcomes + Answering)

OwedInv ==
  /\ owed \in Nat /\ owed <= opened
  /\ sending # NoStream => owed < opened
  /\ Owing
-----------------------------------------------------------------------------
LEMMA CountsNone == ASSUME NEW kinds PROVE Counts(<<>>, kinds, 0)
  <1> DEFINE c == [i \in 0 .. 0 |-> 0]
  <1>1. c \in [0 .. Len(<<>>) -> Nat] /\ c[0] = 0 /\ c[Len(<<>>)] = 0
    OBVIOUS
  <1>2. 1 .. Len(<<>>) = {}
    OBVIOUS
  <1> HIDE DEF c
  <1>3. QED
    BY <1>1, <1>2 DEF Counts

(* A message that is sent is counted once, if it is of these kinds.        *)
LEMMA CountsAppend ==
  ASSUME NEW T, NEW s \in Seq(T), NEW m \in T, NEW kinds, NEW n \in Nat,
         Counts(s, kinds, n)
  PROVE  Counts(Append(s, m), kinds, IF m.kind \in kinds THEN n + 1 ELSE n)
  <1> DEFINE l == Len(s)
             b == IF m.kind \in kinds THEN 1 ELSE 0
  <1> PICK c \in [0 .. l -> Nat] :
             /\ c[0] = n /\ c[l] = 0
             /\ \A i \in 1 .. l : c[i - 1] = IF s[i].kind \in kinds THEN c[i] + 1 ELSE c[i]
    BY DEF Counts
  <1>1. l \in Nat /\ Len(Append(s, m)) = l + 1 /\ b \in {0, 1}
    OBVIOUS
  <1> DEFINE d == [i \in 0 .. l + 1 |-> IF i = l + 1 THEN 0 ELSE c[i] + b]
  <1>2. d \in [0 .. l + 1 -> Nat]
    BY <1>1
  <1>3. (\A i \in 0 .. l : d[i] = c[i] + b) /\ d[l + 1] = 0
    BY <1>1
  <1>4. d[0] = IF m.kind \in kinds THEN n + 1 ELSE n
    BY <1>1, <1>3
  <1>5. \A i \in 1 .. l + 1 :
          d[i - 1] = IF Append(s, m)[i].kind \in kinds THEN d[i] + 1 ELSE d[i]
    <2> SUFFICES ASSUME NEW i \in 1 .. l + 1
                 PROVE  d[i - 1] = IF Append(s, m)[i].kind \in kinds
                                   THEN d[i] + 1 ELSE d[i]
      OBVIOUS
    <2>1. CASE i = l + 1
      <3>1. Append(s, m)[i] = m /\ i - 1 = l /\ l \in 0 .. l
        BY <1>1, <2>1
      <3>2. d[l] = c[l] + b /\ c[l] = 0 /\ d[l + 1] = 0
        BY <1>3, <3>1
      <3> HIDE DEF d
      <3>3. d[i - 1] = b /\ d[i] = 0
        BY <1>1, <2>1, <3>1, <3>2
      <3>4. QED
        BY <3>1, <3>3
    <2>2. CASE i # l + 1
      <3>1. i \in 1 .. l /\ i - 1 \in 0 .. l /\ i \in 0 .. l
        BY <1>1, <2>2
      <3>2. Append(s, m)[i] = s[i]
        BY <3>1
      <3>3. d[i - 1] = c[i - 1] + b /\ d[i] = c[i] + b /\ c[i] \in Nat
        BY <1>3, <3>1
      <3> HIDE DEF d
      <3>4. QED
        BY <1>1, <3>1, <3>2, <3>3
    <2>3. QED
      BY <2>1, <2>2
  <1> HIDE DEF d
  <1>6. QED
    BY <1>1, <1>2, <1>3, <1>4, <1>5 DEF Counts

(* A message that is taken is no longer counted.                           *)
LEMMA CountsTail ==
  ASSUME NEW T, NEW s \in Seq(T), s # <<>>, NEW kinds, NEW n \in Nat,
         Counts(s, kinds, n)
  PROVE  \E j \in Nat : /\ Counts(Tail(s), kinds, j)
                        /\ n = IF Head(s).kind \in kinds THEN j + 1 ELSE j
  <1> DEFINE l == Len(s)
  <1> PICK c \in [0 .. l -> Nat] :
             /\ c[0] = n /\ c[l] = 0
             /\ \A i \in 1 .. l : c[i - 1] = IF s[i].kind \in kinds THEN c[i] + 1 ELSE c[i]
    BY DEF Counts
  <1>1. l \in Nat \ {0} /\ Len(Tail(s)) = l - 1 /\ Head(s) = s[1]
    OBVIOUS
  <1> DEFINE d == [i \in 0 .. l - 1 |-> c[i + 1]]
  <1>2. d \in [0 .. l - 1 -> Nat]
    BY <1>1
  <1>3. \A i \in 0 .. l - 1 : d[i] = c[i + 1]
    OBVIOUS
  <1>4. c[1] \in Nat /\ d[0] = c[1] /\ d[l - 1] = 0
    BY <1>1, <1>3
  <1>5. \A i \in 1 .. l - 1 :
          d[i - 1] = IF Tail(s)[i].kind \in kinds THEN d[i] + 1 ELSE d[i]
    <2> SUFFICES ASSUME NEW i \in 1 .. l - 1
                 PROVE  d[i - 1] = IF Tail(s)[i].kind \in kinds
                                   THEN d[i] + 1 ELSE d[i]
      OBVIOUS
    <2>1. Tail(s)[i] = s[i + 1] /\ i + 1 \in 1 .. l /\ (i + 1) - 1 = i
      BY <1>1
    <2>2. d[i - 1] = c[i] /\ d[i] = c[i + 1]
      BY <1>1, <1>3
    <2>3. c[(i + 1) - 1] = IF s[i + 1].kind \in kinds THEN c[i + 1] + 1 ELSE c[i + 1]
      BY <2>1
    <2> HIDE DEF d
    <2>4. QED
      BY <2>1, <2>2, <2>3
  <1>6. n = IF Head(s).kind \in kinds THEN c[1] + 1 ELSE c[1]
    <2>1. c[1 - 1] = IF s[1].kind \in kinds THEN c[1] + 1 ELSE c[1]
      BY <1>1
    <2>2. QED
      BY <1>1, <2>1
  <1> HIDE DEF d
  <1>7. Counts(Tail(s), kinds, c[1])
    <2>1. /\ d \in [0 .. Len(Tail(s)) -> Nat]
          /\ d[0] = c[1] /\ d[Len(Tail(s))] = 0
          /\ \A i \in 1 .. Len(Tail(s)) :
               d[i - 1] = IF Tail(s)[i].kind \in kinds THEN d[i] + 1 ELSE d[i]
      BY <1>1, <1>2, <1>4, <1>5
    <2>2. QED
      BY <2>1, Zenon DEF Counts
  <1>8. QED
    BY <1>4, <1>6, <1>7
-----------------------------------------------------------------------------
(* What the server may have done to the messages towards the device.       *)
Appends(kinds) ==
  /\ Len(down) < DownRoom
  /\ \E m \in Down : m.kind \in kinds /\ down' = Append(down, m)

Wrote(kinds) == UNCHANGED down \/ Appends(kinds)

Notices == DownKinds \ Outcomes

(* An outcome is written, or the link is gone.                             *)
Answers == Appends(Outcomes) \/ (UNCHANGED down /\ link' = "down")

LinkStays == link' \in {link, "down"}

LEMMA WriteIsOne ==
  ASSUME NEW kinds, NEW kind \in kinds, kind \in DownKinds, NEW n \in Nat,
         WriteFrame(kind, n)
  PROVE  Wrote(kinds) /\ ((UNCHANGED down /\ link = "down") \/ Appends(kinds))
  <1> DEFINE m == [kind |-> kind, n |-> n]
  <1>1. m \in Down /\ m.kind = kind
    BY DEF Down
  <1>2. CASE down' = Append(down, m) /\ Len(down) < DownRoom
    <2> HIDE DEF m
    <2>1. QED
      BY <1>1, <1>2 DEF Wrote, Appends
  <1>3. CASE UNCHANGED down /\ link = "down"
    BY <1>3 DEF Wrote
  <1>4. QED
    BY <1>2, <1>3 DEF WriteFrame

(* Reading takes a stop exactly when it begins a turn or writes its        *)
(* outcome.                                                                *)
ServeShape ==
  /\ pc \in Loop /\ LinkStays /\ UNCHANGED <<deviceVars, hearVars>>
  /\ \/ UNCHANGED up /\ Wrote(Notices) /\ pc' \in Loop
     \/ /\ up # <<>> /\ up' = Tail(up) /\ Head(up).kind # "stop"
        /\ Wrote(Notices) /\ pc' \in Loop
     \/ /\ up # <<>> /\ up' = Tail(up) /\ Head(up).kind = "stop"
        /\ \/ Answers /\ pc' \in Loop
           \/ UNCHANGED down /\ pc' \in Turn

LEMMA ServesSo == Serve => ServeShape
  <1> SUFFICES ASSUME Serve PROVE ServeShape
    OBVIOUS
  <1> USE DEF Loop, LinkStays
  <1>1. /\ WriteFrame("event", 0) => Wrote(Notices)
        /\ WriteFrame("error", 0) => Wrote(Notices)
        /\ WriteFrame("stop_error", 0) /\ UNCHANGED link => Answers
    <2>1. /\ "event" \in Notices /\ "error" \in Notices /\ "stop_error" \in Outcomes
          /\ {"event", "error", "stop_error"} \subseteq DownKinds /\ 0 \in Nat
      BY DEF Notices, Outcomes, DownKinds
    <2>2. QED
      <3>1. /\ WriteFrame("event", 0) => Wrote(Notices)
            /\ WriteFrame("error", 0) => Wrote(Notices)
        BY <2>1, WriteIsOne
      <3>2. WriteFrame("stop_error", 0) =>
              (UNCHANGED down /\ link = "down") \/ Appends(Outcomes)
        BY <2>1, WriteIsOne
      <3>3. QED
        BY <3>1, <3>2 DEF Answers
  <1>2. UNCHANGED down => Wrote(Notices)
    BY DEF Wrote
  <1>3. CASE ReadFails \/ ConfigSnapshot
    BY <1>1, <1>2, <1>3
       DEF ReadFails, ConfigSnapshot, Returns, WriteFails, ServeShape
  <1>4. CASE ReadPing \/ ReadClose \/ ReadHello
    BY <1>1, <1>2, <1>4 DEF ReadPing, ReadClose, ReadHello, ReadFrame, Returns,
       WriteFails, ServeShape
  <1>5. CASE ReadOther \/ ReadStart \/ ReadBinary
    BY <1>1, <1>2, <1>5 DEF ReadOther, ReadStart, ReadBinary, ReadFrame,
       ErrorEvent, ServeShape
  <1>6. CASE ReadStop
    <2>1. \/ ErrorEvent("stop_error")
          \/ UNCHANGED <<link, down>> /\ pc' = "asr"
      BY <1>6 DEF ReadStop, StopMismatch, StopAccepted, TurnBegins
    <2>2. /\ pc = "read" /\ UNCHANGED <<deviceVars, hearVars>>
          /\ up # <<>> /\ up' = Tail(up) /\ Head(up).kind = "stop"
      BY <1>6 DEF ReadStop, ReadFrame
    <2>3. QED
      BY <1>1, <2>1, <2>2 DEF ErrorEvent, ServeShape, Turn
  <1>7. QED
    BY <1>3, <1>4, <1>5, <1>6 DEF Serve

(* A turn ends when it has written its outcome.                            *)
TurnShape ==
  /\ pc \in Turn /\ UNCHANGED <<link, up, deviceVars, hearVars>>
  /\ \/ Wrote(Notices) /\ pc' \in Turn
     \/ Answers /\ pc' \in Loop

LEMMA TurnsSo == ReplyType /\ RunTurn => TurnShape
  <1> SUFFICES ASSUME ReplyType, RunTurn PROVE TurnShape
    OBVIOUS
  <1> USE GatewayAssumption DEF Loop, Turn
  <1>0. UNCHANGED down => Wrote(Notices)
    BY DEF Wrote
  <1>1. pc \in Turn /\ UNCHANGED <<link, up, deviceVars, hearVars>>
    BY DEF RunTurn, Transcribe, ProviderFails, OnASRFinal, OnLLMDelta,
       ReplyEnds, OnLLMDone, OnTTSStart, OnTTSChunk, SpeechEnds, OnTTSStop,
       OnAction, PipelineFailed, At
  <1>2. CASE SinkFails \/ ProviderFails
    <2>1. UNCHANGED down /\ pc' = "failed"
      BY <1>2 DEF SinkFails, WriteFails, ProviderFails, TurnFails
    <2>2. QED
      BY <1>0, <1>1, <2>1 DEF TurnShape
  <1>3. CASE Transcribe \/ ReplyEnds \/ SpeechEnds
    <2>1. UNCHANGED down /\ pc' \in Turn
      BY <1>3 DEF Transcribe, ReplyEnds, SpeechEnds, Goes
    <2>2. QED
      BY <1>0, <1>1, <2>1 DEF TurnShape
  <1>4. CASE \/ OnASRFinal \/ OnLLMDelta \/ OnLLMDone
             \/ OnTTSStart \/ OnTTSChunk \/ OnTTSStop
    <2>1. ASSUME ~SinkFails
          PROVE  /\ pc' \in Turn
                 /\ \E kind \in Notices, n \in Nat : WriteFrame(kind, n)
      <3>1. /\ pc' \in Turn
            /\ \/ WriteFrame("event", 0) \/ WriteFrame("tts.start", reply)
               \/ WriteFrame("chunk", chunks + 1) \/ WriteFrame("tts.stop", chunks)
        BY <1>4, <2>1 DEF OnASRFinal, OnLLMDelta, OnLLMDone, OnTTSStart,
           OnTTSChunk, OnTTSStop, Goes
      <3>2. {0, reply, chunks, chunks + 1} \subseteq Nat
        BY DEF ReplyType
      <3>3. {"event", "tts.start", "chunk", "tts.stop"} \subseteq Notices
        BY DEF Notices, DownKinds, Outcomes
      <3>4. QED
        BY <3>1, <3>2, <3>3
    <2>2. CASE ~SinkFails
      <3>1. PICK kind \in Notices, n \in Nat : WriteFrame(kind, n)
        BY <2>1, <2>2
      <3>2. kind \in DownKinds
        BY DEF Notices
      <3>3. Wrote(Notices)
        BY <3>1, <3>2, WriteIsOne
      <3>4. QED
        BY <1>1, <2>1, <2>2, <3>3 DEF TurnShape
    <2>3. QED
      BY <1>2, <2>2
  <1>5. CASE OnAction \/ PipelineFailed
    <2>1. \/ UNCHANGED down /\ pc' = "failed"
          \/ WriteFrame("action", 0) /\ pc' = "read"
          \/ WriteFrame("stop_error", 0) /\ pc' = "read"
      BY <1>5 DEF OnAction, PipelineFailed, WriteFails, Goes
    <2>2. /\ WriteFrame("action", 0) => Answers
          /\ WriteFrame("stop_error", 0) => Answers
      <3>1. {"action", "stop_error"} \subseteq Outcomes \cap DownKinds /\ 0 \in Nat
        BY DEF Outcomes, DownKinds
      <3>2. QED
        <4>1. \A kind \in {"action", "stop_error"} : WriteFrame(kind, 0) =>
                (UNCHANGED down /\ link = "down") \/ Appends(Outcomes)
          BY <3>1, WriteIsOne
        <4>2. QED
          BY <1>1, <4>1 DEF Answers
    <2>3. QED
      BY <1>0, <1>1, <2>1, <2>2 DEF TurnShape
  <1>6. QED
    BY <1>2, <1>3, <1>4, <1>5 DEF RunTurn
-----------------------------------------------------------------------------
(* What is written for what is taken leaves the balance as it was.         *)
LEMMA Balance ==
  ASSUME NEW n \in Nat, NEW o \in Nat, NEW d \in Nat,
         NEW t \in {0, 1}, NEW w \in {0, 1}, NEW a \in {0, 1}, NEW b \in {0, 1},
         n + t + o + a <= d, w + b <= t + a
  PROVE  /\ n + (o + w) + b <= d
         /\ n + t + o + a = d /\ w + b = t + a => n + (o + w) + b = d
  OBVIOUS

(* A step that takes no stop without answering it, or beginning its turn,  *)
(* keeps what is owed.                                                     *)
LEMMA OwedMoves ==
  ASSUME OwedInv, up \in Seq(Up), down \in Seq(Down),
         UNCHANGED <<owed, opened, sending>>,
         NEW taken \in {0, 1}, NEW written \in {0, 1},
         \/ UNCHANGED up /\ taken = 0
         \/ /\ up # <<>> /\ up' = Tail(up)
            /\ taken = IF Head(up).kind = "stop" THEN 1 ELSE 0,
         \/ UNCHANGED down /\ written = 0
         \/ \E m \in Down : /\ down' = Append(down, m)
                            /\ written = IF m.kind \in Outcomes THEN 1 ELSE 0,
         written + Answering' <= taken + Answering,
         LinkStays, link' = "up" => written + Answering' = taken + Answering
  PROVE  OwedInv'
  <1> PICK stops, outcomes \in Nat :
             /\ Counts(up, {"stop"}, stops) /\ Counts(down, Outcomes, outcomes)
             /\ Settles(stops + outcomes + Answering)
    BY DEF OwedInv, Owing
  <1>1. PICK n \in Nat : Counts(up', {"stop"}, n) /\ stops = n + taken
    <2>1. CASE UNCHANGED up /\ taken = 0
      BY <2>1
    <2>2. CASE /\ up # <<>> /\ up' = Tail(up)
               /\ taken = IF Head(up).kind = "stop" THEN 1 ELSE 0
      <3>1. PICK j \in Nat :
              /\ Counts(Tail(up), {"stop"}, j)
              /\ stops = IF Head(up).kind \in {"stop"} THEN j + 1 ELSE j
        BY <2>2, CountsTail
      <3>2. QED
        BY <2>2, <3>1
    <2>3. QED
      BY <2>1, <2>2
  <1>2. Counts(down', Outcomes, outcomes + written)
    <2>1. CASE UNCHANGED down /\ written = 0
      BY <2>1
    <2>2. CASE \E m \in Down : /\ down' = Append(down, m)
                               /\ written = IF m.kind \in Outcomes THEN 1 ELSE 0
      <3> PICK m \in Down : /\ down' = Append(down, m)
                            /\ written = IF m.kind \in Outcomes THEN 1 ELSE 0
        BY <2>2
      <3>1. Counts(Append(down, m), Outcomes,
                   IF m.kind \in Outcomes THEN outcomes + 1 ELSE outcomes)
        BY CountsAppend
      <3>2. (IF m.kind \in Outcomes THEN outcomes + 1 ELSE outcomes)
              = outcomes + written
        OBVIOUS
      <3>3. QED
        BY <3>1, <3>2
    <2>3. QED
      BY <2>1, <2>2
  <1>3. Settles(n + (outcomes + written) + Answering)'
    <2>1. PICK a, b \in {0, 1} : a = Answering /\ b = Answering'
      BY Zenon DEF Answering
    <2>2. /\ n + taken + outcomes + a <= owed /\ owed' = owed /\ owed \in Nat
          /\ link' = "up" => n + taken + outcomes + a = owed
      BY <1>1, <2>1 DEF Settles, LinkStays, OwedInv
    <2>3. written + b <= taken + a /\ (link' = "up" => written + b = taken + a)
      BY <2>1, Zenon
    <2>4. /\ n + (outcomes + written) + b <= owed
          /\ link' = "up" => n + (outcomes + written) + b = owed
      BY <2>2, <2>3, Balance
    <2>5. QED
      BY <2>1, <2>2, <2>4, Zenon DEF Settles
  <1>4. Owing'
    <2>1. outcomes + written \in Nat
      OBVIOUS
    <2>2. Settles(n + (outcomes + written) + Answering)'
      BY <1>3
    <2>3. QED
      BY <1>1, <1>2, <2>1, <2>2 DEF Owing
  <1>5. QED
    BY <1>4 DEF OwedInv

LEMMA OwedServing ==
  ASSUME OwedInv, up \in Seq(Up), down \in Seq(Down), ServeShape \/ TurnShape
  PROVE  OwedInv'
  <1> USE DEF deviceVars, hearVars
  <1>0. PICK before, after \in 0 .. 1 : before = Answering /\ after = Answering'
    <2>1. Answering \in 0 .. 1 /\ Answering' \in 0 .. 1
      BY DEF Answering
    <2>2. QED
      BY <2>1, Zenon
  <1>1. /\ pc \in Loop => before = 0
        /\ pc' \in Loop => after = 0
        /\ pc \in Turn => before = 1
        /\ pc' \in Turn => after = 1
    <2>1. /\ pc \in Loop => Answering = 0
          /\ pc' \in Loop => Answering' = 0
          /\ pc \in Turn => Answering = 1
          /\ pc' \in Turn => Answering' = 1
      BY DEF Loop, Turn, Answering
    <2>2. QED
      BY <1>0, <2>1, Zenon
  <1>2. UNCHANGED <<owed, opened, sending>>
    BY DEF ServeShape, TurnShape
  <1>3. PICK taken \in 0 .. 1 :
          /\ \/ UNCHANGED up /\ taken = 0
             \/ /\ up # <<>> /\ up' = Tail(up)
                /\ taken = IF Head(up).kind = "stop" THEN 1 ELSE 0
          /\ \/ Wrote(Notices) /\ after = taken + before
             \/ Answers /\ 1 + after = taken + before
    <2>1. CASE TurnShape
      BY <1>1, <2>1 DEF TurnShape
    <2>2. CASE ServeShape /\ UNCHANGED up
      BY <1>1, <2>2 DEF ServeShape
    <2>3. CASE ServeShape /\ up # <<>> /\ up' = Tail(up) /\ Head(up).kind # "stop"
      BY <1>1, <2>3 DEF ServeShape
    <2>4. CASE ServeShape /\ up # <<>> /\ up' = Tail(up) /\ Head(up).kind = "stop"
      <3>1. \/ Answers /\ pc' \in Loop
            \/ UNCHANGED down /\ pc' \in Turn
        BY <2>4 DEF ServeShape
      <3>2. before = 0
        BY <1>1, <2>4 DEF ServeShape
      <3>3. UNCHANGED down => Wrote(Notices)
        BY DEF Wrote
      <3>4. QED
        BY <1>1, <2>4, <3>1, <3>2, <3>3
    <2>5. QED
      BY <2>1, <2>2, <2>3, <2>4 DEF ServeShape
  <1>4. \/ Wrote(Notices) /\ after = taken + before
        \/ Answers /\ 1 + after = taken + before
    BY <1>3
  <1>5. PICK written \in 0 .. 1 :
          /\ \/ UNCHANGED down /\ written = 0
             \/ \E m \in Down : /\ down' = Append(down, m)
                                /\ written = IF m.kind \in Outcomes THEN 1 ELSE 0
          /\ written + after <= taken + before
          /\ link' = "up" => written + after = taken + before
    <2>1. CASE UNCHANGED down /\ after = taken + before
      BY <2>1
    <2>2. CASE Appends(Notices) /\ after = taken + before
      BY <2>2 DEF Appends, Notices
    <2>3. CASE Appends(Outcomes) /\ 1 + after = taken + before
      BY <2>3 DEF Appends
    <2>4. CASE UNCHANGED down /\ link' = "down" /\ 1 + after = taken + before
      BY <2>4
    <2>5. QED
      BY <1>4, <2>1, <2>2, <2>3, <2>4, Zenon DEF Wrote, Answers
  <1>6. /\ written + Answering' <= taken + Answering
        /\ link' = "up" => written + Answering' = taken + Answering
    BY <1>0, <1>5, Zenon
  <1>7. taken \in {0, 1} /\ written \in {0, 1} /\ LinkStays
    BY DEF ServeShape, TurnShape, LinkStays
  <1>8. QED
    BY <1>7, <1>2, <1>3, <1>5, <1>6, OwedMoves

LEMMA OwedHearing ==
  ASSUME OwedInv, opened \in Nat, down \in Seq(Down), Hear PROVE OwedInv'
  <1> PICK stops, outcomes \in Nat :
             /\ Counts(up, {"stop"}, stops) /\ Counts(down, Outcomes, outcomes)
             /\ Settles(stops + outcomes + Answering)
    BY DEF OwedInv, Owing
  <1>1. /\ down # <<>> /\ down' = Tail(down)
        /\ owed' = IF Head(down).kind \in Outcomes THEN owed - 1 ELSE owed
        /\ UNCHANGED <<link, up, opened, sending, pc>>
    BY DEF Hear, Outcomes, deviceVars
  <1>2. PICK j \in Nat :
          /\ Counts(Tail(down), Outcomes, j)
          /\ outcomes = IF Head(down).kind \in Outcomes THEN j + 1 ELSE j
    BY <1>1, CountsTail
  <1>3. owed \in Nat /\ Answering \in Nat /\ Answering' = Answering
    BY <1>1 DEF OwedInv, Answering
  <1>4. owed' \in Nat /\ owed' <= owed /\ Settles(stops + j + Answering)'
    BY <1>1, <1>2, <1>3 DEF Settles
  <1>5. Owing'
    BY <1>1, <1>2, <1>4 DEF Owing
  <1>6. QED
    BY <1>1, <1>3, <1>4, <1>5 DEF OwedInv

LEMMA OwedSending ==
  ASSUME OwedInv, up \in Seq(Up), opened \in Nat, up' \in Seq(Up), DeviceSends
  PROVE  OwedInv'
  <1> USE GatewayAssumption
  <1> PICK stops, outcomes \in Nat :
             /\ Counts(up, {"stop"}, stops) /\ Counts(down, Outcomes, outcomes)
             /\ Settles(stops + outcomes + Answering)
    BY DEF OwedInv, Owing
  <1>1. UNCHANGED pc /\ Answering' = Answering /\ Answering \in Nat /\ owed \in Nat
    <2>1. UNCHANGED pc
      BY DEF DeviceSends, SendStart, SendFrame, SendStop, SendOther, Forget,
         LoseLink, Send
    <2>2. QED
      BY <2>1 DEF OwedInv, Answering
  <1>2. ASSUME LoseLink \/ Forget PROVE OwedInv'
    <2>1. Counts(<<>>, Outcomes, 0)
      BY CountsNone
    <2>2. /\ UNCHANGED <<up, owed, opened>> /\ (sending' # NoStream => sending # NoStream)
          /\ (down' = <<>> /\ link' = "down") \/ UNCHANGED <<link, down>>
      BY <1>2 DEF LoseLink, Forget, deviceVars, hearVars
    <2>5. Owing'
      <3>1. CASE down' = <<>> /\ link' = "down"
        <4>1. Settles(stops + 0 + Answering)'
          BY <1>1, <2>2, <3>1 DEF Settles
        <4>2. QED
          BY <2>1, <2>2, <3>1, <4>1 DEF Owing
      <3>2. CASE UNCHANGED <<link, down>>
        <4>1. Settles(stops + outcomes + Answering)'
          BY <1>1, <2>2, <3>2 DEF Settles
        <4>2. QED
          BY <2>2, <3>2, <4>1 DEF Owing
      <3>3. QED
        BY <2>2, <3>1, <3>2
    <2>6. QED
      BY <2>2, <2>5 DEF OwedInv
  <1>3. ASSUME NEW kind \in UpKinds, NEW id \in Streams \cup {NoStream},
               NEW frame \in Frames \cup {<<>>}, NEW last \in 0 .. MaxFrames,
               Send(kind, id, frame, last),
               owed' = IF kind = "stop" THEN owed + 1 ELSE owed
        PROVE  Owing'
    <2> DEFINE m == [kind |-> kind, id |-> id, frame |-> frame, last |-> last]
    <2>1. m \in Up /\ m.kind = kind
      BY DEF Up
    <2>2. up' = Append(up, m) /\ UNCHANGED <<link, down>>
      BY <1>3 DEF Send
    <2> HIDE DEF m
    <2>3. Counts(Append(up, m), {"stop"}, IF m.kind \in {"stop"} THEN stops + 1 ELSE stops)
      BY <2>1, CountsAppend
    <2>4. PICK k \in Nat : /\ Counts(up', {"stop"}, k)
                           /\ Settles(k + outcomes + Answering)'
      BY <1>1, <1>3, <2>1, <2>2, <2>3 DEF Settles
    <2>5. QED
      BY <2>2, <2>4 DEF Owing
  <1>4. ASSUME NEW id \in Streams, SendStart(id) PROVE OwedInv'
    <2>1. Send("start", id, <<>>, 0) /\ opened' = opened + 1 /\ UNCHANGED owed
      BY <1>4 DEF SendStart, hearVars
    <2>2. /\ "start" \in UpKinds /\ 0 \in 0 .. MaxFrames
          /\ owed' = IF "start" = "stop" THEN owed + 1 ELSE owed
      BY <2>1 DEF UpKinds
    <2>3. Owing'
      BY <1>3, <2>1, <2>2
    <2>4. QED
      BY <1>1, <2>1, <2>3 DEF OwedInv
  <1>5. ASSUME SendFrame PROVE OwedInv'
    <2>1. /\ UNCHANGED <<owed, opened, sending>>
          /\ up' = Append(up, [kind |-> "frame", id |-> NoStream,
                               frame |-> <<opened, sent[opened] + 1>>, last |-> 0])
          /\ UNCHANGED <<link, down>>
      BY <1>5 DEF SendFrame, Send, hearVars
    <2> DEFINE m == up'[Len(up) + 1]
    <2>2. m.kind = "frame"
      BY <2>1
    <2>3. m \in Up /\ up' = Append(up, m)
      <3>1. Len(up') = Len(up) + 1 /\ Len(up) \in Nat
        BY <2>1
      <3>2. QED
        BY <2>1, <3>1
    <2> HIDE DEF m
    <2>4. Counts(up', {"stop"}, stops)
      BY <2>2, <2>3, CountsAppend
    <2>5. Owing'
      BY <1>1, <2>1, <2>4 DEF Owing, Settles
    <2>6. QED
      BY <2>1, <2>5 DEF OwedInv
  <1>6. ASSUME SendStop PROVE OwedInv'
    <2>1. /\ sending # NoStream /\ sending' = NoStream
          /\ owed' = owed + 1 /\ UNCHANGED <<link, opened, down>>
          /\ up' = Append(up, [kind |-> "stop", id |-> sending,
                               frame |-> <<>>, last |-> sent[opened]])
      BY <1>6 DEF SendStop, Send
    <2> DEFINE m == up'[Len(up) + 1]
    <2>2. m.kind = "stop"
      BY <2>1
    <2>3. m \in Up /\ up' = Append(up, m)
      <3>1. Len(up') = Len(up) + 1 /\ Len(up) \in Nat
        BY <2>1
      <3>2. QED
        BY <2>1, <3>1
    <2> HIDE DEF m
    <2>4. Counts(up', {"stop"}, stops + 1)
      BY <2>2, <2>3, CountsAppend
    <2>5. stops + 1 \in Nat /\ Settles((stops + 1) + outcomes + Answering)'
      BY <1>1, <2>1 DEF Settles
    <2>6. Owing'
      BY <2>1, <2>4, <2>5 DEF Owing
    <2>7. owed + 1 <= opened
      BY <1>1, <2>1 DEF OwedInv
    <2>8. QED
      BY <1>1, <2>1, <2>6, <2>7 DEF OwedInv
  <1>7. ASSUME NEW kind \in {"hello", "ping", "other", "close"}, SendOther(kind)
        PROVE  OwedInv'
    <2>1. /\ Send(kind, NoStream, <<>>, 0) /\ UNCHANGED <<owed, opened, sending>>
      BY <1>7 DEF SendOther, hearVars
    <2>2. /\ kind \in UpKinds /\ 0 \in 0 .. MaxFrames
          /\ owed' = IF kind = "stop" THEN owed + 1 ELSE owed
      BY <2>1 DEF UpKinds
    <2>3. Owing'
      BY <1>3, <2>1, <2>2
    <2>4. QED
      BY <2>1, <2>3 DEF OwedInv
  <1>8. QED
    BY <1>2, <1>4, <1>5, <1>6, <1>7 DEF DeviceSends
-----------------------------------------------------------------------------
Types == LinkType /\ HearType /\ ReplyType

LEMMA WroteTyped ==
  ASSUME NEW kinds, down \in Seq(Down), Len(down) <= DownRoom, Wrote(kinds)
  PROVE  down' \in Seq(Down) /\ Len(down') <= DownRoom
  <1> USE GatewayAssumption
  <1>1. CASE UNCHANGED down
    BY <1>1
  <1>2. ASSUME NEW m \in Down, down' = Append(down, m), Len(down) < DownRoom
        PROVE  down' \in Seq(Down) /\ Len(down') <= DownRoom
    BY <1>2
  <1>3. QED
    BY <1>1, <1>2 DEF Wrote, Appends

(* What a stage makes of the reply.                                        *)
LEMMA ReplyTyped == ReplyType /\ RunTurn => ReplyType'
  <1> SUFFICES ASSUME ReplyType, RunTurn PROVE ReplyType'
    OBVIOUS
  <1> USE GatewayAssumption DEF ReplyType
  <1>0. UNCHANGED helloSeen
    BY DEF RunTurn, Transcribe, ProviderFails, OnASRFinal, OnLLMDelta,
       ReplyEnds, OnLLMDone, OnTTSStart, OnTTSChunk, SpeechEnds, OnTTSStop,
       OnAction, PipelineFailed, At
  <1>1. CASE SinkFails \/ ProviderFails
    <2>1. trace' = "failed" /\ UNCHANGED <<deltas, reply, outbound, chunks>>
      BY <1>1 DEF SinkFails, ProviderFails, TurnFails
    <2>2. QED
      BY <1>0, <2>1
  <1>2. CASE UNCHANGED turnVars
    BY <1>0, <1>2 DEF turnVars
  <1>3. CASE OnASRFinal
    BY <1>1, <1>2, <1>3 DEF OnASRFinal
  <1>4. CASE OnLLMDelta
    <2>1. CASE ~SinkFails
      <3>1. /\ deltas < MaxDeltas /\ deltas' = deltas + 1
            /\ UNCHANGED <<reply, outbound, chunks, trace>>
        BY <1>4, <2>1 DEF OnLLMDelta
      <3>2. QED
        BY <1>0, <3>1
    <2>2. QED
      BY <1>1, <2>1
  <1>5. CASE OnLLMDone
    <2>1. CASE ~SinkFails
      <3>1. reply' = reply + 1 /\ UNCHANGED <<deltas, outbound, chunks, trace>>
        BY <1>5, <2>1 DEF OnLLMDone
      <3>2. QED
        BY <1>0, <3>1
    <2>2. QED
      BY <1>1, <2>1
  <1>6. CASE OnTTSStart
    <2>1. CASE ~SinkFails
      <3>1. outbound' = reply /\ UNCHANGED <<deltas, reply, chunks, trace>>
        BY <1>6, <2>1 DEF OnTTSStart
      <3>2. QED
        BY <1>0, <3>1
    <2>2. QED
      BY <1>1, <2>1
  <1>7. CASE OnTTSChunk
    <2>1. CASE ~SinkFails
      <3>1. /\ chunks < MaxChunks /\ chunks' = chunks + 1
            /\ UNCHANGED <<deltas, reply, outbound, trace>>
        BY <1>7, <2>1 DEF OnTTSChunk
      <3>2. QED
        BY <1>0, <3>1
    <2>2. QED
      BY <1>1, <2>1
  <1>8. CASE OnTTSStop
    <2>1. CASE ~SinkFails
      <3>1. /\ outbound' = 0 /\ trace' = "completed"
            /\ UNCHANGED <<deltas, reply, chunks>>
        BY <1>8, <2>1 DEF OnTTSStop
      <3>2. QED
        BY <1>0, <3>1
    <2>2. QED
      BY <1>1, <2>1
  <1>9. CASE Transcribe \/ ReplyEnds \/ SpeechEnds \/ OnAction \/ PipelineFailed
    <2>1. UNCHANGED turnVars
      BY <1>9 DEF Transcribe, ReplyEnds, SpeechEnds, OnAction, PipelineFailed
    <2>2. QED
      BY <1>2, <2>1
  <1>10. QED
    BY <1>1, <1>3, <1>4, <1>5, <1>6, <1>7, <1>8, <1>9 DEF RunTurn

(* A message heard has a number, and what is played is made of these.      *)
LEMMA HearTyped ==
  ASSUME HearType, down \in Seq(Down), Hear PROVE HearType'
  <1>1. PICK m \in Down : m = Head(down)
    BY DEF Hear
  <1>2. m.n \in Nat
    BY DEF Down
  <1>3. heard' \in Nat
    <2>1. heard' \in {m.n, 0, heard}
      BY <1>1 DEF Hear
    <2>2. QED
      BY <1>2, <2>1 DEF HearType
  <1>4. played' \in Seq(Nat)
    <2>1. played' = <<>> \/ played' = Append(played, m.n) \/ played' = played
      BY <1>1 DEF Hear
    <2>2. played \in Seq(Nat) /\ Append(played, m.n) \in Seq(Nat) /\ <<>> \in Seq(Nat)
      BY <1>2 DEF HearType
    <2>3. QED
      BY <2>1, <2>2
  <1>5. replies' \in Seq(Seq(Nat))
    <2>1. replies' = Append(replies, played) \/ replies' = replies
      BY DEF Hear
    <2>2. replies \in Seq(Seq(Nat)) /\ Append(replies, played) \in Seq(Seq(Nat))
      BY DEF HearType
    <2>3. QED
      BY <2>1, <2>2
  <1>6. UNCHANGED other
    BY DEF Hear, deviceVars
  <1>7. QED
    BY <1>3, <1>4, <1>5, <1>6 DEF HearType

LEMMA TypesKeep ==
  ASSUME UpInv, Types, [Next]_vars PROVE Types'
  <1> USE GatewayAssumption DEF Types
  <1>0. up \in Seq(Up)
    BY DEF UpInv, DeviceInv
  <1>1. CASE DeviceSends
    <2>1. UNCHANGED <<pc, streamVars, turnVars>>
      BY <1>1 DEF DeviceSends, SendStart, SendFrame, SendStop, SendOther,
         Forget, LoseLink, Send
    <2>2. ReplyType'
      BY <2>1 DEF ReplyType, streamVars, turnVars
    <2>3. HearType'
      <3>1. /\ UNCHANGED <<heard, played, replies>>
            /\ UNCHANGED other \/ (other < MaxOther /\ other' = other + 1)
        BY <1>1 DEF DeviceSends, SendStart, SendFrame, SendStop, SendOther,
           Forget, LoseLink, deviceVars, hearVars
      <3>2. other' \in 0 .. MaxOther
        BY <3>1 DEF HearType
      <3>3. heard' \in Nat /\ played' \in Seq(Nat) /\ replies' \in Seq(Seq(Nat))
        BY <3>1 DEF HearType
      <3>4. QED
        BY <3>2, <3>3 DEF HearType
    <2>4. LinkType'
      <3>1. CASE Forget \/ LoseLink
        <4>1. /\ link = "up" /\ UNCHANGED <<pc, up>>
              /\ \/ link' = link /\ down' = down
                 \/ link' = "down" /\ down' = <<>>
          <5>1. CASE Forget
            BY <5>1 DEF Forget
          <5>2. CASE LoseLink
            BY <5>2 DEF LoseLink
          <5>3. QED
            BY <3>1, <5>1, <5>2
        <4>2. down' \in Seq(Down) /\ Len(down') <= DownRoom
          <5>1. CASE down' = down
            BY <5>1 DEF LinkType
          <5>2. CASE down' = <<>>
            BY <5>2
          <5>3. QED
            BY <4>1, <5>1, <5>2
        <4>3. QED
          BY <4>1, <4>2 DEF LinkType
      <3>2. CASE ~(Forget \/ LoseLink)
        <4>1. /\ UNCHANGED <<link, pc, down>> /\ Len(up) < UpRoom
              /\ \E m : up' = Append(up, m)
          BY <1>1, <3>2 DEF DeviceSends, SendStart, SendFrame, SendStop,
             SendOther, Send
        <4>2. Len(up') <= UpRoom
          BY <1>0, <4>1
        <4>3. QED
          BY <4>1, <4>2 DEF LinkType
      <3>3. QED
        BY <3>1, <3>2
    <2>5. QED
      BY <2>2, <2>3, <2>4
  <1>2. CASE Hear
    <2>1. ReplyType'
      BY <1>2 DEF Hear, ReplyType, streamVars, turnVars
    <2>2. HearType'
      BY <1>2, HearTyped DEF LinkType
    <2>3. LinkType'
      BY <1>2 DEF Hear, LinkType
    <2>4. QED
      BY <2>1, <2>2, <2>3
  <1>3. CASE Serve \/ RunTurn
    <2>1. ServeShape \/ TurnShape
      BY <1>3, ServesSo, TurnsSo
    <2>2. HearType'
      BY <2>1 DEF ServeShape, TurnShape, HearType, deviceVars, hearVars
    <2>3. LinkType'
      <3>1. link' \in {"up", "down"}
        BY <1>3 DEF Serve, ReadFails, ReadPing, ReadClose, ReadHello,
           ConfigSnapshot, ReadOther, ReadStart, ReadBinary, ReadStop,
           StopMismatch, StopAccepted, TurnBegins, Returns, ErrorEvent,
           RunTurn, Transcribe, ProviderFails, OnASRFinal, OnLLMDelta,
           ReplyEnds, OnLLMDone, OnTTSStart, OnTTSChunk, SpeechEnds, OnTTSStop,
           OnAction, PipelineFailed, At, LinkType
      <3>2. down' \in Seq(Down) /\ Len(down') <= DownRoom
        <4>1. Wrote(Notices) \/ Wrote(Outcomes)
          BY <2>1 DEF ServeShape, TurnShape, Wrote, Answers
        <4>2. QED
          BY <4>1, WroteTyped DEF LinkType
      <3>3. Len(up') <= UpRoom
        <4>1. UNCHANGED up \/ (up # <<>> /\ up' = Tail(up))
          BY <2>1 DEF ServeShape, TurnShape
        <4>2. QED
          BY <1>0, <4>1 DEF LinkType
      <3>4. pc' \in Turn \cup Loop
        BY <2>1 DEF ServeShape, TurnShape
      <3>5. QED
        BY <3>1, <3>2, <3>3, <3>4 DEF LinkType
    <2>4. ReplyType'
      <3>1. CASE RunTurn
        BY <3>1, ReplyTyped
      <3>2. CASE Serve
        <4>1. /\ UNCHANGED helloSeen \/ helloSeen' = TRUE
              /\ UNCHANGED reply
              /\ \/ UNCHANGED <<deltas, outbound, chunks, trace>>
                 \/ deltas' = 0 /\ outbound' = 0 /\ chunks' = 0 /\ trace' = "running"
          BY <3>2 DEF Serve, ReadFails, ReadPing, ReadClose, ReadHello,
             ConfigSnapshot, ReadOther, ReadStart, ReadBinary, ReadStop,
             StopMismatch, StopAccepted, TurnBegins, Returns, streamVars, turnVars
        <4>2. helloSeen' \in BOOLEAN /\ reply' \in Nat
          BY <4>1 DEF ReplyType
        <4>3. CASE UNCHANGED <<deltas, outbound, chunks, trace>>
          BY <4>2, <4>3 DEF ReplyType
        <4>4. CASE deltas' = 0 /\ outbound' = 0 /\ chunks' = 0 /\ trace' = "running"
          BY <4>2, <4>4 DEF ReplyType
        <4>5. QED
          BY <4>1, <4>3, <4>4
      <3>3. QED
        BY <1>3, <3>1, <3>2
    <2>5. QED
      BY <2>2, <2>3, <2>4
  <1>4. CASE UNCHANGED vars
    <2>1. /\ UNCHANGED <<link, up, down, pc, other, heard, played, replies>>
          /\ UNCHANGED <<helloSeen, deltas, reply, outbound, chunks, trace>>
      BY <1>4 DEF vars, deviceVars, hearVars, streamVars, turnVars
    <2>2. QED
      BY <2>1 DEF LinkType, HearType, ReplyType
  <1>5. QED
    BY <1>1, <1>2, <1>3, <1>4 DEF Next

LEMMA OwedKeeps ==
  ASSUME UpInv, UpInv', Types, OwedInv, [Next]_vars PROVE OwedInv'
  <1>1. /\ up \in Seq(Up) /\ down \in Seq(Down) /\ opened \in Nat
        /\ up' \in Seq(Up)
    BY GatewayAssumption DEF UpInv, DeviceInv, Types, LinkType
  <1>2. CASE UNCHANGED vars
    <2>1. UNCHANGED <<link, up, down, pc, owed, opened, sending>>
      BY <1>2 DEF vars, deviceVars, hearVars
    <2>2. QED
      BY <2>1 DEF OwedInv, Owing, Answering, Settles
  <1>3. QED
    BY <1>1, <1>2, OwedSending, OwedHearing, OwedServing, ServesSo, TurnsSo
       DEF Next, Types

(* The types and the balance, from which both theorems follow.             *)
LEMMA OwedHolds == Spec => [](Types /\ OwedInv)
  <1>1. Init => Types /\ OwedInv
    <2> SUFFICES ASSUME Init PROVE Types /\ OwedInv
      OBVIOUS
    <2> USE GatewayAssumption DEF Init
    <2>1. Types
      <3>1. LinkType
        BY DEF LinkType, Loop
      <3>2. HearType
        <4>1. other \in 0 .. MaxOther /\ heard \in Nat
          OBVIOUS
        <4>2. played \in Seq(Nat) /\ replies \in Seq(Seq(Nat))
          OBVIOUS
        <4>3. QED
          BY <4>1, <4>2 DEF HearType
      <3>3. ReplyType
        <4>1. /\ 0 \in 0 .. MaxDeltas /\ 0 \in 0 .. MaxChunks /\ 0 \in Nat
              /\ FALSE \in BOOLEAN
              /\ "none" \in {"none", "running", "completed", "failed"}
          OBVIOUS
        <4>2. QED
          BY <4>1, Zenon DEF ReplyType
      <3>4. QED
        BY <3>1, <3>2, <3>3 DEF Types
    <2>2. Answering = 0
      BY DEF Answering, Turn
    <2>3. Counts(up, {"stop"}, 0) /\ Counts(down, Outcomes, 0)
      BY CountsNone
    <2>4. Owing
      BY <2>2, <2>3 DEF Owing, Settles
    <2>5. QED
      BY <2>1, <2>4 DEF OwedInv
  <1>2. UpInv /\ UpInv' /\ Types /\ OwedInv /\ [Next]_vars => Types' /\ OwedInv'
    BY TypesKeep, OwedKeeps
  <1>3. QED
    BY <1>1, <1>2, UpInvariant, PTL DEF Spec

(* The session keeps its types, the room of the connection and of its      *)
(* reply included; above all the device never hears the outcome of an      *)
(* audio.stop it has not sent, nor two of one, however its messages are    *)
(* refused, its turns fail or the link is lost (handler.go,                *)
(* handleAudioStop).                                                       *)
THEOREM TypeCorrect == Spec => []TypeOK
  <1>1. UpInv /\ Types /\ OwedInv => TypeOK
    <2> SUFFICES ASSUME UpInv, Types, OwedInv PROVE TypeOK
      OBVIOUS
    <2>1. owed \in 0 .. MaxOpenings
      BY GatewayAssumption DEF OwedInv, UpInv, DeviceInv
    <2>2. DeviceInv /\ ServerType
      BY DEF UpInv
    <2>3. QED
      BY <2>1, <2>2
         DEF TypeOK, Types, LinkType, HearType, ReplyType, Loop, DeviceInv, ServerType
  <1>2. QED
    BY <1>1, OwedHolds, UpInvariant, PTL

(* Without a message of these kinds the count is zero: it is so after the  *)
(* last one, and no message changes it.                                    *)
LEMMA CountsNever ==
  ASSUME NEW s, Len(s) \in Nat, NEW kinds, NEW n \in Nat, Counts(s, kinds, n),
         \A i \in 1 .. Len(s) : s[i].kind \notin kinds
  PROVE  n = 0
  <1> DEFINE l == Len(s)
  <1> PICK c \in [0 .. l -> Nat] :
             /\ c[0] = n /\ c[l] = 0
             /\ \A i \in 1 .. l : c[i - 1] = IF s[i].kind \in kinds THEN c[i] + 1 ELSE c[i]
    BY DEF Counts
  <1>1. \A i \in 1 .. l : c[i - 1] = c[i]
    OBVIOUS
  <1> SUFFICES ASSUME n # 0 PROVE FALSE
    OBVIOUS
  <1> DEFINE R == OpToRel(<, Nat)
             Left == {k \in 0 .. l : c[l - k] # 0}
  <1>2. \A x, y \in Nat : y < x => <<y, x>> \in R
    BY DEF OpToRel
  <1>3. IsWellFoundedOn(R, Nat)
    BY NatLessThanWellFounded
  <1>4. Left \in SUBSET Nat /\ Left # {}
    <2>1. l \in Left
      OBVIOUS
    <2>2. Left \subseteq 0 .. l
      BY Zenon
    <2>3. 0 .. l \subseteq Nat
      OBVIOUS
    <2> HIDE DEF Left
    <2>4. QED
      BY <2>1, <2>2, <2>3
  <1> HIDE DEF R, Left
  <1>5. PICK k \in Left : \A y \in Left : ~(<<y, k>> \in R)
    BY <1>3, <1>4, WFMin
  <1>6. k \in 0 .. l /\ c[l - k] # 0 /\ k # 0
    BY <1>5 DEF Left
  <1>7. l - k + 1 \in 1 .. l /\ l - (k - 1) = l - k + 1 /\ (l - k + 1) - 1 = l - k
    BY <1>6
  <1>8. k - 1 \in 0 .. l /\ c[l - (k - 1)] # 0
    BY <1>1, <1>6, <1>7
  <1>9. k - 1 \in Left
    BY <1>8 DEF Left
  <1>10. k \in Nat /\ k - 1 \in Nat /\ k - 1 < k
    BY <1>6
  <1>11. QED
    BY <1>2, <1>5, <1>9, <1>10

(* No audio.stop is forgotten (handler.go, handleAudioStop, and the        *)
(* returns of Pipeline.Run): the safe half of StopIsAnswered.              *)
THEOREM StopsAreAccounted == Spec => []OwedIsUnderWay
  <1>1. Types /\ OwedInv /\ DeviceInv => OwedIsUnderWay
    <2> SUFFICES ASSUME Types, OwedInv, DeviceInv, link = "up", owed > 0, pc \notin Turn,
                        \A i \in 1 .. Len(up) : up[i].kind # "stop",
                        \A i \in 1 .. Len(down) : down[i].kind \notin Outcomes
                 PROVE  FALSE
      BY DEF OwedIsUnderWay
    <2>1. PICK stops, outcomes \in Nat :
            /\ Counts(up, {"stop"}, stops) /\ Counts(down, Outcomes, outcomes)
            /\ Settles(stops + outcomes + Answering)
      BY DEF OwedInv, Owing
    <2>2. Len(up) \in Nat /\ Len(down) \in Nat
      BY DEF DeviceInv, Types, LinkType
    <2>3. stops = 0
      BY <2>1, <2>2, CountsNever
    <2>4. outcomes = 0
      BY <2>1, <2>2, CountsNever
    <2>5. Answering = 0
      BY DEF Answering
    <2>6. owed = 0
      BY <2>1, <2>3, <2>4, <2>5 DEF Settles
    <2>7. QED
      BY <2>6
  <1>2. QED
    BY <1>1, OwedHolds, UpInvariant, PTL DEF UpInv
==============================================================================
