----------------------- MODULE ConversationMemoryProofs -----------------------
(***************************************************************************)
(* Proofs about ConversationMemory, for any number of responses and turns  *)
(* and any limits: the memory keeps within the limits of whoever used it   *)
(* last, it is the end of the conversation in order, and no prompt reaches *)
(* back over a pause.                                                      *)
(*                                                                         *)
(* Induction over data goes by a set of naturals (Induct): the set of the  *)
(* numbers for which the claim holds has 0 and, with each, the next.       *)
(***************************************************************************)
EXTENDS ConversationMemory, FiniteSetTheorems, TLAPS
-----------------------------------------------------------------------------
(* Numbers.                                                                *)
\* A set of naturals that is not empty has a least element.
LEMMA LeastElement ==
  ASSUME NEW S \in SUBSET Nat, S # {}
  PROVE  \E x \in S : \A y \in S : x <= y
<1> DEFINE R == OpToRel(<, Nat)
<1>1. \A x, y \in S : y < x => <<y, x>> \in R
  BY DEF OpToRel
<1>2. IsWellFoundedOn(R, Nat)
  BY NatLessThanWellFounded
<1> HIDE DEF R
<1>3. PICK x \in S : \A y \in S : ~(<<y, x>> \in R)
  BY <1>2, WFMin
<1>4. \A y \in S : ~(y < x)
  BY <1>1, <1>3
<1>5. QED
  BY <1>4

\* What holds of 0 and passes from each number to the next holds of all.
LEMMA Induct ==
  ASSUME NEW P, 0 \in P, \A k \in Nat : k \in P => k + 1 \in P
  PROVE  Nat \subseteq P
<1> SUFFICES ASSUME Nat \ P # {} PROVE FALSE
  OBVIOUS
<1> DEFINE Q == Nat \ P
<1>1. Q \in SUBSET Nat /\ Q # {}
  OBVIOUS
<1> HIDE DEF Q
<1>2. PICK x \in Q : \A y \in Q : x <= y
  BY <1>1, LeastElement
<1>3. x \in Nat /\ x # 0 /\ x \notin P
  BY <1>2 DEF Q
<1>4. x - 1 \in Nat /\ ~(x <= x - 1)
  BY <1>3
<1>5. x - 1 \in P
  BY <1>2, <1>4 DEF Q
<1>6. QED
  BY <1>3, <1>4, <1>5

\* Min and Max of the community modules are what they are called.
LEMMA MinIsLeast ==
  ASSUME NEW S \in SUBSET Nat, S # {}
  PROVE  Min(S) \in S /\ \A y \in S : Min(S) <= y
BY LeastElement DEF Min

LEMMA MaxIsGreatest ==
  ASSUME NEW S \in SUBSET Nat, S # {}, NEW n \in Nat, \A x \in S : x <= n
  PROVE  Max(S) \in S /\ \A y \in S : y <= Max(S)
<1> DEFINE Above == {b \in Nat : \A x \in S : x <= b}
<1>1. Above \in SUBSET Nat /\ Above # {}
  OBVIOUS
<1>a. \A b \in Above : \A x \in S : x <= b
  OBVIOUS
<1>b. \A b \in Nat : (\A x \in S : x <= b) => b \in Above
  OBVIOUS
<1> HIDE DEF Above
<1>2. PICK b \in Above : \A c \in Above : b <= c
  BY <1>1, LeastElement
<1>3. b \in Nat /\ \A x \in S : x <= b
  BY <1>1, <1>a
<1>4. b \in S
  <2> SUFFICES ASSUME b \notin S PROVE FALSE
    OBVIOUS
  <2>1. \A x \in S : x <= b - 1
    BY <1>3
  <2>2. b - 1 \in Nat
    <3>1. PICK x \in Nat : x <= b - 1
      BY <2>1
    <3>2. QED
      BY <3>1, <1>3
  <2>3. b - 1 \in Above
    BY <2>1, <2>2, <1>b
  <2>4. b <= b - 1
    BY <2>3, <1>2
  <2>5. QED
    BY <2>4, <1>3
<1>5. \A y \in S : b >= y
  BY <1>3
<1>7. QED
  BY <1>4, <1>5 DEF Max

\* A finite set of naturals is bounded: so are the first k of its elements in
\* any enumeration, for each k.
LEMMA FiniteHasGreatest ==
  ASSUME NEW S \in SUBSET Nat, S # {}, IsFiniteSet(S)
  PROVE  Max(S) \in S /\ \A y \in S : y <= Max(S)
<1> DEFINE n == Cardinality(S)
<1>1. n \in Nat /\ ExistsBijection(1 .. n, S)
  BY FS_CardinalityType
<1> HIDE DEF n
<1>2. PICK f \in [1 .. n -> S] : \A y \in S : \E i \in 1 .. n : f[i] = y
  BY <1>1 DEF ExistsBijection, Bijection, Surjection
<1> DEFINE P == {k \in Nat : k <= n => \E b \in Nat : \A i \in 1 .. k : f[i] <= b}
<1>3. 0 \in P
  OBVIOUS
<1>4. ASSUME NEW k \in Nat, k \in P PROVE k + 1 \in P
  <2> SUFFICES ASSUME k + 1 <= n
               PROVE \E b \in Nat : \A i \in 1 .. k + 1 : f[i] <= b
    BY <1>4
  <2>1. PICK b \in Nat : \A i \in 1 .. k : f[i] <= b
    BY <1>1, <1>4
  <2>2. \A i \in 1 .. n : f[i] \in Nat
    BY <1>2
  <2>3. PICK c \in Nat : c = f[k + 1]
    BY <1>1, <2>2
  <2>4. ASSUME NEW i \in 1 .. k + 1 PROVE f[i] <= b + c
    <3>1. CASE i = k + 1
      BY <2>3, <3>1
    <3>2. CASE i # k + 1
      <4>1. i \in 1 .. k /\ i \in 1 .. n
        BY <1>1, <3>2
      <4>2. f[i] \in Nat /\ f[i] <= b
        BY <2>1, <2>2, <4>1
      <4>3. QED
        BY <4>2
    <3>3. QED
      BY <3>1, <3>2
  <2>5. b + c \in Nat
    OBVIOUS
  <2> HIDE DEF P
  <2>6. QED
    BY <2>4, <2>5
<1>5. n \in P
  <2> HIDE DEF P
  <2>1. QED
    BY <1>1, <1>3, <1>4, Induct
<1>6. PICK b \in Nat : \A i \in 1 .. n : f[i] <= b
  BY <1>1, <1>5
<1>7. \A y \in S : y <= b
  BY <1>2, <1>6
<1>8. QED
  BY <1>7, MaxIsGreatest

-----------------------------------------------------------------------------
(* Size, a fold over a sequence, is a number.                              *)
\* f adds up g over the subsets of 1 .. n, the greatest index last, the way the
\* fold of Size does.
Sums(g, n, f) ==
  f = [s \in SUBSET (1 .. n) |->
         IF s = {} THEN 0 ELSE f[s \ {Max(s)}] + g[Max(s)]]

Summed(g, f, s) ==
  /\ s = {} => f[s] = 0
  /\ s # {} => /\ Max(s) \in s /\ \A y \in s : y <= Max(s)
               /\ f[s] = f[s \ {Max(s)}] + g[Max(s)]

LEMMA SumsAt ==
  ASSUME NEW n \in Nat, NEW g, NEW f, Sums(g, n, f)
  PROVE  \A s \in SUBSET (1 .. n) : Summed(g, f, s)
<1> SUFFICES ASSUME NEW s \in SUBSET (1 .. n) PROVE Summed(g, f, s)
  OBVIOUS
<1>1. f[s] = IF s = {} THEN 0 ELSE f[s \ {Max(s)}] + g[Max(s)]
  BY Zenon DEF Sums
<1>2. s \in SUBSET Nat /\ \A x \in s : x <= n
  OBVIOUS
<1>3. s # {} => Max(s) \in s /\ \A y \in s : y <= Max(s)
  BY <1>2, MaxIsGreatest
<1>4. QED
  BY <1>1, <1>3, Zenon DEF Summed

LEMMA SumExists ==
  ASSUME NEW n \in Nat, NEW g
  PROVE  \E f : Sums(g, n, f)
<1> DEFINE P == {k \in Nat : \E f : Sums(g, k, f)}
<1>1. 0 \in P
  <2> DEFINE z == [s \in SUBSET (1 .. 0) |-> 0]
  <2>1. \A s \in SUBSET (1 .. 0) : s = {}
    OBVIOUS
  <2>2. Sums(g, 0, z)
    BY <2>1, Zenon DEF Sums
  <2>3. QED
    BY <2>2
<1>2. ASSUME NEW k \in Nat, k \in P PROVE k + 1 \in P
  <2>1. PICK f : Sums(g, k, f)
    BY <1>2
  <2>1a. \A s \in SUBSET (1 .. k) : Summed(g, f, s)
    BY <2>1, SumsAt
  <2> DEFINE top == k + 1
             h == [s \in SUBSET (1 .. top) |->
                     IF top \in s THEN f[s \ {top}] + g[top] ELSE f[s]]
             T(s) == IF s = {} THEN 0 ELSE h[s \ {Max(s)}] + g[Max(s)]
  <2>2. ASSUME NEW s \in SUBSET (1 .. top)
        PROVE  /\ s \ {top} \in SUBSET (1 .. k)
               /\ top \notin s => s \in SUBSET (1 .. k)
               /\ \A x \in s : x <= top
    <3>1. \A x \in s : x \in 1 .. top /\ (x # top => x \in 1 .. k)
      OBVIOUS
    <3>2. QED
      BY <3>1
  <2>2a. top \in Nat /\ \A s \in SUBSET (1 .. top) : s \in SUBSET Nat
    OBVIOUS
  <2>2b. \A s \in SUBSET (1 .. top) : \A x : s \ {x} \in SUBSET (1 .. top)
    BY Zenon
  <2>3. \A s \in SUBSET (1 .. top) :
          h[s] = IF top \in s THEN f[s \ {top}] + g[top] ELSE f[s]
    BY Zenon
  <2> HIDE DEF h, top
  <2>4. ASSUME NEW s \in SUBSET (1 .. top) PROVE h[s] = T(s)
    <3>1. CASE s = {}
      <4>1. h[s] = f[s] /\ s \in SUBSET (1 .. k)
        BY <2>2, <2>3, <3>1
      <4>2. f[s] = 0
        BY <2>1a, <3>1, <4>1, Zenon DEF Summed
      <4>3. QED
        BY <3>1, <4>1, <4>2
    <3>2. CASE s # {} /\ top \in s
      <4>1. Max(s) \in s /\ \A y \in s : y <= Max(s)
        BY <2>2, <2>2a, <3>2, MaxIsGreatest
      <4>2. Max(s) = top
        <5>1. PICK m \in s : m = Max(s)
          BY <4>1
        <5>2. m \in Nat /\ m <= top /\ top <= m
          BY <2>2, <2>2a, <3>2, <4>1, <5>1
        <5>3. QED
          BY <2>2a, <5>1, <5>2
      <4>3. h[s \ {top}] = f[s \ {top}]
        BY <2>2, <2>3
      <4>4. QED
        BY <2>3, <3>2, <4>2, <4>3
    <3>3. CASE s # {} /\ top \notin s
      <4>1. s \in SUBSET (1 .. k)
        BY <2>2, <3>3
      <4>2. f[s] = f[s \ {Max(s)}] + g[Max(s)]
        BY <2>1a, <3>3, <4>1, Zenon DEF Summed
      <4>3. h[s] = f[s] /\ h[s \ {Max(s)}] = f[s \ {Max(s)}]
        BY <2>2b, <2>3, <3>3
      <4>4. QED
        BY <3>3, <4>2, <4>3
    <3>4. QED
      BY <3>1, <3>2, <3>3
  <2>5. h = [s \in SUBSET (1 .. top) |-> h[s]]
    BY DEF h
  <2>6. h = [s \in SUBSET (1 .. top) |-> T(s)]
    BY <2>4, <2>5
  <2>7. Sums(g, top, h)
    BY <2>6, Zenon DEF Sums
  <2>8. QED
    BY <2>2a, <2>7, Zenon DEF top
<1>3. QED
  <2> HIDE DEF P
  <2>1. n \in P
    BY <1>1, <1>2, Induct
  <2>2. QED
    BY <2>1 DEF P

\* What adds up naturals is a natural.
LEMMA SumIsNat ==
  ASSUME NEW n \in Nat, NEW g \in [1 .. n -> Nat], NEW f, Sums(g, n, f)
  PROVE  f[1 .. n] \in Nat
<1> DEFINE P == {k \in Nat : k <= n => \A s \in SUBSET (1 .. k) : f[s] \in Nat}
<1>0. \A s \in SUBSET (1 .. n) : Summed(g, f, s)
  BY SumsAt
<1>1. 0 \in P
  <2>1. \A s \in SUBSET (1 .. 0) : s \in SUBSET (1 .. n) /\ s = {}
    OBVIOUS
  <2>2. \A s \in SUBSET (1 .. 0) : f[s] = 0
    BY <1>0, <2>1, Zenon DEF Summed
  <2>3. ASSUME NEW s \in SUBSET (1 .. 0) PROVE f[s] \in Nat
    <3>1. f[s] = 0
      BY <2>2, Zenon
    <3>2. QED
      BY <3>1
  <2>4. QED
    BY <2>3, Zenon
<1>2. ASSUME NEW k \in Nat, k \in P PROVE k + 1 \in P
  <2> SUFFICES ASSUME k + 1 <= n, NEW s \in SUBSET (1 .. k + 1)
               PROVE  f[s] \in Nat
    BY <1>2
  <2>1. s \in SUBSET (1 .. n) /\ k <= n
    OBVIOUS
  <2>2. CASE s = {}
    <3>1. f[s] = 0
      BY <1>0, <2>1, <2>2, Zenon DEF Summed
    <3>2. QED
      BY <3>1
  <2>3. CASE s # {}
    <3>1. /\ Max(s) \in s /\ \A y \in s : y <= Max(s)
          /\ f[s] = f[s \ {Max(s)}] + g[Max(s)]
      BY <1>0, <2>1, <2>3, Zenon DEF Summed
    <3>2. s \ {Max(s)} \in SUBSET (1 .. k)
      <4>1. PICK m \in 1 .. k + 1 : m = Max(s)
        BY <3>1
      <4>2. \A y \in s : y \in 1 .. k + 1 /\ y <= m
        BY <3>1, <4>1
      <4>3. \A y \in s \ {m} : y \in 1 .. k
        BY <4>2
      <4>4. QED
        BY <4>1, <4>3
    <3>3. f[s \ {Max(s)}] \in Nat
      BY <1>2, <2>1, <3>2
    <3>4. g[Max(s)] \in Nat
      BY <2>1, <3>1
    <3>5. QED
      BY <3>1, <3>3, <3>4
  <2>4. QED
    BY <2>2, <2>3
<1>3. n \in P
  <2> HIDE DEF P
  <2>1. QED
    BY <1>1, <1>2, Induct
<1>4. QED
  BY <1>3

\* The size of turns is a number: the fold is one such f.
LEMMA SizeIsNat ==
  ASSUME NEW log, NEW t \in Seq(Nat), \A i \in 1 .. Len(t) : log[t[i]].size \in Nat
  PROVE  Size(log, t) \in Nat
<1> DEFINE n == Len(t)
           g == [i \in 1 .. n |-> log[t[i]].size]
           E(f) == f = [s \in SUBSET (DOMAIN t) |->
                     IF s = {} THEN 0 ELSE f[s \ {Max(s)}] + log[t[Max(s)]].size]
           F == CHOOSE f : E(f)
<1>1. Size(log, t) = F[DOMAIN t]
  BY Zenon DEF Size, FoldLeft, MapThenFoldSet
<1>2. n \in Nat /\ DOMAIN t = 1 .. n /\ g \in [1 .. n -> Nat]
  OBVIOUS
<1>3. ASSUME NEW s \in SUBSET (1 .. n), s # {}
      PROVE  g[Max(s)] = log[t[Max(s)]].size
  <2>1. s \in SUBSET Nat /\ \A x \in s : x <= n
    BY <1>2
  <2>2. Max(s) \in 1 .. n
    BY <1>2, <1>3, <2>1, MaxIsGreatest
  <2>3. QED
    BY <2>2
<1> HIDE DEF g, n
<1>4. ASSUME NEW f PROVE E(f) <=> Sums(g, n, f)
  <2>1. [s \in SUBSET (1 .. n) |->
           IF s = {} THEN 0 ELSE f[s \ {Max(s)}] + log[t[Max(s)]].size]
        = [s \in SUBSET (1 .. n) |->
             IF s = {} THEN 0 ELSE f[s \ {Max(s)}] + g[Max(s)]]
    BY <1>3
  <2>2. QED
    BY <1>2, <2>1, Zenon DEF Sums
<1>5. \E f : E(f)
  BY <1>2, <1>4, SumExists, Zenon
<1>6. E(F)
  BY <1>5, Zenon
<1> HIDE DEF F, E
<1>7. F[1 .. n] \in Nat
  BY <1>2, <1>4, <1>6, SumIsNat
<1>8. QED
  BY <1>1, <1>2, <1>7

-----------------------------------------------------------------------------
(* Compression.                                                            *)
\* k turns have left t for the summary, which keeps its beginning.
Shrunk(s, t, s2, t2) ==
  /\ s2 \in Seq(Nat) /\ t2 \in Seq(Nat)
  /\ \E k \in 0 .. Len(t) :
       /\ Len(t2) = Len(t) - k /\ Len(s2) <= Len(s) + k
       /\ \A i \in 1 .. Len(s2) : s2[i] = (s \o t)[i]
       /\ \A i \in 1 .. Len(t2) : t2[i] = t[k + i]

\* No summary is longer than some connection allows.
Allowed(s) == \E q \in Limits : Len(s) <= q.lines

Halved(s, o) == \E limit \in {o.threshold, o.lines} : Len(s) <= limit \div 2

\* The limits of MemoryIsBounded, for any memory and options.
Bounded(log, s, t, o) ==
  /\ Len(t) <= o.recent
  /\ Len(t) > 1 => Len(s) + Size(log, t) <= o.threshold
  /\ Halved(s, o)
  /\ Allowed(s)

LEMMA OptionType ==
  ASSUME NEW o \in Limits
  PROVE  /\ o.idle \in Nat /\ o.recent \in Nat /\ o.recent >= 1
         /\ o.threshold \in Nat /\ o.lines \in Nat /\ o.budget \in Int
BY MemoryAssumption DEF MemoryAssumption, Option

LEMMA NothingIsAllowed == Allowed(<<>>) /\ \A o \in Limits : Halved(<<>>, o)
<1>1. PICK q \in Limits : TRUE
  BY MemoryAssumption DEF MemoryAssumption
<1>2. q.lines \in Nat /\ Len(<<>>) = 0
  BY OptionType
<1>3. Allowed(<<>>)
  BY <1>2 DEF Allowed
<1>4. ASSUME NEW o \in Limits PROVE Halved(<<>>, o)
  <2>1. o.lines \div 2 \in Nat
    BY OptionType
  <2>2. QED
    BY <1>2, <2>1 DEF Halved
<1>5. QED
  BY <1>3, <1>4

LEMMA Prefix ==
  ASSUME NEW s \in Seq(Nat), NEW m \in 0 .. Len(s)
  PROVE  /\ SubSeq(s, 1, m) \in Seq(Nat) /\ Len(SubSeq(s, 1, m)) = m
         /\ \A i \in 1 .. m : SubSeq(s, 1, m)[i] = s[i]
OBVIOUS

LEMMA Joined ==
  ASSUME NEW s \in Seq(Nat), NEW t \in Seq(Nat)
  PROVE  /\ s \o t \in Seq(Nat) /\ Len(s \o t) = Len(s) + Len(t)
         /\ \A i \in 1 .. Len(s) : (s \o t)[i] = s[i]
         /\ \A i \in 1 .. Len(t) : (s \o t)[Len(s) + i] = t[i]
OBVIOUS
CutTo(c, s, n) ==
  /\ c \in Seq(Nat) /\ Len(c) <= Len(s) /\ Len(c) <= n
  /\ \A i \in 1 .. Len(c) : c[i] = s[i]

LEMMA Cut ==
  ASSUME NEW s \in Seq(Nat), NEW n \in Nat,
         NEW c, c = SubSeq(s, 1, Min({Len(s), n}))
  PROVE  CutTo(c, s, n)
<1> DEFINE S == {Len(s), n}
<1>1. S \in SUBSET Nat /\ S # {}
  OBVIOUS
<1>2. Min(S) \in S /\ \A y \in S : Min(S) <= y
  BY <1>1, MinIsLeast
<1>3. PICK m \in Nat : m = Min(S)
  BY <1>1, <1>2
<1>4. m <= Len(s) /\ m <= n
  BY <1>2, <1>3
<1>5. c = SubSeq(s, 1, m)
  BY <1>3, Zenon
<1>6. /\ SubSeq(s, 1, m) \in Seq(Nat) /\ Len(SubSeq(s, 1, m)) = m
      /\ \A i \in 1 .. m : SubSeq(s, 1, m)[i] = s[i]
  BY <1>4, Prefix
<1>7. c \in Seq(Nat) /\ Len(c) = m /\ \A i \in 1 .. m : c[i] = s[i]
  BY <1>5, <1>6, Zenon
<1>8. QED
  BY <1>4, <1>7 DEF CutTo

\* The turns that leave are enough, and never all of them.
LEMMA LeavingFits ==
  ASSUME NEW log, NEW s, NEW t \in Seq(Nat), NEW o \in Limits
  PROVE  LET k == Leaving(log, s, t, o) IN
         /\ k \in 0 .. Len(t) /\ Fits(log, s, t, k, o)
         /\ t # <<>> => k < Len(t)
<1> DEFINE K == {k \in 0 .. Len(t) : Fits(log, s, t, k, o)}
<1>1. Len(t) \in K
  BY OptionType DEF Fits
<1>2. t # <<>> => Len(t) - 1 \in K
  BY OptionType DEF Fits
<1>3. K \in SUBSET Nat /\ K # {}
  BY <1>1
<1>4. Min(K) \in K /\ \A y \in K : Min(K) <= y
  BY <1>3, MinIsLeast
<1>5. Leaving(log, s, t, o) = Min(K)
  BY DEF Leaving
<1>6. t # <<>> => Min(K) <= Len(t) - 1
  BY <1>2, <1>4
<1>7. Min(K) \in 0 .. Len(t) /\ Fits(log, s, t, Min(K), o)
  BY <1>4
<1> HIDE DEF K
<1>8. QED
  BY <1>5, <1>6, <1>7

Sized(log, t) == \A i \in 1 .. Len(t) : log[t[i]].size \in Nat

\* Compression moves the oldest turns to the summary, and ends within the limits
\* of its options.
LEMMA CompressedShape ==
  ASSUME NEW log, NEW s \in Seq(Nat), NEW t \in Seq(Nat), NEW o \in Limits,
         Sized(log, t), Allowed(s)
  PROVE  LET c == Compressed(log, s, t, o) IN
         /\ Shrunk(s, t, c.summary, c.turns)
         /\ Bounded(log, c.summary, c.turns, o)
         /\ t # <<>> => c.turns # <<>>
<1>1. PICK k \in 0 .. Len(t) : k = Leaving(log, s, t, o)
  BY LeavingFits
<1>2. /\ Len(t) - k <= o.recent
      /\ \/ Len(t) - k <= 1
         \/ Len(Merge(s, SubSeq(t, 1, k), o))
              + Size(log, SubSeq(t, k + 1, Len(t))) <= o.threshold
      /\ t # <<>> => k < Len(t)
  BY <1>1, LeavingFits DEF Fits
<1> DEFINE gone == SubSeq(t, 1, k)
           all  == s \o gone
           m    == Merge(s, gone, o)
           s2   == Shortened(m, o)
           t2   == SubSeq(t, k + 1, Len(t))
<1>3. gone \in Seq(Nat) /\ Len(gone) = k /\ \A i \in 1 .. k : gone[i] = t[i]
  OBVIOUS
<1>4. Compressed(log, s, t, o) = [summary |-> s2, turns |-> t2]
  BY <1>1, Zenon DEF Compressed
<1>5. /\ t2 \in Seq(Nat) /\ Len(t2) = Len(t) - k
      /\ \A i \in 1 .. Len(t2) : t2[i] = t[k + i]
  OBVIOUS
<1> HIDE DEF gone
<1>6. /\ all \in Seq(Nat) /\ Len(all) = Len(s) + k
      /\ \A i \in 1 .. Len(all) : all[i] = (s \o t)[i]
  <2>1. all \in Seq(Nat) /\ Len(all) = Len(s) + k
    BY <1>3, Joined
  <2>2. ASSUME NEW i \in 1 .. Len(all) PROVE all[i] = (s \o t)[i]
    <3>1. CASE i <= Len(s)
      BY <1>3, <2>1, <3>1, Joined
    <3>2. CASE i > Len(s)
      <4>1. i - Len(s) \in 1 .. k /\ i = Len(s) + (i - Len(s))
        BY <2>1, <3>2
      <4>2. PICK j \in 1 .. k : i = Len(s) + j
        BY <4>1
      <4>3. all[Len(s) + j] = gone[j]
        BY <1>3, Joined
      <4>4. (s \o t)[Len(s) + j] = t[j]
        BY Joined
      <4>5. QED
        BY <1>3, <4>2, <4>3, <4>4
    <3>3. QED
      BY <2>1, <3>1, <3>2
  <2>3. QED
    BY <2>1, <2>2
<1> HIDE DEF t2, all
<1>7. /\ m \in Seq(Nat) /\ Len(m) <= Len(all)
      /\ \A i \in 1 .. Len(m) : m[i] = all[i]
      /\ Allowed(m)
  <2>1. CASE k = 0
    <3>1. gone = <<>>
      BY <1>3, <2>1
    <3>2. m = s
      BY <3>1, Zenon DEF Merge
    <3>3. \A i \in 1 .. Len(s) : all[i] = s[i]
      BY <1>3, Joined DEF all
    <3>4. QED
      BY <1>6, <2>1, <3>2, <3>3
  <2>2. CASE k # 0
    <3>1. o.lines \in Nat
      BY OptionType
    <3>2. gone # <<>>
      BY <1>3, <2>2
    <3>3. m = SubSeq(all, 1, Min({Len(all), o.lines}))
      BY <3>2, Zenon DEF Merge, all
    <3>4. CutTo(m, all, o.lines)
      BY <1>6, <3>1, <3>3, Cut, Zenon
    <3>5. QED
      BY <3>4, Zenon DEF CutTo, Allowed
  <2>3. QED
    BY <2>1, <2>2
<1> HIDE DEF m
<1>8. /\ s2 \in Seq(Nat) /\ Len(s2) <= Len(m)
      /\ \A i \in 1 .. Len(s2) : s2[i] = m[i]
      /\ Halved(s2, o)
  <2>1. o.lines \div 2 \in Nat
    BY OptionType
  <2>2. CASE Len(m) > o.threshold \div 2
    <3>1. s2 = SubSeq(m, 1, Min({Len(m), o.lines \div 2}))
      BY <2>2, Zenon DEF Shortened
    <3>2. CutTo(s2, m, o.lines \div 2)
      BY <1>7, <2>1, <3>1, Cut, Zenon
    <3>3. QED
      BY <3>2, Zenon DEF CutTo, Halved
  <2>3. CASE ~(Len(m) > o.threshold \div 2)
    <3>1. s2 = m
      BY <2>3, Zenon DEF Shortened
    <3>2. o.threshold \div 2 \in Nat /\ Len(m) \in Nat
      BY <1>7, OptionType
    <3>3. Len(m) <= o.threshold \div 2
      BY <2>3, <3>2
    <3>4. Halved(m, o)
      BY <3>3 DEF Halved
    <3>5. QED
      BY <1>7, <3>1, <3>4
  <2>4. QED
    BY <2>2, <2>3
<1> HIDE DEF s2
<1>9. Len(s2) \in Nat /\ Len(m) \in Nat /\ Len(t2) \in Nat /\ Len(all) \in Nat
  BY <1>5, <1>6, <1>7, <1>8
<1>10. Shrunk(s, t, s2, t2)
  <2>1. Len(s2) <= Len(s) + k
    BY <1>6, <1>7, <1>8, <1>9
  <2>2. ASSUME NEW i \in 1 .. Len(s2) PROVE s2[i] = (s \o t)[i]
    <3>0. Len(s2) <= Len(m) /\ Len(m) <= Len(all)
      BY <1>7, <1>8, Zenon
    <3>1. i \in 1 .. Len(m) /\ i \in 1 .. Len(all)
      BY <1>9, <3>0
    <3>2. QED
      BY <1>6, <1>7, <1>8, <3>1
  <2>3. QED
    BY <1>5, <1>8, <2>1, <2>2 DEF Shrunk
<1>11. Bounded(log, s2, t2, o)
  <2>1. Len(t2) <= o.recent /\ Halved(s2, o)
    BY <1>2, <1>5, <1>8, <1>9
  <2>1a. Allowed(s2)
    <3>1. PICK q \in Limits : Len(m) <= q.lines
      BY <1>7 DEF Allowed
    <3>2. q.lines \in Nat
      BY OptionType
    <3>3. Len(s2) <= q.lines
      BY <1>8, <1>9, <3>1, <3>2
    <3>4. QED
      BY <3>3 DEF Allowed
  <2>2. Size(log, t2) \in Nat
    <3>1. \A i \in 1 .. Len(t2) : k + i \in 1 .. Len(t)
      BY <1>5
    <3>2. \A i \in 1 .. Len(t2) : log[t2[i]].size \in Nat
      BY <1>5, <3>1 DEF Sized
    <3>3. QED
      BY <1>5, <3>2, SizeIsNat
  <2>3. ASSUME Len(t2) > 1 PROVE Len(s2) + Size(log, t2) <= o.threshold
    <3>1. Len(m) + Size(log, t2) <= o.threshold
      BY <1>2, <1>5, <2>3 DEF m, gone, t2
    <3>2. QED
      BY <1>8, <1>9, <2>2, <3>1, OptionType
  <2>4. QED
    BY <2>1, <2>1a, <2>3 DEF Bounded
<1>12. t # <<>> => t2 # <<>>
  BY <1>2, <1>5
<1>13. QED
  BY <1>4, <1>10, <1>11, <1>12

Entry == [at : Times, size : 1 .. MaxSize]
Log == Seq(Entry)

Remembered(s, t) == ToSet(s) \cup ToSet(t)

-----------------------------------------------------------------------------
(* The order of the memory.                                                *)
\* MemoryInOrder, for any memory of n turns said.
Ordered(n, s, t) ==
  /\ \A i \in 1 .. Len(t) : t[i] = n - Len(t) + i
  /\ t = <<>> => s = <<>>
  /\ \A i, j \in 1 .. Len(s \o t) : i < j => (s \o t)[i] < (s \o t)[j]

\* From each turn of p on, no pause is longer than the longest idle timeout.
Linked(log, p) ==
  /\ p \subseteq 1 .. Len(log)
  /\ \A i \in p : \A j \in i .. Len(log) - 1 :
       log[j + 1].at - log[j].at <= LongestIdle

Sound(log, s, t) ==
  /\ s \in Seq(Turns) /\ t \in Seq(Turns)
  /\ Ordered(Len(log), s, t)
  /\ Linked(log, Remembered(s, t))

LEMMA LogEntry ==
  ASSUME NEW log \in Log, NEW i \in 1 .. Len(log)
  PROVE  log[i].at \in Nat /\ log[i].at \in Times /\ log[i].size \in Nat
<1>1. log[i] \in Entry
  BY DEF Log
<1>2. log[i].at \in Times /\ log[i].size \in 1 .. MaxSize
  BY <1>1 DEF Entry
<1>3. QED
  BY <1>2 DEF Times

LEMMA SeqByElement ==
  ASSUME NEW T, NEW s \in Seq(Nat), \A i \in 1 .. Len(s) : s[i] \in T
  PROVE  s \in Seq(T)
OBVIOUS

\* Where an element of the shrunk memory was in the old one.
Place(i, kept, offset) == IF i <= kept THEN i ELSE offset + (i - kept)

LEMMA PlacesGrow ==
  ASSUME NEW kept \in Nat, NEW more \in Nat, NEW offset \in Nat, kept <= offset
  PROVE  \A i, j \in 1 .. kept + more :
           /\ Place(i, kept, offset) \in 1 .. offset + more
           /\ i < j => Place(i, kept, offset) < Place(j, kept, offset)
BY DEF Place

LEMMA Elements ==
  ASSUME NEW s \in Seq(Nat)
  PROVE  \A x : x \in ToSet(s) <=> \E i \in 1 .. Len(s) : x = s[i]
BY DEF ToSet

LEMMA ShrunkRemembers ==
  ASSUME NEW s \in Seq(Nat), NEW t \in Seq(Nat), NEW s2, NEW t2,
         Shrunk(s, t, s2, t2)
  PROVE  Remembered(s2, t2) \subseteq Remembered(s, t)
<1>1. PICK k \in 0 .. Len(t) :
        /\ Len(t2) = Len(t) - k /\ Len(s2) <= Len(s) + k
        /\ \A i \in 1 .. Len(s2) : s2[i] = (s \o t)[i]
        /\ \A i \in 1 .. Len(t2) : t2[i] = t[k + i]
  BY DEF Shrunk
<1>2. s2 \in Seq(Nat) /\ t2 \in Seq(Nat)
  BY DEF Shrunk
<1>3. ASSUME NEW i \in 1 .. Len(t2) PROVE t2[i] \in ToSet(t)
  <2>1. k + i \in 1 .. Len(t)
    BY <1>1, <1>2
  <2>2. QED
    BY <1>1, <2>1, Elements
<1>4. ASSUME NEW i \in 1 .. Len(s2) PROVE s2[i] \in Remembered(s, t)
  <2>1. CASE i <= Len(s)
    <3>1. i \in 1 .. Len(s)
      BY <2>1
    <3>2. s2[i] = s[i]
      BY <1>1, <3>1, Joined
    <3>3. QED
      BY <3>1, <3>2, Elements DEF Remembered
  <2>2. CASE ~(i <= Len(s))
    <3>1. i - Len(s) \in 1 .. Len(t) /\ i = Len(s) + (i - Len(s))
      BY <1>1, <1>2, <2>2
    <3>2. PICK j \in 1 .. Len(t) : i = Len(s) + j
      BY <3>1
    <3>3. s2[i] = t[j]
      BY <1>1, <3>2, Joined
    <3>4. QED
      BY <3>3, Elements DEF Remembered
  <2>3. QED
    BY <2>1, <2>2
<1>5. ToSet(s2) \subseteq Remembered(s, t)
  <2> SUFFICES ASSUME NEW x \in ToSet(s2) PROVE x \in Remembered(s, t)
    OBVIOUS
  <2>1. PICK i \in 1 .. Len(s2) : x = s2[i]
    BY <1>2, Elements
  <2>2. QED
    BY <1>4, <2>1
<1>6. ToSet(t2) \subseteq ToSet(t)
  <2> SUFFICES ASSUME NEW x \in ToSet(t2) PROVE x \in ToSet(t)
    OBVIOUS
  <2>1. PICK i \in 1 .. Len(t2) : x = t2[i]
    BY <1>2, Elements
  <2>2. QED
    BY <1>3, <2>1
<1>7. QED
  BY <1>5, <1>6 DEF Remembered

\* What shrinks keeps its order.
LEMMA ShrunkInOrder ==
  ASSUME NEW s \in Seq(Nat), NEW t \in Seq(Nat), NEW s2, NEW t2, NEW n \in Nat,
         Shrunk(s, t, s2, t2), t # <<>> => t2 # <<>>, Ordered(n, s, t)
  PROVE  Ordered(n, s2, t2)
<1>1. PICK k \in 0 .. Len(t) :
        /\ Len(t2) = Len(t) - k /\ Len(s2) <= Len(s) + k
        /\ \A i \in 1 .. Len(s2) : s2[i] = (s \o t)[i]
        /\ \A i \in 1 .. Len(t2) : t2[i] = t[k + i]
  BY DEF Shrunk
<1>2. s2 \in Seq(Nat) /\ t2 \in Seq(Nat)
  BY DEF Shrunk
<1>0. /\ Len(s) \in Nat /\ Len(t) \in Nat /\ Len(s2) \in Nat /\ Len(t2) \in Nat
      /\ Len(t2) = Len(t) - k /\ Len(s2) <= Len(s) + k
  BY <1>1, <1>2
<1>3. ASSUME NEW i \in 1 .. Len(t2) PROVE t2[i] = n - Len(t2) + i
  <2>1. k + i \in 1 .. Len(t)
    BY <1>1, <1>2
  <2>2. t[k + i] = n - Len(t) + (k + i)
    BY <2>1 DEF Ordered
  <2>3. QED
    BY <1>1, <2>1, <2>2
<1>4. ASSUME t2 = <<>> PROVE s2 = <<>>
  <2>1. t = <<>> /\ s = <<>>
    BY <1>4 DEF Ordered
  <2>2. Len(s2) = 0
    BY <1>1, <1>2, <2>1
  <2>3. QED
    BY <1>2, <2>2
<1> DEFINE a == s \o t
           a2 == s2 \o t2
           e(i) == Place(i, Len(s2), Len(s) + k)
<1>5. /\ a2 \in Seq(Nat) /\ Len(a2) = Len(s2) + Len(t2)
      /\ a \in Seq(Nat) /\ Len(a) = Len(s) + Len(t)
  BY <1>2, Joined
<1>e. \A i, j \in 1 .. Len(a2) :
        /\ e(i) \in 1 .. Len(a)
        /\ i < j => e(i) < e(j)
  <2>1. Len(s) + k \in Nat /\ Len(s) + k + Len(t2) = Len(s) + Len(t)
    BY <1>0
  <2>2. QED
    BY <1>0, <1>5, <2>1, PlacesGrow
<1>6. ASSUME NEW i \in 1 .. Len(a2)
      PROVE  e(i) \in 1 .. Len(a) /\ a2[i] = a[e(i)]
  <2>1. CASE i <= Len(s2)
    <3>1. i \in 1 .. Len(s2)
      BY <2>1
    <3>2. a2[i] = s2[i]
      BY <1>2, <3>1, Joined
    <3>3. i \in 1 .. Len(a)
      BY <1>0, <1>5, <3>1
    <3>4. e(i) = i
      BY <2>1 DEF Place
    <3>5. QED
      BY <1>1, <3>1, <3>2, <3>3, <3>4
  <2>2. CASE ~(i <= Len(s2))
    <3>1. i - Len(s2) \in 1 .. Len(t2) /\ i = Len(s2) + (i - Len(s2))
      BY <1>2, <1>5, <2>2
    <3>2. PICK j \in 1 .. Len(t2) : i = Len(s2) + j
      BY <3>1
    <3>3. a2[i] = t2[j] /\ t2[j] = t[k + j]
      BY <1>1, <1>2, <3>2, Joined
    <3>4. k + j \in 1 .. Len(t)
      BY <1>0
    <3>5. a[Len(s) + (k + j)] = t[k + j]
      BY <3>4, Joined
    <3>6. e(i) = Len(s) + (k + j)
      BY <1>0, <2>2, <3>2 DEF Place
    <3>7. QED
      BY <1>e, <3>3, <3>5, <3>6
  <2>3. QED
    BY <2>1, <2>2
<1>7. ASSUME NEW i \in 1 .. Len(a2), NEW j \in 1 .. Len(a2), i < j
      PROVE  a2[i] < a2[j]
  <2>1. e(i) < e(j)
    BY <1>e, <1>7
  <2>2. a[e(i)] < a[e(j)]
    BY <1>6, <2>1 DEF Ordered
  <2>3. QED
    BY <1>6, <2>2
<1>8. QED
  BY <1>3, <1>4, <1>7 DEF Ordered

\* Compression keeps the memory in order and without a pause, within the limits,
\* and remembers nothing that was forgotten.
LEMMA CompressedSound ==
  ASSUME NEW log \in Log, NEW s, NEW t, NEW o \in Limits, Sound(log, s, t),
         Allowed(s)
  PROVE  LET c == Compressed(log, s, t, o) IN
         /\ Sound(log, c.summary, c.turns)
         /\ Bounded(log, c.summary, c.turns, o)
         /\ Remembered(c.summary, c.turns) \subseteq Remembered(s, t)
<1>1. s \in Seq(Turns) /\ t \in Seq(Turns) /\ s \in Seq(Nat) /\ t \in Seq(Nat)
  BY MemoryAssumption DEF Sound, Turns, MemoryAssumption
<1>2. Len(log) \in Nat
  BY DEF Log
<1>3. ASSUME NEW i \in 1 .. Len(t) PROVE log[t[i]].size \in Nat
  <2>1. t[i] \in Remembered(s, t)
    BY <1>1, Elements DEF Remembered
  <2>2. t[i] \in 1 .. Len(log)
    BY <2>1 DEF Sound, Linked
  <2>3. QED
    BY <2>2, LogEntry
<1>4. Sized(log, t)
  BY <1>3 DEF Sized
<1> DEFINE c == Compressed(log, s, t, o)
<1>5. /\ Shrunk(s, t, c.summary, c.turns)
      /\ Bounded(log, c.summary, c.turns, o)
      /\ t # <<>> => c.turns # <<>>
  BY <1>1, <1>4, CompressedShape
<1> HIDE DEF c
<1>6. PICK s2, t2 : s2 = c.summary /\ t2 = c.turns
  OBVIOUS
<1>7. Remembered(s2, t2) \subseteq Remembered(s, t)
  BY <1>1, <1>5, <1>6, ShrunkRemembers
<1>8. Ordered(Len(log), s2, t2)
  BY <1>1, <1>2, <1>5, <1>6, ShrunkInOrder DEF Sound
<1>9. Linked(log, Remembered(s2, t2))
  BY <1>7 DEF Sound, Linked
<1>10. Remembered(s, t) \subseteq Turns
  <2>1. ASSUME NEW u \in Seq(Turns), u \in Seq(Nat), NEW x \in ToSet(u)
        PROVE  x \in Turns
    <3>1. PICK i \in 1 .. Len(u) : x = u[i]
      BY <2>1, Elements
    <3>2. u[i] \in Turns
      OBVIOUS
    <3>3. QED
      BY <3>1, <3>2
  <2>2. QED
    BY <1>1, <2>1 DEF Remembered
<1>11. s2 \in Seq(Nat) /\ t2 \in Seq(Nat)
  BY <1>5, <1>6 DEF Shrunk
<1>12. s2 \in Seq(Turns) /\ t2 \in Seq(Turns)
  <2>1. \A i \in 1 .. Len(s2) : s2[i] \in Turns
    BY <1>7, <1>10, <1>11, Elements DEF Remembered
  <2>2. \A i \in 1 .. Len(t2) : t2[i] \in Turns
    BY <1>7, <1>10, <1>11, Elements DEF Remembered
  <2>3. QED
    BY <1>11, <2>1, <2>2, SeqByElement
<1>13. Sound(log, s2, t2)
  BY <1>8, <1>9, <1>12 DEF Sound
<1>14. QED
  BY <1>5, <1>6, <1>7, <1>13 DEF c

-----------------------------------------------------------------------------
(* Pauses.                                                                 *)
\* Limits are finite, so there is a longest idle timeout.
LEMMA LongestIdleBounds ==
  /\ LongestIdle \in Nat
  /\ \A o \in Limits : o.idle <= LongestIdle
<1> DEFINE S == {o.idle : o \in Limits}
           f == [o \in Limits |-> o.idle]
<1>1. S \in SUBSET Nat /\ S # {}
  BY OptionType, MemoryAssumption DEF MemoryAssumption
<1>2. f \in Surjection(Limits, S)
  BY DEF Surjection
<1>3. IsFiniteSet(S)
  BY <1>2, FS_Surjection, MemoryAssumption DEF MemoryAssumption
<1>4. Max(S) \in S /\ \A y \in S : y <= Max(S)
  BY <1>1, <1>3, FiniteHasGreatest
<1>5. \A o \in Limits : o.idle \in S
  OBVIOUS
<1>6. LongestIdle = Max(S)
  BY DEF LongestIdle
<1> HIDE DEF S
<1>7. QED
  BY <1>1, <1>4, <1>5, <1>6

\* A prompt quotes turns of the memory only, whatever each of them costs.
LEMMA QuotesWhatItRemembers ==
  ASSUME NEW log, NEW s \in Seq(Nat), NEW t \in Seq(Nat), NEW o
  PROVE  Quoted(log, s, t, o) \subseteq Remembered(s, t)
<1> SUFFICES ASSUME NEW x \in Quoted(log, s, t, o) PROVE x \in Remembered(s, t)
  OBVIOUS
<1>1. \/ x \in ToSet(s) \/ x \in ToSet(<<>>)
      \/ \E i \in 1 .. Len(t) : x = t[i]
  BY Zenon DEF Quoted
<1>2. x \notin ToSet(<<>>)
  BY DEF ToSet
<1>3. QED
  BY <1>1, <1>2, Elements DEF Remembered

LEMMA EmptyIsSound ==
  ASSUME NEW log \in Log
  PROVE  Sound(log, <<>>, <<>>) /\ Remembered(<<>>, <<>>) = {}
<1>1. ToSet(<<>>) = {}
  BY DEF ToSet
<1>2. Remembered(<<>>, <<>>) = {}
  BY <1>1 DEF Remembered
<1>3. Linked(log, {})
  BY DEF Linked
<1>4. Ordered(Len(log), <<>>, <<>>)
  BY DEF Ordered
<1>5. QED
  BY <1>2, <1>3, <1>4 DEF Sound

\* The time is no pause after the last turn said.
Recent(log, time) ==
  log = <<>> \/ time - log[Len(log)].at <= LongestIdle

\* A turn may be added when it comes without a pause, or after the memory has been
\* emptied.
LEMMA AddedIsSound ==
  ASSUME NEW log \in Log, NEW s, NEW t, Sound(log, s, t), Len(log) < MaxTurns,
         NEW e \in Entry,
         Recent(log, e.at) \/ Remembered(s, t) = {}
  PROVE  LET log2 == Append(log, e) IN
         Sound(log2, s, Append(t, Len(log2)))
<1> DEFINE n == Len(log)
           log2 == Append(log, e)
           t2 == Append(t, n + 1)
<1>1. /\ s \in Seq(Turns) /\ t \in Seq(Turns) /\ s \in Seq(Nat) /\ t \in Seq(Nat)
      /\ MaxTurns \in Nat
  BY MemoryAssumption DEF Sound, Turns, MemoryAssumption
<1>2. /\ n \in Nat /\ log2 \in Log /\ Len(log2) = n + 1
      /\ \A i \in 1 .. n : log2[i] = log[i]
      /\ log2[n + 1] = e
  BY DEF Log
<1>3. n + 1 \in Turns
  BY <1>1, <1>2 DEF Turns
<1>4. /\ t2 \in Seq(Turns) /\ t2 \in Seq(Nat) /\ Len(t2) = Len(t) + 1
      /\ \A i \in 1 .. Len(t) : t2[i] = t[i]
      /\ t2[Len(t) + 1] = n + 1
  BY <1>1, <1>2, <1>3
<1> HIDE DEF n, log2, t2
<1>5. Remembered(s, t2) \subseteq Remembered(s, t) \cup {n + 1}
  <2>1. ASSUME NEW x \in ToSet(t2) PROVE x \in ToSet(t) \cup {n + 1}
    <3>1. PICK i \in 1 .. Len(t2) : x = t2[i]
      BY <1>4, Elements
    <3>2. CASE i = Len(t) + 1
      BY <1>4, <3>1, <3>2
    <3>3. CASE i # Len(t) + 1
      <4>1. i \in 1 .. Len(t)
        BY <1>1, <1>4, <3>3
      <4>2. x = t[i]
        BY <1>4, <3>1, <4>1
      <4>3. QED
        BY <1>1, <4>1, <4>2, Elements
    <3>4. QED
      BY <3>2, <3>3
  <2>2. QED
    BY <2>1 DEF Remembered
<1>6. Remembered(s, t) \subseteq 1 .. n
  BY DEF Sound, Linked, n
<1>7. Linked(log2, Remembered(s, t2))
  <2>1. Remembered(s, t2) \subseteq 1 .. Len(log2)
    BY <1>2, <1>5, <1>6
  <2>2. ASSUME NEW i \in Remembered(s, t2), NEW j \in i .. Len(log2) - 1
        PROVE  log2[j + 1].at - log2[j].at <= LongestIdle
    <3>1. i \in 1 .. n + 1 /\ j \in i .. n
      BY <1>2, <2>1
    <3>2. i \in Remembered(s, t)
      BY <1>5, <3>1, <1>2
    <3>3. i \in 1 .. n /\ j \in 1 .. n
      BY <1>2, <1>6, <3>1, <3>2
    <3>4. CASE j = n
      <4>1. log # <<>> /\ Recent(log, e.at)
        BY <1>2, <3>2, <3>3 DEF n
      <4>2. e.at - log[n].at <= LongestIdle
        BY <4>1 DEF Recent, n
      <4>3. log2[j + 1].at = e.at /\ log2[j].at = log[n].at
        BY <1>2, <3>3, <3>4
      <4>4. QED
        BY <4>2, <4>3
    <3>5. CASE j # n
      <4>1. j \in i .. n - 1 /\ j + 1 \in 1 .. n
        BY <1>2, <3>1, <3>3, <3>5
      <4>2. log[j + 1].at - log[j].at <= LongestIdle
        BY <3>2, <4>1 DEF Sound, Linked, n
      <4>3. log2[j + 1].at = log[j + 1].at /\ log2[j].at = log[j].at
        BY <1>2, <3>3, <4>1
      <4>4. QED
        BY <4>2, <4>3
    <3>6. QED
      BY <3>4, <3>5
  <2>3. QED
    BY <2>1, <2>2 DEF Linked
<1>8. Ordered(n, s, t)
  BY DEF Sound, n
<1> DEFINE a == s \o t
           a2 == s \o t2
<1>9. /\ a \in Seq(Nat) /\ Len(a) = Len(s) + Len(t)
      /\ a2 \in Seq(Nat) /\ Len(a2) = Len(s) + (Len(t) + 1)
  <2>1. a \in Seq(Nat) /\ Len(a) = Len(s) + Len(t)
    BY <1>1, Joined
  <2>2. a2 \in Seq(Nat) /\ Len(a2) = Len(s) + Len(t2)
    BY <1>1, <1>4, Joined
  <2>3. QED
    BY <1>4, <2>1, <2>2
<1>10. ASSUME NEW i \in 1 .. Len(a) PROVE a2[i] = a[i] /\ a[i] \in Remembered(s, t)
  <2>0. Len(s) \in Nat /\ Len(t) \in Nat
    BY <1>1
  <2>1. CASE i <= Len(s)
    <3>1. i \in 1 .. Len(s)
      BY <2>1
    <3>2. a2[i] = s[i] /\ a[i] = s[i]
      BY <1>1, <1>4, <3>1, Joined
    <3>3. QED
      BY <1>1, <3>1, <3>2, Elements DEF Remembered
  <2>2. CASE ~(i <= Len(s))
    <3>1. i - Len(s) \in 1 .. Len(t) /\ i = Len(s) + (i - Len(s))
      BY <1>9, <2>0, <2>2
    <3>2. PICK j \in 1 .. Len(t) : i = Len(s) + j
      BY <3>1
    <3>3. a[i] = t[j]
      BY <1>1, <3>2, Joined
    <3>4. j \in 1 .. Len(t2) /\ t2[j] = t[j]
      BY <1>4, <2>0
    <3>5. a2[i] = t2[j]
      BY <1>1, <1>4, <3>2, <3>4, Joined
    <3>6. QED
      BY <1>1, <3>3, <3>4, <3>5, Elements DEF Remembered
  <2>3. QED
    BY <2>1, <2>2
<1>11. a2[Len(a) + 1] = n + 1
  <2>1. Len(t) + 1 \in 1 .. Len(t2) /\ Len(a) + 1 = Len(s) + (Len(t) + 1)
    BY <1>1, <1>4, <1>9
  <2>2. a2[Len(s) + (Len(t) + 1)] = t2[Len(t) + 1]
    BY <1>1, <1>4, <2>1, Joined
  <2>3. QED
    BY <1>4, <2>1, <2>2
<1>12. ASSUME NEW i \in 1 .. Len(a2), NEW j \in 1 .. Len(a2), i < j
       PROVE  a2[i] < a2[j]
  <2>0. Len(a) \in Nat /\ Len(a2) = Len(a) + 1
    BY <1>1, <1>9
  <2>1. i \in 1 .. Len(a)
    BY <1>12, <2>0
  <2>2. CASE j = Len(a) + 1
    <3>1. a2[i] \in 1 .. n
      BY <1>6, <1>10, <2>1
    <3>2. QED
      BY <1>2, <1>11, <2>2, <3>1
  <2>3. CASE j # Len(a) + 1
    <3>1. j \in 1 .. Len(a)
      BY <2>0, <2>3
    <3>2. a[i] < a[j]
      BY <1>8, <1>12, <2>1, <3>1 DEF Ordered
    <3>3. QED
      BY <1>10, <2>1, <3>1, <3>2
  <2>4. QED
    BY <2>2, <2>3
<1>13. ASSUME NEW i \in 1 .. Len(t2) PROVE t2[i] = (n + 1) - Len(t2) + i
  <2>0. Len(t) \in Nat
    BY <1>1
  <2>1. CASE i = Len(t) + 1
    BY <1>2, <1>4, <2>0, <2>1
  <2>2. CASE i # Len(t) + 1
    <3>1. i \in 1 .. Len(t)
      BY <1>4, <2>0, <2>2
    <3>2. t[i] = n - Len(t) + i
      BY <1>8, <3>1 DEF Ordered
    <3>3. QED
      BY <1>2, <1>4, <2>0, <3>1, <3>2
  <2>3. QED
    BY <2>1, <2>2
<1>14. t2 # <<>>
  BY <1>1, <1>4
<1>15. Ordered(Len(log2), s, t2)
  BY <1>2, <1>12, <1>13, <1>14 DEF Ordered
<1>16. Sound(log2, s, t2)
  BY <1>1, <1>4, <1>7, <1>15 DEF Sound
<1>17. QED
  BY <1>2, <1>16 DEF log2, t2, n

-----------------------------------------------------------------------------
(* The invariant.                                                          *)
\* Types without the bounds of the memory, the part every step keeps alone.
Types ==
  /\ now \in Times /\ last \in Times \cup {-1}
  /\ summary \in Seq(Turns) /\ turns \in Seq(Turns)
  /\ said \in Log
  /\ Len(said) <= MaxTurns /\ used \in Limits
  /\ pc \in [Responses -> {"idle", "reading", "answering", "adding"}]
  /\ opts \in [Responses -> Limits] /\ at \in [Responses -> Times]
  /\ seen \in [Responses -> 0 .. MaxTurns]
  /\ prompt \in [Responses -> SUBSET Turns]

LEMMA TypesAndBounds ==
  TypeOK <=> Types /\ Bounded(said, summary, turns, used)
BY DEF TypeOK, Types, MemoryIsBounded, Bounded, Halved, Allowed, Log, Entry

\* The time of the memory is that of the last turn said.
LastIsLatest ==
  /\ said = <<>> => last = -1
  /\ said # <<>> => last = said[Len(said)].at

\* From each turn of a prompt to the time its response began there is no pause.
Follows(log, p, n, time) ==
  /\ n <= Len(log) /\ p \subseteq 1 .. n
  /\ \A t \in p : \A i \in t .. n :
       LET next == IF i = n THEN time ELSE log[i + 1].at IN
       next - log[i].at <= LongestIdle

Quotes ==
  \A r \in Responses :
    /\ Follows(said, prompt[r], seen[r], at[r])
    /\ pc[r] # "answering" => prompt[r] = {}

\* The inductive invariant.
MemoryInv ==
  /\ Types /\ Bounded(said, summary, turns, used)
  /\ Sound(said, summary, turns)
  /\ LastIsLatest
  /\ Quotes

LEMMA FollowsNothing ==
  ASSUME NEW log \in Log, NEW n \in Nat, n <= Len(log), NEW time
  PROVE  Follows(log, {}, n, time)
BY DEF Follows

\* What is said later does not change what a prompt followed.
LEMMA FollowsLater ==
  ASSUME NEW log \in Log, NEW e \in Entry, NEW p, NEW n \in Nat, NEW time,
         Follows(log, p, n, time)
  PROVE  Follows(Append(log, e), p, n, time)
<1> DEFINE log2 == Append(log, e)
<1>1. /\ Len(log) \in Nat /\ Len(log2) = Len(log) + 1
      /\ \A i \in 1 .. Len(log) : log2[i] = log[i]
  BY DEF Log
<1> HIDE DEF log2
<1>2. n <= Len(log2) /\ p \subseteq 1 .. n /\ n <= Len(log)
  BY <1>1 DEF Follows
<1>3. ASSUME NEW t \in p, NEW i \in t .. n
      PROVE  (IF i = n THEN time ELSE log2[i + 1].at) - log2[i].at <= LongestIdle
  <2>1. i \in 1 .. Len(log) /\ (i # n => i + 1 \in 1 .. Len(log))
    BY <1>1, <1>2
  <2>2. log2[i].at = log[i].at /\ (i # n => log2[i + 1].at = log[i + 1].at)
    BY <1>1, <2>1
  <2>3. (IF i = n THEN time ELSE log[i + 1].at) - log[i].at <= LongestIdle
    BY DEF Follows
  <2>4. QED
    BY <2>2, <2>3
<1>4. QED
  BY <1>2, <1>3 DEF Follows, log2

\* What a memory without a pause holds can be quoted if the time is recent.
LEMMA FollowsMemory ==
  ASSUME NEW log \in Log, NEW s, NEW t, Sound(log, s, t), NEW time,
         Recent(log, time), NEW p, p \subseteq Remembered(s, t)
  PROVE  Follows(log, p, Len(log), time)
<1>1. Len(log) \in Nat /\ p \subseteq 1 .. Len(log)
  BY DEF Log, Sound, Linked
<1>2. ASSUME NEW q \in p, NEW i \in q .. Len(log)
      PROVE  (IF i = Len(log) THEN time ELSE log[i + 1].at) - log[i].at <= LongestIdle
  <2>1. CASE i = Len(log)
    <3>1. log # <<>>
      BY <1>1
    <3>2. QED
      BY <2>1, <3>1 DEF Recent
  <2>2. CASE i # Len(log)
    <3>1. q \in Remembered(s, t) /\ i \in q .. Len(log) - 1
      BY <1>1, <2>2
    <3>2. QED
      BY <2>2, <3>1 DEF Sound, Linked
  <2>3. QED
    BY <2>1, <2>2
<1>3. QED
  BY <1>1, <1>2 DEF Follows

\* The check the code makes, time - last > idle, finds every pause: last is the
\* time of the turn said last, also when the clock it was read from is behind.
LEMMA NotIdleIsRecent ==
  ASSUME Types, LastIsLatest, NEW o \in Limits, NEW time \in Times, ~Idle(time, o)
  PROVE  Recent(said, time)
<1> SUFFICES ASSUME said # <<>> PROVE time - said[Len(said)].at <= LongestIdle
  BY DEF Recent
<1>1. said \in Log /\ Len(said) \in 1 .. Len(said)
  BY DEF Types, Log
<1>2. PICK m \in Times : m = said[Len(said)].at
  BY <1>1, LogEntry
<1>3. last = m /\ last # -1
  BY <1>2 DEF LastIsLatest, Times
<1>4. ~(time - m > o.idle)
  BY <1>3 DEF Idle
<1>5. o.idle \in Nat /\ o.idle <= LongestIdle /\ LongestIdle \in Nat
  BY OptionType, LongestIdleBounds
<1>6. time - m <= LongestIdle
  BY <1>4, <1>5 DEF Times
<1>7. QED
  BY <1>2, <1>6

-----------------------------------------------------------------------------
(* Every step keeps it.                                                    *)
LEMMA MemoryInit == Init => MemoryInv
<1> SUFFICES ASSUME Init PROVE MemoryInv
  OBVIOUS
<1> USE DEF Init
<1>1. Types
  <2>1. 0 \in Times /\ 0 \in 0 .. MaxTurns
    BY MemoryAssumption DEF MemoryAssumption, Times
  <2>2. summary \in Seq(Turns) /\ turns \in Seq(Turns) /\ said \in Log
    BY DEF Log
  <2>3. Len(said) <= MaxTurns
    BY MemoryAssumption DEF MemoryAssumption
  <2>4. QED
    BY <2>1, <2>2, <2>3 DEF Types
<1>2. Bounded(said, summary, turns, used)
  <2>1. used.recent \in Nat
    BY OptionType
  <2>2. Allowed(summary) /\ Halved(summary, used)
    BY NothingIsAllowed
  <2>3. QED
    BY <2>1, <2>2 DEF Bounded
<1>3. said \in Log
  BY <1>1 DEF Types
<1>4. Sound(said, summary, turns)
  BY <1>3, EmptyIsSound
<1>5. LastIsLatest
  BY DEF LastIsLatest
<1>6. Quotes
  BY <1>3, FollowsNothing DEF Quotes
<1>7. QED
  BY <1>1, <1>2, <1>4, <1>5, <1>6 DEF MemoryInv

LEMMA RememberKeeps ==
  ASSUME NEW log \in Log, NEW s, NEW t, NEW o \in Limits, Sound(log, s, t),
         Allowed(s), Remember(log, s, t, o)
  PROVE  /\ used' \in Limits
         /\ Sound(log, summary', turns')
         /\ Bounded(log, summary', turns', used')
         /\ Remembered(summary', turns') \subseteq Remembered(s, t)
<1> DEFINE c == Compressed(log, s, t, o)
<1>1. /\ Sound(log, c.summary, c.turns)
      /\ Bounded(log, c.summary, c.turns, o)
      /\ Remembered(c.summary, c.turns) \subseteq Remembered(s, t)
  BY CompressedSound
<1>2. summary' = c.summary /\ turns' = c.turns /\ used' = o
  BY DEF Remember
<1> HIDE DEF c
<1>3. QED
  BY <1>1, <1>2, Zenon

Untouched(q) ==
  /\ prompt'[q] = prompt[q] /\ seen'[q] = seen[q]
  /\ at'[q] = at[q] /\ pc'[q] = pc[q]

\* A step of one response, which has nothing quoted after it, leaves every prompt
\* without a pause, whether or not it adds a turn.
LEMMA StillQuotes ==
  ASSUME Types, Quotes, NEW r \in Responses,
         said' = said \/ \E e \in Entry : said' = Append(said, e),
         \A q \in Responses \ {r} : Untouched(q),
         prompt'[r] = {}, seen'[r] = 0 \/ seen'[r] = seen[r]
  PROVE  Quotes'
<1>1. said \in Log /\ \A q \in Responses : seen[q] \in Nat /\ 0 \in Nat
  BY DEF Types
<1>2. \A p, time : \A n \in Nat :
        Follows(said, p, n, time) => Follows(said', p, n, time)
  BY <1>1, FollowsLater, Zenon
<1>3. ASSUME NEW q \in Responses, q # r
      PROVE  /\ Follows(said', prompt'[q], seen'[q], at'[q])
             /\ pc'[q] # "answering" => prompt'[q] = {}
  <2>1. /\ Follows(said, prompt[q], seen[q], at[q])
        /\ pc[q] # "answering" => prompt[q] = {}
    BY DEF Quotes
  <2>2. Untouched(q)
    BY <1>3
  <2>3. QED
    BY <1>1, <1>2, <2>1, <2>2, Zenon DEF Untouched
<1>4. Follows(said', prompt'[r], seen'[r], at'[r])
  <2>1. /\ Len(said) \in Nat /\ Len(said) <= Len(said')
        /\ said' \in Log
    BY <1>1 DEF Log
  <2>2. seen[r] \in Nat /\ seen[r] <= Len(said)
    BY <1>1 DEF Quotes, Follows
  <2>3. PICK n \in Nat : n = seen'[r] /\ n <= Len(said')
    BY <2>1, <2>2
  <2>4. QED
    BY <2>1, <2>3, FollowsNothing
<1>5. QED
  BY <1>3, <1>4 DEF Quotes

\* A response reads the memory, under its own limits.
LEMMA SnapshotKeeps ==
  ASSUME MemoryInv, NEW r \in Responses, Snapshot(r)
  PROVE  MemoryInv'
<1> DEFINE o == opts[r]
           idle == Idle(at[r], o)
           s == IF idle THEN <<>> ELSE summary
           t == IF idle THEN <<>> ELSE turns
<1>1. /\ Types /\ Sound(said, summary, turns) /\ LastIsLatest /\ Quotes
      /\ said \in Log /\ o \in Limits /\ at[r] \in Times /\ Allowed(summary)
  BY DEF MemoryInv, Types, Bounded
<1>2. /\ Remember(said, s, t, o)
      /\ seen' = [seen EXCEPT ![r] = Len(said)]
      /\ prompt' = [prompt EXCEPT ![r] = Quoted(said, summary', turns', o)]
      /\ pc' = [pc EXCEPT ![r] = "answering"]
      /\ now' = now /\ last' = last /\ said' = said /\ opts' = opts /\ at' = at
  BY DEF Snapshot
<1>3. /\ Sound(said, s, t) /\ Allowed(s)
      /\ Recent(said, at[r]) \/ Remembered(s, t) = {}
  <2>1. CASE idle
    BY <1>1, <2>1, EmptyIsSound, NothingIsAllowed
  <2>2. CASE ~idle
    BY <1>1, <2>2, NotIdleIsRecent
  <2>3. QED
    BY <2>1, <2>2
<1> HIDE DEF s, t, o, idle
<1>4. /\ used' \in Limits
      /\ Sound(said, summary', turns')
      /\ Bounded(said, summary', turns', used')
      /\ Remembered(summary', turns') \subseteq Remembered(s, t)
  BY <1>1, <1>2, <1>3, RememberKeeps
<1>5. summary' \in Seq(Turns) /\ turns' \in Seq(Turns)
  BY <1>4 DEF Sound
<1> DEFINE p == Quoted(said, summary', turns', o)
<1>6. p \subseteq Remembered(summary', turns')
  <2>1. summary' \in Seq(Nat) /\ turns' \in Seq(Nat)
    BY <1>5, MemoryAssumption DEF Turns, MemoryAssumption
  <2>2. QED
    BY <2>1, QuotesWhatItRemembers
<1>7. p \subseteq Turns
  <2>1. Remembered(summary', turns') \subseteq 1 .. Len(said)
    BY <1>4 DEF Sound, Linked
  <2>2. Len(said) \in Nat /\ MaxTurns \in Nat /\ Len(said) <= MaxTurns
    BY <1>1, MemoryAssumption DEF Types, MemoryAssumption, Log
  <2>3. QED
    BY <1>6, <2>1, <2>2 DEF Turns
<1>8. Follows(said, p, Len(said), at[r])
  <2>1. CASE Recent(said, at[r])
    BY <1>1, <1>4, <1>6, <2>1, FollowsMemory
  <2>2. CASE Remembered(s, t) = {}
    <3>1. p = {}
      BY <1>4, <1>6, <2>2
    <3>2. Len(said) \in Nat /\ Len(said) <= Len(said)
      BY <1>1 DEF Log
    <3>3. QED
      BY <1>1, <3>1, <3>2, FollowsNothing
  <2>3. QED
    BY <1>3, <2>1, <2>2
<1> HIDE DEF p
<1>9. Types'
  <2>1. Len(said) \in 0 .. MaxTurns
    BY <1>1, MemoryAssumption DEF Types, Log, MemoryAssumption
  <2>2. seen' \in [Responses -> 0 .. MaxTurns]
    BY <1>1, <1>2, <2>1 DEF Types
  <2>3. prompt' \in [Responses -> SUBSET Turns]
    BY <1>1, <1>2, <1>7 DEF Types, p
  <2>4. pc' \in [Responses -> {"idle", "reading", "answering", "adding"}]
    BY <1>1, <1>2 DEF Types
  <2>5. QED
    BY <1>1, <1>2, <1>4, <1>5, <2>2, <2>3, <2>4 DEF Types
<1>10. Quotes'
  <2>1. ASSUME NEW q \in Responses
        PROVE  /\ Follows(said', prompt'[q], seen'[q], at'[q])
               /\ pc'[q] # "answering" => prompt'[q] = {}
    <3>1. CASE q = r
      <4>1. /\ prompt'[r] = p /\ seen'[r] = Len(said) /\ at'[r] = at[r]
            /\ pc'[r] = "answering"
        BY <1>1, <1>2 DEF Types, p
      <4>2. QED
        BY <1>2, <1>8, <3>1, <4>1
    <3>2. CASE q # r
      <4>1. Untouched(q)
        BY <1>1, <1>2, <3>2 DEF Types, Untouched
      <4>2. /\ Follows(said, prompt[q], seen[q], at[q])
            /\ pc[q] # "answering" => prompt[q] = {}
        BY <1>1 DEF Quotes
      <4>3. QED
        BY <1>2, <4>1, <4>2 DEF Untouched
    <3>3. QED
      BY <3>1, <3>2
  <2>2. QED
    BY <2>1 DEF Quotes
<1>11. LastIsLatest'
  BY <1>1, <1>2 DEF LastIsLatest
<1>12. QED
  BY <1>2, <1>4, <1>9, <1>10, <1>11 DEF MemoryInv

\* A response adds its turn.
LEMMA AddKeeps ==
  ASSUME MemoryInv, NEW r \in Responses, NEW size \in 1 .. MaxSize, Add(r, size)
  PROVE  MemoryInv'
<1> DEFINE o == opts[r]
           e == [at |-> at[r], size |-> size]
           s == Kept(r).summary
           t == Kept(r).turns
<1>1. /\ Types /\ Sound(said, summary, turns) /\ LastIsLatest /\ Quotes
      /\ said \in Log /\ o \in Limits /\ at[r] \in Times /\ e \in Entry
      /\ Allowed(summary)
  BY DEF MemoryInv, Types, Bounded, Entry
<1>2. /\ Len(said) < MaxTurns
      /\ said' = Append(said, e)
      /\ Remember(said', s, Append(t, Len(said')), o)
      /\ last' = at[r]
      /\ Ends(r) /\ now' = now /\ opts' = opts
  BY DEF Add
<1>3. /\ Sound(said, s, t) /\ Allowed(s)
      /\ Recent(said, at[r]) \/ Remembered(s, t) = {}
  <2>1. CASE Idle(at[r], o)
    <3>1. s = <<>> /\ t = <<>>
      BY <2>1 DEF Kept
    <3>2. QED
      BY <1>1, <3>1, EmptyIsSound, NothingIsAllowed
  <2>2. CASE ~Idle(at[r], o)
    <3>1. s = summary /\ t = turns
      BY <2>2 DEF Kept
    <3>2. QED
      BY <1>1, <2>2, <3>1, NotIdleIsRecent
  <2>3. QED
    BY <2>1, <2>2
<1> HIDE DEF s, t, o
<1>4. /\ said' \in Log /\ Len(said') = Len(said) + 1 /\ Len(said) \in Nat
      /\ said'[Len(said')] = e
  BY <1>1, <1>2 DEF Log
<1>5. Sound(said', s, Append(t, Len(said')))
  BY <1>1, <1>2, <1>3, AddedIsSound
<1>6. /\ used' \in Limits
      /\ Sound(said', summary', turns')
      /\ Bounded(said', summary', turns', used')
  BY <1>1, <1>2, <1>3, <1>4, <1>5, RememberKeeps
<1>7. /\ pc' = [pc EXCEPT ![r] = "idle"]
      /\ at' = [at EXCEPT ![r] = 0]
      /\ seen' = [seen EXCEPT ![r] = 0]
      /\ prompt' = [prompt EXCEPT ![r] = {}]
  BY <1>2 DEF Ends
<1>8. Types'
  <2>1. 0 \in Times /\ 0 \in 0 .. MaxTurns /\ MaxTurns \in Nat
    BY MemoryAssumption DEF MemoryAssumption, Times
  <2>2. /\ pc' \in [Responses -> {"idle", "reading", "answering", "adding"}]
        /\ at' \in [Responses -> Times] /\ seen' \in [Responses -> 0 .. MaxTurns]
        /\ prompt' \in [Responses -> SUBSET Turns]
    BY <1>1, <1>7, <2>1 DEF Types
  <2>3. summary' \in Seq(Turns) /\ turns' \in Seq(Turns)
    BY <1>6 DEF Sound
  <2>4. Len(said') <= MaxTurns
    BY <1>2, <1>4, <2>1
  <2>5. QED
    BY <1>1, <1>2, <1>4, <1>6, <2>2, <2>3, <2>4 DEF Types
<1>9. LastIsLatest'
  <2>1. said' # <<>>
    BY <1>4
  <2>2. QED
    BY <1>2, <1>4, <2>1 DEF LastIsLatest
<1>10. Quotes'
  <2>1. \A q \in Responses \ {r} : Untouched(q)
    BY <1>1, <1>7 DEF Types, Untouched
  <2>2. prompt'[r] = {} /\ seen'[r] = 0
    BY <1>1, <1>7 DEF Types
  <2>3. \E e1 \in Entry : said' = Append(said, e1)
    BY <1>1, <1>2
  <2>4. QED
    BY <1>1, <2>1, <2>2, <2>3, StillQuotes
<1>11. QED
  BY <1>6, <1>8, <1>9, <1>10 DEF MemoryInv

\* The other steps of a response leave the memory as it is.
Elsewhere == UNCHANGED <<now, memoryVars, said, opts>>

LEMMA ElsewhereKeeps ==
  ASSUME MemoryInv, Elsewhere, Types', Quotes'
  PROVE  MemoryInv'
<1>1. /\ summary' = summary /\ turns' = turns /\ last' = last /\ used' = used
      /\ said' = said
  BY DEF Elsewhere, memoryVars
<1>2. LastIsLatest'
  BY <1>1 DEF MemoryInv, LastIsLatest
<1>3. QED
  BY <1>1, <1>2 DEF MemoryInv

LEMMA ResponseKeeps ==
  ASSUME MemoryInv, NEW r \in Responses,
         Begin(r) \/ EndUnremembered(r) \/ Complete(r)
  PROVE  MemoryInv'
<1>1. Types /\ Quotes /\ now \in Times
  BY DEF MemoryInv, Types
<1>2. 0 \in Times /\ 0 \in 0 .. MaxTurns
  BY MemoryAssumption DEF MemoryAssumption, Times
<1>3. Elsewhere
  BY DEF Begin, EndUnremembered, Complete, Elsewhere
<1>4. \E next \in {"idle", "reading", "adding"} : pc' = [pc EXCEPT ![r] = next]
  BY DEF Begin, EndUnremembered, Complete, Ends
<1>5. \E time \in Times : at' = [at EXCEPT ![r] = time]
  BY <1>1, <1>2 DEF Begin, EndUnremembered, Complete, Ends
<1>6. \/ seen' = seen /\ prompt' = prompt /\ pc[r] = "idle"
      \/ seen' = [seen EXCEPT ![r] = 0] /\ prompt' = [prompt EXCEPT ![r] = {}]
  BY DEF Begin, EndUnremembered, Complete, Ends
<1>7. Types'
  <2>1. /\ seen' \in [Responses -> 0 .. MaxTurns]
        /\ prompt' \in [Responses -> SUBSET Turns]
    BY <1>1, <1>2, <1>6 DEF Types
  <2>2. pc' \in [Responses -> {"idle", "reading", "answering", "adding"}]
    BY <1>1, <1>4 DEF Types
  <2>3. at' \in [Responses -> Times]
    BY <1>1, <1>5 DEF Types
  <2>4. QED
    BY <1>1, <1>3, <2>1, <2>2, <2>3 DEF Types, Elsewhere, memoryVars
<1>8. Quotes'
  <2>1. \A q \in Responses \ {r} : Untouched(q)
    BY <1>1, <1>4, <1>5, <1>6 DEF Types, Untouched
  <2>2. prompt'[r] = {} /\ (seen'[r] = 0 \/ seen'[r] = seen[r])
    BY <1>1, <1>6 DEF Types, Quotes
  <2>3. said' = said
    BY <1>3 DEF Elsewhere
  <2>4. QED
    BY <1>1, <2>1, <2>2, <2>3, StillQuotes
<1>9. QED
  BY <1>3, <1>7, <1>8, ElsewhereKeeps

LEMMA NothingKeeps ==
  ASSUME MemoryInv, now' \in Times,
         UNCHANGED <<memoryVars, said, pc, opts, at, seen, prompt>>
  PROVE  MemoryInv'
<1>1. /\ summary' = summary /\ turns' = turns /\ last' = last /\ used' = used
      /\ said' = said /\ pc' = pc /\ opts' = opts /\ at' = at /\ seen' = seen
      /\ prompt' = prompt
  BY DEF memoryVars
<1>2. Types'
  BY <1>1 DEF MemoryInv, Types
<1>3. Quotes'
  BY <1>1 DEF MemoryInv, Quotes
<1>4. LastIsLatest'
  BY <1>1 DEF MemoryInv, LastIsLatest
<1>5. QED
  BY <1>1, <1>2, <1>3, <1>4 DEF MemoryInv

LEMMA MemoryStep == MemoryInv /\ [Next]_vars => MemoryInv'
<1> SUFFICES ASSUME MemoryInv, [Next]_vars PROVE MemoryInv'
  OBVIOUS
<1>1. CASE \E r \in Responses : Begin(r) \/ EndUnremembered(r) \/ Complete(r)
  BY <1>1, ResponseKeeps
<1>2. CASE \E r \in Responses : Snapshot(r)
  BY <1>2, SnapshotKeeps
<1>3. CASE \E r \in Responses : \E size \in 1 .. MaxSize : Add(r, size)
  BY <1>3, AddKeeps
<1>4. CASE Tick
  <2>1. now' \in Times
    BY <1>4, MemoryAssumption DEF Tick, MemoryInv, Types, Times, MemoryAssumption
  <2>2. QED
    BY <1>4, <2>1, NothingKeeps DEF Tick
<1>5. CASE UNCHANGED vars
  <2>1. now' \in Times
    BY <1>5 DEF vars, MemoryInv, Types
  <2>2. QED
    BY <1>5, <2>1, NothingKeeps DEF vars
<1>6. QED
  BY <1>1, <1>2, <1>3, <1>4, <1>5 DEF Next

\* The invariant holds of every reachable state.
THEOREM MemoryInvariant == Spec => []MemoryInv
BY MemoryInit, MemoryStep, PTL DEF Spec

\* TypeOK: the types, and the memory within the limits of whoever used it last, a
\* summary made under a larger limit excepted (compressConversationMemoryLocked).
THEOREM TypeCorrect == Spec => []TypeOK
<1>1. MemoryInv => TypeOK
  BY TypesAndBounds DEF MemoryInv
<1>2. QED
  BY <1>1, MemoryInvariant, PTL

\* MemoryInOrder: the memory is the end of the conversation, the summary older than
\* the turns, whichever connections share it and however often it is compressed
\* (rememberConversationTurn, conversationContextMessages).
THEOREM MemoryOrdered == Spec => []MemoryInOrder
<1>1. MemoryInv => MemoryInOrder
  BY DEF MemoryInv, Sound, Ordered, MemoryInOrder
<1>2. QED
  BY <1>1, MemoryInvariant, PTL

\* PromptHasNoPause: no prompt quotes what was said before a pause longer than the
\* longest idle timeout, though times are read before the lock is taken.
THEOREM PromptUnbroken == Spec => []PromptHasNoPause
<1>1. MemoryInv => PromptHasNoPause
  BY DEF MemoryInv, Quotes, Follows, PromptHasNoPause
<1>2. QED
  BY <1>1, MemoryInvariant, PTL
=============================================================================
