----------------------- MODULE ProviderRegistryProofs -----------------------
(***************************************************************************)
(* Proofs about ProviderRegistry, for every number of clients, profiles    *)
(* and snapshots and any crashes and failed flushes.                       *)
(***************************************************************************)
EXTENDS ProviderRegistry, TLAPS

(* The snapshots are numbered from 1 without a gap: a version was the one  *)
(* after the last when it was read, and no snapshot goes away.             *)
UpTo(data, n) ==
  /\ n \in 0 .. MaxVersion
  /\ \A v \in Versions : data.config[v] # NoProfile <=> v <= n

Backed(data) ==
  \A v \in Versions :
    data.config[v] # NoProfile => data.profile[data.config[v]] # "absent"

Sound(data) == UpTo(data, LastVersion(data)) /\ Backed(data)

Phases ==
  /\ life # "serving" => \A c \in Clients : at[c] = "idle"
  /\ life = "down" => holder = Nobody
  /\ holder = Server => life = "seeding"

(* A profile is saved before it can become the default.                    *)
Prepared ==
  /\ life = "seeding" /\ (step = 2 \/ holder = Server)
       => memory.profile[Builtin] # "absent"
  /\ life = "serving" \/ (holder = Server /\ step = 2)
       => DefaultOf(memory) # NoProfile
  /\ \A c \in Clients :
       at[c] \in {"registering", "look", "choose"}
         => memory.profile[asked[c].profile] = "own"
  /\ \A c \in Clients :
       at[c] = "choose" => version[c] <= LastVersion(memory) + 1

(* What a rename puts in the place of the file is all of memory.           *)
FilesWhole == flush = "written" => holder # Nobody /\ temp = memory

(* What is known while somebody chooses alone, and after.                  *)
Alone ==
  /\ \A c \in Clients :
       lone = c /\ at[c] \in Choosing =>
         /\ \A e \in Clients \ {c} : at[e] \notin Choosing
         /\ at[c] = "choose" => version[c] = LastVersion(memory) + 1
         /\ at[c] = "choosing" => DefaultOf(memory) = asked[c].profile
  /\ chosen # NoProfile => \A c \in Clients : at[c] \notin Choosing

IInv ==
  /\ TypeOK /\ Phases /\ Sound(memory) /\ Sound(file)
  /\ Prepared /\ OthersAreKept /\ FilesWhole /\ Alone /\ LoneChoiceHolds
-----------------------------------------------------------------------------
(***************************************************************************)
(* About the snapshots.                                                    *)
(***************************************************************************)

(* The last version is the number of snapshots.                            *)
LEMMA LastIs ==
  ASSUME NEW data, NEW n, UpTo(data, n)
  PROVE  /\ LastVersion(data) = n
         /\ n = 0 => DefaultOf(data) = NoProfile
         /\ n # 0 => DefaultOf(data) = data.config[n]
  <1> USE RegistryAssumption
  <1>1. n \in Int /\ Made(data) = 1 .. n
    BY DEF UpTo, Made, Versions
  <1>2. LastVersion(data) = n
    <2>1. CASE n = 0
      BY <1>1, <2>1 DEF LastVersion
    <2>2. CASE n # 0
      <3>1. n \in 1 .. n /\ \A y \in 1 .. n : n >= y
        BY <2>2 DEF UpTo
      <3>2. Max(1 .. n) = n
        <4> DEFINE P(x) == x \in 1 .. n /\ \A y \in 1 .. n : x >= y
        <4>1. P(n)
          BY <3>1
        <4>2. \A x : P(x) => x = n
          BY <3>1
        <4>3. P(CHOOSE x : P(x))
          BY <4>1
        <4>4. (CHOOSE x : P(x)) = n
          BY <4>2, <4>3
        <4>5. Max(1 .. n) = CHOOSE x : P(x)
          BY DEF Max
        <4>6. QED
          BY <4>4, <4>5
      <3>3. QED
        BY <1>1, <3>1, <3>2 DEF LastVersion
    <2>3. QED
      BY <2>1, <2>2
  <1>3. QED
    BY <1>2 DEF DefaultOf

(* What the default is depends on the snapshots only.                      *)
LEMMA SameConfig ==
  ASSUME NEW d, NEW e, d.config = e.config
  PROVE  /\ LastVersion(d) = LastVersion(e) /\ DefaultOf(d) = DefaultOf(e)
         /\ \A n : UpTo(d, n) <=> UpTo(e, n)
  BY DEF LastVersion, DefaultOf, Made, UpTo

LEMMA EmptyIsSound == Empty \in Data /\ Sound(Empty) /\ DefaultOf(Empty) = NoProfile
  <1> USE RegistryAssumption, EmptyAssumption DEF NoConfig
  <1>1. Empty \in Data
    BY DEF Data, Contents
  <1>2. UpTo(Empty, 0)
    BY DEF UpTo, Versions
  <1>3. QED
    BY <1>1, <1>2, LastIs DEF Sound, Backed

LEMMA OldIsSound == OldState \in Data /\ Sound(OldState)
  <1> USE RegistryAssumption, EmptyAssumption DEF NoConfig
  <1>1. OldState \in Data
    BY DEF Data, Contents, OldState, Versions
  <1>2. OldState.config = [v \in Versions |-> IF v = 1 THEN OldDefault ELSE NoProfile]
    BY DEF OldState
  <1>3. UpTo(OldState, 1)
    BY <1>2 DEF UpTo, Versions
  <1>4. Backed(OldState)
    BY <1>2 DEF Backed, OldState
  <1>5. QED
    BY <1>1, <1>3, <1>4, LastIs DEF Sound

(* Saving a profile that exists from then on.                              *)
LEMMA ProfileIsSound ==
  ASSUME memory \in Data, Sound(memory), NEW p \in Profiles,
         NEW x \in {"builtin", "own"}
  PROVE  LET d == WithProfile(p, x)
         IN  /\ d \in Data /\ Sound(d) /\ d.config = memory.config
             /\ d.profile[p] = x
             /\ \A q \in Profiles \ {p} : d.profile[q] = memory.profile[q]
  <1> DEFINE d == WithProfile(p, x)
  <1>1. /\ d \in Data /\ d.config = memory.config
        /\ d.profile[p] = x
        /\ \A q \in Profiles \ {p} : d.profile[q] = memory.profile[q]
    BY DEF WithProfile, Data, Contents
  <1> HIDE DEF d
  <1>2. \A v \in Versions : memory.config[v] \in Profiles \cup {NoProfile}
    BY DEF Data
  <1>3. Backed(d)
    BY <1>1, <1>2 DEF Sound, Backed
  <1>4. Sound(d)
    BY <1>1, <1>3, SameConfig DEF Sound
  <1>5. QED
    BY <1>1, <1>4 DEF d

(* Saving a snapshot, as the next one or in place of an earlier one.       *)
LEMMA DefaultIsSound ==
  ASSUME memory \in Data, Sound(memory), NEW p \in Profiles,
         NEW v \in Versions, v <= LastVersion(memory) + 1,
         memory.profile[p] # "absent"
  PROVE  LET d == WithDefault(v, p)
         IN  /\ d \in Data /\ Sound(d) /\ d.profile = memory.profile
             /\ LastVersion(d) >= LastVersion(memory)
             /\ DefaultOf(d) # NoProfile
             /\ v = LastVersion(memory) + 1 => DefaultOf(d) = p
  <1> USE RegistryAssumption
  <1> DEFINE d == WithDefault(v, p)
             n == LastVersion(memory)
             m == IF v = n + 1 THEN v ELSE n
  <1>1. /\ d \in Data /\ d.profile = memory.profile
        /\ d.config[v] = p
        /\ \A w \in Versions \ {v} : d.config[w] = memory.config[w]
    BY DEF WithDefault, Data
  <1>2. UpTo(memory, n)
    BY DEF Sound
  <1> HIDE DEF d, n
  <1>3. n \in Nat /\ v <= n + 1 /\ v \in 1 .. MaxVersion
    BY <1>2 DEF UpTo, n, Versions
  <1>4. UpTo(d, m)
    <2>1. m \in 0 .. MaxVersion /\ v <= m
      BY <1>2, <1>3 DEF UpTo
    <2>2. \A w \in Versions \ {v} : w <= m <=> w <= n
      BY <1>3 DEF Versions
    <2>3. \A w \in Versions : d.config[w] # NoProfile <=> w <= m
      BY <1>1, <1>2, <2>1, <2>2 DEF UpTo
    <2>4. QED
      BY <2>1, <2>3 DEF UpTo
  <1>5. LastVersion(d) = m /\ m # 0 /\ DefaultOf(d) = d.config[m]
    BY <1>3, <1>4, LastIs
  <1>6. m \in Versions /\ d.config[m] # NoProfile
    BY <1>3, <1>4 DEF UpTo, Versions
  <1>7. \A w \in Versions : memory.config[w] \in Profiles \cup {NoProfile}
    BY DEF Data
  <1>8. Backed(d)
    BY <1>1, <1>7 DEF Sound, Backed
  <1>9. LastVersion(d) >= n /\ (v = n + 1 => DefaultOf(d) = p)
    BY <1>1, <1>3, <1>5
  <1>10. QED
    BY <1>1, <1>4, <1>5, <1>6, <1>8, <1>9 DEF Sound, d, n
-----------------------------------------------------------------------------
LEMMA InitInvariant == Init => IInv
  <1> SUFFICES ASSUME Init PROVE IInv
    OBVIOUS
  <1> USE RegistryAssumption DEF Init
  <1>1. memory \in Data /\ file \in Data /\ Sound(memory) /\ Sound(file)
    BY EmptyIsSound, OldIsSound
  <1>2. /\ at = [c \in Clients |-> "idle"]
        /\ asked = [c \in Clients |-> [profile |-> Builtin, default |-> FALSE]]
        /\ version = [c \in Clients |-> 1]
    BY DEF NobodyAsks
  <1>3. at \in [Clients -> Stages] /\ version \in [Clients -> Versions]
    BY <1>2 DEF Stages, Versions
  <1>4. asked \in [Clients -> [profile : Profiles, default : BOOLEAN]]
    BY <1>2
  <1>5. TypeOK
    BY <1>1, <1>3, <1>4 DEF TypeOK, FlushStages
  <1>6. Phases /\ Prepared /\ OthersAreKept
    BY <1>2 DEF Phases, Prepared, OthersAreKept
  <1>7. FilesWhole /\ Alone /\ LoneChoiceHolds
    BY <1>2 DEF FilesWhole, Alone, LoneChoiceHolds, Choosing
  <1>8. QED
    BY <1>1, <1>5, <1>6, <1>7 DEF IInv
-----------------------------------------------------------------------------
(***************************************************************************)
(* The process.                                                            *)
(***************************************************************************)
LEMMA StepsAre ==
  ASSUME step \in {1, 2}
  PROVE  /\ EnsureSteps[step] = "profile" <=> step = 1
         /\ EnsureSteps[step] = "choice" <=> step = 2
         /\ step = Len(EnsureSteps) <=> step = 2
  BY DEF EnsureSteps

LEMMA StartUpKeeps == IInv /\ StartUp => IInv'
  <1> SUFFICES ASSUME IInv, StartUp PROVE IInv'
    OBVIOUS
  <1> USE RegistryAssumption
  <1>1. /\ life = "down" /\ life' = "seeding" /\ step' = 1 /\ memory' = file
        /\ UNCHANGED <<file, temp, holder, flush, at, asked, version, registered,
                       lone, chosen>>
    BY DEF StartUp, Load, clientVars, history
  <1>2. holder = Nobody /\ \A c \in Clients : at[c] = "idle"
    BY <1>1 DEF IInv, Phases
  <1>3. TypeOK' /\ Sound(memory)' /\ Sound(file)'
    BY <1>1 DEF IInv, TypeOK
  <1>4. Phases' /\ Prepared' /\ OthersAreKept'
    BY <1>1, <1>2 DEF IInv, Phases, Prepared, OthersAreKept
  <1>5. FilesWhole' /\ Alone' /\ LoneChoiceHolds'
    BY <1>1, <1>2 DEF IInv, FilesWhole, Alone, LoneChoiceHolds, Choosing
  <1>6. QED
    BY <1>3, <1>4, <1>5 DEF IInv

LEMMA CrashKeeps == IInv /\ Crash => IInv'
  <1> SUFFICES ASSUME IInv, Crash PROVE IInv'
    OBVIOUS
  <1> USE RegistryAssumption
  <1>1. /\ life' = "down" /\ step' = 1 /\ memory' = Empty /\ file' = file
        /\ temp' = Torn
        /\ holder' = Nobody /\ flush' = "idle"
        /\ at' = [c \in Clients |-> "idle"]
        /\ asked' = [c \in Clients |-> [profile |-> Builtin, default |-> FALSE]]
        /\ version' = [c \in Clients |-> 1]
        /\ lone' = Nobody /\ UNCHANGED <<registered, chosen>>
    BY DEF Crash, StoreCrash, NobodyAsks
  <1>2. at' \in [Clients -> Stages] /\ version' \in [Clients -> Versions]
    BY <1>1 DEF Stages, Versions
  <1>3. asked' \in [Clients -> [profile : Profiles, default : BOOLEAN]]
    BY <1>1
  <1>4. TypeOK'
    BY <1>1, <1>2, <1>3, EmptyIsSound DEF IInv, TypeOK, FlushStages
  <1>5. Sound(memory)' /\ Sound(file)'
    BY <1>1, EmptyIsSound DEF IInv
  <1>6. Phases' /\ Prepared' /\ OthersAreKept'
    BY <1>1 DEF IInv, Phases, Prepared, OthersAreKept
  <1>7. FilesWhole' /\ Alone' /\ LoneChoiceHolds'
    BY <1>1 DEF IInv, FilesWhole, Alone, LoneChoiceHolds, Choosing
  <1>8. QED
    BY <1>4, <1>5, <1>6, <1>7 DEF IInv

LEMMA EnsureProvidesKeeps == IInv /\ EnsureProvides => IInv'
  <1> SUFFICES ASSUME IInv, EnsureProvides PROVE IInv'
    OBVIOUS
  <1> USE RegistryAssumption
  <1> DEFINE d == WithProfile(Builtin, "builtin")
  <1>1. /\ memory' = d /\ holder' = Server /\ flush' = "marshalled"
        /\ life = "seeding" /\ step = 1
        /\ UNCHANGED <<file, temp, life, step, at, asked, version, registered, lone,
                       chosen>>
    BY StepsAre DEF EnsureProvides, Provided, Save, clientVars, history, IInv,
       TypeOK
  <1>2. memory \in Data /\ Sound(memory)
    BY DEF IInv, TypeOK
  <1>3. /\ d \in Data /\ Sound(d) /\ d.config = memory.config
        /\ d.profile[Builtin] = "builtin"
        /\ \A q \in Profiles \ {Builtin} : d.profile[q] = memory.profile[q]
    BY <1>2, ProfileIsSound
  <1> HIDE DEF d
  <1>4. DefaultOf(d) = DefaultOf(memory) /\ LastVersion(d) = LastVersion(memory)
    BY <1>3, SameConfig
  <1>5. \A c \in Clients : at[c] = "idle"
    BY <1>1 DEF IInv, Phases
  <1>6. TypeOK' /\ Sound(memory)' /\ Sound(file)'
    BY <1>1, <1>3 DEF IInv, TypeOK, FlushStages
  <1>7. Phases' /\ Prepared'
    BY <1>1, <1>3, <1>5 DEF Phases, Prepared
  <1>8. OthersAreKept'
    BY <1>1, <1>3 DEF IInv, TypeOK, OthersAreKept
  <1>9. FilesWhole' /\ Alone' /\ LoneChoiceHolds'
    BY <1>1, <1>4, <1>5 DEF IInv, FilesWhole, Alone, LoneChoiceHolds, Choosing
  <1>10. QED
    BY <1>6, <1>7, <1>8, <1>9 DEF IInv

(* Promotion replaces no choice of a client: there was none, or it was the *)
(* old default.                                                            *)
LEMMA EnsurePromotesKeeps == IInv /\ EnsurePromotes => IInv'
  <1> SUFFICES ASSUME IInv, EnsurePromotes PROVE IInv'
    OBVIOUS
  <1> USE RegistryAssumption
  <1> DEFINE v == NextVersion(memory)
             d == WithDefault(v, Builtin)
  <1>1. /\ memory' = d /\ holder' = Server /\ flush' = "marshalled"
        /\ life = "seeding" /\ step = 2 /\ v \in Versions
        /\ DefaultOf(memory) \in {NoProfile, OldDefault}
        /\ UNCHANGED <<file, temp, life, step, at, asked, version, registered, lone,
                       chosen>>
    BY StepsAre DEF EnsurePromotes, ShouldPromote, Save, clientVars, history,
       IInv, TypeOK
  <1>2. memory \in Data /\ Sound(memory) /\ memory.profile[Builtin] # "absent"
    BY <1>1 DEF IInv, TypeOK, Prepared
  <1>3. LastVersion(memory) \in Nat /\ v = LastVersion(memory) + 1
    BY <1>2 DEF Sound, UpTo, NextVersion
  <1>4. /\ d \in Data /\ Sound(d) /\ d.profile = memory.profile
        /\ DefaultOf(d) # NoProfile
    <2> HIDE DEF v
    <2>1. v <= LastVersion(memory) + 1
      BY <1>3
    <2>2. QED
      BY <1>1, <1>2, <2>1, DefaultIsSound
  <1> HIDE DEF d, v
  <1>5. /\ chosen \in {NoProfile, OldDefault}
        /\ \A c \in Clients : at[c] = "idle"
    BY <1>1 DEF IInv, Phases, Alone, LoneChoiceHolds
  <1>6. TypeOK' /\ Sound(memory)' /\ Sound(file)'
    BY <1>1, <1>4 DEF IInv, TypeOK, FlushStages
  <1>7. Phases' /\ Prepared' /\ OthersAreKept'
    BY <1>1, <1>2, <1>4, <1>5 DEF IInv, Phases, Prepared, OthersAreKept
  <1>8. FilesWhole' /\ Alone' /\ LoneChoiceHolds'
    BY <1>1, <1>5 DEF FilesWhole, Alone, LoneChoiceHolds, Choosing
  <1>9. QED
    BY <1>6, <1>7, <1>8 DEF IInv

LEMMA EnsureKeepsKeeps == IInv /\ EnsureKeeps => IInv'
  <1> SUFFICES ASSUME IInv, EnsureKeeps PROVE IInv'
    OBVIOUS
  <1>1. /\ life = "seeding" /\ life' = "serving" /\ step = 2 /\ holder = Nobody
        /\ DefaultOf(memory) # NoProfile
        /\ UNCHANGED <<memory, file, temp, holder, flush, step, at, asked, version,
                       registered, lone, chosen>>
    BY StepsAre DEF EnsureKeeps, GoesOn, Readable, ShouldPromote, storeVars,
       clientVars, history, IInv, TypeOK
  <1>2. \A c \in Clients : at[c] = "idle"
    BY <1>1 DEF IInv, Phases
  <1>3. TypeOK' /\ Sound(memory)' /\ Sound(file)'
    BY <1>1 DEF IInv, TypeOK
  <1>4. Phases' /\ Prepared' /\ OthersAreKept'
    BY <1>1, <1>2, RegistryAssumption
       DEF IInv, Phases, Prepared, OthersAreKept
  <1>5. FilesWhole' /\ Alone' /\ LoneChoiceHolds'
    BY <1>1, <1>2 DEF IInv, FilesWhole, Alone, LoneChoiceHolds, Choosing
  <1>6. QED
    BY <1>3, <1>4, <1>5 DEF IInv

LEMMA WritesKeeps ==
  ASSUME IInv, NEW s \in Clients \cup {Server}, FlushWrites(s),
         UNCHANGED <<life, step, clientVars, history>>
  PROVE  IInv'
  <1> USE RegistryAssumption
  <1>1. /\ flush' = "written" /\ temp' = memory /\ holder # Nobody
        /\ UNCHANGED <<memory, file, holder, life, step, at, asked, version,
                       registered, lone, chosen>>
    BY DEF FlushWrites, clientVars, history
  <1>2. TypeOK' /\ Sound(memory)' /\ Sound(file)'
    BY <1>1 DEF IInv, TypeOK, FlushStages
  <1>3. Phases' /\ Prepared' /\ OthersAreKept'
    BY <1>1 DEF IInv, Phases, Prepared, OthersAreKept
  <1>4. FilesWhole' /\ Alone' /\ LoneChoiceHolds'
    BY <1>1 DEF IInv, FilesWhole, Alone, LoneChoiceHolds
  <1>5. QED
    BY <1>2, <1>3, <1>4 DEF IInv

LEMMA EnsureIsSavedKeeps == IInv /\ EnsureIsSaved => IInv'
  <1> SUFFICES ASSUME IInv, EnsureIsSaved PROVE IInv'
    OBVIOUS
  <1> USE RegistryAssumption
  <1>1. /\ holder = Server /\ file' = memory /\ holder' = Nobody
        /\ flush' = "idle" /\ temp' = Torn
        /\ UNCHANGED <<memory, at, asked, version, registered, lone, chosen>>
    BY DEF EnsureIsSaved, FlushRenames, clientVars, history, IInv, FilesWhole
  <1>2. life = "seeding" /\ \A c \in Clients : at[c] = "idle"
    BY <1>1 DEF IInv, Phases
  <1>3. \/ step = 2 /\ life' = "serving" /\ step' = step
        \/ step = 1 /\ life' = life /\ step' = 2
    BY StepsAre DEF EnsureIsSaved, GoesOn, IInv, TypeOK
  <1>4. TypeOK' /\ Sound(memory)' /\ Sound(file)'
    BY <1>1, <1>2, <1>3 DEF IInv, TypeOK, FlushStages
  <1>5. Phases' /\ Prepared' /\ OthersAreKept'
    BY <1>1, <1>2, <1>3 DEF IInv, Phases, Prepared, OthersAreKept
  <1>6. FilesWhole' /\ Alone' /\ LoneChoiceHolds'
    BY <1>1, <1>2, <1>3 DEF IInv, FilesWhole, Alone, LoneChoiceHolds, Choosing
  <1>7. QED
    BY <1>4, <1>5, <1>6 DEF IInv
-----------------------------------------------------------------------------
(***************************************************************************)
(* The requests.                                                           *)
(***************************************************************************)
LEMMA RegistersKeeps ==
  ASSUME IInv, NEW c \in Clients, Registers(c) PROVE IInv'
  <1> USE RegistryAssumption
  <1>1. PICK p \in Profiles, default \in BOOLEAN :
          /\ Save(c, WithProfile(p, "own"))
          /\ asked' = [asked EXCEPT ![c] = [profile |-> p, default |-> default]]
    BY DEF Registers
  <1> DEFINE d == WithProfile(p, "own")
  <1>2. /\ memory' = d /\ holder' = c /\ flush' = "marshalled"
        /\ life = "serving" /\ at[c] = "idle"
        /\ at' = [at EXCEPT ![c] = "registering"]
        /\ UNCHANGED <<file, temp, life, step, version, registered, lone, chosen>>
    BY <1>1 DEF Registers, Goes, Save, history
  <1>3. memory \in Data /\ Sound(memory)
    BY DEF IInv, TypeOK
  <1>4. /\ d \in Data /\ Sound(d) /\ d.config = memory.config
        /\ d.profile[p] = "own"
        /\ \A q \in Profiles \ {p} : d.profile[q] = memory.profile[q]
    BY <1>3, ProfileIsSound
  <1> HIDE DEF d
  <1>5. DefaultOf(d) = DefaultOf(memory) /\ LastVersion(d) = LastVersion(memory)
    BY <1>4, SameConfig
  <1>6. /\ at' \in [Clients -> Stages]
        /\ asked' \in [Clients -> [profile : Profiles, default : BOOLEAN]]
    BY <1>1, <1>2 DEF IInv, TypeOK, Stages, Flushing
  <1>7. TypeOK' /\ Sound(memory)' /\ Sound(file)'
    BY <1>2, <1>4, <1>6 DEF IInv, TypeOK, FlushStages
  <1>8. /\ at'[c] = "registering" /\ asked'[c].profile = p
        /\ asked'[c].default = default
        /\ \A e \in Clients \ {c} : at'[e] = at[e] /\ asked'[e] = asked[e]
    BY <1>1, <1>2 DEF IInv, TypeOK
  <1>9. Phases'
    BY <1>2 DEF Phases
  <1>10. Prepared'
    <2>1. DefaultOf(memory) # NoProfile
      BY <1>2 DEF IInv, Prepared
    <2>2. \A e \in Clients : asked[e].profile \in Profiles
      BY DEF IInv, TypeOK
    <2>3. \A e \in Clients : at'[e] \in {"registering", "look", "choose"}
            => d.profile[asked'[e].profile] = "own"
      BY <1>4, <1>8, <2>2 DEF IInv, Prepared
    <2>4. \A e \in Clients : at'[e] = "choose" =>
            version'[e] <= LastVersion(d) + 1
      BY <1>2, <1>5, <1>8 DEF IInv, Prepared
    <2>5. QED
      BY <1>2, <1>5, <2>1, <2>3, <2>4 DEF Prepared
  <1>11. OthersAreKept'
    BY <1>2, <1>4 DEF IInv, TypeOK, OthersAreKept
  <1>12. FilesWhole'
    BY <1>2 DEF FilesWhole
  <1>13. Alone'
    BY <1>2, <1>5, <1>8 DEF IInv, Alone, Choosing
  <1>14. LoneChoiceHolds'
    BY <1>2, <1>5 DEF IInv, LoneChoiceHolds
  <1>15. QED
    BY <1>7, <1>9, <1>10, <1>11, <1>12, <1>13, <1>14 DEF IInv

LEMMA LooksKeeps ==
  ASSUME IInv, NEW c \in Clients, Looks(c) PROVE IInv'
  <1> USE RegistryAssumption
  <1>1. /\ at[c] = "look" /\ at' = [at EXCEPT ![c] = "choose"]
        /\ version' = [version EXCEPT ![c] = LastVersion(memory) + 1]
        /\ LastVersion(memory) + 1 <= MaxVersion
        /\ lone' = IF \A e \in Clients : at[e] \notin Choosing THEN c ELSE Nobody
        /\ chosen' = NoProfile
        /\ UNCHANGED <<memory, file, temp, holder, flush, life, step, asked,
                       registered>>
    BY DEF Looks, Goes, NextVersion, storeVars
  <1>2. LastVersion(memory) \in Nat
    BY DEF IInv, Sound, UpTo
  <1>3. at' \in [Clients -> Stages] /\ version' \in [Clients -> Versions]
    BY <1>1, <1>2 DEF IInv, TypeOK, Stages, Versions
  <1>4. TypeOK' /\ Sound(memory)' /\ Sound(file)'
    BY <1>1, <1>3 DEF IInv, TypeOK
  <1>5. /\ at'[c] = "choose" /\ version'[c] = LastVersion(memory) + 1
        /\ \A e \in Clients \ {c} : at'[e] = at[e] /\ version'[e] = version[e]
    BY <1>1 DEF IInv, TypeOK
  <1>6. Phases'
    BY <1>1, <1>5 DEF IInv, Phases
  <1>7. Prepared'
    BY <1>1, <1>2, <1>5 DEF IInv, Prepared
  <1>8. OthersAreKept' /\ LoneChoiceHolds'
    BY <1>1 DEF IInv, OthersAreKept, LoneChoiceHolds
  <1>9. FilesWhole'
    BY <1>1, <1>5 DEF IInv, FilesWhole, Choosing
  <1>10. Alone'
    BY <1>1, <1>5 DEF Alone, Choosing
  <1>11. QED
    BY <1>4, <1>6, <1>7, <1>8, <1>9, <1>10 DEF IInv

(* Whoever chooses alone still knows the next version; others may put      *)
(* their choice in the place of an earlier one, and still nothing breaks.  *)
LEMMA ChoosesKeeps ==
  ASSUME IInv, NEW c \in Clients, Chooses(c) PROVE IInv'
  <1> USE RegistryAssumption
  <1> DEFINE v == version[c]
             p == asked[c].profile
             d == WithDefault(v, p)
  <1>1. /\ memory' = d /\ holder' = c /\ flush' = "marshalled"
        /\ at[c] = "choose" /\ at' = [at EXCEPT ![c] = "choosing"]
        /\ UNCHANGED <<file, temp, life, step, asked, version, registered, lone,
                       chosen>>
    BY DEF Chooses, Goes, Save, history
  <1>2. /\ memory \in Data /\ Sound(memory) /\ memory.profile[p] = "own"
        /\ p \in Profiles /\ v \in Versions /\ v <= LastVersion(memory) + 1
    BY <1>1 DEF IInv, TypeOK, Prepared
  <1>3. /\ d \in Data /\ Sound(d) /\ d.profile = memory.profile
        /\ LastVersion(d) >= LastVersion(memory) /\ DefaultOf(d) # NoProfile
        /\ v = LastVersion(memory) + 1 => DefaultOf(d) = p
    <2> HIDE DEF v, p
    <2>1. memory.profile[p] # "absent"
      BY <1>2
    <2>2. QED
      BY <1>2, <2>1, DefaultIsSound
  <1> HIDE DEF d
  <1>4. life = "serving" /\ chosen = NoProfile
    BY <1>1 DEF IInv, Phases, Alone, Choosing
  <1>5. at' \in [Clients -> Stages]
    BY <1>1 DEF IInv, TypeOK, Stages, Flushing
  <1>6. TypeOK' /\ Sound(memory)' /\ Sound(file)'
    BY <1>1, <1>3, <1>5 DEF IInv, TypeOK, FlushStages
  <1>7. /\ at'[c] = "choosing"
        /\ \A e \in Clients \ {c} : at'[e] = at[e]
    BY <1>1 DEF IInv, TypeOK
  <1>8. Phases' /\ OthersAreKept' /\ LoneChoiceHolds'
    BY <1>1, <1>3, <1>4 DEF IInv, Phases, OthersAreKept, LoneChoiceHolds
  <1>9. Prepared'
    <2>1. /\ LastVersion(memory) \in Nat /\ LastVersion(d) \in Nat
          /\ \A e \in Clients : version[e] \in Nat
      BY <1>3 DEF IInv, Sound, UpTo, TypeOK, Versions
    <2>2. \A e \in Clients : at'[e] = "choose" =>
            version'[e] <= LastVersion(d) + 1
      BY <1>1, <1>3, <1>7, <2>1 DEF IInv, Prepared
    <2>3. QED
      BY <1>1, <1>3, <1>4, <1>7, <2>2 DEF IInv, Prepared
  <1>10. FilesWhole'
    BY <1>1, <1>7 DEF IInv, FilesWhole, Choosing
  <1>11. Alone'
    BY <1>1, <1>3, <1>4, <1>7 DEF IInv, Alone, Choosing
  <1>12. QED
    BY <1>6, <1>8, <1>9, <1>10, <1>11 DEF IInv

LEMMA OthersKeeps ==
  ASSUME IInv, NEW c \in Clients, Others(c) PROVE IInv'
  <1> USE RegistryAssumption
  <1>1. /\ memory' = memory /\ holder' = c /\ flush' = "marshalled"
        /\ life = "serving" /\ at[c] = "idle"
        /\ at' = [at EXCEPT ![c] = "other"]
        /\ UNCHANGED <<file, temp, life, step, asked, version, registered, lone,
                       chosen>>
    BY DEF Others, Goes, Save, history
  <1>2. at' \in [Clients -> Stages]
    BY <1>1 DEF IInv, TypeOK, Stages, Flushing
  <1>3. TypeOK' /\ Sound(memory)' /\ Sound(file)'
    BY <1>1, <1>2 DEF IInv, TypeOK, FlushStages
  <1>4. at'[c] = "other" /\ \A e \in Clients \ {c} : at'[e] = at[e]
    BY <1>1 DEF IInv, TypeOK
  <1>5. Phases' /\ Prepared' /\ OthersAreKept'
    BY <1>1, <1>4 DEF IInv, Phases, Prepared, OthersAreKept
  <1>6. FilesWhole' /\ Alone' /\ LoneChoiceHolds'
    BY <1>1, <1>4 DEF IInv, FilesWhole, Alone, LoneChoiceHolds, Choosing
  <1>7. QED
    BY <1>3, <1>5, <1>6 DEF IInv

LEMMA ProfileIsSavedKeeps ==
  ASSUME IInv, NEW c \in Clients, ProfileIsSaved(c) PROVE IInv'
  <1> USE RegistryAssumption
  <1>1. /\ file' = memory /\ holder' = Nobody /\ flush' = "idle"
        /\ temp' = Torn
        /\ at[c] = "registering"
        /\ at' = [at EXCEPT ![c] = IF asked[c].default THEN "look" ELSE "idle"]
        /\ registered' = registered \cup {asked[c].profile}
        /\ UNCHANGED <<memory, life, step, asked, version, lone, chosen>>
    BY DEF ProfileIsSaved, FlushRenames, Goes, IInv, FilesWhole
  <1>2. life = "serving" /\ memory.profile[asked[c].profile] = "own"
    BY <1>1 DEF IInv, Phases, Prepared
  <1>3. at' \in [Clients -> Stages] /\ registered' \subseteq Profiles
    BY <1>1 DEF IInv, TypeOK, Stages
  <1>4. TypeOK' /\ Sound(memory)' /\ Sound(file)'
    BY <1>1, <1>3 DEF IInv, TypeOK, FlushStages
  <1>5. /\ at'[c] = "idle" \/ (at'[c] = "look" /\ asked[c].default)
        /\ \A e \in Clients \ {c} : at'[e] = at[e]
    BY <1>1 DEF IInv, TypeOK
  <1>6. Phases' /\ Prepared' /\ OthersAreKept'
    BY <1>1, <1>2, <1>5 DEF IInv, Phases, Prepared, OthersAreKept
  <1>7. FilesWhole' /\ Alone' /\ LoneChoiceHolds'
    BY <1>1, <1>2, <1>5 DEF IInv, FilesWhole, Alone, LoneChoiceHolds, Choosing
  <1>8. QED
    BY <1>4, <1>6, <1>7 DEF IInv

LEMMA DefaultIsSavedKeeps ==
  ASSUME IInv, NEW c \in Clients, DefaultIsSaved(c) PROVE IInv'
  <1> USE RegistryAssumption
  <1>1. /\ file' = memory /\ holder' = Nobody /\ flush' = "idle"
        /\ temp' = Torn
        /\ at[c] = "choosing" /\ at' = [at EXCEPT ![c] = "idle"]
        /\ chosen' = IF lone = c THEN asked[c].profile ELSE chosen
        /\ UNCHANGED <<memory, life, step, asked, version, registered, lone>>
    BY DEF DefaultIsSaved, FlushRenames, Goes, IInv, FilesWhole
  <1>2. life = "serving" /\ chosen = NoProfile
    BY <1>1 DEF IInv, Phases, Alone, Choosing
  <1>3. at' \in [Clients -> Stages] /\ chosen' \in Profiles \cup {NoProfile}
    BY <1>1 DEF IInv, TypeOK, Stages
  <1>4. TypeOK' /\ Sound(memory)' /\ Sound(file)'
    BY <1>1, <1>3 DEF IInv, TypeOK, FlushStages
  <1>5. at'[c] = "idle" /\ \A e \in Clients \ {c} : at'[e] = at[e]
    BY <1>1 DEF IInv, TypeOK
  <1>6. Phases' /\ Prepared' /\ OthersAreKept'
    BY <1>1, <1>2, <1>5 DEF IInv, Phases, Prepared, OthersAreKept
  <1>7. chosen' # NoProfile =>
          /\ DefaultOf(memory) = chosen'
          /\ \A e \in Clients : at'[e] \notin Choosing
    BY <1>1, <1>2, <1>5 DEF IInv, Alone, Choosing
  <1>8. FilesWhole' /\ Alone' /\ LoneChoiceHolds'
    BY <1>1, <1>5, <1>7 DEF IInv, FilesWhole, Alone, LoneChoiceHolds, Choosing
  <1>9. QED
    BY <1>4, <1>6, <1>8 DEF IInv

(* A request that ends there, with its flush done or failed.               *)
LEMMA EndsKeeps ==
  ASSUME IInv, NEW c \in Clients, at[c] # "idle",
         at' = [at EXCEPT ![c] = "idle"],
         holder' = Nobody, flush' = "idle", temp' = Torn,
         file' \in {file, memory},
         UNCHANGED <<memory, life, step, asked, version, registered, lone,
                     chosen>>
  PROVE  IInv'
  <1> USE RegistryAssumption
  <1>1. life = "serving"
    BY DEF IInv, Phases
  <1>2. at' \in [Clients -> Stages]
    BY DEF IInv, TypeOK, Stages
  <1>3. TypeOK' /\ Sound(memory)' /\ Sound(file)'
    BY <1>2 DEF IInv, TypeOK, FlushStages
  <1>4. at'[c] = "idle" /\ \A e \in Clients \ {c} : at'[e] = at[e]
    BY DEF IInv, TypeOK
  <1>5. Phases' /\ Prepared' /\ OthersAreKept'
    BY <1>1, <1>4 DEF IInv, Phases, Prepared, OthersAreKept
  <1>6. FilesWhole' /\ Alone' /\ LoneChoiceHolds'
    BY <1>1, <1>4 DEF IInv, FilesWhole, Alone, LoneChoiceHolds, Choosing
  <1>7. QED
    BY <1>3, <1>5, <1>6 DEF IInv

LEMMA RequestKeeps ==
  ASSUME IInv, NEW c \in Clients, Request(c) PROVE IInv'
  <1>1. CASE Writes(c)
    BY <1>1, WritesKeeps DEF Writes
  <1>2. CASE OtherIsSaved(c)
    BY <1>2, EndsKeeps
       DEF OtherIsSaved, FlushRenames, Goes, history, IInv, FilesWhole
  <1>3. CASE NotSaved(c)
    BY <1>3, EndsKeeps DEF NotSaved, FlushFails, Goes, Flushing, history
  <1>4. QED
    BY <1>1, <1>2, <1>3, RegistersKeeps, LooksKeeps, ChoosesKeeps, OthersKeeps,
       ProfileIsSavedKeeps, DefaultIsSavedKeeps DEF Request

LEMMA NextInvariant == IInv /\ [Next]_vars => IInv'
  <1> SUFFICES ASSUME IInv, [Next]_vars PROVE IInv'
    OBVIOUS
  <1>1. CASE EnsureWrites
    BY <1>1, WritesKeeps DEF EnsureWrites
  <1>2. CASE UNCHANGED vars
    BY <1>2 DEF vars, storeVars, clientVars, history, IInv, TypeOK, Phases,
       Prepared, OthersAreKept, FilesWhole, Alone, LoneChoiceHolds
  <1>3. QED
    BY <1>1, <1>2, StartUpKeeps, EnsureProvidesKeeps, EnsurePromotesKeeps,
       EnsureKeepsKeeps, EnsureIsSavedKeeps, CrashKeeps, RequestKeeps DEF Next
-----------------------------------------------------------------------------
(***************************************************************************)
(* The theorems.                                                           *)
(***************************************************************************)
LEMMA Invariance == Spec => []IInv
  BY InitInvariant, NextInvariant, PTL DEF Spec

(* The store, the start and the requests keep their types.                 *)
THEOREM TypeCorrect == Spec => []TypeOK
  <1>1. IInv => TypeOK
    BY DEF IInv
  <1>2. QED
    BY <1>1, Invariance, PTL

LEMMA SoundDefault ==
  ASSUME NEW data \in Data, Sound(data), DefaultOf(data) # NoProfile
  PROVE  DefaultOf(data) \in Present(data)
  <1> DEFINE n == LastVersion(data)
  <1>1. UpTo(data, n) /\ Backed(data)
    BY DEF Sound
  <1>2. n \in Versions /\ DefaultOf(data) = data.config[n]
    BY <1>1, LastIs DEF UpTo, Versions
  <1>3. DefaultOf(data) \in Profiles
    BY <1>2 DEF Data
  <1>4. QED
    BY <1>1, <1>2, <1>3 DEF Backed, Present

(* The default names a profile that exists, in memory and on disk, however *)
(* choices, starts, failed flushes and crashes meet.                       *)
THEOREM DefaultIsThere == Spec => []DefaultExists
  <1>1. IInv => DefaultExists
    BY SoundDefault DEF IInv, TypeOK, DefaultExists
  <1>2. QED
    BY <1>1, Invariance, PTL

(* Once the server serves, a request that names no profile gets one.       *)
THEOREM StaysUsable == Spec => []Usable
  <1>1. IInv => Usable
    BY SoundDefault DEF IInv, TypeOK, Prepared, Usable, Resolved
  <1>2. QED
    BY <1>1, Invariance, PTL

(* A registration that succeeded is on disk and in memory from then on,    *)
(* unless it is of the built-in profile.                                   *)
THEOREM OthersKept == Spec => []OthersAreKept
  <1>1. IInv => OthersAreKept
    BY DEF IInv
  <1>2. QED
    BY <1>1, Invariance, PTL

(* A default set while nobody else was setting one outlives crashes,       *)
(* starts and failures, until the next choice begins, unless it is the old *)
(* built-in id, which a start replaces.                                    *)
THEOREM LoneChoiceStays == Spec => []LoneChoiceHolds
  <1>1. IInv => LoneChoiceHolds
    BY DEF IInv
  <1>2. QED
    BY <1>1, Invariance, PTL
=============================================================================
