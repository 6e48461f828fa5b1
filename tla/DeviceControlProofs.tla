------------------------- MODULE DeviceControlProofs -------------------------
(***************************************************************************)
(* Proofs about DeviceControl, for every number of clients and tokens and  *)
(* any crashes and failed flushes.                                         *)
(***************************************************************************)
EXTENDS DeviceControl, TLAPS

(* Requests live while the server serves, and what is not started holds no *)
(* lock and no copies.                                                     *)
Phases ==
  /\ life # "serving" => \A c \in Clients : at[c] = "idle"
  /\ life \in {"down", "loaded"} => holder = Nobody
  /\ life = "down" => \A c \in Clients : copy[c] = 0

(* Memory has everything the file has, and a token that is about to be     *)
(* given away is in memory, which the flush will write.                    *)
TokensKept ==
  /\ life # "down" => file.tokens \subseteq memory.tokens
  /\ life # "down" => index = memory.tokens
  /\ handed \subseteq file.tokens
  /\ \A c \in Clients : at[c] = "boot.issuing" => token[c] \in memory.tokens

(* Copies of the device record claim no more than memory can show.         *)
CopiesExist ==
  /\ ReportedExists
  /\ \A c \in Clients : copy[c] # 0 => "config" \in memory.parts

(* What a rename puts in the place of the file is all of memory.           *)
FilesWhole ==
  /\ file \in Data
  /\ flush = "written" => holder # Nobody /\ temp = memory

IInv == TypeOK /\ FilesWhole /\ Phases /\ TokensKept /\ CopiesExist
-----------------------------------------------------------------------------
LEMMA InitInvariant == Init => IInv
  <1> SUFFICES ASSUME Init PROVE IInv
    OBVIOUS
  <1> USE ControlAssumption, EmptyAssumption DEF Init, StoreInit
  <1>1. Empty \in Data
    BY DEF Data
  <1>2. at \in [Clients -> Stages] /\ copy \in [Clients -> {0, ConfigVersion}]
        /\ token \in [Clients -> Tokens \cup {NoToken}]
    BY DEF Stages
  <1>3. seed \in 1 .. Len(SeedSteps)
    BY DEF SeedSteps
  <1>4. acked \in BOOLEAN
    OBVIOUS
  <1>5. TypeOK /\ FilesWhole
    BY <1>1, <1>2, <1>3, <1>4 DEF TypeOK, FilesWhole, FlushStages
  <1>6. Phases /\ TokensKept /\ CopiesExist
    BY DEF Phases, TokensKept, CopiesExist, ReportedExists
  <1>7. QED
    BY <1>5, <1>6 DEF IInv

(* The records that the operations save.                                   *)
LEMMA RecordsAreData ==
  ASSUME NEW d \in Data
  PROVE  /\ \A r \in {0, ConfigVersion} :
              LET e == [d EXCEPT !.reported = r]
              IN  e \in Data /\ e.parts = d.parts /\ e.tokens = d.tokens
                  /\ e.reported = r
         /\ \A t \in Tokens :
              LET e == [d EXCEPT !.tokens = @ \cup {t}]
              IN  e \in Data /\ e.parts = d.parts /\ e.reported = d.reported
                  /\ e.tokens = d.tokens \cup {t}
  BY DEF Data

(* A save that takes nothing away from memory keeps the invariant; who     *)
(* saves, and what happens to its request, is left to the caller.          *)
LEMMA SaveKeeps ==
  ASSUME IInv, NEW s \in Clients \cup {Server}, NEW d \in Data, Save(s, d),
         life \in {"seeding", "serving"}, UNCHANGED <<life, handed, acked>>,
         seed' \in 1 .. Len(SeedSteps),
         memory.parts \subseteq d.parts, memory.tokens \subseteq d.tokens,
         d.reported # 0 => "config" \in d.parts,
         index' = d.tokens, copy' = copy,
         token' \in [Clients -> Tokens \cup {NoToken}],
         at' \in [Clients -> Stages],
         \A c \in Clients : at'[c] = "boot.issuing" => token'[c] \in d.tokens,
         life # "serving" => at' = at
  PROVE  IInv'
  <1> USE ControlAssumption
  <1>1. /\ memory' = d /\ file' = file /\ temp' = temp /\ holder' = s
        /\ flush' = "marshalled"
    BY DEF Save
  <1>2. d.tokens \subseteq Tokens
    BY DEF Data
  <1>3. TypeOK' /\ FilesWhole'
    BY <1>1, <1>2 DEF IInv, TypeOK, FilesWhole, FlushStages
  <1>4. Phases'
    BY <1>1 DEF IInv, Phases
  <1>5. TokensKept'
    BY <1>1 DEF IInv, TokensKept
  <1>6. CopiesExist'
    BY <1>1 DEF IInv, CopiesExist, ReportedExists
  <1>7. QED
    BY <1>3, <1>4, <1>5, <1>6 DEF IInv

(* So does a step that leaves the store alone.                             *)
LEMMA LookKeeps ==
  ASSUME IInv, UNCHANGED <<storeVars, Rest>>, life = "serving",
         at' \in [Clients -> Stages],
         copy' \in [Clients -> {0, ConfigVersion}],
         token' \in [Clients -> Tokens \cup {NoToken}],
         \A c \in Clients : copy'[c] = copy[c] \/ copy'[c] = memory.reported,
         \A c \in Clients : at'[c] = "boot.issuing" => token'[c] \in memory.tokens
  PROVE  IInv'
  <1>1. UNCHANGED <<memory, file, temp, holder, flush, life, seed, index, handed,
                    acked>>
    BY DEF storeVars, Rest
  <1>2. TypeOK' /\ FilesWhole'
    BY <1>1 DEF IInv, TypeOK, FilesWhole
  <1>3. Phases'
    BY <1>1 DEF IInv, Phases
  <1>4. TokensKept'
    BY <1>1 DEF IInv, TokensKept
  <1>5. CopiesExist'
    BY <1>1 DEF IInv, CopiesExist, ReportedExists
  <1>6. QED
    BY <1>2, <1>3, <1>4, <1>5 DEF IInv
-----------------------------------------------------------------------------
(***************************************************************************)
(* The process.                                                            *)
(***************************************************************************)
LEMMA StartUpKeeps == IInv /\ StartUp => IInv'
  <1> SUFFICES ASSUME IInv, StartUp PROVE IInv'
    OBVIOUS
  <1>1. /\ life = "down" /\ life' = "loaded" /\ memory' = file
        /\ index' = file.tokens
        /\ UNCHANGED <<file, temp, holder, flush, seed, at, copy, token, handed,
                       acked>>
    BY DEF StartUp, Load, RebuildIndex, clientVars
  <1>2. file \in Data /\ file.tokens \subseteq Tokens
    BY DEF IInv, FilesWhole, Data
  <1>3. TypeOK' /\ FilesWhole'
    BY <1>1, <1>2 DEF IInv, TypeOK, FilesWhole, Phases
  <1>4. Phases'
    BY <1>1 DEF IInv, Phases
  <1>5. TokensKept'
    BY <1>1 DEF IInv, TokensKept, Phases
  <1>6. CopiesExist'
    BY <1>1 DEF IInv, CopiesExist, ReportedExists, Phases
  <1>7. QED
    BY <1>3, <1>4, <1>5, <1>6 DEF IInv

LEMMA CrashKeeps == IInv /\ Crash => IInv'
  <1> SUFFICES ASSUME IInv, Crash PROVE IInv'
    OBVIOUS
  <1> USE EmptyAssumption
  <1>1. /\ life' = "down" /\ memory' = Empty /\ file' = file /\ temp' = Torn
        /\ holder' = Nobody /\ flush' = "idle" /\ index' = {} /\ seed' = 1
        /\ handed' = handed /\ acked' = acked
        /\ at' = [c \in Clients |-> "idle"]
        /\ copy' = [c \in Clients |-> 0]
        /\ token' = [c \in Clients |-> NoToken]
    BY DEF Crash, StoreCrash
  <1>2. Empty \in Data
    BY DEF Data
  <1>3. /\ at' \in [Clients -> Stages]
        /\ copy' \in [Clients -> {0, ConfigVersion}]
        /\ token' \in [Clients -> Tokens \cup {NoToken}]
        /\ seed' \in 1 .. Len(SeedSteps)
    BY <1>1 DEF Stages, SeedSteps
  <1>4. TypeOK' /\ FilesWhole'
    BY <1>1, <1>2, <1>3 DEF IInv, TypeOK, FilesWhole, FlushStages
  <1>5. Phases'
    BY <1>1 DEF Phases
  <1>6. TokensKept'
    BY <1>1 DEF IInv, TokensKept
  <1>7. CopiesExist'
    BY <1>1 DEF IInv, CopiesExist, ReportedExists
  <1>8. QED
    BY <1>4, <1>5, <1>6, <1>7 DEF IInv

LEMMA SeedChecksKeeps == IInv /\ SeedChecks => IInv'
  <1> SUFFICES ASSUME IInv, SeedChecks PROVE IInv'
    OBVIOUS
  <1>1. /\ life = "loaded" /\ life' \in {"seeding", "serving"} /\ seed' = 1
        /\ UNCHANGED <<memory, file, temp, holder, flush, index, at, copy, token,
                       handed, acked>>
    BY DEF SeedChecks, storeVars, clientVars
  <1>2. seed' \in 1 .. Len(SeedSteps)
    BY <1>1 DEF SeedSteps
  <1>3. TypeOK' /\ FilesWhole'
    BY <1>1, <1>2 DEF IInv, TypeOK, FilesWhole
  <1>4. Phases' /\ TokensKept' /\ CopiesExist'
    BY <1>1 DEF IInv, Phases, TokensKept, CopiesExist, ReportedExists
  <1>5. QED
    BY <1>3, <1>4 DEF IInv

LEMMA SeedSavesKeeps == IInv /\ SeedSaves => IInv'
  <1> SUFFICES ASSUME IInv, SeedSaves PROVE IInv'
    OBVIOUS
  <1> DEFINE d == Seeded(SeedSteps[seed])
  <1>1. /\ life = "seeding" /\ Save(Server, d)
        /\ UNCHANGED <<life, seed, index, at, copy, token, handed, acked>>
    BY DEF SeedSaves, clientVars
  <1>2. memory \in Data /\ memory.reported \in {0, ConfigVersion}
    BY DEF IInv, TypeOK, Data
  <1>3. SeedSteps[seed] \in Parts \cup {"desired"}
    BY DEF IInv, TypeOK, SeedSteps, Parts
  <1>4. /\ d \in Data /\ memory.parts \subseteq d.parts
        /\ d.tokens = memory.tokens
        /\ d.reported # 0 => d.reported = memory.reported
    <2>1. CASE SeedSteps[seed] = "desired"
      BY <1>2, <2>1 DEF Seeded
    <2>2. CASE SeedSteps[seed] # "desired"
      <3>1. PICK p \in Parts, r \in {0, ConfigVersion} :
              /\ d = [memory EXCEPT !.parts = @ \cup {p}, !.reported = r]
              /\ r # 0 => r = memory.reported
        <4> DEFINE p == SeedSteps[seed]
                   r == IF p = "device" THEN 0 ELSE memory.reported
        <4>1. p \in Parts /\ r \in {0, ConfigVersion}
          BY <1>2, <1>3, <2>2
        <4>2. d = [memory EXCEPT !.parts = @ \cup {p}, !.reported = r]
          BY <2>2, <1>2 DEF Seeded, Data
        <4> HIDE DEF d
        <4>3. r # 0 => r = memory.reported
          OBVIOUS
        <4>4. QED
          BY <4>1, <4>2, <4>3
      <3> HIDE DEF d
      <3>2. /\ d \in Data /\ d.parts = memory.parts \cup {p}
            /\ d.tokens = memory.tokens /\ d.reported = r
        BY <1>2, <3>1 DEF Data
      <3>3. QED
        BY <3>1, <3>2
    <2>3. QED
      BY <2>1, <2>2
  <1> HIDE DEF d
  <1>5. /\ d.reported # 0 => "config" \in d.parts
        /\ index' = d.tokens
        /\ \A c \in Clients : at'[c] = "boot.issuing" => token'[c] \in d.tokens
    BY <1>1, <1>4 DEF IInv, CopiesExist, ReportedExists, TokensKept
  <1>6. /\ seed' \in 1 .. Len(SeedSteps) /\ at' \in [Clients -> Stages]
        /\ token' \in [Clients -> Tokens \cup {NoToken}]
    BY <1>1 DEF IInv, TypeOK
  <1>7. QED
    BY <1>1, <1>4, <1>5, <1>6, SaveKeeps

(* The temporary file gets all of memory, and nothing else changes.        *)
LEMMA WritesKeeps ==
  ASSUME IInv, NEW s \in Clients \cup {Server}, FlushWrites(s),
         UNCHANGED <<life, seed, index, clientVars, handed, acked>>
  PROVE  IInv'
  <1> USE ControlAssumption
  <1>1. /\ flush' = "written" /\ temp' = memory /\ holder # Nobody
        /\ UNCHANGED <<memory, file, holder, life, seed, index, at, copy, token,
                       handed, acked>>
    BY DEF FlushWrites, clientVars
  <1>2. TypeOK' /\ FilesWhole'
    BY <1>1 DEF IInv, TypeOK, FilesWhole, FlushStages
  <1>3. Phases' /\ TokensKept' /\ CopiesExist'
    BY <1>1 DEF IInv, Phases, TokensKept, CopiesExist, ReportedExists
  <1>4. QED
    BY <1>2, <1>3 DEF IInv

LEMMA SeedIsSavedKeeps == IInv /\ SeedIsSaved => IInv'
  <1> SUFFICES ASSUME IInv, SeedIsSaved PROVE IInv'
    OBVIOUS
  <1> USE ControlAssumption
  <1>1. /\ holder = Server /\ file' = memory /\ temp' = Torn
        /\ holder' = Nobody /\ flush' = "idle"
        /\ life' = "serving" \/ life' = life
        /\ UNCHANGED <<memory, index, at, copy, token, handed, acked>>
    BY DEF SeedIsSaved, FlushRenames, clientVars, IInv, FilesWhole
  <1>2. seed' \in 1 .. Len(SeedSteps)
    BY DEF IInv, TypeOK, SeedIsSaved, IsLastStep, SeedSteps
  <1>3. life \in {"seeding", "serving"} /\ life' \in {"seeding", "serving"}
    BY <1>1 DEF IInv, Phases, TypeOK
  <1>4. TypeOK' /\ FilesWhole'
    BY <1>1, <1>2, <1>3 DEF IInv, TypeOK, FilesWhole, FlushStages
  <1>5. Phases'
    BY <1>1, <1>3 DEF IInv, Phases
  <1>6. TokensKept'
    BY <1>1, <1>3 DEF IInv, TokensKept
  <1>7. CopiesExist'
    BY <1>1 DEF IInv, CopiesExist, ReportedExists
  <1>8. QED
    BY <1>4, <1>5, <1>6, <1>7 DEF IInv
-----------------------------------------------------------------------------
(***************************************************************************)
(* The requests.                                                           *)
(***************************************************************************)
LEMMA ReadsDeviceKeeps ==
  ASSUME IInv, NEW c \in Clients, NEW from, NEW to \in Stages,
         life = "serving", ReadsDevice(c, from, to), to # "boot.issuing"
  PROVE  IInv'
  <1>1. /\ at' = [at EXCEPT ![c] = to]
        /\ copy' = [copy EXCEPT ![c] = memory.reported]
        /\ token' = token /\ UNCHANGED <<storeVars, Rest>>
    BY DEF ReadsDevice, Goes
  <1>2. memory.reported \in {0, ConfigVersion}
    BY DEF IInv, TypeOK, Data
  <1>3. /\ at' \in [Clients -> Stages]
        /\ copy' \in [Clients -> {0, ConfigVersion}]
        /\ token' \in [Clients -> Tokens \cup {NoToken}]
        /\ \A e \in Clients : copy'[e] = copy[e] \/ copy'[e] = memory.reported
        /\ \A e \in Clients : at'[e] = "boot.issuing" => at[e] = "boot.issuing"
    BY <1>1, <1>2 DEF IInv, TypeOK
  <1>4. \A e \in Clients : at'[e] = "boot.issuing" => token'[e] \in memory.tokens
    BY <1>1, <1>3 DEF IInv, TokensKept
  <1>5. QED
    BY <1>1, <1>3, <1>4, LookKeeps

(* A request that only moves on, to where it has no token in the making.   *)
LEMMA MovesKeeps ==
  ASSUME IInv, NEW c \in Clients, NEW to \in Stages, to # "boot.issuing",
         life = "serving", at' = [at EXCEPT ![c] = to],
         NEW t \in Tokens \cup {NoToken},
         token' = token \/ token' = [token EXCEPT ![c] = t],
         UNCHANGED <<storeVars, copy, Rest>>
  PROVE  IInv'
  <1>1. /\ at' \in [Clients -> Stages] /\ copy' = copy
        /\ copy' \in [Clients -> {0, ConfigVersion}]
        /\ token' \in [Clients -> Tokens \cup {NoToken}]
    BY DEF IInv, TypeOK
  <1>2. \A e \in Clients : at'[e] = "boot.issuing" =>
          at[e] = "boot.issuing" /\ token'[e] = token[e]
    BY DEF IInv, TypeOK
  <1>3. \A e \in Clients : at'[e] = "boot.issuing" => token'[e] \in memory.tokens
    BY <1>2 DEF IInv, TokensKept
  <1>4. QED
    BY <1>1, <1>3, LookKeeps

(* A request that saves memory with another reported version, or as it is. *)
LEMMA SavesReportedKeeps ==
  ASSUME IInv, NEW c \in Clients, NEW to \in Stages, to # "boot.issuing",
         life = "serving", at' = [at EXCEPT ![c] = to],
         UNCHANGED <<copy, token, Rest>>,
         NEW d, Save(c, d),
         \/ d = memory
         \/ \E r \in {0, ConfigVersion} :
              /\ d = [memory EXCEPT !.reported = r]
              /\ r # 0 => "config" \in memory.parts
  PROVE  IInv'
  <1>1. memory \in Data
    BY DEF IInv, TypeOK
  <1>2. /\ d \in Data /\ d.parts = memory.parts /\ d.tokens = memory.tokens
        /\ d.reported # 0 => "config" \in d.parts
    <2>1. CASE d = memory
      BY <1>1, <2>1 DEF IInv, CopiesExist, ReportedExists
    <2>2. ASSUME NEW r \in {0, ConfigVersion},
                 d = [memory EXCEPT !.reported = r],
                 r # 0 => "config" \in memory.parts
          PROVE  /\ d \in Data /\ d.parts = memory.parts
                 /\ d.tokens = memory.tokens
                 /\ d.reported # 0 => "config" \in d.parts
      BY <1>1, <2>2, RecordsAreData
    <2>3. QED
      BY <2>1, <2>2
  <1>3. UNCHANGED <<life, seed, index, handed, acked, copy, token>>
    BY DEF Rest
  <1>4. /\ at' \in [Clients -> Stages] /\ seed' \in 1 .. Len(SeedSteps)
        /\ token' \in [Clients -> Tokens \cup {NoToken}]
    BY <1>3 DEF IInv, TypeOK
  <1>5. \A e \in Clients : at'[e] = "boot.issuing" => at[e] = "boot.issuing"
    BY DEF IInv, TypeOK
  <1>6. /\ index' = d.tokens
        /\ \A e \in Clients : at'[e] = "boot.issuing" => token'[e] \in d.tokens
    BY <1>2, <1>3, <1>5 DEF IInv, TokensKept
  <1>7. QED
    BY <1>2, <1>3, <1>4, <1>6, SaveKeeps

(* A token in the making is in memory before its request waits for the     *)
(* flush.                                                                  *)
LEMMA BootstrapIssuesKeeps ==
  ASSUME IInv, NEW c \in Clients, BootstrapIssues(c) PROVE IInv'
  <1>1. PICK t \in Tokens :
          /\ Save(c, [memory EXCEPT !.tokens = @ \cup {t}])
          /\ index' = index \cup {t}
          /\ token' = [token EXCEPT ![c] = t]
    BY DEF BootstrapIssues
  <1> DEFINE d == [memory EXCEPT !.tokens = @ \cup {t}]
  <1>2. /\ at[c] = "boot.issue" /\ at' = [at EXCEPT ![c] = "boot.issuing"]
        /\ UNCHANGED <<copy, life, seed, handed, acked>>
    BY DEF BootstrapIssues, Goes
  <1>3. life = "serving"
    BY <1>2 DEF IInv, Phases
  <1>4. /\ d \in Data /\ d.parts = memory.parts
        /\ d.reported = memory.reported /\ d.tokens = memory.tokens \cup {t}
    BY DEF IInv, TypeOK, Data
  <1>5. Save(c, d)
    BY <1>1
  <1> HIDE DEF d
  <1>6. /\ at' \in [Clients -> Stages] /\ seed' \in 1 .. Len(SeedSteps)
        /\ token' \in [Clients -> Tokens \cup {NoToken}]
    BY <1>1, <1>2 DEF IInv, TypeOK, Stages, Flushing
  <1>7. \A e \in Clients : at'[e] = "boot.issuing" => token'[e] \in d.tokens
    BY <1>1, <1>2, <1>4 DEF IInv, TypeOK, TokensKept
  <1>8. index' = d.tokens /\ (d.reported # 0 => "config" \in d.parts)
    BY <1>1, <1>3, <1>4 DEF IInv, TokensKept, CopiesExist, ReportedExists
  <1>9. QED
    BY <1>2, <1>3, <1>4, <1>5, <1>6, <1>7, <1>8, SaveKeeps

(* The flush of a request has ended: the file is memory now, or is as it   *)
(* was, and only a token that reached the file is given away.              *)
LEMMA SavedKeeps ==
  ASSUME IInv, NEW c \in Clients, Saved(c) PROVE IInv'
  <1> USE ControlAssumption
  <1>1. /\ at[c] \in Flushing /\ holder = c /\ file' = memory
        /\ temp' = Torn /\ holder' = Nobody /\ flush' = "idle"
        /\ at' = [at EXCEPT ![c] = AfterSuccess(at[c])]
        /\ handed' = IF at[c] = "boot.issuing" THEN handed \cup {token[c]}
                     ELSE handed
        /\ acked' = (acked \/ at[c] = "acking")
        /\ UNCHANGED <<memory, copy, token, life, seed, index>>
    BY DEF Saved, FlushRenames, IInv, FilesWhole
  <1>2. life = "serving"
    BY <1>1 DEF IInv, Phases, Flushing
  <1>3. AfterSuccess(at[c]) \in Stages \ {"boot.issuing"}
    BY <1>1 DEF AfterSuccess, Flushing, Stages
  <1>4. /\ at' \in [Clients -> Stages]
        /\ \A e \in Clients : at'[e] = "boot.issuing" => at[e] = "boot.issuing"
    BY <1>1, <1>3 DEF IInv, TypeOK
  <1>5. handed' \subseteq memory.tokens
    BY <1>1, <1>2 DEF IInv, TokensKept
  <1>6. memory.tokens \subseteq Tokens
    BY DEF IInv, TypeOK, Data
  <1>7. TypeOK' /\ FilesWhole'
    <2>1. acked' \in BOOLEAN
      BY <1>1
    <2>2. QED
      BY <1>1, <1>4, <1>5, <1>6, <2>1 DEF IInv, TypeOK, FilesWhole, FlushStages
  <1>8. Phases'
    BY <1>1, <1>2 DEF Phases
  <1>9. TokensKept'
    BY <1>1, <1>4, <1>5 DEF IInv, TokensKept
  <1>10. CopiesExist'
    BY <1>1 DEF IInv, CopiesExist, ReportedExists
  <1>11. QED
    BY <1>7, <1>8, <1>9, <1>10 DEF IInv

LEMMA NotSavedKeeps ==
  ASSUME IInv, NEW c \in Clients, NotSaved(c) PROVE IInv'
  <1> USE ControlAssumption
  <1>1. /\ at[c] \in Flushing /\ holder' = Nobody /\ flush' = "idle"
        /\ temp' = Torn
        /\ at' = [at EXCEPT ![c] = AfterFailure(at[c])]
        /\ UNCHANGED <<memory, file, copy, token, life, seed, index, handed,
                       acked>>
    BY DEF NotSaved, FlushFails, HandedAfterFailure
  <1>2. life = "serving"
    BY <1>1 DEF IInv, Phases, Flushing
  <1>3. AfterFailure(at[c]) \in Stages \ {"boot.issuing"}
    BY DEF AfterFailure, Stages
  <1>4. /\ at' \in [Clients -> Stages]
        /\ \A e \in Clients : at'[e] = "boot.issuing" => at[e] = "boot.issuing"
    BY <1>1, <1>3 DEF IInv, TypeOK
  <1>5. TypeOK' /\ FilesWhole'
    BY <1>1, <1>4 DEF IInv, TypeOK, FilesWhole, FlushStages
  <1>6. Phases'
    BY <1>1, <1>2 DEF Phases
  <1>7. TokensKept'
    BY <1>1, <1>4 DEF IInv, TokensKept
  <1>8. CopiesExist'
    BY <1>1 DEF IInv, CopiesExist, ReportedExists
  <1>9. QED
    BY <1>5, <1>6, <1>7, <1>8 DEF IInv

LEMMA RequestKeeps ==
  ASSUME IInv, NEW c \in Clients, Request(c) PROVE IInv'
  <1>1. at[c] # "idle" => life = "serving"
    BY DEF IInv, Phases
  <1>2. CASE BootstrapReads(c)
    BY <1>2, ReadsDeviceKeeps DEF BootstrapReads, Stages
  <1>3. CASE TelemetryReads(c)
    <2>1. life = "serving"
      BY <1>1, <1>3 DEF TelemetryReads, ReadsDevice, Goes
    <2>2. QED
      BY <1>3, <2>1, ReadsDeviceKeeps DEF TelemetryReads, Stages
  <1>4. ASSUME NEW from \in Stages \ {"idle"},
               NEW to \in Stages \ {"boot.issuing"}, SavesDevice(c, from, to)
        PROVE  IInv'
    <2> DEFINE d == [memory EXCEPT !.reported = copy[c]]
    <2>1. /\ Save(c, d) /\ life = "serving"
          /\ at' = [at EXCEPT ![c] = to]
          /\ UNCHANGED <<copy, token, Rest>>
      BY <1>1, <1>4 DEF SavesDevice, Goes
    <2>2. /\ copy[c] \in {0, ConfigVersion}
          /\ copy[c] # 0 => "config" \in memory.parts
      BY DEF IInv, TypeOK, CopiesExist
    <2>3. QED
      BY <2>1, <2>2, SavesReportedKeeps
  <1>5. CASE BootstrapSaves(c) \/ TelemetrySaves(c)
    BY <1>4, <1>5 DEF BootstrapSaves, TelemetrySaves, Stages, Flushing
  <1>6. ASSUME NEW from \in Stages \ {"idle"},
               NEW to \in Stages \ {"boot.issuing"}, NEW needed,
               LooksUp(c, from, to, needed)
        PROVE  IInv'
    <2>1. /\ at' = [at EXCEPT ![c] = to] \/ at' = [at EXCEPT ![c] = "idle"]
          /\ life = "serving" /\ token' = token
          /\ UNCHANGED <<storeVars, copy, Rest>>
      BY <1>1, <1>6 DEF LooksUp, Goes
    <2>2. "idle" \in Stages /\ NoToken \in Tokens \cup {NoToken}
      BY DEF Stages
    <2>3. QED
      BY <2>1, <2>2, MovesKeeps
  <1>7. CASE BootstrapLooksUp(c) \/ AuthLooksUp(c)
    BY <1>6, <1>7 DEF BootstrapLooksUp, AuthLooksUp, Stages
  <1>8. CASE BootstrapIssues(c)
    BY <1>8, BootstrapIssuesKeeps
  <1>9. CASE BootstrapHasNoToken(c) \/ Leaves(c)
    <2>1. /\ at' = [at EXCEPT ![c] = "idle"] /\ life = "serving"
          /\ token' = token /\ UNCHANGED <<storeVars, copy, Rest>>
      BY <1>1, <1>9 DEF BootstrapHasNoToken, Leaves, Goes
    <2>2. "idle" \in Stages /\ NoToken \in Tokens \cup {NoToken}
      BY DEF Stages
    <2>3. QED
      BY <2>1, <2>2, MovesKeeps
  <1>10. CASE AuthFinds(c)
    <2>1. PICK t \in Tokens : token' = [token EXCEPT ![c] = t]
      BY <1>10 DEF AuthFinds, IInv, TypeOK
    <2>2. /\ at' = [at EXCEPT ![c] = "auth.touch"] /\ life = "serving"
          /\ UNCHANGED <<storeVars, copy, Rest>>
      BY <1>10 DEF AuthFinds, Goes
    <2>3. "auth.touch" \in Stages
      BY DEF Stages
    <2>4. QED
      BY <2>1, <2>2, <2>3, MovesKeeps
  <1>11. CASE AuthTouches(c)
    <2>1. /\ at' = [at EXCEPT ![c] = "auth.touching"] /\ life = "serving"
          /\ Save(c, memory) /\ UNCHANGED <<copy, token, Rest>>
      BY <1>1, <1>11 DEF AuthTouches, Goes
    <2>2. "auth.touching" \in Stages
      BY DEF Stages, Flushing
    <2>3. QED
      BY <2>1, <2>2, SavesReportedKeeps
  <1>12. CASE Acks(c)
    <2> DEFINE d == [memory EXCEPT !.reported = ConfigVersion]
    <2>1. /\ at' = [at EXCEPT ![c] = "acking"] /\ life = "serving"
          /\ "config" \in memory.parts
          /\ Save(c, d) /\ UNCHANGED <<copy, token, Rest>>
      BY <1>1, <1>12 DEF Acks, Goes
    <2>2. "acking" \in Stages
      BY DEF Stages, Flushing
    <2>3. QED
      BY <2>1, <2>2, SavesReportedKeeps
  <1>13. CASE Writes(c)
    BY <1>13, WritesKeeps DEF Writes, Rest
  <1>14. CASE Saved(c) \/ NotSaved(c)
    BY <1>14, SavedKeeps, NotSavedKeeps
  <1>15. QED
    BY <1>2, <1>3, <1>5, <1>7, <1>8, <1>9, <1>10, <1>11, <1>12, <1>13, <1>14
       DEF Request, Works, Flushes

LEMMA NextInvariant == IInv /\ [Next]_vars => IInv'
  <1> SUFFICES ASSUME IInv, [Next]_vars PROVE IInv'
    OBVIOUS
  <1>1. CASE SeedWrites
    BY <1>1, WritesKeeps DEF SeedWrites
  <1>2. CASE UNCHANGED vars
    BY <1>2 DEF vars, storeVars, clientVars, IInv, TypeOK, FilesWhole, Phases,
       TokensKept, CopiesExist, ReportedExists
  <1>3. QED
    BY <1>1, <1>2, StartUpKeeps, SeedChecksKeeps, SeedSavesKeeps,
       SeedIsSavedKeeps, CrashKeeps, RequestKeeps DEF Next
-----------------------------------------------------------------------------
(***************************************************************************)
(* The theorems.                                                           *)
(***************************************************************************)
LEMMA Invariance == Spec => []IInv
  BY InitInvariant, NextInvariant, PTL DEF Spec

(* The store and the requests keep their types.                            *)
THEOREM TypeCorrect == Spec => []TypeOK
  <1>1. IInv => TypeOK
    BY DEF IInv
  <1>2. QED
    BY <1>1, Invariance, PTL

(* Whatever fails or crashes, between the start and the end of a flush or  *)
(* in it, the state file can be loaded: only a temporary file that is      *)
(* whole is ever renamed.                                                  *)
THEOREM FileReadable == Spec => []FileIsReadable
  <1>1. IInv => FileIsReadable
    BY EmptyAssumption DEF IInv, FilesWhole, FileIsReadable
  <1>2. QED
    BY <1>1, Invariance, PTL

(* A device token that was given away is on disk and is found in memory,   *)
(* for any number of requests, failed flushes and crashes.                 *)
THEOREM IssuedKept == Spec => []IssuedIsKept
  <1>1. IInv => IssuedIsKept
    BY DEF IInv, TokensKept, IssuedIsKept
  <1>2. QED
    BY <1>1, Invariance, PTL

(* tokenIndex and the tokens agree.                                        *)
THEOREM IndexRight == Spec => []IndexIsRight
  <1>1. IInv => IndexIsRight
    BY DEF IInv, TokensKept, IndexIsRight
  <1>2. QED
    BY <1>1, Invariance, PTL

(* A reported version has its snapshot, although stale copies of the       *)
(* device record are written back.                                         *)
THEOREM ReportedIsThere == Spec => []ReportedExists
  <1>1. IInv => ReportedExists
    BY DEF IInv, CopiesExist
  <1>2. QED
    BY <1>1, Invariance, PTL
-----------------------------------------------------------------------------
(***************************************************************************)
(* Nobody keeps the lock.                                                  *)
(***************************************************************************)
LInv == IInv /\ NobodyKeepsTheLock

(* A request that saves takes the lock.                                    *)
LEMMA SaveLocks ==
  ASSUME LInv, NEW c \in Clients, NEW d, NEW to \in Flushing, Save(c, d),
         at' = [at EXCEPT ![c] = to], life' = life,
         memory.tokens \subseteq d.tokens,
         \A e \in Clients \ {c} : token'[e] = token[e]
  PROVE  NobodyKeepsTheLock'
  <1> USE ControlAssumption
  <1>1. /\ holder = Nobody /\ holder' = c /\ flush' = "marshalled" /\ memory' = d
        /\ "auth.touch" \notin Flushing
    BY DEF Save, Flushing
  <1>2. at'[c] = to /\ \A e \in Clients \ {c} : at'[e] = at[e]
    BY DEF LInv, IInv, TypeOK
  <1>3. \A e \in Clients : at'[e] \in Flushing <=> holder' = e
    BY <1>1, <1>2 DEF LInv, NobodyKeepsTheLock
  <1>4. \A e \in Clients : at'[e] = "auth.touch" => token'[e] \in memory'.tokens
    BY <1>1, <1>2 DEF LInv, NobodyKeepsTheLock
  <1>5. QED
    BY <1>1, <1>3, <1>4 DEF NobodyKeepsTheLock

(* One that only moves on neither takes the lock nor had it.               *)
LEMMA MoveLocks ==
  ASSUME LInv, NEW c \in Clients, NEW to, UNCHANGED <<storeVars, life>>,
         at[c] \notin Flushing, to \notin Flushing,
         at' = [at EXCEPT ![c] = to],
         \A e \in Clients \ {c} : token'[e] = token[e],
         to = "auth.touch" => token'[c] \in memory.tokens
  PROVE  NobodyKeepsTheLock'
  <1>1. UNCHANGED <<memory, holder, flush>>
    BY DEF storeVars
  <1>2. at'[c] = to /\ \A e \in Clients \ {c} : at'[e] = at[e]
    BY DEF LInv, IInv, TypeOK
  <1>3. \A e \in Clients : at'[e] \in Flushing <=> holder' = e
    BY <1>1, <1>2 DEF LInv, NobodyKeepsTheLock
  <1>4. \A e \in Clients : at'[e] = "auth.touch" => token'[e] \in memory'.tokens
    BY <1>1, <1>2 DEF LInv, NobodyKeepsTheLock
  <1>5. QED
    BY <1>1, <1>3, <1>4 DEF LInv, NobodyKeepsTheLock

(* One whose flush has ended, well or not, has given the lock back.        *)
LEMMA EndUnlocks ==
  ASSUME LInv, NEW c \in Clients, Saved(c) \/ NotSaved(c)
  PROVE  NobodyKeepsTheLock'
  <1> USE ControlAssumption
  <1>1. /\ at[c] \in Flushing /\ holder = c /\ holder' = Nobody /\ flush' = "idle"
        /\ UNCHANGED <<memory, token, life>>
    BY DEF Saved, NotSaved, FlushRenames, FlushFails
  <1>2. PICK to \in {"idle", "boot.look", "auth.look", "connected"} :
          at' = [at EXCEPT ![c] = to]
    <2>1. AfterSuccess(at[c]) \in {"idle", "boot.look", "auth.look", "connected"}
      BY <1>1 DEF AfterSuccess, Flushing
    <2>2. AfterFailure(at[c]) \in {"idle", "boot.look", "auth.look", "connected"}
      BY DEF AfterFailure
    <2>3. QED
      BY <2>1, <2>2 DEF Saved, NotSaved
  <1>3. to \notin Flushing /\ to # "auth.touch"
    BY <1>2 DEF Flushing
  <1>4. at'[c] = to /\ \A e \in Clients \ {c} : at'[e] = at[e]
    BY <1>2 DEF LInv, IInv, TypeOK
  <1>5. \A e \in Clients : at'[e] \notin Flushing /\ holder' # e
    BY <1>1, <1>3, <1>4 DEF LInv, NobodyKeepsTheLock
  <1>6. \A e \in Clients : at'[e] = "auth.touch" => token'[e] \in memory'.tokens
    BY <1>1, <1>3, <1>4 DEF LInv, NobodyKeepsTheLock
  <1>7. QED
    BY <1>1, <1>5, <1>6 DEF NobodyKeepsTheLock

LEMMA RequestLocks ==
  ASSUME LInv, NEW c \in Clients, Request(c) PROVE NobodyKeepsTheLock'
  <1> USE DEF Goes, Rest
  <1>1. memory \in Data
    BY DEF LInv, IInv, TypeOK
  <1>2. CASE BootstrapSaves(c) \/ TelemetrySaves(c) \/ Acks(c)
    <2>1. PICK r \in {copy[c], ConfigVersion}, to \in Flushing :
            /\ Save(c, [memory EXCEPT !.reported = r])
            /\ at' = [at EXCEPT ![c] = to] /\ life' = life /\ token' = token
      BY <1>2 DEF BootstrapSaves, TelemetrySaves, SavesDevice, Acks, Flushing
    <2> DEFINE d == [memory EXCEPT !.reported = r]
    <2>2. memory.tokens \subseteq d.tokens
      BY <1>1 DEF Data
    <2> HIDE DEF d
    <2>3. Save(c, d)
      BY <2>1 DEF d
    <2>4. QED
      BY <2>1, <2>2, <2>3, SaveLocks
  <1>3. CASE AuthTouches(c)
    <2>1. "auth.touching" \in Flushing
      BY DEF Flushing
    <2>2. QED
      BY <1>3, <2>1, SaveLocks DEF AuthTouches
  <1>4. CASE BootstrapIssues(c)
    <2>1. PICK t \in Tokens :
            /\ Save(c, [memory EXCEPT !.tokens = @ \cup {t}])
            /\ token' = [token EXCEPT ![c] = t]
      BY <1>4 DEF BootstrapIssues
    <2> DEFINE d == [memory EXCEPT !.tokens = @ \cup {t}]
    <2>2. memory.tokens \subseteq d.tokens
      BY <1>1 DEF Data
    <2>3. Save(c, d)
      BY <2>1
    <2> HIDE DEF d
    <2>4. \A e \in Clients \ {c} : token'[e] = token[e]
      BY <2>1 DEF LInv, IInv, TypeOK
    <2>5. at' = [at EXCEPT ![c] = "boot.issuing"] /\ life' = life
          /\ "boot.issuing" \in Flushing
      BY <1>4 DEF BootstrapIssues, Flushing
    <2>6. QED
      BY <2>2, <2>3, <2>4, <2>5, SaveLocks
  <1>5. CASE BootstrapReads(c) \/ TelemetryReads(c) \/ BootstrapLooksUp(c)
             \/ AuthLooksUp(c) \/ BootstrapHasNoToken(c) \/ Leaves(c)
    <2>1. PICK to \in {"idle", "boot.save", "boot.issue", "tel.save", "connected"} :
            at' = [at EXCEPT ![c] = to]
      BY <1>5 DEF BootstrapReads, TelemetryReads, ReadsDevice, BootstrapLooksUp,
         AuthLooksUp, LooksUp, BootstrapHasNoToken, Leaves
    <2>2. at[c] \notin Flushing /\ UNCHANGED <<storeVars, life, token>>
      BY <1>5 DEF BootstrapReads, TelemetryReads, ReadsDevice, BootstrapLooksUp,
         AuthLooksUp, LooksUp, BootstrapHasNoToken, Leaves, Flushing
    <2>3. to \notin Flushing /\ to # "auth.touch"
      BY <2>1 DEF Flushing
    <2>4. QED
      BY <2>1, <2>2, <2>3, MoveLocks
  <1>6. CASE AuthFinds(c)
    <2>1. PICK t \in memory.tokens : token' = [token EXCEPT ![c] = t]
      BY <1>6 DEF AuthFinds
    <2>2. token'[c] = t /\ \A e \in Clients \ {c} : token'[e] = token[e]
      BY <2>1 DEF LInv, IInv, TypeOK
    <2>3. /\ at[c] = "idle" /\ at' = [at EXCEPT ![c] = "auth.touch"]
          /\ UNCHANGED <<storeVars, life>>
          /\ "idle" \notin Flushing /\ "auth.touch" \notin Flushing
      BY <1>6 DEF AuthFinds, Flushing
    <2>4. QED
      BY <2>1, <2>2, <2>3, MoveLocks
  <1>7. CASE Writes(c)
    BY <1>7, ControlAssumption
       DEF Writes, FlushWrites, clientVars, LInv, NobodyKeepsTheLock
  <1>8. CASE Saved(c) \/ NotSaved(c)
    BY <1>8, EndUnlocks
  <1>9. QED
    BY <1>2, <1>3, <1>4, <1>5, <1>6, <1>7, <1>8 DEF Request, Works, Flushes

LEMMA ProcessLocks ==
  ASSUME LInv, StartUp \/ SeedChecks \/ SeedSaves \/ SeedWrites \/ SeedIsSaved \/ Crash
  PROVE  NobodyKeepsTheLock'
  <1> USE ControlAssumption DEF clientVars
  <1>1. "idle" \notin Flushing
    BY DEF Flushing
  <1>2. CASE StartUp
    BY <1>2 DEF StartUp, Load, LInv, IInv, Phases, NobodyKeepsTheLock
  <1>3. CASE SeedChecks
    BY <1>3 DEF SeedChecks, storeVars, LInv, IInv, Phases, NobodyKeepsTheLock
  <1>4. CASE SeedSaves
    BY <1>1, <1>4 DEF SeedSaves, Save, LInv, IInv, Phases, NobodyKeepsTheLock
  <1>5. CASE SeedWrites
    BY <1>5 DEF SeedWrites, FlushWrites, LInv, NobodyKeepsTheLock
  <1>6. CASE SeedIsSaved
    BY <1>6 DEF SeedIsSaved, FlushRenames, LInv, NobodyKeepsTheLock
  <1>7. CASE Crash
    BY <1>1, <1>7 DEF Crash, StoreCrash, NobodyKeepsTheLock
  <1>8. QED
    BY <1>2, <1>3, <1>4, <1>5, <1>6, <1>7

(* The lock of the repository is held only during a flush, whatever fails  *)
(* or crashes (file_repository.go, flushLocked and the operations that     *)
(* call it), two flushes never mix, and every request that waits, waits    *)
(* for the lock alone: the safe half of RequestEnds.                       *)
THEOREM LockIsReturned == Spec => []NobodyKeepsTheLock
  <1>1. Init => LInv
    <2>1. Init => NobodyKeepsTheLock
      <3>1. "idle" \notin Flushing
        BY DEF Flushing
      <3>2. QED
        BY <3>1, ControlAssumption DEF Init, StoreInit, NobodyKeepsTheLock
    <2>2. QED
      BY <2>1, InitInvariant DEF LInv
  <1>2. LInv /\ [Next]_vars => LInv'
    <2> SUFFICES ASSUME LInv, [Next]_vars PROVE NobodyKeepsTheLock'
      BY NextInvariant DEF LInv
    <2>1. CASE UNCHANGED vars
      BY <2>1 DEF vars, storeVars, clientVars, LInv, NobodyKeepsTheLock
    <2>2. QED
      BY <2>1, RequestLocks, ProcessLocks DEF Next
  <1>3. LInv => NobodyKeepsTheLock
    BY DEF LInv
  <1>4. QED
    BY <1>1, <1>2, <1>3, PTL DEF Spec
=============================================================================
