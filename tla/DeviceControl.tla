---------------------------- MODULE DeviceControl ----------------------------
(***************************************************************************)
(* The device control plane over the state file: start-up with its seed,   *)
(* bootstrap and its tokens, authentication, telemetry and configuration   *)
(* acknowledgements of concurrent requests, and crashes                    *)
(* (src/internal/service/device_control.go, src/internal/device/service.go *)
(* and seed.go, src/cmd/agensense/main.go).                                *)
(*                                                                         *)
(* There is one device, the seeded one, with one configuration version: no *)
(* code of the server adds another.  Of the device record only the version *)
(* it has reported is told apart; the time of the last use, the firmware   *)
(* and the capabilities are not.                                           *)
(***************************************************************************)
EXTENDS FileStore, Naturals, Sequences

CONSTANTS
  Clients,  \* requests and connections served at the same time
  Tokens,   \* bound: device tokens ever issued
  Server,   \* the main goroutine, which seeds
  NoToken

ASSUME ControlAssumption ==
  /\ Server # Nobody /\ Server \notin Clients /\ Nobody \notin Clients
  /\ NoToken \notin Tokens

ConfigVersion == 1

(* What ApplyDemoSeed saves, one file flush each.                          *)
SeedSteps == <<"instance", "profile", "device", "config", "desired">>
Parts == {"instance", "profile", "device", "config"}

Data == [parts : SUBSET Parts, reported : {0, ConfigVersion},
         tokens : SUBSET Tokens]

ASSUME EmptyAssumption ==
  /\ Empty = [parts |-> {}, reported |-> 0, tokens |-> {}]
  /\ Torn \notin Data

VARIABLES
  life,    \* "down", "loaded", "seeding" or "serving"
  seed,    \* the next of SeedSteps
  index,   \* the tokens found through tokenIndex
  at,      \* where each client's request is
  copy,    \* the reported version in the device record a request has read
  token,   \* the token a request issues or presents
  handed,  \* tokens that have been given to the device
  acked    \* a configuration acknowledgement has succeeded

clientVars == <<at, copy, token>>
vars == <<storeVars, life, seed, index, clientVars, handed, acked>>

(* Stages in which a request waits for its flush.                          *)
Flushing == {"boot.saving", "boot.issuing", "auth.touching", "tel.saving",
             "acking"}
Stages == Flushing \cup
  {"idle", "boot.save", "boot.look", "boot.issue", "auth.touch", "auth.look",
   "connected", "tel.save"}

TypeOK ==
  /\ memory \in Data /\ file \in Data \cup {Torn} /\ temp \in Data \cup {Torn}
  /\ holder \in Clients \cup {Server, Nobody} /\ flush \in FlushStages
  /\ life \in {"down", "loaded", "seeding", "serving"}
  /\ seed \in 1 .. Len(SeedSteps)
  /\ index \subseteq Tokens
  /\ at \in [Clients -> Stages]
  /\ copy \in [Clients -> {0, ConfigVersion}]
  /\ token \in [Clients -> Tokens \cup {NoToken}]
  /\ handed \subseteq Tokens
  /\ acked \in BOOLEAN

Init ==
  /\ StoreInit
  /\ life = "down" /\ seed = 1 /\ index = {}
  /\ at = [c \in Clients |-> "idle"]
  /\ copy = [c \in Clients |-> 0]
  /\ token = [c \in Clients |-> NoToken]
  /\ handed = {} /\ acked = FALSE
-----------------------------------------------------------------------------
(***************************************************************************)
(* The process.                                                            *)
(***************************************************************************)

(* normalizeState builds the index anew.                                   *)
RebuildIndex == index' = memory'.tokens

StartUp ==
  /\ life = "down"
  /\ Load /\ RebuildIndex
  /\ life' = "loaded"
  /\ UNCHANGED <<seed, clientVars, handed, acked>>

(* SeedDemoData does nothing when the demo device is there.                *)
SeedChecks ==
  /\ life = "loaded"
  /\ \/ "device" \in memory.parts /\ life' = "serving"
     \/ "device" \notin memory.parts /\ life' = "seeding"
  /\ seed' = 1
  /\ UNCHANGED <<storeVars, index, clientVars, handed, acked>>

(* The seeded device has reported nothing, and desires the seeded version. *)
Seeded_Slip(part) ==
  IF part = "desired" THEN memory
  ELSE [memory EXCEPT !.parts = @ \cup {part},
                      !.reported = IF part = "device" THEN ConfigVersion ELSE @]
Seeded(part) ==
  IF part = "desired" THEN memory
  ELSE [memory EXCEPT !.parts = @ \cup {part},
                      !.reported = IF part = "device" THEN 0 ELSE @]

SeedSaves ==
  /\ life = "seeding"
  /\ Save(Server, Seeded(SeedSteps[seed]))
  /\ UNCHANGED <<life, seed, index, clientVars, handed, acked>>

SeedWrites ==
  /\ FlushWrites(Server)
  /\ UNCHANGED <<life, seed, index, clientVars, handed, acked>>

IsLastStep_Slip == seed > Len(SeedSteps)
IsLastStep == seed = Len(SeedSteps)

SeedIsSaved ==
  /\ FlushRenames(Server)
  /\ \/ /\ ~IsLastStep
        /\ seed' = seed + 1
        /\ UNCHANGED life
     \/ /\ IsLastStep
        /\ life' = "serving"
        /\ UNCHANGED seed
  /\ UNCHANGED <<index, clientVars, handed, acked>>

(* The process is killed at any point, or exits because the seed fails.    *)
Crash ==
  /\ life # "down"
  /\ life' = "down"
  /\ StoreCrash
  /\ index' = {} /\ seed' = 1
  /\ at' = [c \in Clients |-> "idle"]
  /\ copy' = [c \in Clients |-> 0]
  /\ token' = [c \in Clients |-> NoToken]
  /\ UNCHANGED <<handed, acked>>
-----------------------------------------------------------------------------
(***************************************************************************)
(* The requests.                                                           *)
(***************************************************************************)
Goes(c, from, to) == at[c] = from /\ at' = [at EXCEPT ![c] = to]

Rest == <<life, seed, index, handed, acked>>

(* GetDevice: from here on the request has a copy of its own.              *)
ReadsDevice(c, from, to) ==
  /\ Readable /\ "device" \in memory.parts
  /\ Goes(c, from, to)
  /\ copy' = [copy EXCEPT ![c] = memory.reported]
  /\ UNCHANGED <<storeVars, token, Rest>>

(* SaveDevice, with everything the copy says.                              *)
SavesDevice(c, from, to) ==
  /\ Goes(c, from, to)
  /\ Save(c, [memory EXCEPT !.reported = copy[c]])
  /\ UNCHANGED <<copy, token, Rest>>

(* The instance, the current configuration and the provider profile are    *)
(* read one after the other; none of them changes while the server serves. *)
LooksUp(c, from, to, needed) ==
  /\ Readable
  /\ IF needed \subseteq memory.parts THEN Goes(c, from, to)
                                       ELSE Goes(c, from, "idle")
  /\ UNCHANGED <<storeVars, copy, token, Rest>>

(* A bootstrap whose credentials do not match changes nothing.             *)
BootstrapReads(c) == life = "serving" /\ ReadsDevice(c, "idle", "boot.save")
BootstrapSaves(c) == SavesDevice(c, "boot.save", "boot.saving")
BootstrapLooksUp(c) ==
  LooksUp(c, "boot.look", "boot.issue", {"instance", "profile", "config"})

(* IssueDeviceToken; random tokens never repeat.  There may be no          *)
(* randomness to be had, which is an error.                                *)
BootstrapIssues(c) ==
  /\ Goes(c, "boot.issue", "boot.issuing")
  /\ \E t \in Tokens \ (memory.tokens \cup handed) :
       /\ Save(c, [memory EXCEPT !.tokens = @ \cup {t}])
       /\ index' = index \cup {t}
       /\ token' = [token EXCEPT ![c] = t]
  /\ UNCHANGED <<copy, life, seed, handed, acked>>

BootstrapHasNoToken(c) ==
  /\ Goes(c, "boot.issue", "idle")
  /\ UNCHANGED <<storeVars, copy, token, Rest>>

(* AuthenticateDeviceToken, with a token the device was given; one that    *)
(* has expired changes nothing.                                            *)
AuthFinds(c) ==
  /\ life = "serving" /\ Readable
  /\ \E t \in handed \cap index :
       /\ t \in memory.tokens
       /\ token' = [token EXCEPT ![c] = t]
  /\ Goes(c, "idle", "auth.touch")
  /\ UNCHANGED <<storeVars, copy, Rest>>

AuthTouches(c) ==
  /\ token[c] \in memory.tokens
  /\ Goes(c, "auth.touch", "auth.touching")
  /\ Save(c, memory)
  /\ UNCHANGED <<copy, token, Rest>>

AuthLooksUp(c) ==
  LooksUp(c, "auth.look", "connected", {"instance", "config"})

TelemetryReads(c) == ReadsDevice(c, "connected", "tel.save")
TelemetrySaves(c) == SavesDevice(c, "tel.save", "tel.saving")

(* AckConfig of a version that has no snapshot is refused.                 *)
Acks(c) ==
  /\ "config" \in memory.parts
  /\ Goes(c, "connected", "acking")
  /\ Save(c, [memory EXCEPT !.reported = ConfigVersion])
  /\ UNCHANGED <<copy, token, Rest>>

Leaves(c) ==
  /\ Goes(c, "connected", "idle")
  /\ UNCHANGED <<storeVars, copy, token, Rest>>

Writes(c) == FlushWrites(c) /\ UNCHANGED <<clientVars, Rest>>

(* The operation has returned without an error.                            *)
AfterSuccess(stage) ==
  CASE stage = "boot.saving"   -> "boot.look"
    [] stage = "boot.issuing"  -> "idle"
    [] stage = "auth.touching" -> "auth.look"
    [] stage \in {"tel.saving", "acking"} -> "connected"

Saved(c) ==
  /\ at[c] \in Flushing
  /\ FlushRenames(c)
  /\ at' = [at EXCEPT ![c] = AfterSuccess(at[c])]
  /\ handed' = IF at[c] = "boot.issuing" THEN handed \cup {token[c]} ELSE handed
  /\ acked' = (acked \/ at[c] = "acking")
  /\ UNCHANGED <<copy, token, life, seed, index>>

(* The operation has returned an error; a connection lives on.             *)
AfterFailure(stage) ==
  IF stage \in {"tel.saving", "acking"} THEN "connected" ELSE "idle"

HandedAfterFailure_Slip(c) ==
  IF at[c] = "boot.issuing" THEN handed \cup {token[c]} ELSE handed
HandedAfterFailure(c) == handed

NotSaved(c) ==
  /\ at[c] \in Flushing
  /\ FlushFails(c)
  /\ at' = [at EXCEPT ![c] = AfterFailure(at[c])]
  /\ handed' = HandedAfterFailure(c)
  /\ UNCHANGED <<copy, token, life, seed, index, acked>>

(* What a request does when it is not waiting for the client.              *)
Works(c) ==
  \/ BootstrapSaves(c) \/ BootstrapLooksUp(c) \/ BootstrapIssues(c)
  \/ BootstrapHasNoToken(c) \/ AuthTouches(c) \/ AuthLooksUp(c) \/ TelemetrySaves(c)

Flushes(c) == Writes(c) \/ Saved(c) \/ NotSaved(c)

Request(c) ==
  \/ BootstrapReads(c) \/ AuthFinds(c) \/ TelemetryReads(c) \/ Acks(c)
  \/ Leaves(c) \/ Works(c) \/ Flushes(c)

Next ==
  \/ StartUp \/ SeedChecks \/ SeedSaves \/ SeedWrites \/ SeedIsSaved \/ Crash
  \/ \E c \in Clients : Request(c)

(* The scheduler runs requests, the disk answers, and the lock, which does *)
(* not starve anyone, is granted in the end.  Nothing is assumed of the    *)
(* clients, nor of a crash or a start.                                     *)
Fairness == \A c \in Clients : WF_vars(Flushes(c)) /\ SF_vars(Works(c))

Spec == Init /\ [][Next]_vars
FairSpec == Spec /\ Fairness /\ WF_vars(SeedWrites) /\ WF_vars(SeedIsSaved)
-----------------------------------------------------------------------------
(***************************************************************************)
(* Properties.                                                             *)
(***************************************************************************)

(* The server can always start from the file a crash has left behind.      *)
FileIsReadable == file # Torn

(* A token that was given to the device is never lost: it is in the file,  *)
(* and while the server serves it is found by its hash.                    *)
IssuedIsKept ==
  /\ handed \subseteq file.tokens
  /\ life # "down" => handed \subseteq memory.tokens \cap index

(* The index finds exactly the tokens there are, whatever has failed.      *)
IndexIsRight == life # "down" => index = memory.tokens

(* A reported version has its snapshot, in memory and after a crash.       *)
ReportedExists ==
  /\ memory.reported # 0 => "config" \in memory.parts
  /\ file.reported # 0 => "config" \in file.parts

(* A request that does not wait for its client comes to an end.            *)
AtRest(c) == at[c] \in {"idle", "connected"}
RequestEnds == \A c \in Clients : ~AtRest(c) ~> AtRest(c)

(* Whoever has the lock is in a flush, the seed or a request; a request    *)
(* that waits for its flush has the lock; and the token of a connection    *)
(* that was found is still there when its use is written down.             *)
NobodyKeepsTheLock ==
  /\ flush = "idle" <=> holder = Nobody
  /\ holder = Server => life = "seeding"
  /\ \A c \in Clients : at[c] \in Flushing <=> holder = c
  /\ \A c \in Clients : at[c] = "auth.touch" => token[c] \in memory.tokens

(* The server updates the reported version when the device acknowledges    *)
(* its configuration (docs/zh-CN/device-bootstrap.md:106): with no change  *)
(* under way, an acknowledgement that has succeeded is what is reported.   *)
AckedIsReported ==
  life = "serving" /\ holder = Nobody /\ acked
    => memory.reported = ConfigVersion

(* After the seed the demo device has its instance and its configuration   *)
(* (internal/store/file_repository_test.go:45-57).                         *)
SeedIsWhole == life = "serving" => Parts \subseteq memory.parts
=============================================================================
