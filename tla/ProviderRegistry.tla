-------------------------- MODULE ProviderRegistry --------------------------
(***************************************************************************)
(* The provider profiles of one namespace (one API key) over the state     *)
(* file: registrations by concurrent requests, the default profile, which  *)
(* is kept as a numbered configuration snapshot, and the built-in profile  *)
(* that every start puts back                                              *)
(* (src/internal/service/provider_registry.go,                             *)
(* src/internal/app/default_provider_seed.go).                             *)
(*                                                                         *)
(* Of a profile's contents only where they come from is told apart: from   *)
(* the server's configuration or from a client.  The namespace is the one  *)
(* of the configured default API key; others never see a built-in profile. *)
(***************************************************************************)
EXTENDS FileStore, Integers, Sequences, FiniteSetsExt

CONSTANTS
  Clients,     \* requests served at the same time
  Profiles,    \* bound: profile ids that are ever registered
  Builtin,     \* cfg.DefaultProviderID
  OldDefault,  \* "mock-default"
  NoProfile,
  Server,      \* the main goroutine
  MaxVersion   \* bound: snapshots of the namespace

Versions == 1 .. MaxVersion
Contents == {"absent", "builtin", "own"}

Data == [profile : [Profiles -> Contents],
         config : [Versions -> Profiles \cup {NoProfile}]]

NoConfig == [v \in Versions |-> NoProfile]

ASSUME RegistryAssumption ==
  /\ Builtin \in Profiles /\ OldDefault \in Profiles /\ Builtin # OldDefault
  /\ NoProfile \notin Profiles
  /\ Server # Nobody /\ Server \notin Clients /\ Nobody \notin Clients
  /\ MaxVersion \in Nat \ {0}

ASSUME EmptyAssumption ==
  /\ Empty = [profile |-> [p \in Profiles |-> "absent"], config |-> NoConfig]
  /\ Torn \notin Data

(* What an old server has left behind, which had a mock as its default.    *)
OldState ==
  [profile |-> [Empty.profile EXCEPT ![OldDefault] = "own"],
   config |-> [NoConfig EXCEPT ![1] = OldDefault]]

VARIABLES
  life,        \* "down", "seeding" or "serving"
  step,        \* the next of EnsureSteps
  at,          \* where each request is
  asked,       \* the profile it registers, and whether as the default
  version,     \* the snapshot it is about to save
  registered,  \* profiles whose registration a client knows to have succeeded
  lone,        \* a client that has been alone in choosing a default
  chosen       \* the default it has set, until another choice begins

clientVars == <<at, asked, version>>
history == <<registered, lone, chosen>>
vars == <<storeVars, life, step, clientVars, history>>

Choosing == {"choose", "choosing"}
Flushing == {"registering", "choosing", "other"}
Stages == Flushing \cup {"idle", "look", "choose"}

TypeOK ==
  /\ memory \in Data /\ file \in Data /\ temp \in Data \cup {Torn}
  /\ holder \in Clients \cup {Server, Nobody} /\ flush \in FlushStages
  /\ life \in {"down", "seeding", "serving"} /\ step \in {1, 2}
  /\ at \in [Clients -> Stages]
  /\ asked \in [Clients -> [profile : Profiles, default : BOOLEAN]]
  /\ version \in [Clients -> Versions]
  /\ registered \subseteq Profiles
  /\ lone \in Clients \cup {Nobody}
  /\ chosen \in Profiles \cup {NoProfile}

NobodyAsks ==
  << [c \in Clients |-> "idle"],
     [c \in Clients |-> [profile |-> Builtin, default |-> FALSE]],
     [c \in Clients |-> 1] >>

Init ==
  /\ memory = Empty /\ file \in {Empty, OldState} /\ temp = Torn
  /\ holder = Nobody /\ flush = "idle"
  /\ life = "down" /\ step = 1
  /\ at = NobodyAsks[1] /\ asked = NobodyAsks[2] /\ version = NobodyAsks[3]
  /\ registered = {} /\ lone = Nobody /\ chosen = NoProfile
-----------------------------------------------------------------------------
(***************************************************************************)
(* What is read off the snapshots.                                         *)
(***************************************************************************)
Made(data) == {v \in Versions : data.config[v] # NoProfile}

(* GetLatestConfigSnapshot; 0 stands for ErrNotFound.                      *)
LastVersion(data) == IF Made(data) = {} THEN 0 ELSE Max(Made(data))

DefaultOf(data) ==
  IF LastVersion(data) = 0 THEN NoProfile ELSE data.config[LastVersion(data)]

NextVersion(data) == LastVersion(data) + 1

Present(data) == {p \in Profiles : data.profile[p] # "absent"}

(* ResolveProviderProfile without an id: what it may find.                 *)
Resolved(data) ==
  IF DefaultOf(data) # NoProfile THEN {DefaultOf(data)} \cap Present(data)
  ELSE IF \E p \in Profiles : Present(data) = {p} THEN Present(data)
  ELSE {}

WithProfile(p, contents) == [memory EXCEPT !.profile[p] = contents]
WithDefault(v, p) == [memory EXCEPT !.config[v] = p]
-----------------------------------------------------------------------------
(***************************************************************************)
(* The process.                                                            *)
(***************************************************************************)
EnsureSteps_Slip == <<"choice", "profile">>
EnsureSteps == <<"profile", "choice">>

StartUp ==
  /\ life = "down"
  /\ Load
  /\ life' = "seeding" /\ step' = 1
  /\ UNCHANGED <<clientVars, history>>

(* EnsureDefaultProviderProfile saves the built-in profile in any case.    *)
Provided_Slip == [memory EXCEPT !.profile = [Empty.profile EXCEPT ![Builtin] = "builtin"]]
Provided == WithProfile(Builtin, "builtin")

EnsureProvides ==
  /\ life = "seeding" /\ EnsureSteps[step] = "profile"
  /\ Save(Server, Provided)
  /\ UNCHANGED <<life, step, clientVars, history>>

(* It makes it the default if there is none, or only the old one.          *)
ShouldPromote_EagerSlip(data) == DefaultOf(data) # Builtin
ShouldPromote_MockSlip(data) == DefaultOf(data) = OldDefault
ShouldPromote(data) == DefaultOf(data) \in {NoProfile, OldDefault}

EnsurePromotes ==
  /\ life = "seeding" /\ EnsureSteps[step] = "choice"
  /\ ShouldPromote(memory) /\ NextVersion(memory) \in Versions
  /\ Save(Server, WithDefault(NextVersion(memory), Builtin))
  /\ UNCHANGED <<life, step, clientVars, history>>

GoesOn_Slip ==
  IF step > Len(EnsureSteps) THEN life' = "serving" /\ UNCHANGED step
  ELSE step' = step + 1 /\ UNCHANGED life
GoesOn ==
  IF step = Len(EnsureSteps) THEN life' = "serving" /\ UNCHANGED step
  ELSE step' = step + 1 /\ UNCHANGED life

EnsureKeeps ==
  /\ life = "seeding" /\ EnsureSteps[step] = "choice"
  /\ Readable /\ ~ShouldPromote(memory)
  /\ GoesOn
  /\ UNCHANGED <<storeVars, clientVars, history>>

EnsureWrites ==
  /\ FlushWrites(Server)
  /\ UNCHANGED <<life, step, clientVars, history>>

EnsureIsSaved ==
  /\ FlushRenames(Server)
  /\ GoesOn
  /\ UNCHANGED <<clientVars, history>>

(* Killed, or gone because a save of the above has failed.                 *)
Crash ==
  /\ life # "down"
  /\ life' = "down" /\ step' = 1
  /\ StoreCrash
  /\ at' = NobodyAsks[1] /\ asked' = NobodyAsks[2] /\ version' = NobodyAsks[3]
  /\ lone' = Nobody
  /\ UNCHANGED <<registered, chosen>>
-----------------------------------------------------------------------------
(***************************************************************************)
(* The requests.                                                           *)
(***************************************************************************)
Goes(c, from, to) == at[c] = from /\ at' = [at EXCEPT ![c] = to]

(* UpsertProviderProfile.  Its first look only serves the creation time.   *)
Registers(c) ==
  /\ life = "serving"
  /\ Goes(c, "idle", "registering")
  /\ \E p \in Profiles, default \in BOOLEAN :
       /\ Save(c, WithProfile(p, "own"))
       /\ asked' = [asked EXCEPT ![c] = [profile |-> p, default |-> default]]
  /\ UNCHANGED <<life, step, version, history>>

(* setDefaultProfileConfig reads the last version under one lock and       *)
(* saves the next one under another.                                       *)
Looks(c) ==
  /\ Readable
  /\ Goes(c, "look", "choose")
  /\ NextVersion(memory) <= MaxVersion
  /\ version' = [version EXCEPT ![c] = NextVersion(memory)]
  /\ lone' = IF \A e \in Clients : at[e] \notin Choosing THEN c ELSE Nobody
  /\ chosen' = NoProfile
  /\ UNCHANGED <<storeVars, life, step, asked, registered>>

Chooses(c) ==
  /\ Goes(c, "choose", "choosing")
  /\ Save(c, WithDefault(version[c], asked[c].profile))
  /\ UNCHANGED <<life, step, asked, version, history>>

(* Any other operation of the repository writes all of memory as well.     *)
Others(c) ==
  /\ life = "serving"
  /\ Goes(c, "idle", "other")
  /\ Save(c, memory)
  /\ UNCHANGED <<life, step, asked, version, history>>

Writes(c) ==
  /\ FlushWrites(c)
  /\ UNCHANGED <<life, step, clientVars, history>>

(* The save has succeeded.  The response, with its look at what is the     *)
(* default by now, changes nothing.                                        *)
ProfileIsSaved(c) ==
  /\ FlushRenames(c)
  /\ Goes(c, "registering", IF asked[c].default THEN "look" ELSE "idle")
  /\ registered' = registered \cup {asked[c].profile}
  /\ UNCHANGED <<life, step, asked, version, lone, chosen>>

DefaultIsSaved(c) ==
  /\ FlushRenames(c)
  /\ Goes(c, "choosing", "idle")
  /\ chosen' = IF lone = c THEN asked[c].profile ELSE chosen
  /\ UNCHANGED <<life, step, asked, version, registered, lone>>

OtherIsSaved(c) ==
  /\ FlushRenames(c)
  /\ Goes(c, "other", "idle")
  /\ UNCHANGED <<life, step, asked, version, history>>

NotSaved(c) ==
  /\ FlushFails(c)
  /\ \E from \in Flushing : Goes(c, from, "idle")
  /\ UNCHANGED <<life, step, asked, version, history>>

Request(c) ==
  \/ Registers(c) \/ Looks(c) \/ Chooses(c) \/ Others(c) \/ Writes(c)
  \/ ProfileIsSaved(c) \/ DefaultIsSaved(c) \/ OtherIsSaved(c) \/ NotSaved(c)

Next ==
  \/ StartUp \/ EnsureProvides \/ EnsurePromotes \/ EnsureKeeps \/ EnsureWrites
  \/ EnsureIsSaved \/ Crash
  \/ \E c \in Clients : Request(c)

Spec == Init /\ [][Next]_vars
-----------------------------------------------------------------------------
(***************************************************************************)
(* Properties.                                                             *)
(***************************************************************************)

(* A default is a profile that exists, in memory and after a crash at any  *)
(* point; a request that names none is never sent to a missing one.        *)
DefaultExists ==
  \A data \in {memory, file} :
    DefaultOf(data) # NoProfile => DefaultOf(data) \in Present(data)

(* The built-in profile makes the namespace usable without registration    *)
(* (default_provider_seed.go:15-16), and it stays so.                      *)
Usable == life = "serving" => Resolved(memory) # {}

(* A profile a client has registered is not lost or replaced by a start,   *)
(* a crash or a failure; the built-in one is another matter.               *)
OthersAreKept ==
  \A p \in registered \ {Builtin} :
    /\ file.profile[p] = "own"
    /\ life # "down" => memory.profile[p] = "own"

(* A default that was set while nobody else was setting one stays the      *)
(* default, across crashes and starts, until the next choice begins: a     *)
(* start does not override it (docs/zh-CN/provider-api.md:281).  The old   *)
(* built-in id is not protected: chosen anew, it is replaced by the next   *)
(* start like any default of that name.                                    *)
LoneChoiceHolds ==
  chosen \notin {NoProfile, OldDefault} =>
    /\ DefaultOf(file) = chosen
    /\ life # "down" => DefaultOf(memory) = chosen

(* Registering the same id again overrides the default profile             *)
(* (docs/zh-CN/mvp-local-runbook.md:126), and what is registered is kept   *)
(* (README.zh-CN.md:160).                                                  *)
RegistrationIsKept ==
  life = "serving" => \A p \in registered : memory.profile[p] = "own"
=============================================================================
