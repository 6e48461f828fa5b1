------------------------------ MODULE FileStore ------------------------------
(***************************************************************************)
(* The state file repository (src/internal/store/file_repository.go),      *)
(* without regard to what it stores: one copy in memory that every         *)
(* operation works on, and one in a file that every change rewrites.       *)
(*                                                                         *)
(* A change holds the write lock from the assignment to the end of the     *)
(* flush, which writes a temporary file and renames it.  These are the     *)
(* parts of a module that says who calls.                                  *)
(***************************************************************************)
CONSTANTS
  Nobody,  \* the lock is free
  Empty,   \* newFileState, what a missing file stands for
  Torn     \* a file that does not parse

VARIABLES
  memory,  \* repo.data
  file,    \* the file at repo.path
  temp,    \* the one at repo.path + ".tmp"; Torn until it is whole
  holder,  \* who has locked repo.mu for writing
  flush    \* how far the holder's flush is

storeVars == <<memory, file, temp, holder, flush>>

FlushStages == {"idle", "marshalled", "written"}

StoreInit ==
  /\ memory = Empty /\ file = Empty /\ temp = Torn
  /\ holder = Nobody /\ flush = "idle"

(* A reader takes the lock too.                                            *)
Readable == holder = Nobody

(* A Save, Set, Ack or Touch operation of c: memory changes first.         *)
Save(c, data) ==
  /\ holder = Nobody
  /\ holder' = c
  /\ memory' = data
  /\ flush' = "marshalled"
  /\ UNCHANGED <<file, temp>>

(* flushLocked writes the temporary file, which is torn from the moment    *)
(* os.WriteFile truncates it until all of memory is in it.                 *)
FlushWrites(c) ==
  /\ holder = c /\ flush = "marshalled"
  /\ flush' = "written" /\ temp' = memory
  /\ UNCHANGED <<memory, file, holder>>

(* It is renamed, and the operation returns.                               *)
FlushRenames(c) ==
  /\ holder = c /\ flush = "written"
  /\ file' = temp /\ temp' = Torn
  /\ holder' = Nobody /\ flush' = "idle"
  /\ UNCHANGED memory

(* Opening, writing or renaming fails, and the operation returns an error; *)
(* memory keeps the change.  What a flush that fails or a process that     *)
(* ends leaves in the temporary file is truncated by the next flush, and   *)
(* counts as torn.  X_Slip is X with a mistake that would be easy to make, *)
(* here and in the modules that extend this one.                           *)
FlushFails_Slip(c) ==
  /\ holder = c
  /\ flush' = "idle" /\ temp' = Torn
  /\ UNCHANGED <<memory, file, holder>>
FlushFails(c) ==
  /\ holder = c
  /\ holder' = Nobody /\ flush' = "idle" /\ temp' = Torn
  /\ UNCHANGED <<memory, file>>

(* The process ends, at any point.                                         *)
StoreCrash ==
  /\ memory' = Empty /\ temp' = Torn
  /\ holder' = Nobody /\ flush' = "idle"
  /\ UNCHANGED file

(* NewFileRepository, which reads the file at repo.path only.              *)
Load ==
  /\ file # Torn
  /\ memory' = file
  /\ UNCHANGED <<file, temp, holder, flush>>
=============================================================================
