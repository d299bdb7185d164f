------------------------------ MODULE FileStore ------------------------------
(***************************************************************************)
(* The local backend (internal/storage/filesystem) for one of its files.   *)
(* The version of a document is the hash of its bytes, which stands for    *)
(* the content itself.  writeJSONWithVersion reads and compares, writes a  *)
(* temporary file, syncs it and renames it over the document, one system   *)
(* call after the other and with no lock around them.                      *)
(***************************************************************************)
EXTENDS Integers

CONSTANTS Clients, Contents, ValidContents, Fallback, Absent,  \* see VersionedStore
          ZeroVersion,
          Torn,         \* what is left of a file whose data never reached the disk
          PowerLosses,  \* bound on the losses of power
          SerialSaves   \* whether saves of different clients happen not to overlap

ASSUME FileAssumption ==
  /\ ValidContents \subseteq Contents
  /\ Fallback \in ValidContents
  /\ Absent \notin Contents
  /\ ZeroVersion \notin Contents
  /\ Torn \notin Contents \cup {Absent}
  /\ PowerLosses \in Nat

VARIABLES file,     \* the document as processes see it: its data, and whether that is on disk
          durable,  \* the document a loss of power would leave behind
          held,     \* data and version each client last saw
          save,     \* the writeJSONWithVersion each client is in
          losses    \* how often the power was lost

vars == <<file, durable, held, save, losses>>

NoFile == [data |-> Absent, synced |-> TRUE]

Unloaded == [content |-> Absent, version |-> ZeroVersion]

VersionFromBytes(data) == data

\* pc: the next system call; data: the bytes to write; temp: the temporary file.
Pcs == {"idle", "compare", "mkdir", "createTemp", "write", "sync", "close", "rename", "return"}

Temp == [data : Contents \cup {Absent, Torn}, synced : BOOLEAN]

NotSaving == [pc |-> "idle", data |-> Fallback, temp |-> NoFile]

Init ==
  /\ file \in {NoFile} \cup [data : Contents, synced : {TRUE}]
  /\ durable = file.data
  /\ held = [c \in Clients |-> Unloaded]
  /\ save = [c \in Clients |-> NotSaving]
  /\ losses = 0

-----------------------------------------------------------------------------
\* The document and its version.
readJSONFile == [content |-> file.data, version |-> VersionFromBytes(file.data)]

\* Mutant: what was read is not validated.
LoadFoundUnvalidated(c) ==
  /\ save[c].pc = "idle"
  /\ file.data # Absent
  /\ held' = [held EXCEPT ![c] = readJSONFile]
  /\ UNCHANGED <<file, durable, save, losses>>

\* Validate accepts what was read; any error leaves the client as it was.
LoadFound(c) ==
  /\ save[c].pc = "idle"
  /\ file.data \in ValidContents
  /\ held' = [held EXCEPT ![c] = readJSONFile]
  /\ UNCHANGED <<file, durable, save, losses>>

\* ErrNotFound: the guild settings fall back on config.json, the job on an empty
\* state or cache, under the zero version.
LoadFallback(c) ==
  /\ save[c].pc = "idle"
  /\ file.data = Absent
  /\ held' = [held EXCEPT ![c] = [content |-> Fallback, version |-> ZeroVersion]]
  /\ UNCHANGED <<file, durable, save, losses>>

\* SaveState and its siblings: Validate and EncodeJSON.
Save(c) ==
  /\ save[c].pc = "idle" /\ held[c] # Unloaded
  /\ \E data \in ValidContents :
       save' = [save EXCEPT ![c] = [pc |-> "compare", data |-> data, temp |-> NoFile]]
  /\ UNCHANGED <<file, durable, held, losses>>

\* The next system call of c, after which its temporary file is temp.
Goes(c, at, pc, temp) ==
  /\ save[c].pc = at
  /\ save' = [save EXCEPT ![c] = [pc |-> pc, data |-> @.data, temp |-> temp]]
  /\ UNCHANGED <<file, durable, held, losses>>

\* Mutant: the zero version matches any document.
ExpectsAnyOnZero(c) ==
  held[c].version \in {ZeroVersion, VersionFromBytes(file.data)}

\* The document is still the one whose version the client carries.
Expects(c) ==
  IF file.data = Absent THEN held[c].version = ZeroVersion
                        ELSE held[c].version = VersionFromBytes(file.data)

\* Nobody else is between reading the document and renaming over it.
Alone(c) == \A d \in Clients \ {c} : save[d].pc \in {"idle", "compare", "return"}

\* The switch on os.ReadFile.
Compare(c) == Expects(c) /\ (SerialSaves => Alone(c)) /\ Goes(c, "compare", "mkdir", NoFile)

\* ErrConflict.
Conflict(c) ==
  /\ save[c].pc = "compare" /\ ~Expects(c)
  /\ save' = [save EXCEPT ![c] = NotSaving]
  /\ UNCHANGED <<file, durable, held, losses>>

MkdirAll(c)   == Goes(c, "mkdir", "createTemp", NoFile)
CreateTemp(c) == Goes(c, "createTemp", "write", [data |-> Torn, synced |-> FALSE])
WriteTemp(c)  == Goes(c, "write", "sync", [data |-> save[c].data, synced |-> FALSE])

\* Mutant: the temporary file is not synced.
SyncTempSkipped(c) == Goes(c, "sync", "close", save[c].temp)

SyncTemp(c)   == Goes(c, "sync", "close", [data |-> save[c].temp.data, synced |-> TRUE])
CloseTemp(c)  == Goes(c, "close", "rename", save[c].temp)

\* The temporary file becomes the document.
Rename(c) ==
  /\ save[c].pc = "rename"
  /\ file' = save[c].temp
  /\ save' = [save EXCEPT ![c] = [pc |-> "return", data |-> @.data, temp |-> NoFile]]
  /\ UNCHANGED <<durable, held, losses>>

Return(c) ==
  /\ save[c].pc = "return"
  /\ held' = [held EXCEPT ![c] = [content |-> save[c].data,
                                  version |-> VersionFromBytes(save[c].data)]]
  /\ save' = [save EXCEPT ![c] = NotSaving]
  /\ UNCHANGED <<file, durable, losses>>

\* A system call fails: the temporary file is removed and the error returned.
SaveFails(c) ==
  /\ save[c].pc \notin {"idle", "return"}
  /\ save' = [save EXCEPT ![c] = NotSaving]
  /\ UNCHANGED <<file, durable, held, losses>>

-----------------------------------------------------------------------------
\* The process dies; a temporary file it leaves has a name nobody reads.
Crash(c) ==
  /\ held' = [held EXCEPT ![c] = Unloaded]
  /\ save' = [save EXCEPT ![c] = NotSaving]
  /\ UNCHANGED <<file, durable, losses>>

\* What the disk holds of a file.
OnDisk(f) == IF f.synced THEN f.data ELSE Torn

\* The kernel writes the directory entry back some time after the rename.
Writeback ==
  /\ losses < PowerLosses /\ durable # OnDisk(file)
  /\ durable' = OnDisk(file)
  /\ UNCHANGED <<file, held, save, losses>>

PowerLoss ==
  /\ losses < PowerLosses
  /\ losses' = losses + 1
  /\ file' = [data |-> durable, synced |-> TRUE]
  /\ held' = [c \in Clients |-> Unloaded]
  /\ save' = [c \in Clients |-> NotSaving]
  /\ UNCHANGED durable

Step(c) ==
  \/ LoadFound(c) \/ LoadFallback(c) \/ Save(c) \/ Compare(c) \/ Conflict(c) \/ MkdirAll(c)
  \/ CreateTemp(c) \/ WriteTemp(c) \/ SyncTemp(c) \/ CloseTemp(c) \/ Rename(c) \/ Return(c) \/ SaveFails(c)
  \/ Crash(c)

Next == Writeback \/ PowerLoss \/ \E c \in Clients : Step(c)

Spec == Init /\ [][Next]_vars

-----------------------------------------------------------------------------
(* The shape of the file, of what the clients hold and of their saves.     *)
TypeOK ==
  /\ file \in [data : Contents \cup {Absent, Torn}, synced : BOOLEAN]
  /\ durable \in Contents \cup {Absent, Torn}
  /\ held \in [Clients -> [content : ValidContents, version : Contents \cup {ZeroVersion}]
                          \cup {Unloaded}]
  /\ save \in [Clients -> [pc : Pcs, data : ValidContents, temp : Temp]]
  /\ losses \in 0 .. PowerLosses

(* Whatever fails, dies or loses power, the document and what is left of   *)
(* it on disk are complete: never a truncated file                         *)
(* (.plans/03-domain-models-and-storage.md:33,                             *)
(* .plans/leetdaily-design.md:464).                                        *)
CompleteDocument == file.data # Torn /\ durable # Torn

-----------------------------------------------------------------------------
(* The refinement: the hash is the version, the rename the effect.         *)

docBar ==
  [content |-> file.data,
   version |-> IF file.data = Absent THEN ZeroVersion ELSE VersionFromBytes(file.data)]

callOf(s) ==
  [pc      |-> CASE s.pc = "idle" -> "idle" [] s.pc = "return" -> "applied" [] OTHER -> "saving",
   content |-> s.data,
   version |-> IF s.pc = "return" THEN VersionFromBytes(s.data) ELSE ZeroVersion]

callBar == [c \in Clients |-> callOf(save[c])]

Store == INSTANCE VersionedStore WITH doc <- docBar, call <- callBar, Versions <- Contents

(* While saves do not overlap the backend is a versioned store, although a *)
(* hash may come back: the same hash is the same content.                  *)
ImplementsVersionedStore == Store!Spec
=============================================================================
