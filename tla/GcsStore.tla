------------------------------ MODULE GcsStore ------------------------------
(***************************************************************************)
(* The Cloud Storage backend (internal/storage/gcs) for one of its         *)
(* objects.  A version token is an object generation; a save becomes an    *)
(* upload with a condition that Cloud Storage checks when it finalizes it. *)
(***************************************************************************)
EXTENDS Integers

CONSTANTS Clients, Contents, ValidContents, Fallback, Absent,  \* see VersionedStore
          ZeroVersion,
          MaxGap,         \* bound: generations grow by at most this much
          MaxGeneration   \* bound on the generation of the object

ASSUME GcsAssumption ==
  /\ ValidContents \subseteq Contents
  /\ Fallback \in ValidContents
  /\ Absent \notin Contents
  /\ ZeroVersion \notin Nat
  /\ MaxGap \in Nat \ {0}
  /\ MaxGeneration \in Nat

VARIABLES object,  \* the object: its data and its generation, 0 if it does not exist
          held,    \* data and version each client last saw
          upload   \* the write each client has under way

vars == <<object, held, upload>>

NoObject == [data |-> Absent, generation |-> 0]

Tokens == Nat \ {0}

Unloaded == [content |-> Absent, version |-> ZeroVersion]

WriteObjectOptions == [DoesNotExist : BOOLEAN, MatchGeneration : Nat]

\* Only a generation from 1 on is a version.
versionFromGeneration(generation) == IF generation < 1 THEN ZeroVersion ELSE generation

\* Mutant: the zero version asks for no condition at all.
writeOptionsUnconditional(version) ==
  IF version = ZeroVersion THEN [DoesNotExist |-> FALSE, MatchGeneration |-> 0]
                           ELSE [DoesNotExist |-> FALSE, MatchGeneration |-> version]

writeOptionsFromVersion(version) ==
  IF version = ZeroVersion THEN [DoesNotExist |-> TRUE, MatchGeneration |-> 0]
                           ELSE [DoesNotExist |-> FALSE, MatchGeneration |-> version]

\* The condition set on the object handle, as Cloud Storage evaluates it.
ConditionsHold(opts) ==
  IF opts.DoesNotExist THEN object.generation = 0
                       ELSE opts.MatchGeneration > 0 => object.generation = opts.MatchGeneration

NoUpload == [pc |-> "idle", data |-> Fallback, generation |-> 0,
             opts |-> writeOptionsFromVersion(ZeroVersion)]

Init ==
  /\ object \in {NoObject} \cup [data : Contents, generation : {1}]
  /\ held = [c \in Clients |-> Unloaded]
  /\ upload = [c \in Clients |-> NoUpload]

-----------------------------------------------------------------------------
\* The object and its version.
readObject == [content |-> object.data, version |-> versionFromGeneration(object.generation)]

\* Mutant: what was read is not validated.
LoadFoundUnvalidated(c) ==
  /\ upload[c].pc = "idle"
  /\ object.generation # 0
  /\ held' = [held EXCEPT ![c] = readObject]
  /\ UNCHANGED <<object, upload>>

\* Validate accepts what was read; any error leaves the client as it was.
LoadFound(c) ==
  /\ upload[c].pc = "idle"
  /\ object.generation # 0 /\ object.data \in ValidContents
  /\ held' = [held EXCEPT ![c] = readObject]
  /\ UNCHANGED <<object, upload>>

\* ErrNotFound: the guild settings fall back on the config object, the job on an
\* empty state or cache, under the zero version.
LoadFallback(c) ==
  /\ upload[c].pc = "idle"
  /\ object.generation = 0
  /\ held' = [held EXCEPT ![c] = [content |-> Fallback, version |-> ZeroVersion]]
  /\ UNCHANGED <<object, upload>>

\* SaveState and its siblings: Validate, EncodeJSON, and the upload begins.
writeObject(c) ==
  /\ upload[c].pc = "idle" /\ held[c] # Unloaded
  /\ \E data \in ValidContents :
       upload' = [upload EXCEPT ![c] = [pc |-> "uploading", data |-> data, generation |-> 0,
                                        opts |-> writeOptionsFromVersion(held[c].version)]]
  /\ UNCHANGED <<object, held>>

NewGeneration(data) ==
  \E gap \in 1 .. MaxGap :
    /\ object.generation + gap <= MaxGeneration
    /\ object' = [data |-> data, generation |-> object.generation + gap]

\* Cloud Storage finalizes the upload.
Finalize(c) ==
  /\ upload[c].pc = "uploading"
  /\ ConditionsHold(upload[c].opts)
  /\ NewGeneration(upload[c].data)
  /\ upload' = [upload EXCEPT ![c].pc = "stored", ![c].generation = object'.generation]
  /\ UNCHANGED held

\* Mutant: a failed precondition is taken for success.
PreconditionIgnored(c) ==
  /\ upload[c].pc = "uploading"
  /\ ~ConditionsHold(upload[c].opts)
  /\ upload' = [upload EXCEPT ![c] = NoUpload]
  /\ held' = [held EXCEPT ![c] = [content |-> upload[c].data,
                                  version |-> versionFromGeneration(object.generation)]]
  /\ UNCHANGED object

\* 412, which normalizeError turns into ErrConflict.
PreconditionFailed(c) ==
  /\ upload[c].pc = "uploading"
  /\ ~ConditionsHold(upload[c].opts)
  /\ upload' = [upload EXCEPT ![c] = NoUpload]
  /\ UNCHANGED <<object, held>>

\* The upload breaks off; or the answer is lost, or comes without attributes.
WriteFails(c) ==
  /\ upload[c].pc \in {"uploading", "stored"}
  /\ upload' = [upload EXCEPT ![c] = NoUpload]
  /\ UNCHANGED <<object, held>>

\* Close returns and the generation in the answer is the client's new version.
WriteReturns(c) ==
  /\ upload[c].pc = "stored"
  /\ held' = [held EXCEPT ![c] = [content |-> upload[c].data,
                                  version |-> versionFromGeneration(upload[c].generation)]]
  /\ upload' = [upload EXCEPT ![c] = NoUpload]
  /\ UNCHANGED object

Crash(c) ==
  /\ held' = [held EXCEPT ![c] = Unloaded]
  /\ upload' = [upload EXCEPT ![c] = NoUpload]
  /\ UNCHANGED object

\* The operator uploads an edited object without a condition.
OperatorEdits ==
  /\ \E data \in Contents : NewGeneration(data)
  /\ UNCHANGED <<held, upload>>

Step(c) ==
  \/ LoadFound(c) \/ LoadFallback(c) \/ writeObject(c) \/ Finalize(c) \/ PreconditionFailed(c)
  \/ WriteFails(c) \/ WriteReturns(c) \/ Crash(c)

Next == OperatorEdits \/ \E c \in Clients : Step(c)

Spec == Init /\ [][Next]_vars

-----------------------------------------------------------------------------
(* The shape of the object, of what the clients hold and of their uploads. *)
TypeOK ==
  /\ object \in {NoObject} \cup [data : Contents, generation : Tokens]
  /\ held \in [Clients -> [content : ValidContents, version : Tokens \cup {ZeroVersion}]
                          \cup {Unloaded}]
  /\ upload \in [Clients -> [pc : {"idle", "uploading", "stored"}, data : ValidContents,
                             generation : Nat, opts : WriteObjectOptions]]

-----------------------------------------------------------------------------
(* The refinement: an object is the document, its generation the version.  *)

docBar == readObject

callOf(u) ==
  [pc      |-> CASE u.pc = "idle" -> "idle" [] u.pc = "uploading" -> "saving" [] OTHER -> "applied",
   content |-> u.data,
   version |-> versionFromGeneration(u.generation)]

callBar == [c \in Clients |-> callOf(upload[c])]

Store == INSTANCE VersionedStore WITH doc <- docBar, call <- callBar, Versions <- Tokens

(* The Cloud Storage backend is a versioned store: its saves take effect   *)
(* in one instant and only on the version the client last saw.             *)
ImplementsVersionedStore == Store!Spec

(* No save takes effect on a document its client has not seen.             *)
SavesBuildOnCurrent == Store!SavesBuildOnCurrent
=============================================================================
