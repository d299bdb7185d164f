--------------------------- MODULE GcsStoreProofs ---------------------------
(***************************************************************************)
(* Proofs that the Cloud Storage backend is a versioned store, for any     *)
(* number of clients, any contents and any generations.                    *)
(***************************************************************************)
EXTENDS GcsStore, TLAPS

(* What a client holds was once the object: its token is not ahead of the  *)
(* object's generation, and equal tokens mean equal data.  The same holds  *)
(* of a write that is stored and not yet answered.                         *)
HeldWasStored ==
  \A c \in Clients :
    held[c] # Unloaded =>
      /\ held[c].version = ZeroVersion => held[c].content = Fallback
      /\ held[c].version # ZeroVersion =>
           /\ held[c].version <= object.generation
           /\ held[c].version = object.generation => held[c].content = object.data

UploadWasStored ==
  \A c \in Clients :
    upload[c].pc = "stored" =>
      /\ 1 <= upload[c].generation /\ upload[c].generation <= object.generation
      /\ upload[c].generation = object.generation => upload[c].data = object.data

(* The condition of an upload is the one for the version the client holds. *)
UploadMatchesHeld ==
  \A c \in Clients :
    /\ upload[c].pc = "idle" => upload[c] = NoUpload
    /\ upload[c].pc = "uploading" =>
         /\ held[c] # Unloaded
         /\ upload[c].generation = 0
         /\ upload[c].opts = writeOptionsFromVersion(held[c].version)

StoreInv == TypeOK /\ HeldWasStored /\ UploadWasStored /\ UploadMatchesHeld

USE GcsAssumption

-----------------------------------------------------------------------------
LEMMA InitInv == Init => StoreInv
  BY DEF Init, StoreInv, TypeOK, HeldWasStored, UploadWasStored, UploadMatchesHeld, NoUpload,
         NoObject, Tokens, Unloaded, WriteObjectOptions, writeOptionsFromVersion

LEMMA NoUploadType ==
  /\ NoUpload \in [pc : {"idle", "uploading", "stored"}, data : ValidContents,
                   generation : Nat, opts : WriteObjectOptions]
  /\ NoUpload.pc = "idle"
  BY DEF NoUpload, writeOptionsFromVersion, WriteObjectOptions

(* A new generation is ahead of every token handed out so far.             *)
LEMMA NewGenerationFacts ==
  ASSUME TypeOK, NEW data \in Contents, NewGeneration(data)
  PROVE  /\ object' = [data |-> data, generation |-> object'.generation]
         /\ object'.generation \in Nat \ {0}
         /\ object.generation < object'.generation
  BY DEF TypeOK, NewGeneration, NoObject, Tokens

LEMMA StepInv ==
  ASSUME StoreInv, [Next]_vars
  PROVE  StoreInv'
<1> USE DEF StoreInv, TypeOK, NoObject, Tokens, Unloaded
<1>1. CASE OperatorEdits
  <2>1. PICK data \in Contents : NewGeneration(data)
    BY <1>1 DEF OperatorEdits
  <2>2. /\ object' = [data |-> data, generation |-> object'.generation]
        /\ object'.generation \in Nat \ {0}
        /\ object.generation < object'.generation
    BY <2>1, NewGenerationFacts
  <2>3. TypeOK'
    BY <1>1, <2>2 DEF OperatorEdits
  <2>4. HeldWasStored'
    BY <1>1, <2>2 DEF OperatorEdits, HeldWasStored
  <2>5. UploadWasStored'
    BY <1>1, <2>2 DEF OperatorEdits, UploadWasStored
  <2>6. UploadMatchesHeld'
    BY <1>1 DEF OperatorEdits, UploadMatchesHeld
  <2> QED BY <2>3, <2>4, <2>5, <2>6
<1>2. ASSUME NEW c \in Clients, LoadFound(c) PROVE StoreInv'
  BY <1>2 DEF LoadFound, readObject, versionFromGeneration, HeldWasStored, UploadWasStored,
              UploadMatchesHeld
<1>3. ASSUME NEW c \in Clients, LoadFallback(c) PROVE StoreInv'
  BY <1>3 DEF LoadFallback, HeldWasStored, UploadWasStored, UploadMatchesHeld
<1>4. ASSUME NEW c \in Clients, writeObject(c) PROVE StoreInv'
  <2> DEFINE Opts == writeOptionsFromVersion(held[c].version)
  <2>1. PICK data \in ValidContents :
          upload' = [upload EXCEPT ![c] = [pc |-> "uploading", data |-> data, generation |-> 0,
                                           opts |-> Opts]]
    BY <1>4 DEF writeObject
  <2>2. held[c] # Unloaded /\ UNCHANGED <<object, held>>
    BY <1>4 DEF writeObject
  <2>3. Opts \in WriteObjectOptions
    BY <2>2 DEF writeOptionsFromVersion, WriteObjectOptions
  <2> HIDE DEF Opts
  <2>4. TypeOK'
    BY <2>1, <2>2, <2>3
  <2>5. HeldWasStored' /\ UploadWasStored'
    BY <2>1, <2>2 DEF HeldWasStored, UploadWasStored
  <2>6. UploadMatchesHeld'
    BY <2>1, <2>2 DEF UploadMatchesHeld, Opts
  <2> QED BY <2>4, <2>5, <2>6
<1>5. ASSUME NEW c \in Clients, Finalize(c) PROVE StoreInv'
  <2>1. NewGeneration(upload[c].data) /\ upload[c].data \in Contents
    BY <1>5 DEF Finalize
  <2>2. /\ object' = [data |-> upload[c].data, generation |-> object'.generation]
        /\ object'.generation \in Nat \ {0}
        /\ object.generation < object'.generation
    BY <2>1, NewGenerationFacts
  <2>3. upload' = [upload EXCEPT ![c].pc = "stored", ![c].generation = object'.generation]
        /\ held' = held
    BY <1>5 DEF Finalize
  <2>4. TypeOK'
    <3>1. object' \in [data : Contents, generation : Tokens]
      BY <2>1, <2>2
    <3>2. upload' \in [Clients -> [pc : {"idle", "uploading", "stored"}, data : ValidContents,
                                  generation : Nat, opts : WriteObjectOptions]]
      BY <2>2, <2>3
    <3> QED BY <2>3, <3>1, <3>2
  <2>5. HeldWasStored'
    BY <2>2, <2>3 DEF HeldWasStored
  <2>6. UploadWasStored'
    <3> SUFFICES ASSUME NEW d \in Clients, upload'[d].pc = "stored"
                 PROVE  /\ 1 <= upload'[d].generation
                        /\ upload'[d].generation <= object'.generation
                        /\ upload'[d].generation = object'.generation
                             => upload'[d].data = object'.data
      BY DEF UploadWasStored
    <3>1. CASE d = c
      BY <2>2, <2>3, <3>1
    <3>2. CASE d # c
      BY <2>2, <2>3, <3>2 DEF UploadWasStored
    <3> QED BY <3>1, <3>2
  <2>7. UploadMatchesHeld'
    BY <2>2, <2>3 DEF UploadMatchesHeld
  <2> QED BY <2>4, <2>5, <2>6, <2>7
<1>6. ASSUME NEW c \in Clients, PreconditionFailed(c) \/ WriteFails(c) PROVE StoreInv'
  <2>1. upload' = [upload EXCEPT ![c] = NoUpload] /\ UNCHANGED <<object, held>>
    BY <1>6 DEF PreconditionFailed, WriteFails
  <2> QED BY <2>1, NoUploadType DEF HeldWasStored, UploadWasStored, UploadMatchesHeld
<1>7. ASSUME NEW c \in Clients, WriteReturns(c) PROVE StoreInv'
  BY <1>7, NoUploadType DEF WriteReturns, HeldWasStored, UploadWasStored, UploadMatchesHeld,
                            versionFromGeneration
<1>8. ASSUME NEW c \in Clients, Crash(c) PROVE StoreInv'
  BY <1>8, NoUploadType DEF Crash, HeldWasStored, UploadWasStored, UploadMatchesHeld
<1>9. CASE UNCHANGED vars
  BY <1>9 DEF vars, HeldWasStored, UploadWasStored, UploadMatchesHeld
<1> QED
  BY <1>1, <1>2, <1>3, <1>4, <1>5, <1>6, <1>7, <1>8, <1>9 DEF Next, Step

(* Every reachable state satisfies the inductive invariant.                *)
THEOREM Invariance == Spec => []StoreInv
<1>1. Init => StoreInv
  BY InitInv
<1>2. StoreInv /\ [Next]_vars => StoreInv'
  BY StepInv
<1> QED BY <1>1, <1>2, PTL DEF Spec

(* No client comes to work on content its Validate refuses, and the        *)
(* object, the copies and the uploads keep their types.                    *)
THEOREM TypeCorrect == Spec => []TypeOK
<1>1. StoreInv => TypeOK
  BY DEF StoreInv
<1> QED BY <1>1, Invariance, PTL

-----------------------------------------------------------------------------
(* The refinement: each step of the backend is a step of VersionedStore.   *)

LEMMA CallBarUpdate ==
  ASSUME TypeOK, NEW c \in Clients, NEW u, upload' = [upload EXCEPT ![c] = u]
  PROVE  callBar' = [callBar EXCEPT ![c] = callOf(u)]
<1>1. /\ upload'[c] = u
      /\ \A d \in Clients : d # c => upload'[d] = upload[d]
  BY DEF TypeOK
<1>2. callBar' = [d \in Clients |-> callOf(upload'[d])]
  BY DEF callBar, callOf
<1> DEFINE new == [callBar EXCEPT ![c] = callOf(u)]
<1>3. ASSUME NEW d \in Clients PROVE callOf(upload'[d]) = new[d]
  <2>1. CASE d = c
    BY <1>1, <2>1 DEF callBar
  <2>2. CASE d # c
    BY <1>1, <2>2 DEF callBar
  <2> QED BY <2>1, <2>2
<1>4. new = [d \in Clients |-> new[d]]
  BY DEF callBar
<1> HIDE DEF new
<1>5. callBar' = new
  BY <1>2, <1>3, <1>4
<1> QED BY <1>5 DEF new

LEMMA NoUploadIsIdle == callOf(NoUpload) = Store!Idle
  BY DEF callOf, NoUpload, Store!Idle, versionFromGeneration

LEMMA InitRefines == Init => Store!Init
<1> SUFFICES ASSUME Init PROVE Store!Init
  OBVIOUS
<1> USE DEF Init
<1>1. docBar \in Store!Documents
  BY DEF docBar, readObject, versionFromGeneration, Store!Documents, Store!Missing, NoObject,
         Tokens
<1>2. held = [c \in Clients |-> Store!Unloaded]
  BY DEF Store!Unloaded, Store!Missing, Unloaded
<1>3. callBar = [c \in Clients |-> Store!Idle]
  BY NoUploadIsIdle DEF callBar
<1> QED BY <1>1, <1>2, <1>3 DEF Store!Init

(* A fresh generation is a version that names only the new content.        *)
LEMMA FreshVersion ==
  ASSUME StoreInv, NEW data \in Contents, NewGeneration(data)
  PROVE  /\ docBar' \in [content : {data}, version : Tokens]
         /\ Store!Names(docBar'.version, data)
<1>1. /\ object' = [data |-> data, generation |-> object'.generation]
      /\ object'.generation \in Nat \ {0}
      /\ object.generation < object'.generation
  BY NewGenerationFacts DEF StoreInv
<1>2. docBar' = [content |-> data, version |-> object'.generation]
  BY <1>1 DEF docBar, readObject, versionFromGeneration
<1>3. ASSUME NEW c \in Clients PROVE held[c].version # object'.generation
  BY <1>1 DEF StoreInv, TypeOK, HeldWasStored, Unloaded, Tokens, NoObject
<1>4. ASSUME NEW c \in Clients, callBar[c].pc = "applied"
      PROVE  callBar[c].version # object'.generation
  <2>1. upload[c].pc = "stored"
    BY <1>4 DEF callBar, callOf, StoreInv, TypeOK
  <2>2. callBar[c].version = upload[c].generation
    BY <2>1 DEF callBar, callOf, versionFromGeneration, StoreInv, UploadWasStored, TypeOK
  <2> QED BY <1>1, <2>1, <2>2 DEF StoreInv, UploadWasStored, TypeOK, NoObject, Tokens
<1>5. docBar.version # object'.generation
  BY <1>1 DEF docBar, readObject, versionFromGeneration, StoreInv, TypeOK, NoObject, Tokens
<1> QED BY <1>1, <1>2, <1>3, <1>4, <1>5 DEF Store!Names, Tokens

(* What the client holds is the object exactly when the condition of its   *)
(* upload holds.                                                           *)
LEMMA ConditionMeansCurrent ==
  ASSUME StoreInv, NEW c \in Clients, upload[c].pc = "uploading"
  PROVE  ConditionsHold(upload[c].opts) <=> held[c].version = docBar.version
<1>1. upload[c].opts = writeOptionsFromVersion(held[c].version) /\ held[c] # Unloaded
  BY DEF StoreInv, UploadMatchesHeld
<1>2. object.generation \in Nat /\ held[c].version \in Tokens \cup {ZeroVersion}
  BY <1>1 DEF StoreInv, TypeOK, NoObject, Tokens
<1>3. docBar.version = IF object.generation < 1 THEN ZeroVersion ELSE object.generation
  BY DEF docBar, readObject, versionFromGeneration
<1>4. CASE held[c].version = ZeroVersion
  BY <1>1, <1>2, <1>3, <1>4 DEF ConditionsHold, writeOptionsFromVersion
<1>5. CASE held[c].version # ZeroVersion
  BY <1>1, <1>2, <1>3, <1>5 DEF ConditionsHold, writeOptionsFromVersion, Tokens
<1> QED BY <1>4, <1>5

LEMMA CurrentMeansSame ==
  ASSUME StoreInv, NEW c \in Clients, held[c] # Unloaded, held[c].version = docBar.version
  PROVE  held[c] = Store!Loaded(docBar)
<1> USE DEF StoreInv, TypeOK, HeldWasStored, docBar, readObject, versionFromGeneration,
            Store!Loaded, Store!Missing, NoObject, Tokens, Unloaded
<1>1. CASE object.generation = 0
  BY <1>1
<1>2. CASE object.generation # 0
  BY <1>2
<1> QED BY <1>1, <1>2

LEMMA StepRefines ==
  ASSUME StoreInv, StoreInv', [Next]_vars
  PROVE  [Store!Next]_(Store!vars)
<1> USE DEF StoreInv, TypeOK
<1>1. CASE OperatorEdits
  <2>1. PICK data \in Contents : NewGeneration(data)
    BY <1>1 DEF OperatorEdits
  <2>2. /\ docBar' \in [content : {data}, version : Tokens]
        /\ Store!Names(docBar'.version, data)
    BY <2>1, FreshVersion
  <2>3. UNCHANGED <<held, callBar>>
    BY <1>1 DEF OperatorEdits, callBar
  <2>4. Store!Overwrite
    BY <2>2, <2>3 DEF Store!Overwrite
  <2> QED BY <2>4 DEF Store!Next
<1>2. ASSUME NEW c \in Clients, LoadFound(c) PROVE Store!Load(c)
  <2>1. callBar[c].pc = "idle" /\ UNCHANGED <<docBar, callBar>>
    BY <1>2 DEF LoadFound, callBar, callOf, docBar, readObject
  <2>2. docBar.content \in ValidContents /\ docBar # Store!Missing
    BY <1>2 DEF LoadFound, docBar, readObject, Store!Missing
  <2>3. held' = [held EXCEPT ![c] = Store!Loaded(docBar)]
    BY <1>2, <2>2 DEF LoadFound, docBar, readObject, Store!Loaded
  <2> QED BY <2>1, <2>2, <2>3 DEF Store!Load
<1>3. ASSUME NEW c \in Clients, LoadFallback(c) PROVE Store!Load(c)
  <2>1. callBar[c].pc = "idle" /\ UNCHANGED <<docBar, callBar>>
    BY <1>3 DEF LoadFallback, callBar, callOf, docBar, readObject
  <2>2. docBar = Store!Missing
    BY <1>3 DEF LoadFallback, docBar, readObject, Store!Missing, versionFromGeneration, NoObject,
                Tokens
  <2>3. held' = [held EXCEPT ![c] = Store!Loaded(docBar)]
    BY <1>3, <2>2 DEF LoadFallback, Store!Loaded, Store!Missing
  <2> QED BY <2>1, <2>2, <2>3 DEF Store!Load, Store!Missing
<1>4. ASSUME NEW c \in Clients, writeObject(c) PROVE Store!Save(c)
  <2>1. callBar[c].pc = "idle" /\ held[c] # Store!Unloaded /\ UNCHANGED <<docBar, held>>
    BY <1>4 DEF writeObject, callBar, callOf, docBar, readObject, Store!Unloaded, Store!Missing, Unloaded
  <2>2. PICK data \in ValidContents :
          upload' = [upload EXCEPT ![c] = [pc |-> "uploading", data |-> data, generation |-> 0,
                                           opts |-> writeOptionsFromVersion(held[c].version)]]
    BY <1>4 DEF writeObject
  <2>3. callBar' = [callBar EXCEPT ![c] = [pc |-> "saving", content |-> data,
                                          version |-> ZeroVersion]]
    <3> DEFINE new == [pc |-> "uploading", data |-> data, generation |-> 0,
                       opts |-> writeOptionsFromVersion(held[c].version)]
    <3>1. callBar' = [callBar EXCEPT ![c] = callOf(new)]
      BY <2>2, CallBarUpdate
    <3>2. callOf(new) = [pc |-> "saving", content |-> data, version |-> ZeroVersion]
      <4>1. new.pc = "uploading" /\ new.data = data /\ new.generation = 0
        OBVIOUS
      <4> HIDE DEF new
      <4> QED BY <4>1 DEF callOf, versionFromGeneration
    <3> QED BY <3>1, <3>2
  <2> QED BY <2>1, <2>3 DEF Store!Save
<1>5. ASSUME NEW c \in Clients, Finalize(c) PROVE Store!Apply(c)
  <2>1. callBar[c].pc = "saving" /\ callBar[c].content = upload[c].data /\ UNCHANGED held
    BY <1>5 DEF Finalize, callBar, callOf
  <2>2. held[c].version = docBar.version
    BY <1>5, ConditionMeansCurrent DEF Finalize
  <2>3. NewGeneration(upload[c].data) /\ upload[c].data \in Contents
    BY <1>5 DEF Finalize
  <2>4. /\ docBar' \in [content : {upload[c].data}, version : Tokens]
        /\ Store!Names(docBar'.version, upload[c].data)
    BY <2>3, FreshVersion
  <2>5. upload' = [upload EXCEPT ![c].pc = "stored", ![c].generation = object'.generation]
    BY <1>5 DEF Finalize
  <2>6. docBar'.version = versionFromGeneration(object'.generation)
    BY DEF docBar, readObject
  <2>7. callBar' = [callBar EXCEPT ![c] = [pc |-> "applied", content |-> @.content,
                                          version |-> docBar'.version]]
    <3> DEFINE new == [upload[c] EXCEPT !.pc = "stored", !.generation = object'.generation]
    <3>1. callBar' = [callBar EXCEPT ![c] = callOf(new)]
      BY <2>5, CallBarUpdate
    <3>2. callOf(new) = [pc |-> "applied", content |-> upload[c].data, version |-> docBar'.version]
      <4>1. new.pc = "stored" /\ new.data = upload[c].data /\ new.generation = object'.generation
        OBVIOUS
      <4> HIDE DEF new
      <4> QED BY <2>6, <4>1 DEF callOf
    <3> HIDE DEF new
    <3> QED BY <2>1, <3>1, <3>2 DEF callBar
  <2> QED BY <2>1, <2>2, <2>4, <2>7 DEF Store!Apply
<1>6. ASSUME NEW c \in Clients, PreconditionFailed(c) PROVE Store!Refuse(c)
  <2>1. callBar[c].pc = "saving" /\ UNCHANGED <<docBar, held>>
    BY <1>6 DEF PreconditionFailed, callBar, callOf, docBar, readObject
  <2>2. held[c].version # docBar.version
    BY <1>6, ConditionMeansCurrent DEF PreconditionFailed
  <2>3. callBar' = [callBar EXCEPT ![c] = Store!Idle]
    BY <1>6, CallBarUpdate, NoUploadIsIdle DEF PreconditionFailed
  <2> QED BY <2>1, <2>2, <2>3 DEF Store!Refuse
<1>7. ASSUME NEW c \in Clients, WriteFails(c) PROVE Store!Fail(c)
  <2>1. callBar[c].pc \in {"saving", "applied"} /\ UNCHANGED <<docBar, held>>
    BY <1>7 DEF WriteFails, callBar, callOf, docBar, readObject
  <2>2. callBar' = [callBar EXCEPT ![c] = Store!Idle]
    BY <1>7, CallBarUpdate, NoUploadIsIdle DEF WriteFails
  <2> QED BY <2>1, <2>2 DEF Store!Fail
<1>8. ASSUME NEW c \in Clients, WriteReturns(c) PROVE Store!Acknowledge(c)
  <2>1. /\ callBar[c].pc = "applied" /\ callBar[c].content = upload[c].data
        /\ callBar[c].version = versionFromGeneration(upload[c].generation)
        /\ UNCHANGED docBar
    BY <1>8 DEF WriteReturns, callBar, callOf, docBar, readObject
  <2>2. callBar' = [callBar EXCEPT ![c] = Store!Idle]
    BY <1>8, CallBarUpdate, NoUploadIsIdle DEF WriteReturns
  <2>3. held' = [held EXCEPT ![c] = [content |-> callBar[c].content,
                                     version |-> callBar[c].version]]
    BY <1>8, <2>1 DEF WriteReturns
  <2> QED BY <2>1, <2>2, <2>3 DEF Store!Acknowledge
<1>9. ASSUME NEW c \in Clients, Crash(c) PROVE Store!Crash(c)
  <2>1. callBar' = [callBar EXCEPT ![c] = Store!Idle]
    BY <1>9, CallBarUpdate, NoUploadIsIdle DEF Crash
  <2> QED BY <1>9, <2>1 DEF Crash, docBar, readObject, Store!Crash, Store!Unloaded, Store!Missing,
                            Unloaded
<1>10. CASE UNCHANGED vars
  BY <1>10 DEF vars, docBar, readObject, callBar, Store!vars
<1> QED
  BY <1>1, <1>2, <1>3, <1>4, <1>5, <1>6, <1>7, <1>8, <1>9, <1>10
     DEF Next, Step, Store!Next, Store!Step

(* The Cloud Storage backend implements the versioned store: whatever      *)
(* fails, dies or is edited by hand, a save takes effect in one instant,   *)
(* or not at all, and only on the version its client last saw.             *)
THEOREM Refinement == Spec => ImplementsVersionedStore
<1>1. Init => Store!Init
  BY InitRefines
<1>2. StoreInv /\ StoreInv' /\ [Next]_vars => [Store!Next]_(Store!vars)
  BY StepRefines
<1> QED BY <1>1, <1>2, Invariance, PTL DEF Spec, ImplementsVersionedStore, Store!Spec

-----------------------------------------------------------------------------
LEMMA OnlyFinalizeStores ==
  ASSUME StoreInv, [Next]_vars, NEW c \in Clients, upload[c].pc = "uploading",
         upload'[c].pc \notin {"idle", "uploading"}
  PROVE  Finalize(c)
<1> USE DEF StoreInv, TypeOK
<1>1. upload'[c] # upload[c] /\ upload'[c] # NoUpload
  BY NoUploadType
<1>2. ~OperatorEdits /\ ~(UNCHANGED vars)
  BY <1>1 DEF OperatorEdits, vars
<1>3. PICK d \in Clients : Step(d)
  BY <1>2 DEF Next
<1>4. ~LoadFound(d) /\ ~LoadFallback(d)
  BY <1>1 DEF LoadFound, LoadFallback
<1>5. ~writeObject(d)
  <2>1. CASE d = c
    BY <2>1 DEF writeObject
  <2>2. CASE d # c
    BY <1>1, <2>2 DEF writeObject
  <2> QED BY <2>1, <2>2
<1>6. ~PreconditionFailed(d) /\ ~WriteFails(d)
  BY <1>1 DEF PreconditionFailed, WriteFails
<1>7. ~WriteReturns(d) /\ ~Crash(d)
  BY <1>1 DEF WriteReturns, Crash
<1>8. Finalize(d) => d = c
  BY <1>1 DEF Finalize
<1> QED BY <1>3, <1>4, <1>5, <1>6, <1>7, <1>8 DEF Step

(* A save that takes effect replaces exactly what its client last saw.     *)
THEOREM NoLostUpdate == Spec => SavesBuildOnCurrent
<1> DEFINE Builds ==
      \A c \in Clients :
        callBar[c].pc = "saving" /\ callBar'[c].pc = "applied" => held[c] = Store!Loaded(docBar)
<1>1. StoreInv /\ [Next]_vars => Builds
  <2> SUFFICES ASSUME StoreInv, [Next]_vars, NEW c \in Clients,
                      callBar[c].pc = "saving", callBar'[c].pc = "applied"
               PROVE  held[c] = Store!Loaded(docBar)
    OBVIOUS
  <2>1. upload[c].pc = "uploading" /\ upload'[c].pc \notin {"idle", "uploading"}
    BY DEF callBar, callOf, StoreInv, TypeOK
  <2>2. Finalize(c)
    BY <2>1, OnlyFinalizeStores
  <2>3. held[c] # Unloaded /\ held[c].version = docBar.version
    BY <2>1, <2>2, ConditionMeansCurrent DEF Finalize, StoreInv, UploadMatchesHeld
  <2> QED BY <2>3, CurrentMeansSame
<1> QED BY <1>1, Invariance, PTL DEF Spec, SavesBuildOnCurrent, Store!SavesBuildOnCurrent
=============================================================================
