--------------------------- MODULE FileStoreProofs ---------------------------
(***************************************************************************)
(* Proofs about the local backend, for any number of clients and power     *)
(* losses: it never leaves a truncated document, whoever saves at once,    *)
(* and while saves do not overlap it is a versioned store.                 *)
(***************************************************************************)
EXTENDS FileStore, TLAPS

(* The data of the document has reached the disk, and so has that of a     *)
(* temporary file about to be closed or renamed; it is all there.          *)
SyncedBeforeRename ==
  /\ file.synced
  /\ \A c \in Clients :
       /\ save[c].pc \in {"sync", "close", "rename"} => save[c].temp.data = save[c].data
       /\ save[c].pc \in {"close", "rename"} => save[c].temp.synced

FileInv == TypeOK /\ CompleteDocument /\ SyncedBeforeRename

Writing == {"mkdir", "createTemp", "write", "sync", "close", "rename"}

(* A version a client holds names the content it holds.  While a save      *)
(* writes, no other one does, and the document is still the one whose      *)
(* version the saving client carries.                                      *)
SerialInv ==
  /\ \A c \in Clients : held[c].version \in Contents => held[c].content = held[c].version
  /\ \A c \in Clients : save[c].pc \in Writing =>
       /\ Expects(c)
       /\ \A d \in Clients \ {c} : save[d].pc \notin Writing

USE FileAssumption

-----------------------------------------------------------------------------
LEMMA NotSavingType ==
  /\ NotSaving \in [pc : Pcs, data : ValidContents, temp : Temp]
  /\ NotSaving.pc = "idle"
  BY DEF NotSaving, Pcs, Temp, NoFile

LEMMA InitInv == Init => FileInv
<1> SUFFICES ASSUME Init PROVE FileInv
  OBVIOUS
<1>1. /\ file \in [data : Contents \cup {Absent}, synced : {TRUE}]
      /\ durable \in Contents \cup {Absent}
  <2>1. CASE file = NoFile
    BY <2>1 DEF Init, NoFile
  <2>2. CASE file \in [data : Contents, synced : {TRUE}]
    BY <2>2 DEF Init
  <2> QED BY <2>1, <2>2 DEF Init
<1>2. TypeOK
  <2>1. file \in [data : Contents \cup {Absent, Torn}, synced : BOOLEAN]
    BY <1>1
  <2>2. save \in [Clients -> [pc : Pcs, data : ValidContents, temp : Temp]]
    BY NotSavingType DEF Init
  <2> QED BY <1>1, <2>1, <2>2 DEF Init, TypeOK
<1>3. CompleteDocument /\ SyncedBeforeRename
  BY <1>1, NotSavingType DEF Init, CompleteDocument, SyncedBeforeRename
<1> QED BY <1>2, <1>3 DEF FileInv

(* A step of c that changes only its own save, to a record s.              *)
LEMMA SaveStep ==
  ASSUME FileInv, NEW c \in Clients,
         NEW s \in [pc : Pcs, data : ValidContents, temp : Temp],
         save' = [save EXCEPT ![c] = s],
         UNCHANGED <<file, durable, held, losses>>,
         s.pc \in {"sync", "close", "rename"} => s.temp.data = s.data,
         s.pc \in {"close", "rename"} => s.temp.synced
  PROVE  FileInv'
<1> USE DEF FileInv, CompleteDocument
<1>1. TypeOK'
  BY DEF TypeOK
<1>2. SyncedBeforeRename'
  BY DEF SyncedBeforeRename, TypeOK
<1> QED BY <1>1, <1>2

(* The system calls before the rename.                                     *)
LEMMA GoesStep ==
  ASSUME FileInv, NEW c \in Clients, NEW at \in Pcs, NEW pc \in Pcs, NEW temp \in Temp,
         Goes(c, at, pc, temp),
         pc \in {"sync", "close", "rename"} => temp.data = save[c].data,
         pc \in {"close", "rename"} => temp.synced
  PROVE  FileInv'
<1> DEFINE s == [pc |-> pc, data |-> save[c].data, temp |-> temp]
<1>1. save' = [save EXCEPT ![c] = s] /\ UNCHANGED <<file, durable, held, losses>>
  BY DEF Goes
<1>2. s \in [pc : Pcs, data : ValidContents, temp : Temp]
  BY DEF FileInv, TypeOK
<1>3. s.pc = pc /\ s.data = save[c].data /\ s.temp = temp
  OBVIOUS
<1> HIDE DEF s
<1> QED BY <1>1, <1>2, <1>3, SaveStep

LEMMA StepInv ==
  ASSUME FileInv, [Next]_vars
  PROVE  FileInv'
<1> USE DEF Pcs
<1>1. ASSUME NEW c \in Clients, LoadFound(c) \/ LoadFallback(c) PROVE FileInv'
  <2>1. held' \in [Clients -> [content : ValidContents, version : Contents \cup {ZeroVersion}]
                              \cup {Unloaded}]
    <3>1. CASE LoadFound(c)
      BY <3>1 DEF LoadFound, readJSONFile, VersionFromBytes, FileInv, TypeOK
    <3>2. CASE LoadFallback(c)
      BY <3>2 DEF LoadFallback, FileInv, TypeOK
    <3> QED BY <1>1, <3>1, <3>2
  <2>2. UNCHANGED <<file, durable, save, losses>>
    BY <1>1 DEF LoadFound, LoadFallback
  <2> QED BY <2>1, <2>2 DEF FileInv, TypeOK, CompleteDocument, SyncedBeforeRename
<1>2. ASSUME NEW c \in Clients, Save(c) PROVE FileInv'
  <2>1. PICK data \in ValidContents :
          save' = [save EXCEPT ![c] = [pc |-> "compare", data |-> data, temp |-> NoFile]]
    BY <1>2 DEF Save
  <2>2. [pc |-> "compare", data |-> data, temp |-> NoFile]
          \in [pc : Pcs, data : ValidContents, temp : Temp]
    BY DEF Temp, NoFile
  <2>3. UNCHANGED <<file, durable, held, losses>>
    BY <1>2 DEF Save
  <2> QED BY <2>1, <2>2, <2>3, SaveStep
<1>3. ASSUME NEW c \in Clients, Compare(c) \/ MkdirAll(c) PROVE FileInv'
  <2>1. NoFile \in Temp
    BY DEF NoFile, Temp
  <2> QED BY <1>3, <2>1, GoesStep DEF Compare, MkdirAll
<1>4. ASSUME NEW c \in Clients, CreateTemp(c) PROVE FileInv'
  <2>1. [data |-> Torn, synced |-> FALSE] \in Temp
    BY DEF Temp
  <2> QED BY <1>4, <2>1, GoesStep DEF CreateTemp
<1>5. ASSUME NEW c \in Clients, WriteTemp(c) PROVE FileInv'
  <2>1. [data |-> save[c].data, synced |-> FALSE] \in Temp
    BY DEF Temp, FileInv, TypeOK
  <2> QED BY <1>5, <2>1, GoesStep DEF WriteTemp
<1>6. ASSUME NEW c \in Clients, SyncTemp(c) PROVE FileInv'
  <2>1. save[c].temp \in Temp /\ save[c].temp.data = save[c].data
    BY <1>6 DEF SyncTemp, Goes, FileInv, TypeOK, SyncedBeforeRename
  <2> DEFINE t == [data |-> save[c].temp.data, synced |-> TRUE]
  <2>2. t \in Temp /\ t.data = save[c].data /\ t.synced
    BY <2>1 DEF Temp
  <2>3. Goes(c, "sync", "close", t)
    BY <1>6 DEF SyncTemp
  <2> HIDE DEF t
  <2> QED BY <2>2, <2>3, GoesStep
<1>7. ASSUME NEW c \in Clients, CloseTemp(c) PROVE FileInv'
  <2>1. /\ save[c].temp \in Temp /\ save[c].temp.data = save[c].data
        /\ save[c].temp.synced
    BY <1>7 DEF CloseTemp, Goes, FileInv, TypeOK, SyncedBeforeRename
  <2> QED BY <1>7, <2>1, GoesStep DEF CloseTemp
<1>8. ASSUME NEW c \in Clients, Rename(c) PROVE FileInv'
  <2>1. save[c].pc = "rename" /\ save[c].temp.data = save[c].data /\ save[c].temp.synced
    BY <1>8 DEF Rename, FileInv, SyncedBeforeRename
  <2>2. save[c].data \in Contents /\ save[c].temp \in Temp
    BY DEF FileInv, TypeOK
  <2>3. TypeOK'
    <3>1. [pc |-> "return", data |-> save[c].data, temp |-> NoFile]
            \in [pc : Pcs, data : ValidContents, temp : Temp]
      BY DEF NoFile, Temp, FileInv, TypeOK
    <3>2. file' \in [data : Contents \cup {Absent, Torn}, synced : BOOLEAN]
      BY <1>8, <2>2 DEF Rename, Temp
    <3> QED BY <1>8, <3>1, <3>2 DEF Rename, FileInv, TypeOK
  <2>4. CompleteDocument'
    BY <1>8, <2>1, <2>2 DEF Rename, FileInv, CompleteDocument
  <2>5. SyncedBeforeRename'
    BY <1>8, <2>1 DEF Rename, FileInv, SyncedBeforeRename, TypeOK
  <2> QED BY <2>3, <2>4, <2>5 DEF FileInv
<1>9. ASSUME NEW c \in Clients, Return(c) PROVE FileInv'
  BY <1>9, NotSavingType DEF Return, VersionFromBytes, FileInv, TypeOK, CompleteDocument,
                             SyncedBeforeRename
<1>10. ASSUME NEW c \in Clients, Conflict(c) \/ SaveFails(c) PROVE FileInv'
  BY <1>10, NotSavingType, SaveStep DEF Conflict, SaveFails
<1>11. ASSUME NEW c \in Clients, Crash(c) PROVE FileInv'
  BY <1>11, NotSavingType DEF Crash, FileInv, TypeOK, CompleteDocument, SyncedBeforeRename
<1>12. CASE Writeback
  BY <1>12 DEF Writeback, OnDisk, FileInv, TypeOK, CompleteDocument, SyncedBeforeRename
<1>13. CASE PowerLoss
  BY <1>13, NotSavingType DEF PowerLoss, FileInv, TypeOK, CompleteDocument, SyncedBeforeRename
<1>14. CASE UNCHANGED vars
  BY <1>14 DEF vars, FileInv, TypeOK, CompleteDocument, SyncedBeforeRename
<1> QED
  BY <1>1, <1>2, <1>3, <1>4, <1>5, <1>6, <1>7, <1>8, <1>9, <1>10, <1>11, <1>12, <1>13, <1>14
     DEF Next, Step

LEMMA Invariance == Spec => []FileInv
<1>1. Init => FileInv
  BY InitInv
<1>2. FileInv /\ [Next]_vars => FileInv'
  BY StepInv
<1> QED BY <1>1, <1>2, PTL DEF Spec

(* However many clients save at once and whatever fails, dies or loses     *)
(* power, neither the document nor its copy on disk is ever truncated.     *)
THEOREM NeverTorn == Spec => []CompleteDocument
<1>1. FileInv => CompleteDocument
  BY DEF FileInv
<1> QED BY <1>1, Invariance, PTL

(* The file, what clients hold and their saves keep their types.           *)
THEOREM TypeCorrect == Spec => []TypeOK
<1>1. FileInv => TypeOK
  BY DEF FileInv
<1> QED BY <1>1, Invariance, PTL

-----------------------------------------------------------------------------
(* Saves that do not overlap.                                              *)

LEMMA InitSerial ==
  ASSUME Init
  PROVE  SerialInv
  BY DEF Init, SerialInv, Unloaded, NotSaving, Writing

(* A step of c that changes only its own save, to one that does not start  *)
(* to write.                                                               *)
LEMMA SerialSaveStep ==
  ASSUME FileInv, SerialInv, NEW c \in Clients, NEW s,
         save' = [save EXCEPT ![c] = s], UNCHANGED <<file, held>>,
         s.pc \in Writing => save[c].pc \in Writing
  PROVE  SerialInv'
  BY DEF SerialInv, Expects, FileInv, TypeOK

(* A step of c that changes what it holds while it does not write.         *)
LEMMA SerialHeldStep ==
  ASSUME FileInv, SerialInv, NEW c \in Clients, NEW h, NEW s,
         held' = [held EXCEPT ![c] = h],
         h.version \in Contents => h.content = h.version,
         save' = [save EXCEPT ![c] = s], s.pc \notin Writing,
         UNCHANGED file
  PROVE  SerialInv'
<1>1. \A d \in Clients : held'[d].version \in Contents => held'[d].content = held'[d].version
  BY DEF SerialInv, FileInv, TypeOK
<1>2. ASSUME NEW d \in Clients, save'[d].pc \in Writing
      PROVE  /\ Expects(d)'
             /\ \A e \in Clients \ {d} : save'[e].pc \notin Writing
  <2>1. d # c /\ save'[d] = save[d] /\ held'[d] = held[d]
    BY <1>2 DEF FileInv, TypeOK
  <2>2. Expects(d) /\ \A e \in Clients \ {d} : save[e].pc \notin Writing
    BY <1>2, <2>1 DEF SerialInv
  <2> QED BY <2>1, <2>2 DEF Expects, FileInv, TypeOK
<1> QED BY <1>1, <1>2 DEF SerialInv

LEMMA StepSerial ==
  ASSUME FileInv, SerialInv, SerialSaves, [Next]_vars
  PROVE  SerialInv'
<1>1. ASSUME NEW c \in Clients, LoadFound(c) PROVE SerialInv'
  <2>1. save' = [save EXCEPT ![c] = save[c]] /\ save[c].pc \notin Writing
    BY <1>1 DEF LoadFound, Writing, FileInv, TypeOK
  <2> QED BY <1>1, <2>1, SerialHeldStep DEF LoadFound, readJSONFile, VersionFromBytes
<1>2. ASSUME NEW c \in Clients, LoadFallback(c) PROVE SerialInv'
  <2>1. save' = [save EXCEPT ![c] = save[c]] /\ save[c].pc \notin Writing
    BY <1>2 DEF LoadFallback, Writing, FileInv, TypeOK
  <2> QED BY <1>2, <2>1, SerialHeldStep DEF LoadFallback
<1>3. ASSUME NEW c \in Clients, Save(c) PROVE SerialInv'
  BY <1>3, SerialSaveStep DEF Save, Writing
<1>4. ASSUME NEW c \in Clients, Compare(c) PROVE SerialInv'
  <2> DEFINE s == [pc |-> "mkdir", data |-> save[c].data, temp |-> NoFile]
  <2>1. save' = [save EXCEPT ![c] = s] /\ UNCHANGED <<file, held>>
    BY <1>4 DEF Compare, Goes
  <2>2. Expects(c) /\ \A d \in Clients \ {c} : save[d].pc \notin Writing
    BY <1>4 DEF Compare, Alone, Writing
  <2> HIDE DEF s
  <2>3. \A d \in Clients \ {c} : save'[d] = save[d]
    BY <2>1 DEF FileInv, TypeOK
  <2>4. \A d \in Clients : Expects(d)' = Expects(d)
    BY <2>1 DEF Expects
  <2>5. \A d \in Clients : save'[d].pc \in Writing => d = c
    BY <2>2, <2>3
  <2> QED BY <2>1, <2>2, <2>4, <2>5 DEF SerialInv
<1>5. ASSUME NEW c \in Clients, NEW at \in Writing, NEW pc, NEW temp, Goes(c, at, pc, temp)
      PROVE  SerialInv'
  <2> DEFINE s == [pc |-> pc, data |-> save[c].data, temp |-> temp]
  <2>1. save' = [save EXCEPT ![c] = s] /\ UNCHANGED <<file, held>> /\ save[c].pc \in Writing
    BY <1>5 DEF Goes
  <2> HIDE DEF s
  <2> QED BY <2>1, SerialSaveStep
<1>6. ASSUME NEW c \in Clients,
             MkdirAll(c) \/ CreateTemp(c) \/ WriteTemp(c) \/ SyncTemp(c) \/ CloseTemp(c)
      PROVE  SerialInv'
  BY <1>5, <1>6 DEF MkdirAll, CreateTemp, WriteTemp, SyncTemp, CloseTemp, Writing
<1>7. ASSUME NEW c \in Clients, Rename(c) PROVE SerialInv'
  <2>1. \A d \in Clients \ {c} : save[d].pc \notin Writing
    BY <1>7 DEF Rename, SerialInv, Writing
  <2> DEFINE s == [pc |-> "return", data |-> save[c].data, temp |-> NoFile]
  <2>2. save' = [save EXCEPT ![c] = s] /\ s.pc \notin Writing /\ UNCHANGED held
    BY <1>7 DEF Rename, Writing
  <2> HIDE DEF s
  <2>3. \A d \in Clients : save'[d].pc \notin Writing
    BY <2>1, <2>2 DEF FileInv, TypeOK
  <2> QED BY <2>2, <2>3 DEF SerialInv
<1>8. ASSUME NEW c \in Clients, Return(c) PROVE SerialInv'
  <2>1. NotSaving.pc \notin Writing
    BY NotSavingType DEF Writing
  <2> QED BY <1>8, <2>1, SerialHeldStep DEF Return, VersionFromBytes
<1>9. ASSUME NEW c \in Clients, Conflict(c) \/ SaveFails(c) PROVE SerialInv'
  BY <1>9, NotSavingType, SerialSaveStep DEF Conflict, SaveFails, Writing
<1>10. ASSUME NEW c \in Clients, Crash(c) PROVE SerialInv'
  <2>1. NotSaving.pc \notin Writing /\ Unloaded.version \notin Contents
    BY NotSavingType DEF Writing, Unloaded
  <2> QED BY <1>10, <2>1, SerialHeldStep DEF Crash
<1>11. CASE Writeback \/ UNCHANGED vars
  BY <1>11 DEF Writeback, vars, SerialInv, Expects
<1>12. CASE PowerLoss
  BY <1>12 DEF PowerLoss, SerialInv, Unloaded, NotSaving, Writing
<1> QED
  BY <1>1, <1>2, <1>3, <1>4, <1>6, <1>7, <1>8, <1>9, <1>10, <1>11, <1>12 DEF Next, Step

-----------------------------------------------------------------------------
(* The refinement.                                                         *)

(* A step of one save is a step of one call.                               *)
LEMMA CallBarUpdate ==
  ASSUME FileInv, NEW c \in Clients, NEW s, save' = [save EXCEPT ![c] = s]
  PROVE  callBar' = [callBar EXCEPT ![c] = callOf(s)]
  BY DEF callBar, FileInv, TypeOK

LEMMA NotSavingIsIdle == callOf(NotSaving) = Store!Idle
  BY DEF callOf, NotSaving, Store!Idle

LEMMA InitRefines ==
  ASSUME Init, FileInv
  PROVE  Store!Init
<1>1. docBar \in Store!Documents
  BY DEF docBar, FileInv, TypeOK, CompleteDocument, VersionFromBytes, Store!Documents,
         Store!Missing
<1>2. held = [c \in Clients |-> Store!Unloaded]
  BY DEF Init, Unloaded, Store!Unloaded, Store!Missing
<1>3. callBar = [c \in Clients |-> Store!Idle]
  BY NotSavingIsIdle DEF Init, callBar
<1> QED BY <1>1, <1>2, <1>3 DEF Store!Init

LEMMA StepRefines ==
  ASSUME FileInv, SerialInv, FileInv', SerialInv', [Next]_vars
  PROVE  [Store!Next]_(Store!vars)
<1> USE DEF FileInv, TypeOK
<1>1. ASSUME NEW c \in Clients, LoadFound(c) PROVE Store!Load(c)
  <2>1. callBar[c].pc = "idle" /\ UNCHANGED <<docBar, callBar>>
    BY <1>1 DEF LoadFound, callBar, callOf, docBar
  <2>2. docBar.content \in ValidContents /\ docBar # Store!Missing
    BY <1>1 DEF LoadFound, docBar, Store!Missing
  <2>3. held' = [held EXCEPT ![c] = Store!Loaded(docBar)]
    BY <1>1, <2>2 DEF LoadFound, docBar, readJSONFile, Store!Loaded
  <2> QED BY <2>1, <2>2, <2>3 DEF Store!Load
<1>2. ASSUME NEW c \in Clients, LoadFallback(c) PROVE Store!Load(c)
  <2>1. callBar[c].pc = "idle" /\ UNCHANGED <<docBar, callBar>>
    BY <1>2 DEF LoadFallback, callBar, callOf, docBar
  <2>2. docBar = Store!Missing
    BY <1>2 DEF LoadFallback, docBar, Store!Missing
  <2>3. held' = [held EXCEPT ![c] = Store!Loaded(docBar)]
    BY <1>2, <2>2 DEF LoadFallback, Store!Loaded, Store!Missing
  <2> QED BY <2>1, <2>2, <2>3 DEF Store!Load, Store!Missing
<1>3. ASSUME NEW c \in Clients, Save(c) PROVE Store!Save(c)
  <2>1. callBar[c].pc = "idle" /\ held[c] # Store!Unloaded /\ UNCHANGED <<docBar, held>>
    BY <1>3 DEF Save, callBar, callOf, docBar, Store!Unloaded, Store!Missing, Unloaded
  <2>2. PICK data \in ValidContents :
          save' = [save EXCEPT ![c] = [pc |-> "compare", data |-> data, temp |-> NoFile]]
    BY <1>3 DEF Save
  <2>3. callOf([pc |-> "compare", data |-> data, temp |-> NoFile])
          = [pc |-> "saving", content |-> data, version |-> ZeroVersion]
    BY DEF callOf
  <2>4. callBar' = [callBar EXCEPT ![c] = [pc |-> "saving", content |-> data,
                                          version |-> ZeroVersion]]
    BY <2>2, <2>3, CallBarUpdate
  <2> QED BY <2>1, <2>4 DEF Store!Save
<1>4. ASSUME NEW c \in Clients, NEW at \in Writing \cup {"compare"}, NEW pc \in Writing, NEW temp,
             Goes(c, at, pc, temp)
      PROVE  UNCHANGED Store!vars
  <2> DEFINE s == [pc |-> pc, data |-> save[c].data, temp |-> temp]
  <2>1. save' = [save EXCEPT ![c] = s] /\ UNCHANGED <<file, held>> /\ save[c].pc = at
    BY <1>4 DEF Goes
  <2>2. callOf(s) = callBar[c]
    BY <2>1 DEF callBar, callOf, Writing
  <2> HIDE DEF s
  <2>3. callBar' = [callBar EXCEPT ![c] = callBar[c]]
    BY <2>1, <2>2, CallBarUpdate
  <2>4. callBar' = callBar
    BY <2>3 DEF callBar
  <2> QED BY <2>1, <2>4 DEF Store!vars, docBar
<1>5. ASSUME NEW c \in Clients,
             Compare(c) \/ MkdirAll(c) \/ CreateTemp(c) \/ WriteTemp(c) \/ SyncTemp(c) \/ CloseTemp(c)
      PROVE  UNCHANGED Store!vars
  BY <1>4, <1>5 DEF Compare, MkdirAll, CreateTemp, WriteTemp, SyncTemp, CloseTemp, Writing
<1>6. ASSUME NEW c \in Clients, Conflict(c) PROVE Store!Refuse(c)
  <2>1. callBar[c].pc = "saving" /\ UNCHANGED <<docBar, held>>
    BY <1>6 DEF Conflict, callBar, callOf, docBar
  <2>2. held[c].version # docBar.version
    BY <1>6 DEF Conflict, Expects, docBar
  <2>3. callBar' = [callBar EXCEPT ![c] = Store!Idle]
    BY <1>6, CallBarUpdate, NotSavingIsIdle DEF Conflict
  <2> QED BY <2>1, <2>2, <2>3 DEF Store!Refuse
<1>7. ASSUME NEW c \in Clients, Rename(c) PROVE Store!Apply(c)
  <2> DEFINE data == save[c].data
  <2>1. callBar[c].pc = "saving" /\ callBar[c].content = data /\ UNCHANGED held
    BY <1>7 DEF Rename, callBar, callOf
  <2>2. held[c].version = docBar.version
    BY <1>7 DEF Rename, SerialInv, Writing, Expects, docBar
  <2>3. file' = save[c].temp /\ save[c].temp.data = data /\ data \in Contents
    BY <1>7 DEF Rename, SyncedBeforeRename
  <2>4. docBar' = [content |-> data, version |-> data]
    BY <2>3 DEF docBar, VersionFromBytes
  <2>5. Store!Names(data, data)
    <3>1. \A d \in Clients : held[d].version = data => held[d].content = data
      BY <2>3 DEF SerialInv
    <3>2. \A d \in Clients :
            callBar[d].pc = "applied" /\ callBar[d].version = data => callBar[d].content = data
      BY DEF callBar, callOf, VersionFromBytes
    <3>3. docBar.version = data => docBar.content = data
      BY <2>3 DEF docBar, VersionFromBytes
    <3> QED BY <3>1, <3>2, <3>3 DEF Store!Names
  <2>6. callBar' = [callBar EXCEPT ![c] = [pc |-> "applied", content |-> @.content,
                                          version |-> docBar'.version]]
    <3>1. save' = [save EXCEPT ![c] = [pc |-> "return", data |-> data, temp |-> NoFile]]
      BY <1>7 DEF Rename
    <3>2. callOf([pc |-> "return", data |-> data, temp |-> NoFile])
            = [pc |-> "applied", content |-> data, version |-> data]
      BY DEF callOf, VersionFromBytes
    <3>3. callBar' = [callBar EXCEPT ![c] = [pc |-> "applied", content |-> data, version |-> data]]
      BY <3>1, <3>2, CallBarUpdate
    <3> HIDE DEF data
    <3> QED BY <2>1, <2>4, <3>3 DEF callBar
  <2>7. docBar' \in [content : {callBar[c].content}, version : Contents]
    BY <2>1, <2>3, <2>4
  <2>8. Store!Names(docBar'.version, callBar[c].content)
    BY <2>1, <2>4, <2>5
  <2> QED BY <2>1, <2>2, <2>6, <2>7, <2>8 DEF Store!Apply
<1>8. ASSUME NEW c \in Clients, Return(c) PROVE Store!Acknowledge(c)
  <2>1. /\ callBar[c] = [pc |-> "applied", content |-> save[c].data, version |-> save[c].data]
        /\ UNCHANGED docBar
    BY <1>8 DEF Return, callBar, callOf, docBar, VersionFromBytes
  <2>2. callBar' = [callBar EXCEPT ![c] = Store!Idle]
    BY <1>8, CallBarUpdate, NotSavingIsIdle DEF Return
  <2>3. held' = [held EXCEPT ![c] = [content |-> callBar[c].content,
                                     version |-> callBar[c].version]]
    BY <1>8, <2>1 DEF Return, VersionFromBytes
  <2> QED BY <2>1, <2>2, <2>3 DEF Store!Acknowledge
<1>9. ASSUME NEW c \in Clients, SaveFails(c) PROVE Store!Fail(c)
  <2>1. callBar[c].pc = "saving" /\ UNCHANGED <<docBar, held>>
    BY <1>9 DEF SaveFails, callBar, callOf, docBar
  <2>2. callBar' = [callBar EXCEPT ![c] = Store!Idle]
    BY <1>9, CallBarUpdate, NotSavingIsIdle DEF SaveFails
  <2> QED BY <2>1, <2>2 DEF Store!Fail
<1>10. ASSUME NEW c \in Clients, Crash(c) PROVE Store!Crash(c)
  <2>1. callBar' = [callBar EXCEPT ![c] = Store!Idle]
    BY <1>10, CallBarUpdate, NotSavingIsIdle DEF Crash
  <2> QED BY <1>10, <2>1 DEF Crash, docBar, Store!Crash, Store!Unloaded, Store!Missing, Unloaded
<1>11. CASE Writeback \/ UNCHANGED vars
  BY <1>11 DEF Writeback, vars, docBar, callBar, Store!vars
<1>12. CASE PowerLoss
  <2>1. docBar' \in Store!Documents
    BY DEF docBar, CompleteDocument, VersionFromBytes, Store!Documents, Store!Missing
  <2>2. held' = [c \in Clients |-> Store!Unloaded]
    BY <1>12 DEF PowerLoss, Unloaded, Store!Unloaded, Store!Missing
  <2>3. callBar' = [c \in Clients |-> Store!Idle]
    BY <1>12, NotSavingIsIdle DEF PowerLoss, callBar
  <2>4. Store!Outage
    BY <2>1, <2>2, <2>3 DEF Store!Outage
  <2> QED BY <2>4 DEF Store!Next
<1> QED
  BY <1>1, <1>2, <1>3, <1>5, <1>6, <1>7, <1>8, <1>9, <1>10, <1>11, <1>12
     DEF Next, Step, Store!Next, Store!Step

(* While saves do not overlap the local backend implements the versioned   *)
(* store: although it compares and renames in separate system calls and a  *)
(* version may come back, a save takes effect in one instant, on the very  *)
(* version its client last saw, or not at all, and a loss of power leaves  *)
(* a whole document.                                                       *)
THEOREM SerialRefinement ==
  ASSUME SerialSaves
  PROVE  Spec => ImplementsVersionedStore
<1>1. Init /\ FileInv => Store!Init
  BY InitRefines
<1>2. FileInv /\ FileInv' /\ SerialInv /\ SerialInv' /\ [Next]_vars
        => [Store!Next]_(Store!vars)
  BY StepRefines
<1>3. Init => SerialInv
  BY InitSerial
<1>4. FileInv /\ SerialInv /\ [Next]_vars => SerialInv'
  BY StepSerial
<1> QED
  BY <1>1, <1>2, <1>3, <1>4, Invariance, PTL
     DEF Spec, ImplementsVersionedStore, Store!Spec

-----------------------------------------------------------------------------
(* No lost update.                                                         *)

(* Under the zero version a client holds the fallback, and who saves holds *)
(* something.                                                              *)
HeldInv ==
  \A c \in Clients :
    /\ held[c].version = ZeroVersion => held[c].content \in {Fallback, Absent}
    /\ save[c].pc # "idle" => held[c].content # Absent

LEMMA StepHeld ==
  ASSUME FileInv, HeldInv, [Next]_vars
  PROVE  HeldInv'
<1> USE DEF FileInv, TypeOK, HeldInv
<1>1. ASSUME NEW c \in Clients, NEW h, held' = [held EXCEPT ![c] = h],
             h.version = ZeroVersion => h.content \in {Fallback, Absent},
             save'[c].pc # "idle" => h.content # Absent,
             \A d \in Clients \ {c} : save'[d] = save[d]
      PROVE  HeldInv'
  BY <1>1
<1>2. ASSUME NEW c \in Clients, LoadFound(c) \/ LoadFallback(c) PROVE HeldInv'
  BY <1>1, <1>2 DEF LoadFound, LoadFallback, readJSONFile, VersionFromBytes
<1>3. ASSUME NEW c \in Clients, Save(c) PROVE HeldInv'
  <2>1. held[c].content # Absent
    BY <1>3 DEF Save, Unloaded
  <2> QED BY <1>3, <2>1 DEF Save
<1>4. ASSUME NEW c \in Clients, Return(c) \/ Crash(c) PROVE HeldInv'
  BY <1>1, <1>4, NotSavingType DEF Return, Crash, Unloaded, VersionFromBytes
<1>5. ASSUME NEW c \in Clients, NEW at, NEW pc, NEW temp, at # "idle", Goes(c, at, pc, temp)
      PROVE  HeldInv'
  BY <1>5 DEF Goes
<1>6. ASSUME NEW c \in Clients,
             Compare(c) \/ MkdirAll(c) \/ CreateTemp(c) \/ WriteTemp(c) \/ SyncTemp(c) \/ CloseTemp(c)
      PROVE  HeldInv'
  BY <1>5, <1>6 DEF Compare, MkdirAll, CreateTemp, WriteTemp, SyncTemp, CloseTemp
<1>7. ASSUME NEW c \in Clients, Conflict(c) \/ SaveFails(c) \/ Rename(c) PROVE HeldInv'
  BY <1>7, NotSavingType DEF Conflict, SaveFails, Rename
<1>8. CASE PowerLoss
  BY <1>8, NotSavingType DEF PowerLoss, Unloaded
<1>9. CASE Writeback \/ UNCHANGED vars
  BY <1>9 DEF Writeback, vars
<1> QED BY <1>2, <1>3, <1>4, <1>6, <1>7, <1>8, <1>9 DEF Next, Step

LEMMA OnlyRenameApplies ==
  ASSUME FileInv, [Next]_vars, NEW c \in Clients, save[c].pc \notin {"idle", "return"},
         save'[c].pc = "return"
  PROVE  Rename(c)
<1> USE DEF FileInv, TypeOK
<1>1. save'[c] # save[c] /\ save'[c] # NotSaving
  BY NotSavingType
<1>2. ~Writeback /\ ~PowerLoss /\ ~(UNCHANGED vars)
  BY <1>1 DEF Writeback, PowerLoss, vars
<1>3. PICK d \in Clients : Step(d)
  BY <1>2 DEF Next
<1>4. ~LoadFound(d) /\ ~LoadFallback(d)
  BY <1>1 DEF LoadFound, LoadFallback
<1>5. ~Save(d)
  BY <1>1 DEF Save
<1>6. ASSUME NEW at, NEW pc, NEW temp, pc # "return" PROVE ~Goes(d, at, pc, temp)
  BY <1>1, <1>6 DEF Goes
<1>7. /\ ~Compare(d) /\ ~MkdirAll(d) /\ ~CreateTemp(d) /\ ~WriteTemp(d) /\ ~SyncTemp(d)
      /\ ~CloseTemp(d)
  BY <1>6 DEF Compare, MkdirAll, CreateTemp, WriteTemp, SyncTemp, CloseTemp
<1>8. ~Conflict(d) /\ ~SaveFails(d) /\ ~Return(d) /\ ~Crash(d)
  BY <1>1 DEF Conflict, SaveFails, Return, Crash
<1>9. Rename(d) => d = c
  BY <1>1 DEF Rename
<1> QED BY <1>3, <1>4, <1>5, <1>7, <1>8, <1>9 DEF Step

(* While saves do not overlap, a save that takes effect replaces exactly   *)
(* the content its client last saw, although the same hash may come back.  *)
THEOREM NoLostUpdate ==
  ASSUME SerialSaves
  PROVE  Spec => Store!SavesBuildOnCurrent
<1> DEFINE Builds ==
      \A c \in Clients :
        callBar[c].pc = "saving" /\ callBar'[c].pc = "applied" => held[c] = Store!Loaded(docBar)
<1>1. FileInv /\ FileInv' /\ SerialInv /\ HeldInv /\ [Next]_vars => Builds
  <2> SUFFICES ASSUME FileInv, FileInv', SerialInv, HeldInv, [Next]_vars, NEW c \in Clients,
                      callBar[c].pc = "saving", callBar'[c].pc = "applied"
               PROVE  held[c] = Store!Loaded(docBar)
    OBVIOUS
  <2> USE DEF FileInv, TypeOK
  <2>1. save[c].pc \notin {"idle", "return"} /\ save'[c].pc = "return"
    BY DEF callBar, callOf
  <2>2. Expects(c)
    BY <2>1, OnlyRenameApplies DEF Rename, SerialInv, Writing
  <2>3. held[c].content # Absent
    BY <2>1 DEF HeldInv
  <2>4. held[c] = [content |-> held[c].content, version |-> held[c].version]
    BY DEF Unloaded
  <2>5. CASE file.data = Absent
    BY <2>2, <2>3, <2>4, <2>5 DEF Expects, HeldInv, docBar, Store!Loaded, Store!Missing
  <2>6. CASE file.data # Absent
    <3>1. file.data \in Contents
      BY <2>6 DEF CompleteDocument
    <3>2. held[c].version = file.data /\ held[c].content = file.data
      BY <2>2, <2>6, <3>1 DEF Expects, VersionFromBytes, SerialInv
    <3>3. Store!Loaded(docBar) = [content |-> file.data, version |-> file.data]
      BY <2>6 DEF docBar, VersionFromBytes, Store!Loaded, Store!Missing
    <3> QED BY <2>4, <3>2, <3>3
  <2> QED BY <2>5, <2>6
<1>2. Init => SerialInv
  BY InitSerial
<1>3. FileInv /\ SerialInv /\ [Next]_vars => SerialInv'
  BY StepSerial
<1>4. Init => HeldInv
  <2>1. NotSaving.pc = "idle" /\ Unloaded.content = Absent
    BY NotSavingType DEF Unloaded
  <2> QED BY <2>1 DEF Init, HeldInv
<1>5. FileInv /\ HeldInv /\ [Next]_vars => HeldInv'
  BY StepHeld
<1> QED
  BY <1>1, <1>2, <1>3, <1>4, <1>5, Invariance, PTL DEF Spec, Store!SavesBuildOnCurrent
=============================================================================
