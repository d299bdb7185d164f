--------------------------- MODULE VersionedStore ---------------------------
(***************************************************************************)
(* What storage.Repository promises for one JSON document                  *)
(* (internal/storage/repository.go and the contract suite of               *)
(* internal/storage/repositorytest): a load returns the document with a    *)
(* version, a save carries the version its client last saw and replaces    *)
(* the document only if that is still the document's version.  A save      *)
(* takes effect at one instant between its call and its answer; a client   *)
(* that gets an error does not know whether it did.                        *)
(*                                                                         *)
(* GcsStore.tla and FileStore.tla are the two backends.                    *)
(***************************************************************************)
EXTENDS Integers

CONSTANTS Clients,      \* processes that use the store
          Contents,     \* decodable contents of the document
          ValidContents,\* those its Validate accepts
          Fallback,     \* what a client works on while there is no document
          Absent,       \* the content of a document that does not exist
          Versions,     \* version tokens
          ZeroVersion   \* storage.Version{}

VARIABLES doc,   \* the document: its content and its version
          held,  \* the document each client last saw, Unloaded before its first load
          call   \* the save each client has under way

vars == <<doc, held, call>>

Missing == [content |-> Absent, version |-> ZeroVersion]

Documents == [content : Contents, version : Versions] \cup {Missing}

Unloaded == Missing

\* A loaded document: no document is the fallback under the zero version.
Loaded(d) == [content |-> IF d = Missing THEN Fallback ELSE d.content, version |-> d.version]

Held == [content : ValidContents, version : Versions \cup {ZeroVersion}] \cup {Unloaded}

Idle == [pc |-> "idle", content |-> Fallback, version |-> ZeroVersion]

\* pc: no save under way, sent, or in effect and not yet answered; version: the
\* version the save gave the document.
Call == [pc : {"idle", "saving", "applied"}, content : ValidContents,
         version : Versions \cup {ZeroVersion}]

TypeOK ==
  /\ doc \in Documents
  /\ held \in [Clients -> Held]
  /\ call \in [Clients -> Call]

Init ==
  /\ doc \in Documents
  /\ held = [c \in Clients |-> Unloaded]
  /\ call = [c \in Clients |-> Idle]

-----------------------------------------------------------------------------
\* A version names one content: nobody holds it for another one.
Names(version, content) ==
  /\ \A c \in Clients :
       /\ held[c].version = version => held[c].content = content
       /\ call[c].pc = "applied" /\ call[c].version = version => call[c].content = content
  /\ doc.version = version => doc.content = content

\* Load* of the repository with the caller's fallback on ErrNotFound.
Load(c) ==
  /\ call[c].pc = "idle"
  /\ doc.content \in ValidContents \cup {Absent}
  /\ held' = [held EXCEPT ![c] = Loaded(doc)]
  /\ UNCHANGED <<doc, call>>

\* Save* of the repository; invalid content is refused before the store is asked.
Save(c) ==
  /\ call[c].pc = "idle" /\ held[c] # Unloaded
  /\ \E content \in ValidContents :
       call' = [call EXCEPT ![c] = [pc |-> "saving", content |-> content,
                                        version |-> ZeroVersion]]
  /\ UNCHANGED <<doc, held>>

\* The instant a save takes effect.
Apply(c) ==
  /\ call[c].pc = "saving"
  /\ held[c].version = doc.version
  /\ doc' \in [content : {call[c].content}, version : Versions]
  /\ Names(doc'.version, call[c].content)
  /\ call' = [call EXCEPT ![c] = [pc |-> "applied", content |-> @.content,
                                    version |-> doc'.version]]
  /\ UNCHANGED held

\* ErrConflict.
Refuse(c) ==
  /\ call[c].pc = "saving"
  /\ held[c].version # doc.version
  /\ call' = [call EXCEPT ![c] = Idle]
  /\ UNCHANGED <<doc, held>>

\* Any other error, before or after the effect.
Fail(c) ==
  /\ call[c].pc \in {"saving", "applied"}
  /\ call' = [call EXCEPT ![c] = Idle]
  /\ UNCHANGED <<doc, held>>

Acknowledge(c) ==
  /\ call[c].pc = "applied"
  /\ held' = [held EXCEPT ![c] = [content |-> call[c].content, version |-> call[c].version]]
  /\ call' = [call EXCEPT ![c] = Idle]
  /\ UNCHANGED doc

\* The process dies and a new one takes its place.
Crash(c) ==
  /\ held' = [held EXCEPT ![c] = Unloaded]
  /\ call' = [call EXCEPT ![c] = Idle]
  /\ UNCHANGED doc

\* The operator edits the document in place (docs/runbook.md), any way they like.
Overwrite ==
  /\ doc' \in [content : Contents, version : Versions]
  /\ Names(doc'.version, doc'.content)
  /\ UNCHANGED <<held, call>>

\* All clients die at once, and a whole document, perhaps an older one, is left.
Outage ==
  /\ doc' \in Documents
  /\ held' = [c \in Clients |-> Unloaded]
  /\ call' = [c \in Clients |-> Idle]

Step(c) ==
  Load(c) \/ Save(c) \/ Apply(c) \/ Refuse(c) \/ Fail(c) \/ Acknowledge(c) \/ Crash(c)

Next == Overwrite \/ Outage \/ \E c \in Clients : Step(c)

Spec == Init /\ [][Next]_vars

-----------------------------------------------------------------------------
(* No lost update: a save that takes effect replaces exactly the content   *)
(* its client last saw, however many clients, crashes, lost answers and    *)
(* operator's edits came in between (.plans/04-gcs-storage-backend.md:32). *)
SavesBuildOnCurrent ==
  [][\A c \in Clients :
       call[c].pc = "saving" /\ call'[c].pc = "applied" => held[c] = Loaded(doc)]_vars
=============================================================================
