------------------------------ MODULE ForumTags ------------------------------
(***************************************************************************)
(* The difficulty tags of one forum (EnsureDifficultyTags and              *)
(* CreateForumThread in internal/discord/client.go, called by              *)
(* guildRun.post): a run reads the forum's tags, writes the whole list     *)
(* back with the missing ones added, and then tries to create its thread   *)
(* with the tag id it got.  Several runs and a moderator share the forum.  *)
(***************************************************************************)
EXTENDS Integers, SequencesExt

CONSTANTS Runs,
          Names,             \* tag names
          Difficulties,      \* the names Easy, Medium and Hard
          normalizeTagName,  \* what is left of a name without case and blanks
          MaxTags,           \* the tags a forum may have
          MaxAttempts,       \* retry.max_attempts
          InitialNames,      \* the names of the tags a forum may start with
          MaxEdits,          \* bound on the moderator's edits
          MaxFailures        \* bound on the requests that fail or are repeated

ASSUME TagsAssumption ==
  /\ Difficulties \subseteq Names
  /\ normalizeTagName \in [Names -> Names]
  /\ \A d \in Difficulties : normalizeTagName[d] = d
  /\ MaxTags \in Nat /\ MaxAttempts \in Nat \ {0} /\ MaxEdits \in Nat /\ MaxFailures \in Nat
  /\ InitialNames \subseteq SUBSET Names
  /\ IsFiniteSet(Difficulties) /\ \A names \in InitialNames : IsFiniteSet(names)

VARIABLES forum,    \* the tags of the forum: id and name
          lastId,   \* the largest id given to a tag so far
          run,      \* the local variables of each run
          edits,    \* the moderator's edits so far
          failures  \* the requests that failed or were repeated so far

vars == <<forum, lastId, run, edits, failures>>

Tag == [id : Nat \ {0}, name : Names]

\* pc: its next request; seen: the tags it read; tags: the result of
\* EnsureDifficultyTags, 0 for none; wanted: the difficulty of its problem.
RunState == [pc      : {"get", "patch", "create", "posted", "failed"},
             seen    : SUBSET Tag,
             tags    : [Difficulties -> Nat],
             wanted  : Difficulties,
             attempt : Nat]

Key(t) == normalizeTagName[t.name]

\* No two names of the list are the same to EnsureDifficultyTags.
Distinct(names) == \A m, n \in names : normalizeTagName[m] = normalizeTagName[n] => m = n

\* New tags with the given names, their ids from first on.
Numbered(names, first) ==
  LET order == SetToSeq(names)
  IN {[id |-> first + i - 1, name |-> order[i]] : i \in 1 .. Len(order)}

NoTags == [d \in Difficulties |-> 0]

Init ==
  /\ \E names \in InitialNames : Distinct(names) /\ forum = Numbered(names, 1)
  /\ lastId = Cardinality(forum)
  /\ run \in [Runs -> {[pc |-> "get", seen |-> {}, tags |-> NoTags, wanted |-> d,
                        attempt |-> 1] : d \in Difficulties}]
  /\ edits = 0 /\ failures = 0

-----------------------------------------------------------------------------
\* Mutant: names are compared as they are written.
MissingByName(tags) == {d \in Difficulties : \A t \in tags : t.name # d}

\* The difficulties the list lacks.
Missing(tags) == {d \in Difficulties : \A t \in tags : Key(t) # d}

\* The id of each difficulty's tag in the list, 0 if there is none.
ResultOf(tags) ==
  [d \in Difficulties |-> IF d \in Missing(tags) THEN 0 ELSE (CHOOSE t \in tags : Key(t) = d).id]

Becomes(r, local) == run' = [run EXCEPT ![r] = local]

\* Discord or the network fails a request.
Fails == failures < MaxFailures /\ failures' = failures + 1

\* EnsureDifficultyTags returns the ids, or reports a tag missing after ensure.
Ensured(r, tags) ==
  Becomes(r, IF Missing(tags) = {}
               THEN [run[r] EXCEPT !.pc = "create", !.seen = {}, !.tags = ResultOf(tags)]
               ELSE [run[r] EXCEPT !.pc = "failed", !.seen = {}])

GetChannel(r) ==
  /\ run[r].pc = "get"
  /\ IF Missing(forum) = {}
       THEN Ensured(r, forum)
       ELSE Becomes(r, [run[r] EXCEPT !.pc = "patch", !.seen = forum])
  /\ UNCHANGED <<forum, lastId, edits, failures>>

\* Mutant: only the new tags are sent.
UpdatedOnlyNew(seen) == [kept |-> {}, names |-> Missing(seen)]

\* The list sent back: the tags that were read, and names without an id.
Updated(seen) == [kept |-> seen, names |-> Missing(seen)]

TooLong(list) == Cardinality(list.kept) + Cardinality(list.names) > MaxTags

Live(id) == \E t \in forum : t.id = id

\* Discord takes the list as it is: a name without an id becomes a new tag, and what
\* is not listed is gone.  A listed tag that is gone comes back under a new id.
Takes(list) ==
  LET alive == {t \in list.kept : Live(t.id)}
      names == list.names \cup {t.name : t \in list.kept \ alive}
  IN /\ ~TooLong(list)
     /\ forum' = alive \cup Numbered(names, lastId + 1)
     /\ lastId' = lastId + Cardinality(names)

\* Mutant: the ids are looked up in the list that was read, and not checked.
PatchChannelKeepsOld(r) ==
  /\ run[r].pc = "patch"
  /\ Takes(Updated(run[r].seen))
  /\ Becomes(r, [run[r] EXCEPT !.pc = "create", !.seen = {}, !.tags = ResultOf(run[r].seen)])
  /\ UNCHANGED <<edits, failures>>

\* The answer may be lost: then the retry client sends the same list again, or the
\* call fails.
PatchChannel(r) ==
  /\ run[r].pc = "patch"
  /\ Takes(Updated(run[r].seen))
  /\ \/ Ensured(r, forum') /\ UNCHANGED failures
     \/ Fails /\ Becomes(r, [run[r] EXCEPT !.pc = "failed", !.seen = {}])
     \/ Fails /\ UNCHANGED run
  /\ UNCHANGED edits

\* A request fails, or Discord refuses the list: it is too long, or names a tag that
\* is gone.
EnsureFails(r) ==
  /\ \/ run[r].pc \in {"get", "patch"} /\ Fails
     \/ run[r].pc = "patch" /\ TooLong(Updated(run[r].seen)) /\ UNCHANGED failures
     \/ run[r].pc = "patch" /\ (\E t \in run[r].seen : ~Live(t.id)) /\ UNCHANGED failures
  /\ Becomes(r, [run[r] EXCEPT !.pc = "failed", !.seen = {}])
  /\ UNCHANGED <<forum, lastId, edits>>

TagOf(r) == run[r].tags[run[r].wanted]

\* Discord refuses a thread with a tag the forum does not have.  Every attempt uses
\* the ids from before the first one.
CreateForumThread(r) ==
  /\ run[r].pc = "create"
  /\ \/ Live(TagOf(r)) /\ Becomes(r, [run[r] EXCEPT !.pc = "posted"]) /\ UNCHANGED failures
     \/ /\ Fails \/ (~Live(TagOf(r)) /\ UNCHANGED failures)
        /\ Becomes(r, IF run[r].attempt < MaxAttempts THEN [run[r] EXCEPT !.attempt = @ + 1]
                                                      ELSE [run[r] EXCEPT !.pc = "failed"])
  /\ UNCHANGED <<forum, lastId, edits>>

-----------------------------------------------------------------------------
\* The moderator removes a tag, or adds one whose name is not there yet.
Moderate ==
  /\ edits < MaxEdits
  /\ edits' = edits + 1
  /\ \/ /\ \E t \in forum : forum' = forum \ {t}
        /\ UNCHANGED lastId
     \/ /\ Cardinality(forum) < MaxTags
        /\ \E name \in Names :
             /\ \A t \in forum : Key(t) # normalizeTagName[name]
             /\ forum' = forum \cup {[id |-> lastId + 1, name |-> name]}
        /\ lastId' = lastId + 1
  /\ UNCHANGED <<run, failures>>

Step(r) == GetChannel(r) \/ PatchChannel(r) \/ EnsureFails(r) \/ CreateForumThread(r)

Next == Moderate \/ \E r \in Runs : Step(r)

Spec == Init /\ [][Next]_vars

\* A run at work goes on.
FairSpec == Spec /\ \A r \in Runs : WF_vars(Step(r))

-----------------------------------------------------------------------------
\* Every variable has its type, ids are used once, and a run that has its tags has one
\* for every difficulty (line 116 never reports a tag missing after the write).
TypeOK ==
  /\ forum \subseteq Tag
  /\ lastId \in Nat
  /\ \A t \in forum : t.id <= lastId
  /\ \A t, u \in forum : t.id = u.id => t = u
  /\ run \in [Runs -> RunState]
  /\ \A r \in Runs : run[r].pc \in {"create", "posted"} =>
       \A d \in Difficulties : run[r].tags[d] # 0
  /\ edits \in 0 .. MaxEdits /\ failures \in 0 .. MaxFailures

\* However runs and the moderator interleave, the forum never has two tags with the
\* same normalized name: EnsureDifficultyTags recognizes a tag written differently,
\* and a list read before another write replaces that write's tags.
NoDuplicateDifficulty == \A t, u \in forum : Key(t) = Key(u) => t = u

\* A difficulty the forum has is never lost by a run, only by the moderator: a list
\* built from an outdated read still holds all of them.
DifficultiesStay ==
  [][\A d \in Difficulties :
       d \in Missing(forum') /\ d \notin Missing(forum) => edits' # edits]_vars

\* When EnsureDifficultyTags returns, every id it returns is the forum's tag for that
\* difficulty at that moment.
EnsureIsTrue ==
  [][\A r \in Runs : run[r].pc # "create" /\ run'[r].pc = "create" =>
       \A d \in Difficulties :
         \E t \in forum' : t.id = run'[r].tags[d] /\ Key(t) = d]_vars

\* A run that starts when the last edit is made, the last request has failed and every
\* other run is over repairs the forum and posts its thread, unless the forum is full.
Recovers ==
  \A r \in Runs :
    (/\ run[r].pc = "get" /\ edits = MaxEdits /\ failures = MaxFailures
     /\ \A s \in Runs \ {r} : run[s].pc \in {"posted", "failed"}
     /\ ~TooLong(Updated(forum))) ~> (run[r].pc = "posted")
=============================================================================
