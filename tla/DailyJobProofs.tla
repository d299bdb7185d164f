--------------------------- MODULE DailyJobProofs ---------------------------
(***************************************************************************)
(* Theorems about the daily job for any number of runs and guilds, any     *)
(* retry settings and every fault, with the proofs TLAPS checks.           *)
(***************************************************************************)
EXTENDS HttpRuntime, TLAPS

USE DEF world

PostingPcs == {"savePosting", "create", "react", "notifyReaction", "savePosted",
               "saveFailed", "sleep"}

(* What holds of the local state of every run: a run at work on a guild    *)
(* has one, with a record of it in memory, and counts attempts from one.   *)
LocalOK(l) ==
  /\ l \in RunState
  /\ l.pc \in WorkingPcs => l.todo # <<>> /\ l.mem[Head(l.todo)] # Nil
  /\ l.pc \in PostingPcs => l.attempt >= 1

TypeInv ==
  /\ TypeOK
  /\ \A r \in Runs : LocalOK(run[r])

-----------------------------------------------------------------------------
LEMMA DateType == \A t \in Int : DateOf(t) \in Int
BY ConstantsAssumption DEF DateOf

(* A local step to a sound local state preserves the type invariant.       *)
LEMMA BecomesType ==
  ASSUME TypeInv, NEW r \in Runs, NEW local, LocalOK(local), Becomes(r, local),
         UNCHANGED clock, stateDoc' \in [gen : Nat, guilds : GuildStates],
         cacheDoc' \in [gen : Nat, problems : SUBSET (Nat \ {0})],
         threads' \in Seq(Thread), alerts' \subseteq Guilds \X Int
  PROVE  TypeInv'
<1>1. run' \in [Runs -> RunState]
  BY DEF Becomes, LocalOK, TypeInv, TypeOK
<1>2. \A q \in Runs : LocalOK(run'[q])
  BY DEF Becomes, TypeInv, TypeOK
<1> QED
  BY <1>1, <1>2 DEF TypeInv, TypeOK, LocalOK

LEMMA LocalType ==
  ASSUME TypeInv, NEW r \in Runs, NEW local, LocalOK(local), Local(r, local)
  PROVE  TypeInv'
BY BecomesType DEF Local, TypeInv, TypeOK

LEMMA GuildDoneOK ==
  ASSUME TypeInv, NEW r \in Runs, Working(r) \/ (run[r].pc = "guild" /\ run[r].todo # <<>>),
         NEW failed \in BOOLEAN
  PROVE  LocalOK(GuildDone(r, failed))
<1> DEFINE l == run[r]
<1>1. l \in RunState /\ l.todo # <<>>
  BY DEF TypeInv, LocalOK, Working
<1>2. Tail(l.todo) \in Seq(Guilds) /\ Head(l.todo) \in Guilds
  BY <1>1 DEF RunState
<1> QED
  BY <1>1, <1>2 DEF GuildDone, LocalOK, RunState, Current, WorkingPcs, LivePcs, PostingPcs

LEMMA NewRunOK == LocalOK(NewRun)
<1>1. NoGuilds \in GuildStates
  BY DEF NoGuilds, GuildStates
<1>2. <<>> \in Seq(Guilds)
  OBVIOUS
<1>3. NewRun \in RunState
  BY <1>1, <1>2 DEF NewRun, RunState, LivePcs
<1> QED
  BY <1>3 DEF NewRun, LocalOK, WorkingPcs, PostingPcs

LEMMA EndedOK ==
  ASSUME TypeInv, NEW r \in Runs, NEW how \in {"done", "killed"}
  PROVE  LocalOK(Ended(r, how))
<1>1. NewRun \in RunState /\ run[r] \in RunState
  BY NewRunOK DEF LocalOK, TypeInv
<1>2. run[r].errs \cup Unloaded(r) \in SUBSET Guilds
  BY <1>1, ConstantsAssumption DEF Unloaded, RunState
<1>3. Ended(r, how) \in RunState /\ Ended(r, how).pc = how
  BY <1>1, <1>2 DEF Ended, RunState
<1> QED
  BY <1>3 DEF LocalOK, WorkingPcs, PostingPcs

-----------------------------------------------------------------------------
(* The local states the steps lead to are sound.                           *)

LEMMA InitType == Init => TypeInv
<1> SUFFICES ASSUME Init PROVE TypeInv
  OBVIOUS
<1>1. NoGuilds \in GuildStates
  BY DEF NoGuilds, GuildStates
<1>2. cacheDoc \in [gen : Nat, problems : SUBSET (Nat \ {0})]
  <2>1. CASE InitialCache = Nil
    BY <2>1 DEF Init
  <2>2. CASE InitialCache # Nil
    <3>1. InitialCache \in SUBSET (Nat \ {0})
      BY <2>2, ConstantsAssumption
    <3> QED BY <2>2, <3>1 DEF Init
  <2> QED BY <2>1, <2>2
<1>3. run \in [Runs -> RunState] /\ \A r \in Runs : LocalOK(run[r])
  BY NewRunOK DEF Init, LocalOK
<1>4. threads \in Seq(Thread) /\ alerts \subseteq Guilds \X Int
  BY DEF Init
<1> QED
  BY <1>1, <1>2, <1>3, <1>4 DEF Init, TypeInv, TypeOK

\* The record of a guild the run is working on, or is about to.
LEMMA RecordType ==
  ASSUME TypeInv, NEW r \in Runs, run[r].todo # <<>>
  PROVE  /\ Current(r) \in Guilds
         /\ EnsureGuild(r, Current(r)) \in GuildStateType
         /\ Working(r) => Record(r) \in GuildStateType
<1>1. run[r] \in RunState /\ LocalOK(run[r])
  BY DEF TypeInv, LocalOK
<1>2. Current(r) \in Guilds
  BY <1>1 DEF RunState, Current
<1>3. run[r].mem[Current(r)] \in GuildStateType \cup {Nil}
  BY <1>1, <1>2 DEF RunState, GuildStates
<1>4. DefaultGuildState(StartNumber[Current(r)]) \in GuildStateType
  BY <1>2, ConstantsAssumption
     DEF DefaultGuildState, IdleJob, GuildStateType, JobState, JobStatus
<1> QED
  BY <1>1, <1>2, <1>3, <1>4 DEF EnsureGuild, Record, Working, LocalOK, Current

\* Replacing the record of the current guild keeps the memory a map of records.
LEMMA RecordReplaced ==
  ASSUME TypeInv, NEW r \in Runs, run[r].todo # <<>>, NEW rec \in GuildStateType,
         NEW pc \in LivePcs,
         pc \in PostingPcs => run[r].attempt >= 1
  PROVE  LocalOK([run[r] EXCEPT !.pc = pc, !.mem[Current(r)] = rec])
<1> DEFINE l == [run[r] EXCEPT !.pc = pc, !.mem[Current(r)] = rec]
<1>1. run[r] \in RunState /\ Current(r) \in Guilds
  BY RecordType DEF TypeInv, LocalOK
<1>2. l \in RunState
  BY <1>1 DEF RunState, GuildStates
<1>3. l.todo = run[r].todo /\ l.mem[Current(r)] = rec /\ l.attempt = run[r].attempt /\ l.pc = pc
  BY <1>1 DEF RunState, GuildStates
<1>4. rec # Nil
  BY NilAssumption
<1> QED
  BY <1>2, <1>3, <1>4 DEF LocalOK, Current

\* Moving on within the same guild.
LEMMA MovedOn ==
  ASSUME TypeInv, NEW r \in Runs, Working(r), NEW pc \in LivePcs,
         pc \in PostingPcs => run[r].attempt >= 1
  PROVE  LocalOK([run[r] EXCEPT !.pc = pc])
BY DEF TypeInv, LocalOK, RunState, LivePcs, Working

LEMMA VersionSet ==
  ASSUME NEW l, LocalOK(l), NEW n \in Nat
  PROVE  LocalOK([l EXCEPT !.ver = n])
BY DEF LocalOK, RunState

LEMMA SaveType ==
  ASSUME TypeInv, NEW r \in Runs, NEW at \in WorkingPcs, NEW next, LocalOK(next),
         SaveState(r, at, next)
  PROVE  TypeInv'
<1>1. Working(r) /\ run[r].mem \in GuildStates /\ stateDoc.gen \in Nat
  BY DEF SaveState, Working, TypeInv, TypeOK, LocalOK, RunState
<1>2. UNCHANGED stateDoc \/ stateDoc' = [gen |-> stateDoc.gen + 1, guilds |-> run[r].mem]
  BY DEF SaveState, Writes, SaveErrors
<1>3. stateDoc' \in [gen : Nat, guilds : GuildStates]
  BY <1>1, <1>2 DEF TypeInv, TypeOK
<1>4. UNCHANGED <<clock, cacheDoc, threads, alerts>>
  BY DEF SaveState
<1>5. CASE Writes(r, next)
  <2>1. LocalOK([next EXCEPT !.ver = stateDoc.gen + 1])
    BY <1>1, VersionSet
  <2> QED
    BY <1>3, <1>4, <1>5, <2>1, BecomesType DEF Writes, TypeInv, TypeOK
<1>6. CASE SaveErrors(r)
  BY <1>1, <1>3, <1>4, <1>6, GuildDoneOK, BecomesType DEF SaveErrors, TypeInv, TypeOK
<1> QED
  BY <1>5, <1>6 DEF SaveState

LEMMA AnnounceOK ==
  ASSUME TypeInv, NEW r \in Runs, Working(r), NEW attempt \in Nat \ {0}
  PROVE  LocalOK(Announce(r, attempt))
<1> DEFINE rec == [Record(r) EXCEPT !.job = PostingJob(run[r].date, run[r].problem, attempt - 1, clock)]
           l   == [run[r] EXCEPT !.attempt = attempt, !.wake = 0]
<1>1. /\ run[r] \in RunState /\ run[r].todo # <<>> /\ clock \in Nat
      /\ Current(r) \in Guilds /\ Record(r) \in GuildStateType
  BY RecordType DEF TypeInv, TypeOK, LocalOK, Working
<1>0. PostingJob(run[r].date, run[r].problem, attempt - 1, clock) \in JobState
  BY <1>1 DEF PostingJob, JobState, JobStatus, RunState
<1>2. rec \in GuildStateType
  BY <1>0, <1>1 DEF GuildStateType
<1>3. /\ Announce(r, attempt) \in RunState
      /\ Announce(r, attempt).todo = run[r].todo
      /\ Announce(r, attempt).attempt = attempt
      /\ Announce(r, attempt).mem[Current(r)] = rec
  BY <1>1, <1>2 DEF Announce, RunState, GuildStates, LivePcs, WorkingPcs, Record
<1> QED
  BY <1>2, <1>3, <1>1, NilAssumption DEF LocalOK, Current

LEMMA PostedOK ==
  ASSUME TypeInv, NEW r \in Runs, run[r].pc \in {"react", "notifyReaction"}
  PROVE  LocalOK(Posted(r))
<1> DEFINE rec == RecordPosted(Record(r), run[r].date, run[r].problem, run[r].attempt - 1,
                               run[r].thread)
<1>1. run[r] \in RunState /\ run[r].todo # <<>> /\ run[r].attempt >= 1
  BY DEF TypeInv, LocalOK, WorkingPcs, PostingPcs
<1>2. rec \in GuildStateType
  BY <1>1 DEF RecordPosted, PostedJob, GuildStateType, JobState, JobStatus, RunState
<1>3. Posted(r) = [run[r] EXCEPT !.pc = "savePosted", !.mem[Current(r)] = rec]
  BY DEF Posted, Record
<1>4. "savePosted" \in LivePcs
  BY DEF LivePcs, WorkingPcs
<1> HIDE DEF rec
<1>5. ASSUME NEW pc \in LivePcs
      PROVE  LocalOK([run[r] EXCEPT !.pc = pc, !.mem[Current(r)] = rec])
  BY <1>1, <1>2, RecordReplaced
<1> QED
  BY <1>3, <1>4, <1>5

LEMMA FailedOK ==
  ASSUME TypeInv, NEW r \in Runs, Working(r), NEW retry \in Nat, NEW pc \in LivePcs,
         pc \in PostingPcs => run[r].attempt >= 1
  PROVE  LocalOK([run[r] EXCEPT !.pc = pc,
                    !.mem[Current(r)].job = FailedJob(run[r].date, run[r].problem, retry)])
<1> DEFINE rec == [Record(r) EXCEPT !.job = FailedJob(run[r].date, run[r].problem, retry)]
<1>1. run[r] \in RunState /\ run[r].todo # <<>> /\ Record(r) \in GuildStateType
  BY RecordType DEF TypeInv, LocalOK, Working
<1>2. rec \in GuildStateType
  BY <1>1 DEF FailedJob, GuildStateType, JobState, JobStatus, RunState
<1>3. [run[r] EXCEPT !.pc = pc, !.mem[Current(r)].job = FailedJob(run[r].date, run[r].problem, retry)]
        = [run[r] EXCEPT !.pc = pc, !.mem[Current(r)] = rec]
  BY DEF Record
<1> QED
  BY <1>1, <1>2, <1>3, RecordReplaced

-----------------------------------------------------------------------------
(* Every step preserves the type invariant.                                *)

LEMMA LoadType ==
  ASSUME TypeInv, NEW r \in Runs,
         Start(r) \/ LoadState(r) \/ LoadProblemCache(r) \/ LoadFails(r)
  PROVE  TypeInv'
<1>1. run[r] \in RunState /\ LocalOK(run[r])
  BY DEF TypeInv, LocalOK
<1>2. CASE Start(r)
  <2> DEFINE l == [run[r] EXCEPT !.pc = "loadState", !.born = clock, !.date = DateOf(clock)]
  <2>1. clock \in Nat /\ DateOf(clock) \in Int
    BY DateType DEF TypeInv, TypeOK
  <2>2. LocalOK(l)
    BY <1>1, <2>1 DEF LocalOK, RunState, LivePcs, WorkingPcs, PostingPcs
  <2> QED
    BY <1>2, <2>2, LocalType DEF Start
<1>3. CASE LoadState(r)
  <2> DEFINE l == [run[r] EXCEPT !.pc = "loadCache", !.mem = stateDoc.guilds, !.ver = stateDoc.gen]
  <2>1. LocalOK(l)
    BY <1>1 DEF LocalOK, RunState, LivePcs, WorkingPcs, PostingPcs, TypeInv, TypeOK
  <2> QED
    BY <1>3, <2>1, LocalType DEF LoadState
<1>4. CASE LoadProblemCache(r)
  <2> DEFINE l == [run[r] EXCEPT !.pc = "guild", !.cache = cacheDoc.problems,
                                 !.cacheVer = cacheDoc.gen, !.todo = EnabledGuilds]
  <2>1. EnabledGuilds \in Seq(Guilds)
    BY ConstantsAssumption
  <2>2. LocalOK(l)
    BY <1>1, <2>1 DEF LocalOK, RunState, LivePcs, WorkingPcs, PostingPcs, TypeInv, TypeOK
  <2> QED
    BY <1>4, <2>2, LocalType DEF LoadProblemCache
<1>5. CASE LoadFails(r)
  BY <1>5, EndedOK, LocalType DEF LoadFails
<1> QED
  BY <1>2, <1>3, <1>4, <1>5

LEMMA GuildType ==
  ASSUME TypeInv, NEW r \in Runs,
         SkipGuild(r) \/ TakeOverStale(r) \/ BeginGuild(r) \/ Return(r) \/ Kill(r)
  PROVE  TypeInv'
<1>1. run[r] \in RunState
  BY DEF TypeInv, LocalOK
<1>2. CASE SkipGuild(r)
  BY <1>2, GuildDoneOK, LocalType DEF SkipGuild
<1>3. CASE TakeOverStale(r)
  <2> DEFINE rec == RecoverStalePosting(EnsureGuild(r, Current(r)), run[r].date)
  <2>1. run[r].todo # <<>> /\ EnsureGuild(r, Current(r)) \in GuildStateType
    BY <1>3, RecordType DEF TakeOverStale
  <2>2. rec \in GuildStateType
    BY <1>1, <2>1 DEF RecoverStalePosting, IdleJob, GuildStateType, JobState, JobStatus, RunState
  <2>3. Local(r, [run[r] EXCEPT !.pc = "saveRecovered", !.mem[Current(r)] = rec])
    BY <1>3 DEF TakeOverStale
  <2> HIDE DEF rec
  <2>4. LocalOK([run[r] EXCEPT !.pc = "saveRecovered", !.mem[Current(r)] = rec])
    BY <2>1, <2>2, RecordReplaced DEF LivePcs, WorkingPcs, PostingPcs
  <2> QED
    BY <2>3, <2>4, LocalType
<1>4. CASE BeginGuild(r)
  <2> DEFINE rec == EnsureGuild(r, Current(r))
  <2>1. run[r].todo # <<>> /\ rec \in GuildStateType
    BY <1>4, RecordType DEF BeginGuild
  <2>2. Local(r, [run[r] EXCEPT !.pc = "refresh", !.mem[Current(r)] = rec])
    BY <1>4 DEF BeginGuild
  <2> HIDE DEF rec
  <2>3. LocalOK([run[r] EXCEPT !.pc = "refresh", !.mem[Current(r)] = rec])
    BY <2>1, RecordReplaced DEF LivePcs, WorkingPcs, PostingPcs
  <2> QED
    BY <2>2, <2>3, LocalType
<1>5. CASE Return(r)
  BY <1>5, EndedOK, LocalType DEF Return
<1>6. CASE Kill(r)
  BY <1>6, EndedOK, LocalType DEF Kill
<1> QED
  BY <1>2, <1>3, <1>4, <1>5, <1>6

LEMMA CacheType ==
  ASSUME TypeInv, NEW r \in Runs,
         CacheSuffices(r) \/ RefillCache(r) \/ RefillFails(r) \/ SaveProblemCache(r) \/ SelectNext(r)
  PROVE  TypeInv'
<1>1. LocalOK(run[r]) /\ run[r] \in RunState /\ Working(r)
  BY DEF TypeInv, LocalOK, Working, WorkingPcs, CacheSuffices, RefillCache, RefillFails,
         SaveProblemCache, SelectNext
<1>2. CASE CacheSuffices(r)
  BY <1>1, <1>2, MovedOn, LocalType DEF CacheSuffices, LivePcs, WorkingPcs, PostingPcs
<1>3. CASE RefillCache(r)
  <2>1. PICK list \in FetchLists : Local(r, [run[r] EXCEPT !.pc = "saveCache", !.cache = list])
    BY <1>3 DEF RefillCache
  <2>2. list \in SUBSET (Nat \ {0})
    BY ConstantsAssumption
  <2>3. LocalOK([run[r] EXCEPT !.pc = "saveCache", !.cache = list])
    BY <1>1, <2>2 DEF LocalOK, RunState, LivePcs, WorkingPcs, PostingPcs, Working
  <2> QED
    BY <2>1, <2>3, LocalType
<1>4. CASE RefillFails(r)
  BY <1>1, <1>4, MovedOn, LocalType DEF RefillFails, LivePcs, WorkingPcs, PostingPcs
<1>5. CASE SaveProblemCache(r)
  <2>1. LocalOK(GuildDone(r, TRUE))
    BY <1>1, GuildDoneOK
  <2>2. LocalOK([run[r] EXCEPT !.pc = "select", !.cacheVer = cacheDoc.gen + 1])
    <3>1. cacheDoc.gen + 1 \in Nat
      BY DEF TypeInv, TypeOK
    <3>2. ASSUME NEW m \in Nat
          PROVE  LocalOK([run[r] EXCEPT !.pc = "select", !.cacheVer = m])
      BY <1>1 DEF LocalOK, RunState, LivePcs, WorkingPcs, PostingPcs, Working
    <3> QED
      BY <3>1, <3>2
  <2>3. cacheDoc' \in [gen : Nat, problems : SUBSET (Nat \ {0})]
    <3>1. cacheDoc' = cacheDoc \/ cacheDoc' = [gen |-> cacheDoc.gen + 1, problems |-> run[r].cache]
      BY <1>5 DEF SaveProblemCache
    <3>2. /\ cacheDoc \in [gen : Nat, problems : SUBSET (Nat \ {0})]
          /\ run[r].cache \in SUBSET (Nat \ {0})
      BY <1>1 DEF RunState, TypeInv, TypeOK
    <3> QED
      BY <3>1, <3>2
  <2>4. UNCHANGED <<clock, stateDoc, threads, alerts>>
    BY <1>5 DEF SaveProblemCache
  <2>5. \/ Becomes(r, [run[r] EXCEPT !.pc = "select", !.cacheVer = cacheDoc.gen + 1])
        \/ Becomes(r, GuildDone(r, TRUE))
    BY <1>5 DEF SaveProblemCache
  <2> QED
    BY <2>1, <2>2, <2>3, <2>4, <2>5, BecomesType DEF TypeInv, TypeOK
<1>6. CASE SelectNext(r)
  <2>1. CASE Local(r, [run[r] EXCEPT !.pc = "notifyFailure"])
    BY <1>1, <2>1, MovedOn, LocalType DEF LivePcs, WorkingPcs, PostingPcs
  <2>2. ASSUME NEW n \in Available(r), Local(r, [run[r] EXCEPT !.pc = "tags", !.problem = n])
        PROVE  TypeInv'
    <3>1. n \in Nat
      BY <1>1 DEF Available, RunState
    <3>2. LocalOK([run[r] EXCEPT !.pc = "tags", !.problem = n])
      BY <1>1, <3>1 DEF LocalOK, RunState, LivePcs, WorkingPcs, PostingPcs, Working
    <3> QED
      BY <2>2, <3>2, LocalType
  <2> QED
    BY <1>6, <2>1, <2>2 DEF SelectNext
<1> QED
  BY <1>2, <1>3, <1>4, <1>5, <1>6

LEMMA ThreadsType ==
  ASSUME TypeInv, NEW r \in Runs, Working(r), NEW n \in Nat
  PROVE  threads \o NewThreads(r, n) \in Seq(Thread)
<1>1. /\ Current(r) \in Guilds /\ run[r].date \in Int /\ run[r].problem \in Nat
  BY RecordType DEF TypeInv, LocalOK, Working, RunState
<1>2. NewThreads(r, n) \in Seq(Thread)
  BY <1>1 DEF NewThreads, Thread
<1> QED
  BY <1>2 DEF TypeInv, TypeOK

LEMMA PostType ==
  ASSUME TypeInv, NEW r \in Runs,
         EnsureTags(r) \/ CreateForumThread(r) \/ AddReaction(r) \/ Wake(r)
  PROVE  TypeInv'
<1>1. LocalOK(run[r]) /\ run[r] \in RunState /\ Working(r)
  BY DEF TypeInv, LocalOK, Working, WorkingPcs, EnsureTags, CreateForumThread, AddReaction, Wake
<1>2. CASE EnsureTags(r)
  <2>1. LocalOK(Announce(r, 1))
    BY <1>1, AnnounceOK
  <2>2. MaxAttempts \in Nat
    BY ConstantsAssumption
  <2>3. LocalOK([run[r] EXCEPT !.pc = "saveRejected",
          !.mem[Current(r)].job = FailedJob(run[r].date, run[r].problem, MaxAttempts)])
    BY <1>1, <2>2, FailedOK DEF LivePcs, WorkingPcs, PostingPcs
  <2> QED
    BY <1>2, <2>1, <2>3, LocalType DEF EnsureTags
<1>3. CASE CreateForumThread(r)
  <2>1. run[r].attempt >= 1
    BY <1>1, <1>3 DEF CreateForumThread, LocalOK, PostingPcs
  <2>2. PICK n \in 0 .. MaxCopies : threads' = threads \o NewThreads(r, n)
        /\ (\/ Becomes(r, [run[r] EXCEPT !.pc = "react", !.thread = Len(threads) + n])
            \/ Becomes(r, [run[r] EXCEPT !.pc = "saveFailed",
                 !.mem[Current(r)].job = FailedJob(run[r].date, run[r].problem, run[r].attempt)]))
    BY <1>3 DEF CreateForumThread
  <2>3. n \in Nat /\ Len(threads) \in Nat
    BY ConstantsAssumption DEF TypeInv, TypeOK
  <2>4. LocalOK([run[r] EXCEPT !.pc = "react", !.thread = Len(threads) + n])
    <3>1. Len(threads) + n \in Nat
      BY <2>3
    <3>2. ASSUME NEW m \in Nat
          PROVE  LocalOK([run[r] EXCEPT !.pc = "react", !.thread = m])
      BY <1>1, <2>1 DEF LocalOK, RunState, LivePcs, WorkingPcs, Working
    <3> QED
      BY <3>1, <3>2
  <2>5. run[r].attempt \in Nat
    BY <1>1 DEF RunState
  <2>6. LocalOK([run[r] EXCEPT !.pc = "saveFailed",
          !.mem[Current(r)].job = FailedJob(run[r].date, run[r].problem, run[r].attempt)])
    BY <1>1, <2>1, <2>5, FailedOK DEF LivePcs, WorkingPcs
  <2>7. UNCHANGED <<clock, stateDoc, cacheDoc, alerts>>
    BY <1>3 DEF CreateForumThread
  <2>8. threads' \in Seq(Thread)
    BY <1>1, <2>2, <2>3, ThreadsType
  <2> QED
    BY <2>2, <2>4, <2>6, <2>7, <2>8, BecomesType DEF TypeInv, TypeOK
<1>4. CASE AddReaction(r)
  <2>1. run[r].attempt >= 1 /\ run[r].pc = "react"
    BY <1>1, <1>4 DEF AddReaction, LocalOK, PostingPcs
  <2>2. LocalOK(Posted(r))
    BY <2>1, PostedOK
  <2>3. LocalOK([run[r] EXCEPT !.pc = "notifyReaction"])
    BY <1>1, <2>1, MovedOn DEF LivePcs, WorkingPcs
  <2> QED
    BY <1>4, <2>2, <2>3, LocalType DEF AddReaction
<1>5. CASE Wake(r)
  <2>1. run[r].attempt + 1 \in Nat \ {0}
    BY <1>1 DEF RunState
  <2> QED
    BY <1>1, <1>5, <2>1, AnnounceOK, LocalType DEF Wake
<1> QED
  BY <1>2, <1>3, <1>4, <1>5

LEMMA SavesType ==
  ASSUME TypeInv, NEW r \in Runs,
         SaveRecovered(r) \/ SaveRejected(r) \/ SavePosting(r) \/ SavePosted(r) \/ SaveFailed(r)
  PROVE  TypeInv'
<1>1. LocalOK(run[r]) /\ run[r] \in RunState /\ Working(r)
  BY DEF TypeInv, LocalOK, Working, WorkingPcs, SaveRecovered, SaveRejected, SavePosting,
         SavePosted, SaveFailed, SaveState
<1>2. CASE SaveRecovered(r)
  <2>1. LocalOK([run[r] EXCEPT !.pc = "refresh"])
    BY <1>1, MovedOn DEF LivePcs, WorkingPcs, PostingPcs
  <2> QED
    BY <1>2, <2>1, SaveType DEF SaveRecovered, WorkingPcs
<1>3. CASE SaveRejected(r)
  <2>1. LocalOK([run[r] EXCEPT !.pc = "notifyFailure"])
    BY <1>1, MovedOn DEF LivePcs, WorkingPcs, PostingPcs
  <2> QED
    BY <1>3, <2>1, SaveType DEF SaveRejected, WorkingPcs
<1>4. CASE SavePosting(r)
  <2>1. run[r].attempt >= 1
    BY <1>1, <1>4 DEF SavePosting, SaveState, LocalOK, PostingPcs
  <2>2. LocalOK([run[r] EXCEPT !.pc = "create"])
    BY <1>1, <2>1, MovedOn DEF LivePcs, WorkingPcs
  <2> QED
    BY <1>4, <2>2, SaveType DEF SavePosting, WorkingPcs
<1>5. CASE SavePosted(r)
  <2>1. LocalOK(GuildDone(r, FALSE))
    BY <1>1, GuildDoneOK
  <2> QED
    BY <1>5, <2>1, SaveType DEF SavePosted, WorkingPcs
<1>6. CASE SaveFailed(r)
  <2>1. run[r].attempt >= 1
    BY <1>1, <1>6 DEF SaveFailed, SaveState, LocalOK, PostingPcs
  <2>2. clock + RetryInterval \in Nat
    BY ConstantsAssumption DEF TypeInv, TypeOK
  <2>3. LocalOK([run[r] EXCEPT !.pc = "sleep", !.wake = clock + RetryInterval])
    BY <1>1, <2>1, <2>2 DEF LocalOK, RunState, LivePcs, WorkingPcs, Working
  <2>4. LocalOK([run[r] EXCEPT !.pc = "notifyFailure"])
    BY <1>1, MovedOn DEF LivePcs, WorkingPcs, PostingPcs
  <2> DEFINE next == IF run[r].attempt < MaxAttempts
                       THEN [run[r] EXCEPT !.pc = "sleep", !.wake = clock + RetryInterval]
                       ELSE [run[r] EXCEPT !.pc = "notifyFailure"]
  <2>5. LocalOK(next) /\ SaveState(r, "saveFailed", next)
    BY <1>6, <2>3, <2>4 DEF SaveFailed
  <2> HIDE DEF next
  <2> QED
    BY <2>5, SaveType DEF WorkingPcs
<1> QED
  BY <1>2, <1>3, <1>4, <1>5, <1>6

LEMMA NotifyType ==
  ASSUME TypeInv, NEW r \in Runs, NotifyFailure(r) \/ NotifyStaleCache(r) \/ NotifyReaction(r)
  PROVE  TypeInv'
<1>1. LocalOK(run[r]) /\ run[r] \in RunState /\ Working(r)
  BY DEF TypeInv, LocalOK, Working, WorkingPcs, NotifyFailure, NotifyStaleCache, NotifyReaction
<1>2. Current(r) \in Guilds /\ run[r].date \in Int
  BY <1>1, RecordType DEF LocalOK, Working, RunState
<1>3. alerts' \subseteq Guilds \X Int
  <2>1. alerts' = alerts \/ alerts' = alerts \cup {<<Current(r), run[r].date>>}
    BY DEF NotifyFailure, NotifyStaleCache, NotifyReaction, Deliver
  <2>2. alerts \subseteq Guilds \X Int /\ <<Current(r), run[r].date>> \in Guilds \X Int
    BY <1>2 DEF TypeInv, TypeOK
  <2> QED
    BY <2>1, <2>2
<1>4. UNCHANGED <<clock, stateDoc, cacheDoc, threads>>
  BY DEF NotifyFailure, NotifyStaleCache, NotifyReaction
<1>5. LocalOK(GuildDone(r, TRUE)) /\ LocalOK([run[r] EXCEPT !.pc = "select"])
  BY <1>1, GuildDoneOK, MovedOn DEF LivePcs, WorkingPcs, PostingPcs
<1>6. CASE NotifyFailure(r)
  BY <1>3, <1>4, <1>5, <1>6, BecomesType DEF NotifyFailure, TypeInv, TypeOK
<1>7. CASE NotifyStaleCache(r)
  BY <1>3, <1>4, <1>5, <1>7, BecomesType DEF NotifyStaleCache, TypeInv, TypeOK
<1>8. CASE NotifyReaction(r)
  <2>1. LocalOK(Posted(r))
    BY <1>8, PostedOK DEF NotifyReaction
  <2> QED
    BY <1>3, <1>4, <1>8, <2>1, BecomesType DEF NotifyReaction, TypeInv, TypeOK
<1> QED
  BY <1>6, <1>7, <1>8

\* A step of one run, or its death.
Acts(r) == Start(r) \/ Step(r) \/ Kill(r)

LEMMA ActsType == ASSUME TypeInv, NEW r \in Runs, Acts(r) PROVE TypeInv'
<1>1. CASE Start(r) \/ LoadState(r) \/ LoadProblemCache(r) \/ LoadFails(r)
  BY <1>1, LoadType
<1>2. CASE SkipGuild(r) \/ TakeOverStale(r) \/ BeginGuild(r) \/ Return(r) \/ Kill(r)
  BY <1>2, GuildType
<1>3. CASE CacheSuffices(r) \/ RefillCache(r) \/ RefillFails(r) \/ SaveProblemCache(r) \/ SelectNext(r)
  BY <1>3, CacheType
<1>4. CASE EnsureTags(r) \/ CreateForumThread(r) \/ AddReaction(r) \/ Wake(r)
  BY <1>4, PostType
<1>5. CASE SaveRecovered(r) \/ SaveRejected(r) \/ SavePosting(r) \/ SavePosted(r) \/ SaveFailed(r)
  BY <1>5, SavesType
<1>6. CASE NotifyFailure(r) \/ NotifyStaleCache(r) \/ NotifyReaction(r)
  BY <1>6, NotifyType
<1> QED
  BY <1>1, <1>2, <1>3, <1>4, <1>5, <1>6 DEF Acts, Step

\* What a step is made of, under the scheduler and behind the HTTP server.
LEMMA NextActs ==
  ASSUME [Next]_vars
  PROVE  (\E r \in Runs : Acts(r)) \/ Tick \/ UNCHANGED vars
BY DEF Next, Acts, Crash, Timeout

LEMMA HttpActs ==
  ASSUME [HttpNext]_httpVars
  PROVE  (\E r \in Runs : Acts(r)) \/ Exit \/ Tick \/ UNCHANGED vars
BY DEF HttpNext, PostRun, RunStep, Disconnect, Signal, Restart, Pass, Acts, httpVars

LEMMA IdleType == ASSUME TypeInv, Tick \/ UNCHANGED vars PROVE TypeInv'
BY DEF Tick, vars, TypeInv, TypeOK, LocalOK

LEMMA ExitType == ASSUME TypeInv, Exit PROVE TypeInv'
<1>1. \A r \in Runs : LocalOK(Ended(r, "killed")) /\ LocalOK(run[r])
  BY EndedOK DEF TypeInv
<1>2. \A r \in Runs : LocalOK(run'[r])
  BY <1>1 DEF Exit
<1>3. run' \in [Runs -> RunState]
  <2>1. \A r \in Runs : run'[r] \in RunState
    BY <1>2 DEF LocalOK
  <2>2. run' = [r \in Runs |-> run'[r]]
    BY DEF Exit
  <2> QED BY <2>1, <2>2
<1> QED
  BY <1>2, <1>3 DEF Exit, TypeInv, TypeOK

LEMMA NextType == TypeInv /\ [Next]_vars => TypeInv'
BY NextActs, ActsType, IdleType

LEMMA HttpNextType == TypeInv /\ [HttpNext]_httpVars => TypeInv'
BY HttpActs, ActsType, ExitType, IdleType

LEMMA TypeInvariant == Spec => []TypeInv
BY InitType, NextType, PTL DEF Spec

LEMMA HttpTypeInvariant == HttpSpec => []TypeInv
<1>1. HttpInit => TypeInv
  BY InitType DEF HttpInit
<1> QED
  BY <1>1, HttpNextType, PTL DEF HttpSpec

(* Type correctness: no interleaving, crash or failure of the runs takes a *)
(* document or a local variable out of its type, and a run at work always  *)
(* has a guild with a record.                                              *)
THEOREM TypeCorrect == Spec => []TypeOK
<1>1. TypeInv => TypeOK
  BY DEF TypeInv
<1> QED
  BY TypeInvariant, <1>1, PTL

-----------------------------------------------------------------------------
(* What a step of a run does to the documents, to its copies of them and   *)
(* to the forum; the invariants below need no more of the code than this.  *)

\* The run has its thread and has not yet recorded it.
ThreadPcs == {"react", "notifyReaction"}

\* The run has chosen its problem and not yet recorded it as posted.
ProblemPcs == {"tags", "savePosting", "create", "react", "notifyReaction", "saveFailed", "sleep"}

\* No thread goes away.
Extended == \A i \in DOMAIN threads : i \in DOMAIN threads' /\ threads'[i] = threads[i]

\* The next problem and the last post stay, and the job is not closed.
Reworked(rec, new) ==
  /\ new.next = rec.next /\ new.last = rec.last /\ new.thread = rec.thread
  /\ new.job = rec.job \/ new.job.status # "posted"

\* The record of g in the copy of r after a step of r: an old one, the stored one,
\* a new state of its job, or the record of the thread the run has.
RecordStep(r, g) ==
  \/ run'[r].mem[g] \in {Nil, run[r].mem[g], stateDoc.guilds[g]}
  \/ g = Current(r) /\ Reworked(EnsureGuild(r, g), run'[r].mem[g])
  \/ /\ g = Current(r) /\ run[r].pc \in ThreadPcs
     /\ run'[r].mem[g] = RecordPosted(Record(r), run[r].date, run[r].problem,
                                       run[r].attempt - 1, run[r].thread)

\* The guild, day and problem of the run's posting stay.
SamePosting(r) ==
  /\ run[r].pc \in ProblemPcs
  /\ run'[r].todo = run[r].todo /\ run'[r].date = run[r].date
  /\ run'[r].problem = run[r].problem /\ run'[r].cache = run[r].cache
  /\ Reworked(Record(r), run'[r].mem[Current(r)])

PostingStep(r) ==
  run'[r].pc \in ProblemPcs =>
    \/ /\ SamePosting(r)
       /\ run'[r].pc \in ThreadPcs =>
            \/ run[r].pc \in ThreadPcs /\ run'[r].thread = run[r].thread
            \/ /\ run'[r].thread \in DOMAIN threads'
               /\ threads'[run'[r].thread] = [guild |-> Current(r), date |-> run[r].date,
                                              number |-> run[r].problem]
    \/ /\ run'[r].pc \notin ThreadPcs
       /\ run'[r].todo = run[r].todo /\ run'[r].cache = run[r].cache
       /\ Reworked(Record(r), run'[r].mem[Current(r)])
       /\ run'[r].problem \in Available(r)
       /\ \A m \in Available(r) : run'[r].problem <= m

RunStepShape(r) ==
  /\ Extended
  /\ \A q \in Runs \ {r} : run'[q] = run[q]
  /\ UNCHANGED stateDoc \/ stateDoc'.guilds = run[r].mem
  /\ \A g \in Guilds : RecordStep(r, g)
  /\ PostingStep(r)
  /\ cacheDoc'.problems \in {cacheDoc.problems, run[r].cache}
  /\ run'[r].cache \in {run[r].cache, cacheDoc.problems, {}} \cup FetchLists

LEMMA BecomesRun ==
  ASSUME TypeInv, NEW r \in Runs, NEW l, Becomes(r, l)
  PROVE  run'[r] = l /\ \A q \in Runs \ {r} : run'[q] = run[q]
BY DEF Becomes, TypeInv, TypeOK

\* A step that leaves the copy of the state alone and does not choose a problem.
LEMMA QuietShape ==
  ASSUME TypeInv, NEW r \in Runs, NEW l, Becomes(r, l), UNCHANGED threads,
         UNCHANGED stateDoc \/ stateDoc'.guilds = run[r].mem,
         l.mem = run[r].mem \/ l.mem = NoGuilds \/ l.mem = stateDoc.guilds,
         l.pc \in ProblemPcs =>
           /\ run[r].pc \in ProblemPcs
           /\ l.pc \in ThreadPcs => run[r].pc \in ThreadPcs
           /\ l.mem = run[r].mem /\ l.todo = run[r].todo /\ l.date = run[r].date
           /\ l.problem = run[r].problem /\ l.cache = run[r].cache /\ l.thread = run[r].thread,
         cacheDoc'.problems \in {cacheDoc.problems, run[r].cache},
         l.cache \in {run[r].cache, cacheDoc.problems, {}} \cup FetchLists
  PROVE  RunStepShape(r)
<1>1. run'[r] = l /\ \A q \in Runs \ {r} : run'[q] = run[q]
  BY BecomesRun
<1>2. \A g \in Guilds : RecordStep(r, g)
  BY <1>1 DEF RecordStep, NoGuilds
<1>3. PostingStep(r)
  BY <1>1 DEF PostingStep, SamePosting, Reworked, Record, Current
<1> QED
  BY <1>1, <1>2, <1>3 DEF RunStepShape, Extended

LEMMA LoadShape ==
  ASSUME TypeInv, NEW r \in Runs,
         Start(r) \/ LoadState(r) \/ LoadProblemCache(r) \/ LoadFails(r) \/ Return(r) \/ Kill(r)
  PROVE  RunStepShape(r)
<1>1. run[r] \in RunState
  BY DEF TypeInv, LocalOK
<1>2. ASSUME NEW how \in {"done", "killed"}, Local(r, Ended(r, how))
      PROVE  RunStepShape(r)
  BY <1>2, QuietShape DEF Local, Ended, NewRun, ProblemPcs
<1>3. CASE Start(r)
  BY <1>1, <1>3, QuietShape DEF Start, Local, RunState, ProblemPcs
<1>4. CASE LoadState(r)
  BY <1>1, <1>4, QuietShape DEF LoadState, Local, RunState, ProblemPcs
<1>5. CASE LoadProblemCache(r)
  BY <1>1, <1>5, QuietShape DEF LoadProblemCache, Local, RunState, ProblemPcs
<1>6. CASE LoadFails(r) \/ Return(r) \/ Kill(r)
  BY <1>2, <1>6 DEF LoadFails, Return, Kill
<1> QED
  BY <1>3, <1>4, <1>5, <1>6

\* The run leaves its guild.
LEMMA DoneShapes ==
  ASSUME TypeInv, NEW r \in Runs, NEW failed \in BOOLEAN, Becomes(r, GuildDone(r, failed)),
         UNCHANGED threads, UNCHANGED stateDoc \/ stateDoc'.guilds = run[r].mem,
         cacheDoc'.problems \in {cacheDoc.problems, run[r].cache}
  PROVE  RunStepShape(r)
<1>1. run[r] \in RunState
  BY DEF TypeInv, LocalOK
<1>2. /\ GuildDone(r, failed).pc = "guild" /\ GuildDone(r, failed).mem = run[r].mem
      /\ GuildDone(r, failed).cache = run[r].cache
  BY <1>1 DEF GuildDone, RunState
<1> QED
  BY <1>2, QuietShape DEF ProblemPcs

\* A step that replaces the record of the guild at hand.
LEMMA RecordShape ==
  ASSUME TypeInv, NEW r \in Runs, NEW l, Becomes(r, l), UNCHANGED <<stateDoc, cacheDoc>>, Extended,
         NEW rec, Current(r) \in Guilds, l.mem = [run[r].mem EXCEPT ![Current(r)] = rec],
         l.cache = run[r].cache, l.todo = run[r].todo,
         \/ Reworked(EnsureGuild(r, Current(r)), rec)
         \/ /\ run[r].pc \in ThreadPcs
            /\ rec = RecordPosted(Record(r), run[r].date, run[r].problem,
                                  run[r].attempt - 1, run[r].thread),
         l.pc \in ProblemPcs =>
           /\ run[r].pc \in ProblemPcs /\ l.pc \notin ThreadPcs
           /\ l.date = run[r].date /\ l.problem = run[r].problem
           /\ Reworked(Record(r), rec)
  PROVE  RunStepShape(r)
<1>1. run'[r] = l /\ \A q \in Runs \ {r} : run'[q] = run[q]
  BY BecomesRun
<1>2. run[r].mem \in GuildStates
  BY DEF TypeInv, LocalOK, RunState
<1>3. l.mem[Current(r)] = rec /\ \A g \in Guilds \ {Current(r)} : l.mem[g] = run[r].mem[g]
  BY <1>2 DEF GuildStates
<1>4. \A g \in Guilds : RecordStep(r, g)
  BY <1>1, <1>3 DEF RecordStep
<1>5. PostingStep(r)
  BY <1>1, <1>3 DEF PostingStep, SamePosting
<1> QED
  BY <1>1, <1>4, <1>5 DEF RunStepShape

LEMMA GuildShape ==
  ASSUME TypeInv, NEW r \in Runs, SkipGuild(r) \/ TakeOverStale(r) \/ BeginGuild(r)
  PROVE  RunStepShape(r)
<1>1. /\ run[r] \in RunState /\ Current(r) \in Guilds /\ run[r].pc = "guild"
      /\ EnsureGuild(r, Current(r)) \in GuildStateType
  BY RecordType DEF TypeInv, LocalOK, SkipGuild, TakeOverStale, BeginGuild
<1>2. CASE SkipGuild(r)
  BY <1>2, DoneShapes DEF SkipGuild, Local
<1>3. CASE TakeOverStale(r)
  <2> DEFINE rec == RecoverStalePosting(EnsureGuild(r, Current(r)), run[r].date)
             l == [run[r] EXCEPT !.pc = "saveRecovered", !.mem[Current(r)] = rec]
  <2>1. Reworked(EnsureGuild(r, Current(r)), rec)
    BY <1>1 DEF Reworked, RecoverStalePosting, GuildStateType, IdleJob
  <2>2. Local(r, l)
    BY <1>3 DEF TakeOverStale
  <2> HIDE DEF rec
  <2>3. /\ l.mem = [run[r].mem EXCEPT ![Current(r)] = rec] /\ l.cache = run[r].cache
        /\ l.todo = run[r].todo /\ l.pc \notin ProblemPcs
    BY <1>1 DEF RunState, ProblemPcs
  <2> HIDE DEF l
  <2> QED
    BY <1>1, <2>1, <2>2, <2>3, RecordShape DEF Local, Extended
<1>4. CASE BeginGuild(r)
  <2> DEFINE rec == EnsureGuild(r, Current(r))
             l == [run[r] EXCEPT !.pc = "refresh", !.mem[Current(r)] = rec]
  <2>1. Reworked(EnsureGuild(r, Current(r)), rec)
    BY DEF Reworked
  <2>2. Local(r, l)
    BY <1>4 DEF BeginGuild
  <2> HIDE DEF rec
  <2>3. /\ l.mem = [run[r].mem EXCEPT ![Current(r)] = rec] /\ l.cache = run[r].cache
        /\ l.todo = run[r].todo /\ l.pc \notin ProblemPcs
    BY <1>1 DEF RunState, ProblemPcs
  <2> HIDE DEF l
  <2> QED
    BY <1>1, <2>1, <2>2, <2>3, RecordShape DEF Local, Extended
<1> QED
  BY <1>2, <1>3, <1>4

\* A run at work has a record of its guild.
LEMMA WorkingRun ==
  ASSUME TypeInv, NEW r \in Runs, Working(r)
  PROVE  /\ run[r] \in RunState /\ Current(r) \in Guilds /\ run[r].todo # <<>>
         /\ Record(r) \in GuildStateType
         /\ EnsureGuild(r, Current(r)) = Record(r)
BY RecordType, NilAssumption DEF TypeInv, LocalOK, Working, EnsureGuild, Record, Current

LEMMA CacheShape ==
  ASSUME TypeInv, NEW r \in Runs,
         CacheSuffices(r) \/ RefillCache(r) \/ RefillFails(r) \/ SaveProblemCache(r) \/ SelectNext(r)
  PROVE  RunStepShape(r)
<1>1. run[r] \in RunState /\ Working(r)
  BY DEF TypeInv, LocalOK, Working, WorkingPcs, CacheSuffices, RefillCache, RefillFails,
         SaveProblemCache, SelectNext
<1>2. ASSUME NEW pc \in LivePcs, pc \notin ProblemPcs, Local(r, [run[r] EXCEPT !.pc = pc])
      PROVE  RunStepShape(r)
  BY <1>1, <1>2, QuietShape DEF Local, RunState
<1>3. CASE CacheSuffices(r) \/ RefillFails(r)
  BY <1>2, <1>3 DEF CacheSuffices, RefillFails, LivePcs, WorkingPcs, ProblemPcs
<1>4. CASE RefillCache(r)
  <2>1. PICK list \in FetchLists : Local(r, [run[r] EXCEPT !.pc = "saveCache", !.cache = list])
    BY <1>4 DEF RefillCache
  <2> QED
    BY <1>1, <2>1, QuietShape DEF Local, RunState, ProblemPcs
<1>5. CASE SaveProblemCache(r)
  <2>0. cacheDoc' = cacheDoc \/ cacheDoc' = [gen |-> cacheDoc.gen + 1, problems |-> run[r].cache]
    BY <1>5 DEF SaveProblemCache
  <2>1. /\ UNCHANGED <<stateDoc, threads>>
        /\ cacheDoc'.problems \in {cacheDoc.problems, run[r].cache}
    BY <1>5, <2>0 DEF SaveProblemCache
  <2>2. CASE Becomes(r, [run[r] EXCEPT !.pc = "select", !.cacheVer = cacheDoc.gen + 1])
    BY <1>1, <2>1, <2>2, QuietShape DEF RunState, ProblemPcs
  <2>3. CASE Becomes(r, GuildDone(r, TRUE))
    BY <2>1, <2>3, DoneShapes
  <2> QED
    BY <1>5, <2>2, <2>3 DEF SaveProblemCache
<1>6. CASE SelectNext(r)
  <2>1. CASE Local(r, [run[r] EXCEPT !.pc = "notifyFailure"])
    BY <1>2, <2>1 DEF LivePcs, WorkingPcs, ProblemPcs
  <2>2. ASSUME NEW n \in Available(r), \A m \in Available(r) : n <= m,
               Local(r, [run[r] EXCEPT !.pc = "tags", !.problem = n])
        PROVE  RunStepShape(r)
    <3> DEFINE l == [run[r] EXCEPT !.pc = "tags", !.problem = n]
    <3>1. /\ l.pc = "tags" /\ l.problem = n /\ l.mem = run[r].mem /\ l.todo = run[r].todo
          /\ l.cache = run[r].cache
      BY <1>1 DEF RunState
    <3>2. Local(r, l)
      BY <2>2
    <3> HIDE DEF l
    <3>3. run'[r] = l /\ \A q \in Runs \ {r} : run'[q] = run[q]
      BY <3>2, BecomesRun DEF Local
    <3>4. \A g \in Guilds : RecordStep(r, g)
      BY <3>1, <3>3 DEF RecordStep
    <3>5. PostingStep(r)
      BY <2>2, <3>1, <3>3 DEF PostingStep, Reworked, Record, ThreadPcs
    <3> QED
      BY <3>1, <3>2, <3>3, <3>4, <3>5 DEF RunStepShape, Extended, Local
  <2> QED
    BY <1>6, <2>1, <2>2 DEF SelectNext
<1> QED
  BY <1>3, <1>4, <1>5, <1>6

\* A new state of the job of the guild at hand.
LEMMA JobShape ==
  ASSUME TypeInv, NEW r \in Runs, Working(r), NEW l, Becomes(r, l), UNCHANGED <<stateDoc, cacheDoc>>,
         Extended, NEW job, job.status # "posted",
         l.mem = [run[r].mem EXCEPT ![Current(r)] = [Record(r) EXCEPT !.job = job]],
         l.cache = run[r].cache, l.todo = run[r].todo, l.pc \notin ThreadPcs,
         l.pc \in ProblemPcs =>
           run[r].pc \in ProblemPcs /\ l.date = run[r].date /\ l.problem = run[r].problem
  PROVE  RunStepShape(r)
<1>1. Current(r) \in Guilds /\ EnsureGuild(r, Current(r)) = Record(r)
  BY WorkingRun
<1>2. Reworked(Record(r), [Record(r) EXCEPT !.job = job])
  BY WorkingRun DEF Reworked, GuildStateType
<1> QED
  BY <1>1, <1>2, RecordShape

LEMMA AnnounceShape ==
  ASSUME TypeInv, NEW r \in Runs, NEW attempt, run[r].pc \in {"tags", "sleep"},
         Local(r, Announce(r, attempt))
  PROVE  RunStepShape(r)
<1> DEFINE job == PostingJob(run[r].date, run[r].problem, attempt - 1, clock)
           l == Announce(r, attempt)
<1>1. Working(r) /\ run[r].pc \in ProblemPcs
  BY DEF Working, WorkingPcs, ProblemPcs
<1>2. job.status # "posted"
  BY DEF PostingJob
<1>3. /\ l.mem = [run[r].mem EXCEPT ![Current(r)] = [Record(r) EXCEPT !.job = job]]
      /\ l.cache = run[r].cache /\ l.todo = run[r].todo /\ l.pc = "savePosting"
      /\ l.date = run[r].date /\ l.problem = run[r].problem
  BY <1>1, WorkingRun DEF Announce, RunState, Record
<1> HIDE DEF job, l
<1> QED
  BY <1>1, <1>2, <1>3, JobShape DEF Local, Extended, ThreadPcs, l

LEMMA FailedShape ==
  ASSUME TypeInv, NEW r \in Runs, run[r].pc \in {"tags", "create"}, NEW retry,
         NEW pc \in {"saveRejected", "saveFailed"}, UNCHANGED <<stateDoc, cacheDoc>>, Extended,
         Becomes(r, [run[r] EXCEPT !.pc = pc,
                       !.mem[Current(r)].job = FailedJob(run[r].date, run[r].problem, retry)])
  PROVE  RunStepShape(r)
<1> DEFINE job == FailedJob(run[r].date, run[r].problem, retry)
           l == [run[r] EXCEPT !.pc = pc, !.mem[Current(r)].job = job]
<1>1. Working(r) /\ run[r].pc \in ProblemPcs /\ Becomes(r, l)
  BY DEF Working, WorkingPcs, ProblemPcs
<1>2. job.status # "posted"
  BY DEF FailedJob
<1> HIDE DEF job
<1>3. /\ l.mem = [run[r].mem EXCEPT ![Current(r)] = [Record(r) EXCEPT !.job = job]]
      /\ l.cache = run[r].cache /\ l.todo = run[r].todo /\ l.pc = pc
      /\ l.date = run[r].date /\ l.problem = run[r].problem
  BY <1>1, WorkingRun DEF RunState, Record
<1> HIDE DEF l
<1> QED
  BY <1>1, <1>2, <1>3, JobShape DEF ThreadPcs

LEMMA PostedShape ==
  ASSUME TypeInv, NEW r \in Runs, run[r].pc \in ThreadPcs, Becomes(r, Posted(r)),
         UNCHANGED <<stateDoc, cacheDoc, threads>>
  PROVE  RunStepShape(r)
<1> DEFINE rec == RecordPosted(Record(r), run[r].date, run[r].problem, run[r].attempt - 1,
                               run[r].thread)
           l == Posted(r)
<1>1. Working(r)
  BY DEF Working, WorkingPcs, ThreadPcs
<1>2. /\ l.mem = [run[r].mem EXCEPT ![Current(r)] = rec]
      /\ l.cache = run[r].cache /\ l.todo = run[r].todo /\ l.pc \notin ProblemPcs
  BY <1>1, WorkingRun DEF Posted, RunState, Record, ProblemPcs
<1> HIDE DEF l
<1> QED
  BY <1>1, <1>2, WorkingRun, RecordShape DEF Extended, l

LEMMA SaveShape ==
  ASSUME TypeInv, NEW r \in Runs, NEW at, NEW next, SaveState(r, at, next),
         next \in RunState, next.mem = run[r].mem, next.cache = run[r].cache,
         next.pc \in ProblemPcs =>
           /\ run[r].pc \in ProblemPcs /\ next.pc \notin ThreadPcs
           /\ next.todo = run[r].todo /\ next.date = run[r].date
           /\ next.problem = run[r].problem /\ next.thread = run[r].thread
  PROVE  RunStepShape(r)
<1>0. UNCHANGED stateDoc \/ stateDoc' = [gen |-> stateDoc.gen + 1, guilds |-> run[r].mem]
  BY DEF SaveState, Writes, SaveErrors
<1>1. /\ UNCHANGED <<threads, cacheDoc>>
      /\ UNCHANGED stateDoc \/ stateDoc'.guilds = run[r].mem
  BY <1>0 DEF SaveState
<1>2. CASE Writes(r, next)
  <2> DEFINE l == [next EXCEPT !.ver = stateDoc.gen + 1]
  <2>1. /\ l.pc = next.pc /\ l.mem = next.mem /\ l.cache = next.cache /\ l.todo = next.todo
        /\ l.date = next.date /\ l.problem = next.problem /\ l.thread = next.thread
    BY DEF RunState
  <2>2. Becomes(r, l)
    BY <1>2 DEF Writes
  <2> HIDE DEF l
  <2> QED
    BY <1>1, <2>1, <2>2, QuietShape
<1>3. CASE SaveErrors(r)
  BY <1>1, <1>3, DoneShapes DEF SaveErrors
<1> QED
  BY <1>2, <1>3 DEF SaveState

LEMMA SavesShape ==
  ASSUME TypeInv, NEW r \in Runs,
         SaveRecovered(r) \/ SaveRejected(r) \/ SavePosting(r) \/ SavePosted(r) \/ SaveFailed(r)
  PROVE  RunStepShape(r)
<1>1. run[r] \in RunState /\ Working(r)
  BY DEF TypeInv, LocalOK, Working, WorkingPcs, SaveRecovered, SaveRejected, SavePosting,
         SavePosted, SaveFailed, SaveState
<1>2. ASSUME NEW pc \in {"refresh", "notifyFailure", "create"}, NEW at,
             SaveState(r, at, [run[r] EXCEPT !.pc = pc]), pc = "create" => at = "savePosting"
      PROVE  RunStepShape(r)
  <2>1. [run[r] EXCEPT !.pc = pc] \in RunState
    BY <1>1 DEF RunState, LivePcs, WorkingPcs
  <2>2. run[r].pc = at
    BY <1>2 DEF SaveState
  <2> QED
    BY <1>1, <1>2, <2>1, <2>2, SaveShape DEF RunState, ProblemPcs, ThreadPcs
<1>3. CASE SaveRecovered(r) \/ SaveRejected(r) \/ SavePosting(r)
  BY <1>2, <1>3 DEF SaveRecovered, SaveRejected, SavePosting
<1>4. CASE SavePosted(r)
  <2>1. /\ GuildDone(r, FALSE).pc = "guild" /\ GuildDone(r, FALSE).mem = run[r].mem
        /\ GuildDone(r, FALSE).cache = run[r].cache /\ GuildDone(r, FALSE) \in RunState
    BY <1>1, GuildDoneOK DEF GuildDone, RunState, LocalOK
  <2> QED
    BY <1>4, <2>1, SaveShape DEF SavePosted, ProblemPcs
<1>5. CASE SaveFailed(r)
  <2>1. CASE run[r].attempt < MaxAttempts
    <3> DEFINE next == [run[r] EXCEPT !.pc = "sleep", !.wake = clock + RetryInterval]
    <3>1. clock + RetryInterval \in Nat
      BY ConstantsAssumption DEF TypeInv, TypeOK
    <3>2. SaveState(r, "saveFailed", next) /\ run[r].pc = "saveFailed"
      BY <1>5, <2>1 DEF SaveFailed, SaveState
    <3>3. /\ next \in RunState /\ next.mem = run[r].mem /\ next.cache = run[r].cache
          /\ next.todo = run[r].todo /\ next.date = run[r].date /\ next.pc = "sleep"
          /\ next.problem = run[r].problem /\ next.thread = run[r].thread
      BY <1>1, <3>1 DEF RunState, LivePcs, WorkingPcs
    <3> HIDE DEF next
    <3> QED
      BY <3>2, <3>3, SaveShape DEF ProblemPcs, ThreadPcs
  <2>2. CASE ~(run[r].attempt < MaxAttempts)
    BY <1>2, <1>5, <2>2 DEF SaveFailed
  <2> QED
    BY <2>1, <2>2
<1> QED
  BY <1>3, <1>4, <1>5

\* The threads of a request are of the guild, day and problem of its run.
LEMMA CreateShape ==
  ASSUME TypeInv, NEW r \in Runs, CreateForumThread(r)
  PROVE  RunStepShape(r)
<1>1. run[r].pc = "create" /\ Working(r) /\ run[r] \in RunState /\ threads \in Seq(Thread)
  BY WorkingRun DEF CreateForumThread, Working, WorkingPcs, TypeInv, TypeOK
<1>2. PICK n \in 0 .. MaxCopies, ok \in BOOLEAN :
        /\ ok => n >= 1
        /\ threads' = threads \o NewThreads(r, n)
        /\ IF ok
             THEN Becomes(r, [run[r] EXCEPT !.pc = "react", !.thread = Len(threads) + n])
             ELSE Becomes(r, [run[r] EXCEPT !.pc = "saveFailed",
                    !.mem[Current(r)].job = FailedJob(run[r].date, run[r].problem, run[r].attempt)])
  BY <1>1 DEF CreateForumThread
<1>3. UNCHANGED <<stateDoc, cacheDoc>>
  BY DEF CreateForumThread
<1>4. n \in Nat /\ NewThreads(r, n) \in Seq(Thread) /\ Len(NewThreads(r, n)) = n
      /\ \A i \in 1 .. n : NewThreads(r, n)[i] =
           [guild |-> Current(r), date |-> run[r].date, number |-> run[r].problem]
  <2>1. n \in Nat
    BY ConstantsAssumption
  <2>2. [guild |-> Current(r), date |-> run[r].date, number |-> run[r].problem] \in Thread
    BY <1>1, WorkingRun DEF Thread, RunState
  <2> QED
    BY <2>1, <2>2 DEF NewThreads
<1>5. Extended
  BY <1>1, <1>2, <1>4 DEF Extended
<1>6. CASE ok
  <2> DEFINE l == [run[r] EXCEPT !.pc = "react", !.thread = Len(threads) + n]
  <2>1. /\ l.pc = "react" /\ l.mem = run[r].mem /\ l.todo = run[r].todo /\ l.cache = run[r].cache
        /\ l.date = run[r].date /\ l.problem = run[r].problem /\ l.thread = Len(threads) + n
    BY <1>1 DEF RunState
  <2>2. Becomes(r, l)
    BY <1>2, <1>6
  <2>3. /\ l.thread \in DOMAIN threads'
        /\ threads'[l.thread] = [guild |-> Current(r), date |-> run[r].date, number |-> run[r].problem]
    BY <1>1, <1>2, <1>4, <1>6, <2>1
  <2> HIDE DEF l
  <2>4. run'[r] = l /\ \A q \in Runs \ {r} : run'[q] = run[q]
    BY <2>2, BecomesRun
  <2>5. \A g \in Guilds : RecordStep(r, g)
    BY <2>1, <2>4 DEF RecordStep
  <2>6. PostingStep(r)
    BY <1>1, <2>1, <2>3, <2>4 DEF PostingStep, SamePosting, Reworked, Record, ProblemPcs
  <2> QED
    BY <1>3, <1>5, <2>1, <2>4, <2>5, <2>6 DEF RunStepShape
<1>7. CASE ~ok
  BY <1>1, <1>2, <1>3, <1>5, <1>7, FailedShape
<1> QED
  BY <1>6, <1>7

LEMMA PostShape ==
  ASSUME TypeInv, NEW r \in Runs, EnsureTags(r) \/ AddReaction(r) \/ Wake(r)
  PROVE  RunStepShape(r)
<1>1. CASE EnsureTags(r)
  <2>1. run[r].pc = "tags"
    BY <1>1 DEF EnsureTags
  <2>2. CASE Local(r, Announce(r, 1))
    BY <2>1, <2>2, AnnounceShape
  <2>3. CASE Local(r, [run[r] EXCEPT !.pc = "saveRejected",
               !.mem[Current(r)].job = FailedJob(run[r].date, run[r].problem, MaxAttempts)])
    BY <2>1, <2>3, FailedShape DEF Local, Extended
  <2> QED
    BY <1>1, <2>2, <2>3 DEF EnsureTags
<1>2. CASE AddReaction(r)
  <2>1. run[r].pc = "react" /\ run[r] \in RunState /\ UNCHANGED <<stateDoc, cacheDoc, threads>>
    BY <1>2 DEF AddReaction, TypeInv, LocalOK, Local
  <2>2. CASE Becomes(r, Posted(r))
    BY <2>1, <2>2, PostedShape DEF ThreadPcs
  <2>3. CASE Becomes(r, [run[r] EXCEPT !.pc = "notifyReaction"])
    BY <2>1, <2>3, QuietShape DEF RunState, ProblemPcs, ThreadPcs
  <2> QED
    BY <1>2, <2>2, <2>3 DEF AddReaction, Local
<1>3. CASE Wake(r)
  BY <1>3, AnnounceShape DEF Wake
<1> QED
  BY <1>1, <1>2, <1>3

LEMMA NotifyShape ==
  ASSUME TypeInv, NEW r \in Runs, NotifyFailure(r) \/ NotifyStaleCache(r) \/ NotifyReaction(r)
  PROVE  RunStepShape(r)
<1>1. run[r] \in RunState /\ UNCHANGED <<stateDoc, cacheDoc, threads>>
  BY DEF TypeInv, LocalOK, NotifyFailure, NotifyStaleCache, NotifyReaction
<1>2. CASE Becomes(r, GuildDone(r, TRUE))
  BY <1>1, <1>2, DoneShapes
<1>3. CASE Becomes(r, [run[r] EXCEPT !.pc = "select"])
  BY <1>1, <1>3, QuietShape DEF RunState, ProblemPcs
<1>4. CASE NotifyReaction(r)
  BY <1>1, <1>4, PostedShape DEF NotifyReaction, ThreadPcs
<1> QED
  BY <1>2, <1>3, <1>4 DEF NotifyFailure, NotifyStaleCache

LEMMA ActsShape ==
  ASSUME TypeInv, NEW r \in Runs, Acts(r)
  PROVE  RunStepShape(r)
BY LoadShape, GuildShape, CacheShape, SavesShape, CreateShape, PostShape, NotifyShape DEF Acts, Step

-----------------------------------------------------------------------------
(* The records and the forum.  Every record, stored or in a copy, agrees   *)
(* with the forum, and so does a thread that is not yet recorded.          *)

RecordTrue(g, rec) ==
  rec # Nil => MatchesForum(g, rec) /\ (rec.job.status = "posted" => rec.last # Nil)

ThreadMade(l) ==
  l.pc \in ThreadPcs =>
    /\ l.thread \in DOMAIN threads
    /\ threads[l.thread] = [guild |-> Head(l.todo), date |-> l.date, number |-> l.problem]

ForumInv ==
  /\ \A g \in Guilds : RecordTrue(g, stateDoc.guilds[g])
  /\ \A r \in Runs : ThreadMade(run[r]) /\ \A g \in Guilds : RecordTrue(g, run[r].mem[g])

LEMMA TrueStays ==
  ASSUME Extended, NEW g, NEW rec, RecordTrue(g, rec)
  PROVE  RecordTrue(g, rec)'
BY DEF Extended, RecordTrue, MatchesForum

LEMMA ReworkedTrue ==
  ASSUME NEW g, NEW rec, RecordTrue(g, rec), rec # Nil, NEW new, Reworked(rec, new)
  PROVE  RecordTrue(g, new)
BY DEF RecordTrue, MatchesForum, Reworked

\* The default record of a guild names no thread.
LEMMA EnsuredTrue ==
  ASSUME TypeInv, ForumInv, NEW r \in Runs, NEW g \in Guilds
  PROVE  RecordTrue(g, EnsureGuild(r, g)) /\ EnsureGuild(r, g) # Nil
<1>1. DefaultGuildState(StartNumber[g]) \in GuildStateType
  BY ConstantsAssumption DEF DefaultGuildState, IdleJob, GuildStateType, JobState, JobStatus
<1>2. RecordTrue(g, DefaultGuildState(StartNumber[g]))
  BY DEF RecordTrue, MatchesForum, DefaultGuildState, IdleJob
<1> QED
  BY <1>1, <1>2, NilAssumption DEF ForumInv, EnsureGuild

LEMMA PostedTrue ==
  ASSUME TypeInv, NEW r \in Runs, run[r].pc \in ThreadPcs, ThreadMade(run[r])
  PROVE  RecordTrue(Current(r), RecordPosted(Record(r), run[r].date, run[r].problem,
                                             run[r].attempt - 1, run[r].thread))
<1>1. run[r] \in RunState /\ run[r].problem \in Nat /\ run[r].problem # Nil
  BY NilAssumption DEF TypeInv, LocalOK, RunState
<1>2. /\ run[r].thread \in DOMAIN threads
      /\ threads[run[r].thread].guild = Current(r)
      /\ threads[run[r].thread].number = run[r].problem
      /\ threads[run[r].thread].date = run[r].date
  BY DEF ThreadMade, Current
<1> QED
  BY <1>1, <1>2 DEF RecordTrue, MatchesForum, RecordPosted, PostedJob

LEMMA ActsForum ==
  ASSUME TypeInv, ForumInv, NEW r \in Runs, Acts(r)
  PROVE  ForumInv'
<1>0. RunStepShape(r)
  BY ActsShape
<1>1. Extended /\ \A q \in Runs \ {r} : run'[q] = run[q]
  BY <1>0 DEF RunStepShape
<1>2. ASSUME NEW g \in Guilds, NEW rec, RecordTrue(g, rec)
      PROVE  RecordTrue(g, rec)'
  BY <1>1, <1>2, TrueStays
<1>3. ASSUME NEW g \in Guilds
      PROVE  RecordTrue(g, stateDoc.guilds[g])'
  <2>1. stateDoc'.guilds[g] \in {stateDoc.guilds[g], run[r].mem[g]}
    BY <1>0 DEF RunStepShape
  <2> QED
    BY <1>2, <2>1 DEF ForumInv
<1>4. ASSUME NEW g \in Guilds
      PROVE  RecordTrue(g, run[r].mem[g])'
  <2> DEFINE new == run'[r].mem[g]
  <2>1. RecordStep(r, g)
    BY <1>0 DEF RunStepShape
  <2>2. RecordTrue(g, new)
    <3>1. CASE new \in {Nil, run[r].mem[g], stateDoc.guilds[g]}
      BY <3>1 DEF ForumInv, RecordTrue
    <3>2. CASE Reworked(EnsureGuild(r, g), new)
      BY <3>2, EnsuredTrue, ReworkedTrue
    <3>3. CASE /\ g = Current(r) /\ run[r].pc \in ThreadPcs
               /\ new = RecordPosted(Record(r), run[r].date, run[r].problem,
                                     run[r].attempt - 1, run[r].thread)
      BY <3>3, PostedTrue DEF ForumInv
    <3> QED
      BY <2>1, <3>1, <3>2, <3>3 DEF RecordStep
  <2>3. \A rec : RecordTrue(g, rec) => RecordTrue(g, rec)'
    BY <1>2
  <2> QED
    BY <2>2, <2>3
<1>5. ThreadMade(run[r])'
  <2> SUFFICES ASSUME run'[r].pc \in ThreadPcs PROVE ThreadMade(run[r])'
    BY DEF ThreadMade
  <2>1. /\ SamePosting(r)
        /\ \/ run[r].pc \in ThreadPcs /\ run'[r].thread = run[r].thread
           \/ /\ run'[r].thread \in DOMAIN threads'
              /\ threads'[run'[r].thread] = [guild |-> Current(r), date |-> run[r].date,
                                             number |-> run[r].problem]
    BY <1>0 DEF RunStepShape, PostingStep, ThreadPcs, ProblemPcs
  <2> QED
    BY <1>1, <2>1 DEF SamePosting, ForumInv, ThreadMade, Extended, Current
<1>6. ASSUME NEW q \in Runs, q # r
      PROVE  ThreadMade(run[q])' /\ \A g \in Guilds : RecordTrue(g, run[q].mem[g])'
  <2>1. run'[q] = run[q]
    BY <1>1, <1>6
  <2>2. ThreadMade(run[q])'
    BY <1>1, <2>1 DEF ForumInv, ThreadMade, Extended
  <2>3. ASSUME NEW g \in Guilds PROVE RecordTrue(g, run[q].mem[g])'
    BY <1>2, <2>1 DEF ForumInv
  <2> QED
    BY <2>2, <2>3
<1> QED
  BY <1>3, <1>4, <1>5, <1>6 DEF ForumInv

LEMMA IdleForum ==
  ASSUME ForumInv, Tick \/ UNCHANGED vars PROVE ForumInv'
BY DEF Tick, vars, ForumInv, RecordTrue, MatchesForum, ThreadMade

\* The server takes every run with it, but no thread and no document.
LEMMA ExitForum == ASSUME ForumInv, Exit PROVE ForumInv'
<1>1. \A r \in Runs : run'[r] = run[r] \/ run'[r] = Ended(r, "killed")
  BY DEF Exit
<1>2. ASSUME NEW r \in Runs
      PROVE  /\ Ended(r, "killed").pc \notin ThreadPcs
             /\ \A g \in Guilds : Ended(r, "killed").mem[g] = Nil
  BY DEF Ended, NewRun, NoGuilds, ThreadPcs
<1> QED
  BY <1>1, <1>2 DEF Exit, ForumInv, RecordTrue, MatchesForum, ThreadMade

LEMMA InitForum == Init => ForumInv
<1> SUFFICES ASSUME Init PROVE ForumInv
  OBVIOUS
<1>1. \A r \in Runs : run[r].pc = "new" /\ run[r].mem = NoGuilds
  BY DEF Init, NewRun
<1>2. stateDoc.guilds = NoGuilds /\ \A g \in Guilds : NoGuilds[g] = Nil
  BY DEF Init, NoGuilds
<1> QED
  BY <1>1, <1>2 DEF ForumInv, RecordTrue, ThreadMade, ThreadPcs

LEMMA ForumTrue == ForumInv => LedgerMatchesForum
BY DEF ForumInv, RecordTrue, LedgerMatchesForum

(* Whatever fails, dies or overlaps, and whatever saves and answers are    *)
(* lost, a stored record names a thread that exists, of its guild, problem *)
(* and day.  No interval of the deployment is needed.                      *)
THEOREM RecordsAreTrue == Spec => []LedgerMatchesForum
<1>1. TypeInv /\ ForumInv /\ [Next]_vars => ForumInv'
  BY NextActs, ActsForum, IdleForum
<1> QED
  BY <1>1, InitForum, ForumTrue, TypeInvariant, PTL DEF Spec

(* The same behind the HTTP server, where runs have no time limit, live    *)
(* across midnight and die together when the server exits.                 *)
THEOREM HttpRecordsAreTrue == HttpSpec => []LedgerMatchesForum
<1>1. HttpInit => ForumInv
  BY InitForum DEF HttpInit
<1>2. TypeInv /\ ForumInv /\ [HttpNext]_httpVars => ForumInv'
  BY HttpActs, ActsForum, IdleForum, ExitForum
<1> QED
  BY <1>1, <1>2, ForumTrue, HttpTypeInvariant, PTL DEF HttpSpec

-----------------------------------------------------------------------------
(* The next problems.  Every number of a list below the next problem of a  *)
(* record has its thread, since a run chooses the smallest number left.    *)

Threaded(g, n) == \E i \in DOMAIN threads : threads[i].guild = g /\ threads[i].number = n

AllThreaded(g, rec) ==
  rec # Nil =>
    \A list \in Lists : \A n \in list : StartNumber[g] <= n /\ n < rec.next => Threaded(g, n)

ChoseNext(l) ==
  l.pc \in ProblemPcs =>
    /\ l.problem \in l.cache
    /\ \A n \in l.cache : n >= l.mem[Head(l.todo)].next => l.problem <= n

SkipInv ==
  /\ cacheDoc.problems \in Lists \cup {{}}
  /\ \A g \in Guilds : AllThreaded(g, stateDoc.guilds[g])
  /\ \A r \in Runs : /\ run[r].cache \in Lists \cup {{}}
                       /\ ChoseNext(run[r])
                       /\ \A g \in Guilds : AllThreaded(g, run[r].mem[g])

LEMMA ThreadedStays ==
  ASSUME Extended, NEW g, NEW rec, AllThreaded(g, rec)
  PROVE  AllThreaded(g, rec)'
BY DEF Extended, AllThreaded, Threaded

LEMMA NumbersType == \A list \in Lists : list \subseteq Nat
BY ConstantsAssumption DEF Lists

LEMMA EnsuredThreaded ==
  ASSUME TypeInv, SkipInv, NEW r \in Runs, NEW g \in Guilds
  PROVE  AllThreaded(g, EnsureGuild(r, g)) /\ EnsureGuild(r, g) # Nil
<1>1. StartNumber[g] \in Nat /\ DefaultGuildState(StartNumber[g]).next = StartNumber[g]
      /\ DefaultGuildState(StartNumber[g]) \in GuildStateType
  BY ConstantsAssumption DEF DefaultGuildState, IdleJob, GuildStateType, JobState, JobStatus
<1>2. AllThreaded(g, DefaultGuildState(StartNumber[g]))
  BY <1>1, NumbersType DEF AllThreaded
<1> QED
  BY <1>1, <1>2, NilAssumption DEF SkipInv, EnsureGuild

\* The problem chosen is the next one of every list, not only of the run's own.
LEMMA PostedThreaded ==
  ASSUME TypeInv, ForumInv, SkipInv, NEW r \in Runs, run[r].pc \in ThreadPcs
  PROVE  AllThreaded(Current(r), RecordPosted(Record(r), run[r].date, run[r].problem,
                                              run[r].attempt - 1, run[r].thread))
<1> DEFINE g == Current(r)
<1>1. Working(r) /\ run[r].pc \in ProblemPcs
  BY DEF Working, WorkingPcs, ThreadPcs, ProblemPcs
<1>2. /\ Record(r) # Nil /\ Record(r).next \in Nat /\ run[r].problem \in Nat /\ g \in Guilds
  BY <1>1, WorkingRun, NilAssumption DEF RunState, GuildStateType
<1>3. Threaded(g, run[r].problem)
  <2>1. /\ run[r].thread \in DOMAIN threads
        /\ threads[run[r].thread] = [guild |-> g, date |-> run[r].date, number |-> run[r].problem]
    BY DEF ForumInv, ThreadMade, Current
  <2> QED
    BY <2>1 DEF Threaded
<1>4. run[r].problem \in run[r].cache /\ run[r].cache \in Lists
  BY <1>1 DEF SkipInv, ChoseNext
<1>5. \A n \in run[r].cache : n >= Record(r).next => run[r].problem <= n
  BY <1>1 DEF SkipInv, ChoseNext, Record, Current
<1>6. AllThreaded(g, Record(r))
  BY <1>2 DEF SkipInv, Record
<1>7. ASSUME NEW list \in Lists, NEW n \in list, StartNumber[g] <= n, n < run[r].problem + 1
      PROVE  Threaded(g, n)
  <2>1. n \in Nat
    BY NumbersType
  <2>2. CASE n = run[r].problem
    BY <1>3, <2>2
  <2>3. CASE n # run[r].problem
    <3>1. n < run[r].problem
      BY <1>2, <1>7, <2>1, <2>3
    <3>2. n \in run[r].cache
      BY <1>2, <1>4, <2>1, <3>1, ListsAssumption
    <3>3. n < Record(r).next
      BY <1>2, <1>5, <2>1, <3>1, <3>2
    <3> QED
      BY <1>2, <1>6, <1>7, <3>3 DEF AllThreaded
  <2> QED
    BY <2>2, <2>3
<1> QED
  BY <1>7 DEF AllThreaded, RecordPosted

LEMMA ActsSkip ==
  ASSUME TypeInv, ForumInv, SkipInv, NEW r \in Runs, Acts(r)
  PROVE  SkipInv'
<1>0. RunStepShape(r)
  BY ActsShape
<1>1. Extended /\ \A q \in Runs \ {r} : run'[q] = run[q]
  BY <1>0 DEF RunStepShape
<1>2. ASSUME NEW g \in Guilds, NEW rec, AllThreaded(g, rec)
      PROVE  AllThreaded(g, rec)'
  BY <1>1, <1>2, ThreadedStays
<1>3. cacheDoc'.problems \in Lists \cup {{}} /\ run'[r].cache \in Lists \cup {{}}
  BY <1>0 DEF RunStepShape, SkipInv, Lists
<1>4. ASSUME NEW g \in Guilds
      PROVE  AllThreaded(g, stateDoc.guilds[g])'
  <2>1. stateDoc'.guilds[g] \in {stateDoc.guilds[g], run[r].mem[g]}
    BY <1>0 DEF RunStepShape
  <2> QED
    BY <1>2, <2>1 DEF SkipInv
<1>5. ASSUME NEW g \in Guilds
      PROVE  AllThreaded(g, run[r].mem[g])'
  <2> DEFINE new == run'[r].mem[g]
  <2>1. RecordStep(r, g)
    BY <1>0 DEF RunStepShape
  <2>2. AllThreaded(g, new)
    <3>1. CASE new \in {Nil, run[r].mem[g], stateDoc.guilds[g]}
      BY <3>1 DEF SkipInv, AllThreaded
    <3>2. CASE Reworked(EnsureGuild(r, g), new)
      BY <3>2, EnsuredThreaded DEF Reworked, AllThreaded
    <3>3. CASE /\ g = Current(r) /\ run[r].pc \in ThreadPcs
               /\ new = RecordPosted(Record(r), run[r].date, run[r].problem,
                                     run[r].attempt - 1, run[r].thread)
      BY <3>3, PostedThreaded
    <3> QED
      BY <2>1, <3>1, <3>2, <3>3 DEF RecordStep
  <2>3. \A rec : AllThreaded(g, rec) => AllThreaded(g, rec)'
    BY <1>2
  <2> QED
    BY <2>2, <2>3
<1>6. ChoseNext(run[r])'
  <2> SUFFICES ASSUME run'[r].pc \in ProblemPcs PROVE ChoseNext(run[r])'
    BY DEF ChoseNext
  <2>1. /\ run'[r].todo = run[r].todo /\ run'[r].cache = run[r].cache
        /\ run'[r].mem[Current(r)].next = Record(r).next
    BY <1>0 DEF RunStepShape, PostingStep, SamePosting, Reworked
  <2>2. /\ run'[r].problem \in run[r].cache
        /\ \A n \in run[r].cache : n >= Record(r).next => run'[r].problem <= n
    <3>1. CASE SamePosting(r)
      BY <3>1 DEF SamePosting, SkipInv, ChoseNext, Record, Current
    <3>2. CASE /\ run'[r].problem \in Available(r)
               /\ \A m \in Available(r) : run'[r].problem <= m
      BY <3>2 DEF Available
    <3> QED
      BY <1>0, <3>1, <3>2 DEF RunStepShape, PostingStep
  <2> QED
    BY <2>1, <2>2 DEF ChoseNext, Current, Record
<1>7. ASSUME NEW q \in Runs, q # r
      PROVE  /\ run'[q].cache \in Lists \cup {{}} /\ ChoseNext(run[q])'
             /\ \A g \in Guilds : AllThreaded(g, run[q].mem[g])'
  <2>1. run'[q] = run[q]
    BY <1>1, <1>7
  <2>2. ASSUME NEW g \in Guilds PROVE AllThreaded(g, run[q].mem[g])'
    BY <1>2, <2>1 DEF SkipInv
  <2> QED
    BY <2>1, <2>2 DEF SkipInv, ChoseNext
<1> QED
  BY <1>3, <1>4, <1>5, <1>6, <1>7 DEF SkipInv

LEMMA IdleSkip ==
  ASSUME SkipInv, Tick \/ UNCHANGED vars PROVE SkipInv'
BY DEF Tick, vars, SkipInv, AllThreaded, Threaded, ChoseNext

LEMMA ExitSkip == ASSUME SkipInv, Exit PROVE SkipInv'
<1>1. \A r \in Runs : run'[r] = run[r] \/ run'[r] = Ended(r, "killed")
  BY DEF Exit
<1>2. ASSUME NEW r \in Runs
      PROVE  /\ Ended(r, "killed").pc \notin ProblemPcs /\ Ended(r, "killed").cache = {}
             /\ \A g \in Guilds : Ended(r, "killed").mem[g] = Nil
  BY DEF Ended, NewRun, NoGuilds, ProblemPcs
<1> QED
  BY <1>1, <1>2 DEF Exit, SkipInv, AllThreaded, Threaded, ChoseNext

LEMMA InitSkip == Init => SkipInv
<1> SUFFICES ASSUME Init PROVE SkipInv
  OBVIOUS
<1>1. \A r \in Runs : run[r].pc = "new" /\ run[r].mem = NoGuilds /\ run[r].cache = {}
  BY DEF Init, NewRun
<1>2. stateDoc.guilds = NoGuilds /\ \A g \in Guilds : NoGuilds[g] = Nil
  BY DEF Init, NoGuilds
<1>3. cacheDoc.problems \in Lists \cup {{}}
  BY DEF Init, Lists
<1> QED
  BY <1>1, <1>2, <1>3 DEF SkipInv, AllThreaded, ChoseNext, ProblemPcs

LEMMA SkipTrue == SkipInv => NoProblemSkipped
BY DEF SkipInv, AllThreaded, Threaded, NoProblemSkipped

(* However runs with older and newer caches and records mix, a guild's     *)
(* next problem moves past a number of the list only after the number has  *)
(* its thread.                                                             *)
THEOREM NothingSkipped == Spec => []NoProblemSkipped
<1>1. TypeInv /\ ForumInv /\ [Next]_vars => ForumInv'
  BY NextActs, ActsForum, IdleForum
<1>2. TypeInv /\ ForumInv /\ SkipInv /\ [Next]_vars => SkipInv'
  BY NextActs, ActsSkip, IdleSkip
<1> QED
  BY <1>1, <1>2, InitForum, InitSkip, SkipTrue, TypeInvariant, PTL DEF Spec

(* The same behind the HTTP server.                                        *)
THEOREM HttpNothingSkipped == HttpSpec => []NoProblemSkipped
<1>1. HttpInit => ForumInv /\ SkipInv
  BY InitForum, InitSkip DEF HttpInit
<1>2. TypeInv /\ ForumInv /\ [HttpNext]_httpVars => ForumInv'
  BY HttpActs, ActsForum, IdleForum, ExitForum
<1>3. TypeInv /\ ForumInv /\ SkipInv /\ [HttpNext]_httpVars => SkipInv'
  BY HttpActs, ActsSkip, IdleSkip, ExitSkip
<1> QED
  BY <1>1, <1>2, <1>3, SkipTrue, HttpTypeInvariant, PTL DEF HttpSpec
-----------------------------------------------------------------------------
(* No silent day.  A posting that a record announces has a run that        *)
(* answers for it, and a run answers for every guild it has left.          *)

Accounted(g, date) == HasThread(g, date) \/ \E q \in Runs : Answers(q, g, date)

AnnouncedAccounted(g, rec) ==
  rec # Nil /\ rec.job.status = "posting" => Accounted(g, rec.job.targetDate)

LoopPcs == WorkingPcs \cup {"guild", "done"}

\* Every enabled guild is still to come or accounted for.
Covers(l) ==
  l.pc \in LoopPcs =>
    \A i \in DOMAIN EnabledGuilds :
      \/ \E j \in DOMAIN l.todo : l.todo[j] = EnabledGuilds[i]
      \/ Accounted(EnabledGuilds[i], l.date)

SilentInv ==
  /\ \A g \in Guilds : AnnouncedAccounted(g, stateDoc.guilds[g])
  /\ \A r \in Runs :
       /\ \A g \in Guilds : AnnouncedAccounted(g, run[r].mem[g])
       /\ Covers(run[r])
       /\ run[r].pc = "savePosted" => HasThread(Current(r), run[r].date)
       /\ run[r].pc = "new" => run[r].errs = {}
       /\ run[r].pc = "done" => run[r].todo = <<>>

\* Ways to leave the guild at hand.
LeavesGuild(r) ==
  \/ Current(r) \in run'[r].errs
  \/ run[r].pc = "savePosted"
  \/ run[r].pc = "guild" /\ ShouldSkip(EnsureGuild(r, Current(r)), run[r].date, clock)

\* What a step of a run does to what it answers for.
AnswerStep(r) ==
  /\ run[r].errs \subseteq run'[r].errs
  /\ run[r].pc \notin {"killed", "done"} /\ run'[r].pc # "new"
  /\ run[r].pc # "new" => run'[r].date = run[r].date
  /\ Working(r) => \/ run'[r].pc \in WorkingPcs /\ run'[r].todo = run[r].todo
                   \/ run'[r].pc = "killed"
                   \/ LeavesGuild(r)
  /\ run'[r].pc \in LoopPcs =>
       \/ run[r].pc \in LoopPcs /\ run'[r].todo = run[r].todo
       \/ /\ run[r].pc \in LoopPcs /\ run[r].todo # <<>> /\ LeavesGuild(r)
          /\ run'[r].todo = Tail(run[r].todo)
       \/ run'[r].todo = EnabledGuilds
       \/ \A i \in DOMAIN EnabledGuilds : EnabledGuilds[i] \in run'[r].errs
  /\ \A g \in Guilds :
       \/ run'[r].mem[g] \in {Nil, run[r].mem[g], stateDoc.guilds[g]}
       \/ run'[r].mem[g].job.status # "posting"
       \/ /\ g = Head(run'[r].todo) /\ run'[r].pc \in WorkingPcs
          /\ run'[r].mem[g].job.targetDate = run'[r].date
  /\ run'[r].pc = "savePosted" =>
       run[r].pc \in ThreadPcs /\ run'[r].todo = run[r].todo
  /\ run'[r].pc = "done" => run'[r].todo = <<>>

\* The run goes on with the guild at hand.
LEMMA StaysAnswering ==
  ASSUME NEW r \in Runs, Working(r) \/ (run[r].pc = "guild" /\ run[r].todo # <<>>),
         run'[r].pc \in WorkingPcs, run'[r].pc = "savePosted" => run[r].pc \in ThreadPcs,
         run'[r].todo = run[r].todo, run'[r].date = run[r].date, run'[r].errs = run[r].errs,
         \A g \in Guilds :
           \/ run'[r].mem[g] = run[r].mem[g]
           \/ /\ g = Current(r)
              /\ run'[r].mem[g].job.status = "posting" =>
                   run'[r].mem[g].job.targetDate = run[r].date
  PROVE  AnswerStep(r)
<1>1. /\ run[r].pc \in LoopPcs /\ run[r].pc \notin {"killed", "done", "new"}
      /\ run'[r].pc \notin {"new", "done"}
  BY DEF Working, LoopPcs, WorkingPcs
<1> QED
  BY <1>1 DEF AnswerStep, Current

\* The run leaves the guild at hand.
LEMMA LeavesAnswering ==
  ASSUME TypeInv, NEW r \in Runs, NEW failed \in BOOLEAN, Becomes(r, GuildDone(r, failed)),
         Working(r) \/ (run[r].pc = "guild" /\ run[r].todo # <<>>),
         failed \/ LeavesGuild(r)
  PROVE  AnswerStep(r)
<1>1. run[r] \in RunState /\ run[r].todo # <<>>
  BY DEF TypeInv, LocalOK, Working
<1>2. run'[r] = GuildDone(r, failed)
  BY BecomesRun
<1>3. /\ run'[r].pc = "guild" /\ run'[r].mem = run[r].mem /\ run'[r].date = run[r].date
      /\ run'[r].todo = Tail(run[r].todo)
      /\ run'[r].errs = IF failed THEN run[r].errs \cup {Current(r)} ELSE run[r].errs
  BY <1>1, <1>2 DEF GuildDone, RunState
<1>4. LeavesGuild(r)
  BY <1>3 DEF LeavesGuild
<1>5. run[r].pc \in LoopPcs /\ run[r].pc \notin {"killed", "done", "new"}
  BY DEF Working, LoopPcs, WorkingPcs
<1> QED
  BY <1>1, <1>3, <1>4, <1>5 DEF AnswerStep

LEMMA LoadAnswers ==
  ASSUME TypeInv, SilentInv, NEW r \in Runs,
         Start(r) \/ LoadState(r) \/ LoadProblemCache(r) \/ LoadFails(r) \/ Return(r) \/ Kill(r)
  PROVE  AnswerStep(r)
<1>1. run[r] \in RunState
  BY DEF TypeInv, LocalOK
<1>2. ASSUME NEW how \in {"done", "killed"}, Local(r, Ended(r, how))
      PROVE  /\ run'[r].pc = how /\ run'[r].mem = NoGuilds /\ run'[r].date = run[r].date
             /\ run'[r].todo = <<>> /\ run'[r].errs = run[r].errs \cup Unloaded(r)
  <2>1. run'[r] = Ended(r, how)
    BY <1>2, BecomesRun DEF Local
  <2> QED
    BY <2>1 DEF Ended, NewRun
<1>3. CASE Start(r)
  <2>1. run'[r] = [run[r] EXCEPT !.pc = "loadState", !.born = clock, !.date = DateOf(clock)]
    BY <1>3, BecomesRun DEF Start, Local
  <2> QED
    BY <1>1, <1>3, <2>1 DEF Start, AnswerStep, RunState, Working, LoopPcs, WorkingPcs
<1>4. CASE LoadState(r)
  <2>1. run'[r] = [run[r] EXCEPT !.pc = "loadCache", !.mem = stateDoc.guilds,
                                 !.ver = stateDoc.gen]
    BY <1>4, BecomesRun DEF LoadState, Local
  <2> QED
    BY <1>1, <1>4, <2>1 DEF LoadState, AnswerStep, RunState, Working, LoopPcs, WorkingPcs
<1>5. CASE LoadProblemCache(r)
  <2>1. run'[r] = [run[r] EXCEPT !.pc = "guild", !.cache = cacheDoc.problems,
                                 !.cacheVer = cacheDoc.gen, !.todo = EnabledGuilds]
    BY <1>5, BecomesRun DEF LoadProblemCache, Local
  <2> QED
    BY <1>1, <1>5, <2>1 DEF LoadProblemCache, AnswerStep, RunState, Working, LoopPcs, WorkingPcs
<1>6. CASE LoadFails(r)
  <2>1. /\ run'[r].pc = "done" /\ run'[r].mem = NoGuilds /\ run'[r].date = run[r].date
        /\ run'[r].todo = <<>> /\ run'[r].errs = run[r].errs \cup Unloaded(r)
    BY <1>2, <1>6 DEF LoadFails
  <2>2. \A i \in DOMAIN EnabledGuilds : EnabledGuilds[i] \in run'[r].errs
    BY <1>6, <2>1 DEF LoadFails, Unloaded
  <2> QED
    BY <1>6, <2>1, <2>2 DEF LoadFails, AnswerStep, NoGuilds, Working, WorkingPcs
<1>7. CASE Return(r)
  <2>1. /\ run'[r].pc = "done" /\ run'[r].mem = NoGuilds /\ run'[r].date = run[r].date
        /\ run'[r].todo = <<>> /\ run[r].errs \subseteq run'[r].errs
    BY <1>2, <1>7 DEF Return
  <2> QED
    BY <1>7, <2>1 DEF Return, AnswerStep, NoGuilds, Working, LoopPcs, WorkingPcs
<1>8. CASE Kill(r)
  <2>1. /\ run'[r].pc = "killed" /\ run'[r].mem = NoGuilds /\ run'[r].date = run[r].date
        /\ run[r].errs \subseteq run'[r].errs
    BY <1>2, <1>8 DEF Kill
  <2> QED
    BY <1>8, <2>1 DEF Kill, Live, LivePcs, AnswerStep, NoGuilds, LoopPcs, WorkingPcs
<1> QED
  BY <1>3, <1>4, <1>5, <1>6, <1>7, <1>8

LEMMA GuildAnswers ==
  ASSUME TypeInv, NEW r \in Runs, SkipGuild(r) \/ TakeOverStale(r) \/ BeginGuild(r)
  PROVE  AnswerStep(r)
<1>1. run[r] \in RunState /\ run[r].pc = "guild" /\ run[r].todo # <<>>
  BY DEF TypeInv, LocalOK, SkipGuild, TakeOverStale, BeginGuild
<1>2. /\ Current(r) \in Guilds
      /\ EnsureGuild(r, Current(r)) \in GuildStateType
  BY <1>1, RecordType
<1>3. CASE SkipGuild(r)
  <2>1. LeavesGuild(r) /\ Becomes(r, GuildDone(r, FALSE))
    BY <1>3 DEF SkipGuild, LeavesGuild, Local
  <2> QED
    BY <1>1, <2>1, LeavesAnswering
<1>4. CASE TakeOverStale(r)
  <2> DEFINE rec == RecoverStalePosting(EnsureGuild(r, Current(r)), run[r].date)
  <2>1. rec.job.status # "posting"
    BY <1>2 DEF RecoverStalePosting, IdleJob, GuildStateType
  <2>2. run'[r] = [run[r] EXCEPT !.pc = "saveRecovered", !.mem[Current(r)] = rec]
    BY <1>4, BecomesRun DEF TakeOverStale, Local
  <2> HIDE DEF rec
  <2>3. /\ run'[r].pc = "saveRecovered" /\ run'[r].todo = run[r].todo
        /\ run'[r].date = run[r].date /\ run'[r].errs = run[r].errs
        /\ \A g \in Guilds : run'[r].mem[g] = IF g = Current(r) THEN rec ELSE run[r].mem[g]
    BY <1>1, <2>2 DEF RunState, GuildStates
  <2> QED
    BY <1>1, <2>1, <2>3, StaysAnswering DEF WorkingPcs
<1>5. CASE BeginGuild(r)
  <2> DEFINE rec == EnsureGuild(r, Current(r))
  <2>1. rec.job.status # "posting" \/ rec = run[r].mem[Current(r)]
    BY DEF EnsureGuild, DefaultGuildState, IdleJob
  <2>2. run'[r] = [run[r] EXCEPT !.pc = "refresh", !.mem[Current(r)] = rec]
    BY <1>5, BecomesRun DEF BeginGuild, Local
  <2> HIDE DEF rec
  <2>3. /\ run'[r].pc = "refresh" /\ run'[r].todo = run[r].todo
        /\ run'[r].date = run[r].date /\ run'[r].errs = run[r].errs
        /\ \A g \in Guilds : run'[r].mem[g] = IF g = Current(r) THEN rec ELSE run[r].mem[g]
    BY <1>1, <2>2 DEF RunState, GuildStates
  <2> QED
    BY <1>1, <2>1, <2>3, StaysAnswering DEF WorkingPcs
<1> QED
  BY <1>3, <1>4, <1>5

\* A step of a run at work that changes the job it records.
LEMMA JobAnswers ==
  ASSUME TypeInv, NEW r \in Runs, Working(r), NEW job,
         job.status = "posting" => job.targetDate = run[r].date,
         run'[r].pc \in WorkingPcs, run'[r].pc = "savePosted" => run[r].pc \in ThreadPcs,
         run'[r].todo = run[r].todo, run'[r].date = run[r].date, run'[r].errs = run[r].errs,
         run'[r].mem = [run[r].mem EXCEPT ![Current(r)].job = job]
  PROVE  AnswerStep(r)
<1>1. /\ run[r].mem \in GuildStates /\ Current(r) \in Guilds
      /\ run[r].mem[Current(r)] \in GuildStateType
  BY WorkingRun DEF RunState, Record
<1>2. ASSUME NEW g \in Guilds
      PROVE  \/ run'[r].mem[g] = run[r].mem[g]
             \/ g = Current(r) /\ run'[r].mem[g].job = job
  BY <1>1 DEF GuildStates, GuildStateType
<1> QED
  BY <1>2, StaysAnswering

LEMMA AnnounceAnswers ==
  ASSUME TypeInv, NEW r \in Runs, Working(r), NEW attempt, Local(r, Announce(r, attempt))
  PROVE  AnswerStep(r)
<1> DEFINE job == PostingJob(run[r].date, run[r].problem, attempt - 1, clock)
<1>1. job.targetDate = run[r].date
  BY DEF PostingJob
<1>2. run'[r] = [run[r] EXCEPT !.pc = "savePosting", !.attempt = attempt, !.wake = 0,
                               !.mem[Current(r)].job = job]
  BY BecomesRun DEF Local, Announce
<1>3. run[r] \in RunState
  BY WorkingRun
<1> HIDE DEF job
<1>4. /\ run'[r].pc = "savePosting" /\ run'[r].todo = run[r].todo
      /\ run'[r].date = run[r].date /\ run'[r].errs = run[r].errs
      /\ run'[r].mem = [run[r].mem EXCEPT ![Current(r)].job = job]
  BY <1>2, <1>3 DEF RunState
<1> QED
  BY <1>1, <1>4, JobAnswers DEF WorkingPcs

LEMMA FailedAnswers ==
  ASSUME TypeInv, NEW r \in Runs, Working(r), NEW retry, NEW pc \in WorkingPcs \ {"savePosted"},
         Becomes(r, [run[r] EXCEPT !.pc = pc,
                       !.mem[Current(r)].job = FailedJob(run[r].date, run[r].problem, retry)])
  PROVE  AnswerStep(r)
<1> DEFINE job == FailedJob(run[r].date, run[r].problem, retry)
<1>1. job.status # "posting"
  BY DEF FailedJob
<1>2. run'[r] = [run[r] EXCEPT !.pc = pc, !.mem[Current(r)].job = job]
  BY BecomesRun
<1>3. run[r] \in RunState
  BY WorkingRun
<1> HIDE DEF job
<1>4. /\ run'[r].pc = pc /\ run'[r].todo = run[r].todo
      /\ run'[r].date = run[r].date /\ run'[r].errs = run[r].errs
      /\ run'[r].mem = [run[r].mem EXCEPT ![Current(r)].job = job]
  BY <1>2, <1>3 DEF RunState
<1> QED
  BY <1>1, <1>4, JobAnswers

LEMMA PostedAnswers ==
  ASSUME TypeInv, NEW r \in Runs, run[r].pc \in ThreadPcs, Becomes(r, Posted(r))
  PROVE  AnswerStep(r)
<1> DEFINE rec == RecordPosted(Record(r), run[r].date, run[r].problem, run[r].attempt - 1,
                               run[r].thread)
<1>0. Working(r)
  BY DEF Working, WorkingPcs, ThreadPcs
<1>1. run[r] \in RunState /\ Current(r) \in Guilds
  BY <1>0, WorkingRun
<1>2. run'[r] = [run[r] EXCEPT !.pc = "savePosted", !.mem[Current(r)] = rec]
  BY BecomesRun DEF Posted, Record
<1>3. rec.job.status # "posting"
  BY DEF RecordPosted, PostedJob
<1> HIDE DEF rec
<1>4. /\ run'[r].pc = "savePosted" /\ run'[r].todo = run[r].todo
      /\ run'[r].date = run[r].date /\ run'[r].errs = run[r].errs
      /\ \A g \in Guilds : run'[r].mem[g] = IF g = Current(r) THEN rec ELSE run[r].mem[g]
  BY <1>1, <1>2 DEF RunState, GuildStates
<1> QED
  BY <1>0, <1>3, <1>4, StaysAnswering DEF WorkingPcs

LEMMA MovedAnswers ==
  ASSUME TypeInv, NEW r \in Runs, Working(r), NEW pc \in WorkingPcs \ {"savePosted"},
         Becomes(r, [run[r] EXCEPT !.pc = pc])
  PROVE  AnswerStep(r)
<1>1. run[r] \in RunState /\ run'[r] = [run[r] EXCEPT !.pc = pc]
  BY WorkingRun, BecomesRun
<1>2. /\ run'[r].pc = pc /\ run'[r].todo = run[r].todo /\ run'[r].mem = run[r].mem
      /\ run'[r].date = run[r].date /\ run'[r].errs = run[r].errs
  BY <1>1 DEF RunState
<1> QED
  BY <1>2, StaysAnswering

LEMMA CacheAnswers ==
  ASSUME TypeInv, NEW r \in Runs,
         CacheSuffices(r) \/ RefillCache(r) \/ RefillFails(r) \/ SaveProblemCache(r) \/ SelectNext(r)
  PROVE  AnswerStep(r)
<1>1. Working(r)
  <2>1. run[r].pc \in {"refresh", "saveCache", "select"}
    BY DEF CacheSuffices, RefillCache, RefillFails, SaveProblemCache, SelectNext
  <2> QED
    BY <2>1 DEF Working, WorkingPcs
<1>2. run[r] \in RunState
  BY <1>1, WorkingRun
<1>3. CASE CacheSuffices(r)
  BY <1>1, <1>3, MovedAnswers DEF CacheSuffices, Local, WorkingPcs
<1>4. CASE RefillCache(r)
  <2>1. PICK list \in FetchLists : Local(r, [run[r] EXCEPT !.pc = "saveCache", !.cache = list])
    BY <1>4 DEF RefillCache
  <2>2. run'[r] = [run[r] EXCEPT !.pc = "saveCache", !.cache = list]
    BY <2>1, BecomesRun DEF Local
  <2> QED
    BY <1>1, <1>2, <2>2, StaysAnswering DEF RunState, WorkingPcs
<1>5. CASE RefillFails(r)
  BY <1>1, <1>5, MovedAnswers DEF RefillFails, Local, WorkingPcs
<1>6. CASE SaveProblemCache(r)
  <2>1. CASE Becomes(r, [run[r] EXCEPT !.pc = "select", !.cacheVer = cacheDoc.gen + 1])
    <3>1. run'[r] = [run[r] EXCEPT !.pc = "select", !.cacheVer = cacheDoc.gen + 1]
      BY <2>1, BecomesRun
    <3> QED
      BY <1>1, <1>2, <3>1, StaysAnswering DEF RunState, WorkingPcs
  <2>2. CASE Becomes(r, GuildDone(r, TRUE))
    BY <1>1, <2>2, LeavesAnswering
  <2> QED
    BY <1>6, <2>1, <2>2 DEF SaveProblemCache
<1>7. CASE SelectNext(r)
  <2>1. CASE Local(r, [run[r] EXCEPT !.pc = "notifyFailure"])
    BY <1>1, <2>1, MovedAnswers DEF Local, WorkingPcs
  <2>2. ASSUME NEW n, Local(r, [run[r] EXCEPT !.pc = "tags", !.problem = n])
        PROVE  AnswerStep(r)
    <3>1. run'[r] = [run[r] EXCEPT !.pc = "tags", !.problem = n]
      BY <2>2, BecomesRun DEF Local
    <3> QED
      BY <1>1, <1>2, <3>1, StaysAnswering DEF RunState, WorkingPcs
  <2> QED
    BY <1>7, <2>1, <2>2 DEF SelectNext
<1> QED
  BY <1>3, <1>4, <1>5, <1>6, <1>7

\* A save that goes on to another step of the guild, or ends it with an error.
LEMMA SaveAnswers ==
  ASSUME TypeInv, NEW r \in Runs, NEW at \in WorkingPcs, NEW pc \in WorkingPcs \ {"savePosted"},
         NEW wake, SaveState(r, at, [run[r] EXCEPT !.pc = pc, !.wake = wake])
  PROVE  AnswerStep(r)
<1>1. Working(r)
  BY DEF SaveState, Working
<1>2. run[r] \in RunState
  BY <1>1, WorkingRun
<1>3. CASE SaveErrors(r)
  BY <1>1, <1>3, LeavesAnswering DEF SaveErrors
<1>4. CASE Writes(r, [run[r] EXCEPT !.pc = pc, !.wake = wake])
  <2> DEFINE l == [[run[r] EXCEPT !.pc = pc, !.wake = wake] EXCEPT !.ver = stateDoc.gen + 1]
  <2>1. Becomes(r, l)
    BY <1>4 DEF Writes
  <2>2. /\ l.pc = pc /\ l.todo = run[r].todo /\ l.date = run[r].date
        /\ l.errs = run[r].errs /\ l.mem = run[r].mem
    BY <1>2 DEF RunState
  <2> HIDE DEF l
  <2>3. run'[r] = l
    BY <2>1, BecomesRun
  <2> QED
    BY <1>1, <2>2, <2>3, StaysAnswering
<1> QED
  BY <1>3, <1>4 DEF SaveState

LEMMA SavesAnswers ==
  ASSUME TypeInv, NEW r \in Runs,
         SaveRecovered(r) \/ SaveRejected(r) \/ SavePosting(r) \/ SavePosted(r) \/ SaveFailed(r)
  PROVE  AnswerStep(r)
<1>1. run[r] \in RunState /\ Working(r)
  BY DEF TypeInv, LocalOK, Working, WorkingPcs, SaveState, SaveRecovered, SaveRejected,
         SavePosting, SavePosted, SaveFailed
<1>2. ASSUME NEW at \in WorkingPcs, NEW pc \in WorkingPcs \ {"savePosted"},
             SaveState(r, at, [run[r] EXCEPT !.pc = pc])
      PROVE  AnswerStep(r)
  <2>1. [run[r] EXCEPT !.pc = pc] = [run[r] EXCEPT !.pc = pc, !.wake = run[r].wake]
    BY <1>1 DEF RunState
  <2>2. SaveState(r, at, [run[r] EXCEPT !.pc = pc, !.wake = run[r].wake])
    BY <1>2, <2>1
  <2> QED
    BY <2>2, SaveAnswers
<1>3. CASE SaveRecovered(r)
  BY <1>2, <1>3 DEF SaveRecovered, WorkingPcs
<1>4. CASE SaveRejected(r)
  BY <1>2, <1>4 DEF SaveRejected, WorkingPcs
<1>5. CASE SavePosting(r)
  BY <1>2, <1>5 DEF SavePosting, WorkingPcs
<1>6. CASE SavePosted(r)
  <2>1. CASE SaveErrors(r)
    BY <1>1, <2>1, LeavesAnswering DEF SaveErrors
  <2>2. CASE Writes(r, GuildDone(r, FALSE))
    <3>1. run'[r] = [GuildDone(r, FALSE) EXCEPT !.ver = stateDoc.gen + 1]
      BY <2>2, BecomesRun DEF Writes
    <3>2. /\ run'[r].pc = "guild" /\ run'[r].mem = run[r].mem /\ run'[r].date = run[r].date
          /\ run'[r].todo = Tail(run[r].todo) /\ run'[r].errs = run[r].errs
      BY <1>1, <3>1 DEF GuildDone, RunState
    <3>3. run[r].pc = "savePosted" /\ LeavesGuild(r)
      BY <1>6 DEF SavePosted, SaveState, LeavesGuild
    <3>4. run[r].todo # <<>>
      BY <1>1, WorkingRun
    <3> QED
      BY <3>2, <3>3, <3>4 DEF AnswerStep, LoopPcs, WorkingPcs
  <2> QED
    BY <1>6, <2>1, <2>2 DEF SavePosted, SaveState
<1>7. CASE SaveFailed(r)
  <2>1. CASE run[r].attempt < MaxAttempts
    <3>1. SaveState(r, "saveFailed",
            [run[r] EXCEPT !.pc = "sleep", !.wake = clock + RetryInterval])
      BY <1>7, <2>1 DEF SaveFailed
    <3>2. "saveFailed" \in WorkingPcs /\ "sleep" \in WorkingPcs \ {"savePosted"}
      BY DEF WorkingPcs
    <3> QED
      BY <3>1, <3>2, SaveAnswers
  <2>2. CASE ~(run[r].attempt < MaxAttempts)
    <3>1. SaveState(r, "saveFailed", [run[r] EXCEPT !.pc = "notifyFailure"])
      BY <1>7, <2>2 DEF SaveFailed
    <3> QED
      BY <1>2, <3>1 DEF WorkingPcs
  <2> QED
    BY <2>1, <2>2
<1> QED
  BY <1>3, <1>4, <1>5, <1>6, <1>7

LEMMA PostAnswers ==
  ASSUME TypeInv, NEW r \in Runs,
         EnsureTags(r) \/ CreateForumThread(r) \/ AddReaction(r) \/ Wake(r)
  PROVE  AnswerStep(r)
<1>1. Working(r)
  <2>1. run[r].pc \in {"tags", "create", "react", "sleep"}
    BY DEF EnsureTags, CreateForumThread, AddReaction, Wake
  <2> QED
    BY <2>1 DEF Working, WorkingPcs
<1>2. run[r] \in RunState
  BY <1>1, WorkingRun
<1>3. CASE EnsureTags(r)
  <2>1. CASE Local(r, Announce(r, 1))
    BY <1>1, <2>1, AnnounceAnswers
  <2>2. CASE Becomes(r, [run[r] EXCEPT !.pc = "saveRejected",
               !.mem[Current(r)].job = FailedJob(run[r].date, run[r].problem, MaxAttempts)])
    <3>1. "saveRejected" \in WorkingPcs \ {"savePosted"}
      BY DEF WorkingPcs
    <3> QED
      BY <1>1, <2>2, <3>1, FailedAnswers
  <2> QED
    BY <1>3, <2>1, <2>2 DEF EnsureTags, Local
<1>4. CASE CreateForumThread(r)
  <2>1. ASSUME NEW n, Becomes(r, [run[r] EXCEPT !.pc = "react", !.thread = n])
        PROVE  AnswerStep(r)
    <3>1. run'[r] = [run[r] EXCEPT !.pc = "react", !.thread = n]
      BY <2>1, BecomesRun
    <3> QED
      BY <1>1, <1>2, <3>1, StaysAnswering DEF RunState, WorkingPcs
  <2>2. CASE Becomes(r, [run[r] EXCEPT !.pc = "saveFailed",
               !.mem[Current(r)].job = FailedJob(run[r].date, run[r].problem, run[r].attempt)])
    <3>1. "saveFailed" \in WorkingPcs \ {"savePosted"}
      BY DEF WorkingPcs
    <3> QED
      BY <1>1, <2>2, <3>1, FailedAnswers
  <2> QED
    BY <1>4, <2>1, <2>2 DEF CreateForumThread
<1>5. CASE AddReaction(r)
  <2>1. CASE Becomes(r, Posted(r))
    BY <1>5, <2>1, PostedAnswers DEF AddReaction, ThreadPcs
  <2>2. CASE Becomes(r, [run[r] EXCEPT !.pc = "notifyReaction"])
    BY <1>1, <2>2, MovedAnswers DEF WorkingPcs
  <2> QED
    BY <1>5, <2>1, <2>2 DEF AddReaction, Local
<1>6. CASE Wake(r)
  BY <1>1, <1>6, AnnounceAnswers DEF Wake
<1> QED
  BY <1>3, <1>4, <1>5, <1>6

LEMMA NotifyAnswers ==
  ASSUME TypeInv, NEW r \in Runs, NotifyFailure(r) \/ NotifyStaleCache(r) \/ NotifyReaction(r)
  PROVE  AnswerStep(r)
<1>1. Working(r)
  BY DEF Working, WorkingPcs, NotifyFailure, NotifyStaleCache, NotifyReaction
<1>2. CASE Becomes(r, GuildDone(r, TRUE))
  BY <1>1, <1>2, LeavesAnswering
<1>3. CASE Becomes(r, [run[r] EXCEPT !.pc = "select"])
  BY <1>1, <1>3, MovedAnswers DEF WorkingPcs
<1>4. CASE NotifyReaction(r)
  BY <1>4, PostedAnswers DEF NotifyReaction, ThreadPcs
<1> QED
  BY <1>2, <1>3, <1>4 DEF NotifyFailure, NotifyStaleCache

LEMMA ActsAnswers ==
  ASSUME TypeInv, SilentInv, NEW r \in Runs, Acts(r)
  PROVE  AnswerStep(r)
BY LoadAnswers, GuildAnswers, CacheAnswers, SavesAnswers, PostAnswers, NotifyAnswers DEF Acts, Step

\* An answer stays, or the day has its thread.
LEMMA AccountStays ==
  ASSUME TypeInv, SilentInv, NEW r \in Runs, Acts(r), NEW g, NEW date, Accounted(g, date)
  PROVE  Accounted(g, date)'
<1>0. AnswerStep(r) /\ Extended /\ \A q \in Runs \ {r} : run'[q] = run[q]
  BY ActsAnswers, ActsShape DEF RunStepShape
<1>1. CASE HasThread(g, date)
  BY <1>0, <1>1 DEF Accounted, HasThread, Extended
<1>2. CASE \E q \in Runs : Answers(q, g, date)
  <2>1. PICK q \in Runs : Answers(q, g, date)
    BY <1>2
  <2>2. CASE q # r
    BY <1>0, <2>1, <2>2 DEF Accounted, Answers, Working, Current
  <2>3. CASE q = r
    <3>1. run[r].pc # "new" /\ run[r].pc # "killed" /\ run'[r].date = date
      BY <1>0, <2>1, <2>3 DEF AnswerStep, Answers, SilentInv, Working, WorkingPcs
    <3>2. CASE g \in run[r].errs
      BY <1>0, <3>1, <3>2 DEF AnswerStep, Accounted, Answers
    <3>3. CASE Working(r) /\ Current(r) = g
      <4>1. CASE run'[r].pc \in WorkingPcs /\ run'[r].todo = run[r].todo
        BY <3>1, <3>3, <4>1 DEF Accounted, Answers, Working, Current
      <4>2. CASE run'[r].pc = "killed" \/ g \in run'[r].errs
        BY <3>1, <4>2 DEF Accounted, Answers
      <4>3. CASE run[r].pc = "savePosted"
        <5>1. HasThread(g, date)
          BY <2>1, <2>3, <3>3, <4>3 DEF SilentInv, Answers
        <5> QED
          BY <1>1, <5>1
      <4> QED
        BY <1>0, <3>3, <4>1, <4>2, <4>3 DEF AnswerStep, LeavesGuild, Working, WorkingPcs
    <3> QED
      BY <2>1, <2>3, <3>1, <3>2, <3>3 DEF Answers
  <2> QED
    BY <2>2, <2>3
<1> QED
  BY <1>1, <1>2 DEF Accounted

\* A guild a run leaves is accounted for; a posting it skips has another run to answer.
LEMMA LeftAccounted ==
  ASSUME TypeInv, ForumInv, SilentInv, NEW r \in Runs, Acts(r), run[r].pc \in LoopPcs,
         run[r].todo # <<>>, LeavesGuild(r), NEW g, g = Current(r), NEW date, date = run[r].date
  PROVE  Accounted(g, date)'
<1>0. AnswerStep(r) /\ g \in Guilds
  BY ActsAnswers, RecordType
<1>1. run'[r].date = date
  BY <1>0 DEF AnswerStep, LoopPcs, WorkingPcs
<1>2. CASE g \in run'[r].errs
  BY <1>1, <1>2 DEF Accounted, Answers
<1>3. SUFFICES ASSUME g \notin run'[r].errs PROVE Accounted(g, date)
  BY <1>2, AccountStays
<1>4. CASE run[r].pc = "savePosted"
  BY <1>4 DEF SilentInv, Accounted
<1>5. CASE ShouldSkip(EnsureGuild(r, g), date, clock)
  <2>1. EnsureGuild(r, g).job.targetDate = date
        /\ EnsureGuild(r, g).job.status \in {"posted", "posting"}
    BY <1>5 DEF ShouldSkip
  <2>2. EnsureGuild(r, g) = run[r].mem[g] /\ run[r].mem[g] # Nil
    BY <2>1 DEF EnsureGuild, DefaultGuildState, IdleJob
  <2>3. CASE run[r].mem[g].job.status = "posting"
    BY <1>0, <2>1, <2>2, <2>3 DEF SilentInv, AnnouncedAccounted
  <2>4. CASE run[r].mem[g].job.status = "posted"
    <3>1. MatchesForum(g, run[r].mem[g]) /\ run[r].mem[g].last # Nil
      BY <1>0, <2>2, <2>4 DEF ForumInv, RecordTrue
    <3> QED
      BY <2>1, <2>2, <2>4, <3>1 DEF MatchesForum, Accounted, HasThread
  <2> QED
    BY <2>1, <2>2, <2>3, <2>4
<1> QED
  BY <1>3, <1>4, <1>5 DEF LeavesGuild

LEMMA ActsSilent ==
  ASSUME TypeInv, ForumInv, SilentInv, NEW r \in Runs, Acts(r)
  PROVE  SilentInv'
<1>0. AnswerStep(r) /\ RunStepShape(r)
  BY ActsAnswers, ActsShape
<1>1. \A q \in Runs \ {r} : run'[q] = run[q]
  BY <1>0 DEF RunStepShape
<1>2. ASSUME NEW g, NEW date, Accounted(g, date)
      PROVE  Accounted(g, date)'
  BY <1>2, AccountStays
<1>3. ASSUME NEW g, NEW rec, AnnouncedAccounted(g, rec)
      PROVE  AnnouncedAccounted(g, rec)'
  BY <1>2, <1>3 DEF AnnouncedAccounted
<1>4. ASSUME NEW g \in Guilds
      PROVE  AnnouncedAccounted(g, stateDoc.guilds[g])'
  <2>1. stateDoc'.guilds[g] \in {stateDoc.guilds[g], run[r].mem[g]}
    BY <1>0 DEF RunStepShape
  <2> QED
    BY <1>3, <2>1 DEF SilentInv
<1>5. ASSUME NEW g \in Guilds
      PROVE  AnnouncedAccounted(g, run[r].mem[g])'
  <2> DEFINE new == run'[r].mem[g]
  <2>1. CASE new \in {Nil, run[r].mem[g], stateDoc.guilds[g]}
    <3>1. AnnouncedAccounted(g, new)
      BY <2>1 DEF SilentInv, AnnouncedAccounted
    <3>2. \A rec : AnnouncedAccounted(g, rec) => AnnouncedAccounted(g, rec)'
      BY <1>3
    <3> QED
      BY <3>1, <3>2
  <2>2. CASE new.job.status # "posting"
    BY <2>2 DEF AnnouncedAccounted
  <2>3. CASE /\ g = Head(run'[r].todo) /\ run'[r].pc \in WorkingPcs
             /\ new.job.targetDate = run'[r].date
    <3>1. \A date : date = new.job.targetDate => Answers(r, g, date)'
      BY <2>3 DEF Answers, Working, Current
    <3> QED
      BY <3>1 DEF AnnouncedAccounted, Accounted
  <2> QED
    BY <1>0, <2>1, <2>2, <2>3 DEF AnswerStep
<1>6. Covers(run[r])'
  <2> SUFFICES ASSUME run'[r].pc \in LoopPcs, NEW i \in DOMAIN EnabledGuilds
               PROVE  \/ \E j \in DOMAIN run'[r].todo : run'[r].todo[j] = EnabledGuilds[i]
                      \/ Accounted(EnabledGuilds[i], run[r].date)'
    BY DEF Covers
  <2>1. CASE run[r].pc \in LoopPcs /\ run'[r].todo = run[r].todo
    <3>1. run'[r].date = run[r].date
      BY <1>0, <2>1 DEF AnswerStep, LoopPcs, WorkingPcs
    <3> QED
      BY <1>2, <2>1, <3>1 DEF SilentInv, Covers
  <2>2. CASE /\ run[r].pc \in LoopPcs /\ run[r].todo # <<>> /\ LeavesGuild(r)
             /\ run'[r].todo = Tail(run[r].todo)
    <3>1. run'[r].date = run[r].date /\ run[r].todo \in Seq(Guilds)
      BY <1>0, <2>2 DEF AnswerStep, LoopPcs, WorkingPcs, TypeInv, LocalOK, RunState
    <3>2. CASE Accounted(EnabledGuilds[i], run[r].date)
      BY <1>2, <3>1, <3>2
    <3>3. ASSUME NEW j \in DOMAIN run[r].todo, run[r].todo[j] = EnabledGuilds[i]
          PROVE  \/ \E k \in DOMAIN run'[r].todo : run'[r].todo[k] = EnabledGuilds[i]
                 \/ Accounted(EnabledGuilds[i], run[r].date)'
      <4>1. CASE j = 1
        <5>1. EnabledGuilds[i] = Current(r)
          BY <3>1, <3>3, <4>1 DEF Current
        <5>2. \A g, date : g = Current(r) /\ date = run[r].date => Accounted(g, date)'
          BY <2>2, LeftAccounted
        <5> QED
          BY <3>1, <5>1, <5>2
      <4>2. CASE j # 1
        <5>1. j - 1 \in DOMAIN Tail(run[r].todo)
              /\ Tail(run[r].todo)[j - 1] = run[r].todo[j]
          <6> DEFINE todo == run[r].todo
          <6>1. todo \in Seq(Guilds) /\ todo # <<>> /\ j \in DOMAIN todo
            BY <2>2, <3>1, <3>3
          <6> HIDE DEF todo
          <6>2. j \in 1 .. Len(todo) /\ Len(todo) \in Nat /\ Len(Tail(todo)) = Len(todo) - 1
                /\ Tail(todo) \in Seq(Guilds)
            BY <6>1
          <6>3. j - 1 \in 1 .. Len(Tail(todo))
            BY <4>2, <6>2
          <6>4. j - 1 \in DOMAIN Tail(todo) /\ Tail(todo)[j - 1] = todo[j]
            BY <6>1, <6>2, <6>3
          <6> QED
            BY <6>4 DEF todo
        <5> QED
          BY <2>2, <3>3, <5>1
      <4> QED
        BY <4>1, <4>2
    <3> QED
      BY <2>2, <3>2, <3>3 DEF SilentInv, Covers
  <2>3. CASE run'[r].todo = EnabledGuilds
    BY <2>3
  <2>4. CASE \A k \in DOMAIN EnabledGuilds : EnabledGuilds[k] \in run'[r].errs
    BY <2>4 DEF Accounted, Answers
  <2> QED
    BY <1>0, <2>1, <2>2, <2>3, <2>4 DEF AnswerStep
<1>7. run'[r].pc = "savePosted" => HasThread(Current(r), run[r].date)'
  <2> SUFFICES ASSUME run'[r].pc = "savePosted"
               PROVE  HasThread(Current(r), run[r].date)'
    OBVIOUS
  <2>1. run[r].pc \in ThreadPcs /\ run'[r].todo = run[r].todo /\ run'[r].date = run[r].date
    BY <1>0 DEF AnswerStep, ThreadPcs
  <2>2. ThreadMade(run[r])
    BY DEF ForumInv
  <2>3. /\ run[r].thread \in DOMAIN threads
        /\ threads[run[r].thread].guild = Head(run[r].todo)
        /\ threads[run[r].thread].date = run[r].date
    BY <2>1, <2>2 DEF ThreadMade
  <2> QED
    BY <1>0, <2>1, <2>3 DEF RunStepShape, Extended, HasThread, Current
<1>8. run'[r].pc # "new" /\ (run'[r].pc = "done" => run'[r].todo = <<>>)
  BY <1>0 DEF AnswerStep
<1>9. ASSUME NEW q \in Runs, q # r
      PROVE  /\ \A g \in Guilds : AnnouncedAccounted(g, run[q].mem[g])'
             /\ Covers(run[q])'
             /\ run'[q].pc = "savePosted" => HasThread(Current(q), run[q].date)'
             /\ run'[q].pc = "new" => run'[q].errs = {}
             /\ run'[q].pc = "done" => run'[q].todo = <<>>
  <2>1. run'[q] = run[q]
    BY <1>1, <1>9
  <2>2. ASSUME NEW g \in Guilds PROVE AnnouncedAccounted(g, run[q].mem[g])'
    BY <1>3, <2>1 DEF SilentInv
  <2>3. Covers(run[q])'
    BY <1>2, <2>1 DEF SilentInv, Covers
  <2>4. run'[q].pc = "savePosted" => HasThread(Current(q), run[q].date)'
    BY <1>0, <2>1 DEF SilentInv, RunStepShape, Extended, HasThread, Current
  <2> QED
    BY <2>1, <2>2, <2>3, <2>4 DEF SilentInv
<1> QED
  BY <1>4, <1>5, <1>6, <1>7, <1>8, <1>9 DEF SilentInv

LEMMA IdleSilent ==
  ASSUME SilentInv, Tick \/ UNCHANGED vars PROVE SilentInv'
BY DEF Tick, vars, SilentInv, AnnouncedAccounted, Accounted, HasThread, Answers, Covers, Working,
       Current

\* A run the server takes with it has been cut off.
LEMMA ExitSilent == ASSUME SilentInv, Exit PROVE SilentInv'
<1>1. ASSUME NEW r \in Runs
      PROVE  \/ run'[r] = run[r]
             \/ /\ run'[r] = Ended(r, "killed")
                /\ run[r].pc \in LivePcs
  BY DEF Exit, Live
<1>2. ASSUME NEW r \in Runs
      PROVE  /\ Ended(r, "killed").pc = "killed" /\ Ended(r, "killed").date = run[r].date
             /\ run[r].errs \subseteq Ended(r, "killed").errs
             /\ \A g \in Guilds : Ended(r, "killed").mem[g] = Nil
  BY DEF Ended, NewRun, NoGuilds
<1>3. ASSUME NEW g, NEW date, Accounted(g, date)
      PROVE  Accounted(g, date)'
  <2>1. CASE HasThread(g, date)
    BY <2>1 DEF Exit, Accounted, HasThread
  <2>2. ASSUME NEW q \in Runs, Answers(q, g, date)
        PROVE  Answers(q, g, date)'
    BY <1>1, <1>2, <2>2 DEF Answers, Working, Current
  <2> QED
    BY <1>3, <2>1, <2>2 DEF Accounted
<1>4. ASSUME NEW g, NEW rec, AnnouncedAccounted(g, rec)
      PROVE  AnnouncedAccounted(g, rec)'
  BY <1>3, <1>4 DEF AnnouncedAccounted
<1>5. ASSUME NEW g \in Guilds PROVE AnnouncedAccounted(g, stateDoc.guilds[g])'
  BY <1>4 DEF SilentInv, Exit
<1>6. ASSUME NEW r \in Runs
      PROVE  /\ \A g \in Guilds : AnnouncedAccounted(g, run[r].mem[g])'
             /\ Covers(run[r])'
             /\ run'[r].pc = "savePosted" => HasThread(Current(r), run[r].date)'
             /\ run'[r].pc = "new" => run'[r].errs = {}
             /\ run'[r].pc = "done" => run'[r].todo = <<>>
  <2>1. CASE run'[r] = run[r]
    <3>1. ASSUME NEW g \in Guilds PROVE AnnouncedAccounted(g, run[r].mem[g])'
      BY <1>4, <2>1 DEF SilentInv
    <3>2. Covers(run[r])'
      BY <1>3, <2>1 DEF SilentInv, Covers
    <3>3. run'[r].pc = "savePosted" => HasThread(Current(r), run[r].date)'
      BY <2>1 DEF SilentInv, Exit, HasThread, Current
    <3> QED
      BY <2>1, <3>1, <3>2, <3>3 DEF SilentInv
  <2>2. CASE run'[r] = Ended(r, "killed")
    BY <1>2, <2>2 DEF AnnouncedAccounted, Covers, LoopPcs, WorkingPcs
  <2> QED
    BY <1>1, <2>1, <2>2
<1> QED
  BY <1>5, <1>6 DEF SilentInv

LEMMA InitSilent == Init => SilentInv
<1> SUFFICES ASSUME Init PROVE SilentInv
  OBVIOUS
<1>1. \A r \in Runs : run[r].pc = "new" /\ run[r].mem = NoGuilds /\ run[r].errs = {}
  BY DEF Init, NewRun
<1>2. stateDoc.guilds = NoGuilds /\ \A g \in Guilds : NoGuilds[g] = Nil
  BY DEF Init, NoGuilds
<1> QED
  BY <1>1, <1>2 DEF SilentInv, AnnouncedAccounted, Covers, LoopPcs, WorkingPcs

LEMMA SilentTrue == SilentInv => NoSilentDay
<1> SUFFICES ASSUME SilentInv, NEW r \in Runs, run[r].pc = "done",
                    NEW i \in DOMAIN EnabledGuilds
             PROVE  Accounted(EnabledGuilds[i], run[r].date)
  BY DEF NoSilentDay, Accounted
<1>1. run[r].pc \in LoopPcs /\ ~\E j \in DOMAIN run[r].todo : run[r].todo[j] = EnabledGuilds[i]
  BY DEF SilentInv, LoopPcs
<1> QED
  BY <1>1 DEF SilentInv, Covers

(* Whatever fails, dies or overlaps, a run that has returned leaves no     *)
(* enabled guild without its thread of the day unless a run of that day    *)
(* returns its failure as an error, is still at work on it or was cut off: *)
(* a run that skips a guild relies on the announcement of another, and     *)
(* that one never gives it up without a word.                              *)
THEOREM NoDayLostSilently == Spec => []NoSilentDay
<1>1. TypeInv /\ ForumInv /\ [Next]_vars => ForumInv'
  BY NextActs, ActsForum, IdleForum
<1>2. TypeInv /\ ForumInv /\ SilentInv /\ [Next]_vars => SilentInv'
  BY NextActs, ActsSilent, IdleSilent
<1> QED
  BY <1>1, <1>2, InitForum, InitSilent, SilentTrue, TypeInvariant, PTL DEF Spec

(* The same behind the HTTP server.                                        *)
THEOREM HttpNoDayLostSilently == HttpSpec => []NoSilentDay
<1>1. HttpInit => ForumInv /\ SilentInv
  BY InitForum, InitSilent DEF HttpInit
<1>2. TypeInv /\ ForumInv /\ [HttpNext]_httpVars => ForumInv'
  BY HttpActs, ActsForum, IdleForum, ExitForum
<1>3. TypeInv /\ ForumInv /\ SilentInv /\ [HttpNext]_httpVars => SilentInv'
  BY HttpActs, ActsSilent, IdleSilent, ExitSilent
<1> QED
  BY <1>1, <1>2, <1>3, SilentTrue, HttpTypeInvariant, PTL DEF HttpSpec
=============================================================================
