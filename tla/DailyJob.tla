------------------------------ MODULE DailyJob ------------------------------
(***************************************************************************)
(* The daily posting job (internal/job): several runs of it, started by    *)
(* Cloud Scheduler or by hand, share one state document and one problem    *)
(* cache in a versioned store and post to the forums of the enabled        *)
(* guilds.  An action is one external call of a run (a load, a save, a     *)
(* fetch, a Discord request) with the local code up to the next call, so   *)
(* that the calls of different runs interleave as they really can.         *)
(*                                                                         *)
(* Versions are the generations the store hands out: a save carries the    *)
(* version its run last saw and succeeds only if that is still current.    *)
(***************************************************************************)
EXTENDS GuildState, Sequences, FiniteSets

CONSTANTS Guilds,          \* guild ids that may occur in the state document
          EnabledGuilds,   \* the enabled guilds, in the order of guilds.json
          StartNumber,     \* start_problem_number of each guild
          Runs,            \* executions of the job, each started at most once
          MaxAttempts,     \* retry.max_attempts
          RetryInterval,   \* retry.interval_minutes, in ticks
          RefillThreshold, \* problem_cache.refill_threshold
          RunTimeout,      \* the platform ends a run this long after its start
          TriggerTimes,    \* instants at which a run may be started
          DayLength,       \* ticks between two midnights
          Horizon,         \* bound on the clock
          InitialCache,    \* problem numbers of the cache object, Nil if there is none
          FetchLists,      \* the lists of problem numbers a fetch may return
          MaxCopies,       \* threads one CreateForumThread call may leave behind
          Faults           \* the faults that may happen, see AllFaults

\* load, save: the store call fails and changes nothing; lostSave: the save is
\* applied but reported as failed; fetch, badList: the problem source fails or
\* returns a list that is not valid; discord: a Discord request fails and does
\* nothing; lostThread: threads may appear although, or more often than, the call
\* reports; notify: an alert is dropped or fails; crash: a run dies between two
\* calls; slow: a call takes time.
AllFaults == {"load", "save", "lostSave", "fetch", "badList", "discord",
              "lostThread", "notify", "crash", "slow"}

\* The calendar date, in the configured time zone, of an instant.
DateOf(t) == t \div DayLength

ASSUME ConstantsAssumption ==
  /\ EnabledGuilds \in Seq(Guilds)
  /\ StartNumber \in [Guilds -> Nat \ {0}]
  /\ MaxAttempts \in Nat \ {0}
  /\ RetryInterval \in Nat \ {0}
  /\ RefillThreshold \in Nat \ {0}
  /\ RunTimeout \in Nat
  /\ TriggerTimes \subseteq Nat
  /\ DayLength \in Nat \ {0}
  /\ Horizon \in Nat
  /\ InitialCache \in (SUBSET (Nat \ {0})) \cup {Nil}
  /\ FetchLists \subseteq SUBSET (Nat \ {0})
  /\ MaxCopies \in Nat \ {0}
  /\ Faults \subseteq AllFaults

\* validateGuilds rejects a second guild with the same id.
ASSUME DistinctGuildsAssumption ==
  \A i, j \in 1 .. Len(EnabledGuilds) : EnabledGuilds[i] = EnabledGuilds[j] => i = j

-----------------------------------------------------------------------------
VARIABLES clock,     \* now, in ticks
          stateDoc,  \* state.json: its generation and its guild_states
          cacheDoc,  \* the problem cache object: its generation and its problem numbers
          threads,   \* the forum threads, in the order they appeared
          alerts,    \* <<guild, date>> of the failure notifications delivered
          run        \* the local state of every run

world == <<clock, stateDoc, cacheDoc, threads, alerts>>
vars == <<world, run>>

Thread == [guild : Guilds, date : Int, number : Nat]

GuildStates == [Guilds -> GuildStateType \cup {Nil}]

WorkingPcs == {"refresh", "saveCache", "notifyStale", "select", "tags", "savePosting",
               "create", "react", "notifyReaction", "savePosted", "saveFailed", "sleep",
               "saveRejected", "notifyFailure", "saveRecovered"}

LivePcs == WorkingPcs \cup {"loadState", "loadCache", "guild"}

\* pc: the call the run makes next; born, date: when it started and the target
\* date it resolved then; todo: the guilds left, the current one first; mem, ver:
\* its copy of the state and that copy's version; cache, cacheVer: the same for
\* the cache; attempt, problem, thread, wake: of the guild being posted; errs: the
\* guilds whose failure is in the error the run returns.
RunState == [pc       : LivePcs \cup {"new", "done", "killed"},
             born     : Nat,
             date     : Int,
             todo     : Seq(Guilds),
             mem      : GuildStates,
             ver      : Nat,
             cache    : SUBSET (Nat \ {0}),
             cacheVer : Nat,
             attempt  : Nat,
             problem  : Nat,
             thread   : Nat,
             wake     : Nat,
             errs     : SUBSET Guilds]

\* state.New(): no guild has a record.
NoGuilds == [g \in Guilds |-> Nil]

NewRun == [pc |-> "new", born |-> 0, date |-> 0, todo |-> <<>>, mem |-> NoGuilds, ver |-> 0,
           cache |-> {}, cacheVer |-> 0, attempt |-> 0, problem |-> 0, thread |-> 0,
           wake |-> 0, errs |-> {}]

\* The first deployment: no state object yet, and a cache object or none.
Init ==
  /\ clock = 0
  /\ stateDoc = [gen |-> 0, guilds |-> NoGuilds]
  /\ cacheDoc = IF InitialCache = Nil THEN [gen |-> 0, problems |-> {}]
                                      ELSE [gen |-> 1, problems |-> InitialCache]
  /\ threads = <<>>
  /\ alerts = {}
  /\ run = [r \in Runs |-> NewRun]

-----------------------------------------------------------------------------
Live(r)    == run[r].pc \in LivePcs
Working(r) == run[r].pc \in WorkingPcs
Current(r) == Head(run[r].todo)
Record(r)  == run[r].mem[Current(r)]

\* EnsureGuild: the record of the guild, a default one if it has none.
EnsureGuild(r, g) ==
  IF run[r].mem[g] = Nil THEN DefaultGuildState(StartNumber[g]) ELSE run[r].mem[g]

\* The run in a new local state; every other run is as before.
Becomes(r, local) == run' = [run EXCEPT ![r] = local]

\* A step that reads or writes nothing outside the run.
Local(r, local) == Becomes(r, local) /\ UNCHANGED world

\* Mutant: the loop stays at the guild it has finished.
GuildDoneStuck(r, failed) ==
  [run[r] EXCEPT !.pc = "guild", !.attempt = 0, !.problem = 0, !.thread = 0, !.wake = 0,
                 !.errs = IF failed THEN @ \cup {Current(r)} ELSE @]

\* Mutant: the error of a guild takes the place of the errors before it.
GuildDoneLastError(r, failed) ==
  [run[r] EXCEPT !.pc = "guild", !.todo = Tail(@), !.attempt = 0, !.problem = 0,
                 !.thread = 0, !.wake = 0,
                 !.errs = IF failed THEN {Current(r)} ELSE @]

\* execute returns: the loop of Run goes to the next guild whatever the outcome.
GuildDone(r, failed) ==
  [run[r] EXCEPT !.pc = "guild", !.todo = Tail(@), !.attempt = 0, !.problem = 0,
                 !.thread = 0, !.wake = 0,
                 !.errs = IF failed THEN @ \cup {Current(r)} ELSE @]

\* A run that ends while it loads has failed for every guild.
Unloaded(r) ==
  IF run[r].pc \in {"loadState", "loadCache"}
    THEN {EnabledGuilds[i] : i \in DOMAIN EnabledGuilds} ELSE {}

\* The process is gone; of its memory only what it returned remains.
Ended(r, how) ==
  [NewRun EXCEPT !.pc = how, !.born = run[r].born, !.date = run[r].date,
                 !.errs = run[r].errs \cup Unloaded(r)]

-----------------------------------------------------------------------------
(* Starting a run and loading the documents.                               *)

\* DateRunner.Run: the target date is fixed before anything is loaded.
Start(r) ==
  /\ run[r].pc = "new"
  /\ clock \in TriggerTimes
  /\ Local(r, [run[r] EXCEPT !.pc = "loadState", !.born = clock, !.date = DateOf(clock)])

\* A missing object loads as state.New() with the zero version.
LoadState(r) ==
  /\ run[r].pc = "loadState"
  /\ Local(r, [run[r] EXCEPT !.pc = "loadCache", !.mem = stateDoc.guilds,
                               !.ver = stateDoc.gen])

LoadProblemCache(r) ==
  /\ run[r].pc = "loadCache"
  /\ Local(r, [run[r] EXCEPT !.pc = "guild", !.cache = cacheDoc.problems,
                               !.cacheVer = cacheDoc.gen, !.todo = EnabledGuilds])

\* Mutant: a load error ends the run as if there were nothing to do.
LoadFailsSilently(r) ==
  /\ "load" \in Faults
  /\ run[r].pc \in {"loadState", "loadCache"}
  /\ Local(r, [Ended(r, "done") EXCEPT !.errs = {}])

\* Any load error ends the run before a guild is touched.
LoadFails(r) ==
  /\ "load" \in Faults
  /\ run[r].pc \in {"loadState", "loadCache"}
  /\ Local(r, Ended(r, "done"))

-----------------------------------------------------------------------------
(* The loop over the guilds.                                               *)

SkipGuild(r) ==
  /\ run[r].pc = "guild" /\ run[r].todo # <<>>
  /\ ShouldSkip(EnsureGuild(r, Current(r)), run[r].date, clock)
  /\ Local(r, GuildDone(r, FALSE))

TakeOverStale(r) ==
  /\ run[r].pc = "guild" /\ run[r].todo # <<>>
  /\ StalePosting(EnsureGuild(r, Current(r)), run[r].date, clock)
  /\ Local(r, [run[r] EXCEPT !.pc = "saveRecovered",
                   !.mem[Current(r)] = RecoverStalePosting(EnsureGuild(r, Current(r)), run[r].date)])

BeginGuild(r) ==
  /\ run[r].pc = "guild" /\ run[r].todo # <<>>
  /\ ~ShouldSkip(EnsureGuild(r, Current(r)), run[r].date, clock)
  /\ ~StalePosting(EnsureGuild(r, Current(r)), run[r].date, clock)
  /\ Local(r, [run[r] EXCEPT !.pc = "refresh", !.mem[Current(r)] = EnsureGuild(r, Current(r))])

Return(r) ==
  /\ run[r].pc = "guild" /\ run[r].todo = <<>>
  /\ Local(r, Ended(r, "done"))

-----------------------------------------------------------------------------
(* Saving the state document.  next is the run's local state after a       *)
(* success; an error leaves the changed copy in memory, its version old.   *)

\* Mutant: the save does not check the version.
WritesUnversioned(r, next) ==
  /\ stateDoc' = [gen |-> stateDoc.gen + 1, guilds |-> run[r].mem]
  /\ Becomes(r, [next EXCEPT !.ver = stateDoc.gen + 1])

Writes(r, next) ==
  /\ run[r].ver = stateDoc.gen
  /\ stateDoc' = [gen |-> stateDoc.gen + 1, guilds |-> run[r].mem]
  /\ Becomes(r, [next EXCEPT !.ver = stateDoc.gen + 1])

SaveErrors(r) ==
  /\ \/ run[r].ver # stateDoc.gen /\ UNCHANGED stateDoc
     \/ "save" \in Faults /\ UNCHANGED stateDoc
     \/ /\ "lostSave" \in Faults
        /\ run[r].ver = stateDoc.gen
        /\ stateDoc' = [gen |-> stateDoc.gen + 1, guilds |-> run[r].mem]
  /\ Becomes(r, GuildDone(r, TRUE))

SaveState(r, at, next) ==
  /\ run[r].pc = at
  /\ Writes(r, next) \/ SaveErrors(r)
  /\ UNCHANGED <<clock, cacheDoc, threads, alerts>>

SaveRecovered(r) == SaveState(r, "saveRecovered", [run[r] EXCEPT !.pc = "refresh"])

-----------------------------------------------------------------------------
(* Refreshing the problem cache and selecting the problem.                 *)

\* Problems the run can still post to its guild.
Available(r) == {n \in run[r].cache : n >= Record(r).next}

NeedsRefill(r) == Cardinality(Available(r)) < RefillThreshold

CacheSuffices(r) ==
  /\ run[r].pc = "refresh" /\ ~NeedsRefill(r)
  /\ Local(r, [run[r] EXCEPT !.pc = "select"])

RefillCache(r) ==
  /\ run[r].pc = "refresh" /\ NeedsRefill(r)
  /\ \E list \in FetchLists :
       Local(r, [run[r] EXCEPT !.pc = "saveCache", !.cache = list])

\* A failed fetch falls back on the old cache if it still has a problem; a list
\* that is not valid never does.
RefillFails(r) ==
  /\ run[r].pc = "refresh" /\ NeedsRefill(r)
  /\ \/ /\ "fetch" \in Faults
        /\ Local(r, [run[r] EXCEPT !.pc = IF Available(r) # {} THEN "notifyStale"
                                                                 ELSE "notifyFailure"])
     \/ /\ "badList" \in Faults
        /\ Local(r, [run[r] EXCEPT !.pc = "notifyFailure"])

\* On an error the run keeps the new list under the old version.
SaveProblemCache(r) ==
  /\ run[r].pc = "saveCache"
  /\ \/ /\ run[r].cacheVer = cacheDoc.gen
        /\ cacheDoc' = [gen |-> cacheDoc.gen + 1, problems |-> run[r].cache]
        /\ Becomes(r, [run[r] EXCEPT !.pc = "select", !.cacheVer = cacheDoc.gen + 1])
     \/ /\ run[r].cacheVer # cacheDoc.gen \/ "save" \in Faults
        /\ UNCHANGED cacheDoc
        /\ Becomes(r, GuildDone(r, TRUE))
     \/ /\ run[r].cacheVer = cacheDoc.gen /\ "lostSave" \in Faults
        /\ cacheDoc' = [gen |-> cacheDoc.gen + 1, problems |-> run[r].cache]
        /\ Becomes(r, GuildDone(r, TRUE))
  /\ UNCHANGED <<clock, stateDoc, threads, alerts>>

\* Mutant: any problem not yet posted is taken.
SelectAny(r) ==
  /\ run[r].pc = "select"
  /\ \E n \in Available(r) : Local(r, [run[r] EXCEPT !.pc = "tags", !.problem = n])

SelectNext(r) ==
  /\ run[r].pc = "select"
  /\ \/ \E n \in Available(r) :
          /\ \A m \in Available(r) : n <= m
          /\ Local(r, [run[r] EXCEPT !.pc = "tags", !.problem = n])
     \/ /\ Available(r) = {}
        /\ Local(r, [run[r] EXCEPT !.pc = "notifyFailure"])

-----------------------------------------------------------------------------
(* Posting.                                                                *)

\* The head of the attempt loop: the posting record that is saved next.
Announce(r, attempt) ==
  [run[r] EXCEPT !.pc = "savePosting", !.attempt = attempt, !.wake = 0,
     !.mem[Current(r)].job = PostingJob(run[r].date, run[r].problem, attempt - 1, clock)]

EnsureTags(r) ==
  /\ run[r].pc = "tags"
  /\ \/ Local(r, Announce(r, 1))
     \/ /\ "discord" \in Faults
        /\ Local(r, [run[r] EXCEPT !.pc = "saveRejected",
             !.mem[Current(r)].job = FailedJob(run[r].date, run[r].problem, MaxAttempts)])

\* Mutant: a failure of the tag check is stored but not notified.
SaveRejectedSilently(r) == SaveState(r, "saveRejected", GuildDone(r, TRUE))

SaveRejected(r) == SaveState(r, "saveRejected", [run[r] EXCEPT !.pc = "notifyFailure"])

SavePosting(r) == SaveState(r, "savePosting", [run[r] EXCEPT !.pc = "create"])

NewThreads(r, n) ==
  [i \in 1 .. n |-> [guild |-> Current(r), date |-> run[r].date, number |-> run[r].problem]]

\* The request may be applied and its answer lost, or be sent again by the HTTP
\* retry client: n threads appear, and the call reports success or failure.
CreateForumThread(r) ==
  /\ run[r].pc = "create"
  /\ \E n \in 0 .. MaxCopies, ok \in BOOLEAN :
       /\ IF ok THEN n >= 1 ELSE Faults \cap {"discord", "lostThread"} # {}
       /\ n # (IF ok THEN 1 ELSE 0) => "lostThread" \in Faults
       /\ threads' = threads \o NewThreads(r, n)
       /\ IF ok
            THEN Becomes(r, [run[r] EXCEPT !.pc = "react", !.thread = Len(threads) + n])
            ELSE Becomes(r, [run[r] EXCEPT !.pc = "saveFailed",
                   !.mem[Current(r)].job = FailedJob(run[r].date, run[r].problem, run[r].attempt)])
  /\ UNCHANGED <<clock, stateDoc, cacheDoc, alerts>>

\* The posted record that is saved next.
Posted(r) ==
  [run[r] EXCEPT !.pc = "savePosted",
     !.mem[Current(r)] = RecordPosted(@, run[r].date, run[r].problem, run[r].attempt - 1,
                                      run[r].thread)]

AddReaction(r) ==
  /\ run[r].pc = "react"
  /\ \/ Local(r, Posted(r))
     \/ "discord" \in Faults /\ Local(r, [run[r] EXCEPT !.pc = "notifyReaction"])

SavePosted(r) == SaveState(r, "savePosted", GuildDone(r, FALSE))

SaveFailed(r) ==
  SaveState(r, "saveFailed",
    IF run[r].attempt < MaxAttempts
      THEN [run[r] EXCEPT !.pc = "sleep", !.wake = clock + RetryInterval]
      ELSE [run[r] EXCEPT !.pc = "notifyFailure"])

Wake(r) ==
  /\ run[r].pc = "sleep" /\ clock >= run[r].wake
  /\ Local(r, Announce(r, run[r].attempt + 1))

-----------------------------------------------------------------------------
(* Notifications: delivered, silently skipped, or failing with an error.   *)

Deliver(r, ok) ==
  \/ ok /\ alerts' = alerts \cup {<<Current(r), run[r].date>>}
  \/ "notify" \in Faults /\ UNCHANGED alerts

NotifyFailure(r) ==
  /\ run[r].pc = "notifyFailure"
  /\ \E ok \in BOOLEAN : Deliver(r, ok)
  /\ Becomes(r, GuildDone(r, TRUE))
  /\ UNCHANGED <<clock, stateDoc, cacheDoc, threads>>

\* With the stale cache the run goes on, unless the notification failed too.
NotifyStaleCache(r) ==
  /\ run[r].pc = "notifyStale"
  /\ \E ok \in BOOLEAN :
       /\ Deliver(r, ok)
       /\ IF ok THEN Becomes(r, [run[r] EXCEPT !.pc = "select"])
                ELSE Becomes(r, GuildDone(r, TRUE))
  /\ UNCHANGED <<clock, stateDoc, cacheDoc, threads>>

NotifyReaction(r) ==
  /\ run[r].pc = "notifyReaction"
  /\ \E ok \in BOOLEAN : Deliver(r, ok)
  /\ Becomes(r, Posted(r))
  /\ UNCHANGED <<clock, stateDoc, cacheDoc, threads>>

-----------------------------------------------------------------------------
(* The platform and the passage of time.                                   *)

Kill(r) == Live(r) /\ Local(r, Ended(r, "killed"))

\* The process dies, or its context is cancelled: either way no later call of it
\* reaches the store or Discord.
Crash(r) == "crash" \in Faults /\ Kill(r)

Timeout(r) == clock = run[r].born + RunTimeout /\ Kill(r)

\* Without "slow" a call takes no time: the clock advances only while every live
\* run sleeps between two attempts.
Tick ==
  /\ clock < Horizon
  /\ \A r \in Runs : Live(r) =>
       /\ clock < run[r].born + RunTimeout
       /\ "slow" \in Faults \/ (run[r].pc = "sleep" /\ clock < run[r].wake)
  /\ clock' = clock + 1
  /\ UNCHANGED <<stateDoc, cacheDoc, threads, alerts, run>>

-----------------------------------------------------------------------------
\* A step of the program, as against one of its environment.
Step(r) ==
  \/ LoadState(r) \/ LoadProblemCache(r) \/ LoadFails(r)
  \/ SkipGuild(r) \/ TakeOverStale(r) \/ BeginGuild(r) \/ Return(r)
  \/ SaveRecovered(r) \/ CacheSuffices(r) \/ RefillCache(r) \/ RefillFails(r)
  \/ SaveProblemCache(r) \/ SelectNext(r) \/ EnsureTags(r) \/ SaveRejected(r)
  \/ SavePosting(r) \/ CreateForumThread(r) \/ AddReaction(r) \/ SavePosted(r)
  \/ SaveFailed(r) \/ Wake(r)
  \/ NotifyFailure(r) \/ NotifyStaleCache(r) \/ NotifyReaction(r)

Next ==
  \/ Tick
  \/ \E r \in Runs : Start(r) \/ Step(r) \/ Crash(r) \/ Timeout(r)

Spec == Init /\ [][Next]_vars

\* The program keeps going, the platform enforces its timeout and time passes;
\* nobody promises that a run is started, or that anything fails.
FairSpec == Spec /\ WF_vars(Tick) /\ \A r \in Runs : WF_vars(Step(r)) /\ WF_vars(Timeout(r))
=============================================================================
