------------------------- MODULE DailyJobProperties -------------------------
(***************************************************************************)
(* What the daily job must and must not do, stated on the model of         *)
(* DailyJob.tla and shared by the model-checking and the proof modules.    *)
(***************************************************************************)
EXTENDS DailyJob

(* The shape of every variable: the documents of internal/state and        *)
(* internal/storage, the forum and the local variables of Run and post.    *)
TypeOK ==
  /\ clock \in Nat
  /\ stateDoc \in [gen : Nat, guilds : GuildStates]
  /\ cacheDoc \in [gen : Nat, problems : SUBSET (Nat \ {0})]
  /\ threads \in Seq(Thread)
  /\ alerts \subseteq Guilds \X Int
  /\ run \in [Runs -> RunState]

-----------------------------------------------------------------------------
(* A run may have asked Discord for a thread of the guild and has not yet  *)
(* stored the outcome.                                                     *)
InFlightPcs == {"create", "react", "notifyReaction", "savePosted", "saveFailed"}

InFlight(r, g) == run[r].pc \in InFlightPcs /\ Current(r) = g

(* Two runs never post to the same guild at once, whatever fails or        *)
(* crashes: the skip and takeover rules of shouldSkip and                  *)
(* recoverStalePosting, on top of versioned saves, act as a lock.          *)
PostingExclusion ==
  \A g \in Guilds : \A r1, r2 \in Runs : InFlight(r1, g) /\ InFlight(r2, g) => r1 = r2

(* While a thread may be in the making, state.json names that posting and  *)
(* its start, and it is too fresh to be taken over: the write-ahead record *)
(* a later run recovers from is never missing or overwritten.              *)
AnnouncedInStore ==
  \A r \in Runs : \A g \in Guilds : InFlight(r, g) =>
    LET job == stateDoc.guilds[g].job IN
    /\ stateDoc.guilds[g] # Nil
    /\ job = PostingJob(run[r].date, run[r].problem, run[r].attempt - 1, job.startedAt)
    /\ ShouldSkip(stateDoc.guilds[g], run[r].date, clock)

\* The thread a record of g names exists and carries the problem, the next problem
\* follows it, and a job is posted only for a thread of that very day.
MatchesForum(g, rec) ==
  /\ rec.last # Nil =>
       /\ rec.thread \in DOMAIN threads
       /\ threads[rec.thread].guild = g
       /\ threads[rec.thread].number = rec.last
       /\ rec.next = rec.last + 1
  /\ rec.job.status = "posted" =>
       /\ rec.last = rec.job.problem
       /\ threads[rec.thread].date = rec.job.targetDate

(* Every stored record agrees with the forum, whatever saves, threads and  *)
(* answers were lost on the way.                                           *)
LedgerMatchesForum ==
  \A g \in Guilds : stateDoc.guilds[g] # Nil => MatchesForum(g, stateDoc.guilds[g])

\* The lists a cache may hold.
Lists == FetchLists \cup (IF InitialCache = Nil THEN {} ELSE {InitialCache})

\* A list only grows at its end: the bundled one counts its problems from 1
\* (neetcode150.json).  A number that appears below one already posted is never due.
ASSUME ListsAssumption ==
  \A list, other \in Lists : \A m \in list, n \in other : n <= m => n \in list

(* No problem is passed over: whatever fails, the next problem moves past  *)
(* a number of the cache only after a thread for it has appeared.          *)
NoProblemSkipped ==
  \A g \in Guilds : stateDoc.guilds[g] # Nil =>
    \A n \in cacheDoc.problems :
      StartNumber[g] <= n /\ n < stateDoc.guilds[g].next =>
        \E i \in DOMAIN threads : threads[i].guild = g /\ threads[i].number = n

HasThread(g, date) == \E i \in DOMAIN threads : threads[i].guild = g /\ threads[i].date = date

\* A run for the day is at work on g, returned an error for it or was cut off.
Answers(q, g, date) ==
  /\ run[q].date = date
  /\ (Working(q) /\ Current(q) = g) \/ g \in run[q].errs \/ run[q].pc = "killed"

(* No day is lost silently: whatever fails, an enabled guild of a run that *)
(* has returned has its thread of the day, or some run of that day reports *)
(* its failure in what it returns, is still at work on it or was cut off.  *)
(* A run that skips a guild relies on the run that announced the posting.  *)
NoSilentDay ==
  \A r \in Runs : run[r].pc = "done" =>
    \A i \in DOMAIN EnabledGuilds :
      \/ HasThread(EnabledGuilds[i], run[r].date)
      \/ \E q \in Runs : Answers(q, EnabledGuilds[i], run[r].date)

PostedFor(rec, date) == rec # Nil /\ rec.job.targetDate = date /\ rec.job.status = "posted"

(* A day that state.json records as posted is closed: no run, however old  *)
(* the copy it works on, adds a thread for that guild and day.             *)
NoThreadAfterPosted ==
  [][\A g \in Guilds : \A i \in DOMAIN threads' \ DOMAIN threads :
       threads'[i].guild = g => ~PostedFor(stateDoc.guilds[g], threads'[i].date)]_vars

(* Saves never lose progress: a guild's record stays, its next problem     *)
(* never goes back, and a posted day stays posted until a later one.       *)
ProgressIsKept ==
  [][\A g \in Guilds : stateDoc.guilds[g] # Nil =>
       LET old == stateDoc.guilds[g]
           new == stateDoc'.guilds[g] IN
       /\ new # Nil
       /\ new.next >= old.next
       /\ old.job.status = "posted" =>
            PostedFor(new, old.job.targetDate) \/ new.job.targetDate > old.job.targetDate]_vars

-----------------------------------------------------------------------------
(* With a single guild only the poster itself can save while it posts, so  *)
(* the save that records a new thread never conflicts.                     *)
RecordNeverConflicts ==
  \A r \in Runs : run[r].pc \in {"savePosted", "saveFailed"} => run[r].ver = stateDoc.gen

(* No duplicate: a guild gets one thread a day, each problem once and in   *)
(* ascending order (.plans/leetdaily-design.md:35).                        *)
NoDuplicatePosts ==
  \A i, j \in DOMAIN threads : i < j /\ threads[i].guild = threads[j].guild =>
    /\ threads[i].date < threads[j].date
    /\ threads[i].number < threads[j].number

(* Every run ends by itself or by the platform's timeout.                  *)
EveryRunEnds == \A r \in Runs : run[r].pc = "loadState" ~> run[r].pc \in {"done", "killed"}

(* A posting left behind by a run that died does not block its guild: a    *)
(* rerun past the staleness limit posts, or alerts, unless it dies too or  *)
(* its loads, saves or alerts fail (docs/runbook.md:50).                   *)
StuckPostingIsSettled ==
  \A r \in Runs : \A i \in DOMAIN EnabledGuilds :
    LET g == EnabledGuilds[i] IN
    (/\ run[r].pc = "loadState" /\ \A q \in Runs \ {r} : ~Live(q)
     /\ stateDoc.guilds[g] # Nil /\ StalePosting(stateDoc.guilds[g], run[r].date, clock))
      ~> (\/ PostedFor(stateDoc.guilds[g], run[r].date)
          \/ <<g, run[r].date>> \in alerts
          \/ run[r].pc = "killed")

\* Where processes may die, one has; the platform's time limit is no excuse.
ARunDied == "crash" \in Faults /\ \E r \in Runs : run[r].pc = "killed"

(* A failure reaches the notification                                      *)
(* (.plans/07-job-orchestration.md:52): once a run has started for a day,  *)
(* every enabled guild gets its thread of the day or an alert, unless a    *)
(* process dies.  With one guild, and as long as no load, save or alert    *)
(* fails, the code keeps this.  After one of those nobody is alerted (see  *)
(* NoSilentDay), and the pauses of other guilds break it (see OthersGoOn). *)
DaySettled ==
  \A r \in Runs : \A i \in DOMAIN EnabledGuilds : \A date \in 0 .. DateOf(Horizon) :
    LET g == EnabledGuilds[i] IN
    (run[r].pc = "loadState" /\ run[r].date = date)
      ~> (HasThread(g, date) \/ <<g, date>> \in alerts \/ ARunDied)

FailedFor(rec, date) == rec # Nil /\ rec.job.targetDate = date /\ rec.job.status = "failed"

(* The failure of a guild stops no other one                               *)
(* (.plans/07-job-orchestration.md:35): after two runs of a day, the       *)
(* second long after the first, every enabled guild has its thread or an   *)
(* alert, or a request for the guild itself has failed.                    *)
OthersGoOn ==
  \A q, r \in Runs : \A i \in DOMAIN EnabledGuilds :
    LET g == EnabledGuilds[i] IN
    /\ {run[q].pc, run[r].pc} \subseteq {"done", "killed"}
    /\ run[q].date = run[r].date /\ run[q].born + RunTimeout < run[r].born
    => \/ HasThread(g, run[r].date) \/ <<g, run[r].date>> \in alerts
       \/ FailedFor(stateDoc.guilds[g], run[r].date)
=============================================================================
