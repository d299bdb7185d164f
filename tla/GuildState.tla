----------------------------- MODULE GuildState -----------------------------
(***************************************************************************)
(* The persisted record of one guild (internal/state/state.go) and the     *)
(* decisions the runner takes on it (internal/job/runner.go): when today's *)
(* job is skipped, when a stuck posting is taken over, and the job record  *)
(* each phase writes.  A nil pointer of the code is Nil; last_error, a     *)
(* text nobody reads back, and last_posted_at are left out.                *)
(***************************************************************************)
EXTENDS Integers

CONSTANTS Nil,         \* a nil pointer
          StaleAfter   \* stalePostingAfter, in ticks of the clock

ASSUME StaleAfterAssumption == StaleAfter \in Nat \ {0}

JobStatus == {"idle", "posting", "posted", "failed"}

JobState == [targetDate : Int \cup {Nil},
             status     : JobStatus,
             problem    : Nat \cup {Nil},
             retry      : Nat,
             startedAt  : Int \cup {Nil}]

\* next: next_problem_number; last, thread: the problem and thread last posted.
GuildStateType == [next   : Nat \ {0},
                   last   : Nat \cup {Nil},
                   thread : Nat \cup {Nil},
                   job    : JobState]

\* A nil pointer is neither a number nor a guild's record.
ASSUME NilAssumption == Nil \notin Int /\ Nil \notin GuildStateType

-----------------------------------------------------------------------------
IdleJob(date) ==
  [targetDate |-> date, status |-> "idle", problem |-> Nil, retry |-> 0, startedAt |-> Nil]

PostingJob(date, number, retry, now) ==
  [targetDate |-> date, status |-> "posting", problem |-> number, retry |-> retry,
   startedAt |-> now]

PostedJob(date, number, retry) ==
  [targetDate |-> date, status |-> "posted", problem |-> number, retry |-> retry,
   startedAt |-> Nil]

FailedJob(date, number, retry) ==
  [targetDate |-> date, status |-> "failed", problem |-> number, retry |-> retry,
   startedAt |-> Nil]

\* Mutant: problems counted from zero.
DefaultGuildStateZeroBased(start) ==
  [next |-> start - 1, last |-> Nil, thread |-> Nil, job |-> IdleJob(Nil)]

DefaultGuildState(start) ==
  [next |-> start, last |-> Nil, thread |-> Nil, job |-> IdleJob(Nil)]

-----------------------------------------------------------------------------
\* Mutant: a posting counts as stale after one tick.
IsStaleTooEarly(startedAt, now) == startedAt # Nil /\ now - startedAt >= 1

IsStale(startedAt, now) == startedAt # Nil /\ now - startedAt >= StaleAfter

\* A posting of today left by a run that never finished it.
StalePosting(guild, date, now) ==
  /\ guild.job.targetDate = date
  /\ guild.job.status = "posting"
  /\ IsStale(guild.job.startedAt, now)

\* Mutant: only a posting in progress is skipped.
ShouldSkipPosting(guild, date, now) ==
  /\ guild.job.targetDate = date
  /\ guild.job.status = "posting" /\ ~IsStale(guild.job.startedAt, now)

\* Mutant: only a finished posting is skipped.
ShouldSkipPosted(guild, date, now) ==
  guild.job.targetDate = date /\ guild.job.status = "posted"

\* Mutant: a stale posting is skipped as well.
ShouldSkipStale(guild, date, now) ==
  guild.job.targetDate = date /\ guild.job.status \in {"posted", "posting"}

ShouldSkip(guild, date, now) ==
  /\ guild.job.targetDate = date
  /\ \/ guild.job.status = "posted"
     \/ guild.job.status = "posting" /\ ~IsStale(guild.job.startedAt, now)

RecoverStalePosting(guild, date) == [guild EXCEPT !.job = IdleJob(date)]

\* Mutant: the next number counts posts instead of following the posted problem.
RecordPostedByCount(guild, date, number, retry, thread) ==
  [next |-> guild.next + 1, last |-> number, thread |-> thread,
   job |-> PostedJob(date, number, retry)]

\* What a successful thread leaves: the problem is done, the next one follows it.
RecordPosted(guild, date, number, retry, thread) ==
  [next |-> number + 1, last |-> number, thread |-> thread,
   job |-> PostedJob(date, number, retry)]
=============================================================================
