# LeetDaily: specification and verification

LeetDaily posts one LeetCode problem a day to the Discord forum of every
configured guild. The modules here model the parts of it that can go wrong in
ways a unit test hardly reaches: several executions of the daily job that share
a state document, a problem cache and a forum, and that crash, time out, lose
answers and race each other; the two storage backends below them; the Discord
calls with their retries; and the HTTP server that starts runs without a limit.

## 1. Inventory of the system

| Component | State | Operations | Interacts with | What makes it correct |
|---|---|---|---|---|
| Daily job (`internal/job`) | per run: a copy of the state and its version, a copy of the cache and its version, the guild at hand | `Run`, `execute`, `post`, `recordFailure`, `shouldSkip`, `recoverStalePosting` | store, problem source, Discord, notifier | one poster per guild, announce before posting, no problem skipped, no progress lost, every day ends in a thread or is reported |
| Guild state (`internal/state`) | `guild_states`: next problem, last post, today's job | `New`, `EnsureGuild`, `DefaultGuildState`, `Validate` | saved and loaded by the job | agrees with the forum |
| Problem cache (`internal/problemcache`) | the problem list | `NeedsRefill`, `Refresh`, `SelectNextAtMost`, `CategoryProgress`, `Validate` | called by the job | the smallest number left is chosen, a usable cache is used |
| Storage (`internal/storage`, `gcs`, `filesystem`) | objects with versions | load, save with an expected version | the job | a save with an outdated version fails |
| Discord client (`internal/discord`) | the forum's threads and tags (remote) | `EnsureDifficultyTags`, `CreateForumThread`, `AddReaction`, `SendMessage`; HTTP retries below | the job, the notifier | bounded retries; a creation is not idempotent |
| Notifier (`discord/reponotifier.go`) | none | `NotifyFailure` | guild settings, Discord | delivers, or drops without an error |
| HTTP runtime (`internal/httpruntime`) | the server | `GET /healthz`, `POST /run` | starts the job, concurrently | the date is fixed when the request arrives |
| Configuration (`internal/config`, `runtimecfg`) | read only | `Validate`, `EnabledGuilds` | the job | distinct guilds, positive settings |
| Problem source (`internal/neetcode`) | a bundled file | `FetchProblems` | refresh | every problem valid on its own; duplicates are found later |
| Deployment (`infra/terraform`) | none | triggers at 05:00 and 06:00 with retries, 15-minute task timeout, no task retry | starts and ends runs | a run is dead long before its posting is stale |

The hard behaviours are: runs that overlap (two triggers, retried triggers,
manual starts); a state document loaded once and written many times under one
version for all guilds; a process that may die between creating a thread and
recording it; requests that are retried or whose answers are lost; and time:
staleness, pauses between attempts, the task timeout. `PROJECT.json` lists each
hazard at the line where it bites.

## 2. Modules

| Module | Models | Extends / refines |
|---|---|---|
| `GuildState` | the persisted record of one guild and the decisions taken on it, as pure operators | |
| `DailyJob` | any number of runs, the versioned documents, the forum, the alerts and the clock | `GuildState` |
| `DailyJobProperties` | the properties of the job | `DailyJob` |
| `DailyLedger` | what the job promises: an entry per guild and the forum | abstract |
| `JobDeployment` | the job under the intervals of the deployment, and the mapping to the ledger | refines `DailyLedger` |
| `HttpRuntime` | the job behind the HTTP server, without those intervals | composes `DailyJob` with the server |
| `ProblemCache` | the problem list, its refill and the selection | |
| `VersionedStore` | what `storage.Repository` promises for one document | abstract |
| `GcsStore` | the Cloud Storage backend | refines `VersionedStore` |
| `FileStore` | the filesystem backend | refines `VersionedStore` while saves do not overlap |
| `DiscordCall` | what the job assumes of one Discord request | abstract |
| `RetryClient` | `doJSON` on top of the retry loop | refines `DiscordCall` |
| `ForumTags` | the difficulty tags of one forum under several runs and a moderator | |
| `MC...` | constants for TLC | |
| `...Proofs` | theorems, section 5 | |

### The daily job

An action of `DailyJob` is one external call of one run together with the local
code up to the next call; `run[r].pc` names the call that comes next:

| `pc` | code | actions |
|---|---|---|
| `new` | `DateRunner.Run` | `Start` |
| `loadState`, `loadCache` | `Run`, loading | `LoadState`, `LoadProblemCache`, `LoadFails` |
| `guild` | head of the loop in `Run`, first lines of `execute` | `SkipGuild`, `TakeOverStale`, `BeginGuild`, `Return` |
| `saveRecovered` | save of the taken-over record | `SaveRecovered` |
| `refresh`, `notifyStale`, `saveCache`, `select` | cache part of `execute` | `CacheSuffices`, `RefillCache`, `RefillFails`, `NotifyStaleCache`, `SaveProblemCache`, `SelectNext` |
| `tags`, `saveRejected` | start of `post`, `recordFailure` | `EnsureTags`, `SaveRejected` |
| `savePosting`, `create`, `react`, `notifyReaction`, `savePosted` | one attempt that succeeds | `SavePosting`, `CreateForumThread`, `AddReaction`, `NotifyReaction`, `SavePosted` |
| `saveFailed`, `sleep`, `notifyFailure` | one attempt that fails | `SaveFailed`, `Wake`, `NotifyFailure` |
| `done`, `killed` | the run is over | |

The store is `stateDoc` and `cacheDoc`, each a generation and its content; a
save succeeds only with the current generation, as Cloud Storage's conditional
writes do. A failed save leaves the changed record in the run's memory and the
run goes on to its next guild, as the code does. `Faults` says which of the
environment's faults may happen; every one of them is an error return the code
handles, or a death of the process. Loading the configuration and the guild
settings, read-only and before the state, is part of `LoadFails` only. A
cancelled context is a death: no later call of that run reaches anything.

`ProblemCache` models the list itself, with numbers, slugs, difficulties and
categories, and drives `Refresh` and `SelectNextAtMost` day by day, one action
per way a day can go: enough problems left (`DayFromCache`), a refill that is
saved (`DayRefilled`) or not (`DayUnsaved`), a fetched list that `Validate`
refuses (`DayRejected`), a fetch that fails with the old cache to fall back on or
none (`DayStale`), and one whose alert fails as well (`DayUnnotified`). `err` is
the error that ended a day without a post. Its `Faults` are failing fetches,
alerts and saves of the cache. In
`DailyJob` the cache is the set of its numbers: difficulty never filters there,
because the job passes `Hard`, the largest.

`DailyLedger` is the promise a reader of state.json and of the forum relies on.
An entry moves in four ways: a posting is announced, given up, taken over, or
closed with its own thread; a thread appears only under an announcement; one
write may move the entries of several guilds, because state.json holds them
all. `JobDeployment` maps the record of a guild to its entry, leaving out the
retry count and the start of the posting, which serve the job alone. Its
assumptions are the deployment's: a run dies before its posting is stale, and
no run is alive across midnight.

`HttpRuntime` drops both assumptions. A run of `DailyJob` is the handler of one
`POST /run`; `TriggerTimes` are the arrivals, at any time of day. `Disconnect`
cancels the request's context. After SIGTERM nothing is accepted any more and
`Exit` comes when every handler has returned or five seconds are over, less
than a tick; the handlers still at work are cut off.

### The stores

`VersionedStore` has a document with a version, the document each client last
saw, and the save each client has under way. A save takes effect at one instant
between its call and its answer, on the version its client holds; an error does
not tell whether it did. Clients crash, and the operator edits the document in
place, as docs/runbook.md describes. Content that `Validate` rejects may be in
the document, never in a client.

`GcsStore` follows `readObject`, `writeObject` and `WriteObject`: a version is a
generation from 1 on, the zero version becomes `DoesNotExist`, and the upload
carries the condition that Cloud Storage checks when it finalizes it
(`Finalize`, `PreconditionFailed`). The answer may be lost after that
(`WriteFails`). In the mapping an upload is a call and its end the effect.

`FileStore` has one action per system call of `writeJSONWithVersion`: the read
with the comparison, mkdir, the temporary file, write, sync, close, rename. Any
of them may fail. The version is the hash of the bytes, which stands for the
content. A file knows whether its data is on the disk: `PowerLoss` leaves what
the disk holds, which is torn for a file that was not synced, and the directory
entry may be written back (`Writeback`) any time after the rename. Nothing is
held between the comparison and the rename, so two overlapping saves on one
version both succeed and the first one's update is lost. The refinement
therefore holds under the constant `SerialSaves`, with which no save passes its
comparison while another is between comparison and rename; set it to `FALSE`
and TLC shows the lost update. The theorem about the file needs no such
restriction, and the refinement under `SerialSaves` is proved too. `VersionedStore!Outage` is the loss of power as a client sees it:
some whole document, perhaps an older one, is left.

### Discord

`RetryClient` is one call: the loop of `RetryHTTPClient.Do`, the waits, and the
check and decoding of the answer in `doJSON`. A try on the `wire` may be
applied by Discord at any later time, also after it was given up and even after
the call has ended; a 5xx may come from a request that was applied. Mapped to
`DiscordCall` it is a request of at most `MaxRetries + 1` copies, of which at
least one was applied if the call succeeds. `CreateForumThread` of `DailyJob`
takes that in one step, with `MaxCopies` copies.

`ForumTags` has the forum's tags with their ids, which Discord gives out once,
and per run the list it read, the ids it got and the attempts it makes with
them. `PatchChannel` replaces the whole list, as Discord does: what another run
or the moderator added in between and the run did not read is gone. A listed tag
that no longer exists is refused or comes back under a new id; both are
possible, since the code knows neither. Names are compared after
`normalizeTagName`. The lists in the runs hold two difficulties, one of them
also written without a capital, and two other names.

## 3. Properties

The job. `PostingExclusion`: the skip and takeover rules on top of versioned
saves act as a lock per guild. `AnnouncedInStore`: the write-ahead record is
there while a thread may be in the making. `LedgerMatchesForum`: the record
names a real thread. `NoThreadAfterPosted`, `ProgressIsKept`: a posted day stays
posted, and no save, which writes every guild's record, takes another guild
back. `ImplementsDailyLedger`: all runs together implement `DailyLedger`.
`NoProblemSkipped`, and for one guild `RecordNeverConflicts` and
`NoDuplicatePosts`. `NoSilentDay`: whatever fails, an enabled guild of a run that
has returned has its thread of the day, or some run of that day has the failure
in the error it returns, is still at work on the guild or was cut off; a run that
skips a guild relies on another, which must not drop it. Liveness:
`EveryRunEnds`; `DaySettled`, a thread or an alert on every day, which the code
keeps for one guild as long as no process dies and no load, save or alert fails;
and
`StuckPostingIsSettled` (docs/runbook.md:50: a rerun past the staleness limit
frees a guild that is stuck in `posting`, unless its own loads, saves or alerts
fail). `OthersGoOn` is what the plan of the job promises about the guilds next to
a failing one; the code breaks it.

The list. `TypeOK` with `Validate`, `PicksTheNext`, `ProgressCountsUp`, and
`CacheIsUsedUp`: a day that ends because no problem was found has used up the
list at hand. It is narrower than the design, for which a refill that fails in any
way costs no day while the old cache has a problem (section 6).

The stores. `ImplementsVersionedStore`; `SavesBuildOnCurrent`: a save that
takes effect replaces exactly the content its client last saw, so no update is
lost; `CompleteDocument`: neither the file nor what the disk keeps of it is ever
truncated.

Discord. `ImplementsDiscordCall`; `WaitsBounded` (the share of a run's time
budget a call may spend on waiting); `FailsOnlyWhenExhausted` and
`NoNeedlessCopy`, which pull in opposite directions: a passing outage must not
fail the day, and every needless copy may be a further thread; `CallEnds`. For
the tags `NoDuplicateDifficulty`, `DifficultiesStay` (an outdated list still
holds every difficulty, so a run never undoes another's repair),
`EnsureIsTrue`, and `Recovers` (a removed tag is restored by the next run).

## 4. Runs

| Run | Instance | Shows |
|---|---|---|
| `exclusion` | 2 guilds, 2 runs, 2 attempts, days of 4 ticks; saves and Discord fail, crashes, slow calls | exclusion, announcement, ledger, no thread after `posted`, progress kept, no silent day, the refinement of `DailyLedger` |
| `single` | 1 guild, 3 overlapping runs over 2 days, failing loads, fetches, requests and alerts | no duplicates and no silent day in the single-server deployment |
| `settled` | 1 guild, the deployment's intervals (a tick is 5 minutes: pause 1, timeout 3, stale 6), 3 attempts, failing fetches and requests, lost answers, crashes, fairness; no failing load, save or alert | runs end; a thread or an alert every day; a posting left behind is taken over and settled |
| `http` | 1 guild, 2 requests at any time of days of 3 ticks, no cache object at first, up to 2 threads per creation, crashes, failing fetches and requests, lost answers and saves | the record stays true, no problem skipped |
| `problems` | all lists of at most 3 problems out of 6, refills of at most 2, one without its link and one unsorted list of 4; failing fetches, alerts and saves | selection, refill, progress |
| `gcs_store` | 3 clients, 3 contents (one invalid), generations up to 5 with gaps | the refinement, no lost update |
| `files` | 3 clients, saves one after the other, failing calls, crashes, 2 losses of power | the refinement, although a hash may come back; no truncated document |
| `retry` | 4 tries, waits 2, 4, 8 capped at 5, jitter | the refinement, bounds, the call ends |
| `tags` | 2 runs, 2 edits by the moderator, 2 failing or repeated requests, forums of up to 3 tags, fairness | the forum's difficulties, repair |
| `duplicate` | 2 guilds, 3 runs, no fault | expected violation, see section 6 |
| `budget` | 3 guilds, the two daily triggers an hour apart, Discord fails | expected violation of `OthersGoOn` |
| `midnight` | 1 guild, 2 requests, days of 2 ticks, slow calls | expected violation |

Why the bounds are enough. Exclusion is a matter of two runs: a third adds no
new kind of interleaving between two of them, and the theorems hold for any
number. Two guilds are the smallest case in which one document is shared. The
trigger times allow a second run together with the first, at the staleness
limit and on the next day; `Horizon` lies just after the last one, with days as
long as two staleness limits, so takeovers, retries and a new day all happen.
Where calls may be slow the ratio of timeout to staleness is 1 to 2, as in the
deployment (15 and 30 minutes). In `http` the days are short, so that requests
are alive across midnight and past the staleness limit, and the horizon is the
second day.

For a store, three clients are one that saves, one that interferes and one that
interferes again; generations grow by gaps, since Cloud Storage does not count
by one, and 5 leaves room for four writes. Two losses of power let one strike
what another left behind.
Three contents are two valid ones, so that a document can be changed and changed
back, and one that `Validate` rejects. Four tries are the program's setting; the
waits are chosen so that the cap falls between the first and the third. The
largest forum in `tags` is one tag larger than the difficulties, so it can be
full. Two failures let one run fail, or fail one request of each.

Clients and runs are interchangeable, so they are declared symmetric in the
safety runs, where no property names a particular one. Deadlock is not checked:
when the runs are over and the clock has reached `Horizon`, the generations or
the edits are used up, or the call has ended, the system stops.

Fairness. `DailyJob!FairSpec` (`settled`): every run keeps
taking its next step (a goroutine that is not blocked is scheduled, and every
call has an outcome), time passes, and the platform enforces its timeout. No
fairness is assumed for starting a run or for any fault. In `settled` calls
take no time, so a run spends its budget only on the pauses between attempts, and
loads, saves and alerts do not fail: after one of them the day may end without a
thread and without an alert (section 6). What the code does keep then is
`NoSilentDay`, a safety property, which needs no fairness. Where processes may die,
`DaySettled` excuses the days on which one did, but not a run the platform's
time limit ends; `StuckPostingIsSettled` is about the rerun after such a death.
`RetryClient!FairSpec`: the program goes on, and a try that is not answered
breaks off some day. `http.DefaultClient` has no timeout, so the latter rests on
the context, which the platform's limit on the run cancels at the latest;
without that limit, in HTTP mode, nothing is claimed to end. Discord is not
assumed to answer. `ForumTags!FairSpec`: a run goes on; `Recovers` is about a run
that starts after the last edit and the last failure.

## 5. Proofs

For any sets of guilds, runs, clients and contents, any settings that the named
assumptions allow, and every fault:

| Theorem | Module | Statement |
|---|---|---|
| `TypeCorrect` | `DailyJobProofs` | `Spec => []TypeOK` |
| `RecordsAreTrue`, `HttpRecordsAreTrue` | `DailyJobProofs` | `Spec => []LedgerMatchesForum`, and of `HttpSpec` |
| `NothingSkipped`, `HttpNothingSkipped` | `DailyJobProofs` | `Spec => []NoProblemSkipped`, and of `HttpSpec` |
| `NoDayLostSilently`, `HttpNoDayLostSilently` | `DailyJobProofs` | `Spec => []NoSilentDay`, and of `HttpSpec` |
| `Exclusion` | `ExclusionProofs` | `Spec => []PostingExclusion` |
| `Announcement` | `ExclusionProofs` | `Spec => []AnnouncedInStore` |
| `NoConflictWhileRecording` | `ExclusionProofs` | one guild: `Spec => []RecordNeverConflicts` |
| `Refinement` | `LedgerProofs` | `Spec => ImplementsDailyLedger` |
| `ClosedDays` | `LedgerProofs` | `Spec => NoThreadAfterPosted` |
| `Progress` | `LedgerProofs` | `Spec => ProgressIsKept` |
| `CalmNoDuplicates` | `LedgerProofs` | one guild, calm environment: `Spec => []NoDuplicatePosts` |
| `TypeCorrect` | `ProblemCacheProofs` | `Spec => []TypeOK` |
| `PostsInOrder` | `ProblemCacheProofs` | `Spec => PicksTheNext` |
| `NothingLeftBehind` | `ProblemCacheProofs` | `Spec => CacheIsUsedUp` |
| `CountsUp` | `ProblemCacheProofs` | `Spec => ProgressCountsUp` |
| `TypeCorrect` | `GcsStoreProofs` | `Spec => []TypeOK` |
| `Refinement` | `GcsStoreProofs` | `Spec => ImplementsVersionedStore` |
| `NoLostUpdate` | `GcsStoreProofs` | `Spec => SavesBuildOnCurrent` |
| `TypeCorrect`, `NeverTorn` | `FileStoreProofs` | `Spec => []TypeOK`, `Spec => []CompleteDocument` |
| `SerialRefinement`, `NoLostUpdate` | `FileStoreProofs` | serial saves: `Spec => ImplementsVersionedStore`, `Spec => Store!SavesBuildOnCurrent` |
| `Refinement` | `RetryClientProofs` | `Spec => ImplementsDiscordCall` |
| `TypeCorrect`, `BoundedWaits` | `RetryClientProofs` | `Spec => []TypeOK`, `Spec => []WaitsBounded` |
| `TriesAreExhausted`, `NothingNeedless` | `RetryClientProofs` | `Spec => []FailsOnlyWhenExhausted`, `Spec => NoNeedlessCopy` |
| `TypeCorrect`, `NoTagTwice` | `ForumTagsProofs` | `Spec => []TypeOK`, `Spec => []NoDuplicateDifficulty` |
| `RunsLoseNoDifficulty`, `EnsuredTagsExist` | `ForumTagsProofs` | `Spec => DifficultiesStay`, `Spec => EnsureIsTrue` |

Every safety property that a passing run checks is a theorem.

**The record and the forum.** The proofs of `DailyJobProofs` use none of the
deployment's intervals, so they hold of the HTTP server as well: there a step is
one of the job, a death of several runs at once (`Exit`), or one that touches no
variable of the job. The lemmas on the shape of a step (`RunStepShape` and what
follows from it) say once, for all actions, how a step may change the record at
hand, the store, the forum and the run's place in the code; the invariants are
then shown from the shapes. `ForumInv`: every stored record and every record in
a run's copy tells the truth about the forum, and so does the thread a run holds
before it is recorded. The copies are what makes it inductive, since a save
stores the copies of all guilds. `SkipInv`: every number of every list between a
guild's start and the next number of a record, stored or in a copy, has its
thread; and a run's problem is the smallest one of its cache that is due. It
needs `ListsAssumption`, that one list differs from another only by what it adds
at the end: a problem that appeared below the next number would never be due.
`SilentInv`: a day that a `posting` record names, in the store or in any copy, is
`Accounted` for, by its thread or by a run that answers for it; and a run answers
for every guild it has left behind. The two halves need each other: a run that
skips a guild leans on the announcement it read, and an announcement is accounted
for because its run leaves the guild only with an error, with its thread or by
being cut off (`AnswerStep`, `LeavesGuild`). A skipped `posted` record has its
thread by `ForumInv`.

**Exclusion.** `TypeInv` strengthens the type with what a run at work relies on:
the head of its list of guilds exists and has a record in the run's copy.
`PostingExclusion` is not inductive: two runs may both be about to announce the
same guild, and only the version of the store keeps the second announcement
out. The invariant `ExclInv` says what the argument needs, in two parts.

- `RunSafe`, of each run by itself: a live run is within its timeout and on the
  date it was triggered for; its version is no newer than the generation of the
  store; the record it is about to save is its own announcement; and while its
  thread is in flight the stored record is that announcement.
- `Apart`, of each pair: while one run has a thread in flight, the other has
  none in flight for that guild, and if the other's version is the store's
  current generation, its copy holds the announcement and it is not at work on
  that guild. A run whose version is older may be at work there, and its save
  is refused.

A load establishes the second clause of `Apart`: it reads the announcement, and
`FreshPosting` shows that `shouldSkip` refuses it for as long as the poster
lives, since the poster's timeout ends before its announcement turns stale. A
successful save moves the generation past the version of every other run.
`TakenFree` concludes that a run which takes a guild with a current version
finds no thread in flight there. `ExclInv` was checked with TLC on the
instance of the run `exclusion` before it was proved.

**The ledger.** `LedgerInv` adds to `ExclInv` what a save relies on.

- `StoreDates`: no stored record is of a later day than today.
- `Sound`, of each run by itself: its list names a guild once; none of its
  records is of a later day than its own; the record at hand is not `posted`
  for its day; the problem it chose is not behind the record; between the
  announcement and the record of the thread, the record at hand is its
  announcement; and the thread it holds is the one of this guild, day and
  problem.
- `Fresh`, of each run whose version is the store's current one: every record of
  its copy is the stored one or one legal move of the ledger ahead of it, and
  only for the guilds it has dealt with. A record may be ahead after a save
  that failed.

A save that succeeds is one on the current version, so `Fresh` turns it into a
`Write` of the ledger for all guilds at once; a save by anybody else makes the
version old, and `Fresh` says nothing any more. A thread appears under the
stored announcement, by `AnnouncedInStore`, which makes it a `Publish`.
`ClosedDays` and `Progress` follow from the refinement: each looks at one move
of the ledger. `Progress` needs `StoreAhead` besides: a stored posting names a
problem that is not behind.

**One guild.** With a single enabled guild every run at work is at work on that
guild. `SingleInv` says that a run between its announcement and the record of
the outcome has the store's current version. Only a run with the current version
can write, and `Apart` says that while one is posting such a run is not at work;
so the version stays current, and the save that records the thread cannot
conflict, under every fault.

`CalmNoDuplicates` goes on from there. `Calm` says what the environment must not
do: no save fails, no answer of Discord is lost, no run dies, calls take no
time, and the pauses of all attempts fit into the time limit (`RetriesFit`). Each
fault but the last two leads to a duplicate by itself, as the code has nothing
but the record to go by; slow calls and long pauses lead to the time limit, which
is a death. Failing loads, fetches, requests and notifications stay, and so does
any number of overlapping runs. `TimeInv` shows that no run reaches its limit:
it bounds the clock by the birth of the run and the number of pauses taken.
`OrderInv` says that every thread is `Recorded`, its day closed and its problem
behind the guild's next one, or is the `Pending` one of a run that is about to
record it. A run that creates a thread finds every other one recorded, since
nobody else is posting; the new one is of a later day and problem than all of
them (`CreateSorted`), which is the property. `Recorded` is kept by every save
because every move of the ledger keeps it (`RecordedStays`). The invariants were
checked with TLC on the instance of the run `single` before they were proved.

**The list.** `selectNext` and the index by number are `CHOOSE`s of a largest or
smallest number, so the proof first shows that finite sets of numbers have them
(`Smallest`, `Largest`), by the well-foundedness of strict inclusion.
`Selected` then says what the search returns. For the progress, `Shows` is the
invariant: what a category shows counts its problems in the list and, of those,
the ones already behind the next number. `OnePassed` shows that a post passes
exactly one problem, of its own category, because the search leaves out none.
`NothingLeftBehind` says that the errors `refill` and `noProblem` mean an empty
rest: the fallback of `Refresh`, which asks `HasProblemFrom`, and the search
agree, and a list with enough left by count has a problem to find.

**The Cloud Storage backend.** `HeldWasStored` and `UploadWasStored` say that
what a client holds was once the object: its token is not ahead of the object's
generation, and equal tokens mean equal data. `ConditionMeansCurrent` concludes
that an upload whose condition holds is one on the current version, in the case
of the zero version on no object at all, and `FreshVersion` that the new
generation is nobody's token. `NoLostUpdate` follows.

**The file.** `SyncedBeforeRename`: a temporary file about to be closed or
renamed is complete and on disk. For the refinement, under `SerialSaves`,
`SerialInv`: a version a client holds is the hash of the content it holds; and
while a save writes, no other one does, and the document is the one whose
version the saving client carries. The rename then takes effect on the version
the client holds, although nothing checks it there, and although a hash comes
back when the content does.

**The call.** `CallInv`: an answer 2xx means that a try was applied, and the
call has a result exactly when it has ended. `WaitInv` bounds the waits. That
`2^k` is a natural number, which `TypeOK` needs, comes from the number of
subsets of `1 .. k`.

**The tags.** `SeenInv`: a list that a run has read and not yet sent back holds
no two tags of one normalized name, and none of its tags was renamed since, for
Discord gives an id once. `TakesFacts` says what a write does, however outdated
its list is: the forum then has all difficulties, every tag in it is an old one
or has a new id, and no name is there twice. `NumberedTags` is the lemma about
the new tags.

Assumptions: `ConstantsAssumption` (settings are positive, as the
configuration's validation requires), `NilAssumption` and
`StaleAfterAssumption`; `ListsAssumption` of `DailyJobProperties` for
`NothingSkipped`; for exclusion and the ledger also `TimeoutAssumption`,
`TriggerAssumption` and `EntryAssumption` of `JobDeployment`; `GcsAssumption`,
`FileAssumption` and `RetryAssumption` of the stores and the call;
`TagsAssumption` (a difficulty's name is its own normal form; lists of tags are
finite); and of the problem list `ThresholdAssumption`, `StartAssumption`,
`FaultsAssumption`, `ListsAssumption` (lists consist of problems) and
`NoProblemAssumption`. TLC
evaluates each in a passing run. `SingleGuild`, `Calm` and `SerialSaves` are
hypotheses of their theorems: the runs `single` and `files` are instances.

Liveness under fairness and statements with `ENABLED` are beyond the prover and
remain with TLC. Model-checked only: `EveryRunEnds`, `DaySettled`,
`StuckPostingIsSettled`, `CallEnds`, `Recovers`.

## 6. Where the code and its documents disagree

* `duplicate`: state.json has one version for all guilds, so a save for guild B
  by another run makes the save of `posted` for guild A conflict although the
  thread exists; the next trigger takes the posting over and posts again. The
  design says duplicates are prevented (`.plans/leetdaily-design.md:35`). With
  a single guild, the deployment README.md describes, run `single` shows that
  it cannot happen.
* `budget`: guilds are posted one after the other, and the pauses between
  attempts (`runner.go:296`) count against the one task timeout. In TLC's trace
  the three attempts for guild A fail, the first one for B fails, and B's pause
  meets the timeout; C behind them, for which no request was made, gets neither a
  thread nor an alert, and the second trigger of the day goes the same way. It
  takes two failing guilds: the guild right behind a single failing one is still
  posted. The plan says that a guild's failure must not stop the others
  (`.plans/07-job-orchestration.md:35`).
* `midnight`: `shouldSkip` looks at a record only if its date is the run's own,
  so a request that arrives after midnight does not see the fresh posting of a
  request from before midnight. It replaces the announcement and posts the same
  problem (`.plans/leetdaily-design.md:35`). The scheduled job cannot run into
  it (`TriggerAssumption`), the HTTP server can.

Three more, seen while modelling, have no run of their own.

* A failing save of the state (`runner.go:186`, `245`, `274`, `290`, `323`), a
  failing save of the cache (`207`) and a failing load (`114`-`137`) return an
  error without a notification (`SaveErrors`, `SaveProblemCache`, `LoadFails`), so
  the day may end with no thread and no alert. The plan says that a failure
  reaches the notification (`.plans/07-job-orchestration.md:52`). The error does
  reach the caller of `Run` (`NoSilentDay`), and the second trigger of the day
  tries again. Adding `"save"` to the faults of `settled` breaks `DaySettled`.
* The design lets the job go on with the existing cache when a refill fails
  (`.plans/leetdaily-design.md:108`), and so does the comment at `runner.go:198`.
  A fetched list that `Validate` refuses (`refill.go:53`; `DayRejected`,
  `RefillFails`) and an alert that fails after a failed fetch (`runner.go:200`;
  `DayUnnotified`, `NotifyStaleCache`) end the guild's day although the old cache
  still has a problem.
* README.md:3 speaks of free problems, and the selection does not look at
  `is_paid_only`: a paid-only problem with a NeetCode link is picked like any
  other (`Candidates`).

## 7. Not modelled

Configuration parsing, the choice of the backend, the wiring, logging and id
formats hold no state worth exploring. Texts (titles, bodies, errors) are left
out. The notifier's look-up of the guild's channel is a notification that
vanishes (`Deliver`).

Late effects. In `RetryClient` a request may be applied after its call has
ended. `DailyJob` and `GcsStore` do not have that: a thread appears while its
call is under way, and an upload is finalized before its client is told of an
error, or never. A late save carries its condition with it, so it is refused
once anybody else has saved; a late thread is one that nobody records, as after
a crash.

Of the local backend, a person who edits a file in place is left out. The
directory is not synced, so after a loss of power the document may be the one
before, complete but older; `Outage` allows that, and no property asks for more.

The attempts of one run use the tag ids from before the first one, so a tag
removed in between fails them all; `Recovers` says what the design promises
(`手動削除時に自動復旧できる`), a repair by the next run.

In HTTP mode nothing bounds a call, so no liveness is stated there.

## 8. Plan

1. The consequences of the abstract specifications, proved once: what any
   `DailyLedger` and any `VersionedStore` guarantee.
2. Duplicates with a cause: a theorem that names, for any number of guilds and
   any fault, what must have happened before a second thread of a day.
3. Uploads that take effect after their error in `GcsStore`, with the proofs.
