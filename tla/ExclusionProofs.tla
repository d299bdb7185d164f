-------------------------- MODULE ExclusionProofs --------------------------
(***************************************************************************)
(* The deployed job never has two runs posting to one guild, for any       *)
(* number of runs and guilds, any retry settings and every fault.          *)
(***************************************************************************)
EXTENDS JobDeployment, DailyJobProofs, SequenceTheorems

USE DEF world

(* Exclusion.  The invariant that is inductive says, of one run, that it   *)
(* lives within its time, that its copy of the state is no newer than the  *)
(* store, and that an announcement is on its way to the store before, and  *)
(* in the store while, a thread may be in the making; and of two runs,     *)
(* that a copy of the current version shows the other's announcement and   *)
(* is not at work on that guild.                                           *)

LoadedPcs == WorkingPcs \cup {"loadCache", "guild"}

\* job is the announcement of the run with local state l.
Announces(l, job) ==
  /\ job = PostingJob(l.date, l.problem, l.attempt - 1, job.startedAt)
  /\ job.startedAt \in l.born .. clock

OnTime(l) ==
  /\ l.born \in TriggerTimes
  /\ clock \in l.born .. l.born + RunTimeout
  /\ l.date = DateOf(l.born)

RunSafe(l) ==
  /\ l.pc \in LivePcs => OnTime(l)
  /\ l.pc \in LoadedPcs => l.ver <= stateDoc.gen
  /\ l.pc = "savePosting" => Announces(l, l.mem[Head(l.todo)].job)
  /\ l.pc \in InFlightPcs => /\ stateDoc.guilds[Head(l.todo)] # Nil
                             /\ Announces(l, stateDoc.guilds[Head(l.todo)].job)

\* k does not interfere with the posting of l.
Apart(l, k) ==
  l.pc \in InFlightPcs =>
    /\ ~(k.pc \in InFlightPcs /\ Head(k.todo) = Head(l.todo))
    /\ k.pc \in LoadedPcs /\ k.ver = stateDoc.gen =>
         /\ k.mem[Head(l.todo)] = stateDoc.guilds[Head(l.todo)]
         /\ ~(k.pc \in WorkingPcs /\ Head(k.todo) = Head(l.todo))

ExclInv ==
  /\ \A r \in Runs : RunSafe(run[r])
  /\ \A q, r \in Runs : q # r => Apart(run[q], run[r])

\* With the version of the store, r may work on g: nobody else is posting there.
Free(r, g) ==
  run[r].ver = stateDoc.gen =>
    \A q \in Runs \ {r} : ~(run[q].pc \in InFlightPcs /\ Current(q) = g)

\* A step of one run keeps the invariant if its new state is safe and apart.
LEMMA RunStepKeeps ==
  ASSUME TypeInv, ExclInv, NEW r \in Runs, NEW l, Becomes(r, l), UNCHANGED <<clock, stateDoc>>,
         RunSafe(l), \A q \in Runs \ {r} : Apart(run[q], l) /\ Apart(l, run[q])
  PROVE  ExclInv'
<1>1. run'[r] = l /\ \A q \in Runs \ {r} : run'[q] = run[q]
  BY DEF Becomes, TypeInv, TypeOK
<1>2. ASSUME NEW q \in Runs
      PROVE  RunSafe(run[q])'
  <2>1. RunSafe(run'[q])
    BY <1>1 DEF ExclInv
  <2>2. clock' = clock /\ stateDoc' = stateDoc
    OBVIOUS
  <2>3. OnTime(run'[q]) <=> OnTime(run[q])'
    BY <2>2 DEF OnTime
  <2>4. ASSUME NEW job
        PROVE  Announces(run'[q], job) <=> Announces(run[q], job)'
    BY <2>2 DEF Announces
  <2> QED
    BY <2>1, <2>2, <2>3, <2>4, Zenon DEF RunSafe
<1>3. ASSUME NEW q \in Runs, NEW p \in Runs, q # p
      PROVE  Apart(run[q], run[p])'
  <2>1. Apart(run'[q], run'[p])
    BY <1>1, <1>3 DEF ExclInv
  <2> QED
    BY <2>1 DEF Apart
<1> QED
  BY <1>2, <1>3 DEF ExclInv

\* A run that has no copy of the state, or none any more, interferes with nobody.
LEMMA OutsideKeeps ==
  ASSUME TypeInv, ExclInv, NEW r \in Runs, NEW l, Becomes(r, l), UNCHANGED <<clock, stateDoc>>,
         l.pc \in {"loadState", "done", "killed"}, l.pc = "loadState" => OnTime(l)
  PROVE  ExclInv'
<1>1. RunSafe(l)
  BY DEF RunSafe, LivePcs, LoadedPcs, WorkingPcs, InFlightPcs
<1>2. \A q \in Runs \ {r} : Apart(run[q], l) /\ Apart(l, run[q])
  BY DEF Apart, LoadedPcs, WorkingPcs, InFlightPcs
<1> QED
  BY <1>1, <1>2, RunStepKeeps

LEMMA PcFacts ==
  /\ InFlightPcs \subseteq WorkingPcs
  /\ WorkingPcs \subseteq LoadedPcs
  /\ LoadedPcs \subseteq LivePcs
  /\ "savePosting" \notin InFlightPcs
BY DEF InFlightPcs, WorkingPcs, LoadedPcs, LivePcs

\* A run that works on a guild with the version of the store is alone there.
LEMMA WorkingFree ==
  ASSUME TypeInv, ExclInv, NEW r \in Runs, Working(r)
  PROVE  Free(r, Current(r))
BY PcFacts DEF ExclInv, Apart, Free, Working, Current

\* A step with the same copy of the state, apart from the record of one guild.
LEMMA MoveKeeps ==
  ASSUME TypeInv, ExclInv, NEW r \in Runs, NEW l, Becomes(r, l), UNCHANGED <<clock, stateDoc>>,
         run[r].pc \in LoadedPcs, l.born = run[r].born, l.date = run[r].date, l.ver = run[r].ver,
         NEW g \in Guilds, \A h \in Guilds \ {g} : l.mem[h] = run[r].mem[h],
         l.mem[g] = run[r].mem[g] \/ Free(r, g),
         l.pc \in WorkingPcs => Head(l.todo) = g /\ Free(r, g),
         l.pc = "savePosting" => Announces(l, l.mem[Head(l.todo)].job),
         l.pc \in InFlightPcs => /\ run[r].pc \in InFlightPcs /\ Current(r) = g
                                 /\ l.problem = run[r].problem /\ l.attempt = run[r].attempt
  PROVE  ExclInv'
<1>1. RunSafe(l)
  <2>1. OnTime(l)
    BY PcFacts DEF ExclInv, RunSafe, OnTime
  <2>2. l.ver <= stateDoc.gen
    BY DEF ExclInv, RunSafe
  <2>3. CASE l.pc \in InFlightPcs
    BY <2>1, <2>2, <2>3, PcFacts DEF ExclInv, RunSafe, Announces, Current
  <2> QED
    BY <2>1, <2>2, <2>3 DEF RunSafe
<1>2. ASSUME NEW q \in Runs \ {r}
      PROVE  Apart(run[q], l) /\ Apart(l, run[q])
  <2>1. Apart(run[q], run[r]) /\ Apart(run[r], run[q])
    BY DEF ExclInv
  <2>2. Apart(l, run[q])
    <3>1. CASE l.pc \in InFlightPcs
      BY <2>1, <3>1, PcFacts DEF Apart, Current
    <3> QED
      BY <3>1 DEF Apart
  <2>3. Apart(run[q], l)
    <3> SUFFICES ASSUME run[q].pc \in InFlightPcs PROVE Apart(run[q], l)
      BY DEF Apart
    <3> DEFINE h == Head(run[q].todo)
    <3>1. h \in Guilds
      BY PcFacts DEF TypeInv, LocalOK, RunState
    <3>2. ~(l.pc \in InFlightPcs /\ Head(l.todo) = h)
      BY <2>1, PcFacts DEF Apart, Current
    <3>3. ASSUME l.ver = stateDoc.gen
          PROVE  l.mem[h] = stateDoc.guilds[h] /\ ~(l.pc \in WorkingPcs /\ Head(l.todo) = h)
      <4>1. run[r].mem[h] = stateDoc.guilds[h]
        BY <2>1, <3>3 DEF Apart
      <4>2. Free(r, g) => h # g
        BY <3>3 DEF Free, Current
      <4> QED
        BY <3>1, <4>1, <4>2
    <3> QED
      BY <3>2, <3>3 DEF Apart
  <2> QED
    BY <2>2, <2>3
<1> QED
  BY <1>1, <1>2, RunStepKeeps

\* A save that is applied publishes the run's copy, which shows every posting.
LEMMA WriteKeeps ==
  ASSUME TypeInv, ExclInv, NEW r \in Runs, NEW l, Becomes(r, l), UNCHANGED clock,
         Working(r), run[r].ver = stateDoc.gen,
         stateDoc' = [gen |-> stateDoc.gen + 1, guilds |-> run[r].mem],
         l.born = run[r].born, l.date = run[r].date, l.mem = run[r].mem,
         l.ver \in Nat, l.ver <= stateDoc.gen + 1,
         l.pc \in WorkingPcs => Head(l.todo) = Current(r), l.pc # "savePosting",
         l.pc \in InFlightPcs => /\ run[r].pc = "savePosting"
                                 /\ l.problem = run[r].problem /\ l.attempt = run[r].attempt
  PROVE  ExclInv'
<1>1. run'[r] = l /\ \A q \in Runs \ {r} : run'[q] = run[q]
  BY DEF Becomes, TypeInv, TypeOK
<1>2. stateDoc.gen \in Nat /\ stateDoc'.gen = stateDoc.gen + 1 /\ stateDoc'.guilds = run[r].mem
  BY DEF TypeInv, TypeOK
<1>3. ASSUME NEW q \in Runs \ {r}
      PROVE  /\ Apart(run[q], run[r])
             /\ run[q].pc \in LoadedPcs => run[q].ver \in Nat /\ run[q].ver <= stateDoc.gen
             /\ run[q].pc \in InFlightPcs =>
                  run[r].mem[Current(q)] = stateDoc.guilds[Current(q)] /\ Current(q) # Current(r)
  <2>1. Apart(run[q], run[r]) /\ RunSafe(run[q]) /\ run[q].ver \in Nat
    BY DEF ExclInv, TypeInv, LocalOK, RunState
  <2> QED
    BY <2>1, PcFacts DEF Apart, RunSafe, Working, Current
<1>4. RunSafe(l)'
  <2>1. RunSafe(run[r]) /\ Working(r) /\ run[r].pc \in LivePcs
    BY PcFacts DEF ExclInv, Working
  <2>2. OnTime(l)'
    BY <2>1 DEF RunSafe, OnTime
  <2>3. CASE l.pc \in InFlightPcs
    <3>1. Head(l.todo) = Current(r) /\ run[r].mem[Current(r)] # Nil
      BY <2>1, <2>3, PcFacts DEF TypeInv, LocalOK, Working, Current
    <3>2. Announces(run[r], run[r].mem[Current(r)].job)
      BY <2>1, <2>3 DEF RunSafe, Current
    <3>3. Announces(l, run[r].mem[Current(r)].job)
      BY <2>3, <3>2 DEF Announces
    <3>4. stateDoc'.guilds[Head(l.todo)] = run[r].mem[Current(r)]
      BY <1>2, <3>1
    <3> QED
      BY <1>2, <2>2, <3>1, <3>3, <3>4 DEF RunSafe, Announces
  <2> QED
    BY <1>2, <2>2, <2>3 DEF RunSafe
<1>5. ASSUME NEW q \in Runs \ {r}
      PROVE  RunSafe(run[q])'
  <2>1. RunSafe(run[q]) /\ run'[q] = run[q]
    BY <1>1 DEF ExclInv
  <2>2. run[q].pc \in LoadedPcs => run[q].ver <= stateDoc'.gen
    BY <1>2, <1>3
  <2>3. run[q].pc \in InFlightPcs => stateDoc'.guilds[Head(run[q].todo)] = stateDoc.guilds[Head(run[q].todo)]
    BY <1>2, <1>3 DEF Current
  <2> QED
    BY <2>1, <2>2, <2>3 DEF RunSafe, OnTime, Announces
<1>6. ASSUME NEW q \in Runs, NEW p \in Runs, q # p
      PROVE  Apart(run[q], run[p])'
  <2>1. CASE p # r
    <3>1. run[p].pc \in LoadedPcs => run[p].ver # stateDoc'.gen
      BY <1>2, <1>3, <2>1
    <3>2. run'[p] = run[p]
      BY <1>1, <2>1
    <3>3. ASSUME run'[q].pc \in InFlightPcs, run[p].pc \in InFlightPcs
          PROVE  Head(run[p].todo) # Head(run'[q].todo)
      <4>1. CASE q = r
        BY <1>1, <1>3, <2>1, <3>3, <4>1, PcFacts DEF Current
      <4>2. CASE q # r
        BY <1>1, <1>6, <3>3, <4>2 DEF ExclInv, Apart
      <4> QED BY <4>1, <4>2
    <3> QED
      BY <3>1, <3>2, <3>3 DEF Apart
  <2>2. CASE p = r
    <3>1. q \in Runs \ {r} /\ run'[q] = run[q] /\ run'[p] = l
      BY <1>1, <1>6, <2>2
    <3>2. ASSUME run[q].pc \in InFlightPcs
          PROVE  /\ ~(l.pc \in WorkingPcs /\ Head(l.todo) = Head(run[q].todo))
                 /\ l.mem[Head(run[q].todo)] = stateDoc'.guilds[Head(run[q].todo)]
      BY <1>2, <1>3, <3>1, <3>2 DEF Current
    <3> QED
      BY <3>1, <3>2, PcFacts DEF Apart
  <2> QED BY <2>1, <2>2
<1> QED
  BY <1>1, <1>4, <1>5, <1>6 DEF ExclInv

\* The same for a step at work on a guild that stays with it or is done with it.
LEMMA WorkKeeps ==
  ASSUME TypeInv, ExclInv, NEW r \in Runs, NEW l, Becomes(r, l), UNCHANGED <<clock, stateDoc>>,
         Working(r), l.born = run[r].born, l.date = run[r].date, l.ver = run[r].ver,
         \A h \in Guilds \ {Current(r)} : l.mem[h] = run[r].mem[h],
         l.pc \in WorkingPcs => l.todo = run[r].todo,
         l.pc = "savePosting" => Announces(l, l.mem[Current(r)].job),
         l.pc \in InFlightPcs => /\ run[r].pc \in InFlightPcs
                                 /\ l.problem = run[r].problem /\ l.attempt = run[r].attempt
  PROVE  ExclInv'
<1>1. Current(r) \in Guilds /\ run[r].pc \in LoadedPcs /\ Free(r, Current(r))
  BY RecordType, WorkingFree, PcFacts DEF Working, TypeInv, LocalOK
<1>2. l.pc \in WorkingPcs => Head(l.todo) = Current(r)
  BY DEF Current
<1>3. l.pc = "savePosting" => Announces(l, l.mem[Head(l.todo)].job)
  BY <1>2 DEF WorkingPcs
<1> QED
  BY <1>1, <1>2, <1>3, MoveKeeps

\* The announcement of a run that is alive is not stale.
LEMMA FreshPosting ==
  ASSUME TypeInv, NEW r \in Runs, OnTime(run[r]), NEW job, Announces(run[r], job)
  PROVE  ~IsStale(job.startedAt, clock)
<1>1. run[r].born \in Nat /\ clock \in Nat /\ RunTimeout \in Nat /\ StaleAfter \in Nat
  BY ConstantsAssumption, StaleAfterAssumption DEF TypeInv, TypeOK, LocalOK, RunState
<1>2. job.startedAt \in run[r].born .. clock /\ clock <= run[r].born + RunTimeout
  BY <1>1 DEF OnTime, Announces
<1>3. clock - job.startedAt < StaleAfter
  BY <1>1, <1>2, TimeoutAssumption
<1> QED
  BY <1>1, <1>2, <1>3 DEF IsStale

\* A guild whose record does not tell the run to skip it is free: the posting of
\* a run that is alive is of the same day and not yet stale.
LEMMA TakenFree ==
  ASSUME TypeInv, ExclInv, NEW r \in Runs, run[r].pc = "guild", run[r].todo # <<>>,
         ~ShouldSkip(EnsureGuild(r, Current(r)), run[r].date, clock)
  PROVE  Free(r, Current(r))
<1> DEFINE g   == Current(r)
           job == stateDoc.guilds[g].job
<1> SUFFICES ASSUME run[r].ver = stateDoc.gen, NEW q \in Runs \ {r},
                    run[q].pc \in InFlightPcs, Current(q) = g
             PROVE  FALSE
  BY DEF Free
<1>1. /\ run[q].pc \in LivePcs /\ run[r].pc \in LivePcs /\ run[r].pc \in LoadedPcs
  BY PcFacts DEF LoadedPcs
<1>2. OnTime(run[q]) /\ OnTime(run[r])
  BY <1>1 DEF ExclInv, RunSafe
<1>3. stateDoc.guilds[g] # Nil /\ Announces(run[q], job)
  BY DEF ExclInv, RunSafe, Current
<1>4. run[r].mem[g] = stateDoc.guilds[g]
  BY <1>1 DEF ExclInv, Apart, Current
<1>5. EnsureGuild(r, g) = stateDoc.guilds[g]
  BY <1>3, <1>4 DEF EnsureGuild
<1>6. run[q].date = run[r].date
  BY <1>2, TriggerAssumption DEF OnTime
<1>7. job.targetDate = run[r].date /\ job.status = "posting"
  BY <1>3, <1>6 DEF Announces, PostingJob
<1>8. ~IsStale(job.startedAt, clock)
  BY <1>2, <1>3, FreshPosting
<1> QED
  BY <1>5, <1>7, <1>8 DEF ShouldSkip

-----------------------------------------------------------------------------
(* Every step keeps the invariant.                                         *)

LEMMA GuildDoneShape ==
  ASSUME TypeInv, NEW r \in Runs, NEW failed \in BOOLEAN
  PROVE  LET l == GuildDone(r, failed) IN
         /\ l.pc = "guild" /\ l.born = run[r].born /\ l.date = run[r].date
         /\ l.ver = run[r].ver /\ l.mem = run[r].mem
BY DEF TypeInv, LocalOK, RunState, GuildDone

LEMMA GuildPc == "guild" \in LoadedPcs /\ "guild" \notin WorkingPcs
BY DEF LoadedPcs, WorkingPcs

LEMMA DoneKeeps ==
  ASSUME TypeInv, ExclInv, NEW r \in Runs, Working(r), NEW failed \in BOOLEAN,
         Becomes(r, GuildDone(r, failed)), UNCHANGED <<clock, stateDoc>>
  PROVE  ExclInv'
<1> DEFINE l == GuildDone(r, failed)
<1>1. /\ l.pc = "guild" /\ l.born = run[r].born /\ l.date = run[r].date
      /\ l.ver = run[r].ver /\ l.mem = run[r].mem /\ Becomes(r, l)
  BY GuildDoneShape
<1> HIDE DEF l
<1> QED
  BY <1>1, GuildPc, PcFacts, WorkKeeps

\* A step that changes nothing the invariant reads but the pc.
LEMMA PcKeeps ==
  ASSUME TypeInv, ExclInv, NEW r \in Runs, NEW l, Becomes(r, l), UNCHANGED <<clock, stateDoc>>,
         Working(r), l.born = run[r].born, l.date = run[r].date, l.ver = run[r].ver,
         l.mem = run[r].mem, l.todo = run[r].todo, l.pc # "savePosting",
         l.pc \in InFlightPcs => /\ run[r].pc \in InFlightPcs
                                 /\ l.problem = run[r].problem /\ l.attempt = run[r].attempt
  PROVE  ExclInv'
BY WorkKeeps

LEMMA AnnounceKeeps ==
  ASSUME TypeInv, ExclInv, NEW r \in Runs, Working(r), NEW n \in Nat \ {0},
         Local(r, Announce(r, n))
  PROVE  ExclInv'
<1> DEFINE l == Announce(r, n)
<1>1. /\ run[r] \in RunState /\ Current(r) \in Guilds /\ run[r].mem[Current(r)] \in GuildStateType
      /\ clock \in Nat /\ run[r].born \in Nat
  BY RecordType DEF TypeInv, TypeOK, LocalOK, RunState, Working, Record
<1>2. /\ l.pc = "savePosting" /\ l.born = run[r].born /\ l.date = run[r].date
      /\ l.ver = run[r].ver /\ l.todo = run[r].todo
      /\ l.problem = run[r].problem /\ l.attempt = n
  BY <1>1 DEF RunState, Announce
<1>3. \A h \in Guilds \ {Current(r)} : l.mem[h] = run[r].mem[h]
  BY <1>1 DEF RunState, GuildStates, Announce
<1>4. l.mem[Current(r)].job = PostingJob(run[r].date, run[r].problem, n - 1, clock)
  BY <1>1 DEF RunState, GuildStates, GuildStateType, Announce
<1>5. Becomes(r, l) /\ UNCHANGED <<clock, stateDoc>>
  BY DEF Local
<1> HIDE DEF l
<1>6. clock \in l.born .. clock
  <2>1. OnTime(run[r])
    BY PcFacts DEF ExclInv, RunSafe, Working
  <2> QED
    BY <1>1, <1>2, <2>1 DEF OnTime
<1>7. Announces(l, l.mem[Current(r)].job)
  BY <1>2, <1>4, <1>6 DEF Announces, PostingJob
<1> QED
  BY <1>2, <1>3, <1>5, <1>7, PcFacts, WorkKeeps

LEMMA LoadKeeps ==
  ASSUME TypeInv, ExclInv, NEW r \in Runs,
         Start(r) \/ LoadState(r) \/ LoadProblemCache(r) \/ LoadFails(r) \/ Return(r) \/ Kill(r)
  PROVE  ExclInv'
<1>1. run[r] \in RunState /\ clock \in Nat /\ stateDoc.gen \in Nat
  BY DEF TypeInv, TypeOK, LocalOK
<1>2. CASE Start(r)
  <2> DEFINE l == [run[r] EXCEPT !.pc = "loadState", !.born = clock, !.date = DateOf(clock)]
  <2>1. l.pc = "loadState" /\ l.born = clock /\ l.date = DateOf(clock)
    BY <1>1 DEF RunState
  <2>2. Becomes(r, l) /\ UNCHANGED <<clock, stateDoc>> /\ clock \in TriggerTimes
    BY <1>2 DEF Start, Local
  <2> HIDE DEF l
  <2>3. clock \in clock .. clock + RunTimeout
    BY <1>1, ConstantsAssumption
  <2>4. OnTime(l)
    BY <2>1, <2>2, <2>3 DEF OnTime
  <2> QED
    BY <2>1, <2>2, <2>4, OutsideKeeps
<1>3. CASE LoadState(r)
  <2> DEFINE l == [run[r] EXCEPT !.pc = "loadCache", !.mem = stateDoc.guilds, !.ver = stateDoc.gen]
  <2>1. /\ l.pc = "loadCache" /\ l.born = run[r].born /\ l.date = run[r].date
        /\ l.mem = stateDoc.guilds /\ l.ver = stateDoc.gen
    BY <1>1 DEF RunState
  <2>2. Becomes(r, l) /\ UNCHANGED <<clock, stateDoc>> /\ run[r].pc = "loadState"
    BY <1>3 DEF LoadState, Local
  <2>3. OnTime(run[r])
    BY <2>2 DEF ExclInv, RunSafe, LivePcs
  <2> HIDE DEF l
  <2>4. l.ver <= stateDoc.gen /\ l.pc \notin WorkingPcs /\ l.pc \notin InFlightPcs
    BY <1>1, <2>1, PcFacts DEF WorkingPcs
  <2>5. RunSafe(l)
    BY <2>1, <2>3, <2>4 DEF RunSafe, OnTime
  <2>6. \A q \in Runs \ {r} : Apart(run[q], l) /\ Apart(l, run[q])
    BY <2>1, <2>4 DEF Apart
  <2> QED
    BY <2>2, <2>5, <2>6, RunStepKeeps
<1>4. CASE LoadProblemCache(r)
  <2> DEFINE l == [run[r] EXCEPT !.pc = "guild", !.cache = cacheDoc.problems,
                                 !.cacheVer = cacheDoc.gen, !.todo = EnabledGuilds]
  <2>1. /\ l.pc = "guild" /\ l.born = run[r].born /\ l.date = run[r].date
        /\ l.mem = run[r].mem /\ l.ver = run[r].ver
    BY <1>1 DEF RunState
  <2>2. Becomes(r, l) /\ UNCHANGED <<clock, stateDoc>> /\ run[r].pc = "loadCache"
    BY <1>4 DEF LoadProblemCache, Local
  <2> HIDE DEF l
  <2>3. run[r].pc \in LivePcs /\ run[r].pc \in LoadedPcs /\ run[r].pc \notin WorkingPcs
    BY <2>2 DEF LivePcs, LoadedPcs, WorkingPcs
  <2>4. l.pc \notin WorkingPcs /\ l.pc \notin InFlightPcs
    BY <2>1, GuildPc, PcFacts
  <2>5. RunSafe(l)
    BY <2>1, <2>3, <2>4 DEF ExclInv, RunSafe, OnTime
  <2>6. \A q \in Runs \ {r} : Apart(run[q], l) /\ Apart(l, run[q])
    BY <2>1, <2>3, <2>4 DEF ExclInv, Apart
  <2> QED
    BY <2>2, <2>5, <2>6, RunStepKeeps
<1>5. ASSUME NEW how \in {"done", "killed"}, Local(r, Ended(r, how))
      PROVE  ExclInv'
  <2>1. Ended(r, how).pc = how
    BY DEF Ended, NewRun
  <2>2. Becomes(r, Ended(r, how)) /\ UNCHANGED <<clock, stateDoc>>
    BY <1>5 DEF Local
  <2> QED
    BY <2>1, <2>2, OutsideKeeps
<1> QED
  BY <1>2, <1>3, <1>4, <1>5 DEF LoadFails, Return, Kill

LEMMA GuildKeeps ==
  ASSUME TypeInv, ExclInv, NEW r \in Runs, SkipGuild(r) \/ TakeOverStale(r) \/ BeginGuild(r)
  PROVE  ExclInv'
<1> DEFINE g == Current(r)
<1>1. /\ run[r] \in RunState /\ g \in Guilds /\ run[r].pc = "guild" /\ run[r].todo # <<>>
      /\ run[r].pc \in LoadedPcs /\ UNCHANGED <<clock, stateDoc>>
  BY RecordType, GuildPc DEF TypeInv, LocalOK, SkipGuild, TakeOverStale, BeginGuild, Local
<1>2. CASE SkipGuild(r)
  <2> DEFINE l == GuildDone(r, FALSE)
  <2>1. /\ l.pc = "guild" /\ l.born = run[r].born /\ l.date = run[r].date
        /\ l.ver = run[r].ver /\ l.mem = run[r].mem /\ Becomes(r, l)
    BY <1>2, GuildDoneShape DEF SkipGuild, Local
  <2> HIDE DEF l, g
  <2> QED
    BY <1>1, <2>1, GuildPc, PcFacts, MoveKeeps
<1>3. ASSUME NEW l, Local(r, l), l.pc \in {"saveRecovered", "refresh"}, Free(r, g),
             l.born = run[r].born, l.date = run[r].date, l.ver = run[r].ver, l.todo = run[r].todo,
             \A h \in Guilds \ {g} : l.mem[h] = run[r].mem[h]
      PROVE  ExclInv'
  <2>1. Becomes(r, l) /\ Head(l.todo) = g
    BY <1>3 DEF Local, Current
  <2>2. l.pc # "savePosting" /\ l.pc \notin InFlightPcs
    BY <1>3 DEF InFlightPcs
  <2> HIDE DEF g
  <2> QED
    BY <1>1, <1>3, <2>1, <2>2, MoveKeeps
<1>4. CASE TakeOverStale(r)
  <2> DEFINE rec == RecoverStalePosting(EnsureGuild(r, g), run[r].date)
             l   == [run[r] EXCEPT !.pc = "saveRecovered", !.mem[g] = rec]
  <2>1. ~ShouldSkip(EnsureGuild(r, g), run[r].date, clock)
    BY <1>4 DEF TakeOverStale, StalePosting, ShouldSkip
  <2>2. Free(r, g)
    BY <1>1, <2>1, TakenFree
  <2>3. Local(r, l)
    BY <1>4 DEF TakeOverStale
  <2>4. /\ l.pc = "saveRecovered" /\ l.born = run[r].born /\ l.date = run[r].date /\ l.ver = run[r].ver
        /\ l.todo = run[r].todo /\ \A h \in Guilds \ {g} : l.mem[h] = run[r].mem[h]
    BY <1>1 DEF RunState, GuildStates
  <2> HIDE DEF rec, l, g
  <2> QED
    BY <1>3, <2>2, <2>3, <2>4
<1>5. CASE BeginGuild(r)
  <2> DEFINE rec == EnsureGuild(r, g)
             l   == [run[r] EXCEPT !.pc = "refresh", !.mem[g] = rec]
  <2>1. ~ShouldSkip(EnsureGuild(r, g), run[r].date, clock)
    BY <1>5 DEF BeginGuild
  <2>2. Free(r, g)
    BY <1>1, <2>1, TakenFree
  <2>3. Local(r, l)
    BY <1>5 DEF BeginGuild
  <2>4. /\ l.pc = "refresh" /\ l.born = run[r].born /\ l.date = run[r].date /\ l.ver = run[r].ver
        /\ l.todo = run[r].todo /\ \A h \in Guilds \ {g} : l.mem[h] = run[r].mem[h]
    BY <1>1 DEF RunState, GuildStates
  <2> HIDE DEF rec, l, g
  <2> QED
    BY <1>3, <2>2, <2>3, <2>4
<1> QED
  BY <1>2, <1>4, <1>5

LEMMA CacheKeeps ==
  ASSUME TypeInv, ExclInv, NEW r \in Runs,
         CacheSuffices(r) \/ RefillCache(r) \/ RefillFails(r) \/ SaveProblemCache(r) \/ SelectNext(r)
  PROVE  ExclInv'
<1>1. run[r] \in RunState
  BY DEF TypeInv, LocalOK
<1>2. run[r].pc \in {"refresh", "saveCache", "select"}
  BY DEF CacheSuffices, RefillCache, RefillFails, SaveProblemCache, SelectNext
<1>3. Working(r)
  BY <1>2 DEF Working, WorkingPcs
<1>4. ASSUME NEW l, Becomes(r, l), UNCHANGED <<clock, stateDoc>>, l.pc \notin InFlightPcs, l.pc # "savePosting",
             l.born = run[r].born, l.date = run[r].date, l.ver = run[r].ver,
             l.mem = run[r].mem, l.todo = run[r].todo
      PROVE  ExclInv'
  BY <1>2, <1>3, <1>4, PcKeeps
<1>5. ASSUME NEW pc \in {"select", "notifyStale", "notifyFailure"},
             Local(r, [run[r] EXCEPT !.pc = pc])
      PROVE  ExclInv'
  <2> DEFINE l == [run[r] EXCEPT !.pc = pc]
  <2>1. /\ l.pc = pc /\ l.born = run[r].born /\ l.date = run[r].date /\ l.ver = run[r].ver
        /\ l.mem = run[r].mem /\ l.todo = run[r].todo /\ Local(r, l)
    BY <1>1, <1>5 DEF RunState
  <2> HIDE DEF l
  <2> QED
    BY <1>4, <2>1 DEF InFlightPcs, Local
<1>6. CASE CacheSuffices(r)
  BY <1>5, <1>6 DEF CacheSuffices
<1>7. CASE RefillCache(r)
  <2>1. PICK list \in FetchLists : Local(r, [run[r] EXCEPT !.pc = "saveCache", !.cache = list])
    BY <1>7 DEF RefillCache
  <2> DEFINE l == [run[r] EXCEPT !.pc = "saveCache", !.cache = list]
  <2>2. /\ l.pc = "saveCache" /\ l.born = run[r].born /\ l.date = run[r].date /\ l.ver = run[r].ver
        /\ l.mem = run[r].mem /\ l.todo = run[r].todo /\ Local(r, l)
    BY <1>1, <2>1 DEF RunState
  <2> HIDE DEF l
  <2> QED
    BY <1>4, <2>2 DEF InFlightPcs, Local
<1>8. CASE RefillFails(r)
  <2>1. PICK pc \in {"notifyStale", "notifyFailure"} : Local(r, [run[r] EXCEPT !.pc = pc])
    BY <1>8 DEF RefillFails
  <2> QED
    BY <1>5, <2>1
<1>9. CASE SaveProblemCache(r)
  <2> DEFINE l == [run[r] EXCEPT !.pc = "select", !.cacheVer = cacheDoc.gen + 1]
  <2>1. Becomes(r, l) \/ Becomes(r, GuildDone(r, TRUE))
    BY <1>9 DEF SaveProblemCache
  <2>2. /\ l.pc = "select" /\ l.born = run[r].born /\ l.date = run[r].date /\ l.ver = run[r].ver
        /\ l.mem = run[r].mem /\ l.todo = run[r].todo
    BY <1>1 DEF RunState
  <2>3. UNCHANGED <<clock, stateDoc>>
    BY <1>9 DEF SaveProblemCache
  <2> HIDE DEF l
  <2> QED
    BY <1>3, <1>4, <2>1, <2>2, <2>3, DoneKeeps DEF InFlightPcs
<1>10. CASE SelectNext(r)
  <2>1. CASE Local(r, [run[r] EXCEPT !.pc = "notifyFailure"])
    BY <1>5, <2>1
  <2>2. ASSUME NEW n \in Available(r), Local(r, [run[r] EXCEPT !.pc = "tags", !.problem = n])
        PROVE  ExclInv'
    <3> DEFINE l == [run[r] EXCEPT !.pc = "tags", !.problem = n]
    <3>1. /\ l.pc = "tags" /\ l.born = run[r].born /\ l.date = run[r].date /\ l.ver = run[r].ver
          /\ l.mem = run[r].mem /\ l.todo = run[r].todo /\ Local(r, l)
      BY <1>1, <2>2 DEF RunState
    <3> HIDE DEF l
    <3> QED
      BY <1>4, <3>1 DEF InFlightPcs, Local
  <2> QED
    BY <1>10, <2>1, <2>2 DEF SelectNext
<1> QED
  BY <1>6, <1>7, <1>8, <1>9, <1>10

\* A step at work that may rewrite the record of the guild, with no external call
\* that the invariant is about.
LEMMA RecordKeeps ==
  ASSUME TypeInv, ExclInv, NEW r \in Runs, Working(r), NEW rec,
         NEW pc \in {"saveRejected", "saveFailed", "savePosted"},
         pc \in InFlightPcs => run[r].pc \in InFlightPcs,
         Becomes(r, [run[r] EXCEPT !.pc = pc, !.mem[Current(r)] = rec]),
         UNCHANGED <<clock, stateDoc>>
  PROVE  ExclInv'
<1> DEFINE l == [run[r] EXCEPT !.pc = pc, !.mem[Current(r)] = rec]
<1>1. run[r] \in RunState
  BY DEF TypeInv, LocalOK
<1>2. /\ l.pc = pc /\ l.born = run[r].born /\ l.date = run[r].date /\ l.ver = run[r].ver
      /\ l.todo = run[r].todo /\ l.problem = run[r].problem /\ l.attempt = run[r].attempt
      /\ \A h \in Guilds \ {Current(r)} : l.mem[h] = run[r].mem[h]
  BY <1>1 DEF RunState, GuildStates
<1>3. Becomes(r, l)
  OBVIOUS
<1> HIDE DEF l
<1>4. l.pc # "savePosting"
  BY <1>2
<1> QED
  BY <1>2, <1>3, <1>4, WorkKeeps

LEMMA PostKeeps ==
  ASSUME TypeInv, ExclInv, NEW r \in Runs,
         EnsureTags(r) \/ CreateForumThread(r) \/ AddReaction(r) \/ Wake(r) \/ NotifyReaction(r)
  PROVE  ExclInv'
<1>1. run[r] \in RunState
  BY DEF TypeInv, LocalOK
<1>2. Working(r)
  BY DEF Working, WorkingPcs, EnsureTags, CreateForumThread, AddReaction, Wake, NotifyReaction
<1>3. ASSUME Becomes(r, Posted(r)), UNCHANGED <<clock, stateDoc>>,
             run[r].pc \in {"react", "notifyReaction"}
      PROVE  ExclInv'
  <2> DEFINE rec == RecordPosted(Record(r), run[r].date, run[r].problem, run[r].attempt - 1,
                                 run[r].thread)
  <2>1. Becomes(r, [run[r] EXCEPT !.pc = "savePosted", !.mem[Current(r)] = rec])
    BY <1>3 DEF Posted, Record
  <2>2. run[r].pc \in InFlightPcs
    BY <1>3 DEF InFlightPcs
  <2> HIDE DEF rec
  <2> QED
    BY <1>2, <1>3, <2>1, <2>2, RecordKeeps
<1>4. CASE EnsureTags(r)
  <2> DEFINE rec == [Record(r) EXCEPT !.job = FailedJob(run[r].date, run[r].problem, MaxAttempts)]
  <2>1. CASE Local(r, Announce(r, 1))
    BY <1>2, <2>1, AnnounceKeeps
  <2>2. CASE Local(r, [run[r] EXCEPT !.pc = "saveRejected",
               !.mem[Current(r)].job = FailedJob(run[r].date, run[r].problem, MaxAttempts)])
    <3>1. Local(r, [run[r] EXCEPT !.pc = "saveRejected", !.mem[Current(r)] = rec])
      BY <2>2 DEF Record
    <3>2. "saveRejected" \notin InFlightPcs
      BY DEF InFlightPcs
    <3> HIDE DEF rec
    <3> QED
      BY <1>2, <3>1, <3>2, RecordKeeps DEF Local
  <2> QED
    BY <1>4, <2>1, <2>2 DEF EnsureTags
<1>5. CASE CreateForumThread(r)
  <2> DEFINE rec == [Record(r) EXCEPT !.job = FailedJob(run[r].date, run[r].problem, run[r].attempt)]
  <2>1. run[r].pc \in InFlightPcs /\ UNCHANGED <<clock, stateDoc>>
    BY <1>5 DEF CreateForumThread, InFlightPcs
  <2>2. PICK n : \/ Becomes(r, [run[r] EXCEPT !.pc = "react", !.thread = Len(threads) + n])
                 \/ Becomes(r, [run[r] EXCEPT !.pc = "saveFailed",
                      !.mem[Current(r)].job = FailedJob(run[r].date, run[r].problem, run[r].attempt)])
    BY <1>5 DEF CreateForumThread
  <2>3. CASE Becomes(r, [run[r] EXCEPT !.pc = "react", !.thread = Len(threads) + n])
    <3> DEFINE l == [run[r] EXCEPT !.pc = "react", !.thread = Len(threads) + n]
    <3>1. /\ l.pc = "react" /\ l.born = run[r].born /\ l.date = run[r].date /\ l.ver = run[r].ver
          /\ l.mem = run[r].mem /\ l.todo = run[r].todo /\ l.problem = run[r].problem
          /\ l.attempt = run[r].attempt
      BY <1>1 DEF RunState
    <3>2. Becomes(r, l)
      BY <2>3
    <3> HIDE DEF l
    <3> QED
      BY <1>2, <2>1, <3>1, <3>2, PcKeeps
  <2>4. CASE Becomes(r, [run[r] EXCEPT !.pc = "saveFailed",
               !.mem[Current(r)].job = FailedJob(run[r].date, run[r].problem, run[r].attempt)])
    <3>1. Becomes(r, [run[r] EXCEPT !.pc = "saveFailed", !.mem[Current(r)] = rec])
      BY <2>4 DEF Record
    <3> HIDE DEF rec
    <3> QED
      BY <1>2, <2>1, <3>1, RecordKeeps
  <2> QED
    BY <2>2, <2>3, <2>4
<1>6. CASE AddReaction(r)
  <2>1. run[r].pc = "react"
    BY <1>6 DEF AddReaction
  <2>2. CASE Local(r, Posted(r))
    BY <1>3, <2>1, <2>2 DEF Local
  <2>3. CASE Local(r, [run[r] EXCEPT !.pc = "notifyReaction"])
    <3> DEFINE l == [run[r] EXCEPT !.pc = "notifyReaction"]
    <3>1. /\ l.pc = "notifyReaction" /\ l.born = run[r].born /\ l.date = run[r].date
          /\ l.ver = run[r].ver /\ l.mem = run[r].mem /\ l.todo = run[r].todo
          /\ l.problem = run[r].problem /\ l.attempt = run[r].attempt
      BY <1>1 DEF RunState
    <3>2. Becomes(r, l) /\ UNCHANGED <<clock, stateDoc>> /\ run[r].pc \in InFlightPcs
      BY <2>1, <2>3 DEF Local, InFlightPcs
    <3> HIDE DEF l
    <3> QED
      BY <1>2, <3>1, <3>2, PcKeeps
  <2> QED
    BY <1>6, <2>2, <2>3 DEF AddReaction
<1>7. CASE Wake(r)
  <2>1. run[r].attempt + 1 \in Nat \ {0} /\ Local(r, Announce(r, run[r].attempt + 1))
    BY <1>1, <1>7 DEF RunState, Wake
  <2> QED
    BY <1>2, <2>1, AnnounceKeeps
<1>8. CASE NotifyReaction(r)
  BY <1>3, <1>8 DEF NotifyReaction
<1> QED
  BY <1>4, <1>5, <1>6, <1>7, <1>8

LEMMA NotifyKeeps ==
  ASSUME TypeInv, ExclInv, NEW r \in Runs, NotifyFailure(r) \/ NotifyStaleCache(r)
  PROVE  ExclInv'
<1>1. run[r] \in RunState /\ UNCHANGED <<clock, stateDoc>>
  BY DEF TypeInv, LocalOK, NotifyFailure, NotifyStaleCache
<1>2. Working(r)
  BY DEF Working, WorkingPcs, NotifyFailure, NotifyStaleCache
<1> DEFINE l == [run[r] EXCEPT !.pc = "select"]
<1>3. Becomes(r, GuildDone(r, TRUE)) \/ Becomes(r, l)
  BY DEF NotifyFailure, NotifyStaleCache
<1>4. /\ l.pc = "select" /\ l.born = run[r].born /\ l.date = run[r].date /\ l.ver = run[r].ver
      /\ l.mem = run[r].mem /\ l.todo = run[r].todo
  BY <1>1 DEF RunState
<1> HIDE DEF l
<1>5. l.pc # "savePosting" /\ l.pc \notin InFlightPcs
  BY <1>4 DEF InFlightPcs
<1> QED
  BY <1>1, <1>2, <1>3, <1>4, <1>5, DoneKeeps, PcKeeps

\* A save, whether it is applied and reported, refused, lost or falsely reported.
LEMMA SaveKeeps ==
  ASSUME TypeInv, ExclInv, NEW r \in Runs, NEW at \in WorkingPcs, NEW next, LocalOK(next),
         SaveState(r, at, next),
         next.born = run[r].born, next.date = run[r].date, next.mem = run[r].mem,
         next.pc \in WorkingPcs => next.todo = run[r].todo, next.pc # "savePosting",
         next.pc \in InFlightPcs => /\ at = "savePosting"
                                    /\ next.problem = run[r].problem /\ next.attempt = run[r].attempt
  PROVE  ExclInv'
<1>1. Working(r) /\ run[r].pc = at /\ UNCHANGED clock /\ run[r] \in RunState /\ stateDoc.gen \in Nat
  BY DEF SaveState, Working, TypeInv, TypeOK, LocalOK
<1>2. CASE Writes(r, next)
  <2> DEFINE n == stateDoc.gen + 1
             l == [next EXCEPT !.ver = n]
  <2>1. n \in Nat
    BY <1>1
  <2>2. /\ Becomes(r, l) /\ run[r].ver = stateDoc.gen
        /\ stateDoc' = [gen |-> stateDoc.gen + 1, guilds |-> run[r].mem]
    BY <1>2 DEF Writes
  <2> HIDE DEF n
  <2>3. /\ l.pc = next.pc /\ l.born = next.born /\ l.date = next.date /\ l.ver = n
        /\ l.mem = next.mem /\ l.todo = next.todo /\ l.problem = next.problem
        /\ l.attempt = next.attempt
    BY DEF LocalOK, RunState
  <2>4. n <= stateDoc.gen + 1
    BY <1>1 DEF n
  <2>5. l.pc \in WorkingPcs => Head(l.todo) = Current(r)
    BY <2>3 DEF Current
  <2> HIDE DEF l
  <2> QED
    BY <1>1, <2>1, <2>2, <2>3, <2>4, <2>5, WriteKeeps
<1>3. CASE SaveErrors(r)
  <2>1. Becomes(r, GuildDone(r, TRUE))
    BY <1>3 DEF SaveErrors
  <2>2. CASE UNCHANGED stateDoc
    BY <1>1, <2>1, <2>2, DoneKeeps
  <2>3. CASE /\ run[r].ver = stateDoc.gen
             /\ stateDoc' = [gen |-> stateDoc.gen + 1, guilds |-> run[r].mem]
    <3> DEFINE l == GuildDone(r, TRUE)
    <3>1. /\ l.pc = "guild" /\ l.born = run[r].born /\ l.date = run[r].date
          /\ l.ver = run[r].ver /\ l.mem = run[r].mem /\ Becomes(r, l)
      BY <2>1, GuildDoneShape
    <3> HIDE DEF l
    <3>2. l.ver \in Nat /\ l.ver <= stateDoc.gen + 1 /\ l.pc \notin WorkingPcs
      BY <1>1, <2>3, <3>1, GuildPc
    <3> QED
      BY <1>1, <2>3, <3>1, <3>2, PcFacts, WriteKeeps
  <2> QED
    BY <1>3, <2>2, <2>3 DEF SaveErrors
<1> QED
  BY <1>2, <1>3 DEF SaveState

LEMMA SavesKeep ==
  ASSUME TypeInv, ExclInv, NEW r \in Runs,
         SaveRecovered(r) \/ SaveRejected(r) \/ SavePosting(r) \/ SavePosted(r) \/ SaveFailed(r)
  PROVE  ExclInv'
<1>1. run[r] \in RunState
  BY DEF TypeInv, LocalOK
<1>2. Working(r)
  BY DEF Working, WorkingPcs, SaveRecovered, SaveRejected, SavePosting, SavePosted, SaveFailed,
         SaveState
<1>3. ASSUME NEW pc \in {"refresh", "notifyFailure", "create"}, NEW at \in WorkingPcs,
             pc = "create" => at = "savePosting" /\ run[r].attempt >= 1,
             SaveState(r, at, [run[r] EXCEPT !.pc = pc])
      PROVE  ExclInv'
  <2> DEFINE next == [run[r] EXCEPT !.pc = pc]
  <2>1. /\ next.pc = pc /\ next.born = run[r].born /\ next.date = run[r].date
        /\ next.mem = run[r].mem /\ next.todo = run[r].todo /\ next.problem = run[r].problem
        /\ next.attempt = run[r].attempt
    BY <1>1 DEF RunState
  <2>2. LocalOK(next)
    <3>1. pc \in LivePcs /\ (pc \in PostingPcs => run[r].attempt >= 1)
      BY <1>3 DEF LivePcs, WorkingPcs, PostingPcs
    <3> QED
      BY <1>2, <3>1, MovedOn
  <2>3. SaveState(r, at, next)
    BY <1>3
  <2>4. next.pc # "savePosting" /\ (next.pc \in InFlightPcs => at = "savePosting")
    BY <1>3, <2>1 DEF InFlightPcs
  <2> HIDE DEF next
  <2> QED
    BY <2>1, <2>2, <2>3, <2>4, SaveKeeps
<1>4. CASE SaveRecovered(r)
  BY <1>3, <1>4 DEF SaveRecovered, WorkingPcs
<1>5. CASE SaveRejected(r)
  BY <1>3, <1>5 DEF SaveRejected, WorkingPcs
<1>6. CASE SavePosting(r)
  <2>1. run[r].attempt >= 1
    BY <1>1, <1>6 DEF SavePosting, SaveState, TypeInv, LocalOK, PostingPcs
  <2> QED
    BY <1>3, <1>6, <2>1 DEF SavePosting, WorkingPcs
<1>7. CASE SavePosted(r)
  <2> DEFINE next == GuildDone(r, FALSE)
  <2>1. /\ next.pc = "guild" /\ next.born = run[r].born /\ next.date = run[r].date
        /\ next.mem = run[r].mem /\ LocalOK(next)
    BY <1>2, GuildDoneShape, GuildDoneOK
  <2>2. SaveState(r, "savePosted", next) /\ "savePosted" \in WorkingPcs
    BY <1>7 DEF SavePosted, WorkingPcs
  <2> HIDE DEF next
  <2> QED
    BY <2>1, <2>2, GuildPc, PcFacts, SaveKeeps
<1>8. CASE SaveFailed(r)
  <2>1. run[r].attempt >= 1 /\ clock + RetryInterval \in Nat
    BY <1>1, <1>8, ConstantsAssumption
       DEF SaveFailed, SaveState, TypeInv, TypeOK, LocalOK, PostingPcs
  <2>2. CASE SaveState(r, "saveFailed", [run[r] EXCEPT !.pc = "notifyFailure"])
    BY <1>3, <2>2 DEF WorkingPcs
  <2>3. CASE SaveState(r, "saveFailed", [run[r] EXCEPT !.pc = "sleep", !.wake = clock + RetryInterval])
    <3> DEFINE m    == clock + RetryInterval
               next == [run[r] EXCEPT !.pc = "sleep", !.wake = m]
    <3>1. m \in Nat
      BY <2>1
    <3>2. SaveState(r, "saveFailed", next) /\ "saveFailed" \in WorkingPcs
      BY <2>3 DEF WorkingPcs
    <3> HIDE DEF m
    <3>3. LocalOK(next)
      BY <1>1, <1>2, <2>1, <3>1 DEF TypeInv, LocalOK, RunState, LivePcs, WorkingPcs, Working
    <3>4. /\ next.pc = "sleep" /\ next.born = run[r].born /\ next.date = run[r].date
          /\ next.mem = run[r].mem /\ next.todo = run[r].todo
      BY <1>1 DEF RunState
    <3> HIDE DEF next
    <3>5. next.pc \notin InFlightPcs
      BY <3>4 DEF InFlightPcs
    <3> QED
      BY <3>2, <3>3, <3>4, <3>5, SaveKeeps
  <2> QED
    BY <1>8, <2>2, <2>3 DEF SaveFailed
<1> QED
  BY <1>4, <1>5, <1>6, <1>7, <1>8

LEMMA TickKeeps ==
  ASSUME TypeInv, ExclInv, Tick
  PROVE  ExclInv'
<1>1. clock \in Nat /\ clock' = clock + 1 /\ UNCHANGED <<stateDoc, run>> /\ RunTimeout \in Nat
  BY ConstantsAssumption DEF Tick, TypeInv, TypeOK
<1>2. ASSUME NEW r \in Runs
      PROVE  RunSafe(run[r])'
  <2>1. RunSafe(run[r]) /\ run[r].born \in Nat
    BY DEF ExclInv, TypeInv, LocalOK, RunState
  <2>2. run[r].pc \in LivePcs => OnTime(run[r])'
    <3>1. run[r].pc \in LivePcs => clock < run[r].born + RunTimeout
      BY DEF Tick, Live
    <3> QED
      BY <1>1, <2>1, <3>1 DEF RunSafe, OnTime
  <2>3. ASSUME NEW job, Announces(run[r], job)
        PROVE  Announces(run[r], job)'
    BY <1>1, <2>1, <2>3 DEF Announces
  <2> QED
    BY <1>1, <2>1, <2>2, <2>3 DEF RunSafe
<1>3. ASSUME NEW q \in Runs, NEW r \in Runs, q # r
      PROVE  Apart(run[q], run[r])'
  BY <1>1, <1>3 DEF ExclInv, Apart
<1> QED
  BY <1>2, <1>3 DEF ExclInv

LEMMA InitExclusion == Init => ExclInv
<1> SUFFICES ASSUME Init PROVE ExclInv
  OBVIOUS
<1>1. \A r \in Runs : run[r].pc = "new"
  BY DEF Init, NewRun
<1>2. "new" \notin LivePcs /\ "new" \notin LoadedPcs /\ "new" \notin InFlightPcs
  BY DEF LivePcs, LoadedPcs, WorkingPcs, InFlightPcs
<1> QED
  BY <1>1, <1>2 DEF ExclInv, RunSafe, Apart

LEMMA NextExclusion == TypeInv /\ ExclInv /\ [Next]_vars => ExclInv'
<1> SUFFICES ASSUME TypeInv, ExclInv, [Next]_vars PROVE ExclInv'
  OBVIOUS
<1>1. CASE UNCHANGED vars
  BY <1>1 DEF vars, ExclInv, RunSafe, OnTime, Announces, Apart
<1>2. CASE Tick
  BY <1>2, TickKeeps
<1>3. ASSUME NEW r \in Runs, Start(r) \/ Step(r) \/ Crash(r) \/ Timeout(r)
      PROVE  ExclInv'
  <2>1. CASE Start(r) \/ LoadState(r) \/ LoadProblemCache(r) \/ LoadFails(r) \/ Return(r) \/ Kill(r)
    BY <2>1, LoadKeeps
  <2>2. CASE SkipGuild(r) \/ TakeOverStale(r) \/ BeginGuild(r)
    BY <2>2, GuildKeeps
  <2>3. CASE CacheSuffices(r) \/ RefillCache(r) \/ RefillFails(r) \/ SaveProblemCache(r) \/ SelectNext(r)
    BY <2>3, CacheKeeps
  <2>4. CASE EnsureTags(r) \/ CreateForumThread(r) \/ AddReaction(r) \/ Wake(r) \/ NotifyReaction(r)
    BY <2>4, PostKeeps
  <2>5. CASE SaveRecovered(r) \/ SaveRejected(r) \/ SavePosting(r) \/ SavePosted(r) \/ SaveFailed(r)
    BY <2>5, SavesKeep
  <2>6. CASE NotifyFailure(r) \/ NotifyStaleCache(r)
    BY <2>6, NotifyKeeps
  <2> QED
    BY <1>3, <2>1, <2>2, <2>3, <2>4, <2>5, <2>6 DEF Step, Crash, Timeout
<1> QED
  BY <1>1, <1>2, <1>3 DEF Next

LEMMA ExclusionInvariant == Spec => [](TypeInv /\ ExclInv)
BY InitType, NextType, InitExclusion, NextExclusion, PTL DEF Spec

(* Mutual exclusion: for any number of runs and whatever fails, no two     *)
(* runs are posting to the same guild, because a run that takes a guild    *)
(* either sees the other's fresh announcement (shouldSkip) or has a        *)
(* version with which its own announcement cannot be saved.                *)
THEOREM Exclusion == Spec => []PostingExclusion
<1>1. TypeInv /\ ExclInv => PostingExclusion
  BY DEF ExclInv, Apart, PostingExclusion, InFlight, Current
<1> QED
  BY <1>1, ExclusionInvariant, PTL

(* Write-ahead: while a run may be creating a thread, the store holds its  *)
(* announcement, and every other run has to skip the guild because of it.  *)
THEOREM Announcement == Spec => []AnnouncedInStore
<1>1. TypeInv /\ ExclInv => AnnouncedInStore
  <2> SUFFICES ASSUME TypeInv, ExclInv, NEW r \in Runs, NEW g \in Guilds, InFlight(r, g)
               PROVE  LET job == stateDoc.guilds[g].job IN
                      /\ stateDoc.guilds[g] # Nil
                      /\ job = PostingJob(run[r].date, run[r].problem, run[r].attempt - 1, job.startedAt)
                      /\ ShouldSkip(stateDoc.guilds[g], run[r].date, clock)
    BY DEF AnnouncedInStore
  <2> DEFINE job == stateDoc.guilds[g].job
  <2>1. OnTime(run[r]) /\ stateDoc.guilds[g] # Nil /\ Announces(run[r], job)
    BY PcFacts DEF ExclInv, RunSafe, InFlight, Current
  <2>2. job.targetDate = run[r].date /\ job.status = "posting"
    BY <2>1 DEF Announces, PostingJob
  <2>3. ~IsStale(job.startedAt, clock)
    BY <2>1, FreshPosting
  <2> QED
    BY <2>1, <2>2, <2>3 DEF Announces, ShouldSkip
<1> QED
  BY <1>1, ExclusionInvariant, PTL

-----------------------------------------------------------------------------
(* A single guild.  Every run that works works on the same guild, so while *)
(* a run is posting nobody else can write the state document, and the      *)
(* version the run got for its announcement stays the version of the       *)
(* store.                                                                  *)

SingleGuild == \A i, j \in DOMAIN EnabledGuilds : i = j

SingleInv ==
  \A r \in Runs :
    /\ run[r].todo \in {<<>>, EnabledGuilds}
    /\ run[r].pc \in InFlightPcs => run[r].ver = stateDoc.gen

\* A step of r enters a posting only with the announcement, and only who has the
\* version of the store changes the store.
VersionStep(r) ==
  /\ \A q \in Runs \ {r} : run'[q] = run[q]
  /\ run'[r].todo \in {run[r].todo, Tail(run[r].todo), EnabledGuilds, <<>>}
  /\ run[r].todo # <<>> \/ run'[r].todo \in {EnabledGuilds, <<>>}
  /\ UNCHANGED stateDoc \/ (Working(r) /\ run[r].ver = stateDoc.gen)
  /\ run'[r].pc \in InFlightPcs =>
       \/ run[r].pc \in InFlightPcs /\ run'[r].ver = run[r].ver /\ UNCHANGED stateDoc
       \/ run'[r].ver = stateDoc'.gen

LEMMA StayVersion ==
  ASSUME TypeInv, NEW r \in Runs, NEW l, Becomes(r, l), UNCHANGED stateDoc,
         l.pc \in InFlightPcs => run[r].pc \in InFlightPcs /\ l.ver = run[r].ver,
         l.todo \in {run[r].todo, EnabledGuilds, <<>>}
  PROVE  VersionStep(r)
BY BecomesRun DEF VersionStep

LEMMA DoneVersion ==
  ASSUME TypeInv, NEW r \in Runs, NEW failed \in BOOLEAN, run[r].todo # <<>>,
         Becomes(r, GuildDone(r, failed)),
         UNCHANGED stateDoc \/ (Working(r) /\ run[r].ver = stateDoc.gen)
  PROVE  VersionStep(r)
<1>1. run[r] \in RunState
  BY DEF TypeInv, LocalOK
<1>2. GuildDone(r, failed).todo = Tail(run[r].todo) /\ GuildDone(r, failed).pc \notin InFlightPcs
  BY <1>1 DEF GuildDone, RunState, InFlightPcs
<1> QED
  BY <1>2, BecomesRun DEF VersionStep

LEMMA LoadVersion ==
  ASSUME TypeInv, NEW r \in Runs,
         Start(r) \/ LoadState(r) \/ LoadProblemCache(r) \/ LoadFails(r) \/ Return(r) \/ Kill(r)
  PROVE  VersionStep(r)
<1>1. run[r] \in RunState
  BY DEF TypeInv, LocalOK
<1>2. ASSUME NEW how \in {"done", "killed"}, Local(r, Ended(r, how))
      PROVE  VersionStep(r)
  BY <1>2, StayVersion DEF Local, Ended, NewRun, InFlightPcs
<1>3. CASE Start(r) \/ LoadState(r) \/ LoadProblemCache(r)
  BY <1>1, <1>3, StayVersion DEF Start, LoadState, LoadProblemCache, Local, RunState, InFlightPcs
<1>4. CASE LoadFails(r) \/ Return(r) \/ Kill(r)
  BY <1>2, <1>4 DEF LoadFails, Return, Kill
<1> QED
  BY <1>3, <1>4

LEMMA GuildVersion ==
  ASSUME TypeInv, NEW r \in Runs, SkipGuild(r) \/ TakeOverStale(r) \/ BeginGuild(r)
  PROVE  VersionStep(r)
<1>1. run[r] \in RunState
  BY DEF TypeInv, LocalOK
<1>2. CASE SkipGuild(r)
  BY <1>2, DoneVersion DEF SkipGuild, Local
<1>3. CASE TakeOverStale(r) \/ BeginGuild(r)
  BY <1>1, <1>3, StayVersion DEF TakeOverStale, BeginGuild, Local, RunState, InFlightPcs
<1> QED
  BY <1>2, <1>3

LEMMA CacheVersion ==
  ASSUME TypeInv, NEW r \in Runs,
         \/ CacheSuffices(r) \/ RefillCache(r) \/ RefillFails(r) \/ SaveProblemCache(r)
         \/ SelectNext(r) \/ NotifyFailure(r) \/ NotifyStaleCache(r)
  PROVE  VersionStep(r)
<1>1. run[r] \in RunState /\ Working(r) /\ run[r].todo # <<>> /\ UNCHANGED stateDoc
  BY DEF TypeInv, LocalOK, Working, WorkingPcs, CacheSuffices, RefillCache, RefillFails,
         SaveProblemCache, SelectNext, NotifyFailure, NotifyStaleCache, Local
<1>2. CASE Becomes(r, GuildDone(r, TRUE))
  BY <1>1, <1>2, DoneVersion
<1>3. ASSUME NEW pc \in {"select", "notifyStale", "notifyFailure"}, Becomes(r, [run[r] EXCEPT !.pc = pc])
      PROVE  VersionStep(r)
  BY <1>1, <1>3, StayVersion DEF RunState, InFlightPcs
<1>4. CASE RefillCache(r)
  BY <1>1, <1>4, StayVersion DEF RefillCache, Local, RunState, InFlightPcs
<1>5. CASE SaveProblemCache(r)
  <2>1. ASSUME NEW n, Becomes(r, [run[r] EXCEPT !.pc = "select", !.cacheVer = n])
        PROVE  VersionStep(r)
    BY <1>1, <2>1, StayVersion DEF RunState, InFlightPcs
  <2> QED
    BY <1>2, <1>5, <2>1 DEF SaveProblemCache
<1>6. CASE SelectNext(r)
  <2>1. ASSUME NEW n, Becomes(r, [run[r] EXCEPT !.pc = "tags", !.problem = n])
        PROVE  VersionStep(r)
    BY <1>1, <2>1, StayVersion DEF RunState, InFlightPcs
  <2> QED
    BY <1>3, <1>6, <2>1 DEF SelectNext, Local
<1>7. CASE CacheSuffices(r) \/ RefillFails(r) \/ NotifyFailure(r) \/ NotifyStaleCache(r)
  BY <1>2, <1>3, <1>7 DEF CacheSuffices, RefillFails, NotifyFailure, NotifyStaleCache, Local
<1> QED
  BY <1>4, <1>5, <1>6, <1>7

LEMMA PostVersion ==
  ASSUME TypeInv, NEW r \in Runs,
         EnsureTags(r) \/ CreateForumThread(r) \/ AddReaction(r) \/ Wake(r) \/ NotifyReaction(r)
  PROVE  VersionStep(r)
<1>1. run[r] \in RunState /\ UNCHANGED stateDoc
  BY DEF TypeInv, LocalOK, EnsureTags, CreateForumThread, AddReaction, Wake, NotifyReaction, Local
<1>2. ASSUME NEW attempt, Becomes(r, Announce(r, attempt))
      PROVE  VersionStep(r)
  BY <1>1, <1>2, StayVersion DEF Announce, RunState, InFlightPcs
<1>3. ASSUME NEW retry, NEW pc, pc = "saveFailed" => run[r].pc = "create",
             pc \in {"saveRejected", "saveFailed"},
             Becomes(r, [run[r] EXCEPT !.pc = pc,
                           !.mem[Current(r)].job = FailedJob(run[r].date, run[r].problem, retry)])
      PROVE  VersionStep(r)
  BY <1>1, <1>3, StayVersion DEF RunState, InFlightPcs
<1>4. CASE EnsureTags(r) \/ Wake(r)
  BY <1>2, <1>3, <1>4 DEF EnsureTags, Wake, Local
<1>5. CASE CreateForumThread(r)
  <2>1. ASSUME NEW n, run[r].pc = "create", Becomes(r, [run[r] EXCEPT !.pc = "react", !.thread = n])
        PROVE  VersionStep(r)
    BY <1>1, <2>1, StayVersion DEF RunState, InFlightPcs
  <2> QED
    BY <1>3, <1>5, <2>1 DEF CreateForumThread
<1>6. CASE AddReaction(r) \/ NotifyReaction(r)
  <2>1. run[r].pc \in InFlightPcs
    BY <1>6 DEF AddReaction, NotifyReaction, InFlightPcs
  <2>2. CASE Becomes(r, Posted(r))
    BY <1>1, <2>1, <2>2, StayVersion DEF Posted, RunState
  <2>3. CASE Becomes(r, [run[r] EXCEPT !.pc = "notifyReaction"])
    BY <1>1, <2>1, <2>3, StayVersion DEF RunState
  <2> QED
    BY <1>6, <2>2, <2>3 DEF AddReaction, NotifyReaction, Local
<1> QED
  BY <1>4, <1>5, <1>6

LEMMA SaveVersion ==
  ASSUME TypeInv, NEW r \in Runs, NEW at \in WorkingPcs, NEW next \in RunState,
         SaveState(r, at, next), next.todo \in {run[r].todo, Tail(run[r].todo)}
  PROVE  VersionStep(r)
<1>1. Working(r) /\ run[r].todo # <<>> /\ stateDoc.gen \in Nat
  BY DEF SaveState, Working, TypeInv, TypeOK, LocalOK
<1>2. CASE Writes(r, next)
  <2> DEFINE n == stateDoc.gen + 1
             l == [next EXCEPT !.ver = n]
  <2>1. /\ Becomes(r, l) /\ run[r].ver = stateDoc.gen
        /\ stateDoc' = [gen |-> n, guilds |-> run[r].mem]
    BY <1>2 DEF Writes
  <2>2. l.todo = next.todo /\ l.ver = n /\ stateDoc'.gen = n
    BY <2>1 DEF RunState
  <2> HIDE DEF n, l
  <2> QED
    BY <1>1, <2>1, <2>2, BecomesRun DEF VersionStep
<1>3. CASE SaveErrors(r)
  BY <1>1, <1>3, DoneVersion DEF SaveErrors
<1> QED
  BY <1>2, <1>3 DEF SaveState

LEMMA SavesVersion ==
  ASSUME TypeInv, NEW r \in Runs,
         SaveRecovered(r) \/ SaveRejected(r) \/ SavePosting(r) \/ SavePosted(r) \/ SaveFailed(r)
  PROVE  VersionStep(r)
<1>1. run[r] \in RunState /\ Working(r) /\ run[r].todo # <<>>
  BY DEF TypeInv, LocalOK, Working, WorkingPcs, SaveRecovered, SaveRejected, SavePosting,
         SavePosted, SaveFailed, SaveState
<1>2. ASSUME NEW pc \in LivePcs, NEW at \in WorkingPcs, SaveState(r, at, [run[r] EXCEPT !.pc = pc])
      PROVE  VersionStep(r)
  <2>1. /\ [run[r] EXCEPT !.pc = pc] \in RunState
        /\ [run[r] EXCEPT !.pc = pc].todo = run[r].todo
    BY <1>1 DEF RunState
  <2> QED
    BY <1>2, <2>1, SaveVersion
<1>3. CASE SaveRecovered(r) \/ SaveRejected(r) \/ SavePosting(r)
  BY <1>2, <1>3 DEF SaveRecovered, SaveRejected, SavePosting, LivePcs, WorkingPcs
<1>4. CASE SavePosted(r)
  <2>1. GuildDone(r, FALSE) \in RunState /\ GuildDone(r, FALSE).todo = Tail(run[r].todo)
    BY <1>1, GuildDoneOK DEF GuildDone, RunState, LocalOK
  <2> QED
    BY <1>4, <2>1, SaveVersion DEF SavePosted, WorkingPcs
<1>5. CASE SaveFailed(r)
  <2>1. CASE SaveState(r, "saveFailed", [run[r] EXCEPT !.pc = "notifyFailure"])
    BY <1>2, <2>1 DEF LivePcs, WorkingPcs
  <2>2. CASE SaveState(r, "saveFailed", [run[r] EXCEPT !.pc = "sleep", !.wake = clock + RetryInterval])
    <3> DEFINE n    == clock + RetryInterval
               next == [run[r] EXCEPT !.pc = "sleep", !.wake = n]
    <3>1. n \in Nat
      BY ConstantsAssumption DEF TypeInv, TypeOK
    <3>2. SaveState(r, "saveFailed", next) /\ "saveFailed" \in WorkingPcs
      BY <2>2 DEF WorkingPcs
    <3> HIDE DEF n
    <3>3. next \in RunState /\ next.todo = run[r].todo
      BY <1>1, <3>1 DEF RunState, LivePcs, WorkingPcs
    <3> HIDE DEF next
    <3> QED
      BY <3>2, <3>3, SaveVersion
  <2> QED
    BY <1>5, <2>1, <2>2 DEF SaveFailed
<1> QED
  BY <1>3, <1>4, <1>5

LEMMA ActsVersion ==
  ASSUME TypeInv, NEW r \in Runs, Acts(r)
  PROVE  VersionStep(r)
BY LoadVersion, GuildVersion, CacheVersion, PostVersion, SavesVersion DEF Acts, Step

\* While a run posts to the only guild, no other run at work has the store's version.
LEMMA AloneAtTheStore ==
  ASSUME TypeInv, ExclInv, SingleInv, NEW r \in Runs, Working(r), run[r].ver = stateDoc.gen,
         NEW q \in Runs \ {r}
  PROVE  run[q].pc \notin InFlightPcs
<1> SUFFICES ASSUME run[q].pc \in InFlightPcs PROVE FALSE
  OBVIOUS
<1>1. run[q].todo # <<>> /\ run[r].todo # <<>>
  BY PcFacts DEF TypeInv, LocalOK, Working
<1>2. Head(run[q].todo) = Head(run[r].todo)
  BY <1>1 DEF SingleInv
<1> QED
  BY <1>2, PcFacts DEF ExclInv, Apart, Working

LEMMA ShortTail ==
  ASSUME NEW S, NEW s \in Seq(S), s # <<>>, \A i, j \in DOMAIN s : i = j
  PROVE  Tail(s) = <<>>
<1>1. Len(s) \in Nat /\ DOMAIN s = 1 .. Len(s)
  OBVIOUS
<1>2. Len(s) = 1
  BY <1>1, EmptySeq
<1>3. Tail(s) \in Seq(S) /\ Len(Tail(s)) = 0
  BY <1>2, HeadTailProperties
<1> QED
  BY <1>3, EmptySeq

LEMMA ActsSingle ==
  ASSUME SingleGuild, TypeInv, ExclInv, SingleInv, NEW r \in Runs, Acts(r)
  PROVE  SingleInv'
<1>1. VersionStep(r)
  BY ActsVersion
<1>2. run'[r].todo \in {<<>>, EnabledGuilds}
  <2>1. EnabledGuilds # <<>> => Tail(EnabledGuilds) = <<>>
    BY ConstantsAssumption, ShortTail DEF SingleGuild
  <2> QED
    BY <1>1, <2>1 DEF VersionStep, SingleInv
<1>3. run'[r].pc \in InFlightPcs => run'[r].ver = stateDoc'.gen
  BY <1>1 DEF VersionStep, SingleInv
<1>4. ASSUME NEW q \in Runs \ {r}
      PROVE  /\ run'[q].todo \in {<<>>, EnabledGuilds}
             /\ run'[q].pc \in InFlightPcs => run'[q].ver = stateDoc'.gen
  <2>1. run'[q] = run[q]
    BY <1>1 DEF VersionStep
  <2>2. run[q].pc \in InFlightPcs => UNCHANGED stateDoc
    BY <1>1, AloneAtTheStore DEF VersionStep
  <2> QED
    BY <2>1, <2>2 DEF SingleInv
<1> QED
  BY <1>2, <1>3, <1>4 DEF SingleInv

LEMMA IdleSingle == ASSUME SingleInv, Tick \/ UNCHANGED vars PROVE SingleInv'
BY DEF Tick, vars, SingleInv

LEMMA InitSingle == Init => SingleInv
BY DEF Init, NewRun, SingleInv, InFlightPcs

(* With one guild, the save that records a new thread, or its failure,     *)
(* never meets another version of the store, whatever else fails or dies:  *)
(* no duplicate comes from a conflict.                                     *)
THEOREM NoConflictWhileRecording ==
  ASSUME SingleGuild
  PROVE  Spec => []RecordNeverConflicts
<1>1. TypeInv /\ ExclInv /\ SingleInv /\ [Next]_vars => SingleInv'
  BY NextActs, ActsSingle, IdleSingle
<1>2. SingleInv => RecordNeverConflicts
  BY DEF SingleInv, RecordNeverConflicts, InFlightPcs
<1> QED
  BY <1>1, <1>2, InitSingle, ExclusionInvariant, PTL DEF Spec
=============================================================================
