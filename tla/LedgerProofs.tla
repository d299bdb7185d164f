---------------------------- MODULE LedgerProofs ----------------------------
(***************************************************************************)
(* The daily job keeps the ledger of DailyLedger.tla, for any number of    *)
(* runs and guilds and every fault: the refinement, with its proof.        *)
(***************************************************************************)
EXTENDS ExclusionProofs

USE DEF world

\* The record a guild's first write starts from.
Base(g, e) == IF e = Nil THEN DefaultGuildState(StartNumber[g]) ELSE e

\* The record e of the store may become f by one save.
MoveOK(g, e, f) == f = e \/ (f # Nil /\ Ledger!Moves(g, EntryBar(Base(g, e)), EntryBar(f)))

\* The record says that the day is done.
PostedOn(rec, date) == rec.job.targetDate = date /\ rec.job.status = "posted"

NotAfter(rec, date) == rec.job.targetDate # Nil => rec.job.targetDate <= date

-----------------------------------------------------------------------------
(* Dates and the moves of single records.                                  *)

LEMMA DateMonotone ==
  ASSUME NEW t \in Nat PROVE DateOf(t) <= DateOf(t + 1)
BY ConstantsAssumption DEF DateOf

LEMMA JobMovesOK ==
  ASSUME NEW e \in GuildStateType, NEW f \in GuildStateType, NEW date \in Int,
         ~PostedOn(e, date), NotAfter(e, date),
         f.next = e.next, f.thread = e.thread, f.job.targetDate = date
  PROVE  Ledger!JobMoves(EntryBar(e), EntryBar(f))
BY NilAssumption DEF Ledger!JobMoves, Ledger!Closed, EntryBar, PostedOn, NotAfter, GuildStateType, JobState

LEMMA AnnounceMoves ==
  ASSUME NEW g \in Guilds, NEW e \in GuildStateType, NEW f \in GuildStateType, NEW date \in Int,
         ~PostedOn(e, date), NotAfter(e, date), NEW n \in Nat, n >= e.next,
         f.next = e.next, f.thread = e.thread, f.job.targetDate = date,
         f.job.status = "posting", f.job.problem = n
  PROVE  Ledger!Moves(g, EntryBar(e), EntryBar(f))
<1>1. Ledger!JobMoves(EntryBar(e), EntryBar(f))
  BY JobMovesOK
<1>2. Ledger!Announces(EntryBar(e), EntryBar(f))
  BY <1>1, NilAssumption DEF Ledger!Announces, EntryBar
<1> QED
  BY <1>2 DEF Ledger!Moves

LEMMA FailMoves ==
  ASSUME NEW g \in Guilds, NEW e \in GuildStateType, NEW f \in GuildStateType, NEW date \in Int,
         ~PostedOn(e, date), NotAfter(e, date),
         f.next = e.next, f.thread = e.thread, f.job.targetDate = date, f.job.status = "failed"
  PROVE  Ledger!Moves(g, EntryBar(e), EntryBar(f))
<1>1. Ledger!JobMoves(EntryBar(e), EntryBar(f))
  BY JobMovesOK
<1>2. Ledger!GivesUp(EntryBar(e), EntryBar(f))
  BY <1>1 DEF Ledger!GivesUp, EntryBar
<1> QED
  BY <1>2 DEF Ledger!Moves

LEMMA RecoverMoves ==
  ASSUME NEW g \in Guilds, NEW e \in GuildStateType, NEW f \in GuildStateType, NEW date \in Int,
         e.job.targetDate = date, e.job.status = "posting",
         f.next = e.next, f.thread = e.thread, f.job.targetDate = date, f.job.status = "idle"
  PROVE  Ledger!Moves(g, EntryBar(e), EntryBar(f))
<1>1. Ledger!JobMoves(EntryBar(e), EntryBar(f))
  BY JobMovesOK DEF PostedOn, NotAfter
<1>2. Ledger!TakesOver(EntryBar(e), EntryBar(f))
  BY <1>1 DEF Ledger!TakesOver, EntryBar
<1> QED
  BY <1>2 DEF Ledger!Moves

LEMMA PostMoves ==
  ASSUME NEW g \in Guilds, NEW e \in GuildStateType, NEW f \in GuildStateType,
         NEW date \in Int, NEW n \in Nat, NEW i \in DOMAIN threads,
         e.job.targetDate = date, e.job.status = "posting", e.job.problem = n,
         threads[i] = [guild |-> g, date |-> date, number |-> n],
         f.next = n + 1, f.thread = i, f.job.targetDate = date, f.job.status = "posted",
         f.job.problem = n
  PROVE  Ledger!Moves(g, EntryBar(e), EntryBar(f))
<1>1. Ledger!Closes(g, EntryBar(e), EntryBar(f))
  BY DEF Ledger!Closes, EntryBar
<1> QED
  BY <1>1 DEF Ledger!Moves

-----------------------------------------------------------------------------
(* The invariant.  A run whose version is that of the store may move every *)
(* record of the store to the one in its copy; the record it works on is   *)
(* settled between two changes, and those of the guilds ahead are the      *)
(* store's.  What a run saves is of a day the store has not closed.        *)

SettledPcs == {"refresh", "saveCache", "notifyStale", "select", "tags", "create", "react",
               "notifyReaction", "sleep"}

AnnouncedPcs == {"savePosting", "create", "react", "notifyReaction"}

Rec(l) == l.mem[Head(l.todo)]

Sound(l) ==
  /\ \A i, j \in DOMAIN l.todo : l.todo[i] = l.todo[j] => i = j
  /\ l.pc \in LoadedPcs => \A g \in Guilds : l.mem[g] # Nil => NotAfter(l.mem[g], l.date)
  /\ l.pc \in WorkingPcs /\ l.pc # "savePosted" => ~PostedOn(Rec(l), l.date)
  /\ l.pc \in ProblemPcs => l.problem >= Rec(l).next
  /\ l.pc \in AnnouncedPcs => /\ Rec(l).job.status = "posting" /\ Rec(l).job.targetDate = l.date
                               /\ Rec(l).job.problem = l.problem
  /\ l.pc \in ThreadPcs =>
       /\ l.thread \in DOMAIN threads
       /\ threads[l.thread] = [guild |-> Head(l.todo), date |-> l.date, number |-> l.problem]

Fresh(l) ==
  l.pc \in LoadedPcs /\ l.ver = stateDoc.gen =>
    /\ \A g \in Guilds : MoveOK(g, stateDoc.guilds[g], l.mem[g])
    /\ l.pc \in SettledPcs => Rec(l) = Base(Head(l.todo), stateDoc.guilds[Head(l.todo)])
    /\ l.pc = "loadCache" => l.mem = stateDoc.guilds
    /\ \A i \in DOMAIN l.todo :
         l.pc \notin WorkingPcs \/ i # 1 => l.mem[l.todo[i]] = stateDoc.guilds[l.todo[i]]

StoreDates ==
  \A g \in Guilds : stateDoc.guilds[g] # Nil => NotAfter(stateDoc.guilds[g], DateOf(clock))

LedgerInv ==
  /\ StoreDates
  /\ \A r \in Runs : Sound(run[r]) /\ Fresh(run[r])

LEMMA LedgerPcs ==
  /\ SettledPcs \subseteq WorkingPcs /\ ProblemPcs \subseteq WorkingPcs
  /\ AnnouncedPcs \subseteq WorkingPcs /\ ThreadPcs \subseteq AnnouncedPcs
  /\ WorkingPcs \subseteq LoadedPcs /\ "loadCache" \notin WorkingPcs /\ "guild" \notin WorkingPcs
BY DEF SettledPcs, ProblemPcs, AnnouncedPcs, ThreadPcs, WorkingPcs, LoadedPcs

LEMMA MovesStay ==
  ASSUME Extended, NEW g, NEW e, NEW f, MoveOK(g, e, f)
  PROVE  MoveOK(g, e, f)'
BY DEF Extended, MoveOK, Base, EntryBar, Ledger!Moves, Ledger!Announces, Ledger!GivesUp,
       Ledger!TakesOver, Ledger!Closes, Ledger!JobMoves, Ledger!Closed

\* A step that leaves the store alone keeps what holds of every other run.
LEMMA SameStore ==
  ASSUME TypeInv, LedgerInv, NEW r \in Runs, NEW l, Becomes(r, l), UNCHANGED <<clock, stateDoc>>,
         Extended, Sound(run[r])', Fresh(run[r])'
  PROVE  LedgerInv'
<1>1. StoreDates'
  BY DEF LedgerInv, StoreDates, NotAfter, DateOf
<1>2. ASSUME NEW q \in Runs, q # r
      PROVE  Sound(run[q])' /\ Fresh(run[q])'
  <2>1. run'[q] = run[q] /\ Sound(run[q]) /\ Fresh(run[q])
    BY <1>2 DEF Becomes, TypeInv, TypeOK, LedgerInv
  <2>2. Sound(run[q])'
    BY <2>1 DEF Sound, Extended, PostedOn, NotAfter, Rec
  <2>3. ASSUME NEW g \in Guilds, MoveOK(g, stateDoc.guilds[g], run[q].mem[g])
        PROVE  MoveOK(g, stateDoc.guilds[g], run[q].mem[g])'
    <3>1. stateDoc'.guilds[g] = stateDoc.guilds[g] /\ run'[q].mem[g] = run[q].mem[g]
      BY <2>1
    <3>2. \A e, f : MoveOK(g, e, f) => MoveOK(g, e, f)'
      BY MovesStay
    <3> QED
      BY <2>3, <3>1, <3>2
  <2>4. Fresh(run[q])'
    BY <2>1, <2>3 DEF Fresh, Rec, Base
  <2> QED
    BY <2>2, <2>4
<1> QED
  BY <1>1, <1>2 DEF LedgerInv

\* A step of a run at its current guild that gives the guild's record the value rec,
\* and leaves every thread there is.
LEMMA MovedAmid ==
  ASSUME TypeInv, LedgerInv, NEW r \in Runs, NEW l, Becomes(r, l),
         UNCHANGED <<clock, stateDoc>>, Extended,
         run[r].pc \in LoadedPcs, run[r].pc # "loadCache", run[r].todo # <<>>, l.pc \in WorkingPcs,
         l.date = run[r].date, l.ver = run[r].ver, l.todo = run[r].todo,
         \A h \in Guilds \ {Current(r)} : l.mem[h] = run[r].mem[h],
         NEW rec \in GuildStateType, l.mem[Current(r)] = rec,
         run[r].ver = stateDoc.gen => MoveOK(Current(r), stateDoc.guilds[Current(r)], rec),
         l.pc \in SettledPcs /\ run[r].ver = stateDoc.gen =>
           rec = Base(Current(r), stateDoc.guilds[Current(r)]),
         NotAfter(rec, run[r].date),
         l.pc # "savePosted" => ~PostedOn(rec, run[r].date),
         l.pc \in ProblemPcs => l.problem >= rec.next,
         l.pc \in AnnouncedPcs => /\ rec.job.status = "posting" /\ rec.job.targetDate = run[r].date
                                  /\ rec.job.problem = l.problem,
         l.pc \in ThreadPcs =>
           /\ l.thread \in DOMAIN threads'
           /\ threads'[l.thread] = [guild |-> Current(r), date |-> run[r].date, number |-> l.problem]
  PROVE  LedgerInv'
<1> DEFINE g == Current(r)
<1>1. run'[r] = l /\ run[r] \in RunState /\ Sound(run[r]) /\ Fresh(run[r]) /\ stateDoc.gen \in Nat
  BY DEF Becomes, TypeInv, TypeOK, LocalOK, LedgerInv
<1>2. /\ Head(l.todo) = g /\ Rec(l) = rec /\ g \in Guilds /\ l.todo[1] = g /\ run[r].todo \in Seq(Guilds)
      /\ 1 \in DOMAIN l.todo
  BY <1>1 DEF Current, Rec, RunState
<1>4. Sound(run[r])'
  <2>1. \A i, j \in DOMAIN l.todo : l.todo[i] = l.todo[j] => i = j
    BY <1>1 DEF Sound
  <2>2. \A h \in Guilds : l.mem[h] # Nil => NotAfter(l.mem[h], l.date)
    BY <1>1 DEF Sound
  <2>3. rec.job.targetDate = l.date => run[r].date = rec.job.targetDate
    OBVIOUS
  <2>4. l.pc # "savePosted" => ~PostedOn(Rec(l), l.date)
    BY <1>2 DEF PostedOn
  <2>5. l.pc \in ProblemPcs => l.problem >= Rec(l).next
    BY <1>2
  <2>6. l.pc \in AnnouncedPcs => /\ Rec(l).job.status = "posting" /\ Rec(l).job.targetDate = l.date
                                 /\ Rec(l).job.problem = l.problem
    BY <1>2
  <2>7. l.pc \in ThreadPcs =>
          /\ l.thread \in DOMAIN threads'
          /\ threads'[l.thread] = [guild |-> Head(l.todo), date |-> l.date, number |-> l.problem]
    BY <1>2
  <2> QED
    BY <1>1, <2>1, <2>2, <2>4, <2>5, <2>6, <2>7 DEF Sound, PostedOn, NotAfter, Rec
<1>5. Fresh(l)
  <2> SUFFICES ASSUME l.ver = stateDoc.gen PROVE Fresh(l)
    BY DEF Fresh
  <2>1. \A h \in Guilds : MoveOK(h, stateDoc.guilds[h], l.mem[h])
    BY <1>1, <1>2 DEF Fresh
  <2>2. l.pc \in SettledPcs => Rec(l) = Base(Head(l.todo), stateDoc.guilds[Head(l.todo)])
    BY <1>2
  <2>3. l.pc # "loadCache"
    BY LedgerPcs
  <2>4. ASSUME NEW i \in DOMAIN l.todo, i # 1
        PROVE  l.mem[l.todo[i]] = stateDoc.guilds[l.todo[i]]
    <3>1. l.todo[i] \in Guilds \ {g}
      BY <1>1, <1>2, <2>4 DEF Sound
    <3>2. run[r].mem[l.todo[i]] = stateDoc.guilds[l.todo[i]]
      BY <1>1, <2>4 DEF Fresh
    <3> QED
      BY <3>1, <3>2
  <2> QED
    BY <2>1, <2>2, <2>3, <2>4 DEF Fresh
<1>7. Fresh(run[r])'
  <2>1. ASSUME NEW h, NEW e, NEW f, MoveOK(h, e, f)
        PROVE  MoveOK(h, e, f)'
    BY <2>1, MovesStay
  <2>2. ASSUME NEW h \in Guilds, MoveOK(h, stateDoc.guilds[h], l.mem[h])
        PROVE  MoveOK(h, stateDoc.guilds[h], run[r].mem[h])'
    <3>1. stateDoc'.guilds[h] = stateDoc.guilds[h] /\ run'[r].mem[h] = l.mem[h]
      BY <1>1
    <3> QED
      BY <2>1, <2>2, <3>1
  <2> QED
    BY <1>1, <1>5, <2>2 DEF Fresh, Rec, Base
<1> QED
  BY <1>4, <1>7, SameStore

\* A step of a run at its current guild that gives the guild's record the value rec, and posts nothing.
LEMMA Moved ==
  ASSUME TypeInv, LedgerInv, NEW r \in Runs, NEW l, Becomes(r, l),
         UNCHANGED <<clock, stateDoc, threads>>,
         run[r].pc \in LoadedPcs, run[r].pc # "loadCache", run[r].todo # <<>>, l.pc \in WorkingPcs,
         l.date = run[r].date, l.ver = run[r].ver, l.todo = run[r].todo,
         \A h \in Guilds \ {Current(r)} : l.mem[h] = run[r].mem[h],
         NEW rec \in GuildStateType, l.mem[Current(r)] = rec,
         run[r].ver = stateDoc.gen => MoveOK(Current(r), stateDoc.guilds[Current(r)], rec),
         l.pc \in SettledPcs /\ run[r].ver = stateDoc.gen =>
           rec = Base(Current(r), stateDoc.guilds[Current(r)]),
         NotAfter(rec, run[r].date),
         l.pc # "savePosted" => ~PostedOn(rec, run[r].date),
         l.pc \in ProblemPcs => l.problem >= rec.next,
         l.pc \in AnnouncedPcs => /\ rec.job.status = "posting" /\ rec.job.targetDate = run[r].date
                                  /\ rec.job.problem = l.problem,
         l.pc \in ThreadPcs =>
           /\ l.thread \in DOMAIN threads
           /\ threads[l.thread] = [guild |-> Current(r), date |-> run[r].date, number |-> l.problem]
  PROVE  LedgerInv'
<1>1. Extended
  BY DEF Extended
<1> QED
  BY <1>1, MovedAmid

\* A step at work that changes no record.
LEMMA PcMoved ==
  ASSUME TypeInv, LedgerInv, NEW r \in Runs, NEW l, Becomes(r, l),
         UNCHANGED <<clock, stateDoc, threads>>, Working(r), run[r].pc # "savePosted",
         l.pc \in WorkingPcs, l.date = run[r].date, l.ver = run[r].ver, l.todo = run[r].todo,
         l.mem = run[r].mem,
         l.pc \in SettledPcs => run[r].pc \in SettledPcs,
         l.pc \in ProblemPcs => l.problem >= Record(r).next,
         l.pc \in AnnouncedPcs => run[r].pc \in AnnouncedPcs /\ l.problem = run[r].problem,
         l.pc \in ThreadPcs => run[r].pc \in ThreadPcs /\ l.thread = run[r].thread
  PROVE  LedgerInv'
<1> DEFINE rec == Record(r)
<1>1. /\ Sound(run[r]) /\ Fresh(run[r]) /\ run[r].pc \in LoadedPcs /\ run[r].pc # "loadCache"
      /\ run[r].todo # <<>> /\ Current(r) \in Guilds /\ rec \in GuildStateType /\ rec # Nil
  BY RecordType, LedgerPcs, NilAssumption DEF LedgerInv, TypeInv, LocalOK, Working
<1>2. rec = Rec(run[r]) /\ l.mem[Current(r)] = rec /\ rec = run[r].mem[Current(r)]
  BY DEF Record, Rec, Current
<1>3. NotAfter(rec, run[r].date) /\ ~PostedOn(rec, run[r].date)
  BY <1>1, <1>2 DEF Sound, Working
<1>4. run[r].ver = stateDoc.gen =>
        /\ MoveOK(Current(r), stateDoc.guilds[Current(r)], rec)
        /\ run[r].pc \in SettledPcs => rec = Base(Current(r), stateDoc.guilds[Current(r)])
  BY <1>1, <1>2 DEF Fresh, Current
<1>5. l.pc \in AnnouncedPcs => /\ rec.job.status = "posting" /\ rec.job.targetDate = run[r].date
                               /\ rec.job.problem = l.problem
  BY <1>1, <1>2 DEF Sound
<1>6. l.pc \in ThreadPcs =>
        /\ l.thread \in DOMAIN threads
        /\ threads[l.thread] = [guild |-> Current(r), date |-> run[r].date, number |-> l.problem]
  BY <1>1, LedgerPcs DEF Sound, Current
<1>7. /\ l.pc \in ProblemPcs => l.problem >= rec.next
      /\ l.pc \in SettledPcs /\ run[r].ver = stateDoc.gen =>
           rec = Base(Current(r), stateDoc.guilds[Current(r)])
      /\ \A h \in Guilds \ {Current(r)} : l.mem[h] = run[r].mem[h]
  BY <1>4
<1> HIDE DEF rec
<1> QED
  BY <1>1, <1>2, <1>3, <1>4, <1>5, <1>6, <1>7, Moved

\* The run is done with its guild and goes to the next one.
LEMMA DoneShape ==
  ASSUME TypeInv, NEW r \in Runs, run[r].todo # <<>>, NEW failed \in BOOLEAN
  PROVE  LET l == GuildDone(r, failed) IN
         /\ l.pc = "guild" /\ l.date = run[r].date /\ l.ver = run[r].ver /\ l.mem = run[r].mem
         /\ l.todo = Tail(run[r].todo)
         /\ \A i \in DOMAIN l.todo : i + 1 \in DOMAIN run[r].todo /\ l.todo[i] = run[r].todo[i + 1] /\ i + 1 # 1
<1>1. run[r] \in RunState /\ run[r].todo \in Seq(Guilds)
  BY DEF TypeInv, LocalOK, RunState
<1>2. \A i \in DOMAIN Tail(run[r].todo) :
        i \in Nat \ {0} /\ i + 1 \in DOMAIN run[r].todo /\ Tail(run[r].todo)[i] = run[r].todo[i + 1]
  BY <1>1
<1>3. GuildDone(r, failed).todo = Tail(run[r].todo)
  BY <1>1 DEF RunState, GuildDone
<1> QED
  BY <1>1, <1>2, <1>3, GuildDoneShape

\* What is sound at a guild is sound when the run is done with it.
LEMMA DoneSound ==
  ASSUME TypeInv, LedgerInv, NEW r \in Runs, run[r].pc \in LoadedPcs, run[r].todo # <<>>,
         NEW failed \in BOOLEAN
  PROVE  Sound(GuildDone(r, failed))
<1> DEFINE l == GuildDone(r, failed)
<1>1. /\ l.pc = "guild" /\ l.date = run[r].date /\ l.mem = run[r].mem
      /\ \A i \in DOMAIN l.todo : i + 1 \in DOMAIN run[r].todo /\ l.todo[i] = run[r].todo[i + 1]
      /\ l.todo = Tail(run[r].todo)
  BY DoneShape
<1>2. Sound(run[r]) /\ run[r].todo \in Seq(Guilds)
  BY DEF LedgerInv, TypeInv, LocalOK, RunState
<1>3. \A i \in DOMAIN l.todo : i \in Nat
  BY <1>1, <1>2
<1> HIDE DEF l
<1>4. \A i, j \in DOMAIN l.todo : l.todo[i] = l.todo[j] => i = j
  <2> SUFFICES ASSUME NEW i \in DOMAIN l.todo, NEW j \in DOMAIN l.todo, l.todo[i] = l.todo[j]
               PROVE  i = j
    OBVIOUS
  <2>1. i + 1 = j + 1
    BY <1>1, <1>2 DEF Sound
  <2> QED
    BY <1>3, <2>1
<1>5. \A g \in Guilds : l.mem[g] # Nil => NotAfter(l.mem[g], l.date)
  BY <1>1, <1>2 DEF Sound
<1>6. l.pc \notin WorkingPcs /\ l.pc \notin ProblemPcs /\ l.pc \notin AnnouncedPcs /\ l.pc \notin ThreadPcs
  BY <1>1, LedgerPcs
<1> QED
  BY <1>4, <1>5, <1>6 DEF Sound, l

LEMMA DoneMoved ==
  ASSUME TypeInv, LedgerInv, NEW r \in Runs, NEW failed \in BOOLEAN,
         Becomes(r, GuildDone(r, failed)), UNCHANGED <<clock, stateDoc, threads>>,
         run[r].pc \in LoadedPcs, run[r].pc # "loadCache", run[r].todo # <<>>
  PROVE  LedgerInv'
<1> DEFINE l == GuildDone(r, failed)
<1>1. /\ l.pc = "guild" /\ l.ver = run[r].ver /\ l.mem = run[r].mem
      /\ \A i \in DOMAIN l.todo : i + 1 \in DOMAIN run[r].todo /\ l.todo[i] = run[r].todo[i + 1] /\ i + 1 # 1
  BY DoneShape
<1>2. Sound(l) /\ Fresh(run[r]) /\ Extended
  BY DoneSound DEF LedgerInv, Extended
<1>3. Becomes(r, l) /\ run'[r] = l
  BY DEF Becomes, TypeInv, TypeOK
<1> HIDE DEF l
<1>4. Sound(run[r])'
  BY <1>2, <1>3 DEF Sound, PostedOn, NotAfter, Rec
<1>5. Fresh(run[r])'
  <2> SUFFICES ASSUME l.ver = stateDoc.gen PROVE Fresh(run[r])'
    BY <1>3 DEF Fresh
  <2>1. ASSUME NEW h, NEW e, NEW f, MoveOK(h, e, f)
        PROVE  MoveOK(h, e, f)'
    BY <1>2, <2>1, MovesStay
  <2>2. ASSUME NEW h \in Guilds
        PROVE  MoveOK(h, stateDoc.guilds[h], run[r].mem[h])'
    <3>1. stateDoc'.guilds[h] = stateDoc.guilds[h] /\ run'[r].mem[h] = run[r].mem[h]
      BY <1>1, <1>3
    <3>2. MoveOK(h, stateDoc.guilds[h], run[r].mem[h])
      BY <1>1, <1>2 DEF Fresh
    <3> QED
      BY <2>1, <3>1, <3>2
  <2>3. \A i \in DOMAIN l.todo : l.mem[l.todo[i]] = stateDoc.guilds[l.todo[i]]
    BY <1>1, <1>2 DEF Fresh
  <2>4. l.pc \notin SettledPcs /\ l.pc # "loadCache"
    BY <1>1, LedgerPcs
  <2> QED
    BY <1>3, <2>2, <2>3, <2>4 DEF Fresh
<1> QED
  BY <1>2, <1>3, <1>4, <1>5, SameStore

\* A run that is alive works on the date it was triggered for.
LEMMA RunToday ==
  ASSUME TypeInv, ExclInv, NEW r \in Runs, run[r].pc \in LivePcs
  PROVE  run[r].date = DateOf(clock)
BY TriggerAssumption DEF ExclInv, RunSafe, OnTime

\* A save that is applied: the store becomes the run's copy, and every other run has
\* an outdated version.
LEMMA Written ==
  ASSUME TypeInv, ExclInv, LedgerInv, NEW r \in Runs, NEW l, Becomes(r, l),
         UNCHANGED <<clock, threads>>, Working(r), run[r].ver = stateDoc.gen,
         stateDoc' = [gen |-> stateDoc.gen + 1, guilds |-> run[r].mem],
         l.mem = run[r].mem, l.pc # "loadCache", Sound(l),
         l.pc \in SettledPcs => Rec(l) # Nil
  PROVE  LedgerInv'
<1>1. run'[r] = l /\ stateDoc.gen \in Nat /\ stateDoc'.gen = stateDoc.gen + 1 /\ stateDoc'.guilds = run[r].mem
  BY DEF Becomes, TypeInv, TypeOK
<1>2. StoreDates'
  <2>1. Sound(run[r]) /\ run[r].date = DateOf(clock) /\ run[r].pc \in LoadedPcs
    BY PcFacts, RunToday DEF LedgerInv, Working
  <2>2. \A g \in Guilds : run[r].mem[g] # Nil => NotAfter(run[r].mem[g], DateOf(clock))
    BY <2>1 DEF Sound
  <2> QED
    BY <1>1, <2>2 DEF StoreDates, NotAfter, DateOf
<1>3. ASSUME NEW q \in Runs, q # r
      PROVE  Sound(run[q])' /\ Fresh(run[q])'
  <2>1. run'[q] = run[q] /\ Sound(run[q])
    BY <1>3 DEF Becomes, TypeInv, TypeOK, LedgerInv
  <2>2. run[q].pc \in LoadedPcs => run[q].ver # stateDoc'.gen
    BY <1>1 DEF ExclInv, RunSafe, TypeInv, LocalOK, RunState
  <2> QED
    BY <2>1, <2>2 DEF Sound, Fresh, PostedOn, NotAfter, Rec
<1>4. Sound(run[r])'
  BY <1>1 DEF Sound, PostedOn, NotAfter, Rec
<1>5. Fresh(run[r])'
  <2>1. \A h : run'[r].mem[h] = stateDoc'.guilds[h]
    BY <1>1
  <2>2. \A h : MoveOK(h, stateDoc.guilds[h], run[r].mem[h])'
    BY <2>1 DEF MoveOK
  <2>3. l.pc \in SettledPcs => Rec(l) = Base(Head(l.todo), l.mem[Head(l.todo)])
    BY DEF Base, Rec
  <2> QED
    BY <1>1, <2>1, <2>2, <2>3 DEF Fresh, Rec, Base
<1> QED
  BY <1>2, <1>3, <1>4, <1>5 DEF LedgerInv

-----------------------------------------------------------------------------
(* Every step keeps the invariant.                                         *)

LEMMA InitLedger == Init => LedgerInv
<1> SUFFICES ASSUME Init PROVE LedgerInv
  OBVIOUS
<1>1. StoreDates
  BY DEF Init, StoreDates, NoGuilds
<1>2. ASSUME NEW r \in Runs
      PROVE  Sound(run[r]) /\ Fresh(run[r])
  <2>1. run[r].pc = "new" /\ run[r].todo = <<>>
    BY DEF Init, NewRun
  <2>2. "new" \notin LoadedPcs
    BY DEF LoadedPcs, WorkingPcs
  <2> QED
    BY <2>1, <2>2, LedgerPcs DEF Sound, Fresh
<1> QED
  BY <1>1, <1>2 DEF LedgerInv

\* A run that has no copy of the state, or none any more.
LEMMA OutsideMoved ==
  ASSUME TypeInv, LedgerInv, NEW r \in Runs, NEW l, Becomes(r, l),
         UNCHANGED <<clock, stateDoc, threads>>,
         l.pc \in {"loadState", "done", "killed"}, l.todo = run[r].todo \/ l.todo = <<>>
  PROVE  LedgerInv'
<1>1. run'[r] = l /\ Sound(run[r])
  BY DEF Becomes, TypeInv, TypeOK, LedgerInv
<1>2. l.pc \notin LoadedPcs
  BY DEF LoadedPcs, WorkingPcs
<1>3. \A i, j \in DOMAIN l.todo : l.todo[i] = l.todo[j] => i = j
  <2>1. CASE l.todo = <<>>
    BY <2>1
  <2>2. CASE l.todo = run[r].todo
    BY <1>1, <2>2 DEF Sound
  <2> QED
    BY <2>1, <2>2
<1>4. Sound(run[r])' /\ Fresh(run[r])'
  BY <1>1, <1>2, <1>3, LedgerPcs DEF Sound, Fresh
<1> QED
  BY <1>4, SameStore DEF Extended

LEMMA LoadMoves ==
  ASSUME TypeInv, ExclInv, LedgerInv, NEW r \in Runs,
         Start(r) \/ LoadState(r) \/ LoadProblemCache(r) \/ LoadFails(r) \/ Return(r) \/ Kill(r)
  PROVE  LedgerInv'
<1>1. run[r] \in RunState /\ Sound(run[r]) /\ Fresh(run[r]) /\ UNCHANGED <<clock, stateDoc, threads>>
  BY DEF TypeInv, LocalOK, LedgerInv, Start, LoadState, LoadProblemCache, LoadFails, Return, Kill, Local
<1>2. Extended
  BY <1>1 DEF Extended
<1>3. CASE Start(r)
  <2> DEFINE l == [run[r] EXCEPT !.pc = "loadState", !.born = clock, !.date = DateOf(clock)]
  <2>1. l.pc = "loadState" /\ l.todo = run[r].todo
    BY <1>1 DEF RunState
  <2>2. Becomes(r, l)
    BY <1>3 DEF Start, Local
  <2> HIDE DEF l
  <2> QED
    BY <1>1, <2>1, <2>2, OutsideMoved
<1>4. CASE LoadState(r)
  <2> DEFINE l == [run[r] EXCEPT !.pc = "loadCache", !.mem = stateDoc.guilds, !.ver = stateDoc.gen]
  <2>1. /\ l.pc = "loadCache" /\ l.date = run[r].date /\ l.mem = stateDoc.guilds
        /\ l.ver = stateDoc.gen /\ l.todo = run[r].todo
    BY <1>1 DEF RunState
  <2>2. Becomes(r, l) /\ run[r].pc = "loadState"
    BY <1>4 DEF LoadState, Local
  <2>3. run'[r] = l
    BY <2>2 DEF Becomes, TypeInv, TypeOK
  <2>4. run[r].date = DateOf(clock)
    BY <2>2, RunToday DEF LivePcs
  <2> HIDE DEF l
  <2>5. Sound(run[r])'
    <3>1. \A g \in Guilds : l.mem[g] # Nil => NotAfter(l.mem[g], l.date)
      BY <2>1, <2>4 DEF LedgerInv, StoreDates
    <3>2. l.pc \notin WorkingPcs
      BY <2>1, LedgerPcs
    <3> QED
      BY <1>1, <2>1, <2>3, <3>1, <3>2, LedgerPcs DEF Sound, NotAfter
  <2>6. Fresh(run[r])'
    <3>1. \A h : run'[r].mem[h] = stateDoc'.guilds[h]
      BY <1>1, <2>1, <2>3
    <3>2. \A h : MoveOK(h, stateDoc.guilds[h], run[r].mem[h])'
      BY <3>1 DEF MoveOK
    <3>3. l.pc \notin SettledPcs
      BY <2>1, LedgerPcs
    <3> QED
      BY <1>1, <2>1, <2>3, <3>1, <3>2, <3>3 DEF Fresh
  <2> QED
    BY <1>1, <1>2, <2>2, <2>5, <2>6, SameStore
<1>5. CASE LoadProblemCache(r)
  <2> DEFINE l == [run[r] EXCEPT !.pc = "guild", !.cache = cacheDoc.problems,
                                 !.cacheVer = cacheDoc.gen, !.todo = EnabledGuilds]
  <2>1. /\ l.pc = "guild" /\ l.date = run[r].date /\ l.mem = run[r].mem /\ l.ver = run[r].ver
        /\ l.todo = EnabledGuilds
    BY <1>1 DEF RunState
  <2>2. Becomes(r, l) /\ run[r].pc = "loadCache"
    BY <1>5 DEF LoadProblemCache, Local
  <2>3. run'[r] = l /\ run[r].pc \in LoadedPcs
    BY <2>2 DEF Becomes, TypeInv, TypeOK, LoadedPcs
  <2> HIDE DEF l
  <2>4. l.pc \notin WorkingPcs /\ l.pc # "loadCache"
    BY <2>1, LedgerPcs
  <2>5. Sound(run[r])'
    <3>1. \A i, j \in DOMAIN l.todo : l.todo[i] = l.todo[j] => i = j
      BY <2>1, DistinctGuildsAssumption, ConstantsAssumption
    <3>2. \A g \in Guilds : l.mem[g] # Nil => NotAfter(l.mem[g], l.date)
      BY <1>1, <2>1, <2>3 DEF Sound
    <3> QED
      BY <2>3, <2>4, <3>1, <3>2, LedgerPcs DEF Sound, NotAfter
  <2>6. Fresh(run[r])'
    <3> SUFFICES ASSUME l.ver = stateDoc.gen PROVE Fresh(run[r])'
      BY <1>1, <2>3 DEF Fresh
    <3>1. l.mem = stateDoc.guilds
      BY <1>1, <2>1, <2>2, <2>3 DEF Fresh
    <3>2. \A h : run'[r].mem[h] = stateDoc'.guilds[h]
      BY <1>1, <2>3, <3>1
    <3>3. \A h : MoveOK(h, stateDoc.guilds[h], run[r].mem[h])'
      BY <3>2 DEF MoveOK
    <3> QED
      BY <1>1, <2>3, <2>4, <3>1, <3>3, LedgerPcs DEF Fresh
  <2> QED
    BY <1>1, <1>2, <2>2, <2>5, <2>6, SameStore
<1>6. ASSUME NEW how \in {"done", "killed"}, Local(r, Ended(r, how))
      PROVE  LedgerInv'
  <2>1. Ended(r, how).pc = how /\ Ended(r, how).todo = <<>>
    BY DEF Ended, NewRun
  <2>2. Becomes(r, Ended(r, how))
    BY <1>6 DEF Local
  <2> QED
    BY <1>1, <2>1, <2>2, OutsideMoved
<1> QED
  BY <1>3, <1>4, <1>5, <1>6 DEF LoadFails, Return, Kill

LEMMA TickMoves ==
  ASSUME TypeInv, LedgerInv, Tick
  PROVE  LedgerInv'
<1>1. clock \in Nat /\ clock' = clock + 1 /\ UNCHANGED <<stateDoc, threads, run>>
  BY DEF Tick, TypeInv, TypeOK
<1>2. DateOf(clock) \in Int /\ DateOf(clock + 1) \in Int /\ DateOf(clock) <= DateOf(clock + 1)
  BY <1>1, DateType, DateMonotone
<1>3. ASSUME NEW g \in Guilds, stateDoc.guilds[g] # Nil
      PROVE  NotAfter(stateDoc.guilds[g], DateOf(clock + 1))
  <2>1. stateDoc.guilds[g].job.targetDate \in Int \cup {Nil}
    BY <1>3 DEF TypeInv, TypeOK, GuildStates, GuildStateType, JobState
  <2>2. NotAfter(stateDoc.guilds[g], DateOf(clock))
    BY <1>3 DEF LedgerInv, StoreDates
  <2> QED
    BY <1>2, <2>1, <2>2 DEF NotAfter
<1>4. StoreDates'
  BY <1>1, <1>3 DEF StoreDates, NotAfter, DateOf
<1>5. ASSUME NEW q \in Runs
      PROVE  Sound(run[q])' /\ Fresh(run[q])'
  <2>1. ASSUME NEW h, NEW e, NEW f, MoveOK(h, e, f)
        PROVE  MoveOK(h, e, f)'
    BY <1>1, <2>1, MovesStay DEF Extended
  <2>2. Sound(run[q]) /\ Fresh(run[q])
    BY DEF LedgerInv
  <2>3. Sound(run[q])'
    BY <1>1, <2>2 DEF Sound, PostedOn, NotAfter, Rec
  <2>4. \A h : MoveOK(h, stateDoc.guilds[h], run[q].mem[h]) => MoveOK(h, stateDoc.guilds[h], run[q].mem[h])'
    <3> TAKE h
    <3>1. stateDoc'.guilds[h] = stateDoc.guilds[h] /\ run'[q].mem[h] = run[q].mem[h]
      BY <1>1
    <3> QED
      BY <2>1, <3>1
  <2> QED
    BY <1>1, <2>2, <2>3, <2>4 DEF Fresh, Rec, Base
<1> QED
  BY <1>4, <1>5 DEF LedgerInv

LEMMA GuildMoves ==
  ASSUME TypeInv, LedgerInv, NEW r \in Runs, SkipGuild(r) \/ TakeOverStale(r) \/ BeginGuild(r)
  PROVE  LedgerInv'
<1> DEFINE g == Current(r)
           e == EnsureGuild(r, g)
<1>1. /\ run[r] \in RunState /\ Sound(run[r]) /\ Fresh(run[r]) /\ UNCHANGED <<clock, stateDoc, threads>>
      /\ run[r].pc = "guild" /\ run[r].todo # <<>>
  BY DEF TypeInv, LocalOK, LedgerInv, SkipGuild, TakeOverStale, BeginGuild, Local
<1>2. /\ g \in Guilds /\ e \in GuildStateType /\ e # Nil /\ run[r].pc \in LoadedPcs
      /\ run[r].date \in Int /\ g = run[r].todo[1] /\ 1 \in DOMAIN run[r].todo /\ run[r].pc # "loadCache"
  BY <1>1, RecordType, NilAssumption DEF LoadedPcs, RunState, Current
<1>3. e = Base(g, run[r].mem[g])
  BY DEF EnsureGuild, Base
<1>4. run[r].ver = stateDoc.gen => run[r].mem[g] = stateDoc.guilds[g]
  BY <1>1, <1>2, LedgerPcs DEF Fresh
<1>5. NotAfter(e, run[r].date)
  <2>1. CASE run[r].mem[g] = Nil
    BY <1>3, <2>1 DEF Base, DefaultGuildState, IdleJob, NotAfter
  <2>2. CASE run[r].mem[g] # Nil
    BY <1>1, <1>2, <1>3, <2>2 DEF Base, Sound
  <2> QED
    BY <2>1, <2>2
<1>6. CASE SkipGuild(r)
  BY <1>1, <1>2, <1>6, DoneMoved DEF SkipGuild, Local
<1>7. CASE TakeOverStale(r)
  <2> DEFINE rec == RecoverStalePosting(e, run[r].date)
             l   == [run[r] EXCEPT !.pc = "saveRecovered", !.mem[g] = rec]
  <2>1. Becomes(r, l) /\ StalePosting(e, run[r].date, clock)
    BY <1>7 DEF TakeOverStale, Local
  <2>2. /\ l.pc = "saveRecovered" /\ l.date = run[r].date /\ l.ver = run[r].ver /\ l.todo = run[r].todo
        /\ l.mem[g] = rec /\ \A h \in Guilds \ {g} : l.mem[h] = run[r].mem[h]
    BY <1>1, <1>2 DEF RunState, GuildStates
  <2>3. /\ rec \in GuildStateType /\ rec.next = e.next /\ rec.thread = e.thread
        /\ rec.job = IdleJob(run[r].date)
    BY <1>2 DEF RecoverStalePosting, GuildStateType, IdleJob, JobState, JobStatus
  <2>4. /\ rec.job.targetDate = run[r].date /\ rec.job.status = "idle"
    BY <2>3 DEF IdleJob
  <2>5. e.job.targetDate = run[r].date /\ e.job.status = "posting"
    BY <2>1 DEF StalePosting
  <2>6. Ledger!Moves(g, EntryBar(e), EntryBar(rec))
    <3> HIDE DEF e, rec, g
    <3> QED
      BY <1>2, <2>3, <2>4, <2>5, RecoverMoves
  <2>7. rec # Nil
    BY <2>3, NilAssumption
  <2>8. run[r].ver = stateDoc.gen => MoveOK(g, stateDoc.guilds[g], rec)
    BY <1>3, <1>4, <2>6, <2>7 DEF MoveOK
  <2>9. NotAfter(rec, run[r].date) /\ ~PostedOn(rec, run[r].date)
    BY <1>2, <2>4 DEF NotAfter, PostedOn
  <2>10. /\ l.pc \in WorkingPcs /\ l.pc \notin SettledPcs /\ l.pc \notin ProblemPcs
         /\ l.pc \notin AnnouncedPcs /\ l.pc \notin ThreadPcs
    BY <2>2 DEF WorkingPcs, SettledPcs, ProblemPcs, AnnouncedPcs, ThreadPcs
  <2> HIDE DEF rec, l, e
  <2> QED
    BY <1>1, <1>2, <2>1, <2>2, <2>3, <2>8, <2>9, <2>10, Moved
<1>8. CASE BeginGuild(r)
  <2> DEFINE l == [run[r] EXCEPT !.pc = "refresh", !.mem[g] = e]
  <2>1. Becomes(r, l) /\ ~ShouldSkip(e, run[r].date, clock)
    BY <1>8 DEF BeginGuild, Local
  <2>2. /\ l.pc = "refresh" /\ l.date = run[r].date /\ l.ver = run[r].ver /\ l.todo = run[r].todo
        /\ l.mem[g] = e /\ \A h \in Guilds \ {g} : l.mem[h] = run[r].mem[h]
    BY <1>1, <1>2 DEF RunState, GuildStates
  <2>3. run[r].ver = stateDoc.gen => e = Base(g, stateDoc.guilds[g])
    BY <1>3, <1>4
  <2>4. run[r].ver = stateDoc.gen => MoveOK(g, stateDoc.guilds[g], e)
    BY <1>2, <2>3 DEF MoveOK, Ledger!Moves
  <2>5. ~PostedOn(e, run[r].date)
    BY <2>1 DEF PostedOn, ShouldSkip
  <2>6. /\ l.pc \in WorkingPcs /\ l.pc \notin ProblemPcs /\ l.pc \notin AnnouncedPcs /\ l.pc \notin ThreadPcs
    BY <2>2 DEF WorkingPcs, ProblemPcs, AnnouncedPcs, ThreadPcs
  <2> HIDE DEF l, e
  <2> QED
    BY <1>1, <1>2, <1>5, <2>1, <2>2, <2>3, <2>4, <2>5, <2>6, Moved
<1> QED
  BY <1>6, <1>7, <1>8

LEMMA CacheMoves ==
  ASSUME TypeInv, LedgerInv, NEW r \in Runs,
         CacheSuffices(r) \/ RefillCache(r) \/ RefillFails(r) \/ SaveProblemCache(r) \/ SelectNext(r)
  PROVE  LedgerInv'
<1>1. run[r] \in RunState /\ UNCHANGED <<clock, stateDoc, threads>>
  BY DEF TypeInv, LocalOK, CacheSuffices, RefillCache, RefillFails, SaveProblemCache, SelectNext, Local
<1>2. run[r].pc \in {"refresh", "saveCache", "select"}
  BY DEF CacheSuffices, RefillCache, RefillFails, SaveProblemCache, SelectNext
<1>3. /\ Working(r) /\ run[r].pc \in SettledPcs /\ run[r].pc # "savePosted"
      /\ run[r].pc \in LoadedPcs /\ run[r].pc # "loadCache" /\ run[r].todo # <<>>
  BY <1>2, LedgerPcs DEF Working, WorkingPcs, SettledPcs, TypeInv, LocalOK
<1>4. ASSUME NEW l, Becomes(r, l), l.date = run[r].date, l.ver = run[r].ver, l.mem = run[r].mem,
             l.todo = run[r].todo, l.pc \in {"saveCache", "select", "notifyStale", "notifyFailure", "tags"},
             l.pc = "tags" => l.problem >= Record(r).next
      PROVE  LedgerInv'
  <2>1. /\ l.pc \in WorkingPcs /\ (l.pc \in ProblemPcs => l.pc = "tags")
        /\ l.pc \notin AnnouncedPcs /\ l.pc \notin ThreadPcs
    BY <1>4 DEF WorkingPcs, ProblemPcs, AnnouncedPcs, ThreadPcs
  <2> QED
    BY <1>1, <1>3, <1>4, <2>1, PcMoved
<1>5. ASSUME NEW pc \in {"select", "notifyStale", "notifyFailure"}, Local(r, [run[r] EXCEPT !.pc = pc])
      PROVE  LedgerInv'
  <2> DEFINE l == [run[r] EXCEPT !.pc = pc]
  <2>1. /\ l.pc = pc /\ l.date = run[r].date /\ l.ver = run[r].ver
        /\ l.mem = run[r].mem /\ l.todo = run[r].todo /\ Becomes(r, l)
    BY <1>1, <1>5 DEF RunState, Local
  <2> HIDE DEF l
  <2> QED
    BY <1>4, <2>1
<1>6. CASE CacheSuffices(r)
  BY <1>5, <1>6 DEF CacheSuffices
<1>7. CASE RefillCache(r)
  <2>1. PICK list \in FetchLists : Local(r, [run[r] EXCEPT !.pc = "saveCache", !.cache = list])
    BY <1>7 DEF RefillCache
  <2> DEFINE l == [run[r] EXCEPT !.pc = "saveCache", !.cache = list]
  <2>2. /\ l.pc = "saveCache" /\ l.date = run[r].date /\ l.ver = run[r].ver
        /\ l.mem = run[r].mem /\ l.todo = run[r].todo /\ Becomes(r, l)
    BY <1>1, <2>1 DEF RunState, Local
  <2> HIDE DEF l
  <2> QED
    BY <1>4, <2>2
<1>8. CASE RefillFails(r)
  <2>1. PICK pc \in {"notifyStale", "notifyFailure"} : Local(r, [run[r] EXCEPT !.pc = pc])
    BY <1>8 DEF RefillFails
  <2> QED
    BY <1>5, <2>1
<1>9. CASE SaveProblemCache(r)
  <2> DEFINE l == [run[r] EXCEPT !.pc = "select", !.cacheVer = cacheDoc.gen + 1]
  <2>1. Becomes(r, l) \/ Becomes(r, GuildDone(r, TRUE))
    BY <1>9 DEF SaveProblemCache
  <2>2. /\ l.pc = "select" /\ l.date = run[r].date /\ l.ver = run[r].ver
        /\ l.mem = run[r].mem /\ l.todo = run[r].todo
    BY <1>1 DEF RunState
  <2> HIDE DEF l
  <2> QED
    BY <1>1, <1>3, <1>4, <2>1, <2>2, DoneMoved
<1>10. CASE SelectNext(r)
  <2>1. CASE Local(r, [run[r] EXCEPT !.pc = "notifyFailure"])
    BY <1>5, <2>1
  <2>2. ASSUME NEW n \in Available(r), Local(r, [run[r] EXCEPT !.pc = "tags", !.problem = n])
        PROVE  LedgerInv'
    <3> DEFINE l == [run[r] EXCEPT !.pc = "tags", !.problem = n]
    <3>1. /\ l.pc = "tags" /\ l.date = run[r].date /\ l.ver = run[r].ver /\ l.problem = n
          /\ l.mem = run[r].mem /\ l.todo = run[r].todo /\ Becomes(r, l)
      BY <1>1, <2>2 DEF RunState, Local
    <3>2. n >= Record(r).next
      BY <2>2 DEF Available
    <3> HIDE DEF l
    <3> QED
      BY <1>4, <3>1, <3>2
  <2> QED
    BY <1>10, <2>1, <2>2 DEF SelectNext
<1> QED
  BY <1>6, <1>7, <1>8, <1>9, <1>10

LEMMA NotifyMoves ==
  ASSUME TypeInv, LedgerInv, NEW r \in Runs, NotifyFailure(r) \/ NotifyStaleCache(r)
  PROVE  LedgerInv'
<1>1. /\ run[r] \in RunState /\ UNCHANGED <<clock, stateDoc, threads>>
      /\ run[r].pc \in {"notifyFailure", "notifyStale"}
  BY DEF TypeInv, LocalOK, NotifyFailure, NotifyStaleCache
<1>2. /\ Working(r) /\ run[r].pc # "savePosted" /\ run[r].pc \in LoadedPcs /\ run[r].pc # "loadCache"
      /\ run[r].todo # <<>>
  BY <1>1, LedgerPcs DEF Working, WorkingPcs, TypeInv, LocalOK
<1> DEFINE l == [run[r] EXCEPT !.pc = "select"]
<1>3. Becomes(r, GuildDone(r, TRUE)) \/ (run[r].pc = "notifyStale" /\ Becomes(r, l))
  BY DEF NotifyFailure, NotifyStaleCache
<1>4. /\ l.pc = "select" /\ l.date = run[r].date /\ l.ver = run[r].ver
      /\ l.mem = run[r].mem /\ l.todo = run[r].todo
  BY <1>1 DEF RunState
<1> HIDE DEF l
<1>5. CASE Becomes(r, GuildDone(r, TRUE))
  BY <1>1, <1>2, <1>5, DoneMoved
<1>6. CASE run[r].pc = "notifyStale" /\ Becomes(r, l)
  <2>1. /\ l.pc \in WorkingPcs /\ l.pc \notin ProblemPcs /\ l.pc \notin AnnouncedPcs
        /\ l.pc \notin ThreadPcs /\ run[r].pc \in SettledPcs
    BY <1>4, <1>6 DEF WorkingPcs, ProblemPcs, AnnouncedPcs, ThreadPcs, SettledPcs
  <2> QED
    BY <1>1, <1>2, <1>4, <1>6, <2>1, PcMoved
<1> QED
  BY <1>3, <1>5, <1>6

\* The record a run works on: of its guild, typed, and neither ahead of nor done for
\* its day; with the version of the store and between two changes it is the store's.
LEMMA AtWork ==
  ASSUME TypeInv, LedgerInv, NEW r \in Runs, Working(r), run[r].pc # "savePosted"
  PROVE  /\ Current(r) \in Guilds /\ Record(r) \in GuildStateType /\ run[r].date \in Int
         /\ run[r].pc \in LoadedPcs /\ run[r].pc # "loadCache" /\ run[r].todo # <<>>
         /\ NotAfter(Record(r), run[r].date) /\ ~PostedOn(Record(r), run[r].date)
         /\ run[r].pc \in ProblemPcs => run[r].problem >= Record(r).next
         /\ run[r].ver = stateDoc.gen =>
              /\ MoveOK(Current(r), stateDoc.guilds[Current(r)], Record(r))
              /\ run[r].pc \in SettledPcs =>
                   Record(r) = Base(Current(r), stateDoc.guilds[Current(r)])
<1>1. /\ Sound(run[r]) /\ Fresh(run[r]) /\ run[r].pc \in LoadedPcs /\ run[r].pc # "loadCache"
      /\ run[r].todo # <<>> /\ Current(r) \in Guilds /\ Record(r) \in GuildStateType
      /\ Record(r) # Nil /\ run[r].date \in Int
  BY RecordType, LedgerPcs, NilAssumption DEF LedgerInv, TypeInv, LocalOK, Working, RunState
<1>2. Record(r) = Rec(run[r]) /\ Record(r) = run[r].mem[Current(r)]
  BY DEF Record, Rec, Current
<1>3. NotAfter(Record(r), run[r].date) /\ ~PostedOn(Record(r), run[r].date)
  BY <1>1, <1>2 DEF Sound, Working
<1>4. run[r].pc \in ProblemPcs => run[r].problem >= Record(r).next
  BY <1>1, <1>2 DEF Sound
<1>5. run[r].ver = stateDoc.gen =>
        /\ MoveOK(Current(r), stateDoc.guilds[Current(r)], Record(r))
        /\ run[r].pc \in SettledPcs => Record(r) = Base(Current(r), stateDoc.guilds[Current(r)])
  BY <1>1, <1>2 DEF Fresh, Current
<1> QED
  BY <1>1, <1>3, <1>4, <1>5

LEMMA AnnounceMoved ==
  ASSUME TypeInv, LedgerInv, NEW r \in Runs, run[r].pc \in {"tags", "sleep"},
         NEW attempt \in Nat \ {0}, Local(r, Announce(r, attempt))
  PROVE  LedgerInv'
<1> DEFINE g   == Current(r)
           rec == Record(r)
           new == [rec EXCEPT !.job = PostingJob(run[r].date, run[r].problem, attempt - 1, clock)]
           l   == Announce(r, attempt)
<1>1. /\ Working(r) /\ run[r].pc # "savePosted" /\ run[r].pc \in SettledPcs /\ run[r].pc \in ProblemPcs
      /\ run[r] \in RunState /\ UNCHANGED <<clock, stateDoc, threads>> /\ Becomes(r, l)
  BY DEF Working, WorkingPcs, SettledPcs, ProblemPcs, TypeInv, LocalOK, Local
<1>2. /\ g \in Guilds /\ rec \in GuildStateType /\ run[r].date \in Int /\ run[r].problem \in Nat
      /\ run[r].pc \in LoadedPcs /\ run[r].pc # "loadCache" /\ run[r].todo # <<>>
      /\ NotAfter(rec, run[r].date) /\ ~PostedOn(rec, run[r].date) /\ run[r].problem >= rec.next
      /\ run[r].ver = stateDoc.gen => rec = Base(g, stateDoc.guilds[g])
  BY <1>1, AtWork DEF RunState
<1>3. /\ l.pc = "savePosting" /\ l.date = run[r].date /\ l.ver = run[r].ver /\ l.todo = run[r].todo
      /\ l.problem = run[r].problem /\ l.mem[g] = new
      /\ \A h \in Guilds \ {g} : l.mem[h] = run[r].mem[h]
  BY <1>1, <1>2 DEF Announce, RunState, GuildStates, Record
<1>4. clock \in Nat
  BY DEF TypeInv, TypeOK
<1>5. PostingJob(run[r].date, run[r].problem, attempt - 1, clock) \in JobState
  BY <1>2, <1>4 DEF PostingJob, JobState, JobStatus
<1>6. /\ new \in GuildStateType /\ new.next = rec.next /\ new.thread = rec.thread
      /\ new.job.targetDate = run[r].date /\ new.job.status = "posting"
      /\ new.job.problem = run[r].problem
  BY <1>2, <1>5 DEF GuildStateType, PostingJob
<1> HIDE DEF l, new, rec, g
<1>7. Ledger!Moves(g, EntryBar(rec), EntryBar(new))
  BY <1>2, <1>6, AnnounceMoves
<1>8. run[r].ver = stateDoc.gen => MoveOK(g, stateDoc.guilds[g], new)
  BY <1>2, <1>6, <1>7, NilAssumption DEF MoveOK
<1>9. NotAfter(new, run[r].date) /\ ~PostedOn(new, run[r].date)
  BY <1>2, <1>6 DEF NotAfter, PostedOn
<1>10. /\ l.pc \in WorkingPcs /\ l.pc \notin SettledPcs /\ l.pc \notin ThreadPcs
       /\ l.problem >= new.next
  BY <1>2, <1>3, <1>6 DEF WorkingPcs, SettledPcs, ThreadPcs
<1> USE DEF g
<1> QED
  BY <1>1, <1>2, <1>3, <1>6, <1>8, <1>9, <1>10, Moved

\* The run gives up the attempt: its copy says failed, whatever threads have appeared.
LEMMA FailMoved ==
  ASSUME TypeInv, LedgerInv, NEW r \in Runs, run[r].pc \in {"tags", "create"},
         NEW retry \in Nat, NEW pc \in {"saveRejected", "saveFailed"}, pc = "saveFailed" => run[r].pc = "create",
         Becomes(r, [run[r] EXCEPT !.pc = pc,
                       !.mem[Current(r)].job = FailedJob(run[r].date, run[r].problem, retry)]),
         UNCHANGED <<clock, stateDoc>>, Extended
  PROVE  LedgerInv'
<1> DEFINE g   == Current(r)
           rec == Record(r)
           new == [rec EXCEPT !.job = FailedJob(run[r].date, run[r].problem, retry)]
           l   == [run[r] EXCEPT !.pc = pc,
                     !.mem[Current(r)].job = FailedJob(run[r].date, run[r].problem, retry)]
<1>1. /\ Working(r) /\ run[r].pc # "savePosted" /\ run[r].pc \in SettledPcs /\ run[r].pc \in ProblemPcs
      /\ run[r] \in RunState /\ Becomes(r, l)
  BY DEF Working, WorkingPcs, SettledPcs, ProblemPcs, TypeInv, LocalOK
<1>2. /\ g \in Guilds /\ rec \in GuildStateType /\ run[r].date \in Int /\ run[r].problem \in Nat
      /\ run[r].pc \in LoadedPcs /\ run[r].pc # "loadCache" /\ run[r].todo # <<>>
      /\ NotAfter(rec, run[r].date) /\ ~PostedOn(rec, run[r].date) /\ run[r].problem >= rec.next
      /\ run[r].ver = stateDoc.gen => rec = Base(g, stateDoc.guilds[g])
  BY <1>1, AtWork DEF RunState
<1>3. /\ l.pc = pc /\ l.date = run[r].date /\ l.ver = run[r].ver /\ l.todo = run[r].todo
      /\ l.problem = run[r].problem /\ l.mem[g] = new
      /\ \A h \in Guilds \ {g} : l.mem[h] = run[r].mem[h]
  BY <1>1, <1>2 DEF RunState, GuildStates, Record
<1>4. FailedJob(run[r].date, run[r].problem, retry) \in JobState
  BY <1>2 DEF FailedJob, JobState, JobStatus
<1>5. /\ new \in GuildStateType /\ new.next = rec.next /\ new.thread = rec.thread
      /\ new.job.targetDate = run[r].date /\ new.job.status = "failed"
  BY <1>2, <1>4 DEF GuildStateType, FailedJob
<1> HIDE DEF l, new, rec, g
<1>6. Ledger!Moves(g, EntryBar(rec), EntryBar(new))
  BY <1>2, <1>5, FailMoves
<1>7. run[r].ver = stateDoc.gen => MoveOK(g, stateDoc.guilds[g], new)
  BY <1>2, <1>5, <1>6, NilAssumption DEF MoveOK
<1>8. NotAfter(new, run[r].date) /\ ~PostedOn(new, run[r].date)
  BY <1>2, <1>5 DEF NotAfter, PostedOn
<1>9. /\ l.pc \in WorkingPcs /\ l.pc \notin SettledPcs /\ l.pc \notin AnnouncedPcs
      /\ l.pc \notin ThreadPcs /\ l.problem >= new.next
  BY <1>2, <1>3, <1>5 DEF WorkingPcs, SettledPcs, AnnouncedPcs, ThreadPcs
<1> USE DEF g
<1> QED
  BY <1>1, <1>2, <1>3, <1>5, <1>7, <1>8, <1>9, MovedAmid

LEMMA Appended ==
  ASSUME NEW S, NEW s \in Seq(S), NEW u \in Seq(S)
  PROVE  /\ Len(s \o u) = Len(s) + Len(u) /\ DOMAIN (s \o u) = 1 .. Len(s) + Len(u)
         /\ \A i \in 1 .. Len(s) : (s \o u)[i] = s[i]
         /\ Len(u) >= 1 => (s \o u)[Len(s) + Len(u)] = u[Len(u)]
<1>1. s \o u \in Seq(S) /\ Len(s) \in Nat /\ Len(u) \in Nat
  OBVIOUS
<1>2. Len(s \o u) = Len(s) + Len(u)
  OBVIOUS
<1>3. DOMAIN (s \o u) = 1 .. Len(s) + Len(u)
  BY <1>1, <1>2
<1>4. \A i \in 1 .. Len(s) : (s \o u)[i] = s[i]
  OBVIOUS
<1>5. Len(u) >= 1 => (s \o u)[Len(s) + Len(u)] = u[Len(u)]
  BY <1>1
<1> QED
  BY <1>2, <1>3, <1>4, <1>5

\* The threads of a request come after those there are.
LEMMA ForumGrows ==
  ASSUME TypeInv, NEW r \in Runs, Working(r), NEW n \in Nat, threads' = threads \o NewThreads(r, n)
  PROVE  /\ Extended
         /\ n >= 1 => /\ Len(threads) + n \in DOMAIN threads'
                      /\ threads'[Len(threads) + n] =
                           [guild |-> Current(r), date |-> run[r].date, number |-> run[r].problem]
<1> DEFINE new == [guild |-> Current(r), date |-> run[r].date, number |-> run[r].problem]
           s   == NewThreads(r, n)
<1>1. threads \in Seq(Thread) /\ Len(threads) \in Nat
  BY DEF TypeInv, TypeOK
<1>2. s = [i \in 1 .. n |-> new]
  BY DEF NewThreads
<1>0. new \in Thread
  BY RecordType DEF TypeInv, LocalOK, Working, RunState, Thread
<1>3. s \in Seq(Thread) /\ Len(s) = n /\ threads' = threads \o s
  BY <1>0, <1>2
<1> HIDE DEF s, new
<1>4. /\ DOMAIN (threads \o s) = 1 .. Len(threads) + n
      /\ \A i \in 1 .. Len(threads) : (threads \o s)[i] = threads[i]
      /\ n >= 1 => (threads \o s)[Len(threads) + n] = s[n]
  BY <1>1, <1>3, Appended
<1>5. n >= 1 => s[n] = new
  BY <1>2 DEF s
<1>6. Extended
  BY <1>1, <1>3, <1>4 DEF Extended
<1> QED
  BY <1>1, <1>3, <1>4, <1>5, <1>6 DEF new

LEMMA CreateMoves ==
  ASSUME TypeInv, LedgerInv, NEW r \in Runs, CreateForumThread(r)
  PROVE  LedgerInv'
<1>1. PICK n \in 0 .. MaxCopies, ok \in BOOLEAN :
        /\ ok => n >= 1
        /\ threads' = threads \o NewThreads(r, n)
        /\ IF ok
             THEN Becomes(r, [run[r] EXCEPT !.pc = "react", !.thread = Len(threads) + n])
             ELSE Becomes(r, [run[r] EXCEPT !.pc = "saveFailed",
                    !.mem[Current(r)].job = FailedJob(run[r].date, run[r].problem, run[r].attempt)])
  BY DEF CreateForumThread
<1>a. n \in Nat
  BY ConstantsAssumption
<1>b. run[r].pc = "create" /\ UNCHANGED <<clock, stateDoc>>
  BY DEF CreateForumThread
<1>c. run[r] \in RunState /\ run[r].attempt \in Nat /\ Sound(run[r])
  BY DEF TypeInv, LocalOK, RunState, LedgerInv
<1>2. /\ n \in Nat /\ run[r].pc = "create" /\ UNCHANGED <<clock, stateDoc>>
      /\ run[r] \in RunState /\ run[r].attempt \in Nat /\ Working(r) /\ Sound(run[r])
  BY <1>a, <1>b, <1>c DEF Working, WorkingPcs
<1>3. /\ Extended
      /\ n >= 1 => /\ Len(threads) + n \in DOMAIN threads'
                   /\ threads'[Len(threads) + n] =
                        [guild |-> Current(r), date |-> run[r].date, number |-> run[r].problem]
  BY <1>1, <1>2, ForumGrows
<1>4. CASE ~ok
  BY <1>1, <1>2, <1>3, <1>4, FailMoved
<1>5. CASE ok
  <2> DEFINE l == [run[r] EXCEPT !.pc = "react", !.thread = Len(threads) + n]
  <2>1. Becomes(r, l)
    BY <1>1, <1>5
  <2>2. /\ l.pc = "react" /\ l.date = run[r].date /\ l.ver = run[r].ver /\ l.todo = run[r].todo
        /\ l.problem = run[r].problem /\ l.mem = run[r].mem /\ l.thread = Len(threads) + n
    BY <1>2 DEF RunState
  <2>3. /\ run[r].pc # "savePosted" /\ run[r].pc \in SettledPcs /\ run[r].pc \in ProblemPcs
        /\ run[r].pc \in AnnouncedPcs /\ l.pc \in WorkingPcs
    BY <1>2, <2>2 DEF SettledPcs, ProblemPcs, AnnouncedPcs, WorkingPcs
  <2>4. /\ Current(r) \in Guilds /\ Record(r) \in GuildStateType
        /\ run[r].pc \in LoadedPcs /\ run[r].pc # "loadCache" /\ run[r].todo # <<>>
        /\ NotAfter(Record(r), run[r].date) /\ ~PostedOn(Record(r), run[r].date)
        /\ run[r].problem >= Record(r).next
        /\ run[r].ver = stateDoc.gen =>
             /\ MoveOK(Current(r), stateDoc.guilds[Current(r)], Record(r))
             /\ Record(r) = Base(Current(r), stateDoc.guilds[Current(r)])
    BY <1>2, <2>3, AtWork
  <2>5. l.mem[Current(r)] = Record(r) /\ \A h \in Guilds \ {Current(r)} : l.mem[h] = run[r].mem[h]
    BY <2>2 DEF Record
  <2>6. /\ Record(r).job.status = "posting" /\ Record(r).job.targetDate = run[r].date
        /\ Record(r).job.problem = l.problem
    BY <1>2, <2>2, <2>3 DEF Sound, Rec, Record, Current
  <2>7. /\ l.thread \in DOMAIN threads'
        /\ threads'[l.thread] = [guild |-> Current(r), date |-> run[r].date, number |-> l.problem]
    BY <1>1, <1>3, <1>5, <2>2
  <2>8. l.problem >= Record(r).next
    BY <2>2, <2>4
  <2> HIDE DEF l
  <2> QED
    BY <1>2, <1>3, <2>1, <2>2, <2>3, <2>4, <2>5, <2>6, <2>7, <2>8, MovedAmid
<1> QED
  BY <1>4, <1>5

LEMMA PostedMoved ==
  ASSUME TypeInv, LedgerInv, NEW r \in Runs, run[r].pc \in {"react", "notifyReaction"},
         Becomes(r, Posted(r)), UNCHANGED <<clock, stateDoc, threads>>
  PROVE  LedgerInv'
<1> DEFINE g   == Current(r)
           rec == Record(r)
           n   == run[r].problem
           new == RecordPosted(rec, run[r].date, n, run[r].attempt - 1, run[r].thread)
           l   == Posted(r)
<1>1. /\ Working(r) /\ run[r].pc # "savePosted" /\ run[r].pc \in SettledPcs
      /\ run[r].pc \in AnnouncedPcs /\ run[r].pc \in ThreadPcs
      /\ run[r] \in RunState /\ LocalOK(run[r]) /\ Sound(run[r]) /\ run[r].pc \in PostingPcs
  BY DEF Working, WorkingPcs, SettledPcs, AnnouncedPcs, ThreadPcs, TypeInv, LocalOK, LedgerInv,
         PostingPcs
<1>2. /\ g \in Guilds /\ rec \in GuildStateType /\ run[r].date \in Int /\ n \in Nat
      /\ run[r].thread \in Nat /\ run[r].attempt \in Nat /\ run[r].attempt >= 1
      /\ run[r].pc \in LoadedPcs /\ run[r].pc # "loadCache" /\ run[r].todo # <<>>
      /\ run[r].ver = stateDoc.gen => rec = Base(g, stateDoc.guilds[g])
  BY <1>1, AtWork DEF RunState, LocalOK
<1>3. /\ rec.job.targetDate = run[r].date /\ rec.job.status = "posting" /\ rec.job.problem = n
      /\ run[r].thread \in DOMAIN threads
      /\ threads[run[r].thread] = [guild |-> g, date |-> run[r].date, number |-> n]
  BY <1>1 DEF Sound, Rec, Record, Current
<1>4. /\ l.pc = "savePosted" /\ l.date = run[r].date /\ l.ver = run[r].ver /\ l.todo = run[r].todo
      /\ l.mem[g] = new /\ \A h \in Guilds \ {g} : l.mem[h] = run[r].mem[h]
  BY <1>1, <1>2 DEF Posted, RunState, GuildStates, Record
<1>a. PostedJob(run[r].date, n, run[r].attempt - 1) \in JobState
  BY <1>2 DEF PostedJob, JobState, JobStatus
<1>b. new \in GuildStateType
  BY <1>2, <1>a DEF RecordPosted, GuildStateType
<1>5. /\ new \in GuildStateType /\ new.next = n + 1 /\ new.thread = run[r].thread
      /\ new.job.targetDate = run[r].date /\ new.job.status = "posted" /\ new.job.problem = n
  BY <1>b DEF RecordPosted, PostedJob
<1> HIDE DEF l, new, rec, g, n
<1>6. Ledger!Moves(g, EntryBar(rec), EntryBar(new))
  BY <1>2, <1>3, <1>5, PostMoves
<1>7. run[r].ver = stateDoc.gen => MoveOK(g, stateDoc.guilds[g], new)
  BY <1>2, <1>5, <1>6, NilAssumption DEF MoveOK
<1>8. NotAfter(new, run[r].date)
  BY <1>2, <1>5 DEF NotAfter
<1>9. /\ l.pc \in WorkingPcs /\ l.pc \notin SettledPcs /\ l.pc \notin AnnouncedPcs
      /\ l.pc \notin ThreadPcs /\ l.pc \notin ProblemPcs
  BY <1>4 DEF WorkingPcs, SettledPcs, AnnouncedPcs, ThreadPcs, ProblemPcs
<1>10. Becomes(r, l)
  BY DEF l
<1> USE DEF g
<1> QED
  BY <1>1, <1>2, <1>4, <1>5, <1>7, <1>8, <1>9, <1>10, Moved

LEMMA PostingMoves ==
  ASSUME TypeInv, LedgerInv, NEW r \in Runs,
         EnsureTags(r) \/ CreateForumThread(r) \/ AddReaction(r) \/ NotifyReaction(r) \/ Wake(r)
  PROVE  LedgerInv'
<1>1. run[r] \in RunState
  BY DEF TypeInv, LocalOK
<1>2. CASE EnsureTags(r)
  <2>1. run[r].pc = "tags"
    BY <1>2 DEF EnsureTags
  <2>2. CASE Local(r, Announce(r, 1))
    BY <2>1, <2>2, AnnounceMoved
  <2>3. CASE Local(r, [run[r] EXCEPT !.pc = "saveRejected",
               !.mem[Current(r)].job = FailedJob(run[r].date, run[r].problem, MaxAttempts)])
    <3>1. Extended /\ UNCHANGED <<clock, stateDoc>> /\ MaxAttempts \in Nat
      BY <2>3, ConstantsAssumption DEF Extended, Local
    <3> QED
      BY <2>1, <2>3, <3>1, FailMoved DEF Local
  <2> QED
    BY <1>2, <2>2, <2>3 DEF EnsureTags
<1>3. CASE CreateForumThread(r)
  BY <1>3, CreateMoves
<1>4. CASE AddReaction(r)
  <2> DEFINE l == [run[r] EXCEPT !.pc = "notifyReaction"]
  <2>1. run[r].pc = "react" /\ UNCHANGED <<clock, stateDoc, threads>>
    BY <1>4 DEF AddReaction, Local
  <2>2. CASE Becomes(r, Posted(r))
    BY <2>1, <2>2, PostedMoved
  <2>3. CASE Becomes(r, l)
    <3>1. /\ l.pc = "notifyReaction" /\ l.date = run[r].date /\ l.ver = run[r].ver
          /\ l.todo = run[r].todo /\ l.mem = run[r].mem /\ l.problem = run[r].problem
          /\ l.thread = run[r].thread
      BY <1>1 DEF RunState
    <3>2. /\ Working(r) /\ run[r].pc # "savePosted" /\ l.pc \in WorkingPcs
          /\ run[r].pc \in SettledPcs /\ run[r].pc \in AnnouncedPcs /\ run[r].pc \in ThreadPcs
          /\ run[r].pc \in ProblemPcs
      BY <2>1, <3>1 DEF Working, WorkingPcs, SettledPcs, AnnouncedPcs, ThreadPcs, ProblemPcs
    <3>3. l.problem >= Record(r).next
      BY <3>1, <3>2, AtWork
    <3> HIDE DEF l
    <3> QED
      BY <2>1, <2>3, <3>1, <3>2, <3>3, PcMoved
  <2> QED
    BY <1>4, <2>2, <2>3 DEF AddReaction, Local
<1>5. CASE NotifyReaction(r)
  BY <1>5, PostedMoved DEF NotifyReaction
<1>6. CASE Wake(r)
  <2>1. run[r].attempt + 1 \in Nat \ {0}
    BY <1>1 DEF RunState
  <2> QED
    BY <1>6, <2>1, AnnounceMoved DEF Wake
<1> QED
  BY <1>2, <1>3, <1>4, <1>5, <1>6

-----------------------------------------------------------------------------
(* Saves.                                                                  *)

LEMMA SaveMoves ==
  ASSUME TypeInv, ExclInv, LedgerInv, NEW r \in Runs, NEW at \in WorkingPcs,
         NEW next \in RunState, SaveState(r, at, next), Sound(next), next.mem = run[r].mem,
         next.pc # "loadCache", next.pc \in SettledPcs => Rec(next) # Nil
  PROVE  LedgerInv'
<1>1. /\ Working(r) /\ run[r].pc \in LoadedPcs /\ run[r].pc # "loadCache" /\ run[r].todo # <<>>
      /\ UNCHANGED <<clock, threads>>
  BY LedgerPcs DEF SaveState, Working, WorkingPcs, TypeInv, LocalOK
<1>2. CASE Writes(r, next)
  <2> DEFINE l == [next EXCEPT !.ver = stateDoc.gen + 1]
  <2>1. /\ l.pc = next.pc /\ l.date = next.date /\ l.todo = next.todo /\ l.mem = next.mem
        /\ l.problem = next.problem /\ l.thread = next.thread
    BY DEF RunState
  <2>2. Becomes(r, l)
    BY <1>2 DEF Writes
  <2> HIDE DEF l
  <2>3. Sound(l) /\ Rec(l) = Rec(next)
    BY <2>1 DEF Sound, Rec, PostedOn, NotAfter
  <2> QED
    BY <1>1, <1>2, <2>1, <2>2, <2>3, Written DEF Writes
<1>3. CASE SaveErrors(r)
  <2> DEFINE l == GuildDone(r, TRUE)
  <2>1. Becomes(r, l)
    BY <1>3 DEF SaveErrors
  <2>2. CASE UNCHANGED stateDoc
    BY <1>1, <2>1, <2>2, DoneMoved
  <2>3. CASE run[r].ver = stateDoc.gen /\ stateDoc' = [gen |-> stateDoc.gen + 1, guilds |-> run[r].mem]
    <3>1. l.pc = "guild" /\ l.mem = run[r].mem /\ Sound(l)
      BY <1>1, DoneShape, DoneSound
    <3>2. l.pc # "loadCache" /\ l.pc \notin SettledPcs
      BY <3>1, LedgerPcs
    <3> HIDE DEF l
    <3> QED
      BY <1>1, <2>1, <2>3, <3>1, <3>2, Written
  <2> QED
    BY <1>3, <2>2, <2>3 DEF SaveErrors
<1> QED
  BY <1>2, <1>3 DEF SaveState

\* What is sound before a save is sound after it.
LEMMA SoundMoved ==
  ASSUME TypeInv, LedgerInv, NEW r \in Runs, Working(r), run[r].pc # "savePosted", NEW l,
         l.pc \in WorkingPcs, l.date = run[r].date, l.todo = run[r].todo, l.mem = run[r].mem,
         l.problem = run[r].problem, l.pc \in ProblemPcs => run[r].pc \in ProblemPcs,
         l.pc \in AnnouncedPcs => run[r].pc \in AnnouncedPcs, l.pc \notin ThreadPcs
  PROVE  Sound(l) /\ Rec(l) # Nil
<1>1. Sound(run[r]) /\ Rec(l) = Rec(run[r]) /\ Rec(l) = Record(r) /\ run[r].pc \in LoadedPcs
  BY LedgerPcs DEF LedgerInv, Rec, Record, Current, Working
<1>2. Rec(l) # Nil
  BY <1>1, AtWork, NilAssumption
<1> QED
  BY <1>1, <1>2 DEF Sound, Working

LEMMA SavesMove ==
  ASSUME TypeInv, ExclInv, LedgerInv, NEW r \in Runs,
         SaveRecovered(r) \/ SaveRejected(r) \/ SavePosting(r) \/ SavePosted(r) \/ SaveFailed(r)
  PROVE  LedgerInv'
<1>1. /\ run[r] \in RunState
      /\ run[r].pc \in {"saveRecovered", "saveRejected", "savePosting", "savePosted", "saveFailed"}
  BY DEF TypeInv, LocalOK, SaveRecovered, SaveRejected, SavePosting, SavePosted, SaveFailed, SaveState
<1>2. Working(r) /\ run[r].pc \in LoadedPcs /\ run[r].todo # <<>>
  BY <1>1, LedgerPcs DEF Working, WorkingPcs, TypeInv, LocalOK
<1>3. ASSUME NEW at \in WorkingPcs, NEW l \in RunState, SaveState(r, at, l), at # "savePosted",
             l.date = run[r].date, l.todo = run[r].todo, l.mem = run[r].mem,
             l.problem = run[r].problem, l.pc \in {"refresh", "notifyFailure", "create", "sleep"},
             l.pc = "create" => at = "savePosting", l.pc = "sleep" => at = "saveFailed"
      PROVE  LedgerInv'
  <2>1. run[r].pc = at
    BY <1>3 DEF SaveState
  <2>2. /\ l.pc \in WorkingPcs /\ l.pc \notin ThreadPcs /\ l.pc # "loadCache"
        /\ l.pc \in ProblemPcs => at \in ProblemPcs
        /\ l.pc \in AnnouncedPcs => at \in AnnouncedPcs
    BY <1>3 DEF WorkingPcs, ThreadPcs, ProblemPcs, AnnouncedPcs
  <2>3. Sound(l) /\ Rec(l) # Nil
    BY <1>2, <1>3, <2>1, <2>2, SoundMoved
  <2> QED
    BY <1>3, <2>2, <2>3, SaveMoves
<1>4. \A pc \in WorkingPcs :
        LET l == [run[r] EXCEPT !.pc = pc]
        IN  l \in RunState /\ l.pc = pc /\ l.date = run[r].date /\ l.todo = run[r].todo
            /\ l.mem = run[r].mem /\ l.problem = run[r].problem
  BY <1>1 DEF RunState, LivePcs
<1>5. CASE SaveRecovered(r)
  <2>1. "refresh" \in WorkingPcs /\ "saveRecovered" \in WorkingPcs
    BY DEF WorkingPcs
  <2> QED
    BY <1>3, <1>4, <1>5, <2>1 DEF SaveRecovered
<1>6. CASE SaveRejected(r)
  <2>1. "notifyFailure" \in WorkingPcs /\ "saveRejected" \in WorkingPcs
    BY DEF WorkingPcs
  <2> QED
    BY <1>3, <1>4, <1>6, <2>1 DEF SaveRejected
<1>7. CASE SavePosting(r)
  <2>1. "create" \in WorkingPcs /\ "savePosting" \in WorkingPcs
    BY DEF WorkingPcs
  <2> QED
    BY <1>3, <1>4, <1>7, <2>1 DEF SavePosting
<1>8. CASE SavePosted(r)
  <2> DEFINE l == GuildDone(r, FALSE)
  <2>1. l.pc = "guild" /\ l.mem = run[r].mem /\ Sound(l) /\ l \in RunState
    BY <1>2, DoneShape, DoneSound, GuildDoneOK DEF LocalOK
  <2>2. l.pc # "loadCache" /\ l.pc \notin SettledPcs /\ "savePosted" \in WorkingPcs
    BY <2>1, LedgerPcs DEF WorkingPcs
  <2>3. SaveState(r, "savePosted", l)
    BY <1>8 DEF SavePosted
  <2> HIDE DEF l
  <2> QED
    BY <2>1, <2>2, <2>3, SaveMoves
<1>9. CASE SaveFailed(r)
  <2>1. "notifyFailure" \in WorkingPcs /\ "saveFailed" \in WorkingPcs
    BY DEF WorkingPcs
  <2>2. CASE run[r].attempt < MaxAttempts
    <3> DEFINE l == [run[r] EXCEPT !.pc = "sleep", !.wake = clock + RetryInterval]
    <3>1. clock + RetryInterval \in Nat
      BY ConstantsAssumption DEF TypeInv, TypeOK
    <3>2. l \in RunState /\ l.pc = "sleep" /\ l.date = run[r].date /\ l.todo = run[r].todo
          /\ l.mem = run[r].mem /\ l.problem = run[r].problem
      BY <1>1, <3>1 DEF RunState, LivePcs, WorkingPcs
    <3>3. SaveState(r, "saveFailed", l)
      BY <1>9, <2>2 DEF SaveFailed
    <3> HIDE DEF l
    <3> QED
      BY <1>3, <2>1, <3>2, <3>3
  <2>3. CASE ~(run[r].attempt < MaxAttempts)
    <3>1. SaveState(r, "saveFailed", [run[r] EXCEPT !.pc = "notifyFailure"])
      BY <1>9, <2>3 DEF SaveFailed
    <3> QED
      BY <1>3, <1>4, <2>1, <3>1
  <2> QED
    BY <2>2, <2>3
<1> QED
  BY <1>5, <1>6, <1>7, <1>8, <1>9

-----------------------------------------------------------------------------
(* The invariant, and what each step does to the ledger.                   *)

LEMMA NextLedger == TypeInv /\ ExclInv /\ LedgerInv /\ [Next]_vars => LedgerInv'
<1> SUFFICES ASSUME TypeInv, ExclInv, LedgerInv, [Next]_vars PROVE LedgerInv'
  OBVIOUS
<1>1. CASE UNCHANGED vars
  <2>1. UNCHANGED <<clock, stateDoc, threads, run>> /\ Extended
    BY <1>1 DEF vars, Extended
  <2>2. ASSUME NEW q \in Runs
        PROVE  Sound(run[q])' /\ Fresh(run[q])'
    <3>1. Sound(run[q]) /\ Fresh(run[q])
      BY DEF LedgerInv
    <3>2. Sound(run[q])'
      BY <2>1, <3>1 DEF Sound, PostedOn, NotAfter, Rec
    <3>3. \A h : MoveOK(h, stateDoc.guilds[h], run[q].mem[h]) => MoveOK(h, stateDoc.guilds[h], run[q].mem[h])'
      <4> TAKE h
      <4>1. \A e, f : MoveOK(h, e, f) => MoveOK(h, e, f)'
        BY <2>1, MovesStay
      <4>2. stateDoc'.guilds[h] = stateDoc.guilds[h] /\ run'[q].mem[h] = run[q].mem[h]
        BY <2>1
      <4> QED
        BY <4>1, <4>2
    <3> QED
      BY <2>1, <3>1, <3>2, <3>3 DEF Fresh, Rec, Base
  <2> QED
    BY <2>1, <2>2 DEF LedgerInv, StoreDates, NotAfter, DateOf
<1>2. CASE Tick
  BY <1>2, TickMoves
<1>3. ASSUME NEW r \in Runs, Start(r) \/ Step(r) \/ Crash(r) \/ Timeout(r)
      PROVE  LedgerInv'
  <2>1. CASE Start(r) \/ LoadState(r) \/ LoadProblemCache(r) \/ LoadFails(r) \/ Return(r) \/ Kill(r)
    BY <2>1, LoadMoves
  <2>2. CASE SkipGuild(r) \/ TakeOverStale(r) \/ BeginGuild(r)
    BY <2>2, GuildMoves
  <2>3. CASE CacheSuffices(r) \/ RefillCache(r) \/ RefillFails(r) \/ SaveProblemCache(r) \/ SelectNext(r)
    BY <2>3, CacheMoves
  <2>4. CASE EnsureTags(r) \/ CreateForumThread(r) \/ AddReaction(r) \/ NotifyReaction(r) \/ Wake(r)
    BY <2>4, PostingMoves
  <2>5. CASE SaveRecovered(r) \/ SaveRejected(r) \/ SavePosting(r) \/ SavePosted(r) \/ SaveFailed(r)
    BY <2>5, SavesMove
  <2>6. CASE NotifyFailure(r) \/ NotifyStaleCache(r)
    BY <2>6, NotifyMoves
  <2> QED
    BY <1>3, <2>1, <2>2, <2>3, <2>4, <2>5, <2>6 DEF Step, Crash, Timeout
<1> QED
  BY <1>1, <1>2, <1>3 DEF Next

LEMMA LedgerInvariant == Spec => [](TypeInv /\ ExclInv /\ LedgerInv)
BY InitType, NextType, InitExclusion, NextExclusion, InitLedger, NextLedger, PTL DEF Spec

LEMMA EntryBarType ==
  ASSUME NEW e \in GuildStateType
  PROVE  EntryBar(e) \in Ledger!Entry /\ EntryBar(e) # Nil
<1>1. EntryBar(e) \in Ledger!Entry
  BY DEF EntryBar, Ledger!Entry, GuildStateType, JobState, JobStatus
<1> QED
  BY <1>1, EntryAssumption

LEMMA EntryOfBase ==
  ASSUME TypeInv, NEW g \in Guilds
  PROVE  Ledger!EntryOf(g) = EntryBar(Base(g, stateDoc.guilds[g]))
<1>1. stateDoc.guilds[g] = Nil \/ stateDoc.guilds[g] \in GuildStateType
  BY DEF TypeInv, TypeOK, GuildStates
<1>2. CASE stateDoc.guilds[g] = Nil
  BY <1>2 DEF Ledger!EntryOf, ledgerBar, Base, EntryBar, DefaultGuildState, IdleJob
<1>3. CASE stateDoc.guilds[g] \in GuildStateType
  <2>1. stateDoc.guilds[g] # Nil /\ EntryBar(stateDoc.guilds[g]) # Nil
    BY <1>3, EntryBarType, NilAssumption
  <2> QED
    BY <2>1 DEF Ledger!EntryOf, ledgerBar, Base
<1> QED
  BY <1>1, <1>2, <1>3

LEMMA WriteKept ==
  ASSUME TypeInv, LedgerInv, NEW r \in Runs, Working(r), run[r].ver = stateDoc.gen,
         stateDoc' = [gen |-> stateDoc.gen + 1, guilds |-> run[r].mem], UNCHANGED threads
  PROVE  Ledger!Write
<1>1. Fresh(run[r]) /\ run[r].pc \in LoadedPcs /\ run[r].mem \in GuildStates
  BY LedgerPcs DEF LedgerInv, Working, TypeInv, LocalOK, RunState
<1>2. ASSUME NEW g \in Guilds
      PROVE  \/ ledgerBar'[g] = ledgerBar[g]
             \/ ledgerBar'[g] # Nil /\ Ledger!Moves(g, Ledger!EntryOf(g), ledgerBar'[g])
  <2> DEFINE e == stateDoc.guilds[g]
             f == run[r].mem[g]
  <2>1. /\ ledgerBar[g] = IF e = Nil THEN Nil ELSE EntryBar(e)
        /\ ledgerBar'[g] = IF f = Nil THEN Nil ELSE EntryBar(f)
    BY DEF ledgerBar, EntryBar
  <2>2. MoveOK(g, e, f)
    BY <1>1 DEF Fresh
  <2>3. CASE f = e
    BY <2>1, <2>3
  <2>4. CASE f # Nil /\ Ledger!Moves(g, EntryBar(Base(g, e)), EntryBar(f))
    <3>1. f \in GuildStateType
      BY <1>1, <2>4 DEF GuildStates
    <3>2. EntryBar(f) # Nil
      BY <3>1, EntryBarType
    <3> QED
      BY <2>1, <2>4, <3>2, EntryOfBase
  <2> QED
    BY <2>2, <2>3, <2>4 DEF MoveOK
<1> QED
  BY <1>2 DEF Ledger!Write

LEMMA CreateKept ==
  ASSUME TypeInv, ExclInv, NEW r \in Runs, CreateForumThread(r)
  PROVE  [Ledger!Publish]_<<ledgerBar, threads>>
<1>1. PICK n \in 0 .. MaxCopies : threads' = threads \o NewThreads(r, n)
  BY DEF CreateForumThread
<1>2. run[r].pc = "create" /\ UNCHANGED stateDoc /\ n \in Nat /\ Working(r) /\ run[r].pc \in InFlightPcs
  BY ConstantsAssumption DEF CreateForumThread, Working, WorkingPcs, InFlightPcs
<1>3. UNCHANGED ledgerBar
  BY <1>2 DEF ledgerBar, EntryBar
<1> DEFINE g == Current(r)
<1>4. g \in Guilds
  BY <1>2, RecordType DEF TypeInv, LocalOK, Working
<1>5. CASE n = 0
  <2>1. NewThreads(r, n) = <<>> /\ threads \in Seq(Thread)
    BY <1>5 DEF NewThreads, TypeInv, TypeOK
  <2>2. threads' = threads
    BY <1>1, <2>1
  <2> QED
    BY <1>3, <2>2
<1>6. CASE n \in 1 .. MaxCopies
  <2>1. stateDoc.guilds[g] # Nil /\ Announces(run[r], stateDoc.guilds[g].job)
    BY <1>2 DEF ExclInv, RunSafe, Current
  <2>2. ledgerBar[g] = EntryBar(stateDoc.guilds[g])
    BY <1>4, <2>1 DEF ledgerBar
  <2>3. EntryBar(stateDoc.guilds[g]) # Nil
    BY <1>4, <2>1, EntryBarType DEF TypeInv, TypeOK, GuildStates
  <2>4. /\ ledgerBar[g].status = "posting" /\ ledgerBar[g].date = run[r].date
        /\ ledgerBar[g].problem = run[r].problem
    BY <2>1, <2>2 DEF EntryBar, Announces, PostingJob
  <2>5. NewThreads(r, n) = [i \in 1 .. n |-> [guild  |-> g,
                                              date   |-> ledgerBar[g].date,
                                              number |-> ledgerBar[g].problem]]
    BY <2>4 DEF NewThreads
  <2> QED
    BY <1>1, <1>3, <1>4, <1>6, <2>2, <2>3, <2>4, <2>5 DEF Ledger!Publish
<1> QED
  BY <1>2, <1>5, <1>6

LEMMA StepKept ==
  TypeInv /\ ExclInv /\ LedgerInv /\ [Next]_vars => [Ledger!Next]_<<ledgerBar, threads>>
<1> SUFFICES ASSUME TypeInv, ExclInv, LedgerInv, [Next]_vars
             PROVE  [Ledger!Next]_<<ledgerBar, threads>>
  OBVIOUS
<1>1. ASSUME UNCHANGED <<stateDoc, threads>>
      PROVE  [Ledger!Next]_<<ledgerBar, threads>>
  BY <1>1 DEF ledgerBar, EntryBar
<1>2. ASSUME NEW r \in Runs, NEW at \in WorkingPcs, NEW next, SaveState(r, at, next)
      PROVE  [Ledger!Next]_<<ledgerBar, threads>>
  <2>1. UNCHANGED threads /\ Working(r)
    BY <1>2 DEF SaveState, Working
  <2>2. CASE UNCHANGED stateDoc
    BY <1>1, <2>1, <2>2
  <2>3. CASE run[r].ver = stateDoc.gen /\ stateDoc' = [gen |-> stateDoc.gen + 1, guilds |-> run[r].mem]
    BY <2>1, <2>3, WriteKept DEF Ledger!Next
  <2> QED
    BY <1>2, <2>2, <2>3 DEF SaveState, Writes, SaveErrors
<1>3. ASSUME NEW r \in Runs, Step(r)
      PROVE  [Ledger!Next]_<<ledgerBar, threads>>
  <2>1. CASE LoadState(r) \/ LoadProblemCache(r) \/ LoadFails(r) \/ SkipGuild(r) \/ TakeOverStale(r)
               \/ BeginGuild(r) \/ Return(r)
    BY <1>1, <2>1 DEF LoadState, LoadProblemCache, LoadFails, SkipGuild, TakeOverStale, BeginGuild,
                      Return, Local
  <2>2. CASE CacheSuffices(r) \/ RefillCache(r) \/ RefillFails(r) \/ SaveProblemCache(r) \/ SelectNext(r)
    BY <1>1, <2>2 DEF CacheSuffices, RefillCache, RefillFails, SaveProblemCache, SelectNext, Local
  <2>3. CASE EnsureTags(r) \/ AddReaction(r) \/ Wake(r)
    BY <1>1, <2>3 DEF EnsureTags, AddReaction, Wake, Local
  <2>4. CASE NotifyFailure(r) \/ NotifyStaleCache(r) \/ NotifyReaction(r)
    BY <1>1, <2>4 DEF NotifyFailure, NotifyStaleCache, NotifyReaction
  <2>5. CASE CreateForumThread(r)
    BY <2>5, CreateKept DEF Ledger!Next
  <2>6. CASE SaveRecovered(r) \/ SaveRejected(r) \/ SavePosting(r) \/ SavePosted(r) \/ SaveFailed(r)
    <3>1. {"saveRecovered", "saveRejected", "savePosting", "savePosted", "saveFailed"} \subseteq WorkingPcs
      BY DEF WorkingPcs
    <3> QED
      BY <1>2, <2>6, <3>1 DEF SaveRecovered, SaveRejected, SavePosting, SavePosted, SaveFailed
  <2> QED
    BY <1>3, <2>1, <2>2, <2>3, <2>4, <2>5, <2>6 DEF Step
<1>4. CASE Tick \/ UNCHANGED vars \/ \E r \in Runs : Start(r) \/ Crash(r) \/ Timeout(r)
  BY <1>1, <1>4 DEF vars, Tick, Start, Crash, Timeout, Kill, Local
<1> QED
  BY <1>3, <1>4 DEF Next

LEMMA InitKept == Init => Ledger!Init
BY DEF Init, NoGuilds, Ledger!Init, ledgerBar

(* The daily job keeps the ledger, for any number of runs and guilds and   *)
(* every fault: a save may move a record only as the run's own calls       *)
(* allow, because its version shows that the copy it changed is the        *)
(* store's, and a thread appears only under the announcement in the store. *)
THEOREM Refinement == Spec => ImplementsDailyLedger
BY InitKept, StepKept, LedgerInvariant, PTL DEF Spec, ImplementsDailyLedger, Ledger!Spec

-----------------------------------------------------------------------------
(* What a reader of state.json concludes from the ledger.                  *)

\* The element of a concatenation beyond its first part.
LEMMA AppendedTail ==
  ASSUME NEW S, NEW s \in Seq(S), NEW u \in Seq(S), NEW i \in DOMAIN (s \o u) \ DOMAIN s
  PROVE  i - Len(s) \in DOMAIN u /\ (s \o u)[i] = u[i - Len(s)]
<1>1. i \in 1 .. Len(s) + Len(u) /\ i \notin 1 .. Len(s) /\ Len(s) \in Nat /\ Len(u) \in Nat
  BY Appended
<1> QED
  BY <1>1

LEMMA StatusBar ==
  ASSUME TypeInv, NEW g \in Guilds, stateDoc.guilds[g] # Nil
  PROVE  /\ stateDoc.guilds[g] \in GuildStateType /\ ledgerBar[g] = EntryBar(stateDoc.guilds[g])
         /\ ledgerBar[g] # Nil /\ Ledger!EntryOf(g) = ledgerBar[g]
<1>1. stateDoc.guilds[g] \in GuildStateType /\ ledgerBar[g] = EntryBar(stateDoc.guilds[g])
  BY DEF TypeInv, TypeOK, GuildStates, ledgerBar
<1> QED
  BY <1>1, EntryBarType DEF Ledger!EntryOf

(* A day that is recorded as posted gets no further thread: a thread       *)
(* appears only while the record says posting.                             *)
THEOREM ClosedDays == Spec => NoThreadAfterPosted
<1> DEFINE Kept == \A g \in Guilds : \A i \in DOMAIN threads' \ DOMAIN threads :
                     threads'[i].guild = g => ~PostedFor(stateDoc.guilds[g], threads'[i].date)
<1>1. TypeInv /\ ExclInv /\ LedgerInv /\ [Next]_vars => Kept
  <2> SUFFICES ASSUME TypeInv, ExclInv, LedgerInv, [Next]_vars,
                      NEW g \in Guilds, NEW i \in DOMAIN threads' \ DOMAIN threads, threads'[i].guild = g
               PROVE  ~PostedFor(stateDoc.guilds[g], threads'[i].date)
    OBVIOUS
  <2>1. Ledger!Publish
    BY StepKept DEF Ledger!Next, Ledger!Write
  <2>2. PICK h \in Guilds, n \in 1 .. MaxCopies :
          /\ ledgerBar[h] # Nil /\ ledgerBar[h].status = "posting"
          /\ threads' = threads \o [k \in 1 .. n |-> [guild |-> h, date |-> ledgerBar[h].date,
                                                      number |-> ledgerBar[h].problem]]
    BY <2>1 DEF Ledger!Publish
  <2> DEFINE new == [guild |-> h, date |-> ledgerBar[h].date, number |-> ledgerBar[h].problem]
             u   == [k \in 1 .. n |-> new]
  <2>3. threads \in Seq(Thread \cup {new}) /\ u \in Seq(Thread \cup {new}) /\ DOMAIN u = 1 .. n
    BY DEF TypeInv, TypeOK
  <2>4. threads'[i] = u[i - Len(threads)] /\ i - Len(threads) \in DOMAIN u
    BY <2>2, <2>3, AppendedTail
  <2>5. h = g
    BY <2>3, <2>4
  <2>6. stateDoc.guilds[g] # Nil /\ ledgerBar[g] = EntryBar(stateDoc.guilds[g])
    BY <2>2, <2>5 DEF ledgerBar
  <2> QED
    BY <2>2, <2>5, <2>6 DEF PostedFor, EntryBar
<1>2. TypeInv /\ ExclInv /\ LedgerInv /\ [Next]_vars => [Kept]_vars
  BY <1>1
<1> QED
  BY <1>2, LedgerInvariant, PTL DEF Spec, NoThreadAfterPosted

\* What is announced is not done, and every job that was begun has its day.
Ahead(rec) ==
  /\ rec.job.status = "posting" => rec.job.problem \in Nat /\ rec.job.problem >= rec.next
  /\ rec.job.status # "idle" => rec.job.targetDate # Nil

StoreAhead == \A g \in Guilds : stateDoc.guilds[g] # Nil => Ahead(stateDoc.guilds[g])

\* How one step moves a record.
LEMMA RecordMoves ==
  ASSUME TypeInv, TypeInv', ExclInv, LedgerInv, [Next]_vars, NEW g \in Guilds
  PROVE  \/ ledgerBar'[g] = ledgerBar[g]
         \/ stateDoc'.guilds[g] # Nil /\ ledgerBar'[g] = EntryBar(stateDoc'.guilds[g])
            /\ Ledger!Moves(g, Ledger!EntryOf(g), EntryBar(stateDoc'.guilds[g]))
<1>1. [Ledger!Next]_<<ledgerBar, threads>>
  BY StepKept
<1>2. \/ ledgerBar'[g] = ledgerBar[g]
      \/ ledgerBar'[g] # Nil /\ Ledger!Moves(g, Ledger!EntryOf(g), ledgerBar'[g])
  BY <1>1 DEF Ledger!Next, Ledger!Write, Ledger!Publish
<1>3. ledgerBar'[g] = IF stateDoc'.guilds[g] = Nil THEN Nil ELSE EntryBar(stateDoc'.guilds[g])
  BY DEF ledgerBar, EntryBar
<1> QED
  BY <1>2, <1>3

LEMMA SameBar ==
  ASSUME TypeInv, TypeInv', NEW g \in Guilds, ledgerBar'[g] = ledgerBar[g]
  PROVE  /\ (stateDoc'.guilds[g] = Nil) <=> (stateDoc.guilds[g] = Nil)
         /\ stateDoc.guilds[g] # Nil => EntryBar(stateDoc'.guilds[g]) = EntryBar(stateDoc.guilds[g])
<1>1. stateDoc'.guilds[g] \in GuildStateType \cup {Nil} /\ stateDoc.guilds[g] \in GuildStateType \cup {Nil}
  BY DEF TypeInv, TypeOK, GuildStates
<1>2. ledgerBar'[g] = IF stateDoc'.guilds[g] = Nil THEN Nil ELSE EntryBar(stateDoc'.guilds[g])
  BY DEF ledgerBar, EntryBar
<1>3. ledgerBar[g] = IF stateDoc.guilds[g] = Nil THEN Nil ELSE EntryBar(stateDoc.guilds[g])
  BY DEF ledgerBar
<1> QED
  BY <1>1, <1>2, <1>3, EntryBarType

LEMMA NextAhead ==
  TypeInv /\ TypeInv' /\ ExclInv /\ LedgerInv /\ StoreAhead /\ [Next]_vars => StoreAhead'
<1> SUFFICES ASSUME TypeInv, TypeInv', ExclInv, LedgerInv, StoreAhead, [Next]_vars,
                    NEW g \in Guilds, stateDoc'.guilds[g] # Nil
             PROVE  Ahead(stateDoc'.guilds[g])
  BY DEF StoreAhead, Ahead
<1> DEFINE e == stateDoc.guilds[g]
           f == stateDoc'.guilds[g]
<1>1. f \in GuildStateType
  BY DEF TypeInv, TypeOK, GuildStates
<1>2. ASSUME EntryBar(f) = EntryBar(e), e # Nil
      PROVE  Ahead(f)
  BY <1>2 DEF StoreAhead, Ahead, EntryBar
<1>3. CASE ledgerBar'[g] = ledgerBar[g]
  BY <1>2, <1>3, SameBar
<1>4. CASE Ledger!Moves(g, Ledger!EntryOf(g), EntryBar(f))
  <2>1. CASE EntryBar(f) = Ledger!EntryOf(g)
    <3>1. CASE e = Nil
      BY <2>1, <3>1 DEF Ledger!EntryOf, ledgerBar, EntryBar, Ahead
    <3>2. CASE e # Nil
      BY <1>2, <2>1, <3>2, StatusBar
    <3> QED
      BY <3>1, <3>2
  <2>2. CASE Ledger!Announces(Ledger!EntryOf(g), EntryBar(f))
    BY <1>1, <2>2 DEF Ledger!Announces, Ledger!JobMoves, EntryBar, GuildStateType, JobState, Ahead
  <2>3. CASE Ledger!GivesUp(Ledger!EntryOf(g), EntryBar(f)) \/ Ledger!TakesOver(Ledger!EntryOf(g), EntryBar(f))
    BY <2>3 DEF Ledger!GivesUp, Ledger!TakesOver, Ledger!JobMoves, EntryBar, Ahead
  <2>4. CASE Ledger!Closes(g, Ledger!EntryOf(g), EntryBar(f))
    <3>1. e # Nil
      BY <2>4 DEF Ledger!Closes, Ledger!EntryOf, ledgerBar
    <3>2. Ledger!EntryOf(g) = EntryBar(e) /\ Ahead(e)
      BY <3>1, StatusBar DEF StoreAhead
    <3> QED
      BY <2>4, <3>2 DEF Ledger!Closes, EntryBar, Ahead
  <2> QED
    BY <1>4, <2>1, <2>2, <2>3, <2>4 DEF Ledger!Moves
<1> QED
  BY <1>3, <1>4, RecordMoves

(* Progress is never lost, by whatever run and whatever fails: an entry of *)
(* the ledger is only moved forwards.                                      *)
THEOREM Progress == Spec => ProgressIsKept
<1> DEFINE Kept == \A g \in Guilds : stateDoc.guilds[g] # Nil =>
                     LET old == stateDoc.guilds[g]
                         new == stateDoc'.guilds[g] IN
                     /\ new # Nil
                     /\ new.next >= old.next
                     /\ old.job.status = "posted" =>
                          PostedFor(new, old.job.targetDate) \/ new.job.targetDate > old.job.targetDate
<1>1. TypeInv /\ TypeInv' /\ ExclInv /\ LedgerInv /\ StoreAhead /\ [Next]_vars => Kept
  <2> SUFFICES ASSUME TypeInv, TypeInv', ExclInv, LedgerInv, StoreAhead, [Next]_vars,
                      NEW g \in Guilds, stateDoc.guilds[g] # Nil
               PROVE  LET old == stateDoc.guilds[g]
                          new == stateDoc'.guilds[g] IN
                      /\ new # Nil
                      /\ new.next >= old.next
                      /\ old.job.status = "posted" =>
                           PostedFor(new, old.job.targetDate) \/ new.job.targetDate > old.job.targetDate
    OBVIOUS
  <2> DEFINE e == stateDoc.guilds[g]
             f == stateDoc'.guilds[g]
  <2>1. e \in GuildStateType /\ (f # Nil => f \in GuildStateType)
    BY DEF TypeInv, TypeOK, GuildStates
  <2>2. f # Nil /\ (EntryBar(f) = EntryBar(e) \/ Ledger!Moves(g, EntryBar(e), EntryBar(f)))
    BY RecordMoves, SameBar, StatusBar
  <2>3. CASE EntryBar(f) = EntryBar(e)
    BY <2>1, <2>2, <2>3 DEF EntryBar, PostedFor, GuildStateType
  <2>6. Ahead(e)
    BY DEF StoreAhead
  <2>4. CASE Ledger!JobMoves(EntryBar(e), EntryBar(f))
    <3>1. f.job.targetDate # Nil /\ f.next = e.next /\ ~Ledger!Closed(EntryBar(e), f.job.targetDate)
      BY <2>4 DEF Ledger!JobMoves, EntryBar
    <3>2. e.job.status = "posted" =>
            e.job.targetDate # Nil /\ ~(f.job.targetDate < e.job.targetDate)
            /\ f.job.targetDate # e.job.targetDate
      BY <2>6, <3>1 DEF Ledger!Closed, EntryBar, Ahead
    <3>3. e.job.targetDate \in Int \cup {Nil} /\ f.job.targetDate \in Int \cup {Nil} /\ e.next \in Nat
      BY <2>1, <2>2 DEF GuildStateType, JobState
    <3> HIDE DEF e, f
    <3>4. e.job.status = "posted" => f.job.targetDate > e.job.targetDate
      BY <3>1, <3>2, <3>3
    <3>5. f.next >= e.next
      BY <3>1, <3>3
    <3> QED
      BY <2>2, <3>4, <3>5 DEF e, f
  <2>5. CASE Ledger!Closes(g, EntryBar(e), EntryBar(f))
    <3>1. e.job.status = "posting" /\ f.next = e.job.problem + 1 /\ f.job.status = "posted"
      BY <2>5 DEF Ledger!Closes, EntryBar
    <3>2. f.next >= e.next
      BY <2>1, <2>6, <3>1 DEF Ahead, GuildStateType
    <3> QED
      BY <2>2, <3>1, <3>2
  <2> QED
    BY <2>2, <2>3, <2>4, <2>5 DEF Ledger!Moves, Ledger!Announces, Ledger!GivesUp, Ledger!TakesOver
<1>2. TypeInv /\ TypeInv' /\ ExclInv /\ LedgerInv /\ StoreAhead /\ [Next]_vars => [Kept]_vars
  BY <1>1
<1>3. Init => StoreAhead
  BY DEF Init, NoGuilds, StoreAhead
<1> QED
  BY <1>2, <1>3, NextAhead, LedgerInvariant, PTL DEF Spec, ProgressIsKept

-----------------------------------------------------------------------------
(* No duplicates.  With one guild, and where no save fails, no answer of   *)
(* Discord is lost, no run dies and a call takes no time, a run records    *)
(* every thread it has created before anybody else posts.                  *)

\* The attempts of one posting fit into the platform's time limit.
RetriesFit == (MaxAttempts - 1) * RetryInterval < RunTimeout

Calm ==
  /\ SingleGuild /\ RetriesFit
  /\ Faults \cap {"save", "lostSave", "lostThread", "crash", "slow"} = {}

TryingPcs == {"savePosting", "create", "react", "notifyReaction", "savePosted", "saveFailed"}

\* The calls before the first attempt.
EarlyPcs == {"loadState", "loadCache", "guild", "saveRecovered", "refresh", "saveCache",
             "notifyStale", "select", "tags", "saveRejected"}

Delay(k) == k * RetryInterval

\* Only the waits between two attempts take time.
InTime(l) ==
  /\ l.pc \in LivePcs => clock <= l.born + Delay(MaxAttempts - 1)
  /\ l.pc \in EarlyPcs /\ (l.pc = "guild" => l.todo # <<>>) => clock = l.born
  /\ l.pc \in TryingPcs => l.attempt <= MaxAttempts /\ clock <= l.born + Delay(l.attempt - 1)
  /\ l.pc = "sleep" => /\ l.attempt < MaxAttempts
                       /\ l.wake <= l.born + Delay(l.attempt)
                       /\ clock <= l.wake

TimeInv == \A r \in Runs : InTime(run[r])

\* The control flow of a run, with what the passage of time depends on.
FlowStep(r) ==
  LET k == run[r]
      l == run'[r]
  IN
  /\ UNCHANGED clock /\ \A q \in Runs \ {r} : run'[q] = run[q]
  /\ \/ l.pc \notin LivePcs
     \/ l.pc = "loadState" /\ l.born = clock
     \/ /\ k.pc \in LivePcs /\ l.born = k.born
        /\ \/ l.pc = "guild" /\ k.todo # <<>> /\ l.todo = Tail(k.todo)
           \/ l.pc = "notifyFailure"
           \/ k.pc \in EarlyPcs /\ (k.pc = "guild" => k.todo # <<>>) /\ l.pc \in EarlyPcs
           \/ k.pc \in EarlyPcs \ {"guild"} /\ l.pc = "savePosting" /\ l.attempt = 1
           \/ k.pc = "sleep" /\ l.pc = "savePosting" /\ l.attempt = k.attempt + 1
           \/ /\ k.pc = "saveFailed" /\ l.pc = "sleep" /\ k.attempt < MaxAttempts
              /\ l.attempt = k.attempt /\ l.wake = clock + RetryInterval
           \/ k.pc \in TryingPcs /\ l.pc \in TryingPcs \ {"savePosted"} /\ l.attempt = k.attempt
           \/ k.pc \in ThreadPcs /\ l = Posted(r)

LEMMA FlowPcs ==
  /\ LivePcs = EarlyPcs \cup TryingPcs \cup {"sleep", "notifyFailure"}
  /\ EarlyPcs \cap (TryingPcs \cup {"sleep", "notifyFailure"}) = {}
  /\ ThreadPcs \subseteq TryingPcs /\ InFlightPcs \subseteq TryingPcs
  /\ "sleep" \notin TryingPcs /\ "notifyFailure" \notin TryingPcs
BY DEF LivePcs, WorkingPcs, EarlyPcs, TryingPcs, ThreadPcs, InFlightPcs

LEMMA DoneFlow ==
  ASSUME TypeInv, NEW r \in Runs, NEW failed \in BOOLEAN, run[r].todo # <<>>, run[r].pc \in LivePcs,
         Becomes(r, GuildDone(r, failed)), UNCHANGED clock
  PROVE  FlowStep(r)
<1>1. run[r] \in RunState
  BY DEF TypeInv, LocalOK
<1>2. /\ GuildDone(r, failed).pc = "guild" /\ GuildDone(r, failed).todo = Tail(run[r].todo)
      /\ GuildDone(r, failed).born = run[r].born
  BY <1>1 DEF GuildDone, RunState
<1> QED
  BY <1>2, BecomesRun DEF FlowStep

\* A step between two calls before the first attempt.
LEMMA EarlyFlow ==
  ASSUME TypeInv, NEW r \in Runs, NEW l, Becomes(r, l), UNCHANGED clock,
         run[r].pc \in EarlyPcs, run[r].pc = "guild" => run[r].todo # <<>>,
         l.pc \in EarlyPcs \cup {"notifyFailure"}, l.born = run[r].born
  PROVE  FlowStep(r)
BY BecomesRun, FlowPcs DEF FlowStep

LEMMA LoadFlow ==
  ASSUME TypeInv, NEW r \in Runs,
         \/ Start(r) \/ LoadState(r) \/ LoadProblemCache(r) \/ LoadFails(r) \/ Return(r)
         \/ SkipGuild(r) \/ TakeOverStale(r) \/ BeginGuild(r)
  PROVE  FlowStep(r)
<1>1. run[r] \in RunState
  BY DEF TypeInv, LocalOK
<1>2. CASE Local(r, Ended(r, "done"))
  <2>1. Ended(r, "done").pc = "done" /\ "done" \notin LivePcs
    BY DEF Ended, NewRun, LivePcs, WorkingPcs
  <2> QED
    BY <1>2, <2>1, BecomesRun DEF Local, FlowStep
<1>3. CASE Start(r)
  <2> DEFINE l == [run[r] EXCEPT !.pc = "loadState", !.born = clock, !.date = DateOf(clock)]
  <2>1. l.pc = "loadState" /\ l.born = clock
    BY <1>1 DEF RunState
  <2> QED
    BY <1>3, <2>1, BecomesRun DEF Start, Local, FlowStep
<1>4. CASE LoadState(r) \/ LoadProblemCache(r)
  BY <1>1, <1>4, EarlyFlow DEF LoadState, LoadProblemCache, Local, RunState, EarlyPcs
<1>5. CASE SkipGuild(r)
  BY <1>5, DoneFlow DEF SkipGuild, Local, LivePcs
<1>6. CASE TakeOverStale(r) \/ BeginGuild(r)
  BY <1>1, <1>6, EarlyFlow DEF TakeOverStale, BeginGuild, Local, RunState, EarlyPcs
<1> QED
  BY <1>2, <1>3, <1>4, <1>5, <1>6 DEF LoadFails, Return

LEMMA CacheFlow ==
  ASSUME TypeInv, NEW r \in Runs,
         \/ CacheSuffices(r) \/ RefillCache(r) \/ RefillFails(r) \/ SaveProblemCache(r)
         \/ SelectNext(r) \/ NotifyFailure(r) \/ NotifyStaleCache(r)
  PROVE  FlowStep(r)
<1>1. /\ run[r] \in RunState /\ run[r].todo # <<>> /\ UNCHANGED clock
      /\ run[r].pc \in {"refresh", "saveCache", "select", "notifyStale", "notifyFailure"}
      /\ run[r].pc \in LivePcs
  BY DEF TypeInv, LocalOK, LivePcs, WorkingPcs, CacheSuffices, RefillCache, RefillFails,
         SaveProblemCache, SelectNext, NotifyFailure, NotifyStaleCache, Local
<1>2. CASE Becomes(r, GuildDone(r, TRUE))
  BY <1>1, <1>2, DoneFlow
<1>3. ASSUME NEW pc \in {"select", "notifyStale", "notifyFailure"}, run[r].pc # "notifyFailure",
             Becomes(r, [run[r] EXCEPT !.pc = pc])
      PROVE  FlowStep(r)
  BY <1>1, <1>3, EarlyFlow DEF RunState, EarlyPcs
<1>4. CASE RefillCache(r)
  BY <1>1, <1>4, EarlyFlow DEF RefillCache, Local, RunState, EarlyPcs
<1>5. CASE SaveProblemCache(r)
  <2>1. ASSUME NEW n, Becomes(r, [run[r] EXCEPT !.pc = "select", !.cacheVer = n])
        PROVE  FlowStep(r)
    BY <1>1, <1>5, <2>1, EarlyFlow DEF RunState, EarlyPcs, SaveProblemCache
  <2> QED
    BY <1>2, <1>5, <2>1 DEF SaveProblemCache
<1>6. CASE SelectNext(r)
  <2>1. ASSUME NEW n, Becomes(r, [run[r] EXCEPT !.pc = "tags", !.problem = n])
        PROVE  FlowStep(r)
    BY <1>1, <1>6, <2>1, EarlyFlow DEF RunState, EarlyPcs, SelectNext
  <2> QED
    BY <1>3, <1>6, <2>1 DEF SelectNext, Local
<1>7. CASE CacheSuffices(r) \/ RefillFails(r) \/ NotifyFailure(r) \/ NotifyStaleCache(r)
  BY <1>2, <1>3, <1>7 DEF CacheSuffices, RefillFails, NotifyFailure, NotifyStaleCache, Local
<1> QED
  BY <1>4, <1>5, <1>6, <1>7

LEMMA PostFlow ==
  ASSUME TypeInv, NEW r \in Runs,
         EnsureTags(r) \/ CreateForumThread(r) \/ AddReaction(r) \/ Wake(r) \/ NotifyReaction(r)
  PROVE  FlowStep(r)
<1>1. run[r] \in RunState /\ UNCHANGED clock /\ run[r].pc \in LivePcs
  BY DEF TypeInv, LocalOK, LivePcs, WorkingPcs, EnsureTags, CreateForumThread, AddReaction, Wake,
         NotifyReaction, Local
<1>2. ASSUME NEW attempt, Becomes(r, Announce(r, attempt)),
             \/ run[r].pc = "tags" /\ attempt = 1
             \/ run[r].pc = "sleep" /\ attempt = run[r].attempt + 1
      PROVE  FlowStep(r)
  <2>1. /\ Announce(r, attempt).pc = "savePosting" /\ Announce(r, attempt).born = run[r].born
        /\ Announce(r, attempt).attempt = attempt
    BY <1>1 DEF Announce, RunState
  <2> QED
    BY <1>1, <1>2, <2>1, BecomesRun DEF FlowStep, EarlyPcs
<1>3. CASE EnsureTags(r)
  <2>1. CASE Becomes(r, [run[r] EXCEPT !.pc = "saveRejected",
               !.mem[Current(r)].job = FailedJob(run[r].date, run[r].problem, MaxAttempts)])
    BY <1>1, <1>3, <2>1, EarlyFlow DEF RunState, EarlyPcs, EnsureTags
  <2> QED
    BY <1>2, <1>3, <2>1 DEF EnsureTags, Local
<1>4. CASE Wake(r)
  BY <1>2, <1>4 DEF Wake, Local
<1>5. ASSUME NEW l, Becomes(r, l), run[r].pc \in TryingPcs, l.pc \in TryingPcs \ {"savePosted"},
             l.born = run[r].born, l.attempt = run[r].attempt
      PROVE  FlowStep(r)
  BY <1>1, <1>5, BecomesRun DEF FlowStep
<1>6. CASE CreateForumThread(r)
  <2>1. run[r].pc \in TryingPcs
    BY <1>6 DEF CreateForumThread, TryingPcs
  <2>2. ASSUME NEW n, Becomes(r, [run[r] EXCEPT !.pc = "react", !.thread = n])
        PROVE  FlowStep(r)
    BY <1>1, <1>5, <2>1, <2>2 DEF RunState, TryingPcs
  <2>3. ASSUME NEW job, Becomes(r, [run[r] EXCEPT !.pc = "saveFailed", !.mem[Current(r)].job = job])
        PROVE  FlowStep(r)
    BY <1>1, <1>5, <2>1, <2>3 DEF RunState, TryingPcs
  <2> QED
    BY <1>6, <2>2, <2>3 DEF CreateForumThread
<1>7. CASE AddReaction(r) \/ NotifyReaction(r)
  <2>1. run[r].pc \in ThreadPcs /\ run[r].pc \in TryingPcs
    BY <1>7 DEF AddReaction, NotifyReaction, ThreadPcs, TryingPcs
  <2>2. CASE Becomes(r, Posted(r))
    <3>1. Posted(r).born = run[r].born
      BY <1>1 DEF Posted, RunState
    <3> QED
      BY <1>1, <2>1, <2>2, <3>1, BecomesRun DEF FlowStep
  <2>3. CASE Becomes(r, [run[r] EXCEPT !.pc = "notifyReaction"])
    BY <1>1, <1>5, <2>1, <2>3 DEF RunState, TryingPcs
  <2> QED
    BY <1>7, <2>2, <2>3 DEF AddReaction, NotifyReaction, Local
<1> QED
  BY <1>3, <1>4, <1>6, <1>7

LEMMA SaveFlow ==
  ASSUME TypeInv, NEW r \in Runs,
         SaveRecovered(r) \/ SaveRejected(r) \/ SavePosting(r) \/ SavePosted(r) \/ SaveFailed(r)
  PROVE  FlowStep(r)
<1>1. /\ run[r] \in RunState /\ run[r].todo # <<>> /\ UNCHANGED clock
      /\ run[r].pc \in LivePcs
  BY DEF TypeInv, LocalOK, LivePcs, WorkingPcs, SaveRecovered, SaveRejected, SavePosting,
         SavePosted, SaveFailed, SaveState
<1>2. CASE SaveErrors(r)
  BY <1>1, <1>2, DoneFlow DEF SaveErrors
<1>3. ASSUME NEW next \in RunState, Writes(r, next)
      PROVE  \E l : /\ Becomes(r, l) /\ l.pc = next.pc /\ l.born = next.born /\ l.todo = next.todo
                    /\ l.attempt = next.attempt /\ l.wake = next.wake
  <2> WITNESS [next EXCEPT !.ver = stateDoc.gen + 1]
  <2> QED
    BY <1>3 DEF Writes, RunState
<1>4. ASSUME NEW pc \in LivePcs, Writes(r, [run[r] EXCEPT !.pc = pc]),
             \/ pc = "notifyFailure"
             \/ run[r].pc \in EarlyPcs \ {"guild"} /\ pc \in EarlyPcs
             \/ run[r].pc \in TryingPcs /\ pc \in TryingPcs \ {"savePosted"}
      PROVE  FlowStep(r)
  <2> DEFINE next == [run[r] EXCEPT !.pc = pc]
  <2>1. /\ next \in RunState /\ next.pc = pc /\ next.born = run[r].born
        /\ next.attempt = run[r].attempt /\ Writes(r, next)
    BY <1>1, <1>4 DEF RunState
  <2> HIDE DEF next
  <2>2. PICK l : Becomes(r, l) /\ l.pc = pc /\ l.born = run[r].born /\ l.attempt = run[r].attempt
    BY <1>3, <2>1
  <2> QED
    BY <1>1, <1>4, <2>2, BecomesRun DEF FlowStep
<1>5. CASE SaveRecovered(r) \/ SaveRejected(r) \/ SavePosting(r)
  BY <1>2, <1>4, <1>5 DEF SaveRecovered, SaveRejected, SavePosting, SaveState, LivePcs, WorkingPcs,
                          EarlyPcs, TryingPcs
<1>6. CASE SavePosted(r)
  <2> DEFINE next == GuildDone(r, FALSE)
  <2>1. /\ next \in RunState /\ next.pc = "guild" /\ next.todo = Tail(run[r].todo)
        /\ next.born = run[r].born
    BY <1>1, <1>6, GuildDoneOK DEF GuildDone, RunState, LocalOK, SavePosted, SaveState, Working, WorkingPcs
  <2>2. CASE Writes(r, next)
    <3> HIDE DEF next
    <3>1. PICK l : Becomes(r, l) /\ l.pc = "guild" /\ l.born = run[r].born /\ l.todo = Tail(run[r].todo)
      BY <1>3, <2>1, <2>2
    <3> QED
      BY <1>1, <3>1, BecomesRun DEF FlowStep
  <2> QED
    BY <1>2, <1>6, <2>2 DEF SavePosted, SaveState
<1>7. CASE SaveFailed(r)
  <2>1. run[r].pc = "saveFailed"
    BY <1>7 DEF SaveFailed, SaveState
  <2>2. CASE Writes(r, [run[r] EXCEPT !.pc = "notifyFailure"])
    BY <1>4, <2>2 DEF LivePcs, WorkingPcs
  <2>3. CASE /\ run[r].attempt < MaxAttempts
             /\ Writes(r, [run[r] EXCEPT !.pc = "sleep", !.wake = clock + RetryInterval])
    <3> DEFINE n    == clock + RetryInterval
               next == [run[r] EXCEPT !.pc = "sleep", !.wake = n]
    <3>1. n \in Nat
      BY ConstantsAssumption DEF TypeInv, TypeOK
    <3>2. Writes(r, next)
      BY <2>3
    <3> HIDE DEF n
    <3>3. /\ next \in RunState /\ next.pc = "sleep" /\ next.born = run[r].born
          /\ next.attempt = run[r].attempt /\ next.wake = n
      BY <1>1, <3>1 DEF RunState, LivePcs, WorkingPcs
    <3> HIDE DEF next
    <3>4. PICK l : /\ Becomes(r, l) /\ l.pc = "sleep" /\ l.born = run[r].born
                   /\ l.attempt = run[r].attempt /\ l.wake = n
      BY <1>3, <3>2, <3>3
    <3> QED
      BY <1>1, <2>1, <2>3, <3>4, BecomesRun DEF FlowStep, n
  <2> QED
    BY <1>2, <1>7, <2>2, <2>3 DEF SaveFailed, SaveState
<1> QED
  BY <1>5, <1>6, <1>7

LEMMA StepFlow ==
  ASSUME TypeInv, NEW r \in Runs, Start(r) \/ Step(r)
  PROVE  FlowStep(r)
BY LoadFlow, CacheFlow, PostFlow, SaveFlow DEF Step

-----------------------------------------------------------------------------
(* Time.  No run reaches the platform's limit.                             *)

LEMMA DelayGrows ==
  ASSUME NEW j \in Nat, NEW k \in Nat
  PROVE  /\ Delay(j) \in Nat /\ Delay(0) = 0 /\ Delay(j + 1) = Delay(j) + RetryInterval
         /\ j <= k => Delay(j) <= Delay(k)
<1>0. RetryInterval \in Nat
  BY ConstantsAssumption
<1>1. ASSUME NEW m \in Nat PROVE m * RetryInterval \in Nat
  BY <1>0
<1>2. (j + 1) * RetryInterval = j * RetryInterval + RetryInterval /\ 0 * RetryInterval = 0
  BY <1>0
<1>3. ASSUME j <= k
      PROVE  j * RetryInterval <= k * RetryInterval
  <2>1. k - j \in Nat
    BY <1>3
  <2>2. PICK m \in Nat : m = k - j
    BY <2>1
  <2>3. k * RetryInterval = j * RetryInterval + m * RetryInterval
    BY <1>0, <2>2
  <2>4. m * RetryInterval \in Nat /\ j * RetryInterval \in Nat
    BY <1>1
  <2> QED
    BY <2>3, <2>4
<1> QED
  BY <1>1, <1>2, <1>3 DEF Delay

LEMMA ActsInTime ==
  ASSUME SingleGuild, TypeInv, TypeInv', SingleInv, TimeInv, NEW r \in Runs, FlowStep(r)
  PROVE  TimeInv'
<1> DEFINE k == run[r]
           l == run'[r]
<1>1. clock' = clock /\ \A q \in Runs \ {r} : run'[q] = run[q]
  BY DEF FlowStep
<1>2. ASSUME NEW q \in Runs, q # r
      PROVE  InTime(run[q])'
  BY <1>1, <1>2 DEF TimeInv, InTime, Delay
<1>3. InTime(l)
  <2>0. /\ clock \in Nat /\ k.born \in Nat /\ k.attempt \in Nat /\ k.wake \in Nat
        /\ k.pc \in TryingPcs \cup {"sleep"} => k.attempt >= 1
        /\ l.born \in Nat /\ l.attempt \in Nat /\ MaxAttempts \in Nat \ {0} /\ RetryInterval \in Nat
    BY ConstantsAssumption DEF TypeInv, TypeOK, LocalOK, RunState, TryingPcs, PostingPcs
  <2>1. InTime(k)
    BY DEF TimeInv
  <2>2. Delay(MaxAttempts - 1) \in Nat
    BY <2>0, DelayGrows
  <2>3. CASE l.pc \notin LivePcs
    BY <2>3, FlowPcs DEF InTime
  <2>4. CASE l.pc = "loadState" /\ l.born = clock
    BY <2>0, <2>2, <2>4, FlowPcs DEF InTime, EarlyPcs
  <2>5. CASE l.pc = "guild" /\ k.todo # <<>> /\ l.todo = Tail(k.todo) /\ l.born = k.born /\ k.pc \in LivePcs
    <3>1. l.todo = <<>>
      BY <2>5, ConstantsAssumption, ShortTail DEF SingleGuild, SingleInv
    <3> QED
      BY <2>1, <2>5, <3>1, FlowPcs DEF InTime, EarlyPcs
  <2>6. CASE l.pc = "notifyFailure" /\ l.born = k.born /\ k.pc \in LivePcs
    BY <2>1, <2>6, FlowPcs DEF InTime
  <2>7. CASE /\ k.pc \in EarlyPcs /\ (k.pc = "guild" => k.todo # <<>>) /\ l.born = k.born
             /\ l.pc \in EarlyPcs \/ (l.pc = "savePosting" /\ l.attempt = 1)
    <3>1. clock = l.born
      BY <2>1, <2>7 DEF InTime
    <3>2. l.pc \in EarlyPcs => InTime(l)
      BY <2>0, <2>2, <3>1, FlowPcs DEF InTime
    <3>3. l.pc = "savePosting" /\ l.attempt = 1 => InTime(l)
      BY <2>0, <2>2, <3>1, FlowPcs, DelayGrows DEF InTime, TryingPcs
    <3> QED
      BY <2>7, <3>2, <3>3
  <2>8. CASE k.pc = "sleep" /\ l.pc = "savePosting" /\ l.attempt = k.attempt + 1 /\ l.born = k.born
    <3>1. /\ k.attempt < MaxAttempts /\ k.wake <= k.born + Delay(k.attempt) /\ clock <= k.wake
          /\ clock <= k.born + Delay(MaxAttempts - 1)
      BY <2>1, <2>8, FlowPcs DEF InTime
    <3>2. PICK a \in Nat : a = k.attempt
      BY <2>0
    <3>3. l.attempt - 1 = a /\ Delay(a) \in Nat
      BY <2>8, <3>2, DelayGrows
    <3>4. l.attempt <= MaxAttempts /\ clock <= l.born + Delay(l.attempt - 1)
      BY <2>0, <2>8, <3>1, <3>2, <3>3
    <3>5. l.pc \in TryingPcs /\ l.pc \notin EarlyPcs /\ l.pc # "sleep"
      BY <2>8 DEF TryingPcs, EarlyPcs
    <3> HIDE DEF k, l
    <3> QED
      BY <2>8, <3>1, <3>4, <3>5 DEF InTime
  <2>9. CASE /\ k.pc = "saveFailed" /\ l.pc = "sleep" /\ k.attempt < MaxAttempts /\ l.born = k.born
             /\ l.attempt = k.attempt /\ l.wake = clock + RetryInterval
    <3>1. k.attempt >= 1 /\ clock <= k.born + Delay(k.attempt - 1) /\ clock <= k.born + Delay(MaxAttempts - 1)
      BY <2>0, <2>1, <2>9, FlowPcs DEF InTime, TryingPcs
    <3>2. PICK j \in Nat : j = k.attempt - 1
      BY <2>0, <3>1
    <3>3. Delay(k.attempt) = Delay(j) + RetryInterval /\ Delay(j) \in Nat
      <4>1. j + 1 = k.attempt
        BY <2>0, <3>2
      <4> QED
        BY <4>1, DelayGrows
    <3>4. l.wake <= l.born + Delay(l.attempt) /\ clock <= l.wake
      BY <2>0, <2>9, <3>1, <3>2, <3>3
    <3> QED
      BY <2>9, <3>1, <3>4, FlowPcs DEF InTime
  <2>10. CASE k.pc \in TryingPcs /\ l.pc \in TryingPcs /\ l.attempt = k.attempt /\ l.born = k.born
    BY <2>1, <2>10, FlowPcs DEF InTime
  <2>11. CASE k.pc \in ThreadPcs /\ l = Posted(r)
    <3>1. l.pc = "savePosted" /\ l.attempt = k.attempt /\ l.born = k.born
      BY <2>11 DEF Posted, TypeInv, LocalOK, RunState
    <3> HIDE DEF k, l
    <3> QED
      BY <2>10, <2>11, <3>1, FlowPcs DEF TryingPcs
  <2> HIDE DEF k, l
  <2>12. FlowStep(r)
    OBVIOUS
  <2> QED
    BY <2>3, <2>4, <2>5, <2>6, <2>7, <2>8, <2>9, <2>10, <2>11, <2>12 DEF FlowStep, k, l
<1>4. InTime(run[r])'
  BY <1>1, <1>3 DEF InTime, Delay
<1> QED
  BY <1>2, <1>4 DEF TimeInv

LEMMA TickInTime ==
  ASSUME Calm, TypeInv, TimeInv, Tick
  PROVE  TimeInv'
<1>1. clock \in Nat /\ clock' = clock + 1 /\ run' = run
  BY DEF Tick, TypeInv, TypeOK
<1>2. ASSUME NEW r \in Runs
      PROVE  InTime(run[r])'
  <2>1. CASE run[r].pc \notin LivePcs
    BY <1>1, <2>1, FlowPcs DEF InTime
  <2>2. CASE run[r].pc \in LivePcs
    <3>1. run[r].pc = "sleep" /\ clock < run[r].wake
      BY <2>2 DEF Tick, Live, Calm
    <3>2. /\ run[r].attempt < MaxAttempts /\ run[r].wake <= run[r].born + Delay(run[r].attempt)
          /\ clock <= run[r].wake
      BY <3>1 DEF TimeInv, InTime
    <3>3. /\ run[r].wake \in Nat /\ run[r].born \in Nat /\ run[r].attempt \in Nat
          /\ MaxAttempts \in Nat \ {0}
      BY ConstantsAssumption DEF TypeInv, LocalOK, RunState
    <3>4. Delay(run[r].attempt) <= Delay(MaxAttempts - 1) /\ Delay(run[r].attempt) \in Nat
          /\ Delay(MaxAttempts - 1) \in Nat
      <4>1. MaxAttempts - 1 \in Nat /\ run[r].attempt <= MaxAttempts - 1
        BY <3>2, <3>3
      <4> QED
        BY <3>3, <4>1, DelayGrows
    <3>5. clock + 1 <= run[r].wake /\ clock + 1 <= run[r].born + Delay(MaxAttempts - 1)
      BY <1>1, <3>1, <3>2, <3>3, <3>4
    <3> QED
      BY <1>1, <3>1, <3>2, <3>5, FlowPcs DEF InTime, Delay
  <2> QED
    BY <2>1, <2>2
<1> QED
  BY <1>2 DEF TimeInv

\* The steps of a calm deployment: nobody dies, and no limit is reached.
LEMMA CalmActs ==
  ASSUME Calm, TypeInv, TimeInv, [Next]_vars
  PROVE  (\E r \in Runs : Start(r) \/ Step(r)) \/ Tick \/ UNCHANGED vars
<1>1. \A r \in Runs : ~Crash(r)
  BY DEF Calm, Crash
<1>2. ASSUME NEW r \in Runs, Timeout(r)
      PROVE  FALSE
  <2>1. clock = run[r].born + RunTimeout /\ clock <= run[r].born + Delay(MaxAttempts - 1)
    BY <1>2 DEF Timeout, Kill, Live, TimeInv, InTime
  <2>2. MaxAttempts - 1 \in Nat /\ RunTimeout \in Nat /\ run[r].born \in Nat
    BY ConstantsAssumption DEF TypeInv, LocalOK, RunState
  <2>3. Delay(MaxAttempts - 1) \in Nat /\ Delay(MaxAttempts - 1) < RunTimeout
    BY <2>2, DelayGrows DEF Calm, RetriesFit, Delay
  <2> QED
    BY <2>1, <2>2, <2>3
<1> QED
  BY <1>1, <1>2 DEF Next

LEMMA InitInTime == Init => TimeInv
<1> SUFFICES ASSUME Init PROVE TimeInv
  OBVIOUS
<1>1. \A r \in Runs : run[r].pc = "new"
  BY DEF Init, NewRun
<1>2. "new" \notin LivePcs
  BY DEF LivePcs, WorkingPcs
<1> QED
  BY <1>1, <1>2, FlowPcs DEF TimeInv, InTime

-----------------------------------------------------------------------------
(* Order.  A thread is recorded in the store, or the one run that has just *)
(* created it is on its way to record it.                                  *)

PendingPcs == ThreadPcs \cup {"savePosted"}

Recorded(t) ==
  LET rec == stateDoc.guilds[t.guild] IN
  /\ rec # Nil /\ rec.job.targetDate # Nil
  /\ t.number < rec.next
  /\ t.date < rec.job.targetDate \/ (t.date = rec.job.targetDate /\ rec.job.status = "posted")

\* The thread of a run's posting.
ThreadOf(l) == [guild |-> Head(l.todo), date |-> l.date, number |-> l.problem]

Pending(t) == \E r \in Runs : run[r].pc \in PendingPcs /\ t = ThreadOf(run[r])

\* The copy about to be saved closes the day of the run.
Closing(l) ==
  l.pc = "savePosted" =>
    /\ Rec(l).next = l.problem + 1
    /\ Rec(l).job.targetDate = l.date /\ Rec(l).job.status = "posted"

OrderInv ==
  /\ \A i \in DOMAIN threads : Recorded(threads[i]) \/ Pending(threads[i])
  /\ \A r \in Runs : Closing(run[r])

\* What is recorded stays so, whatever is saved.
LEMMA RecordedStays ==
  ASSUME TypeInv, TypeInv', ExclInv, LedgerInv, StoreAhead, [Next]_vars,
         NEW t \in Thread, Recorded(t)
  PROVE  Recorded(t)'
<1> DEFINE g == t.guild
           e == stateDoc.guilds[g]
           f == stateDoc'.guilds[g]
<1>1. g \in Guilds /\ t.number \in Nat /\ t.date \in Int /\ e # Nil
  BY DEF Thread, Recorded
<1>2. e \in GuildStateType /\ (f # Nil => f \in GuildStateType)
  BY <1>1 DEF TypeInv, TypeOK, GuildStates
<1>3. f # Nil /\ (EntryBar(f) = EntryBar(e) \/ Ledger!Moves(g, EntryBar(e), EntryBar(f)))
  BY <1>1, RecordMoves, SameBar, StatusBar
<1>4. /\ e.next \in Nat /\ f.next \in Nat /\ e.job.targetDate \in Int \cup {Nil}
      /\ f.job.targetDate \in Int \cup {Nil}
  BY <1>2, <1>3 DEF GuildStateType, JobState
<1>5. /\ e.job.targetDate # Nil /\ t.number < e.next
      /\ t.date < e.job.targetDate \/ (t.date = e.job.targetDate /\ e.job.status = "posted")
  BY DEF Recorded
<1>6. Ahead(e)
  BY <1>1 DEF StoreAhead
<1> HIDE DEF e, f
<1>7. /\ f.job.targetDate # Nil /\ t.number < f.next
      /\ t.date < f.job.targetDate \/ (t.date = f.job.targetDate /\ f.job.status = "posted")
  <2>1. CASE EntryBar(f) = EntryBar(e)
    BY <1>5, <2>1 DEF EntryBar
  <2>2. CASE Ledger!JobMoves(EntryBar(e), EntryBar(f))
    <3>1. /\ f.job.targetDate # Nil /\ f.next = e.next
          /\ ~(f.job.targetDate < e.job.targetDate)
          /\ f.job.targetDate = e.job.targetDate => e.job.status # "posted"
      BY <1>5, <2>2 DEF Ledger!JobMoves, Ledger!Closed, EntryBar
    <3>2. e.job.status = "posted" => f.job.targetDate > e.job.targetDate
      BY <1>4, <1>5, <3>1
    <3>3. t.date < f.job.targetDate
      <4>1. CASE t.date < e.job.targetDate
        BY <1>1, <1>4, <1>5, <3>1, <4>1
      <4>2. CASE t.date = e.job.targetDate /\ e.job.status = "posted"
        BY <1>1, <1>4, <1>5, <3>1, <3>2, <4>2
      <4> QED
        BY <1>5, <4>1, <4>2
    <3> QED
      BY <1>5, <3>1, <3>3
  <2>3. CASE Ledger!Closes(g, EntryBar(e), EntryBar(f))
    <3>1. /\ e.job.status = "posting" /\ f.next = e.job.problem + 1 /\ f.job.status = "posted"
          /\ f.job.targetDate = e.job.targetDate
      BY <2>3 DEF Ledger!Closes, EntryBar
    <3>2. e.job.problem \in Nat /\ e.job.problem >= e.next
      BY <1>6, <3>1 DEF Ahead
    <3>3. t.number < f.next
      BY <1>1, <1>4, <1>5, <3>1, <3>2
    <3> QED
      BY <1>5, <3>1, <3>3
  <2> QED
    BY <1>3, <2>1, <2>2, <2>3 DEF Ledger!Moves, Ledger!Announces, Ledger!GivesUp, Ledger!TakesOver
<1> QED
  BY <1>3, <1>7 DEF Recorded, f

\* While a run may change the store or add a thread, nobody else has a pending one.
LEMMA NobodyPending ==
  ASSUME TypeInv, ExclInv, SingleInv, NEW r \in Runs, Working(r), run[r].ver = stateDoc.gen,
         NEW q \in Runs \ {r}
  PROVE  run[q].pc \notin PendingPcs
BY AloneAtTheStore DEF PendingPcs, ThreadPcs, InFlightPcs

\* Only a request for a thread adds to the forum.
LEMMA ForumStays ==
  ASSUME NEW r \in Runs, Start(r) \/ Step(r), run[r].pc # "create"
  PROVE  UNCHANGED threads
BY DEF Start, Step, LoadState, LoadProblemCache, LoadFails, SkipGuild, TakeOverStale, BeginGuild,
       Return, SaveRecovered, CacheSuffices, RefillCache, RefillFails, SaveProblemCache, SelectNext,
       EnsureTags, SaveRejected, SavePosting, CreateForumThread, AddReaction, SavePosted, SaveFailed,
       Wake, NotifyFailure, NotifyStaleCache, NotifyReaction, SaveState, Local

LEMMA PostedCloses ==
  ASSUME TypeInv, NEW r \in Runs, run[r].pc \in ThreadPcs
  PROVE  Posted(r).pc = "savePosted" /\ Closing(Posted(r)) /\ ThreadOf(Posted(r)) = ThreadOf(run[r])
<1> DEFINE rec == RecordPosted(Record(r), run[r].date, run[r].problem, run[r].attempt - 1, run[r].thread)
           l   == Posted(r)
<1>1. Working(r)
  BY DEF Working, WorkingPcs, ThreadPcs
<1>2. run[r] \in RunState /\ Current(r) \in Guilds
  BY <1>1, WorkingRun
<1>3. /\ l.pc = "savePosted" /\ l.todo = run[r].todo /\ l.date = run[r].date /\ l.problem = run[r].problem
      /\ l.mem[Current(r)] = rec
  BY <1>2 DEF Posted, RunState, GuildStates, Record
<1>4. rec.next = run[r].problem + 1 /\ rec.job.targetDate = run[r].date /\ rec.job.status = "posted"
  BY DEF RecordPosted, PostedJob
<1> HIDE DEF rec, l
<1>5. Rec(l) = rec
  BY <1>3 DEF Rec, Current
<1> QED
  BY <1>3, <1>4, <1>5 DEF Closing, ThreadOf, l

\* A step of a run that has no thread to record, and gets none.
LEMMA OthersOrder ==
  ASSUME TypeInv, TypeInv', ExclInv, LedgerInv, StoreAhead, OrderInv, [Next]_vars,
         NEW r \in Runs, FlowStep(r), run[r].pc \notin PendingPcs, UNCHANGED threads
  PROVE  OrderInv'
<1>1. \A q \in Runs \ {r} : run'[q] = run[q]
  BY DEF FlowStep
<1>2. ASSUME NEW i \in DOMAIN threads, Pending(threads[i])
      PROVE  Pending(threads[i])'
  <2>1. PICK q \in Runs : run[q].pc \in PendingPcs /\ threads[i] = ThreadOf(run[q])
    BY <1>2 DEF Pending
  <2>2. run'[q] = run[q]
    BY <1>1, <2>1
  <2> QED
    BY <2>1, <2>2 DEF Pending, ThreadOf
<1>3. ASSUME NEW i \in DOMAIN threads, Recorded(threads[i])
      PROVE  Recorded(threads[i])'
  <2>1. threads[i] \in Thread
    BY DEF TypeInv, TypeOK
  <2>2. \A t \in Thread : Recorded(t) => Recorded(t)'
    BY RecordedStays
  <2> QED
    BY <1>3, <2>1, <2>2
<1>4. run'[r].pc # "savePosted"
  BY FlowPcs DEF FlowStep, PendingPcs, EarlyPcs, LivePcs, WorkingPcs
<1>5. \A q \in Runs : Closing(run[q])'
  BY <1>1, <1>4 DEF OrderInv, Closing, Rec
<1> QED
  BY <1>2, <1>3, <1>5 DEF OrderInv

LEMMA PostedOrder ==
  ASSUME TypeInv, TypeInv', ExclInv, LedgerInv, StoreAhead, OrderInv, [Next]_vars,
         NEW r \in Runs, AddReaction(r) \/ NotifyReaction(r)
  PROVE  OrderInv'
<1>1. /\ run[r].pc \in ThreadPcs /\ run[r] \in RunState /\ UNCHANGED threads
      /\ Becomes(r, Posted(r)) \/ Becomes(r, [run[r] EXCEPT !.pc = "notifyReaction"])
  BY DEF AddReaction, NotifyReaction, ThreadPcs, TypeInv, LocalOK, Local
<1>2. /\ run'[r].pc \in PendingPcs /\ ThreadOf(run'[r]) = ThreadOf(run[r]) /\ Closing(run'[r])
      /\ \A q \in Runs \ {r} : run'[q] = run[q]
  <2>1. CASE Becomes(r, Posted(r))
    BY <1>1, <2>1, BecomesRun, PostedCloses DEF PendingPcs
  <2>2. CASE Becomes(r, [run[r] EXCEPT !.pc = "notifyReaction"])
    BY <1>1, <2>2, BecomesRun DEF PendingPcs, ThreadPcs, RunState, Closing, ThreadOf
  <2> QED
    BY <1>1, <2>1, <2>2
<1>3. ASSUME NEW i \in DOMAIN threads, Pending(threads[i])
      PROVE  Pending(threads[i])'
  <2>1. PICK q \in Runs : run[q].pc \in PendingPcs /\ threads[i] = ThreadOf(run[q])
    BY <1>3 DEF Pending
  <2>2. run'[q].pc \in PendingPcs /\ ThreadOf(run'[q]) = ThreadOf(run[q])
    BY <1>2, <2>1
  <2> QED
    BY <1>1, <2>1, <2>2 DEF Pending, ThreadOf
<1>4. ASSUME NEW i \in DOMAIN threads, Recorded(threads[i])
      PROVE  Recorded(threads[i])'
  <2>1. threads[i] \in Thread
    BY DEF TypeInv, TypeOK
  <2>2. \A t \in Thread : Recorded(t) => Recorded(t)'
    BY RecordedStays
  <2> QED
    BY <1>1, <1>4, <2>1, <2>2
<1>5. \A q \in Runs : Closing(run[q])'
  BY <1>2 DEF OrderInv, Closing, Rec
<1> QED
  BY <1>1, <1>3, <1>4, <1>5 DEF OrderInv

\* The save that records the thread cannot fail, and nobody else has one.
LEMMA SavedOrder ==
  ASSUME Calm, TypeInv, TypeInv', ExclInv, SingleInv, LedgerInv, StoreAhead, OrderInv, [Next]_vars,
         NEW r \in Runs, SavePosted(r)
  PROVE  OrderInv'
<1>1. /\ run[r].pc = "savePosted" /\ Working(r) /\ run[r].ver = stateDoc.gen /\ run[r] \in RunState
      /\ UNCHANGED threads
  BY DEF SavePosted, SaveState, Working, WorkingPcs, SingleInv, InFlightPcs, TypeInv, LocalOK
<1>2. Writes(r, GuildDone(r, FALSE))
  BY <1>1 DEF SavePosted, SaveState, SaveErrors, Calm
<1>3. stateDoc'.guilds = run[r].mem /\ FlowStep(r)
  BY <1>2, SaveFlow DEF Writes
<1>4. /\ \A q \in Runs \ {r} : run'[q] = run[q]
      /\ run'[r].pc # "savePosted"
  BY <1>1, <1>3, FlowPcs DEF FlowStep, EarlyPcs, LivePcs, WorkingPcs, ThreadPcs
<1>5. ASSUME NEW t \in Thread, Pending(t)
      PROVE  Recorded(t)'
  <2>1. t = ThreadOf(run[r])
    BY <1>1, <1>5, NobodyPending DEF Pending
  <2>2. t.guild = Current(r) /\ t.date = run[r].date /\ t.number = run[r].problem
    BY <2>1 DEF ThreadOf, Current
  <2>3. /\ Record(r).next = run[r].problem + 1
        /\ Record(r).job.targetDate = run[r].date /\ Record(r).job.status = "posted"
    BY <1>1 DEF OrderInv, Closing, Rec, Record, Current
  <2>4. stateDoc'.guilds[t.guild] = Record(r) /\ Record(r) \in GuildStateType
    BY <1>1, <1>3, <2>2, WorkingRun DEF Record
  <2>5. /\ Record(r) # Nil /\ run[r].date # Nil /\ run[r].problem < run[r].problem + 1
    BY <1>1, <2>4, NilAssumption DEF RunState
  <2> QED
    BY <2>2, <2>3, <2>4, <2>5 DEF Recorded
<1>6. ASSUME NEW i \in DOMAIN threads
      PROVE  Recorded(threads[i])'
  <2>1. threads[i] \in Thread /\ threads' = threads
    BY <1>1 DEF TypeInv, TypeOK
  <2>2. \A t \in Thread : Recorded(t) \/ Pending(t) => Recorded(t)'
    BY <1>5, RecordedStays
  <2> QED
    BY <2>1, <2>2 DEF OrderInv
<1>7. \A q \in Runs : Closing(run[q])'
  BY <1>4 DEF OrderInv, Closing, Rec
<1> QED
  BY <1>1, <1>6, <1>7 DEF OrderInv

\* Nothing is lost between Discord and the run: a request makes one thread and says
\* so, or none.
LEMMA CalmCreate ==
  ASSUME Calm, TypeInv, NEW r \in Runs, CreateForumThread(r)
  PROVE  /\ run[r].pc = "create" /\ Working(r) /\ UNCHANGED stateDoc
         /\ \A q \in Runs \ {r} : run'[q] = run[q]
         /\ \/ UNCHANGED threads
            \/ /\ threads' = Append(threads, ThreadOf(run[r])) /\ ThreadOf(run[r]) \in Thread
               /\ run'[r].pc = "react" /\ ThreadOf(run'[r]) = ThreadOf(run[r])
<1>1. run[r].pc = "create" /\ Working(r) /\ UNCHANGED stateDoc /\ threads \in Seq(Thread)
  BY DEF CreateForumThread, Working, WorkingPcs, TypeInv, TypeOK
<1>2. PICK n \in 0 .. MaxCopies, ok \in BOOLEAN :
        /\ n = IF ok THEN 1 ELSE 0
        /\ threads' = threads \o NewThreads(r, n)
        /\ IF ok
             THEN Becomes(r, [run[r] EXCEPT !.pc = "react", !.thread = Len(threads) + n])
             ELSE Becomes(r, [run[r] EXCEPT !.pc = "saveFailed",
                    !.mem[Current(r)].job = FailedJob(run[r].date, run[r].problem, run[r].attempt)])
  BY DEF CreateForumThread, Calm
<1>3. \A q \in Runs \ {r} : run'[q] = run[q]
  BY <1>2, BecomesRun
<1>4. ThreadOf(run[r]) \in Thread /\ run[r] \in RunState
  BY <1>1, WorkingRun DEF ThreadOf, Thread, RunState, Current
<1>5. CASE ~ok
  <2>1. NewThreads(r, n) = <<>>
    BY <1>2, <1>5 DEF NewThreads
  <2> QED
    BY <1>1, <1>2, <1>3, <2>1
<1>6. CASE ok
  <2>1. n = 1
    BY <1>2, <1>6
  <2>2. NewThreads(r, 1) = <<ThreadOf(run[r])>>
    BY DEF NewThreads, ThreadOf, Current
  <2>3. threads' = Append(threads, ThreadOf(run[r]))
    BY <1>1, <1>2, <1>4, <2>1, <2>2
  <2>4. run'[r].pc = "react" /\ ThreadOf(run'[r]) = ThreadOf(run[r])
    <3>1. ASSUME NEW m, Becomes(r, [run[r] EXCEPT !.pc = "react", !.thread = m])
          PROVE  run'[r].pc = "react" /\ ThreadOf(run'[r]) = ThreadOf(run[r])
      <4> DEFINE l == [run[r] EXCEPT !.pc = "react", !.thread = m]
      <4>1. l.pc = "react" /\ l.todo = run[r].todo /\ l.date = run[r].date /\ l.problem = run[r].problem
        BY <1>4 DEF RunState
      <4>2. Becomes(r, l)
        BY <3>1
      <4> HIDE DEF l
      <4> QED
        BY <4>1, <4>2, BecomesRun DEF ThreadOf
    <3> QED
      BY <1>2, <1>6, <3>1
  <2> QED
    BY <1>1, <1>3, <1>4, <2>3, <2>4
<1> QED
  BY <1>5, <1>6

\* Every thread there is when a new one appears is recorded.
LEMMA AllRecorded ==
  ASSUME TypeInv, ExclInv, SingleInv, OrderInv, NEW r \in Runs, run[r].pc = "create"
  PROVE  \A i \in DOMAIN threads : Recorded(threads[i])
<1>1. Working(r) /\ run[r].ver = stateDoc.gen /\ run[r].pc \notin PendingPcs
  BY DEF Working, WorkingPcs, SingleInv, InFlightPcs, PendingPcs, ThreadPcs
<1> QED
  BY <1>1, NobodyPending DEF OrderInv, Pending

LEMMA CreateOrder ==
  ASSUME Calm, TypeInv, TypeInv', ExclInv, SingleInv, LedgerInv, StoreAhead, OrderInv, [Next]_vars,
         NEW r \in Runs, CreateForumThread(r)
  PROVE  OrderInv'
<1>1. run[r].pc \notin PendingPcs /\ FlowStep(r)
  BY PostFlow DEF CreateForumThread, PendingPcs, ThreadPcs
<1>2. CASE UNCHANGED threads
  BY <1>1, <1>2, OthersOrder
<1>3. CASE /\ threads' = Append(threads, ThreadOf(run[r])) /\ ThreadOf(run[r]) \in Thread
           /\ run'[r].pc = "react" /\ ThreadOf(run'[r]) = ThreadOf(run[r])
  <2>1. threads \in Seq(Thread) /\ Len(threads) \in Nat /\ run[r].pc = "create"
    BY DEF TypeInv, TypeOK, CreateForumThread
  <2>3. ASSUME NEW i \in DOMAIN threads'
        PROVE  Recorded(threads[i])' \/ Pending(threads[i])'
    <3>1. CASE i \in DOMAIN threads
      <4>1. threads'[i] = threads[i] /\ threads[i] \in Thread
        BY <1>3, <2>1, <3>1
      <4>2. Recorded(threads[i])
        BY <2>1, <3>1, AllRecorded
      <4>3. \A t \in Thread : Recorded(t) => Recorded(t)'
        BY RecordedStays
      <4> QED
        BY <4>1, <4>2, <4>3
    <3>2. CASE i \notin DOMAIN threads
      <4>1. threads'[i] = ThreadOf(run[r])
        BY <1>3, <2>1, <2>3, <3>2
      <4> QED
        BY <1>3, <4>1 DEF Pending, ThreadOf, PendingPcs, ThreadPcs
    <3> QED
      BY <3>1, <3>2
  <2>2. \A q \in Runs : Closing(run[q])'
    BY <1>1, <1>3 DEF FlowStep, OrderInv, Closing, Rec
  <2> QED
    BY <2>2, <2>3 DEF OrderInv
<1> QED
  BY <1>2, <1>3, CalmCreate

\* The new thread is of a later day and problem than all of its guild.
LEMMA CreateSorted ==
  ASSUME Calm, TypeInv, ExclInv, SingleInv, StoreAhead, OrderInv, NoDuplicatePosts,
         NEW r \in Runs, CreateForumThread(r)
  PROVE  NoDuplicatePosts'
<1>1. CASE UNCHANGED threads
  BY <1>1 DEF NoDuplicatePosts
<1>2. CASE threads' = Append(threads, ThreadOf(run[r])) /\ ThreadOf(run[r]) \in Thread
  <2> DEFINE new == ThreadOf(run[r])
             rec == stateDoc.guilds[new.guild]
  <2>1. /\ threads \in Seq(Thread) /\ Len(threads) \in Nat
        /\ run[r].pc = "create" /\ run[r].pc \in InFlightPcs
    BY DEF TypeInv, TypeOK, CreateForumThread, InFlightPcs
  <2>2. /\ new.guild = Head(run[r].todo) /\ new.date = run[r].date /\ new.number = run[r].problem
        /\ new.guild \in Guilds /\ new.date \in Int /\ new.number \in Nat
    BY <1>2 DEF ThreadOf, Thread
  <2>3. rec # Nil /\ Announces(run[r], rec.job)
    BY <2>1, <2>2 DEF ExclInv, RunSafe
  <2>4. rec.job.status = "posting" /\ rec.job.targetDate = new.date /\ rec.job.problem = new.number
    BY <2>2, <2>3 DEF Announces, PostingJob
  <2>5. rec.next <= new.number /\ rec.next \in Nat
    <3>1. Ahead(rec) /\ rec \in GuildStateType
      BY <2>2, <2>3 DEF StoreAhead, TypeInv, TypeOK, GuildStates
    <3>2. rec.next \in Nat /\ rec.job.problem >= rec.next
      BY <2>4, <3>1 DEF Ahead, GuildStateType
    <3> QED
      BY <2>2, <2>4, <3>2
  <2>6. ASSUME NEW i \in DOMAIN threads, threads[i].guild = new.guild
        PROVE  threads[i].date < new.date /\ threads[i].number < new.number
    <3>0. threads[i] \in Thread /\ Recorded(threads[i])
      BY <2>1, AllRecorded
    <3>1. Recorded(threads[i]) /\ threads[i].date \in Int /\ threads[i].number \in Nat
      BY <3>0 DEF Thread
    <3>2. threads[i].number < rec.next /\ threads[i].date < new.date
      BY <2>4, <2>6, <3>1 DEF Recorded
    <3> QED
      BY <2>2, <2>5, <3>1, <3>2
  <2>7. /\ DOMAIN threads' = 1 .. Len(threads) + 1 /\ DOMAIN threads = 1 .. Len(threads)
        /\ \A i \in DOMAIN threads : threads'[i] = threads[i]
        /\ threads'[Len(threads) + 1] = new
    BY <1>2, <2>1
  <2> HIDE DEF new, rec
  <2>8. ASSUME NEW i \in DOMAIN threads', NEW j \in DOMAIN threads', i < j,
               threads'[i].guild = threads'[j].guild
        PROVE  threads'[i].date < threads'[j].date /\ threads'[i].number < threads'[j].number
    <3>1. i \in DOMAIN threads
      BY <2>1, <2>7, <2>8
    <3>2. CASE j \in DOMAIN threads
      BY <2>7, <2>8, <3>1, <3>2 DEF NoDuplicatePosts
    <3>3. CASE j \notin DOMAIN threads
      <4>1. j = Len(threads) + 1
        BY <2>1, <2>7, <3>3
      <4> QED
        BY <2>6, <2>7, <2>8, <3>1, <4>1
    <3> QED
      BY <3>2, <3>3
  <2> QED
    BY <2>8 DEF NoDuplicatePosts
<1> QED
  BY <1>1, <1>2, CalmCreate

DupInv == TimeInv /\ OrderInv /\ NoDuplicatePosts

LEMMA PendingSteps ==
  ASSUME NEW r \in Runs, Start(r) \/ Step(r), run[r].pc \in PendingPcs \cup {"create"}
  PROVE  CreateForumThread(r) \/ AddReaction(r) \/ NotifyReaction(r) \/ SavePosted(r)
BY DEF PendingPcs, ThreadPcs, Start, Step, LoadState, LoadProblemCache, LoadFails, SkipGuild,
       TakeOverStale, BeginGuild, Return, SaveRecovered, CacheSuffices, RefillCache, RefillFails,
       SaveProblemCache, SelectNext, EnsureTags, SaveRejected, SavePosting, SaveFailed, Wake,
       NotifyFailure, NotifyStaleCache, SaveState

LEMMA NextDup ==
  /\ Calm
  /\ TypeInv /\ TypeInv' /\ ExclInv /\ SingleInv /\ LedgerInv /\ StoreAhead
  /\ DupInv /\ [Next]_vars
  => DupInv'
<1> SUFFICES ASSUME Calm, TypeInv, TypeInv', ExclInv, SingleInv, LedgerInv, StoreAhead,
                    TimeInv, OrderInv, NoDuplicatePosts, [Next]_vars
             PROVE  DupInv'
  BY DEF DupInv
<1>1. CASE Tick \/ UNCHANGED vars
  <2>1. UNCHANGED <<stateDoc, threads, run>>
    BY <1>1 DEF Tick, vars
  <2>2. OrderInv' /\ NoDuplicatePosts'
    BY <2>1 DEF OrderInv, Recorded, Pending, ThreadOf, Closing, Rec, NoDuplicatePosts
  <2>3. UNCHANGED vars => TimeInv'
    BY DEF vars, TimeInv, InTime, Delay
  <2> QED
    BY <1>1, <2>2, <2>3, TickInTime DEF DupInv
<1>2. ASSUME NEW r \in Runs, Start(r) \/ Step(r)
      PROVE  DupInv'
  <2>1. FlowStep(r)
    BY <1>2, StepFlow
  <2>2. TimeInv'
    BY <2>1, ActsInTime DEF Calm
  <2>3. CASE CreateForumThread(r)
    BY <2>2, <2>3, CreateOrder, CreateSorted DEF DupInv
  <2>4. CASE AddReaction(r) \/ NotifyReaction(r)
    <3>1. OrderInv'
      BY <2>4, PostedOrder
    <3> QED
      BY <2>2, <2>4, <3>1 DEF DupInv, AddReaction, NotifyReaction, NoDuplicatePosts, Local
  <2>5. CASE SavePosted(r)
    <3>1. OrderInv'
      BY <2>5, SavedOrder
    <3> QED
      BY <2>2, <2>5, <3>1 DEF DupInv, SavePosted, SaveState, NoDuplicatePosts
  <2>6. CASE run[r].pc \notin PendingPcs \cup {"create"}
    <3>1. UNCHANGED threads
      BY <1>2, <2>6, ForumStays
    <3>2. OrderInv'
      BY <2>1, <2>6, <3>1, OthersOrder
    <3> QED
      BY <2>2, <3>1, <3>2 DEF DupInv, NoDuplicatePosts
  <2> QED
    BY <1>2, <2>3, <2>4, <2>5, <2>6, PendingSteps
<1> QED
  BY <1>1, <1>2, CalmActs

LEMMA InitDup == Init => DupInv
<1>1. ASSUME Init
      PROVE  threads = <<>> /\ \A r \in Runs : run[r].pc = "new"
  BY <1>1 DEF Init, NewRun
<1> QED
  BY <1>1, InitInTime DEF DupInv, OrderInv, Closing, NoDuplicatePosts

(* With one guild, attempts that fit into the time limit, and an          *)
(* environment in which no save fails, no answer of Discord is lost, no run *)
(* dies and only the waits take time, no day and no problem is posted twice, *)
(* and the posts of the guild appear in order: rejected calls, failed loads, *)
(* fetches and notifications and overlapping runs cannot make a duplicate. *)
THEOREM CalmNoDuplicates ==
  ASSUME Calm
  PROVE  Spec => []NoDuplicatePosts
<1>1. TypeInv /\ ExclInv /\ SingleInv /\ [Next]_vars => SingleInv'
  BY NextActs, ActsSingle, IdleSingle DEF Calm
<1>2. /\ TypeInv /\ TypeInv' /\ ExclInv /\ SingleInv /\ LedgerInv /\ StoreAhead
      /\ DupInv /\ [Next]_vars
      => DupInv'
  BY NextDup
<1>3. Init => StoreAhead
  BY DEF Init, NoGuilds, StoreAhead
<1>4. DupInv => NoDuplicatePosts
  BY DEF DupInv
<1> QED
  BY <1>1, <1>2, <1>3, <1>4, InitSingle, InitDup, NextAhead, LedgerInvariant, PTL DEF Spec
=============================================================================
