---------------------------- MODULE JobDeployment ----------------------------
(***************************************************************************)
(* The daily job as it is deployed: a Cloud Run job that a scheduler       *)
(* starts (infra/terraform), where the platform bounds every run in time.  *)
(* HttpRuntime.tla is the same job without these bounds.                   *)
(***************************************************************************)
EXTENDS DailyJobProperties

\* The Cloud Run task timeout (15 min) is below the staleness limit (30 min).
ASSUME TimeoutAssumption == RunTimeout < StaleAfter

\* No run is alive across midnight: the triggers fire at 05:00 and 06:00.
ASSUME TriggerAssumption ==
  \A t \in TriggerTimes : \A u \in t .. t + RunTimeout : DateOf(u) = DateOf(t)

-----------------------------------------------------------------------------
\* The ledger is what a reader of state.json relies on: the retry count and the start
\* of a posting serve the job alone.
EntryBar(rec) ==
  [next    |-> rec.next,
   thread  |-> rec.thread,
   date    |-> rec.job.targetDate,
   status  |-> rec.job.status,
   problem |-> rec.job.problem]

ledgerBar ==
  [g \in Guilds |-> IF stateDoc.guilds[g] = Nil THEN Nil ELSE EntryBar(stateDoc.guilds[g])]

Ledger == INSTANCE DailyLedger WITH ledger <- ledgerBar, forum <- threads

\* A nil pointer is no guild's entry either.
ASSUME EntryAssumption == Nil \notin Ledger!Entry

(* Any number of overlapping, failing and dying runs together keep the     *)
(* ledger: a thread only for what is announced, no closed day reopened, no *)
(* posting closed without its thread, progress never lost                  *)
(* (.plans/leetdaily-design.md:35).                                        *)
ImplementsDailyLedger == Ledger!Spec
=============================================================================
