----------------------------- MODULE DailyLedger -----------------------------
(***************************************************************************)
(* What the daily job promises, whoever runs it: a ledger with an entry    *)
(* per guild, and the forum.  A thread appears only for the posting its    *)
(* guild's entry announces, and an entry is closed as posted only with a   *)
(* thread of that posting.  One write may move the entries of several      *)
(* guilds, since state.json holds them all.                                *)
(***************************************************************************)
EXTENDS Integers, Sequences

CONSTANTS Guilds, StartNumber, MaxCopies, Nil

VARIABLES ledger,  \* the entry of each guild, Nil before its first write
          forum    \* the threads, in the order they appeared

\* next: the smallest number not done; thread: the last thread recorded; date, status,
\* problem: of the guild's latest job.
Entry == [next    : Nat,
          thread  : Nat \cup {Nil},
          date    : Int \cup {Nil},
          status  : {"idle", "posting", "posted", "failed"},
          problem : Nat \cup {Nil}]

Init ==
  /\ ledger = [g \in Guilds |-> Nil]
  /\ forum = <<>>

\* The entry the guild's first write starts from.
EntryOf(g) ==
  IF ledger[g] = Nil
    THEN [next |-> StartNumber[g], thread |-> Nil, date |-> Nil, status |-> "idle",
          problem |-> Nil]
    ELSE ledger[g]

\* A posted day is closed, and so are the days before the latest job's.
Closed(e, date) == e.date # Nil /\ (date < e.date \/ (date = e.date /\ e.status = "posted"))

\* Keeps what is done and says what today's job is.
JobMoves(e, f) ==
  /\ f.date # Nil /\ ~Closed(e, f.date)
  /\ f.next = e.next /\ f.thread = e.thread

Announces(e, f) == JobMoves(e, f) /\ f.status = "posting" /\ f.problem # Nil /\ f.problem >= e.next

GivesUp(e, f) == JobMoves(e, f) /\ f.status = "failed"

TakesOver(e, f) == JobMoves(e, f) /\ e.status = "posting" /\ f.status = "idle" /\ f.date = e.date

\* The announced posting is done: the next problem follows it.
Closes(g, e, f) ==
  /\ e.status = "posting" /\ f.status = "posted"
  /\ f.date = e.date /\ f.problem = e.problem
  /\ f.next = e.problem + 1
  /\ f.thread \in DOMAIN forum
  /\ forum[f.thread] = [guild |-> g, date |-> e.date, number |-> e.problem]

Moves(g, e, f) ==
  f = e \/ Announces(e, f) \/ GivesUp(e, f) \/ TakesOver(e, f) \/ Closes(g, e, f)

\* A save; a guild without an entry keeps none unless it is enrolled.
Write ==
  /\ \A g \in Guilds :
       \/ ledger'[g] = ledger[g]
       \/ ledger'[g] # Nil /\ Moves(g, EntryOf(g), ledger'[g])
  /\ UNCHANGED forum

\* The threads of one request.
Publish ==
  /\ \E g \in Guilds : \E n \in 1 .. MaxCopies :
       /\ ledger[g] # Nil /\ ledger[g].status = "posting"
       /\ forum' = forum \o [i \in 1 .. n |-> [guild  |-> g,
                                               date   |-> ledger[g].date,
                                               number |-> ledger[g].problem]]
  /\ UNCHANGED ledger

Next == Write \/ Publish

Spec == Init /\ [][Next]_<<ledger, forum>>
=============================================================================
