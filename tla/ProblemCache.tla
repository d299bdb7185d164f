---------------------------- MODULE ProblemCache ----------------------------
(***************************************************************************)
(* The problem list (internal/problemcache): its validation, the refill    *)
(* rule, the choice of the next problem and the category progress shown in *)
(* a thread, driven day by day as guildRun.execute drives them for one     *)
(* guild whose posts succeed; after one that fails all is as before.  A    *)
(* slug is an opaque value; titles and LeetCode numbers are left out;      *)
(* hasUrl says whether neetcode_url is present.                            *)
(***************************************************************************)
EXTENDS Integers, Sequences, FiniteSets, Functions

CONSTANTS NoProblem,     \* the result of a selection that found nothing
          Slugs,         \* the slugs that occur
          Categories,    \* the categories; "" is the absent one
          StartNumbers,  \* start_problem_number values to consider
          RefillThreshold,
          InitialLists,  \* the problem lists the cache object may start with
          FetchedLists,  \* the problem lists the source may return
          Faults         \* the calls that may fail, see AllFaults

\* fetch: the problem source fails; notify: an alert fails; save: saving the cache
\* object fails, or is applied and reported as failed.
AllFaults == {"fetch", "notify", "save"}

ASSUME FaultsAssumption == Faults \subseteq AllFaults
ASSUME ThresholdAssumption == RefillThreshold \in Nat \ {0}
ASSUME StartAssumption == StartNumbers \subseteq Nat \ {0}

Difficulties == {"Easy", "Medium", "Hard"}

Problem == [number : Nat \ {0}, slug : Slugs, difficulty : Difficulties,
            category : Categories \cup {""}, paid : BOOLEAN, hasUrl : BOOLEAN]

ASSUME ListsAssumption == InitialLists \cup FetchedLists \subseteq Seq(Problem)
ASSUME NoProblemAssumption == NoProblem \notin Problem

difficultyRank(d) == CASE d = "Easy" -> 1 [] d = "Medium" -> 2 [] d = "Hard" -> 3

-----------------------------------------------------------------------------
\* A paid-only problem needs a NeetCode link; the other fields are typed.
ValidProblem(p) == p.paid => p.hasUrl

\* A stamped list (updated_at is set whenever the list is) without duplicates.
Validate(list) ==
  /\ \A i \in DOMAIN list : ValidProblem(list[i])
  /\ IsInjective([i \in DOMAIN list |-> list[i].number])
  /\ IsInjective([i \in DOMAIN list |-> list[i].slug])

\* Of two problems with one number, the later in the list is indexed.
ByNumber(list) ==
  LET numbers == {list[i].number : i \in DOMAIN list}
      at(n)   == {i \in DOMAIN list : list[i].number = n}
  IN [n \in numbers |-> list[CHOOSE i \in at(n) : \A j \in at(n) : j <= i]]

maxProblemNumber(indexed) ==
  IF DOMAIN indexed = {} THEN 0
  ELSE CHOOSE n \in DOMAIN indexed : \A m \in DOMAIN indexed : m <= n

\* Mutant: the loop starts one number too late.
CandidatesAfterNext(indexed, next, maxDifficulty) ==
  {n \in next + 1 .. maxProblemNumber(indexed) :
     /\ n \in DOMAIN indexed
     /\ difficultyRank(indexed[n].difficulty) <= difficultyRank(maxDifficulty)}

\* The numbers the loop of selectNext does not pass over.
Candidates(indexed, next, maxDifficulty) ==
  {n \in next .. maxProblemNumber(indexed) :
     /\ n \in DOMAIN indexed
     /\ difficultyRank(indexed[n].difficulty) <= difficultyRank(maxDifficulty)}

SelectNextAtMost(list, next, maxDifficulty) ==
  LET indexed == ByNumber(list)
      found   == Candidates(indexed, next, maxDifficulty)
  IN IF next < 1 \/ found = {} THEN NoProblem
     ELSE indexed[CHOOSE n \in found : \A m \in found : n <= m]

\* Mutant: the next problem itself is not looked at.
HasProblemAfter(list, next, maxDifficulty) ==
  SelectNextAtMost(list, next + 1, maxDifficulty) # NoProblem

HasProblemFrom(list, next, maxDifficulty) ==
  SelectNextAtMost(list, next, maxDifficulty) # NoProblem

CountProblemsFrom(list, next, maxDifficulty) ==
  Cardinality({i \in DOMAIN list :
    list[i].number >= next /\ difficultyRank(list[i].difficulty) <= difficultyRank(maxDifficulty)})

NeedsRefill(list, next, maxDifficulty) ==
  CountProblemsFrom(list, next, maxDifficulty) < RefillThreshold

\* Mutant: the position follows the order of the list instead of the numbers.
CategoryProgressByIndex(list, p, maxDifficulty) ==
  LET peers == {i \in DOMAIN list : list[i].category = p.category}
  IN IF p.category = "" THEN <<0, 0>>
     ELSE <<Cardinality({i \in peers : \A j \in peers : list[j] = p => i <= j}),
            Cardinality(peers)>>

\* Position and total of a problem within its category, <<0, 0>> without one.
CategoryProgress(list, p, maxDifficulty) ==
  LET peers == {i \in DOMAIN list :
                  /\ list[i].category = p.category
                  /\ difficultyRank(list[i].difficulty) <= difficultyRank(maxDifficulty)}
  IN IF p.category = "" THEN <<0, 0>>
     ELSE <<Cardinality({i \in peers : list[i].number <= p.number}), Cardinality(peers)>>

-----------------------------------------------------------------------------
VARIABLES list,    \* the problems of the cache
          next,    \* next_problem_number of the guild
          picked,  \* the problem of the last day, NoProblem if it had none
          err,     \* the error that ended the last day without a post, or "none"
          shown    \* the progress last shown for each category from this list

vars == <<list, next, picked, err, shown>>

\* usedStaleCache: ErrRefillUsedStaleCache joined with the error of its notification;
\* refill: the fetch failed and the old cache is used up; validate: the fetched list
\* was refused; save: the cache object was not saved; noProblem: nothing to select.
Errors == {"none", "usedStaleCache", "refill", "validate", "save", "noProblem"}

NothingShown == [c \in Categories |-> <<0, 0>>]

Init ==
  /\ list \in {l \in InitialLists : Validate(l)}
  /\ next \in StartNumbers
  /\ picked = NoProblem
  /\ err = "none"
  /\ shown = NothingShown

\* Select from the list and post: the next number follows the posted one.
PickFrom(problems, before) ==
  LET p == SelectNextAtMost(problems, next, "Hard") IN
  /\ picked' = p
  /\ err' = IF p = NoProblem THEN "noProblem" ELSE "none"
  /\ next' = IF p = NoProblem THEN next ELSE p.number + 1
  /\ shown' = IF p = NoProblem \/ p.category = "" THEN before
              ELSE [before EXCEPT ![p.category] = CategoryProgress(problems, p, "Hard")]

\* execute returns before the selection.
NoPost(error) == picked' = NoProblem /\ err' = error /\ UNCHANGED next

\* A day with enough problems left.
DayFromCache ==
  /\ ~NeedsRefill(list, next, "Hard")
  /\ PickFrom(list, shown)
  /\ UNCHANGED list

\* Mutant: the fetched list replaces the cache unchecked.
DayRefilledUnchecked ==
  /\ NeedsRefill(list, next, "Hard")
  /\ \E fetched \in FetchedLists :
       list' = fetched /\ PickFrom(fetched, NothingShown)

\* The refill brings a valid list, which replaces the cache.
DayRefilled ==
  /\ NeedsRefill(list, next, "Hard")
  /\ \E fetched \in FetchedLists :
       /\ Validate(fetched)
       /\ list' = fetched
       /\ PickFrom(fetched, IF fetched = list THEN shown ELSE NothingShown)

\* The new list cannot be saved: no post, whether or not the save took effect.
DayUnsaved ==
  /\ "save" \in Faults /\ NeedsRefill(list, next, "Hard")
  /\ \E fetched \in FetchedLists :
       /\ Validate(fetched)
       /\ list' \in {list, fetched}
       /\ shown' = IF list' = list THEN shown ELSE NothingShown
  /\ NoPost("save")

\* The fetched list is rejected: no post, even if the old cache has a problem.
DayRejected ==
  /\ NeedsRefill(list, next, "Hard")
  /\ \E fetched \in FetchedLists : ~Validate(fetched)
  /\ NoPost("validate")
  /\ UNCHANGED <<list, shown>>

\* The fetch fails: the old cache is used while it has a problem.
DayStale ==
  /\ "fetch" \in Faults /\ NeedsRefill(list, next, "Hard")
  /\ IF HasProblemFrom(list, next, "Hard")
       THEN PickFrom(list, shown)
       ELSE NoPost("refill") /\ UNCHANGED shown
  /\ UNCHANGED list

\* The fetch fails, and so does the notification that the old cache is used: no post.
DayUnnotified ==
  /\ {"fetch", "notify"} \subseteq Faults /\ NeedsRefill(list, next, "Hard")
  /\ HasProblemFrom(list, next, "Hard")
  /\ NoPost("usedStaleCache")
  /\ UNCHANGED <<list, shown>>

Next ==
  \/ DayFromCache \/ DayRefilled \/ DayUnsaved \/ DayRejected \/ DayStale \/ DayUnnotified

Spec == Init /\ [][Next]_vars

-----------------------------------------------------------------------------
(* The variables stay in their types, and the cache is one that Validate   *)
(* accepts, so that SaveProblemCache never refuses it.                     *)
TypeOK ==
  /\ list \in Seq(Problem) /\ Validate(list)
  /\ next \in Nat \ {0}
  /\ picked \in Problem \cup {NoProblem}
  /\ err \in Errors
  /\ shown \in [Categories -> Nat \X Nat]

(* Each day that posts takes, from the list in use, the problem with the   *)
(* smallest number not below next, and only a post moves next: the search  *)
(* by number of selectNext agrees with this definition by sets.            *)
PicksTheNext ==
  [][LET numbers == {list'[i].number : i \in DOMAIN list'}
         left    == {n \in numbers : n >= next} IN
     IF picked' = NoProblem THEN next' = next
     ELSE /\ picked'.number \in left
          /\ \A n \in left : picked'.number <= n
          /\ next' = picked'.number + 1]_vars

UsedUp(problems) == \A i \in DOMAIN problems : problems[i].number < next

(* A day that ends because no problem was found, or none to fall back on   *)
(* when the fetch failed, has used up the list at hand: counting against   *)
(* the threshold, the fallback of Refresh and the search agree on what is  *)
(* left.  A list refused, a save or an alert that failed ends a day too,   *)
(* under an error of its own and with the old cache perhaps still of use,  *)
(* against .plans/leetdaily-design.md:108.                                 *)
CacheIsUsedUp ==
  [][err' \in {"refill", "noProblem"} => UsedUp(list')]_vars

(* As long as the list stays, the (position/total) a guild sees for a      *)
(* category goes up one by one and never passes the total.                 *)
ProgressCountsUp ==
  [][\A c \in Categories :
       /\ shown'[c][1] <= shown'[c][2]
       /\ list' = list /\ shown[c] # <<0, 0>> /\ shown'[c] # shown[c] =>
            shown'[c] = <<shown[c][1] + 1, shown[c][2]>>]_vars
=============================================================================
