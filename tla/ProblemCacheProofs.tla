-------------------------- MODULE ProblemCacheProofs --------------------------
(***************************************************************************)
(* Proofs about the choice of the next problem and the progress shown, for *)
(* any problem lists, start numbers and refill threshold.                  *)
(***************************************************************************)
EXTENDS ProblemCache, FiniteSetTheorems, TLAPS

-----------------------------------------------------------------------------
(* Finite sets of numbers have a smallest and a largest element: the       *)
(* elements not above (not below) one of them form a set that is minimal   *)
(* for inclusion.                                                          *)

MinimalIn(T, X) == \A Y \in T : Y \subseteq X => Y = X

LEMMA MinimalPart ==
  ASSUME NEW S, IsFiniteSet(S), NEW T \in SUBSET SUBSET S, T # {}
  PROVE  \E X \in T : MinimalIn(T, X)
<1> DEFINE R == StrictSubsetOrdering(S)
<1>1. IsWellFoundedOn(R, SUBSET S)
  BY FS_StrictSubsetOrderingWellFounded, FS_FiniteSubsetsOfFinite
<1> HIDE DEF R
<1>2. PICK X \in T : \A Y \in T : ~(<<Y, X>> \in R)
  BY <1>1, WFMin
<1>3. ASSUME NEW Y \in T, Y \subseteq X, Y # X
      PROVE  <<Y, X>> \in R
  BY <1>3 DEF StrictSubsetOrdering, R
<1>4. MinimalIn(T, X)
  BY <1>2, <1>3 DEF MinimalIn
<1> QED
  BY <1>4

AtMost(S, n) == {m \in S : m <= n}

AtLeast(S, n) == {m \in S : n <= m}

LEMMA Smallest ==
  ASSUME NEW S \in SUBSET Int, IsFiniteSet(S), S # {}
  PROVE  \E n \in S : \A m \in S : n <= m
<1> DEFINE T == {AtMost(S, n) : n \in S}
<1>1. T \in SUBSET SUBSET S /\ T # {}
  BY DEF AtMost
<1>2. \A X \in T : \E n \in S : X = AtMost(S, n)
  OBVIOUS
<1>3. \A n \in S : AtMost(S, n) \in T
  OBVIOUS
<1> HIDE DEF T
<1>4. PICK X \in T : MinimalIn(T, X)
  BY <1>1, MinimalPart
<1>5. PICK n \in S : X = AtMost(S, n)
  BY <1>2
<1>6. ASSUME NEW m \in S, m < n
      PROVE  FALSE
  <2>1. n \in Int /\ m \in Int
    OBVIOUS
  <2>2. AtMost(S, m) \subseteq AtMost(S, n)
    <3>1. \A k \in S : k <= m => k <= n
      BY <1>6, <2>1
    <3> QED
      BY <3>1 DEF AtMost
  <2>3. n \in AtMost(S, n) /\ n \notin AtMost(S, m)
    BY <1>6 DEF AtMost
  <2> QED
    BY <1>3, <1>4, <1>5, <2>2, <2>3 DEF MinimalIn
<1>7. \A m \in S : n <= m
  BY <1>6
<1> QED
  BY <1>7

LEMMA Largest ==
  ASSUME NEW S \in SUBSET Int, IsFiniteSet(S), S # {}
  PROVE  \E n \in S : \A m \in S : m <= n
<1> DEFINE T == {AtLeast(S, n) : n \in S}
<1>1. T \in SUBSET SUBSET S /\ T # {}
  BY DEF AtLeast
<1>2. \A X \in T : \E n \in S : X = AtLeast(S, n)
  OBVIOUS
<1>3. \A n \in S : AtLeast(S, n) \in T
  OBVIOUS
<1> HIDE DEF T
<1>4. PICK X \in T : MinimalIn(T, X)
  BY <1>1, MinimalPart
<1>5. PICK n \in S : X = AtLeast(S, n)
  BY <1>2
<1>6. ASSUME NEW m \in S, n < m
      PROVE  FALSE
  <2>1. n \in Int /\ m \in Int
    OBVIOUS
  <2>2. AtLeast(S, m) \subseteq AtLeast(S, n)
    <3>1. \A k \in S : m <= k => n <= k
      BY <1>6, <2>1
    <3> QED
      BY <3>1 DEF AtLeast
  <2>3. n \in AtLeast(S, n) /\ n \notin AtLeast(S, m)
    BY <1>6 DEF AtLeast
  <2> QED
    BY <1>3, <1>4, <1>5, <2>2, <2>3 DEF MinimalIn
<1>7. \A m \in S : m <= n
  BY <1>6
<1> QED
  BY <1>7

-----------------------------------------------------------------------------
(* The index by number.                                                    *)

NumbersOf(l) == {l[i].number : i \in DOMAIN l}

LEMMA ListFacts ==
  ASSUME NEW l \in Seq(Problem)
  PROVE  /\ DOMAIN l = 1 .. Len(l) /\ Len(l) \in Nat /\ IsFiniteSet(DOMAIN l)
         /\ \A i \in DOMAIN l : l[i] \in Problem
         /\ NumbersOf(l) \subseteq Nat \ {0} /\ IsFiniteSet(NumbersOf(l))
<1>1. DOMAIN l = 1 .. Len(l) /\ Len(l) \in Nat /\ \A i \in DOMAIN l : l[i] \in Problem
  OBVIOUS
<1>2. IsFiniteSet(DOMAIN l)
  BY <1>1, FS_Interval
<1>3. NumbersOf(l) \subseteq Nat \ {0}
  BY <1>1 DEF NumbersOf, Problem
<1>4. IsFiniteSet(NumbersOf(l))
  <2> DEFINE f == [i \in DOMAIN l |-> l[i].number]
  <2>1. f \in Surjection(DOMAIN l, NumbersOf(l))
    BY DEF Surjection, NumbersOf
  <2> HIDE DEF f
  <2> QED
    BY <1>2, <2>1, FS_Surjection
<1> QED
  BY <1>1, <1>2, <1>3, <1>4

LEMMA Indexed ==
  ASSUME NEW l \in Seq(Problem)
  PROVE  /\ DOMAIN ByNumber(l) = NumbersOf(l)
         /\ \A n \in NumbersOf(l) :
              \E i \in DOMAIN l : ByNumber(l)[n] = l[i] /\ l[i].number = n
<1> DEFINE at(n) == {i \in DOMAIN l : l[i].number = n}
<1>1. DOMAIN ByNumber(l) = NumbersOf(l)
  BY DEF ByNumber, NumbersOf
<1>2. ASSUME NEW n \in NumbersOf(l)
      PROVE  \E i \in DOMAIN l : ByNumber(l)[n] = l[i] /\ l[i].number = n
  <2>1. ByNumber(l)[n] = l[CHOOSE i \in at(n) : \A j \in at(n) : j <= i]
    BY DEF ByNumber, NumbersOf
  <2>2. at(n) # {}
    BY DEF NumbersOf
  <2>3. at(n) \in SUBSET Int /\ IsFiniteSet(at(n))
    BY ListFacts, FS_Subset
  <2> DEFINE S == at(n)
             c == CHOOSE i \in S : \A j \in S : j <= i
  <2> HIDE DEF S
  <2>4. \E i \in S : \A j \in S : j <= i
    BY <2>2, <2>3, Largest DEF S
  <2>5. c \in S
    BY <2>4
  <2> QED
    BY <2>1, <2>5 DEF S
<1> QED
  BY <1>1, <1>2

LEMMA MaxNumber ==
  ASSUME NEW l \in Seq(Problem), NEW n \in NumbersOf(l)
  PROVE  maxProblemNumber(ByNumber(l)) \in Nat /\ n <= maxProblemNumber(ByNumber(l))
<1> DEFINE S == NumbersOf(l)
           c == CHOOSE m \in S : \A k \in S : k <= m
<1>1. S \in SUBSET Int /\ IsFiniteSet(S) /\ S # {} /\ S \subseteq Nat
  BY ListFacts
<1>2. maxProblemNumber(ByNumber(l)) = c
  BY <1>1, Indexed DEF maxProblemNumber
<1> HIDE DEF S
<1>3. \E m \in S : \A k \in S : k <= m
  BY <1>1, Largest
<1>4. c \in S /\ \A k \in S : k <= c
  BY <1>3
<1> QED
  BY <1>1, <1>2, <1>4 DEF S

LEMMA Ranks == \A d \in Difficulties : difficultyRank(d) <= difficultyRank("Hard")
BY DEF Difficulties, difficultyRank

(* The search by number finds the smallest number not below n, and nothing *)
(* only where no number is left.                                           *)
LEMMA Selected ==
  ASSUME NEW l \in Seq(Problem), NEW n \in Nat \ {0}
  PROVE  LET p == SelectNextAtMost(l, n, "Hard") IN
         \/ p = NoProblem /\ \A i \in DOMAIN l : l[i].number < n
         \/ /\ p \in Problem /\ p # NoProblem /\ p.number >= n
            /\ \E i \in DOMAIN l : p = l[i]
            /\ \A i \in DOMAIN l : l[i].number >= n => p.number <= l[i].number
<1> DEFINE indexed == ByNumber(l)
           found   == Candidates(indexed, n, "Hard")
           c       == CHOOSE m \in found : \A k \in found : m <= k
           p       == SelectNextAtMost(l, n, "Hard")
<1>1. DOMAIN indexed = NumbersOf(l) /\ NumbersOf(l) \subseteq Nat \ {0} /\ IsFiniteSet(NumbersOf(l))
  BY Indexed, ListFacts
<1>2. \A m \in NumbersOf(l) :
        \E i \in DOMAIN l : indexed[m] = l[i] /\ l[i].number = m /\ l[i] \in Problem
  BY Indexed, ListFacts
<1>3. found = {m \in NumbersOf(l) : m >= n}
  <2>1. ASSUME NEW m \in NumbersOf(l), m >= n
        PROVE  m \in found
    <3>1. m \in n .. maxProblemNumber(indexed)
      BY <1>1, <2>1, MaxNumber
    <3>2. difficultyRank(indexed[m].difficulty) <= difficultyRank("Hard")
      BY <1>2, Ranks DEF Problem
    <3> QED
      BY <1>1, <3>1, <3>2 DEF Candidates
  <2>2. ASSUME NEW m \in found
        PROVE  m \in NumbersOf(l) /\ m >= n
    BY <1>1 DEF Candidates
  <2> HIDE DEF found
  <2> QED
    BY <2>1, <2>2
<1>4. p = IF n < 1 \/ found = {} THEN NoProblem ELSE indexed[c]
  BY DEF SelectNextAtMost
<1>5. found \in SUBSET Int /\ IsFiniteSet(found)
  <2> HIDE DEF found
  <2> QED
    BY <1>1, <1>3, FS_Subset
<1> HIDE DEF found, p, indexed
<1>6. \A i \in DOMAIN l : l[i].number \in NumbersOf(l)
  BY DEF NumbersOf
<1>7. CASE found = {}
  <2>1. \A i \in DOMAIN l : l[i].number < n
    BY <1>1, <1>3, <1>6, <1>7
  <2> QED
    BY <1>4, <1>7, <2>1 DEF p
<1>8. CASE found # {}
  <2>1. \E m \in found : \A k \in found : m <= k
    BY <1>5, <1>8, Smallest
  <2>2. c \in found /\ \A k \in found : c <= k
    BY <2>1
  <2> HIDE DEF c
  <2>3. p = indexed[c]
    BY <1>4, <1>8
  <2>4. PICK i \in DOMAIN l : indexed[c] = l[i] /\ l[i].number = c /\ l[i] \in Problem
    BY <1>2, <1>3, <2>2
  <2>5. p \in Problem /\ p # NoProblem /\ p.number = c /\ p = l[i] /\ c >= n
    BY <1>3, <2>2, <2>3, <2>4, NoProblemAssumption
  <2>6. \A j \in DOMAIN l : l[j].number >= n => c <= l[j].number
    BY <1>3, <1>6, <2>2
  <2> QED
    BY <2>5, <2>6 DEF p
<1> QED
  BY <1>7, <1>8

-----------------------------------------------------------------------------
(* The progress shown.                                                     *)

Peers(l, c) == {i \in DOMAIN l : l[i].category = c}

Below(l, c, n) == {i \in Peers(l, c) : l[i].number < n}

Progress(l, c, n) == <<Cardinality(Below(l, c, n)), Cardinality(Peers(l, c))>>

(* What a category shows counts its problems in the list, and those among  *)
(* them that are already behind the next number: problems of others may    *)
(* have been posted since.                                                 *)
Shows(l, n, sh) ==
  \A c \in Categories : sh[c] # <<0, 0>> => c # "" /\ sh[c] = Progress(l, c, n)

LEMMA Counts ==
  ASSUME NEW l \in Seq(Problem), NEW c, NEW n \in Nat
  PROVE  /\ IsFiniteSet(Below(l, c, n)) /\ IsFiniteSet(Peers(l, c))
         /\ Cardinality(Below(l, c, n)) \in Nat /\ Cardinality(Peers(l, c)) \in Nat
         /\ Cardinality(Below(l, c, n)) <= Cardinality(Peers(l, c))
<1>1. IsFiniteSet(Peers(l, c))
  BY ListFacts, FS_Subset DEF Peers
<1>2. Below(l, c, n) \in SUBSET Peers(l, c)
  BY DEF Below
<1>3. /\ IsFiniteSet(Below(l, c, n))
      /\ Cardinality(Below(l, c, n)) <= Cardinality(Peers(l, c))
  BY <1>1, <1>2, FS_Subset
<1> QED
  BY <1>1, <1>3, FS_CardinalityType

LEMMA UpTo == \A a \in Nat : \A b \in Nat : (a <= b) <=> (a < b + 1)
<1>1. ASSUME NEW a \in Nat, NEW b \in Nat
      PROVE  (a <= b) <=> (a < b + 1)
  OBVIOUS
<1> QED
  BY <1>1

LEMMA ProgressOf ==
  ASSUME NEW l \in Seq(Problem), NEW p \in Problem, p.category # ""
  PROVE  CategoryProgress(l, p, "Hard") = Progress(l, p.category, p.number + 1)
<1> DEFINE peers == {i \in DOMAIN l : /\ l[i].category = p.category
                                     /\ difficultyRank(l[i].difficulty) <= difficultyRank("Hard")}
           upTo  == {i \in peers : l[i].number <= p.number}
<1>1. CategoryProgress(l, p, "Hard") = <<Cardinality(upTo), Cardinality(peers)>>
  BY DEF CategoryProgress
<1>2. peers = Peers(l, p.category)
  <2>1. \A i \in DOMAIN l : difficultyRank(l[i].difficulty) <= difficultyRank("Hard")
    BY ListFacts, Ranks DEF Problem
  <2> QED
    BY <2>1 DEF Peers
<1>3. upTo = Below(l, p.category, p.number + 1)
  <2>1. \A i \in DOMAIN l : l[i].number \in Nat
    BY ListFacts DEF Problem
  <2>2. p.number \in Nat
    BY DEF Problem
  <2>3. \A i \in DOMAIN l : l[i].number <= p.number <=> l[i].number < p.number + 1
    <3> QED
      BY <2>1, <2>2, UpTo
  <2>4. \A i \in peers : i \in DOMAIN l
    OBVIOUS
  <2> HIDE DEF peers
  <2> QED
    BY <1>2, <2>3, <2>4 DEF Below
<1> QED
  BY <1>1, <1>2, <1>3 DEF Progress

\* A post passes one problem, of its own category.
LEMMA OnePassed ==
  ASSUME NEW l \in Seq(Problem), Validate(l), NEW n \in Nat \ {0}, NEW p \in Problem,
         p = SelectNextAtMost(l, n, "Hard"), NEW c
  PROVE  /\ c # p.category => Progress(l, c, p.number + 1) = Progress(l, c, n)
         /\ c = p.category =>
              Progress(l, c, p.number + 1) =
                <<Cardinality(Below(l, c, n)) + 1, Cardinality(Peers(l, c))>>
<1>1. /\ p.number >= n /\ p.number \in Nat
      /\ \E i \in DOMAIN l : p = l[i]
      /\ \A i \in DOMAIN l : l[i].number >= n => p.number <= l[i].number
  BY Selected, NoProblemAssumption DEF Problem
<1>2. PICK k \in DOMAIN l : p = l[k]
  BY <1>1
<1>3. \A i \in DOMAIN l : l[i].number \in Nat /\ (l[i].number = p.number => i = k)
  <2>1. \A i, j \in DOMAIN l : l[i].number = l[j].number => i = j
    BY DEF Validate, IsInjective
  <2> QED
    BY <1>2, <2>1, ListFacts DEF Problem
<1>4. \A i \in DOMAIN l : l[i].number < p.number + 1 <=> l[i].number < n \/ i = k
  BY <1>1, <1>2, <1>3
<1>5. ~(l[k].number < n)
  BY <1>1, <1>2
<1>6. CASE c # p.category
  <2>1. Below(l, c, p.number + 1) = Below(l, c, n)
    BY <1>2, <1>4, <1>6 DEF Below, Peers
  <2> QED
    BY <1>6, <2>1 DEF Progress
<1>7. CASE c = p.category
  <2>1. Below(l, c, p.number + 1) = Below(l, c, n) \cup {k} /\ k \notin Below(l, c, n)
    BY <1>2, <1>4, <1>5, <1>7 DEF Below, Peers
  <2>2. Cardinality(Below(l, c, p.number + 1)) = Cardinality(Below(l, c, n)) + 1
    BY <2>1, Counts, FS_AddElement
  <2> QED
    BY <1>7, <2>2 DEF Progress
<1> QED
  BY <1>6, <1>7

-----------------------------------------------------------------------------
(* A day.                                                                  *)

Shown == [Categories -> Nat \X Nat]

(* What a selection from a list and the post of its result do.             *)
LEMMA PickFacts ==
  ASSUME next \in Nat \ {0}, NEW l \in Seq(Problem), Validate(l),
         NEW before \in Shown, Shows(l, next, before), PickFrom(l, before)
  PROVE  /\ next' \in Nat \ {0} /\ shown' \in Shown /\ Shows(l, next', shown')
         /\ \/ /\ picked' = NoProblem /\ next' = next
               /\ \A i \in DOMAIN l : l[i].number < next
            \/ /\ picked' \in Problem /\ picked' # NoProblem /\ next' = picked'.number + 1
               /\ picked'.number >= next
               /\ \E i \in DOMAIN l : picked' = l[i]
               /\ \A i \in DOMAIN l : l[i].number >= next => picked'.number <= l[i].number
         /\ \A c \in Categories : before[c] # <<0, 0>> /\ shown'[c] # before[c] =>
              shown'[c] = <<before[c][1] + 1, before[c][2]>>
<1> DEFINE p == SelectNextAtMost(l, next, "Hard")
<1>1. /\ picked' = p
      /\ next' = IF p = NoProblem THEN next ELSE p.number + 1
      /\ shown' = IF p = NoProblem \/ p.category = "" THEN before
                  ELSE [before EXCEPT ![p.category] = CategoryProgress(l, p, "Hard")]
  BY DEF PickFrom
<1>2. \/ p = NoProblem /\ \A i \in DOMAIN l : l[i].number < next
      \/ /\ p \in Problem /\ p # NoProblem /\ p.number >= next
         /\ \E i \in DOMAIN l : p = l[i]
         /\ \A i \in DOMAIN l : l[i].number >= next => p.number <= l[i].number
  BY Selected
<1>3. p \in Problem =>
        \A c : /\ c # p.category => Progress(l, c, p.number + 1) = Progress(l, c, next)
               /\ c = p.category =>
                    Progress(l, c, p.number + 1) =
                      <<Cardinality(Below(l, c, next)) + 1, Cardinality(Peers(l, c))>>
  BY OnePassed
<1>4. p \in Problem /\ p.category # "" =>
        CategoryProgress(l, p, "Hard") = Progress(l, p.category, p.number + 1)
  BY ProgressOf
<1> HIDE DEF p
<1>5. CASE p = NoProblem
  BY <1>1, <1>2, <1>5, NoProblemAssumption
<1>6. CASE p \in Problem /\ p # NoProblem
  <2>1. /\ p.number \in Nat \ {0} /\ p.category \in Categories \cup {""}
        /\ next' = p.number + 1 /\ next' \in Nat \ {0}
    <3>1. p.number \in Nat \ {0} /\ p.category \in Categories \cup {""}
      BY <1>6 DEF Problem
    <3>2. next' = p.number + 1
      BY <1>1, <1>6
    <3>3. \A a \in Nat \ {0} : a + 1 \in Nat \ {0}
      OBVIOUS
    <3> QED
      BY <3>1, <3>2, <3>3
  <2>4. ASSUME NEW c, c # p.category
        PROVE  Progress(l, c, next') = Progress(l, c, next)
    <3>1. Progress(l, c, p.number + 1) = Progress(l, c, next)
      BY <1>3, <1>6, <2>4
    <3>2. next' = p.number + 1
      BY <2>1
    <3> QED
      BY <3>1, <3>2, Zenon
  <2>2. CASE p.category = ""
    <3>1. shown' = before
      BY <1>1, <2>2
    <3>2. \A c \in Categories : before[c] # <<0, 0>> =>
            c # "" /\ before[c] = Progress(l, c, next')
      BY <2>2, <2>4 DEF Shows
    <3>3. Shows(l, next', shown')
      BY <3>1, <3>2 DEF Shows
    <3> QED
      BY <1>1, <1>2, <1>6, <2>1, <3>1, <3>3
  <2>3. CASE p.category # ""
    <3> DEFINE d == p.category
               new == Progress(l, d, next')
    <3>1. d \in Categories /\ shown' = [before EXCEPT ![d] = new]
      BY <1>1, <1>4, <1>6, <2>1, <2>3
    <3>2. new = <<Cardinality(Below(l, d, next)) + 1, Cardinality(Peers(l, d))>>
      BY <1>3, <1>6, <2>1
    <3>3. /\ Cardinality(Below(l, d, next)) \in Nat /\ Cardinality(Peers(l, d)) \in Nat
          /\ new \in Nat \X Nat
      BY <3>2, Counts
    <3> HIDE DEF new, d
    <3>4. /\ shown' \in Shown /\ shown'[d] = new
          /\ \A c \in Categories \ {d} : shown'[c] = before[c]
      BY <3>1, <3>3 DEF Shown
    <3>5. Shows(l, next', shown')
      <4>1. ASSUME NEW c \in Categories \ {d}, before[c] # <<0, 0>>
            PROVE  c # "" /\ before[c] = Progress(l, c, next')
        BY <2>4, <4>1 DEF Shows, d
      <4>2. d # "" /\ new = Progress(l, d, next')
        BY <2>3 DEF d, new
      <4> QED
        BY <3>4, <4>1, <4>2 DEF Shows
    <3>6. ASSUME NEW c \in Categories, before[c] # <<0, 0>>, shown'[c] # before[c]
          PROVE  shown'[c] = <<before[c][1] + 1, before[c][2]>>
      <4>1. c = d
        BY <3>4, <3>6
      <4>2. before[d] = <<Cardinality(Below(l, d, next)), Cardinality(Peers(l, d))>>
        BY <3>6, <4>1 DEF Shows, Progress
      <4> QED
        BY <3>2, <3>4, <4>1, <4>2
    <3> QED
      BY <1>1, <1>2, <1>6, <2>1, <3>4, <3>5, <3>6
  <2> QED
    BY <2>2, <2>3
<1> QED
  BY <1>2, <1>5, <1>6

-----------------------------------------------------------------------------
(* The invariant and the theorems.                                         *)

CacheInv == TypeOK /\ Shows(list, next, shown)

LEMMA NothingShows ==
  ASSUME NEW l \in Seq(Problem), NEW n \in Nat
  PROVE  NothingShown \in Shown /\ Shows(l, n, NothingShown)
BY DEF NothingShown, Shown, Shows

LEMMA InitCache == Init => CacheInv
<1> SUFFICES ASSUME Init PROVE CacheInv
  OBVIOUS
<1>1. list \in Seq(Problem) /\ Validate(list) /\ next \in Nat \ {0} /\ shown = NothingShown
  BY ListsAssumption, StartAssumption DEF Init
<1> QED
  BY <1>1, NothingShows DEF Init, CacheInv, TypeOK, Shown, Errors

\* Whatever a day does, a post is the problem with the smallest number left in the
\* list in use, the progress of a category counts up by one at most, and an error that
\* says that nothing is left is true.
DayFacts ==
  /\ IF picked' = NoProblem
       THEN next' = next
       ELSE /\ picked' \in Problem /\ next' = picked'.number + 1 /\ picked'.number >= next
            /\ \E i \in DOMAIN list' : picked' = list'[i]
            /\ \A i \in DOMAIN list' : list'[i].number >= next => picked'.number <= list'[i].number
  /\ \A c \in Categories :
       list' = list /\ shown[c] # <<0, 0>> /\ shown'[c] # shown[c] =>
         shown'[c] = <<shown[c][1] + 1, shown[c][2]>>
  /\ err' \in {"refill", "noProblem"} => UsedUp(list')

\* A day that posts from the list l, starting from what was shown before.
LEMMA PostingDay ==
  ASSUME CacheInv, NEW l \in Seq(Problem), Validate(l), list' = l, NEW before \in Shown,
         Shows(l, next, before), PickFrom(l, before), l = list => before = shown
  PROVE  CacheInv' /\ DayFacts
<1>1. next \in Nat \ {0}
  BY DEF CacheInv, TypeOK
<1>2. /\ next' \in Nat \ {0} /\ shown' \in Shown /\ Shows(l, next', shown')
      /\ \/ /\ picked' = NoProblem /\ next' = next
            /\ \A i \in DOMAIN l : l[i].number < next
         \/ /\ picked' \in Problem /\ picked' # NoProblem /\ next' = picked'.number + 1
            /\ picked'.number >= next
            /\ \E i \in DOMAIN l : picked' = l[i]
            /\ \A i \in DOMAIN l : l[i].number >= next => picked'.number <= l[i].number
      /\ \A c \in Categories : before[c] # <<0, 0>> /\ shown'[c] # before[c] =>
           shown'[c] = <<before[c][1] + 1, before[c][2]>>
  BY <1>1, PickFacts
<1>3. err' = IF picked' = NoProblem THEN "noProblem" ELSE "none"
  BY DEF PickFrom
<1>4. CacheInv'
  BY <1>2, <1>3 DEF CacheInv, TypeOK, Shown, Errors
<1>5. DayFacts
  BY <1>2, <1>3 DEF DayFacts, UsedUp
<1> QED
  BY <1>4, <1>5

\* A day that ends before the selection.
LEMMA NoPostDay ==
  ASSUME CacheInv, NEW error \in Errors, NoPost(error), UNCHANGED <<list, shown>>,
         error \in {"refill", "noProblem"} => UsedUp(list)
  PROVE  CacheInv' /\ DayFacts
BY DEF CacheInv, TypeOK, DayFacts, Shown, NoPost, UsedUp

LEMMA Days == ASSUME CacheInv, Next PROVE CacheInv' /\ DayFacts
<1>1. /\ list \in Seq(Problem) /\ Validate(list) /\ next \in Nat \ {0}
      /\ shown \in Shown /\ Shows(list, next, shown)
  BY DEF CacheInv, TypeOK, Shown
<1>2. ASSUME PickFrom(list, shown), list' = list
      PROVE  CacheInv' /\ DayFacts
  BY <1>1, <1>2, PostingDay
<1>3. \A l \in FetchedLists : l \in Seq(Problem)
  BY ListsAssumption
<1>4. CASE DayFromCache
  BY <1>2, <1>4 DEF DayFromCache
<1>5. CASE DayStale
  <2>1. CASE HasProblemFrom(list, next, "Hard")
    BY <1>2, <1>5, <2>1 DEF DayStale
  <2>2. CASE ~HasProblemFrom(list, next, "Hard")
    <3>1. NoPost("refill") /\ UNCHANGED <<list, shown>>
      BY <1>5, <2>2 DEF DayStale
    <3>2. UsedUp(list)
      BY <1>1, <2>2, Selected DEF HasProblemFrom, UsedUp
    <3> QED
      BY <3>1, <3>2, NoPostDay DEF Errors
  <2> QED
    BY <2>1, <2>2
<1>6. CASE DayRefilled
  <2>1. PICK l \in FetchedLists :
          Validate(l) /\ list' = l /\ PickFrom(l, IF l = list THEN shown ELSE NothingShown)
    BY <1>6 DEF DayRefilled
  <2> DEFINE before == IF l = list THEN shown ELSE NothingShown
  <2>2. before \in Shown /\ Shows(l, next, before)
    BY <1>1, <1>3, NothingShows
  <2>3. PickFrom(l, before) /\ (l = list => before = shown)
    BY <2>1
  <2> HIDE DEF before
  <2> QED
    BY <1>3, <2>1, <2>2, <2>3, PostingDay
<1>7. CASE DayUnsaved
  <2>1. PICK l \in FetchedLists :
          /\ Validate(l) /\ list' \in {list, l} /\ NoPost("save")
          /\ shown' = IF list' = list THEN shown ELSE NothingShown
    BY <1>7 DEF DayUnsaved
  <2>2. CASE list' = list
    BY <2>1, <2>2, NoPostDay DEF Errors
  <2>3. CASE list' # list
    <3>1. list' = l /\ l \in Seq(Problem) /\ shown' = NothingShown /\ next' = next
      BY <1>3, <2>1, <2>3 DEF NoPost
    <3>2. shown' \in Shown /\ Shows(list', next', shown')
      BY <1>1, <3>1, NothingShows
    <3>3. CacheInv'
      BY <1>1, <2>1, <3>1, <3>2 DEF CacheInv, TypeOK, Shown, NoPost, Errors
    <3>4. DayFacts
      BY <2>1, <2>3 DEF DayFacts, NoPost
    <3> QED
      BY <3>3, <3>4
  <2> QED
    BY <2>2, <2>3
<1>8. CASE DayRejected
  BY <1>8, NoPostDay DEF DayRejected, Errors
<1>9. CASE DayUnnotified
  BY <1>9, NoPostDay DEF DayUnnotified, Errors
<1> QED
  BY <1>4, <1>5, <1>6, <1>7, <1>8, <1>9 DEF Next

LEMMA NextCache == CacheInv /\ [Next]_vars => CacheInv'
<1>1. CacheInv /\ UNCHANGED vars => CacheInv'
  BY DEF CacheInv, TypeOK, vars, Shows
<1> QED
  BY <1>1, Days

LEMMA CacheInvariant == Spec => []CacheInv
BY InitCache, NextCache, PTL DEF Spec

(* Every variable keeps its type, and the cached list stays one that       *)
(* Validate accepts, whatever lists the source returns.                    *)
THEOREM TypeCorrect == Spec => []TypeOK
<1>1. CacheInv => TypeOK
  BY DEF CacheInv
<1> QED
  BY <1>1, CacheInvariant, PTL

(* The loop of selectNext finds the smallest number of the list that is    *)
(* not below the guild's next one, and only a post moves that one.         *)
THEOREM PostsInOrder == Spec => PicksTheNext
<1> DEFINE Picks == LET numbers == {list'[i].number : i \in DOMAIN list'}
                        left    == {n \in numbers : n >= next} IN
                    IF picked' = NoProblem THEN next' = next
                    ELSE /\ picked'.number \in left
                         /\ \A n \in left : picked'.number <= n
                         /\ next' = picked'.number + 1
<1>1. CacheInv /\ Next => Picks
  BY Days DEF DayFacts
<1>2. CacheInv /\ [Next]_vars => [Picks]_vars
  BY <1>1
<1> QED
  BY <1>2, CacheInvariant, PTL DEF Spec, PicksTheNext

(* An error of Run that says that no problem is left tells the truth: the  *)
(* count against the threshold, the fallback on the old cache and the      *)
(* search never lose a problem between them.                               *)
THEOREM NothingLeftBehind == Spec => CacheIsUsedUp
<1> DEFINE Truth == err' \in {"refill", "noProblem"} => UsedUp(list')
<1>1. CacheInv /\ [Next]_vars => [Truth]_vars
  BY Days DEF DayFacts
<1> QED
  BY <1>1, CacheInvariant, PTL DEF Spec, CacheIsUsedUp

(* While the list stays, the position shown for a category goes up one by  *)
(* one, whatever other categories post in between, and never passes the    *)
(* total.                                                                  *)
THEOREM CountsUp == Spec => ProgressCountsUp
<1> DEFINE Up == \A c \in Categories :
                   /\ shown'[c][1] <= shown'[c][2]
                   /\ list' = list /\ shown[c] # <<0, 0>> /\ shown'[c] # shown[c] =>
                        shown'[c] = <<shown[c][1] + 1, shown[c][2]>>
<1>1. ASSUME CacheInv', NEW c \in Categories
      PROVE  shown'[c][1] <= shown'[c][2]
  <2>1. CASE shown'[c] = <<0, 0>>
    BY <2>1
  <2>2. CASE shown'[c] # <<0, 0>>
    <3>1. list' \in Seq(Problem) /\ next' \in Nat /\ shown'[c] = Progress(list', c, next')
      BY <1>1, <2>2 DEF CacheInv, TypeOK, Shows
    <3> QED
      BY <3>1, Counts DEF Progress
  <2> QED
    BY <2>1, <2>2
<1>2. CacheInv /\ Next => Up
  BY <1>1, Days DEF DayFacts
<1>3. CacheInv /\ [Next]_vars => [Up]_vars
  BY <1>2
<1> QED
  BY <1>3, CacheInvariant, PTL DEF Spec, ProgressCountsUp
=============================================================================
