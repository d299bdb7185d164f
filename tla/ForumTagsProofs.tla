--------------------------- MODULE ForumTagsProofs ---------------------------
(***************************************************************************)
(* Proofs about the difficulty tags of a forum, for any number of runs,    *)
(* edits of the moderator and failed requests, any names and any way of    *)
(* normalizing them that leaves the difficulties as they are.              *)
(***************************************************************************)
EXTENDS ForumTags, FiniteSetTheorems, TLAPS

(* A list that was read holds no two tags of one normalized name, and no   *)
(* tag of it was renamed since: a tag of the forum with its id is the same. *)
IsRead(seen, tags, last) ==
  /\ IsFiniteSet(seen) /\ seen \subseteq Tag
  /\ \A t, u \in seen : Key(t) = Key(u) => t = u
  /\ \A t \in seen : t.id <= last
  /\ \A t \in seen, u \in tags : t.id = u.id => t = u

SeenOK(seen) == IsRead(seen, forum, lastId)

SeenInv == \A r \in Runs : run[r].pc = "patch" => SeenOK(run[r].seen)

TagInv == TypeOK /\ IsFiniteSet(forum) /\ NoDuplicateDifficulty /\ SeenInv

-----------------------------------------------------------------------------
(* The tags of a list of names.                                            *)

LEMMA SetOrder ==
  ASSUME NEW S, IsFiniteSet(S)
  PROVE  /\ Cardinality(S) \in Nat
         /\ SetToSeq(S) \in Bijection(1 .. Cardinality(S), S)
         /\ Len(SetToSeq(S)) = Cardinality(S)
<1> DEFINE n == Cardinality(S)
           order == SetToSeq(S)
<1>1. n \in Nat /\ ExistsBijection(1 .. n, S)
  BY FS_CardinalityType
<1>2. PICK f : f \in [1 .. n -> S] /\ IsInjective(f)
  BY <1>1 DEF ExistsBijection, Bijection, Injection
<1>3. order \in [1 .. n -> S] /\ IsInjective(order)
  BY <1>2 DEF SetToSeq
<1>4. IsFiniteSet(1 .. n) /\ Cardinality(1 .. n) = n
  BY <1>1, FS_Interval
<1> HIDE DEF n, order
<1>5. order \in Injection(1 .. n, S)
  BY <1>3 DEF Injection
<1>6. order \in Surjection(1 .. n, S)
  BY <1>4, <1>5, FS_Injection DEF n
<1>7. Len(order) = n
  BY <1>1, <1>3 DEF n
<1> QED
  BY <1>1, <1>5, <1>6, <1>7 DEF Bijection, n, order

LEMMA NumberedTags ==
  ASSUME NEW names \in SUBSET Names, IsFiniteSet(names), NEW first \in Nat \ {0}
  PROVE  /\ Cardinality(names) \in Nat
         /\ Numbered(names, first) \subseteq Tag
         /\ IsFiniteSet(Numbered(names, first))
         /\ Cardinality(Numbered(names, first)) = Cardinality(names)
         /\ \A t \in Numbered(names, first) :
              first <= t.id /\ t.id < first + Cardinality(names) /\ t.name \in names
         /\ \A t, u \in Numbered(names, first) : t.id = u.id \/ t.name = u.name => t = u
         /\ \A name \in names : \E t \in Numbered(names, first) : t.name = name
<1> DEFINE n == Cardinality(names)
           order == SetToSeq(names)
           new == Numbered(names, first)
           f == [i \in 1 .. n |-> [id |-> first + i - 1, name |-> order[i]]]
<1>1. /\ n \in Nat /\ Len(order) = n /\ order \in [1 .. n -> names]
      /\ \A i, j \in 1 .. n : order[i] = order[j] => i = j
      /\ \A name \in names : \E i \in 1 .. n : order[i] = name
  BY SetOrder DEF Bijection, Injection, Surjection, IsInjective
<1>2. new = {[id |-> first + i - 1, name |-> order[i]] : i \in 1 .. n}
  BY <1>1 DEF Numbered
<1> HIDE DEF order, new, n
<1>3. ASSUME NEW t \in new
      PROVE  \E i \in 1 .. n : t.id = first + i - 1 /\ t.name = order[i] /\ t = f[i]
  BY <1>2
<1>4. \A i \in 1 .. n : f[i] \in new /\ f[i].id = first + i - 1 /\ f[i].name = order[i]
  BY <1>2
<1> HIDE DEF f
<1>5. ASSUME NEW t \in new
      PROVE  t \in Tag /\ first <= t.id /\ t.id < first + n /\ t.name \in names
  <2>1. PICK i \in 1 .. n : t.id = first + i - 1 /\ t.name = order[i] /\ t = f[i]
    BY <1>3
  <2>2. t.name \in names /\ names \subseteq Names
    BY <1>1, <2>1
  <2>3. t = [id |-> first + i - 1, name |-> order[i]]
    BY <2>1 DEF f
  <2>4. first + i - 1 \in Nat \ {0} /\ first <= first + i - 1 /\ first + i - 1 < first + n
    BY <1>1
  <2> QED
    BY <2>1, <2>2, <2>3, <2>4 DEF Tag
<1>6. ASSUME NEW t \in new, NEW u \in new, t.id = u.id \/ t.name = u.name
      PROVE  t = u
  <2>1. PICK i \in 1 .. n : t.id = first + i - 1 /\ t.name = order[i] /\ t = f[i]
    BY <1>3
  <2>2. PICK j \in 1 .. n : u.id = first + j - 1 /\ u.name = order[j] /\ u = f[j]
    BY <1>3
  <2>3. i = j
    BY <1>1, <1>6, <2>1, <2>2
  <2> QED
    BY <2>1, <2>2, <2>3
<1>7. \A name \in names : \E t \in new : t.name = name
  BY <1>1, <1>4
<1>8. IsFiniteSet(new) /\ Cardinality(new) = n
  <2>1. f \in [1 .. n -> new]
    BY <1>4 DEF f
  <2>2. IsInjective(f)
    BY <1>1, <1>4, <2>1 DEF IsInjective
  <2>3. \A t \in new : \E i \in 1 .. n : f[i] = t
    BY <1>3
  <2>4. ExistsBijection(1 .. n, new)
    BY <2>1, <2>2, <2>3 DEF ExistsBijection, Bijection, Injection, Surjection
  <2>5. IsFiniteSet(1 .. n) /\ Cardinality(1 .. n) = n
    BY <1>1, FS_Interval
  <2> QED
    BY <2>4, <2>5, FS_Bijection
<1> QED
  BY <1>1, <1>5, <1>6, <1>7, <1>8 DEF n, new

-----------------------------------------------------------------------------
(* Looking a difficulty up.                                                *)

LEMMA ResultFacts ==
  ASSUME NEW tags \in SUBSET Tag
  PROVE  /\ ResultOf(tags) \in [Difficulties -> Nat]
         /\ Missing(tags) = {} =>
              \A d \in Difficulties :
                \E t \in tags : t.id = ResultOf(tags)[d] /\ Key(t) = d /\ t.id # 0
<1>1. ASSUME NEW d \in Difficulties, d \notin Missing(tags)
      PROVE  \E t \in tags : t = (CHOOSE u \in tags : Key(u) = d) /\ Key(t) = d /\ t.id \in Nat \ {0}
  <2>1. \E t \in tags : Key(t) = d
    BY <1>1 DEF Missing
  <2> DEFINE c == CHOOSE u \in tags : Key(u) = d
  <2>2. c \in tags /\ Key(c) = d
    BY <2>1
  <2> HIDE DEF c
  <2>3. c.id \in Nat \ {0}
    BY <2>2 DEF Tag
  <2> QED
    BY <2>2, <2>3 DEF c
<1>2. ResultOf(tags) \in [Difficulties -> Nat]
  BY <1>1 DEF ResultOf
<1>3. ASSUME NEW d \in Difficulties, Missing(tags) = {}
      PROVE  \E t \in tags : t.id = ResultOf(tags)[d] /\ Key(t) = d /\ t.id # 0
  <2>1. PICK t \in tags : t = (CHOOSE u \in tags : Key(u) = d) /\ Key(t) = d /\ t.id \in Nat \ {0}
    BY <1>1, <1>3
  <2>2. ResultOf(tags)[d] = t.id
    BY <1>3, <2>1 DEF ResultOf
  <2> QED
    BY <2>1, <2>2
<1> QED
  BY <1>2, <1>3

-----------------------------------------------------------------------------
(* What the write of a list does to the forum, whenever the list was read. *)

LEMMA Normalize ==
  /\ \A d \in Difficulties : d \in Names /\ normalizeTagName[d] = d
  /\ \A t \in Tag : t.id \in Nat \ {0} /\ t.name \in Names
BY TagsAssumption DEF Tag

LEMMA TakesFacts ==
  ASSUME TagInv, NEW seen, SeenOK(seen), Takes(Updated(seen))
  PROVE  /\ forum' \subseteq Tag /\ IsFiniteSet(forum')
         /\ lastId' \in Nat /\ lastId <= lastId'
         /\ \A t \in forum' : t.id <= lastId' /\ (t \in forum \/ lastId < t.id)
         /\ \A t, u \in forum' : t.id = u.id => t = u
         /\ NoDuplicateDifficulty'
         /\ Missing(forum') = {}
<1> DEFINE alive == {t \in seen : Live(t.id)}
           gone  == seen \ alive
           names == Missing(seen) \cup {t.name : t \in gone}
           new   == Numbered(names, lastId + 1)
<1>1. forum' = alive \cup new /\ lastId' = lastId + Cardinality(names)
  BY DEF Takes, Updated
<1>2. /\ lastId \in Nat /\ seen \subseteq Tag /\ IsFiniteSet(seen) /\ forum \subseteq Tag
      /\ Missing(seen) \subseteq Difficulties
  BY DEF TagInv, TypeOK, SeenOK, IsRead, Missing
<1>3. alive \subseteq forum /\ alive \subseteq seen
  BY DEF SeenOK, IsRead, Live
<1>4. names \in SUBSET Names
  BY <1>2, Normalize
<1>5. IsFiniteSet(names)
  <2>1. IsFiniteSet(Missing(seen))
    BY <1>2, FS_Subset, TagsAssumption
  <2>2. IsFiniteSet(gone)
    BY <1>2, FS_Subset
  <2>3. IsFiniteSet({t.name : t \in gone})
    <3> DEFINE f == [t \in gone |-> t.name]
    <3>1. f \in Surjection(gone, {t.name : t \in gone})
      BY DEF Surjection
    <3> HIDE DEF f
    <3> QED
      BY <2>2, <3>1, FS_Surjection
  <2> QED
    BY <2>1, <2>3, FS_Union
<1>6. \A n \in names : n \in Missing(seen) \/ \E t \in gone : t.name = n
  OBVIOUS
<1>7. \A n \in Missing(seen) : n \in names
  OBVIOUS
<1>8. \A t \in gone : t.name \in names
  OBVIOUS
<1>9. seen = alive \cup gone /\ alive \cap gone = {}
  OBVIOUS
<1> HIDE DEF alive, gone, names, new
<1>10. /\ Cardinality(names) \in Nat /\ new \subseteq Tag /\ IsFiniteSet(new)
       /\ \A t \in new : lastId + 1 <= t.id /\ t.id < lastId + 1 + Cardinality(names)
                        /\ t.name \in names
       /\ \A t, u \in new : t.id = u.id \/ t.name = u.name => t = u
       /\ \A name \in names : \E t \in new : t.name = name
  BY <1>2, <1>4, <1>5, NumberedTags DEF new
<1>11. \A d \in Missing(seen) : normalizeTagName[d] = d /\ \A t \in seen : Key(t) # d
  BY <1>2, Normalize DEF Missing
<1>12. ASSUME NEW m \in names, NEW n \in names, normalizeTagName[m] = normalizeTagName[n]
       PROVE  m = n
  <2>1. CASE m \in Missing(seen) /\ n \in Missing(seen)
    BY <1>11, <1>12, <2>1
  <2>2. CASE m \in Missing(seen) /\ \E t \in gone : t.name = n
    BY <1>9, <1>11, <1>12, <2>2 DEF Key
  <2>3. CASE n \in Missing(seen) /\ \E t \in gone : t.name = m
    BY <1>9, <1>11, <1>12, <2>3 DEF Key
  <2>4. ASSUME NEW t \in gone, NEW u \in gone, t.name = m, u.name = n
        PROVE  m = n
    BY <1>9, <1>12, <2>4 DEF SeenOK, IsRead, Key
  <2> QED
    BY <1>6, <2>1, <2>2, <2>3, <2>4
<1>13. ASSUME NEW t \in alive, NEW n \in names
       PROVE  Key(t) # normalizeTagName[n]
  <2>1. CASE n \in Missing(seen)
    BY <1>9, <1>11, <2>1
  <2>2. ASSUME NEW u \in gone, u.name = n
        PROVE  Key(t) # normalizeTagName[n]
    <3>1. t # u /\ t \in seen /\ u \in seen
      BY <1>9
    <3> QED
      BY <2>2, <3>1 DEF SeenOK, IsRead, Key
  <2> QED
    BY <1>6, <2>1, <2>2
<1>14. forum' \subseteq Tag /\ IsFiniteSet(forum')
  <2>1. IsFiniteSet(alive)
    BY <1>2, <1>3, FS_Subset
  <2> QED
    BY <1>1, <1>2, <1>3, <1>10, <2>1, FS_Union
<1>15. lastId' \in Nat /\ lastId <= lastId'
  BY <1>1, <1>2, <1>10
<1>16. \A t \in forum : t.id <= lastId /\ t.id \in Nat
  BY <1>2, Normalize DEF TagInv, TypeOK
<1>17. \A t \in forum' : t.id <= lastId' /\ (t \in forum \/ lastId < t.id)
  <2>1. \A t \in alive : t.id <= lastId' /\ t \in forum
    BY <1>2, <1>3, <1>15, <1>16
  <2>2. ASSUME NEW t \in new
        PROVE  t.id <= lastId' /\ lastId < t.id
    <3>1. t.id \in Nat /\ lastId + 1 <= t.id /\ t.id < lastId + 1 + Cardinality(names)
      BY <1>10, Normalize
    <3> QED
      BY <1>1, <1>2, <1>10, <3>1
  <2> QED
    BY <1>1, <2>1, <2>2
<1>18. ASSUME NEW t \in forum', NEW u \in forum'
       PROVE  /\ t.id = u.id => t = u
              /\ Key(t) = Key(u) => t = u
  <2>1. CASE t \in alive /\ u \in alive
    BY <1>3, <2>1 DEF TagInv, TypeOK, NoDuplicateDifficulty
  <2>2. CASE t \in new /\ u \in new
    BY <1>10, <1>12, <2>2 DEF Key
  <2>3. ASSUME NEW a \in alive, NEW b \in new
        PROVE  a.id # b.id /\ Key(a) # Key(b)
    <3>1. a.id <= lastId /\ a.id \in Nat
      BY <1>3, <1>16
    <3>2. lastId + 1 <= b.id /\ b.id \in Nat /\ b.name \in names
      BY <1>10, Normalize
    <3>3. Key(a) # Key(b)
      BY <1>13, <3>2 DEF Key
    <3> QED
      BY <1>2, <3>1, <3>2, <3>3
  <2> QED
    BY <1>1, <2>1, <2>2, <2>3
<1>19. ASSUME NEW d \in Difficulties
       PROVE  d \notin Missing(forum')
  <2>1. CASE d \in Missing(seen)
    <3>1. PICK t \in new : t.name = d
      BY <1>7, <1>10, <2>1
    <3> QED
      BY <1>1, <1>11, <2>1, <3>1 DEF Missing, Key
  <2>2. CASE d \notin Missing(seen)
    <3>1. PICK t \in seen : Key(t) = d
      BY <2>2 DEF Missing
    <3>2. CASE t \in alive
      BY <1>1, <3>1, <3>2 DEF Missing
    <3>3. CASE t \in gone
      <4>1. PICK u \in new : u.name = t.name
        BY <1>8, <1>10, <3>3
      <4> QED
        BY <1>1, <3>1, <4>1 DEF Missing, Key
    <3> QED
      BY <1>9, <3>2, <3>3
  <2> QED
    BY <2>1, <2>2
<1>20. Missing(forum') = {}
  BY <1>19 DEF Missing
<1>21. NoDuplicateDifficulty'
  BY <1>18 DEF NoDuplicateDifficulty, Key
<1> QED
  BY <1>14, <1>15, <1>17, <1>18, <1>20, <1>21

-----------------------------------------------------------------------------
(* The steps.                                                              *)

\* The parts of TagInv.
ForumInv ==
  /\ forum \subseteq Tag /\ IsFiniteSet(forum) /\ lastId \in Nat
  /\ \A t \in forum : t.id <= lastId
  /\ \A t, u \in forum : t.id = u.id => t = u
  /\ NoDuplicateDifficulty

LocalOK(l) ==
  /\ l \in RunState
  /\ l.pc \in {"create", "posted"} => \A d \in Difficulties : l.tags[d] # 0

RunsInv == run \in [Runs -> RunState] /\ \A r \in Runs : LocalOK(run[r])

CountersInv == edits \in 0 .. MaxEdits /\ failures \in 0 .. MaxFailures

LEMMA Parts == TagInv <=> ForumInv /\ RunsInv /\ CountersInv /\ SeenInv
BY DEF TagInv, TypeOK, ForumInv, RunsInv, LocalOK, CountersInv

\* The forum only gets tags with new ids.
Grows ==
  /\ lastId' \in Nat /\ lastId <= lastId'
  /\ \A t \in forum' : t \in forum \/ lastId < t.id

LEMMA SeenStays ==
  ASSUME ForumInv, Grows, NEW seen, SeenOK(seen)
  PROVE  SeenOK(seen)'
<1>1. ASSUME NEW t \in seen
      PROVE  t.id \in Nat /\ t.id <= lastId /\ t.id <= lastId'
  <2>1. t \in Tag /\ t.id <= lastId
    BY DEF SeenOK, IsRead
  <2>2. t.id \in Nat
    BY <2>1, Normalize
  <2> QED
    BY <2>1, <2>2 DEF ForumInv, Grows
<1>2. ASSUME NEW t \in seen, NEW u \in forum', t.id = u.id
      PROVE  t = u
  <2>1. u \in forum
    BY <1>1, <1>2 DEF ForumInv, Grows
  <2> QED
    BY <1>2, <2>1 DEF SeenOK, IsRead
<1> QED
  BY <1>1, <1>2 DEF SeenOK, IsRead, Key

\* A run has read the list just now, or holds the one it had.
LocalSteps(r) ==
  \E l \in RunState :
    /\ run' = [run EXCEPT ![r] = l]
    /\ LocalOK(l)
    /\ l.pc = "patch" => l = run[r] \/ (l.seen = forum /\ UNCHANGED forum)

LEMMA RunsSteps ==
  ASSUME ForumInv, RunsInv, SeenInv, Grows, NEW r \in Runs, LocalSteps(r)
  PROVE  RunsInv' /\ SeenInv'
<1>1. PICK l \in RunState :
        /\ run' = [run EXCEPT ![r] = l]
        /\ LocalOK(l)
        /\ l.pc = "patch" => l = run[r] \/ (l.seen = forum /\ UNCHANGED forum)
  BY DEF LocalSteps
<1>2. run'[r] = l /\ (\A q \in Runs \ {r} : run'[q] = run[q]) /\ run' \in [Runs -> RunState]
  BY <1>1 DEF RunsInv
<1>3. RunsInv'
  BY <1>1, <1>2 DEF RunsInv, LocalOK
<1>4. ASSUME NEW q \in Runs, run'[q].pc = "patch"
      PROVE  IsRead(run'[q].seen, forum', lastId')
  <2>1. CASE run'[q] = run[q]
    <3>1. SeenOK(run[q].seen)
      BY <1>4, <2>1 DEF SeenInv
    <3>2. \A s : SeenOK(s) => IsRead(s, forum', lastId')
      BY SeenStays DEF SeenOK
    <3> QED
      BY <2>1, <3>1, <3>2
  <2>2. CASE run'[q].seen = forum /\ UNCHANGED forum
    <3>1. \A t \in forum : t.id <= lastId'
      <4>1. \A t \in forum : t.id <= lastId /\ t.id \in Nat
        BY Normalize DEF ForumInv
      <4> QED
        BY <4>1 DEF ForumInv, Grows
    <3> QED
      BY <2>2, <3>1 DEF ForumInv, IsRead, NoDuplicateDifficulty
  <2> QED
    BY <1>1, <1>2, <1>4, <2>1, <2>2
<1> QED
  BY <1>3, <1>4 DEF SeenInv, SeenOK

\* What EnsureDifficultyTags returns is checked against the list it returns.
LEMMA EnsuredFacts ==
  ASSUME RunsInv, NEW r \in Runs, NEW tags \in SUBSET Tag, Ensured(r, tags)
  PROVE  \E l \in RunState :
           /\ run' = [run EXCEPT ![r] = l]
           /\ LocalOK(l) /\ l.pc # "patch"
           /\ l.pc = "create" =>
                \A d \in Difficulties : \E t \in tags : t.id = l.tags[d] /\ Key(t) = d
<1>1. run[r] \in RunState /\ run \in [Runs -> RunState]
  BY DEF RunsInv, LocalOK
<1>2. CASE Missing(tags) = {}
  <2> DEFINE l == [run[r] EXCEPT !.pc = "create", !.seen = {}, !.tags = ResultOf(tags)]
  <2>1. /\ ResultOf(tags) \in [Difficulties -> Nat]
        /\ \A d \in Difficulties :
             \E t \in tags : t.id = ResultOf(tags)[d] /\ Key(t) = d /\ t.id # 0
    BY <1>2, ResultFacts
  <2>2. l \in RunState /\ l.pc = "create" /\ l.tags = ResultOf(tags)
    BY <1>1, <2>1 DEF RunState
  <2>3. run' = [run EXCEPT ![r] = l]
    BY <1>2 DEF Ensured, Becomes
  <2> HIDE DEF l
  <2>4. \A d \in Difficulties : l.tags[d] # 0
    BY <2>1, <2>2
  <2> QED
    BY <2>1, <2>2, <2>3, <2>4 DEF LocalOK
<1>3. CASE Missing(tags) # {}
  <2> DEFINE l == [run[r] EXCEPT !.pc = "failed", !.seen = {}]
  <2>1. l \in RunState /\ l.pc = "failed"
    BY <1>1 DEF RunState
  <2>2. run' = [run EXCEPT ![r] = l]
    BY <1>3 DEF Ensured, Becomes
  <2> HIDE DEF l
  <2> QED
    BY <2>1, <2>2 DEF LocalOK
<1> QED
  BY <1>2, <1>3

LEMMA CounterStep ==
  ASSUME CountersInv
  PROVE  /\ failures < MaxFailures => failures + 1 \in 0 .. MaxFailures
         /\ edits < MaxEdits => edits + 1 \in 0 .. MaxEdits /\ edits + 1 # edits
BY TagsAssumption DEF CountersInv

\* A step that leaves the forum alone.
LEMMA ForumAlone ==
  ASSUME ForumInv, UNCHANGED <<forum, lastId>>
  PROVE  ForumInv' /\ Grows
BY DEF ForumInv, Grows, NoDuplicateDifficulty

LEMMA PatchSteps ==
  ASSUME TagInv, NEW r \in Runs, PatchChannel(r)
  PROVE  /\ ForumInv' /\ Grows /\ CountersInv' /\ LocalSteps(r)
         /\ Missing(forum') = {}
<1> DEFINE seen == run[r].seen
<1>1. ForumInv /\ RunsInv /\ CountersInv /\ SeenInv
  BY Parts
<1>2. SeenOK(seen) /\ Takes(Updated(seen)) /\ run[r].pc = "patch"
  BY <1>1 DEF PatchChannel, SeenInv
<1> HIDE DEF seen
<1>3. ForumInv' /\ Grows /\ Missing(forum') = {} /\ forum' \in SUBSET Tag
  BY <1>2, TakesFacts DEF ForumInv, Grows
<1>4. CountersInv'
  BY <1>1, CounterStep DEF PatchChannel, Fails, CountersInv
<1>5. run[r] \in RunState /\ LocalOK(run[r]) /\ run \in [Runs -> RunState]
  BY <1>1 DEF RunsInv, LocalOK
<1>6. CASE Ensured(r, forum')
  <2>1. \A tags \in SUBSET Tag : Ensured(r, tags) => LocalSteps(r)
    BY <1>1, EnsuredFacts DEF LocalSteps
  <2> QED
    BY <1>3, <1>4, <1>6, <2>1
<1>7. CASE Becomes(r, [run[r] EXCEPT !.pc = "failed", !.seen = {}])
  <2> DEFINE l == [run[r] EXCEPT !.pc = "failed", !.seen = {}]
  <2>1. l \in RunState /\ l.pc = "failed" /\ run' = [run EXCEPT ![r] = l]
    BY <1>5, <1>7 DEF RunState, Becomes
  <2> HIDE DEF l
  <2> QED
    BY <1>3, <1>4, <2>1 DEF LocalSteps, LocalOK
<1>8. CASE UNCHANGED run
  <2>1. run' = [run EXCEPT ![r] = run[r]]
    BY <1>5, <1>8
  <2> QED
    BY <1>3, <1>4, <1>5, <2>1 DEF LocalSteps
<1> QED
  BY <1>6, <1>7, <1>8 DEF PatchChannel

LEMMA GetSteps ==
  ASSUME TagInv, NEW r \in Runs, GetChannel(r)
  PROVE  ForumInv' /\ Grows /\ CountersInv' /\ LocalSteps(r)
<1>1. ForumInv /\ RunsInv /\ CountersInv /\ UNCHANGED <<forum, lastId, edits, failures>>
  BY Parts DEF GetChannel
<1>2. ForumInv' /\ Grows /\ CountersInv'
  BY <1>1, ForumAlone DEF CountersInv
<1>3. forum \in SUBSET Tag /\ run[r] \in RunState /\ run \in [Runs -> RunState]
  BY <1>1 DEF ForumInv, RunsInv, LocalOK
<1>4. CASE Ensured(r, forum)
  BY <1>1, <1>2, <1>3, <1>4, EnsuredFacts DEF LocalSteps
<1>5. CASE Becomes(r, [run[r] EXCEPT !.pc = "patch", !.seen = forum])
  <2> DEFINE l == [run[r] EXCEPT !.pc = "patch", !.seen = forum]
  <2>1. l \in RunState /\ l.pc = "patch" /\ l.seen = forum /\ run' = [run EXCEPT ![r] = l]
    BY <1>3, <1>5 DEF RunState, Becomes
  <2> HIDE DEF l
  <2> QED
    BY <1>1, <1>2, <2>1 DEF LocalSteps, LocalOK
<1> QED
  BY <1>4, <1>5 DEF GetChannel

LEMMA FailSteps ==
  ASSUME TagInv, NEW r \in Runs, EnsureFails(r)
  PROVE  ForumInv' /\ Grows /\ CountersInv' /\ LocalSteps(r)
<1>1. /\ ForumInv /\ RunsInv /\ CountersInv /\ UNCHANGED <<forum, lastId, edits>>
      /\ Becomes(r, [run[r] EXCEPT !.pc = "failed", !.seen = {}])
      /\ UNCHANGED failures \/ Fails
  BY Parts DEF EnsureFails
<1>2. ForumInv' /\ Grows /\ CountersInv'
  BY <1>1, ForumAlone, CounterStep DEF CountersInv, Fails
<1> DEFINE l == [run[r] EXCEPT !.pc = "failed", !.seen = {}]
<1>3. l \in RunState /\ l.pc = "failed" /\ run' = [run EXCEPT ![r] = l]
  BY <1>1 DEF RunState, Becomes, RunsInv, LocalOK
<1> HIDE DEF l
<1> QED
  BY <1>2, <1>3 DEF LocalSteps, LocalOK

LEMMA CreateSteps ==
  ASSUME TagInv, NEW r \in Runs, CreateForumThread(r)
  PROVE  ForumInv' /\ Grows /\ CountersInv' /\ LocalSteps(r)
<1>1. /\ ForumInv /\ RunsInv /\ CountersInv /\ UNCHANGED <<forum, lastId, edits>>
      /\ (UNCHANGED failures \/ Fails) /\ run[r].pc = "create"
  BY Parts DEF CreateForumThread
<1>2. ForumInv' /\ Grows /\ CountersInv'
  BY <1>1, ForumAlone, CounterStep DEF CountersInv, Fails
<1>3. /\ run[r] \in RunState /\ run[r].attempt \in Nat /\ run[r].pc = "create"
      /\ \A d \in Difficulties : run[r].tags[d] # 0
  BY <1>1 DEF RunsInv, LocalOK, RunState, CreateForumThread
<1>4. PICK l \in {[run[r] EXCEPT !.pc = "posted"], [run[r] EXCEPT !.attempt = @ + 1],
                  [run[r] EXCEPT !.pc = "failed"]} : run' = [run EXCEPT ![r] = l]
  BY DEF CreateForumThread, Becomes
<1>5. l \in RunState /\ l.pc \in {"posted", "create", "failed"} /\ l.tags = run[r].tags
  <2>1. CASE l = [run[r] EXCEPT !.pc = "posted"]
    BY <1>3, <2>1 DEF RunState
  <2>2. CASE l = [run[r] EXCEPT !.attempt = @ + 1]
    BY <1>3, <2>2 DEF RunState
  <2>3. CASE l = [run[r] EXCEPT !.pc = "failed"]
    BY <1>3, <2>3 DEF RunState
  <2> QED
    BY <1>4, <2>1, <2>2, <2>3
<1> QED
  BY <1>2, <1>3, <1>4, <1>5 DEF LocalSteps, LocalOK

LEMMA ModerateSteps ==
  ASSUME ForumInv, CountersInv, Moderate
  PROVE  ForumInv' /\ Grows /\ CountersInv' /\ UNCHANGED run /\ edits' # edits
<1>1. CountersInv' /\ UNCHANGED run /\ edits' # edits
  BY CounterStep DEF Moderate, CountersInv
<1>2. ASSUME NEW t \in forum, forum' = forum \ {t}, UNCHANGED lastId
      PROVE  ForumInv' /\ Grows
  <2>1. IsFiniteSet(forum')
    BY <1>2, FS_Subset DEF ForumInv
  <2> QED
    BY <1>2, <2>1 DEF ForumInv, Grows, NoDuplicateDifficulty
<1>3. ASSUME NEW name \in Names, \A t \in forum : Key(t) # normalizeTagName[name],
             forum' = forum \cup {[id |-> lastId + 1, name |-> name]}, lastId' = lastId + 1
      PROVE  ForumInv' /\ Grows
  <2> DEFINE new == [id |-> lastId + 1, name |-> name]
  <2>1. lastId \in Nat /\ lastId' \in Nat /\ lastId < lastId'
    BY <1>3 DEF ForumInv
  <2>2. new \in Tag /\ new.id = lastId' /\ \A t \in forum : Key(t) # Key(new)
    BY <1>3, <2>1 DEF Tag, Key
  <2>3. \A t \in forum : t.id <= lastId /\ t.id \in Nat
    BY Normalize DEF ForumInv
  <2>4. forum' = forum \cup {new}
    BY <1>3
  <2> HIDE DEF new
  <2>5. IsFiniteSet(forum')
    BY <2>4, FS_AddElement DEF ForumInv
  <2>6. \A t \in forum : t.id # new.id
    BY <2>1, <2>2, <2>3
  <2>7. \A t \in forum' : t.id <= lastId'
    BY <2>1, <2>2, <2>3, <2>4
  <2>8. \A t \in forum' : t \in forum \/ lastId < t.id
    BY <2>1, <2>2, <2>4
  <2>9. \A t, u \in forum' : t.id = u.id \/ Key(t) = Key(u) => t = u
    BY <2>2, <2>4, <2>6 DEF ForumInv, NoDuplicateDifficulty
  <2> QED
    BY <2>1, <2>2, <2>4, <2>5, <2>7, <2>8, <2>9 DEF ForumInv, Grows, NoDuplicateDifficulty, Key
<1> QED
  BY <1>1, <1>2, <1>3 DEF Moderate

-----------------------------------------------------------------------------
(* The theorems.                                                           *)

LEMMA InitTag == Init => TagInv
<1> SUFFICES ASSUME Init PROVE TagInv
  OBVIOUS
<1>1. PICK names \in InitialNames : Distinct(names) /\ forum = Numbered(names, 1)
  BY DEF Init
<1>2. names \in SUBSET Names /\ IsFiniteSet(names)
  BY TagsAssumption
<1>3. /\ Cardinality(names) \in Nat /\ forum \subseteq Tag /\ IsFiniteSet(forum)
      /\ lastId = Cardinality(names)
      /\ \A t \in forum : t.id < 1 + Cardinality(names) /\ t.name \in names
      /\ \A t, u \in forum : t.id = u.id \/ t.name = u.name => t = u
  BY <1>1, <1>2, NumberedTags DEF Init
<1>4. ForumInv
  <2>1. \A t \in forum : t.id <= lastId
    BY <1>3, Normalize
  <2>2. NoDuplicateDifficulty
    BY <1>1, <1>3 DEF Distinct, NoDuplicateDifficulty, Key
  <2> QED
    BY <1>3, <2>1, <2>2 DEF ForumInv
<1>5. RunsInv /\ SeenInv
  <2>1. \A d \in Difficulties :
          [pc |-> "get", seen |-> {}, tags |-> NoTags, wanted |-> d, attempt |-> 1] \in RunState
    BY DEF RunState, NoTags
  <2>2. run \in [Runs -> RunState] /\ \A r \in Runs : run[r].pc = "get"
    BY <2>1 DEF Init
  <2> QED
    BY <2>2 DEF RunsInv, LocalOK, SeenInv
<1>6. CountersInv
  BY TagsAssumption DEF Init, CountersInv
<1> QED
  BY <1>4, <1>5, <1>6, Parts

LEMMA StepFacts ==
  ASSUME TagInv, NEW r \in Runs, Step(r)
  PROVE  ForumInv' /\ Grows /\ CountersInv' /\ LocalSteps(r)
BY GetSteps, PatchSteps, FailSteps, CreateSteps DEF Step

LEMMA NextTag == TagInv /\ [Next]_vars => TagInv'
<1> SUFFICES ASSUME TagInv, [Next]_vars PROVE TagInv'
  OBVIOUS
<1>1. ForumInv /\ RunsInv /\ CountersInv /\ SeenInv
  BY Parts
<1>2. ForumInv' /\ RunsInv' /\ CountersInv' /\ SeenInv' => TagInv'
  BY DEF TagInv, TypeOK, ForumInv, RunsInv, LocalOK, CountersInv
<1>3. ASSUME ForumInv', Grows, UNCHANGED run
      PROVE  RunsInv' /\ SeenInv'
  <2>1. RunsInv'
    BY <1>1, <1>3 DEF RunsInv, LocalOK
  <2>2. \A s : SeenOK(s) => IsRead(s, forum', lastId')
    BY <1>1, <1>3, SeenStays DEF SeenOK
  <2> QED
    BY <1>1, <1>3, <2>1, <2>2 DEF SeenInv, SeenOK
<1>4. CASE UNCHANGED vars
  BY <1>1, <1>2, <1>3, <1>4, ForumAlone DEF vars, CountersInv
<1>5. CASE Moderate
  BY <1>1, <1>2, <1>3, <1>5, ModerateSteps
<1>6. ASSUME NEW r \in Runs, Step(r)
      PROVE  TagInv'
  BY <1>1, <1>2, <1>6, StepFacts, RunsSteps
<1> QED
  BY <1>4, <1>5, <1>6 DEF Next

LEMMA TagsInvariant == Spec => []TagInv
BY InitTag, NextTag, PTL DEF Spec

(* Every variable keeps its type, ids of tags are used once, and a run     *)
(* past EnsureDifficultyTags has a tag for every difficulty.               *)
THEOREM TypeCorrect == Spec => []TypeOK
<1>1. TagInv => TypeOK
  BY DEF TagInv
<1> QED
  BY <1>1, TagsInvariant, PTL

(* However reads and writes of the whole list interleave, the forum never  *)
(* has two tags of one normalized name.                                    *)
THEOREM NoTagTwice == Spec => []NoDuplicateDifficulty
<1>1. TagInv => NoDuplicateDifficulty
  BY DEF TagInv
<1> QED
  BY <1>1, TagsInvariant, PTL

(* A write built from an outdated list never costs the forum a difficulty: *)
(* only the moderator takes one away.                                      *)
THEOREM RunsLoseNoDifficulty == Spec => DifficultiesStay
<1> DEFINE Kept == \A d \in Difficulties :
                    d \in Missing(forum') /\ d \notin Missing(forum) => edits' # edits
<1>1. TagInv /\ [Next]_vars => [Kept]_vars
  <2> SUFFICES ASSUME TagInv, Next, NEW d \in Difficulties,
                      d \in Missing(forum'), d \notin Missing(forum)
               PROVE  edits' # edits
    OBVIOUS
  <2>1. CASE Moderate
    BY <2>1, ModerateSteps, Parts
  <2>2. ASSUME NEW r \in Runs, PatchChannel(r)
        PROVE  FALSE
    BY <2>2, PatchSteps
  <2>3. ASSUME NEW r \in Runs, GetChannel(r) \/ EnsureFails(r) \/ CreateForumThread(r)
        PROVE  FALSE
    BY <2>3 DEF GetChannel, EnsureFails, CreateForumThread
  <2> QED
    BY <2>1, <2>2, <2>3 DEF Next, Step
<1> QED
  BY <1>1, TagsInvariant, PTL DEF Spec, DifficultiesStay

(* The ids EnsureDifficultyTags returns are, when it returns, those of the *)
(* forum's tags for the three difficulties, whoever wrote the list meanwhile. *)
THEOREM EnsuredTagsExist == Spec => EnsureIsTrue
<1> DEFINE Returned == \A r \in Runs : run[r].pc # "create" /\ run'[r].pc = "create" =>
                    \A d \in Difficulties :
                      \E t \in forum' : t.id = run'[r].tags[d] /\ Key(t) = d
<1>1. TagInv /\ TagInv' /\ [Next]_vars => [Returned]_vars
  <2> SUFFICES ASSUME TagInv, TagInv', Next, NEW r \in Runs,
                      run[r].pc # "create", run'[r].pc = "create", NEW d \in Difficulties
               PROVE  \E t \in forum' : t.id = run'[r].tags[d] /\ Key(t) = d
    OBVIOUS
  <2>1. /\ RunsInv /\ run \in [Runs -> RunState]
        /\ forum \in SUBSET Tag /\ forum' \in SUBSET Tag
    BY Parts DEF RunsInv, TagInv, TypeOK
  <2>2. PICK q \in Runs : Step(q)
    BY DEF Next, Moderate
  <2>3. q = r
    <3>1. PICK l : run' = [run EXCEPT ![q] = l]
      BY <2>2, StepFacts DEF LocalSteps
    <3> QED
      BY <2>1, <3>1
  <2>4. ASSUME NEW tags \in SUBSET Tag, Ensured(r, tags)
        PROVE  \E t \in tags : t.id = run'[r].tags[d] /\ Key(t) = d
    BY <2>1, <2>4, EnsuredFacts
  <2>5. CASE GetChannel(r)
    <3>1. Ensured(r, forum) /\ forum' = forum
      BY <2>1, <2>5 DEF GetChannel, Becomes, RunState
    <3> QED
      BY <2>1, <2>4, <3>1
  <2>6. CASE PatchChannel(r)
    <3>1. Ensured(r, forum')
      BY <2>1, <2>6 DEF PatchChannel, Becomes, RunState
    <3> QED
      BY <2>1, <2>4, <3>1
  <2>7. CASE EnsureFails(r)
    BY <2>1, <2>7 DEF EnsureFails, Becomes, RunState
  <2>8. CASE CreateForumThread(r)
    BY <2>8 DEF CreateForumThread
  <2> QED
    BY <2>2, <2>3, <2>5, <2>6, <2>7, <2>8 DEF Step
<1> QED
  BY <1>1, TagsInvariant, PTL DEF Spec, EnsureIsTrue
=============================================================================
