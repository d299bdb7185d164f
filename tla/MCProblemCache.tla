--------------------------- MODULE MCProblemCache ---------------------------
(***************************************************************************)
(* Every list of at most three problems from a pool with gaps in the       *)
(* numbers, two categories and none, a paid-only problem, and problems     *)
(* that collide in number or slug; and, in what is fetched, a paid-only    *)
(* problem without a link.                                                 *)
(***************************************************************************)
EXTENDS ProblemCache

P(number, slug, difficulty, category, paid) ==
  [number |-> number, slug |-> slug, difficulty |-> difficulty, category |-> category,
   paid |-> paid, hasUrl |-> paid]

Pool == {P(1, "s1", "Easy", "arrays", FALSE), P(2, "s2", "Hard", "arrays", FALSE),
         P(4, "s3", "Medium", "graphs", TRUE), P(5, "s4", "Easy", "", FALSE),
         P(5, "s1", "Hard", "arrays", FALSE), P(6, "s5", "Medium", "arrays", FALSE)}

ListsUpTo(n) == UNION {[1 .. k -> Pool] : k \in 0 .. n}

StartLists == {<<>>} \cup [1 .. 3 -> Pool]

NoLink == [P(4, "s3", "Medium", "graphs", TRUE) EXCEPT !.hasUrl = FALSE]

RefillLists == ListsUpTo(2) \cup {<<NoLink>>} \cup
  {<<P(6, "s5", "Medium", "arrays", FALSE), P(1, "s1", "Easy", "arrays", FALSE),
     P(2, "s2", "Hard", "arrays", FALSE), P(4, "s3", "Medium", "graphs", TRUE)>>}
=============================================================================
