----------------------------- MODULE MCForumTags -----------------------------
\* Two difficulties, one of them also written without a capital, and two other tags.
EXTENDS ForumTags, TLC

Lower == [n \in Names |-> IF n = "easy" THEN "Easy" ELSE n]

Initially == {{}, {"easy", "news"}, {"news", "help"}, {"Easy", "Hard", "news"}}

Symmetric == Permutations(Runs)
=============================================================================
