--------------------------- MODULE MCArticleIndex ---------------------------
(* Small instances of ArticleIndex for TLC.                                *)
EXTENDS ArticleIndex, TLC

\* Nothing tells articles, URLs, texts or processes apart.
Symmetry == Permutations(Articles) \cup Permutations(Urls)
            \cup Permutations(Texts) \cup Permutations(Procs)
=============================================================================
