-------------------------------- MODULE MCSearch -------------------------------
(***************************************************************************)
(* An instance of SearchQueries for TLC: three articles of two sites, one   *)
(* more host to move to, and two languages.                                 *)
(***************************************************************************)
EXTENDS SearchQueries

ArticleSources == [a \in Articles |-> IF a = 3 THEN "s2" ELSE "s1"]
SearchSpec == QueryInit /\ [][QueryNext]_queryVars
=============================================================================
