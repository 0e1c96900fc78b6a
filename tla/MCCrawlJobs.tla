----------------------------- MODULE MCCrawlJobs -----------------------------
(* Small instances of CrawlJobs for TLC.                                   *)
EXTENDS CrawlJobs, TLC

\* Nothing tells syncs or processes apart.
Symmetry == Permutations(Procs) \cup Permutations(Syncs)
=============================================================================
