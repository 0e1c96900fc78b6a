---------------------------- MODULE MCSafeFetch ----------------------------
(* Small instances of SafeFetch for TLC.                                   *)
EXTENDS SafeFetch, TLC

\* Two good pages, and one URL for each way to be refused.
Page(kind, host, path) ==
    [form |-> "ok", port |-> "default", kind |-> kind, host |-> host, path |-> path]
SmallUrls ==
    {Page("name", h, "/") : h \in Names}
      \cup {[Page("name", h, "/") EXCEPT !.port = "other"] : h \in {"h1"}}
      \cup {[Page("name", h, "/") EXCEPT !.form = "control"] : h \in {"h1"}}
      \cup {Page("literal_private", h, "/") : h \in {"h1"}}

Symmetry == Permutations(Calls)
=============================================================================
