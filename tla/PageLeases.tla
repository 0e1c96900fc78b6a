----------------------------- MODULE PageLeases -----------------------------
(***************************************************************************)
(* What the crawl promises of a page: a lease.  A waiting page is handed   *)
(* to one worker, under a limit on pages out at once; only that worker's   *)
(* report, or a cancellation, decides it; and it waits again without a     *)
(* report only when its worker has left it.                                *)
(***************************************************************************)
EXTENDS Integers, FiniteSets

CONSTANTS
    Pages,
    Workers,
    Limit       \* pages out at once

VARIABLES
    state,      \* the state of each page
    holders     \* the workers that hold it

leaseVars == <<state, holders>>

Out == {w \in Pages : state[w] = "running"}
HeldBy(p) == {w \in Pages : p \in holders[w]}

LeaseInit ==
    /\ state = [w \in Pages |-> "absent"]
    /\ holders = [w \in Pages |-> {}]

\* New pages to crawl.
Offer(new) ==
    /\ \A w \in new : state[w] = "absent"
    /\ state' = [w \in Pages |-> IF w \in new THEN "queued" ELSE state[w]]
    /\ UNCHANGED holders

Take(p, w) ==
    /\ state[w] = "queued" /\ holders[w] = {} /\ HeldBy(p) = {}
    /\ Cardinality(Out) < Limit
    /\ state' = [state EXCEPT ![w] = "running"]
    /\ holders' = [holders EXCEPT ![w] = {p}]

\* The holder is done: the page is decided, or waits for another try.
Report(p, w) ==
    /\ holders[w] = {p} /\ state[w] \in {"running", "cancelled"}
    /\ \E end \in {"succeeded", "failed", "cancelled", "queued"} :
          state' = [state EXCEPT ![w] = end]
    /\ holders' = [holders EXCEPT ![w] = {}]

Lets(p) == holders' = [w \in Pages |-> holders[w] \ {p}]

\* A worker goes without a word ...
Leave(p) == Lets(p) /\ UNCHANGED state

\* ... and what it held goes back.
Reclaim(w) ==
    /\ state[w] = "running" /\ holders[w] = {}
    /\ state' = [state EXCEPT ![w] = "queued"]
    /\ UNCHANGED holders

\* Pages are called off, their holders not yet knowing; one that finds out
\* while doing so leaves.
CallOff(off) ==
    /\ state' = [w \in Pages |-> IF w \in off /\ state[w] \in {"queued", "running"}
                                 THEN "cancelled" ELSE state[w]]
    /\ UNCHANGED holders \/ \E p \in Workers : Lets(p)

LeaseNext ==
    \/ \E set \in SUBSET Pages : Offer(set) \/ CallOff(set)
    \/ \E p \in Workers : Leave(p)
    \/ \E p \in Workers, w \in Pages : Take(p, w) \/ Report(p, w)
    \/ \E w \in Pages : Reclaim(w)

LeaseSpec == LeaseInit /\ [][LeaseNext]_leaseVars
=============================================================================
