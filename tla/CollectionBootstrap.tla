-------------------------- MODULE CollectionBootstrap -------------------------
(***************************************************************************)
(* ensure_article_collection of search/qdrant.py, as the release commands  *)
(* of overlapping deployments run it: the collection is created once, and  *)
(* one that does not fit the settings is refused, never replaced.          *)
(***************************************************************************)
EXTENDS Integers, FiniteSets

CONSTANTS
    Boots,        \* commands that bootstrap the collection
    Sizes,        \* EMBEDDING_DIMENSIONS of the releases under way
    IndexFields,  \* payload indexes of the collection: PAYLOAD_INDEXES
    MaxOutages    \* bound: failures of Qdrant in a behaviour

ASSUME BootstrapAssumption == Sizes \subseteq Nat \ {0} /\ MaxOutages \in Nat

VARIABLES
    collection,  \* the collection: its vector size, 0 while there is none, and its indexes
    boot,        \* the commands
    outages      \* bound: failures so far

bootVars == <<collection, boot, outages>>

NoBoot == [at |-> "start", size |-> 0, todo |-> {}, created |-> FALSE]
BootstrapInit ==
    /\ collection = [size |-> 0, indexes |-> {}] /\ outages = 0
    /\ boot \in [Boots -> {[NoBoot EXCEPT !.size = s] : s \in Sizes}]

\* A call of Qdrant fails, in a step of this command.
Outage(b) ==
    /\ outages < MaxOutages /\ outages' = outages + 1
    /\ boot' = [boot EXCEPT ![b].at = "unavailable"] /\ UNCHANGED collection

StartBoot(b) ==
    /\ boot[b].at = "start"
    /\ boot' = [boot EXCEPT ![b].at = IF collection.size = 0 THEN "create" ELSE "validate"]
    /\ UNCHANGED <<collection, outages>>

\* create_collection, which fails where one exists by now: that error is
\* passed over, and so is one of a creation that took place all the same.
CreateCollection(b) ==
    /\ boot[b].at = "create"
    /\ \/ /\ collection.size = 0 /\ UNCHANGED outages
          /\ collection' = [collection EXCEPT !.size = boot[b].size]
          /\ boot' = [boot EXCEPT ![b].at = "validate", ![b].created = TRUE]
       \/ /\ collection.size # 0 /\ UNCHANGED <<collection, outages>>
          /\ boot' = [boot EXCEPT ![b].at = "validate"]
       \/ /\ collection.size = 0 /\ outages < MaxOutages /\ outages' = outages + 1
          /\ collection' = [collection EXCEPT !.size = boot[b].size]
          /\ boot' = [boot EXCEPT ![b].at = "validate"]
       \/ collection.size = 0 /\ Outage(b)

\* validate_article_collection; the indexes are missing as this one reading shows.
ValidateCollection(b) ==
    /\ boot[b].at = "validate" /\ UNCHANGED <<collection, outages>>
    /\ boot' = [boot EXCEPT ![b].at = IF collection.size = boot[b].size THEN "index" ELSE "mismatch",
                            ![b].todo = IndexFields \ collection.indexes]

\* create_payload_index: its failure counts unless another command created the index.
CreateIndex(b, f) ==
    /\ boot[b].at = "index" /\ f \in boot[b].todo
    /\ \/ /\ collection' = [collection EXCEPT !.indexes = @ \cup {f}] /\ UNCHANGED outages
          /\ boot' = [boot EXCEPT ![b].todo = @ \ {f}]
       \/ f \notin collection.indexes /\ Outage(b)
EndBoot(b) ==
    /\ boot[b].at = "index" /\ boot[b].todo = {}
    /\ boot' = [boot EXCEPT ![b].at = "done"] /\ UNCHANGED <<collection, outages>>

\* The command of a later release, or another try.
NextBoot(b) ==
    /\ boot[b].at \in {"done", "mismatch", "unavailable"} /\ UNCHANGED <<collection, outages>>
    /\ \E s \in Sizes : boot' = [boot EXCEPT ![b] = [NoBoot EXCEPT !.size = s]]

BootstrapNext ==
    \E b \in Boots : \/ StartBoot(b) \/ CreateCollection(b) \/ ValidateCollection(b)
                     \/ (\E f \in IndexFields : CreateIndex(b, f)) \/ EndBoot(b) \/ NextBoot(b)

BootstrapSpec == BootstrapInit /\ [][BootstrapNext]_bootVars

-----------------------------------------------------------------------------
(* Properties.                                                             *)

BootstrapTypeOK ==
    /\ collection.size \in {0} \cup Sizes /\ collection.indexes \subseteq IndexFields
    /\ \A b \in Boots : boot[b].size \in Sizes /\ boot[b].todo \subseteq IndexFields

\* However the commands race, one that succeeds leaves the collection of its own
\* settings with every index, only one of them takes itself for the creator, and
\* a collection that vectors may already be in keeps its size.
EnsuredMatches ==
    /\ \A b \in Boots : boot[b].at = "done" =>
            collection.size = boot[b].size /\ collection.indexes = IndexFields
    /\ \A b, c \in Boots : boot[b].created /\ boot[c].created => b = c

=============================================================================
