--------------------------- MODULE Operations_proofs ---------------------------
(***************************************************************************)
(* Proofs about how the service is released and operated: the rollout, the   *)
(* vector collection, IndexNow, and the extraction of a page and its links.  *)
(***************************************************************************)
EXTENDS Rollout, CollectionBootstrap, PageExtraction, IndexNow, NumberLemmas

-----------------------------------------------------------------------------
(* Rollout: the wait and the processes.                                      *)

Cluster == [of : Processes, named : BOOLEAN, fresh : BOOLEAN]
WaitRow == [at : {"idle", "polling", "ready"}, release : Releases \cup {NoWait.release},
            worker : BOOLEAN, stable : Nat, polls : Nat]
RolloutInv ==
  /\ web \subseteq Processes /\ registration \subseteq Processes /\ clusters \subseteq Cluster
  /\ wait \in WaitRow /\ wait.stable <= wait.polls /\ wait.polls <= MaxPolls

LEMMA RolloutBounds == StableChecks \in Nat /\ StableChecks > 0 /\ MaxPolls \in Nat
  BY RolloutAssumption

\* The step that ends a wait as ready was answered by a web process, and so are
\* the conditions of that answer.
LEMMA PollAnswers ==
  ASSUME RolloutInv, Poll, wait'.at = "ready"
  PROVE  \E p \in web : PayloadReady(Healthcheck(p))
  <1>1. PICK ready \in {PayloadReady(Healthcheck(p)) : p \in web} \cup {FALSE} :
          wait' = [wait EXCEPT !.polls = @ + 1, !.stable = StableCount(ready),
                               !.at = IF StableCount(ready) >= StableChecks THEN "ready" ELSE @]
    BY DEF Poll
  <1>2. wait.at = "polling"
    BY DEF Poll
  <1>3. StableCount(ready) >= StableChecks
    BY <1>1, <1>2 DEF RolloutInv, WaitRow
  <1>4. ready
    BY <1>3, RolloutBounds DEF StableCount
  <1>. QED  BY <1>1, <1>4

LEMMA RolloutInvInit == RolloutInit => RolloutInv
  BY RolloutBounds DEF RolloutInit, RolloutInv, NoWait, WaitRow

LEMMA RolloutInvNext == RolloutInv /\ [RolloutNext]_rolloutVars => RolloutInv'
  <1>. SUFFICES ASSUME RolloutInv, [RolloutNext]_rolloutVars PROVE RolloutInv'
    OBVIOUS
  <1>1. NoWait \in WaitRow /\ NoWait.stable = 0 /\ NoWait.polls = 0
    BY DEF NoWait, WaitRow
  <1>2. CASE WebChanges
    BY <1>2 DEF WebChanges, RolloutInv
  <1>3. CASE HealthChanges \/ UNCHANGED rolloutVars
    BY <1>3 DEF HealthChanges, rolloutVars, RolloutInv
  <1>4. ASSUME NEW p \in Processes, StartCluster(p) PROVE RolloutInv'
    <2>1. [of |-> p, named |-> FALSE, fresh |-> TRUE] \in Cluster
      BY DEF Cluster
    <2>2. clusters' \subseteq Cluster /\ UNCHANGED <<web, registration, wait>>
      BY <1>4, <2>1 DEF StartCluster, RolloutInv
    <2>. QED  BY <2>2 DEF RolloutInv
  <1>5. ASSUME NEW k \in clusters, Register(k) \/ EndCluster(k) \/ StatusChanges(k) PROVE RolloutInv'
    <2>1. k \in Cluster /\ k.of \in Processes
            /\ [k EXCEPT !.named = TRUE] \in Cluster /\ [k EXCEPT !.fresh = ~@] \in Cluster
      BY DEF RolloutInv, Cluster
    <2>2. clusters' \subseteq Cluster /\ registration' \subseteq Processes
      BY <1>5, <2>1 DEF Register, EndCluster, StatusChanges, RolloutInv
    <2>. QED  BY <1>5, <2>2 DEF Register, EndCluster, StatusChanges, RolloutInv
  <1>6. CASE StartWait
    <2>1. PICK r \in Releases, worker \in BOOLEAN :
            wait' = [NoWait EXCEPT !.at = "polling", !.release = r, !.worker = worker]
      BY <1>6 DEF StartWait
    <2>2. wait' \in WaitRow /\ wait'.stable = 0 /\ wait'.polls = 0
      BY <2>1 DEF NoWait, WaitRow
    <2>. QED  BY <1>6, <2>2, RolloutBounds DEF StartWait, RolloutInv
  <1>7. CASE Poll
    <2>1. PICK ready \in {PayloadReady(Healthcheck(p)) : p \in web} \cup {FALSE} :
            wait' = [wait EXCEPT !.polls = @ + 1, !.stable = StableCount(ready),
                                 !.at = IF StableCount(ready) >= StableChecks THEN "ready" ELSE @]
      BY <1>7 DEF Poll
    <2>. DEFINE at == IF StableCount(ready) >= StableChecks THEN "ready" ELSE wait.at
                n == StableCount(ready)
    <2>2. /\ wait \in WaitRow /\ wait.stable \in Nat /\ wait.polls \in Nat
          /\ wait.stable <= wait.polls /\ wait.polls < MaxPolls
      BY <1>7 DEF Poll, RolloutInv, WaitRow
    <2>3. n \in Nat /\ n <= wait.polls + 1 /\ at \in {"idle", "polling", "ready"}
      BY <2>2 DEF StableCount, WaitRow
    <2>4. wait' = [wait EXCEPT !.polls = wait.polls + 1, !.stable = n, !.at = at]
      BY <2>1
    <2>. HIDE DEF n, at
    <2>5. wait' \in WaitRow /\ wait'.stable = n /\ wait'.polls = wait.polls + 1
      <3>1. [wait EXCEPT !.polls = wait.polls + 1] \in WaitRow
        BY <2>2 DEF WaitRow
      <3>2. [[wait EXCEPT !.polls = wait.polls + 1] EXCEPT !.stable = n] \in WaitRow
        BY <2>3, <3>1 DEF WaitRow
      <3>3. wait' = [[[wait EXCEPT !.polls = wait.polls + 1] EXCEPT !.stable = n] EXCEPT !.at = at]
        BY <2>4
      <3>4. wait' \in WaitRow
        BY <2>3, <3>2, <3>3 DEF WaitRow
      <3>5. wait'.stable = n /\ wait'.polls = wait.polls + 1
        BY <2>2, <3>3 DEF WaitRow
      <3>. QED  BY <3>4, <3>5
    <2>. QED  BY <1>7, <2>2, <2>3, <2>5, RolloutBounds DEF Poll, RolloutInv
  <1>8. CASE EndWait
    BY <1>1, <1>8, RolloutBounds DEF EndWait, RolloutInv
  <1>. QED  BY <1>2, <1>3, <1>4, <1>5, <1>6, <1>7, <1>8 DEF RolloutNext

LEMMA RolloutInvImplies == RolloutInv => RolloutTypeOK
  BY DEF RolloutInv, RolloutTypeOK, Cluster

\* A rollout that is told its worker is ready has, at that poll, a web process of
\* its release and a running cluster of that release and those settings, however
\* many older and newer processes come and go: a registration that was left
\* behind does not make an answer ready.
THEOREM ReadyMeansServingHolds == RolloutSpec => ReadyMeansServing
  <1>. DEFINE Serving == wait.at = "polling" /\ wait'.at = "ready" =>
        \E p \in web : /\ p.release = wait.release /\ healthy
                       /\ wait.worker => \E k \in clusters : k.of = p /\ k.fresh
  <1>1. ASSUME RolloutInv, [RolloutNext]_rolloutVars PROVE [Serving]_rolloutVars
    <2>. SUFFICES ASSUME RolloutNext, wait.at = "polling", wait'.at = "ready" PROVE Serving
      BY <1>1 DEF rolloutVars
    <2>1. wait' # wait /\ ~StartWait /\ ~EndWait
      BY DEF StartWait, EndWait, NoWait
    <2>2. Poll
      BY <2>1 DEF RolloutNext, WebChanges, HealthChanges, StartCluster, Register, EndCluster, StatusChanges
    <2>3. PICK p \in web : PayloadReady(Healthcheck(p))
      BY <1>1, <2>2, PollAnswers
    <2>4. /\ p.release = wait.release /\ healthy
          /\ wait.worker => [of |-> p, named |-> TRUE, fresh |-> TRUE] \in clusters
      BY <2>3 DEF PayloadReady, Healthcheck, WorkerReady
    <2>. QED  BY <2>4
  <1>. QED  BY <1>1, RolloutInvInit, RolloutInvNext, PTL DEF RolloutSpec, ReadyMeansServing

-----------------------------------------------------------------------------
(* The vector collection: it keeps its size, and its indexes only grow.      *)

BootRow == [at : {"start", "create", "validate", "index", "done", "mismatch", "unavailable"},
            size : Sizes, todo : SUBSET IndexFields, created : BOOLEAN]
CollectionRow == [size : {0} \cup Sizes, indexes : SUBSET IndexFields]

\* What a command found, and has done, still holds of the collection.
BootOK(q, c) ==
  /\ q.at \in {"index", "done"} => c.size = q.size /\ IndexFields \ c.indexes \subseteq q.todo
  /\ q.at = "done" => q.todo = {}
  /\ q.created => c.size # 0
BootInv ==
  /\ collection \in CollectionRow /\ boot \in [Boots -> BootRow]
  /\ \A b \in Boots : BootOK(boot[b], collection)
  /\ \A b, c \in Boots : boot[b].created /\ boot[c].created => b = c

LEMMA BootInvInit == BootstrapInit => BootInv
  <1>. SUFFICES ASSUME BootstrapInit PROVE BootInv
    OBVIOUS
  <1>1. ASSUME NEW s \in Sizes
        PROVE  /\ [NoBoot EXCEPT !.size = s] \in BootRow
               /\ [NoBoot EXCEPT !.size = s].at = "start" /\ ~[NoBoot EXCEPT !.size = s].created
    <2>1. NoBoot \in [at : {"start"}, size : {0}, todo : {{}}, created : {FALSE}]
      BY DEF NoBoot
    <2>2. [NoBoot EXCEPT !.size = s] \in [at : {"start"}, size : Sizes, todo : {{}}, created : {FALSE}]
      BY <2>1
    <2>3. [NoBoot EXCEPT !.size = s] \in BootRow
      BY <2>2 DEF BootRow
    <2>. QED  BY <2>2, <2>3
  <1>2. ASSUME NEW b \in Boots PROVE boot[b] \in BootRow /\ boot[b].at = "start" /\ ~boot[b].created
    <2>1. PICK s \in Sizes : boot[b] = [NoBoot EXCEPT !.size = s]
      BY DEF BootstrapInit
    <2>. QED  BY <2>1, <1>1
  <1>3. boot \in [Boots -> BootRow]
    BY <1>1, <1>2 DEF BootstrapInit
  <1>4. collection \in CollectionRow
    BY DEF BootstrapInit, CollectionRow
  <1>. QED  BY <1>2, <1>3, <1>4 DEF BootInv, BootOK

LEMMA BootInvImplies == BootInv => BootstrapTypeOK /\ EnsuredMatches
  <1>. SUFFICES ASSUME BootInv PROVE BootstrapTypeOK /\ EnsuredMatches
    OBVIOUS
  <1>1. BootstrapTypeOK
    BY DEF BootInv, BootstrapTypeOK, CollectionRow, BootRow
  <1>2. ASSUME NEW b \in Boots, boot[b].at = "done"
        PROVE  collection.size = boot[b].size /\ collection.indexes = IndexFields
    BY <1>2 DEF BootInv, BootOK, CollectionRow
  <1>. QED  BY <1>1, <1>2 DEF BootInv, EnsuredMatches

\* One command does something, while what the others rely on stays.
LEMMA BootStep ==
  ASSUME BootInv, NEW b \in Boots, NEW q \in BootRow, boot' = [boot EXCEPT ![b] = q],
         collection' \in CollectionRow, collection.size # 0 => collection'.size = collection.size,
         collection.indexes \subseteq collection'.indexes,
         BootOK(q, collection'), q.created => boot[b].created \/ collection.size = 0
  PROVE  BootInv'
  <1>1. boot' \in [Boots -> BootRow] /\ \A c \in Boots : boot'[c] = IF c = b THEN q ELSE boot[c]
    BY DEF BootInv
  <1>2. ASSUME NEW c \in Boots PROVE BootOK(boot'[c], collection')
    <2>1. CASE c = b
      BY <1>1, <2>1
    <2>2. CASE c # b
      <3>1. boot'[c] = boot[c] /\ BootOK(boot[c], collection) /\ boot[c].size # 0
        BY <1>1, <2>2, BootstrapAssumption DEF BootInv, BootRow
      <3>. QED  BY <3>1 DEF BootOK
    <2>. QED  BY <2>1, <2>2
  <1>3. \A c \in Boots : boot[c].created => collection.size # 0
    BY DEF BootInv, BootOK
  <1>4. \A c, d \in Boots : boot'[c].created /\ boot'[d].created => c = d
    BY <1>1, <1>3 DEF BootInv
  <1>. QED  BY <1>1, <1>2, <1>4 DEF BootInv

LEMMA BootInvNext == BootInv /\ [BootstrapNext]_bootVars => BootInv'
  <1>. SUFFICES ASSUME BootInv, BootstrapNext PROVE BootInv'
    BY DEF bootVars, BootInv, BootOK
  <1>. PICK b \in Boots :
         \/ StartBoot(b) \/ CreateCollection(b) \/ ValidateCollection(b)
         \/ (\E f \in IndexFields : CreateIndex(b, f)) \/ EndBoot(b) \/ NextBoot(b)
    BY DEF BootstrapNext
  <1>1. /\ collection \in CollectionRow /\ boot[b] \in BootRow /\ boot \in [Boots -> BootRow]
        /\ BootOK(boot[b], collection) /\ boot[b].size \in Sizes /\ boot[b].size # 0
    BY BootstrapAssumption DEF BootInv, BootRow
  <1>2. ASSUME NEW at \in {"create", "validate", "unavailable", "done"}, UNCHANGED collection,
               boot' = [boot EXCEPT ![b].at = at],
               at = "done" => boot[b].at = "index" /\ boot[b].todo = {}
        PROVE  BootInv'
    <2>. DEFINE q == [boot[b] EXCEPT !.at = at]
    <2>1. q \in BootRow /\ q.at = at /\ q.size = boot[b].size /\ q.todo = boot[b].todo /\ q.created = boot[b].created
      BY <1>1 DEF BootRow
    <2>2. boot' = [boot EXCEPT ![b] = q]
      BY <1>1, <1>2
    <2>. HIDE DEF q
    <2>3. BootOK(q, collection')
      BY <1>1, <1>2, <2>1 DEF BootOK
    <2>. QED  BY <1>1, <1>2, <2>1, <2>2, <2>3, BootStep
  <1>3. CASE StartBoot(b)
    BY <1>2, <1>3 DEF StartBoot
  <1>4. CASE CreateCollection(b)
    <2>1. CASE /\ collection.size = 0 /\ collection' = [collection EXCEPT !.size = boot[b].size]
               /\ \/ boot' = [boot EXCEPT ![b].at = "validate", ![b].created = TRUE]
                  \/ boot' = [boot EXCEPT ![b].at = "validate"]
      <3>. DEFINE q == [boot[b] EXCEPT !.at = "validate", !.created = TRUE]
                  r == [boot[b] EXCEPT !.at = "validate"]
      <3>1. /\ q \in BootRow /\ q.at = "validate" /\ r \in BootRow /\ r.at = "validate"
            /\ r.created = boot[b].created
        BY <1>1 DEF BootRow
      <3>2. boot' = [boot EXCEPT ![b] = q] \/ boot' = [boot EXCEPT ![b] = r]
        BY <1>1, <2>1
      <3>3. /\ collection' \in CollectionRow /\ collection'.size = boot[b].size
            /\ collection'.indexes = collection.indexes
        BY <1>1, <2>1 DEF CollectionRow
      <3>. HIDE DEF q, r
      <3>4. BootOK(q, collection') /\ BootOK(r, collection')
        BY <1>1, <3>1, <3>3 DEF BootOK
      <3>5. CASE boot' = [boot EXCEPT ![b] = q]
        BY <2>1, <3>1, <3>3, <3>4, <3>5, BootStep
      <3>6. CASE boot' = [boot EXCEPT ![b] = r]
        BY <2>1, <3>1, <3>3, <3>4, <3>6, BootStep
      <3>. QED  BY <3>2, <3>5, <3>6
    <2>. QED  BY <1>2, <1>4, <2>1 DEF CreateCollection, Outage
  <1>5. CASE ValidateCollection(b)
    <2>. DEFINE at == IF collection.size = boot[b].size THEN "index" ELSE "mismatch"
                todo == IndexFields \ collection.indexes
                q == [boot[b] EXCEPT !.at = at, !.todo = todo]
    <2>1. /\ q \in BootRow /\ q.at = at /\ q.todo = todo /\ q.size = boot[b].size
          /\ q.created = boot[b].created
      BY <1>1 DEF BootRow
    <2>2. boot' = [boot EXCEPT ![b] = q] /\ UNCHANGED collection
      BY <1>1, <1>5 DEF ValidateCollection
    <2>. HIDE DEF q
    <2>3. BootOK(q, collection')
      BY <1>1, <2>1, <2>2 DEF BootOK
    <2>. QED  BY <1>1, <2>1, <2>2, <2>3, BootStep
  <1>6. ASSUME NEW f \in IndexFields, CreateIndex(b, f) PROVE BootInv'
    <2>1. CASE /\ collection' = [collection EXCEPT !.indexes = @ \cup {f}]
               /\ boot' = [boot EXCEPT ![b].todo = @ \ {f}]
      <3>. DEFINE q == [boot[b] EXCEPT !.todo = @ \ {f}]
      <3>1. /\ q \in BootRow /\ q.at = boot[b].at /\ q.todo = boot[b].todo \ {f}
            /\ q.size = boot[b].size /\ q.created = boot[b].created
        BY <1>1 DEF BootRow
      <3>2. boot' = [boot EXCEPT ![b] = q]
        BY <1>1, <2>1
      <3>3. /\ collection' \in CollectionRow /\ collection'.size = collection.size
            /\ collection'.indexes = collection.indexes \cup {f}
        BY <1>1, <2>1 DEF CollectionRow
      <3>. HIDE DEF q
      <3>4. BootOK(q, collection')
        BY <1>1, <1>6, <3>1, <3>3 DEF BootOK, CreateIndex
      <3>. QED  BY <3>1, <3>2, <3>3, <3>4, BootStep
    <2>2. CASE Outage(b)
      BY <1>2, <2>2 DEF Outage
    <2>. QED  BY <1>6, <2>1, <2>2 DEF CreateIndex
  <1>7. CASE EndBoot(b)
    BY <1>2, <1>7 DEF EndBoot
  <1>8. CASE NextBoot(b)
    <2>1. PICK s \in Sizes : boot' = [boot EXCEPT ![b] = [NoBoot EXCEPT !.size = s]]
      BY <1>8 DEF NextBoot
    <2>. DEFINE q == [NoBoot EXCEPT !.size = s]
    <2>2. q \in BootRow /\ q.at = "start" /\ ~q.created
      BY DEF NoBoot, BootRow
    <2>. HIDE DEF q
    <2>3. BootOK(q, collection') /\ UNCHANGED collection /\ boot' = [boot EXCEPT ![b] = q]
      BY <1>8, <2>1, <2>2 DEF BootOK, NextBoot, q
    <2>. QED  BY <1>1, <2>2, <2>3, BootStep
  <1>. QED  BY <1>3, <1>4, <1>5, <1>6, <1>7, <1>8

\* However many release commands create, validate and index the collection at the
\* same time, with whatever failures in between, one that succeeds leaves the
\* collection of its own size with every index, and one takes itself for the
\* creator at most.
THEOREM EnsuredMatchesHolds == BootstrapSpec => []EnsuredMatches
  BY BootInvInit, BootInvNext, BootInvImplies, PTL DEF BootstrapSpec

-----------------------------------------------------------------------------
(* Page extraction: the first result stays, and every attempt ingests it.    *)

Extractions ==
  {e \in [state : {"noindex", "empty", "ready"}, text : BOOLEAN, noindex : BOOLEAN,
          canonical : {"final", "hinted"}, rejected : BOOLEAN] : ~(e.noindex /\ e.text)}
AttemptRow == [at : {"start", "fetch", "persist", "ingest", "done", "failed", "died"},
               extracted : {NoExtraction} \cup Extractions, ingested : {NoExtraction} \cup Extractions]

\* What an attempt ingested is what the job keeps.
ExtractionInv ==
  /\ stored \in {NoExtraction} \cup Extractions /\ attempt \in [Attempts -> AttemptRow]
  /\ \A a \in Attempts : attempt[a].ingested \in {NoExtraction, stored}

LEMMA ExtractArticleOK == \A r \in Responses : ExtractArticle(r) \in Extractions
  <1>. TAKE r \in Responses
  <1>. DEFINE n == RobotsNoindex(r)
  <1>1. /\ n \in BOOLEAN /\ CanonicalRejected(r) \in BOOLEAN /\ CanonicalUrl(r) \in {"final", "hinted"}
    BY DEF Responses, RobotsNoindex, CanonicalRejected, CanonicalUrl
  <1>2. /\ ExtractionState(r) \in {"noindex", "empty", "ready"}
        /\ r.body # "blank" /\ n => ExtractionState(r) # "ready"
    BY DEF ExtractionState
  <1>. HIDE DEF n
  <1>. QED  BY <1>1, <1>2 DEF ExtractArticle, Extractions, n

LEMMA ExtractionInvInit == ExtractionInit => ExtractionInv
  <1>1. NoAttempt \in AttemptRow /\ NoAttempt.ingested = NoExtraction
    BY DEF NoAttempt, AttemptRow
  <1>. QED  BY <1>1 DEF ExtractionInit, ExtractionInv

\* One attempt goes on with the stored result untouched, or storing the first.
LEMMA AttemptStep ==
  ASSUME ExtractionInv, NEW a \in Attempts, NEW q \in AttemptRow, attempt' = [attempt EXCEPT ![a] = q],
         stored' \in Extractions \cup {NoExtraction}, stored' = stored \/ stored = NoExtraction,
         q.ingested \in {NoExtraction, stored}
  PROVE  ExtractionInv'
  BY DEF ExtractionInv

LEMMA ExtractionInvNext == ExtractionInv /\ [ExtractionNext]_extractionVars => ExtractionInv'
  <1>. SUFFICES ASSUME ExtractionInv, ExtractionNext PROVE ExtractionInv'
    BY DEF extractionVars, ExtractionInv
  <1>. PICK a \in Attempts : Resume(a) \/ FetchPage(a) \/ Persist(a) \/ IngestStored(a) \/ Retry(a)
    BY DEF ExtractionNext
  <1>1. /\ attempt \in [Attempts -> AttemptRow] /\ attempt[a] \in AttemptRow
        /\ stored \in {NoExtraction} \cup Extractions /\ attempt[a].ingested \in {NoExtraction, stored}
    BY DEF ExtractionInv
  <1>2. ASSUME NEW at \in {"start", "fetch", "ingest"}, attempt' = [attempt EXCEPT ![a].at = at],
               stored' \in Extractions \cup {NoExtraction}, stored' = stored \/ stored = NoExtraction
        PROVE  ExtractionInv'
    <2>. DEFINE q == [attempt[a] EXCEPT !.at = at]
    <2>1. q \in AttemptRow /\ q.ingested = attempt[a].ingested /\ attempt' = [attempt EXCEPT ![a] = q]
      BY <1>1, <1>2 DEF AttemptRow
    <2>. QED  BY <1>1, <1>2, <2>1, AttemptStep
  <1>3. CASE Resume(a)
    BY <1>1, <1>2, <1>3 DEF Resume
  <1>4. CASE FetchPage(a)
    <2>1. PICK r \in Responses : attempt' = [attempt EXCEPT ![a] =
            IF ExtractionError(r) = "none"
            THEN [NoAttempt EXCEPT !.at = "persist", !.extracted = ExtractArticle(r)]
            ELSE [NoAttempt EXCEPT !.at = IF ExtractionError(r) = "uncaught"
                                          THEN "died" ELSE "failed"]]
      BY <1>4 DEF FetchPage
    <2>. DEFINE q == [[NoAttempt EXCEPT !.at = "persist"] EXCEPT !.extracted = ExtractArticle(r)]
                f == [NoAttempt EXCEPT !.at = IF ExtractionError(r) = "uncaught" THEN "died" ELSE "failed"]
    <2>2. NoAttempt \in AttemptRow /\ NoAttempt.ingested = NoExtraction
      BY DEF NoAttempt, AttemptRow
    <2>3. f \in AttemptRow /\ f.ingested = NoExtraction
      BY <2>2 DEF AttemptRow
    <2>4. q \in AttemptRow /\ q.ingested = NoExtraction
      BY <2>2, ExtractArticleOK DEF AttemptRow
    <2>5. q = [NoAttempt EXCEPT !.at = "persist", !.extracted = ExtractArticle(r)]
      OBVIOUS
    <2>6. attempt' = [attempt EXCEPT ![a] = q] \/ attempt' = [attempt EXCEPT ![a] = f]
      BY <2>1, <2>5
    <2>. HIDE DEF q, f
    <2>. QED  BY <1>1, <1>4, <2>3, <2>4, <2>6, AttemptStep DEF FetchPage
  <1>5. CASE Persist(a)
    <2>1. attempt[a].extracted \in Extractions \cup {NoExtraction}
      BY <1>1 DEF AttemptRow
    <2>. QED  BY <1>1, <1>2, <1>5, <2>1 DEF Persist
  <1>6. CASE IngestStored(a)
    <2>. DEFINE q == [[attempt[a] EXCEPT !.at = "done"] EXCEPT !.ingested = stored]
    <2>1. q \in AttemptRow /\ q.ingested = stored
      BY <1>1 DEF AttemptRow
    <2>2. attempt' = [attempt EXCEPT ![a] = q] /\ stored' = stored
      BY <1>1, <1>6 DEF IngestStored
    <2>. HIDE DEF q
    <2>. QED  BY <1>1, <2>1, <2>2, AttemptStep
  <1>7. CASE Retry(a)
    BY <1>1, <1>2, <1>7 DEF Retry
  <1>. QED  BY <1>3, <1>4, <1>5, <1>6, <1>7

LEMMA ExtractionInvImplies == ExtractionInv => OneExtraction
  BY DEF ExtractionInv, OneExtraction, Extractions

\* However the attempts of a job overlap and however its page changes between
\* them, all of them ingest one extraction, and none keeps the text of a page that
\* asks not to be indexed.
THEOREM OneExtractionHolds == ExtractionSpec => []OneExtraction
  BY ExtractionInvInit, ExtractionInvNext, ExtractionInvImplies, PTL DEF ExtractionSpec

-----------------------------------------------------------------------------
(* IndexNow: what the checkpoint says was told has been told.                *)

NoticeEntries == {NoEntry} \cup (Nat \X Nat)
NoticeRow == [at : {"idle", "verify", "read", "send"}, expected : Nat, force : BOOLEAN,
              unread : SUBSET Sections, current : [PublicUrls -> NoticeEntries],
              unsent : SUBSET PublicUrls, tries : 0 .. MaxTries - 1]

\* No checkpoint is from a release to come, and one of the live release is announced.
CheckpointOK(u) ==
  checkpoint[u] # NoEntry => /\ checkpoint[u][1] <= release
                             /\ checkpoint[u] = Fingerprint(release, u) => heard[u] = page[u]

\* What the run has read is of the revision that it expects.  While that is live
\* yet, it is what the sitemap says now, and announced unless it is in the queue.
CurrentOK(u) ==
  notice.current[u] # NoEntry =>
    /\ notice.at \in {"read", "send"} /\ notice.current[u][1] = notice.expected
    /\ notice.expected = release =>
         /\ notice.current[u] = Fingerprint(release, u)
         /\ notice.at = "send" => u \in notice.unsent \/ heard[u] = page[u]
NoticeInv ==
  /\ release \in 1 .. MaxReleases
  /\ page \in [PublicUrls -> 0 .. MaxReleases] /\ heard \in [PublicUrls -> 0 .. MaxReleases]
  /\ checkpoint \in [PublicUrls -> NoticeEntries] /\ notice \in NoticeRow
  /\ notice.at \in {"read", "send"} => notice.expected <= release
  /\ \A u \in PublicUrls : CheckpointOK(u) /\ CurrentOK(u)

LEMMA NoticeBounds == BatchSize \in Nat \ {0} /\ MaxTries \in Nat \ {0} /\ MaxReleases \in Nat \ {0}
  BY NoticeAssumption

\* A stamp carries the revision that the run expects, and there is one of a live page only.
LEMMA FingerprintOK ==
  ASSUME page \in [PublicUrls -> 0 .. MaxReleases], NEW e \in Nat, NEW u \in PublicUrls
  PROVE  /\ Fingerprint(e, u) \in NoticeEntries
         /\ page[u] = Gone => Fingerprint(e, u) = NoEntry
         /\ page[u] # Gone => Fingerprint(e, u) # NoEntry
         /\ Fingerprint(e, u) # NoEntry => Fingerprint(e, u)[1] = e
  <1>1. page[u] \in Nat
    BY NoticeBounds
  <1>2. CASE page[u] = Gone
    BY <1>2 DEF Fingerprint, NoticeEntries
  <1>3. CASE page[u] # Gone
    <2>. DEFINE v == IF u \in Dated THEN page[u] ELSE 0
    <2>1. Fingerprint(e, u) = <<e, v>> /\ v \in Nat
      BY <1>1, <1>3 DEF Fingerprint
    <2>. HIDE DEF v
    <2>2. <<e, v>> \in NoticeEntries /\ <<e, v>> # NoEntry /\ <<e, v>>[1] = e
      BY <2>1 DEF NoticeEntries, NoEntry
    <2>. QED  BY <1>3, <2>1, <2>2
  <1>. QED  BY <1>2, <1>3

LEMMA NoNoticeOK == NoNotice \in NoticeRow /\ NoNotice.at = "idle" /\ \A u \in PublicUrls : NoNotice.current[u] = NoEntry
  BY NoticeBounds DEF NoNotice, NoticeRow, NoticeEntries

LEMMA NoticeInvInit == NoticeInit => NoticeInv
  <1>. SUFFICES ASSUME NoticeInit PROVE NoticeInv
    OBVIOUS
  <1>1. /\ release \in 1 .. MaxReleases /\ page \in [PublicUrls -> 0 .. MaxReleases]
        /\ heard \in [PublicUrls -> 0 .. MaxReleases] /\ checkpoint \in [PublicUrls -> NoticeEntries]
    BY NoticeBounds DEF NoticeInit, Gone, NoticeEntries
  <1>2. \A u \in PublicUrls : checkpoint[u] = NoEntry /\ notice.current[u] = NoEntry
    BY NoNoticeOK DEF NoticeInit
  <1>. QED  BY <1>1, <1>2, NoNoticeOK DEF NoticeInit, NoticeInv, CheckpointOK, CurrentOK

LEMMA NoticeInvImplies == NoticeInv => NoticeTypeOK /\ CheckpointAnnounced
  <1>. SUFFICES ASSUME NoticeInv PROVE NoticeTypeOK /\ CheckpointAnnounced
    OBVIOUS
  <1>1. NoticeTypeOK
    BY DEF NoticeInv, NoticeTypeOK, NoticeRow
  <1>2. ASSUME NEW u \in PublicUrls, page[u] # Gone, heard[u] # page[u], checkpoint[u] = Fingerprint(release, u)
        PROVE  FALSE
    <2>1. checkpoint[u] # NoEntry
      BY <1>2, FingerprintOK DEF NoticeInv
    <2>. QED  BY <1>2, <2>1 DEF NoticeInv, CheckpointOK
  <1>. QED  BY <1>1, <1>2 DEF CheckpointAnnounced

\* A run that ends, or has not read yet, holds nothing.
LEMMA NoticeReset ==
  ASSUME NoticeInv, UNCHANGED <<release, page, heard>>, checkpoint' \in [PublicUrls -> NoticeEntries],
         \A u \in PublicUrls : CheckpointOK(u)', notice' \in NoticeRow, notice'.at \in {"idle", "verify"},
         \A u \in PublicUrls : notice'.current[u] = NoEntry
  PROVE  NoticeInv'
  BY DEF NoticeInv, CurrentOK

LEMMA NoticeInvNext == NoticeInv /\ [NoticeNext]_noticeVars => NoticeInv'
  <1>. SUFFICES ASSUME NoticeInv, [NoticeNext]_noticeVars PROVE NoticeInv'
    OBVIOUS
  <1>1. /\ release \in 1 .. MaxReleases /\ release \in Nat \ {0}
        /\ page \in [PublicUrls -> 0 .. MaxReleases] /\ heard \in [PublicUrls -> 0 .. MaxReleases]
        /\ checkpoint \in [PublicUrls -> NoticeEntries] /\ notice \in NoticeRow
        /\ notice.current \in [PublicUrls -> NoticeEntries] /\ notice.unsent \subseteq PublicUrls
        /\ notice.tries \in 0 .. MaxTries - 1 /\ notice.expected \in Nat
        /\ notice.at \in {"read", "send"} => notice.expected <= release
    BY NoticeBounds DEF NoticeInv, NoticeRow
  <1>2. \A u \in PublicUrls : CheckpointOK(u) /\ CurrentOK(u)
    BY DEF NoticeInv
  <1>3. CASE Deploy
    <2>1. /\ release' = release + 1 /\ release' \in 1 .. MaxReleases /\ UNCHANGED <<checkpoint, notice, heard>>
          /\ page' \in [PublicUrls -> 0 .. MaxReleases]
      <3>1. /\ release' = release + 1 /\ release' \in 1 .. MaxReleases /\ UNCHANGED <<checkpoint, notice, heard>>
        BY <1>1, <1>3, NoticeBounds DEF Deploy
      <3>2. PICK changed \in SUBSET PublicUrls, gone \in SUBSET PublicUrls :
              page' = [u \in PublicUrls |-> IF u \in gone THEN Gone ELSE IF u \in changed THEN release' ELSE page[u]]
        BY <1>3 DEF Deploy
      <3>. QED  BY <1>1, <3>1, <3>2, NoticeBounds DEF Gone
    <2>2. ASSUME NEW u \in PublicUrls PROVE CheckpointOK(u)'
      <3>. DEFINE v == IF u \in Dated THEN page'[u] ELSE 0
      <3>1. Fingerprint(release, u)' \in {NoEntry, <<release', v>>}
        BY DEF Fingerprint
      <3>. HIDE DEF v
      <3>2. CASE checkpoint[u] = NoEntry
        BY <2>1, <3>2 DEF CheckpointOK
      <3>3. CASE checkpoint[u] # NoEntry
        <4>1. checkpoint[u] \in Nat \X Nat /\ checkpoint[u][1] <= release
          BY <1>1, <1>2, <3>3 DEF CheckpointOK, NoticeEntries
        <4>2. checkpoint[u][1] < release' /\ checkpoint[u] # <<release', v>>
          BY <1>1, <2>1, <4>1
        <4>3. checkpoint[u] # Fingerprint(release, u)'
          BY <3>1, <3>3, <4>2
        <4>. QED  BY <1>1, <2>1, <4>1, <4>2, <4>3 DEF CheckpointOK
      <3>. QED  BY <3>2, <3>3
    <2>3. ASSUME NEW u \in PublicUrls PROVE CurrentOK(u)'
      BY <1>1, <1>2, <2>1 DEF CurrentOK
    <2>. QED  BY <1>1, <2>1, <2>2, <2>3 DEF NoticeInv
  <1>4. CASE EvictCheckpoint
    <2>1. UNCHANGED <<release, page, notice, heard>> /\ checkpoint' \in [PublicUrls -> NoticeEntries]
      BY <1>4 DEF EvictCheckpoint, NoticeEntries
    <2>2. \A u \in PublicUrls : CheckpointOK(u)'
      BY <1>4 DEF EvictCheckpoint, CheckpointOK
    <2>3. ASSUME NEW u \in PublicUrls PROVE CurrentOK(u)'
      <3>1. Fingerprint(release, u)' = Fingerprint(release, u)
        BY <2>1 DEF Fingerprint
      <3>. QED  BY <1>2, <2>1, <3>1 DEF CurrentOK
    <2>. QED  BY <1>1, <2>1, <2>2, <2>3 DEF NoticeInv
  <1>5. ASSUME UNCHANGED <<release, page, checkpoint, heard>> PROVE \A u \in PublicUrls : CheckpointOK(u)'
    BY <1>2, <1>5 DEF CheckpointOK, Fingerprint
  <1>6. CASE Quits
    BY <1>1, <1>5, <1>6, NoNoticeOK, NoticeReset DEF Quits, Noticing
  <1>7. CASE StartNotice
    <2>1. PICK e \in {0} \cup release .. MaxReleases, f \in BOOLEAN :
            notice' = [NoNotice EXCEPT !.at = "verify", !.expected = e, !.force = f]
      BY <1>7 DEF StartNotice
    <2>. DEFINE q == [[[NoNotice EXCEPT !.at = "verify"] EXCEPT !.expected = e] EXCEPT !.force = f]
    <2>2. notice' = q
      BY <2>1
    <2>3. e \in Nat
      BY <1>1, NoticeBounds
    <2>4. q \in NoticeRow /\ q.at = "verify" /\ q.current = NoNotice.current
      BY <2>3, NoNoticeOK DEF NoticeRow
    <2>. HIDE DEF q
    <2>. QED  BY <1>1, <1>5, <1>7, <2>2, <2>4, NoNoticeOK, NoticeReset DEF StartNotice, Noticing
  <1>8. CASE VerifyKey
    <2>. DEFINE q == [[notice EXCEPT !.at = "read"] EXCEPT !.unread = Sections]
    <2>1. notice' = q /\ UNCHANGED <<release, page, checkpoint, heard>> /\ notice.at = "verify"
          /\ notice.expected <= release
      BY <1>1, <1>8 DEF VerifyKey, Noticing
    <2>2. q \in NoticeRow /\ q.at = "read" /\ q.current = notice.current /\ q.expected = notice.expected
      BY <1>1 DEF NoticeRow
    <2>. HIDE DEF q
    <2>3. \A u \in PublicUrls : CurrentOK(u)'
      BY <1>2, <2>1, <2>2 DEF CurrentOK
    <2>. QED  BY <1>1, <1>5, <2>1, <2>2, <2>3 DEF NoticeInv
  <1>9. CASE AbandonNotice
    BY <1>6, <1>9 DEF AbandonNotice
  <1>10. ASSUME NEW d \in Sections, ReadSection(d) PROVE NoticeInv'
    <2>. DEFINE read == [u \in PublicUrls |-> IF SectionOf[u] = d THEN Fingerprint(notice.expected, u)
                                              ELSE notice.current[u]]
                q == [[notice EXCEPT !.unread = @ \ {d}] EXCEPT !.current = read]
    <2>1. notice' = q /\ UNCHANGED <<release, page, checkpoint, heard>> /\ notice.at = "read"
      BY <1>10 DEF ReadSection, Noticing
    <2>2. read \in [PublicUrls -> NoticeEntries]
      BY <1>1, FingerprintOK
    <2>3. \A u \in PublicUrls : read[u] \in {notice.current[u], Fingerprint(notice.expected, u)}
      OBVIOUS
    <2>. HIDE DEF read
    <2>4. q \in NoticeRow /\ q.at = notice.at /\ q.current = read /\ q.expected = notice.expected
      BY <1>1, <2>2 DEF NoticeRow
    <2>. HIDE DEF q
    <2>5. ASSUME NEW u \in PublicUrls PROVE CurrentOK(u)'
      <3>1. Fingerprint(release, u)' = Fingerprint(release, u)
        BY <2>1 DEF Fingerprint
      <3>2. CASE read[u] = notice.current[u]
        BY <1>2, <2>1, <2>4, <3>1, <3>2 DEF CurrentOK
      <3>3. CASE read[u] = Fingerprint(notice.expected, u)
        <4>1. read[u] # NoEntry => read[u][1] = notice.expected
          BY <1>1, <3>3, FingerprintOK
        <4>. QED  BY <2>1, <2>4, <3>1, <3>3, <4>1 DEF CurrentOK
      <3>. QED  BY <2>3, <3>2, <3>3
    <2>. QED  BY <1>1, <1>5, <2>1, <2>4, <2>5 DEF NoticeInv
  <1>11. CASE CompareStates
    <2>. DEFINE listed == {u \in PublicUrls : notice.current[u] # NoEntry}
                known == listed \cup {u \in PublicUrls : checkpoint[u] # NoEntry}
                changed == IF notice.expected = 0 THEN listed
                           ELSE {u \in known : notice.force \/ notice.current[u] # checkpoint[u]}
                q == [[notice EXCEPT !.at = "send"] EXCEPT !.unsent = changed]
    <2>1. CASE ~Quits
      <3>1. notice' = q /\ UNCHANGED <<release, page, checkpoint, heard>> /\ notice.at = "read"
        BY <1>11, <2>1 DEF CompareStates, Noticing
      <3>2. changed \subseteq PublicUrls
        OBVIOUS
      <3>3. ASSUME NEW u \in PublicUrls \ changed, notice.current[u] # NoEntry, notice.expected # 0
            PROVE  notice.current[u] = checkpoint[u]
        BY <3>3
      <3>. HIDE DEF changed
      <3>4. /\ q \in NoticeRow /\ q.at = "send" /\ q.current = notice.current
            /\ q.expected = notice.expected /\ q.unsent = changed
        BY <1>1, <3>2 DEF NoticeRow
      <3>. HIDE DEF q
      <3>5. ASSUME NEW u \in PublicUrls PROVE CurrentOK(u)'
        <4>1. Fingerprint(release, u)' = Fingerprint(release, u)
          BY <3>1 DEF Fingerprint
        <4>2. ASSUME notice.current[u] # NoEntry, notice.expected = release, u \notin changed
              PROVE  heard[u] = page[u]
          BY <1>1, <1>2, <3>3, <4>2 DEF CurrentOK, CheckpointOK
        <4>. QED  BY <1>2, <3>1, <3>4, <4>1, <4>2 DEF CurrentOK
      <3>. QED  BY <1>1, <1>5, <3>1, <3>4, <3>5 DEF NoticeInv
    <2>. QED  BY <1>6, <2>1
  <1>12. CASE SendBatch
    <2>. DEFINE batch == {u \in notice.unsent : Cardinality({v \in notice.unsent : v < u}) < BatchSize}
                reached == [u \in PublicUrls |-> IF u \in batch THEN page[u] ELSE heard[u]]
    <2>1. /\ batch \subseteq notice.unsent /\ reached \in [PublicUrls -> 0 .. MaxReleases]
          /\ \A u \in PublicUrls : reached[u] = page[u] \/ (reached[u] = heard[u] /\ u \notin batch)
      BY <1>1
    <2>2. /\ notice.at = "send" /\ UNCHANGED <<release, page, checkpoint>>
          /\ \/ notice' = [notice EXCEPT !.unsent = @ \ batch, !.tries = 0] /\ heard' = reached
             \/ notice' = TriedAgain /\ heard' \in {heard, reached}
      BY <1>12 DEF SendBatch, Noticing
    <2>. HIDE DEF batch, reached
    <2>3. heard' \in [PublicUrls -> 0 .. MaxReleases] /\ \A u \in PublicUrls : heard'[u] \in {heard[u], page[u]}
      BY <1>1, <2>1, <2>2
    <2>4. \A u \in PublicUrls : CheckpointOK(u)'
      BY <1>2, <2>2, <2>3 DEF CheckpointOK, Fingerprint
    <2>5. CASE notice' = NoNotice
      BY <1>1, <2>2, <2>3, <2>4, <2>5, NoNoticeOK DEF NoticeInv, CurrentOK
    <2>6. ASSUME NEW q \in NoticeRow, notice' = q, q.at = "send", q.current = notice.current,
                 q.expected = notice.expected,
                 \A u \in notice.unsent \ q.unsent : heard'[u] = page[u]
          PROVE  NoticeInv'
      <3>1. ASSUME NEW u \in PublicUrls PROVE CurrentOK(u)'
        <4>1. Fingerprint(release, u)' = Fingerprint(release, u)
          BY <2>2 DEF Fingerprint
        <4>. QED  BY <1>2, <2>2, <2>3, <2>6, <4>1 DEF CurrentOK
      <3>. QED  BY <1>1, <2>2, <2>3, <2>4, <2>6, <3>1 DEF NoticeInv
    <2>7. CASE notice' = TriedAgain /\ notice' # NoNotice
      <3>. DEFINE q == [notice EXCEPT !.tries = @ + 1]
      <3>1. notice' = q /\ notice.tries + 1 < MaxTries
        BY <2>7 DEF TriedAgain
      <3>2. /\ q \in NoticeRow /\ q.at = notice.at /\ q.current = notice.current
            /\ q.expected = notice.expected /\ q.unsent = notice.unsent
        BY <1>1, <3>1, NoticeBounds DEF NoticeRow
      <3>. HIDE DEF q
      <3>. QED  BY <2>2, <2>6, <3>1, <3>2
    <2>8. CASE notice' = [notice EXCEPT !.unsent = @ \ batch, !.tries = 0] /\ heard' = reached
      <3>. DEFINE q == [[notice EXCEPT !.unsent = @ \ batch] EXCEPT !.tries = 0]
      <3>1. notice' = q
        BY <2>8
      <3>2. 0 \in 0 .. MaxTries - 1
        BY NoticeBounds
      <3>3. /\ q \in NoticeRow /\ q.at = notice.at /\ q.current = notice.current
            /\ q.expected = notice.expected /\ q.unsent = notice.unsent \ batch
        BY <1>1, <3>2 DEF NoticeRow
      <3>. HIDE DEF q
      <3>4. \A u \in batch : reached[u] = page[u]
        BY <1>1, <2>1
      <3>. QED  BY <2>2, <2>6, <2>8, <3>1, <3>3, <3>4
    <2>. QED  BY <2>2, <2>5, <2>7, <2>8
  <1>13. CASE SaveCheckpoint
    <2>1. /\ notice' = NoNotice /\ UNCHANGED <<release, page, heard>> /\ notice.at = "send" /\ notice.unsent = {}
          /\ checkpoint' = IF notice.expected = 0 THEN checkpoint ELSE notice.current
      BY <1>13 DEF SaveCheckpoint, Noticing
    <2>2. ASSUME NEW u \in PublicUrls PROVE CheckpointOK(u)'
      <3>1. Fingerprint(release, u)' = Fingerprint(release, u)
        BY <2>1 DEF Fingerprint
      <3>2. CASE checkpoint'[u] = checkpoint[u]
        BY <1>2, <2>1, <3>1, <3>2 DEF CheckpointOK
      <3>3. CASE checkpoint'[u] = notice.current[u]
        <4>1. notice.current[u] = Fingerprint(release, u) /\ notice.current[u] # NoEntry
                => notice.current[u][1] = release
          BY <1>1, FingerprintOK
        <4>. QED  BY <1>1, <1>2, <2>1, <3>1, <3>3, <4>1 DEF CheckpointOK, CurrentOK
      <3>. QED  BY <2>1, <3>2, <3>3
    <2>3. checkpoint' \in [PublicUrls -> NoticeEntries]
      BY <1>1, <2>1
    <2>. QED  BY <2>1, <2>2, <2>3, NoNoticeOK, NoticeReset
  <1>14. CASE UNCHANGED noticeVars
    BY <1>1, <1>2, <1>5, <1>14 DEF noticeVars, NoticeInv, CurrentOK, Fingerprint
  <1>. QED  BY <1>3, <1>4, <1>7, <1>8, <1>9, <1>10, <1>11, <1>12, <1>13, <1>14 DEF NoticeNext

\* Whatever failed, was retried, was evicted or went live during a run: as long as
\* search engines have not been told of a live page as it is now, its state differs
\* from the checkpoint, so the next check announces it.
THEOREM CheckpointAnnouncedHolds == NoticeSpec => [](NoticeTypeOK /\ CheckpointAnnounced)
  BY NoticeInvInit, NoticeInvNext, NoticeInvImplies, PTL DEF NoticeSpec

-----------------------------------------------------------------------------
(* Links.                                                                    *)

AddLink(links, a) ==
    IF Cardinality(DOMAIN links) >= MaxLinks \/ a[1] = 0 THEN links
    ELSE [u \in DOMAIN links \cup {a[1]} |->
            IF u # a[1] THEN links[u]
            ELSE IF u \notin DOMAIN links THEN a[2]
            ELSE IF links[u] = 0 THEN a[2] ELSE links[u]]

\* The fold over subsets of the places, last place first.
LinksOf(anchors, iter, s) ==
    IF s = {} THEN <<>> ELSE AddLink(iter[s \ {Max(s)}], anchors[Max(s)])
LinksFold(anchors) == CHOOSE iter : iter = [s \in SUBSET (DOMAIN anchors) |-> LinksOf(anchors, iter, s)]

LEMMA LinksFolded ==
  ASSUME NEW anchors PROVE OutboundLinks(anchors) = LinksFold(anchors)[DOMAIN anchors]
  BY DEF OutboundLinks, FoldLeft, MapThenFoldSet, LinksFold, LinksOf, AddLink

LEMMA LinksFoldExists ==
  ASSUME NEW anchors, NEW n \in Nat
  PROVE  \E iter : iter = [s \in SUBSET (1 .. n) |-> LinksOf(anchors, iter, s)]
  <1>. DEFINE T == {k \in Nat : \E iter : iter = [s \in SUBSET (1 .. k) |-> LinksOf(anchors, iter, s)]}
  <1>1. 0 \in T
    <2>. DEFINE g == [s \in SUBSET (1 .. 0) |-> <<>>]
    <2>1. \A s \in SUBSET (1 .. 0) : LinksOf(anchors, g, s) = <<>>
      BY DEF LinksOf
    <2>2. g = [s \in SUBSET (1 .. 0) |-> LinksOf(anchors, g, s)]
      BY <2>1
    <2>. QED  BY <2>2
  <1>2. ASSUME NEW k \in Nat, k \in T PROVE k + 1 \in T
    <2>1. PICK g : g = [s \in SUBSET (1 .. k) |-> LinksOf(anchors, g, s)]
      BY <1>2
    <2>. DEFINE h == [s \in SUBSET (1 .. k + 1) |->
                        IF k + 1 \in s THEN AddLink(g[s \ {k + 1}], anchors[k + 1]) ELSE g[s]]
    <2>2. ASSUME NEW s \in SUBSET (1 .. k + 1) PROVE h[s] = LinksOf(anchors, h, s)
      <3>1. \A r \in SUBSET (1 .. k) : r \in SUBSET (1 .. k + 1) /\ k + 1 \notin r /\ h[r] = g[r]
        OBVIOUS
      <3>2. CASE k + 1 \in s
        <4>1. Max(s) = k + 1 /\ s # {}
          BY <3>2, LastOfInitial
        <4>2. s \ {k + 1} \in SUBSET (1 .. k)
          OBVIOUS
        <4>3. h[s] = AddLink(g[s \ {k + 1}], anchors[k + 1])
          BY <3>2
        <4>. HIDE DEF h
        <4>. QED  BY <3>1, <4>1, <4>2, <4>3 DEF LinksOf
      <3>3. CASE k + 1 \notin s
        <4>1. s \in SUBSET (1 .. k) /\ s \ {Max(s)} \in SUBSET (1 .. k)
          <5>1. \A y \in 1 .. k + 1 : y = k + 1 \/ y \in 1 .. k
            OBVIOUS
          <5>. QED  BY <3>3, <5>1
        <4>2. h[s] = g[s] /\ h[s \ {Max(s)}] = g[s \ {Max(s)}]
          BY <3>1, <4>1
        <4>3. g[s] = LinksOf(anchors, g, s)
          BY <2>1, <4>1
        <4>. HIDE DEF h
        <4>. QED  BY <4>2, <4>3 DEF LinksOf
      <3>. QED  BY <3>2, <3>3
    <2>3. h = [s \in SUBSET (1 .. k + 1) |-> h[s]]
      OBVIOUS
    <2>4. h = [s \in SUBSET (1 .. k + 1) |-> LinksOf(anchors, h, s)]
      <3>. HIDE DEF h
      <3>. QED  BY <2>2, <2>3
    <2>5. \E iter : iter = [s \in SUBSET (1 .. k + 1) |-> LinksOf(anchors, iter, s)]
      <3>. HIDE DEF h
      <3>. QED  BY <2>4
    <2>. QED  BY <2>5
  <1>3. Nat \subseteq T
    <2>. HIDE DEF T
    <2>. QED  BY <1>1, <1>2, SetInduction
  <1>. QED  BY <1>3

LEMMA LinksFoldStep ==
  ASSUME NEW X, NEW anchors \in Seq(X)
  PROVE  /\ LinksFold(anchors)[1 .. 0] = <<>>
         /\ \A k \in 1 .. Len(anchors) :
              LinksFold(anchors)[1 .. k] = AddLink(LinksFold(anchors)[1 .. k - 1], anchors[k])
  <1>. DEFINE n == Len(anchors)
              iter == LinksFold(anchors)
  <1>1. n \in Nat /\ DOMAIN anchors = 1 .. n
    OBVIOUS
  <1>. HIDE DEF n
  <1>2. iter = [s \in SUBSET (1 .. n) |-> LinksOf(anchors, iter, s)]
    <2>1. \E it : it = [s \in SUBSET (1 .. n) |-> LinksOf(anchors, it, s)]
      BY <1>1, LinksFoldExists
    <2>. QED  BY <1>1, <2>1 DEF LinksFold
  <1>. HIDE DEF iter
  <1>3. iter[1 .. 0] = <<>>
    <2>1. 1 .. 0 = {} /\ 1 .. 0 \in SUBSET (1 .. n)
      BY <1>1
    <2>. QED  BY <1>2, <2>1 DEF LinksOf
  <1>4. ASSUME NEW k \in 1 .. n PROVE iter[1 .. k] = AddLink(iter[1 .. k - 1], anchors[k])
    <2>1. k \in Nat \ {0} /\ k \in 1 .. k /\ 1 .. k \in SUBSET (1 .. n)
      BY <1>1
    <2>2. Max(1 .. k) = k /\ 1 .. k # {}
      BY <2>1, LastOfInitial
    <2>3. (1 .. k) \ {k} = 1 .. k - 1
      BY <2>1
    <2>. QED  BY <1>2, <2>1, <2>2, <2>3 DEF LinksOf
  <1>. QED  BY <1>3, <1>4 DEF n, iter

-----------------------------------------------------------------------------
(* What the fold has kept of the first k links.                              *)

Before(anchors, k) == {anchors[j][1] : j \in 1 .. k} \ {0}
ReadOf(anchors, k) == {i \in 1 .. k : Cardinality(Before(anchors, i - 1)) < MaxLinks}
TextsOf(anchors, k, u) == {i \in ReadOf(anchors, k) : anchors[i][1] = u /\ anchors[i][2] # 0}
KeptOf(anchors, k, kept) ==
  /\ DOMAIN kept = {anchors[i][1] : i \in ReadOf(anchors, k)} \ {0}
  /\ \A u \in DOMAIN kept :
       kept[u] = IF TextsOf(anchors, k, u) = {} THEN 0 ELSE anchors[Min(TextsOf(anchors, k, u))][2]
  /\ \/ DOMAIN kept = Before(anchors, k)
     \/ Cardinality(DOMAIN kept) >= MaxLinks /\ Cardinality(Before(anchors, k)) >= MaxLinks

LEMMA BeforeFinite ==
  ASSUME NEW X, NEW anchors \in Seq(X), NEW k \in Nat
  PROVE  IsFiniteSet(Before(anchors, k)) /\ Cardinality(Before(anchors, k)) \in Nat
  <1>. DEFINE I == 1 .. k
              image == {anchors[j][1] : j \in I}
              f == [j \in I |-> anchors[j][1]]
  <1>1. IsFiniteSet(I)
    BY FS_Interval
  <1>2. f \in Surjection(I, image)
    BY DEF Surjection
  <1>3. IsFiniteSet(image)
    <2>. HIDE DEF I, f, image
    <2>. QED  BY <1>1, <1>2, FS_Surjection
  <1>4. Before(anchors, k) \in SUBSET image
    BY DEF Before
  <1>. HIDE DEF image
  <1>. QED  BY <1>3, <1>4, FS_Subset, FS_CardinalityType

LEMMA BeforeGrows ==
  ASSUME NEW X, NEW anchors \in Seq(X), NEW k \in Nat
  PROVE  /\ Before(anchors, k + 1) = Before(anchors, k) \cup ({anchors[k + 1][1]} \ {0})
         /\ Cardinality(Before(anchors, k)) <= Cardinality(Before(anchors, k + 1))
  <1>0. 1 .. k + 1 = (1 .. k) \cup {k + 1}
    OBVIOUS
  <1>1. Before(anchors, k + 1) = Before(anchors, k) \cup ({anchors[k + 1][1]} \ {0})
    BY <1>0 DEF Before
  <1>2. Before(anchors, k) \in SUBSET Before(anchors, k + 1)
    BY <1>1
  <1>3. k + 1 \in Nat
    OBVIOUS
  <1>4. IsFiniteSet(Before(anchors, k + 1))
    BY <1>3, BeforeFinite
  <1>. QED  BY <1>1, <1>2, <1>4, FS_Subset

\* Counts only grow: a link that is still read came after links that all were.
LEMMA ReadGrows ==
  ASSUME NEW X, NEW anchors \in Seq(X), NEW k \in Nat
  PROVE  /\ Cardinality(Before(anchors, k)) < MaxLinks => ReadOf(anchors, k + 1) = ReadOf(anchors, k) \cup {k + 1}
         /\ ~(Cardinality(Before(anchors, k)) < MaxLinks) => ReadOf(anchors, k + 1) = ReadOf(anchors, k)
  <1>1. 1 .. k + 1 = (1 .. k) \cup {k + 1} /\ (k + 1) - 1 = k
    OBVIOUS
  <1>. QED  BY <1>1 DEF ReadOf

LEMMA KeptLinksStep ==
  ASSUME NEW X, NEW anchors \in Seq(X), NEW k \in Nat, NEW kept, KeptOf(anchors, k, kept)
  PROVE  KeptOf(anchors, k + 1, AddLink(kept, anchors[k + 1]))
  <1>. DEFINE last == anchors[k + 1][1]
              text == anchors[k + 1][2]
              next == AddLink(kept, anchors[k + 1])
  <1>1. /\ IsFiniteSet(Before(anchors, k)) /\ Cardinality(Before(anchors, k)) \in Nat /\ MaxLinks \in Nat
    BY BeforeFinite, ExtractionAssumption
  <1>2. /\ Before(anchors, k + 1) = Before(anchors, k) \cup ({last} \ {0})
        /\ Cardinality(Before(anchors, k)) <= Cardinality(Before(anchors, k + 1))
        /\ Cardinality(Before(anchors, k + 1)) \in Nat
    <2>1. k + 1 \in Nat
      OBVIOUS
    <2>. QED  BY <2>1, BeforeFinite, BeforeGrows
  <1>3. DOMAIN kept \in SUBSET Before(anchors, k)
    <2>1. \A i \in 1 .. k : anchors[i][1] # 0 => anchors[i][1] \in Before(anchors, k)
      BY DEF Before
    <2>. QED  BY <2>1 DEF KeptOf, ReadOf
  <1>4. IsFiniteSet(DOMAIN kept) /\ Cardinality(DOMAIN kept) \in Nat
    BY <1>1, <1>3, FS_Subset, FS_CardinalityType
  <1>5. CASE Cardinality(DOMAIN kept) >= MaxLinks
    <2>1. next = kept
      BY <1>5 DEF AddLink
    <2>2. Cardinality(Before(anchors, k)) >= MaxLinks
      BY <1>5 DEF KeptOf
    <2>3. ReadOf(anchors, k + 1) = ReadOf(anchors, k)
      BY <1>1, <2>2, ReadGrows
    <2>4. Cardinality(Before(anchors, k + 1)) >= MaxLinks
      BY <1>1, <1>2, <2>2
    <2>. QED  BY <1>5, <2>1, <2>3, <2>4 DEF KeptOf, TextsOf
  <1>6. CASE ~(Cardinality(DOMAIN kept) >= MaxLinks)
    <2>1. DOMAIN kept = Before(anchors, k) /\ Cardinality(Before(anchors, k)) < MaxLinks
      <3>1. DOMAIN kept = Before(anchors, k)
        BY <1>6 DEF KeptOf
      <3>2. Cardinality(Before(anchors, k)) < MaxLinks
        BY <1>1, <1>6, <3>1
      <3>. QED  BY <3>1, <3>2
    <2>2. ReadOf(anchors, k + 1) = ReadOf(anchors, k) \cup {k + 1}
      BY <2>1, ReadGrows
    <2>3. DOMAIN next = DOMAIN kept \cup ({last} \ {0})
      BY <1>6 DEF AddLink
    <2>4. DOMAIN next = {anchors[i][1] : i \in ReadOf(anchors, k + 1)} \ {0}
      BY <2>2, <2>3 DEF KeptOf
    <2>5. DOMAIN next = Before(anchors, k + 1)
      BY <1>2, <2>1, <2>3
    <2>6. ASSUME NEW u \in DOMAIN next
          PROVE  next[u] = IF TextsOf(anchors, k + 1, u) = {} THEN 0
                           ELSE anchors[Min(TextsOf(anchors, k + 1, u))][2]
      <3>. DEFINE old == TextsOf(anchors, k, u)
                  new == TextsOf(anchors, k + 1, u)
      <3>1. u # 0 /\ old \in SUBSET (1 .. k) /\ old \in SUBSET Nat /\ k + 1 \in Nat
            /\ \A i \in old : anchors[i][1] = u /\ anchors[i][2] # 0
        BY <2>4 DEF TextsOf, ReadOf
      <3>2. new = old \cup (IF u = last /\ text # 0 THEN {k + 1} ELSE {})
        BY <2>2 DEF TextsOf
      <3>3. u \in DOMAIN kept => kept[u] = IF old = {} THEN 0 ELSE anchors[Min(old)][2]
        BY DEF KeptOf
      <3>4. u \notin DOMAIN kept => old = {}
        <4>1. \A i \in old : i \in ReadOf(anchors, k) /\ anchors[i][1] = u
          BY DEF TextsOf
        <4>. QED  BY <3>1, <4>1 DEF KeptOf
      <3>. HIDE DEF old, new
      <3>5. CASE u # last
        <4>1. u \in DOMAIN kept /\ next[u] = kept[u]
          BY <1>6, <2>3, <3>5 DEF AddLink
        <4>. QED  BY <3>2, <3>3, <3>5, <4>1 DEF old, new
      <3>6. CASE u = last
        <4>1. next[u] = IF u \notin DOMAIN kept THEN text ELSE IF kept[u] = 0 THEN text ELSE kept[u]
          BY <1>6, <2>3, <3>1, <3>6 DEF AddLink
        <4>2. CASE old = {}
          <5>1. next[u] = text
            BY <3>3, <4>1, <4>2
          <5>2. CASE text = 0
            BY <3>2, <4>2, <5>1, <5>2 DEF new
          <5>3. CASE text # 0
            <6>1. new = {k + 1}
              BY <3>2, <3>6, <4>2, <5>3
            <6>2. Min(new) = k + 1
              BY <3>1, <6>1, MinUnique
            <6>. QED  BY <5>1, <6>1, <6>2 DEF new
          <5>. QED  BY <5>2, <5>3
        <4>3. CASE old # {}
          <5>1. Min(old) \in old /\ \A i \in old : Min(old) <= i
            BY <3>1, <4>3, MinIsLeast
          <5>2. u \in DOMAIN kept /\ kept[u] = anchors[Min(old)][2] /\ kept[u] # 0
            BY <3>1, <3>3, <3>4, <4>3, <5>1
          <5>3. Min(new) = Min(old) /\ new # {}
            <6>1. Min(old) \in new /\ new \in SUBSET Nat
              BY <3>1, <3>2, <5>1
            <6>2. Min(old) \in 1 .. k
              BY <3>1, <5>1
            <6>3. Min(old) <= k + 1
              BY <6>2
            <6>4. \A i \in new : Min(old) <= i
              BY <3>2, <5>1, <6>3
            <6>. QED  BY <6>1, <6>4, MinUnique
          <5>. QED  BY <4>1, <5>2, <5>3 DEF new
        <4>. QED  BY <4>2, <4>3
      <3>. QED  BY <3>5, <3>6
    <2>. HIDE DEF next
    <2>. QED  BY <2>4, <2>5, <2>6 DEF KeptOf, next
  <1>. QED  BY <1>5, <1>6

\* Of the links of any page, however many and in whatever order, the first
\* destinations are kept, each with the first text it has among those that are read.
THEOREM LinksMatchHolds == \A anchors \in Seq(Anchors) : FirstLinksKept(anchors)
  <1>. SUFFICES ASSUME NEW anchors \in Seq(Anchors) PROVE FirstLinksKept(anchors)
    OBVIOUS
  <1>. DEFINE n == Len(anchors)
              fold == LinksFold(anchors)
              T == {k \in Nat : k <= n => KeptOf(anchors, k, fold[1 .. k])}
  <1>1. n \in Nat /\ DOMAIN anchors = 1 .. n
    OBVIOUS
  <1>. HIDE DEF n, fold
  <1>2. 0 \in T
    <2>1. fold[1 .. 0] = <<>> /\ 1 .. 0 = {}
      BY LinksFoldStep DEF fold
    <2>2. DOMAIN <<>> = {}
      OBVIOUS
    <2>3. KeptOf(anchors, 0, fold[1 .. 0])
      BY <2>1, <2>2 DEF KeptOf, Before, ReadOf
    <2>. QED  BY <2>3
  <1>3. ASSUME NEW k \in Nat, k \in T PROVE k + 1 \in T
    <2>. SUFFICES ASSUME k + 1 <= n PROVE KeptOf(anchors, k + 1, fold[1 .. k + 1])
      OBVIOUS
    <2>1. k <= n /\ k + 1 \in 1 .. n /\ (k + 1) - 1 = k
      BY <1>1
    <2>2. KeptOf(anchors, k, fold[1 .. k])
      BY <1>3, <2>1
    <2>3. fold[1 .. k + 1] = AddLink(fold[1 .. k], anchors[k + 1])
      BY <2>1, LinksFoldStep DEF fold, n
    <2>. QED  BY <2>2, <2>3, KeptLinksStep
  <1>4. KeptOf(anchors, n, fold[1 .. n])
    <2>1. Nat \subseteq T
      <3>. HIDE DEF T
      <3>. QED  BY <1>2, <1>3, SetInduction
    <2>. QED  BY <1>1, <2>1
  <1>5. OutboundLinks(anchors) = fold[1 .. n]
    BY <1>1, LinksFolded DEF fold
  <1>. QED  BY <1>1, <1>4, <1>5 DEF FirstLinksKept, KeptOf, ReadOf, TextsOf, Before

LEMMA LinksMatchAlways == LinksMatch
  <1>1. BoundedSeq(Anchors, MaxAnchors) \subseteq Seq(Anchors)
    <2>1. \A m : \A f \in [1 .. m -> Anchors] : m \in 0 .. MaxAnchors => f \in Seq(Anchors)
      OBVIOUS
    <2>2. \A f \in BoundedSeq(Anchors, MaxAnchors) : \E m \in 0 .. MaxAnchors : f \in [1 .. m -> Anchors]
      BY DEF BoundedSeq, SeqOf
    <2>. QED  BY <2>1, <2>2
  <1>. QED  BY <1>1, LinksMatchHolds DEF LinksMatch

LEMMA ExtractionInvTyped == ExtractionInv => ExtractionTypeOK
  BY LinksMatchAlways DEF ExtractionInv, AttemptRow, ExtractionTypeOK

===============================================================================
