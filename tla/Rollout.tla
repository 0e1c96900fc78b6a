-------------------------------- MODULE Rollout -------------------------------
(***************************************************************************)
(* A release going live: web and worker processes of several releases and  *)
(* settings overlap, run_worker registers its cluster in the cache, web    *)
(* answers the healthcheck, and deployment/wait_ready.py polls it.         *)
(***************************************************************************)
EXTENDS Integers, FiniteSets, FiniteSetsExt

CONSTANTS
    Releases,      \* release attempts: CITEGUILD_RELEASE with CITEGUILD_DEPLOYMENT_ID
    Settings,      \* public settings of a process, told apart by their fingerprint
    StableChecks,  \* accepted answers in a row: 6
    MaxPolls,      \* bound: polls before the deadline
    MaxProcesses   \* bound: web processes, and worker clusters, at a time

ASSUME RolloutAssumption ==
    /\ {StableChecks, MaxPolls, MaxProcesses} \subseteq Nat /\ StableChecks > 0

VARIABLES
    web,           \* web processes that answer
    clusters,      \* running Django Q clusters: registered yet, with a good and fresh status
    registration,  \* the cache entry: the process that last registered
    healthy,       \* whether the database, Redis and the collection are
    wait           \* the readiness wait of the rollout

rolloutVars == <<web, clusters, registration, healthy, wait>>

Processes == [release : Releases, settings : Settings]
NoWait == [at |-> "idle", release |-> CHOOSE r \in Releases : TRUE, worker |-> FALSE,
           stable |-> 0, polls |-> 0]
RolloutInit ==
    /\ web = {} /\ clusters = {} /\ registration = {} /\ healthy = TRUE /\ wait = NoWait

-----------------------------------------------------------------------------
(* Processes.                                                              *)

\* A web process starts to answer or stops; a dependency fails or recovers.
WebChanges ==
    /\ web' \in {web \cup {p} : p \in Processes} \cup {web \ {p} : p \in web}
    /\ web' # web /\ Cardinality(web') <= MaxProcesses
    /\ UNCHANGED <<clusters, registration, healthy, wait>>
HealthChanges == healthy' = ~healthy /\ UNCHANGED <<web, clusters, registration, wait>>

\* run_worker: the cluster starts, then registers over whatever is registered;
\* where the cache fails, the cluster is stopped again.
StartCluster(p) ==
    /\ \A k \in clusters : k.of # p
    /\ Cardinality(clusters) < MaxProcesses
    /\ clusters' = clusters \cup {[of |-> p, named |-> FALSE, fresh |-> TRUE]}
    /\ UNCHANGED <<web, registration, healthy, wait>>
Register(k) ==
    /\ ~k.named
    /\ \/ registration' = {k.of} /\ clusters' = (clusters \ {k}) \cup {[k EXCEPT !.named = TRUE]}
       \/ clusters' = clusters \ {k} /\ UNCHANGED registration
    /\ UNCHANGED <<web, healthy, wait>>

\* A cluster ends, its registration stays; or its status gets older than ten
\* seconds or lacks a process, or is good again.
EndCluster(k) == clusters' = clusters \ {k} /\ UNCHANGED <<web, registration, healthy, wait>>
StatusChanges(k) ==
    /\ clusters' = (clusters \ {k}) \cup {[k EXCEPT !.fresh = ~@]}
    /\ UNCHANGED <<web, registration, healthy, wait>>

-----------------------------------------------------------------------------
(* Answers.                                                                *)

\* Mutant: the registration is believed without a look at the cluster.
WorkerReadyMutant(p) == registration = {p}

\* worker_ready in process p: its own identity is registered, by a live cluster.
WorkerReady(p) ==
    registration = {p} /\ [of |-> p, named |-> TRUE, fresh |-> TRUE] \in clusters

\* The healthcheck of process p, good for the load balancer without a worker.
Healthcheck(p) == [release |-> p.release, healthy |-> healthy, worker |-> WorkerReady(p)]

\* payload_ready.
PayloadReady(payload) ==
    /\ payload.release = wait.release /\ payload.healthy
    /\ wait.worker => payload.worker

\* The wait of one release: for web first, and for its worker then.
StartWait ==
    /\ wait.at = "idle"
    /\ \E r \in Releases, worker \in BOOLEAN :
        wait' = [NoWait EXCEPT !.at = "polling", !.release = r, !.worker = worker]
    /\ UNCHANGED <<web, clusters, registration, healthy>>

\* A bad answer starts the count again.
StableCount(ready) == IF ready THEN wait.stable + 1 ELSE 0

\* A poll reaches one of the web processes, or fails.
Poll ==
    /\ wait.at = "polling" /\ wait.polls < MaxPolls
    /\ \E ready \in {PayloadReady(Healthcheck(p)) : p \in web} \cup {FALSE} :
        wait' = [wait EXCEPT !.polls = @ + 1, !.stable = StableCount(ready),
                             !.at = IF StableCount(ready) >= StableChecks THEN "ready" ELSE @]
    /\ UNCHANGED <<web, clusters, registration, healthy>>

\* The caller goes on; or the deadline has passed.
EndWait ==
    /\ wait.at = "ready" \/ wait.polls = MaxPolls
    /\ wait' = NoWait /\ UNCHANGED <<web, clusters, registration, healthy>>

RolloutNext ==
    \/ WebChanges \/ HealthChanges \/ (\E p \in Processes : StartCluster(p))
    \/ \E k \in clusters : Register(k) \/ EndCluster(k) \/ StatusChanges(k)
    \/ StartWait \/ Poll \/ EndWait

RolloutSpec == RolloutInit /\ [][RolloutNext]_rolloutVars

-----------------------------------------------------------------------------
(* Properties.                                                             *)

RolloutTypeOK ==
    /\ web \subseteq Processes /\ registration \in SUBSET Processes
    /\ clusters \subseteq [of : Processes, named : BOOLEAN, fresh : BOOLEAN]
    /\ wait.stable <= wait.polls /\ wait.polls <= MaxPolls

\* A rollout that is told its worker is ready has, at that poll, a web process of
\* its release and a running cluster with that release and those settings: a
\* registration that an older worker, or a dead one, left behind does not do.
ReadyMeansServing ==
    [][wait.at = "polling" /\ wait'.at = "ready" =>
        \E p \in web : /\ p.release = wait.release /\ healthy
                       /\ wait.worker => \E k \in clusters : k.of = p /\ k.fresh]_rolloutVars

=============================================================================
